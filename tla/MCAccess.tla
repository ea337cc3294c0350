------------------------------ MODULE MCAccess ------------------------------
(* The constants of Access that a configuration file cannot write: u is a  *)
(* Global Administrator, v comes with the group g and without it.          *)
EXTENDS Access

CONSTANTS u, v, g, rep, area, tenant

From(name, groups, wids) ==
  [name |-> name,
   blob |-> [upn |-> name, groups |-> groups, wids |-> wids, overage |-> FALSE]]

MCRequests == {From(u, {}, TRUE), From(v, {g}, FALSE), From(v, {}, FALSE)}
MCAreaOf == [r \in Reports |-> area]
MCSeeded == {tenant}
MCPickReports == {[areas |-> {area}, ids |-> {}], [areas |-> {}, ids |-> {}]}
=============================================================================
