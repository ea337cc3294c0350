---------------------------- MODULE MCDetection -----------------------------
(* Model-checking instance of Detection: the candidates of Windows.        *)
EXTENDS Detection

MCcandidates == <<"pwsh.exe", "powershell.exe">>
=============================================================================
