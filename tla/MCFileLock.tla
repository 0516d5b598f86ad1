----------------------------- MODULE MCFileLock -----------------------------
(* Instances of FileLock for TLC: s1 and s2 in different processes of one  *)
(* host, s3 in a process that reuses the number of p1.                     *)
EXTENDS FileLock, TLC

CONSTANTS s1, s2, s3, p1, p2, p3, h1, n1, n2

Sessions == {s1, s2, s3}
Procs == {p1, p2, p3}
MCProcOf == s1 :> p1 @@ s2 :> p2 @@ s3 :> p3
ReusedPid == p1 :> n1 @@ p2 :> n2 @@ p3 :> n1
OneHost == p1 :> h1 @@ p2 :> h1 @@ p3 :> h1

AllPoints == Points
=============================================================================
