--------------------------- MODULE MCProjectLock ---------------------------
(***************************************************************************)
(* Instances of ProjectLock for TLC.                                       *)
(***************************************************************************)
EXTENDS ProjectLock, TLC

CONSTANTS t1, t2, t3, t4, p1, p2, p3, p4, h1, h2

\* Every task in a process of its own, all on one host.
ThreeProcesses == (t1 :> p1) @@ (t2 :> p2) @@ (t3 :> p3)
OneHost == [p \in Pid |-> h1]

\* A fourth process on another host that shares the directory.
FourProcesses == ThreeProcesses @@ (t4 :> p4)
TwoHosts == [p \in Pid |-> IF p = p4 THEN h2 ELSE h1]

\* Everybody calls once; everybody once and one of them again.
CallOnce == [t \in Task |-> 1]
CallAgain == [CallOnce EXCEPT ![t1] = 2]
=============================================================================
