--------------------------- MODULE MCMemoryStore ---------------------------
(***************************************************************************)
(* Instances of MemoryStore for TLC.                                       *)
(***************************************************************************)
EXTENDS MemoryStore, TLC

CONSTANTS t1, t2, t3, p1, p2

\* One task in each process.
OneEach == (t1 :> p1) @@ (t2 :> p2)

\* Two tasks of one process and one of another.
SharedProcess == (t1 :> p1) @@ (t2 :> p1) @@ (t3 :> p2)

\* Every task reads and mutates.
AnyUse == [t \in Task |-> CallKind]

\* Every task only mutates.
Mutators == [t \in Task |-> {"mutate"}]

\* The first task reads, the others mutate.
OneReader == [t \in Task |-> IF t = t1 THEN {"read"} ELSE {"mutate"}]
=============================================================================
