--------------------------- MODULE MemoryRegister ---------------------------
(***************************************************************************)
(* What the memory store promises to its callers: the memory is one value  *)
(* that mutations change one at a time; a mutation that was reported       *)
(* committed stays part of it, and one that was reported as anything else  *)
(* never becomes part of it.  The value is represented by the set of the   *)
(* mutations it was computed from.  MemoryStore, the two STATE.json        *)
(* candidates of memory/store.ts, implements this module.                  *)
(***************************************************************************)
CONSTANTS Op         \* mutations, one for each call of mutateMemory

VARIABLES memory,    \* the mutations the memory was computed from
          acked,     \* reported as committed
          refused    \* reported as not committed

registerVars == <<memory, acked, refused>>

Init == memory = {} /\ acked = {} /\ refused = {}

Commit(o) ==
    /\ o \notin memory \cup acked \cup refused
    /\ memory' = memory \cup {o}
    /\ UNCHANGED <<acked, refused>>

Acknowledge(o) ==
    /\ o \in memory \ refused
    /\ acked' = acked \cup {o}
    /\ UNCHANGED <<memory, refused>>

Refuse(o) ==
    /\ o \notin memory \cup acked
    /\ refused' = refused \cup {o}
    /\ UNCHANGED <<memory, acked>>

Next == \E o \in Op : Commit(o) \/ Acknowledge(o) \/ Refuse(o)

Spec == Init /\ [][Next]_registerVars
=============================================================================
