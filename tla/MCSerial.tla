------------------------------ MODULE MCSerial ------------------------------
(***************************************************************************)
(* FluxRepo for TLC with one process at a time, which may be killed        *)
(* between any two steps, and any number of times, as long as few contents *)
(* were added: what crashes leave in the store multiplies the states.      *)
(***************************************************************************)
EXTENDS MCFluxRepo

CONSTANT CrashContents    \* bound: the contents in the store of a crash

Dies(p) ==
    /\ Cardinality({d \in Data : Chunk(d) \in store}) <= CrashContents
    /\ Crash(p)

SerialNext == \E p \in Proc : CommandStep(p) \/ Dies(p)

SerialSpec == Init /\ [][SerialNext]_vars
=============================================================================
