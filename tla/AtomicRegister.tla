--------------------------- MODULE AtomicRegister ---------------------------
(***************************************************************************)
(* What Filesystem::write_file and read_file promise of one file: it holds *)
(* a value or nothing, a write replaces it at once, and a read returns the *)
(* value the file had when the read began.                                 *)
(***************************************************************************)
CONSTANTS Value, Reader, Nothing

VARIABLES value, reading, got

register == <<value, reading, got>>

Init ==
    /\ value = Nothing
    /\ reading = [r \in Reader |-> Nothing]
    /\ got = [r \in Reader |-> Nothing]

Put ==
    /\ \E v \in Value : value' = v
    /\ UNCHANGED <<reading, got>>

BeginGet(r) ==
    /\ value # Nothing
    /\ reading[r] = Nothing
    /\ reading' = [reading EXCEPT ![r] = value]
    /\ UNCHANGED <<value, got>>

EndGet(r) ==
    /\ reading[r] # Nothing
    /\ got' = [got EXCEPT ![r] = reading[r]]
    /\ reading' = [reading EXCEPT ![r] = Nothing]
    /\ UNCHANGED value

Next == Put \/ \E r \in Reader : BeginGet(r) \/ EndGet(r)

Spec == Init /\ [][Next]_register
=============================================================================
