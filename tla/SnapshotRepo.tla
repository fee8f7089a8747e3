---------------------------- MODULE SnapshotRepo ----------------------------
(***************************************************************************)
(* What a FluxVCS repository promises its user, without objects, hashes,   *)
(* references or steps: branches with files, a current branch, and files   *)
(* staged for it.  Each command takes effect at once.                      *)
(***************************************************************************)
EXTENDS FluxObjects

CONSTANTS Name, Data, Branch, Main

VARIABLES
    files,    \* the branches that have a commit -> the files of each
    current,  \* the branch commands work on
    staged    \* the files added since the last commit

state == <<files, current, staged>>

Born(b) == b \in DOMAIN files

FilesOf(b) == IF Born(b) THEN files[b] ELSE NoEntries

Put(b, f) == files' = Overlay(files, [x \in {b} |-> f])

(* Nothing yet, or what was cloned. *)
Init ==
    /\ \/ files = [b \in {} |-> NoEntries]
       \/ \E n \in Name, d \in Data : files = [b \in {Main} |-> [m \in {n} |-> Blob(d)]]
    /\ current = Main
    /\ staged = NoEntries

(* flux add *)
Add(n, d) ==
    /\ staged' = Overlay(staged, [m \in {n} |-> Blob(d)])
    /\ UNCHANGED <<files, current>>

(* flux commit: the branch gets the staged files and keeps all its others. *)
Publish ==
    /\ DOMAIN staged # {}
    /\ Put(current, Overlay(FilesOf(current), staged))
    /\ UNCHANGED <<current, staged>>

(* The end of flux commit: forget what is staged, once the branch has it. *)
Unstage ==
    /\ Born(current)
    /\ files[current] = Overlay(files[current], staged)
    /\ staged' = NoEntries
    /\ UNCHANGED <<files, current>>

(* flux branch *)
Fork(b) ==
    /\ Born(current)
    /\ Put(b, files[current])
    /\ UNCHANGED <<current, staged>>

(* flux checkout *)
Switch(b) ==
    /\ Born(b)
    /\ current' = b
    /\ UNCHANGED <<files, staged>>

(* flux merge: each file, or its absence, is that of one of the two sides. *)
Merge(b) ==
    /\ Born(current) /\ Born(b)
    /\ \E names \in SUBSET Name :
         LET side(n) == IF n \in names THEN files[b] ELSE files[current]
         IN  Put(current, [n \in {m \in Name : m \in DOMAIN side(m)} |-> side(n)[n]])
    /\ UNCHANGED <<current, staged>>

Next ==
    \/ \E n \in Name, d \in Data : Add(n, d)
    \/ Publish
    \/ Unstage
    \/ \E b \in Branch : Fork(b) \/ Switch(b) \/ Merge(b)

Spec == Init /\ [][Next]_state
=============================================================================
