------------------------------ MODULE MCUpkeep ------------------------------
(***************************************************************************)
(* The working tree and index (WorkTree) and the snapshots of the refs      *)
(* (Snapshots), for TLC.  A snapshot holds refs only and its restore does   *)
(* not touch the working tree, so the two share no state that either reads: *)
(* a behaviour is a behaviour of one of them, `part` says which, and the    *)
(* other stays in one initial state.                                        *)
(***************************************************************************)
EXTENDS MCWorkTree, MCSnapshots

VARIABLE part

UpkeepInit ==
    \/ part = "worktree" /\ SnapshotInit /\ WorkTreeInit
    \/ part = "snapshots" /\ algo = "sha256" /\ SnapshotInit /\ WorkTreeInit

UpkeepNext ==
    \/ part = "worktree" /\ WorkTreeNext /\ UNCHANGED <<part, snapvars>>
    \/ part = "snapshots" /\ SnapshotNext /\ UNCHANGED <<part, wtvars>>

UpkeepSpec == UpkeepInit /\ [][UpkeepNext]_<<part, wtvars, snapvars>>

UpkeepTypeOK == WorkTreeTypeOK /\ SnapshotTypeOK
=============================================================================
