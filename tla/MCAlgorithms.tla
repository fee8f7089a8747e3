---------------------------- MODULE MCAlgorithms ----------------------------
(***************************************************************************)
(* The sequential algorithms that read immutable objects, for TLC: the      *)
(* merge base, the merge of trees, the unpacking of a Git pack and the      *)
(* checks of flux fsck.  They share no state, and a behaviour is a run of   *)
(* one of them: `part` says which, and the others stay in one initial state *)
(* (the walk of the merge base in one that is already over).                *)
(***************************************************************************)
EXTENDS MCMergeBase, MCTreeMerge, MCGitPack, MCIntegrity

VARIABLE part

IdleBase == left = 1 /\ right = 2 /\ parents = [c \in Numbers |-> <<>>] /\ Init

IdleTrees == format = "flux" /\ ancestor = <<>> /\ ours = <<>> /\ theirs = <<>> /\ TreesInit

IdleUnpack ==
    pack = [i \in 1..PackSize |-> [kind |-> "whole", data |-> px]] /\ before = {} /\ UnpackInit

IdleFsck ==
    /\ object = [id \in Id |-> [type |-> TypeOf(id), names |-> Named(id), parents |-> <<>>]]
    /\ place = [id \in Id |-> "loose"]
    /\ ref = [r \in {r1, r2} |-> ToCommit(IF r = r1 THEN c1 ELSE c3)]
    /\ IntegrityInit

AlgorithmsInit ==
    \/ part = "base" /\ IdleTrees /\ IdleUnpack /\ IdleFsck /\ Init
    \/ part = "trees" /\ IdleBase /\ IdleUnpack /\ IdleFsck /\ TreesInit
    \/ part = "unpack" /\ IdleBase /\ IdleTrees /\ IdleFsck /\ UnpackInit
    \/ part = "fsck" /\ IdleBase /\ IdleTrees /\ IdleUnpack /\ IntegrityInit

BaseStep == part = "base" /\ Next /\ UNCHANGED <<part, treevars, unpackvars, integrityvars>>

TreesStep == part = "trees" /\ Merge /\ UNCHANGED <<part, vars, unpackvars, integrityvars>>

UnpackStep == part = "unpack" /\ UnpackNext /\ UNCHANGED <<part, vars, treevars, integrityvars>>

FsckStep == part = "fsck" /\ CheckStep /\ UNCHANGED <<part, vars, treevars, unpackvars>>

RepairStep == part = "fsck" /\ Repair /\ UNCHANGED <<part, vars, treevars, unpackvars>>

AlgorithmsNext == BaseStep \/ TreesStep \/ UnpackStep \/ FsckStep \/ RepairStep

allvars == <<part, vars, treevars, unpackvars, integrityvars>>

(* Each is sequential code, which goes on as long as it can; no command    *)
(* ever makes a repair.                                                     *)
AlgorithmsSpec ==
    /\ AlgorithmsInit /\ [][AlgorithmsNext]_allvars
    /\ WF_allvars(BaseStep) /\ WF_allvars(UnpackStep) /\ WF_allvars(FsckStep)

(* The two walks over the history, the passes over a pack and the checks   *)
(* of fsck come to an end, on histories with cycles (which only fsck        *)
(* meets) and packs with deltas that cannot be resolved too.                *)
AlgorithmsEnd ==
    /\ part = "base" => Terminates
    /\ part = "unpack" => UnpackEnds
    /\ part = "fsck" => ChecksEnd
=============================================================================
