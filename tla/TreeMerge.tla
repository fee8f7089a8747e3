----------------------------- MODULE TreeMerge -----------------------------
(***************************************************************************)
(* Repository::merge_trees: the three-way merge of trees, directory by     *)
(* directory.  A tree is a partial function from names to entries, an      *)
(* entry a mode and an id; as ids are hashes of contents, a file's id is   *)
(* its contents and a directory's id is its tree.  The trees are chosen in *)
(* the initial state; the merge is one step, since it reads only immutable *)
(* objects and writes only objects that nothing names yet.                 *)
(***************************************************************************)
EXTENDS Naturals, FiniteSets, Sequences, SequencesExt, Functions

CONSTANTS
    Trees,         \* the trees a commit may have
    Directories,   \* the trees of their directories
    MaxDepth,      \* bound: directories in directories
    Depth,         \* tree -> how deep the directories in it go
    Formats,       \* the formats trees may be stored in: "flux", "git"
    NullId         \* the null ObjectId: there is no such tree to read

VARIABLES format, ancestor, ours, theirs, result

treevars == <<format, ancestor, ours, theirs, result>>

---------------------------------------------------------------------------
Ok(tree) == [ok |-> TRUE, tree |-> tree]

(* "Conflict detected in ...", "Failed to read trees for merge". *)
Failed == [ok |-> FALSE]

Pending == [ok |-> FALSE, pending |-> TRUE]

(* No entry of that name: a null pointer. *)
Absent == [mode |-> "absent"]

IsDirectory(e) == e.mode = "directory"

AnyTree == Trees \cup Directories

Names == UNION {DOMAIN tree : tree \in AnyTree}

(* An id is a hash of what is in the tree, so no directory is in itself.   *)
ASSUME TreesAssumption ==
    /\ NullId \notin AnyTree
    /\ MaxDepth \in Nat
    /\ Depth \in [AnyTree -> 0..MaxDepth]
    /\ \A tree \in AnyTree : \A n \in DOMAIN tree :
           /\ tree[n] = [mode |-> tree[n].mode, id |-> tree[n].id]
           /\ tree[n].mode # "absent"
           /\ IsDirectory(tree[n]) =>
                  tree[n].id \in Directories /\ Depth[tree[n].id] < Depth[tree]

(* Tree::deserialize.  The Git format knows directories and files: every   *)
(* other mode is read, and written again, as that of a regular file.        *)
Seen(e) == IF format = "git" /\ ~IsDirectory(e) THEN [e EXCEPT !.mode = "regular"] ELSE e

EntryOf(tree, n) == IF n \in DOMAIN tree THEN Seen(tree[n]) ELSE Absent

(* Mutant: the base directory is not handed down to the recursive merge. *)
SubBaseForgotten(b) == NullId

SubBase(b) == IF IsDirectory(b) THEN b.id ELSE NullId

(* Mutants: with both sides changed ours is kept, in every case or in that *)
(* of two directories.                                                      *)
BothChangedOurs(o, t, sub) == Ok(o)

BothChangedUnmerged(o, t, sub) ==
    IF o = t \/ (IsDirectory(o) /\ IsDirectory(t)) THEN Ok(o) ELSE Failed

(* Both sides changed an entry; sub is the merge of the two directories.   *)
(* Removing it on both sides is not changing it to the same thing.          *)
BothChanged(o, t, sub) ==
    CASE o # Absent /\ o = t -> Ok(o)
      [] o # t /\ IsDirectory(o) /\ IsDirectory(t) /\ sub.ok ->
            Ok([mode |-> "directory", id |-> sub.tree])
      [] OTHER -> Failed

(* The entries of a name, as the base and the sides have it; `merges` has  *)
(* the merges of directories.                                              *)
MergeEntry(merges, b, o, t) ==
    CASE b = t -> Ok(o)
      [] b = o -> Ok(t)
      [] OTHER -> BothChanged(o, t,
                      IF IsDirectory(o) /\ IsDirectory(t) THEN merges[<<SubBase(b), o.id, t.id>>]
                      ELSE Failed)

MergeOf(merges, b, o, t) ==
    CASE o = t -> Ok(o)
      [] b = o -> Ok(t)
      [] b = t -> Ok(o)
      [] b = NullId /\ o # t -> Failed
      [] OTHER ->
            LET names == DOMAIN b \cup DOMAIN o \cup DOMAIN t
                merged == [n \in names |->
                              MergeEntry(merges, EntryOf(b, n), EntryOf(o, n), EntryOf(t, n))]
            IN  IF \E n \in names : ~merged[n].ok THEN Failed
                ELSE Ok([n \in {m \in names : merged[m].tree # Absent} |-> merged[n].tree])

MergeTrees[call \in (AnyTree \cup {NullId}) \X AnyTree \X AnyTree] ==
    MergeOf(MergeTrees, call[1], call[2], call[3])

TreesInit ==
    /\ format \in Formats
    /\ ancestor \in Trees
    /\ ours \in Trees
    /\ theirs \in Trees
    /\ result = Pending

Merge ==
    /\ result = Pending
    /\ result' = MergeTrees[<<ancestor, ours, theirs>>]
    /\ UNCHANGED <<format, ancestor, ours, theirs>>

TreesSpec == TreesInit /\ [][Merge]_treevars

---------------------------------------------------------------------------
(* The reference: what a tree has at a path, as the format lets Flux see it. *)
Paths == BoundedSeq(Names, MaxDepth + 1)

Root(tree) == [mode |-> "directory", id |-> tree]

Child(e, n) == IF IsDirectory(e) THEN EntryOf(e.id, n) ELSE Absent

Along(tree, p) ==
    LET entry[k \in 0..Len(p)] == IF k = 0 THEN Root(tree) ELSE Child(entry[k - 1], p[k])
    IN  entry

EntryAt(tree, p) == Along(tree, p)[Len(p)]

FileAt(tree, p) == LET e == EntryAt(tree, p) IN IF IsDirectory(e) THEN Absent ELSE e

(* The three-way rule: the side that changed wins, and both may have made  *)
(* the same change.                                                         *)
ThreeWay(b, o, t, r) ==
    \/ o = t /\ r = o
    \/ b = o /\ r = t
    \/ b = t /\ r = o

(* A merge that succeeds loses no change of either side: every file, in    *)
(* whatever directory, is what the side that changed it made of it, so far *)
(* as the format lets Flux see the change.                                  *)
MergeKeepsChanges ==
    result.ok =>
        \A p \in Paths :
            ThreeWay(FileAt(ancestor, p), FileAt(ours, p), FileAt(theirs, p), FileAt(result.tree, p))

(* Ours and theirs can be exchanged: the branch a merge is made on does    *)
(* not change whether it succeeds, or its tree.                             *)
MergeIsSymmetric ==
    result # Pending => MergeTrees[<<ancestor, theirs, ours>>] = result

(* Both sides changed what is at p, where it could not be merged: it was   *)
(* removed twice from directories that differ, or changed to different      *)
(* ends where not all three are directories.                               *)
Conflict(p) ==
    LET was == EntryAt(ancestor, p)
        our == EntryAt(ours, p)
        their == EntryAt(theirs, p)
    IN  /\ p # <<>>
        /\ was # our /\ was # their
        /\ \/ our = Absent /\ their = Absent /\ EntryAt(ours, Front(p)) # EntryAt(theirs, Front(p))
           \/ our # their /\ ~(IsDirectory(was) /\ IsDirectory(our) /\ IsDirectory(their))

(* A merge fails where there is such a path, and only there: whatever else *)
(* two sides do to the files of a tree merges.                              *)
FailuresExplained ==
    result # Pending => (~result.ok <=> \E p \in Paths : Conflict(p))
=============================================================================
