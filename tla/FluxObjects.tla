---------------------------- MODULE FluxObjects ----------------------------
(***************************************************************************)
(* The object model of FluxVCS: chunks, blobs, trees and commits, and the  *)
(* history they form.  An object id is a hash of the object's content, so  *)
(* an object is modelled by its content and stands for its own id: two     *)
(* writes of the same content are the same object (the hash is assumed to  *)
(* have no collisions, and nothing refers to itself).                      *)
(***************************************************************************)
EXTENDS Naturals, Sequences, FiniteSets, Functions

(* No object: what a failed Result holds, for a ref or an entry that is not there. *)
None == [type |-> "none"]

---------------------------------------------------------------------------
(* Constructors.  A blob is the metadata object `flux add` stages: the list *)
(* of its chunk ids (one chunk is enough to tell whether one is missing).   *)
Chunk(d) == [type |-> "chunk", data |-> d]

Blob(d) == [type |-> "blob", chunk |-> Chunk(d)]

Tree(entries) == [type |-> "tree", entries |-> entries]

Commit(tree, parents, stamp) ==
    [type |-> "commit", tree |-> tree, parents |-> parents, stamp |-> stamp]

(* The objects an object names by id. *)
Deps(o) ==
    CASE o.type = "commit" -> {o.tree} \cup Range(o.parents)
      [] o.type = "tree"   -> Range(o.entries)
      [] o.type = "blob"   -> {o.chunk}
      [] OTHER             -> {}

---------------------------------------------------------------------------
(* Tree entries: partial functions from file names to blobs. *)
NoEntries == [n \in {} |-> None]

Entry(f, n) == IF n \in DOMAIN f THEN f[n] ELSE None

(* cmd_commit: the parent's entries, overlaid with the staged ones. *)
Overlay(base, staged) ==
    [n \in DOMAIN base \cup DOMAIN staged |->
        IF n \in DOMAIN staged THEN staged[n] ELSE base[n]]

---------------------------------------------------------------------------
(* Three-way merge of the entries of one directory. *)
Changed(b, x, n) == Entry(b, n) # Entry(x, n)

(* Both sides changed n and did not change it to the same entry.  Removing *)
(* n on both sides counts: the code asks for two entries that are equal.   *)
Conflict(b, o, t, n) ==
    /\ Changed(b, o, n)
    /\ Changed(b, t, n)
    /\ ~(n \in DOMAIN o \cap DOMAIN t /\ o[n] = t[n])

Mergeable(b, o, t) ==
    \/ o = t \/ b = o \/ b = t
    \/ \A n \in DOMAIN b \cup DOMAIN o \cup DOMAIN t : ~Conflict(b, o, t, n)

MergedEntry(b, o, t, n) ==
    IF Changed(b, t, n) /\ ~Changed(b, o, n) THEN Entry(t, n) ELSE Entry(o, n)

MergeEntries(b, o, t) ==
    LET names == DOMAIN b \cup DOMAIN o \cup DOMAIN t
    IN  CASE o = t -> o
          [] b = o -> t
          [] b = t -> o
          [] OTHER -> [n \in {m \in names : MergedEntry(b, o, t, m) # None} |->
                          MergedEntry(b, o, t, n)]

---------------------------------------------------------------------------
(* History.  Generation(c, lost)[i] is what a breadth-first walk from c     *)
(* reaches in i hops, when the commits in lost cannot be read: the walk gets *)
(* to them and no further.  The number of commits bounds the hops worth     *)
(* making.                                                                  *)
Generation(c, lost) ==
    LET level[i \in Nat] ==
            IF i = 0 THEN {c} ELSE UNION {Range(x.parents) : x \in level[i - 1] \ lost}
    IN  level

AncestorsWithin(c, hops, lost) == UNION {Generation(c, lost)[i] : i \in 0..hops}

(* find_merge_base walks from `right` until it meets an ancestor of `left`:  *)
(* it returns a common ancestor at the least number of hops from `right`.    *)
(* Which one of a tie depends on the order of the parents and is left open.  *)
MergeBases(left, right, hops, lost) ==
    LET inLeft(i) == Generation(right, lost)[i] \cap AncestorsWithin(left, hops, lost)
        first == {i \in 0..hops : inLeft(i) # {} /\ \A j \in 0..(i - 1) : inLeft(j) = {}}
    IN  UNION {inLeft(i) : i \in first}
=============================================================================
