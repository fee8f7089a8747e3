---------------------------- MODULE MCMergeBase ----------------------------
(***************************************************************************)
(* Every history of N commits, numbered so that parents come first, with   *)
(* at most two different parents each; and the histories flux itself makes, *)
(* whose one root is commit 1 and whose merges join two branches neither of *)
(* which contains the other (flux merge makes no commit of such a pair).    *)
(***************************************************************************)
EXTENDS MergeBase

CONSTANT N

Numbers == 1..N

ParentLists(n) == {p \in UNION {[1..k -> 1..n] : k \in 0..2} : IsInjective(p)}

AllHistories ==
    LET grow[n \in 0..N] ==
            IF n = 0 THEN {<<>>}
            ELSE {Append(h, p) : h \in grow[n - 1], p \in ParentLists(n - 1)}
    IN  grow[N]

Lineage(h) ==
    LET line[i \in Numbers] == {i} \cup UNION {line[d] : d \in Range(h[i])}
    IN  line

Apart(h, p) ==
    Len(p) = 2 => p[1] \notin Lineage(h)[p[2]] /\ p[2] \notin Lineage(h)[p[1]]

FluxHistories ==
    {h \in AllHistories : \A i \in Numbers : (h[i] = <<>> <=> i = 1) /\ Apart(h, h[i])}

---------------------------------------------------------------------------
(* The same history as objects, as FluxRepo has it. *)
Flux == INSTANCE FluxObjects

ObjectOf ==
    LET object[i \in Numbers] ==
            Flux!Commit(Flux!None,
                        [k \in DOMAIN parents[i] |-> object[parents[i][k]]],
                        i)
    IN  object

(* find_merge_base returns what FluxRepo's merge takes for a merge base: a *)
(* common ancestor at the least number of hops from `right`.                *)
ReturnsMergeBase ==
    pc = "done" =>
        LET bases == Flux!MergeBases(ObjectOf[left], ObjectOf[right], N, {})
        IN  IF base = NoCommit THEN bases = {} ELSE base \in {c.stamp : c \in bases}
=============================================================================
