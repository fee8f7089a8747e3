---------------------------- MODULE MCIntegrity ----------------------------
(***************************************************************************)
(* Every graph of the commits with up to two parents each, cycles and all, *)
(* a tree of one blob that is every commit's, the commit c1 loose,         *)
(* packed or missing, and two refs, on different commits if both are on     *)
(* one (c2 and c3, and two refs, can be exchanged).                         *)
(***************************************************************************)
EXTENDS Integrity, FiniteSets, SequencesExt

CONSTANTS c1, c2, c3, t, b, r1, r2

Commits == {c1, c2, c3}

ParentPairs == {SetToSeq(ps) : ps \in {ps \in SUBSET Commits : Cardinality(ps) <= 2}}

Named(id) == IF id \in Commits THEN <<t>> ELSE IF id = t THEN <<b>> ELSE <<>>

TypeOf(id) == IF id \in Commits THEN "commit" ELSE IF id = t THEN "tree" ELSE "blob"

AllObjects ==
    {[id \in Id |-> [type |-> TypeOf(id), names |-> Named(id),
                     parents |-> IF id \in Commits THEN f[id] ELSE <<>>]] :
         f \in [Commits -> ParentPairs]}

SomePlaces ==
    {[id \in Id |-> "loose"]} \cup
    {[id \in Id |-> IF id = c1 THEN where ELSE "loose"] : where \in {"packed", "missing"}}

ToCommit(c) == [kind |-> "direct", id |-> c]

TwoRefs ==
    {f \in [{r1, r2} -> RefValues] :
        /\ f[r1] \in {ToCommit(c1), ToCommit(c2), [kind |-> "symbolic", target |-> r2]}
        /\ f[r2] \in {ToCommit(c3), [kind |-> "symbolic", target |-> r1], [kind |-> "unreadable"]}}
=============================================================================
