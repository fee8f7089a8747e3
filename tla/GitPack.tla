------------------------------ MODULE GitPack ------------------------------
(***************************************************************************)
(* Unpacking what a git server sends (GitPackUnpacker): a pack is a list   *)
(* of raw objects, each one whole or a delta on a base that is found by    *)
(* its offset in the pack or by its id.  A base named by id may come later *)
(* in the pack, or be in the object store already, so resolve_and_store    *)
(* goes over the list again and again, until a pass stores nothing new.    *)
(*                                                                         *)
(* An object is its content and stands for its id: <<p, d1, d2>> is the    *)
(* payload p (type and bytes) with the deltas d1 and d2 applied.  Of the   *)
(* format of a delta, what is kept is the size it expects its base to have. *)
(***************************************************************************)
EXTENDS Naturals, Sequences, Functions

CONSTANTS
    Content,     \* the contents objects may have: nonempty sequences
    Packs,       \* the packs received: sequences of raw objects
    Stores,      \* what the object store may hold before
    WriteFails   \* BOOLEAN: may ObjectStore::write fail?

(* A raw object, as read_object leaves it. *)
Kinds == {"whole", "offset", "id"}

IsRawObject(o) ==
    /\ o.kind \in Kinds
    /\ o.kind = "whole"  => <<o.data>> \in Content
    /\ o.kind # "whole"  => o.size \in Nat
    /\ o.kind = "id"     => o.base \in Content

(* Applying a delta to a content gives a content. *)
ASSUME PackAssumption ==
    /\ Stores \subseteq SUBSET Content
    /\ \A p \in Packs : /\ p \in Seq(Range(p))
                        /\ \A i \in DOMAIN p : IsRawObject(p[i])
    /\ \A c \in Content : c \in Seq(Range(c))
    /\ \A p \in Packs : \A i \in DOMAIN p : \A c \in Content :
          p[i].kind # "whole" /\ Len(c) = p[i].size => Append(c, p[i].data) \in Content
    /\ WriteFails \in BOOLEAN

VARIABLES
    pack,       \* raw_objects
    before,     \* the object store when unpack was called
    store,      \* the object store
    cache,      \* cache: the objects resolved so far, by their place in the pack
    at,         \* the raw object the pass has come to
    progress,   \* progress: has the pass stored anything?
    step          \* "pass" (the test of the outer loop), "object", and the results
                \*   "done", "incomplete" (Resolved only ...), "failed"

unpackvars == <<pack, before, store, cache, at, progress, step>>

---------------------------------------------------------------------------
NothingResolved == [i \in {} |-> <<>>]

UnpackInit ==
    /\ pack \in Packs
    /\ before \in Stores
    /\ store = before
    /\ cache = NothingResolved
    /\ at = 1
    /\ progress = TRUE
    /\ step = "pass"

Unresolved == DOMAIN pack \ DOMAIN cache

(* Mutant: an id is not looked up among the objects of the pack. *)
BasesBefore(o) ==
    CASE o.kind = "whole"  -> {}
      [] o.kind = "offset" -> {cache[i] : i \in {o.base} \cap DOMAIN cache}
      [] o.kind = "id"     -> {o.base} \cap before

(* The base a delta may be applied to now: none, if it is not resolved yet  *)
(* (or no object starts at that offset).                                    *)
Bases(o) ==
    CASE o.kind = "whole"  -> {}
      [] o.kind = "offset" -> {cache[i] : i \in {o.base} \cap DOMAIN cache}
      [] o.kind = "id"     -> {o.base} \cap store

Ready(o) == o.kind = "whole" \/ Bases(o) # {}

(* Mutant: the sizes are not compared. *)
FitsAnything(o) == TRUE

(* apply_delta: the base has the size the delta was made for. *)
Fits(o) == \A b \in Bases(o) : Len(b) = o.size

Resolved(o) == IF o.kind = "whole" THEN {<<o.data>>} ELSE {Append(b, o.data) : b \in Bases(o)}

---------------------------------------------------------------------------
First == 1

(* while (progress && resolved_count < objects.size()) *)
NextPass ==
    /\ step = "pass"
    /\ progress
    /\ Unresolved # {}
    /\ progress' = FALSE
    /\ at' = First
    /\ step' = "object"
    /\ UNCHANGED <<pack, before, store, cache>>

LastPass == ~progress \/ Unresolved = {}

Finish ==
    /\ step = "pass"
    /\ LastPass
    /\ step' = IF Unresolved = {} THEN "done" ELSE "incomplete"
    /\ UNCHANGED <<pack, before, store, cache, at, progress>>

(* An object resolved in an earlier pass, or whose base is not there yet. *)
Skip ==
    /\ step = "object"
    /\ at \in DOMAIN pack
    /\ at \in DOMAIN cache \/ ~Ready(pack[at])
    /\ at' = at + 1
    /\ UNCHANGED <<pack, before, store, cache, progress, step>>

(* Mutant: what a pass stores is not noted, so that one pass is made. *)
NotNoted == FALSE

Noted == TRUE

Resolve ==
    /\ step = "object"
    /\ at \in Unresolved
    /\ Ready(pack[at])
    /\ Fits(pack[at])
    /\ \E c \in Resolved(pack[at]) :
         /\ store' = store \cup {c}
         /\ cache' = [i \in DOMAIN cache \cup {at} |-> IF i = at THEN c ELSE cache[i]]
    /\ at' = at + 1
    /\ progress' = Noted
    /\ UNCHANGED <<pack, before, step>>

(* A delta that does not fit its base, or a write that fails, ends it all. *)
Fail ==
    /\ step = "object"
    /\ at \in Unresolved
    /\ Ready(pack[at])
    /\ ~Fits(pack[at]) \/ WriteFails
    /\ step' = "failed"
    /\ UNCHANGED <<pack, before, store, cache, at, progress>>

EndPass ==
    /\ step = "object"
    /\ at \notin DOMAIN pack
    /\ step' = "pass"
    /\ UNCHANGED <<pack, before, store, cache, at, progress>>

UnpackNext == NextPass \/ Skip \/ Resolve \/ Fail \/ EndPass \/ Finish

(* resolve_and_store is one sequential loop: it goes on as long as it can. *)
UnpackSpec == UnpackInit /\ [][UnpackNext]_unpackvars /\ WF_unpackvars(UnpackNext)

---------------------------------------------------------------------------
UnpackTypeOK ==
    /\ pack \in Packs
    /\ before \in Stores
    /\ store \subseteq Content
    /\ cache \in [DOMAIN cache -> store]
    /\ DOMAIN cache \subseteq DOMAIN pack
    /\ at \in 1..(Len(pack) + 1)
    /\ progress \in BOOLEAN
    /\ step \in {"pass", "object", "done", "incomplete", "failed"}

(* Object o of the pack has content c: c is what o holds, or o's delta      *)
(* applied to a base of the right size, where o says it is.                 *)
Describes(o, c) ==
    CASE o.kind = "whole"  -> c = <<o.data>>
      [] o.kind = "offset" -> /\ o.base \in DOMAIN cache
                              /\ Len(cache[o.base]) = o.size
                              /\ c = Append(cache[o.base], o.data)
      [] o.kind = "id"     -> /\ o.base \in store
                              /\ Len(o.base) = o.size
                              /\ c = Append(o.base, o.data)

(* Whenever unpacking stops, half-way through a failed write or a broken    *)
(* delta included, the store has gained objects the pack describes and      *)
(* nothing else: no delta is ever taken for an object or applied to the     *)
(* wrong base, in whatever order the deltas and their bases come.           *)
ObjectsDescribed ==
    /\ store = before \cup Range(cache)
    /\ \A i \in DOMAIN cache : Describes(pack[i], cache[i])

(* An object is given up only when it cannot be had: unpack reports that it *)
(* resolved all of the pack, or it is left with deltas whose bases are      *)
(* neither in the store nor among the objects it has resolved.              *)
MissingBase(o) ==
    \/ o.kind = "offset" /\ o.base \notin DOMAIN cache
    \/ o.kind = "id" /\ o.base \notin store

GivesUpWhenStuck ==
    /\ step = "done" => Unresolved = {}
    /\ step = "incomplete" => Unresolved # {} /\ \A i \in Unresolved : MissingBase(pack[i])

(* The reference: what a pack describes, found by following chains of       *)
(* deltas of growing length, without passes or an order.  Longer gives the  *)
(* objects of the pack p, each with its place, whose bases are stored or    *)
(* among those in links.                                                    *)
Longer(p, stored, links) ==
    LET known == stored \cup {d[2] : d \in links}
        bases(o) == {b \in known : /\ Len(b) = o.size
                                  /\ IF o.kind = "offset" THEN <<o.base, b>> \in links
                                                          ELSE b = o.base}
        contents(o) == IF o.kind = "whole" THEN {<<o.data>>} ELSE {Append(b, o.data) : b \in bases(o)}
    IN  UNION {{i} \X contents(p[i]) : i \in DOMAIN p}

Chains(p, stored) ==
    LET chain[n \in Nat] == IF n = 0 THEN {} ELSE Longer(p, stored, chain[n - 1])
    IN  chain

Described == Chains(pack, before)[Len(pack)]

(* A pack that does not fail yields exactly what it describes: the passes   *)
(* of resolve_and_store reach the longest chain of deltas, backwards too.   *)
ResolvesDescribed ==
    step \in {"done", "incomplete"} => {<<i, cache[i]>> : i \in DOMAIN cache} = Described

(* The passes come to an end. *)
UnpackEnds == <>(step \in {"done", "incomplete", "failed"})
=============================================================================
