---------------------------- MODULE ObjectCache ----------------------------
(***************************************************************************)
(* LRUCache, the cache of objects by their ids: a map, and a list of its   *)
(* keys in the order of their last use.  get, put and clear hold a mutex   *)
(* from their first step to their last, so each is one action here.        *)
(*                                                                         *)
(*   list    access_list_                                                  *)
(*   map     cache_: key -> value                                          *)
(*   recent  history, not in the code: every key put since the last clear, *)
(*           with its value, in the order of their last use                *)
(*                                                                         *)
(* A put into a cache of capacity 0 takes the last element of an empty     *)
(* list, which is undefined: the capacity is taken to be positive.  The    *)
(* hit and miss counters are left out.                                     *)
(***************************************************************************)
EXTENDS Naturals, Sequences

CONSTANTS Key, Val, Capacity

ASSUME CacheAssumption == Capacity \in Nat \ {0}

VARIABLES list, map, recent

cachevars == <<list, map, recent>>

---------------------------------------------------------------------------
(* access_list_.splice(access_list_.begin(), ...): the one at i is first. *)
ToFront(seq, i) ==
    [j \in DOMAIN seq |-> IF j = 1 THEN seq[i] ELSE IF j <= i THEN seq[j - 1] ELSE seq[j]]

PlaceOf(k) == CHOOSE i \in DOMAIN list : list[i] = k

Used(k, v) ==
    LET entry  == [key |-> k, val |-> v]
        places == {i \in DOMAIN recent : recent[i].key = k}
    IN  IF places = {} THEN <<entry>> \o recent
        ELSE [ToFront(recent, CHOOSE i \in places : TRUE) EXCEPT ![1] = entry]

CacheInit == list = <<>> /\ map = <<>> /\ recent = <<>>

(* Mutant: a hit does not count as a use. *)
GetQuiet(k) ==
    /\ k \in DOMAIN map
    /\ recent' = Used(k, map[k])
    /\ UNCHANGED <<list, map>>

(* get: a miss changes nothing. *)
Get(k) ==
    /\ k \in DOMAIN map
    /\ list' = ToFront(list, PlaceOf(k))
    /\ recent' = Used(k, map[k])
    /\ UNCHANGED map

(* A new key in a full cache evicts the one used longest ago. *)
Evicted == IF Len(list) >= Capacity THEN {list[Len(list)]} ELSE {}

Remaining == SubSeq(list, 1, IF Len(list) >= Capacity THEN Len(list) - 1 ELSE Len(list))

PutNew(k, v) ==
    /\ k \notin DOMAIN map
    /\ list' = <<k>> \o Remaining
    /\ map' = [j \in (DOMAIN map \ Evicted) \cup {k} |-> IF j = k THEN v ELSE map[j]]
    /\ recent' = Used(k, v)

(* Mutant: a key that is there keeps its old value. *)
PutKeeps(k, v) ==
    /\ k \in DOMAIN map
    /\ list' = ToFront(list, PlaceOf(k))
    /\ recent' = Used(k, v)
    /\ UNCHANGED map

PutAgain(k, v) ==
    /\ k \in DOMAIN map
    /\ map' = [map EXCEPT ![k] = v]
    /\ list' = ToFront(list, PlaceOf(k))
    /\ recent' = Used(k, v)

Clear == list' = <<>> /\ map' = <<>> /\ recent' = <<>>

CacheNext ==
    \/ \E k \in Key : Get(k)
    \/ \E k \in Key, v \in Val : PutNew(k, v) \/ PutAgain(k, v)
    \/ Clear

CacheSpec == CacheInit /\ [][CacheNext]_cachevars

---------------------------------------------------------------------------
(* Type invariant: the list names each key of the map once, and no more    *)
(* keys than the capacity.                                                 *)
CacheTypeOK ==
    /\ list \in Seq(Key) /\ Len(list) <= Capacity
    /\ DOMAIN map = {list[i] : i \in DOMAIN list}
    /\ \A i, j \in DOMAIN list : list[i] = list[j] => i = j
    /\ \A k \in DOMAIN map : map[k] \in Val

(* What the cache holds is the part of an unbounded cache that was used    *)
(* last: as many keys as fit, in that order, each with the value put last, *)
(* whatever was evicted and put again in between.                          *)
KeepsMostRecent ==
    /\ Len(list) = IF Len(recent) < Capacity THEN Len(recent) ELSE Capacity
    /\ \A i \in DOMAIN list :
        recent[i] = [key |-> list[i], val |-> map[list[i]]]
=============================================================================
