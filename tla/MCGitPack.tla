----------------------------- MODULE MCGitPack -----------------------------
(***************************************************************************)
(* Every pack of PackSize raw objects: whole ones with either of two       *)
(* payloads, deltas on an earlier object (or on no object: offset 0) and   *)
(* deltas on any object, earlier, later, in the store or nowhere, whose    *)
(* recorded size is that of their base or another.                         *)
(***************************************************************************)
EXTENDS GitPack

CONSTANTS PackSize, px, py, pd

Payloads == {px, py}

ContentsUpTo(n) == {<<p>> \o [i \in 1..k |-> pd] : p \in Payloads, k \in 0..(n - 1)}

Contents == ContentsUpTo(PackSize + 1)

DeltaBases == ContentsUpTo(PackSize - 1)

RawObjects(i) ==
    [kind : {"whole"}, data : Payloads] \cup
    [kind : {"offset"}, base : 0..(i - 1), size : 1..(PackSize - 1), data : {pd}] \cup
    [kind : {"id"}, base : DeltaBases, size : 1..(PackSize - 1), data : {pd}]

AllPacks == {p \in [1..PackSize -> UNION {RawObjects(i) : i \in 1..PackSize}] : \A i \in 1..PackSize : p[i] \in RawObjects(i)}

SomeStores == {{}, {<<px>>}}
=============================================================================
