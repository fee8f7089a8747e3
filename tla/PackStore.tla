----------------------------- MODULE PackStore -----------------------------
(***************************************************************************)
(* ObjectStore over loose files and flux's own pack files.  Objects are    *)
(* packed by PackFile::create_from_objects; the loose files of the objects *)
(* it reports in the pack may then be removed, which is what               *)
(* tests/core/test_pack_integration.cpp does.                              *)
(*                                                                         *)
(*   loose    the ids of the loose objects                                 *)
(*   written  the ids ever written                                         *)
(*   data     pack -> the contents in its file, one after the other        *)
(*   index    pack -> the records of its index file: an id, and the place  *)
(*            of its contents in the pack file                             *)
(*   job      instance of ObjectStore -> the packing it is doing           *)
(*   loaded   instance -> the indexes it read when it was made             *)
(*   packed   the ids that are in a pack create_from_objects returned      *)
(*                                                                         *)
(* The contents of an object are its id.  A pack is named after the time,  *)
(* in milliseconds: names are taken to be fresh.                           *)
(***************************************************************************)
EXTENDS Naturals, Sequences

CONSTANTS
    Id,
    Sha256,        \* the ids with a SHA-256 hash
    Lists,         \* what callers give to create_from_objects
    Pack,          \* names of packs
    Instance       \* instances of ObjectStore

ASSUME PackAssumption == Sha256 \subseteq Id /\ Lists \subseteq Seq(Id)

VARIABLES loose, written, data, index, job, loaded, packed

packvars == <<loose, written, data, index, job, loaded, packed>>

Record == [id : Id, at : Nat]
Jobs == [pc : {"read", "index", "rest"}, pack : Pack, todo : Seq(Id),
         got : Seq([id : Id, holds : Id])]
NotPacking == [pc |-> "idle"]
Closed == <<>>

RecordsOK(records, contents) ==
    \A i \in DOMAIN records :
        records[i] \in Record /\ records[i].at \in DOMAIN contents

---------------------------------------------------------------------------
(* PackFile::load_index takes every hash for one of 32 bytes: what follows *)
(* the first shorter one is read at the wrong offsets, as ids of nothing.  *)
Loaded(records) ==
    [i \in {j \in DOMAIN records : \A k \in 1..j : records[k].id \in Sha256}
        |-> records[i]]

(* Mutant: counted from 0, a record finds the contents before its own. *)
RecordsShifted(list) ==
    [i \in DOMAIN list |->
        [id |-> list[i].id, at |-> IF i = 1 THEN 1 ELSE i - 1]]

(* write_pack_file lists the objects in the order it writes them. *)
Records(list) == [i \in DOMAIN list |-> [id |-> list[i].id, at |-> i]]

(* What the index file may hold when its writer is interrupted: some whole *)
(* records, then at most an id whose offset is missing; load_index does    *)
(* not see the end of the file, and takes any value for that offset.       *)
Torn(records) ==
    {SubSeq(records, 1, k) : k \in 0..Len(records)} \cup
    UNION {{Append(SubSeq(records, 1, k - 1), [id |-> records[k].id, at |-> n]) :
                n \in DOMAIN records} : k \in DOMAIN records}

(* A pack's map keeps the last of the records of an id. *)
PlacesOf(records, id) == {i \in DOMAIN records : records[i].id = id}
LastOf(records, id) ==
    {i \in PlacesOf(records, id) : \A j \in PlacesOf(records, id) : j <= i}

(* ObjectStore::read: the loose object, or what the first pack known to    *)
(* this instance finds for the id; the directory lists packs in any order. *)
Contents(s, id) ==
    IF id \in loose THEN {id}
    ELSE UNION {{data[p][loaded[s][p][i].at] : i \in LastOf(loaded[s][p], id)} :
                    p \in DOMAIN loaded[s]}

---------------------------------------------------------------------------
PackInit ==
    /\ loose = {} /\ written = {} /\ packed = {}
    /\ data = Closed /\ index = Closed
    /\ job = [s \in Instance |-> NotPacking]
    /\ loaded = [s \in Instance |-> Closed]

(* ObjectStore::write: exists() looks for a loose object only. *)
WriteLoose(id) ==
    /\ id \notin loose
    /\ loose' = loose \cup {id} /\ written' = written \cup {id}
    /\ UNCHANGED <<data, index, job, loaded, packed>>

(* ObjectStore::remove, of an object that is packed. *)
RemoveLoose(id) ==
    /\ id \in packed \cap loose
    /\ loose' = loose \ {id}
    /\ UNCHANGED <<written, data, index, job, loaded, packed>>

(* The constructor of ObjectStore loads the packs that have an index. *)
OpenStore(s) ==
    /\ job[s] = NotPacking
    /\ loaded' = [loaded EXCEPT ![s] = [p \in DOMAIN index |-> Loaded(index[p])]]
    /\ UNCHANGED <<loose, written, data, index, job, packed>>

(* create_from_objects names the pack after the time. *)
PackBegin(s, list) ==
    /\ job[s] = NotPacking
    /\ \E p \in Pack \ DOMAIN data :
        /\ \A t \in Instance : job[t].pc # "idle" => job[t].pack # p
        /\ job' = [job EXCEPT ![s] =
              [pc |-> "read", pack |-> p, todo |-> list, got |-> <<>>]]
    /\ UNCHANGED <<loose, written, data, index, loaded, packed>>

(* Mutant: a failed read ends the packing, with the object counted in. *)
PackReadAll(s) ==
    /\ job[s].pc = "read" /\ job[s].todo # <<>>
    /\ LET id == Head(job[s].todo)
       IN job' = [job EXCEPT ![s].todo = Tail(@),
                             ![s].got = Append(@, [id |-> id, holds |-> id])]
    /\ UNCHANGED <<loose, written, data, index, loaded, packed>>

(* One object is read; one that cannot be read is left out. *)
PackRead(s) ==
    /\ job[s].pc = "read" /\ job[s].todo # <<>>
    /\ LET id == Head(job[s].todo)
           read == {[id |-> id, holds |-> c] : c \in Contents(s, id)}
       IN \E got \in IF read = {} THEN {job[s].got}
                     ELSE {Append(job[s].got, r) : r \in read} :
            job' = [job EXCEPT ![s].todo = Tail(@), ![s].got = got]
    /\ UNCHANGED <<loose, written, data, index, loaded, packed>>

(* Mutant: an object is reported packed before the index is written. *)
PackWriteReported(s) ==
    /\ job[s].pc = "read" /\ job[s].todo = <<>>
    /\ LET p == job[s].pack IN
        data' = [q \in DOMAIN data \cup {p} |->
            IF q = p THEN [i \in DOMAIN job[s].got |-> job[s].got[i].holds]
            ELSE data[q]]
    /\ packed' = packed \cup {job[s].got[i].id : i \in DOMAIN job[s].got}
    /\ job' = [job EXCEPT ![s].pc = "index"]
    /\ UNCHANGED <<loose, written, index, loaded>>

(* write_pack_file. *)
PackWrite(s) ==
    /\ job[s].pc = "read" /\ job[s].todo = <<>>
    /\ LET p == job[s].pack IN
        data' = [q \in DOMAIN data \cup {p} |->
            IF q = p THEN [i \in DOMAIN job[s].got |-> job[s].got[i].holds]
            ELSE data[q]]
    /\ job' = [job EXCEPT ![s].pc = "index"]
    /\ UNCHANGED <<loose, written, index, loaded, packed>>

(* save_index writes the index in place: while it does so, the file holds  *)
(* a part of it.                                                           *)
WithIndex(p, records) ==
    [q \in DOMAIN index \cup {p} |-> IF q = p THEN records ELSE index[q]]

IndexPart(s) ==
    /\ job[s].pc = "index"
    /\ \E records \in Torn(Records(job[s].got)) :
        index' = WithIndex(job[s].pack, records)
    /\ job' = [job EXCEPT ![s].pc = "rest"]
    /\ UNCHANGED <<loose, written, data, loaded, packed>>

IndexWhole(s) ==
    /\ job[s].pc = "rest"
    /\ index' = WithIndex(job[s].pack, Records(job[s].got))
    /\ packed' = packed \cup {job[s].got[i].id : i \in DOMAIN job[s].got}
    /\ job' = [job EXCEPT ![s] = NotPacking]
    /\ UNCHANGED <<loose, written, data, loaded>>

PackCrash(s) ==
    /\ job[s] # NotPacking
    /\ job' = [job EXCEPT ![s] = NotPacking]
    /\ loaded' = [loaded EXCEPT ![s] = Closed]
    /\ UNCHANGED <<loose, written, data, index, packed>>

PackNext ==
    \/ \E id \in Id : WriteLoose(id) \/ RemoveLoose(id)
    \/ \E s \in Instance :
        \/ OpenStore(s)
        \/ \E list \in Lists : PackBegin(s, list)
        \/ PackRead(s) \/ PackWrite(s) \/ IndexPart(s) \/ IndexWhole(s)
        \/ PackCrash(s)

PackSpec == PackInit /\ [][PackNext]_packvars

---------------------------------------------------------------------------
(* Type invariant: what is loose, packed, in a pack or in a job are ids of *)
(* objects that were written, and no record points outside of its pack.    *)
PackTypeOK ==
    /\ loose \subseteq written /\ packed \subseteq written
    /\ written \subseteq Id
    /\ DOMAIN data \subseteq Pack /\ DOMAIN index \subseteq DOMAIN data
    /\ \A p \in DOMAIN data : data[p] \in Seq(written)
    /\ \A p \in DOMAIN index : RecordsOK(index[p], data[p])
    /\ job \in [Instance -> {NotPacking} \cup Jobs]
    /\ \A s \in Instance : DOMAIN loaded[s] \subseteq DOMAIN index
    /\ \A s \in Instance : \A p \in DOMAIN loaded[s] :
        RecordsOK(loaded[s][p], data[p])

(* An object whose record load_index misreads: its hash, or the hash in a  *)
(* record before it, is not of 32 bytes.                                   *)
Misread(records, id) ==
    \E i \in PlacesOf(records, id) : \E j \in 1..i : records[j].id \notin Sha256

(* Every record a store made now reads for the id has the right contents. *)
Kept(records, contents, id) ==
    /\ PlacesOf(Loaded(records), id) # {}
    /\ \A i \in PlacesOf(Loaded(records), id) : contents[records[i].at] = id

(* No sequence of writes, packings, removals of what was packed, and       *)
(* crashes loses an object: it is loose, or there is a pack whose index    *)
(* finds its contents, or one whose index holds it among hashes that are   *)
(* not of 32 bytes.  Index files that a crash cut short may be around.     *)
NothingLost ==
    \A id \in written \ loose :
        \E p \in DOMAIN index :
            Kept(index[p], data[p], id) \/ Misread(index[p], id)
=============================================================================
