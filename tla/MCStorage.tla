----------------------------- MODULE MCStorage -----------------------------
(***************************************************************************)
(* What keeps data on the disk below the object model, for TLC: a file      *)
(* written whole (AtomicFile), Flux's pack files (PackStore), the cache of  *)
(* objects (ObjectCache), the write-ahead log (Wal) and the configuration   *)
(* (Settings).  They share no state, and a behaviour is a behaviour of one  *)
(* of them: `part` says which, and the others stay in one initial state.    *)
(*                                                                         *)
(* Of the remotes, one's name reads back as itself, one's as the former's,  *)
(* and one's line is not understood.                                        *)
(***************************************************************************)
EXTENDS MCAtomicFile, PackStore, ObjectCache, Wal, Settings, TLC

VARIABLE part

PackLists == {<<"a", "b">>, <<"b", "b">>, <<"c", "a">>}

NamesRead == [n \in Remote |->
    CASE n = "origin.url" -> "origin" [] n = "a=b" -> None [] OTHER -> n]

OrderRead == {<<"origin", "origin.url">>}

(* The commands on the configuration are interchangeable. *)
Interchangeable == Permutations(Proc)

(* An empty file, and one with what two commands wrote in it. *)
GarbledFiles ==
    {Fresh("sha256"),
     [Fresh("sha1") EXCEPT !.name = "ann", !.remotes = [n \in {"origin"} |-> "v"]]}

StorageInit ==
    /\ part \in {"file", "packs", "cache", "wal", "settings"}
    /\ Init /\ PackInit /\ CacheInit /\ WalInit /\ SettingsInit

FileStep == part = "file" /\ Next /\ UNCHANGED <<part, packvars, cachevars, walvars, setvars>>

PackStep == part = "packs" /\ PackNext /\ UNCHANGED <<part, vars, cachevars, walvars, setvars>>

CacheStep == part = "cache" /\ CacheNext /\ UNCHANGED <<part, vars, packvars, walvars, setvars>>

WalStep == part = "wal" /\ WalNext /\ UNCHANGED <<part, vars, packvars, cachevars, setvars>>

SettingsStep == part = "settings" /\ SettingsNext /\ UNCHANGED <<part, vars, packvars, cachevars, walvars>>

StorageNext == FileStep \/ PackStep \/ CacheStep \/ WalStep \/ SettingsStep

StorageSpec ==
    StorageInit /\ [][StorageNext]_<<part, vars, packvars, cachevars, walvars, setvars>>

(* The type invariants of the five; the file's is the one that says why    *)
(* one writer is safe.                                                      *)
StorageTypeOK == PrivateTemp /\ PackTypeOK /\ CacheTypeOK /\ WalTypeOK /\ SettingsTypeOK
=============================================================================
