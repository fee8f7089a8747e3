----------------------------- MODULE Snapshots -----------------------------
(***************************************************************************)
(* flux snapshot create and restore, and Snapshot::prune_old, beside       *)
(* commands that move branches.  A snapshot is made of the refs one at a   *)
(* time, and put back one file at a time.                                  *)
(*                                                                         *)
(*   files      the directory refs/heads: name -> what is there            *)
(*   snapshots  the directory snapshots: a file has the id of its name,    *)
(*              whether it is still write_file's temporary, whether all of *)
(*              it is written, the time and the refs that are read from    *)
(*              it; `began` is for the properties: the branches there when *)
(*              it was begun                                               *)
(*   job        process -> the command it runs                             *)
(*   clock      the time in milliseconds; a snapshot's id is when it began *)
(*                                                                         *)
(* A branch whose name has a slash is in a directory of refs/heads, the    *)
(* one called Folder.  write_file puts a ref into <name>.tmp and renames   *)
(* it; for a ref the open, the write and the close are one step here       *)
(* (AtomicFile takes them apart), and a crash in them may leave the        *)
(* temporary torn.  A snapshot's own file is opened and written in steps   *)
(* of their own.                                                           *)
(***************************************************************************)
EXTENDS Naturals, Sequences, Functions, FiniteSets

CONSTANTS
    NameOrder,     \* the names of files in refs/heads, in name order
    TempOf,        \* name -> the name of its temporary, where that is followed
    Flat, Folder,  \* the branches without a slash; the directory of the others
    Tip,           \* commits a branch may name
    Absent, Torn, Invalid, \* no file; an unreadable one; one with the null id
    Subdir,     \* what Folder is once a branch with a slash is made
    Writer, Maker, \* the processes that write refs and that make snapshots
    Second, Hour,  \* in milliseconds
    MaxAge,        \* hours prune_old keeps
    MaxTime, MaxSnapshots  \* bounds: the clock, the snapshots

Name == Range(NameOrder)

Proc == Writer \cup Maker

Before(m, n) ==
    \E i, j \in DOMAIN NameOrder : i < j /\ NameOrder[i] = m /\ NameOrder[j] = n

(* A temporary's name is its file's with ".tmp" at the end, and so after   *)
(* it; no branch is called like a temporary.                               *)
ASSUME NamesAssumption ==
    /\ \A i, j \in DOMAIN NameOrder : NameOrder[i] = NameOrder[j] => i = j
    /\ DOMAIN NameOrder \subseteq Nat
    /\ DOMAIN TempOf \subseteq Name /\ Flat \subseteq Name
    /\ Folder \in DOMAIN TempOf \ Flat
    /\ \A n \in DOMAIN TempOf : Before(n, TempOf[n]) /\ TempOf[n] \notin Flat \cup DOMAIN TempOf
    /\ \A m, n \in DOMAIN TempOf : TempOf[m] = TempOf[n] => m = n

ASSUME SnapshotAssumption ==
    /\ Absent \notin Tip \cup {Torn, Invalid, Subdir}
    /\ Tip \cap {Torn, Invalid, Subdir} = {} /\ Subdir \notin {Torn, Invalid}
    /\ {Second, Hour} \subseteq Nat \ {0}
    /\ {MaxAge, MaxTime, MaxSnapshots} \subseteq Nat

VARIABLES files, snapshots, job, clock

snapvars == <<files, snapshots, job, clock>>

---------------------------------------------------------------------------
NoJob == [pc |-> "none"]

Running(p, pc) == job[p].pc = pc

SnapshotInit ==
    /\ files = [n \in Name |-> Absent]
    /\ snapshots = {}
    /\ job = [p \in Proc |-> NoJob]
    /\ clock = 1

(* The jobs after p wrote a file: a restore is no longer alone. *)
Seen(p, next) ==
    [q \in Proc |-> IF q = p THEN next
                    ELSE IF job[q].pc \in {"restoring", "restored"} THEN [job[q] EXCEPT !.alone = FALSE]
                    ELSE job[q]]

(* write_file(n): the temporary is written, then renamed to n.  A rename   *)
(* fails when the temporary is gone or n is a directory, and then leaves   *)
(* the temporary.  The temporary of a temporary is not followed.           *)
HasTemp(n) == n \in DOMAIN TempOf

(* Mutant: the file is written in place. *)
PlacedInPlace(n, v) == [files EXCEPT ![n] = Torn]

Placed(n, v) == IF HasTemp(n) THEN [files EXCEPT ![TempOf[n]] = v] ELSE files

CanRename(n) == files[n] # Subdir /\ (HasTemp(n) => files[TempOf[n]] # Absent)

Renamed(n, v) ==
    IF HasTemp(n) THEN [files EXCEPT ![n] = files[TempOf[n]], ![TempOf[n]] = Absent]
    ELSE [files EXCEPT ![n] = v]

---------------------------------------------------------------------------
(* A command moves or makes a branch. *)
MoveBranch(p, n, v) ==
    /\ Running(p, "none")
    /\ files[n] # v
    /\ files' = Placed(n, v)
    /\ job' = Seen(p, [pc |-> "moving", name |-> n, value |-> v])
    /\ UNCHANGED <<snapshots, clock>>

MoveRename(p) ==
    /\ Running(p, "moving")
    /\ files' = IF CanRename(job[p].name) THEN Renamed(job[p].name, job[p].value) ELSE files
    /\ job' = Seen(p, NoJob)
    /\ UNCHANGED <<snapshots, clock>>

MakeNested ==
    /\ files[Folder] = Absent
    /\ files' = [files EXCEPT ![Folder] = Subdir]
    /\ UNCHANGED <<snapshots, job, clock>>

---------------------------------------------------------------------------
(* Snapshot::create: the time, and the names in the directory. *)
Listed == {n \in Name : files[n] # Absent}

Create(p) ==
    /\ Running(p, "none")
    /\ Cardinality(snapshots) < MaxSnapshots
    /\ job' = [job EXCEPT ![p] = [pc |-> "creating", id |-> clock, todo |-> Listed, refs |-> <<>>,
                                  began |-> {n \in Flat : files[n] # Absent}]]
    /\ UNCHANGED <<files, snapshots, clock>>

(* The id saved for a ref: the null id if it cannot be read. *)
SavedOf(n) == IF files[n] \in Tip THEN files[n] ELSE Invalid

Saved(refs, n) == [m \in DOMAIN refs \cup {n} |-> IF m = n THEN SavedOf(n) ELSE refs[m]]

(* The names come in the directory's order, which may be any.  Opening a   *)
(* directory to read it fails on some file systems and throws on others.   *)
CreateRead(p) ==
    /\ Running(p, "creating")
    /\ \E n \in job[p].todo :
         \/ job' = [job EXCEPT ![p].todo = @ \ {n}, ![p].refs = Saved(@, n)]
         \/ /\ files[n] = Subdir
            /\ job' = [job EXCEPT ![p] = NoJob]
    /\ UNCHANGED <<files, snapshots, clock>>

SnapshotTemp(id) == {s \in snapshots : s.id = id /\ s.temp}

(* What can be read when a first part of the file is there: lines cut off  *)
(* before the time read as the time 0, and the refs, saved in name order,  *)
(* are those of the whole lines.                                           *)
FirstPart(D, refs) ==
    D \subseteq DOMAIN refs /\ \A m, n \in DOMAIN refs : n \in D /\ Before(m, n) => m \in D

OnlyOf(D, refs) == [n \in D |-> refs[n]]

(* A file of which a part is written already is a snapshot to load and to  *)
(* list: no line of it has to be there.                                    *)
CreateOpen(p) ==
    /\ Running(p, "creating") /\ job[p].todo = {}
    /\ \E time \in {0, job[p].id}, D \in SUBSET DOMAIN job[p].refs :
         /\ FirstPart(D, job[p].refs) /\ (time = 0 => D = {})
         /\ snapshots' = (snapshots \ SnapshotTemp(job[p].id)) \cup
                {[id |-> job[p].id, temp |-> TRUE, whole |-> FALSE, time |-> time,
                  refs |-> OnlyOf(D, job[p].refs), began |-> job[p].began]}
    /\ job' = [job EXCEPT ![p].pc = "writing"]
    /\ UNCHANGED <<files, clock>>

(* The rest is written and the file closed; prune_old may have unlinked it. *)
CreateWrite(p) ==
    /\ Running(p, "writing")
    /\ LET temp == SnapshotTemp(job[p].id)
       IN  snapshots' = (snapshots \ temp) \cup
               {[s EXCEPT !.whole = TRUE, !.time = s.id, !.refs = job[p].refs, !.began = job[p].began] : s \in temp}
    /\ job' = [job EXCEPT ![p] = [pc |-> "saving", id |-> job[p].id]]
    /\ UNCHANGED <<files, clock>>

CreateRename(p) ==
    /\ Running(p, "saving")
    /\ LET temp == SnapshotTemp(job[p].id)
       IN  snapshots' = IF temp = {} THEN snapshots
                        ELSE {s \in snapshots : s.id # job[p].id} \cup {[s EXCEPT !.temp = FALSE] : s \in temp}
    /\ job' = [job EXCEPT ![p] = NoJob]
    /\ UNCHANGED <<files, clock>>

---------------------------------------------------------------------------
(* Mutant: the names are gone through from the last to the first. *)
NextBackwards(todo) == {n \in todo : \A m \in todo : ~Before(n, m)}

(* The map of saved refs is gone through in name order: the first is next. *)
NextOf(todo) == {n \in todo : \A m \in todo : ~Before(m, n)}

Restored(p) == [pc |-> "restored", refs |-> job[p].refs, alone |-> job[p].alone]

(* flux snapshot restore: the first file listed with that id, a            *)
(* temporary left by a crash among them.                                   *)
Restore(p, s) ==
    /\ Running(p, "none")
    /\ s.refs # <<>>
    /\ job' = [job EXCEPT ![p] = [pc |-> "restoring", refs |-> s.refs, todo |-> DOMAIN s.refs,
                                  placed |-> FALSE, alone |-> TRUE]]
    /\ UNCHANGED <<files, snapshots, clock>>

RestorePlace(p) ==
    /\ Running(p, "restoring") /\ ~job[p].placed
    /\ \E n \in NextOf(job[p].todo) : files' = Placed(n, job[p].refs[n])
    /\ job' = Seen(p, [job[p] EXCEPT !.placed = TRUE])
    /\ UNCHANGED <<snapshots, clock>>

(* The first ref that cannot be written ends the restore. *)
AfterFailed(p) == NoJob

RestoreRename(p) ==
    /\ Running(p, "restoring") /\ job[p].placed
    /\ \E n \in NextOf(job[p].todo) :
         IF CanRename(n)
         THEN /\ files' = Renamed(n, job[p].refs[n])
              /\ job' = Seen(p, IF job[p].todo = {n} THEN Restored(p)
                                ELSE [job[p] EXCEPT !.todo = @ \ {n}, !.placed = FALSE])
         ELSE files' = files /\ job' = Seen(p, AfterFailed(p))
    /\ UNCHANGED <<snapshots, clock>>

RestoreEnd(p) ==
    /\ Running(p, "restored")
    /\ job' = [job EXCEPT ![p] = NoJob]
    /\ UNCHANGED <<files, snapshots, clock>>

---------------------------------------------------------------------------
(* The time is saved in seconds, the age taken in whole hours. *)
AgeInHours(s) == (clock - (s.time \div Second) * Second) \div Hour

(* Snapshot::prune_old, which no command calls. *)
Prune ==
    /\ \E s \in snapshots : AgeInHours(s) > MaxAge
    /\ snapshots' = {s \in snapshots : AgeInHours(s) <= MaxAge}
    /\ UNCHANGED <<files, job, clock>>

(* The process is killed, or a write fails; the file it was writing may be *)
(* torn: a ref's temporary here, a snapshot's as CreateOpen left it.       *)
SnapshotCrash(p) ==
    /\ ~Running(p, "none")
    /\ job' = [job EXCEPT ![p] = NoJob]
    /\ \/ UNCHANGED files
       \/ /\ Running(p, "moving") /\ HasTemp(job[p].name)
          /\ files' = [files EXCEPT ![TempOf[job[p].name]] = Torn]
       \/ /\ Running(p, "restoring") /\ job[p].placed
          /\ \E n \in NextOf(job[p].todo) : HasTemp(n) /\ files' = [files EXCEPT ![TempOf[n]] = Torn]
    /\ UNCHANGED <<snapshots, clock>>

Tick ==
    /\ clock < MaxTime
    /\ clock' = clock + 1
    /\ UNCHANGED <<files, snapshots, job>>

SnapshotNext ==
    \/ \E p \in Writer :
         \/ \E n \in Flat, v \in Tip : MoveBranch(p, n, v)
         \/ \E s \in snapshots : Restore(p, s)
         \/ MoveRename(p)
         \/ RestorePlace(p) \/ RestoreRename(p) \/ RestoreEnd(p)
    \/ \E p \in Maker : Create(p) \/ CreateRead(p) \/ CreateOpen(p) \/ CreateWrite(p) \/ CreateRename(p)
    \/ \E p \in Proc : SnapshotCrash(p)
    \/ MakeNested
    \/ Prune
    \/ Tick

SnapshotSpec == SnapshotInit /\ [][SnapshotNext]_snapvars

---------------------------------------------------------------------------
SnapshotTypeOK ==
    /\ \A n \in Name : files[n] \in Tip \cup {Absent, Torn, Invalid} \cup (IF n = Folder THEN {Subdir} ELSE {})
    /\ \A s \in snapshots :
         /\ s.id \in 1..clock /\ {s.temp, s.whole} \subseteq BOOLEAN /\ s.time \in {0, s.id}
         /\ DOMAIN s.refs \subseteq Name /\ Range(s.refs) \subseteq Tip \cup {Invalid}
    /\ \A p \in Proc :
         job[p].pc \in {"none", "moving", "creating", "writing", "saving", "restoring", "restored"}

(* No two processes write the file of one snapshot at once, as they do when *)
(* both were begun in one millisecond: its temporary would be shared.       *)
MakersApart ==
    \A p, q \in Maker :
        job[p].pc \in {"writing", "saving"} /\ job[q].pc \in {"writing", "saving"}
        /\ job[p].id = job[q].id => p = q

(* A snapshot has every branch without a slash that was there when it was  *)
(* begun, and for each a commit: never the null id of a ref that could not *)
(* be read.  Only a temporary, where a crash left it or while it is        *)
(* written, may be without them.  (Snapshot::create, RefStore::list,       *)
(* write_file)                                                             *)
BranchesCaptured ==
    \A s \in snapshots :
        (s.temp /\ ~s.whole) \/ \A b \in s.began : b \in DOMAIN s.refs /\ s.refs[b] \in Tip

(* A restore that nothing else disturbs leaves every ref as it was saved,  *)
(* whatever restores and moves were killed half-way before it and whatever *)
(* temporaries they left.  (Snapshot::restore)                              *)
RestoreLands ==
    \A p \in Proc :
        Running(p, "restored") /\ job[p].alone =>
            \A n \in DOMAIN job[p].refs : files[n] = job[p].refs[n]

(* "Capture all references" (snapshot.cpp): a restore puts every branch    *)
(* back, whatever their names.                                              *)
RestoreReachesAll ==
    [][\A p \in Proc : RestoreRename(p) /\ job[p].alone =>
           \A n \in NextOf(job[p].todo) : CanRename(n)]_snapvars
=============================================================================
