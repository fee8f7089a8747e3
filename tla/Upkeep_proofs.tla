--------------------------- MODULE Upkeep_proofs ---------------------------
(***************************************************************************)
(* Theorems about WorkTree, for any names, trees, contents, paths and      *)
(* bounds; about Snapshots, for any names, commits, snapshots, processes    *)
(* that make snapshots, and ages; and about the two together.  Of Snapshots *)
(* one process at a time writes refs: with two, the temporaries they share  *)
(* mix what they write; and what is said of the snapshots made, that no two *)
(* write one snapshot's file at once.                                      *)
(***************************************************************************)
EXTENDS MCUpkeep, SequenceTheorems, NaturalsInduction, WellFoundedInduction, TLAPS

---------------------------------------------------------------------------
(* Snapshots. *)
OneWriter == \A p, q \in Writer : p = q

(* Two names in name order. *)
LEMMA OrderIs ==
  /\ \A m, n \in Name : m = n \/ Before(m, n) \/ Before(n, m)
  /\ \A m, n : ~(Before(m, n) /\ Before(n, m))
<1>1. ASSUME NEW m \in Name, NEW n \in Name PROVE m = n \/ Before(m, n) \/ Before(n, m)
  <2>1. PICK i \in DOMAIN NameOrder, j \in DOMAIN NameOrder : NameOrder[i] = m /\ NameOrder[j] = n
    BY DEF Name, Range
  <2>2. i \in Nat /\ j \in Nat
    BY NamesAssumption
  <2> QED
    BY <2>1, <2>2 DEF Before
<1>2. ASSUME NEW m, NEW n, Before(m, n), Before(n, m) PROVE FALSE
  <2>1. PICK i \in DOMAIN NameOrder, j \in DOMAIN NameOrder :
            i < j /\ NameOrder[i] = m /\ NameOrder[j] = n
    BY <1>2 DEF Before
  <2>2. PICK k \in DOMAIN NameOrder, l \in DOMAIN NameOrder :
            k < l /\ NameOrder[k] = n /\ NameOrder[l] = m
    BY <1>2 DEF Before
  <2>3. i = l /\ j = k
    BY <2>1, <2>2, NamesAssumption
  <2>4. i \in Nat /\ j \in Nat
    BY NamesAssumption
  <2> QED
    BY <2>1, <2>2, <2>3, <2>4
<1> QED
  BY <1>1, <1>2

(* A temporary is a name of its own: after its file's, nobody else's.      *)
LEMMA TempIs ==
  ASSUME NEW n \in DOMAIN TempOf
  PROVE  /\ n \in Name /\ TempOf[n] \in Name /\ TempOf[n] # n /\ Before(n, TempOf[n])
         /\ TempOf[n] \notin Flat /\ TempOf[n] \notin DOMAIN TempOf /\ TempOf[n] # Folder
         /\ \A m \in DOMAIN TempOf : m # n => TempOf[m] # TempOf[n]
<1>1. n \in Name /\ Before(n, TempOf[n]) /\ TempOf[n] \notin Flat /\ TempOf[n] \notin DOMAIN TempOf
      /\ Folder \in DOMAIN TempOf
  BY NamesAssumption
<1>2. TempOf[n] \in Name
  BY <1>1 DEF Before, Name, Range
<1>3. \A m \in DOMAIN TempOf : m # n => TempOf[m] # TempOf[n]
  BY NamesAssumption
<1> QED
  BY <1>1, <1>2, <1>3

LEMMA NextIs ==
  ASSUME NEW todo \in SUBSET Name, NEW n \in NextOf(todo)
  PROVE  n \in todo /\ \A m \in todo \ {n} : Before(n, m) /\ m \notin NextOf(todo)
BY OrderIs DEF NextOf

---------------------------------------------------------------------------
CreatingFields == {"pc", "id", "todo", "refs", "began"}

RestoringFields == {"pc", "refs", "todo", "placed", "alone"}

SnapFields == {"id", "temp", "whole", "time", "refs", "began"}

Making == {"creating", "writing", "saving"}

(* What a snapshot saves: a commit for every branch without a slash. *)
SavedOK(refs) ==
    \A n \in DOMAIN refs :
        n \in Name /\ refs[n] \in Tip \cup {Invalid} /\ (n \in Flat => refs[n] \in Tip)

FilesOK(fs) ==
    /\ DOMAIN fs = Name
    /\ \A n \in Name : fs[n] \in Tip \cup {Absent, Torn, Invalid} \cup (IF n = Folder THEN {Subdir} ELSE {})
    /\ \A n \in Flat : fs[n] \in Tip \cup {Absent}

SnapOK(s) ==
    /\ DOMAIN s = SnapFields
    /\ s.id \in Nat \ {0} /\ s.time \in {0, s.id} /\ {s.temp, s.whole} \subseteq BOOLEAN
    /\ SavedOK(s.refs) /\ s.began \subseteq Flat
    /\ s.whole => s.began \subseteq DOMAIN s.refs

WritingOK(j) ==
    DOMAIN j = CreatingFields /\ SavedOK(j.refs) /\ j.began \subseteq Flat /\ j.began \subseteq DOMAIN j.refs

MovingOK(fs, j) ==
    /\ j.name \in Flat /\ j.value \in Tip
    /\ HasTemp(j.name) => fs[TempOf[j.name]] = j.value

CreatingOK(fs, j) ==
    /\ DOMAIN j = CreatingFields
    /\ j.todo \subseteq Name /\ SavedOK(j.refs)
    /\ j.began \subseteq Flat /\ j.began \subseteq j.todo \cup DOMAIN j.refs
    /\ \A n \in j.todo \cap Flat : fs[n] \in Tip

(* The refs are put back in name order, and what was put back stays.       *)
RestoringOK(fs, j) ==
    /\ DOMAIN j = RestoringFields
    /\ SavedOK(j.refs) /\ j.todo \subseteq DOMAIN j.refs
    /\ \A m \in DOMAIN j.refs \ j.todo : \A n \in j.todo : Before(m, n)
    /\ j.placed => \A n \in NextOf(j.todo) : HasTemp(n) => fs[TempOf[n]] = j.refs[n]
    /\ j.alone => \A n \in DOMAIN j.refs \ j.todo : fs[n] = j.refs[n]

RestoredOK(fs, j) ==
    SavedOK(j.refs) /\ (j.alone => \A n \in DOMAIN j.refs : fs[n] = j.refs[n])

Writing == {"moving", "restoring", "restored"}

(* A job j of the process p, among the files fs, at the time t. *)
JobOK(p, j, fs, t) ==
    /\ j.pc \in {"none"} \cup Making \cup Writing
    /\ j.pc \in Writing => p \in Writer
    /\ j.pc \in Making => p \in Maker /\ j.id \in 1..t
    /\ j.pc = "moving" => MovingOK(fs, j)
    /\ j.pc = "creating" => CreatingOK(fs, j)
    /\ j.pc = "writing" => WritingOK(j)
    /\ j.pc = "restoring" => RestoringOK(fs, j)
    /\ j.pc = "restored" => RestoredOK(fs, j)

SnapInv ==
    /\ clock \in Nat \ {0}
    /\ FilesOK(files)
    /\ \A s \in snapshots : SnapOK(s) /\ s.id <= clock
    /\ DOMAIN job = Proc
    /\ \A p \in Proc : JobOK(p, job[p], files, clock)

LEMMA SnapInvInit == SnapshotInit => SnapInv
<1> SUFFICES ASSUME SnapshotInit PROVE SnapInv
  OBVIOUS
<1>1. Flat \subseteq Name
  BY NamesAssumption
<1>2. FilesOK(files)
  BY <1>1 DEF SnapshotInit, FilesOK
<1>3. \A p \in Proc : job[p].pc = "none"
  BY DEF SnapshotInit, NoJob
<1>4. \A p \in Proc : JobOK(p, job[p], files, clock)
  BY <1>3 DEF JobOK, Writing, Making
<1> QED
  BY <1>2, <1>4 DEF SnapshotInit, SnapInv

(* A job that writes no refs goes on while branches keep a commit. *)
LEMMA OthersGo ==
  ASSUME NEW q, NEW j, NEW fs, NEW gs, NEW t \in Nat, NEW u \in Nat, t <= u,
         JobOK(q, j, fs, t), j.pc \notin Writing, \A n \in Flat : fs[n] \in Tip => gs[n] \in Tip
  PROVE  JobOK(q, j, gs, u)
<1>1. j.pc = "creating" => CreatingOK(gs, j)
  <2>1. SUFFICES ASSUME j.pc = "creating" PROVE CreatingOK(gs, j)
    OBVIOUS
  <2>2. CreatingOK(fs, j)
    BY <2>1 DEF JobOK
  <2> QED
    BY <2>2 DEF CreatingOK
<1>2. j.pc \in Making => q \in Maker /\ j.id \in 1..u
  BY DEF JobOK
<1> QED
  BY <1>1, <1>2 DEF JobOK, Writing, Making

(* Every job goes on while the files stay. *)
LEMMA JobsWait ==
  ASSUME NEW q, NEW j, NEW fs, NEW t \in Nat, NEW u \in Nat, t <= u, JobOK(q, j, fs, t)
  PROVE  JobOK(q, j, fs, u)
<1>1. j.pc \in Making => q \in Maker /\ j.id \in 1..u
  BY DEF JobOK
<1> QED
  BY <1>1 DEF JobOK

(* A step in which the files stay, and p alone goes on. *)
LEMMA OneGoes ==
  ASSUME SnapInv, NEW p \in Proc, NEW next, job' = [job EXCEPT ![p] = next],
         UNCHANGED <<files, clock>>, \A s \in snapshots' : SnapOK(s) /\ s.id <= clock,
         JobOK(p, next, files, clock)
  PROVE  SnapInv'
<1>1. DOMAIN job' = Proc /\ job'[p] = next /\ \A q \in Proc : q # p => job'[q] = job[q]
  BY DEF SnapInv
<1>2. \A q \in Proc : JobOK(q, job'[q], files, clock)
  BY <1>1 DEF SnapInv
<1>3. files' = files /\ clock' = clock
  OBVIOUS
<1> QED
  BY <1>1, <1>2, <1>3 DEF SnapInv

(* The writer's step. *)
LEMMA WriterGoes ==
  ASSUME OneWriter, SnapInv, NEW p \in Writer, NEW next, NEW fs, files' = fs, job' = Seen(p, next),
         UNCHANGED <<snapshots, clock>>, FilesOK(fs),
         \A n \in Flat : files[n] \in Tip => fs[n] \in Tip,
         JobOK(p, next, fs, clock)
  PROVE  SnapInv'
<1>1. p \in Proc /\ DOMAIN job' = Proc /\ job'[p] = next
  BY DEF Seen, Proc
<1>2. ASSUME NEW q \in Proc, q # p PROVE job'[q] = job[q] /\ job[q].pc \notin Writing
  <2>1. job[q].pc \notin Writing
    BY <1>2 DEF OneWriter, SnapInv, JobOK
  <2> QED
    BY <1>2, <2>1 DEF Seen, Writing
<1>3. \A q \in Proc : JobOK(q, job'[q], fs, clock)
  <2>1. ASSUME NEW q \in Proc, q # p PROVE JobOK(q, job'[q], fs, clock)
    <3>1. JobOK(q, job[q], files, clock) /\ clock \in Nat /\ clock <= clock
      BY DEF SnapInv
    <3>2. JobOK(q, job[q], fs, clock)
      BY <1>2, <2>1, <3>1, OthersGo
    <3> QED
      BY <1>2, <2>1, <3>2
  <2> QED
    BY <1>1, <2>1
<1>4. files' = fs /\ clock' = clock /\ snapshots' = snapshots
  OBVIOUS
<1> QED
  BY <1>1, <1>3, <1>4 DEF SnapInv

---------------------------------------------------------------------------
(* write_file's two steps touch the name and its temporary. *)
LEMMA PlacedIs ==
  ASSUME FilesOK(files), NEW n \in Name, NEW v \in Tip \cup {Invalid}
  PROVE  /\ FilesOK(Placed(n, v)) /\ \A m \in Flat : Placed(n, v)[m] = files[m]
         /\ HasTemp(n) => Placed(n, v)[TempOf[n]] = v
         /\ \A m \in Name : m = n \/ Before(m, n) => Placed(n, v)[m] = files[m]
<1>1. CASE ~HasTemp(n)
  BY <1>1 DEF Placed
<1>2. CASE HasTemp(n)
  <2>1. /\ TempOf[n] \in Name /\ TempOf[n] # n /\ Before(n, TempOf[n])
        /\ TempOf[n] \notin Flat /\ TempOf[n] # Folder
    BY <1>2, TempIs DEF HasTemp
  <2>2. DOMAIN files = Name /\ Placed(n, v) = [files EXCEPT ![TempOf[n]] = v]
    BY <1>2 DEF Placed, FilesOK
  <2> DEFINE fs == Placed(n, v)
  <2>3. DOMAIN fs = Name /\ fs[TempOf[n]] = v /\ \A m \in Name : m # TempOf[n] => fs[m] = files[m]
    BY <2>1, <2>2
  <2>4. Flat \subseteq Name
    BY NamesAssumption
  <2> HIDE DEF fs
  <2>5. \A m \in Name : m = n \/ Before(m, n) => m # TempOf[n]
    BY <2>1, OrderIs
  <2>6. FilesOK(fs)
    BY <2>1, <2>3, <2>4 DEF FilesOK
  <2> QED
    BY <2>1, <2>3, <2>4, <2>5, <2>6 DEF fs
<1> QED
  BY <1>1, <1>2

LEMMA RenamedIs ==
  ASSUME FilesOK(files), NEW n \in Name, NEW v \in Tip \cup {Invalid}, n \in Flat => v \in Tip,
         HasTemp(n) => files[TempOf[n]] = v
  PROVE  /\ FilesOK(Renamed(n, v)) /\ \A m \in Flat : files[m] \in Tip => Renamed(n, v)[m] \in Tip
         /\ Renamed(n, v)[n] = v
         /\ \A m \in Name : Before(m, n) => Renamed(n, v)[m] = files[m]
<1> DEFINE fs == Renamed(n, v)
<1>1. DOMAIN files = Name /\ Flat \subseteq Name
  BY NamesAssumption DEF FilesOK
<1>2. CASE ~HasTemp(n)
  <2>1. fs = [files EXCEPT ![n] = v]
    BY <1>2 DEF Renamed
  <2>2. DOMAIN fs = Name /\ fs[n] = v /\ \A m \in Name : m # n => fs[m] = files[m]
    BY <1>1, <2>1
  <2> HIDE DEF fs
  <2>3. \A m \in Name : Before(m, n) => m # n
    BY OrderIs
  <2>4. FilesOK(fs)
    BY <1>1, <2>2 DEF FilesOK
  <2> QED
    BY <1>1, <2>2, <2>3, <2>4 DEF fs
<1>3. CASE HasTemp(n)
  <2>1. /\ TempOf[n] \in Name /\ TempOf[n] # n /\ Before(n, TempOf[n])
        /\ TempOf[n] \notin Flat /\ TempOf[n] # Folder
    BY <1>3, TempIs DEF HasTemp
  <2>2. fs = [files EXCEPT ![n] = v, ![TempOf[n]] = Absent]
    BY <1>3 DEF Renamed
  <2>3. /\ DOMAIN fs = Name /\ fs[n] = v /\ fs[TempOf[n]] = Absent
        /\ \A m \in Name : m # n /\ m # TempOf[n] => fs[m] = files[m]
    BY <1>1, <2>1, <2>2
  <2> HIDE DEF fs
  <2>4. \A m \in Name : Before(m, n) => m # n /\ m # TempOf[n]
    BY <2>1, OrderIs
  <2>5. FilesOK(fs)
    BY <1>1, <2>1, <2>3 DEF FilesOK
  <2> QED
    BY <1>1, <2>1, <2>3, <2>4, <2>5 DEF fs
<1> QED
  BY <1>2, <1>3

---------------------------------------------------------------------------
LEMMA MoveKeeps ==
  ASSUME OneWriter, SnapInv, NEW p \in Writer, NEW n \in Flat, NEW v \in Tip, MoveBranch(p, n, v)
  PROVE  SnapInv'
<1> DEFINE next == [pc |-> "moving", name |-> n, value |-> v]
<1>1. files' = Placed(n, v) /\ job' = Seen(p, next) /\ UNCHANGED <<snapshots, clock>>
  BY DEF MoveBranch
<1>2. next.pc = "moving" /\ next.name = n /\ next.value = v
  OBVIOUS
<1> HIDE DEF next
<1>3. n \in Name /\ FilesOK(files)
  BY NamesAssumption DEF SnapInv
<1>4. /\ FilesOK(Placed(n, v)) /\ \A m \in Flat : Placed(n, v)[m] = files[m]
      /\ HasTemp(n) => Placed(n, v)[TempOf[n]] = v
  BY <1>3, PlacedIs
<1>5. JobOK(p, next, Placed(n, v), clock)
  BY <1>2, <1>4 DEF JobOK, MovingOK, Writing, Making
<1> QED
  BY <1>1, <1>4, <1>5, WriterGoes

LEMMA MoveRenameKeeps ==
  ASSUME OneWriter, SnapInv, NEW p \in Writer, MoveRename(p)
  PROVE  SnapInv'
<1> DEFINE n == job[p].name
           v == job[p].value
<1>1. /\ job[p].pc = "moving" /\ job' = Seen(p, NoJob) /\ UNCHANGED <<snapshots, clock>>
      /\ files' = IF CanRename(n) THEN Renamed(n, v) ELSE files
  BY DEF MoveRename, Running
<1>2. n \in Flat /\ v \in Tip /\ (HasTemp(n) => files[TempOf[n]] = v) /\ FilesOK(files)
  BY <1>1 DEF SnapInv, JobOK, MovingOK, Proc
<1> HIDE DEF n, v
<1>3. n \in Name
  BY <1>2, NamesAssumption
<1>4. /\ FilesOK(Renamed(n, v))
      /\ \A m \in Flat : files[m] \in Tip => Renamed(n, v)[m] \in Tip
  BY <1>2, <1>3, RenamedIs
<1>5. \A fs : JobOK(p, NoJob, fs, clock)
  BY DEF NoJob, JobOK, Writing, Making
<1>6. CASE CanRename(n)
  BY <1>1, <1>4, <1>5, <1>6, WriterGoes
<1>7. CASE ~CanRename(n)
  BY <1>1, <1>2, <1>5, <1>7, WriterGoes
<1> QED
  BY <1>6, <1>7

LEMMA RestoreKeeps ==
  ASSUME SnapInv, NEW p \in Writer, NEW s \in snapshots, Restore(p, s)
  PROVE  SnapInv'
<1> DEFINE next == [pc |-> "restoring", refs |-> s.refs, todo |-> DOMAIN s.refs,
                    placed |-> FALSE, alone |-> TRUE]
<1>1. /\ p \in Proc /\ job' = [job EXCEPT ![p] = next] /\ UNCHANGED <<files, snapshots, clock>>
  BY DEF Restore, Proc
<1>2. /\ next.pc = "restoring" /\ DOMAIN next = RestoringFields
      /\ next.refs = s.refs /\ next.todo = DOMAIN s.refs /\ ~next.placed
  BY DEF RestoringFields
<1> HIDE DEF next
<1>3. SavedOK(s.refs)
  BY DEF SnapInv, SnapOK
<1>4. RestoringOK(files, next)
  BY <1>2, <1>3 DEF RestoringOK
<1>5. JobOK(p, next, files, clock)
  BY <1>2, <1>4 DEF JobOK, Writing, Making
<1>6. \A t \in snapshots' : SnapOK(t) /\ t.id <= clock
  BY <1>1 DEF SnapInv
<1> QED
  BY <1>1, <1>5, <1>6, OneGoes

LEMMA PlaceKeeps ==
  ASSUME OneWriter, SnapInv, NEW p \in Writer, RestorePlace(p)
  PROVE  SnapInv'
<1> DEFINE j == job[p]
           next == [j EXCEPT !.placed = TRUE]
<1>1. /\ j.pc = "restoring" /\ job' = Seen(p, next) /\ UNCHANGED <<snapshots, clock>>
      /\ \E n \in NextOf(j.todo) : files' = Placed(n, j.refs[n])
  BY DEF RestorePlace, Running
<1>2. RestoringOK(files, j) /\ FilesOK(files)
  BY <1>1 DEF SnapInv, JobOK, Proc
<1> HIDE DEF j
<1>3. /\ next.pc = "restoring" /\ DOMAIN next = RestoringFields
      /\ next.refs = j.refs /\ next.todo = j.todo /\ next.alone = j.alone
  <2>1. DOMAIN j = RestoringFields
    BY <1>2 DEF RestoringOK
  <2> QED
    BY <1>1, <2>1 DEF RestoringFields
<1> HIDE DEF next
<1>4. PICK n \in NextOf(j.todo) : files' = Placed(n, j.refs[n])
  BY <1>1
<1>5. /\ SavedOK(j.refs) /\ j.todo \subseteq DOMAIN j.refs /\ j.todo \in SUBSET Name
      /\ \A m \in DOMAIN j.refs \ j.todo : m \in Name /\ \A k \in j.todo : Before(m, k)
      /\ j.alone => \A m \in DOMAIN j.refs \ j.todo : files[m] = j.refs[m]
  BY <1>2 DEF RestoringOK, SavedOK
<1>6. n \in j.todo /\ n \in Name /\ \A m \in NextOf(j.todo) : m = n
  BY <1>4, <1>5, NextIs DEF NextOf
<1>7. j.refs[n] \in Tip \cup {Invalid}
  BY <1>5, <1>6 DEF SavedOK
<1> DEFINE fs == Placed(n, j.refs[n])
<1>8. /\ FilesOK(fs) /\ \A m \in Flat : fs[m] = files[m]
      /\ HasTemp(n) => fs[TempOf[n]] = j.refs[n]
      /\ \A m \in Name : m = n \/ Before(m, n) => fs[m] = files[m]
  BY <1>2, <1>6, <1>7, PlacedIs
<1>9. files' = fs
  BY <1>4
<1> HIDE DEF fs
<1>10. RestoringOK(fs, next)
  <2>1. j.alone => \A m \in DOMAIN j.refs \ j.todo : fs[m] = j.refs[m]
    BY <1>5, <1>6, <1>8
  <2>2. \A m \in NextOf(j.todo) : HasTemp(m) => fs[TempOf[m]] = j.refs[m]
    BY <1>6, <1>8
  <2> QED
    BY <1>3, <1>5, <2>1, <2>2 DEF RestoringOK
<1>11. JobOK(p, next, fs, clock)
  BY <1>3, <1>10 DEF JobOK, Writing, Making
<1> QED
  BY <1>1, <1>8, <1>9, <1>11, WriterGoes

LEMMA RenameKeeps ==
  ASSUME OneWriter, SnapInv, NEW p \in Writer, RestoreRename(p)
  PROVE  SnapInv'
<1> DEFINE j == job[p]
           done == Restored(p)
           more(n) == [j EXCEPT !.todo = @ \ {n}, !.placed = FALSE]
<1>1. /\ j.pc = "restoring" /\ j.placed /\ UNCHANGED <<snapshots, clock>>
      /\ \E n \in NextOf(j.todo) :
            IF CanRename(n)
            THEN /\ files' = Renamed(n, j.refs[n])
                 /\ job' = Seen(p, IF j.todo = {n} THEN done ELSE more(n))
            ELSE files' = files /\ job' = Seen(p, NoJob)
  BY DEF RestoreRename, Running, AfterFailed
<1>2. RestoringOK(files, j) /\ FilesOK(files)
  BY <1>1 DEF SnapInv, JobOK, Proc
<1>3. done.pc = "restored" /\ done.refs = j.refs /\ done.alone = j.alone
  BY DEF Restored
<1> HIDE DEF j, done
<1>4. /\ \A n : /\ more(n).pc = "restoring" /\ more(n).refs = j.refs /\ more(n).todo = j.todo \ {n}
                /\ more(n).alone = j.alone /\ DOMAIN more(n) = RestoringFields
      /\ \A n : ~more(n).placed
  <2>1. DOMAIN j = RestoringFields
    BY <1>2 DEF RestoringOK
  <2> QED
    BY <1>1, <2>1 DEF RestoringFields
<1> HIDE DEF more
<1>5. PICK n \in NextOf(j.todo) :
            IF CanRename(n)
            THEN /\ files' = Renamed(n, j.refs[n])
                 /\ job' = Seen(p, IF j.todo = {n} THEN done ELSE more(n))
            ELSE files' = files /\ job' = Seen(p, NoJob)
  BY <1>1
<1>6. /\ SavedOK(j.refs) /\ j.todo \subseteq DOMAIN j.refs /\ j.todo \in SUBSET Name
      /\ \A m \in DOMAIN j.refs \ j.todo : m \in Name /\ \A k \in j.todo : Before(m, k)
      /\ j.alone => \A m \in DOMAIN j.refs \ j.todo : files[m] = j.refs[m]
      /\ HasTemp(n) => files[TempOf[n]] = j.refs[n]
  BY <1>1, <1>2, <1>5 DEF RestoringOK, SavedOK
<1>7. n \in j.todo /\ n \in Name /\ \A m \in j.todo \ {n} : Before(n, m)
  BY <1>5, <1>6, NextIs
<1>8. j.refs[n] \in Tip \cup {Invalid} /\ (n \in Flat => j.refs[n] \in Tip)
  BY <1>6, <1>7 DEF SavedOK
<1>9. CASE ~CanRename(n)
  <2>1. files' = files /\ job' = Seen(p, NoJob)
    BY <1>5, <1>9
  <2>2. JobOK(p, NoJob, files, clock)
    BY DEF NoJob, JobOK, Writing, Making
  <2> QED
    BY <1>1, <1>2, <2>1, <2>2, WriterGoes
<1>10. CASE CanRename(n)
  <2> DEFINE fs == Renamed(n, j.refs[n])
             next == IF j.todo = {n} THEN done ELSE more(n)
  <2>1. /\ FilesOK(fs) /\ \A m \in Flat : files[m] \in Tip => fs[m] \in Tip
        /\ fs[n] = j.refs[n]
        /\ \A m \in Name : Before(m, n) => fs[m] = files[m]
    BY <1>2, <1>6, <1>7, <1>8, RenamedIs
  <2>2. files' = fs /\ job' = Seen(p, next)
    BY <1>5, <1>10
  <2> HIDE DEF fs
  <2>3. j.alone => \A m \in DOMAIN j.refs \ (j.todo \ {n}) : fs[m] = j.refs[m]
    BY <1>6, <1>7, <2>1
  <2>4. CASE j.todo = {n}
    <3>1. next = done
      BY <2>4
    <3>2. RestoredOK(fs, done)
      BY <1>3, <1>6, <2>3, <2>4 DEF RestoredOK
    <3>3. JobOK(p, done, fs, clock)
      BY <1>3, <3>2 DEF JobOK, Writing, Making
    <3> QED
      BY <1>1, <2>1, <2>2, <3>1, <3>3, WriterGoes
  <2>5. CASE j.todo # {n}
    <3>1. next = more(n)
      BY <2>5
    <3>2. \A m \in DOMAIN j.refs \ (j.todo \ {n}) : \A k \in j.todo \ {n} : Before(m, k)
      BY <1>6, <1>7
    <3>3. RestoringOK(fs, more(n))
      BY <1>4, <1>6, <2>3, <3>2 DEF RestoringOK
    <3>4. JobOK(p, more(n), fs, clock)
      BY <1>4, <3>3 DEF JobOK, Writing, Making
    <3> QED
      BY <1>1, <2>1, <2>2, <3>1, <3>4, WriterGoes
  <2> QED
    BY <2>4, <2>5
<1> QED
  BY <1>9, <1>10

LEMMA EndKeeps ==
  ASSUME SnapInv, NEW p \in Writer, RestoreEnd(p)
  PROVE  SnapInv'
<1>1. /\ p \in Proc /\ job' = [job EXCEPT ![p] = NoJob] /\ UNCHANGED <<files, snapshots, clock>>
  BY DEF RestoreEnd, Proc
<1>2. JobOK(p, NoJob, files, clock)
  BY DEF NoJob, JobOK, Writing, Making
<1>3. \A t \in snapshots' : SnapOK(t) /\ t.id <= clock
  BY <1>1 DEF SnapInv
<1> QED
  BY <1>1, <1>2, <1>3, OneGoes

---------------------------------------------------------------------------
LEMMA CreateKeeps ==
  ASSUME SnapInv, NEW p \in Maker, Create(p)
  PROVE  SnapInv'
<1> DEFINE began == {n \in Flat : files[n] # Absent}
           next == [pc |-> "creating", id |-> clock, todo |-> Listed, refs |-> <<>>, began |-> began]
<1>1. /\ p \in Proc /\ job' = [job EXCEPT ![p] = next] /\ UNCHANGED <<files, snapshots, clock>>
  BY DEF Create, Proc
<1>2. /\ next.pc = "creating" /\ DOMAIN next = CreatingFields
      /\ next.id = clock /\ next.todo = Listed /\ next.refs = <<>> /\ next.began = began
  BY DEF CreatingFields
<1> HIDE DEF next
<1>3. /\ Listed \subseteq Name /\ began \subseteq Flat /\ began \subseteq Listed
      /\ \A n \in Listed \cap Flat : files[n] \in Tip
  BY NamesAssumption DEF Listed, SnapInv, FilesOK
<1>4. SavedOK(<<>>)
  BY DEF SavedOK
<1> HIDE DEF began
<1>5. CreatingOK(files, next)
  BY <1>2, <1>3, <1>4 DEF CreatingOK
<1>6. clock \in 1..clock
  BY DEF SnapInv
<1>7. JobOK(p, next, files, clock)
  BY <1>2, <1>5, <1>6 DEF JobOK, Writing, Making
<1>8. \A t \in snapshots' : SnapOK(t) /\ t.id <= clock
  BY <1>1 DEF SnapInv
<1> QED
  BY <1>1, <1>7, <1>8, OneGoes

LEMMA ReadKeeps ==
  ASSUME SnapInv, NEW p \in Maker, CreateRead(p)
  PROVE  SnapInv'
<1> DEFINE j == job[p]
           more(n) == [j EXCEPT !.todo = @ \ {n}, !.refs = Saved(@, n)]
<1>1. j.pc = "creating" /\ p \in Proc /\ DOMAIN job = Proc /\ UNCHANGED <<files, snapshots, clock>>
  BY DEF CreateRead, Running, Proc, SnapInv
<1>2. CreatingOK(files, j) /\ FilesOK(files) /\ j.id \in 1..clock
  BY <1>1 DEF SnapInv, JobOK, Making
<1>3. DOMAIN j = CreatingFields
  BY <1>2 DEF CreatingOK
<1>4. PICK n \in j.todo :
         \/ job' = [job EXCEPT ![p].todo = @ \ {n}, ![p].refs = Saved(@, n)]
         \/ job' = [job EXCEPT ![p] = NoJob]
  BY DEF CreateRead
<1>5. ASSUME job' = [job EXCEPT ![p].todo = @ \ {n}, ![p].refs = Saved(@, n)]
      PROVE  job' = [job EXCEPT ![p] = more(n)]
  BY <1>1, <1>5
<1> HIDE DEF j
<1>6. \A m : /\ more(m).pc = "creating" /\ more(m).id = j.id /\ more(m).todo = j.todo \ {m}
             /\ more(m).refs = Saved(j.refs, m) /\ more(m).began = j.began /\ DOMAIN more(m) = CreatingFields
  BY <1>1, <1>3 DEF CreatingFields
<1> HIDE DEF more
<1>7. JobOK(p, more(n), files, clock)
  <2>1. n \in Name /\ (n \in Flat => files[n] \in Tip) /\ SavedOK(j.refs)
    BY <1>2 DEF CreatingOK
  <2>2. SavedOf(n) \in Tip \cup {Invalid} /\ (n \in Flat => SavedOf(n) \in Tip)
    BY <2>1 DEF SavedOf
  <2> DEFINE r == Saved(j.refs, n)
  <2>3. /\ DOMAIN r = DOMAIN j.refs \cup {n} /\ r[n] = SavedOf(n)
        /\ \A m \in DOMAIN j.refs : m # n => r[m] = j.refs[m]
    BY DEF Saved
  <2> HIDE DEF r
  <2>4. SavedOK(r)
    BY <2>1, <2>2, <2>3 DEF SavedOK
  <2>5. CreatingOK(files, more(n))
    <3>1. more(n).refs = r
      BY <1>6 DEF r
    <3>2. /\ j.todo \subseteq Name /\ j.began \subseteq Flat /\ j.began \subseteq j.todo \cup DOMAIN j.refs
          /\ \A m \in j.todo \cap Flat : files[m] \in Tip
      BY <1>2 DEF CreatingOK
    <3>3. j.began \subseteq (j.todo \ {n}) \cup DOMAIN r
      BY <2>3, <3>2
    <3> QED
      BY <1>6, <2>4, <3>1, <3>2, <3>3 DEF CreatingOK
  <2> QED
    BY <1>2, <1>6, <2>5 DEF JobOK, Writing, Making
<1>8. JobOK(p, NoJob, files, clock)
  BY DEF NoJob, JobOK, Writing, Making
<1>9. \A t \in snapshots' : SnapOK(t) /\ t.id <= clock
  BY <1>1 DEF SnapInv
<1>10. CASE job' = [job EXCEPT ![p] = more(n)]
  BY <1>1, <1>7, <1>9, <1>10, OneGoes
<1>11. CASE job' = [job EXCEPT ![p] = NoJob]
  BY <1>1, <1>8, <1>9, <1>11, OneGoes
<1> QED
  BY <1>4, <1>5, <1>10, <1>11

LEMMA OpenKeeps ==
  ASSUME SnapInv, NEW p \in Maker, CreateOpen(p)
  PROVE  SnapInv'
<1> DEFINE j == job[p]
           new(time, D) == [id |-> j.id, temp |-> TRUE, whole |-> FALSE, time |-> time,
                            refs |-> OnlyOf(D, j.refs), began |-> j.began]
           next == [j EXCEPT !.pc = "writing"]
<1>1. j.pc = "creating" /\ j.todo = {} /\ p \in Proc /\ DOMAIN job = Proc /\ UNCHANGED <<files, clock>>
  BY DEF CreateOpen, Running, Proc, SnapInv
<1>2. job' = [job EXCEPT ![p] = next]
  BY <1>1 DEF CreateOpen
<1>3. PICK time \in {0, j.id}, D \in SUBSET DOMAIN j.refs : snapshots' \subseteq snapshots \cup {new(time, D)}
  BY DEF CreateOpen
<1>4. CreatingOK(files, j) /\ j.id \in 1..clock /\ clock \in Nat
  BY <1>1 DEF SnapInv, JobOK, Making
<1>5. DOMAIN j = CreatingFields
  BY <1>4 DEF CreatingOK
<1> HIDE DEF j
<1>6. /\ next.pc = "writing" /\ next.id = j.id /\ next.refs = j.refs /\ next.began = j.began
      /\ DOMAIN next = CreatingFields
  BY <1>5 DEF CreatingFields
<1>7. /\ new(time, D).id = j.id /\ new(time, D).time = time /\ new(time, D).temp /\ ~new(time, D).whole
      /\ {new(time, D).temp, new(time, D).whole} \subseteq BOOLEAN
      /\ new(time, D).refs = OnlyOf(D, j.refs) /\ new(time, D).began = j.began
      /\ DOMAIN new(time, D) = SnapFields
  BY DEF SnapFields
<1> HIDE DEF new, next
<1>8. SavedOK(OnlyOf(D, j.refs)) /\ WritingOK(next)
  BY <1>1, <1>4, <1>6 DEF OnlyOf, SavedOK, CreatingOK, WritingOK
<1>9. SnapOK(new(time, D)) /\ new(time, D).id <= clock
  BY <1>3, <1>4, <1>7, <1>8 DEF CreatingOK, SnapOK
<1>10. \A t \in snapshots' : SnapOK(t) /\ t.id <= clock
  BY <1>3, <1>9 DEF SnapInv
<1>11. JobOK(p, next, files, clock)
  BY <1>4, <1>6, <1>8 DEF JobOK, Writing, Making
<1> QED
  BY <1>1, <1>2, <1>10, <1>11, OneGoes

LEMMA WriteKeeps ==
  ASSUME SnapInv, NEW p \in Maker, CreateWrite(p)
  PROVE  SnapInv'
<1> DEFINE j == job[p]
           full(s) == [s EXCEPT !.whole = TRUE, !.time = s.id, !.refs = j.refs, !.began = j.began]
           next == [pc |-> "saving", id |-> j.id]
<1>1. /\ j.pc = "writing" /\ p \in Proc /\ job' = [job EXCEPT ![p] = next] /\ UNCHANGED <<files, clock>>
      /\ snapshots' \subseteq snapshots \cup {full(s) : s \in snapshots}
  BY DEF CreateWrite, SnapshotTemp, Running, Proc
<1>2. WritingOK(j) /\ j.id \in 1..clock /\ clock \in Nat
  BY <1>1 DEF SnapInv, JobOK, Making
<1>3. next.pc = "saving" /\ next.id = j.id
  OBVIOUS
<1> HIDE DEF j, next
<1>4. ASSUME NEW s \in snapshots PROVE SnapOK(full(s)) /\ full(s).id <= clock
  <2>1. SnapOK(s) /\ s.id <= clock
    BY DEF SnapInv
  <2>2. DOMAIN s = SnapFields /\ s.temp \in BOOLEAN /\ s.id \in Nat \ {0}
    BY <2>1 DEF SnapOK
  <2>3. /\ full(s).id = s.id /\ full(s).time = s.id /\ full(s).temp = s.temp /\ full(s).whole = TRUE
        /\ full(s).refs = j.refs /\ full(s).began = j.began /\ DOMAIN full(s) = SnapFields
    BY <2>2 DEF SnapFields
  <2> HIDE DEF full
  <2> QED
    BY <1>2, <2>1, <2>2, <2>3 DEF SnapOK, WritingOK
<1> HIDE DEF full
<1>5. \A t \in snapshots' : SnapOK(t) /\ t.id <= clock
  BY <1>1, <1>4 DEF SnapInv
<1>6. JobOK(p, next, files, clock)
  BY <1>2, <1>3 DEF JobOK, Writing, Making
<1> QED
  BY <1>1, <1>5, <1>6, OneGoes

LEMMA NameKeeps ==
  ASSUME SnapInv, NEW p \in Maker, CreateRename(p)
  PROVE  SnapInv'
<1>1. /\ p \in Proc /\ job' = [job EXCEPT ![p] = NoJob] /\ UNCHANGED <<files, clock>>
      /\ snapshots' \subseteq snapshots \cup {[s EXCEPT !.temp = FALSE] : s \in snapshots}
  BY DEF CreateRename, SnapshotTemp, Proc
<1>2. ASSUME NEW s \in snapshots PROVE SnapOK([s EXCEPT !.temp = FALSE]) /\ [s EXCEPT !.temp = FALSE].id <= clock
  <2>1. SnapOK(s) /\ s.id <= clock
    BY DEF SnapInv
  <2>2. DOMAIN s = SnapFields
    BY <2>1 DEF SnapOK
  <2> DEFINE new == [s EXCEPT !.temp = FALSE]
  <2>3. /\ new.id = s.id /\ new.time = s.time /\ new.whole = s.whole /\ ~new.temp
        /\ new.refs = s.refs /\ new.began = s.began /\ DOMAIN new = SnapFields
    BY <2>2 DEF SnapFields
  <2>4. new.temp \in BOOLEAN
    BY <2>2 DEF SnapFields
  <2> HIDE DEF new
  <2>5. SnapOK(new) /\ new.id <= clock
    BY <2>1, <2>3, <2>4 DEF SnapOK
  <2> QED
    BY <2>5 DEF new
<1>3. \A t \in snapshots' : SnapOK(t) /\ t.id <= clock
  BY <1>1, <1>2 DEF SnapInv
<1>4. JobOK(p, NoJob, files, clock)
  BY DEF NoJob, JobOK, Writing, Making
<1> QED
  BY <1>1, <1>3, <1>4, OneGoes

---------------------------------------------------------------------------
(* A temporary torn by a crash is nobody's: its writer is gone. *)
LEMMA CrashKeeps ==
  ASSUME OneWriter, SnapInv, NEW p \in Proc, SnapshotCrash(p)
  PROVE  SnapInv'
<1>1. job' = [job EXCEPT ![p] = NoJob] /\ UNCHANGED <<snapshots, clock>>
  BY DEF SnapshotCrash
<1>2. JobOK(p, NoJob, files', clock)
  BY DEF NoJob, JobOK, Writing, Making
<1>3. CASE files' = files
  <2>1. \A t \in snapshots' : SnapOK(t) /\ t.id <= clock
    BY <1>1 DEF SnapInv
  <2>2. JobOK(p, NoJob, files, clock)
    BY DEF NoJob, JobOK, Writing, Making
  <2> QED
    BY <1>1, <1>3, <2>1, <2>2, OneGoes
<1>4. ASSUME NEW n \in DOMAIN TempOf, files' = [files EXCEPT ![TempOf[n]] = Torn],
             job[p].pc \in Writing
      PROVE  SnapInv'
  <2>1. TempOf[n] \in Name /\ TempOf[n] \notin Flat /\ TempOf[n] # Folder /\ Flat \subseteq Name
    BY TempIs, NamesAssumption
  <2>2. FilesOK(files) /\ DOMAIN files = Name
    BY DEF SnapInv, FilesOK
  <2>3. /\ DOMAIN files' = Name /\ files'[TempOf[n]] = Torn
        /\ \A m \in Name : m # TempOf[n] => files'[m] = files[m]
    BY <1>4, <2>1, <2>2
  <2>4. FilesOK(files')
    BY <2>1, <2>2, <2>3 DEF FilesOK
  <2>5. \A m \in Flat : files'[m] = files[m]
    BY <2>1, <2>3
  <2>6. p \in Writer
    BY <1>4 DEF SnapInv, JobOK
  <2>7. DOMAIN job' = Proc /\ job'[p] = NoJob /\ \A q \in Proc : q # p => job'[q] = job[q]
    BY <1>1 DEF SnapInv
  <2>8. ASSUME NEW q \in Proc, q # p PROVE JobOK(q, job'[q], files', clock)
    <3>1. job[q].pc \notin Writing
      BY <2>6, <2>8 DEF OneWriter, SnapInv, JobOK
    <3>2. JobOK(q, job[q], files, clock) /\ clock \in Nat /\ clock <= clock
      BY DEF SnapInv
    <3>3. JobOK(q, job[q], files', clock)
      BY <2>5, <3>1, <3>2, OthersGo
    <3> QED
      BY <2>7, <2>8, <3>3
  <2>9. \A q \in Proc : JobOK(q, job'[q], files', clock)
    BY <1>2, <2>7, <2>8
  <2> QED
    BY <1>1, <2>4, <2>7, <2>9 DEF SnapInv
<1>5. \/ files' = files
      \/ \E n \in DOMAIN TempOf : files' = [files EXCEPT ![TempOf[n]] = Torn] /\ job[p].pc \in Writing
  BY DEF SnapshotCrash, HasTemp, Running, Writing
<1> QED
  BY <1>3, <1>4, <1>5

(* The directory of the branches with a slash is made over no file. *)
LEMMA NestedKeeps ==
  ASSUME SnapInv, MakeNested
  PROVE  SnapInv'
<1>1. files[Folder] = Absent /\ files' = [files EXCEPT ![Folder] = Subdir] /\ UNCHANGED <<snapshots, job, clock>>
  BY DEF MakeNested
<1>2. Folder \in Name /\ Folder \notin Flat /\ Flat \subseteq Name /\ DOMAIN files = Name
  BY NamesAssumption DEF SnapInv, FilesOK
<1>3. /\ DOMAIN files' = Name /\ files'[Folder] = Subdir
      /\ \A m \in Name : m # Folder => files'[m] = files[m]
  BY <1>1, <1>2
<1>4. FilesOK(files')
  BY <1>2, <1>3 DEF SnapInv, FilesOK
<1>5. \A m \in DOMAIN TempOf : files'[TempOf[m]] = files[TempOf[m]]
  BY <1>3, TempIs
<1>6. \A m \in Flat : files'[m] = files[m]
  BY <1>2, <1>3
<1>7. Absent \notin Tip \cup {Invalid}
  BY SnapshotAssumption
<1>8. ASSUME NEW q \in Proc PROVE JobOK(q, job[q], files', clock)
  <2> DEFINE j == job[q]
  <2>1. JobOK(q, j, files, clock)
    BY DEF SnapInv
  <2> HIDE DEF j
  <2>2. ASSUME j.pc = "moving" PROVE MovingOK(files', j)
    BY <1>5, <2>1, <2>2 DEF JobOK, MovingOK, HasTemp
  <2>3. ASSUME j.pc = "creating" PROVE CreatingOK(files', j)
    <3>1. CreatingOK(files, j)
      BY <2>1, <2>3 DEF JobOK
    <3> QED
      BY <1>6, <3>1 DEF CreatingOK
  <2>4. ASSUME j.pc = "restoring" PROVE RestoringOK(files', j)
    <3>1. RestoringOK(files, j)
      BY <2>1, <2>4 DEF JobOK
    <3>2. \A n : HasTemp(n) => files'[TempOf[n]] = files[TempOf[n]]
      BY <1>5 DEF HasTemp
    <3>3. ASSUME j.alone, NEW n \in DOMAIN j.refs \ j.todo PROVE files'[n] = j.refs[n]
      <4>1. files[n] = j.refs[n] /\ n \in Name /\ j.refs[n] \in Tip \cup {Invalid}
        BY <3>1, <3>3 DEF RestoringOK, SavedOK
      <4> QED
        BY <1>1, <1>3, <1>7, <4>1
    <3> QED
      BY <3>1, <3>2, <3>3 DEF RestoringOK
  <2>5. ASSUME j.pc = "restored" PROVE RestoredOK(files', j)
    <3>1. RestoredOK(files, j)
      BY <2>1, <2>5 DEF JobOK
    <3>2. ASSUME j.alone, NEW n \in DOMAIN j.refs PROVE files'[n] = j.refs[n]
      <4>1. files[n] = j.refs[n] /\ n \in Name /\ j.refs[n] \in Tip \cup {Invalid}
        BY <3>1, <3>2 DEF RestoredOK, SavedOK
      <4> QED
        BY <1>1, <1>3, <1>7, <4>1
    <3> QED
      BY <3>1, <3>2 DEF RestoredOK
  <2>6. JobOK(q, j, files', clock)
    BY <2>1, <2>2, <2>3, <2>4, <2>5 DEF JobOK
  <2> QED
    BY <2>6 DEF j
<1> QED
  BY <1>1, <1>4, <1>8 DEF SnapInv

LEMMA PruneKeeps ==
  ASSUME SnapInv, Prune
  PROVE  SnapInv'
<1>1. snapshots' \subseteq snapshots /\ files' = files /\ job' = job /\ clock' = clock
  BY DEF Prune
<1> QED
  BY <1>1 DEF SnapInv

LEMMA TickKeeps ==
  ASSUME SnapInv, Tick
  PROVE  SnapInv'
<1>1. clock' = clock + 1 /\ files' = files /\ job' = job /\ snapshots' = snapshots
  BY DEF Tick
<1>2. clock \in Nat /\ clock + 1 \in Nat \ {0} /\ clock <= clock + 1
  BY DEF SnapInv
<1>3. \A q \in Proc : JobOK(q, job[q], files, clock + 1)
  BY <1>2, JobsWait DEF SnapInv
<1>4. \A s \in snapshots : SnapOK(s) /\ s.id <= clock + 1
  BY <1>2 DEF SnapInv, SnapOK
<1> QED
  BY <1>1, <1>2, <1>3, <1>4 DEF SnapInv

LEMMA SnapInvNext == OneWriter /\ SnapInv /\ [SnapshotNext]_snapvars => SnapInv'
<1> SUFFICES ASSUME OneWriter, SnapInv, [SnapshotNext]_snapvars PROVE SnapInv'
  OBVIOUS
<1>1. CASE UNCHANGED snapvars
  BY <1>1 DEF SnapInv, snapvars
<1>2. ASSUME NEW p \in Writer,
             \/ \E n \in Flat, v \in Tip : MoveBranch(p, n, v)
             \/ \E s \in snapshots : Restore(p, s)
             \/ MoveRename(p)
             \/ RestorePlace(p) \/ RestoreRename(p) \/ RestoreEnd(p)
      PROVE  SnapInv'
  BY <1>2, MoveKeeps, RestoreKeeps, MoveRenameKeeps, PlaceKeeps, RenameKeeps, EndKeeps
<1>3. ASSUME NEW p \in Maker, Create(p) \/ CreateRead(p) \/ CreateOpen(p) \/ CreateWrite(p) \/ CreateRename(p)
      PROVE  SnapInv'
  BY <1>3, CreateKeeps, ReadKeeps, OpenKeeps, WriteKeeps, NameKeeps
<1>4. ASSUME NEW p \in Proc, SnapshotCrash(p) PROVE SnapInv'
  BY <1>4, CrashKeeps
<1> QED
  BY <1>1, <1>2, <1>3, <1>4, NestedKeeps, PruneKeeps, TickKeeps DEF SnapshotNext

LEMMA SnapInvHolds == ASSUME OneWriter PROVE SnapshotSpec => []SnapInv
BY SnapInvInit, SnapInvNext, PTL DEF SnapshotSpec

---------------------------------------------------------------------------
LEMMA TypeOfSnapshots == SnapInv => SnapshotTypeOK
<1> SUFFICES ASSUME SnapInv PROVE SnapshotTypeOK
  OBVIOUS
<1>1. \A n \in Name : files[n] \in Tip \cup {Absent, Torn, Invalid} \cup (IF n = Folder THEN {Subdir} ELSE {})
  BY DEF SnapInv, FilesOK
<1>2. ASSUME NEW s \in snapshots
      PROVE  /\ s.id \in 1..clock /\ {s.temp, s.whole} \subseteq BOOLEAN /\ s.time \in {0, s.id}
             /\ DOMAIN s.refs \subseteq Name /\ Range(s.refs) \subseteq Tip \cup {Invalid}
  BY DEF SnapInv, SnapOK, SavedOK, Range
<1>3. \A p \in Proc : job[p].pc \in {"none", "moving", "creating", "writing", "saving", "restoring", "restored"}
  BY DEF SnapInv, JobOK, Writing, Making
<1> QED
  BY <1>1, <1>2, <1>3 DEF SnapshotTypeOK

(* Type correctness: the files, the snapshots and the jobs stay what the   *)
(* actions take them for.  (Snapshot, RefStore)                            *)
THEOREM SnapshotTyping == ASSUME OneWriter PROVE SnapshotSpec => []SnapshotTypeOK
BY TypeOfSnapshots, SnapInvHolds, PTL

---------------------------------------------------------------------------
(* What bears a snapshot's own name, and what is about to, is whole. *)
SnapWhole ==
    /\ \A s \in snapshots : s.temp \/ s.whole
    /\ \A p \in Proc : job[p].pc = "saving" => \A s \in snapshots : s.id = job[p].id /\ s.temp => s.whole

(* A step that makes no snapshot and takes no job to its last step. *)
LEMMA WholeWaits ==
  ASSUME SnapWhole, snapshots' \subseteq snapshots,
         \A q \in Proc : job'[q].pc = "saving" => job[q].pc = "saving" /\ job'[q].id = job[q].id
  PROVE  SnapWhole'
BY DEF SnapWhole

LEMMA SnapWholeNext ==
  OneWriter /\ SnapInv /\ SnapWhole /\ MakersApart /\ MakersApart' /\ [SnapshotNext]_snapvars => SnapWhole'
<1> SUFFICES ASSUME OneWriter, SnapInv, SnapWhole, MakersApart, MakersApart', [SnapshotNext]_snapvars
             PROVE  SnapWhole'
  OBVIOUS
<1>0. DOMAIN job = Proc
  BY DEF SnapInv
<1>a. \A q \in Proc : job[q].pc \in Making => q \in Maker
  BY DEF SnapInv, JobOK
<1>b. ASSUME NEW p \in Proc, NEW next, job' = Seen(p, next), next.pc # "saving", UNCHANGED snapshots
      PROVE  SnapWhole'
  <2>1. ASSUME NEW q \in Proc, job'[q].pc = "saving" PROVE job[q].pc = "saving" /\ job'[q].id = job[q].id
    <3>1. q # p
      BY <1>b, <2>1 DEF Seen
    <3>2. CASE job[q].pc \in {"restoring", "restored"}
      <4>1. job'[q] = [job[q] EXCEPT !.alone = FALSE]
        BY <1>b, <3>1, <3>2 DEF Seen
      <4>2. DOMAIN job[q] # {} => job'[q].pc = job[q].pc
        BY <4>1
      <4> QED
        BY <2>1, <3>2, <4>1
    <3>3. CASE job[q].pc \notin {"restoring", "restored"}
      BY <1>b, <2>1, <3>1, <3>3 DEF Seen
    <3> QED
      BY <3>2, <3>3
  <2> QED
    BY <1>b, <2>1, WholeWaits
<1>c. ASSUME NEW p \in Proc, NEW next, job' = [job EXCEPT ![p] = next], next.pc # "saving",
             snapshots' \subseteq snapshots
      PROVE  SnapWhole'
  BY <1>0, <1>c, WholeWaits
<1>1. CASE UNCHANGED snapvars
  BY <1>1, WholeWaits DEF snapvars
<1>2. ASSUME NEW p \in Writer PROVE p \in Proc
  BY <1>2 DEF Proc
<1>3. ASSUME NEW p \in Writer, NEW n \in Flat, NEW v \in Tip, MoveBranch(p, n, v) PROVE SnapWhole'
  BY <1>3, <1>2, <1>b DEF MoveBranch
<1>4. ASSUME NEW p \in Writer, NEW s \in snapshots, Restore(p, s) PROVE SnapWhole'
  <2> DEFINE next == [pc |-> "restoring", refs |-> s.refs, todo |-> DOMAIN s.refs,
                      placed |-> FALSE, alone |-> TRUE]
  <2>1. job' = [job EXCEPT ![p] = next] /\ next.pc # "saving" /\ snapshots' \subseteq snapshots
    BY <1>4 DEF Restore
  <2> HIDE DEF next
  <2> QED
    BY <1>2, <2>1, <1>c
<1>5. ASSUME NEW p \in Writer, MoveRename(p) PROVE SnapWhole'
  BY <1>5, <1>2, <1>b DEF MoveRename, NoJob
<1>6. ASSUME NEW p \in Writer, RestorePlace(p) PROVE SnapWhole'
  <2>1. RestoringOK(files, job[p]) /\ job[p].pc = "restoring"
    BY <1>6, <1>2 DEF RestorePlace, Running, SnapInv, JobOK
  <2>2. [job[p] EXCEPT !.placed = TRUE].pc = "restoring"
    BY <2>1 DEF RestoringOK, RestoringFields
  <2> QED
    BY <1>6, <1>2, <2>2, <1>b DEF RestorePlace
<1>7. ASSUME NEW p \in Writer, RestoreRename(p) PROVE SnapWhole'
  <2>1. RestoringOK(files, job[p]) /\ job[p].pc = "restoring"
    BY <1>7, <1>2 DEF RestoreRename, Running, SnapInv, JobOK
  <2>2. \A n : [job[p] EXCEPT !.todo = @ \ {n}, !.placed = FALSE].pc = "restoring"
    BY <2>1 DEF RestoringOK, RestoringFields
  <2>3. Restored(p).pc = "restored" /\ AfterFailed(p).pc = "none"
    BY DEF Restored, AfterFailed, NoJob
  <2>4. UNCHANGED snapshots /\ \E next : job' = Seen(p, next) /\ next.pc # "saving"
    BY <1>7, <2>2, <2>3 DEF RestoreRename
  <2> QED
    BY <1>2, <2>4, <1>b
<1>8. ASSUME NEW p \in Writer, RestoreEnd(p) PROVE SnapWhole'
  <2>1. job' = [job EXCEPT ![p] = NoJob] /\ NoJob.pc # "saving" /\ snapshots' \subseteq snapshots
    BY <1>8 DEF RestoreEnd, NoJob
  <2> QED
    BY <1>2, <2>1, <1>c
<1>9. ASSUME NEW p \in Maker PROVE p \in Proc
  BY <1>9 DEF Proc
<1>10. ASSUME NEW p \in Maker, Create(p) PROVE SnapWhole'
  <2> DEFINE next == [pc |-> "creating", id |-> clock, todo |-> Listed, refs |-> <<>>,
                      began |-> {n \in Flat : files[n] # Absent}]
  <2>1. job' = [job EXCEPT ![p] = next] /\ next.pc # "saving" /\ snapshots' \subseteq snapshots
    BY <1>10 DEF Create
  <2> HIDE DEF next
  <2> QED
    BY <1>9, <2>1, <1>c
<1>11. ASSUME NEW p \in Maker, CreateRead(p) PROVE SnapWhole'
  <2>1. CreatingOK(files, job[p]) /\ job[p].pc = "creating"
    BY <1>11, <1>9 DEF CreateRead, Running, SnapInv, JobOK
  <2> DEFINE more(n) == [job[p] EXCEPT !.todo = @ \ {n}, !.refs = Saved(@, n)]
  <2>2. \A n : more(n).pc = "creating"
    BY <2>1 DEF CreatingOK, CreatingFields
  <2>3. snapshots' = snapshots /\ \E n : job' = [job EXCEPT ![p] = more(n)] \/ job' = [job EXCEPT ![p] = NoJob]
    BY <1>0, <1>9, <1>11 DEF CreateRead
  <2> HIDE DEF more
  <2> QED
    BY <1>9, <2>2, <2>3, <1>c DEF NoJob
<1>12. ASSUME NEW p \in Maker, CreateOpen(p) PROVE SnapWhole'
  <2>1. CreatingOK(files, job[p]) /\ job[p].pc = "creating"
    BY <1>12, <1>9 DEF CreateOpen, Running, SnapInv, JobOK
  <2>2. /\ job'[p].pc = "writing" /\ job'[p].id = job[p].id
        /\ \A q \in Proc : q # p => job'[q] = job[q]
    BY <1>0, <1>9, <1>12, <2>1 DEF CreateOpen, CreatingOK, CreatingFields
  <2>3. \A s \in snapshots' : s \in snapshots \/ (s.temp /\ s.id = job[p].id)
    BY <1>12 DEF CreateOpen
  <2>4. ASSUME NEW q \in Proc, job'[q].pc = "saving", NEW s \in snapshots', s.id = job'[q].id, s.temp
        PROVE  s.whole
    <3>1. q # p /\ job'[q] = job[q] /\ q \in Maker
      BY <2>2, <2>4, <1>a DEF Making
    <3>2. job'[q].id # job'[p].id
      BY <2>2, <2>4, <3>1 DEF MakersApart
    <3>3. s \in snapshots
      BY <2>2, <2>3, <2>4, <3>2
    <3> QED
      BY <2>4, <3>1, <3>3 DEF SnapWhole
  <2> QED
    BY <2>3, <2>4 DEF SnapWhole
<1>13. ASSUME NEW p \in Maker, CreateWrite(p) PROVE SnapWhole'
  <2>1. /\ job'[p].pc = "saving" /\ job'[p].id = job[p].id
        /\ \A q \in Proc : q # p => job'[q] = job[q]
    BY <1>0, <1>9, <1>13 DEF CreateWrite
  <2> DEFINE full(s) == [s EXCEPT !.whole = TRUE, !.time = s.id, !.refs = job[p].refs, !.began = job[p].began]
  <2>2. \A s \in snapshots' : \/ s \in snapshots /\ ~(s.id = job[p].id /\ s.temp)
                             \/ \E t \in snapshots : s = full(t)
    BY <1>13 DEF CreateWrite, SnapshotTemp
  <2>3. \A t \in snapshots : full(t).whole
    <3> SUFFICES ASSUME NEW t \in snapshots PROVE full(t).whole
      OBVIOUS
    <3>1. DOMAIN t = SnapFields
      BY DEF SnapInv, SnapOK
    <3> QED
      BY <3>1 DEF SnapFields
  <2> HIDE DEF full
  <2> QED
    BY <2>1, <2>2, <2>3 DEF SnapWhole
<1>14. ASSUME NEW p \in Maker, CreateRename(p) PROVE SnapWhole'
  <2>1. /\ job[p].pc = "saving" /\ job'[p] = NoJob
        /\ \A q \in Proc : q # p => job'[q] = job[q]
    BY <1>0, <1>9, <1>14 DEF CreateRename, Running
  <2> DEFINE named(s) == [s EXCEPT !.temp = FALSE]
  <2>2. \A s \in snapshots' : s \in snapshots \/ \E t \in SnapshotTemp(job[p].id) : s = named(t)
    BY <1>14 DEF CreateRename
  <2>3. \A t \in SnapshotTemp(job[p].id) : named(t).whole
    <3> SUFFICES ASSUME NEW t \in SnapshotTemp(job[p].id) PROVE named(t).whole
      OBVIOUS
    <3>1. DOMAIN t = SnapFields
      BY DEF SnapInv, SnapOK, SnapshotTemp
    <3>2. t.whole
      BY <1>9, <2>1 DEF SnapWhole, SnapshotTemp
    <3> QED
      BY <3>1, <3>2 DEF SnapFields
  <2> HIDE DEF named
  <2> QED
    BY <2>1, <2>2, <2>3 DEF SnapWhole, NoJob
<1>15. ASSUME NEW p \in Proc, SnapshotCrash(p) PROVE SnapWhole'
  <2>1. job' = [job EXCEPT ![p] = NoJob] /\ NoJob.pc # "saving" /\ snapshots' \subseteq snapshots
    BY <1>15 DEF SnapshotCrash, NoJob
  <2> QED
    BY <2>1, <1>c
<1>16. ASSUME MakeNested \/ Prune \/ Tick PROVE SnapWhole'
  <2>1. snapshots' \subseteq snapshots /\ job' = job
    BY <1>16 DEF MakeNested, Prune, Tick
  <2> QED
    BY <2>1, WholeWaits
<1> QED
  BY <1>1, <1>3, <1>4, <1>5, <1>6, <1>7, <1>8, <1>10, <1>11, <1>12, <1>13, <1>14, <1>15, <1>16
  DEF SnapshotNext

(* A snapshot has every branch without a slash that was there when it was  *)
(* begun, and for each a commit, whatever moves, restores and crashes run  *)
(* beside it and wherever its own making was cut off: only a temporary may *)
(* be without them.  (Snapshot::create, RefStore::list, write_file)         *)
THEOREM BranchesAreCaptured ==
  ASSUME OneWriter PROVE SnapshotSpec /\ []MakersApart => []BranchesCaptured
<1>1. SnapshotInit => SnapWhole
  BY DEF SnapshotInit, SnapWhole, NoJob
<1>2. SnapInv /\ SnapWhole => BranchesCaptured
  BY DEF SnapInv, SnapOK, SavedOK, SnapWhole, BranchesCaptured
<1> QED
  BY <1>1, <1>2, SnapWholeNext, SnapInvHolds, PTL DEF SnapshotSpec

(* A restore that nothing else disturbs leaves every ref as it was saved,  *)
(* whatever temporaries lie about: in name order no temporary is renamed   *)
(* over a ref already put back.  (Snapshot::restore)                        *)
THEOREM RestoresLand == ASSUME OneWriter PROVE SnapshotSpec => []RestoreLands
<1>1. SnapInv => RestoreLands
  BY DEF SnapInv, JobOK, RestoredOK, RestoreLands, Running
<1> QED
  BY <1>1, SnapInvHolds, PTL
---------------------------------------------------------------------------
(* The working tree: the entries of a tree along a path. *)
(* A set of numbers that is not empty has a least element: what stands in  *)
(* for induction here, by a least counterexample.                          *)
LEMMA LeastNumber ==
    ASSUME NEW T, T \subseteq Nat, T # {}
    PROVE  \E n \in T : \A m \in T : n <= m
<1> DEFINE R == OpToRel(<, Nat)
<1>1. IsWellFoundedOn(R, Nat)
  BY NatLessThanWellFounded, Zenon
<1>2. \A m, n \in Nat : m < n <=> <<m, n>> \in R
  BY DEF OpToRel
<1> HIDE DEF R
<1>3. PICK n \in T : \A m \in T : <<m, n>> \notin R
  BY <1>1, WFMin
<1>4. \A m \in T : ~(m < n)
  BY <1>2, <1>3
<1> QED
  BY <1>4

(* The entries along a path are what their recursive definition says. *)
LEMMA AlongIs ==
  ASSUME NEW tree, NEW p, Len(p) \in Nat
  PROVE  \A k \in 0..Len(p) :
            Along(tree, p)[k] = IF k = 0 THEN Root(tree) ELSE Child(Along(tree, p)[k - 1], p[k])
<1> DEFINE L == Len(p)
           Is(f, k) == IF k = 0 THEN Root(tree) ELSE Child(f[k - 1], p[k])
           UpTo(f, n) == f = [k \in 0..n |-> Is(f, k)]
           T == {n \in 0..L : ~\E f : UpTo(f, n)}
<1> HIDE DEF L
<1>0. L \in Nat
  BY DEF L
<1>2. \A n \in 0..L : \E f : UpTo(f, n)
  <2>1. SUFFICES ASSUME T # {} PROVE FALSE
    OBVIOUS
  <2>2. PICK n \in T : \A m \in T : n <= m
    <3>1. T \subseteq Nat
      BY <1>0
    <3> HIDE DEF T
    <3> QED
      BY <2>1, <3>1, LeastNumber
  <2>3. n \in 0..L /\ ~\E f : UpTo(f, n)
    OBVIOUS
  <2>4. CASE n = 0
    <3> DEFINE f == [k \in 0..0 |-> Root(tree)]
    <3>1. UpTo(f, 0)
      OBVIOUS
    <3> QED
      BY <2>3, <2>4, <3>1
  <2>5. CASE n # 0
    <3>1. n - 1 \in 0..L /\ n - 1 \notin T
      <4>1. n - 1 \in 0..L /\ ~(n <= n - 1)
        BY <1>0, <2>3, <2>5
      <4> HIDE DEF T
      <4> QED
        BY <2>2, <4>1
    <3>2. PICK f : UpTo(f, n - 1)
      <4>1. \A m \in 0..L : m \notin T => \E f : UpTo(f, m)
        OBVIOUS
      <4> HIDE DEF UpTo, T
      <4> QED
        BY <3>1, <4>1
    <3> DEFINE more == [k \in 0..n |-> Is(f, k)]
    <3> HIDE DEF Is
    <3>3. \A k \in 0..(n - 1) : f[k] = Is(f, k)
      BY <3>2
    <3>4. \A k \in 0..n : more[k] = Is(f, k)
      OBVIOUS
    <3> HIDE DEF UpTo
    <3>5. \A k \in 0..(n - 1) : f[k] = more[k]
      <4>1. \A k \in 0..(n - 1) : k \in 0..n
        BY <1>0, <2>3
      <4> HIDE DEF more
      <4> QED
        BY <3>3, <3>4, <4>1
    <3>6. \A k \in 0..n : Is(f, k) = Is(more, k)
      <4> HIDE DEF more
      <4> TAKE k \in 0..n
      <4>1. k # 0 => k - 1 \in 0..(n - 1)
        BY <1>0, <2>3
      <4> QED
        BY <3>5, <4>1 DEF Is
    <3>7. UpTo(more, n)
      BY <3>6 DEF UpTo
    <3> HIDE DEF more
    <3> QED
      BY <2>3, <3>7
  <2> QED
    BY <2>4, <2>5
<1>3. \E f : f = [k \in 0..L |-> Is(f, k)]
  <2>1. L \in 0..L
    BY <1>0
  <2> QED
    BY <1>2, <2>1
<1>4. Along(tree, p) = CHOOSE f : f = [k \in 0..L |-> Is(f, k)]
  BY DEF Along, L
<1> HIDE DEF Is
<1>5. Along(tree, p) = [k \in 0..L |-> Is(Along(tree, p), k)]
  BY <1>3, <1>4
<1> QED
  BY <1>5 DEF Is, L

(* What is along a path depends on that much of the path only. *)
LEMMA AlongSame ==
  ASSUME NEW tree, NEW p, NEW q, Len(p) \in Nat, Len(q) \in Nat,
         NEW n \in Nat, n <= Len(p), n <= Len(q), \A j \in 1..n : p[j] = q[j]
  PROVE  \A k \in 0..n : Along(tree, p)[k] = Along(tree, q)[k]
<1> DEFINE P == Along(tree, p)
           Q == Along(tree, q)
           T == {k \in 0..n : P[k] # Q[k]}
<1>1. \A k \in 0..n : P[k] = IF k = 0 THEN Root(tree) ELSE Child(P[k - 1], p[k])
  <2>1. \A k \in 0..n : k \in 0..Len(p)
    OBVIOUS
  <2> QED
    BY <2>1, AlongIs
<1>2. \A k \in 0..n : Q[k] = IF k = 0 THEN Root(tree) ELSE Child(Q[k - 1], q[k])
  <2>1. \A k \in 0..n : k \in 0..Len(q)
    OBVIOUS
  <2> QED
    BY <2>1, AlongIs
<1> HIDE DEF P, Q
<1>3. SUFFICES ASSUME T # {} PROVE FALSE
  BY DEF P, Q
<1>4. PICK k \in T : \A m \in T : k <= m
  <2>1. T \subseteq Nat
    OBVIOUS
  <2> HIDE DEF T
  <2> QED
    BY <1>3, <2>1, LeastNumber
<1>5. k \in 0..n /\ P[k] # Q[k]
  BY <1>4
<1>6. k # 0
  BY <1>1, <1>2, <1>5
<1>7. k - 1 \in 0..n /\ P[k - 1] = Q[k - 1]
  <2>1. k - 1 \in 0..n /\ ~(k <= k - 1)
    BY <1>5, <1>6
  <2>2. k - 1 \notin T
    <3> HIDE DEF T
    <3> QED
      BY <1>4, <2>1
  <2> QED
    BY <2>1, <2>2
<1>8. p[k] = q[k]
  BY <1>5, <1>6
<1> QED
  BY <1>1, <1>2, <1>5, <1>6, <1>7, <1>8

LEMMA EntryAtRoot == \A tree : EntryAt(tree, <<>>) = Root(tree)
<1> TAKE tree
<1>1. Len(<<>>) = 0 /\ 0 \in 0..Len(<<>>)
  OBVIOUS
<1>2. Along(tree, <<>>)[0] = Root(tree)
  BY <1>1, AlongIs
<1> QED
  BY <1>1, <1>2 DEF EntryAt

LEMMA EntryBelow ==
  ASSUME NEW tree, NEW S, NEW p \in Seq(S), NEW n \in S
  PROVE  EntryAt(tree, Append(p, n)) = Child(EntryAt(tree, p), n)
<1> DEFINE q == Append(p, n)
           m == Len(p)
<1>1. /\ m \in Nat /\ Len(q) = m + 1 /\ q[m + 1] = n
      /\ \A j \in 1..m : p[j] = q[j]
  BY AppendProperties, LenProperties
<1> HIDE DEF q, m
<1>2. /\ m + 1 \in 0..(m + 1) /\ m + 1 # 0 /\ (m + 1) - 1 = m
      /\ m <= m /\ m <= m + 1 /\ m \in 0..m /\ m + 1 \in Nat
  BY <1>1
<1>3. Along(tree, q)[m + 1] = Child(Along(tree, q)[m], n)
  <2>1. Len(q) \in Nat /\ m + 1 \in 0..Len(q)
    BY <1>1, <1>2
  <2>2. Along(tree, q)[m + 1] = IF m + 1 = 0 THEN Root(tree) ELSE Child(Along(tree, q)[(m + 1) - 1], q[m + 1])
    BY <2>1, AlongIs
  <2> QED
    BY <1>1, <1>2, <2>2
<1>4. Along(tree, p)[m] = Along(tree, q)[m]
  <2>1. Len(p) = m
    BY DEF m
  <2> QED
    BY <1>1, <1>2, <2>1, AlongSame
<1> QED
  BY <1>1, <1>3, <1>4 DEF EntryAt, q, m

(* Prefixes of paths. *)
LEMMA PrefixIs ==
  ASSUME NEW S, NEW p \in Seq(S), NEW k \in 0..Len(p)
  PROVE  /\ SubSeq(p, 1, k) \in Seq(S) /\ Len(SubSeq(p, 1, k)) = k
         /\ \A i \in 1..k : SubSeq(p, 1, k)[i] = p[i]
         /\ \A j \in 0..k : SubSeq(SubSeq(p, 1, k), 1, j) = SubSeq(p, 1, j)
<1> DEFINE q == SubSeq(p, 1, k)
<1>1. Len(p) \in Nat /\ \A i \in 1..Len(p) : p[i] \in S
  BY LenProperties, ElementOfSeq
<1>2. \A n \in 0..Len(p) : /\ SubSeq(p, 1, n) \in Seq(S) /\ Len(SubSeq(p, 1, n)) = n
                           /\ \A i \in 1..n : SubSeq(p, 1, n)[i] = p[i]
  <2> TAKE n \in 0..Len(p)
  <2>1. \A i \in 1..n : p[i] \in S /\ 1 + i - 1 = i
    BY <1>1
  <2>2. n \in Int /\ 1 \in Int /\ n - 1 + 1 = n /\ (IF 1 <= n THEN n - 1 + 1 ELSE 0) = n
    BY <1>1
  <2>3. /\ SubSeq(p, 1, n) \in Seq(S)
        /\ Len(SubSeq(p, 1, n)) = (IF 1 <= n THEN n - 1 + 1 ELSE 0)
        /\ \A i \in 1..(n - 1 + 1) : SubSeq(p, 1, n)[i] = p[1 + i - 1]
    BY <2>1, <2>2, SubSeqProperties
  <2> QED
    BY <2>1, <2>2, <2>3
<1>3. q \in Seq(S) /\ Len(q) = k /\ \A i \in 1..k : q[i] = p[i]
  BY <1>2
<1>4. ASSUME NEW j \in 0..k PROVE SubSeq(q, 1, j) = SubSeq(p, 1, j)
  <2>1. j \in 0..Len(p) /\ j \in Int /\ 1 \in Int /\ j - 1 + 1 = j /\ (IF 1 <= j THEN j - 1 + 1 ELSE 0) = j
    BY <1>1
  <2>2. \A i \in 1..j : i \in 1..k /\ q[i] \in S /\ 1 + i - 1 = i
    <3>1. \A i \in 1..j : i \in 1..k /\ i \in 1..Len(p) /\ 1 + i - 1 = i
      BY <1>1
    <3> QED
      BY <1>1, <1>3, <3>1
  <2> HIDE DEF q
  <2>3. /\ SubSeq(q, 1, j) \in Seq(S)
        /\ Len(SubSeq(q, 1, j)) = (IF 1 <= j THEN j - 1 + 1 ELSE 0)
        /\ \A i \in 1..(j - 1 + 1) : SubSeq(q, 1, j)[i] = q[1 + i - 1]
    BY <2>1, <2>2, SubSeqProperties
  <2>4. /\ SubSeq(q, 1, j) \in Seq(S) /\ Len(SubSeq(q, 1, j)) = j
        /\ \A i \in 1..j : SubSeq(q, 1, j)[i] = p[i]
    BY <1>3, <2>1, <2>2, <2>3
  <2>5. /\ SubSeq(p, 1, j) \in Seq(S) /\ Len(SubSeq(p, 1, j)) = j
        /\ \A i \in 1..j : SubSeq(p, 1, j)[i] = p[i]
    BY <1>2, <2>1
  <2> QED
    BY <2>4, <2>5, SeqEqual
<1> QED
  BY <1>3, <1>4

LEMMA AppendPrefix ==
  ASSUME NEW S, NEW p \in Seq(S), NEW n \in S
  PROVE  /\ \A k \in 0..Len(p) : SubSeq(Append(p, n), 1, k) = SubSeq(p, 1, k)
         /\ SubSeq(p, 1, Len(p)) = p
         /\ Front(Append(p, n)) = p
<1> DEFINE q == Append(p, n)
<1>1. q \in Seq(S) /\ Len(q) = Len(p) + 1 /\ Len(p) \in Nat /\ \A j \in 1..Len(p) : q[j] = p[j]
  BY AppendProperties, LenProperties
<1> HIDE DEF q
<1>2. ASSUME NEW k \in 0..Len(p) PROVE SubSeq(q, 1, k) = SubSeq(p, 1, k)
  <2>1. k \in 0..Len(q)
    BY <1>1
  <2>2. SubSeq(q, 1, k) \in Seq(S) /\ Len(SubSeq(q, 1, k)) = k /\ \A i \in 1..k : SubSeq(q, 1, k)[i] = q[i]
    BY <1>1, <2>1, PrefixIs
  <2>3. SubSeq(p, 1, k) \in Seq(S) /\ Len(SubSeq(p, 1, k)) = k /\ \A i \in 1..k : SubSeq(p, 1, k)[i] = p[i]
    BY PrefixIs
  <2>4. \A i \in 1..k : i \in 1..Len(p)
    BY <1>1
  <2> QED
    BY <1>1, <2>2, <2>3, <2>4, SeqEqual
<1>3. SubSeq(p, 1, Len(p)) = p
  BY SubSeqFull
<1>4. Len(q) - 1 = Len(p) /\ Len(p) \in 0..Len(p)
  BY <1>1
<1>5. Front(q) = p
  BY <1>2, <1>3, <1>4 DEF Front
<1> QED
  BY <1>2, <1>3, <1>5 DEF q

(* A prefix and the next name make the next prefix. *)
LEMMA NextPrefix ==
  ASSUME NEW S, NEW p \in Seq(S), NEW k \in 0..(Len(p) - 1)
  PROVE  p[k + 1] \in S /\ SubSeq(p, 1, k + 1) = Append(SubSeq(p, 1, k), p[k + 1])
<1>1. Len(p) \in Nat /\ k \in 0..Len(p) /\ k + 1 \in 0..Len(p) /\ k + 1 \in 1..Len(p) /\ k \in Nat
  BY LenProperties
<1>2. p[k + 1] \in S
  BY <1>1, ElementOfSeq
<1> DEFINE q == SubSeq(p, 1, k)
           r == SubSeq(p, 1, k + 1)
<1>3. q \in Seq(S) /\ Len(q) = k /\ \A i \in 1..k : q[i] = p[i]
  BY <1>1, PrefixIs
<1>4. r \in Seq(S) /\ Len(r) = k + 1 /\ \A i \in 1..(k + 1) : r[i] = p[i]
  BY <1>1, PrefixIs
<1> HIDE DEF q, r
<1>5. /\ Append(q, p[k + 1]) \in Seq(S) /\ Len(Append(q, p[k + 1])) = k + 1
      /\ \A i \in 1..k : Append(q, p[k + 1])[i] = p[i]
      /\ Append(q, p[k + 1])[k + 1] = p[k + 1]
  BY <1>2, <1>3, AppendProperties
<1>6. \A i \in 1..(k + 1) : i \in 1..k \/ i = k + 1
  BY <1>1
<1>7. \A i \in 1..Len(r) : r[i] = Append(q, p[k + 1])[i]
  BY <1>4, <1>5, <1>6
<1>8. r = Append(q, p[k + 1])
  BY <1>4, <1>5, <1>7, SeqEqual
<1> QED
  BY <1>2, <1>8 DEF q, r

---------------------------------------------------------------------------
(* Sequences: one that starts with x and goes on as s, or as the rest of s. *)
LEMMA Onto ==
  ASSUME NEW S, NEW s \in Seq(S), NEW first
  PROVE  /\ \E T : <<first>> \o s \in Seq(T)
         /\ Len(<<first>> \o s) = Len(s) + 1
         /\ (<<first>> \o s)[1] = first
         /\ \A i \in 1..Len(s) : (<<first>> \o s)[i + 1] = s[i]
<1> DEFINE T == S \cup {first}
           u == <<first>>
<1>1. u \in Seq(T) /\ Len(u) = 1 /\ u[1] = first
  OBVIOUS
<1>2. s \in Seq(T)
  BY SeqMonotonic
<1> HIDE DEF T, u
<1>3. Len(s) \in Nat
  BY LenProperties
<1>4. /\ u \o s \in Seq(T) /\ Len(u \o s) = Len(u) + Len(s)
      /\ \A i \in 1..(Len(u) + Len(s)) : (u \o s)[i] = IF i <= Len(u) THEN u[i] ELSE s[i - Len(u)]
  BY <1>1, <1>2, ConcatProperties
<1>5. (u \o s)[1] = first
  BY <1>1, <1>3, <1>4
<1>6. ASSUME NEW i \in 1..Len(s) PROVE (u \o s)[i + 1] = s[i]
  <2>1. i + 1 \in 1..(1 + Len(s)) /\ ~(i + 1 <= 1) /\ (i + 1) - 1 = i
    BY <1>3
  <2> QED
    BY <1>1, <1>4, <2>1
<1>7. Len(u \o s) = Len(s) + 1
  BY <1>1, <1>3, <1>4
<1> QED
  BY <1>4, <1>5, <1>6, <1>7 DEF u

LEMMA OntoTail ==
  ASSUME NEW S, NEW s \in Seq(S), s # <<>>, NEW first
  PROVE  /\ \E T : <<first>> \o Tail(s) \in Seq(T)
         /\ Len(<<first>> \o Tail(s)) = Len(s)
         /\ (<<first>> \o Tail(s))[1] = first
         /\ \A i \in 2..Len(s) : (<<first>> \o Tail(s))[i] = s[i]
<1> DEFINE t == Tail(s)
<1>1. Len(s) \in Nat /\ Len(s) # 0
  BY LenProperties, EmptySeq
<1>2. t \in Seq(S) /\ Len(t) = Len(s) - 1 /\ \A i \in 1..Len(t) : t[i] = s[i + 1]
  BY HeadTailProperties
<1> HIDE DEF t
<1>3. /\ \E T : <<first>> \o t \in Seq(T)
      /\ Len(<<first>> \o t) = Len(t) + 1
      /\ (<<first>> \o t)[1] = first
      /\ \A i \in 1..Len(t) : (<<first>> \o t)[i + 1] = t[i]
  BY <1>2, Onto
<1>4. ASSUME NEW i \in 2..Len(s) PROVE (<<first>> \o t)[i] = s[i]
  <2>1. i - 1 \in 1..Len(t) /\ (i - 1) + 1 = i
    BY <1>1, <1>2
  <2>2. (<<first>> \o t)[(i - 1) + 1] = t[i - 1]
    BY <1>3, <2>1
  <2>3. t[i - 1] = s[(i - 1) + 1]
    BY <1>2, <2>1
  <2> QED
    BY <2>1, <2>2, <2>3
<1>5. Len(t) + 1 = Len(s)
  BY <1>1, <1>2
<1> QED
  BY <1>3, <1>4, <1>5 DEF t

---------------------------------------------------------------------------
(* Where the entries of a tree are, and the directories above them. *)
Named == Range(Order)

StoredOK == \A o \in store : IsObject(o)

(* What is at a path the tree leads to is in the directory above. *)
LEMMA EntryAbove ==
  ASSUME NEW tree, NEW p \in Seq(Named), NEW k \in 0..(Len(p) - 1),
         LedTo(tree, p), EntryAt(tree, p).mode # "absent"
  PROVE  LET above == EntryAt(tree, SubSeq(p, 1, k))
             entry == EntryAt(tree, SubSeq(p, 1, k + 1))
         IN  /\ above.mode = "directory" /\ above.id \in store
             /\ entry.mode # "absent"
             /\ p[k + 1] \in Named /\ p[k + 1] \in DOMAIN above.id.parts
             /\ entry = above.id.parts[p[k + 1]]
             /\ k + 1 < Len(p) => entry.mode = "directory" /\ entry.id \in store
<1> DEFINE q == SubSeq(p, 1, k)
           n == p[k + 1]
<1>1. Len(p) \in Nat /\ k \in 0..Len(p) /\ k + 1 \in 0..Len(p)
  BY LenProperties
<1>2. n \in Named /\ SubSeq(p, 1, k + 1) = Append(q, n)
  BY NextPrefix
<1>3. q \in Seq(Named)
  BY <1>1, PrefixIs
<1> HIDE DEF q, n
<1>4. EntryAt(tree, SubSeq(p, 1, k + 1)) = Child(EntryAt(tree, q), n)
  <2>1. EntryAt(tree, Append(q, n)) = Child(EntryAt(tree, q), n)
    BY <1>2, <1>3, EntryBelow
  <2> QED
    BY <1>2, <2>1
<1>5. EntryAt(tree, q).mode = "directory" /\ EntryAt(tree, q).id \in store
  BY DEF LedTo, q
<1>6. k + 1 < Len(p) => /\ EntryAt(tree, SubSeq(p, 1, k + 1)).mode = "directory"
                        /\ EntryAt(tree, SubSeq(p, 1, k + 1)).id \in store
  <2>1. k + 1 < Len(p) => k + 1 \in 0..(Len(p) - 1)
    BY <1>1
  <2> QED
    BY <2>1 DEF LedTo
<1>7. EntryAt(tree, SubSeq(p, 1, k + 1)).mode # "absent"
  <2>1. CASE k + 1 = Len(p)
    BY <2>1, SubSeqFull
  <2>2. CASE k + 1 # Len(p)
    <3>1. k + 1 < Len(p)
      BY <1>1, <2>2
    <3> QED
      BY <1>6, <3>1
  <2> QED
    BY <2>1, <2>2
<1>8. n \in DOMAIN EntryAt(tree, q).id.parts
  BY <1>4, <1>7 DEF Child, NoEntry
<1> QED
  BY <1>2, <1>4, <1>5, <1>6, <1>7, <1>8 DEF Child, q, n

(* The directories above a directory of a tree are directories of it. *)
LEMMA DirectoriesAbove ==
  ASSUME NEW tree, NEW p \in Seq(Named), HasDirectory(tree, p), NEW k \in 0..Len(p)
  PROVE  HasDirectory(tree, SubSeq(p, 1, k))
<1> DEFINE q == SubSeq(p, 1, k)
<1>1. Len(p) \in Nat
  BY LenProperties
<1>2. CASE k = Len(p)
  BY <1>2, SubSeqFull
<1>3. CASE k # Len(p)
  <2>1. k \in 0..(Len(p) - 1)
    BY <1>1, <1>3
  <2>2. EntryAt(tree, q).mode = "directory" /\ EntryAt(tree, q).id \in store
    BY <2>1 DEF HasDirectory, LedTo
  <2>3. Len(q) = k /\ \A j \in 0..k : SubSeq(q, 1, j) = SubSeq(p, 1, j)
    BY PrefixIs
  <2>4. ASSUME NEW j \in 0..(Len(q) - 1)
        PROVE  EntryAt(tree, SubSeq(q, 1, j)).mode = "directory" /\ EntryAt(tree, SubSeq(q, 1, j)).id \in store
    <3>1. j \in 0..k /\ j \in 0..(Len(p) - 1)
      BY <1>1, <2>1, <2>3
    <3> QED
      BY <2>3, <3>1 DEF HasDirectory, LedTo
  <2> HIDE DEF q
  <2>5. HasDirectory(tree, q)
    BY <2>2, <2>4 DEF HasDirectory, LedTo
  <2> QED
    BY <2>5 DEF q
<1> QED
  BY <1>2, <1>3

(* What is in a directory of the tree. *)
LEMMA InDirectory ==
  ASSUME NEW tree, NEW p \in Seq(Named), HasDirectory(tree, p),
         NEW n \in Named, n \in DOMAIN EntryAt(tree, p).id.parts
  PROVE  /\ EntryAt(tree, Append(p, n)) = EntryAt(tree, p).id.parts[n]
         /\ LedTo(tree, Append(p, n))
<1>1. EntryAt(tree, Append(p, n)) = Child(EntryAt(tree, p), n)
  BY EntryBelow
<1>2. EntryAt(tree, p).mode = "directory"
  BY DEF HasDirectory
<1>3. Len(Append(p, n)) - 1 = Len(p) /\ Len(p) \in Nat
  BY AppendProperties, LenProperties
<1>4. \A k \in 0..Len(p) : SubSeq(Append(p, n), 1, k) = SubSeq(p, 1, k)
  BY AppendPrefix
<1>5. \A k \in 0..Len(p) : HasDirectory(tree, SubSeq(p, 1, k))
  BY DirectoriesAbove
<1>6. LedTo(tree, Append(p, n))
  BY <1>3, <1>4, <1>5 DEF LedTo, HasDirectory
<1> QED
  BY <1>1, <1>2, <1>6 DEF Child

---------------------------------------------------------------------------
(* The inductive invariant of the working tree.                            *)
(*   WorkOK    what is on disk is in a directory that is there             *)
(*   CallOK    a call of materialize_tree is in a directory of the tree,    *)
(*             which is on disk with all that lead to it                   *)
(*   Covered   each file of the tree is done, or ahead of a call            *)
NodeOK(node) == node.kind = "directory" \/ (node.kind = "file" /\ IsObject(node.bytes))

WorkOK ==
    \A p \in DOMAIN work :
        p \in Seq(Named) /\ p # <<>> /\ IsDirectory(Front(p)) /\ NodeOK(work[p])

Open(p) == \A k \in 0..Len(p) : IsDirectory(SubSeq(p, 1, k))

CallOK(tree, c) ==
    /\ c = [path |-> c.path, tree |-> c.tree, left |-> c.left]
    /\ c.path \in Seq(Named)
    /\ HasDirectory(tree, c.path)
    /\ c.tree = EntryAt(tree, c.path).id.parts
    /\ c.left \subseteq DOMAIN Order
    /\ \A i \in c.left : Order[i] \in DOMAIN c.tree
    /\ Open(c.path)

CallsOK ==
    Busy => \E tree, calls :
        /\ run = [pc |-> "busy", tree |-> tree, calls |-> calls]
        /\ TreeOf(tree) \in store
        /\ \E S : calls \in Seq(S)
        /\ calls # <<>>
        /\ \A i \in 1..Len(calls) : CallOK(tree, calls[i])

Settled(tree, p) == IsDirectory(p) \/ AsWritten(tree, p)

Ahead(c, p) ==
    /\ Len(c.path) < Len(p)
    /\ c.path = SubSeq(p, 1, Len(c.path))
    /\ \E i \in c.left : Order[i] = p[Len(c.path) + 1]

Covered ==
    /\ Busy =>
        \A p \in Seq(Named) : HasFile(run.tree, p) =>
            Settled(run.tree, p) \/ \E i \in 1..Len(run.calls) : Ahead(run.calls[i], p)
    /\ run.pc = "done" =>
        \A p \in Seq(Named) : HasFile(run.tree, p) => Settled(run.tree, p)

Repository ==
    /\ algo \in {"sha1", "sha256"}
    /\ StoredOK
    /\ DOMAIN tips = Branch
    /\ \A b \in Branch : tips[b] = Unborn \/ tips[b] \in commits
    /\ head \in Branch
    /\ \A p \in DOMAIN staged : staged[p].form = "chunks"

Ends == {"idle", "busy", "done", "aborted", "killed", "failed"}

WorkTreeInv ==
    /\ Repository
    /\ WorkOK
    /\ run.pc \in Ends
    /\ CallsOK
    /\ Covered
    /\ AbortExplained

LEMMA CallsAre ==
  ASSUME CallsOK, Busy
  PROVE  /\ run = [pc |-> "busy", tree |-> run.tree, calls |-> run.calls]
         /\ TreeOf(run.tree) \in store
         /\ \E S : run.calls \in Seq(S)
         /\ run.calls # <<>>
         /\ \A i \in 1..Len(run.calls) : CallOK(run.tree, run.calls[i])
<1>1. PICK tree, calls :
        /\ run = [pc |-> "busy", tree |-> tree, calls |-> calls]
        /\ TreeOf(tree) \in store
        /\ \E S : calls \in Seq(S)
        /\ calls # <<>>
        /\ \A i \in 1..Len(calls) : CallOK(tree, calls[i])
  BY DEF CallsOK
<1>2. tree = run.tree /\ calls = run.calls
  BY <1>1
<1> QED
  BY <1>1, <1>2

(* Something is put at p. *)
LEMMA PutIs ==
  ASSUME NEW p, NEW node, work' = With(work, p, node)
  PROVE  /\ DOMAIN work' = DOMAIN work \cup {p}
         /\ work'[p] = node
         /\ \A q \in DOMAIN work : q # p => work'[q] = work[q]
  BY DEF With

(* The rest stays as it was, and a directory a directory. *)
LEMMA PutKeeps ==
  ASSUME WorkOK, NEW p \in Seq(Named), p # <<>>, NEW node, NodeOK(node),
         IsDirectory(Front(p)), node.kind = "directory" \/ ~IsDirectory(p),
         work' = With(work, p, node)
  PROVE  /\ WorkOK'
         /\ \A q : IsDirectory(q) => IsDirectory(q)'
         /\ \A q : q # p /\ IsFile(q) => IsFile(q)' /\ work'[q] = work[q]
         /\ \A q : q # p /\ IsLocked(q) => IsLocked(q)'
<1>1. /\ DOMAIN work' = DOMAIN work \cup {p}
      /\ work'[p] = node
      /\ \A q \in DOMAIN work : q # p => work'[q] = work[q]
  BY PutIs
<1>2. \A q : IsDirectory(q) => IsDirectory(q)'
  BY <1>1 DEF IsDirectory
<1>3. \A q : q # p /\ IsFile(q) => IsFile(q)' /\ work'[q] = work[q]
  BY <1>1 DEF IsFile
<1>4. \A q : q # p /\ IsLocked(q) => IsLocked(q)'
  BY <1>1, <1>2 DEF IsLocked, IsDirectory
<1>5. ASSUME NEW q \in DOMAIN work'
      PROVE  q \in Seq(Named) /\ q # <<>> /\ IsDirectory(Front(q))' /\ NodeOK(work'[q])
  <2>1. CASE q = p
    BY <1>1, <1>2, <2>1
  <2>2. CASE q # p
    <3>1. q \in DOMAIN work /\ work'[q] = work[q]
      BY <1>1, <2>2
    <3>2. q \in Seq(Named) /\ q # <<>> /\ IsDirectory(Front(q)) /\ NodeOK(work[q])
      BY <3>1 DEF WorkOK
    <3> QED
      BY <1>2, <3>1, <3>2
  <2> QED
    BY <2>1, <2>2
<1>6. WorkOK'
  BY <1>5 DEF WorkOK
<1> QED
  BY <1>2, <1>3, <1>4, <1>6

(* What can be reached is in a directory. *)
LEMMA ReachedFrom ==
  ASSUME NEW p \in Seq(Named), p # <<>>, Accessible(p)
  PROVE  IsDirectory(Front(p))
<1>1. Len(p) \in Nat \ {0}
  BY EmptySeq
<1>2. Len(p) - 1 \in 0..(Len(p) - 1)
  BY <1>1
<1>3. IsDirectory(SubSeq(p, 1, Len(p) - 1))
  BY <1>2 DEF Accessible
<1> QED
  BY <1>3 DEF Front

---------------------------------------------------------------------------
(* A call that starts above a file of the tree has it ahead. *)
LEMMA AheadOfCall ==
  ASSUME NEW tree, NEW at \in Seq(Named), NEW entries, entries = EntryAt(tree, at).id.parts,
         NEW p \in Seq(Named), HasFile(tree, p),
         Len(at) < Len(p), at = SubSeq(p, 1, Len(at))
  PROVE  Ahead(Call(at, entries), p)
<1> DEFINE k == Len(at)
           c == Call(at, entries)
<1>1. k \in 0..(Len(p) - 1)
  BY LenProperties
<1>2. LedTo(tree, p) /\ EntryAt(tree, p).mode # "absent"
  BY DEF HasFile
<1>3. p[k + 1] \in Named /\ p[k + 1] \in DOMAIN EntryAt(tree, SubSeq(p, 1, k)).id.parts
  <2> HIDE DEF k
  <2> QED
    BY <1>1, <1>2, EntryAbove
<1>4. c.path = at /\ c.left = {i \in DOMAIN Order : Order[i] \in DOMAIN entries}
  BY DEF Call
<1>5. \E i \in DOMAIN Order : Order[i] = p[k + 1]
  BY <1>3 DEF Named, Range
<1>6. \E i \in c.left : Order[i] = p[k + 1]
  BY <1>3, <1>4, <1>5
<1> QED
  BY <1>4, <1>6 DEF Ahead

LEMMA CallIsOK ==
  ASSUME NEW tree, NEW at \in Seq(Named), HasDirectory(tree, at), Open(at)
  PROVE  CallOK(tree, Call(at, EntryAt(tree, at).id.parts))
BY DEF CallOK, Call

LEMMA FileIsBelow ==
  ASSUME NEW tree, NEW p \in Seq(Named), HasFile(tree, p)
  PROVE  p # <<>> /\ Len(p) \in Nat \ {0}
<1>1. EntryAt(tree, <<>>).mode = "directory"
  BY EntryAtRoot DEF Root
<1>2. p # <<>>
  BY <1>1 DEF HasFile
<1> QED
  BY <1>2, EmptySeq

LEMMA BegunFresh ==
  \A tree : run = Begun(tree) =>
      run.pc \in Ends /\ CallsOK /\ Covered /\ AbortExplained
<1> TAKE tree
<1> HAVE run = Begun(tree)
<1> DEFINE c == Call(<<>>, tree)
<1>1. CASE TreeOf(tree) \notin store
  <2>1. run.pc = "failed"
    BY <1>1 DEF Begun
  <2> QED
    BY <2>1 DEF Ends, CallsOK, Covered, AbortExplained, Busy
<1>2. CASE TreeOf(tree) \in store
  <2>1. run = [pc |-> "busy", tree |-> tree, calls |-> <<c>>]
    BY <1>2 DEF Begun
  <2>2. run.pc = "busy" /\ run.tree = tree /\ run.calls = <<c>>
    BY <2>1
  <2>3. EntryAt(tree, <<>>) = Root(tree)
    BY EntryAtRoot
  <2>4. <<>> \in Seq(Named) /\ Len(<<>>) = 0
    BY EmptySeq
  <2>5. HasDirectory(tree, <<>>)
    BY <1>2, <2>3, <2>4 DEF HasDirectory, LedTo, Root
  <2>6. Open(<<>>)
    <3>1. \A k \in 0..0 : SubSeq(<<>>, 1, k) = <<>>
      BY SubSeqEmpty
    <3> QED
      BY <2>4, <3>1 DEF Open, IsDirectory
  <2>7. EntryAt(tree, <<>>).id.parts = tree
    BY <2>3 DEF Root, TreeOf
  <2>8. CallOK(tree, c)
    BY <2>4, <2>5, <2>6, <2>7, CallIsOK
  <2>9. ASSUME NEW p \in Seq(Named), HasFile(tree, p) PROVE Ahead(c, p)
    <3>1. Len(p) \in Nat \ {0}
      BY <2>9, FileIsBelow
    <3>2. SubSeq(p, 1, 0) = <<>>
      BY SubSeqEmpty
    <3>3. Len(<<>>) < Len(p) /\ <<>> = SubSeq(p, 1, Len(<<>>))
      BY <2>4, <3>1, <3>2
    <3> DEFINE root == <<>>
    <3>4. root \in Seq(Named) /\ tree = EntryAt(tree, root).id.parts
      BY <2>4, <2>7
    <3>5. Len(root) < Len(p) /\ root = SubSeq(p, 1, Len(root))
      BY <3>3
    <3>6. c = Call(root, tree)
      OBVIOUS
    <3> HIDE DEF root, c
    <3> QED
      BY <2>9, <3>4, <3>5, <3>6, AheadOfCall
  <2> HIDE DEF c
  <2>10. run.calls \in Seq({c}) /\ run.calls # <<>> /\ Len(run.calls) = 1 /\ run.calls[1] = c
    BY <2>2
  <2>11. CallsOK
    <3>1. \A i \in 1..Len(<<c>>) : CallOK(tree, <<c>>[i])
      <4>1. \A i \in 1..Len(<<c>>) : i = 1
        BY <2>2, <2>10
      <4> QED
        BY <2>2, <2>8, <2>10, <4>1
    <3>2. <<c>> \in Seq({c}) /\ <<c>> # <<>>
      BY <2>2, <2>10
    <3> QED
      BY <1>2, <2>1, <3>1, <3>2 DEF CallsOK
  <2>12. Covered
    BY <2>2, <2>9, <2>10 DEF Covered, Busy
  <2> QED
    BY <2>2, <2>11, <2>12 DEF Ends, AbortExplained
<1> QED
  BY <1>1, <1>2

LEMMA BegunFreshNext ==
  \A tree : run' = Begun(tree)' =>
      run'.pc \in Ends /\ CallsOK' /\ Covered' /\ AbortExplained'
<1>1. (\A tree : run = Begun(tree) =>
          run.pc \in Ends /\ CallsOK /\ Covered /\ AbortExplained)'
  BY BegunFresh, PTL
<1> QED
  BY <1>1 DEF Ends

LEMMA NotRunning ==
  ASSUME run'.pc \in {"idle", "killed", "failed"}
  PROVE  run'.pc \in Ends /\ CallsOK' /\ Covered' /\ AbortExplained'
BY DEF Ends, CallsOK, Covered, AbortExplained, Busy

---------------------------------------------------------------------------
LEMMA WorkTreeInvInit == WorkTreeInit => WorkTreeInv
<1> SUFFICES ASSUME WorkTreeInit PROVE WorkTreeInv
  OBVIOUS
<1>1. head = Main /\ staged = <<>> /\ work = <<>>
  BY DEF WorkTreeInit
<1>2. DOMAIN staged = {} /\ DOMAIN work = {}
  BY <1>1
<1>3. WorkOK
  BY <1>2 DEF WorkOK
<1>4. CASE algo = "sha256" /\ store = {} /\ tips = [b \in Branch |-> Unborn] /\ run = Idle
  <2>1. Repository
    BY <1>1, <1>2, <1>4, WorkTreeAssumption DEF Repository, StoredOK
  <2>2. run.pc = "idle"
    BY <1>4 DEF Idle
  <2>3. run.pc \in Ends /\ CallsOK /\ Covered /\ AbortExplained
    BY <2>2 DEF Ends, CallsOK, Covered, AbortExplained, Busy
  <2> QED
    BY <1>3, <2>1, <2>3 DEF WorkTreeInv
<1>5. CASE /\ algo = "sha1" /\ tips \in Clones /\ commits = Range(tips)
           /\ store \subseteq UNION {ObjectsOf(t) : t \in commits}
           /\ run = Begun(tips[Main])
  <2>1. DOMAIN tips = Branch
    BY <1>5, WorkTreeAssumption
  <2>2. commits = {tips[b] : b \in Branch}
    BY <1>5, <2>1 DEF Range
  <2>3. ASSUME NEW o \in store PROVE IsObject(o)
    <3>1. PICK t \in commits : o \in ObjectsOf(t)
      BY <1>5
    <3>2. PICK b \in Branch : t = tips[b]
      BY <2>2
    <3> QED
      BY <1>5, <3>1, <3>2, WorkTreeAssumption
  <2>4. Repository
    BY <1>1, <1>2, <1>5, <2>1, <2>2, <2>3, WorkTreeAssumption DEF Repository, StoredOK
  <2>5. run.pc \in Ends /\ CallsOK /\ Covered /\ AbortExplained
    BY <1>5, BegunFresh
  <2> QED
    BY <1>3, <2>4, <2>5 DEF WorkTreeInv
<1>6. \/ algo = "sha256" /\ store = {} /\ tips = [b \in Branch |-> Unborn] /\ run = Idle
      \/ /\ algo = "sha1" /\ tips \in Clones /\ commits = Range(tips)
         /\ store \subseteq UNION {ObjectsOf(t) : t \in commits}
         /\ run = Begun(tips[Main])
  BY DEF WorkTreeInit
<1> QED
  BY <1>4, <1>5, <1>6

---------------------------------------------------------------------------
(* The user and the commands that only start a checkout or need none. *)
LEMMA RawIsObject ==
  ASSUME NEW S, NEW content \in Seq(S)
  PROVE  IsObject(Raw(content))
BY SeqOfRange DEF IsObject, Raw

LEMMA TreeIsObject == \A entries : IsObject(TreeOf(entries))
BY DEF IsObject, TreeOf

LEMMA ListIsObject == \A chunks : IsObject(ChunkList(chunks))
BY DEF IsObject, ChunkList

LEMMA ChunksAreObjects ==
  ASSUME NEW bytes, IsObject(bytes)
  PROVE  \A o \in Range(Chunks(bytes)) : IsObject(o)
<1>1. CASE algo = "sha1" \/ bytes.form # "raw"
  <2>1. Chunks(bytes) = <<bytes>>
    BY <1>1 DEF Chunks
  <2> QED
    BY <2>1 DEF Range
<1>2. CASE ~(algo = "sha1" \/ bytes.form # "raw")
  <2>1. Chunks(bytes) = [i \in DOMAIN bytes.parts |-> Raw(<<bytes.parts[i]>>)]
    BY <1>2 DEF Chunks
  <2>2. \A i \in DOMAIN bytes.parts : IsObject(Raw(<<bytes.parts[i]>>))
    <3> TAKE i \in DOMAIN bytes.parts
    <3> DEFINE piece == bytes.parts[i]
    <3>1. <<piece>> \in Seq({piece})
      OBVIOUS
    <3> HIDE DEF piece
    <3>2. IsObject(Raw(<<piece>>))
      BY <3>1, RawIsObject
    <3> QED
      BY <3>2 DEF piece
  <2> QED
    BY <2>1, <2>2 DEF Range
<1> QED
  BY <1>1, <1>2

LEMMA OnEditFile ==
  ASSUME WorkTreeInv, NEW p \in Paths, NEW content \in Contents, EditFile(p, content)
  PROVE  WorkTreeInv'
<1>1. p \in Seq(Named) /\ p # <<>>
  BY WorkTreeAssumption DEF Named
<1>2. IsDirectory(Front(p))
  BY <1>1, ReachedFrom DEF EditFile
<1>3. NodeOK(FileNode(Raw(content)))
  <2>1. IsObject(Raw(content))
    BY WorkTreeAssumption, RawIsObject
  <2> QED
    BY <2>1 DEF NodeOK, FileNode
<1>4. WorkOK'
  BY <1>1, <1>2, <1>3, PutKeeps DEF EditFile, WorkTreeInv
<1>5. run'.pc = "idle"
  BY DEF EditFile, Idle
<1>6. Repository'
  BY DEF EditFile, repo, WorkTreeInv, Repository, StoredOK
<1> QED
  BY <1>4, <1>5, <1>6, NotRunning DEF WorkTreeInv, Ends

LEMMA OnMakeDirectory ==
  ASSUME WorkTreeInv, NEW q \in Paths, Front(q) # <<>>, MakeDirectory(Front(q))
  PROVE  WorkTreeInv'
<1> DEFINE p == Front(q)
<1>1. p \in Seq(Named) /\ p # <<>>
  <2>1. q \in Seq(Named) /\ q # <<>>
    BY WorkTreeAssumption DEF Named
  <2>2. Len(q) - 1 \in 0..Len(q)
    BY <2>1, EmptySeq
  <2> QED
    BY <2>1, <2>2, PrefixIs DEF Front
<1> HIDE DEF p
<1>0. MakeDirectory(p)
  BY DEF p
<1>2. IsDirectory(Front(p))
  BY <1>0, <1>1, ReachedFrom DEF MakeDirectory
<1>3. NodeOK(Directory(FALSE)) /\ Directory(FALSE).kind = "directory"
  BY DEF NodeOK, Directory
<1>4. WorkOK'
  BY <1>0, <1>1, <1>2, <1>3, PutKeeps DEF MakeDirectory, WorkTreeInv
<1>5. run'.pc = "idle"
  BY <1>0 DEF MakeDirectory, Idle
<1>6. Repository'
  BY <1>0 DEF MakeDirectory, repo, WorkTreeInv, Repository, StoredOK
<1> QED
  BY <1>4, <1>5, <1>6, NotRunning DEF WorkTreeInv, Ends

LEMMA OnDelete ==
  ASSUME WorkTreeInv, NEW p \in DOMAIN work, Delete(p)
  PROVE  WorkTreeInv'
<1>1. p \in Seq(Named)
  BY DEF WorkTreeInv, WorkOK
<1>2. work' = [q \in {r \in DOMAIN work : ~IsPrefix(p, r)} |-> work[q]]
  BY DEF Delete, Restrict
<1>3. ASSUME NEW q \in DOMAIN work'
      PROVE  q \in Seq(Named) /\ q # <<>> /\ IsDirectory(Front(q))' /\ NodeOK(work'[q])
  <2>1. q \in DOMAIN work /\ ~IsPrefix(p, q) /\ work'[q] = work[q]
    BY <1>2
  <2>2. q \in Seq(Named) /\ q # <<>> /\ IsDirectory(Front(q)) /\ NodeOK(work[q])
    BY <2>1 DEF WorkTreeInv, WorkOK
  <2>3. IsDirectory(Front(q))'
    <3> DEFINE f == Front(q)
    <3>1. Len(q) - 1 \in 0..Len(q) /\ Len(q) \in Nat
      BY <2>2, EmptySeq
    <3>2. /\ f \in Seq(Named) /\ Len(f) = Len(q) - 1
          /\ \A j \in 0..(Len(q) - 1) : SubSeq(f, 1, j) = SubSeq(q, 1, j)
      BY <2>2, <3>1, PrefixIs DEF Front
    <3>3. ~IsPrefix(p, f)
      <4> SUFFICES ASSUME IsPrefix(p, f) PROVE FALSE
        OBVIOUS
      <4>1. Len(p) \in Nat /\ Len(p) <= Len(q) - 1 /\ SubSeq(p, 1, Len(p)) = SubSeq(f, 1, Len(p))
        BY <1>1, <3>2, LenProperties DEF IsPrefix
      <4>2. Len(p) \in 0..(Len(q) - 1) /\ Len(p) <= Len(q)
        BY <3>1, <4>1
      <4> HIDE DEF f
      <4>3. SubSeq(p, 1, Len(p)) = SubSeq(q, 1, Len(p))
        BY <3>2, <4>1, <4>2
      <4> QED
        BY <2>1, <4>2, <4>3 DEF IsPrefix
    <3> HIDE DEF f
    <3>4. f \in DOMAIN work => f \in DOMAIN work' /\ work'[f] = work[f]
      BY <1>2, <3>3
    <3>5. IsDirectory(f)
      BY <2>2 DEF f
    <3>6. IsDirectory(f)'
      BY <3>4, <3>5 DEF IsDirectory
    <3> QED
      BY <3>6 DEF f
  <2> QED
    BY <2>1, <2>2, <2>3
<1>4. WorkOK'
  BY <1>3 DEF WorkOK
<1>5. run'.pc = "idle"
  BY DEF Delete, Idle
<1>6. Repository'
  BY DEF Delete, repo, WorkTreeInv, Repository, StoredOK
<1> QED
  BY <1>4, <1>5, <1>6, NotRunning DEF WorkTreeInv, Ends

LEMMA OnAdd ==
  ASSUME WorkTreeInv, NEW p \in DOMAIN work, Add(p)
  PROVE  WorkTreeInv'
<1> DEFINE bytes == work[p].bytes
           chunks == Chunks(bytes)
<1>1. IsObject(bytes)
  BY DEF Add, IsFile, WorkTreeInv, WorkOK, NodeOK
<1>2. \A o \in Range(chunks) : IsObject(o)
  BY <1>1, ChunksAreObjects
<1>3. PICK written \in SUBSET (Range(chunks) \cup {ChunkList(chunks)}) :
        /\ store' = store \cup written
        /\ staged' = With(staged, p, ChunkList(chunks)) \/ staged' = staged
        /\ run' = [Idle EXCEPT !.unwritten = Range(chunks) \ store']
        /\ algo' = algo /\ tips' = tips /\ commits' = commits /\ head' = head /\ work' = work
  BY DEF Add
<1> HIDE DEF chunks, bytes
<1>4. StoredOK'
  BY <1>2, <1>3, ListIsObject DEF WorkTreeInv, Repository, StoredOK
<1>5. \A q \in DOMAIN staged' : staged'[q].form = "chunks"
  <2>1. ChunkList(chunks).form = "chunks"
    BY DEF ChunkList
  <2>2. \A q \in DOMAIN staged' :
            staged'[q] = ChunkList(chunks) \/ (q \in DOMAIN staged /\ staged'[q] = staged[q])
    <3>1. CASE staged' = staged
      BY <3>1
    <3>2. CASE staged' = With(staged, p, ChunkList(chunks))
      BY <3>2 DEF With
    <3> QED
      BY <1>3, <3>1, <3>2
  <2> QED
    BY <2>1, <2>2 DEF WorkTreeInv, Repository
<1>6. Repository'
  BY <1>3, <1>4, <1>5 DEF WorkTreeInv, Repository
<1>7. WorkOK'
  BY <1>3 DEF WorkTreeInv, WorkOK, IsDirectory
<1>8. run'.pc = "idle"
  BY <1>3 DEF Idle
<1> QED
  BY <1>6, <1>7, <1>8, NotRunning DEF WorkTreeInv, Ends

LEMMA OnCommit ==
  ASSUME WorkTreeInv, Commit
  PROVE  WorkTreeInv'
<1>1. PICK tree : /\ commits' = commits \cup {tree}
                  /\ tips' = [tips EXCEPT ![head] = tree]
                  /\ store' = store \cup {TreeOf(tree)}
  BY DEF Commit
<1>2. staged' = <<>> /\ run' = Idle /\ algo' = algo /\ head' = head /\ work' = work
  BY DEF Commit
<1>3. StoredOK'
  BY <1>1, TreeIsObject DEF WorkTreeInv, Repository, StoredOK
<1>4. DOMAIN tips' = Branch /\ \A b \in Branch : tips'[b] = Unborn \/ tips'[b] \in commits'
  <2>1. DOMAIN tips = Branch /\ head \in Branch /\ \A b \in Branch : tips[b] = Unborn \/ tips[b] \in commits
    BY DEF WorkTreeInv, Repository
  <2>2. \A b \in Branch : tips'[b] = IF b = head THEN tree ELSE tips[b]
    BY <1>1, <2>1
  <2> QED
    BY <1>1, <2>1, <2>2
<1>5. DOMAIN staged' = {}
  BY <1>2
<1>6. Repository'
  BY <1>2, <1>3, <1>4, <1>5 DEF WorkTreeInv, Repository
<1>7. WorkOK'
  BY <1>2 DEF WorkTreeInv, WorkOK, IsDirectory
<1>8. run'.pc = "idle"
  BY <1>2 DEF Idle
<1> QED
  BY <1>6, <1>7, <1>8, NotRunning DEF WorkTreeInv, Ends

LEMMA OnStart ==
  ASSUME WorkTreeInv, NEW tree, run' = Begun(tree), head' \in Branch,
         UNCHANGED <<algo, store, tips, commits, staged, work>>
  PROVE  WorkTreeInv'
<1>1. Begun(tree)' = Begun(tree)
  BY DEF Begun
<1>2. run'.pc \in Ends /\ CallsOK' /\ Covered' /\ AbortExplained'
  BY <1>1, BegunFreshNext
<1>3. WorkOK'
  BY DEF WorkTreeInv, WorkOK, IsDirectory
<1>4. Repository'
  BY DEF WorkTreeInv, Repository, StoredOK
<1> QED
  BY <1>2, <1>3, <1>4 DEF WorkTreeInv, Ends

---------------------------------------------------------------------------
(* The call under way and its entry. *)
LEMMA ThisIs ==
  ASSUME WorkTreeInv, Busy
  PROVE  /\ run.calls # <<>> /\ \E S : run.calls \in Seq(S)
         /\ Len(run.calls) \in Nat \ {0}
         /\ This = run.calls[1]
         /\ CallOK(run.tree, This)
<1>1. PICK S : run.calls \in Seq(S)
  BY CallsAre DEF WorkTreeInv
<1>2. run.calls # <<>> /\ \A i \in 1..Len(run.calls) : CallOK(run.tree, run.calls[i])
  BY CallsAre DEF WorkTreeInv
<1>3. Len(run.calls) \in Nat \ {0}
  BY <1>1, <1>2, EmptySeq
<1>4. This = run.calls[1]
  BY DEF This, Head
<1>5. 1 \in 1..Len(run.calls)
  BY <1>3
<1> QED
  BY <1>1, <1>2, <1>3, <1>4, <1>5

LEMMA ThisEntry ==
  ASSUME WorkTreeInv, Busy, This.left # {}
  PROVE  /\ Min(This.left) \in This.left
         /\ EntryName \in Named /\ EntryName \in DOMAIN This.tree
         /\ This.path \in Seq(Named)
         /\ Path \in Seq(Named) /\ Path # <<>>
         /\ Len(This.path) \in Nat /\ Len(Path) = Len(This.path) + 1
         /\ Front(Path) = This.path /\ IsDirectory(This.path)
         /\ EntryAt(run.tree, Path) = Entry /\ LedTo(run.tree, Path)
         /\ \A k \in 0..Len(This.path) :
               /\ SubSeq(Path, 1, k) = SubSeq(This.path, 1, k)
               /\ IsDirectory(SubSeq(Path, 1, k)) /\ HasDirectory(run.tree, SubSeq(Path, 1, k))
<1> DEFINE c == This
           n == EntryName
<1>1. CallOK(run.tree, c)
  BY ThisIs
<1>2. c.left \subseteq DOMAIN Order /\ Order \in Seq(Named)
  BY <1>1, WorkTreeAssumption DEF CallOK, Named
<1>3. c.left \subseteq Nat
  BY <1>2
<1>4. Min(c.left) \in c.left
  <2>1. \E i \in c.left : \A j \in c.left : i <= j
    <3>1. c.left # {}
      OBVIOUS
    <3> HIDE DEF c
    <3> QED
      BY <1>3, <3>1, LeastNumber
  <2> QED
    BY <2>1 DEF Min
<1>5. n \in Named /\ n \in DOMAIN c.tree
  BY <1>1, <1>2, <1>4 DEF EntryName, CallOK, Named, Range
<1>6. c.path \in Seq(Named) /\ HasDirectory(run.tree, c.path) /\ c.tree = EntryAt(run.tree, c.path).id.parts
  BY <1>1 DEF CallOK
<1>7. Path = Append(c.path, n) /\ Entry = c.tree[n]
  BY DEF Path, Entry
<1> HIDE DEF c, n
<1>8. /\ Path \in Seq(Named) /\ Path # <<>> /\ Len(Path) = Len(c.path) + 1 /\ Len(c.path) \in Nat
  BY <1>5, <1>6, <1>7, AppendProperties, LenProperties
<1>9. /\ EntryAt(run.tree, Path) = Entry /\ LedTo(run.tree, Path)
  BY <1>5, <1>6, <1>7, InDirectory
<1>10. /\ Front(Path) = c.path
       /\ \A k \in 0..Len(c.path) : SubSeq(Path, 1, k) = SubSeq(c.path, 1, k)
       /\ SubSeq(c.path, 1, Len(c.path)) = c.path
  BY <1>5, <1>6, <1>7, AppendPrefix
<1>11. \A k \in 0..Len(c.path) : IsDirectory(SubSeq(c.path, 1, k))
  BY <1>1 DEF CallOK, Open
<1>12. \A k \in 0..Len(c.path) : HasDirectory(run.tree, SubSeq(c.path, 1, k))
  <2> DEFINE at == c.path
             tree == run.tree
  <2>1. at \in Seq(Named) /\ HasDirectory(tree, at)
    BY <1>6
  <2> HIDE DEF at, tree
  <2>2. \A k \in 0..Len(at) : HasDirectory(tree, SubSeq(at, 1, k))
    BY <2>1, DirectoriesAbove
  <2> QED
    BY <2>2 DEF at, tree
<1>13. IsDirectory(c.path)
  <2>1. Len(c.path) \in 0..Len(c.path)
    BY <1>8
  <2>2. IsDirectory(SubSeq(c.path, 1, Len(c.path)))
    BY <1>11, <2>1
  <2> QED
    BY <1>10, <2>2
<1> QED
  BY <1>4, <1>5, <1>6, <1>8, <1>9, <1>10, <1>11, <1>12, <1>13 DEF c, n

Rest == [This EXCEPT !.left = @ \ {Min(@)}]

LEMMA RestIs ==
  ASSUME WorkTreeInv, Busy, This.left # {}
  PROVE  /\ Rest.path = This.path /\ Rest.left = This.left \ {Min(This.left)}
         /\ CallOK(run.tree, Rest)
<1>1. CallOK(run.tree, This)
  BY ThisIs
<1>2. This = [path |-> This.path, tree |-> This.tree, left |-> This.left]
  BY <1>1 DEF CallOK
<1>3. Rest = [path |-> This.path, tree |-> This.tree, left |-> This.left \ {Min(This.left)}]
  BY <1>2 DEF Rest
<1>4. Rest.path = This.path /\ Rest.tree = This.tree /\ Rest.left = This.left \ {Min(This.left)}
  BY <1>3
<1>5. Rest = [path |-> Rest.path, tree |-> Rest.tree, left |-> Rest.left]
  BY <1>3, <1>4
<1>6. CallOK(run.tree, Rest)
  <2> DEFINE r == Rest
             c == This
  <2>1. r = [path |-> r.path, tree |-> r.tree, left |-> r.left]
    BY <1>5
  <2>2. r.path = c.path /\ r.tree = c.tree /\ r.left \subseteq c.left
    BY <1>4
  <2>3. CallOK(run.tree, c)
    BY <1>1
  <2> HIDE DEF r, c
  <2>4. CallOK(run.tree, r)
    BY <2>1, <2>2, <2>3 DEF CallOK
  <2> QED
    BY <2>4 DEF r
<1> QED
  BY <1>4, <1>6

LEMMA OnwardIs ==
  ASSUME WorkTreeInv, Busy, This.left # {}
  PROVE  /\ \E S : Onward \in Seq(S)
         /\ Len(Onward) = Len(run.calls) /\ Onward # <<>>
         /\ Onward[1] = Rest
         /\ \A i \in 2..Len(run.calls) : Onward[i] = run.calls[i]
         /\ \A i \in 1..Len(Onward) : CallOK(run.tree, Onward[i])
<1>1. PICK S : run.calls \in Seq(S)
  BY ThisIs
<1>2. run.calls # <<>> /\ Len(run.calls) \in Nat \ {0}
  BY ThisIs
<1>3. Onward = <<Rest>> \o Tail(run.calls)
  BY DEF Onward, Rest
<1>4. /\ \E T : <<Rest>> \o Tail(run.calls) \in Seq(T)
      /\ Len(<<Rest>> \o Tail(run.calls)) = Len(run.calls)
      /\ (<<Rest>> \o Tail(run.calls))[1] = Rest
      /\ \A i \in 2..Len(run.calls) : (<<Rest>> \o Tail(run.calls))[i] = run.calls[i]
  BY <1>1, <1>2, OntoTail
<1>5. /\ \E T : Onward \in Seq(T)
      /\ Len(Onward) = Len(run.calls)
      /\ Onward[1] = Rest
      /\ \A i \in 2..Len(run.calls) : Onward[i] = run.calls[i]
  BY <1>3, <1>4
<1>6. Onward # <<>>
  BY <1>2, <1>5, EmptySeq
<1>7. \A i \in 1..Len(run.calls) : CallOK(run.tree, run.calls[i])
  BY CallsAre DEF WorkTreeInv
<1>8. ASSUME NEW i \in 1..Len(Onward) PROVE CallOK(run.tree, Onward[i])
  <2>1. i = 1 \/ i \in 2..Len(run.calls)
    BY <1>2, <1>5
  <2> QED
    BY <1>5, <1>7, <2>1, RestIs
<1> QED
  BY <1>5, <1>6, <1>8

(* What the loop leaves behind at its entry: the entry's file, or what is  *)
(* in its directory.                                                       *)
LEMMA AtEntry ==
  ASSUME WorkTreeInv, Busy, This.left # {},
         NEW p \in Seq(Named), HasFile(run.tree, p), Ahead(This, p), ~Ahead(Rest, p)
  PROVE  /\ Path = SubSeq(p, 1, Len(Path))
         /\ Entry.id \in store
         /\ \/ p = Path /\ Entry.mode # "directory"
            \/ Len(Path) < Len(p) /\ Entry.mode = "directory"
<1> DEFINE k == Len(This.path)
<1>1. Rest.path = This.path /\ Rest.left = This.left \ {Min(This.left)}
  BY RestIs
<1>2. k < Len(p) /\ This.path = SubSeq(p, 1, k) /\ EntryName = p[k + 1]
  BY <1>1 DEF Ahead, EntryName
<1>3. Len(p) \in Nat /\ k \in Nat /\ Len(Path) = k + 1
  BY ThisEntry, LenProperties
<1>4. k \in 0..(Len(p) - 1)
  BY <1>2, <1>3
<1>5. LedTo(run.tree, p) /\ EntryAt(run.tree, p).mode \notin {"directory", "absent"} /\ EntryAt(run.tree, p).id \in store
  BY DEF HasFile
<1> HIDE DEF k
<1>6. Path = SubSeq(p, 1, k + 1)
  BY <1>2, <1>4, NextPrefix DEF Path
<1>7. EntryAt(run.tree, Path) = Entry
  BY ThisEntry
<1>8. CASE k + 1 = Len(p)
  <2>1. p = Path
    BY <1>6, <1>8, SubSeqFull
  <2> QED
    BY <1>3, <1>5, <1>6, <1>7, <2>1
<1>9. CASE k + 1 # Len(p)
  <2>1. k + 1 < Len(p)
    BY <1>3, <1>4, <1>9
  <2>2. Entry.mode = "directory" /\ Entry.id \in store
    BY <1>4, <1>5, <1>6, <1>7, <2>1, EntryAbove
  <2> QED
    BY <1>3, <1>6, <2>1, <2>2
<1> QED
  BY <1>8, <1>9

---------------------------------------------------------------------------
(* A step of a checkout leaves what is done done, and its calls where they *)
(* are.                                                                    *)
LEMMA CallKept ==
  ASSUME NEW tree, NEW c, CallOK(tree, c), store' = store,
         \A q : IsDirectory(q) => IsDirectory(q)'
  PROVE  CallOK(tree, c)'
<1>1. HasDirectory(tree, c.path)'
  BY DEF CallOK, HasDirectory, LedTo
<1>2. Open(c.path)'
  BY DEF CallOK, Open
<1> QED
  BY <1>1, <1>2 DEF CallOK

LEMMA FileKept ==
  ASSUME store' = store
  PROVE  \A tree, p : HasFile(tree, p)' <=> HasFile(tree, p)
BY DEF HasFile, LedTo

(* Something is put where a call is: what was settled elsewhere still is. *)
LEMMA SettledKept ==
  ASSUME WorkOK, NEW at \in Seq(Named), at # <<>>, NEW node, NodeOK(node),
         IsDirectory(Front(at)), node.kind = "directory" \/ ~IsDirectory(at),
         work' = With(work, at, node), algo' = algo
  PROVE  \A tree, q : Settled(tree, q) /\ (q # at \/ IsDirectory(at)) => Settled(tree, q)'
<1>1. /\ \A q : IsDirectory(q) => IsDirectory(q)'
      /\ \A q : q # at /\ IsFile(q) => IsFile(q)' /\ work'[q] = work[q]
  BY PutKeeps
<1>2. \A id : Written(id)' = Written(id)
  BY DEF Written
<1>3. ASSUME NEW tree, NEW q, Settled(tree, q), q # at \/ IsDirectory(at)
      PROVE  Settled(tree, q)'
  <2>1. CASE IsDirectory(q)
    BY <1>1, <2>1 DEF Settled
  <2>2. CASE ~IsDirectory(q)
    <3>1. q # at /\ IsFile(q) /\ work[q].bytes = Written(EntryAt(tree, q).id)
      BY <1>3, <2>2 DEF Settled, AsWritten
    <3>2. IsFile(q)' /\ work'[q].bytes = Written(EntryAt(tree, q).id)'
      BY <1>1, <1>2, <3>1
    <3> QED
      BY <3>2 DEF Settled, AsWritten
  <2> QED
    BY <2>1, <2>2
<1> QED
  BY <1>3

LEMMA CoveredNext ==
  ASSUME NEW tree, NEW calls, run' = [pc |-> "busy", tree |-> tree, calls |-> calls],
         store' = store,
         \A p \in Seq(Named) : HasFile(tree, p) =>
             Settled(tree, p)' \/ \E i \in 1..Len(calls) : Ahead(calls[i], p)
  PROVE  Covered'
<1>1. \A p \in Seq(Named) : HasFile(tree, p)' =>
          Settled(tree, p)' \/ \E i \in 1..Len(calls) : Ahead(calls[i], p)
  BY FileKept
<1>2. run'.pc = "busy" /\ run'.tree = tree /\ run'.calls = calls
  OBVIOUS
<1> QED
  BY <1>1, <1>2 DEF Covered, Ahead

(* The loop moves on from an entry that is done, or has no file behind it. *)
LEMMA OnPassed ==
  ASSUME WorkTreeInv, Busy, This.left # {}, run' = Passed,
         UNCHANGED store,
         \A q : IsDirectory(q) => IsDirectory(q)',
         NEW tree, tree = run.tree,
         \A p \in Seq(Named) : Settled(tree, p) => Settled(tree, p)',
         \A p \in Seq(Named) :
             HasFile(tree, p) /\ Ahead(This, p) => Ahead(Rest, p) \/ Settled(tree, p)'
  PROVE  run'.pc \in Ends /\ CallsOK' /\ Covered' /\ AbortExplained'
<1>0. PICK onward : onward = Onward
  OBVIOUS
<1>1. run = [pc |-> "busy", tree |-> tree, calls |-> run.calls] /\ TreeOf(tree) \in store
  BY CallsAre DEF WorkTreeInv
<1>2. run' = [pc |-> "busy", tree |-> tree, calls |-> onward]
  BY <1>0, <1>1 DEF Passed
<1>3. /\ \E S : onward \in Seq(S)
      /\ Len(onward) = Len(run.calls) /\ onward # <<>>
      /\ onward[1] = Rest
      /\ \A i \in 2..Len(run.calls) : onward[i] = run.calls[i]
      /\ \A i \in 1..Len(onward) : CallOK(tree, onward[i])
  BY <1>0, OnwardIs
<1>4. Len(run.calls) \in Nat \ {0} /\ This = run.calls[1]
  BY ThisIs
<1>5. run'.pc = "busy" /\ run'.tree = tree /\ run'.calls = onward
  BY <1>2
<1>6. CallsOK'
  <2>1. \A i \in 1..Len(onward) : CallOK(tree, onward[i])'
    BY <1>3, CallKept
  <2> QED
    BY <1>1, <1>2, <1>3, <2>1 DEF CallsOK
<1>7. ASSUME NEW p \in Seq(Named), HasFile(tree, p)
      PROVE  Settled(tree, p)' \/ \E i \in 1..Len(onward) : Ahead(onward[i], p)
  <2>1. CASE Settled(tree, p)
    BY <2>1
  <2>2. CASE ~Settled(tree, p)
    <3>1. PICK i \in 1..Len(run.calls) : Ahead(run.calls[i], p)
      BY <1>7, <2>2 DEF WorkTreeInv, Covered
    <3>2. CASE i = 1
      <4>1. Ahead(Rest, p) \/ Settled(tree, p)'
        BY <1>4, <1>7, <3>1, <3>2
      <4>2. 1 \in 1..Len(onward)
        BY <1>3, <1>4
      <4> QED
        BY <1>3, <4>1, <4>2
    <3>3. CASE i # 1
      <4>1. i \in 2..Len(run.calls)
        BY <1>4, <3>3
      <4> QED
        BY <1>3, <3>1, <4>1
    <3> QED
      BY <3>2, <3>3
  <2> QED
    BY <2>1, <2>2
<1>8. Covered'
  BY <1>2, <1>7, CoveredNext
<1> QED
  BY <1>5, <1>6, <1>8 DEF Ends, AbortExplained

---------------------------------------------------------------------------
(* An exception, at a path that is out of reach. *)
LEMMA OutOfReach ==
  ASSUME WorkTreeInv, Busy, This.left # {}, ~Accessible(Path)
  PROVE  \E p \in DOMAIN work : HasDirectory(run.tree, p) /\ IsLocked(p)
<1>1. /\ Len(This.path) \in Nat /\ Len(Path) = Len(This.path) + 1
      /\ \A k \in 0..Len(This.path) :
            IsDirectory(SubSeq(Path, 1, k)) /\ HasDirectory(run.tree, SubSeq(Path, 1, k))
  BY ThisEntry
<1>2. PICK k \in 0..(Len(Path) - 1) : ~IsDirectory(SubSeq(Path, 1, k)) \/ IsLocked(SubSeq(Path, 1, k))
  BY DEF Accessible
<1>3. k \in 0..Len(This.path)
  BY <1>1, <1>2
<1>4. PICK p : p = SubSeq(Path, 1, k)
  OBVIOUS
<1>5. IsDirectory(p) /\ HasDirectory(run.tree, p)
  BY <1>1, <1>3, <1>4
<1>6. IsLocked(p)
  BY <1>2, <1>4, <1>5
<1>7. p \in DOMAIN work
  BY <1>6 DEF IsLocked, IsDirectory
<1> QED
  BY <1>5, <1>6, <1>7

LEMMA OnAborted ==
  ASSUME WorkTreeInv, Busy, run' = Aborted, store' = store, work' = work,
         \E p \in DOMAIN work : HasDirectory(run.tree, p) /\ (IsFile(p) \/ IsLocked(p))
  PROVE  run'.pc \in Ends /\ CallsOK' /\ Covered' /\ AbortExplained'
<1>1. run'.pc = "aborted" /\ run'.tree = run.tree
  BY DEF Aborted
<1>2. PICK p \in DOMAIN work : HasDirectory(run.tree, p) /\ (IsFile(p) \/ IsLocked(p))
  OBVIOUS
<1>3. (IsFile(p) \/ IsLocked(p))'
  BY <1>2 DEF IsFile, IsLocked, IsDirectory
<1>4. HasDirectory(run.tree, p)'
  BY <1>1, <1>2 DEF HasDirectory, LedTo
<1>5. AbortExplained'
  BY <1>2, <1>3, <1>4 DEF AbortExplained
<1> QED
  BY <1>1, <1>5 DEF Ends, CallsOK, Covered, Busy

LEMMA RepositoryKept ==
  ASSUME Repository, UNCHANGED <<repo, staged>>
  PROVE  Repository'
BY DEF Repository, StoredOK, repo

LEMMA WorkKept ==
  ASSUME WorkOK, work' = work
  PROVE  WorkOK' /\ \A q : IsDirectory(q) => IsDirectory(q)'
BY DEF WorkOK, IsDirectory

LEMMA SettledSame ==
  ASSUME work' = work, algo' = algo
  PROVE  \A tree, q : Settled(tree, q) => Settled(tree, q)'
<1>1. \A id : Written(id)' = Written(id)
  BY DEF Written
<1>2. \A q : (IsDirectory(q) <=> IsDirectory(q)') /\ (IsFile(q) <=> IsFile(q)')
  BY DEF IsDirectory, IsFile
<1> QED
  BY <1>1, <1>2 DEF Settled, AsWritten

(* An entry whose object cannot be read has nothing behind it. *)
LEMMA OnMissing ==
  ASSUME WorkTreeInv, Busy, This.left # {}, Entry.id \notin store,
         run' = Passed, work' = work, UNCHANGED <<repo, staged>>
  PROVE  WorkTreeInv'
<1>1. PICK tree : tree = run.tree
  OBVIOUS
<1>2. Repository' /\ WorkOK' /\ \A q : IsDirectory(q) => IsDirectory(q)'
  BY RepositoryKept, WorkKept DEF WorkTreeInv
<1>3. \A p \in Seq(Named) : HasFile(tree, p) /\ Ahead(This, p) => Ahead(Rest, p)
  BY <1>1, AtEntry
<1>4. \A p \in Seq(Named) : Settled(tree, p) => Settled(tree, p)'
  BY SettledSame DEF repo
<1>5. run'.pc \in Ends /\ CallsOK' /\ Covered' /\ AbortExplained'
  BY <1>1, <1>2, <1>3, <1>4, OnPassed DEF repo
<1> QED
  BY <1>2, <1>5 DEF WorkTreeInv, Ends

LEMMA WrittenIsObject ==
  ASSUME NEW id, IsObject(id)
  PROVE  IsObject(Written(id))
<1>1. <<>> \in Seq({})
  BY EmptySeq
<1>2. IsObject(Raw(<<>>))
  BY <1>1, RawIsObject
<1> QED
  BY <1>2 DEF Written

LEMMA OnWriteFile ==
  ASSUME WorkTreeInv, WriteFile
  PROVE  WorkTreeInv'
<1>1. Busy /\ This.left # {} /\ Entry.mode # "directory" /\ UNCHANGED <<repo, staged>>
  BY DEF WriteFile
<1>2. CASE Entry.id \notin store
  <2>1. run' = Passed /\ work' = work
    BY <1>2 DEF WriteFile
  <2> QED
    BY <1>1, <1>2, <2>1, OnMissing
<1>3. CASE Entry.id \in store /\ ~Accessible(Path)
  <2>1. run' = Aborted /\ work' = work
    BY <1>3 DEF WriteFile
  <2>2. Repository' /\ WorkOK'
    BY <1>1, <2>1, RepositoryKept, WorkKept DEF WorkTreeInv
  <2>3. \E p \in DOMAIN work : HasDirectory(run.tree, p) /\ IsLocked(p)
    BY <1>1, <1>3, OutOfReach
  <2>4. run'.pc \in Ends /\ CallsOK' /\ Covered' /\ AbortExplained'
    BY <1>1, <2>1, <2>3, OnAborted DEF repo
  <2> QED
    BY <2>2, <2>4 DEF WorkTreeInv, Ends
<1>4. CASE Entry.id \in store /\ Accessible(Path)
  <2>1. PICK tree : tree = run.tree
    OBVIOUS
  <2>2. PICK at : at = Path
    OBVIOUS
  <2>3. /\ at \in Seq(Named) /\ at # <<>> /\ IsDirectory(Front(at))
        /\ EntryAt(tree, at) = Entry
    BY <1>1, <2>1, <2>2, ThisEntry
  <2>4. PICK node : /\ work' = With(work, at, node)
                    /\ \/ IsDirectory(at) /\ node = Directory(TRUE)
                       \/ ~IsDirectory(at) /\ node = FileNode(Written(Entry.id))
    BY <1>4, <2>2 DEF WriteFile, Overwritten
  <2>5. run' = Passed
    BY <1>4 DEF WriteFile
  <2>6. NodeOK(node) /\ (node.kind = "directory" \/ ~IsDirectory(at))
    <3>1. IsObject(Written(Entry.id))
      BY <1>4, WrittenIsObject DEF WorkTreeInv, Repository, StoredOK
    <3> QED
      BY <2>4, <3>1 DEF NodeOK, Directory, FileNode
  <2>7. /\ WorkOK' /\ \A q : IsDirectory(q) => IsDirectory(q)'
    BY <2>3, <2>4, <2>6, PutKeeps DEF WorkTreeInv
  <2>8. \A t, q : Settled(t, q) /\ (q # at \/ IsDirectory(at)) => Settled(t, q)'
    BY <1>1, <2>3, <2>4, <2>6, SettledKept DEF WorkTreeInv, repo
  <2>9. Settled(tree, at)'
    <3>1. CASE IsDirectory(at)
      BY <2>7, <3>1 DEF Settled
    <3>2. CASE ~IsDirectory(at)
      <4>1. at \in DOMAIN work' /\ work'[at] = FileNode(Written(Entry.id))
        BY <2>4, <3>2, PutIs
      <4>2. Written(Entry.id) = Written(EntryAt(tree, at).id)'
        BY <1>1, <2>3 DEF Written, repo
      <4> QED
        BY <4>1, <4>2 DEF Settled, AsWritten, IsFile, FileNode
    <3> QED
      BY <3>1, <3>2
  <2>10. \A q \in Seq(Named) : Settled(tree, q) => Settled(tree, q)'
    BY <2>8, <2>9
  <2>11. ASSUME NEW p \in Seq(Named), HasFile(tree, p), Ahead(This, p)
         PROVE  Ahead(Rest, p) \/ Settled(tree, p)'
    <3>1. CASE Ahead(Rest, p)
      BY <3>1
    <3>2. CASE ~Ahead(Rest, p)
      <4>1. p = Path
        BY <1>1, <2>1, <2>11, <3>2, AtEntry
      <4> QED
        BY <2>2, <2>9, <4>1
    <3> QED
      BY <3>1, <3>2
  <2>12. run'.pc \in Ends /\ CallsOK' /\ Covered' /\ AbortExplained'
    BY <1>1, <2>1, <2>5, <2>7, <2>10, <2>11, OnPassed DEF repo
  <2>13. Repository'
    BY <1>1, RepositoryKept DEF WorkTreeInv
  <2> QED
    BY <2>7, <2>12, <2>13 DEF WorkTreeInv, Ends
<1> QED
  BY <1>2, <1>3, <1>4

LEMMA OnCheckoutCrash ==
  ASSUME WorkTreeInv, CheckoutCrash
  PROVE  WorkTreeInv'
<1>1. Busy /\ run'.pc = "killed" /\ UNCHANGED <<repo, staged>>
  BY DEF CheckoutCrash
<1>2. WorkOK'
  <2>1. CASE UNCHANGED work
    BY <2>1, WorkKept DEF WorkTreeInv
  <2>2. CASE /\ This.left # {} /\ ~IsDirectory(Path)
             /\ work' = With(work, Path, FileNode(Raw(<<>>)))
    <3>1. PICK at : at = Path
      OBVIOUS
    <3>2. at \in Seq(Named) /\ at # <<>> /\ IsDirectory(Front(at)) /\ ~IsDirectory(at)
      BY <1>1, <2>2, <3>1, ThisEntry
    <3>3. NodeOK(FileNode(Raw(<<>>)))
      <4>1. <<>> \in Seq({})
        BY EmptySeq
      <4>2. IsObject(Raw(<<>>))
        BY <4>1, RawIsObject
      <4> QED
        BY <4>2 DEF NodeOK, FileNode
    <3> QED
      BY <2>2, <3>1, <3>2, <3>3, PutKeeps DEF WorkTreeInv
  <2> QED
    BY <2>1, <2>2 DEF CheckoutCrash
<1>3. Repository'
  BY <1>1, RepositoryKept DEF WorkTreeInv
<1> QED
  BY <1>1, <1>2, <1>3, NotRunning DEF WorkTreeInv, Ends

(* A call begins: it has what is in its directory ahead. *)
LEMMA OnEntered ==
  ASSUME WorkTreeInv, Busy, This.left # {}, Entry.mode = "directory", Entry.id \in store,
         run' = [run EXCEPT !.calls = <<Call(Path, Entry.id.parts)>> \o Onward],
         store' = store,
         \A q : IsDirectory(q) => IsDirectory(q)',
         IsDirectory(Path) \/ \E at : at = Path /\ IsDirectory(at)',
         \A tree, q : Settled(tree, q) => Settled(tree, q)'
  PROVE  run'.pc \in Ends /\ CallsOK' /\ Covered' /\ AbortExplained'
<1>1. PICK tree, old : run = [pc |-> "busy", tree |-> tree, calls |-> old]
  BY CallsAre DEF WorkTreeInv
<1>2. run.tree = tree /\ run.calls = old /\ TreeOf(tree) \in store
  BY <1>1, CallsAre DEF WorkTreeInv
<1>3. PICK onward : onward = Onward
  OBVIOUS
<1>4. PICK at : at = Path
  OBVIOUS
<1>5. PICK new : new = Call(at, Entry.id.parts)
  OBVIOUS
<1>6. PICK calls : calls = <<new>> \o onward
  OBVIOUS
<1>7. run' = [pc |-> "busy", tree |-> tree, calls |-> calls]
  BY <1>1, <1>3, <1>4, <1>5, <1>6
<1>8. /\ \E S : onward \in Seq(S)
      /\ Len(onward) = Len(old) /\ onward # <<>>
      /\ onward[1] = Rest
      /\ \A i \in 2..Len(old) : onward[i] = old[i]
      /\ \A i \in 1..Len(onward) : CallOK(tree, onward[i])
  BY <1>2, <1>3, OnwardIs
<1>9. Len(old) \in Nat \ {0} /\ This = old[1]
  BY <1>2, ThisIs
<1>10. /\ \E S : calls \in Seq(S)
       /\ Len(calls) = Len(onward) + 1
       /\ calls[1] = new
       /\ \A i \in 1..Len(onward) : calls[i + 1] = onward[i]
  BY <1>6, <1>8, Onto
<1>11. /\ at \in Seq(Named) /\ at # <<>> /\ EntryAt(tree, at) = Entry /\ LedTo(tree, at)
       /\ Len(at) \in Nat /\ Len(at) - 1 = Len(This.path) /\ Len(This.path) \in Nat
       /\ \A k \in 0..Len(This.path) : IsDirectory(SubSeq(at, 1, k))
  BY <1>2, <1>4, ThisEntry, LenProperties
<1>12. CallOK(tree, new)'
  <2>1. HasDirectory(tree, at)'
    BY <1>11 DEF HasDirectory, LedTo
  <2>2. IsDirectory(at)'
    BY <1>4
  <2>3. Open(at)'
    <3>1. ASSUME NEW k \in 0..Len(at) PROVE IsDirectory(SubSeq(at, 1, k))'
      <4>1. CASE k = Len(at)
        <5>1. SubSeq(at, 1, k) = at
          BY <1>11, <4>1, SubSeqFull
        <5> QED
          BY <2>2, <5>1
      <4>2. CASE k # Len(at)
        <5>1. k \in 0..Len(This.path)
          BY <1>11, <4>2
        <5> QED
          BY <1>11, <5>1
      <4> QED
        BY <4>1, <4>2
    <3> QED
      BY <3>1 DEF Open
  <2>4. new = Call(at, EntryAt(tree, at).id.parts)
    BY <1>5, <1>11
  <2> QED
    BY <1>11, <2>1, <2>3, <2>4 DEF CallOK, Call
<1>13. CallsOK'
  <2>1. \A i \in 1..Len(onward) : CallOK(tree, onward[i])'
    BY <1>8, CallKept
  <2>2. ASSUME NEW i \in 1..Len(calls) PROVE CallOK(tree, calls[i])'
    <3>1. CASE i = 1
      BY <1>10, <1>12, <3>1
    <3>2. CASE i # 1
      <4>1. i - 1 \in 1..Len(onward) /\ (i - 1) + 1 = i
        BY <1>8, <1>9, <1>10, <3>2
      <4>2. calls[(i - 1) + 1] = onward[i - 1]
        BY <1>10, <4>1
      <4> QED
        BY <2>1, <4>1, <4>2
    <3> QED
      BY <3>1, <3>2
  <2>3. calls # <<>>
    BY <1>8, <1>9, <1>10, EmptySeq
  <2> QED
    BY <1>2, <1>7, <1>10, <2>2, <2>3 DEF CallsOK
<1>14. ASSUME NEW p \in Seq(Named), HasFile(tree, p)
       PROVE  Settled(tree, p)' \/ \E i \in 1..Len(calls) : Ahead(calls[i], p)
  <2>1. CASE Settled(tree, p)
    BY <2>1
  <2>2. CASE ~Settled(tree, p)
    <3>1. PICK i \in 1..Len(old) : Ahead(old[i], p)
      BY <1>2, <1>14, <2>2 DEF WorkTreeInv, Covered
    <3>2. CASE i # 1 \/ Ahead(Rest, p)
      <4>1. Ahead(onward[i], p)
        BY <1>8, <1>9, <3>1, <3>2
      <4>2. i \in 1..Len(onward) /\ i + 1 \in 1..Len(calls)
        BY <1>8, <1>9, <1>10
      <4>3. calls[i + 1] = onward[i]
        BY <1>10, <4>2
      <4> QED
        BY <4>1, <4>2, <4>3
    <3>3. CASE i = 1 /\ ~Ahead(Rest, p)
      <4>1. Ahead(This, p)
        BY <1>9, <3>1, <3>3
      <4>2. Len(at) < Len(p) /\ at = SubSeq(p, 1, Len(at))
        BY <1>2, <1>4, <1>14, <3>3, <4>1, AtEntry
      <4>3. PICK entries : entries = Entry.id.parts
        OBVIOUS
      <4>4. Ahead(Call(at, entries), p)
        <5>1. at \in Seq(Named) /\ entries = EntryAt(tree, at).id.parts
          BY <1>11, <4>3
        <5> QED
          BY <1>14, <4>2, <5>1, AheadOfCall
      <4>5. 1 \in 1..Len(calls)
        BY <1>8, <1>9, <1>10
      <4> QED
        BY <1>5, <1>10, <4>3, <4>4, <4>5
    <3> QED
      BY <3>2, <3>3
  <2> QED
    BY <2>1, <2>2
<1>15. Covered'
  BY <1>7, <1>14, CoveredNext
<1>16. run'.pc = "busy"
  BY <1>7
<1> QED
  BY <1>13, <1>15, <1>16 DEF Ends, AbortExplained

LEMMA OnEnterDirectory ==
  ASSUME WorkTreeInv, EnterDirectory
  PROVE  WorkTreeInv'
<1>1. Busy /\ This.left # {} /\ Entry.mode = "directory" /\ UNCHANGED <<repo, staged>>
  BY DEF EnterDirectory
<1>2. CASE Entry.id \notin store
  <2>1. run' = Passed /\ work' = work
    BY <1>2 DEF EnterDirectory
  <2> QED
    BY <1>1, <1>2, <2>1, OnMissing
<1>3. CASE Entry.id \in store /\ ~CanEnter(Path)
  <2>1. run' = Aborted /\ work' = work
    BY <1>3 DEF EnterDirectory
  <2>2. Repository' /\ WorkOK'
    BY <1>1, <2>1, RepositoryKept, WorkKept DEF WorkTreeInv
  <2>3. \E p \in DOMAIN work : HasDirectory(run.tree, p) /\ (IsFile(p) \/ IsLocked(p))
    <3>1. CASE ~Accessible(Path)
      BY <1>1, <3>1, OutOfReach
    <3>2. CASE Accessible(Path)
      <4>1. PICK at : at = Path
        OBVIOUS
      <4>2. at \in DOMAIN work /\ ~IsDirectory(at)
        BY <1>3, <3>2, <4>1 DEF CanEnter
      <4>3. IsFile(at)
        BY <4>2 DEF WorkTreeInv, WorkOK, NodeOK, IsFile, IsDirectory
      <4>4. EntryAt(run.tree, at) = Entry /\ LedTo(run.tree, at)
        BY <1>1, <4>1, ThisEntry
      <4>5. HasDirectory(run.tree, at)
        BY <1>1, <1>3, <4>4 DEF HasDirectory
      <4> QED
        BY <4>2, <4>3, <4>5
    <3> QED
      BY <3>1, <3>2
  <2>4. run'.pc \in Ends /\ CallsOK' /\ Covered' /\ AbortExplained'
    BY <1>1, <2>1, <2>3, OnAborted DEF repo
  <2> QED
    BY <2>2, <2>4 DEF WorkTreeInv, Ends
<1>4. CASE Entry.id \in store /\ CanEnter(Path)
  <2>1. run' = [run EXCEPT !.calls = <<Call(Path, Entry.id.parts)>> \o Onward]
    BY <1>1, <1>4 DEF EnterDirectory
  <2>2. PICK at : at = Path
    OBVIOUS
  <2>3. at \in Seq(Named) /\ at # <<>> /\ IsDirectory(Front(at))
    BY <1>1, <2>2, ThisEntry
  <2>4. /\ WorkOK' /\ (\A q : IsDirectory(q) => IsDirectory(q)')
        /\ IsDirectory(at)'
        /\ \A tree, q : Settled(tree, q) => Settled(tree, q)'
    <3>1. CASE IsDirectory(at)
      <4>1. work' = work
        BY <1>1, <1>4, <2>2, <3>1 DEF EnterDirectory
      <4>2. WorkOK' /\ \A q : IsDirectory(q) => IsDirectory(q)'
        BY <4>1, WorkKept DEF WorkTreeInv
      <4>3. \A tree, q : Settled(tree, q) => Settled(tree, q)'
        BY <1>1, <4>1, SettledSame DEF repo
      <4> QED
        BY <3>1, <4>2, <4>3
    <3>2. CASE ~IsDirectory(at)
      <4>1. work' = With(work, at, Directory(FALSE)) /\ at \notin DOMAIN work
        BY <1>1, <1>4, <2>2, <3>2 DEF EnterDirectory, CanEnter
      <4>2. NodeOK(Directory(FALSE)) /\ Directory(FALSE).kind = "directory"
        BY DEF NodeOK, Directory
      <4>3. WorkOK' /\ \A q : IsDirectory(q) => IsDirectory(q)'
        BY <2>3, <4>1, <4>2, PutKeeps DEF WorkTreeInv
      <4>4. \A tree, q : Settled(tree, q) /\ q # at => Settled(tree, q)'
        BY <1>1, <2>3, <4>1, <4>2, SettledKept DEF WorkTreeInv, repo
      <4>5. \A tree : ~Settled(tree, at)
        BY <3>2, <4>1 DEF Settled, AsWritten, IsFile
      <4>6. at \in DOMAIN work' /\ work'[at] = Directory(FALSE)
        BY <4>1, PutIs
      <4>7. IsDirectory(at)'
        BY <4>2, <4>6 DEF IsDirectory
      <4> QED
        BY <4>3, <4>4, <4>5, <4>7
    <3> QED
      BY <3>1, <3>2
  <2>5. run'.pc \in Ends /\ CallsOK' /\ Covered' /\ AbortExplained'
    BY <1>1, <1>4, <2>1, <2>2, <2>4, OnEntered DEF repo
  <2>6. Repository'
    BY <1>1, RepositoryKept DEF WorkTreeInv
  <2> QED
    BY <2>4, <2>5, <2>6 DEF WorkTreeInv, Ends
<1> QED
  BY <1>2, <1>3, <1>4

LEMMA OnLeaveDirectory ==
  ASSUME WorkTreeInv, LeaveDirectory
  PROVE  WorkTreeInv'
<1>1. Busy /\ This.left = {} /\ UNCHANGED <<repo, staged, work>>
  BY DEF LeaveDirectory
<1>2. Repository' /\ WorkOK' /\ \A q : IsDirectory(q) => IsDirectory(q)'
  BY <1>1, RepositoryKept, WorkKept DEF WorkTreeInv
<1>3. PICK tree, old : run = [pc |-> "busy", tree |-> tree, calls |-> old]
  BY <1>1, CallsAre DEF WorkTreeInv
<1>4. run.tree = tree /\ run.calls = old /\ TreeOf(tree) \in store
  BY <1>1, <1>3, CallsAre DEF WorkTreeInv
<1>5. PICK S : old \in Seq(S)
  BY <1>1, <1>4, ThisIs
<1>6. /\ old # <<>> /\ Len(old) \in Nat \ {0} /\ This = old[1]
      /\ \A i \in 1..Len(old) : CallOK(tree, old[i])
  BY <1>1, <1>4, ThisIs, CallsAre DEF WorkTreeInv
<1>7. \A t, q : Settled(t, q) => Settled(t, q)'
  BY <1>1, SettledSame DEF repo
<1>8. \A p \in Seq(Named) : HasFile(tree, p) =>
          Settled(tree, p) \/ \E i \in 2..Len(old) : Ahead(old[i], p)
  <2>1. \A p : ~Ahead(old[1], p)
    BY <1>1, <1>6 DEF Ahead
  <2>2. \A i \in 1..Len(old) : i = 1 \/ i \in 2..Len(old)
    BY <1>6
  <2>3. \A p \in Seq(Named) : HasFile(tree, p) =>
            Settled(tree, p) \/ \E i \in 1..Len(old) : Ahead(old[i], p)
    BY <1>1, <1>4 DEF WorkTreeInv, Covered
  <2> QED
    BY <2>1, <2>2, <2>3
<1>9. CASE Len(old) = 1
  <2>1. run' = [pc |-> "done", tree |-> tree]
    BY <1>4, <1>9 DEF LeaveDirectory
  <2>2. run'.pc = "done" /\ run'.tree = tree
    BY <2>1
  <2>3. \A p \in Seq(Named) : HasFile(tree, p)' => Settled(tree, p)'
    BY <1>1, <1>7, <1>8, <1>9, FileKept DEF repo
  <2>4. Covered'
    BY <2>2, <2>3 DEF Covered, Busy
  <2> QED
    BY <1>2, <2>2, <2>4 DEF WorkTreeInv, Ends, CallsOK, Busy, AbortExplained
<1>10. CASE Len(old) # 1
  <2>1. PICK calls : calls = Tail(old)
    OBVIOUS
  <2>2. run' = [pc |-> "busy", tree |-> tree, calls |-> calls]
    BY <1>3, <1>4, <1>10, <2>1 DEF LeaveDirectory
  <2>3. calls \in Seq(S) /\ Len(calls) = Len(old) - 1 /\ \A i \in 1..Len(calls) : calls[i] = old[i + 1]
    BY <1>5, <1>6, <2>1, HeadTailProperties
  <2>4. calls # <<>>
    BY <1>6, <1>10, <2>3, EmptySeq
  <2>5. \A i \in 1..Len(calls) : CallOK(tree, calls[i])'
    <3>1. \A i \in 1..Len(calls) : i + 1 \in 1..Len(old)
      BY <1>6, <2>3
    <3>2. \A i \in 1..Len(calls) : CallOK(tree, calls[i])
      BY <1>6, <2>3, <3>1
    <3> QED
      BY <1>1, <1>2, <3>2, CallKept DEF repo
  <2>6. CallsOK'
    BY <1>1, <1>4, <2>2, <2>3, <2>4, <2>5 DEF CallsOK, repo
  <2>7. ASSUME NEW p \in Seq(Named), HasFile(tree, p)
        PROVE  Settled(tree, p)' \/ \E i \in 1..Len(calls) : Ahead(calls[i], p)
    <3>1. CASE Settled(tree, p)
      BY <1>7, <3>1
    <3>2. CASE ~Settled(tree, p)
      <4>1. PICK i \in 2..Len(old) : Ahead(old[i], p)
        BY <1>8, <2>7, <3>2
      <4>2. i - 1 \in 1..Len(calls) /\ (i - 1) + 1 = i
        BY <1>6, <2>3
      <4>3. calls[i - 1] = old[(i - 1) + 1]
        BY <2>3, <4>2
      <4> QED
        BY <4>1, <4>2, <4>3
    <3> QED
      BY <3>1, <3>2
  <2>8. Covered'
    <3>1. store' = store
      BY <1>1 DEF repo
    <3> QED
      BY <2>2, <2>7, <3>1, CoveredNext
  <2>9. run'.pc = "busy"
    BY <2>2
  <2> QED
    BY <1>2, <2>6, <2>8, <2>9 DEF WorkTreeInv, Ends, AbortExplained
<1> QED
  BY <1>9, <1>10

---------------------------------------------------------------------------
LEMMA WorkTreeInvNext ==
  ASSUME WorkTreeInv, [WorkTreeNext]_wtvars
  PROVE  WorkTreeInv'
<1>1. CASE User
  <2>1. CASE \E p \in Paths, c \in Contents : EditFile(p, c)
    BY <2>1, OnEditFile
  <2>2. CASE \E p \in {Front(q) : q \in Paths} : p # <<>> /\ MakeDirectory(p)
    <3>1. PICK q \in Paths : Front(q) # <<>> /\ MakeDirectory(Front(q))
      BY <2>2
    <3> QED
      BY <3>1, OnMakeDirectory
  <2>3. CASE \E p \in DOMAIN work : Delete(p)
    BY <2>3, OnDelete
  <2> QED
    BY <1>1, <2>1, <2>2, <2>3 DEF User
<1>2. CASE \E p \in DOMAIN work : Add(p)
  BY <1>2, OnAdd
<1>3. CASE Commit
  BY <1>3, OnCommit
<1>4. CASE \E b \in Branch : CheckoutBranch(b)
  <2>1. PICK b \in Branch : CheckoutBranch(b)
    BY <1>4
  <2>2. /\ run' = Begun(tips[b]) /\ head' \in Branch
        /\ UNCHANGED <<algo, store, tips, commits, staged, work>>
    BY <2>1 DEF CheckoutBranch
  <2>3. PICK tree : tree = tips[b]
    OBVIOUS
  <2> QED
    BY <2>2, <2>3, OnStart
<1>5. CASE \E tree \in commits : CheckoutCommit(tree)
  <2>1. PICK tree \in commits : CheckoutCommit(tree)
    BY <1>5
  <2>2. /\ run' = Begun(tree) /\ head' \in Branch
        /\ UNCHANGED <<algo, store, tips, commits, staged, work>>
    BY <2>1 DEF CheckoutCommit, repo, WorkTreeInv, Repository
  <2> QED
    BY <2>2, OnStart
<1>6. CASE EnterDirectory
  BY <1>6, OnEnterDirectory
<1>7. CASE LeaveDirectory
  BY <1>7, OnLeaveDirectory
<1>8. CASE WriteFile
  BY <1>8, OnWriteFile
<1>9. CASE CheckoutCrash
  BY <1>9, OnCheckoutCrash
<1>10. CASE UNCHANGED wtvars
  <2>1. UNCHANGED <<repo, staged>> /\ work' = work /\ run' = run /\ store' = store /\ algo' = algo
    BY <1>10 DEF wtvars, repo
  <2>2. Repository' /\ WorkOK' /\ \A q : IsDirectory(q) => IsDirectory(q)'
    BY <2>1, RepositoryKept, WorkKept DEF WorkTreeInv
  <2>3. CallsOK'
    <3>1. CASE ~Busy
      BY <2>1, <3>1 DEF CallsOK, Busy
    <3>2. CASE Busy
      <4>1. PICK tree, calls :
              /\ run = [pc |-> "busy", tree |-> tree, calls |-> calls]
              /\ TreeOf(tree) \in store
              /\ \E S : calls \in Seq(S)
              /\ calls # <<>>
              /\ \A i \in 1..Len(calls) : CallOK(tree, calls[i])
        BY <3>2 DEF WorkTreeInv, CallsOK
      <4>2. \A i \in 1..Len(calls) : CallOK(tree, calls[i])'
        BY <2>1, <2>2, <4>1, CallKept
      <4>3. run' = [pc |-> "busy", tree |-> tree, calls |-> calls] /\ TreeOf(tree) \in store'
        BY <2>1, <4>1
      <4> QED
        BY <4>1, <4>2, <4>3 DEF CallsOK
    <3> QED
      BY <3>1, <3>2
  <2>4. Covered'
    <3>1. \A tree, q : HasFile(tree, q)' => HasFile(tree, q)
      BY <2>1, FileKept
    <3>2. \A tree, q : Settled(tree, q) => Settled(tree, q)'
      BY <2>1, SettledSame
    <3>3. PICK tree, calls : tree = run.tree /\ calls = run.calls
      OBVIOUS
    <3>4. run'.tree = tree /\ run'.calls = calls
      BY <2>1, <3>3
    <3>5. Busy => \A p \in Seq(Named) : HasFile(tree, p) =>
            Settled(tree, p) \/ \E i \in 1..Len(calls) : Ahead(calls[i], p)
      BY <3>3 DEF WorkTreeInv, Covered
    <3>6. run.pc = "done" => \A p \in Seq(Named) : HasFile(tree, p) => Settled(tree, p)
      BY <3>3 DEF WorkTreeInv, Covered
    <3>7. Busy => \A p \in Seq(Named) : HasFile(tree, p)' =>
            Settled(tree, p)' \/ \E i \in 1..Len(calls) : Ahead(calls[i], p)
      BY <3>1, <3>2, <3>5
    <3>8. run.pc = "done" => \A p \in Seq(Named) : HasFile(tree, p)' => Settled(tree, p)'
      BY <3>1, <3>2, <3>6
    <3> QED
      BY <2>1, <3>4, <3>7, <3>8 DEF Covered, Ahead, Busy
  <2>5. AbortExplained'
    BY <2>1 DEF WorkTreeInv, AbortExplained, HasDirectory, LedTo, IsFile, IsLocked, IsDirectory
  <2> QED
    BY <2>1, <2>2, <2>3, <2>4, <2>5 DEF WorkTreeInv, Ends
<1> QED
  BY <1>1, <1>2, <1>3, <1>4, <1>5, <1>6, <1>7, <1>8, <1>9, <1>10 DEF WorkTreeNext

LEMMA WorkTreeInvariant == WorkTreeSpec => []WorkTreeInv
<1>1. WorkTreeInv /\ [WorkTreeNext]_wtvars => WorkTreeInv'
  BY WorkTreeInvNext
<1> QED
  BY <1>1, WorkTreeInvInit, PTL DEF WorkTreeSpec

LEMMA TypeOfWorkTree == WorkTreeInv => WorkTreeTypeOK
<1> SUFFICES ASSUME WorkTreeInv PROVE WorkTreeTypeOK
  OBVIOUS
<1>1. Busy => run.calls # <<>> /\ TreeOf(run.tree) \in store
  BY CallsAre DEF WorkTreeInv
<1>2. \A p \in DOMAIN work : p # <<>> /\ IsDirectory(Front(p))
  BY DEF WorkTreeInv, WorkOK
<1> QED
  BY <1>1, <1>2 DEF WorkTreeTypeOK, WorkTreeInv, Repository, StoredOK, Ends

(* What is on disk is in directories, what is staged is a list of chunks, a *)
(* checkout under way has a call to go on with.  (add.cpp, commit.cpp,      *)
(* fetch.cpp)                                                              *)
THEOREM WorkTreeTyping == WorkTreeSpec => []WorkTreeTypeOK
BY TypeOfWorkTree, WorkTreeInvariant, PTL

LEMMA TreePathsAre == TreePaths \subseteq Seq(Named)
<1>1. \A m \in Nat : [1..m -> Named] \subseteq Seq(Named)
  BY SeqDef
<1>2. 0..MaxDepth \subseteq Nat
  BY WorkTreeAssumption
<1> QED
  BY <1>1, <1>2 DEF TreePaths, BoundedSeq, SeqOf, Named

(* A checkout that ends has written each file of its tree, whatever the    *)
(* trees, the paths, the contents and the course of the checkouts before.  *)
(* (fetch.cpp, materialize_tree)                                           *)
THEOREM CheckoutCompletes == WorkTreeSpec => []CheckoutComplete
<1>1. WorkTreeInv => CheckoutComplete
  BY TreePathsAre DEF WorkTreeInv, Covered, CheckoutComplete, Settled
<1> QED
  BY <1>1, WorkTreeInvariant, PTL

(* A checkout is cut short only by a file in a directory's place, or by a  *)
(* directory locked by an earlier one.  (fetch.cpp, materialize_tree)       *)
THEOREM AbortIsExplained == WorkTreeSpec => []AbortExplained
<1>1. WorkTreeInv => AbortExplained
  BY DEF WorkTreeInv
<1> QED
  BY <1>1, WorkTreeInvariant, PTL

---------------------------------------------------------------------------
(* One piece after the other makes the whole. *)
LEMMA FlattenPieces ==
  ASSUME NEW S, NEW c \in Seq(S)
  PROVE  FlattenSeq([i \in 1..Len(c) |-> <<c[i]>>]) = c
<1> DEFINE n == Len(c)
           s == [i \in 1..n |-> <<c[i]>>]
           Is(f, i) == IF i = 1 THEN s[i] ELSE f[i - 1] \o s[i]
           F == CHOOSE f : f = [i \in 1..n |-> Is(f, i)]
           pieces == [i \in 1..n |-> SubSeq(c, 1, i)]
           T == {i \in 1..n : F[i] # SubSeq(c, 1, i)}
<1>1. n \in Nat /\ DOMAIN c = 1..n /\ Len(s) = n
  BY LenProperties
<1>2. CASE n = 0
  <2>1. c = <<>>
    BY <1>2, EmptySeq
  <2>2. s = <<>>
    BY <1>2
  <2>3. Len(<<>>) = 0
    BY EmptySeq
  <2> QED
    BY <2>1, <2>2, <2>3 DEF FlattenSeq
<1>3. CASE n # 0
  <2>1. \A i \in 1..n : SubSeq(c, 1, i) = Is(pieces, i)
    <3> TAKE i \in 1..n
    <3>1. SubSeq(c, 1, i) = SubSeq(c, 1, i - 1) \o <<c[i]>>
      <4>1. 1 \in 1..Len(c) /\ i \in 1..Len(c)
        BY <1>1
      <4> QED
        BY <4>1, SubSeqRecursiveSecond
    <3>2. CASE i = 1
      <4>1. SubSeq(c, 1, 0) = <<>>
        BY SubSeqEmpty
      <4>2. <<c[1]>> \in Seq({c[1]})
        OBVIOUS
      <4>3. <<>> \o <<c[1]>> = <<c[1]>>
        BY <4>2, ConcatEmptySeq
      <4>4. SubSeq(c, 1, 1) = <<c[1]>>
        <5>1. i - 1 = 0
          BY <3>2
        <5>2. SubSeq(c, 1, i) = <<>> \o <<c[i]>>
          BY <3>1, <4>1, <5>1
        <5> QED
          BY <3>2, <4>3, <5>2
      <4> QED
        BY <3>2, <4>4
    <3>3. CASE i # 1
      <4>1. i - 1 \in 1..n
        BY <1>1, <3>3
      <4>2. pieces[i - 1] = SubSeq(c, 1, i - 1)
        BY <4>1
      <4> QED
        BY <3>1, <3>3, <4>2
    <3> QED
      BY <3>2, <3>3
  <2>2. pieces = [i \in 1..n |-> Is(pieces, i)]
    BY <2>1
  <2>3. F = [i \in 1..n |-> Is(F, i)]
    <3> HIDE DEF pieces, Is
    <3>1. \E f : f = [i \in 1..n |-> Is(f, i)]
      BY <2>2
    <3> QED
      BY <3>1
  <2>4. T = {}
    <3> SUFFICES ASSUME T # {} PROVE FALSE
      OBVIOUS
    <3> HIDE DEF F
    <3>1. PICK i \in T : \A j \in T : i <= j
      <4>1. T \subseteq Nat
        BY <1>1
      <4> HIDE DEF T
      <4> QED
        BY <4>1, LeastNumber
    <3>2. i \in 1..n /\ F[i] # SubSeq(c, 1, i) /\ F[i] = Is(F, i)
      BY <2>3
    <3>3. SubSeq(c, 1, i) = Is(pieces, i)
      BY <2>1, <3>2
    <3>4. i # 1
      BY <3>2, <3>3
    <3>5. i - 1 \in 1..n /\ ~(i <= i - 1)
      BY <1>1, <3>2, <3>4
    <3>6. i - 1 \notin T
      <4> HIDE DEF T
      <4> QED
        BY <3>1, <3>5
    <3>7. F[i - 1] = SubSeq(c, 1, i - 1)
      BY <3>5, <3>6
    <3>8. pieces[i - 1] = SubSeq(c, 1, i - 1)
      BY <3>5
    <3> QED
      BY <3>2, <3>3, <3>4, <3>7, <3>8
  <2>5. F[n] = c
    <3>1. n \in 1..n
      BY <1>1, <1>3
    <3> HIDE DEF F
    <3>2. F[n] = SubSeq(c, 1, n)
      BY <2>4, <3>1
    <3> QED
      BY <3>2, SubSeqFull
  <2>6. FlattenSeq(s) = F[n]
    BY <1>1, <1>3 DEF FlattenSeq
  <2> QED
    BY <2>5, <2>6
<1> QED
  BY <1>2, <1>3

(* What a list of chunks stands for. *)
LEMMA OneChunk ==
  \A id : id.form = "chunks" /\ Len(id.parts) = 1 => FileOf(id) = id.parts[1]
<1> TAKE id
<1> DEFINE whole == Raw(FlattenSeq([i \in DOMAIN id.parts |-> id.parts[i].parts]))
<1>1. FileOf(id) = CASE id.form # "chunks" -> id
                     [] Len(id.parts) = 1 -> id.parts[1]
                     [] OTHER -> whole
  BY DEF FileOf
<1> HIDE DEF whole
<1> QED
  BY <1>1

LEMMA ManyChunks ==
  \A id : id.form = "chunks" /\ Len(id.parts) # 1 =>
            FileOf(id) = Raw(FlattenSeq([i \in DOMAIN id.parts |-> id.parts[i].parts]))
<1> TAKE id
<1> DEFINE whole == Raw(FlattenSeq([i \in DOMAIN id.parts |-> id.parts[i].parts]))
<1>1. FileOf(id) = CASE id.form # "chunks" -> id
                     [] Len(id.parts) = 1 -> id.parts[1]
                     [] OTHER -> whole
  BY DEF FileOf
<1> HIDE DEF whole
<1>2. id.form = "chunks" /\ Len(id.parts) # 1 => FileOf(id) = whole
  BY <1>1
<1> QED
  BY <1>2 DEF whole

(* The chunks of a file are the file.  (Blob::from_data) *)
LEMMA ChunksAreTheFile ==
  ASSUME NEW bytes, IsObject(bytes)
  PROVE  FileOf(ChunkList(Chunks(bytes))) = bytes
<1>0. PICK chunks : chunks = Chunks(bytes)
  OBVIOUS
<1>1. PICK id : id = ChunkList(chunks) /\ id.form = "chunks" /\ id.parts = chunks
  <2>1. ChunkList(chunks).form = "chunks" /\ ChunkList(chunks).parts = chunks
    BY DEF ChunkList
  <2> QED
    BY <2>1
<1> SUFFICES FileOf(id) = bytes
  BY <1>0, <1>1
<1>2. CASE algo = "sha1" \/ bytes.form # "raw"
  <2>1. chunks = <<bytes>>
    BY <1>0, <1>2 DEF Chunks
  <2>2. Len(chunks) = 1 /\ chunks[1] = bytes
    BY <2>1
  <2> QED
    BY <1>1, <2>2, OneChunk
<1>3. CASE ~(algo = "sha1" \/ bytes.form # "raw")
  <2> DEFINE c == bytes.parts
  <2>1. c \in Seq(Range(c)) /\ bytes = Raw(c)
    BY <1>3 DEF IsObject, Raw
  <2>2. Len(c) \in Nat /\ DOMAIN c = 1..Len(c)
    BY <2>1, LenProperties
  <2>3. chunks = [i \in 1..Len(c) |-> Raw(<<c[i]>>)]
    BY <1>0, <1>3, <2>2 DEF Chunks
  <2> HIDE DEF c
  <2>4. Len(chunks) = Len(c) /\ DOMAIN chunks = 1..Len(c)
    BY <2>2, <2>3
  <2>5. CASE Len(c) = 1
    <3>1. c = <<c[1]>>
      <4>1. c[1] \in Range(c)
        BY <2>2, <2>5 DEF Range
      <4>2. <<c[1]>> \in Seq(Range(c)) /\ Len(<<c[1]>>) = 1
        BY <4>1
      <4> QED
        BY <2>1, <2>5, <4>2, SeqEqual
    <3>2. chunks[1] = Raw(c)
      BY <2>3, <2>5, <3>1
    <3> QED
      BY <1>1, <2>1, <2>4, <2>5, <3>2, OneChunk
  <2>6. CASE Len(c) # 1
    <3>1. [i \in DOMAIN chunks |-> chunks[i].parts] = [i \in 1..Len(c) |-> <<c[i]>>]
      BY <2>3, <2>4 DEF Raw
    <3>2. FlattenSeq([i \in DOMAIN chunks |-> chunks[i].parts]) = c
      BY <2>1, <3>1, FlattenPieces
    <3> QED
      BY <1>1, <2>1, <2>4, <2>6, <3>2, ManyChunks
  <2> QED
    BY <2>5, <2>6
<1> QED
  BY <1>2, <1>3

(* flux add stages each file as it is on disk, in a blob that is stored,   *)
(* with every chunk of it stored or reported, whatever the pieces.         *)
(* (add.cpp, Blob::from_data)                                              *)
THEOREM AddStagesTheFile == WorkTreeSpec => StagesWhatItRead
<1> DEFINE Staged(p) ==
      (p \in DOMAIN staged => staged[p] # staged'[p]) =>
          /\ IsFile(p) /\ FileOf(staged'[p]) = work[p].bytes
          /\ staged'[p] \in store'
          /\ Range(staged'[p].parts) \subseteq store' \cup run'.unwritten
<1>1. ASSUME WorkTreeInv, [WorkTreeNext]_wtvars
      PROVE  \A p \in DOMAIN staged' : Staged(p)
  <2>1. CASE staged' = staged
    BY <2>1
  <2>2. CASE Commit
    <3>1. DOMAIN staged' = {}
      BY <2>2 DEF Commit
    <3> QED
      BY <3>1
  <2>3. ASSUME NEW p \in DOMAIN work, Add(p) PROVE \A q \in DOMAIN staged' : Staged(q)
    <3> DEFINE bytes == work[p].bytes
               chunks == Chunks(bytes)
    <3>1. IsFile(p) /\ IsObject(bytes)
      BY <1>1, <2>3 DEF Add, IsFile, WorkTreeInv, WorkOK, NodeOK
    <3>2. FileOf(ChunkList(chunks)) = bytes
      BY <3>1, ChunksAreTheFile
    <3>3. /\ \/ staged' = With(staged, p, ChunkList(chunks)) /\ ChunkList(chunks) \in store'
             \/ staged' = staged
          /\ Range(chunks) \subseteq store' \cup run'.unwritten
      BY <2>3 DEF Add, Idle
    <3> HIDE DEF chunks
    <3> SUFFICES ASSUME staged' # staged PROVE \A q \in DOMAIN staged' : Staged(q)
      BY <2>1
    <3>4. ChunkList(chunks).parts = chunks
      BY DEF ChunkList
    <3>5. \A q \in DOMAIN staged' :
              staged'[q] = IF q = p THEN ChunkList(chunks) ELSE staged[q]
      BY <3>3 DEF With
    <3>6. \A q \in DOMAIN staged' : q # p => q \in DOMAIN staged
      BY <3>3 DEF With
    <3> QED
      BY <3>1, <3>2, <3>3, <3>4, <3>5, <3>6
  <2>4. staged' = staged \/ Commit \/ \E p \in DOMAIN work : Add(p)
    BY <1>1 DEF WorkTreeNext, User, EditFile, MakeDirectory, Delete, CheckoutBranch,
                CheckoutCommit, EnterDirectory, LeaveDirectory, WriteFile, CheckoutCrash, wtvars
  <2> QED
    BY <2>1, <2>2, <2>3, <2>4
<1>2. WorkTreeInv /\ [WorkTreeNext]_wtvars => [\A p \in DOMAIN staged' : Staged(p)]_wtvars
  BY <1>1
<1> QED
  BY <1>2, WorkTreeInvariant, PTL DEF WorkTreeSpec, StagesWhatItRead

---------------------------------------------------------------------------
(* The working tree and the snapshots together, as the run has them: a     *)
(* behaviour of both is one of each, in which a step of the other is a     *)
(* step that changes nothing, so all that is proved above holds of them.   *)
THEOREM UpkeepIsEach == UpkeepSpec => WorkTreeSpec /\ SnapshotSpec
<1> DEFINE all == <<part, wtvars, snapvars>>
<1>1. UpkeepInit => WorkTreeInit /\ SnapshotInit
  BY DEF UpkeepInit
<1>2. [UpkeepNext]_all => [WorkTreeNext]_wtvars /\ [SnapshotNext]_snapvars
  BY DEF UpkeepNext
<1> QED
  BY <1>1, <1>2, PTL DEF UpkeepSpec, WorkTreeSpec, SnapshotSpec

(* The types of the two together, with one writer of a file.  (add.cpp,    *)
(* commit.cpp, fetch.cpp, snapshot.cpp)                                     *)
THEOREM UpkeepTyping == ASSUME OneWriter PROVE UpkeepSpec => []UpkeepTypeOK
<1>1. WorkTreeTypeOK /\ SnapshotTypeOK => UpkeepTypeOK
  BY DEF UpkeepTypeOK
<1> QED
  BY <1>1, UpkeepIsEach, WorkTreeTyping, SnapshotTyping, PTL
=============================================================================
