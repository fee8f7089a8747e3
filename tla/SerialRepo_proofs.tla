------------------------- MODULE SerialRepo_proofs -------------------------
(***************************************************************************)
(* Theorems about FluxRepo used by one flux process at a time (one that is *)
(* killed between any two steps, and replaced, included), for any number   *)
(* of branches, names, contents and commits:                               *)
(*   - SerialUpToDate: whatever a running command goes by is still so;     *)
(*   - SerialCommitsAdvance: commit and merge only ever extend a branch;   *)
(*   - SerialImplementsSnapshots: each command takes effect at one step.   *)
(* With several processes at once none of them holds.                      *)
(***************************************************************************)
EXTENDS FluxRepo_proofs, FiniteSetTheorems

OneProcess == \A p, q \in Proc : p = q

(* HEAD names a branch: `flux init`, or a clone of a repository whose main *)
(* branch is the one checked out.                                          *)
UsualHead == Starts \subseteq {"init", "clone"}

---------------------------------------------------------------------------
(* A set of numbers that is not empty has a least element: what stands in  *)
(* for induction here, by a least counterexample.                          *)
LEMMA LeastNumber ==
    ASSUME NEW T, T \subseteq Nat, T # {}
    PROVE  \E n \in T : \A m \in T : n <= m
<1> DEFINE R == OpToRel(<, Nat)
<1>1. IsWellFoundedOn(R, Nat)
  BY NatLessThanWellFounded, Zenon
<1>2. \A m, n \in Nat : m < n <=> <<m, n>> \in R
  BY DEF OpToRel
<1> HIDE DEF R
<1>3. PICK n \in T : \A m \in T : <<m, n>> \notin R
  BY <1>1, WFMin
<1>4. \A m \in T : ~(m < n)
  BY <1>2, <1>3
<1> QED
  BY <1>4

---------------------------------------------------------------------------
(* History. *)
ParentsOfAll(commits, lost) == UNION {Range(x.parents) : x \in commits \ lost}

(* The walk of the history is what its recursive definition says: the       *)
(* commit, then the parents of what the level before reached.               *)
LEMMA Generations ==
    ASSUME NEW c, NEW lost
    PROVE  \A i \in Nat : Generation(c, lost)[i] = IF i = 0 THEN {c} ELSE ParentsOfAll(Generation(c, lost)[i - 1], lost)
<1> DEFINE Level(f, i) == IF i = 0 THEN {c} ELSE ParentsOfAll(f[i - 1], lost)
           UpTo(f, n) == f = [i \in 0..n |-> Level(f, i)]
           T == {n \in Nat : ~\E f : UpTo(f, n)}
<1>1. ASSUME NEW n \in Nat, NEW f, UpTo(f, n), NEW g, UpTo(g, n + 1)
      PROVE  \A i \in 0..n : f[i] = g[i]
  <2> DEFINE D == {i \in 0..n : f[i] # g[i]}
  <2>1. SUFFICES ASSUME D # {} PROVE FALSE
    OBVIOUS
  <2>2. D \subseteq Nat
    OBVIOUS
  <2>3. PICK i \in D : \A j \in D : i <= j
    <3> HIDE DEF D
    <3> QED
      BY <2>1, <2>2, LeastNumber
  <2>4. i \in 0..n /\ i \in 0..(n + 1) /\ i \in Nat
    OBVIOUS
  <2>5. f[i] = Level(f, i) /\ g[i] = Level(g, i)
    <3>1. \A h, m : UpTo(h, m) => \A k \in 0..m : h[k] = Level(h, k)
      OBVIOUS
    <3> HIDE DEF UpTo, Level
    <3> QED
      BY <1>1, <2>4, <3>1
  <2>6. i # 0 => i - 1 \in 0..n /\ i - 1 \notin D
    BY <2>3
  <2>7. i # 0 => f[i - 1] = g[i - 1]
    BY <2>6
  <2> QED
    BY <2>5, <2>7
<1>2. \A n \in Nat : \E f : UpTo(f, n)
  <2>1. SUFFICES ASSUME T # {} PROVE FALSE
    OBVIOUS
  <2>2. PICK n \in T : \A m \in T : n <= m
    <3>1. T \subseteq Nat
      OBVIOUS
    <3> HIDE DEF T
    <3> QED
      BY <2>1, <3>1, LeastNumber
  <2>3. n \in Nat /\ ~\E f : UpTo(f, n)
    OBVIOUS
  <2>4. CASE n = 0
    <3> DEFINE f == [i \in 0..0 |-> {c}]
    <3>1. UpTo(f, 0)
      OBVIOUS
    <3> QED
      BY <2>3, <2>4, <3>1
  <2>5. CASE n # 0
    <3>1. n - 1 \in Nat /\ n - 1 \notin T
      <4> HIDE DEF T
      <4> QED
        BY <2>2, <2>3, <2>5
    <3>2. PICK f : UpTo(f, n - 1)
      <4>1. \A m \in Nat : m \notin T => \E f : UpTo(f, m)
        OBVIOUS
      <4> HIDE DEF UpTo, T
      <4> QED
        BY <3>1, <4>1
    <3> DEFINE g == [i \in 0..n |-> Level(f, i)]
    <3>3. \A i \in 0..(n - 1) : f[i] = Level(f, i)
      BY <3>2
    <3>4. \A i \in 0..n : g[i] = Level(f, i)
      OBVIOUS
    <3>5. \A i \in 0..n : i # 0 => f[i - 1] = g[i - 1]
      <4> TAKE i \in 0..n
      <4>1. CASE i = 0
        BY <4>1
      <4>2. CASE i # 0
        <5>1. i - 1 \in 0..(n - 1) /\ i - 1 \in 0..n
          BY <2>3, <4>2
        <5> HIDE DEF g, Level, UpTo
        <5> QED
          BY <3>3, <3>4, <5>1
      <4> QED
        BY <4>1, <4>2
    <3>6. \A i \in 0..n : Level(f, i) = Level(g, i)
      <4> HIDE DEF g
      <4> QED
        BY <3>5
    <3>7. UpTo(g, n)
      BY <3>6
    <3> HIDE DEF g, UpTo
    <3> QED
      BY <2>3, <3>7
  <2> QED
    BY <2>4, <2>5
<1> DEFINE F(n) == CHOOSE f : UpTo(f, n)
           L == [n \in Nat |-> F(n)[n]]
<1>3. \A n \in Nat : UpTo(F(n), n)
  BY <1>2
<1> HIDE DEF F
<1>4. \A n \in Nat : L[n] = Level(L, n)
  <2> TAKE n \in Nat
  <2>1. CASE n = 0
    BY <2>1, <1>3
  <2>2. CASE n # 0
    <3>1. n - 1 \in Nat /\ n = (n - 1) + 1
      BY <2>2
    <3>2. \A i \in 0..(n - 1) : F(n - 1)[i] = F(n)[i]
      <4>1. UpTo(F(n - 1), n - 1) /\ UpTo(F(n), (n - 1) + 1)
        <5> HIDE DEF UpTo
        <5> QED
          BY <1>3, <3>1
      <4> HIDE DEF UpTo
      <4> QED
        BY <1>1, <3>1, <4>1
    <3>3. F(n)[n] = Level(F(n), n)
      <4>1. \A f, m : UpTo(f, m) => \A k \in 0..m : f[k] = Level(f, k)
        OBVIOUS
      <4> HIDE DEF UpTo, Level
      <4> QED
        BY <1>3, <4>1
    <3>4. F(n - 1)[n - 1] = F(n)[n - 1]
      BY <3>1, <3>2
    <3>5. L[n] = F(n)[n] /\ L[n - 1] = F(n - 1)[n - 1]
      BY <3>1
    <3> HIDE DEF L, UpTo
    <3> QED
      BY <2>2, <3>3, <3>4, <3>5
  <2> QED
    BY <2>1, <2>2
<1>5. L = [n \in Nat |-> Level(L, n)]
  BY <1>4
<1> HIDE DEF L
<1>6. \E f : f = [n \in Nat |-> Level(f, n)]
  BY <1>5
<1>7. Generation(c, lost) = CHOOSE f : f = [n \in Nat |-> Level(f, n)]
  BY DEF Generation, ParentsOfAll
<1>8. Generation(c, lost) = [n \in Nat |-> Level(Generation(c, lost), n)]
  BY <1>6, <1>7
<1> QED
  BY <1>8

LEMMA Reached ==
    ASSUME NEW c, NEW hops \in Nat
    PROVE  /\ c \in AncestorsWithin(c, hops, {})
           /\ hops > 0 => Range(c.parents) \subseteq AncestorsWithin(c, hops, {})
<1>1. Generation(c, {})[0] = {c}
  BY Generations
<1>2. Generation(c, {})[1] = ParentsOfAll(Generation(c, {})[0], {})
  <2>1. Generation(c, {})[1] = IF 1 = 0 THEN {c} ELSE ParentsOfAll(Generation(c, {})[1 - 1], {})
    BY Generations, 1 \in Nat, Zenon
  <2>2. 1 # 0 /\ 1 - 1 = 0
    OBVIOUS
  <2> QED
    BY <2>1, <2>2
<1>3. Generation(c, {})[1] = Range(c.parents)
  BY <1>1, <1>2 DEF ParentsOfAll
<1>4. 0 \in 0..hops /\ (hops > 0 => 1 \in 0..hops)
  OBVIOUS
<1> QED
  BY <1>1, <1>3, <1>4 DEF AncestorsWithin

(* A merge base of two commits is an ancestor of the second. *)
LEMMA BaseIsAncestor ==
    ASSUME NEW left, NEW right, NEW hops, NEW lost
    PROVE  MergeBases(left, right, hops, lost) \subseteq AncestorsWithin(right, hops, lost)
<1> DEFINE InLeft(i) == Generation(right, lost)[i] \cap AncestorsWithin(left, hops, lost)
           first == {i \in 0..hops : InLeft(i) # {} /\ \A j \in 0..(i - 1) : InLeft(j) = {}}
<1>1. MergeBases(left, right, hops, lost) = UNION {InLeft(i) : i \in first}
  BY DEF MergeBases
<1>2. \A i \in first : i \in 0..hops /\ InLeft(i) \subseteq Generation(right, lost)[i]
  OBVIOUS
<1> HIDE DEF InLeft, first
<1> QED
  BY <1>1, <1>2 DEF AncestorsWithin

---------------------------------------------------------------------------
(* One process writes no file at the same time as another: what it leaves  *)
(* is what it wrote.                                                       *)
LEMMA AloneApart == OneProcess /\ TypeOK => Apart
<1> SUFFICES ASSUME OneProcess, TypeOK PROVE Apart
  OBVIOUS
<1>1. \A o : ObjectWriters(o) \subseteq Proc
  BY DEF ObjectWriters
<1>2. HeadWriters \subseteq Proc /\ \A b : RefWriters(b) \subseteq Proc
  BY DEF RefWriters, HeadWriters
<1>3. \A p, q \in Proc : p = q
  BY DEF OneProcess
<1> QED
  BY <1>1, <1>2, <1>3, Zenon DEF Apart

(* Every object and every branch there is a file of can be read. *)
THEOREM SerialWhole ==
    ASSUME OneProcess
    PROVE  Spec => []Whole
<1>1. TypeOK => Apart
  BY AloneApart
<1> QED
  BY <1>1, Typing, BranchesCanBeRead, PTL

LEMMA AloneWrites ==
    ASSUME OneProcess, NEW p \in Proc
    PROVE  /\ \A b : p \in RefWriters(b) /\ WriteRef(p, b) => refs' = RefsWith(b, job[p].commit)
           /\ CheckoutWriteHead(p) => head' = job[p].target
<1>1. \A q \in Proc : q = p
  BY DEF OneProcess
<1>2. \A b : p \in RefWriters(b) => RefWriters(b) = {p}
  BY <1>1 DEF RefWriters
<1>3. CheckoutWriteHead(p) => HeadWriters = {p}
  BY <1>1 DEF CheckoutWriteHead, HeadWriters
<1> QED
  BY <1>2, <1>3 DEF WriteRef, CheckoutWriteHead

(* A branch a commit, a merge or a branch command writes. *)
LEMMA AloneUpdates ==
    ASSUME OneProcess, TypeOK, NEW p \in Proc
    PROVE  /\ CommitUpdateRef(p) /\ job[p].head # Detached => refs' = RefsWith(job[p].head, job[p].commit)
           /\ MergeUpdateRef(p) => refs' = RefsWith(job[p].head, job[p].commit)
           /\ BranchWrite(p) => refs' = RefsWith(job[p].target, job[p].commit)
<1>1. /\ CommitUpdateRef(p) \/ MergeUpdateRef(p) => p \in RefWriters(job[p].head)
      /\ BranchWrite(p) => p \in RefWriters(job[p].target)
  BY DEF CommitUpdateRef, MergeUpdateRef, BranchWrite, RefWriters, At
<1> QED
  BY <1>1, AloneWrites DEF CommitUpdateRef, MergeUpdateRef, BranchWrite

---------------------------------------------------------------------------
(* What a command in progress goes by. *)
FilesAt(b) == IF refs[b] = None THEN NoEntries ELSE refs[b].tree.entries

CommitUpToDate(j) ==
    /\ Holds(j, "staged") => j.staged = staging /\ DOMAIN staging # {}
    /\ j.pc = "commit:tree" => j.object.entries = Overlay(FilesAt(head), staging)
    /\ Holds(j, "tree") => j.tree.entries = Overlay(FilesAt(head), staging)
    /\ j.pc = "commit:commit" =>
         /\ j.object.tree.entries = Overlay(FilesAt(head), staging)
         /\ j.object.parents = ParentsOf(head)
    /\ j.pc = "commit:ref" =>
         /\ j.commit.tree.entries = Overlay(FilesAt(head), staging)
         /\ j.commit.parents = ParentsOf(head)
    /\ j.pc = "commit:clear" =>
         refs[head] # None /\ FilesAt(head) = Overlay(FilesAt(head), staging)

BranchUpToDate(j) == j.pc = "branch:write" => j.commit = refs[head]

(* The commit a merge is about to publish: theirs, if ours is one of its   *)
(* ancestors, or a merge of the two.                                       *)
MergeUpToDate(j) ==
    /\ Holds(j, "ours") => j.ours = refs[head]
    /\ Holds(j, "theirs") => \E b \in Branch : j.theirs = refs[b]
    /\ j.pc = "merge:tree" =>
         \E f : j.object.entries = MergeEntries(f, j.ours.tree.entries, j.theirs.tree.entries)
    /\ j.pc = "merge:commit" =>
         /\ j.object.parents = <<j.ours, j.theirs>>
         /\ \E f : j.object.tree.entries = MergeEntries(f, j.ours.tree.entries, j.theirs.tree.entries)
    /\ j.pc = "merge:ref" =>
         \/ j.commit = j.theirs /\ j.ours \in Ancestors(j.theirs)
         \/ /\ j.commit.parents = <<j.ours, j.theirs>>
            /\ \E f : j.commit.tree.entries = MergeEntries(f, j.ours.tree.entries, j.theirs.tree.entries)

Fits(j) ==
    /\ Holds(j, "head") => j.head = head
    /\ CommitUpToDate(j)
    /\ BranchUpToDate(j)
    /\ MergeUpToDate(j)

UpToDate ==
    /\ head \in Branch
    /\ \A p \in Proc : Fits(job[p])

(* The files a commit starts from are those of the branch: its tip and the *)
(* tip's tree are stored.                                                  *)
LEMMA BaseIsTip ==
    ASSUME TypeOK, HistoryInHandStored, Whole, NEW b \in Branch
    PROVE  /\ BaseEntries(b) = FilesAt(b)
           /\ Tip(b) = refs[b]
           /\ IsEntries(FilesAt(b))
<1>1. Tip(b) = refs[b] /\ refs[b] # Torn
  BY NamesAssumption DEF Tip, Whole
<1>2. CASE refs[b] = None
  BY <1>1, <1>2, EntriesClosed DEF BaseEntries, FilesAt
<1>3. CASE refs[b] # None
  <2>1. IsCommit(refs[b]) /\ refs[b] \in store
    BY <1>1, <1>3 DEF TypeOK, HistoryInHandStored, HistoryStored
  <2>2. refs[b].tree \in store
    BY <2>1 DEF IsCommit, Deps, HistoryInHandStored, HistoryStored
  <2> QED
    BY <1>1, <1>3, <2>1, <2>2 DEF BaseEntries, FilesAt, IsCommit, IsTree, Readable, Whole
<1> QED
  BY <1>1, <1>2, <1>3

(* Staging the same files twice is staging them once. *)
LEMMA OverlayTwice ==
    ASSUME NEW f, NEW g
    PROVE  Overlay(Overlay(f, g), g) = Overlay(f, g)
  BY DEF Overlay

(* The only process moves on: if its new locals fit, all do.               *)
LEMMA AloneStep ==
    ASSUME OneProcess, TypeOK, NEW p \in Proc, NEW j, Goto(p, j), Fits(j)', head' \in Branch
    PROVE  UpToDate'
<1>1. \A q \in Proc : job'[q] = j
  BY DEF OneProcess, TypeOK, Goto
<1> QED
  BY <1>1 DEF UpToDate

(* Only the commands that read a branch have something to go by.           *)
LEMMA NothingRead ==
    ASSUME NEW j, j.pc \in {"idle", "add:chunks", "add:blob", "add:stage", "checkout:head"}
    PROVE  Fits(j) /\ Fits(j)'
<1>1. /\ ~Holds(j, "staged") /\ ~Holds(j, "head") /\ ~Holds(j, "tree")
      /\ ~Holds(j, "ours") /\ ~Holds(j, "theirs")
  BY DEF Holds, LocalsOf
<1> QED
  BY <1>1 DEF Fits, CommitUpToDate, BranchUpToDate, MergeUpToDate, Holds

LEMMA AddUpToDate ==
    ASSUME OneProcess, TypeOK, UpToDate, NEW p \in Proc, AddStep(p)
    PROVE  UpToDate'
<1>1. PICK j : Goto(p, j) /\ j.pc \in {"idle", "add:chunks", "add:blob", "add:stage"}
  <2>1. ASSUME NEW n \in Name, NEW d \in Data, AddRead(p, n, d)
        PROVE  Goto(p, AfterRead(n, d)) /\ AfterRead(n, d).pc = "add:chunks"
    BY <2>1 DEF AddRead, AfterRead
  <2>2. CASE AddChunks(p)
    BY <2>2 DEF AddChunks, AfterChunks
  <2>3. CASE AddBlob(p)
    BY <2>3 DEF AddBlob
  <2>4. CASE AddStage(p)
    BY <2>4 DEF AddStage, Idle
  <2> QED
    BY <2>1, <2>2, <2>3, <2>4 DEF AddStep
<1>2. head' = head
  BY DEF AddStep, AddRead, AddChunks, AddBlob, AddStage
<1> QED
  BY <1>1, <1>2, NothingRead, AloneStep DEF UpToDate

LEMMA IdleUpToDate ==
    ASSUME OneProcess, TypeOK, NEW p \in Proc, Goto(p, Idle), head' \in Branch
    PROVE  UpToDate'
  BY NothingRead, AloneStep DEF Idle

LEMMA CommitStaysUpToDate ==
    ASSUME OneProcess, TypeOK, HistoryInHandStored, Whole, UpToDate, NEW p \in Proc, CommitStep(p)
    PROVE  UpToDate'
<1> USE DEF At
<1>1. CASE CommitReadStaged(p)
  <2>1. PICK j : Goto(p, j) /\ j = [pc |-> "commit:head", staged |-> staging]
    BY <1>1 DEF CommitReadStaged
  <2>9. Fits(j)' /\ head' \in Branch
    BY <1>1, <2>1 DEF CommitReadStaged, UpToDate, Fits, CommitUpToDate, BranchUpToDate, MergeUpToDate, Holds, LocalsOf
  <2> QED
    BY <2>1, <2>9, AloneStep
<1>2. CASE CommitReadHead(p)
  <2>1. PICK j : Goto(p, j) /\ j = [pc |-> "commit:base", staged |-> job[p].staged, head |-> head]
    BY <1>2 DEF CommitReadHead
  <2>2. job[p].staged = staging /\ DOMAIN staging # {}
    BY <1>2 DEF CommitReadHead, UpToDate, Fits, CommitUpToDate, Holds, LocalsOf
  <2>9. Fits(j)' /\ head' \in Branch
    BY <1>2, <2>1, <2>2 DEF CommitReadHead, UpToDate, Fits, CommitUpToDate, BranchUpToDate, MergeUpToDate, Holds, LocalsOf
  <2> QED
    BY <2>1, <2>9, AloneStep
<1>3. CASE CommitReadBase(p)
  <2> DEFINE tree == Tree(Overlay(BaseEntries(job[p].head), job[p].staged))
  <2>1. PICK j : Goto(p, j) /\ j = [pc |-> "commit:tree", staged |-> job[p].staged, head |-> job[p].head,
                                      object |-> tree, found |-> {tree} \cap store]
    BY <1>3 DEF CommitReadBase
  <2>2. job[p].staged = staging /\ DOMAIN staging # {} /\ job[p].head = head /\ head \in Branch
    BY <1>3 DEF CommitReadBase, UpToDate, Fits, CommitUpToDate, Holds, LocalsOf
  <2>3. tree.entries = Overlay(FilesAt(head), staging)
    BY <2>2, BaseIsTip, ObjectFields
  <2>4. UNCHANGED <<refs, head, staging>>
    BY <1>3 DEF CommitReadBase
  <2>5. FilesAt(head)' = FilesAt(head)
    BY <2>4 DEF FilesAt
  <2> HIDE DEF tree
  <2>9. Fits(j)' /\ head' \in Branch
    BY <2>1, <2>2, <2>3, <2>4, <2>5 DEF UpToDate, Fits, CommitUpToDate, BranchUpToDate, MergeUpToDate, Holds, LocalsOf
  <2> QED
    BY <2>1, <2>9, AloneStep
<1>4. CASE CommitWriteTree(p)
  <2>1. PICK j : Goto(p, j) /\ j = [pc |-> "commit:parent", staged |-> job[p].staged,
                                      head |-> job[p].head, tree |-> job[p].object]
    BY <1>4 DEF CommitWriteTree
  <2>2. /\ job[p].staged = staging /\ DOMAIN staging # {} /\ job[p].head = head /\ head \in Branch
        /\ job[p].object.entries = Overlay(FilesAt(head), staging)
    BY <1>4 DEF CommitWriteTree, UpToDate, Fits, CommitUpToDate, Holds, LocalsOf
  <2>3. UNCHANGED <<refs, head, staging>>
    BY <1>4 DEF CommitWriteTree
  <2>4. FilesAt(head)' = FilesAt(head)
    BY <2>3 DEF FilesAt
  <2>9. Fits(j)' /\ head' \in Branch
    BY <2>1, <2>2, <2>3, <2>4 DEF UpToDate, Fits, CommitUpToDate, BranchUpToDate, MergeUpToDate, Holds, LocalsOf
  <2> QED
    BY <2>1, <2>9, AloneStep
<1>7. CASE CommitReadParent(p)
  <2>1. PICK s \in Stamp :
            LET commit == Commit(job[p].tree, ParentsOf(job[p].head), s)
            IN  Goto(p, [pc |-> "commit:commit", staged |-> job[p].staged, head |-> job[p].head,
                         object |-> commit, found |-> {commit} \cap store])
    BY <1>7 DEF CommitReadParent
  <2> DEFINE commit == Commit(job[p].tree, ParentsOf(job[p].head), s)
  <2>2. PICK j : Goto(p, j) /\ j = [pc |-> "commit:commit", staged |-> job[p].staged, head |-> job[p].head,
                                    object |-> commit, found |-> {commit} \cap store]
    BY <2>1
  <2>3. /\ job[p].staged = staging /\ DOMAIN staging # {} /\ job[p].head = head /\ head \in Branch
        /\ job[p].tree.entries = Overlay(FilesAt(head), staging)
    BY <1>7 DEF CommitReadParent, UpToDate, Fits, CommitUpToDate, Holds, LocalsOf
  <2>4. commit.tree.entries = Overlay(FilesAt(head), staging) /\ commit.parents = ParentsOf(head)
    BY <2>3, ObjectFields
  <2>5. UNCHANGED <<refs, head, staging>>
    BY <1>7 DEF CommitReadParent
  <2>6. FilesAt(head)' = FilesAt(head) /\ ParentsOf(head)' = ParentsOf(head)
    BY <2>5 DEF FilesAt, ParentsOf, Tip
  <2> HIDE DEF commit
  <2>9. Fits(j)' /\ head' \in Branch
    BY <2>2, <2>3, <2>4, <2>5, <2>6 DEF UpToDate, Fits, CommitUpToDate, BranchUpToDate, MergeUpToDate, Holds, LocalsOf
  <2> QED
    BY <2>2, <2>9, AloneStep
<1>8. CASE CommitWriteCommit(p)
  <2>1. PICK j : Goto(p, j) /\ j = [pc |-> "commit:ref", staged |-> job[p].staged,
                                      head |-> job[p].head, commit |-> job[p].object]
    BY <1>8 DEF CommitWriteCommit
  <2>2. /\ job[p].staged = staging /\ DOMAIN staging # {} /\ job[p].head = head /\ head \in Branch
        /\ job[p].object.tree.entries = Overlay(FilesAt(head), staging)
        /\ job[p].object.parents = ParentsOf(head)
    BY <1>8 DEF CommitWriteCommit, UpToDate, Fits, CommitUpToDate, Holds, LocalsOf
  <2>3. UNCHANGED <<refs, head, staging>>
    BY <1>8 DEF CommitWriteCommit
  <2>4. FilesAt(head)' = FilesAt(head) /\ ParentsOf(head)' = ParentsOf(head)
    BY <2>3 DEF FilesAt, ParentsOf, Tip
  <2>9. Fits(j)' /\ head' \in Branch
    BY <2>1, <2>2, <2>3, <2>4 DEF UpToDate, Fits, CommitUpToDate, BranchUpToDate, MergeUpToDate, Holds, LocalsOf
  <2> QED
    BY <2>1, <2>9, AloneStep
<1>5. CASE CommitUpdateRef(p)
  <2>1. PICK j : Goto(p, j) /\ j = [pc |-> "commit:clear"]
    BY <1>5 DEF CommitUpdateRef
  <2>2. /\ job[p].head = head /\ head \in Branch /\ job[p].commit # None
        /\ job[p].commit.tree.entries = Overlay(FilesAt(head), staging)
    BY <1>5 DEF CommitUpdateRef, UpToDate, Fits, CommitUpToDate, TypeOK, JobOK, Holds, LocalsOf
  <2>3. refs'[head] = job[p].commit /\ UNCHANGED <<head, staging>>
    BY <1>5, <2>2, NamesAssumption, AloneUpdates DEF CommitUpdateRef, RefsWith, TypeOK
  <2>4. FilesAt(head)' = Overlay(FilesAt(head), staging)
    BY <2>2, <2>3 DEF FilesAt
  <2>5. FilesAt(head)' = Overlay(FilesAt(head)', staging')
    BY <2>3, <2>4, OverlayTwice
  <2>6. refs'[head'] # None /\ head' \in Branch
    BY <2>2, <2>3
  <2>9. Fits(j)' /\ head' \in Branch
    BY <2>1, <2>5, <2>6 DEF UpToDate, Fits, CommitUpToDate, BranchUpToDate, MergeUpToDate, Holds, LocalsOf
  <2> QED
    BY <2>1, <2>9, AloneStep
<1>6. CASE CommitClear(p)
  BY <1>6, IdleUpToDate DEF CommitClear, UpToDate
<1> QED
  BY <1>1, <1>2, <1>3, <1>4, <1>5, <1>6, <1>7, <1>8 DEF CommitStep

LEMMA BranchStaysUpToDate ==
    ASSUME OneProcess, TypeOK, Whole, UpToDate, NEW p \in Proc, BranchStep(p)
    PROVE  UpToDate'
<1> USE DEF At
<1>1. ASSUME NEW b \in Branch, BranchReadHead(p, b) PROVE UpToDate'
  <2>1. PICK j : Goto(p, j) /\ j = [pc |-> "branch:tip", target |-> b, head |-> head]
    BY <1>1 DEF BranchReadHead
  <2>9. Fits(j)' /\ head' \in Branch
    BY <1>1, <2>1 DEF BranchReadHead, UpToDate, Fits, CommitUpToDate, BranchUpToDate, MergeUpToDate, Holds, LocalsOf
  <2> QED
    BY <2>1, <2>9, AloneStep
<1>2. CASE BranchReadTip(p)
  <2>1. PICK j : Goto(p, j) /\ j = [pc |-> "branch:write", target |-> job[p].target, commit |-> Tip(job[p].head)]
    BY <1>2 DEF BranchReadTip
  <2>2. job[p].head = head /\ head \in Branch
    BY <1>2 DEF BranchReadTip, UpToDate, Fits, Holds, LocalsOf
  <2>3. Tip(job[p].head) = refs[head]
    BY <2>2, NamesAssumption DEF Tip, Whole
  <2>9. Fits(j)' /\ head' \in Branch
    BY <1>2, <2>1, <2>2, <2>3 DEF BranchReadTip, UpToDate, Fits, CommitUpToDate, BranchUpToDate, MergeUpToDate, Holds, LocalsOf
  <2> QED
    BY <2>1, <2>9, AloneStep
<1>3. CASE BranchWrite(p)
  BY <1>3, IdleUpToDate DEF BranchWrite, UpToDate
<1> QED
  BY <1>1, <1>2, <1>3 DEF BranchStep

LEMMA MergeStaysUpToDate ==
    ASSUME OneProcess, TypeOK, Whole, UpToDate, NEW p \in Proc, MergeStep(p)
    PROVE  UpToDate'
<1> USE DEF At
<1>1. ASSUME NEW b \in Branch, MergeReadHead(p, b) PROVE UpToDate'
  <2>1. PICK j : Goto(p, j) /\ j = [pc |-> "merge:ours", other |-> b, head |-> head]
    BY <1>1 DEF MergeReadHead
  <2>9. Fits(j)' /\ head' \in Branch
    BY <1>1, <2>1 DEF MergeReadHead, UpToDate, Fits, CommitUpToDate, BranchUpToDate, MergeUpToDate, Holds, LocalsOf
  <2> QED
    BY <2>1, <2>9, AloneStep
<1>2. CASE MergeReadOurs(p)
  <2>1. PICK j : Goto(p, j) /\ j = [pc |-> "merge:theirs", other |-> job[p].other,
                                      head |-> job[p].head, ours |-> Tip(job[p].head)]
    BY <1>2 DEF MergeReadOurs
  <2>2. job[p].head = head /\ head \in Branch
    BY <1>2 DEF MergeReadOurs, UpToDate, Fits, Holds, LocalsOf
  <2>3. Tip(job[p].head) = refs[head]
    BY <2>2, NamesAssumption DEF Tip, Whole
  <2>9. Fits(j)' /\ head' \in Branch
    BY <1>2, <2>1, <2>2, <2>3 DEF MergeReadOurs, UpToDate, Fits, CommitUpToDate, BranchUpToDate, MergeUpToDate, Holds, LocalsOf
  <2> QED
    BY <2>1, <2>9, AloneStep
<1>3. CASE MergeReadTheirs(p)
  <2>1. PICK j : Goto(p, j) /\ j = [pc |-> "merge:base", head |-> job[p].head,
                                      ours |-> job[p].ours, theirs |-> Tip(job[p].other)]
    BY <1>3 DEF MergeReadTheirs
  <2>2. job[p].head = head /\ head \in Branch /\ job[p].ours = refs[head] /\ job[p].other \in Branch
    BY <1>3 DEF MergeReadTheirs, UpToDate, Fits, MergeUpToDate, TypeOK, JobOK, Holds, LocalsOf
  <2>3. Tip(job[p].other) = refs[job[p].other]
    BY <2>2, NamesAssumption DEF Tip, Whole
  <2>9. Fits(j)' /\ head' \in Branch
    BY <1>3, <2>1, <2>2, <2>3 DEF MergeReadTheirs, UpToDate, Fits, CommitUpToDate, BranchUpToDate, MergeUpToDate, Holds, LocalsOf
  <2> QED
    BY <2>1, <2>9, AloneStep
<1>4. CASE FastForward(p)
  <2>1. PICK j : Goto(p, j) /\ j = [pc |-> "merge:ref", head |-> job[p].head, ours |-> job[p].ours,
                                      theirs |-> job[p].theirs, commit |-> job[p].theirs]
    BY <1>4 DEF FastForward
  <2>2. /\ job[p].head = head /\ head \in Branch /\ job[p].ours = refs[head]
        /\ \E b \in Branch : job[p].theirs = refs[b]
    BY <1>4 DEF FastForward, UpToDate, Fits, MergeUpToDate, Holds, LocalsOf
  <2>3. job[p].ours \in Ancestors(job[p].theirs)
    BY <1>4, BaseIsAncestor DEF FastForward, Ancestors, BasesOf, Whole
  <2>4. Hops' = Hops /\ UNCHANGED <<refs, head>>
    BY <1>4 DEF FastForward, Hops, Commits
  <2>5. \A c : AncestorsWithin(c, Hops', {}) = AncestorsWithin(c, Hops, {})
    BY <2>4
  <2>9. Fits(j)' /\ head' \in Branch
    BY <2>1, <2>2, <2>3, <2>4, <2>5 DEF UpToDate, Fits, CommitUpToDate, BranchUpToDate, MergeUpToDate, Ancestors, Holds, LocalsOf
  <2> QED
    BY <2>1, <2>9, AloneStep
<1>5. CASE MergeTrees(p)
  <2> DEFINE ours == job[p].ours
             theirs == job[p].theirs
             tree(base) == Tree(MergeEntries(base.tree.entries, ours.tree.entries, theirs.tree.entries))
             next(o) == [pc |-> "merge:tree", head |-> job[p].head, ours |-> ours,
                         theirs |-> theirs, object |-> o, found |-> {o} \cap store]
  <2>1. PICK base : Goto(p, next(tree(base)))
    BY <1>5, Zenon DEF MergeTrees
  <2> DEFINE o == tree(base)
  <2>2. PICK j : Goto(p, j) /\ j = next(o)
    BY <2>1
  <2>3. /\ job[p].head = head /\ head \in Branch /\ ours = refs[head]
        /\ \E b \in Branch : theirs = refs[b]
    BY <1>5 DEF MergeTrees, UpToDate, Fits, MergeUpToDate, Holds, LocalsOf
  <2>4. \E f : o.entries = MergeEntries(f, ours.tree.entries, theirs.tree.entries)
    BY ObjectFields
  <2>5. UNCHANGED <<refs, head>>
    BY <1>5 DEF MergeTrees
  <2> HIDE DEF o, tree
  <2>9. Fits(j)' /\ head' \in Branch
    BY <2>2, <2>3, <2>4, <2>5 DEF UpToDate, Fits, CommitUpToDate, BranchUpToDate, MergeUpToDate, Holds, LocalsOf
  <2> QED
    BY <2>2, <2>9, AloneStep
<1>7. CASE MergeWriteTree(p)
  <2> DEFINE ours == job[p].ours
             theirs == job[p].theirs
             commit(s) == Commit(job[p].object, MergeParents(ours, theirs), s)
             next(o) == [pc |-> "merge:commit", head |-> job[p].head, ours |-> ours,
                         theirs |-> theirs, object |-> o, found |-> {o} \cap store]
  <2>1. PICK s \in Stamp : Goto(p, next(commit(s)))
    BY <1>7, Zenon DEF MergeWriteTree
  <2> DEFINE o == commit(s)
  <2>2. PICK j : Goto(p, j) /\ j = next(o)
    BY <2>1
  <2>3. /\ job[p].head = head /\ head \in Branch /\ ours = refs[head]
        /\ \E b \in Branch : theirs = refs[b]
        /\ \E f : job[p].object.entries = MergeEntries(f, ours.tree.entries, theirs.tree.entries)
    BY <1>7 DEF MergeWriteTree, UpToDate, Fits, MergeUpToDate, Holds, LocalsOf
  <2>4. /\ o.parents = <<ours, theirs>>
        /\ \E f : o.tree.entries = MergeEntries(f, ours.tree.entries, theirs.tree.entries)
    BY <2>3, ObjectFields DEF MergeParents
  <2>5. UNCHANGED <<refs, head>>
    BY <1>7 DEF MergeWriteTree
  <2> HIDE DEF o, commit
  <2>9. Fits(j)' /\ head' \in Branch
    BY <2>2, <2>3, <2>4, <2>5 DEF UpToDate, Fits, CommitUpToDate, BranchUpToDate, MergeUpToDate, Holds, LocalsOf
  <2> QED
    BY <2>2, <2>9, AloneStep
<1>8. CASE MergeWriteCommit(p)
  <2> DEFINE ours == job[p].ours
             theirs == job[p].theirs
  <2>1. PICK j : Goto(p, j) /\ j = [pc |-> "merge:ref", head |-> job[p].head, ours |-> ours,
                                      theirs |-> theirs, commit |-> job[p].object]
    BY <1>8 DEF MergeWriteCommit
  <2>2. /\ job[p].head = head /\ head \in Branch /\ ours = refs[head]
        /\ \E b \in Branch : theirs = refs[b]
        /\ job[p].object.parents = <<ours, theirs>>
        /\ \E f : job[p].object.tree.entries = MergeEntries(f, ours.tree.entries, theirs.tree.entries)
    BY <1>8 DEF MergeWriteCommit, UpToDate, Fits, MergeUpToDate, Holds, LocalsOf
  <2>3. UNCHANGED <<refs, head>>
    BY <1>8 DEF MergeWriteCommit
  <2>9. Fits(j)' /\ head' \in Branch
    BY <2>1, <2>2, <2>3 DEF UpToDate, Fits, CommitUpToDate, BranchUpToDate, MergeUpToDate, Holds, LocalsOf
  <2> QED
    BY <2>1, <2>9, AloneStep
<1>6. CASE MergeUpdateRef(p)
  BY <1>6, IdleUpToDate DEF MergeUpdateRef, UpToDate
<1> QED
  BY <1>1, <1>2, <1>3, <1>4, <1>5, <1>6, <1>7, <1>8 DEF MergeStep

LEMMA InitUpToDate == UsualHead /\ Init => UpToDate
<1> SUFFICES ASSUME UsualHead, Init PROVE UpToDate
  OBVIOUS
<1>1. \A p \in Proc : job[p] = Idle
  BY DEF Init
<1>2. head \in Branch
  BY NamesAssumption DEF Init, FreshRepository, ClonedRepository, UsualHead
<1> QED
  BY <1>1, <1>2, NothingRead DEF UpToDate, Idle

LEMMA StepUpToDate ==
    ASSUME OneProcess
    PROVE  TypeOK /\ HistoryInHandStored /\ Whole /\ UpToDate /\ [Next]_vars => UpToDate'
<1> SUFFICES ASSUME TypeOK, HistoryInHandStored, Whole, UpToDate, [Next]_vars PROVE UpToDate'
  OBVIOUS
<1>1. CASE UNCHANGED vars
  <2>1. /\ FilesAt(head)' = FilesAt(head) /\ ParentsOf(head)' = ParentsOf(head)
        /\ \A c : Ancestors(c)' = Ancestors(c)
        /\ UNCHANGED <<refs, head, staging, job>>
    BY <1>1 DEF vars, FilesAt, ParentsOf, Tip, Ancestors, Hops, Commits
  <2>2. ASSUME NEW p \in Proc, NEW j, j = job[p] PROVE Fits(j)'
    BY <2>1, <2>2 DEF UpToDate, Fits, CommitUpToDate, BranchUpToDate, MergeUpToDate
  <2> QED
    BY <2>1, <2>2 DEF UpToDate
<1>2. ASSUME NEW p \in Proc, CheckoutStep(p) PROVE UpToDate'
  <2>1. PICK j : Goto(p, j) /\ j.pc \in {"idle", "checkout:head"}
    <3>1. ASSUME NEW b \in Branch, CheckoutReadTip(p, b)
          PROVE  \E j : Goto(p, j) /\ j.pc \in {"idle", "checkout:head"}
      BY <3>1 DEF CheckoutReadTip
    <3>2. CASE CheckoutWriteHead(p)
      BY <3>2 DEF CheckoutWriteHead, Idle
    <3> QED
      BY <1>2, <3>1, <3>2 DEF CheckoutStep
  <2>2. head' \in Branch
    BY <1>2, AloneWrites DEF CheckoutStep, CheckoutReadTip, CheckoutWriteHead, UpToDate, TypeOK, JobOK, At, Holds, LocalsOf
  <2> QED
    BY <2>1, <2>2, NothingRead, AloneStep
<1>3. ASSUME NEW p \in Proc, Return(p) \/ Crash(p) PROVE UpToDate'
  BY <1>3, IdleUpToDate DEF Return, Crash, UpToDate
<1> QED
  BY <1>1, <1>2, <1>3, AddUpToDate, CommitStaysUpToDate, BranchStaysUpToDate, MergeStaysUpToDate
     DEF Next, CommandStep

(* One command at a time: what it has read, of HEAD, of branches and of    *)
(* the staging area, is still what is there when it goes by it, however    *)
(* many commands were killed half-way before it.                           *)
THEOREM SerialUpToDate ==
    ASSUME OneProcess, UsualHead
    PROVE  Spec => []UpToDate
  BY Typing, HistoryIsStored, SerialWhole, InitUpToDate, StepUpToDate, PTL DEF Spec

---------------------------------------------------------------------------
(* Advance. *)

(* The store is finite: a step writes one object at most. *)
LEMMA StepFinite == IsFiniteSet(store) /\ [Next]_vars => IsFiniteSet(store)'
<1> SUFFICES ASSUME IsFiniteSet(store), [Next]_vars PROVE IsFiniteSet(store')
  OBVIOUS
<1>1. \A x : IsFiniteSet(store \cup {x})
  BY FS_AddElement
<1>2. ASSUME NEW p \in Proc, WriteObject(p) PROVE IsFiniteSet(store')
  BY <1>1, <1>2 DEF WriteObject
<1>3. CASE UNCHANGED vars
  BY <1>3 DEF vars
<1>4. ASSUME NEW p \in Proc, AddStep(p) PROVE IsFiniteSet(store')
  BY <1>2, <1>4 DEF AddStep, AddRead, AddChunks, AddBlob, AddStage
<1>5. ASSUME NEW p \in Proc, CommitStep(p) PROVE IsFiniteSet(store')
  BY <1>2, <1>5 DEF CommitStep, CommitReadStaged, CommitReadHead, CommitReadBase, CommitWriteTree,
                    CommitReadParent, CommitWriteCommit, CommitUpdateRef, CommitClear
<1>6. ASSUME NEW p \in Proc, BranchStep(p) PROVE IsFiniteSet(store')
  BY <1>6 DEF BranchStep, BranchReadHead, BranchReadTip, BranchWrite
<1>7. ASSUME NEW p \in Proc, MergeStep(p) PROVE IsFiniteSet(store')
  BY <1>2, <1>7 DEF MergeStep, MergeReadHead, MergeReadOurs, MergeReadTheirs, FastForward, MergeTrees,
                    MergeWriteTree, MergeWriteCommit, MergeUpdateRef
<1>8. ASSUME NEW p \in Proc, CheckoutStep(p) \/ Return(p) \/ Crash(p) PROVE IsFiniteSet(store')
  BY <1>8 DEF CheckoutStep, CheckoutReadTip, CheckoutWriteHead, Return, Crash
<1> QED
  BY <1>3, <1>4, <1>5, <1>6, <1>7, <1>8 DEF Next, CommandStep

LEMMA InitFinite == Init => IsFiniteSet(store)
<1> SUFFICES ASSUME Init PROVE IsFiniteSet(store)
  OBVIOUS
<1>1. IsFiniteSet({})
  BY FS_EmptySet
<1>2. CASE FreshRepository
  BY <1>1, <1>2 DEF FreshRepository
<1>3. CASE ClonedRepository
  <2>1. \E w, x, y, z : store = {w, x, y, z}
    BY <1>3, Zenon DEF ClonedRepository
  <2>2. PICK w, x, y, z : store = {w, x, y, z}
    BY <2>1
  <2>3. IsFiniteSet({w})
    BY FS_Singleton
  <2>4. IsFiniteSet({w} \cup {x})
    BY <2>3, FS_AddElement
  <2>5. IsFiniteSet(({w} \cup {x}) \cup {y})
    BY <2>4, FS_AddElement
  <2>6. IsFiniteSet((({w} \cup {x}) \cup {y}) \cup {z})
    BY <2>5, FS_AddElement
  <2>7. store = (({w} \cup {x}) \cup {y}) \cup {z}
    BY <2>2
  <2> QED
    BY <2>6, <2>7
<1> QED
  BY <1>2, <1>3 DEF Init

(* The hops a walk may make: one at least once there is a commit. *)
LEMMA HopsOfStored ==
    ASSUME IsFiniteSet(store)
    PROVE  /\ Hops \in Nat
           /\ \A c \in store : c.type = "commit" => Hops > 0
<1>1. IsFiniteSet(Commits(store))
  BY FS_Subset DEF Commits
<1>2. Hops \in Nat
  BY <1>1, FS_CardinalityType DEF Hops
<1>3. ASSUME NEW c \in store, c.type = "commit" PROVE Hops # 0
  BY <1>1, <1>3, FS_EmptySet DEF Hops, Commits
<1> QED
  BY <1>2, <1>3

(* A branch that stays as it was, or moves to a commit that descends from  *)
(* its tip, has only advanced.                                             *)
LEMMA PublishAdvances ==
    ASSUME OneProcess, TypeOK, HistoryInHandStored, Whole, UpToDate, IsFiniteSet(store),
           NEW p \in Proc, CommitUpdateRef(p) \/ MergeUpdateRef(p), NEW b \in Branch, refs[b] # None
    PROVE  refs'[b] # None /\ refs[b] \in Ancestors(refs'[b])
<1> USE DEF At
<1>1. /\ job[p].head = head /\ head \in Branch
      /\ job[p].commit # None /\ IsCommit(job[p].commit) /\ job[p].commit \in store
  BY DEF CommitUpdateRef, MergeUpdateRef, UpToDate, Fits, TypeOK, JobOK, HistoryInHandStored, InHand, Holds, LocalsOf
<1>2. refs' = RefsWith(head, job[p].commit)
  BY <1>1, NamesAssumption, AloneUpdates DEF CommitUpdateRef, MergeUpdateRef
<1>3. Hops \in Nat /\ Hops > 0
  BY <1>1, HopsOfStored DEF IsCommit
<1>4. CASE b # head
  <2>1. refs'[b] = refs[b]
    BY <1>2, <1>4 DEF RefsWith, TypeOK
  <2> QED
    BY <1>3, <2>1, Reached DEF Ancestors
<1>5. CASE b = head
  <2>1. refs'[b] = job[p].commit
    BY <1>1, <1>2, <1>5 DEF RefsWith, TypeOK
  <2>2. Range(job[p].commit.parents) \subseteq Ancestors(job[p].commit)
    BY <1>3, Reached DEF Ancestors
  <2>3. refs[head] \in Ancestors(job[p].commit)
    <3>1. CASE job[p].pc = "commit:ref"
      <4>1. job[p].commit.parents = ParentsOf(head)
        BY <3>1 DEF UpToDate, Fits, CommitUpToDate
      <4>2. ParentsOf(head) = <<refs[head]>>
        BY <1>1, <1>5, NamesAssumption DEF ParentsOf, Tip, Whole
      <4>3. Range(<<refs[head]>>) = {refs[head]}
        BY ParentRange
      <4> QED
        BY <2>2, <4>1, <4>2, <4>3
    <3>2. CASE job[p].pc = "merge:ref"
      <4>1. job[p].ours = refs[head]
        BY <3>2 DEF UpToDate, Fits, MergeUpToDate, Holds, LocalsOf
      <4>2. CASE job[p].commit = job[p].theirs /\ job[p].ours \in Ancestors(job[p].theirs)
        BY <4>1, <4>2
      <4>3. CASE job[p].commit.parents = <<job[p].ours, job[p].theirs>>
        <5>1. Range(<<job[p].ours, job[p].theirs>>) = {job[p].ours, job[p].theirs}
          BY ParentRange
        <5> QED
          BY <2>2, <4>1, <4>3, <5>1
      <4> QED
        BY <3>2, <4>2, <4>3 DEF UpToDate, Fits, MergeUpToDate
    <3> QED
      BY <3>1, <3>2 DEF CommitUpdateRef, MergeUpdateRef
  <2> QED
    BY <1>1, <1>5, <2>1, <2>3
<1> QED
  BY <1>4, <1>5

(* Only these steps write a branch when the process is about to publish. *)
LEMMA StepAdvances ==
    ASSUME OneProcess, TypeOK, HistoryInHandStored, Whole, UpToDate, IsFiniteSet(store), [Next]_vars,
           NEW p \in Proc, At(p, "commit:ref") \/ At(p, "merge:ref"), NEW b \in Branch
    PROVE  AdvanceOnly(b)
<1>1. CASE \E q \in Proc : CommitUpdateRef(q) \/ MergeUpdateRef(q)
  BY <1>1, PublishAdvances DEF AdvanceOnly
<1>2. CASE ~\E q \in Proc : CommitUpdateRef(q) \/ MergeUpdateRef(q)
  <2>1. \A q \in Proc : ~At(q, "branch:write")
    BY DEF OneProcess, At
  <2>2. refs' = refs
    <3>1. ASSUME NEW q \in Proc, AddStep(q) PROVE refs' = refs
      BY <3>1 DEF AddStep, AddRead, AddChunks, AddBlob, AddStage
    <3>2. ASSUME NEW q \in Proc, CommitStep(q) PROVE refs' = refs
      BY <1>2, <3>2 DEF CommitStep, CommitReadStaged, CommitReadHead, CommitReadBase, CommitWriteTree,
         CommitReadParent, CommitWriteCommit, CommitClear
    <3>3. ASSUME NEW q \in Proc, BranchStep(q) PROVE refs' = refs
      BY <2>1, <3>3 DEF BranchStep, BranchReadHead, BranchReadTip, BranchWrite
    <3>4. ASSUME NEW q \in Proc, MergeStep(q) PROVE refs' = refs
      BY <1>2, <3>4 DEF MergeStep, MergeReadHead, MergeReadOurs, MergeReadTheirs, FastForward, MergeTrees,
         MergeWriteTree, MergeWriteCommit
    <3>5. ASSUME NEW q \in Proc, CheckoutStep(q) PROVE refs' = refs
      BY <3>5 DEF CheckoutStep, CheckoutReadTip, CheckoutWriteHead
    <3>6. ASSUME NEW q \in Proc, Return(q) \/ Crash(q) PROVE refs' = refs
      BY <3>6 DEF Return, Crash
    <3> QED
      BY <3>1, <3>2, <3>3, <3>4, <3>5, <3>6 DEF Next, CommandStep, vars
  <2>3. Hops \in Nat
    BY HopsOfStored
  <2>4. refs[b] \in Ancestors(refs[b])
    BY <2>3, Reached DEF Ancestors
  <2> QED
    BY <2>2, <2>4 DEF AdvanceOnly
<1> QED
  BY <1>1, <1>2

(* flux commit and flux merge, one command at a time, never take a commit  *)
(* off a branch: the old tip is the new one or an ancestor of it, because  *)
(* the tip they read is still the branch's when they write it.             *)
THEOREM SerialCommitsAdvance ==
    ASSUME OneProcess, UsualHead
    PROVE  Spec => CommitsAdvance
<1> DEFINE Advance == \A p \in Proc : At(p, "commit:ref") \/ At(p, "merge:ref") => \A b \in Branch : AdvanceOnly(b)
<1>1. TypeOK /\ HistoryInHandStored /\ Whole /\ UpToDate /\ IsFiniteSet(store) /\ [Next]_vars => Advance
  <2> SUFFICES ASSUME TypeOK, HistoryInHandStored, Whole, UpToDate, IsFiniteSet(store), [Next]_vars,
                      NEW p \in Proc, At(p, "commit:ref") \/ At(p, "merge:ref"), NEW b \in Branch
               PROVE  AdvanceOnly(b)
    OBVIOUS
  <2> QED
    BY StepAdvances
<1>2. Spec => []IsFiniteSet(store)
  BY InitFinite, StepFinite, PTL DEF Spec
<1>3. Spec => []UpToDate
  BY SerialUpToDate
<1>4. Spec => [][Advance]_vars
  <2> HIDE DEF Advance
  <2> QED
    BY <1>1, <1>2, <1>3, Typing, HistoryIsStored, SerialWhole, PTL DEF Spec
<1> QED
  BY <1>4 DEF CommitsAdvance

---------------------------------------------------------------------------
(* Refinement. *)

(* What SnapshotRepo calls `files`. *)
Files == [b \in {c \in Branch : refs[c] # None} |-> refs[b].tree.entries]

LEMMA FilesOfBranch ==
    ASSUME NEW b \in Branch
    PROVE  /\ b \in DOMAIN Files <=> refs[b] # None
           /\ b \in DOMAIN Files => Files[b] = refs[b].tree.entries
           /\ FilesAt(b) = IF b \in DOMAIN Files THEN Files[b] ELSE NoEntries
  BY DEF Files, FilesAt

(* The operators of SnapshotRepo are those of FluxRepo. *)
LEMMA SnapshotOperators ==
    /\ \A f, g : Snapshots!Overlay(f, g) = Overlay(f, g)
    /\ \A d : Snapshots!Blob(d) = Blob(d)
    /\ Snapshots!NoEntries = NoEntries
<1>1. \A f, g : Snapshots!Overlay(f, g) = Overlay(f, g)
  BY DEF Snapshots!Overlay, Overlay
<1>2. \A d : Snapshots!Blob(d) = Blob(d)
  BY DEF Snapshots!Blob, Snapshots!Chunk, Blob, Chunk
<1>3. Snapshots!NoEntries = NoEntries
  BY DEF Snapshots!NoEntries, NoEntries
<1> QED
  BY <1>1, <1>2, <1>3

(* Writing a branch puts the files of the commit there, and no others. *)
LEMMA WriteIsPut ==
    ASSUME TypeOK, NEW b \in Branch, NEW c, c # None, refs' = RefsWith(b, c)
    PROVE  Files' = Overlay(Files, [x \in {b} |-> c.tree.entries])
<1> DEFINE born == {x \in Branch : refs[x] # None}
           after == {x \in Branch : refs'[x] # None}
           old == [x \in born |-> refs[x].tree.entries]
           new == [x \in after |-> refs'[x].tree.entries]
           f == [x \in {b} |-> c.tree.entries]
<1>1. after = born \cup {b}
  BY DEF RefsWith, TypeOK
<1>2. \A x \in after : refs'[x] = IF x = b THEN c ELSE refs[x]
  BY DEF RefsWith, TypeOK
<1>3. \A x \in after : x # b => x \in born
  BY <1>1
<1>4. DOMAIN old = born /\ DOMAIN f = {b}
  OBVIOUS
<1>5. Overlay(old, f) = [x \in born \cup {b} |-> IF x \in {b} THEN f[x] ELSE old[x]]
  BY <1>4 DEF Overlay
<1>6. \A x \in after : refs'[x].tree.entries = IF x \in {b} THEN f[x] ELSE old[x]
  BY <1>2, <1>3
<1>7. new = Overlay(old, f)
  BY <1>1, <1>5, <1>6
<1> QED
  BY <1>7 DEF Files

(* A three-way merge gives each file, or its absence, of one of the sides. *)
Sides(names, o, t) ==
    LET side(n) == IF n \in names THEN t ELSE o
    IN  [n \in {m \in Name : m \in DOMAIN side(m)} |-> side(n)[n]]

LEMMA OneSide ==
    ASSUME NEW o, NEW t, IsEntries(o), IsEntries(t)
    PROVE  Sides({}, o, t) = o /\ Sides(Name, o, t) = t
<1>1. Sides({}, o, t) = o
  BY DEF Sides, IsEntries
<1>2. Sides(Name, o, t) = t
  <2> DEFINE side(n) == IF n \in Name THEN t ELSE o
  <2>1. {m \in Name : m \in DOMAIN side(m)} = DOMAIN t
    BY DEF IsEntries
  <2>2. \A n \in DOMAIN t : side(n)[n] = t[n]
    BY DEF IsEntries
  <2>3. Sides(Name, o, t) = [n \in DOMAIN t |-> t[n]]
    BY <2>1, <2>2 DEF Sides
  <2> QED
    BY <2>3 DEF IsEntries
<1> QED
  BY <1>1, <1>2

LEMMA EntriesAreBlobs ==
    ASSUME NEW f, IsEntries(f)
    PROVE  \A n : /\ n \in DOMAIN f => n \in Name /\ f[n] # None
                 /\ Entry(f, n) # None <=> n \in DOMAIN f
<1>1. \A d : Blob(d) # None
  <2>1. \A d : Blob(d).type = "blob"
    BY ObjectFields
  <2> QED
    BY <2>1 DEF None
<1>2. \A n \in DOMAIN f : f[n] \in Range(f)
  BY DEF Range
<1> QED
  BY <1>1, <1>2 DEF IsEntries, Entry

LEMMA MergeTakesSides ==
    ASSUME NEW b, NEW o, NEW t, IsEntries(o), IsEntries(t)
    PROVE  \E names \in SUBSET Name : MergeEntries(b, o, t) = Sides(names, o, t)
<1> DEFINE names == {n \in Name : Changed(b, t, n) /\ ~Changed(b, o, n)}
           side(n) == IF n \in names THEN t ELSE o
           all == DOMAIN b \cup DOMAIN o \cup DOMAIN t
           m == [n \in {x \in all : MergedEntry(b, o, t, x) # None} |-> MergedEntry(b, o, t, n)]
<1>1. \A n \in Name : MergedEntry(b, o, t, n) = Entry(side(n), n)
  BY DEF MergedEntry
<1>2. \A n \in Name : MergedEntry(b, o, t, n) # None <=> n \in DOMAIN side(n)
  BY <1>1, EntriesAreBlobs
<1>3. ASSUME NEW n, MergedEntry(b, o, t, n) # None PROVE n \in Name /\ n \in all
  <2>1. Entry(o, n) # None \/ Entry(t, n) # None
    BY <1>3 DEF MergedEntry
  <2> QED
    BY <2>1, EntriesAreBlobs
<1>4. {x \in all : MergedEntry(b, o, t, x) # None} = {x \in Name : x \in DOMAIN side(x)}
  BY <1>2, <1>3
<1>5. \A n \in Name : n \in DOMAIN side(n) => MergedEntry(b, o, t, n) = side(n)[n]
  BY <1>1 DEF Entry
<1> HIDE DEF all
<1>6. m = [n \in {x \in Name : x \in DOMAIN side(x)} |-> side(n)[n]]
  <2> DEFINE S == {x \in Name : x \in DOMAIN side(x)}
  <2>1. \A n \in S : MergedEntry(b, o, t, n) = side(n)[n]
    BY <1>5
  <2>2. m = [n \in S |-> MergedEntry(b, o, t, n)]
    BY <1>4
  <2> QED
    BY <2>1, <2>2
<1>7. m = Sides(names, o, t)
  BY <1>6 DEF Sides
<1>8. MergeEntries(b, o, t) \in {o, t, m}
  BY DEF MergeEntries, all
<1>9. o = Sides({}, o, t) /\ t = Sides(Name, o, t)
  BY OneSide
<1>10. {} \in SUBSET Name /\ Name \in SUBSET Name /\ names \in SUBSET Name
  OBVIOUS
<1> HIDE DEF names, m
<1> QED
  BY <1>7, <1>8, <1>9, <1>10

(* Steps that write neither a branch, nor HEAD, nor the staging area. *)
LEMMA Unseen ==
    ASSUME UNCHANGED <<refs, head, staging>>
    PROVE  UNCHANGED Snapshots!state
  BY DEF Snapshots!state

LEMMA StageIsAdd ==
    ASSUME TypeOK, NEW p \in Proc, AddStage(p)
    PROVE  Snapshots!Next
<1>1. PICK d \in Data : job[p].blob = Blob(d) /\ job[p].name \in Name
  BY DEF AddStage, At, TypeOK, JobOK, Holds, LocalsOf
<1>2. Snapshots!Add(job[p].name, d)
  <2>1. staging' = Overlay(staging, [m \in {job[p].name} |-> Blob(d)]) /\ UNCHANGED <<refs, head>>
    BY <1>1 DEF AddStage
  <2>2. staging' = Snapshots!Overlay(staging, [m \in {job[p].name} |-> Snapshots!Blob(d)])
    BY <2>1, SnapshotOperators
  <2> QED
    BY <2>1, <2>2 DEF Snapshots!Add
<1> QED
  BY <1>1, <1>2 DEF Snapshots!Next

LEMMA UpdateIsPublish ==
    ASSUME OneProcess, TypeOK, UpToDate, NEW p \in Proc, CommitUpdateRef(p)
    PROVE  Snapshots!Next
<1>1. /\ job[p].head = head /\ head \in Branch /\ head # Detached
      /\ job[p].commit # None /\ DOMAIN staging # {}
      /\ job[p].commit.tree.entries = Overlay(FilesAt(head), staging)
  BY NamesAssumption DEF CommitUpdateRef, At, UpToDate, Fits, CommitUpToDate, TypeOK, JobOK, Holds, LocalsOf
<1>2. refs' = RefsWith(head, job[p].commit) /\ UNCHANGED <<head, staging>>
  BY <1>1, AloneUpdates DEF CommitUpdateRef
<1> DEFINE f == Overlay(FilesAt(head), staging)
<1>3. Files' = Overlay(Files, [x \in {head} |-> f])
  <2>1. Files' = Overlay(Files, [x \in {head} |-> job[p].commit.tree.entries])
    BY <1>1, <1>2, WriteIsPut
  <2> QED
    BY <1>1, <2>1
<1>4. f = Snapshots!Overlay(IF head \in DOMAIN Files THEN Files[head] ELSE Snapshots!NoEntries, staging)
  BY <1>1, FilesOfBranch, SnapshotOperators
<1> HIDE DEF f
<1>5. Files' = Snapshots!Overlay(Files, [x \in {head} |-> f])
  BY <1>3, SnapshotOperators
<1> QED
  BY <1>1, <1>2, <1>4, <1>5
     DEF Snapshots!Next, Snapshots!Publish, Snapshots!Put, Snapshots!FilesOf, Snapshots!Born, Files

LEMMA ClearIsUnstage ==
    ASSUME TypeOK, UpToDate, NEW p \in Proc, CommitClear(p)
    PROVE  Snapshots!Next
<1>1. refs[head] # None /\ FilesAt(head) = Overlay(FilesAt(head), staging) /\ head \in Branch
  BY DEF CommitClear, At, UpToDate, Fits, CommitUpToDate
<1>2. staging' = NoEntries /\ UNCHANGED <<refs, head>>
  BY DEF CommitClear
<1>3. head \in DOMAIN Files /\ Files[head] = Snapshots!Overlay(Files[head], staging)
  BY <1>1, FilesOfBranch, SnapshotOperators
<1>4. staging' = Snapshots!NoEntries /\ Files' = Files
  BY <1>2, SnapshotOperators DEF Files
<1> QED
  BY <1>2, <1>3, <1>4 DEF Snapshots!Next, Snapshots!Unstage, Snapshots!Born, Files

LEMMA WriteIsFork ==
    ASSUME OneProcess, TypeOK, UpToDate, NEW p \in Proc, BranchWrite(p)
    PROVE  Snapshots!Next
<1>1. /\ head \in Branch /\ job[p].target \in Branch
      /\ job[p].commit = refs[head] /\ job[p].commit # None
  BY DEF BranchWrite, At, UpToDate, Fits, BranchUpToDate, TypeOK, JobOK, Holds, LocalsOf
<1>2. refs' = RefsWith(job[p].target, job[p].commit) /\ UNCHANGED <<head, staging>>
  BY AloneUpdates DEF BranchWrite
<1>3. head \in DOMAIN Files /\ Files[head] = refs[head].tree.entries
  BY <1>1, FilesOfBranch
<1>4. Files' = Overlay(Files, [x \in {job[p].target} |-> job[p].commit.tree.entries])
  BY <1>1, <1>2, WriteIsPut
<1>5. Files' = Snapshots!Overlay(Files, [x \in {job[p].target} |-> Files[head]])
  BY <1>1, <1>3, <1>4, SnapshotOperators
<1> QED
  BY <1>1, <1>2, <1>3, <1>5 DEF Snapshots!Next, Snapshots!Fork, Snapshots!Put, Snapshots!Born, Files

LEMMA CheckoutIsSwitch ==
    ASSUME OneProcess, TypeOK, HeadsResolve, NEW p \in Proc, CheckoutWriteHead(p)
    PROVE  Snapshots!Next
<1> DEFINE b == job[p].target
<1>1. b \in Branch /\ refs[b] # None
  BY DEF CheckoutWriteHead, TypeOK, JobOK, Holds, LocalsOf, HeadsResolve, At
<1>2. b \in DOMAIN Files /\ head' = b /\ UNCHANGED <<refs, staging>>
  BY <1>1, FilesOfBranch, AloneWrites DEF CheckoutWriteHead
<1>3. Files' = Files
  BY <1>2 DEF Files
<1> QED
  BY <1>1, <1>2, <1>3 DEF Snapshots!Next, Snapshots!Switch, Snapshots!Born, Files

LEMMA UpdateIsMerge ==
    ASSUME OneProcess, TypeOK, UpToDate, NEW p \in Proc, MergeUpdateRef(p)
    PROVE  Snapshots!Next
<1> DEFINE o == job[p].ours.tree.entries
           t == job[p].theirs.tree.entries
<1>1. /\ job[p].head = head /\ head \in Branch
      /\ job[p].ours = refs[head] /\ job[p].ours # None /\ job[p].theirs # None
      /\ job[p].commit # None
      /\ IsEntries(o) /\ IsEntries(t)
  BY DEF MergeUpdateRef, At, UpToDate, Fits, MergeUpToDate, TypeOK, JobOK, IsCommit, IsTree, Holds, LocalsOf
<1>2. PICK b \in Branch : job[p].theirs = refs[b]
  BY DEF MergeUpdateRef, At, UpToDate, Fits, MergeUpToDate, Holds, LocalsOf
<1>3. PICK names \in SUBSET Name : job[p].commit.tree.entries = Sides(names, o, t)
  <2>1. CASE job[p].commit = job[p].theirs
    <3>1. t = Sides(Name, o, t)
      BY <1>1, OneSide
    <3> QED
      BY <2>1, <3>1
  <2>2. CASE \E f : job[p].commit.tree.entries = MergeEntries(f, o, t)
    BY <1>1, <2>2, MergeTakesSides
  <2> QED
    BY <2>1, <2>2 DEF MergeUpdateRef, At, UpToDate, Fits, MergeUpToDate
<1>4. refs' = RefsWith(head, job[p].commit) /\ UNCHANGED <<head, staging>>
  BY <1>1, AloneUpdates DEF MergeUpdateRef
<1>5. /\ head \in DOMAIN Files /\ Files[head] = o
      /\ b \in DOMAIN Files /\ Files[b] = t
  BY <1>1, <1>2, FilesOfBranch
<1> DEFINE side(n) == IF n \in names THEN Files[b] ELSE Files[head]
           f == [n \in {m \in Name : m \in DOMAIN side(m)} |-> side(n)[n]]
<1>6. f = Sides(names, o, t)
  BY <1>5 DEF Sides
<1>7. Files' = Overlay(Files, [x \in {head} |-> job[p].commit.tree.entries])
  BY <1>1, <1>4, WriteIsPut
<1>8. Files' = Snapshots!Overlay(Files, [x \in {head} |-> f])
  <2> HIDE DEF f
  <2> QED
    BY <1>3, <1>6, <1>7, SnapshotOperators
<1> QED
  BY <1>1, <1>4, <1>5, <1>8 DEF Snapshots!Next, Snapshots!Merge, Snapshots!Put, Snapshots!Born, Files

LEMMA InitSnapshots == UsualHead /\ Init => Snapshots!Init
<1> SUFFICES ASSUME UsualHead, Init PROVE Snapshots!Init
  OBVIOUS
<1> DEFINE born == {x \in Branch : refs[x] # None}
           F == [x \in born |-> refs[x].tree.entries]
<1>1. staging = Snapshots!NoEntries
  BY SnapshotOperators DEF Init
<1>2. CASE FreshRepository
  <2>1. born = {}
    BY <1>2 DEF FreshRepository
  <2>2. F = [b \in {} |-> Snapshots!NoEntries]
    BY <2>1
  <2> QED
    BY <1>1, <1>2, <2>2 DEF Snapshots!Init, FreshRepository
<1>3. CASE ClonedRepository
  <2>1. PICK n \in Name, d \in Data, s \in Stamp, default \in Branch :
            LET tree == Tree([m \in {n} |-> Blob(d)])
                tip  == Commit(tree, <<>>, s)
            IN  /\ (IF default = Main THEN "clone" ELSE "clone_detached") \in Starts
                /\ store = {Chunk(d), Blob(d), tree, tip}
                /\ refs = [b \in Branch |-> IF b = default THEN tip ELSE None]
                /\ head = IF default = Main THEN Main ELSE Detached
    BY <1>3, Zenon DEF ClonedRepository
  <2> DEFINE f == [m \in {n} |-> Blob(d)]
             tip == Commit(Tree(f), <<>>, s)
  <2>2. default = Main /\ head = Main
    BY <2>1 DEF UsualHead
  <2>3. tip # None /\ tip.tree.entries = f
    BY ObjectFields
  <2>4. refs = [b \in Branch |-> IF b = Main THEN tip ELSE None]
    BY <2>1, <2>2
  <2> HIDE DEF tip, f
  <2>5. born = {Main} /\ refs[Main] = tip
    BY <2>3, <2>4, NamesAssumption
  <2>6. F = [b \in {Main} |-> f]
    BY <2>3, <2>5
  <2>7. F = [b \in {Main} |-> [m \in {n} |-> Snapshots!Blob(d)]]
    BY <2>6, SnapshotOperators DEF f
  <2> QED
    BY <1>1, <2>2, <2>7 DEF Snapshots!Init
<1> QED
  BY <1>2, <1>3 DEF Init

LEMMA StepSnapshots ==
    ASSUME OneProcess
    PROVE  TypeOK /\ HeadsResolve /\ UpToDate /\ [Next]_vars => [Snapshots!Next]_(Snapshots!state)
<1> SUFFICES ASSUME TypeOK, HeadsResolve, UpToDate, [Next]_vars PROVE Snapshots!Next \/ UNCHANGED Snapshots!state
  OBVIOUS
<1>1. CASE UNCHANGED vars
  BY <1>1, Unseen DEF vars
<1>2. ASSUME NEW p \in Proc, AddStep(p) PROVE Snapshots!Next \/ UNCHANGED Snapshots!state
  BY <1>2, StageIsAdd, Unseen DEF AddStep, AddRead, AddChunks, AddBlob
<1>3. ASSUME NEW p \in Proc, CommitStep(p) PROVE Snapshots!Next \/ UNCHANGED Snapshots!state
  BY <1>3, UpdateIsPublish, ClearIsUnstage, Unseen
     DEF CommitStep, CommitReadStaged, CommitReadHead, CommitReadBase, CommitWriteTree, CommitReadParent,
         CommitWriteCommit
<1>4. ASSUME NEW p \in Proc, BranchStep(p) PROVE Snapshots!Next \/ UNCHANGED Snapshots!state
  BY <1>4, WriteIsFork, Unseen DEF BranchStep, BranchReadHead, BranchReadTip
<1>5. ASSUME NEW p \in Proc, MergeStep(p) PROVE Snapshots!Next \/ UNCHANGED Snapshots!state
  BY <1>5, UpdateIsMerge, Unseen
     DEF MergeStep, MergeReadHead, MergeReadOurs, MergeReadTheirs, FastForward, MergeTrees,
         MergeWriteTree, MergeWriteCommit
<1>6. ASSUME NEW p \in Proc, CheckoutStep(p) PROVE Snapshots!Next \/ UNCHANGED Snapshots!state
  BY <1>6, CheckoutIsSwitch, Unseen DEF CheckoutStep, CheckoutReadTip
<1>7. ASSUME NEW p \in Proc, Return(p) \/ Crash(p) PROVE Snapshots!Next \/ UNCHANGED Snapshots!state
  BY <1>7, Unseen DEF Return, Crash
<1> QED
  BY <1>1, <1>2, <1>3, <1>4, <1>5, <1>6, <1>7 DEF Next, CommandStep

(* One command at a time, whatever it is killed between: a repository of   *)
(* objects and references behaves as branches with files.  A commit takes  *)
(* effect when the branch is written, and so do a branch and a merge; every *)
(* other step, and every crash, is invisible.                              *)
THEOREM SerialImplementsSnapshots ==
    ASSUME OneProcess, UsualHead
    PROVE  Spec => ImplementsSnapshots
<1>1. Spec => []UpToDate
  BY SerialUpToDate
<1> QED
  BY <1>1, Typing, HeadIsResolved, InitSnapshots, StepSnapshots, PTL DEF Spec, ImplementsSnapshots, Snapshots!Spec
=============================================================================
