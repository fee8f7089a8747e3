-------------------------- MODULE FluxRepo_proofs --------------------------
(***************************************************************************)
(* Theorems about FluxRepo, for any number of processes, branches, names,  *)
(* contents and commits, with crashes and failing chunk writes:            *)
(*   - Typing: TypeOK is an invariant;                                     *)
(*   - HistoryIsStored: nothing a branch, a stored commit or tree, the     *)
(*     staging area or a running command refers to is missing;             *)
(*   - HeadIsResolved: HEAD never dangles beside living branches;          *)
(*   - ChunksAreStored: without failing writes, no blob lacks its chunk.   *)
(***************************************************************************)
EXTENDS FluxRepo, TLAPS

---------------------------------------------------------------------------
(* Entries: what overlaying and merging them returns. *)

(* Overlaying adds no blob: each entry is one of the two maps'. *)
LEMMA OverlayRange ==
    ASSUME NEW f, NEW g
    PROVE  /\ Range(Overlay(f, g)) \subseteq Range(f) \cup Range(g)
           /\ DOMAIN Overlay(f, g) = DOMAIN f \cup DOMAIN g
           /\ Overlay(f, g) = [n \in DOMAIN Overlay(f, g) |-> Overlay(f, g)[n]]
  BY DEF Overlay, Range

(* Merging adds no blob either, whatever the base. *)
LEMMA MergeRange ==
    ASSUME NEW b, NEW o, NEW t,
           o = [n \in DOMAIN o |-> o[n]], t = [n \in DOMAIN t |-> t[n]]
    PROVE  LET m == MergeEntries(b, o, t)
           IN  /\ Range(m) \subseteq Range(o) \cup Range(t)
               /\ DOMAIN m \subseteq DOMAIN o \cup DOMAIN t
               /\ m = [n \in DOMAIN m |-> m[n]]
<1> DEFINE names == {n \in DOMAIN b \cup DOMAIN o \cup DOMAIN t : MergedEntry(b, o, t, n) # None}
           m == [n \in names |-> MergedEntry(b, o, t, n)]
<1>1. \A n \in names : \/ n \in DOMAIN o /\ MergedEntry(b, o, t, n) = o[n]
                       \/ n \in DOMAIN t /\ MergedEntry(b, o, t, n) = t[n]
  BY DEF MergedEntry, Entry
<1>2. /\ Range(m) \subseteq Range(o) \cup Range(t)
      /\ DOMAIN m \subseteq DOMAIN o \cup DOMAIN t
      /\ m = [n \in DOMAIN m |-> m[n]]
  BY <1>1 DEF Range
<1>3. MergeEntries(b, o, t) \in {o, t, m}
  BY DEF MergeEntries
<1> QED
  BY <1>2, <1>3 DEF Range

(* Entries are closed under overlaying, merging and staging one blob. *)
LEMMA EntriesClosed ==
    /\ IsEntries(NoEntries)
    /\ \A f, g : IsEntries(f) /\ IsEntries(g) => IsEntries(Overlay(f, g))
    /\ \A b, o, t : IsEntries(o) /\ IsEntries(t) => IsEntries(MergeEntries(b, o, t))
    /\ \A n \in Name, d \in Data : IsEntries([m \in {n} |-> Blob(d)])
<1>1. IsEntries(NoEntries)
  BY DEF IsEntries, NoEntries, Range
<1>2. ASSUME NEW f, NEW g, IsEntries(f), IsEntries(g)
      PROVE  IsEntries(Overlay(f, g))
  <2>1. /\ Range(Overlay(f, g)) \subseteq Range(f) \cup Range(g)
        /\ DOMAIN Overlay(f, g) = DOMAIN f \cup DOMAIN g
        /\ Overlay(f, g) = [n \in DOMAIN Overlay(f, g) |-> Overlay(f, g)[n]]
    BY OverlayRange
  <2> QED
    BY <1>2, <2>1 DEF IsEntries
<1>3. ASSUME NEW b, NEW o, NEW t, IsEntries(o), IsEntries(t)
      PROVE  IsEntries(MergeEntries(b, o, t))
  <2>1. o = [n \in DOMAIN o |-> o[n]] /\ t = [n \in DOMAIN t |-> t[n]]
    BY <1>3 DEF IsEntries
  <2> QED
    BY <1>3, <2>1, MergeRange DEF IsEntries
<1>4. ASSUME NEW n \in Name, NEW d \in Data
      PROVE  IsEntries([m \in {n} |-> Blob(d)])
  BY DEF IsEntries, Range
<1> QED
  BY <1>1, <1>2, <1>3, <1>4

---------------------------------------------------------------------------
(* Objects: what the constructors build. *)
LEMMA ObjectFields ==
    ASSUME NEW x, NEW y, NEW z
    PROVE  /\ Chunk(x).type = "chunk" /\ Blob(x).type = "blob"
           /\ Blob(x).chunk = Chunk(x)
           /\ Tree(x).type = "tree" /\ Tree(x).entries = x
           /\ Commit(x, y, z) # None
           /\ Commit(x, y, z).type = "commit" /\ Commit(x, y, z).tree = x
           /\ Commit(x, y, z).parents = y /\ Commit(x, y, z).stamp = z
  BY DEF Chunk, Blob, Tree, Commit, None

LEMMA ObjectDeps ==
    ASSUME NEW x, NEW y, NEW z
    PROVE  /\ Deps(Chunk(x)) = {}
           /\ Deps(Blob(x)) = {Chunk(x)}
           /\ Deps(Tree(x)) = Range(x)
           /\ Deps(Commit(x, y, z)) = {x} \cup Range(y)
  BY ObjectFields DEF Deps

(* The parents of the commits the commands write: none, one or two. *)
LEMMA ParentRange ==
    ASSUME NEW x, NEW y
    PROVE  /\ Range(<<>>) = {} /\ Range(<<x>>) = {x} /\ Range(<<x, y>>) = {x, y}
           /\ Len(<<>>) \in 0..2 /\ Len(<<x>>) \in 0..2 /\ Len(<<x, y>>) \in 0..2
  BY DEF Range

---------------------------------------------------------------------------
(* Typing. *)

(* A process that moves on leaves the others' locals as they are. *)
LEMMA GotoTyping ==
    ASSUME TypeOK, NEW p \in Proc, NEW j, Goto(p, j), JobOK(j)
    PROVE  /\ job' = [q \in Proc |-> job'[q]]
           /\ \A q \in Proc : JobOK(job'[q])
  BY DEF TypeOK, Goto

LEMMA IdleTyping == JobOK(Idle)
  BY DEF JobOK, Idle, Steps, Holds, LocalsOf

(* Writing an object that is one keeps the store one of objects. *)
LEMMA WriteTyping ==
    ASSUME TypeOK, NEW p \in Proc, WriteObject(p), IsObject(job[p].object)
    PROVE  (\A o \in store' : IsObject(o)) /\ torn' \subseteq store'
  BY DEF TypeOK, WriteObject

LEMMA AddTyping ==
    ASSUME TypeOK, NEW p \in Proc, AddStep(p)
    PROVE  TypeOK'
<1> USE DEF At
<1>1. ASSUME NEW n \in Name, NEW d \in Data, AddRead(p, n, d) PROVE TypeOK'
  <2>1. JobOK(AfterRead(n, d))
    BY DEF JobOK, AfterRead, Steps, Holds, LocalsOf
  <2> QED
    BY <1>1, <2>1, GotoTyping DEF AddRead, TypeOK
<1>2. CASE AddChunks(p)
  <2>1. job[p].name \in Name /\ job[p].data \in Data /\ job[p].object = Chunk(job[p].data)
    BY <1>2 DEF AddChunks, TypeOK, JobOK, Holds, LocalsOf
  <2>2. JobOK(AfterChunks(job[p].name, job[p].data))
    BY <2>1 DEF JobOK, AfterChunks, Steps, Holds, LocalsOf
  <2>3. (\A o \in store' : IsObject(o)) /\ torn' \subseteq store'
    <3>1. IsObject(job[p].object)
      BY <2>1 DEF IsObject
    <3> QED
      BY <1>2, <3>1, WriteTyping DEF AddChunks, TypeOK
  <2> QED
    BY <1>2, <2>2, <2>3, GotoTyping DEF AddChunks, TypeOK
<1>3. CASE AddBlob(p)
  <2>1. job[p].name \in Name /\ job[p].object \in {Blob(d) : d \in Data}
    BY <1>3 DEF AddBlob, TypeOK, JobOK, Holds, LocalsOf
  <2> DEFINE j == [pc |-> "add:stage", name |-> job[p].name, blob |-> job[p].object]
  <2>2. JobOK(j)
    BY <2>1 DEF JobOK, Steps, Holds, LocalsOf
  <2>3. (\A o \in store' : IsObject(o)) /\ torn' \subseteq store'
    <3>1. IsObject(job[p].object)
      BY <2>1 DEF IsObject
    <3> QED
      BY <1>3, <3>1, WriteTyping DEF AddBlob
  <2>4. Goto(p, j)
    BY <1>3 DEF AddBlob
  <2> QED
    BY <1>3, <2>2, <2>3, <2>4, GotoTyping DEF AddBlob, TypeOK
<1>4. CASE AddStage(p)
  <2>1. PICK d \in Data : job[p].blob = Blob(d)
    BY <1>4 DEF AddStage, TypeOK, JobOK, Holds, LocalsOf
  <2>2. job[p].name \in Name
    BY <1>4 DEF AddStage, TypeOK, JobOK, Holds, LocalsOf
  <2>3. IsEntries(staging')
    BY <1>4, <2>1, <2>2, EntriesClosed DEF AddStage, TypeOK
  <2> QED
    BY <1>4, <2>3, GotoTyping, IdleTyping DEF AddStage, TypeOK
<1> QED
  BY <1>1, <1>2, <1>3, <1>4 DEF AddStep

(* What the commands read from a branch has the right type. *)
LEMMA TipTyping ==
    ASSUME TypeOK, NEW h \in Branch \cup {Detached}
    PROVE  /\ Tip(h) # None => IsCommit(Tip(h)) /\ h \in Branch /\ Tip(h) = refs[h]
           /\ IsEntries(BaseEntries(h))
           /\ Len(ParentsOf(h)) \in 0..2 /\ None \notin Range(ParentsOf(h))
<1>1. Tip(h) # None => IsCommit(Tip(h)) /\ h \in Branch /\ Tip(h) = refs[h]
  BY NamesAssumption DEF Tip, TypeOK
<1>2. IsEntries(BaseEntries(h))
  BY <1>1, EntriesClosed DEF BaseEntries, IsCommit, IsTree
<1>3. Len(ParentsOf(h)) \in 0..2 /\ None \notin Range(ParentsOf(h))
  <2>1. CASE Tip(h) = None
    <3>1. ParentsOf(h) = <<>>
      BY <2>1 DEF ParentsOf
    <3> QED
      BY <3>1, ParentRange, Zenon
  <2>2. CASE Tip(h) # None
    <3>1. ParentsOf(h) = <<Tip(h)>>
      BY <2>2 DEF ParentsOf
    <3>2. Range(<<Tip(h)>>) = {Tip(h)} /\ Len(<<Tip(h)>>) \in 0..2
      BY ParentRange
    <3>3. None \notin {Tip(h)}
      BY <2>2
    <3> QED
      BY <3>1, <3>2, <3>3, Zenon
  <2> QED
    BY <2>1, <2>2
<1> QED
  BY <1>1, <1>2, <1>3

(* The writers of a branch have commits to write. *)
LEMMA WritersTyping ==
    ASSUME TypeOK, NEW b \in Branch \cup {Detached}
    PROVE  \A q \in RefWriters(b) : q \in Proc /\ IsCommit(job[q].commit) /\ job[q].commit # None
<1>1. ASSUME NEW q \in RefWriters(b)
      PROVE  q \in Proc /\ job[q].pc \in {"branch:write", "commit:ref", "merge:ref"}
  BY DEF RefWriters, At
<1>2. ASSUME NEW q \in RefWriters(b) PROVE Holds(job[q], "commit")
  BY <1>1 DEF Holds, LocalsOf
<1> QED
  BY <1>1, <1>2 DEF TypeOK, JobOK

LEMMA RefTyping ==
    ASSUME TypeOK, NEW p \in Proc, NEW b \in Branch \cup {Detached}, WriteRef(p, b)
    PROVE  /\ refs' = [x \in Branch |-> refs'[x]]
           /\ \A x \in Branch : refs'[x] \notin {None, Torn} => IsCommit(refs'[x])
<1>1. PICK c : refs' = RefsWith(b, c) /\ (c = Torn \/ IsCommit(c))
  BY WritersTyping DEF WriteRef
<1> QED
  BY <1>1 DEF RefsWith, TypeOK

LEMMA CommitTyping ==
    ASSUME TypeOK, NEW p \in Proc, CommitStep(p)
    PROVE  TypeOK'
<1> USE DEF At
<1>1. CASE CommitReadStaged(p)
  <2> DEFINE j == [pc |-> "commit:head", staged |-> staging]
  <2>1. JobOK(j)
    BY DEF TypeOK, JobOK, Steps, Holds, LocalsOf
  <2>2. Goto(p, j)
    BY <1>1 DEF CommitReadStaged
  <2> QED
    BY <1>1, <2>1, <2>2, GotoTyping DEF CommitReadStaged, TypeOK
<1>2. CASE CommitReadHead(p)
  <2> DEFINE j == [pc |-> "commit:base", staged |-> job[p].staged, head |-> head]
  <2>1. JobOK(j)
    BY <1>2 DEF CommitReadHead, TypeOK, JobOK, Steps, Holds, LocalsOf
  <2>2. Goto(p, j)
    BY <1>2 DEF CommitReadHead
  <2> QED
    BY <1>2, <2>1, <2>2, GotoTyping DEF CommitReadHead, TypeOK
<1>3. CASE CommitReadBase(p)
  <2> DEFINE tree == Tree(Overlay(BaseEntries(job[p].head), job[p].staged))
             j == [pc |-> "commit:tree", staged |-> job[p].staged, head |-> job[p].head,
                   object |-> tree, found |-> {tree} \cap store]
  <2>1. IsEntries(job[p].staged) /\ job[p].head \in Branch \cup {Detached}
    BY <1>3 DEF CommitReadBase, TypeOK, JobOK, Holds, LocalsOf
  <2>2. IsTree(tree)
    <3>1. IsEntries(Overlay(BaseEntries(job[p].head), job[p].staged))
      BY <2>1, TipTyping, EntriesClosed
    <3> QED
      BY <3>1, ObjectFields DEF IsTree
  <2>3. Goto(p, j)
    BY <1>3 DEF CommitReadBase
  <2> HIDE DEF tree
  <2>4. JobOK(j)
    BY <2>1, <2>2 DEF JobOK, Steps, Holds, LocalsOf
  <2> QED
    BY <1>3, <2>3, <2>4, GotoTyping DEF CommitReadBase, TypeOK
<1>4. CASE CommitWriteTree(p)
  <2> DEFINE j == [pc |-> "commit:parent", staged |-> job[p].staged,
                   head |-> job[p].head, tree |-> job[p].object]
  <2>1. IsTree(job[p].object)
    BY <1>4 DEF CommitWriteTree, TypeOK, JobOK
  <2>2. JobOK(j)
    BY <1>4, <2>1 DEF CommitWriteTree, TypeOK, JobOK, Steps, Holds, LocalsOf
  <2>3. Goto(p, j)
    BY <1>4 DEF CommitWriteTree
  <2>4. (\A o \in store' : IsObject(o)) /\ torn' \subseteq store'
    BY <1>4, <2>1, WriteTyping DEF CommitWriteTree, IsObject
  <2> QED
    BY <1>4, <2>2, <2>3, <2>4, GotoTyping DEF CommitWriteTree, TypeOK
<1>5. CASE CommitReadParent(p)
  <2>1. PICK s \in Stamp :
            LET commit == Commit(job[p].tree, ParentsOf(job[p].head), s)
            IN  Goto(p, [pc |-> "commit:commit", staged |-> job[p].staged, head |-> job[p].head,
                         object |-> commit, found |-> {commit} \cap store])
    BY <1>5 DEF CommitReadParent
  <2> DEFINE commit == Commit(job[p].tree, ParentsOf(job[p].head), s)
             j == [pc |-> "commit:commit", staged |-> job[p].staged, head |-> job[p].head,
                   object |-> commit, found |-> {commit} \cap store]
  <2>2. IsEntries(job[p].staged) /\ job[p].head \in Branch \cup {Detached} /\ IsTree(job[p].tree)
    BY <1>5 DEF CommitReadParent, TypeOK, JobOK, Holds, LocalsOf
  <2>3. IsCommit(commit) /\ commit # None
    BY <2>2, TipTyping, ObjectFields DEF IsCommit
  <2>4. Goto(p, j)
    BY <2>1
  <2> HIDE DEF commit
  <2>5. JobOK(j)
    BY <2>2, <2>3 DEF JobOK, Steps, Holds, LocalsOf
  <2> QED
    BY <1>5, <2>4, <2>5, GotoTyping DEF CommitReadParent, TypeOK
<1>6. CASE CommitWriteCommit(p)
  <2> DEFINE j == [pc |-> "commit:ref", staged |-> job[p].staged,
                   head |-> job[p].head, commit |-> job[p].object]
  <2>1. IsCommit(job[p].object)
    BY <1>6 DEF CommitWriteCommit, TypeOK, JobOK
  <2>2. JobOK(j)
    BY <1>6, <2>1 DEF CommitWriteCommit, TypeOK, JobOK, Steps, Holds, LocalsOf
  <2>3. Goto(p, j)
    BY <1>6 DEF CommitWriteCommit
  <2>4. (\A o \in store' : IsObject(o)) /\ torn' \subseteq store'
    BY <1>6, <2>1, WriteTyping DEF CommitWriteCommit, IsObject
  <2> QED
    BY <1>6, <2>2, <2>3, <2>4, GotoTyping DEF CommitWriteCommit, TypeOK
<1>7. CASE CommitUpdateRef(p)
  <2> DEFINE j == [pc |-> "commit:clear"]
  <2>1. JobOK(j)
    BY DEF JobOK, Steps, Holds, LocalsOf
  <2>2. job[p].head \in Branch \cup {Detached}
    BY <1>7 DEF CommitUpdateRef, TypeOK, JobOK, Holds, LocalsOf
  <2>3. /\ refs' = [b \in Branch |-> refs'[b]]
        /\ \A b \in Branch : refs'[b] \notin {None, Torn} => IsCommit(refs'[b])
    BY <1>7, <2>2, RefTyping DEF CommitUpdateRef, TypeOK
  <2> QED
    BY <1>7, <2>1, <2>3, GotoTyping DEF CommitUpdateRef, TypeOK
<1>8. CASE CommitClear(p)
  BY <1>8, EntriesClosed, GotoTyping, IdleTyping DEF CommitClear, TypeOK
<1> QED
  BY <1>1, <1>2, <1>3, <1>4, <1>5, <1>6, <1>7, <1>8 DEF CommitStep

LEMMA BranchTyping ==
    ASSUME TypeOK, NEW p \in Proc, BranchStep(p)
    PROVE  TypeOK'
<1> USE DEF At
<1>1. ASSUME NEW b \in Branch, BranchReadHead(p, b) PROVE TypeOK'
  <2> DEFINE j == [pc |-> "branch:tip", target |-> b, head |-> head]
  <2>1. JobOK(j)
    BY DEF TypeOK, JobOK, Steps, Holds, LocalsOf
  <2>2. Goto(p, j)
    BY <1>1 DEF BranchReadHead
  <2> QED
    BY <1>1, <2>1, <2>2, GotoTyping DEF BranchReadHead, TypeOK
<1>2. CASE BranchReadTip(p)
  <2> DEFINE j == [pc |-> "branch:write", target |-> job[p].target, commit |-> Tip(job[p].head)]
  <2>1. job[p].target \in Branch /\ job[p].head \in Branch \cup {Detached}
    BY <1>2 DEF BranchReadTip, TypeOK, JobOK, Holds, LocalsOf
  <2>2. IsCommit(Tip(job[p].head)) /\ Tip(job[p].head) # None
    BY <1>2, <2>1, TipTyping DEF BranchReadTip
  <2>3. JobOK(j)
    BY <2>1, <2>2 DEF JobOK, Steps, Holds, LocalsOf
  <2>4. Goto(p, j)
    BY <1>2 DEF BranchReadTip
  <2> QED
    BY <1>2, <2>3, <2>4, GotoTyping DEF BranchReadTip, TypeOK
<1>3. CASE BranchWrite(p)
  <2>1. job[p].target \in Branch
    BY <1>3 DEF BranchWrite, TypeOK, JobOK, Holds, LocalsOf
  <2>2. /\ refs' = [b \in Branch |-> refs'[b]]
        /\ \A b \in Branch : refs'[b] \notin {None, Torn} => IsCommit(refs'[b])
    BY <1>3, <2>1, RefTyping DEF BranchWrite
  <2> QED
    BY <1>3, <2>2, GotoTyping, IdleTyping DEF BranchWrite, TypeOK
<1> QED
  BY <1>1, <1>2, <1>3 DEF BranchStep

LEMMA CheckoutTyping ==
    ASSUME TypeOK, NEW p \in Proc, CheckoutStep(p)
    PROVE  TypeOK'
<1> USE DEF At
<1>1. ASSUME NEW b \in Branch, CheckoutReadTip(p, b) PROVE TypeOK'
  <2> DEFINE j == [pc |-> "checkout:head", target |-> b]
  <2>1. JobOK(j)
    BY DEF JobOK, Steps, Holds, LocalsOf
  <2>2. Goto(p, j)
    BY <1>1 DEF CheckoutReadTip
  <2> QED
    BY <1>1, <2>1, <2>2, GotoTyping DEF CheckoutReadTip, TypeOK
<1>2. CASE CheckoutWriteHead(p)
  <2>1. \A q \in HeadWriters : job[q].target \in Branch
    BY DEF HeadWriters, TypeOK, JobOK, Holds, LocalsOf
  <2>2. head' \in Branch \cup {Detached}
    BY <1>2, <2>1 DEF CheckoutWriteHead
  <2> QED
    BY <1>2, <2>2, GotoTyping, IdleTyping DEF CheckoutWriteHead, TypeOK
<1> QED
  BY <1>1, <1>2 DEF CheckoutStep

LEMMA MergeTyping ==
    ASSUME TypeOK, NEW p \in Proc, MergeStep(p)
    PROVE  TypeOK'
<1> USE DEF At
<1>1. ASSUME NEW b \in Branch, MergeReadHead(p, b) PROVE TypeOK'
  <2> DEFINE j == [pc |-> "merge:ours", other |-> b, head |-> head]
  <2>1. JobOK(j)
    BY DEF TypeOK, JobOK, Steps, Holds, LocalsOf
  <2>2. Goto(p, j)
    BY <1>1 DEF MergeReadHead
  <2> QED
    BY <1>1, <2>1, <2>2, GotoTyping DEF MergeReadHead, TypeOK
<1>2. CASE MergeReadOurs(p)
  <2> DEFINE j == [pc |-> "merge:theirs", other |-> job[p].other,
                   head |-> job[p].head, ours |-> Tip(job[p].head)]
  <2>1. job[p].other \in Branch /\ job[p].head \in Branch \cup {Detached}
    BY <1>2 DEF MergeReadOurs, TypeOK, JobOK, Holds, LocalsOf
  <2>2. IsCommit(Tip(job[p].head)) /\ Tip(job[p].head) # None
    BY <1>2, <2>1, TipTyping DEF MergeReadOurs
  <2>3. JobOK(j)
    BY <2>1, <2>2 DEF JobOK, Steps, Holds, LocalsOf
  <2>4. Goto(p, j)
    BY <1>2 DEF MergeReadOurs
  <2> QED
    BY <1>2, <2>3, <2>4, GotoTyping DEF MergeReadOurs, TypeOK
<1>3. CASE MergeReadTheirs(p)
  <2> DEFINE j == [pc |-> "merge:base", head |-> job[p].head,
                   ours |-> job[p].ours, theirs |-> Tip(job[p].other)]
  <2>1. /\ job[p].other \in Branch /\ job[p].head \in Branch \cup {Detached}
        /\ IsCommit(job[p].ours) /\ job[p].ours # None
    BY <1>3 DEF MergeReadTheirs, TypeOK, JobOK, Holds, LocalsOf
  <2>2. IsCommit(Tip(job[p].other)) /\ Tip(job[p].other) # None
    BY <1>3, <2>1, TipTyping DEF MergeReadTheirs
  <2>3. JobOK(j)
    BY <2>1, <2>2 DEF JobOK, Steps, Holds, LocalsOf
  <2>4. Goto(p, j)
    BY <1>3 DEF MergeReadTheirs
  <2> QED
    BY <1>3, <2>3, <2>4, GotoTyping DEF MergeReadTheirs, TypeOK
<1>4. CASE FastForward(p)
  <2> DEFINE j == [pc |-> "merge:ref", head |-> job[p].head, ours |-> job[p].ours,
                   theirs |-> job[p].theirs, commit |-> job[p].theirs]
  <2>1. JobOK(j)
    BY <1>4 DEF FastForward, TypeOK, JobOK, Steps, Holds, LocalsOf
  <2>2. Goto(p, j)
    BY <1>4 DEF FastForward
  <2> QED
    BY <1>4, <2>1, <2>2, GotoTyping DEF FastForward, TypeOK
<1>5. CASE MergeTrees(p)
  <2> DEFINE ours == job[p].ours
             theirs == job[p].theirs
             tree(base) == Tree(MergeEntries(base.tree.entries, ours.tree.entries, theirs.tree.entries))
             j(t) == [pc |-> "merge:tree", head |-> job[p].head, ours |-> ours,
                      theirs |-> theirs, object |-> t, found |-> {t} \cap store]
  <2>1. PICK base : Goto(p, j(tree(base)))
    BY <1>5, Zenon DEF MergeTrees
  <2>2. job[p].head \in Branch \cup {Detached} /\ IsCommit(ours) /\ IsCommit(theirs)
    BY <1>5 DEF MergeTrees, TypeOK, JobOK, Holds, LocalsOf
  <2>3. ours # None /\ theirs # None
    BY <1>5 DEF MergeTrees, TypeOK, JobOK, Holds, LocalsOf
  <2>4. IsTree(tree(base))
    <3>1. IsEntries(MergeEntries(base.tree.entries, ours.tree.entries, theirs.tree.entries))
      BY <2>2, EntriesClosed DEF IsCommit, IsTree
    <3> QED
      BY <3>1, ObjectFields DEF IsTree
  <2> HIDE DEF tree
  <2>5. JobOK(j(tree(base)))
    BY <2>2, <2>3, <2>4 DEF JobOK, Steps, Holds, LocalsOf
  <2> QED
    BY <1>5, <2>1, <2>5, GotoTyping DEF MergeTrees, TypeOK
<1>6. CASE MergeWriteTree(p)
  <2> DEFINE ours == job[p].ours
             theirs == job[p].theirs
             commit(s) == Commit(job[p].object, MergeParents(ours, theirs), s)
             j(c) == [pc |-> "merge:commit", head |-> job[p].head, ours |-> ours,
                      theirs |-> theirs, object |-> c, found |-> {c} \cap store]
  <2>1. PICK s \in Stamp : Goto(p, j(commit(s)))
    BY <1>6, Zenon DEF MergeWriteTree
  <2>2. /\ job[p].head \in Branch \cup {Detached} /\ IsCommit(ours) /\ IsCommit(theirs)
        /\ ours # None /\ theirs # None /\ IsTree(job[p].object)
    BY <1>6 DEF MergeWriteTree, TypeOK, JobOK, Holds, LocalsOf
  <2>3. Len(MergeParents(ours, theirs)) \in 0..2 /\ None \notin Range(MergeParents(ours, theirs))
    <3>1. MergeParents(ours, theirs) = <<ours, theirs>>
      BY DEF MergeParents
    <3>2. Range(<<ours, theirs>>) = {ours, theirs} /\ Len(<<ours, theirs>>) \in 0..2
      BY ParentRange
    <3>3. None \notin {ours, theirs}
      BY <2>2
    <3> QED
      BY <3>1, <3>2, <3>3, Zenon
  <2>4. IsCommit(commit(s)) /\ commit(s) # None
    BY <2>2, <2>3, ObjectFields DEF IsCommit
  <2> HIDE DEF commit
  <2>5. JobOK(j(commit(s)))
    BY <2>2, <2>4 DEF JobOK, Steps, Holds, LocalsOf
  <2>6. (\A o \in store' : IsObject(o)) /\ torn' \subseteq store'
    BY <1>6, <2>2, WriteTyping DEF MergeWriteTree, IsObject
  <2> QED
    BY <1>6, <2>1, <2>5, <2>6, GotoTyping DEF MergeWriteTree, TypeOK
<1>7. CASE MergeWriteCommit(p)
  <2> DEFINE j == [pc |-> "merge:ref", head |-> job[p].head, ours |-> job[p].ours,
                   theirs |-> job[p].theirs, commit |-> job[p].object]
  <2>1. IsCommit(job[p].object)
    BY <1>7 DEF MergeWriteCommit, TypeOK, JobOK
  <2>2. JobOK(j)
    BY <1>7, <2>1 DEF MergeWriteCommit, TypeOK, JobOK, Steps, Holds, LocalsOf
  <2>3. Goto(p, j)
    BY <1>7 DEF MergeWriteCommit
  <2>4. (\A o \in store' : IsObject(o)) /\ torn' \subseteq store'
    BY <1>7, <2>1, WriteTyping DEF MergeWriteCommit, IsObject
  <2> QED
    BY <1>7, <2>2, <2>3, <2>4, GotoTyping DEF MergeWriteCommit, TypeOK
<1>8. CASE MergeUpdateRef(p)
  <2>1. job[p].head \in Branch \cup {Detached}
    BY <1>8 DEF MergeUpdateRef, TypeOK, JobOK, Holds, LocalsOf
  <2>2. /\ refs' = [b \in Branch |-> refs'[b]]
        /\ \A b \in Branch : refs'[b] \notin {None, Torn} => IsCommit(refs'[b])
    BY <1>8, <2>1, RefTyping DEF MergeUpdateRef
  <2> QED
    BY <1>8, <2>2, GotoTyping, IdleTyping DEF MergeUpdateRef, TypeOK
<1> QED
  BY <1>1, <1>2, <1>3, <1>4, <1>5, <1>6, <1>7, <1>8 DEF MergeStep

LEMMA InitTyping == Init => TypeOK
<1> SUFFICES ASSUME Init PROVE TypeOK
  OBVIOUS
<1>1. \A p \in Proc : JobOK(job[p])
  BY IdleTyping DEF Init
<1>2. CASE FreshRepository
  BY <1>1, <1>2, EntriesClosed, NamesAssumption DEF Init, FreshRepository, TypeOK
<1>3. CASE ClonedRepository
  <2>1. PICK n \in Name, d \in Data, s \in Stamp, default \in Branch :
            LET tree == Tree([m \in {n} |-> Blob(d)])
                tip  == Commit(tree, <<>>, s)
            IN  /\ (IF default = Main THEN "clone" ELSE "clone_detached") \in Starts
                /\ store = {Chunk(d), Blob(d), tree, tip}
                /\ refs = [b \in Branch |-> IF b = default THEN tip ELSE None]
                /\ head = IF default = Main THEN Main ELSE Detached
    BY <1>3, Zenon DEF ClonedRepository
  <2> DEFINE tree == Tree([m \in {n} |-> Blob(d)])
             tip  == Commit(tree, <<>>, s)
  <2>2. IsTree(tree)
    <3>1. IsEntries([m \in {n} |-> Blob(d)])
      BY EntriesClosed
    <3>2. tree.type = "tree" /\ tree.entries = [m \in {n} |-> Blob(d)]
      BY ObjectFields
    <3> QED
      BY <3>1, <3>2, Zenon DEF IsTree
  <2>3. IsCommit(tip)
    <3> HIDE DEF tree
    <3>1. tip.type = "commit" /\ tip.tree = tree /\ tip.parents = <<>> /\ tip.stamp = s
      BY ObjectFields
    <3>2. Len(<<>>) \in 0..2 /\ None \notin Range(<<>>)
      BY ParentRange
    <3> QED
      BY <2>2, <3>1, <3>2, Zenon DEF IsCommit
  <2> HIDE DEF tree, tip
  <2>4. /\ store = {Chunk(d), Blob(d), tree, tip}
        /\ refs = [b \in Branch |-> IF b = default THEN tip ELSE None]
        /\ head \in Branch \cup {Detached}
    BY <2>1, NamesAssumption DEF tree, tip
  <2>5. \A o \in store : IsObject(o)
    BY <2>2, <2>3, <2>4 DEF IsObject
  <2> QED
    BY <1>1, <2>3, <2>4, <2>5, EntriesClosed DEF Init, TypeOK
<1> QED
  BY <1>2, <1>3 DEF Init

LEMMA StepTyping == TypeOK /\ [Next]_vars => TypeOK'
<1> SUFFICES ASSUME TypeOK, [Next]_vars PROVE TypeOK'
  OBVIOUS
<1>1. CASE UNCHANGED vars
  BY <1>1, Zenon DEF vars, TypeOK
<1>2. ASSUME NEW p \in Proc, Return(p) \/ Crash(p) PROVE TypeOK'
  BY <1>2, GotoTyping, IdleTyping DEF Return, Crash, TypeOK
<1> QED
  BY <1>1, <1>2, AddTyping, CommitTyping, BranchTyping, CheckoutTyping, MergeTyping DEF Next, CommandStep

(* The state of the repository and of every command in progress is always  *)
(* well typed: in particular a branch only ever names a commit with at most *)
(* two parents, each of which was read from a branch that existed.          *)
THEOREM Typing == Spec => []TypeOK
  BY InitTyping, StepTyping, PTL DEF Spec

---------------------------------------------------------------------------
(* History. *)

(* Storing more objects keeps everything that was stored, and a process     *)
(* that moves on does not change what the others hold.                      *)
LEMMA HeldStaysStored ==
    ASSUME TypeOK, HistoryInHandStored, NEW p \in Proc, NEW j, Goto(p, j),
           store \subseteq store', InHand(j) \subseteq store'
    PROVE  \A q \in Proc : InHand(job'[q]) \subseteq store'
<1> TAKE q \in Proc
<1>1. CASE q = p
  BY <1>1 DEF Goto, TypeOK
<1>2. CASE q # p
  <2>1. job'[q] = job[q]
    BY <1>2 DEF Goto, TypeOK
  <2>2. InHand(job[q]) \subseteq store
    BY DEF HistoryInHandStored
  <2> QED
    BY <2>1, <2>2
<1> QED
  BY <1>1, <1>2

(* One step of one process, in the terms that matter: what it adds to the   *)
(* store has its dependencies there, and what branches, staging and locals  *)
(* come to hold is stored.                                                  *)
LEMMA ClosedStep ==
    ASSUME TypeOK, HistoryInHandStored, NEW p \in Proc, NEW j, Goto(p, j), NEW written,
           store' = store \cup written,
           \A o \in written : o.type \in {"commit", "tree"} => Deps(o) \subseteq store',
           \A b \in Branch : refs'[b] \notin {None, Torn} => refs'[b] \in store',
           Range(staging') \subseteq store',
           InHand(j) \subseteq store'
    PROVE  HistoryInHandStored'
<1>1. \A o \in store' : o.type \in {"commit", "tree"} => Deps(o) \subseteq store'
  BY DEF HistoryInHandStored, HistoryStored
<1>2. \A q \in Proc : InHand(job'[q]) \subseteq store'
  BY HeldStaysStored
<1> QED
  BY <1>1, <1>2 DEF HistoryInHandStored, HistoryStored

(* A step that only reads: what the process comes to hold is stored. *)
LEMMA ReadClosed ==
    ASSUME TypeOK, HistoryInHandStored, NEW p \in Proc, NEW j, Goto(p, j),
           UNCHANGED <<store, refs, staging>>, InHand(j) \subseteq store
    PROVE  HistoryInHandStored'
<1>1. HistoryStored'
  BY Zenon DEF HistoryInHandStored, HistoryStored
<1>2. \A q \in Proc : InHand(job'[q]) \subseteq store'
  BY HeldStaysStored
<1> QED
  BY <1>1, <1>2 DEF HistoryInHandStored

LEMMA IdleHolds == InHand(Idle) = {}
  BY DEF InHand, Idle, Holds, LocalsOf

(* Whatever the write of an object does, its file is there afterwards; and  *)
(* what it names was there before.                                          *)
LEMMA WriteStores ==
    ASSUME HistoryInHandStored, NEW p \in Proc, WriteObject(p), Holds(job[p], "found")
    PROVE  store' = store \cup {job[p].object}
  BY DEF WriteObject, HistoryInHandStored, InHand

LEMMA WriteClosed ==
    ASSUME TypeOK, HistoryInHandStored, NEW p \in Proc, WriteObject(p), Holds(job[p], "found"),
           job[p].object.type \in {"commit", "tree"} => Deps(job[p].object) \subseteq store,
           NEW j, Goto(p, j), UNCHANGED <<refs, staging>>,
           InHand(j) \subseteq store \cup {job[p].object}
    PROVE  HistoryInHandStored'
<1>1. store' = store \cup {job[p].object}
  BY WriteStores
<1> QED
  BY <1>1, ClosedStep DEF HistoryInHandStored, HistoryStored

(* What the writers of a branch leave in its file is stored, or torn. *)
LEMMA RefStored ==
    ASSUME TypeOK, HistoryInHandStored, NEW p \in Proc, NEW b, WriteRef(p, b)
    PROVE  \A x \in Branch : refs'[x] \notin {None, Torn} => refs'[x] \in store
<1>1. ASSUME NEW q \in RefWriters(b) PROVE job[q].commit \in store
  <2>1. q \in Proc /\ job[q].pc \in {"branch:write", "commit:ref", "merge:ref"}
    BY DEF RefWriters, At
  <2>2. Holds(job[q], "commit")
    BY <2>1 DEF Holds, LocalsOf
  <2> QED
    BY <2>1, <2>2 DEF HistoryInHandStored, InHand
<1>2. PICK c : refs' = RefsWith(b, c) /\ (c = Torn \/ c \in store)
  BY <1>1 DEF WriteRef
<1> QED
  BY <1>2 DEF RefsWith, HistoryInHandStored, HistoryStored, TypeOK

LEMMA AddHistory ==
    ASSUME TypeOK, HistoryInHandStored, NEW p \in Proc, AddStep(p)
    PROVE  HistoryInHandStored'
<1> USE DEF At
<1>1. ASSUME NEW n \in Name, NEW d \in Data, AddRead(p, n, d) PROVE HistoryInHandStored'
  <2>1. InHand(AfterRead(n, d)) \subseteq store
    BY DEF InHand, AfterRead, Holds, LocalsOf
  <2> QED
    BY <1>1, <2>1, ClosedStep DEF AddRead, HistoryInHandStored, HistoryStored
<1>2. CASE AddChunks(p)
  <2> DEFINE j == AfterChunks(job[p].name, job[p].data)
  <2>1. InHand(j) \subseteq store
    BY DEF InHand, AfterChunks, Holds, LocalsOf
  <2>2. Goto(p, j) /\ UNCHANGED <<refs, staging>>
    BY <1>2 DEF AddChunks
  <2> HIDE DEF j
  <2>3. CASE WriteObject(p)
    <3>1. Holds(job[p], "found") /\ job[p].object = Chunk(job[p].data)
      BY <1>2 DEF AddChunks, TypeOK, JobOK, Holds, LocalsOf
    <3>2. job[p].object.type = "chunk"
      BY <3>1, ObjectFields
    <3> QED
      BY <2>1, <2>2, <2>3, <3>1, <3>2, WriteClosed
  <2>4. CASE UNCHANGED <<store, torn>>
    BY <2>1, <2>2, <2>4, ClosedStep DEF HistoryInHandStored, HistoryStored
  <2> QED
    BY <1>2, <2>3, <2>4 DEF AddChunks
<1>3. CASE AddBlob(p)
  <2> DEFINE j == [pc |-> "add:stage", name |-> job[p].name, blob |-> job[p].object]
  <2>1. InHand(j) = {job[p].object}
    BY DEF InHand, Holds, LocalsOf
  <2>2. Goto(p, j) /\ UNCHANGED <<refs, staging>> /\ WriteObject(p)
    BY <1>3 DEF AddBlob
  <2>3. Holds(job[p], "found") /\ job[p].object.type = "blob"
    <3>1. Holds(job[p], "found") /\ job[p].object \in {Blob(d) : d \in Data}
      BY <1>3 DEF AddBlob, TypeOK, JobOK, Holds, LocalsOf
    <3> QED
      BY <3>1, ObjectFields
  <2> HIDE DEF j
  <2> QED
    BY <2>1, <2>2, <2>3, WriteClosed
<1>4. CASE AddStage(p)
  <2>1. job[p].blob \in store
    BY <1>4 DEF AddStage, HistoryInHandStored, InHand, Holds, LocalsOf
  <2> DEFINE f == [n \in {job[p].name} |-> job[p].blob]
  <2>2. Range(f) \subseteq store
    BY <2>1 DEF Range
  <2> HIDE DEF f
  <2>3. Range(Overlay(staging, f)) \subseteq store
    BY <2>2, OverlayRange DEF HistoryInHandStored, HistoryStored
  <2>4. Goto(p, Idle) /\ staging' = Overlay(staging, f) /\ UNCHANGED <<store, refs>>
    BY <1>4 DEF AddStage, f
  <2> QED
    BY <2>3, <2>4, IdleHolds, ClosedStep DEF HistoryInHandStored, HistoryStored
<1> QED
  BY <1>1, <1>2, <1>3, <1>4 DEF AddStep

(* Both reads of a branch return stored commits, with stored trees. *)
LEMMA TipStored ==
    ASSUME TypeOK, HistoryInHandStored, NEW h \in Branch \cup {Detached}
    PROVE  /\ Tip(h) # None => Tip(h) \in store
           /\ Range(BaseEntries(h)) \subseteq store
           /\ Range(ParentsOf(h)) \subseteq store
<1>1. Tip(h) # None => Tip(h) \in store
  BY TipTyping DEF Tip, HistoryInHandStored, HistoryStored
<1>2. Range(BaseEntries(h)) \subseteq store
  <2>1. CASE Tip(h) # None /\ {Tip(h), Tip(h).tree} \subseteq Readable
    <3>1. IsTree(Tip(h).tree)
      BY <2>1, TipTyping DEF IsCommit
    <3>2. Deps(Tip(h).tree) = Range(Tip(h).tree.entries)
      BY <3>1 DEF IsTree, Deps
    <3>3. Deps(Tip(h).tree) \subseteq store
      BY <2>1, <3>1 DEF HistoryInHandStored, HistoryStored, IsTree, Readable
    <3> QED
      BY <2>1, <3>2, <3>3 DEF BaseEntries
  <2>2. CASE ~(Tip(h) # None /\ {Tip(h), Tip(h).tree} \subseteq Readable)
    <3>1. BaseEntries(h) = NoEntries
      BY <2>2 DEF BaseEntries
    <3> QED
      BY <3>1 DEF NoEntries, Range
  <2> QED
    BY <2>1, <2>2
<1>3. Range(ParentsOf(h)) \subseteq store
  <2>1. CASE Tip(h) = None
    <3>1. ParentsOf(h) = <<>>
      BY <2>1 DEF ParentsOf
    <3>2. Range(<<>>) = {}
      BY ParentRange
    <3> QED
      BY <3>1, <3>2
  <2>2. CASE Tip(h) # None
    <3>1. ParentsOf(h) = <<Tip(h)>>
      BY <2>2 DEF ParentsOf
    <3>2. Range(<<Tip(h)>>) = {Tip(h)}
      BY ParentRange
    <3> QED
      BY <1>1, <2>2, <3>1, <3>2
  <2> QED
    BY <2>1, <2>2
<1> QED
  BY <1>1, <1>2, <1>3

LEMMA CommitHistory ==
    ASSUME TypeOK, HistoryInHandStored, NEW p \in Proc, CommitStep(p)
    PROVE  HistoryInHandStored'
<1> USE DEF At
<1>1. CASE CommitReadStaged(p)
  <2> DEFINE j == [pc |-> "commit:head", staged |-> staging]
  <2>1. InHand(j) = Range(staging)
    BY DEF InHand, Holds, LocalsOf
  <2>2. Goto(p, j) /\ UNCHANGED <<store, refs, staging>>
    BY <1>1 DEF CommitReadStaged
  <2> HIDE DEF j
  <2> QED
    BY <2>1, <2>2, ReadClosed DEF HistoryInHandStored, HistoryStored
<1>2. CASE CommitReadHead(p)
  <2> DEFINE j == [pc |-> "commit:base", staged |-> job[p].staged, head |-> head]
  <2>1. InHand(j) \subseteq InHand(job[p])
    BY <1>2 DEF CommitReadHead, InHand, Holds, LocalsOf
  <2>2. Goto(p, j) /\ UNCHANGED <<store, refs, staging>>
    BY <1>2 DEF CommitReadHead
  <2> HIDE DEF j
  <2> QED
    BY <2>1, <2>2, ReadClosed DEF HistoryInHandStored, HistoryStored
<1>3. CASE CommitReadBase(p)
  <2> DEFINE f == Overlay(BaseEntries(job[p].head), job[p].staged)
             tree == Tree(f)
             j == [pc |-> "commit:tree", staged |-> job[p].staged, head |-> job[p].head,
                   object |-> tree, found |-> {tree} \cap store]
  <2>1. job[p].head \in Branch \cup {Detached} /\ Range(job[p].staged) \subseteq store
    BY <1>3 DEF CommitReadBase, TypeOK, JobOK, Holds, LocalsOf, HistoryInHandStored, InHand
  <2>2. Range(f) \subseteq store
    BY <2>1, TipStored, OverlayRange
  <2>3. Goto(p, j) /\ UNCHANGED <<store, refs, staging>>
    BY <1>3 DEF CommitReadBase
  <2> HIDE DEF f
  <2>4. Deps(tree) \subseteq store
    BY <2>2, ObjectDeps
  <2> HIDE DEF tree
  <2>5. InHand(j) \subseteq store
    <3>1. InHand(j) = Deps(tree) \cup ({tree} \cap store) \cup Range(job[p].staged)
      BY DEF InHand, Holds, LocalsOf
    <3> QED
      BY <2>1, <2>4, <3>1
  <2> HIDE DEF j
  <2> QED
    BY <2>3, <2>5, ReadClosed
<1>4. CASE CommitWriteTree(p)
  <2> DEFINE j == [pc |-> "commit:parent", staged |-> job[p].staged,
                   head |-> job[p].head, tree |-> job[p].object]
  <2>1. InHand(j) = {job[p].object} \cup Range(job[p].staged)
    BY DEF InHand, Holds, LocalsOf
  <2>2. Goto(p, j) /\ UNCHANGED <<refs, staging>> /\ WriteObject(p)
    BY <1>4 DEF CommitWriteTree
  <2>3. /\ Holds(job[p], "found")
        /\ Deps(job[p].object) \subseteq store
        /\ Range(job[p].staged) \subseteq store
    BY <1>4 DEF CommitWriteTree, HistoryInHandStored, InHand, Holds, LocalsOf
  <2> HIDE DEF j
  <2> QED
    BY <2>1, <2>2, <2>3, WriteClosed
<1>5. CASE CommitReadParent(p)
  <2>1. PICK s \in Stamp :
            LET commit == Commit(job[p].tree, ParentsOf(job[p].head), s)
            IN  Goto(p, [pc |-> "commit:commit", staged |-> job[p].staged, head |-> job[p].head,
                         object |-> commit, found |-> {commit} \cap store])
    BY <1>5 DEF CommitReadParent
  <2> DEFINE commit == Commit(job[p].tree, ParentsOf(job[p].head), s)
             j == [pc |-> "commit:commit", staged |-> job[p].staged, head |-> job[p].head,
                   object |-> commit, found |-> {commit} \cap store]
  <2>2. /\ job[p].head \in Branch \cup {Detached}
        /\ Range(job[p].staged) \subseteq store
        /\ job[p].tree \in store
    BY <1>5 DEF CommitReadParent, TypeOK, JobOK, Holds, LocalsOf, HistoryInHandStored, InHand
  <2>3. Deps(commit) \subseteq store
    BY <2>2, TipStored, ObjectDeps
  <2>4. Goto(p, j) /\ UNCHANGED <<store, refs, staging>>
    BY <1>5, <2>1 DEF CommitReadParent
  <2> HIDE DEF commit
  <2>5. InHand(j) \subseteq store
    <3>1. InHand(j) = Deps(commit) \cup ({commit} \cap store) \cup Range(job[p].staged)
      BY DEF InHand, Holds, LocalsOf
    <3> QED
      BY <2>2, <2>3, <3>1
  <2> HIDE DEF j
  <2> QED
    BY <2>4, <2>5, ReadClosed
<1>6. CASE CommitWriteCommit(p)
  <2> DEFINE j == [pc |-> "commit:ref", staged |-> job[p].staged,
                   head |-> job[p].head, commit |-> job[p].object]
  <2>1. InHand(j) = {job[p].object} \cup Range(job[p].staged)
    BY DEF InHand, Holds, LocalsOf
  <2>2. Goto(p, j) /\ UNCHANGED <<refs, staging>> /\ WriteObject(p)
    BY <1>6 DEF CommitWriteCommit
  <2>3. /\ Holds(job[p], "found")
        /\ Deps(job[p].object) \subseteq store
        /\ Range(job[p].staged) \subseteq store
    BY <1>6 DEF CommitWriteCommit, HistoryInHandStored, InHand, Holds, LocalsOf
  <2> HIDE DEF j
  <2> QED
    BY <2>1, <2>2, <2>3, WriteClosed
<1>7. CASE CommitUpdateRef(p)
  <2> DEFINE j == [pc |-> "commit:clear"]
  <2>1. InHand(j) = {}
    BY DEF InHand, Holds, LocalsOf
  <2>2. \A b \in Branch : refs'[b] \notin {None, Torn} => refs'[b] \in store
    BY <1>7, RefStored DEF CommitUpdateRef, HistoryInHandStored, HistoryStored
  <2>3. Goto(p, j) /\ UNCHANGED <<store, staging>>
    BY <1>7 DEF CommitUpdateRef
  <2> HIDE DEF j
  <2> QED
    BY <2>1, <2>2, <2>3, ClosedStep DEF HistoryInHandStored, HistoryStored
<1>8. CASE CommitClear(p)
  <2>1. Range(NoEntries) = {}
    BY DEF NoEntries, Range
  <2> QED
    BY <1>8, <2>1, IdleHolds, ClosedStep DEF CommitClear, HistoryInHandStored, HistoryStored
<1> QED
  BY <1>1, <1>2, <1>3, <1>4, <1>5, <1>6, <1>7, <1>8 DEF CommitStep

LEMMA BranchHistory ==
    ASSUME TypeOK, HistoryInHandStored, NEW p \in Proc, BranchStep(p)
    PROVE  HistoryInHandStored'
<1> USE DEF At
<1>1. ASSUME NEW b \in Branch, BranchReadHead(p, b) PROVE HistoryInHandStored'
  <2> DEFINE j == [pc |-> "branch:tip", target |-> b, head |-> head]
  <2>1. InHand(j) = {}
    BY DEF InHand, Holds, LocalsOf
  <2>2. Goto(p, j) /\ UNCHANGED <<store, refs, staging>>
    BY <1>1 DEF BranchReadHead
  <2> HIDE DEF j
  <2> QED
    BY <2>1, <2>2, ReadClosed DEF HistoryInHandStored, HistoryStored
<1>2. CASE BranchReadTip(p)
  <2> DEFINE j == [pc |-> "branch:write", target |-> job[p].target, commit |-> Tip(job[p].head)]
  <2>1. InHand(j) = {Tip(job[p].head)}
    BY DEF InHand, Holds, LocalsOf
  <2>2. job[p].head \in Branch \cup {Detached}
    BY <1>2 DEF BranchReadTip, TypeOK, JobOK, Holds, LocalsOf
  <2>3. Tip(job[p].head) \in store
    BY <1>2, <2>2, TipStored DEF BranchReadTip
  <2>4. Goto(p, j) /\ UNCHANGED <<store, refs, staging>>
    BY <1>2 DEF BranchReadTip
  <2> HIDE DEF j
  <2> QED
    BY <2>1, <2>3, <2>4, ReadClosed
<1>3. CASE BranchWrite(p)
  <2>1. \A b \in Branch : refs'[b] \notin {None, Torn} => refs'[b] \in store
    BY <1>3, RefStored DEF BranchWrite
  <2> QED
    BY <1>3, <2>1, IdleHolds, ClosedStep DEF BranchWrite, HistoryInHandStored, HistoryStored
<1> QED
  BY <1>1, <1>2, <1>3 DEF BranchStep

LEMMA MergeHistory ==
    ASSUME TypeOK, HistoryInHandStored, NEW p \in Proc, MergeStep(p)
    PROVE  HistoryInHandStored'
<1> USE DEF At
<1>1. ASSUME NEW b \in Branch, MergeReadHead(p, b) PROVE HistoryInHandStored'
  <2> DEFINE j == [pc |-> "merge:ours", other |-> b, head |-> head]
  <2>1. InHand(j) = {}
    BY DEF InHand, Holds, LocalsOf
  <2>2. Goto(p, j) /\ UNCHANGED <<store, refs, staging>>
    BY <1>1 DEF MergeReadHead
  <2> HIDE DEF j
  <2> QED
    BY <2>1, <2>2, ReadClosed DEF HistoryInHandStored, HistoryStored
<1>2. CASE MergeReadOurs(p)
  <2> DEFINE j == [pc |-> "merge:theirs", other |-> job[p].other,
                   head |-> job[p].head, ours |-> Tip(job[p].head)]
  <2>1. InHand(j) = {Tip(job[p].head)}
    BY DEF InHand, Holds, LocalsOf
  <2>2. job[p].head \in Branch \cup {Detached}
    BY <1>2 DEF MergeReadOurs, TypeOK, JobOK, Holds, LocalsOf
  <2>3. Tip(job[p].head) \in store
    BY <1>2, <2>2, TipStored DEF MergeReadOurs
  <2>4. Goto(p, j) /\ UNCHANGED <<store, refs, staging>>
    BY <1>2 DEF MergeReadOurs
  <2> HIDE DEF j
  <2> QED
    BY <2>1, <2>3, <2>4, ReadClosed
<1>3. CASE MergeReadTheirs(p)
  <2> DEFINE j == [pc |-> "merge:base", head |-> job[p].head,
                   ours |-> job[p].ours, theirs |-> Tip(job[p].other)]
  <2>1. InHand(j) = {job[p].ours, Tip(job[p].other)}
    BY DEF InHand, Holds, LocalsOf
  <2>2. job[p].other \in Branch \cup {Detached} /\ job[p].ours \in store
    BY <1>3 DEF MergeReadTheirs, TypeOK, JobOK, Holds, LocalsOf, HistoryInHandStored, InHand
  <2>3. Tip(job[p].other) \in store
    BY <1>3, <2>2, TipStored DEF MergeReadTheirs
  <2>4. Goto(p, j) /\ UNCHANGED <<store, refs, staging>>
    BY <1>3 DEF MergeReadTheirs
  <2> HIDE DEF j
  <2>5. InHand(j) \subseteq store
    BY <2>1, <2>2, <2>3
  <2> QED
    BY <2>4, <2>5, ReadClosed
<1>4. CASE FastForward(p)
  <2> DEFINE j == [pc |-> "merge:ref", head |-> job[p].head, ours |-> job[p].ours,
                   theirs |-> job[p].theirs, commit |-> job[p].theirs]
  <2>1. InHand(j) \subseteq InHand(job[p])
    BY <1>4 DEF FastForward, InHand, Holds, LocalsOf
  <2>2. Goto(p, j) /\ UNCHANGED <<store, refs, staging>>
    BY <1>4 DEF FastForward
  <2> HIDE DEF j
  <2> QED
    BY <2>1, <2>2, ReadClosed DEF HistoryInHandStored
<1>5. CASE MergeTrees(p)
  <2> DEFINE ours == job[p].ours
             theirs == job[p].theirs
             f(base) == MergeEntries(base.tree.entries, ours.tree.entries, theirs.tree.entries)
             tree(base) == Tree(f(base))
             j(t) == [pc |-> "merge:tree", head |-> job[p].head, ours |-> ours,
                      theirs |-> theirs, object |-> t, found |-> {t} \cap store]
  <2>1. PICK base : Goto(p, j(tree(base)))
    BY <1>5, Zenon DEF MergeTrees
  <2>2. UNCHANGED <<store, refs, staging>>
    BY <1>5 DEF MergeTrees
  <2>3. IsCommit(ours) /\ IsCommit(theirs) /\ {ours, theirs} \subseteq store
    BY <1>5 DEF MergeTrees, TypeOK, JobOK, Holds, LocalsOf, HistoryInHandStored, InHand
  <2>4. ASSUME NEW c \in {ours, theirs}
        PROVE  /\ c.tree.entries = [n \in DOMAIN c.tree.entries |-> c.tree.entries[n]]
               /\ Range(c.tree.entries) \subseteq store
    <3>1. IsCommit(c) /\ c \in store
      BY <2>3
    <3>2. c.tree \in store /\ IsTree(c.tree)
      BY <3>1 DEF IsCommit, Deps, HistoryInHandStored, HistoryStored
    <3> QED
      BY <3>2 DEF IsTree, IsEntries, Deps, HistoryInHandStored, HistoryStored
  <2>5. Range(f(base)) \subseteq store
    BY <2>4, MergeRange
  <2> HIDE DEF f
  <2>6. Deps(tree(base)) \subseteq store
    BY <2>5, ObjectDeps
  <2> HIDE DEF tree
  <2> DEFINE moved == j(tree(base))
  <2>7. InHand(moved) \subseteq store
    <3>1. InHand(moved) = Deps(tree(base)) \cup ({tree(base)} \cap store)
                          \cup {ours, theirs}
      BY DEF InHand, Holds, LocalsOf
    <3> QED
      BY <2>3, <2>6, <3>1
  <2>8. Goto(p, moved)
    BY <2>1
  <2> HIDE DEF moved
  <2> QED
    BY <2>2, <2>7, <2>8, ReadClosed
<1>6. CASE MergeWriteTree(p)
  <2> DEFINE ours == job[p].ours
             theirs == job[p].theirs
             commit(s) == Commit(job[p].object, MergeParents(ours, theirs), s)
             j(c) == [pc |-> "merge:commit", head |-> job[p].head, ours |-> ours,
                      theirs |-> theirs, object |-> c, found |-> {c} \cap store]
  <2>1. PICK s \in Stamp : Goto(p, j(commit(s)))
    BY <1>6, Zenon DEF MergeWriteTree
  <2>2. UNCHANGED <<refs, staging>> /\ WriteObject(p)
    BY <1>6 DEF MergeWriteTree
  <2>3. /\ Holds(job[p], "found") /\ {ours, theirs} \subseteq store
        /\ Deps(job[p].object) \subseteq store
    BY <1>6 DEF MergeWriteTree, HistoryInHandStored, InHand, Holds, LocalsOf
  <2>4. Deps(commit(s)) = {job[p].object, ours, theirs}
    <3>1. Range(MergeParents(ours, theirs)) = {ours, theirs}
      BY ParentRange DEF MergeParents
    <3> QED
      BY <3>1, ObjectDeps
  <2> HIDE DEF commit
  <2> DEFINE moved == j(commit(s))
  <2>5. InHand(moved) \subseteq store \cup {job[p].object}
    <3>1. InHand(moved) = Deps(commit(s)) \cup ({commit(s)} \cap store)
                          \cup {ours, theirs}
      BY DEF InHand, Holds, LocalsOf
    <3> QED
      BY <2>3, <2>4, <3>1
  <2>6. Goto(p, moved)
    BY <2>1
  <2> HIDE DEF moved
  <2> QED
    BY <2>2, <2>3, <2>5, <2>6, WriteClosed
<1>7. CASE MergeWriteCommit(p)
  <2> DEFINE j == [pc |-> "merge:ref", head |-> job[p].head, ours |-> job[p].ours,
                   theirs |-> job[p].theirs, commit |-> job[p].object]
  <2>1. InHand(j) = {job[p].object, job[p].ours, job[p].theirs}
    BY DEF InHand, Holds, LocalsOf
  <2>2. Goto(p, j) /\ UNCHANGED <<refs, staging>> /\ WriteObject(p)
    BY <1>7 DEF MergeWriteCommit
  <2>3. /\ Holds(job[p], "found") /\ {job[p].ours, job[p].theirs} \subseteq store
        /\ Deps(job[p].object) \subseteq store
    BY <1>7 DEF MergeWriteCommit, HistoryInHandStored, InHand, Holds, LocalsOf
  <2> HIDE DEF j
  <2> QED
    BY <2>1, <2>2, <2>3, WriteClosed
<1>8. CASE MergeUpdateRef(p)
  <2>1. \A b \in Branch : refs'[b] \notin {None, Torn} => refs'[b] \in store
    BY <1>8, RefStored DEF MergeUpdateRef
  <2> QED
    BY <1>8, <2>1, IdleHolds, ClosedStep DEF MergeUpdateRef, HistoryInHandStored, HistoryStored
<1> QED
  BY <1>1, <1>2, <1>3, <1>4, <1>5, <1>6, <1>7, <1>8 DEF MergeStep

LEMMA CheckoutHistory ==
    ASSUME TypeOK, HistoryInHandStored, NEW p \in Proc, CheckoutStep(p)
    PROVE  HistoryInHandStored'
<1>1. PICK j : Goto(p, j) /\ j.pc \in {"checkout:head", "idle"} /\ UNCHANGED <<store, refs, staging>>
  BY DEF CheckoutStep, CheckoutReadTip, CheckoutWriteHead, Idle
<1>2. InHand(j) = {}
  BY <1>1 DEF InHand, Holds, LocalsOf
<1> QED
  BY <1>1, <1>2, ReadClosed

LEMMA InitHistory == Init => HistoryInHandStored
<1> SUFFICES ASSUME Init PROVE HistoryInHandStored
  OBVIOUS
<1>1. \A p \in Proc : InHand(job[p]) = {}
  BY IdleHolds DEF Init
<1>2. Range(staging) = {}
  BY DEF Init, NoEntries, Range
<1>3. CASE FreshRepository
  BY <1>1, <1>2, <1>3 DEF FreshRepository, HistoryInHandStored, HistoryStored
<1>4. CASE ClonedRepository
  <2>1. PICK n \in Name, d \in Data, s \in Stamp, default \in Branch :
            LET tree == Tree([m \in {n} |-> Blob(d)])
                tip  == Commit(tree, <<>>, s)
            IN  /\ (IF default = Main THEN "clone" ELSE "clone_detached") \in Starts
                /\ store = {Chunk(d), Blob(d), tree, tip}
                /\ refs = [b \in Branch |-> IF b = default THEN tip ELSE None]
                /\ head = IF default = Main THEN Main ELSE Detached
    BY <1>4, Zenon DEF ClonedRepository
  <2> DEFINE f == [m \in {n} |-> Blob(d)]
             tree == Tree(f)
             tip  == Commit(tree, <<>>, s)
  <2>2. Range(f) = {Blob(d)}
    BY DEF Range
  <2> HIDE DEF f
  <2>3. Deps(tree) = {Blob(d)}
    BY <2>2, ObjectDeps
  <2> HIDE DEF tree
  <2>4. Range(<<>>) = {}
    BY ParentRange
  <2>5. Deps(tip) = {tree}
    BY <2>4, ObjectDeps
  <2> HIDE DEF tip
  <2>6. Chunk(d).type = "chunk" /\ Blob(d).type = "blob"
    BY ObjectFields
  <2>7. store = {Chunk(d), Blob(d), tree, tip} /\ \A b \in Branch : refs[b] \in {tip, None}
    BY <2>1 DEF tip, tree, f
  <2> QED
    BY <1>1, <1>2, <2>3, <2>5, <2>6, <2>7 DEF HistoryInHandStored, HistoryStored
<1> QED
  BY <1>3, <1>4 DEF Init

LEMMA StepHistory == TypeOK /\ HistoryInHandStored /\ [Next]_vars => HistoryInHandStored'
<1> SUFFICES ASSUME TypeOK, HistoryInHandStored, [Next]_vars PROVE HistoryInHandStored'
  OBVIOUS
<1>1. CASE UNCHANGED vars
  BY <1>1, Zenon DEF vars, HistoryInHandStored, HistoryStored
<1>2. ASSUME NEW p \in Proc, Return(p) \/ Crash(p) PROVE HistoryInHandStored'
  BY <1>2, IdleHolds, ReadClosed DEF Return, Crash
<1> QED
  BY <1>1, <1>2, AddHistory, CommitHistory, BranchHistory, CheckoutHistory, MergeHistory DEF Next, CommandStep

(* Whatever commands run at once and wherever they stop, everything a      *)
(* branch, a stored commit, a stored tree, the staging area or a running   *)
(* command names is stored: objects are written before what refers to them. *)
THEOREM HistoryIsStored == Spec => []HistoryInHandStored
  BY Typing, InitHistory, StepHistory, PTL DEF Spec

---------------------------------------------------------------------------
(* HEAD. *)

(* A step that leaves every HEAD a process has read where it was, or takes  *)
(* it from HEAD, keeps them resolved as long as no branch dies and HEAD     *)
(* itself names one that is alive.                                          *)
LEMMA ResolvedStep ==
    ASSUME TypeOK, HeadsResolve, NEW p \in Proc, NEW j, Goto(p, j),
           \A b \in Branch : refs[b] # None => refs'[b] # None,
           Born' => Born \/ refs'[Main] # None,
           head' \in Branch \cup {Detached}, Resolves(head'),
           Holds(j, "head") => j.head \in {head, job[p].head},
           Holds(j, "head") => j.head = head \/ Holds(job[p], "head"),
           j.pc = "branch:write" => Born,
           j.pc = "checkout:head" => j.target \in Branch /\ refs[j.target] # None
    PROVE  HeadsResolve'
<1> DEFINE NowResolves(h) == h = Detached \/ refs'[h] # None \/ (h = Main /\ ~Born')
<1>1. ASSUME NEW h \in Branch \cup {Detached}, Resolves(h) PROVE NowResolves(h)
  BY <1>1 DEF Resolves
<1>2. NowResolves(head) /\ NowResolves(head')
  BY <1>1 DEF HeadsResolve, TypeOK
<1>3. ASSUME NEW q \in Proc, Holds(job'[q], "head") PROVE NowResolves(job'[q].head)
  <2>1. ASSUME NEW r \in Proc, Holds(job[r], "head") PROVE NowResolves(job[r].head)
    BY <1>1, <2>1 DEF HeadsResolve, TypeOK, JobOK
  <2>2. CASE q = p
    <3>1. job'[q] = j
      BY <2>2 DEF Goto, TypeOK
    <3> QED
      BY <1>2, <1>3, <2>1, <3>1
  <2>3. CASE q # p
    <3>1. job'[q] = job[q]
      BY <2>3 DEF Goto, TypeOK
    <3> QED
      BY <1>3, <2>1, <3>1
  <2> QED
    BY <2>2, <2>3
<1>4. ASSUME NEW q \in Proc, job'[q].pc = "branch:write" PROVE Born'
  <2>1. Born => Born'
    BY DEF Born
  <2> QED
    BY <1>4, <2>1 DEF Goto, TypeOK, HeadsResolve, At
<1>5. ASSUME NEW q \in Proc, job'[q].pc = "checkout:head" PROVE refs'[job'[q].target] # None
  <2>1. CASE q = p
    BY <1>5, <2>1 DEF Goto, TypeOK
  <2>2. CASE q # p
    <3>1. job'[q] = job[q]
      BY <2>2 DEF Goto, TypeOK
    <3>2. job[q].target \in Branch
      BY <1>5, <3>1 DEF TypeOK, JobOK, Holds, LocalsOf
    <3> QED
      BY <1>5, <3>1, <3>2 DEF HeadsResolve, At
  <2> QED
    BY <2>1, <2>2
<1> QED
  BY <1>2, <1>3, <1>4, <1>5 DEF HeadsResolve, Resolves, At

(* A step that writes neither HEAD nor a branch. *)
LEMMA ResolvedRead ==
    ASSUME TypeOK, HeadsResolve, NEW p \in Proc, NEW j, Goto(p, j), UNCHANGED <<refs, head>>,
           Holds(j, "head") => j.head \in {head, job[p].head},
           Holds(j, "head") => j.head = head \/ Holds(job[p], "head"),
           j.pc = "branch:write" => Born,
           j.pc = "checkout:head" => j.target \in Branch /\ refs[j.target] # None
    PROVE  HeadsResolve'
<1>1. Born' => Born
  BY DEF Born
<1>2. head' \in Branch \cup {Detached} /\ Resolves(head')
  BY DEF TypeOK, HeadsResolve
<1> QED
  BY <1>1, <1>2, ResolvedStep

(* Writing a branch a process may write to: one that is alive, Main, or any *)
(* once a branch is alive.  Whatever its writers leave in it, it has a file. *)
LEMMA WrittenRef ==
    ASSUME TypeOK, NEW p \in Proc, NEW b \in Branch, WriteRef(p, b), Resolves(b) \/ Born
    PROVE  /\ \A x \in Branch : refs[x] # None => refs'[x] # None
           /\ Born' => Born \/ refs'[Main] # None
<1>1. Torn # None
  BY DEF Torn, None
<1>2. PICK c : refs' = RefsWith(b, c) /\ c # None
  BY <1>1, WritersTyping DEF WriteRef
<1> QED
  BY <1>2, NamesAssumption DEF TypeOK, RefsWith, Resolves, Born

LEMMA CheckoutResolves ==
    ASSUME TypeOK, HeadsResolve, NEW p \in Proc, CheckoutStep(p)
    PROVE  HeadsResolve'
<1> USE DEF At
<1>1. ASSUME NEW b \in Branch, CheckoutReadTip(p, b) PROVE HeadsResolve'
  <2> DEFINE j == [pc |-> "checkout:head", target |-> b]
  <2>1. Goto(p, j) /\ UNCHANGED <<refs, head>>
    BY <1>1 DEF CheckoutReadTip
  <2>2. refs[b] # None
    BY <1>1, NamesAssumption DEF CheckoutReadTip, CanCheckout, Tip
  <2>3. ~Holds(j, "head")
    BY DEF Holds, LocalsOf
  <2> QED
    BY <2>1, <2>2, <2>3, ResolvedRead
<1>2. CASE CheckoutWriteHead(p)
  <2>1. \A q \in HeadWriters : job[q].target \in Branch /\ refs[job[q].target] # None
    BY DEF HeadWriters, TypeOK, JobOK, Holds, LocalsOf, HeadsResolve
  <2>2. head' \in Branch \cup {Detached} /\ Resolves(head')
    BY <1>2, <2>1 DEF CheckoutWriteHead, Resolves
  <2>3. Goto(p, Idle) /\ refs' = refs
    BY <1>2 DEF CheckoutWriteHead
  <2>4. Born' => Born
    BY <2>3 DEF Born
  <2> QED
    BY <2>2, <2>3, <2>4, ResolvedStep DEF Idle, Holds, LocalsOf
<1> QED
  BY <1>1, <1>2 DEF CheckoutStep

(* What flux add, flux commit and flux merge do before they write a branch. *)
LEMMA OthersResolve ==
    ASSUME TypeOK, HeadsResolve, NEW p \in Proc, AddStep(p) \/ CommitStep(p) \/ MergeStep(p),
           ~CommitUpdateRef(p), ~MergeUpdateRef(p)
    PROVE  HeadsResolve'
<1> USE DEF At, Holds, LocalsOf
<1> DEFINE Moves(j) == /\ Goto(p, j)
                       /\ j.pc \notin {"branch:write", "checkout:head"}
                       /\ Holds(j, "head") => j.head = head \/ (j.head = job[p].head /\ Holds(job[p], "head"))
<1>1. UNCHANGED <<refs, head>> /\ \E j : Moves(j)
  <2>1. CASE AddStep(p)
    <3>1. ASSUME NEW n \in Name, NEW d \in Data, AddRead(p, n, d)
          PROVE  UNCHANGED <<refs, head>> /\ Moves(AfterRead(n, d))
      BY <3>1 DEF AddRead, AfterRead
    <3>2. CASE AddChunks(p)
      <4>1. UNCHANGED <<refs, head>> /\ Moves(AfterChunks(job[p].name, job[p].data))
        BY <3>2 DEF AddChunks, AfterChunks
      <4> QED
        BY <4>1
    <3>3. CASE AddBlob(p)
      BY <3>3 DEF AddBlob
    <3>4. CASE AddStage(p)
      BY <3>4 DEF AddStage, Idle
    <3> QED
      BY <2>1, <3>1, <3>2, <3>3, <3>4 DEF AddStep
  <2>2. CASE CommitStep(p)
    <3>1. CASE CommitReadStaged(p)
      BY <3>1 DEF CommitReadStaged
    <3>2. CASE CommitReadHead(p)
      BY <3>2 DEF CommitReadHead
    <3>3. CASE CommitReadBase(p)
      BY <3>3 DEF CommitReadBase
    <3>4. CASE CommitWriteTree(p)
      BY <3>4 DEF CommitWriteTree
    <3>5. CASE CommitReadParent(p)
      BY <3>5 DEF CommitReadParent
    <3>6. CASE CommitWriteCommit(p)
      BY <3>6 DEF CommitWriteCommit
    <3>7. CASE CommitClear(p)
      BY <3>7 DEF CommitClear, Idle
    <3> QED
      BY <2>2, <3>1, <3>2, <3>3, <3>4, <3>5, <3>6, <3>7 DEF CommitStep
  <2>3. CASE MergeStep(p)
    <3>1. ASSUME NEW b \in Branch, MergeReadHead(p, b)
          PROVE  UNCHANGED <<refs, head>> /\ \E j : Moves(j)
      BY <3>1 DEF MergeReadHead
    <3>2. CASE MergeReadOurs(p)
      BY <3>2 DEF MergeReadOurs
    <3>3. CASE MergeReadTheirs(p)
      BY <3>3 DEF MergeReadTheirs
    <3>4. CASE FastForward(p)
      BY <3>4 DEF FastForward
    <3>5. CASE MergeTrees(p)
      BY <3>5 DEF MergeTrees
    <3>6. CASE MergeWriteTree(p)
      BY <3>6 DEF MergeWriteTree
    <3>7. CASE MergeWriteCommit(p)
      BY <3>7 DEF MergeWriteCommit
    <3> QED
      BY <2>3, <3>1, <3>2, <3>3, <3>4, <3>5, <3>6, <3>7 DEF MergeStep
  <2> QED
    BY <2>1, <2>2, <2>3
<1>2. PICK j : Moves(j)
  BY <1>1
<1> QED
  BY <1>1, <1>2, ResolvedRead

LEMMA BranchResolves ==
    ASSUME TypeOK, HeadsResolve, NEW p \in Proc, BranchStep(p)
    PROVE  HeadsResolve'
<1> USE DEF At
<1>1. ASSUME NEW b \in Branch, BranchReadHead(p, b) PROVE HeadsResolve'
  <2> DEFINE j == [pc |-> "branch:tip", target |-> b, head |-> head]
  <2>1. Goto(p, j) /\ UNCHANGED <<refs, head>>
    BY <1>1 DEF BranchReadHead
  <2> QED
    BY <2>1, ResolvedRead
<1>2. CASE BranchReadTip(p)
  <2> DEFINE j == [pc |-> "branch:write", target |-> job[p].target, commit |-> Tip(job[p].head)]
  <2>1. Goto(p, j) /\ UNCHANGED <<refs, head>>
    BY <1>2 DEF BranchReadTip
  <2>2. ~Holds(j, "head") /\ j.pc # "checkout:head"
    BY DEF Holds, LocalsOf
  <2>3. job[p].head \in Branch \cup {Detached}
    BY <1>2 DEF BranchReadTip, TypeOK, JobOK, Holds, LocalsOf
  <2>4. Born
    BY <1>2, <2>3 DEF BranchReadTip, Tip, Born
  <2> HIDE DEF j
  <2> QED
    BY <2>1, <2>2, <2>4, ResolvedRead
<1>3. CASE BranchWrite(p)
  <2>1. job[p].target \in Branch /\ Born
    BY <1>3 DEF BranchWrite, TypeOK, JobOK, Holds, LocalsOf, HeadsResolve
  <2>2. /\ \A x \in Branch : refs[x] # None => refs'[x] # None
        /\ Born' => Born \/ refs'[Main] # None
    BY <1>3, <2>1, WrittenRef DEF BranchWrite
  <2>3. Goto(p, Idle) /\ head' = head
    BY <1>3 DEF BranchWrite
  <2>4. head' \in Branch \cup {Detached} /\ Resolves(head')
    BY <2>3 DEF TypeOK, HeadsResolve
  <2> QED
    BY <2>2, <2>3, <2>4, ResolvedStep DEF Idle, Holds, LocalsOf
<1> QED
  BY <1>1, <1>2, <1>3 DEF BranchStep

LEMMA UpdateResolves ==
    ASSUME TypeOK, HeadsResolve, NEW p \in Proc, CommitUpdateRef(p) \/ MergeUpdateRef(p)
    PROVE  HeadsResolve'
<1> USE DEF At
<1>1. job[p].head \in Branch \cup {Detached} /\ Holds(job[p], "head")
  BY DEF CommitUpdateRef, MergeUpdateRef, TypeOK, JobOK, Holds, LocalsOf
<1>2. /\ \A x \in Branch : refs[x] # None => refs'[x] # None
      /\ Born' => Born \/ refs'[Main] # None
  <2>1. CASE refs' = refs
    BY <2>1 DEF Born
  <2>2. CASE job[p].head # Detached /\ WriteRef(p, job[p].head)
    BY <1>1, <2>2, WrittenRef DEF HeadsResolve
  <2>3. CASE job[p].head = Detached /\ WriteRef(p, Detached)
    <3>1. PICK c : refs' = RefsWith(Detached, c)
      BY <2>3 DEF WriteRef
    <3>2. refs' = refs
      BY <3>1, NamesAssumption DEF RefsWith, TypeOK
    <3> QED
      BY <3>2 DEF Born
  <2> QED
    BY <2>1, <2>2, <2>3 DEF CommitUpdateRef, MergeUpdateRef
<1>3. PICK j : Goto(p, j) /\ j.pc \in {"idle", "commit:clear"}
  BY DEF CommitUpdateRef, MergeUpdateRef, Idle
<1>4. head' \in Branch \cup {Detached} /\ Resolves(head')
  BY DEF CommitUpdateRef, MergeUpdateRef, TypeOK, HeadsResolve
<1> QED
  BY <1>2, <1>3, <1>4, ResolvedStep DEF Holds, LocalsOf

LEMMA StepResolves == TypeOK /\ HeadsResolve /\ [Next]_vars => HeadsResolve'
<1> SUFFICES ASSUME TypeOK, HeadsResolve, [Next]_vars PROVE HeadsResolve'
  OBVIOUS
<1>1. CASE UNCHANGED vars
  BY <1>1 DEF vars, HeadsResolve, Resolves, Born, At
<1>2. ASSUME NEW p \in Proc, Return(p) \/ Crash(p) PROVE HeadsResolve'
  BY <1>2, ResolvedRead DEF Return, Crash, Idle, Holds, LocalsOf
<1> QED
  BY <1>1, <1>2, CheckoutResolves, OthersResolve, BranchResolves, UpdateResolves DEF Next, CommandStep

LEMMA InitResolves == Init => HeadsResolve
<1> SUFFICES ASSUME Init PROVE HeadsResolve
  OBVIOUS
<1>1. \A p \in Proc : ~Holds(job[p], "head") /\ ~At(p, "branch:write") /\ ~At(p, "checkout:head")
  BY DEF Init, Idle, Holds, LocalsOf, At
<1>2. Resolves(head)
  <2>1. CASE FreshRepository
    BY <2>1 DEF FreshRepository, Resolves, Born
  <2>2. CASE ClonedRepository
    <3>1. PICK n \in Name, d \in Data, s \in Stamp, default \in Branch :
              LET tree == Tree([m \in {n} |-> Blob(d)])
                  tip  == Commit(tree, <<>>, s)
              IN  /\ (IF default = Main THEN "clone" ELSE "clone_detached") \in Starts
                  /\ store = {Chunk(d), Blob(d), tree, tip}
                  /\ refs = [b \in Branch |-> IF b = default THEN tip ELSE None]
                  /\ head = IF default = Main THEN Main ELSE Detached
      BY <2>2 DEF ClonedRepository
    <3>2. Commit(Tree([m \in {n} |-> Blob(d)]), <<>>, s) # None
      BY ObjectFields
    <3> QED
      BY <3>1, <3>2, NamesAssumption DEF Resolves
  <2> QED
    BY <2>1, <2>2 DEF Init
<1> QED
  BY <1>1, <1>2 DEF HeadsResolve

(* Whatever commands run at once, even on the same files, and wherever they *)
(* stop, once a branch has a file HEAD names no branch or one that has a    *)
(* file: no command is left on a branch that never was, which the next      *)
(* commit would start without parents.  (That the file can be read is what  *)
(* BranchesCanBeRead says, of processes that do not write it at once.)      *)
THEOREM HeadIsResolved == Spec => []HeadsResolve
  BY Typing, InitResolves, StepResolves, PTL DEF Spec

---------------------------------------------------------------------------
(* Processes that do not write one file at once. *)

LEMMA WriteWhole ==
    ASSUME Apart, NEW p \in Proc, WriteObject(p), Holds(job[p], "object"), torn = {}
    PROVE  torn' = {}
<1> DEFINE o == job[p].object
<1>1. CASE UNCHANGED <<store, torn>>
  BY <1>1
<1>2. CASE o \notin job[p].found /\ torn' = torn \ {o}
  BY <1>2
<1>3. CASE o \notin job[p].found /\ ObjectWriters(o) # {p}
  <2>1. p \in ObjectWriters(o) /\ ObjectWriters(o) \subseteq {p}
    BY <1>3 DEF ObjectWriters, Apart
  <2> QED
    BY <1>3, <2>1
<1> QED
  BY <1>1, <1>2, <1>3 DEF WriteObject

LEMMA RefWhole ==
    ASSUME TypeOK, Apart, Whole, NEW p \in Proc, NEW b \in Branch \cup {Detached},
           p \in RefWriters(b), WriteRef(p, b)
    PROVE  \A x \in Branch : refs'[x] # Torn
<1>1. CASE b = Detached
  <2>1. PICK c : refs' = RefsWith(b, c)
    BY DEF WriteRef
  <2>2. refs' = refs
    BY <1>1, <2>1, NamesAssumption DEF RefsWith, TypeOK
  <2> QED
    BY <2>2 DEF Whole
<1>2. CASE b \in Branch
  <2>1. RefWriters(b) = {p}
    BY <1>2 DEF Apart
  <2>2. refs' = RefsWith(b, job[p].commit)
    BY <2>1 DEF WriteRef
  <2>3. job[p].commit # Torn
    BY <2>1, WritersTyping DEF IsCommit, Torn
  <2> QED
    BY <2>2, <2>3 DEF RefsWith, TypeOK, Whole
<1> QED
  BY <1>1, <1>2

LEMMA StepWhole == TypeOK /\ Whole /\ Apart /\ [Next]_vars => Whole'
<1> SUFFICES ASSUME TypeOK, Whole, Apart, [Next]_vars PROVE Whole'
  OBVIOUS
<1> USE DEF At
<1>1. CASE UNCHANGED <<torn, refs>>
  BY <1>1 DEF Whole
<1>2. ASSUME NEW p \in Proc, WriteObject(p), Holds(job[p], "object"), refs' = refs PROVE Whole'
  BY <1>2, WriteWhole DEF Whole
<1>3. ASSUME NEW p \in Proc, CommitUpdateRef(p) \/ MergeUpdateRef(p) \/ BranchWrite(p) PROVE Whole'
  <2>1. torn' = torn
    BY <1>3 DEF CommitUpdateRef, MergeUpdateRef, BranchWrite
  <2>2. CASE refs' = refs
    BY <2>1, <2>2 DEF Whole
  <2>3. CASE BranchWrite(p)
    <3>1. job[p].target \in Branch /\ p \in RefWriters(job[p].target)
      BY <2>3 DEF BranchWrite, TypeOK, JobOK, Holds, LocalsOf, RefWriters
    <3> QED
      BY <2>1, <2>3, <3>1, RefWhole DEF BranchWrite, Whole
  <2>4. CASE (CommitUpdateRef(p) \/ MergeUpdateRef(p)) /\ refs' # refs
    <3>1. job[p].head \in Branch \cup {Detached} /\ p \in RefWriters(job[p].head)
      BY <2>4 DEF CommitUpdateRef, MergeUpdateRef, TypeOK, JobOK, Holds, LocalsOf, RefWriters
    <3>2. WriteRef(p, job[p].head)
      BY <2>4 DEF CommitUpdateRef, MergeUpdateRef
    <3> QED
      BY <2>1, <3>1, <3>2, RefWhole DEF Whole
  <2> QED
    BY <1>3, <2>2, <2>3, <2>4
<1>4. ASSUME NEW p \in Proc, AddStep(p) PROVE Whole'
  BY <1>1, <1>2, <1>4 DEF AddStep, AddRead, AddChunks, AddBlob, AddStage, Holds, LocalsOf
<1>5. ASSUME NEW p \in Proc, CommitStep(p) PROVE Whole'
  BY <1>1, <1>2, <1>3, <1>5 DEF CommitStep, CommitReadStaged, CommitReadHead, CommitReadBase,
     CommitWriteTree, CommitReadParent, CommitWriteCommit, CommitClear, Holds, LocalsOf
<1>6. ASSUME NEW p \in Proc, MergeStep(p) PROVE Whole'
  BY <1>1, <1>2, <1>3, <1>6 DEF MergeStep, MergeReadHead, MergeReadOurs, MergeReadTheirs,
     FastForward, MergeTrees, MergeWriteTree, MergeWriteCommit, Holds, LocalsOf
<1>7. ASSUME NEW p \in Proc, BranchStep(p) \/ CheckoutStep(p) \/ Return(p) \/ Crash(p) PROVE Whole'
  BY <1>1, <1>3, <1>7 DEF BranchStep, BranchReadHead, BranchReadTip, CheckoutStep, CheckoutReadTip,
     CheckoutWriteHead, Return, Crash
<1> QED
  BY <1>1, <1>4, <1>5, <1>6, <1>7 DEF Next, CommandStep, vars

LEMMA InitWhole == Init => Whole
<1> SUFFICES ASSUME Init PROVE \A b \in Branch : refs[b] # Torn
  BY DEF Init, Whole
<1>1. None # Torn /\ \A t, q, s : Commit(t, q, s) # Torn
  BY DEF None, Torn, Commit
<1>2. CASE FreshRepository
  BY <1>1, <1>2 DEF FreshRepository
<1>3. CASE ClonedRepository
  <2>1. PICK t, q, s : \A b \in Branch : refs[b] \in {Commit(t, q, s), None}
    BY <1>3 DEF ClonedRepository
  <2> QED
    BY <1>1, <2>1
<1> QED
  BY <1>2, <1>3 DEF Init

(* As long as no two processes write one file at once, nothing they leave   *)
(* behind is empty or cut short, wherever they are killed: every branch and *)
(* every object there is a file of can be read.  Together with the history  *)
(* that is stored, every branch leads to commits, trees and blobs that can  *)
(* be read.  The hypothesis is needed: <path>.tmp is the same for all.  The *)
(* disk is taken not to fill up unseen (AtomicFile, with Buffer = 0).       *)
THEOREM BranchesCanBeRead == Spec /\ []Apart => [](Whole /\ HistoryInHandStored)
  BY Typing, HistoryIsStored, InitWhole, StepWhole, PTL DEF Spec

---------------------------------------------------------------------------
(* Chunks. *)

(* There is a file of every chunk that a blob lists, and of those that     *)
(* flux add has written before it writes the blob.                         *)
ChunksWritten ==
    /\ \A o \in store : o.type = "blob" => Deps(o) \subseteq store
    /\ \A p \in Proc : At(p, "add:blob") => Deps(job[p].object) \subseteq store

(* A step that stores what it likes but no blob before its chunk, and whose *)
(* process does not come to add:blob without one, keeps the chunks written. *)
LEMMA ChunksStep ==
    ASSUME TypeOK, ChunksWritten, NEW p \in Proc, NEW j, Goto(p, j),
           store \subseteq store',
           \A o \in store' \ store : o.type = "blob" => Deps(o) \subseteq store,
           j.pc = "add:blob" => Deps(j.object) \subseteq store'
    PROVE  ChunksWritten'
<1>1. \A o \in store' : o.type = "blob" => Deps(o) \subseteq store'
  BY DEF ChunksWritten
<1>2. ASSUME NEW q \in Proc, job'[q].pc = "add:blob" PROVE Deps(job'[q].object) \subseteq store'
  <2>1. CASE q = p
    BY <1>2, <2>1 DEF Goto, TypeOK
  <2>2. CASE q # p
    <3>1. job'[q] = job[q]
      BY <2>2 DEF Goto, TypeOK
    <3> QED
      BY <1>2, <3>1 DEF ChunksWritten, At
  <2> QED
    BY <2>1, <2>2
<1> QED
  BY <1>1, <1>2 DEF ChunksWritten, At

LEMMA AddChunksWritten ==
    ASSUME ~DiskFaults, TypeOK, HistoryInHandStored, ChunksWritten, NEW p \in Proc, AddStep(p)
    PROVE  ChunksWritten'
<1> USE DEF At
<1>1. ASSUME NEW n \in Name, NEW d \in Data, AddRead(p, n, d) PROVE ChunksWritten'
  <2>1. Goto(p, AfterRead(n, d)) /\ store' = store /\ AfterRead(n, d).pc # "add:blob"
    BY <1>1 DEF AddRead, AfterRead
  <2> QED
    BY <2>1, ChunksStep
<1>2. CASE AddChunks(p)
  <2> DEFINE d == job[p].data
             j == AfterChunks(job[p].name, d)
  <2>1. Goto(p, j) /\ WriteObject(p) /\ job[p].object = Chunk(d) /\ Holds(job[p], "found")
    BY <1>2 DEF AddChunks, TypeOK, JobOK, Holds, LocalsOf
  <2>2. store' = store \cup {Chunk(d)}
    BY <2>1, WriteStores
  <2>3. Chunk(d).type # "blob"
    BY ObjectFields
  <2>4. Deps(j.object) \subseteq store'
    <3>1. j.object = Blob(d)
      BY DEF AfterChunks
    <3>2. Deps(Blob(d)) = {Chunk(d)}
      BY ObjectDeps
    <3> QED
      BY <2>2, <3>1, <3>2
  <2> HIDE DEF j
  <2> QED
    BY <2>1, <2>2, <2>3, <2>4, ChunksStep
<1>3. CASE AddBlob(p)
  <2> DEFINE j == [pc |-> "add:stage", name |-> job[p].name, blob |-> job[p].object]
  <2>1. Goto(p, j) /\ WriteObject(p) /\ Holds(job[p], "found") /\ j.pc # "add:blob"
    BY <1>3 DEF AddBlob, Holds, LocalsOf
  <2>2. store' = store \cup {job[p].object}
    BY <2>1, WriteStores
  <2>3. Deps(job[p].object) \subseteq store
    BY <1>3 DEF AddBlob, ChunksWritten
  <2> HIDE DEF j
  <2> QED
    BY <2>1, <2>2, <2>3, ChunksStep
<1>4. CASE AddStage(p)
  <2>1. Goto(p, Idle) /\ store' = store /\ Idle.pc # "add:blob"
    BY <1>4 DEF AddStage, Idle
  <2> QED
    BY <2>1, ChunksStep
<1> QED
  BY <1>1, <1>2, <1>3, <1>4 DEF AddStep

(* The other commands write trees and commits only. *)
LEMMA OtherChunksWritten ==
    ASSUME TypeOK, HistoryInHandStored, ChunksWritten, NEW p \in Proc,
           CommitStep(p) \/ BranchStep(p) \/ CheckoutStep(p) \/ MergeStep(p) \/ Return(p) \/ Crash(p)
    PROVE  ChunksWritten'
<1> USE DEF At
<1>1. CASE CommitWriteTree(p) \/ CommitWriteCommit(p) \/ MergeWriteTree(p) \/ MergeWriteCommit(p)
  <2>1. \E j : Goto(p, j) /\ j.pc # "add:blob"
    <3>1. CASE CommitWriteTree(p)
      BY <3>1 DEF CommitWriteTree
    <3>2. CASE CommitWriteCommit(p)
      BY <3>2 DEF CommitWriteCommit
    <3>3. CASE MergeWriteTree(p)
      BY <3>3 DEF MergeWriteTree
    <3>4. CASE MergeWriteCommit(p)
      BY <3>4 DEF MergeWriteCommit
    <3> QED
      BY <1>1, <3>1, <3>2, <3>3, <3>4
  <2>2. WriteObject(p) /\ Holds(job[p], "found")
    BY <1>1 DEF CommitWriteTree, CommitWriteCommit, MergeWriteTree, MergeWriteCommit, Holds, LocalsOf
  <2>3. job[p].object.type \in {"tree", "commit"}
    BY <1>1 DEF CommitWriteTree, CommitWriteCommit, MergeWriteTree, MergeWriteCommit, TypeOK, JobOK,
       IsTree, IsCommit
  <2>4. store' = store \cup {job[p].object}
    BY <2>2, WriteStores
  <2> QED
    BY <2>1, <2>3, <2>4, ChunksStep
<1>2. CASE ~(CommitWriteTree(p) \/ CommitWriteCommit(p) \/ MergeWriteTree(p) \/ MergeWriteCommit(p))
  <2>1. store' = store /\ \E j : Goto(p, j) /\ j.pc # "add:blob"
    <3>1. CASE CommitStep(p)
      <4>1. CASE CommitReadStaged(p)
        BY <4>1 DEF CommitReadStaged
      <4>2. CASE CommitReadHead(p)
        BY <4>2 DEF CommitReadHead
      <4>3. CASE CommitReadBase(p)
        BY <4>3 DEF CommitReadBase
      <4>4. CASE CommitReadParent(p)
        BY <4>4 DEF CommitReadParent
      <4>5. CASE CommitUpdateRef(p)
        <5> DEFINE j == [pc |-> "commit:clear"]
        <5>1. Goto(p, j) /\ store' = store /\ j.pc # "add:blob"
          BY <4>5 DEF CommitUpdateRef
        <5> QED
          BY <5>1
      <4>6. CASE CommitClear(p)
        BY <4>6 DEF CommitClear, Idle
      <4> QED
        BY <1>2, <3>1, <4>1, <4>2, <4>3, <4>4, <4>5, <4>6 DEF CommitStep
    <3>2. CASE MergeStep(p)
      <4>1. ASSUME NEW b \in Branch, MergeReadHead(p, b)
            PROVE  store' = store /\ \E j : Goto(p, j) /\ j.pc # "add:blob"
        BY <4>1 DEF MergeReadHead
      <4>2. CASE MergeReadOurs(p)
        BY <4>2 DEF MergeReadOurs
      <4>3. CASE MergeReadTheirs(p)
        BY <4>3 DEF MergeReadTheirs
      <4>4. CASE FastForward(p)
        BY <4>4 DEF FastForward
      <4>5. CASE MergeTrees(p)
        BY <4>5 DEF MergeTrees
      <4>6. CASE MergeUpdateRef(p)
        BY <4>6 DEF MergeUpdateRef, Idle
      <4> QED
        BY <1>2, <3>2, <4>1, <4>2, <4>3, <4>4, <4>5, <4>6 DEF MergeStep
    <3>3. CASE BranchStep(p)
      <4>1. ASSUME NEW b \in Branch, BranchReadHead(p, b)
            PROVE  store' = store /\ \E j : Goto(p, j) /\ j.pc # "add:blob"
        BY <4>1 DEF BranchReadHead
      <4>2. CASE BranchReadTip(p)
        BY <4>2 DEF BranchReadTip
      <4>3. CASE BranchWrite(p)
        BY <4>3 DEF BranchWrite, Idle
      <4> QED
        BY <3>3, <4>1, <4>2, <4>3 DEF BranchStep
    <3>4. CASE CheckoutStep(p) \/ Return(p) \/ Crash(p)
      <4>1. ASSUME NEW b \in Branch, CheckoutReadTip(p, b)
            PROVE  store' = store /\ \E j : Goto(p, j) /\ j.pc # "add:blob"
        BY <4>1 DEF CheckoutReadTip
      <4>2. CASE CheckoutWriteHead(p)
        BY <4>2 DEF CheckoutWriteHead, Idle
      <4>3. CASE Return(p) \/ Crash(p)
        BY <4>3 DEF Return, Crash, Idle
      <4> QED
        BY <3>4, <4>1, <4>2, <4>3 DEF CheckoutStep
    <3> QED
      BY <3>1, <3>2, <3>3, <3>4
  <2> QED
    BY <2>1, ChunksStep
<1> QED
  BY <1>1, <1>2

LEMMA InitChunks == Init => ChunksWritten
<1> SUFFICES ASSUME Init PROVE ChunksWritten
  OBVIOUS
<1>1. \A p \in Proc : ~At(p, "add:blob")
  BY DEF Init, Idle, At
<1>2. \A d : Deps(Blob(d)) = {Chunk(d)} /\ Chunk(d).type = "chunk"
  BY ObjectDeps, ObjectFields
<1>3. \A e, q, s : Tree(e).type = "tree" /\ Commit(e, q, s).type = "commit"
  BY ObjectFields
<1>4. CASE FreshRepository
  BY <1>1, <1>4 DEF FreshRepository, ChunksWritten
<1>5. CASE ClonedRepository
  <2>1. PICK n \in Name, d \in Data, s \in Stamp :
            LET tree == Tree([m \in {n} |-> Blob(d)])
            IN  store = {Chunk(d), Blob(d), tree, Commit(tree, <<>>, s)}
    BY <1>5, Zenon DEF ClonedRepository
  <2> QED
    BY <1>1, <1>2, <1>3, <2>1 DEF ChunksWritten
<1> QED
  BY <1>4, <1>5 DEF Init

(* As long as no write of a chunk fails and no two processes write one file *)
(* at once, every blob can be read back, wherever commands are killed: flux *)
(* add writes the chunks before the blob that lists them.  Both hypotheses  *)
(* are needed: a failed write is reported and skipped, and the blob then    *)
(* lists a missing chunk; two writers of a chunk can leave it empty.        *)
THEOREM ChunksAreStored ==
    ASSUME ~DiskFaults
    PROVE  Spec /\ []Apart => []ChunksStored
<1>1. TypeOK /\ HistoryInHandStored /\ ChunksWritten /\ [Next]_vars => ChunksWritten'
  <2> SUFFICES ASSUME TypeOK, HistoryInHandStored, ChunksWritten, [Next]_vars PROVE ChunksWritten'
    OBVIOUS
  <2>1. CASE UNCHANGED vars
    BY <2>1 DEF vars, ChunksWritten, At
  <2> QED
    BY <2>1, AddChunksWritten, OtherChunksWritten DEF Next, CommandStep
<1>2. ChunksWritten /\ Whole => ChunksStored
  BY DEF ChunksWritten, ChunksStored, Whole, Readable
<1> QED
  BY <1>1, <1>2, Typing, HistoryIsStored, BranchesCanBeRead, InitChunks, PTL DEF Spec
=============================================================================
