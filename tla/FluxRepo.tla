----------------------------- MODULE FluxRepo ------------------------------
(***************************************************************************)
(* One FluxVCS repository shared by several `flux` processes.  Nothing     *)
(* locks the repository: each command reads and writes the files under     *)
(* .flux one at a time, so a command is a sequence of steps, one for each  *)
(* shared file it reads or writes, interleaved with those of the others,   *)
(* and a process may stop (crash, or leave on an error) between any two.   *)
(*                                                                         *)
(* Every file is written through <path>.tmp, which is then renamed, and all *)
(* processes share that name: AtomicFile has the system calls.  What comes *)
(* of it here: a file one process writes is replaced at once, but when two *)
(* write the same file at once, the one that renames may install what the  *)
(* other has just truncated, or what the other has written.  A process is  *)
(* taken to write a file from the step that leads to it to the step that   *)
(* ends it, at which its rename takes effect; one that is killed there may *)
(* be taken to be killed after those it met have renamed the file.         *)
(*                                                                         *)
(*   store    objects/loose: the objects there is a file of                *)
(*   torn     those of them whose file is empty or cut short: no read of   *)
(*            one succeeds, but exists() finds it                          *)
(*   refs     refs/heads/<b>: the tip of each branch, None if no such file, *)
(*            Torn if the file is empty or cut short                       *)
(*   head     HEAD: the branch it names, or Detached when it names none    *)
(*            (clone leaves a bare object id there; two processes that     *)
(*            write HEAD at once may leave nothing, or a mixture of names) *)
(*   staging  the staging_area table of index.db: file name -> blob        *)
(*   job      what each process is doing, with its local variables         *)
(***************************************************************************)
EXTENDS FluxObjects

CONSTANTS
    Proc,         \* flux processes
    Name,         \* file names (a tree is flat: commit keeps path.filename())
    Data,         \* file contents
    Branch,       \* branch names
    Main,         \* the branch `flux init` points HEAD at
    Detached,     \* HEAD does not hold the name of a branch
    Stamp,        \* message and time of a commit
    Starts,       \* how the repository came to be: "init", "clone",
                  \*   "clone_detached"
    DiskFaults,   \* BOOLEAN: may the write of a chunk fail?
    Crashes,      \* BOOLEAN: may a process stop half-way?
    MaxCommits    \* bound on the commits in the store

ASSUME NamesAssumption ==
    /\ Main \in Branch
    /\ Detached \notin Branch
    /\ DiskFaults \in BOOLEAN
    /\ Crashes \in BOOLEAN
    /\ MaxCommits \in Nat

VARIABLES store, torn, refs, head, staging, job

vars == <<store, torn, refs, head, staging, job>>

---------------------------------------------------------------------------
Idle == [pc |-> "idle"]

(* What a branch file holds that two writers left empty or cut short. *)
Torn == [type |-> "torn"]

Commits(objects) == {o \in objects : o.type = "commit"}

Born == \E b \in Branch : refs[b] # None

Goto(p, j) == job' = [job EXCEPT ![p] = j]

At(p, pc) == job[p].pc = pc

(* The bound MaxCommits, tested when a command that writes one starts. *)
MayCommit == Cardinality(Commits(store)) < MaxCommits

Hops == Cardinality(Commits(store))

Ancestors(c) == AncestorsWithin(c, Hops, {})

(* The objects a read of which succeeds. *)
Readable == store \ torn

(* What a process carries in its local variables at each step.  One that is *)
(* about to write an object has the object, and as `found` the set of that  *)
(* object if exists() found it when the process came to write it, or {}.    *)
LocalsOf(pc) ==
    CASE pc = "idle"          -> {}
      [] pc = "add:chunks"    -> {"name", "data", "object", "found"}
      [] pc = "add:blob"      -> {"name", "object", "found"}
      [] pc = "add:stage"     -> {"name", "blob"}
      [] pc = "commit:head"   -> {"staged"}
      [] pc = "commit:base"   -> {"staged", "head"}
      [] pc = "commit:tree"   -> {"staged", "head", "object", "found"}
      [] pc = "commit:parent" -> {"staged", "head", "tree"}
      [] pc = "commit:commit" -> {"staged", "head", "object", "found"}
      [] pc = "commit:ref"    -> {"staged", "head", "commit"}
      [] pc = "commit:clear"  -> {}
      [] pc = "branch:tip"    -> {"target", "head"}
      [] pc = "branch:write"  -> {"target", "commit"}
      [] pc = "checkout:head" -> {"target"}
      [] pc = "merge:ours"    -> {"other", "head"}
      [] pc = "merge:theirs"  -> {"other", "head", "ours"}
      [] pc = "merge:base"    -> {"head", "ours", "theirs"}
      [] pc = "merge:tree"    -> {"head", "ours", "theirs", "object", "found"}
      [] pc = "merge:commit"  -> {"head", "ours", "theirs", "object", "found"}
      [] pc = "merge:ref"     -> {"head", "ours", "theirs", "commit"}

Steps == {"idle", "add:chunks", "add:blob", "add:stage",
          "commit:head", "commit:base", "commit:tree", "commit:parent",
          "commit:commit", "commit:ref", "commit:clear",
          "branch:tip", "branch:write", "checkout:head",
          "merge:ours", "merge:theirs", "merge:base", "merge:tree", "merge:commit", "merge:ref"}

Holds(j, local) == local \in LocalsOf(j.pc)

---------------------------------------------------------------------------
(* Initial states: after `flux init`, HEAD names a branch without a commit; *)
(* after `flux clone`, one local branch has the remote's tip, and HEAD names *)
(* it if it is the main branch; another default branch leaves HEAD bare.    *)
FreshRepository ==
    /\ "init" \in Starts
    /\ store = {}
    /\ refs = [b \in Branch |-> None]
    /\ head = Main

ClonedRepository ==
    \E n \in Name, d \in Data, s \in Stamp, default \in Branch :
        LET tree == Tree([m \in {n} |-> Blob(d)])
            tip  == Commit(tree, <<>>, s)
        IN  /\ (IF default = Main THEN "clone" ELSE "clone_detached") \in Starts
            /\ store = {Chunk(d), Blob(d), tree, tip}
            /\ refs = [b \in Branch |-> IF b = default THEN tip ELSE None]
            /\ head = IF default = Main THEN Main ELSE Detached

Init ==
    /\ FreshRepository \/ ClonedRepository
    /\ torn = {}
    /\ staging = NoEntries
    /\ job = [p \in Proc |-> Idle]

---------------------------------------------------------------------------
(* The processes that are writing a file. *)
ObjectWriters(o) ==
    {q \in Proc : Holds(job[q], "object") /\ job[q].object = o /\ o \notin job[q].found}

RefWriters(b) ==
    {q \in Proc : \/ At(q, "branch:write") /\ job[q].target = b
                  \/ (At(q, "commit:ref") \/ At(q, "merge:ref")) /\ job[q].head = b}

HeadWriters == {q \in Proc : At(q, "checkout:head")}

(* ObjectStore::write: nothing, if the object's file is there (whatever is  *)
(* in it); else the file is there, whole, or torn if another process was    *)
(* writing it too.                                                          *)
WriteObject(p) ==
    LET o == job[p].object
    IN  \/ /\ o \in job[p].found \cup store
           /\ UNCHANGED <<store, torn>>
        \/ /\ o \notin job[p].found
           /\ store' = store \cup {o}
           /\ \/ torn' = torn \ {o}
              \/ ObjectWriters(o) # {p} /\ torn' = torn \cup {o}

(* RefStore::write: the branch now names c, whatever it named before. *)
RefsWith(b, c) == [refs EXCEPT ![b] = c]

(* What the file of b holds is what one of its writers wrote, or torn. *)
WriteRef(p, b) ==
    \/ \E q \in RefWriters(b) : refs' = RefsWith(b, job[q].commit)
    \/ RefWriters(b) # {p} /\ refs' = RefsWith(b, Torn)

(* A reference that can be read: refs().read of the branch head() returned. *)
Tip(h) == IF h = Detached \/ refs[h] = Torn THEN None ELSE refs[h]

(***************************************************************************)
(* flux add <file>: write the chunks, write the blob that lists them,      *)
(* stage the blob.  A chunk whose write fails is reported and skipped.     *)
(***************************************************************************)
(* Mutant: the chunks are not written. *)
AfterReadNoChunks(n, d) ==
    [pc |-> "add:blob", name |-> n, object |-> Blob(d), found |-> {Blob(d)} \cap store]

AfterRead(n, d) ==
    [pc |-> "add:chunks", name |-> n, data |-> d, object |-> Chunk(d), found |-> {Chunk(d)} \cap store]

AddRead(p, n, d) ==
    /\ At(p, "idle")
    /\ Goto(p, AfterRead(n, d))
    /\ UNCHANGED <<store, torn, refs, head, staging>>

(* Mutant: the blob is staged without having been written. *)
AfterChunksNoBlob(n, d) == [pc |-> "add:stage", name |-> n, blob |-> Blob(d)]

AfterChunks(n, d) ==
    [pc |-> "add:blob", name |-> n, object |-> Blob(d), found |-> {Blob(d)} \cap store]

AddChunks(p) ==
    /\ At(p, "add:chunks")
    /\ \/ WriteObject(p)
       \/ DiskFaults /\ UNCHANGED <<store, torn>>
    /\ Goto(p, AfterChunks(job[p].name, job[p].data))
    /\ UNCHANGED <<refs, head, staging>>

AddBlob(p) ==
    /\ At(p, "add:blob")
    /\ WriteObject(p)
    /\ Goto(p, [pc |-> "add:stage", name |-> job[p].name, blob |-> job[p].object])
    /\ UNCHANGED <<refs, head, staging>>

AddStage(p) ==
    /\ At(p, "add:stage")
    /\ staging' = Overlay(staging, [n \in {job[p].name} |-> job[p].blob])
    /\ Goto(p, Idle)
    /\ UNCHANGED <<store, torn, refs, head>>

(***************************************************************************)
(* flux commit: read the staged files, read HEAD, read the branch to get   *)
(* the parent's tree, write the new tree, read the branch AGAIN to get the *)
(* parent, write the commit, write the branch, clear the staging area.     *)
(***************************************************************************)
(* Mutant: reading the staged files takes them out of the staging area. *)
CommitTakeStaged(p) ==
    /\ At(p, "idle")
    /\ MayCommit
    /\ DOMAIN staging # {}
    /\ Goto(p, [pc |-> "commit:head", staged |-> staging])
    /\ staging' = NoEntries
    /\ UNCHANGED <<store, torn, refs, head>>

CommitReadStaged(p) ==
    /\ At(p, "idle")
    /\ MayCommit
    /\ DOMAIN staging # {}
    /\ Goto(p, [pc |-> "commit:head", staged |-> staging])
    /\ UNCHANGED <<store, torn, refs, head, staging>>

CommitReadHead(p) ==
    /\ At(p, "commit:head")
    /\ Goto(p, [pc |-> "commit:base", staged |-> job[p].staged, head |-> head])
    /\ UNCHANGED <<store, torn, refs, head, staging>>

(* Mutant: only the staged files are committed. *)
BaseEntriesForgotten(h) == NoEntries

(* The parent's files; none if its commit or its tree cannot be read. *)
BaseEntries(h) ==
    IF Tip(h) # None /\ {Tip(h), Tip(h).tree} \subseteq Readable THEN Tip(h).tree.entries ELSE NoEntries

CommitReadBase(p) ==
    /\ At(p, "commit:base")
    /\ LET tree == Tree(Overlay(BaseEntries(job[p].head), job[p].staged))
       IN  Goto(p, [pc |-> "commit:tree", staged |-> job[p].staged, head |-> job[p].head,
                    object |-> tree, found |-> {tree} \cap store])
    /\ UNCHANGED <<store, torn, refs, head, staging>>

CommitWriteTree(p) ==
    /\ At(p, "commit:tree")
    /\ WriteObject(p)
    /\ Goto(p, [pc |-> "commit:parent", staged |-> job[p].staged,
                head |-> job[p].head, tree |-> job[p].object])
    /\ UNCHANGED <<refs, head, staging>>

(* Mutants: the result of the read is not tested; no parent is recorded. *)
ParentsUntested(h) == <<Tip(h)>>

ParentsForgotten(h) == <<>>

ParentsOf(h) == IF Tip(h) = None THEN <<>> ELSE <<Tip(h)>>

CommitReadParent(p) ==
    /\ At(p, "commit:parent")
    /\ \E s \in Stamp :
         LET commit == Commit(job[p].tree, ParentsOf(job[p].head), s)
         IN  Goto(p, [pc |-> "commit:commit", staged |-> job[p].staged, head |-> job[p].head,
                      object |-> commit, found |-> {commit} \cap store])
    /\ UNCHANGED <<store, torn, refs, head, staging>>

CommitWriteCommit(p) ==
    /\ At(p, "commit:commit")
    /\ WriteObject(p)
    /\ Goto(p, [pc |-> "commit:ref", staged |-> job[p].staged,
                head |-> job[p].head, commit |-> job[p].object])
    /\ UNCHANGED <<refs, head, staging>>

CommitUpdateRef(p) ==
    /\ At(p, "commit:ref")
    /\ IF job[p].head = Detached THEN UNCHANGED refs ELSE WriteRef(p, job[p].head)
    /\ Goto(p, [pc |-> "commit:clear"])
    /\ UNCHANGED <<store, torn, head, staging>>

CommitClear(p) ==
    /\ At(p, "commit:clear")
    /\ staging' = NoEntries
    /\ Goto(p, Idle)
    /\ UNCHANGED <<store, torn, refs, head>>

(***************************************************************************)
(* flux branch <b>: read HEAD, read the branch it names, write <b>.        *)
(***************************************************************************)
BranchReadHead(p, b) ==
    /\ At(p, "idle")
    /\ head # Detached
    /\ Goto(p, [pc |-> "branch:tip", target |-> b, head |-> head])
    /\ UNCHANGED <<store, torn, refs, head, staging>>

BranchReadTip(p) ==
    /\ At(p, "branch:tip")
    /\ Tip(job[p].head) # None
    /\ Goto(p, [pc |-> "branch:write", target |-> job[p].target, commit |-> Tip(job[p].head)])
    /\ UNCHANGED <<store, torn, refs, head, staging>>

BranchWrite(p) ==
    /\ At(p, "branch:write")
    /\ WriteRef(p, job[p].target)
    /\ Goto(p, Idle)
    /\ UNCHANGED <<store, torn, head, staging>>

(***************************************************************************)
(* flux checkout <b>: provided b has a commit that can be read, HEAD names *)
(* b.  (The working tree is not part of this module.)                      *)
(***************************************************************************)
(* Mutant: HEAD moves to a branch that does not exist. *)
CanCheckoutUnborn(b) == b \in Branch

CanCheckout(b) == Tip(b) # None

CheckoutReadTip(p, b) ==
    /\ At(p, "idle")
    /\ CanCheckout(b)
    /\ Goto(p, [pc |-> "checkout:head", target |-> b])
    /\ UNCHANGED <<store, torn, refs, head, staging>>

(* RefStore::write_symbolic: what HEAD names is what one of its writers     *)
(* wrote, or, if there were two, no branch at all.                          *)
CheckoutWriteHead(p) ==
    /\ At(p, "checkout:head")
    /\ \/ \E q \in HeadWriters : head' = job[q].target
       \/ HeadWriters # {p} /\ head' = Detached
    /\ Goto(p, Idle)
    /\ UNCHANGED <<store, torn, refs, staging>>

(***************************************************************************)
(* flux merge <b>: read HEAD, its tip (ours) and b's tip (theirs); then    *)
(* fast-forward, or write the merged tree and a commit with two parents;   *)
(* then write the branch HEAD named.                                       *)
(***************************************************************************)
MergeReadHead(p, b) ==
    /\ At(p, "idle")
    /\ MayCommit
    /\ head # Detached
    /\ Goto(p, [pc |-> "merge:ours", other |-> b, head |-> head])
    /\ UNCHANGED <<store, torn, refs, head, staging>>

MergeReadOurs(p) ==
    /\ At(p, "merge:ours")
    /\ Tip(job[p].head) # None
    /\ Goto(p, [pc |-> "merge:theirs", other |-> job[p].other,
                head |-> job[p].head, ours |-> Tip(job[p].head)])
    /\ UNCHANGED <<store, torn, refs, head, staging>>

MergeReadTheirs(p) ==
    /\ At(p, "merge:theirs")
    /\ Tip(job[p].other) # None
    /\ Goto(p, [pc |-> "merge:base", head |-> job[p].head,
                ours |-> job[p].ours, theirs |-> Tip(job[p].other)])
    /\ UNCHANGED <<store, torn, refs, head, staging>>

(* find_merge_base does not follow a commit that it cannot read. *)
BasesOf(j) == MergeBases(j.ours, j.theirs, Hops, torn)

FastForward(p) ==
    /\ At(p, "merge:base")
    /\ job[p].ours \in BasesOf(job[p])
    /\ Goto(p, [pc |-> "merge:ref", head |-> job[p].head, ours |-> job[p].ours,
                theirs |-> job[p].theirs, commit |-> job[p].theirs])
    /\ UNCHANGED <<store, torn, refs, head, staging>>

(* Mutant: a merge commit with one parent. *)
MergeParentTheirs(ours, theirs) == <<theirs>>

(* The parents of a merge commit: ours first. *)
MergeParents(ours, theirs) == <<ours, theirs>>

(* merge_trees succeeds: the three commits can be read, and the three trees, *)
(* unless two of them are the same one; and no file conflicts.              *)
CanMerge(base, ours, theirs) ==
    LET trees == {base.tree, ours.tree, theirs.tree}
    IN  /\ {base, ours, theirs} \subseteq Readable
        /\ Cardinality(trees) < 3 \/ trees \subseteq Readable
        /\ Mergeable(base.tree.entries, ours.tree.entries, theirs.tree.entries)

MergeTrees(p) ==
    /\ At(p, "merge:base")
    /\ \E base \in BasesOf(job[p]) \ {job[p].ours, job[p].theirs} :
         LET ours   == job[p].ours
             theirs == job[p].theirs
             tree   == Tree(MergeEntries(base.tree.entries, ours.tree.entries, theirs.tree.entries))
         IN  /\ CanMerge(base, ours, theirs)
             /\ Goto(p, [pc |-> "merge:tree", head |-> job[p].head, ours |-> ours,
                         theirs |-> theirs, object |-> tree, found |-> {tree} \cap store])
    /\ UNCHANGED <<store, torn, refs, head, staging>>

MergeWriteTree(p) ==
    /\ At(p, "merge:tree")
    /\ WriteObject(p)
    /\ \E s \in Stamp :
         LET commit == Commit(job[p].object, MergeParents(job[p].ours, job[p].theirs), s)
         IN  Goto(p, [pc |-> "merge:commit", head |-> job[p].head, ours |-> job[p].ours,
                      theirs |-> job[p].theirs, object |-> commit, found |-> {commit} \cap store])
    /\ UNCHANGED <<refs, head, staging>>

MergeWriteCommit(p) ==
    /\ At(p, "merge:commit")
    /\ WriteObject(p)
    /\ Goto(p, [pc |-> "merge:ref", head |-> job[p].head, ours |-> job[p].ours,
                theirs |-> job[p].theirs, commit |-> job[p].object])
    /\ UNCHANGED <<refs, head, staging>>

MergeUpdateRef(p) ==
    /\ At(p, "merge:ref")
    /\ WriteRef(p, job[p].head)
    /\ Goto(p, Idle)
    /\ UNCHANGED <<store, torn, head, staging>>

(***************************************************************************)
(* Early returns: no branch to start from, no branch to merge, no common   *)
(* ancestor, already up to date, a tree that cannot be read, a conflict.   *)
(***************************************************************************)
Refused(j) ==
    \/ j.pc = "branch:tip"   /\ Tip(j.head) = None
    \/ j.pc = "merge:ours"   /\ Tip(j.head) = None
    \/ j.pc = "merge:theirs" /\ Tip(j.other) = None
    \/ /\ j.pc = "merge:base"
       /\ \/ BasesOf(j) = {}
          \/ \E base \in BasesOf(j) \ {j.ours} : base = j.theirs \/ ~CanMerge(base, j.ours, j.theirs)

Return(p) ==
    /\ Refused(job[p])
    /\ Goto(p, Idle)
    /\ UNCHANGED <<store, torn, refs, head, staging>>

(* A process that crashes, or leaves on an I/O error, loses its locals only. *)
Crash(p) ==
    /\ Crashes
    /\ ~At(p, "idle")
    /\ Goto(p, Idle)
    /\ UNCHANGED <<store, torn, refs, head, staging>>

---------------------------------------------------------------------------
AddStep(p) == (\E n \in Name, d \in Data : AddRead(p, n, d)) \/ AddChunks(p) \/ AddBlob(p) \/ AddStage(p)

CommitStep(p) ==
    \/ CommitReadStaged(p) \/ CommitReadHead(p) \/ CommitReadBase(p) \/ CommitWriteTree(p)
    \/ CommitReadParent(p) \/ CommitWriteCommit(p) \/ CommitUpdateRef(p) \/ CommitClear(p)

BranchStep(p) == (\E b \in Branch : BranchReadHead(p, b)) \/ BranchReadTip(p) \/ BranchWrite(p)

CheckoutStep(p) == (\E b \in Branch : CheckoutReadTip(p, b)) \/ CheckoutWriteHead(p)

MergeStep(p) ==
    \/ \E b \in Branch : MergeReadHead(p, b)
    \/ MergeReadOurs(p) \/ MergeReadTheirs(p) \/ FastForward(p) \/ MergeTrees(p)
    \/ MergeWriteTree(p) \/ MergeWriteCommit(p) \/ MergeUpdateRef(p)

CommandStep(p) ==
    \/ AddStep(p) \/ CommitStep(p) \/ BranchStep(p) \/ CheckoutStep(p) \/ MergeStep(p)
    \/ Return(p)

Next == \E p \in Proc : CommandStep(p) \/ Crash(p)

Spec == Init /\ [][Next]_vars

---------------------------------------------------------------------------
(* Objects are finite, however deep: their type is what the next level      *)
(* says, so the types are of the state's own objects.                       *)
IsEntries(f) ==
    /\ f = [n \in DOMAIN f |-> f[n]]
    /\ DOMAIN f \subseteq Name
    /\ Range(f) \subseteq {Blob(d) : d \in Data}

IsTree(o) == o.type = "tree" /\ IsEntries(o.entries)

IsCommit(o) ==
    /\ o.type = "commit"
    /\ IsTree(o.tree)
    /\ Len(o.parents) \in 0..2
    /\ None \notin Range(o.parents)
    /\ o.stamp \in Stamp

JobOK(j) ==
    /\ j.pc \in Steps
    /\ DOMAIN j = {"pc"} \cup LocalsOf(j.pc)
    /\ Holds(j, "name")   => j.name \in Name
    /\ Holds(j, "data")   => j.data \in Data
    /\ Holds(j, "blob")   => j.blob \in {Blob(d) : d \in Data}
    /\ Holds(j, "staged") => IsEntries(j.staged)
    /\ Holds(j, "head")   => j.head \in Branch \cup {Detached}
    /\ Holds(j, "tree")   => IsTree(j.tree)
    /\ Holds(j, "found")  => j.found \subseteq {j.object}
    /\ j.pc = "add:chunks" => j.object = Chunk(j.data)
    /\ j.pc = "add:blob"   => j.object \in {Blob(d) : d \in Data}
    /\ j.pc \in {"commit:tree", "merge:tree"} => IsTree(j.object)
    /\ j.pc \in {"commit:commit", "merge:commit"} => IsCommit(j.object) /\ j.object # None
    /\ Holds(j, "commit") => IsCommit(j.commit) /\ j.commit # None
    /\ Holds(j, "ours")   => IsCommit(j.ours) /\ j.ours # None
    /\ Holds(j, "theirs") => IsCommit(j.theirs) /\ j.theirs # None
    /\ Holds(j, "other")  => j.other \in Branch
    /\ Holds(j, "target") => j.target \in Branch

IsObject(o) ==
    \/ o \in {Chunk(d) : d \in Data} \cup {Blob(d) : d \in Data}
    \/ IsTree(o)
    \/ IsCommit(o)

(* Type invariant: branches name commits, the staging area and the trees   *)
(* hold blobs, HEAD and every HEAD a process has read is a branch or bare. *)
TypeOK ==
    /\ \A o \in store : IsObject(o)
    /\ torn \subseteq store
    /\ refs = [b \in Branch |-> refs[b]]
    /\ \A b \in Branch : refs[b] \notin {None, Torn} => IsCommit(refs[b])
    /\ head \in Branch \cup {Detached}
    /\ IsEntries(staging)
    /\ job = [p \in Proc |-> job[p]]
    /\ \A p \in Proc : JobOK(job[p])

(* The objects a command in progress is going to refer to: those it goes by, *)
(* those that the object it is writing names, and that one if it was found. *)
InHand(j) ==
    (IF j.pc \in {"commit:tree", "commit:commit", "merge:tree", "merge:commit"}
     THEN Deps(j.object) ELSE {}) \cup
    (IF Holds(j, "found") THEN j.found ELSE {}) \cup
    (IF Holds(j, "blob")   THEN {j.blob} ELSE {}) \cup
    (IF Holds(j, "tree")   THEN {j.tree} ELSE {}) \cup
    (IF Holds(j, "commit") THEN {j.commit} ELSE {}) \cup
    (IF Holds(j, "ours")   THEN {j.ours} ELSE {}) \cup
    (IF Holds(j, "theirs") THEN {j.theirs} ELSE {}) \cup
    (IF Holds(j, "staged") THEN Range(j.staged) ELSE {})

(* No dangling history: however commands interleave and wherever they stop, *)
(* there is a file of the commit a branch names, of a stored commit's tree  *)
(* and parents, of a stored tree's blobs, and of the blobs staged for the   *)
(* next commit: the commands write children before parents and objects      *)
(* before references.  (What is in the file is another matter: Whole.)      *)
HistoryStored ==
    /\ \A o \in store : o.type \in {"commit", "tree"} => Deps(o) \subseteq store
    /\ \A b \in Branch : refs[b] \notin {None, Torn} => refs[b] \in store
    /\ Range(staging) \subseteq store

(* HistoryStored, and what processes hold: the inductive form. *)
HistoryInHandStored == HistoryStored /\ \A p \in Proc : InHand(job[p]) \subseteq store

(* No two processes are writing the same file. *)
Apart ==
    /\ \A p \in Proc : Holds(job[p], "object") => ObjectWriters(job[p].object) \subseteq {p}
    /\ \A b \in Branch : \A p, q \in RefWriters(b) : p = q
    /\ \A p, q \in HeadWriters : p = q

(* Every object and every branch there is a file of can be read.  It is so  *)
(* as long as processes stay Apart, and not when they do not: nothing locks *)
(* the repository, and <path>.tmp is the same for all.                      *)
Whole == torn = {} /\ \A b \in Branch : refs[b] # Torn

(* A blob that can be read has a chunk that can be read: flux add writes    *)
(* the chunks first.  It is so without failing chunk writes, while processes *)
(* stay Apart.                                                              *)
ChunksStored == \A o \in Readable : o.type = "blob" => Deps(o) \subseteq Readable

(* An unborn branch is one HEAD may name only before the first commit. *)
Resolves(h) == h = Detached \/ refs[h] # None \/ (h = Main /\ ~Born)

(* HEAD resolves: once some branch has a file, HEAD names no branch or one  *)
(* that has a file, and so does every HEAD a process goes by and every HEAD *)
(* it is about to write; no interleaving of branch, checkout, commit and    *)
(* merge, and no crash, leaves HEAD on an unborn branch beside living ones. *)
(* A process about to create a branch has read a commit from a living one.  *)
(* (While processes are Apart that file holds a commit: Whole.)             *)
HeadsResolve ==
    /\ Resolves(head)
    /\ \A p \in Proc : Holds(job[p], "head") => Resolves(job[p].head)
    /\ \A p \in Proc : At(p, "branch:write") => Born
    /\ \A p \in Proc : At(p, "checkout:head") => refs[job[p].target] # None

(* A commit about to be published has its parent's files, but for the ones *)
(* that were staged: flux commit starts from the parent's tree.             *)
CommitExtendsParent ==
    \A p \in Proc : At(p, "commit:ref") =>
        \A c \in Range(job[p].commit.parents) :
            job[p].commit.tree.entries = Overlay(c.tree.entries, job[p].staged)

(* flux commit and flux merge never take a commit off a branch: the old tip *)
(* is the new tip or one of its ancestors.                                  *)
AdvanceOnly(b) == refs[b] # None => refs'[b] # None /\ refs[b] \in Ancestors(refs'[b])

CommitsAdvance ==
    [][\A p \in Proc : At(p, "commit:ref") \/ At(p, "merge:ref") => \A b \in Branch : AdvanceOnly(b)]_vars

---------------------------------------------------------------------------
(* To its user a repository is a set of branches with files: SnapshotRepo.  *)
Snapshots == INSTANCE SnapshotRepo WITH
    files   <- [b \in {c \in Branch : refs[c] # None} |-> refs[b].tree.entries],
    current <- head,
    staged  <- staging

(* One flux process at a time, crashing anywhere, implements SnapshotRepo:  *)
(* each command takes effect at one step, or not at all.                    *)
ImplementsSnapshots == Snapshots!Spec
=============================================================================
