---------------------------- MODULE Push_proofs ----------------------------
(***************************************************************************)
(* Theorems about Push, for any clients, names, contents and commits, with *)
(* requests and responses lost or not:                                     *)
(*   - Typing: TypeOK is an invariant;                                     *)
(*   - HistoryIsWhole: the server and every repository have all of their   *)
(*     branch's history;                                                   *)
(*   - SuccessesAreTrue: a push that reports success is on the server, if   *)
(*     its report had a line on the branch.                                *)
(* The invariant says what a push has in hand: all that its pack names is  *)
(* in the pack, in the queue, or was the server's branch when discovered.  *)
(***************************************************************************)
EXTENDS Push, SequenceTheorems, TLAPS

(* What the server is known to have. *)
Known(j) == {j.old} \ {None}

DepsIn(pack, found) == \A o \in pack : Deps(o) \subseteq found

(* What the job j of client c relies on. *)
Sound(c, j) ==
    /\ j.pc = "idle" /\ j.result = "ok" /\ j.told => j.new \in was
    /\ j.pc = "clone" => j.want \in was
    /\ j.pc \in {"read", "collect", "send"} => Known(j) \subseteq was
    /\ j.pc = "collect" =>
        LET found == j.pack \cup Range(j.queue) \cup Known(j)
        IN  /\ j.pack \subseteq objects[c]
            /\ Range(j.queue) \subseteq objects[c]
            /\ j.new \in found
            /\ DepsIn(j.pack, found)
    /\ j.pc = "send" =>
        /\ j.pack \subseteq objects[c]
        /\ j.new \in j.pack \cup Known(j)
        /\ DepsIn(j.pack, j.pack \cup Known(j))
    /\ j.pc = "reply" /\ j.status = "ok" => j.new \in was

Inv ==
    /\ TypeOK
    /\ HistoryWhole
    /\ {remote} \ {None} \subseteq was
    /\ was \subseteq held
    /\ \A c \in Client : Sound(c, job[c])

---------------------------------------------------------------------------
(* Objects: what the constructors build, and what an object names. *)
LEMMA ObjectFields ==
    ASSUME NEW x, NEW y, NEW z
    PROVE  /\ Chunk(x).type = "chunk"
           /\ Tree(x).type = "tree" /\ Tree(x).entries = x
           /\ Commit(x, y, z) # None
           /\ Commit(x, y, z).type = "commit" /\ Commit(x, y, z).tree = x
           /\ Commit(x, y, z).parents = y
           /\ None.type = "none"
  BY DEF Chunk, Tree, Commit, None

LEMMA Kinds ==
    ASSUME NEW o
    PROVE  /\ IsFile(o) => o.type = "chunk" /\ o # None /\ Deps(o) = {}
           /\ IsTree(o) => o.type = "tree" /\ o # None /\ Deps(o) = Range(o.entries)
           /\ IsCommit(o) => o.type = "commit" /\ o # None
                             /\ Deps(o) = {o.tree} \cup Range(o.parents)
  BY ObjectFields DEF IsFile, IsTree, IsCommit, Deps

(* A stored commit is a commit. *)
LEMMA CommitOf ==
    ASSUME NEW o, IsObject(o), o.type = "commit"
    PROVE  IsCommit(o)
  BY Kinds DEF IsObject

LEMMA ParentRange ==
    ASSUME NEW x, NEW y
    PROVE  /\ Range(<<>>) = {} /\ <<>> \in Seq(Range(<<>>))
           /\ Range(<<x>>) = {x} /\ <<x>> \in Seq(Range(<<x>>))
           /\ Range(<<x, y>>) = {x, y} /\ <<x, y>> \in Seq(Range(<<x, y>>))
<1>1. Range(<<>>) = {} /\ Range(<<x>>) = {x} /\ Range(<<x, y>>) = {x, y}
  BY DEF Range
<1> QED
  BY <1>1

(* Overlaying adds nothing: each entry is one of the two maps'. *)
LEMMA OverlayRange ==
    ASSUME NEW f, NEW g
    PROVE  /\ Range(Overlay(f, g)) \subseteq Range(f) \cup Range(g)
           /\ Overlay(f, g) = [n \in DOMAIN Overlay(f, g) |-> Overlay(f, g)[n]]
  BY DEF Overlay, Range

(* The queue of a walk that takes its head and adds a commit's parents. *)
LEMMA QueueOver ==
    ASSUME NEW S, NEW q \in Seq(S), q # <<>>, NEW ps \in Seq(S)
    PROVE  /\ Head(q) \in Range(q)
           /\ Tail(q) \in Seq(S)
           /\ Range(q) = Range(Tail(q)) \cup {Head(q)}
           /\ Tail(q) \o ps \in Seq(S)
           /\ Range(Tail(q) \o ps) = Range(Tail(q)) \cup Range(ps)
<1>1. Tail(q) \in Seq(S) /\ Head(q) \in S /\ q = <<Head(q)>> \o Tail(q)
  BY HeadTailProperties, ConcatProperties, SeqEqual
<1>2. Range(<<Head(q)>>) = {Head(q)}
  BY DEF Range
<1>3. <<Head(q)>> \in Seq(S)
  BY <1>1
<1>4. Range(<<Head(q)>> \o Tail(q)) = Range(<<Head(q)>>) \cup Range(Tail(q))
  BY <1>1, <1>3, RangeConcatenation
<1>5. Range(Tail(q) \o ps) = Range(Tail(q)) \cup Range(ps)
  BY <1>1, RangeConcatenation
<1>6. Tail(q) \o ps \in Seq(S)
  BY <1>1, ConcatProperties
<1> QED
  BY <1>1, <1>2, <1>4, <1>5, <1>6

LEMMA QueueRange ==
    ASSUME NEW q, q \in Seq(Range(q)), q # <<>>, NEW ps, ps \in Seq(Range(ps))
    PROVE  /\ Head(q) \in Range(q)
           /\ Tail(q) \in Seq(Range(Tail(q)))
           /\ Range(q) = Range(Tail(q)) \cup {Head(q)}
           /\ Tail(q) \o ps \in Seq(Range(Tail(q) \o ps))
           /\ Range(Tail(q) \o ps) = Range(Tail(q)) \cup Range(ps)
<1> DEFINE S == Range(q) \cup Range(ps)
<1>1. q \in Seq(S) /\ ps \in Seq(S)
  BY SeqMonotonic
<1> HIDE DEF S
<1>2. /\ Head(q) \in Range(q)
      /\ Tail(q) \in Seq(S)
      /\ Range(q) = Range(Tail(q)) \cup {Head(q)}
      /\ Tail(q) \o ps \in Seq(S)
      /\ Range(Tail(q) \o ps) = Range(Tail(q)) \cup Range(ps)
  BY <1>1, QueueOver
<1> QED
  BY <1>2, SeqOfRange

---------------------------------------------------------------------------
(* A client that moves on leaves the others' jobs as they are. *)
LEMMA GotoJobs ==
    ASSUME Inv, NEW c \in Client, NEW j, Goto(c, j)
    PROVE  /\ job' = [d \in Client |-> job'[d]]
           /\ job'[c] = j
           /\ \A d \in Client \ {c} : job'[d] = job[d]
  BY DEF Inv, TypeOK, Goto

(* What a job relies on stays true as stores and the branch's past grow. *)
LEMMA SoundStays ==
    ASSUME NEW c, NEW j, Sound(c, j), was \subseteq was', objects[c] \subseteq objects'[c]
    PROVE  Sound(c, j)'
  BY DEF Sound, Known, DepsIn

(* A step of one client that changes nothing but its job. *)
LEMMA JobStep ==
    ASSUME Inv, NEW c \in Client, NEW j, Goto(c, j), JobOK(j), Sound(c, j),
           UNCHANGED <<remote, held, was, local, objects>>
    PROVE  Inv'
<1>1. /\ job' = [d \in Client |-> job'[d]] /\ job'[c] = j
      /\ \A d \in Client \ {c} : job'[d] = job[d]
  BY GotoJobs
<1>2. \A d \in Client : JobOK(job'[d]) /\ Sound(d, job'[d])
  BY <1>1 DEF Inv, TypeOK
<1>3. TypeOK'
  BY <1>1, <1>2 DEF Inv, TypeOK
<1>4. \A d \in Client : Sound(d, job[d])'
  BY <1>2 DEF Sound
<1> QED
  BY <1>3, <1>4 DEF Inv, HistoryWhole, Whole

(* A client stores objects whose references it has, and may move its branch *)
(* to a commit it has.                                                      *)
LEMMA StoreGrows ==
    ASSUME Inv, NEW c \in Client, NEW new, NEW tip,
           objects' = [objects EXCEPT ![c] = @ \cup new],
           local' = [local EXCEPT ![c] = tip] \/ local' = local,
           IsCommit(tip), tip \in objects[c] \cup new,
           \A o \in new : IsObject(o) /\ Deps(o) \subseteq objects[c] \cup new,
           UNCHANGED <<remote, held, was, job>>
    PROVE  Inv'
<1>1. \A e \in Client : objects'[e] = IF e = c THEN objects[c] \cup new ELSE objects[e]
  BY DEF Inv, TypeOK
<1>2. \A e \in Client : local'[e] = local[e] \/ (e = c /\ local'[e] = tip)
  BY DEF Inv, TypeOK
<1>3. TypeOK'
  <2>1. \A e \in Client : IsTip(local'[e]) /\ JobOK(job'[e])
    BY <1>2 DEF Inv, TypeOK, IsTip
  <2>2. \A e \in Client : \A o \in objects'[e] : IsObject(o)
    BY <1>1 DEF Inv, TypeOK
  <2>3. local' = [e \in Client |-> local'[e]] /\ objects' = [e \in Client |-> objects'[e]]
    BY DEF Inv, TypeOK
  <2> QED
    BY <2>1, <2>2, <2>3 DEF Inv, TypeOK
<1>4. HistoryWhole'
  <2>1. \A e \in Client : Whole(objects[e], local[e])
    BY DEF Inv, HistoryWhole
  <2>2. ASSUME NEW e \in Client PROVE Whole(objects'[e], local'[e])
    <3>1. CASE e = c
      BY <1>1, <1>2, <2>1, <3>1 DEF Whole
    <3>2. CASE e # c
      BY <1>1, <1>2, <2>1, <3>2
    <3> QED
      BY <3>1, <3>2
  <2> QED
    BY <2>2 DEF Inv, HistoryWhole, Whole
<1>5. ASSUME NEW e \in Client PROVE Sound(e, job[e])'
  BY <1>1 DEF Inv, Sound, Known, DepsIn
<1> QED
  BY <1>3, <1>4, <1>5 DEF Inv

(* A job that has ended. *)
LEMMA IdleJob ==
    ASSUME NEW c, NEW r \in {"none", "ok", "failed"}, NEW tip, IsTip(tip),
           r = "ok" => tip \in was
    PROVE  JobOK(Idle(r, tip)) /\ Sound(c, Idle(r, tip))
  BY DEF Idle, JobOK, Sound

LEMMA FailInv ==
    ASSUME Inv, NEW c \in Client, Fail(c), UNCHANGED <<remote, held, was, local, objects>>
    PROVE  Inv'
<1>1. JobOK(Idle("failed", None)) /\ Sound(c, Idle("failed", None))
  BY IdleJob DEF IsTip
<1> QED
  BY <1>1, JobStep DEF Fail
---------------------------------------------------------------------------
(* Commands on the local repository. *)
LEMMA MakeCommitInv ==
    ASSUME Inv, NEW c \in Client, NEW n \in Name, NEW d \in Data, NEW s \in Stamp,
           MakeCommit(c, n, d, s)
    PROVE  Inv'
<1> DEFINE tip     == local[c]
           base    == IF tip = None THEN NoEntries ELSE tip.tree.entries
           entries == Overlay(base, [m \in {n} |-> Chunk(d)])
           tree    == Tree(entries)
           parents == IF tip = None THEN <<>> ELSE <<tip>>
           commit  == Commit(tree, parents, s)
           new     == {Chunk(d), tree, commit}
<1>1. /\ objects' = [objects EXCEPT ![c] = @ \cup new]
      /\ local' = [local EXCEPT ![c] = commit] \/ local' = local
      /\ UNCHANGED <<remote, held, was, job>>
  BY Zenon DEF MakeCommit
<1>2. /\ IsTip(tip) /\ Whole(objects[c], tip)
      /\ tip # None => IsCommit(tip) /\ IsTree(tip.tree)
  BY DEF Inv, TypeOK, HistoryWhole, IsTip, IsCommit
<1>3. /\ Range(base) \subseteq objects[c]
      /\ \A o \in Range(base) : IsFile(o)
  <2>1. CASE tip = None
    BY <2>1 DEF NoEntries, Range
  <2>2. CASE tip # None
    <3>1. tip.tree \in Deps(tip) /\ Deps(tip.tree) = Range(tip.tree.entries)
      BY <1>2, <2>2, Kinds
    <3>2. Range(tip.tree.entries) \subseteq objects[c]
      BY <1>2, <2>2, <3>1 DEF Whole
    <3> QED
      BY <1>2, <2>2, <3>2 DEF IsTree, Range
  <2> QED
    BY <2>1, <2>2
<1> HIDE DEF base
<1>4. Range([m \in {n} |-> Chunk(d)]) = {Chunk(d)} /\ IsFile(Chunk(d))
  BY DEF Range, IsFile
<1>5. /\ Range(entries) \subseteq Range(base) \cup {Chunk(d)}
      /\ entries = [m \in DOMAIN entries |-> entries[m]]
  BY <1>4, OverlayRange
<1> HIDE DEF entries
<1>6. IsTree(tree)
  BY <1>3, <1>4, <1>5, ObjectFields DEF IsTree, Range
<1>7. /\ parents \in Seq(Range(parents))
      /\ Range(parents) = {tip} \ {None}
  <2>1. CASE tip = None
    BY <2>1, ParentRange
  <2>2. CASE tip # None
    <3> HIDE DEF tip
    <3>1. parents = <<tip>> /\ {tip} \ {None} = {tip}
      BY <2>2
    <3> QED
      BY <3>1, ParentRange
  <2> QED
    BY <2>1, <2>2
<1> HIDE DEF parents
<1>8. IsCommit(commit)
  <2>1. \A p \in Range(parents) : p.type = "commit"
    BY <1>2, <1>7, Kinds
  <2>2. commit # None /\ commit.type = "commit" /\ commit.tree = tree /\ commit.parents = parents
    BY ObjectFields
  <2> QED
    BY <1>6, <1>7, <2>1, <2>2 DEF IsCommit
<1>9. /\ Deps(Chunk(d)) = {} /\ Deps(tree) = Range(entries)
      /\ Deps(commit) = {tree} \cup Range(parents)
  BY <1>4, <1>6, <1>8, Kinds, ObjectFields
<1>10. \A o \in new : IsObject(o) /\ Deps(o) \subseteq objects[c] \cup new
  BY <1>2, <1>3, <1>4, <1>5, <1>6, <1>7, <1>8, <1>9 DEF IsObject, Whole
<1> HIDE DEF commit, tree
<1> QED
  BY <1>1, <1>8, <1>10, StoreGrows

LEMMA MakeMergeInv ==
    ASSUME Inv, NEW c \in Client, NEW other \in CommitsMade \cap objects[c], NEW s \in Stamp,
           MakeMerge(c, other, s)
    PROVE  Inv'
<1> DEFINE tip    == local[c]
           merged == Commit(tip.tree, <<tip, other>>, s)
<1>1. IsCommit(other) /\ other \in objects[c]
  BY CommitOf DEF Inv, TypeOK, CommitsMade
<1>2. /\ IsCommit(tip) /\ tip \in objects[c]
      /\ tip.tree \in objects[c]
  <2>1. tip # None
    BY DEF MakeMerge
  <2>2. IsCommit(tip) /\ tip \in objects[c] /\ Deps(tip) \subseteq objects[c]
    BY <2>1 DEF Inv, TypeOK, HistoryWhole, Whole, IsTip
  <2> QED
    BY <2>2, Kinds
<1>3. \/ local' = [local EXCEPT ![c] = other] /\ UNCHANGED objects
      \/ /\ local' = [local EXCEPT ![c] = merged]
         /\ objects' = [objects EXCEPT ![c] = @ \cup {merged}]
  BY Zenon DEF MakeMerge
<1>4. UNCHANGED <<remote, held, was, job>>
  BY DEF MakeMerge
<1>5. IsCommit(merged) /\ Deps(merged) = {tip.tree, tip, other}
  <2>1. Range(<<tip, other>>) = {tip, other} /\ <<tip, other>> \in Seq(Range(<<tip, other>>))
    BY ParentRange
  <2>2. tip # None /\ other # None /\ IsTree(tip.tree)
    BY <1>1, <1>2 DEF IsCommit
  <2>3. IsCommit(merged)
    <3>1. /\ merged # None /\ merged.type = "commit"
          /\ merged.tree = tip.tree /\ merged.parents = <<tip, other>>
      BY ObjectFields
    <3>2. \A p \in {tip, other} : p.type = "commit"
      BY <1>1, <1>2, Kinds
    <3> QED
      BY <2>1, <2>2, <3>1, <3>2 DEF IsCommit
  <2> QED
    BY <2>1, <2>3, Kinds, ObjectFields
<1> HIDE DEF merged, tip
<1>6. CASE local' = [local EXCEPT ![c] = other] /\ UNCHANGED objects
  <2>1. objects' = [objects EXCEPT ![c] = @ \cup {}]
    BY <1>6 DEF Inv, TypeOK
  <2>2. \A o \in {} : IsObject(o) /\ Deps(o) \subseteq objects[c] \cup {}
    OBVIOUS
  <2>3. /\ local' = [local EXCEPT ![c] = other] \/ local' = local
        /\ other \in objects[c] \cup {}
    BY <1>1, <1>6
  <2> QED
    BY <1>1, <1>4, <2>1, <2>2, <2>3, StoreGrows
<1>7. CASE /\ local' = [local EXCEPT ![c] = merged]
           /\ objects' = [objects EXCEPT ![c] = @ \cup {merged}]
  <2>1. \A o \in {merged} : IsObject(o) /\ Deps(o) \subseteq objects[c] \cup {merged}
    BY <1>1, <1>2, <1>5 DEF IsObject
  <2>2. /\ local' = [local EXCEPT ![c] = merged] \/ local' = local
        /\ merged \in objects[c] \cup {merged}
    BY <1>7
  <2> QED
    BY <1>4, <1>5, <1>7, <2>1, <2>2, StoreGrows
<1> QED
  BY <1>3, <1>6, <1>7

---------------------------------------------------------------------------
(* Clone. *)
LEMMA CloneInv ==
    ASSUME Inv, NEW c \in Client, CloneStep(c)
    PROVE  Inv'
<1>1. CASE CloneDiscover(c)
  <2> DEFINE j == [pc |-> "clone", want |-> remote]
  <2>1. JobOK(j) /\ Sound(c, j)
    BY <1>1 DEF CloneDiscover, Inv, TypeOK, JobOK, Sound, IsTip
  <2> QED
    BY <1>1, <2>1, JobStep DEF CloneDiscover
<1>2. CASE CloneReceive(c)
  <2>1. /\ objects' = [objects EXCEPT ![c] = @ \cup held]
        /\ local' = [local EXCEPT ![c] = job[c].want]
        /\ Goto(c, Idle("none", None))
        /\ UNCHANGED <<remote, held, was>>
    BY <1>2 DEF CloneReceive
  <2> DEFINE want == job[c].want
  <2>2. IsCommit(want) /\ want \in held
    <3>1. JobOK(job[c]) /\ Sound(c, job[c]) /\ job[c].pc = "clone"
      BY <1>2 DEF Inv, TypeOK, CloneReceive, At
    <3> QED
      BY <3>1 DEF JobOK, Sound, Inv
  <2>3. /\ \A e \in Client : objects[e] \subseteq objects'[e]
        /\ \A e \in Client : job'[e] = IF e = c THEN Idle("none", None) ELSE job[e]
    BY <2>1 DEF Inv, TypeOK, Goto
  <2>4. JobOK(Idle("none", None)) /\ Sound(c, Idle("none", None))
    BY IdleJob DEF IsTip
  <2>5. TypeOK'
    <3>1. \A e \in Client : IsTip(local'[e]) /\ \A o \in objects'[e] : IsObject(o)
      BY <2>2, <2>1 DEF Inv, TypeOK, IsTip
    <3>2. \A e \in Client : JobOK(job'[e])
      BY <2>3, <2>4 DEF Inv, TypeOK
    <3> QED
      BY <2>1, <3>1, <3>2 DEF Inv, TypeOK, Goto
  <2>6. HistoryWhole'
    BY <2>2, <2>1 DEF Inv, TypeOK, HistoryWhole, Whole
  <2>7. ASSUME NEW e \in Client PROVE Sound(e, job[e])'
    <3>1. Sound(e, job'[e])
      BY <2>3, <2>4 DEF Inv
    <3> QED
      BY <2>1, <2>3, <3>1 DEF Sound, Known, DepsIn
  <2> QED
    BY <2>1, <2>5, <2>6, <2>7 DEF Inv
<1>3. CASE CloneFails(c)
  BY <1>3, FailInv DEF CloneFails
<1> QED
  BY <1>1, <1>2, <1>3 DEF CloneStep

---------------------------------------------------------------------------
(* Push. *)

(* What a walk is known to have: the facts its steps start from. *)
LEMMA CollectFacts ==
    ASSUME Inv, NEW c \in Client, At(c, "collect")
    PROVE  LET j == job[c]
               found == j.pack \cup Range(j.queue) \cup Known(j)
           IN  /\ IsTip(j.old) /\ IsCommit(j.new)
               /\ j.queue \in Seq(Range(j.queue))
               /\ \A o \in Range(j.queue) : IsCommit(o)
               /\ j.seen \subseteq j.pack
               /\ Known(j) \subseteq was
               /\ j.pack \subseteq objects[c]
               /\ Range(j.queue) \subseteq objects[c]
               /\ j.new \in found
               /\ DepsIn(j.pack, found)
<1>1. JobOK(job[c]) /\ Sound(c, job[c]) /\ job[c].pc = "collect"
  BY DEF Inv, TypeOK, At
<1> QED
  BY <1>1 DEF JobOK, Sound

LEMMA CollectingFields ==
    ASSUME NEW old, NEW new, NEW queue, NEW seen, NEW pack
    PROVE  LET j == Collecting(old, new, queue, seen, pack)
           IN  /\ j.pc = "collect" /\ j.old = old /\ j.new = new
               /\ j.queue = queue /\ j.seen = seen /\ j.pack = pack
               /\ Known(j) = {old} \ {None}
  BY DEF Collecting, Known

(* A walk that has, queued or known to the server, all that its pack names. *)
LEMMA CollectingInv ==
    ASSUME Inv, NEW c \in Client, NEW old, NEW new, NEW queue, NEW seen, NEW pack,
           Goto(c, Collecting(old, new, queue, seen, pack)),
           UNCHANGED <<remote, held, was, local, objects>>,
           IsTip(old), {old} \ {None} \subseteq was,
           IsCommit(new), new \in pack \cup Range(queue) \cup ({old} \ {None}),
           queue \in Seq(Range(queue)), \A o \in Range(queue) : IsCommit(o),
           Range(queue) \subseteq objects[c],
           seen \subseteq pack, pack \subseteq objects[c],
           DepsIn(pack, pack \cup Range(queue) \cup ({old} \ {None}))
    PROVE  Inv'
<1> DEFINE j == Collecting(old, new, queue, seen, pack)
<1>1. /\ j.pc = "collect" /\ j.old = old /\ j.new = new
      /\ j.queue = queue /\ j.seen = seen /\ j.pack = pack
      /\ Known(j) = {old} \ {None}
  BY CollectingFields
<1>2. Goto(c, j)
  OBVIOUS
<1> HIDE DEF j
<1>3. j.queue \in Seq(Range(j.queue))
  BY <1>1
<1>4. JobOK(j)
  BY <1>1, <1>3 DEF JobOK
<1>5. Sound(c, j)
  BY <1>1 DEF Sound
<1> QED
  BY <1>2, <1>4, <1>5, JobStep

LEMMA ReadInv ==
    ASSUME Inv, NEW c \in Client, PushDiscover(c) \/ PushRead(c)
    PROVE  Inv'
<1>1. CASE PushDiscover(c)
  <2> DEFINE j == [pc |-> "read", old |-> remote]
  <2>1. JobOK(j) /\ Sound(c, j)
    BY DEF Inv, TypeOK, JobOK, Sound, Known
  <2> QED
    BY <1>1, <2>1, JobStep DEF PushDiscover
<1>2. CASE PushRead(c)
  <2> DEFINE old == job[c].old
             new == local[c]
  <2>1. /\ IsTip(old) /\ {old} \ {None} \subseteq was
        /\ IsTip(new) /\ (new # None => new \in objects[c])
    <3>1. JobOK(job[c]) /\ Sound(c, job[c]) /\ job[c].pc = "read"
      BY <1>2 DEF Inv, TypeOK, PushRead, At
    <3> QED
      BY <3>1 DEF JobOK, Sound, Known, Inv, TypeOK, HistoryWhole, Whole
  <2>2. UNCHANGED <<remote, held, was, local, objects>>
    BY <1>2 DEF PushRead
  <2>3. CASE new = None
    BY <1>2, <2>2, <2>3, FailInv DEF PushRead, Unborn
  <2>4. CASE new # None /\ new = old
    <3>1. Goto(c, Idle("ok", new))
      BY <1>2, <2>4 DEF PushRead, Unborn
    <3>2. JobOK(Idle("ok", new)) /\ Sound(c, Idle("ok", new))
      BY <2>1, <2>4, IdleJob
    <3> QED
      BY <2>2, <3>1, <3>2, JobStep
  <2>5. CASE new # None /\ new # old
    <3> DEFINE queue == <<new>>
               none  == {}
    <3>1. Goto(c, Collecting(old, new, queue, none, none))
      BY <1>2, <2>5 DEF PushRead, Unborn
    <3>2. IsCommit(new)
      BY <2>1, <2>5 DEF IsTip
    <3> HIDE DEF old, new
    <3>3. Range(queue) = {new} /\ queue \in Seq(Range(queue))
      BY ParentRange
    <3>4. DepsIn(none, none \cup Range(queue) \cup ({old} \ {None}))
      BY DEF DepsIn
    <3>5. none \subseteq none /\ none \subseteq objects[c]
      OBVIOUS
    <3> HIDE DEF queue, none
    <3>6. /\ new \in none \cup Range(queue) \cup ({old} \ {None})
          /\ \A o \in Range(queue) : IsCommit(o)
          /\ Range(queue) \subseteq objects[c]
      BY <2>1, <2>5, <3>2, <3>3
    <3> QED
      BY <2>1, <2>2, <3>1, <3>2, <3>3, <3>4, <3>5, <3>6, CollectingInv
  <2> QED
    BY <2>3, <2>4, <2>5
<1> QED
  BY <1>1, <1>2

LEMMA PassOverInv ==
    ASSUME Inv, NEW c \in Client, PassOver(c)
    PROVE  Inv'
<1> DEFINE j     == job[c]
           o     == Head(j.queue)
           rest  == Tail(j.queue)
           seen  == j.seen \cup ({o} \ {j.old})
           found == j.pack \cup Range(j.queue) \cup Known(j)
<1>1. /\ At(c, "collect") /\ j.queue # <<>>
      /\ StopsAt(j, o) \/ o \notin objects[c]
      /\ Goto(c, Collecting(j.old, j.new, rest, seen, j.pack))
      /\ UNCHANGED <<remote, held, was, local, objects>>
  BY DEF PassOver
<1>2. /\ IsTip(j.old) /\ IsCommit(j.new)
      /\ j.queue \in Seq(Range(j.queue))
      /\ \A x \in Range(j.queue) : IsCommit(x)
      /\ j.seen \subseteq j.pack /\ j.pack \subseteq objects[c]
      /\ Known(j) \subseteq was /\ Range(j.queue) \subseteq objects[c]
      /\ j.new \in found /\ DepsIn(j.pack, found)
  BY <1>1, CollectFacts
<1>3. /\ o \in Range(j.queue) /\ rest \in Seq(Range(rest))
      /\ Range(j.queue) = Range(rest) \cup {o}
  BY <1>1, <1>2, ParentRange, QueueRange
<1> HIDE DEF o, rest, j
<1>4. o \in j.pack \cup Known(j)
  BY <1>1, <1>2, <1>3, Kinds DEF StopsAt, Known
<1>5. seen \subseteq j.pack
  BY <1>2, <1>4 DEF Known
<1>6. found = j.pack \cup Range(rest) \cup ({j.old} \ {None})
  BY <1>3, <1>4 DEF Known
<1> QED
  BY <1>1, <1>2, <1>3, <1>5, <1>6, CollectingInv DEF Known

LEMMA CollectInv ==
    ASSUME Inv, NEW c \in Client, Collect(c)
    PROVE  Inv'
<1> DEFINE j     == job[c]
           o     == Head(j.queue)
           queue == Tail(j.queue) \o o.parents
           more  == {o} \cup TreeObjects(o.tree, objects[c])
           pack  == j.pack \cup more
           found == j.pack \cup Range(j.queue) \cup Known(j)
<1>1. /\ At(c, "collect") /\ j.queue # <<>> /\ o \in objects[c]
      /\ Goto(c, Collecting(j.old, j.new, queue, j.seen \cup more \cup {o.tree}, pack))
      /\ UNCHANGED <<remote, held, was, local, objects>>
  BY DEF Collect
<1>2. /\ IsTip(j.old) /\ IsCommit(j.new)
      /\ j.queue \in Seq(Range(j.queue))
      /\ \A x \in Range(j.queue) : IsCommit(x)
      /\ j.seen \subseteq j.pack /\ j.pack \subseteq objects[c]
      /\ Known(j) \subseteq was /\ Range(j.queue) \subseteq objects[c]
      /\ j.new \in found /\ DepsIn(j.pack, found)
  BY <1>1, CollectFacts
<1>3. o \in Range(j.queue)
  BY <1>1, <1>2, ParentRange, QueueRange
<1>4. /\ IsCommit(o) /\ IsTree(o.tree) /\ o.parents \in Seq(Range(o.parents))
      /\ Deps(o) = {o.tree} \cup Range(o.parents)
      /\ Deps(o.tree) = Range(o.tree.entries)
      /\ \A x \in Range(o.tree.entries) : IsFile(x) /\ Deps(x) = {}
  <2>1. IsCommit(o) /\ IsTree(o.tree) /\ o.parents \in Seq(Range(o.parents))
    BY <1>2, <1>3 DEF IsCommit
  <2>2. \A x \in Range(o.tree.entries) : IsFile(x)
    BY <2>1 DEF IsTree, Range
  <2> QED
    BY <2>1, <2>2, Kinds
<1>5. /\ Range(j.queue) = Range(Tail(j.queue)) \cup {o}
      /\ queue \in Seq(Range(queue))
      /\ Range(queue) = Range(Tail(j.queue)) \cup Range(o.parents)
  BY <1>1, <1>2, <1>4, QueueRange
<1> HIDE DEF o, queue, j
<1>6. Deps(o) \subseteq objects[c] /\ Deps(o.tree) \subseteq objects[c]
  BY <1>1, <1>4 DEF Inv, HistoryWhole, Whole
<1>7. more = {o, o.tree} \cup Range(o.tree.entries)
  BY <1>4, <1>6 DEF TreeObjects
<1>8. /\ Range(queue) \subseteq objects[c] /\ pack \subseteq objects[c]
      /\ j.seen \cup more \cup {o.tree} \subseteq pack
  BY <1>1, <1>2, <1>4, <1>5, <1>6, <1>7
<1>9. \A x \in Range(queue) : IsCommit(x)
  <2>1. \A x \in Range(o.parents) : IsObject(x) /\ x.type = "commit"
    BY <1>4, <1>6 DEF IsCommit, Inv, TypeOK
  <2>2. \A x \in Range(o.parents) : IsCommit(x)
    BY <2>1, CommitOf
  <2> QED
    BY <1>2, <1>5, <2>2
<1>10. DepsIn(pack, pack \cup Range(queue) \cup ({j.old} \ {None}))
  BY <1>2, <1>4, <1>5, <1>7 DEF DepsIn, Known
<1>11. j.new \in pack \cup Range(queue) \cup ({j.old} \ {None})
  BY <1>2, <1>5 DEF Known
<1> QED
  BY <1>1, <1>2, <1>5, <1>8, <1>9, <1>10, <1>11, CollectingInv DEF Known

LEMMA PackInv ==
    ASSUME Inv, NEW c \in Client, Pack(c)
    PROVE  Inv'
<1> DEFINE j    == job[c]
           sent == [pc |-> "send", old |-> j.old, new |-> j.new, pack |-> j.pack]
<1>1. At(c, "collect") /\ j.queue = <<>> /\ UNCHANGED <<remote, held, was, local, objects>>
  BY DEF Pack
<1>2. /\ IsTip(j.old) /\ IsCommit(j.new)
      /\ Known(j) \subseteq was /\ j.pack \subseteq objects[c]
      /\ j.new \in j.pack \cup Range(j.queue) \cup Known(j)
      /\ DepsIn(j.pack, j.pack \cup Range(j.queue) \cup Known(j))
  BY <1>1, CollectFacts
<1>3. j.pack \cup Range(j.queue) \cup Known(j) = j.pack \cup Known(j)
  BY <1>1, ParentRange
<1>4. JobOK(sent)
  BY <1>2 DEF JobOK
<1>5. Sound(c, sent)
  BY <1>2, <1>3 DEF Sound, Known
<1>6. Goto(c, sent) \/ Fail(c)
  BY DEF Pack
<1> QED
  BY <1>1, <1>4, <1>5, <1>6, JobStep, FailInv

(* What has been sent. *)
LEMMA SendFacts ==
    ASSUME Inv, NEW c \in Client, At(c, "send")
    PROVE  LET j == job[c]
           IN  /\ IsTip(j.old) /\ IsCommit(j.new)
               /\ Known(j) \subseteq was /\ was \subseteq held
               /\ j.pack \subseteq objects[c]
               /\ j.new \in j.pack \cup Known(j)
               /\ DepsIn(j.pack, j.pack \cup Known(j))
<1>1. JobOK(job[c]) /\ Sound(c, job[c]) /\ job[c].pc = "send"
  BY DEF Inv, TypeOK, At
<1> QED
  BY <1>1 DEF JobOK, Sound, Inv

LEMMA ReplyJob ==
    ASSUME NEW c, NEW j, IsCommit(j.new), NEW status \in {"ok", "ng"},
           status = "ok" => j.new \in was
    PROVE  JobOK(Reply(j, status)) /\ Sound(c, Reply(j, status))
  BY DEF Reply, JobOK, Sound

LEMMA AcceptInv ==
    ASSUME Inv, NEW c \in Client, ServerAccepts(c)
    PROVE  Inv'
<1>1. /\ At(c, "send") /\ remote' = job[c].new
      /\ held' = held \cup job[c].pack /\ was' = was \cup {job[c].new}
      /\ Goto(c, Reply(job[c], "ok")) /\ UNCHANGED <<local, objects>>
  BY DEF ServerAccepts
<1> DEFINE j     == job[c]
           reply == Reply(j, "ok")
<1>2. /\ IsCommit(j.new) /\ Known(j) \subseteq was /\ was \subseteq held
      /\ j.pack \subseteq objects[c] /\ j.new \in j.pack \cup Known(j)
      /\ DepsIn(j.pack, j.pack \cup Known(j))
  BY <1>1, SendFacts
<1>3. /\ \A e \in Client : job'[e] = IF e = c THEN reply ELSE job[e]
      /\ job' = [e \in Client |-> job'[e]]
  BY <1>1 DEF Inv, TypeOK, Goto
<1>4. reply.pc = "reply" /\ reply.new = j.new /\ reply.status = "ok"
  BY DEF Reply
<1> HIDE DEF reply, j
<1>5. TypeOK'
  <2>1. JobOK(reply)
    BY <1>2, <1>4 DEF JobOK
  <2>2. \A e \in Client : JobOK(job'[e])
    BY <1>3, <2>1 DEF Inv, TypeOK
  <2>3. IsTip(remote') /\ \A o \in held' : IsObject(o)
    BY <1>1, <1>2 DEF Inv, TypeOK, IsTip, j
  <2> QED
    BY <1>1, <1>3, <2>2, <2>3 DEF Inv, TypeOK
<1>6. HistoryWhole'
  <2>1. Whole(held', remote')
    BY <1>1, <1>2 DEF Inv, HistoryWhole, Whole, DepsIn, j
  <2> QED
    BY <1>1, <2>1 DEF Inv, HistoryWhole, Whole
<1>7. ({remote} \ {None} \subseteq was)' /\ (was \subseteq held)'
  BY <1>1, <1>2 DEF j
<1>8. ASSUME NEW e \in Client PROVE Sound(e, job[e])'
  <2>1. CASE e = c
    BY <1>1, <1>3, <1>4, <2>1 DEF Sound, j
  <2>2. CASE e # c
    BY <1>1, <1>3, <2>2 DEF Inv, Sound, Known, DepsIn
  <2> QED
    BY <2>1, <2>2
<1> QED
  BY <1>5, <1>6, <1>7, <1>8 DEF Inv

LEMMA ServerInv ==
    ASSUME Inv, NEW c \in Client,
           \/ ServerRejects(c) \/ RequestLost(c)
           \/ PushReport(c) \/ PushReportCut(c) \/ ResponseLost(c)
    PROVE  Inv'
<1>1. CASE ServerRejects(c)
  <2>1. IsCommit(job[c].new)
    BY <1>1, SendFacts DEF ServerRejects
  <2> QED
    BY <1>1, <2>1, ReplyJob, JobStep DEF ServerRejects
<1>2. CASE RequestLost(c) \/ ResponseLost(c)
  BY <1>2, FailInv DEF RequestLost, ResponseLost
<1>3. CASE PushReport(c)
  <2> DEFINE j == job[c]
             r == Reports({j.status})
  <2>1. /\ IsCommit(j.new) /\ j.status \in {"ok", "ng"}
        /\ j.status = "ok" => j.new \in was
    <3>1. JobOK(job[c]) /\ Sound(c, job[c]) /\ job[c].pc = "reply"
      BY <1>3 DEF Inv, TypeOK, PushReport, At
    <3> QED
      BY <3>1 DEF JobOK, Sound
  <2>2. r \in {"ok", "failed"} /\ (r = "ok" => j.status = "ok")
    BY <2>1 DEF Reports
  <2>3. /\ Goto(c, Idle(r, j.new))
        /\ UNCHANGED <<remote, held, was, local, objects>>
    BY <1>3 DEF PushReport
  <2> HIDE DEF j, r
  <2>4. JobOK(Idle(r, j.new)) /\ Sound(c, Idle(r, j.new))
    BY <2>1, <2>2, IdleJob DEF IsTip
  <2> QED
    BY <2>3, <2>4, JobStep
<1>4. CASE PushReportCut(c)
  <2> DEFINE r == Reports({})
             told == [Idle(r, job[c].new) EXCEPT !.told = FALSE]
  <2>1. /\ Goto(c, told) /\ At(c, "reply")
        /\ UNCHANGED <<remote, held, was, local, objects>>
    BY <1>4 DEF PushReportCut
  <2>2. IsCommit(job[c].new)
    BY <2>1 DEF Inv, TypeOK, JobOK, At
  <2>3. r = "ok"
    BY DEF Reports
  <2> HIDE DEF r
  <2>4. told.pc = "idle" /\ told.result = "ok" /\ told.new = job[c].new /\ told.told = FALSE
    BY <2>3 DEF Idle
  <2> HIDE DEF told
  <2>5. JobOK(told) /\ Sound(c, told)
    BY <2>2, <2>4 DEF JobOK, Sound, IsTip
  <2> QED
    BY <2>1, <2>5, JobStep
<1> QED
  BY <1>1, <1>2, <1>3, <1>4

---------------------------------------------------------------------------
LEMMA InitInv == Init => Inv
<1> SUFFICES ASSUME Init PROVE Inv
  OBVIOUS
<1>1. \A c \in Client : job[c] = Idle("none", None)
  BY DEF Init
<1>2. \A c \in Client : JobOK(job[c]) /\ Sound(c, job[c])
  BY <1>1, IdleJob DEF IsTip
<1> QED
  BY <1>2 DEF Init, Inv, TypeOK, HistoryWhole, Whole, IsTip

LEMMA NextInv == Inv /\ [Next]_vars => Inv'
<1> SUFFICES ASSUME Inv, [Next]_vars PROVE Inv'
  OBVIOUS
<1>1. ASSUME NEW c \in Client, NEW n \in Name, NEW d \in Data, NEW s \in Stamp,
             MakeCommit(c, n, d, s)
      PROVE  Inv'
  BY <1>1, MakeCommitInv
<1>2. ASSUME NEW c \in Client, NEW other \in CommitsMade \cap objects[c], NEW s \in Stamp,
             MakeMerge(c, other, s)
      PROVE  Inv'
  BY <1>2, MakeMergeInv
<1>3. ASSUME NEW c \in Client, CloneStep(c) PROVE Inv'
  BY <1>3, CloneInv
<1>4. ASSUME NEW c \in Client, PushStep(c) PROVE Inv'
  BY <1>4, ReadInv, PassOverInv, CollectInv, PackInv, AcceptInv, ServerInv DEF PushStep
<1>5. CASE UNCHANGED vars
  BY <1>5 DEF vars, Inv, TypeOK, HistoryWhole, Whole, Sound
<1> QED
  BY <1>1, <1>2, <1>3, <1>4, <1>5 DEF Next

LEMMA Invariance == Spec => []Inv
  BY InitInv, NextInv, PTL DEF Spec

---------------------------------------------------------------------------
(* What is stored, sent and named is made of well-formed objects. *)
THEOREM Typing == Spec => []TypeOK
<1>1. Inv => TypeOK
  BY DEF Inv
<1> QED
  BY <1>1, Invariance, PTL

(* Whatever is lost and whoever else pushes in between, the server's branch *)
(* has its whole history on the server and each repository's in it.         *)
THEOREM HistoryIsWhole == Spec => []HistoryWhole
<1>1. Inv => HistoryWhole
  BY DEF Inv
<1> QED
  BY <1>1, Invariance, PTL

(* A push that reports success has put its commit on the server's branch, *)
(* or found it there, unless its report ended after "unpack ok".          *)
THEOREM SuccessesAreTrue == Spec => []SuccessIsTrue
<1>1. Inv => SuccessIsTrue
  BY DEF Inv, Sound, SuccessIsTrue, Quiet
<1> QED
  BY <1>1, Invariance, PTL

(* A push that puts a commit on the server's branch found the branch where  *)
(* it had discovered it, and the commit is one its repository stores.       *)
THEOREM PushesReplaceDiscovered == Spec => ReplacesDiscovered
<1> DEFINE Replaces == remote' # remote => \E c \in Client : /\ At(c, "send")
                                                            /\ remote = job[c].old
                                                            /\ remote' \in objects[c]
<1>1. ASSUME Inv, NEW c \in Client, ServerAccepts(c) PROVE Replaces
  <2>1. At(c, "send") /\ remote = job[c].old /\ remote' = job[c].new
    BY <1>1 DEF ServerAccepts, OldOf
  <2>2. job[c].new \in job[c].pack \cup Known(job[c]) /\ job[c].pack \subseteq objects[c]
    BY <1>1, <2>1, SendFacts
  <2> QED
    BY <2>1, <2>2 DEF Known
<1>2. ASSUME Inv, NEW c \in Client, PushStep(c) PROVE Replaces
  <2>1. ServerAccepts(c) \/ UNCHANGED remote
    BY <1>2 DEF PushStep, PushDiscover, PushRead, PassOver, Collect, Pack, ServerRejects,
                RequestLost, PushReport, PushReportCut, ResponseLost
  <2> QED
    BY <1>1, <1>2, <2>1
<1>3. Inv /\ [Next]_vars => [Replaces]_vars
  BY <1>2 DEF Next, MakeCommit, MakeMerge, CloneStep, CloneDiscover, CloneReceive, CloneFails
<1> QED
  BY <1>3, Invariance, PTL DEF Spec, ReplacesDiscovered

=============================================================================
