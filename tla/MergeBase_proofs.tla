-------------------------- MODULE MergeBase_proofs -------------------------
(***************************************************************************)
(* find_merge_base is correct for every history: what it returns is a      *)
(* common ancestor, no common ancestor is nearer to `right`, and it fails  *)
(* only if there is none.  The first invariant is the usual one of a       *)
(* search: what was visited is reachable, and only what is queued or       *)
(* pending can lead out of it.  A walk that has emptied its queue has      *)
(* therefore visited a closed set, and the ancestors of a commit are the   *)
(* least closed set that holds it.  The second invariant is that of a walk *)
(* by levels.  The walks end because each turn of a loop has less to do.    *)
(*                                                                         *)
(* merge_trees, which is handed that base, is correct for all trees: it    *)
(* loses no change, does not tell the sides apart, and fails at conflicts  *)
(* only.  Both the recursion and the proofs go down directories that are   *)
(* less deep each time.                                                    *)
(***************************************************************************)
EXTENDS MCMergeBase, TreeMerge, SequenceTheorems, FiniteSetTheorems, TLAPS

(* What the walk from c has visited leads nowhere but to what it visited   *)
(* and to the pending parents, except through the queue.                   *)
Frontier(c) ==
    /\ c \in visited
    /\ visited \subseteq Ancestors(c)
    /\ Range(queue) \subseteq visited
    /\ Range(pending) \subseteq Ancestors(c)
    /\ \A d \in visited \ Range(queue) : Range(parents[d]) \subseteq visited \cup Range(pending)

WalkOK ==
    /\ pc = "left" => Frontier(left)
    /\ pc = "right" =>
        /\ ancestors = Ancestors(left)
        /\ Frontier(right)
        /\ (visited \ Range(queue)) \cap ancestors = {}
    /\ pc # "done" => base = NoCommit
    /\ BaseIsCommon

---------------------------------------------------------------------------
(* Ancestors(c) is the least closed set that holds c. *)
LEMMA AncestorsSelf == ASSUME NEW c \in CommitId PROVE c \in Ancestors(c)
  BY DEF Ancestors

LEMMA AncestorsClosed ==
  ASSUME TypeOK, NEW c \in CommitId, NEW d \in Ancestors(c)
  PROVE  Range(parents[d]) \subseteq Ancestors(c)
<1>1. d \in CommitId /\ parents[d] \in Seq(CommitId)
  BY DEF Ancestors, TypeOK
<1>2. Range(parents[d]) \subseteq CommitId
  BY <1>1, RangeOfSeq
<1>3. ASSUME NEW e \in Range(parents[d]), NEW S \in SUBSET CommitId, c \in S, Closed(S)
      PROVE  e \in S
  BY <1>3 DEF Ancestors, Closed
<1> QED
  BY <1>2, <1>3 DEF Ancestors

LEMMA AncestorsLeast ==
  ASSUME NEW c \in CommitId, NEW S \in SUBSET CommitId, c \in S, Closed(S)
  PROVE  Ancestors(c) \subseteq S
  BY DEF Ancestors

(* The ranges the loops' operations on the queue produce. *)
LEMMA RangeOfTail ==
  ASSUME NEW S, NEW q \in Seq(S), q # <<>>
  PROVE  /\ Tail(q) \in Seq(S)
         /\ Head(q) \in S
         /\ Range(q) = Range(Tail(q)) \cup {Head(q)}
<1>1. Tail(q) \in Seq(S) /\ Head(q) \in S /\ q = <<Head(q)>> \o Tail(q)
  BY HeadTailProperties, ConcatProperties, SeqEqual
<1>2. Range(<<Head(q)>>) = {Head(q)}
  BY DEF Range
<1>3. <<Head(q)>> \in Seq(S)
  BY <1>1
<1>4. Range(<<Head(q)>> \o Tail(q)) = Range(<<Head(q)>>) \cup Range(Tail(q))
  BY <1>1, <1>3, RangeConcatenation, ZenonT(30)
<1> QED
  BY <1>1, <1>2, <1>4

LEMMA RangeOfAppend ==
  ASSUME NEW S, NEW q \in Seq(S), NEW e \in S
  PROVE  /\ Append(q, e) \in Seq(S)
         /\ Range(Append(q, e)) = Range(q) \cup {e}
<1>1. Append(q, e) = q \o <<e>> /\ <<e>> \in Seq(S) /\ Append(q, e) \in Seq(S)
  BY AppendIsConcat, AppendProperties
<1>2. Range(<<e>>) = {e}
  BY DEF Range
<1>3. Range(q \o <<e>>) = Range(q) \cup Range(<<e>>)
  BY <1>1, RangeConcatenation, ZenonT(30)
<1> QED
  BY <1>1, <1>2, <1>3

---------------------------------------------------------------------------
LEMMA InitType == Init => TypeOK
  BY HistoriesAssumption DEF Init, TypeOK

LEMMA NextType == TypeOK /\ [Next]_vars => TypeOK'
<1> SUFFICES ASSUME TypeOK, [Next]_vars PROVE TypeOK'
  OBVIOUS
<1>1. CASE VisitLeft \/ VisitRight
  <2>1. queue' \in Seq(CommitId) /\ pending' \in Seq(CommitId)
    BY <1>1, RangeOfTail, ZenonT(30) DEF VisitLeft, VisitRight, Pop, Rest, TypeOK
  <2> QED
    BY <1>1, <2>1 DEF VisitLeft, VisitRight, history, TypeOK
<1>2. CASE PushParent
  <2>1. Head(pending) \in CommitId /\ pending' \in Seq(CommitId)
    BY <1>2, RangeOfTail DEF PushParent, TypeOK
  <2>2. Append(queue, Head(pending)) \in Seq(CommitId)
    BY <2>1, RangeOfAppend DEF TypeOK
  <2>3. queue' \in Seq(CommitId) /\ visited' \subseteq CommitId
    BY <1>2, <2>1, <2>2 DEF PushParent, TypeOK
  <2> QED
    BY <1>2, <2>1, <2>3 DEF PushParent, history, TypeOK
<1>3. CASE TurnRight
  BY <1>3 DEF TurnRight, Start, Range, history, TypeOK
<1>4. CASE Found \/ Exhausted
  BY <1>4, RangeOfTail DEF Found, Exhausted, history, TypeOK
<1>5. CASE UNCHANGED vars
  BY <1>5 DEF vars, history, TypeOK
<1> QED
  BY <1>1, <1>2, <1>3, <1>4, <1>5 DEF Next

(* The types of a walk, for any history, any two commits and any missing   *)
(* ones.                                                                    *)
THEOREM Typing == Spec => []TypeOK
  BY InitType, NextType, PTL DEF Spec

---------------------------------------------------------------------------
(* The history does not change, so neither do ancestors. *)
LEMMA AncestorsStay ==
  ASSUME UNCHANGED history
  PROVE  \A c : Ancestors(c)' = Ancestors(c)
  BY DEF history, Ancestors, Closed

(* A popped commit's parents become pending: nothing else leads out. *)
LEMMA PopFrontier ==
  ASSUME TypeOK, NEW c \in CommitId, Frontier(c), UNCHANGED <<history, visited>>,
         pending = <<>>, queue # <<>>, Pop
  PROVE  Frontier(c)' /\ Range(queue) = Range(queue') \cup {Head(queue)}
<1>1. /\ queue' = Tail(queue)
      /\ Head(queue) \in CommitId
      /\ Range(queue) = Range(queue') \cup {Head(queue)}
  BY RangeOfTail DEF Pop, Rest, TypeOK
<1>2. Range(pending) = {} /\ Head(queue) \in Ancestors(c)
  BY <1>1 DEF Frontier, Range
<1>3. Range(pending') \subseteq Ancestors(c)
  BY <1>2, AncestorsClosed DEF Pop
<1>4. visited' = visited /\ parents' = parents /\ Ancestors(c)' = Ancestors(c)
  BY AncestorsStay DEF history
<1>5. \A d \in visited' \ Range(queue') : Range(parents'[d]) \subseteq visited' \cup Range(pending')
  BY <1>1, <1>2, <1>4 DEF Frontier, Pop
<1> QED
  BY <1>1, <1>3, <1>4, <1>5 DEF Frontier

(* A pending parent is queued, or was visited before. *)
LEMMA PushFrontier ==
  ASSUME TypeOK, NEW c \in CommitId, Frontier(c), PushParent
  PROVE  /\ Frontier(c)'
         /\ visited' \ Range(queue') = visited \ Range(queue)
<1> DEFINE parent == Head(pending)
<1>1. parent \in CommitId /\ Range(pending) = Range(pending') \cup {parent}
  BY RangeOfTail DEF PushParent, TypeOK
<1>2. parents' = parents /\ Ancestors(c)' = Ancestors(c)
  BY AncestorsStay DEF PushParent, history
<1>3. CASE parent \notin visited
  <2>1. visited' = visited \cup {parent} /\ Range(queue') = Range(queue) \cup {parent}
    <3>1. Range(Append(queue, parent)) = Range(queue) \cup {parent}
      BY <1>1, RangeOfAppend DEF TypeOK
    <3> QED
      BY <1>3, <3>1 DEF PushParent, IsNew
  <2> HIDE DEF parent
  <2> QED
    BY <1>1, <1>2, <1>3, <2>1 DEF Frontier
<1>4. CASE parent \in visited
  <2>1. UNCHANGED <<queue, visited>>
    BY <1>4 DEF PushParent, IsNew
  <2> HIDE DEF parent
  <2> QED
    BY <1>1, <1>2, <1>4, <2>1 DEF Frontier
<1> QED
  BY <1>3, <1>4

(* A walk with nothing queued or pending has visited every ancestor. *)
LEMMA WalkEnds ==
  ASSUME TypeOK, NEW c \in CommitId, Frontier(c), queue = <<>>, pending = <<>>
  PROVE  visited = Ancestors(c)
<1>1. Range(queue) = {} /\ Range(pending) = {}
  BY DEF Range
<1>2. Closed(visited)
  BY <1>1 DEF Frontier, Closed
<1> QED
  BY <1>2, AncestorsLeast DEF Frontier, TypeOK

---------------------------------------------------------------------------
LEMMA InitWalk == Init => WalkOK
<1> SUFFICES ASSUME Init PROVE WalkOK
  OBVIOUS
<1>1. left \in CommitId /\ right \in CommitId /\ NoCommit \notin CommitId /\ left \in Ancestors(left)
  BY HistoriesAssumption, AncestorsSelf DEF Init
<1>2. Range(queue) = {left} /\ Range(pending) = {} /\ visited = {left}
  BY DEF Init, Range
<1>3. Frontier(left)
  BY <1>1, <1>2 DEF Frontier
<1>4. BaseIsCommon
  BY <1>1 DEF Init, BaseIsCommon
<1> QED
  BY <1>3, <1>4 DEF Init, WalkOK

LEMMA NextWalk == TypeOK /\ WalkOK /\ [Next]_vars => WalkOK'
<1> SUFFICES ASSUME TypeOK, WalkOK, [Next]_vars PROVE WalkOK'
  OBVIOUS
<1>0. left \in CommitId /\ right \in CommitId /\ NoCommit \notin CommitId
  BY HistoriesAssumption DEF TypeOK
<1>1. CASE VisitLeft
  <2>1. Frontier(left)'
    BY <1>0, <1>1, PopFrontier DEF VisitLeft, WalkOK, history, Frontier
  <2> QED
    BY <1>1, <2>1 DEF VisitLeft, WalkOK, BaseIsCommon
<1>2. CASE PushParent
  <2>1. CASE pc = "left"
    <3>1. Frontier(left)'
      BY <1>0, <1>2, <2>1, PushFrontier DEF WalkOK, PushParent, history, Frontier
    <3> QED
      BY <1>2, <2>1, <3>1 DEF PushParent, WalkOK, BaseIsCommon
  <2>2. CASE pc = "right"
    <3>1. Frontier(right)' /\ visited' \ Range(queue') = visited \ Range(queue)
      BY <1>0, <1>2, <2>2, PushFrontier DEF WalkOK, PushParent, history, Frontier
    <3>2. Ancestors(left)' = Ancestors(left) /\ left' = left
      BY <1>2, AncestorsStay DEF PushParent, history
    <3> QED
      BY <1>2, <2>2, <3>1, <3>2 DEF PushParent, WalkOK, BaseIsCommon
  <2>3. CASE pc = "done"
    <3>1. UNCHANGED <<history, pc, base>> /\ \A c : Ancestors(c)' = Ancestors(c)
      BY <1>2, AncestorsStay DEF PushParent
    <3> QED
      BY <2>3, <3>1 DEF WalkOK, BaseIsCommon, history
  <2> QED
    BY <2>1, <2>2, <2>3 DEF TypeOK
<1>3. CASE TurnRight
  <2>1. visited = Ancestors(left)
    BY <1>0, <1>3, WalkEnds DEF TurnRight, WalkOK
  <2>2. Ancestors(left)' = Ancestors(left) /\ Ancestors(right)' = Ancestors(right) /\ UNCHANGED history
    BY <1>3, AncestorsStay DEF TurnRight, history
  <2>3. Range(queue') = {right} /\ visited' = {right} /\ Range(pending') = {}
    BY <1>3 DEF TurnRight, Start, Range
  <2>4. Frontier(right)'
    BY <1>0, <2>2, <2>3, AncestorsSelf DEF Frontier, history
  <2> QED
    BY <1>3, <2>1, <2>2, <2>3, <2>4 DEF TurnRight, WalkOK, BaseIsCommon
<1>4. CASE VisitRight
  <2>1. Frontier(right)' /\ Range(queue) = Range(queue') \cup {Head(queue)}
    BY <1>0, <1>4, PopFrontier DEF VisitRight, WalkOK, history, Frontier
  <2>2. Ancestors(left)' = Ancestors(left) /\ left' = left
    BY <1>4, AncestorsStay DEF VisitRight, history
  <2> QED
    BY <1>4, <2>1, <2>2 DEF VisitRight, IsCommon, WalkOK, BaseIsCommon
<1>5. CASE Found
  <2>1. Head(queue) \in CommitId /\ Head(queue) \in Range(queue)
    BY <1>5, RangeOfTail DEF Found, TypeOK
  <2>2. \A c : Ancestors(c)' = Ancestors(c)
    BY <1>5, AncestorsStay DEF Found
  <2> QED
    BY <1>0, <1>5, <2>1, <2>2 DEF Found, IsCommon, WalkOK, Frontier, BaseIsCommon, history
<1>6. CASE Exhausted
  <2>1. visited = Ancestors(right) /\ Range(queue) = {}
    BY <1>0, <1>6, WalkEnds DEF Exhausted, WalkOK, Range
  <2>2. \A c : Ancestors(c)' = Ancestors(c)
    BY <1>6, AncestorsStay DEF Exhausted
  <2> QED
    BY <1>6, <2>1, <2>2 DEF Exhausted, WalkOK, BaseIsCommon, history
<1>7. CASE UNCHANGED vars
  <2>1. \A c : Ancestors(c)' = Ancestors(c)
    BY <1>7, AncestorsStay DEF vars
  <2> QED
    BY <1>7, <2>1 DEF vars, history, WalkOK, Frontier, BaseIsCommon
<1> QED
  BY <1>1, <1>2, <1>3, <1>4, <1>5, <1>6, <1>7 DEF Next

(* find_merge_base returns a common ancestor of any two commits of any     *)
(* history that have one, and reports that there is none only if so.       *)
THEOREM MergeBaseIsCommon == Spec => []BaseIsCommon
<1>1. WalkOK => BaseIsCommon
  BY DEF WalkOK
<1> QED
  BY <1>1, Typing, InitWalk, NextWalk, PTL DEF Spec

---------------------------------------------------------------------------
(* What keeps a commit from being queued a second time: it is marked       *)
(* visited when it is queued, and only then.                                *)
QueueOK == QueuedOnce /\ Range(queue) \subseteq visited

LEMMA InjectiveTail ==
  ASSUME NEW S, NEW q \in Seq(S), q # <<>>, IsInjective(q)
  PROVE  IsInjective(Tail(q))
<1>1. /\ Len(q) \in Nat \ {0} /\ DOMAIN q = 1..Len(q)
      /\ DOMAIN Tail(q) = 1..(Len(q) - 1)
      /\ \A i \in 1..(Len(q) - 1) : Tail(q)[i] = q[i + 1]
  BY HeadTailProperties, LenProperties, EmptySeq
<1>2. ASSUME NEW i \in DOMAIN Tail(q), NEW j \in DOMAIN Tail(q), Tail(q)[i] = Tail(q)[j]
      PROVE  i = j
  <2>1. i + 1 \in DOMAIN q /\ j + 1 \in DOMAIN q /\ q[i + 1] = q[j + 1] /\ i \in Nat /\ j \in Nat
    BY <1>1, <1>2
  <2> QED
    BY <2>1 DEF IsInjective
<1> QED
  BY <1>2 DEF IsInjective

LEMMA InjectiveAppend ==
  ASSUME NEW S, NEW q \in Seq(S), NEW e \in S, IsInjective(q), e \notin Range(q)
  PROVE  IsInjective(Append(q, e))
<1>1. /\ Len(q) \in Nat /\ DOMAIN q = 1..Len(q)
      /\ DOMAIN Append(q, e) = 1..(Len(q) + 1)
      /\ \A i \in 1..Len(q) : Append(q, e)[i] = q[i] /\ q[i] # e
      /\ Append(q, e)[Len(q) + 1] = e
  BY AppendProperties, LenProperties DEF Range
<1>2. ASSUME NEW i \in DOMAIN Append(q, e), NEW j \in DOMAIN Append(q, e),
             Append(q, e)[i] = Append(q, e)[j]
      PROVE  i = j
  <2>1. CASE i \in 1..Len(q) /\ j \in 1..Len(q)
    BY <1>1, <1>2, <2>1 DEF IsInjective
  <2>2. CASE ~(i \in 1..Len(q) /\ j \in 1..Len(q))
    BY <1>1, <1>2, <2>2
  <2> QED
    BY <2>1, <2>2
<1> QED
  BY <1>2 DEF IsInjective

LEMMA InitQueue == Init => QueueOK
  BY DEF Init, QueueOK, QueuedOnce, IsInjective, Range

LEMMA NextQueue == TypeOK /\ QueueOK /\ [Next]_vars => QueueOK'
<1> SUFFICES ASSUME TypeOK, QueueOK, [Next]_vars PROVE QueueOK'
  OBVIOUS
<1>1. CASE VisitLeft \/ VisitRight
  <2>1. queue' = Tail(queue) /\ queue # <<>> /\ UNCHANGED visited
    BY <1>1 DEF VisitLeft, VisitRight, Pop, Rest
  <2>2. IsInjective(queue') /\ Range(queue') \subseteq Range(queue)
    BY <2>1, InjectiveTail, RangeOfTail DEF TypeOK, QueueOK, QueuedOnce
  <2> QED
    BY <2>1, <2>2 DEF QueueOK, QueuedOnce
<1>2. CASE PushParent
  <2> DEFINE parent == Head(pending)
  <2>1. parent \in CommitId
    BY <1>2, RangeOfTail DEF PushParent, TypeOK
  <2>2. CASE parent \in visited
    BY <1>2, <2>2 DEF PushParent, IsNew, QueueOK, QueuedOnce
  <2>3. CASE parent \notin visited
    <3>1. queue' = Append(queue, parent) /\ visited' = visited \cup {parent}
      BY <1>2, <2>3 DEF PushParent, IsNew
    <3>2. parent \notin Range(queue)
      BY <2>3 DEF QueueOK
    <3> HIDE DEF parent
    <3>3. IsInjective(queue') /\ Range(queue') = Range(queue) \cup {parent}
      BY <2>1, <3>1, <3>2, InjectiveAppend, RangeOfAppend DEF TypeOK, QueueOK, QueuedOnce
    <3> QED
      BY <2>3, <3>1, <3>3 DEF QueueOK, QueuedOnce
  <2> QED
    BY <2>2, <2>3
<1>3. CASE TurnRight
  BY <1>3 DEF TurnRight, Start, Range, QueueOK, QueuedOnce, IsInjective
<1>4. CASE Found \/ Exhausted \/ UNCHANGED vars
  BY <1>4 DEF Found, Exhausted, vars, QueueOK, QueuedOnce
<1> QED
  BY <1>1, <1>2, <1>3, <1>4 DEF Next

(* No commit is ever in a queue twice, whatever the history: however many  *)
(* paths lead to a commit, its parents are read once in each walk.         *)
THEOREM NoCommitQueuedTwice == Spec => []QueuedOnce
<1>1. QueueOK => QueuedOnce
  BY DEF QueueOK
<1> QED
  BY <1>1, Typing, InitQueue, NextQueue, PTL DEF Spec

---------------------------------------------------------------------------
(***************************************************************************)
(* What is returned is nearest to `right`: no common ancestor is fewer     *)
(* hops from it.  The second walk goes by levels: the first k of its queue *)
(* are at most n hops away and the others n + 1, and all that is n hops    *)
(* away has been visited.                                                  *)
(***************************************************************************)

(* A set of numbers that is not empty has a least element: what stands in  *)
(* for induction here, by a least counterexample.                          *)
LEMMA LeastNumber ==
    ASSUME NEW T, T \subseteq Nat, T # {}
    PROVE  \E n \in T : \A m \in T : n <= m
<1> DEFINE R == OpToRel(<, Nat)
<1>1. IsWellFoundedOn(R, Nat)
  BY NatLessThanWellFounded, Zenon
<1>2. \A m, n \in Nat : m < n <=> <<m, n>> \in R
  BY DEF OpToRel
<1> HIDE DEF R
<1>3. PICK n \in T : \A m \in T : <<m, n>> \notin R
  BY <1>1, WFMin
<1>4. \A m \in T : ~(m < n)
  BY <1>2, <1>3
<1> QED
  BY <1>4

ParentsIn(p, commits) == UNION {Range(p[d]) : d \in commits}

(* Hops(p, c)[n] is what n hops along the parents p lead to from c. *)
Hops(p, c) ==
    LET level[i \in Nat] == IF i = 0 THEN {c} ELSE ParentsIn(p, level[i - 1])
    IN  level

(* The hops are what their recursive definition says. *)
LEMMA HopsAre ==
    ASSUME NEW p, NEW c
    PROVE  \A i \in Nat : Hops(p, c)[i] = IF i = 0 THEN {c} ELSE ParentsIn(p, Hops(p, c)[i - 1])
<1> DEFINE Level(f, i) == IF i = 0 THEN {c} ELSE ParentsIn(p, f[i - 1])
           UpTo(f, n) == f = [i \in 0..n |-> Level(f, i)]
           T == {n \in Nat : ~\E f : UpTo(f, n)}
<1>1. ASSUME NEW n \in Nat, NEW f, UpTo(f, n), NEW g, UpTo(g, n + 1)
      PROVE  \A i \in 0..n : f[i] = g[i]
  <2> DEFINE D == {i \in 0..n : f[i] # g[i]}
  <2>1. SUFFICES ASSUME D # {} PROVE FALSE
    OBVIOUS
  <2>2. D \subseteq Nat
    OBVIOUS
  <2>3. PICK i \in D : \A j \in D : i <= j
    <3> HIDE DEF D
    <3> QED
      BY <2>1, <2>2, LeastNumber
  <2>4. i \in 0..n /\ i \in 0..(n + 1) /\ i \in Nat
    OBVIOUS
  <2>5. f[i] = Level(f, i) /\ g[i] = Level(g, i)
    <3>1. \A h, m : UpTo(h, m) => \A k \in 0..m : h[k] = Level(h, k)
      OBVIOUS
    <3> HIDE DEF UpTo, Level
    <3> QED
      BY <1>1, <2>4, <3>1
  <2>6. i # 0 => i - 1 \in 0..n /\ i - 1 \notin D
    BY <2>3
  <2>7. i # 0 => f[i - 1] = g[i - 1]
    BY <2>6
  <2> QED
    BY <2>5, <2>7
<1>2. \A n \in Nat : \E f : UpTo(f, n)
  <2>1. SUFFICES ASSUME T # {} PROVE FALSE
    OBVIOUS
  <2>2. PICK n \in T : \A m \in T : n <= m
    <3>1. T \subseteq Nat
      OBVIOUS
    <3> HIDE DEF T
    <3> QED
      BY <2>1, <3>1, LeastNumber
  <2>3. n \in Nat /\ ~\E f : UpTo(f, n)
    OBVIOUS
  <2>4. CASE n = 0
    <3> DEFINE f == [i \in 0..0 |-> {c}]
    <3>1. UpTo(f, 0)
      OBVIOUS
    <3> QED
      BY <2>3, <2>4, <3>1
  <2>5. CASE n # 0
    <3>1. n - 1 \in Nat /\ n - 1 \notin T
      <4> HIDE DEF T
      <4> QED
        BY <2>2, <2>3, <2>5
    <3>2. PICK f : UpTo(f, n - 1)
      <4>1. \A m \in Nat : m \notin T => \E f : UpTo(f, m)
        OBVIOUS
      <4> HIDE DEF UpTo, T
      <4> QED
        BY <3>1, <4>1
    <3> DEFINE g == [i \in 0..n |-> Level(f, i)]
    <3>3. \A i \in 0..(n - 1) : f[i] = Level(f, i)
      BY <3>2
    <3>4. \A i \in 0..n : g[i] = Level(f, i)
      OBVIOUS
    <3>5. \A i \in 0..n : i # 0 => f[i - 1] = g[i - 1]
      <4> TAKE i \in 0..n
      <4>1. CASE i = 0
        BY <4>1
      <4>2. CASE i # 0
        <5>1. i - 1 \in 0..(n - 1) /\ i - 1 \in 0..n
          BY <2>3, <4>2
        <5> HIDE DEF g, Level, UpTo
        <5> QED
          BY <3>3, <3>4, <5>1
      <4> QED
        BY <4>1, <4>2
    <3>6. \A i \in 0..n : Level(f, i) = Level(g, i)
      <4> HIDE DEF g
      <4> QED
        BY <3>5
    <3>7. UpTo(g, n)
      BY <3>6
    <3> HIDE DEF g, UpTo
    <3> QED
      BY <2>3, <3>7
  <2> QED
    BY <2>4, <2>5
<1> DEFINE F(n) == CHOOSE f : UpTo(f, n)
           L == [n \in Nat |-> F(n)[n]]
<1>3. \A n \in Nat : UpTo(F(n), n)
  BY <1>2
<1> HIDE DEF F
<1>4. \A n \in Nat : L[n] = Level(L, n)
  <2> TAKE n \in Nat
  <2>1. CASE n = 0
    BY <2>1, <1>3
  <2>2. CASE n # 0
    <3>1. n - 1 \in Nat /\ n = (n - 1) + 1
      BY <2>2
    <3>2. \A i \in 0..(n - 1) : F(n - 1)[i] = F(n)[i]
      <4>1. UpTo(F(n - 1), n - 1) /\ UpTo(F(n), (n - 1) + 1)
        <5> HIDE DEF UpTo
        <5> QED
          BY <1>3, <3>1
      <4> HIDE DEF UpTo
      <4> QED
        BY <1>1, <3>1, <4>1
    <3>3. F(n)[n] = Level(F(n), n)
      <4>1. \A f, m : UpTo(f, m) => \A k \in 0..m : f[k] = Level(f, k)
        OBVIOUS
      <4> HIDE DEF UpTo, Level
      <4> QED
        BY <1>3, <4>1
    <3>4. F(n - 1)[n - 1] = F(n)[n - 1]
      BY <3>1, <3>2
    <3>5. L[n] = F(n)[n] /\ L[n - 1] = F(n - 1)[n - 1]
      BY <3>1
    <3> HIDE DEF L, UpTo
    <3> QED
      BY <2>2, <3>3, <3>4, <3>5
  <2> QED
    BY <2>1, <2>2
<1>5. L = [n \in Nat |-> Level(L, n)]
  BY <1>4
<1> HIDE DEF L
<1>6. \E f : f = [n \in Nat |-> Level(f, n)]
  BY <1>5
<1>7. Hops(p, c) = CHOOSE f : f = [n \in Nat |-> Level(f, n)]
  BY DEF Hops
<1>8. Hops(p, c) = [n \in Nat |-> Level(Hops(p, c), n)]
  BY <1>6, <1>7
<1> QED
  BY <1>8

(* Within n hops, and within fewer. *)
Near(p, c, n) == UNION {Hops(p, c)[m] : m \in 0..n}

Below(p, c, n) == UNION {Hops(p, c)[m] : m \in {i \in Nat : i < n}}

LEMMA OneMore ==
  ASSUME NEW f, NEW S, NEW a
  PROVE  UNION {f[m] : m \in S \cup {a}} = (UNION {f[m] : m \in S}) \cup f[a]
<1> DEFINE Of(T) == {f[m] : m \in T}
<1>1. Of(S \cup {a}) = Of(S) \cup {f[a]}
  OBVIOUS
<1> HIDE DEF Of
<1>2. UNION Of(S \cup {a}) = (UNION Of(S)) \cup f[a]
  BY <1>1
<1> QED
  BY <1>2 DEF Of

LEMMA NextHop ==
  ASSUME NEW p, NEW c, NEW n \in Nat
  PROVE  n + 1 \in Nat /\ Hops(p, c)[n + 1] = ParentsIn(p, Hops(p, c)[n])
<1>1. n + 1 \in Nat /\ n + 1 # 0 /\ (n + 1) - 1 = n
  OBVIOUS
<1>2. \A m \in Nat : Hops(p, c)[m] = IF m = 0 THEN {c} ELSE ParentsIn(p, Hops(p, c)[m - 1])
  BY HopsAre
<1> DEFINE H == Hops(p, c)
<1> HIDE DEF H
<1> QED
  BY <1>1, <1>2 DEF H

LEMMA NearIs ==
  ASSUME NEW p, NEW c, NEW n \in Nat
  PROVE  /\ Near(p, c, 0) = {c} /\ Below(p, c, 0) = {}
         /\ Near(p, c, n + 1) = Near(p, c, n) \cup Hops(p, c)[n + 1]
         /\ Below(p, c, n + 1) = Near(p, c, n)
         /\ Near(p, c, n) = Below(p, c, n) \cup Hops(p, c)[n]
         /\ Hops(p, c)[n + 1] = ParentsIn(p, Hops(p, c)[n])
<1> DEFINE H == Hops(p, c)
<1>1. \A i \in Nat : H[i] = IF i = 0 THEN {c} ELSE ParentsIn(p, H[i - 1])
  BY HopsAre
<1> HIDE DEF H
<1>2. 0..0 = {0} /\ {i \in Nat : i < 0} = {} /\ 0..(n + 1) = 0..n \cup {n + 1}
      /\ {i \in Nat : i < n + 1} = 0..n /\ 0..n = {i \in Nat : i < n} \cup {n}
  OBVIOUS
<1>3. H[0] = {c}
  BY <1>1
<1>5. H[n + 1] = ParentsIn(p, H[n])
  BY NextHop DEF H
<1>6. Near(p, c, 0) = {c} /\ Below(p, c, 0) = {}
  BY <1>2, <1>3 DEF Near, Below, H
<1>7. Near(p, c, n + 1) = Near(p, c, n) \cup H[n + 1]
  <2>1. UNION {H[m] : m \in 0..n \cup {n + 1}} = (UNION {H[m] : m \in 0..n}) \cup H[n + 1]
    BY OneMore
  <2> QED
    BY <1>2, <2>1 DEF Near, H
<1>8. Below(p, c, n + 1) = Near(p, c, n)
  BY <1>2 DEF Near, Below
<1>9. Near(p, c, n) = Below(p, c, n) \cup H[n]
  <2> DEFINE B == {i \in Nat : i < n}
  <2> HIDE DEF B
  <2>1. UNION {H[m] : m \in B \cup {n}} = (UNION {H[m] : m \in B}) \cup H[n]
    BY OneMore
  <2> QED
    BY <1>2, <2>1 DEF Near, Below, H, B
<1> QED
  BY <1>5, <1>6, <1>7, <1>8, <1>9 DEF H

(* One hop from what is near. *)
LEMMA NearGrows ==
  ASSUME NEW p, NEW c, NEW n \in Nat
  PROVE  /\ Near(p, c, n) \subseteq Near(p, c, n + 1)
         /\ \A d \in Near(p, c, n) : Range(p[d]) \subseteq Near(p, c, n + 1)
         /\ \A e \in Near(p, c, n + 1) : e \in Near(p, c, n) \/ \E d \in Near(p, c, n) : e \in Range(p[d])
<1>1. ASSUME NEW d \in Near(p, c, n) PROVE Range(p[d]) \subseteq Near(p, c, n + 1)
  <2>1. PICK m \in 0..n : d \in Hops(p, c)[m]
    BY DEF Near
  <2>2. m \in Nat /\ m + 1 \in 0..(n + 1)
    OBVIOUS
  <2>3. Hops(p, c)[m + 1] = ParentsIn(p, Hops(p, c)[m])
    BY <2>2, NextHop
  <2>4. Range(p[d]) \subseteq Hops(p, c)[m + 1]
    BY <2>1, <2>3 DEF ParentsIn
  <2> QED
    BY <2>2, <2>4 DEF Near
<1>2. ASSUME NEW e \in Near(p, c, n + 1), e \notin Near(p, c, n)
      PROVE  \E d \in Near(p, c, n) : e \in Range(p[d])
  <2>1. e \in Hops(p, c)[n + 1] /\ Hops(p, c)[n + 1] = ParentsIn(p, Hops(p, c)[n])
        /\ Hops(p, c)[n] \subseteq Near(p, c, n)
    BY <1>2, NearIs
  <2> QED
    BY <2>1 DEF ParentsIn
<1> QED
  BY <1>1, <1>2, NearIs

(* The second walk, n hops from `right`, with k of that level in the queue. *)
Level(n, k) ==
    /\ k \in 0..Len(queue)
    /\ Near(parents, right, n) \subseteq visited
    /\ \A i \in 1..k : queue[i] \in Near(parents, right, n)
    /\ \A i \in (k + 1)..Len(queue) : queue[i] \in Near(parents, right, n + 1) \ Near(parents, right, n)
    /\ Range(pending) \subseteq Near(parents, right, n + 1)
    /\ Below(parents, right, n) \cap ancestors = {}

(* base is as near as any: nothing fewer hops from `right` is an ancestor. *)
NearestFound ==
    pc = "done" /\ base # NoCommit =>
        \E n \in Nat : /\ base \in Hops(parents, right)[n]
                       /\ \A m \in 0..(n - 1) : Hops(parents, right)[m] \cap Ancestors(left) = {}

ByLevels ==
    /\ pc = "right" => \E n \in Nat, k \in Nat : Level(n, k)
    /\ NearestFound

(* With a commit in the queue, the level can be taken to be its own. *)
LEMMA OwnLevel ==
  ASSUME TypeOK, WalkOK, ByLevels, pc = "right", pending = <<>>, queue # <<>>
  PROVE  \E n \in Nat, k \in Nat : k > 0 /\ Level(n, k)
<1>1. PICK n \in Nat, k \in Nat : Level(n, k)
  BY DEF ByLevels
<1>2. SUFFICES ASSUME k = 0 PROVE \E m \in Nat, j \in Nat : j > 0 /\ Level(m, j)
  BY <1>1
<1> DEFINE near == Near(parents, right, n)
           next == Near(parents, right, n + 1)
           j == Len(queue)
<1>3. j \in Nat /\ j > 0 /\ DOMAIN queue = 1..j /\ Range(pending) = {}
  BY EmptySeq, LenProperties DEF TypeOK, Range
<1>4. near \subseteq visited /\ \A i \in 1..j : queue[i] \in next \ near
  BY <1>1, <1>2, <1>3 DEF Level
<1>5. near \cap Range(queue) = {}
  BY <1>3, <1>4 DEF Range
<1>6. next \subseteq visited
  <2> SUFFICES ASSUME NEW e \in next PROVE e \in visited
    OBVIOUS
  <2>1. CASE e \in near
    BY <1>4, <2>1
  <2>2. ASSUME NEW d \in near, e \in Range(parents[d]) PROVE e \in visited
    <3>1. d \in visited \ Range(queue)
      BY <1>4, <1>5
    <3> QED
      BY <1>3, <2>2, <3>1 DEF WalkOK, Frontier
  <2> QED
    BY <2>1, <2>2, NearGrows
<1>7. near \cap ancestors = {}
  BY <1>4, <1>5 DEF WalkOK
<1>8. n + 1 \in Nat /\ Below(parents, right, n + 1) = near
  BY NearIs
<1>9. Level(n + 1, j)
  <2>1. j \in 0..Len(queue) /\ (j + 1)..Len(queue) = {}
    BY <1>3
  <2>2. \A i \in 1..j : queue[i] \in next
    BY <1>4
  <2> HIDE DEF near, next, j
  <2> QED
    BY <1>3, <1>6, <1>7, <1>8, <2>1, <2>2 DEF Level, next, near
<1> QED
  BY <1>3, <1>8, <1>9

LEMMA InitLevels == Init => ByLevels
<1> SUFFICES ASSUME Init PROVE ByLevels
  OBVIOUS
<1>1. pc # "right"
  BY DEF Init
<1>2. ASSUME pc = "done" PROVE base = right /\ base \in Hops(parents, right)[0]
  <2>1. base = right
    BY <1>2 DEF Init
  <2> QED
    BY <2>1, HopsAre
<1>3. 0..(0 - 1) = {} /\ 0 \in Nat
  OBVIOUS
<1> QED
  BY <1>1, <1>2, <1>3 DEF ByLevels, NearestFound

LEMMA NextLevels == TypeOK /\ WalkOK /\ ByLevels /\ [Next]_vars => ByLevels'
<1> SUFFICES ASSUME TypeOK, WalkOK, ByLevels, [Next]_vars PROVE ByLevels'
  OBVIOUS
<1>0. UNCHANGED history /\ \A c : Ancestors(c)' = Ancestors(c)
  <2>1. UNCHANGED history
    BY DEF Next, VisitLeft, PushParent, TurnRight, VisitRight, Found, Exhausted, vars
  <2> QED
    BY <2>1, AncestorsStay
<1>h. parents' = parents /\ left' = left /\ right' = right
  BY <1>0 DEF history
<1>n. ASSUME UNCHANGED <<pc, base>> PROVE NearestFound'
  BY <1>0, <1>h, <1>n DEF ByLevels, NearestFound
<1>1. CASE VisitLeft
  BY <1>1, <1>n DEF VisitLeft, ByLevels
<1>2. CASE PushParent
  <2>1. NearestFound' /\ pc' = pc /\ ancestors' = ancestors
    BY <1>2, <1>n DEF PushParent
  <2>2. SUFFICES ASSUME pc = "right" PROVE \E n \in Nat, k \in Nat : Level(n, k)'
    BY <2>1 DEF ByLevels
  <2>3. PICK n \in Nat, k \in Nat : Level(n, k)
    BY <2>2 DEF ByLevels
  <2> DEFINE parent == Head(pending)
             near == Near(parents, right, n)
             next == Near(parents, right, n + 1)
  <2>4. parent \in CommitId /\ Range(pending) = Range(pending') \cup {parent}
    BY <1>2, RangeOfTail DEF PushParent, TypeOK
  <2>5. /\ k \in 0..Len(queue) /\ near \subseteq visited /\ Range(pending) \subseteq next
        /\ \A i \in 1..k : queue[i] \in near
        /\ \A i \in (k + 1)..Len(queue) : queue[i] \in next \ near
        /\ Below(parents, right, n) \cap ancestors = {}
    BY <2>3 DEF Level
  <2>6. near' = near /\ next' = next /\ Below(parents', right', n) = Below(parents, right, n)
    BY <1>h
  <2>7. CASE parent \in visited
    <3>1. queue' = queue /\ visited' = visited
      BY <1>2, <2>7 DEF PushParent, IsNew
    <3> HIDE DEF near, next, parent
    <3>2. Level(n, k)'
      BY <1>h, <2>1, <2>4, <2>5, <3>1 DEF Level, near, next
    <3> QED
      BY <3>2
  <2>8. CASE parent \notin visited
    <3>1. queue' = Append(queue, parent) /\ visited' = visited \cup {parent}
      BY <1>2, <2>8 DEF PushParent, IsNew
    <3> HIDE DEF parent
    <3>2. /\ Len(queue) \in Nat /\ Len(queue') = Len(queue) + 1 /\ queue'[Len(queue) + 1] = parent
          /\ \A i \in 1..Len(queue) : queue'[i] = queue[i]
      BY <2>4, <3>1, AppendProperties, LenProperties DEF TypeOK
    <3>3. parent \in next \ near
      BY <2>4, <2>5, <2>8
    <3> DEFINE size == Len(queue)
    <3> HIDE DEF near, next, size
    <3>4. \A i \in 1..k : queue'[i] \in near
      <4>1. \A i \in 1..k : i \in 1..size
        BY <2>5, <3>2 DEF size
      <4> QED
        BY <2>5, <3>2, <4>1 DEF size
    <3>5. \A i \in (k + 1)..Len(queue') : queue'[i] \in next \ near
      <4>1. \A i \in (k + 1)..(size + 1) : i = size + 1 \/ (i \in (k + 1)..size /\ i \in 1..size)
        BY <3>2 DEF size
      <4> QED
        BY <2>5, <3>2, <3>3, <4>1 DEF size
    <3>6. k \in 0..Len(queue')
      BY <2>5, <3>2
    <3>7. Level(n, k)'
      BY <1>h, <2>1, <2>4, <2>5, <3>1, <3>4, <3>5, <3>6 DEF Level, near, next
    <3> QED
      BY <3>7
  <2> QED
    BY <2>7, <2>8
<1>3. CASE TurnRight
  <2>1. /\ queue' = <<right>> /\ visited' = {right} /\ pending' = <<>> /\ pc' = "right" /\ base' = base
    BY <1>3 DEF TurnRight, Start, Range
  <2>2. NearestFound'
    BY <2>1 DEF NearestFound
  <2>3. Near(parents, right, 0) = {right} /\ Below(parents, right, 0) = {}
    BY NearIs
  <2>4. Len(queue') = 1 /\ queue'[1] = right /\ Range(pending') = {}
    BY <2>1 DEF Range
  <2>5. Level(0, 1)'
    <3>1. 1 \in 0..1 /\ 1..1 = {1} /\ (1 + 1)..1 = {}
      OBVIOUS
    <3> QED
      BY <1>h, <2>1, <2>3, <2>4, <3>1 DEF Level
  <2> QED
    BY <2>2, <2>5 DEF ByLevels
<1>4. CASE VisitRight
  <2>1. PICK n \in Nat, k \in Nat : k > 0 /\ Level(n, k)
    BY <1>4, OwnLevel DEF VisitRight
  <2> DEFINE near == Near(parents, right, n)
             next == Near(parents, right, n + 1)
             size == Len(queue)
  <2>2. /\ k \in 0..size /\ near \subseteq visited
        /\ \A i \in 1..k : queue[i] \in near
        /\ \A i \in (k + 1)..size : queue[i] \in next \ near
        /\ Below(parents, right, n) \cap ancestors = {}
    BY <2>1 DEF Level
  <2>3. /\ queue' = Tail(queue) /\ pending' = parents[Head(queue)] /\ queue # <<>>
        /\ UNCHANGED <<pc, visited, ancestors, base>>
    BY <1>4 DEF VisitRight, Pop, Rest
  <2>4. /\ size \in Nat /\ size > 0 /\ Len(queue') = size - 1 /\ Head(queue) = queue[1]
        /\ \A i \in 1..(size - 1) : queue'[i] = queue[i + 1]
    BY <2>3, HeadTailProperties, EmptySeq, LenProperties DEF TypeOK
  <2>5. Head(queue) \in near
    BY <2>1, <2>2, <2>4
  <2>6. Range(pending') \subseteq next
    BY <2>3, <2>5, NearGrows
  <2> HIDE DEF near, next, size
  <2>7. k - 1 \in Nat /\ k - 1 \in 0..(size - 1) /\ \A i \in 1..(k - 1) : i + 1 \in 1..k /\ i \in 1..(size - 1)
    BY <2>1, <2>2, <2>4
  <2>8. \A i \in ((k - 1) + 1)..(size - 1) : i + 1 \in (k + 1)..size /\ i \in 1..(size - 1)
    BY <2>1, <2>2, <2>4
  <2>9. Level(n, k - 1)'
    <3>1. \A i \in 1..(k - 1) : queue'[i] \in near
      BY <2>2, <2>4, <2>7
    <3>2. \A i \in ((k - 1) + 1)..Len(queue') : queue'[i] \in next \ near
      BY <2>2, <2>4, <2>8
    <3> QED
      BY <1>h, <2>2, <2>3, <2>4, <2>6, <2>7, <3>1, <3>2 DEF Level, near, next
  <2>10. NearestFound'
    BY <1>n, <2>3
  <2> QED
    BY <2>7, <2>9, <2>10 DEF ByLevels
<1>5. CASE Found
  <2>1. PICK n \in Nat, k \in Nat : k > 0 /\ Level(n, k)
    BY <1>5, OwnLevel DEF Found
  <2>2. /\ k \in 0..Len(queue) /\ \A i \in 1..k : queue[i] \in Near(parents, right, n)
        /\ Below(parents, right, n) \cap ancestors = {}
    BY <2>1 DEF Level
  <2>3. base' = Head(queue) /\ Head(queue) \in ancestors /\ pc' = "done" /\ queue # <<>> /\ pc = "right"
    BY <1>5 DEF Found, IsCommon
  <2>4. Head(queue) = queue[1] /\ Head(queue) \in Near(parents, right, n)
    <3>1. Head(queue) = queue[1]
      BY <2>3, HeadTailProperties DEF TypeOK
    <3>2. 1 \in 1..k
      BY <2>1
    <3> QED
      BY <2>2, <3>1, <3>2
  <2>5. Head(queue) \in Hops(parents, right)[n]
    BY <2>2, <2>3, <2>4, NearIs
  <2>6. ancestors = Ancestors(left)
    BY <2>3 DEF WalkOK
  <2>7. \A m \in 0..(n - 1) : Hops(parents, right)[m] \cap Ancestors(left) = {}
    <3>1. \A m \in 0..(n - 1) : m \in {i \in Nat : i < n}
      OBVIOUS
    <3>2. \A m \in 0..(n - 1) : Hops(parents, right)[m] \subseteq Below(parents, right, n)
      BY <3>1 DEF Below
    <3> QED
      BY <2>2, <2>6, <3>2
  <2>8. NearestFound'
    BY <1>0, <1>h, <2>3, <2>5, <2>7 DEF NearestFound
  <2> QED
    BY <2>3, <2>8 DEF ByLevels
<1>6. CASE Exhausted
  BY <1>6 DEF Exhausted, WalkOK, ByLevels, NearestFound
<1>7. CASE UNCHANGED vars
  <2>1. NearestFound'
    BY <1>7, <1>n DEF vars
  <2>2. ASSUME NEW n \in Nat, NEW k \in Nat, Level(n, k) PROVE Level(n, k)'
    BY <1>7, <2>2 DEF vars, history, Level
  <2> QED
    BY <1>7, <2>1, <2>2 DEF vars, ByLevels
<1> QED
  BY <1>1, <1>2, <1>3, <1>4, <1>5, <1>6, <1>7 DEF Next

(* No common ancestor is fewer hops from `right` than the one returned, in *)
(* any history.  (find_merge_base)                                          *)
THEOREM NearestIsFound == Spec => []NearestFound
<1>1. ByLevels => NearestFound
  BY DEF ByLevels
<1> QED
  BY <1>1, Typing, InitWalk, NextWalk, InitLevels, NextLevels, PTL DEF Spec

---------------------------------------------------------------------------
(***************************************************************************)
(* The same for histories of objects, as FluxRepo has them.  Commits are   *)
(* numbered so that parents come first: the id of a commit is a hash of    *)
(* its parents' ids, so a history has no cycles and can be numbered so.    *)
(***************************************************************************)
Numbered ==
    /\ N \in Nat /\ CommitId = 1..N
    /\ \A h \in Histories : \A i \in 1..N : Range(h[i]) \subseteq 1..(i - 1)

Downward ==
    /\ parents \in [1..N -> Seq(1..N)]
    /\ \A i \in 1..N : Range(parents[i]) \subseteq 1..(i - 1)

(* Objects are what their recursive definition says. *)
LEMMA ObjectsAre ==
  ASSUME N \in Nat, Downward
  PROVE  \A i \in 1..N :
            ObjectOf[i] = Flux!Commit(Flux!None, [k \in DOMAIN parents[i] |-> ObjectOf[parents[i][k]]], i)
<1> DEFINE This(f, i) == Flux!Commit(Flux!None, [k \in DOMAIN parents[i] |-> f[parents[i][k]]], i)
           UpTo(f, n) == f = [i \in 1..n |-> This(f, i)]
           T == {n \in 0..N : ~\E f : UpTo(f, n)}
<1>1. ASSUME NEW i \in 1..N, NEW f, NEW g, \A j \in 1..(i - 1) : f[j] = g[j]
      PROVE  This(f, i) = This(g, i)
  <2>1. \A k \in DOMAIN parents[i] : parents[i][k] \in 1..(i - 1)
    BY DEF Downward, Range
  <2>2. [k \in DOMAIN parents[i] |-> f[parents[i][k]]] = [k \in DOMAIN parents[i] |-> g[parents[i][k]]]
    BY <1>1, <2>1
  <2> QED
    BY <2>2
<1>2. \A n \in 0..N : \E f : UpTo(f, n)
  <2>1. SUFFICES ASSUME T # {} PROVE FALSE
    OBVIOUS
  <2>2. PICK n \in T : \A m \in T : n <= m
    <3>1. T \subseteq Nat
      OBVIOUS
    <3> HIDE DEF T
    <3> QED
      BY <2>1, <3>1, LeastNumber
  <2>3. n \in 0..N /\ ~\E f : UpTo(f, n)
    OBVIOUS
  <2>4. CASE n = 0
    <3> DEFINE f == [i \in 1..0 |-> {}]
    <3>1. UpTo(f, 0)
      OBVIOUS
    <3> QED
      BY <2>3, <2>4, <3>1
  <2>5. CASE n # 0
    <3>1. n - 1 \in 0..N /\ n - 1 \notin T
      <4>1. n - 1 \in 0..N /\ ~(n <= n - 1)
        BY <2>3, <2>5
      <4> HIDE DEF T
      <4> QED
        BY <2>2, <4>1
    <3>2. PICK f : UpTo(f, n - 1)
      <4>1. \A m \in 0..N : m \notin T => \E f : UpTo(f, m)
        OBVIOUS
      <4> HIDE DEF UpTo, T
      <4> QED
        BY <3>1, <4>1
    <3> DEFINE g == [i \in 1..n |-> This(f, i)]
    <3> HIDE DEF This
    <3>3. \A i \in 1..(n - 1) : f[i] = This(f, i)
      BY <3>2
    <3>4. \A i \in 1..n : g[i] = This(f, i)
      OBVIOUS
    <3> HIDE DEF UpTo
    <3>5. \A i \in 1..(n - 1) : f[i] = g[i]
      <4>1. \A i \in 1..(n - 1) : i \in 1..n
        BY <2>3
      <4> HIDE DEF g
      <4> QED
        BY <3>3, <3>4, <4>1
    <3>6. \A i \in 1..n : This(f, i) = This(g, i)
      <4> HIDE DEF g
      <4> TAKE i \in 1..n
      <4>1. i \in 1..N /\ \A j \in 1..(i - 1) : j \in 1..(n - 1)
        BY <2>3
      <4> QED
        BY <1>1, <3>5, <4>1
    <3>7. UpTo(g, n)
      BY <3>6 DEF UpTo
    <3> HIDE DEF g
    <3> QED
      BY <2>3, <3>7
  <2> QED
    BY <2>4, <2>5
<1>3. \E f : f = [i \in 1..N |-> This(f, i)]
  <2>1. N \in 0..N
    OBVIOUS
  <2> QED
    BY <1>2, <2>1
<1>4. ObjectOf = CHOOSE f : f = [i \in 1..N |-> This(f, i)]
  BY DEF ObjectOf, Numbers
<1> HIDE DEF This
<1>5. ObjectOf = [i \in 1..N |-> This(ObjectOf, i)]
  BY <1>3, <1>4
<1> QED
  BY <1>5 DEF This

(* The objects of commits. *)
ObjectsOf(S) == {ObjectOf[d] : d \in S}

LEMMA ObjectIs ==
  ASSUME N \in Nat, Downward, NEW i \in 1..N
  PROVE  /\ ObjectOf[i].stamp = i
         /\ Range(ObjectOf[i].parents) = ObjectsOf(Range(parents[i]))
<1> DEFINE named == [k \in DOMAIN parents[i] |-> ObjectOf[parents[i][k]]]
<1>1. ObjectOf[i] = Flux!Commit(Flux!None, named, i)
  BY ObjectsAre
<1>2. Range(named) = ObjectsOf(Range(parents[i]))
  <2>1. \A k \in DOMAIN parents[i] : named[k] = ObjectOf[parents[i][k]]
    OBVIOUS
  <2>2. DOMAIN named = DOMAIN parents[i]
    OBVIOUS
  <2> HIDE DEF named
  <2> QED
    BY <2>1, <2>2 DEF Range, ObjectsOf
<1> HIDE DEF named
<1>3. ObjectOf[i].stamp = i /\ ObjectOf[i].parents = named
  BY <1>1 DEF Flux!Commit
<1> QED
  BY <1>2, <1>3

LEMMA ObjectsDiffer ==
  ASSUME N \in Nat, Downward, NEW A \in SUBSET (1..N), NEW B \in SUBSET (1..N)
  PROVE  ObjectsOf(A) \cap ObjectsOf(B) = ObjectsOf(A \cap B)
<1>1. \A i, j \in 1..N : ObjectOf[i] = ObjectOf[j] => i = j
  BY ObjectIs
<1> QED
  BY <1>1 DEF ObjectsOf

LEMMA HopSteps ==
  ASSUME NEW p, NEW c
  PROVE  /\ Hops(p, c)[0] = {c}
         /\ \A n \in Nat : n + 1 \in Nat /\ Hops(p, c)[n + 1] = ParentsIn(p, Hops(p, c)[n])
         /\ \A n \in Nat : n # 0 => n - 1 \in Nat /\ Hops(p, c)[n] = ParentsIn(p, Hops(p, c)[n - 1])
<1> DEFINE H == Hops(p, c)
<1>1. H[0] = {c}
  BY NearIs DEF Near
<1>2. \A n \in Nat : n + 1 \in Nat /\ H[n + 1] = ParentsIn(p, H[n])
  BY NextHop
<1>3. ASSUME NEW n \in Nat, n # 0 PROVE n - 1 \in Nat /\ H[n] = ParentsIn(p, H[n - 1])
  <2>1. n - 1 \in Nat /\ (n - 1) + 1 = n
    BY <1>3
  <2> HIDE DEF H
  <2> QED
    BY <1>2, <2>1
<1> QED
  BY <1>1, <1>2, <1>3

(* Each hop goes to smaller numbers. *)
LEMMA HopsDescend ==
  ASSUME N \in Nat, Downward, NEW c \in 1..N
  PROVE  \A n \in Nat : Hops(parents, c)[n] \subseteq 1..(c - n)
<1> DEFINE H == Hops(parents, c)
           T == {n \in Nat : ~(H[n] \subseteq 1..(c - n))}
<1>1. H[0] = {c} /\ \A n \in Nat : n + 1 \in Nat /\ H[n + 1] = ParentsIn(parents, H[n])
  BY HopSteps
<1> HIDE DEF H
<1>2. SUFFICES ASSUME T # {} PROVE FALSE
  BY DEF H
<1>3. PICK n \in T : \A m \in T : n <= m
  <2>1. T \subseteq Nat
    OBVIOUS
  <2> HIDE DEF T
  <2> QED
    BY <1>2, <2>1, LeastNumber
<1>4. n \in Nat /\ ~(H[n] \subseteq 1..(c - n))
  BY <1>3
<1>5. n # 0
  BY <1>1, <1>4
<1>6. n - 1 \in Nat /\ (n - 1) + 1 = n /\ n - 1 \notin T
  <2>1. n - 1 \in Nat /\ ~(n <= n - 1) /\ (n - 1) + 1 = n
    BY <1>4, <1>5
  <2> HIDE DEF T
  <2> QED
    BY <1>3, <2>1
<1>7. H[n - 1] \subseteq 1..(c - (n - 1)) /\ H[n] = ParentsIn(parents, H[n - 1])
  BY <1>1, <1>6
<1>8. ASSUME NEW d \in H[n - 1] PROVE Range(parents[d]) \subseteq 1..(c - n)
  <2>1. d \in 1..(c - (n - 1))
    BY <1>7
  <2>2. d \in 1..N /\ 1..(d - 1) \subseteq 1..(c - n)
    BY <1>4, <1>6, <2>1
  <2> QED
    BY <2>2 DEF Downward
<1>9. H[n] \subseteq 1..(c - n)
  BY <1>7, <1>8 DEF ParentsIn
<1> QED
  BY <1>4, <1>9

LEMMA HopsWithin ==
  ASSUME N \in Nat, Downward, NEW c \in 1..N, NEW n \in Nat
  PROVE  /\ Hops(parents, c)[n] \subseteq 1..N
         /\ Hops(parents, c)[n] # {} => n \in 0..N
<1>1. Hops(parents, c)[n] \subseteq 1..(c - n)
  BY HopsDescend
<1>2. 1..(c - n) \subseteq 1..N
  OBVIOUS
<1>3. n > N => 1..(c - n) = {}
  OBVIOUS
<1> QED
  BY <1>1, <1>2, <1>3

(* The walk of the objects is the walk of the numbers. *)
LEMMA SameHops ==
  ASSUME N \in Nat, Downward, NEW c \in 1..N
  PROVE  \A n \in Nat : Flux!Generation(ObjectOf[c], {})[n] = ObjectsOf(Hops(parents, c)[n])
<1> DEFINE H == Hops(parents, c)
           Then(f, n) == IF n = 0 THEN {ObjectOf[c]} ELSE UNION {Range(x.parents) : x \in f[n - 1] \ {}}
           G == [n \in Nat |-> ObjectsOf(H[n])]
           A == Flux!Generation(ObjectOf[c], {})
           T == {n \in Nat : A[n] # G[n]}
<1>1. H[0] = {c} /\ \A n \in Nat : n # 0 => n - 1 \in Nat /\ H[n] = ParentsIn(parents, H[n - 1])
  BY HopSteps
<1>2. \A n \in Nat : H[n] \subseteq 1..N
  BY HopsWithin
<1> HIDE DEF H
<1>3. ASSUME NEW n \in Nat PROVE G[n] = Then(G, n)
  <2>1. CASE n = 0
    BY <1>1, <2>1 DEF ObjectsOf
  <2>2. CASE n # 0
    <3>1. n - 1 \in Nat /\ G[n] = ObjectsOf(ParentsIn(parents, H[n - 1])) /\ G[n - 1] = ObjectsOf(H[n - 1])
      BY <1>1, <2>2
    <3>2. \A d \in H[n - 1] : Range(ObjectOf[d].parents) = ObjectsOf(Range(parents[d]))
      BY <1>2, <3>1, ObjectIs
    <3>3. UNION {Range(x.parents) : x \in ObjectsOf(H[n - 1])} = ObjectsOf(ParentsIn(parents, H[n - 1]))
      <4>1. ASSUME NEW y, y \in UNION {Range(x.parents) : x \in ObjectsOf(H[n - 1])}
            PROVE  y \in ObjectsOf(ParentsIn(parents, H[n - 1]))
        <5>1. PICK d \in H[n - 1] : y \in Range(ObjectOf[d].parents)
          BY <4>1 DEF ObjectsOf
        <5>2. PICK e \in Range(parents[d]) : y = ObjectOf[e]
          BY <3>2, <5>1 DEF ObjectsOf
        <5>3. e \in ParentsIn(parents, H[n - 1])
          BY <5>1, <5>2 DEF ParentsIn
        <5> QED
          BY <5>2, <5>3 DEF ObjectsOf
      <4>2. ASSUME NEW y, y \in ObjectsOf(ParentsIn(parents, H[n - 1]))
            PROVE  y \in UNION {Range(x.parents) : x \in ObjectsOf(H[n - 1])}
        <5>1. PICK e \in ParentsIn(parents, H[n - 1]) : y = ObjectOf[e]
          BY <4>2 DEF ObjectsOf
        <5>2. PICK d \in H[n - 1] : e \in Range(parents[d])
          BY <5>1 DEF ParentsIn
        <5>3. y \in Range(ObjectOf[d].parents) /\ ObjectOf[d] \in ObjectsOf(H[n - 1])
          BY <3>2, <5>1, <5>2 DEF ObjectsOf
        <5> QED
          BY <5>3
      <4> QED
        BY <4>1, <4>2
    <3>4. G[n - 1] \ {} = G[n - 1]
      OBVIOUS
    <3> HIDE DEF G
    <3> QED
      BY <2>2, <3>1, <3>3, <3>4
  <2> QED
    BY <2>1, <2>2
<1>4. G = [n \in Nat |-> Then(G, n)]
  <2>1. \A n \in Nat : G[n] = Then(G, n)
    BY <1>3
  <2>2. G = [n \in Nat |-> G[n]]
    OBVIOUS
  <2> HIDE DEF G, Then
  <2> QED
    BY <2>1, <2>2
<1>5. \A n \in Nat : A[n] = Then(A, n)
  <2>1. A = CHOOSE f : f = [n \in Nat |-> Then(f, n)]
    BY DEF Flux!Generation, Flux!Range, Range
  <2> HIDE DEF G, Then, A
  <2>2. A = [n \in Nat |-> Then(A, n)]
    BY <1>4, <2>1
  <2> QED
    BY <2>2
<1> HIDE DEF A, G
<1>6. SUFFICES ASSUME T # {} PROVE FALSE
  BY DEF A, G, H
<1>7. PICK n \in T : \A m \in T : n <= m
  <2>1. T \subseteq Nat
    OBVIOUS
  <2> HIDE DEF T
  <2> QED
    BY <1>6, <2>1, LeastNumber
<1>8. n \in Nat /\ A[n] # G[n]
  BY <1>7
<1>9. n # 0 => n - 1 \in Nat /\ A[n - 1] = G[n - 1]
  <2>1. n # 0 => n - 1 \in Nat /\ ~(n <= n - 1)
    BY <1>8
  <2>2. n # 0 => n - 1 \notin T
    <3> HIDE DEF T
    <3> QED
      BY <1>7, <2>1
  <2> QED
    BY <2>1, <2>2
<1>10. A[n] = Then(A, n) /\ G[n] = Then(G, n)
  BY <1>3, <1>5, <1>8
<1> QED
  BY <1>8, <1>9, <1>10

LEMMA HopsHere ==
  \A c : /\ Hops(parents, c)[0] = {c}
         /\ \A n \in Nat : n + 1 \in Nat /\ Hops(parents, c)[n + 1] = ParentsIn(parents, Hops(parents, c)[n])
         /\ \A n \in Nat : n # 0 => n - 1 \in Nat /\ Hops(parents, c)[n] = ParentsIn(parents, Hops(parents, c)[n - 1])
  BY HopSteps

(* N hops lead to all the ancestors there are. *)
LEMMA AncestorsAreNear ==
  ASSUME N \in Nat, Downward, CommitId = 1..N, NEW c \in 1..N
  PROVE  /\ \A n \in Nat : Hops(parents, c)[n] \subseteq Ancestors(c)
         /\ Ancestors(c) = Near(parents, c, N)
<1> DEFINE H == Hops(parents, c)
           T == {n \in Nat : ~(H[n] \subseteq Ancestors(c))}
<1>1. /\ H[0] = {c}
      /\ \A n \in Nat : n + 1 \in Nat /\ H[n + 1] = ParentsIn(parents, H[n])
      /\ \A n \in Nat : n # 0 => n - 1 \in Nat /\ H[n] = ParentsIn(parents, H[n - 1])
  BY HopsHere
<1>2. \A n \in Nat : n + 1 \in Nat /\ H[n + 1] = ParentsIn(parents, H[n])
  BY <1>1
<1>3. \A n \in Nat : H[n] \subseteq 1..N
  BY HopsWithin
<1>4. \A n \in Nat : H[n] \subseteq Ancestors(c)
  <2> HIDE DEF H
  <2>1. SUFFICES ASSUME T # {} PROVE FALSE
    OBVIOUS
  <2>2. PICK n \in T : \A m \in T : n <= m
    <3>1. T \subseteq Nat
      OBVIOUS
    <3> HIDE DEF T
    <3> QED
      BY <2>1, <3>1, LeastNumber
  <2>3. n \in Nat /\ ~(H[n] \subseteq Ancestors(c))
    BY <2>2
  <2>4. n # 0
    BY <1>1, <2>3, AncestorsSelf
  <2>5. n - 1 \in Nat /\ H[n - 1] \subseteq Ancestors(c)
    <3>1. n - 1 \in Nat /\ ~(n <= n - 1)
      BY <2>3, <2>4
    <3>2. n - 1 \notin T
      <4> HIDE DEF T
      <4> QED
        BY <2>2, <3>1
    <3> QED
      BY <3>1, <3>2
  <2>6. \A d \in Ancestors(c) : Range(parents[d]) \subseteq Ancestors(c)
    <3> SUFFICES ASSUME NEW d \in Ancestors(c), NEW e \in Range(parents[d]) PROVE e \in Ancestors(c)
      OBVIOUS
    <3>1. d \in 1..N
      BY DEF Ancestors
    <3>2. e \in 1..N
      <4>1. Range(parents[d]) \subseteq 1..(d - 1)
        BY <3>1 DEF Downward
      <4>2. 1..(d - 1) \subseteq 1..N
        BY <3>1
      <4> QED
        BY <4>1, <4>2
    <3>3. ASSUME NEW S \in SUBSET CommitId, c \in S, Closed(S) PROVE e \in S
      BY <3>3 DEF Ancestors, Closed
    <3> QED
      BY <3>2, <3>3 DEF Ancestors
  <2> QED
    BY <1>1, <2>3, <2>4, <2>5, <2>6 DEF ParentsIn
<1>5. Near(parents, c, N) \subseteq Ancestors(c)
  BY <1>4 DEF Near
<1>6. Ancestors(c) \subseteq Near(parents, c, N)
  <2>1. Near(parents, c, N) \in SUBSET CommitId
    BY <1>3 DEF Near
  <2>2. c \in Near(parents, c, N)
    <3>1. 0 \in 0..N /\ c \in H[0]
      BY <1>1
    <3> QED
      BY <3>1 DEF Near
  <2>3. Closed(Near(parents, c, N))
    <3> SUFFICES ASSUME NEW d \in Near(parents, c, N), NEW e \in Range(parents[d])
                 PROVE  e \in Near(parents, c, N)
      BY DEF Closed
    <3>1. PICK n \in 0..N : d \in H[n]
      BY DEF Near
    <3>2. n \in Nat /\ n + 1 \in Nat /\ H[n + 1] = ParentsIn(parents, H[n])
      BY <1>2
    <3>3. e \in H[n + 1]
      BY <3>1, <3>2 DEF ParentsIn
    <3>4. n + 1 \in 0..N
      BY <3>2, <3>3, HopsWithin
    <3> QED
      BY <3>3, <3>4 DEF Near
  <2> QED
    BY <2>1, <2>2, <2>3, AncestorsLeast
<1> QED
  BY <1>4, <1>5, <1>6

(* The history that was chosen is kept. *)
LEMMA HistoryStays == Spec => [](parents \in Histories)
<1>1. Init => parents \in Histories
  BY DEF Init
<1>2. parents \in Histories /\ [Next]_vars => (parents \in Histories)'
  BY DEF Next, VisitLeft, PushParent, TurnRight, VisitRight, Found, Exhausted, vars, history
<1> QED
  BY <1>1, <1>2, PTL DEF Spec

(* find_merge_base returns a merge base as FluxRepo defines it: a common   *)
(* ancestor the fewest hops from `right`, and none if there is none.       *)
THEOREM MergeBaseIsReturned == ASSUME Numbered PROVE Spec => []ReturnsMergeBase
<1>1. TypeOK /\ BaseIsCommon /\ NearestFound /\ parents \in Histories => ReturnsMergeBase
  <2> SUFFICES ASSUME TypeOK, BaseIsCommon, NearestFound, parents \in Histories, pc = "done"
               PROVE  LET bases == Flux!MergeBases(ObjectOf[left], ObjectOf[right], N, {})
                      IN  IF base = NoCommit THEN bases = {} ELSE base \in {x.stamp : x \in bases}
    BY DEF ReturnsMergeBase
  <2>1. /\ N \in Nat /\ CommitId = 1..N /\ Downward /\ left \in 1..N /\ right \in 1..N
        /\ base \in 1..N \cup {NoCommit}
    BY DEF Numbered, TypeOK, Downward
  <2> DEFINE HR == Hops(parents, right)
             inLeft(i) == Flux!Generation(ObjectOf[right], {})[i] \cap Flux!AncestorsWithin(ObjectOf[left], N, {})
             first == {i \in 0..N : inLeft(i) # {} /\ \A j \in 0..(i - 1) : inLeft(j) = {}}
             bases == Flux!MergeBases(ObjectOf[left], ObjectOf[right], N, {})
  <2>2. bases = UNION {inLeft(i) : i \in first}
    BY DEF Flux!MergeBases
  <2>3. Flux!AncestorsWithin(ObjectOf[left], N, {}) = ObjectsOf(Ancestors(left))
    <3> DEFINE HL == Hops(parents, left)
               GL == Flux!Generation(ObjectOf[left], {})
    <3>1. \A i \in 0..N : GL[i] = ObjectsOf(HL[i])
      BY <2>1, SameHops
    <3>2. Flux!AncestorsWithin(ObjectOf[left], N, {}) = UNION {GL[i] : i \in 0..N}
      BY DEF Flux!AncestorsWithin
    <3>3. Ancestors(left) = UNION {HL[i] : i \in 0..N}
      BY <2>1, AncestorsAreNear DEF Near
    <3> HIDE DEF HL, GL
    <3>4. UNION {GL[i] : i \in 0..N} = ObjectsOf(UNION {HL[i] : i \in 0..N})
      BY <3>1 DEF ObjectsOf
    <3> QED
      BY <3>2, <3>3, <3>4
  <2>4. \A i \in Nat : inLeft(i) = ObjectsOf(HR[i] \cap Ancestors(left))
    <3> SUFFICES ASSUME NEW i \in Nat PROVE inLeft(i) = ObjectsOf(HR[i] \cap Ancestors(left))
      OBVIOUS
    <3>1. Flux!Generation(ObjectOf[right], {})[i] = ObjectsOf(HR[i])
      BY <2>1, SameHops
    <3>2. HR[i] \subseteq 1..N /\ Ancestors(left) \subseteq 1..N
      BY <2>1, HopsWithin DEF Ancestors
    <3> HIDE DEF HR
    <3> QED
      BY <2>1, <2>3, <3>1, <3>2, ObjectsDiffer
  <2>5. \A S : ObjectsOf(S) = {} <=> S = {}
    BY DEF ObjectsOf
  <2>6. CASE base = NoCommit
    <3>1. \A i \in Nat : HR[i] \cap Ancestors(left) = {}
      BY <2>1, <2>6, AncestorsAreNear DEF BaseIsCommon
    <3> HIDE DEF HR, inLeft
    <3>2. \A i \in 0..N : i \in Nat
      BY <2>1
    <3>3. \A i \in 0..N : inLeft(i) = {}
      BY <2>4, <2>5, <3>1, <3>2
    <3> QED
      BY <2>2, <2>6, <3>3
  <2>7. CASE base # NoCommit
    <3>1. PICK n \in Nat : base \in HR[n] /\ \A m \in 0..(n - 1) : HR[m] \cap Ancestors(left) = {}
      BY <2>7 DEF NearestFound
    <3>2. base \in Ancestors(left) /\ base \in 1..N
      BY <2>1, <2>7 DEF BaseIsCommon
    <3>3. n \in 0..N
      BY <2>1, <3>1, HopsWithin
    <3>4. ObjectOf[base].stamp = base
      BY <2>1, <3>2, ObjectIs
    <3> HIDE DEF HR, inLeft
    <3>5. ObjectOf[base] \in inLeft(n)
      BY <2>4, <3>1, <3>2 DEF ObjectsOf
    <3>6. \A j \in 0..(n - 1) : inLeft(j) = {}
      <4>1. \A j \in 0..(n - 1) : j \in Nat
        OBVIOUS
      <4> QED
        BY <2>4, <2>5, <3>1, <4>1
    <3>7. ObjectOf[base] \in bases
      BY <2>2, <3>3, <3>5, <3>6
    <3> HIDE DEF bases
    <3>8. base \in {x.stamp : x \in bases}
      BY <3>4, <3>7
    <3> QED
      BY <2>7, <3>8 DEF bases
  <2> QED
    BY <2>6, <2>7
<1> QED
  BY <1>1, Typing, MergeBaseIsCommon, NearestIsFound, HistoryStays, PTL

---------------------------------------------------------------------------
(* Tuples of n naturals, ordered by the first place they differ at: there  *)
(* are no endless descents.                                                *)
Less == {m \in Nat \X Nat : m[1] < m[2]}

Falls(n) == LexProductOrdering(Less, Nat, n)

LEMMA LessEnds == IsWellFoundedOn(Less, Nat)
<1>1. ASSUME NEW T \in SUBSET Nat, T # {} PROVE \E m \in T : \A k \in T : <<k, m>> \notin Less
  <2>1. PICK m \in T : \A k \in T : m <= k
    BY <1>1, LeastNumber
  <2> QED
    BY <2>1 DEF Less
<1> QED
  BY <1>1, MinWF

LEMMA FallsEnd == \A n \in Nat : IsWellFoundedOn(Falls(n), [1..n -> Nat])
  BY LessEnds, WFLexProductOrdering DEF Falls

LEMMA FallsIs ==
  ASSUME NEW n \in Nat, NEW a \in [1..n -> Nat], NEW b \in [1..n -> Nat],
         NEW j \in 1..n, \A i \in 1..(j - 1) : a[i] = b[i], a[j] < b[j]
  PROVE  <<a, b>> \in Falls(n)
<1>1. <<a[j], b[j]>> \in Less
  BY DEF Less
<1>2. /\ <<a, b>> \in [1..n -> Nat] \X [1..n -> Nat]
      /\ <<a, b>>[1] = a /\ <<a, b>>[2] = b
  OBVIOUS
<1> QED
  BY <1>1, <1>2 DEF Falls, LexProductOrdering

(* A finite set that loses an element is smaller. *)
LEMMA Smaller ==
  ASSUME NEW S, IsFiniteSet(S), NEW x \in S
  PROVE  Cardinality(S \ {x}) < Cardinality(S)
<1>1. Cardinality(S \ {x}) = Cardinality(S) - 1 /\ Cardinality(S) \in Nat
  BY FS_RemoveElement, FS_CardinalityType
<1> QED
  BY <1>1

---------------------------------------------------------------------------
(* What the walks have to do yet: loops, commits to be met, and what is    *)
(* queued and pending.                                                     *)
WalkToDo ==
    <<IF pc = "left" THEN 2 ELSE IF pc = "right" THEN 1 ELSE 0,
      Cardinality(CommitId \ visited), Len(queue), Len(pending)>>

WalkFalls == <<WalkToDo', WalkToDo>> \in Falls(4)

LEMMA WalkToDoIs ==
  ASSUME IsFiniteSet(CommitId), TypeOK
  PROVE  WalkToDo \in [1..4 -> Nat]
<1>1. Cardinality(CommitId \ visited) \in Nat
  BY FS_Difference, FS_CardinalityType
<1>2. Len(queue) \in Nat /\ Len(pending) \in Nat
  BY DEF TypeOK
<1> QED
  BY <1>1, <1>2 DEF WalkToDo

LEMMA ShorterTail ==
  ASSUME NEW S, NEW q \in Seq(S), q # <<>>
  PROVE  Len(Tail(q)) < Len(q) /\ Len(q) \in Nat /\ Len(Tail(q)) \in Nat
  BY HeadTailProperties, LenProperties

LEMMA WalkStepFalls ==
  ASSUME IsFiniteSet(CommitId), TypeOK, TypeOK', Next
  PROVE  WalkFalls
<1>1. WalkToDo \in [1..4 -> Nat] /\ WalkToDo' \in [1..4 -> Nat]
  <2>1. WalkToDo' \in [1..4 -> Nat]
    <3>1. Cardinality(CommitId \ visited') \in Nat
      BY FS_Difference, FS_CardinalityType
    <3>2. Len(queue') \in Nat /\ Len(pending') \in Nat
      BY DEF TypeOK
    <3> QED
      BY <3>1, <3>2 DEF WalkToDo
  <2> QED
    BY <2>1, WalkToDoIs
<1>2. ASSUME NEW j \in 1..4, \A i \in 1..(j - 1) : WalkToDo'[i] = WalkToDo[i],
             WalkToDo'[j] < WalkToDo[j]
      PROVE  WalkFalls
  BY <1>1, <1>2, FallsIs DEF WalkFalls
<1>3. CASE VisitLeft \/ VisitRight
  <2>1. Len(queue') < Len(queue)
    BY <1>3, ShorterTail DEF VisitLeft, VisitRight, Pop, Rest, TypeOK
  <2>2. pc' = pc /\ visited' = visited
    BY <1>3 DEF VisitLeft, VisitRight
  <2>3. \A i \in 1..2 : WalkToDo'[i] = WalkToDo[i]
    BY <2>2 DEF WalkToDo
  <2>4. WalkToDo'[3] < WalkToDo[3]
    BY <2>1 DEF WalkToDo
  <2> QED
    BY <1>2, <2>3, <2>4
<1>4. CASE PushParent
  <2>1. pc' = pc /\ pending' = Tail(pending) /\ pending # <<>>
    BY <1>4 DEF PushParent
  <2>2. CASE IsNew(Head(pending))
    <3>1. visited' = visited \cup {Head(pending)} /\ Head(pending) \in CommitId \ visited
      BY <1>4, <2>2, RangeOfTail DEF PushParent, IsNew, TypeOK
    <3>2. CommitId \ visited' = (CommitId \ visited) \ {Head(pending)}
      BY <3>1
    <3>3. IsFiniteSet(CommitId \ visited)
      BY FS_Difference
    <3>4. Cardinality(CommitId \ visited') < Cardinality(CommitId \ visited)
      BY <3>1, <3>2, <3>3, Smaller
    <3>5. WalkToDo'[1] = WalkToDo[1] /\ WalkToDo'[2] < WalkToDo[2]
      BY <2>1, <3>4 DEF WalkToDo
    <3> QED
      BY <1>2, <3>5
  <2>3. CASE ~IsNew(Head(pending))
    <3>1. queue' = queue /\ visited' = visited
      BY <1>4, <2>3 DEF PushParent
    <3>2. Len(pending') < Len(pending)
      BY <2>1, ShorterTail DEF TypeOK
    <3>3. \A i \in 1..3 : WalkToDo'[i] = WalkToDo[i]
      BY <2>1, <3>1 DEF WalkToDo
    <3>4. WalkToDo'[4] < WalkToDo[4]
      BY <3>2 DEF WalkToDo
    <3> QED
      BY <1>2, <3>3, <3>4
  <2> QED
    BY <2>2, <2>3
<1>5. CASE TurnRight \/ Found \/ Exhausted
  <2>1. \/ pc = "left" /\ pc' = "right"
        \/ pc = "right" /\ pc' = "done"
    BY <1>5 DEF TurnRight, Found, Exhausted
  <2>2. WalkToDo'[1] < WalkToDo[1]
    BY <2>1 DEF WalkToDo
  <2> QED
    BY <1>2, <2>2
<1> QED
  BY <1>3, <1>4, <1>5 DEF Next

(* Both loops of find_merge_base end: each turn has less to do, in an order *)
(* without endless descents, as no commit is met twice in a walk.           *)
THEOREM WalksEnd ==
  ASSUME IsFiniteSet(CommitId)
  PROVE  Spec => [][WalkFalls]_vars
<1>1. ASSUME TypeOK, [Next]_vars PROVE [WalkFalls]_vars
  BY <1>1, NextType, WalkStepFalls
<1> QED
  BY <1>1, Typing, PTL DEF Spec
---------------------------------------------------------------------------
(***************************************************************************)
(* The merge of trees.  MergeTrees is what its recursive definition says,  *)
(* since it goes on with directories that are less deep.  What is at a     *)
(* path in the result is then known by walking along it: the merge goes    *)
(* along with the walk until it took one side as it is.                    *)
(***************************************************************************)
SomeTree == AnyTree \cup {NullId}

(* What a directory's entry is. *)
Shaped(e) ==
    IsDirectory(e) => e = [mode |-> "directory", id |-> e.id] /\ e.id \in AnyTree

LEMMA EntryIs ==
  ASSUME NEW tree \in AnyTree, NEW n
  PROVE  /\ Shaped(EntryOf(tree, n))
         /\ n \notin DOMAIN tree => EntryOf(tree, n) = Absent
         /\ n \in DOMAIN tree => EntryOf(tree, n) # Absent /\ n \in Names
         /\ EntryOf(tree, n) # Absent => Seen(EntryOf(tree, n)) = EntryOf(tree, n)
         /\ IsDirectory(EntryOf(tree, n)) =>
                /\ EntryOf(tree, n).id \in AnyTree
                /\ Depth[EntryOf(tree, n).id] \in Nat /\ Depth[tree] \in Nat
                /\ Depth[EntryOf(tree, n).id] < Depth[tree]
<1> DEFINE e == EntryOf(tree, n)
<1>1. CASE n \notin DOMAIN tree
  BY <1>1 DEF EntryOf, Absent, Shaped, IsDirectory
<1>2. CASE n \in DOMAIN tree
  <2>1. /\ tree[n] = [mode |-> tree[n].mode, id |-> tree[n].id]
        /\ tree[n].mode # "absent"
        /\ IsDirectory(tree[n]) => tree[n].id \in Directories /\ Depth[tree[n].id] < Depth[tree]
    BY <1>2, TreesAssumption
  <2>2. e = Seen(tree[n])
    BY <1>2 DEF EntryOf
  <2>3. n \in Names
    BY <1>2 DEF Names
  <2>4. CASE IsDirectory(tree[n])
    <3>1. e = tree[n]
      BY <2>2, <2>4 DEF Seen
    <3>2. tree[n].id \in AnyTree
      BY <2>1, <2>4 DEF AnyTree
    <3>3. Depth[tree[n].id] \in Nat /\ Depth[tree] \in Nat
      BY <3>2, TreesAssumption
    <3> HIDE DEF e
    <3>4. e # Absent
      BY <2>4, <3>1 DEF Absent, IsDirectory
    <3>5. Shaped(e)
      BY <2>1, <2>4, <3>1, <3>2 DEF Shaped, IsDirectory
    <3>6. Seen(e) = e
      BY <2>4, <3>1 DEF Seen
    <3> QED
      BY <1>2, <2>1, <2>3, <2>4, <3>1, <3>2, <3>3, <3>4, <3>5, <3>6 DEF e
  <2>5. CASE ~IsDirectory(tree[n])
    <3>1. CASE format = "git"
      <4>1. e = [mode |-> "regular", id |-> tree[n].id]
        BY <2>1, <2>2, <2>5, <3>1 DEF Seen
      <4> HIDE DEF e
      <4> QED
        BY <1>2, <2>3, <3>1, <4>1 DEF e, Seen, IsDirectory, Absent, Shaped
    <3>2. CASE format # "git"
      <4>1. e = tree[n]
        BY <2>2, <3>2 DEF Seen
      <4>2. e # Absent
        BY <2>1, <4>1 DEF Absent
      <4>3. Seen(e) = e /\ ~IsDirectory(e)
        BY <2>5, <3>2, <4>1 DEF Seen
      <4> HIDE DEF e
      <4> QED
        BY <1>2, <2>3, <4>2, <4>3 DEF e, Shaped
    <3> QED
      BY <3>1, <3>2
  <2> QED
    BY <2>4, <2>5
<1> QED
  BY <1>1, <1>2

LEMMA SubBaseIs ==
  ASSUME NEW e, Shaped(e)
  PROVE  /\ SubBase(e) \in SomeTree
         /\ SubBase(e) \in AnyTree <=> IsDirectory(e)
         /\ SubBase(e) = NullId <=> ~IsDirectory(e)
         /\ IsDirectory(e) => e = [mode |-> "directory", id |-> SubBase(e)]
  BY TreesAssumption DEF SubBase, Shaped, SomeTree

---------------------------------------------------------------------------
(* What the merge of two trees makes of the names in them, and the tree it *)
(* makes of that.                                                          *)
Merged(merges, b, o, t) ==
    [n \in DOMAIN b \cup DOMAIN o \cup DOMAIN t |->
        MergeEntry(merges, EntryOf(b, n), EntryOf(o, n), EntryOf(t, n))]

Assembled(merged) ==
    IF \E n \in DOMAIN merged : ~merged[n].ok THEN Failed
    ELSE Ok([n \in {m \in DOMAIN merged : merged[m].tree # Absent} |-> merged[n].tree])

(* The cases of a merge, whatever merges its directories. *)
LEMMA MergeOfIs ==
  ASSUME NEW merges, NEW b \in SomeTree, NEW o \in AnyTree, NEW t \in AnyTree
  PROVE  /\ o = t => MergeOf(merges, b, o, t) = Ok(o)
         /\ b = o => MergeOf(merges, b, o, t) = Ok(t)
         /\ b = t => MergeOf(merges, b, o, t) = Ok(o)
         /\ b = NullId /\ o # t => MergeOf(merges, b, o, t) = Failed
         /\ b # NullId /\ o # t /\ b # o /\ b # t =>
                b \in AnyTree /\ MergeOf(merges, b, o, t) = Assembled(Merged(merges, b, o, t))
<1>1. NullId \notin AnyTree
  BY TreesAssumption
<1>2. CASE o = t
  BY <1>1, <1>2 DEF MergeOf
<1>3. CASE o # t /\ b = o
  BY <1>1, <1>3 DEF MergeOf
<1>4. CASE o # t /\ b = t
  BY <1>1, <1>4 DEF MergeOf
<1>5. CASE b = NullId /\ o # t
  BY <1>1, <1>5 DEF MergeOf
<1>6. CASE b # NullId /\ o # t /\ b # o /\ b # t
  <2> DEFINE names == DOMAIN b \cup DOMAIN o \cup DOMAIN t
             m == [n \in names |-> MergeEntry(merges, EntryOf(b, n), EntryOf(o, n), EntryOf(t, n))]
  <2>1. MergeOf(merges, b, o, t) =
            IF \E n \in names : ~m[n].ok THEN Failed
            ELSE Ok([n \in {k \in names : m[k].tree # Absent} |-> m[n].tree])
    BY <1>6 DEF MergeOf
  <2>2. m = Merged(merges, b, o, t) /\ DOMAIN m = names
    BY DEF Merged
  <2>3. b \in AnyTree
    BY <1>6 DEF SomeTree
  <2> HIDE DEF m, names
  <2> QED
    BY <1>6, <2>1, <2>2, <2>3 DEF Assembled
<1> QED
  BY <1>1, <1>2, <1>3, <1>4, <1>5, <1>6

LEMMA BothChangedIs ==
  ASSUME NEW o, NEW t, NEW sub
  PROVE  /\ o # Absent /\ o = t => BothChanged(o, t, sub) = Ok(o)
         /\ o # t /\ IsDirectory(o) /\ IsDirectory(t) /\ sub.ok =>
                BothChanged(o, t, sub) = Ok([mode |-> "directory", id |-> sub.tree])
         /\ ~(o # Absent /\ o = t) /\ ~(o # t /\ IsDirectory(o) /\ IsDirectory(t) /\ sub.ok) =>
                BothChanged(o, t, sub) = Failed
  BY DEF BothChanged

(* The cases of an entry. *)
LEMMA MergeEntryIs ==
  ASSUME NEW merges, NEW b, NEW o, NEW t
  PROVE  LET sub == merges[<<SubBase(b), o.id, t.id>>]
             both == IsDirectory(o) /\ IsDirectory(t)
         IN  /\ b = t => MergeEntry(merges, b, o, t) = Ok(o)
             /\ b = o => MergeEntry(merges, b, o, t) = Ok(t)
             /\ b # o /\ b # t /\ o = t /\ o # Absent => MergeEntry(merges, b, o, t) = Ok(o)
             /\ b # o /\ b # t /\ o = t /\ o = Absent => MergeEntry(merges, b, o, t) = Failed
             /\ b # o /\ b # t /\ o # t /\ both /\ sub.ok =>
                    MergeEntry(merges, b, o, t) = Ok([mode |-> "directory", id |-> sub.tree])
             /\ b # o /\ b # t /\ o # t /\ both /\ ~sub.ok => MergeEntry(merges, b, o, t) = Failed
             /\ b # o /\ b # t /\ o # t /\ ~both => MergeEntry(merges, b, o, t) = Failed
<1> DEFINE sub == merges[<<SubBase(b), o.id, t.id>>]
           both == IsDirectory(o) /\ IsDirectory(t)
           given == IF both THEN sub ELSE Failed
<1>1. b # o /\ b # t => MergeEntry(merges, b, o, t) = BothChanged(o, t, given)
  BY DEF MergeEntry
<1>2. b = t \/ b = o => (b = t => MergeEntry(merges, b, o, t) = Ok(o)) /\ (b = o => MergeEntry(merges, b, o, t) = Ok(t))
  BY DEF MergeEntry
<1>3. both => given = sub
  OBVIOUS
<1> HIDE DEF sub, given
<1>4. ~IsDirectory(Absent)
  BY DEF Absent, IsDirectory
<1>5. CASE b = t \/ b = o
  BY <1>2, <1>5
<1>6. CASE b # o /\ b # t /\ both
  BY <1>1, <1>3, <1>4, <1>6, BothChangedIs DEF sub
<1>7. CASE b # o /\ b # t /\ ~both
  BY <1>1, <1>4, <1>7, BothChangedIs
<1> QED
  BY <1>5, <1>6, <1>7

---------------------------------------------------------------------------
(* The merge of two trees asks only for merges of directories less deep. *)
LEMMA MergeOfSame ==
  ASSUME NEW merges, NEW others, NEW b \in SomeTree, NEW o \in AnyTree, NEW t \in AnyTree,
         \A under \in SomeTree : \A mine \in AnyTree : \A other \in AnyTree :
            Depth[mine] < Depth[o] => merges[<<under, mine, other>>] = others[<<under, mine, other>>]
  PROVE  MergeOf(merges, b, o, t) = MergeOf(others, b, o, t)
<1> DEFINE names == DOMAIN b \cup DOMAIN o \cup DOMAIN t
           B(n) == EntryOf(b, n)
           O(n) == EntryOf(o, n)
           R(n) == EntryOf(t, n)
<1>1. CASE b # NullId /\ o # t /\ b # o /\ b # t
  <2>1. b \in AnyTree
    BY <1>1 DEF SomeTree
  <2>2. ASSUME NEW n \in names
        PROVE  MergeEntry(merges, B(n), O(n), R(n)) = MergeEntry(others, B(n), O(n), R(n))
    <3>1. Shaped(B(n))
      BY <2>1, EntryIs
    <3>2. SubBase(B(n)) \in SomeTree
      BY <3>1, SubBaseIs
    <3>3. IsDirectory(O(n)) => O(n).id \in AnyTree /\ Depth[O(n).id] < Depth[o]
      BY EntryIs
    <3>4. IsDirectory(R(n)) => R(n).id \in AnyTree
      BY EntryIs
    <3>5. CASE IsDirectory(O(n)) /\ IsDirectory(R(n))
      <4>1. merges[<<SubBase(B(n)), O(n).id, R(n).id>>] = others[<<SubBase(B(n)), O(n).id, R(n).id>>]
        BY <3>2, <3>3, <3>4, <3>5
      <4> HIDE DEF B, O, R
      <4> QED
        BY <3>5, <4>1 DEF MergeEntry
    <3>6. CASE ~(IsDirectory(O(n)) /\ IsDirectory(R(n)))
      BY <3>6 DEF MergeEntry
    <3> QED
      BY <3>5, <3>6
  <2>3. Merged(merges, b, o, t) = Merged(others, b, o, t)
    BY <2>2 DEF Merged
  <2> QED
    BY <1>1, <2>3, MergeOfIs
<1>2. CASE ~(b # NullId /\ o # t /\ b # o /\ b # t)
  BY <1>2, MergeOfIs
<1> QED
  BY <1>1, <1>2

(* MergeTrees is what its recursive definition says. *)
LEMMA MergeTreesIs ==
  ASSUME NEW b \in SomeTree, NEW o \in AnyTree, NEW t \in AnyTree
  PROVE  MergeTrees[<<b, o, t>>] = MergeOf(MergeTrees, b, o, t)
<1> DEFINE Calls == (AnyTree \cup {NullId}) \X AnyTree \X AnyTree
           Upto(n) == {call \in Calls : Depth[call[2]] < n}
           Is(f, call) == MergeOf(f, call[1], call[2], call[3])
           Are(f, n) == f = [call \in Upto(n) |-> Is(f, call)]
           T == {n \in Nat : ~\E f : Are(f, n)}
<1>1. MaxDepth \in Nat /\ \A tree \in AnyTree : Depth[tree] \in 0..MaxDepth
  BY TreesAssumption
<1>2. \A call \in Calls : /\ call[1] \in SomeTree /\ call[2] \in AnyTree /\ call[3] \in AnyTree
                          /\ call = <<call[1], call[2], call[3]>>
  BY DEF SomeTree
<1>3. \A under \in SomeTree : \A mine \in AnyTree : \A other \in AnyTree :
          /\ <<under, mine, other>> \in Calls
          /\ <<under, mine, other>>[1] = under /\ <<under, mine, other>>[2] = mine
          /\ <<under, mine, other>>[3] = other
  BY DEF SomeTree
<1> HIDE DEF Calls
<1>4. ASSUME NEW f, NEW g, NEW call \in Calls,
             \A c \in Calls : Depth[c[2]] < Depth[call[2]] => f[c] = g[c]
      PROVE  Is(f, call) = Is(g, call)
  <2>1. \A under \in SomeTree : \A mine \in AnyTree : \A other \in AnyTree :
            Depth[mine] < Depth[call[2]] => f[<<under, mine, other>>] = g[<<under, mine, other>>]
    BY <1>3, <1>4
  <2>2. call[1] \in SomeTree /\ call[2] \in AnyTree /\ call[3] \in AnyTree
    BY <1>2
  <2> QED
    BY <2>1, <2>2, MergeOfSame
<1> HIDE DEF Is
<1>5. \A n \in Nat : \E f : Are(f, n)
  <2>1. SUFFICES ASSUME T # {} PROVE FALSE
    OBVIOUS
  <2>2. PICK n \in T : \A m \in T : n <= m
    <3>1. T \subseteq Nat
      OBVIOUS
    <3> HIDE DEF T
    <3> QED
      BY <2>1, <3>1, LeastNumber
  <2>3. n \in Nat /\ ~\E f : Are(f, n)
    OBVIOUS
  <2>4. CASE n = 0
    <3>1. Upto(0) = {}
      BY <1>1, <1>2
    <3> HIDE DEF Upto
    <3> DEFINE g == [call \in {} |-> {}]
    <3>2. g = [call \in Upto(0) |-> Is(g, call)]
      BY <3>1
    <3> HIDE DEF g
    <3> QED
      BY <2>3, <2>4, <3>2
  <2>5. CASE n # 0
    <3>1. n - 1 \in Nat /\ ~(n <= n - 1)
      BY <2>3, <2>5
    <3>2. n - 1 \notin T
      <4> HIDE DEF T
      <4> QED
        BY <2>2, <3>1
    <3>3. PICK f : Are(f, n - 1)
      <4>1. \A m \in Nat : m \notin T => \E f : Are(f, m)
        OBVIOUS
      <4> HIDE DEF Are, T
      <4> QED
        BY <3>1, <3>2, <4>1
    <3> DEFINE more == [call \in Upto(n) |-> Is(f, call)]
    <3>4. \A call \in Upto(n - 1) : f[call] = Is(f, call)
      BY <3>3
    <3>5. \A call \in Upto(n) : more[call] = Is(f, call)
      OBVIOUS
    <3>6. Upto(n - 1) \subseteq Upto(n)
      BY <1>1, <1>2, <2>3
    <3> HIDE DEF more, Are
    <3>7. \A call \in Upto(n - 1) : f[call] = more[call]
      BY <3>4, <3>5, <3>6
    <3>8. ASSUME NEW call \in Upto(n) PROVE Is(f, call) = Is(more, call)
      <4>1. call \in Calls /\ Depth[call[2]] < n /\ Depth[call[2]] \in Nat
        BY <1>1, <1>2
      <4>2. ASSUME NEW c \in Calls, Depth[c[2]] < Depth[call[2]] PROVE f[c] = more[c]
        <5>1. Depth[c[2]] \in Nat
          BY <1>1, <1>2
        <5>2. Depth[c[2]] < n - 1
          BY <2>3, <4>1, <4>2, <5>1
        <5> QED
          BY <3>7, <5>2
      <4> QED
        BY <1>4, <4>1, <4>2
    <3>9. more = [call \in Upto(n) |-> Is(more, call)]
      BY <3>8 DEF more
    <3> QED
      BY <2>3, <3>9 DEF Are
  <2> QED
    BY <2>4, <2>5
<1>6. Upto(MaxDepth + 1) = Calls /\ MaxDepth + 1 \in Nat
  BY <1>1, <1>2
<1>7. \E f : f = [call \in Calls |-> Is(f, call)]
  <2> HIDE DEF Upto
  <2> QED
    BY <1>5, <1>6
<1>8. MergeTrees = CHOOSE f : f = [call \in Calls |-> Is(f, call)]
  BY DEF MergeTrees, Calls, Is
<1>9. MergeTrees = [call \in Calls |-> Is(MergeTrees, call)]
  BY <1>7, <1>8
<1>10. <<b, o, t>> \in Calls
  BY <1>3
<1>11. MergeTrees[<<b, o, t>>] = Is(MergeTrees, <<b, o, t>>)
  BY <1>9, <1>10
<1> QED
  BY <1>3, <1>11 DEF Is

LEMMA ChildIs ==
  ASSUME NEW e, Shaped(e), NEW n
  PROVE  /\ Shaped(Child(e, n))
         /\ Child(e, n) # Absent => n \in Names
         /\ Child(e, n) # Absent => Seen(Child(e, n)) = Child(e, n)
<1>1. CASE IsDirectory(e)
  <2>1. e.id \in AnyTree
    BY <1>1 DEF Shaped
  <2> QED
    BY <1>1, <2>1, EntryIs DEF Child
<1>2. CASE ~IsDirectory(e)
  BY <1>2 DEF Child, Shaped, IsDirectory, Absent
<1> QED
  BY <1>1, <1>2

(* What the merge of three entries gives. *)
Sub(b, o, t) == MergeTrees[<<SubBase(b), o.id, t.id>>]

LEMMA MergeIs ==
  ASSUME NEW b \in SomeTree, NEW o \in AnyTree, NEW t \in AnyTree
  PROVE  /\ MergeTrees[<<b, o, t>>].ok \in BOOLEAN
         /\ MergeTrees[<<b, o, t>>].ok => MergeTrees[<<b, o, t>>] = Ok(MergeTrees[<<b, o, t>>].tree)
         /\ o = t => MergeTrees[<<b, o, t>>] = Ok(o)
         /\ b = o => MergeTrees[<<b, o, t>>] = Ok(t)
         /\ b = t => MergeTrees[<<b, o, t>>] = Ok(o)
         /\ b = NullId /\ o # t => MergeTrees[<<b, o, t>>] = Failed
         /\ b # NullId /\ o # t /\ b # o /\ b # t =>
                b \in AnyTree /\ MergeTrees[<<b, o, t>>] = Assembled(Merged(MergeTrees, b, o, t))
<1> DEFINE r == MergeTrees[<<b, o, t>>]
<1>1. r = MergeOf(MergeTrees, b, o, t)
  BY MergeTreesIs
<1> HIDE DEF r
<1>2. /\ o = t => r = Ok(o)
      /\ b = o => r = Ok(t)
      /\ b = t => r = Ok(o)
      /\ b = NullId /\ o # t => r = Failed
      /\ b # NullId /\ o # t /\ b # o /\ b # t =>
             b \in AnyTree /\ r = Assembled(Merged(MergeTrees, b, o, t))
  BY <1>1, MergeOfIs
<1>3. Failed.ok = FALSE /\ \A tree : Ok(tree).ok = TRUE /\ Ok(tree) = Ok(Ok(tree).tree)
  BY DEF Failed, Ok
<1>4. \A merged : Assembled(merged) = Failed \/ \E tree : Assembled(merged) = Ok(tree)
  BY DEF Assembled
<1>5. r = Failed \/ \E tree : r = Ok(tree)
  BY <1>2, <1>4
<1>6. r.ok \in BOOLEAN /\ (r.ok => r = Ok(r.tree))
  BY <1>3, <1>5
<1> QED
  BY <1>2, <1>6 DEF r

LEMMA EntryMerged ==
  ASSUME NEW b, NEW o, NEW t
  PROVE  LET e == MergeEntry(MergeTrees, b, o, t)
             both == IsDirectory(o) /\ IsDirectory(t)
         IN  /\ b = t => e = Ok(o)
             /\ b = o => e = Ok(t)
             /\ b # o /\ b # t /\ o = t /\ o # Absent => e = Ok(o)
             /\ b # o /\ b # t /\ o = t /\ o = Absent => e = Failed
             /\ b # o /\ b # t /\ o # t /\ both /\ Sub(b, o, t).ok =>
                    e = Ok([mode |-> "directory", id |-> Sub(b, o, t).tree])
             /\ b # o /\ b # t /\ o # t /\ both /\ ~Sub(b, o, t).ok => e = Failed
             /\ b # o /\ b # t /\ o # t /\ ~both => e = Failed
  BY MergeEntryIs DEF Sub

(* Where the merge of three entries fails. *)
LEMMA EntryFails ==
  ASSUME NEW b, NEW o, NEW t, Shaped(b), Shaped(o), Shaped(t)
  PROVE  /\ MergeEntry(MergeTrees, b, o, t).ok \in BOOLEAN
         /\ ~MergeEntry(MergeTrees, b, o, t).ok <=>
                /\ b # o /\ b # t
                /\ \/ o = Absent /\ t = Absent
                   \/ /\ o # t
                      /\ IsDirectory(b) /\ IsDirectory(o) /\ IsDirectory(t) => ~Sub(b, o, t).ok
<1> DEFINE e == MergeEntry(MergeTrees, b, o, t)
           both == IsDirectory(o) /\ IsDirectory(t)
<1>1. /\ b = t => e = Ok(o)
      /\ b = o => e = Ok(t)
      /\ b # o /\ b # t /\ o = t /\ o # Absent => e = Ok(o)
      /\ b # o /\ b # t /\ o = t /\ o = Absent => e = Failed
      /\ b # o /\ b # t /\ o # t /\ both /\ Sub(b, o, t).ok =>
             e = Ok([mode |-> "directory", id |-> Sub(b, o, t).tree])
      /\ b # o /\ b # t /\ o # t /\ both /\ ~Sub(b, o, t).ok => e = Failed
      /\ b # o /\ b # t /\ o # t /\ ~both => e = Failed
  BY EntryMerged
<1>2. both /\ o # t /\ ~IsDirectory(b) => ~Sub(b, o, t).ok
  <2>1. SUFFICES ASSUME both, o # t, ~IsDirectory(b) PROVE ~Sub(b, o, t).ok
    OBVIOUS
  <2>2. SubBase(b) = NullId
    BY <2>1 DEF SubBase
  <2>3. o.id \in AnyTree /\ t.id \in AnyTree /\ o.id # t.id
    BY <2>1 DEF Shaped
  <2>4. NullId \in SomeTree
    BY DEF SomeTree
  <2>5. Sub(b, o, t) = Failed
    BY <2>2, <2>3, <2>4, MergeIs DEF Sub
  <2> QED
    BY <2>5 DEF Failed
<1>3. Failed.ok = FALSE /\ \A tree : Ok(tree).ok = TRUE
  BY DEF Failed, Ok
<1> HIDE DEF e
<1>4. CASE b = o \/ b = t
  BY <1>1, <1>3, <1>4 DEF e
<1>5. CASE b # o /\ b # t /\ o = t
  BY <1>1, <1>3, <1>5 DEF e
<1>6. CASE b # o /\ b # t /\ o # t /\ both /\ Sub(b, o, t).ok
  <2>1. e.ok = TRUE
    BY <1>1, <1>3, <1>6
  <2>2. IsDirectory(b)
    BY <1>2, <1>6
  <2> QED
    BY <1>6, <2>1, <2>2 DEF e
<1>7. CASE b # o /\ b # t /\ o # t /\ ~(both /\ Sub(b, o, t).ok)
  <2>1. e.ok = FALSE
    BY <1>1, <1>3, <1>7
  <2>2. IsDirectory(b) /\ IsDirectory(o) /\ IsDirectory(t) => ~Sub(b, o, t).ok
    BY <1>7
  <2> QED
    BY <1>7, <2>1, <2>2 DEF e
<1> QED
  BY <1>4, <1>5, <1>6, <1>7

(* Where the merge of three trees fails. *)
LEMMA MergeFails ==
  ASSUME NEW b \in AnyTree, NEW o \in AnyTree, NEW t \in AnyTree
  PROVE  ~MergeTrees[<<b, o, t>>].ok <=>
            /\ b # o /\ b # t /\ o # t
            /\ \E n \in Names :
                   ~MergeEntry(MergeTrees, EntryOf(b, n), EntryOf(o, n), EntryOf(t, n)).ok
<1> DEFINE r == MergeTrees[<<b, o, t>>]
           E(n) == MergeEntry(MergeTrees, EntryOf(b, n), EntryOf(o, n), EntryOf(t, n))
           M == Merged(MergeTrees, b, o, t)
<1>1. b \in SomeTree /\ b # NullId
  BY TreesAssumption DEF SomeTree
<1>2. Failed.ok = FALSE /\ \A tree : Ok(tree).ok = TRUE
  BY DEF Failed, Ok
<1>3. ASSUME b = o \/ b = t \/ o = t PROVE r.ok
  BY <1>1, <1>2, <1>3, MergeIs
<1>4. ASSUME b # o, b # t, o # t PROVE ~r.ok <=> \E n \in Names : ~E(n).ok
  <2>1. r = Assembled(M)
    BY <1>1, <1>4, MergeIs
  <2>2. DOMAIN M = DOMAIN b \cup DOMAIN o \cup DOMAIN t /\ \A n \in DOMAIN M : M[n] = E(n)
    BY DEF Merged
  <2>3. ~r.ok <=> \E n \in DOMAIN M : ~M[n].ok
    <3> HIDE DEF M
    <3> QED
      BY <1>2, <2>1 DEF Assembled
  <2>4. \A n \in DOMAIN M : n \in Names
    BY <2>2 DEF Names
  <2>5. ASSUME NEW n \in Names, n \notin DOMAIN M PROVE E(n).ok
    <3>1. EntryOf(b, n) = Absent /\ EntryOf(o, n) = Absent /\ EntryOf(t, n) = Absent
      BY <2>2, <2>5 DEF EntryOf
    <3> QED
      BY <3>1, EntryFails, EntryIs
  <2> HIDE DEF M, E
  <2> QED
    BY <2>2, <2>3, <2>4, <2>5
<1> QED
  BY <1>3, <1>4

---------------------------------------------------------------------------
(* The merge goes along with a walk: it is at three directories whose merge *)
(* is the result's, or took one side as it is.                              *)
Merging(b, o, t, r) ==
    /\ IsDirectory(o) /\ IsDirectory(t) /\ IsDirectory(r)
    /\ Sub(b, o, t) = Ok(r.id)

LEMMA MergeStep ==
  ASSUME NEW b, NEW o, NEW t, NEW r, Shaped(b), Shaped(o), Shaped(t), Merging(b, o, t, r), NEW n
  PROVE  \/ Merging(Child(b, n), Child(o, n), Child(t, n), Child(r, n))
         \/ ThreeWay(Child(b, n), Child(o, n), Child(t, n), Child(r, n))
<1> DEFINE bn == Child(b, n)
           on == Child(o, n)
           tn == Child(t, n)
           rn == Child(r, n)
<1>1. /\ o = [mode |-> "directory", id |-> o.id] /\ o.id \in AnyTree /\ on = EntryOf(o.id, n)
      /\ t = [mode |-> "directory", id |-> t.id] /\ t.id \in AnyTree /\ tn = EntryOf(t.id, n)
      /\ rn = EntryOf(r.id, n)
  BY DEF Merging, Shaped, Child
<1>2. /\ SubBase(b) \in SomeTree
      /\ SubBase(b) # NullId => IsDirectory(b) /\ SubBase(b) = b.id /\ bn = EntryOf(b.id, n)
  BY SubBaseIs DEF SubBase, Child
<1>3. MergeTrees[<<SubBase(b), o.id, t.id>>] = Ok(r.id)
  BY DEF Merging, Sub
<1>4. Failed.ok = FALSE /\ \A tree : Ok(tree).ok = TRUE /\ Ok(tree).tree = tree
  BY DEF Failed, Ok
<1>5. NullId \notin AnyTree
  BY TreesAssumption
<1>6. CASE o.id = t.id
  <2>1. Ok(r.id) = Ok(o.id)
    BY <1>1, <1>2, <1>3, <1>6, MergeIs
  <2>2. r.id = o.id
    BY <1>4, <2>1
  <2> QED
    BY <1>1, <1>6, <2>2 DEF ThreeWay
<1>7. CASE SubBase(b) = o.id
  <2>1. Ok(r.id) = Ok(t.id)
    BY <1>1, <1>2, <1>3, <1>7, MergeIs
  <2>2. r.id = t.id
    BY <1>4, <2>1
  <2> QED
    BY <1>1, <1>2, <1>5, <1>7, <2>2 DEF ThreeWay
<1>8. CASE SubBase(b) = t.id
  <2>1. Ok(r.id) = Ok(o.id)
    BY <1>1, <1>2, <1>3, <1>8, MergeIs
  <2>2. r.id = o.id
    BY <1>4, <2>1
  <2> QED
    BY <1>1, <1>2, <1>5, <1>8, <2>2 DEF ThreeWay
<1>9. CASE SubBase(b) = NullId /\ o.id # t.id
  <2>1. Ok(r.id) = Failed
    BY <1>1, <1>2, <1>3, <1>9, MergeIs
  <2> QED
    BY <1>4, <2>1
<1>10. CASE SubBase(b) # NullId /\ o.id # t.id /\ SubBase(b) # o.id /\ SubBase(b) # t.id
  <2> DEFINE M == Merged(MergeTrees, b.id, o.id, t.id)
             e == MergeEntry(MergeTrees, bn, on, tn)
  <2>1. b.id \in AnyTree /\ Ok(r.id) = Assembled(M) /\ bn = EntryOf(b.id, n)
    BY <1>1, <1>2, <1>3, <1>10, MergeIs
  <2>2. /\ DOMAIN M = DOMAIN b.id \cup DOMAIN o.id \cup DOMAIN t.id
        /\ n \in DOMAIN M => M[n] = e
    BY <1>1, <2>1 DEF Merged
  <2> HIDE DEF M
  <2>3. ~\E m \in DOMAIN M : ~M[m].ok
    BY <1>4, <2>1 DEF Assembled
  <2>4. r.id = [m \in {k \in DOMAIN M : M[k].tree # Absent} |-> M[m].tree]
    <3> DEFINE tree == [m \in {k \in DOMAIN M : M[k].tree # Absent} |-> M[m].tree]
    <3>1. Ok(r.id) = Ok(tree)
      BY <2>1, <2>3 DEF Assembled
    <3> HIDE DEF tree
    <3>2. r.id = tree
      BY <1>4, <3>1
    <3> QED
      BY <3>2 DEF tree
  <2>5. /\ Shaped(bn) /\ Shaped(on) /\ Shaped(tn)
        /\ on # Absent => Seen(on) = on
        /\ tn # Absent => Seen(tn) = tn
    BY ChildIs
  <2>6. CASE n \notin DOMAIN M
    <3>1. bn = Absent /\ on = Absent /\ tn = Absent
      BY <1>1, <2>1, <2>2, <2>6 DEF EntryOf
    <3>2. rn = Absent
      BY <1>1, <2>4, <2>6 DEF EntryOf
    <3> QED
      BY <3>1, <3>2 DEF ThreeWay
  <2>7. CASE n \in DOMAIN M
    <3>1. rn = IF e.tree # Absent THEN Seen(e.tree) ELSE Absent
      BY <1>1, <2>2, <2>4, <2>7 DEF EntryOf
    <3>2. e.ok
      BY <2>2, <2>3, <2>7
    <3> HIDE DEF bn, on, tn, rn, e
    <3>3. /\ bn = tn => e = Ok(on)
          /\ bn = on => e = Ok(tn)
          /\ bn # on /\ bn # tn /\ on = tn /\ on # Absent => e = Ok(on)
          /\ bn # on /\ bn # tn /\ on = tn /\ on = Absent => e = Failed
          /\ bn # on /\ bn # tn /\ on # tn /\ (IsDirectory(on) /\ IsDirectory(tn)) /\ Sub(bn, on, tn).ok =>
                 e = Ok([mode |-> "directory", id |-> Sub(bn, on, tn).tree])
          /\ bn # on /\ bn # tn /\ on # tn /\ (IsDirectory(on) /\ IsDirectory(tn)) /\ ~Sub(bn, on, tn).ok =>
                 e = Failed
          /\ bn # on /\ bn # tn /\ on # tn /\ ~(IsDirectory(on) /\ IsDirectory(tn)) => e = Failed
      BY EntryMerged DEF e
    <3>4. CASE bn = tn
      <4>1. e.tree = on
        BY <1>4, <3>3, <3>4
      <4>2. rn = on
        BY <2>5, <3>1, <4>1
      <4> QED
        BY <3>4, <4>2 DEF ThreeWay, bn, on, tn, rn
    <3>5. CASE bn = on
      <4>1. e.tree = tn
        BY <1>4, <3>3, <3>5
      <4>2. rn = tn
        BY <2>5, <3>1, <4>1
      <4> QED
        BY <3>5, <4>2 DEF ThreeWay, bn, on, tn, rn
    <3>6. CASE bn # on /\ bn # tn /\ on = tn
      <4>1. e.tree = on
        BY <1>4, <3>2, <3>3, <3>6
      <4>2. rn = on
        BY <2>5, <3>1, <4>1
      <4> QED
        BY <3>6, <4>2 DEF ThreeWay, bn, on, tn, rn
    <3>7. CASE bn # on /\ bn # tn /\ on # tn
      <4>1. IsDirectory(on) /\ IsDirectory(tn) /\ Sub(bn, on, tn).ok
        BY <1>4, <3>2, <3>3, <3>7
      <4> DEFINE x == [mode |-> "directory", id |-> Sub(bn, on, tn).tree]
      <4>2. e.tree = x
        BY <1>4, <3>3, <3>7, <4>1
      <4>3. IsDirectory(x) /\ x # Absent /\ x.id = Sub(bn, on, tn).tree
        BY DEF IsDirectory, Absent
      <4>4. Seen(x) = x
        BY <4>3 DEF Seen
      <4> HIDE DEF x
      <4>5. rn = x
        BY <3>1, <4>2, <4>3, <4>4
      <4>6. Sub(bn, on, tn) = Ok(Sub(bn, on, tn).tree)
        <5>1. SubBase(bn) \in SomeTree
          BY <2>5, SubBaseIs
        <5>2. on.id \in AnyTree /\ tn.id \in AnyTree
          BY <2>5, <4>1 DEF Shaped
        <5> QED
          BY <4>1, <5>1, <5>2, MergeIs DEF Sub
      <4>7. Merging(bn, on, tn, rn)
        BY <4>1, <4>3, <4>5, <4>6 DEF Merging
      <4> QED
        BY <4>7 DEF bn, on, tn, rn
    <3> QED
      BY <3>4, <3>5, <3>6, <3>7
  <2> QED
    BY <2>6, <2>7
<1> QED
  BY <1>6, <1>7, <1>8, <1>9, <1>10

---------------------------------------------------------------------------
(* The entries along a path are what their recursive definition says. *)
LEMMA AlongIs ==
  ASSUME NEW tree, NEW p, Len(p) \in Nat
  PROVE  \A k \in 0..Len(p) :
            Along(tree, p)[k] = IF k = 0 THEN Root(tree) ELSE Child(Along(tree, p)[k - 1], p[k])
<1> DEFINE L == Len(p)
           Is(f, k) == IF k = 0 THEN Root(tree) ELSE Child(f[k - 1], p[k])
           UpTo(f, n) == f = [k \in 0..n |-> Is(f, k)]
           T == {n \in 0..L : ~\E f : UpTo(f, n)}
<1> HIDE DEF L
<1>0. L \in Nat
  BY DEF L
<1>2. \A n \in 0..L : \E f : UpTo(f, n)
  <2>1. SUFFICES ASSUME T # {} PROVE FALSE
    OBVIOUS
  <2>2. PICK n \in T : \A m \in T : n <= m
    <3>1. T \subseteq Nat
      BY <1>0
    <3> HIDE DEF T
    <3> QED
      BY <2>1, <3>1, LeastNumber
  <2>3. n \in 0..L /\ ~\E f : UpTo(f, n)
    OBVIOUS
  <2>4. CASE n = 0
    <3> DEFINE f == [k \in 0..0 |-> Root(tree)]
    <3>1. UpTo(f, 0)
      OBVIOUS
    <3> QED
      BY <2>3, <2>4, <3>1
  <2>5. CASE n # 0
    <3>1. n - 1 \in 0..L /\ n - 1 \notin T
      <4>1. n - 1 \in 0..L /\ ~(n <= n - 1)
        BY <1>0, <2>3, <2>5
      <4> HIDE DEF T
      <4> QED
        BY <2>2, <4>1
    <3>2. PICK f : UpTo(f, n - 1)
      <4>1. \A m \in 0..L : m \notin T => \E f : UpTo(f, m)
        OBVIOUS
      <4> HIDE DEF UpTo, T
      <4> QED
        BY <3>1, <4>1
    <3> DEFINE more == [k \in 0..n |-> Is(f, k)]
    <3> HIDE DEF Is
    <3>3. \A k \in 0..(n - 1) : f[k] = Is(f, k)
      BY <3>2
    <3>4. \A k \in 0..n : more[k] = Is(f, k)
      OBVIOUS
    <3> HIDE DEF UpTo
    <3>5. \A k \in 0..(n - 1) : f[k] = more[k]
      <4>1. \A k \in 0..(n - 1) : k \in 0..n
        BY <1>0, <2>3
      <4> HIDE DEF more
      <4> QED
        BY <3>3, <3>4, <4>1
    <3>6. \A k \in 0..n : Is(f, k) = Is(more, k)
      <4> HIDE DEF more
      <4> TAKE k \in 0..n
      <4>1. k # 0 => k - 1 \in 0..(n - 1)
        BY <1>0, <2>3
      <4> QED
        BY <3>5, <4>1 DEF Is
    <3>7. UpTo(more, n)
      BY <3>6 DEF UpTo
    <3> HIDE DEF more
    <3> QED
      BY <2>3, <3>7
  <2> QED
    BY <2>4, <2>5
<1>3. \E f : f = [k \in 0..L |-> Is(f, k)]
  <2>1. L \in 0..L
    BY <1>0
  <2> QED
    BY <1>2, <2>1
<1>4. Along(tree, p) = CHOOSE f : f = [k \in 0..L |-> Is(f, k)]
  BY DEF Along, L
<1> HIDE DEF Is
<1>5. Along(tree, p) = [k \in 0..L |-> Is(Along(tree, p), k)]
  BY <1>3, <1>4
<1> QED
  BY <1>5 DEF Is, L

(* What is along a path depends on that much of the path only. *)
LEMMA AlongSame ==
  ASSUME NEW tree, NEW p, NEW q, Len(p) \in Nat, Len(q) \in Nat,
         NEW n \in Nat, n <= Len(p), n <= Len(q), \A j \in 1..n : p[j] = q[j]
  PROVE  \A k \in 0..n : Along(tree, p)[k] = Along(tree, q)[k]
<1> DEFINE P == Along(tree, p)
           Q == Along(tree, q)
           T == {k \in 0..n : P[k] # Q[k]}
<1>1. \A k \in 0..n : P[k] = IF k = 0 THEN Root(tree) ELSE Child(P[k - 1], p[k])
  <2>1. \A k \in 0..n : k \in 0..Len(p)
    OBVIOUS
  <2> QED
    BY <2>1, AlongIs
<1>2. \A k \in 0..n : Q[k] = IF k = 0 THEN Root(tree) ELSE Child(Q[k - 1], q[k])
  <2>1. \A k \in 0..n : k \in 0..Len(q)
    OBVIOUS
  <2> QED
    BY <2>1, AlongIs
<1> HIDE DEF P, Q
<1>3. SUFFICES ASSUME T # {} PROVE FALSE
  BY DEF P, Q
<1>4. PICK k \in T : \A m \in T : k <= m
  <2>1. T \subseteq Nat
    OBVIOUS
  <2> HIDE DEF T
  <2> QED
    BY <1>3, <2>1, LeastNumber
<1>5. k \in 0..n /\ P[k] # Q[k]
  BY <1>4
<1>6. k # 0
  BY <1>1, <1>2, <1>5
<1>7. k - 1 \in 0..n /\ P[k - 1] = Q[k - 1]
  <2>1. k - 1 \in 0..n /\ ~(k <= k - 1)
    BY <1>5, <1>6
  <2>2. k - 1 \notin T
    <3> HIDE DEF T
    <3> QED
      BY <1>4, <2>1
  <2> QED
    BY <2>1, <2>2
<1>8. p[k] = q[k]
  BY <1>5, <1>6
<1> QED
  BY <1>1, <1>2, <1>5, <1>6, <1>7, <1>8

LEMMA EntryAtRoot == \A tree : EntryAt(tree, <<>>) = Root(tree)
<1> TAKE tree
<1>1. Len(<<>>) = 0 /\ 0 \in 0..Len(<<>>)
  OBVIOUS
<1>2. Along(tree, <<>>)[0] = Root(tree)
  BY <1>1, AlongIs
<1> QED
  BY <1>1, <1>2 DEF EntryAt

LEMMA EntryBelow ==
  ASSUME NEW tree, NEW S, NEW p \in Seq(S), NEW n \in S
  PROVE  EntryAt(tree, Append(p, n)) = Child(EntryAt(tree, p), n)
<1> DEFINE q == Append(p, n)
           m == Len(p)
<1>1. /\ m \in Nat /\ Len(q) = m + 1 /\ q[m + 1] = n
      /\ \A j \in 1..m : p[j] = q[j]
  BY AppendProperties, LenProperties
<1> HIDE DEF q, m
<1>2. /\ m + 1 \in 0..(m + 1) /\ m + 1 # 0 /\ (m + 1) - 1 = m
      /\ m <= m /\ m <= m + 1 /\ m \in 0..m /\ m + 1 \in Nat
  BY <1>1
<1>3. Along(tree, q)[m + 1] = Child(Along(tree, q)[m], n)
  <2>1. Len(q) \in Nat /\ m + 1 \in 0..Len(q)
    BY <1>1, <1>2
  <2>2. Along(tree, q)[m + 1] = IF m + 1 = 0 THEN Root(tree) ELSE Child(Along(tree, q)[(m + 1) - 1], q[m + 1])
    BY <2>1, AlongIs
  <2> QED
    BY <1>1, <1>2, <2>2
<1>4. Along(tree, p)[m] = Along(tree, q)[m]
  <2>1. Len(p) = m
    BY DEF m
  <2> QED
    BY <1>1, <1>2, <2>1, AlongSame
<1> QED
  BY <1>1, <1>3, <1>4 DEF EntryAt, q, m

(* Prefixes of paths. *)
LEMMA PrefixIs ==
  ASSUME NEW S, NEW p \in Seq(S), NEW k \in 0..Len(p)
  PROVE  /\ SubSeq(p, 1, k) \in Seq(S) /\ Len(SubSeq(p, 1, k)) = k
         /\ \A i \in 1..k : SubSeq(p, 1, k)[i] = p[i]
         /\ \A j \in 0..k : SubSeq(SubSeq(p, 1, k), 1, j) = SubSeq(p, 1, j)
<1> DEFINE q == SubSeq(p, 1, k)
<1>1. Len(p) \in Nat /\ \A i \in 1..Len(p) : p[i] \in S
  BY LenProperties, ElementOfSeq
<1>2. \A n \in 0..Len(p) : /\ SubSeq(p, 1, n) \in Seq(S) /\ Len(SubSeq(p, 1, n)) = n
                           /\ \A i \in 1..n : SubSeq(p, 1, n)[i] = p[i]
  <2> TAKE n \in 0..Len(p)
  <2>1. \A i \in 1..n : p[i] \in S /\ 1 + i - 1 = i
    BY <1>1
  <2>2. n \in Int /\ 1 \in Int /\ n - 1 + 1 = n /\ (IF 1 <= n THEN n - 1 + 1 ELSE 0) = n
    BY <1>1
  <2>3. /\ SubSeq(p, 1, n) \in Seq(S)
        /\ Len(SubSeq(p, 1, n)) = (IF 1 <= n THEN n - 1 + 1 ELSE 0)
        /\ \A i \in 1..(n - 1 + 1) : SubSeq(p, 1, n)[i] = p[1 + i - 1]
    BY <2>1, <2>2, SubSeqProperties
  <2> QED
    BY <2>1, <2>2, <2>3
<1>3. q \in Seq(S) /\ Len(q) = k /\ \A i \in 1..k : q[i] = p[i]
  BY <1>2
<1>4. ASSUME NEW j \in 0..k PROVE SubSeq(q, 1, j) = SubSeq(p, 1, j)
  <2>1. j \in 0..Len(p) /\ j \in Int /\ 1 \in Int /\ j - 1 + 1 = j /\ (IF 1 <= j THEN j - 1 + 1 ELSE 0) = j
    BY <1>1
  <2>2. \A i \in 1..j : i \in 1..k /\ q[i] \in S /\ 1 + i - 1 = i
    <3>1. \A i \in 1..j : i \in 1..k /\ i \in 1..Len(p) /\ 1 + i - 1 = i
      BY <1>1
    <3> QED
      BY <1>1, <1>3, <3>1
  <2> HIDE DEF q
  <2>3. /\ SubSeq(q, 1, j) \in Seq(S)
        /\ Len(SubSeq(q, 1, j)) = (IF 1 <= j THEN j - 1 + 1 ELSE 0)
        /\ \A i \in 1..(j - 1 + 1) : SubSeq(q, 1, j)[i] = q[1 + i - 1]
    BY <2>1, <2>2, SubSeqProperties
  <2>4. /\ SubSeq(q, 1, j) \in Seq(S) /\ Len(SubSeq(q, 1, j)) = j
        /\ \A i \in 1..j : SubSeq(q, 1, j)[i] = p[i]
    BY <1>3, <2>1, <2>2, <2>3
  <2>5. /\ SubSeq(p, 1, j) \in Seq(S) /\ Len(SubSeq(p, 1, j)) = j
        /\ \A i \in 1..j : SubSeq(p, 1, j)[i] = p[i]
    BY <1>2, <2>1
  <2> QED
    BY <2>4, <2>5, SeqEqual
<1> QED
  BY <1>3, <1>4

LEMMA AppendPrefix ==
  ASSUME NEW S, NEW p \in Seq(S), NEW n \in S
  PROVE  /\ \A k \in 0..Len(p) : SubSeq(Append(p, n), 1, k) = SubSeq(p, 1, k)
         /\ SubSeq(p, 1, Len(p)) = p
         /\ Front(Append(p, n)) = p
<1> DEFINE q == Append(p, n)
<1>1. q \in Seq(S) /\ Len(q) = Len(p) + 1 /\ Len(p) \in Nat /\ \A j \in 1..Len(p) : q[j] = p[j]
  BY AppendProperties, LenProperties
<1> HIDE DEF q
<1>2. ASSUME NEW k \in 0..Len(p) PROVE SubSeq(q, 1, k) = SubSeq(p, 1, k)
  <2>1. k \in 0..Len(q)
    BY <1>1
  <2>2. SubSeq(q, 1, k) \in Seq(S) /\ Len(SubSeq(q, 1, k)) = k /\ \A i \in 1..k : SubSeq(q, 1, k)[i] = q[i]
    BY <1>1, <2>1, PrefixIs
  <2>3. SubSeq(p, 1, k) \in Seq(S) /\ Len(SubSeq(p, 1, k)) = k /\ \A i \in 1..k : SubSeq(p, 1, k)[i] = p[i]
    BY PrefixIs
  <2>4. \A i \in 1..k : i \in 1..Len(p)
    BY <1>1
  <2> QED
    BY <1>1, <2>2, <2>3, <2>4, SeqEqual
<1>3. SubSeq(p, 1, Len(p)) = p
  BY SubSeqFull
<1>4. Len(q) - 1 = Len(p) /\ Len(p) \in 0..Len(p)
  BY <1>1
<1>5. Front(q) = p
  BY <1>2, <1>3, <1>4 DEF Front
<1> QED
  BY <1>2, <1>3, <1>5 DEF q

---------------------------------------------------------------------------
LEMMA PathsAre == Paths = {p \in Seq(Names) : Len(p) <= MaxDepth + 1}
<1>1. MaxDepth + 1 \in Nat
  BY TreesAssumption
<1>2. ASSUME NEW p \in Paths PROVE p \in Seq(Names) /\ Len(p) <= MaxDepth + 1
  <2>1. PICK m \in 0..(MaxDepth + 1) : p \in [1..m -> Names]
    BY DEF Paths, BoundedSeq, SeqOf
  <2>2. m \in Nat
    BY <1>1, <2>1
  <2>3. p \in Seq(Names)
    BY <2>1, <2>2, SeqDef
  <2>4. Len(p) = m
    BY <2>1, <2>2, <2>3, LenProperties
  <2> QED
    BY <1>1, <2>1, <2>3, <2>4
<1>3. ASSUME NEW p \in Seq(Names), Len(p) <= MaxDepth + 1 PROVE p \in Paths
  <2>1. Len(p) \in Nat /\ p \in [1..Len(p) -> Names]
    BY LenProperties
  <2>2. Len(p) \in 0..(MaxDepth + 1)
    BY <1>1, <1>3, <2>1
  <2> QED
    BY <2>1, <2>2 DEF Paths, BoundedSeq, SeqOf
<1> QED
  BY <1>2, <1>3

(* What is along a path is an entry. *)
LEMMA ShapedAlong ==
  ASSUME NEW tree \in AnyTree, NEW p \in Seq(Names)
  PROVE  \A k \in 0..Len(p) : Shaped(Along(tree, p)[k])
<1> DEFINE A == Along(tree, p)
           L == Len(p)
           T == {k \in 0..L : ~Shaped(A[k])}
<1>1. L \in Nat
  BY LenProperties
<1>2. \A k \in 0..L : A[k] = IF k = 0 THEN Root(tree) ELSE Child(A[k - 1], p[k])
  BY <1>1, AlongIs
<1>3. Shaped(Root(tree))
  BY DEF Shaped, Root
<1> HIDE DEF A, L
<1>4. SUFFICES ASSUME T # {} PROVE FALSE
  BY DEF A, L
<1>5. PICK k \in T : \A m \in T : k <= m
  <2>1. T \subseteq Nat
    BY <1>1
  <2> HIDE DEF T
  <2> QED
    BY <1>4, <2>1, LeastNumber
<1>6. k \in 0..L /\ ~Shaped(A[k])
  BY <1>5
<1>7. k # 0
  BY <1>2, <1>3, <1>6
<1>8. k - 1 \in 0..L /\ ~(k <= k - 1)
  BY <1>1, <1>6, <1>7
<1>9. Shaped(A[k - 1])
  BY <1>5, <1>8
<1> QED
  BY <1>2, <1>6, <1>7, <1>9, ChildIs

(* Along every path, the merge goes along or took one side. *)
LEMMA MergeAlong ==
  ASSUME NEW b \in AnyTree, NEW o \in AnyTree, NEW t \in AnyTree, NEW r,
         MergeTrees[<<b, o, t>>] = Ok(r), NEW p \in Seq(Names)
  PROVE  \A k \in 0..Len(p) :
            \/ Merging(Along(b, p)[k], Along(o, p)[k], Along(t, p)[k], Along(r, p)[k])
            \/ ThreeWay(Along(b, p)[k], Along(o, p)[k], Along(t, p)[k], Along(r, p)[k])
<1> DEFINE B == Along(b, p)
           O == Along(o, p)
           H == Along(t, p)
           R == Along(r, p)
           L == Len(p)
           Good(k) == Merging(B[k], O[k], H[k], R[k]) \/ ThreeWay(B[k], O[k], H[k], R[k])
           T == {k \in 0..L : ~Good(k)}
<1>1. L \in Nat
  BY LenProperties
<1>2. ASSUME NEW k \in 0..L, k # 0
      PROVE  /\ B[k] = Child(B[k - 1], p[k]) /\ O[k] = Child(O[k - 1], p[k])
             /\ H[k] = Child(H[k - 1], p[k]) /\ R[k] = Child(R[k - 1], p[k])
  BY <1>1, <1>2, AlongIs
<1>3. B[0] = Root(b) /\ O[0] = Root(o) /\ H[0] = Root(t) /\ R[0] = Root(r)
  <2>1. 0 \in 0..L
    BY <1>1
  <2> QED
    BY <1>1, <2>1, AlongIs
<1>4. \A k \in 0..L : Shaped(B[k]) /\ Shaped(O[k]) /\ Shaped(H[k])
  BY ShapedAlong
<1> HIDE DEF B, O, H, R, L
<1>5. Good(0)
  BY <1>3 DEF Root, Merging, IsDirectory, Sub, SubBase
<1>6. SUFFICES ASSUME T # {} PROVE FALSE
  BY DEF B, O, H, R, L
<1> HIDE DEF Good
<1>7. PICK k \in T : \A m \in T : k <= m
  <2>1. T \subseteq Nat
    BY <1>1
  <2> HIDE DEF T
  <2> QED
    BY <1>6, <2>1, LeastNumber
<1>8. k \in 0..L /\ ~Good(k)
  BY <1>7
<1>9. k # 0
  BY <1>5, <1>8
<1>10. k - 1 \in 0..L /\ ~(k <= k - 1)
  BY <1>1, <1>8, <1>9
<1>11. Good(k - 1)
  BY <1>7, <1>10
<1>12. CASE Merging(B[k - 1], O[k - 1], H[k - 1], R[k - 1])
  BY <1>2, <1>4, <1>8, <1>9, <1>10, <1>12, MergeStep DEF Good
<1>13. CASE ThreeWay(B[k - 1], O[k - 1], H[k - 1], R[k - 1])
  BY <1>2, <1>8, <1>9, <1>13 DEF Good, ThreeWay
<1> QED
  BY <1>11, <1>12, <1>13 DEF Good

(* What the program is after: the merge, or nothing yet. *)
TreesInv ==
    /\ ancestor \in AnyTree /\ ours \in AnyTree /\ theirs \in AnyTree
    /\ result \in {Pending, MergeTrees[<<ancestor, ours, theirs>>]}

LEMMA TreesInvariant == TreesSpec => []TreesInv
<1>1. TreesInit => TreesInv
  BY DEF TreesInit, TreesInv, AnyTree
<1>2. TreesInv /\ [Merge]_treevars => TreesInv'
  <2>1. ASSUME UNCHANGED format PROVE MergeTrees' = MergeTrees
    BY <2>1 DEF MergeTrees, MergeOf, MergeEntry, BothChanged, EntryOf, Seen, SubBase, IsDirectory,
        Absent, Ok, Failed, AnyTree
  <2>2. CASE Merge
    BY <2>1, <2>2 DEF TreesInv, Merge, AnyTree, Pending
  <2>3. CASE UNCHANGED treevars
    BY <2>1, <2>3 DEF TreesInv, treevars, AnyTree, Pending
  <2> QED
    BY <2>2, <2>3
<1> QED
  BY <1>1, <1>2, PTL DEF TreesSpec

(* A merge that succeeds loses no change of either side, whatever the trees *)
(* and however deep their directories.  (Repository::merge_trees)           *)
THEOREM MergeLosesNothing == TreesSpec => []MergeKeepsChanges
<1>1. ASSUME TreesInv, result.ok, NEW p \in Paths
      PROVE  ThreeWay(FileAt(ancestor, p), FileAt(ours, p), FileAt(theirs, p), FileAt(result.tree, p))
  <2>1. p \in Seq(Names)
    BY PathsAre
  <2>2. ancestor \in AnyTree /\ ours \in AnyTree /\ theirs \in AnyTree /\ ancestor \in SomeTree
    BY <1>1 DEF TreesInv, SomeTree
  <2>3. result # Pending
    BY <1>1 DEF Pending
  <2>4. MergeTrees[<<ancestor, ours, theirs>>] = Ok(result.tree)
    BY <1>1, <2>2, <2>3, MergeIs DEF TreesInv
  <2> DEFINE b == EntryAt(ancestor, p)
             o == EntryAt(ours, p)
             t == EntryAt(theirs, p)
             r == EntryAt(result.tree, p)
  <2>5. Len(p) \in 0..Len(p)
    BY <2>1, LenProperties
  <2>6. Merging(b, o, t, r) \/ ThreeWay(b, o, t, r)
    BY <2>1, <2>2, <2>4, <2>5, MergeAlong DEF EntryAt
  <2> HIDE DEF b, o, t, r
  <2> DEFINE File(e) == IF IsDirectory(e) THEN Absent ELSE e
  <2>7. ThreeWay(File(b), File(o), File(t), File(r))
    <3>1. CASE Merging(b, o, t, r)
      BY <3>1 DEF Merging, ThreeWay
    <3>2. CASE ThreeWay(b, o, t, r)
      BY <3>2 DEF ThreeWay
    <3> QED
      BY <2>6, <3>1, <3>2
  <2> QED
    BY <2>7 DEF FileAt, b, o, t, r
<1>2. TreesInv => MergeKeepsChanges
  BY <1>1 DEF MergeKeepsChanges
<1> QED
  BY <1>2, TreesInvariant, PTL

---------------------------------------------------------------------------
(* Ours and theirs can be exchanged at every depth: the shallowest trees   *)
(* where they could not would hold some that are less deep.                *)
LEMMA Exchanged ==
  \A b \in SomeTree : \A o \in AnyTree : \A t \in AnyTree :
      MergeTrees[<<b, o, t>>] = MergeTrees[<<b, t, o>>]
<1> DEFINE T == {n \in Nat : \E b \in SomeTree : \E o \in AnyTree : \E t \in AnyTree :
                    Depth[o] = n /\ MergeTrees[<<b, o, t>>] # MergeTrees[<<b, t, o>>]}
<1>1. \A tree \in AnyTree : Depth[tree] \in Nat
  BY TreesAssumption
<1>2. SUFFICES ASSUME NEW b0 \in SomeTree, NEW o0 \in AnyTree, NEW t0 \in AnyTree,
                      MergeTrees[<<b0, o0, t0>>] # MergeTrees[<<b0, t0, o0>>]
               PROVE  FALSE
  OBVIOUS
<1>3. PICK n \in T : \A m \in T : n <= m
  <2>1. T \subseteq Nat
    OBVIOUS
  <2>2. Depth[o0] \in T
    BY <1>1, <1>2
  <2> HIDE DEF T
  <2> QED
    BY <2>1, <2>2, LeastNumber
<1>4. PICK b \in SomeTree, o \in AnyTree, t \in AnyTree :
          Depth[o] = n /\ MergeTrees[<<b, o, t>>] # MergeTrees[<<b, t, o>>]
  BY <1>3
<1>5. ASSUME NEW under \in SomeTree, NEW mine \in AnyTree, NEW other \in AnyTree, Depth[mine] < n
      PROVE  MergeTrees[<<under, mine, other>>] = MergeTrees[<<under, other, mine>>]
  <2>1. Depth[mine] \in Nat /\ n \in Nat
    BY <1>1, <1>3
  <2>2. ~(n <= Depth[mine])
    BY <1>5, <2>1
  <2>3. Depth[mine] \notin T
    <3> HIDE DEF T
    <3> QED
      BY <1>3, <2>2
  <2> QED
    BY <2>1, <2>3
<1> HIDE DEF T
<1>6. b # NullId /\ o # t /\ b # o /\ b # t
  BY <1>4, MergeIs
<1>7. /\ MergeTrees[<<b, o, t>>] = Assembled(Merged(MergeTrees, b, o, t))
      /\ MergeTrees[<<b, t, o>>] = Assembled(Merged(MergeTrees, b, t, o))
      /\ b \in AnyTree
  BY <1>6, MergeIs
<1>8. ASSUME NEW i
      PROVE  MergeEntry(MergeTrees, EntryOf(b, i), EntryOf(o, i), EntryOf(t, i))
                 = MergeEntry(MergeTrees, EntryOf(b, i), EntryOf(t, i), EntryOf(o, i))
  <2> DEFINE bi == EntryOf(b, i)
             oi == EntryOf(o, i)
             ti == EntryOf(t, i)
  <2>1. Shaped(bi) /\ Shaped(oi) /\ Shaped(ti)
    BY <1>7, EntryIs
  <2>2. IsDirectory(oi) => Depth[oi.id] < n
    BY <1>4, EntryIs
  <2> HIDE DEF bi, oi, ti
  <2>3. IsDirectory(oi) /\ IsDirectory(ti) => Sub(bi, oi, ti) = Sub(bi, ti, oi)
    <3>1. IsDirectory(oi) => oi.id \in AnyTree
      BY <2>1 DEF Shaped
    <3>2. IsDirectory(ti) => ti.id \in AnyTree
      BY <2>1 DEF Shaped
    <3>3. SubBase(bi) \in SomeTree
      BY <2>1, SubBaseIs
    <3> QED
      BY <1>5, <2>2, <3>1, <3>2, <3>3 DEF Sub
  <2>4. MergeEntry(MergeTrees, bi, oi, ti) = MergeEntry(MergeTrees, bi, ti, oi)
    <3> DEFINE e == MergeEntry(MergeTrees, bi, oi, ti)
               x == MergeEntry(MergeTrees, bi, ti, oi)
    <3>1. /\ bi = ti => e = Ok(oi)
          /\ bi = oi => e = Ok(ti)
          /\ bi # oi /\ bi # ti /\ oi # ti /\ IsDirectory(oi) /\ IsDirectory(ti) /\ Sub(bi, oi, ti).ok =>
                 e = Ok([mode |-> "directory", id |-> Sub(bi, oi, ti).tree])
          /\ bi # oi /\ bi # ti /\ oi # ti /\ IsDirectory(oi) /\ IsDirectory(ti) /\ ~Sub(bi, oi, ti).ok => e = Failed
          /\ bi # oi /\ bi # ti /\ oi # ti /\ ~(IsDirectory(oi) /\ IsDirectory(ti)) => e = Failed
      BY EntryMerged
    <3>2. /\ bi = oi => x = Ok(ti)
          /\ bi = ti => x = Ok(oi)
          /\ bi # ti /\ bi # oi /\ ti # oi /\ IsDirectory(ti) /\ IsDirectory(oi) /\ Sub(bi, ti, oi).ok =>
                 x = Ok([mode |-> "directory", id |-> Sub(bi, ti, oi).tree])
          /\ bi # ti /\ bi # oi /\ ti # oi /\ IsDirectory(ti) /\ IsDirectory(oi) /\ ~Sub(bi, ti, oi).ok => x = Failed
          /\ bi # ti /\ bi # oi /\ ti # oi /\ ~(IsDirectory(ti) /\ IsDirectory(oi)) => x = Failed
      BY EntryMerged
    <3> HIDE DEF e, x
    <3>3. e = x
      BY <2>3, <3>1, <3>2 DEF e, x
    <3> QED
      BY <3>3 DEF e, x
  <2> QED
    BY <2>4 DEF bi, oi, ti
<1>9. DOMAIN b \cup DOMAIN o \cup DOMAIN t = DOMAIN b \cup DOMAIN t \cup DOMAIN o
  OBVIOUS
<1>10. Merged(MergeTrees, b, o, t) = Merged(MergeTrees, b, t, o)
  BY <1>8, <1>9 DEF Merged
<1> QED
  BY <1>4, <1>7, <1>10

(* The branch a merge is made on does not change whether it succeeds, or   *)
(* its tree.  (Repository::merge_trees)                                     *)
THEOREM SidesCanBeExchanged == TreesSpec => []MergeIsSymmetric
<1>1. TreesInv => MergeIsSymmetric
  BY Exchanged DEF TreesInv, MergeIsSymmetric, SomeTree
<1> QED
  BY <1>1, TreesInvariant, PTL

---------------------------------------------------------------------------
(* A merge that fails at a path has met a conflict below it: what fails is *)
(* less deep each time.                                                    *)
Fails(p) ==
    LET b == EntryAt(ancestor, p)
        o == EntryAt(ours, p)
        t == EntryAt(theirs, p)
    IN  IsDirectory(b) /\ IsDirectory(o) /\ IsDirectory(t) /\ ~Sub(b, o, t).ok

LEMMA FailsBelow ==
  ASSUME ancestor \in AnyTree, ours \in AnyTree, theirs \in AnyTree,
         NEW p \in Seq(Names), Fails(p), Len(p) + Depth[EntryAt(ours, p).id] <= MaxDepth
  PROVE  \E n \in Names :
            LET q == Append(p, n)
            IN  /\ q \in Paths
                /\ \/ Conflict(q)
                   \/ /\ Fails(q)
                      /\ Depth[EntryAt(ours, q).id] < Depth[EntryAt(ours, p).id]
                      /\ Len(q) + Depth[EntryAt(ours, q).id] <= MaxDepth
<1> DEFINE b == EntryAt(ancestor, p)
           o == EntryAt(ours, p)
           t == EntryAt(theirs, p)
<1>1. Shaped(b) /\ Shaped(o) /\ Shaped(t)
  <2>1. Len(p) \in 0..Len(p)
    BY LenProperties
  <2> QED
    BY <2>1, ShapedAlong DEF EntryAt
<1>2. IsDirectory(b) /\ IsDirectory(o) /\ IsDirectory(t) /\ ~Sub(b, o, t).ok
  BY DEF Fails
<1>3. Len(p) + Depth[o.id] <= MaxDepth
  OBVIOUS
<1> HIDE DEF b, o, t
<1>4. b.id \in AnyTree /\ o.id \in AnyTree /\ t.id \in AnyTree
  BY <1>1, <1>2 DEF Shaped
<1>5. ~MergeTrees[<<b.id, o.id, t.id>>].ok
  BY <1>2 DEF Sub, SubBase
<1>6. PICK n \in Names :
          ~MergeEntry(MergeTrees, EntryOf(b.id, n), EntryOf(o.id, n), EntryOf(t.id, n)).ok
  BY <1>4, <1>5, MergeFails
<1>7. o.id # t.id
  BY <1>4, <1>5, MergeFails
<1> DEFINE q == Append(p, n)
           bn == EntryAt(ancestor, q)
           on == EntryAt(ours, q)
           tn == EntryAt(theirs, q)
<1>8. bn = Child(b, n) /\ on = Child(o, n) /\ tn = Child(t, n)
  BY EntryBelow DEF b, o, t
<1>9. bn = EntryOf(b.id, n) /\ on = EntryOf(o.id, n) /\ tn = EntryOf(t.id, n)
  BY <1>2, <1>8 DEF Child
<1>10. Shaped(bn) /\ Shaped(on) /\ Shaped(tn)
  BY <1>1, <1>8, ChildIs
<1>11. /\ q \in Seq(Names) /\ Len(q) = Len(p) + 1 /\ Len(p) \in Nat /\ q # <<>>
       /\ Front(q) = p
  <2>1. q \in Seq(Names) /\ Len(q) = Len(p) + 1 /\ Len(p) \in Nat
    BY AppendProperties, LenProperties
  <2>2. Len(<<>>) = 0
    BY EmptySeq
  <2>3. q # <<>>
    <3> HIDE DEF q
    <3> QED
      BY <2>1, <2>2
  <2> QED
    BY <2>1, <2>3, AppendPrefix
<1>12. MaxDepth \in Nat /\ Depth[o.id] \in Nat
  BY <1>4, TreesAssumption
<1>13. q \in Paths
  BY <1>3, <1>11, <1>12, PathsAre
<1>14. /\ bn # on /\ bn # tn
       /\ \/ on = Absent /\ tn = Absent
          \/ on # tn /\ (IsDirectory(bn) /\ IsDirectory(on) /\ IsDirectory(tn) => ~Sub(bn, on, tn).ok)
  BY <1>6, <1>9, <1>10, EntryFails
<1>15. o # t
  BY <1>7
<1>16. IsDirectory(on) => Depth[on.id] < Depth[o.id] /\ Depth[on.id] \in Nat
  BY <1>4, <1>9, EntryIs
<1> HIDE DEF q, bn, on, tn
<1>17. CASE IsDirectory(bn) /\ IsDirectory(on) /\ IsDirectory(tn) /\ on # tn
  <2>1. Fails(q)
    <3>1. ~IsDirectory(Absent)
      BY DEF IsDirectory, Absent
    <3> QED
      BY <1>14, <1>17, <3>1 DEF Fails, bn, on, tn
  <2>2. Len(q) + Depth[on.id] <= MaxDepth /\ Depth[on.id] < Depth[o.id]
    BY <1>3, <1>11, <1>12, <1>16, <1>17
  <2> QED
    BY <1>13, <2>1, <2>2 DEF q, on, o
<1>18. CASE ~(IsDirectory(bn) /\ IsDirectory(on) /\ IsDirectory(tn) /\ on # tn)
  <2>1. Conflict(q)
    <3>1. \/ on = Absent /\ tn = Absent /\ EntryAt(ours, Front(q)) # EntryAt(theirs, Front(q))
          \/ on # tn /\ ~(IsDirectory(bn) /\ IsDirectory(on) /\ IsDirectory(tn))
      BY <1>11, <1>14, <1>15, <1>18 DEF o, t
    <3> QED
      BY <1>11, <1>14, <3>1 DEF Conflict, bn, on, tn
  <2> QED
    BY <1>13, <2>1 DEF q
<1> QED
  BY <1>17, <1>18

LEMMA FailsByConflict ==
  ASSUME ancestor \in AnyTree, ours \in AnyTree, theirs \in AnyTree,
         ~MergeTrees[<<ancestor, ours, theirs>>].ok
  PROVE  \E p \in Paths : Conflict(p)
<1> DEFINE At(p) == Depth[EntryAt(ours, p).id]
           Met(p) == Fails(p) /\ At(p) \in Nat /\ Len(p) + At(p) <= MaxDepth
           T == {n \in Nat : \E p \in Seq(Names) : At(p) = n /\ Met(p)}
<1>1. \A tree \in AnyTree : Depth[tree] \in 0..MaxDepth /\ MaxDepth \in Nat
  BY TreesAssumption
<1>2. Met(<<>>) /\ <<>> \in Seq(Names)
  <2>1. /\ EntryAt(ancestor, <<>>) = Root(ancestor) /\ EntryAt(ours, <<>>) = Root(ours)
        /\ EntryAt(theirs, <<>>) = Root(theirs)
    BY EntryAtRoot
  <2>2. Fails(<<>>)
    BY <2>1 DEF Fails, Root, IsDirectory, Sub, SubBase
  <2>3. At(<<>>) = Depth[ours]
    BY <2>1 DEF Root
  <2>4. Len(<<>>) = 0 /\ <<>> \in Seq(Names)
    BY EmptySeq
  <2> QED
    BY <1>1, <2>2, <2>3, <2>4
<1>3. T # {}
  <2> HIDE DEF Met
  <2>1. At(<<>>) \in Nat
    BY <1>2 DEF Met
  <2> QED
    BY <1>2, <2>1
<1>4. PICK n \in T : \A m \in T : n <= m
  <2>1. T \subseteq Nat
    OBVIOUS
  <2> HIDE DEF T
  <2> QED
    BY <1>3, <2>1, LeastNumber
<1>5. PICK p \in Seq(Names) : At(p) = n /\ Met(p)
  BY <1>4
<1>6. PICK i \in Names :
          LET q == Append(p, i)
          IN  /\ q \in Paths
              /\ Conflict(q) \/ (Fails(q) /\ At(q) < At(p) /\ Len(q) + At(q) <= MaxDepth)
  BY <1>5, FailsBelow
<1> DEFINE q == Append(p, i)
<1>7. q \in Seq(Names)
  BY AppendProperties
<1> HIDE DEF q
<1>8. ASSUME Fails(q), At(q) < At(p), Len(q) + At(q) <= MaxDepth PROVE FALSE
  <2>1. Shaped(EntryAt(ours, q))
    <3>1. Len(q) \in 0..Len(q)
      BY <1>7, LenProperties
    <3> QED
      BY <1>7, <3>1, ShapedAlong DEF EntryAt
  <2>2. At(q) \in Nat
    BY <1>1, <1>8, <2>1 DEF Fails, Shaped
  <2>3. At(q) \in T
    BY <1>7, <1>8, <2>2
  <2>4. ~(n <= At(q))
    BY <1>4, <1>5, <1>8, <2>2
  <2> HIDE DEF T
  <2> QED
    BY <1>4, <2>3, <2>4
<1> QED
  BY <1>6, <1>8 DEF q

(* Two trees that have the same at a part of a path have it onward. *)
LEMMA SameOnward ==
  ASSUME NEW tree, NEW other, NEW p, Len(p) \in Nat, NEW j \in 0..Len(p),
         Along(tree, p)[j] = Along(other, p)[j]
  PROVE  \A k \in j..Len(p) : Along(tree, p)[k] = Along(other, p)[k]
<1> DEFINE X == Along(tree, p)
           Y == Along(other, p)
           L == Len(p)
           T == {k \in j..L : X[k] # Y[k]}
<1>1. \A k \in 0..L : k # 0 => X[k] = Child(X[k - 1], p[k]) /\ Y[k] = Child(Y[k - 1], p[k])
  BY AlongIs
<1>2. X[j] = Y[j] /\ L \in Nat
  OBVIOUS
<1> HIDE DEF X, Y, L
<1>3. SUFFICES ASSUME T # {} PROVE FALSE
  BY DEF X, Y, L
<1>4. PICK k \in T : \A m \in T : k <= m
  <2>1. T \subseteq Nat
    BY <1>2
  <2> HIDE DEF T
  <2> QED
    BY <1>3, <2>1, LeastNumber
<1>5. k \in j..L /\ X[k] # Y[k] /\ k # j
  BY <1>2, <1>4
<1>6. k - 1 \in j..L /\ ~(k <= k - 1) /\ k \in 0..L /\ k # 0
  BY <1>2, <1>5
<1>7. X[k - 1] = Y[k - 1]
  BY <1>4, <1>6
<1> QED
  BY <1>1, <1>5, <1>6, <1>7

(* Trees that differ differ all along a path on which they end apart. *)
LEMMA ApartBefore ==
  ASSUME NEW tree, NEW other, NEW p, Len(p) \in Nat, NEW n \in 0..Len(p),
         Along(tree, p)[n] # Along(other, p)[n]
  PROVE  \A k \in 0..n : Along(tree, p)[k] # Along(other, p)[k]
<1> SUFFICES ASSUME NEW k \in 0..n, Along(tree, p)[k] = Along(other, p)[k] PROVE FALSE
  OBVIOUS
<1>1. k \in 0..Len(p) /\ n \in k..Len(p)
  OBVIOUS
<1> QED
  BY <1>1, SameOnward

(* A conflict anywhere fails the merge of each directory above it. *)
LEMMA ConflictFails ==
  ASSUME ancestor \in AnyTree, ours \in AnyTree, theirs \in AnyTree,
         NEW p \in Paths, Conflict(p)
  PROVE  ~MergeTrees[<<ancestor, ours, theirs>>].ok
<1> DEFINE B == Along(ancestor, p)
           O == Along(ours, p)
           H == Along(theirs, p)
           L == Len(p)
           Bad(k) == ~MergeEntry(MergeTrees, B[k], O[k], H[k]).ok
           T == {k \in 1..L : Bad(k)}
<1>1. p \in Seq(Names) /\ p # <<>> /\ L \in Nat /\ L # 0
  <2>1. p \in Seq(Names) /\ p # <<>>
    BY PathsAre DEF Conflict
  <2> QED
    BY <2>1, EmptySeq, LenProperties
<1>2. /\ B[L] # O[L] /\ B[L] # H[L]
      /\ \/ O[L] = Absent /\ H[L] = Absent /\ EntryAt(ours, Front(p)) # EntryAt(theirs, Front(p))
         \/ O[L] # H[L] /\ ~(IsDirectory(B[L]) /\ IsDirectory(O[L]) /\ IsDirectory(H[L]))
  BY DEF Conflict, EntryAt
<1>3. EntryAt(ours, Front(p)) = O[L - 1] /\ EntryAt(theirs, Front(p)) = H[L - 1]
  <2>1. L - 1 \in 0..L /\ L - 1 \in Nat /\ L - 1 \in 0..(L - 1) /\ L - 1 <= L - 1 /\ L - 1 <= L
    BY <1>1
  <2>2. Len(Front(p)) = L - 1 /\ \A i \in 1..(L - 1) : Front(p)[i] = p[i]
    BY <1>1, <2>1, PrefixIs DEF Front
  <2> DEFINE q == Front(p)
  <2> HIDE DEF q, L
  <2>3. /\ Len(q) \in Nat /\ Len(p) \in Nat /\ L - 1 <= Len(q) /\ L - 1 <= Len(p)
        /\ \A i \in 1..(L - 1) : q[i] = p[i]
    BY <1>1, <2>1, <2>2 DEF q, L
  <2>4. Along(ours, q)[L - 1] = Along(ours, p)[L - 1] /\ Along(theirs, q)[L - 1] = Along(theirs, p)[L - 1]
    BY <2>1, <2>3, AlongSame
  <2> QED
    BY <2>2, <2>4 DEF EntryAt, q
<1>4. ASSUME NEW k \in 0..(L - 1) PROVE B[k] # O[k] /\ B[k] # H[k] /\ O[k] # H[k]
  <2>1. L \in 0..L /\ L - 1 \in 0..L /\ k \in 0..L
    BY <1>1
  <2>2. B[k] # O[k] /\ B[k] # H[k]
    BY <1>1, <1>2, <2>1, ApartBefore
  <2>3. O[k] # H[k]
    <3>1. CASE O[L] # H[L]
      BY <1>1, <2>1, <3>1, ApartBefore
    <3>2. CASE O[L - 1] # H[L - 1]
      BY <1>1, <2>1, <3>2, ApartBefore
    <3> QED
      BY <1>2, <1>3, <3>1, <3>2
  <2> QED
    BY <2>2, <2>3
<1>5. \A k \in 0..L : Shaped(B[k]) /\ Shaped(O[k]) /\ Shaped(H[k])
  BY <1>1, ShapedAlong
<1>6. \A k \in 1..L : /\ B[k] = Child(B[k - 1], p[k]) /\ O[k] = Child(O[k - 1], p[k])
                      /\ H[k] = Child(H[k - 1], p[k]) /\ p[k] \in Names
  <2>1. \A k \in 1..L : p[k] \in Names /\ k \in 0..L /\ k # 0
    BY <1>1, ElementOfSeq
  <2> QED
    BY <1>1, <2>1, AlongIs
<1>7. B[0] = Root(ancestor) /\ O[0] = Root(ours) /\ H[0] = Root(theirs)
  <2>1. 0 \in 0..L
    BY <1>1
  <2> QED
    BY <1>1, <2>1, AlongIs
<1> HIDE DEF B, O, H, L
<1>8. L \in T
  <2>1. L \in 0..L /\ L \in 1..L
    BY <1>1
  <2> QED
    BY <1>2, <1>5, <2>1, EntryFails
<1>9. PICK k \in T : \A m \in T : k <= m
  <2>1. T \subseteq Nat
    BY <1>1
  <2> HIDE DEF T
  <2> QED
    BY <1>8, <2>1, LeastNumber
<1>10. /\ k \in 1..L /\ Bad(k)
       /\ k - 1 \in 0..(L - 1) /\ k - 1 \in 0..L /\ ~(k <= k - 1)
  BY <1>1, <1>9
<1> DEFINE b == B[k - 1]
           o == O[k - 1]
           t == H[k - 1]
<1>11. b # o /\ b # t /\ o # t /\ Shaped(b) /\ Shaped(o) /\ Shaped(t)
  BY <1>4, <1>5, <1>10
<1>12. ~MergeEntry(MergeTrees, Child(b, p[k]), Child(o, p[k]), Child(t, p[k])).ok /\ p[k] \in Names
  BY <1>6, <1>10
<1> HIDE DEF b, o, t, Bad
<1>13. ASSUME IsDirectory(b), IsDirectory(o), IsDirectory(t) PROVE ~Sub(b, o, t).ok
  <2>1. /\ b.id \in AnyTree /\ o.id \in AnyTree /\ t.id \in AnyTree
        /\ b.id # o.id /\ b.id # t.id /\ o.id # t.id
    BY <1>11, <1>13 DEF Shaped
  <2>2. ~MergeEntry(MergeTrees, EntryOf(b.id, p[k]), EntryOf(o.id, p[k]), EntryOf(t.id, p[k])).ok
    BY <1>12, <1>13 DEF Child
  <2>3. ~MergeTrees[<<b.id, o.id, t.id>>].ok
    BY <1>12, <2>1, <2>2, MergeFails
  <2> QED
    BY <1>13, <2>3 DEF Sub, SubBase
<1>14. ~MergeEntry(MergeTrees, b, o, t).ok
  BY <1>11, <1>13, EntryFails
<1>15. k - 1 \notin T
  <2> HIDE DEF T
  <2> QED
    BY <1>9, <1>10
<1>16. k = 1
  <2>1. k - 1 \notin 1..L
    BY <1>14, <1>15 DEF b, o, t, Bad
  <2> QED
    BY <1>1, <1>10, <2>1
<1>17. b = Root(ancestor) /\ o = Root(ours) /\ t = Root(theirs)
  BY <1>7, <1>16 DEF b, o, t
<1> QED
  BY <1>13, <1>17 DEF Root, IsDirectory, Sub, SubBase

(* A merge fails where both sides changed a path in ways that cannot be    *)
(* merged, and only there, at every depth.  (Repository::merge_trees)       *)
THEOREM FailuresAreConflicts == TreesSpec => []FailuresExplained
<1>1. TreesInv => FailuresExplained
  BY FailsByConflict, ConflictFails DEF TreesInv, FailuresExplained
<1> QED
  BY <1>1, TreesInvariant, PTL
=============================================================================
