-------------------------- MODULE Integrity_proofs --------------------------
(***************************************************************************)
(* Theorems about Integrity, for every repository: its type invariant, and *)
(* that fsck finds exactly the refs that lead to a cycle and exactly the    *)
(* objects that are reachable.  And theorems about GitPack, for packs and  *)
(* stores of any size: what unpacking a pack adds to the store is what the *)
(* pack describes, given up only when a base is nowhere.  Both come to an   *)
(* end: each of their steps has less to do than the one before it.          *)
(***************************************************************************)
EXTENDS MergeBase_proofs, Integrity, GitPack

---------------------------------------------------------------------------
(* Types. *)

(* An id that a ref holds is one of Id. *)
LEMMA ReadsAnId ==
    ASSUME IntegrityTypeOK, NEW r, Reads(r)
    PROVE  r \in DOMAIN ref /\ r \in Ref /\ ref[r].id \in Id
BY DEF IntegrityTypeOK, Reads, RefValues, Direct

LEMMA FramesAreCalls ==
    ASSUME IntegrityTypeOK, NEW i \in DOMAIN frames
    PROVE  frames[i].id \in Id /\ frames[i].called \in Nat
<1>1. frames \in Seq(Calls) BY DEF IntegrityTypeOK
<1>2. frames[i] \in Calls BY <1>1, ElementOfSeq
<1> QED BY <1>2 DEF Calls

(* The top frame is a call for a commit, and its next parent an id. *)
LEMMA TopIsFrame ==
    ASSUME IntegrityTypeOK, frames # <<>>
    PROVE  /\ Len(frames) \in DOMAIN frames
           /\ Top \in Calls
           /\ Parents(Top.id) \in Seq(Id)
           /\ Top.called <= Len(Parents(Top.id))
<1>1. /\ frames \in Seq(Calls)
      /\ \A i \in DOMAIN frames : frames[i].called <= Len(Parents(frames[i].id))
  BY DEF IntegrityTypeOK
<1>2. Len(frames) \in DOMAIN frames BY <1>1
<1>3. frames[Len(frames)] \in Calls BY <1>1, <1>2, ElementOfSeq
<1>4. \A id \in Id : Parents(id) \in Seq(Id) BY DEF IntegrityTypeOK, Parents
<1> QED BY <1>1, <1>2, <1>3, <1>4 DEF Top, Calls

LEMMA ParentIsId ==
    ASSUME IntegrityTypeOK, HasParent
    PROVE  /\ Parent \in Id
           /\ Top.called + 1 \in DOMAIN Parents(Top.id)
<1>1. /\ frames # <<>> /\ Top.called < Len(Parents(Top.id)) BY DEF HasParent
<1>2. Top.called \in Nat /\ Parents(Top.id) \in Seq(Id) BY <1>1, TopIsFrame DEF Calls
<1>3. Top.called + 1 \in DOMAIN Parents(Top.id) BY <1>1, <1>2
<1> QED BY <1>2, <1>3, ElementOfSeq DEF Parent

LEMMA InitTyped == IntegrityInit => IntegrityTypeOK
<1> SUFFICES ASSUME IntegrityInit PROVE IntegrityTypeOK OBVIOUS
<1>1. /\ object \in [Id -> [type : Types, parents : Seq(Id), names : Seq(Id)]]
      /\ place \in [Id -> {"loose", "packed", "missing"}]
      /\ DOMAIN ref \subseteq Ref /\ ref \in [DOMAIN ref -> RefValues]
  BY IntegrityAssumption DEF IntegrityInit
<1> QED BY <1>1 DEF IntegrityInit, IntegrityTypeOK

(* What is called next is well typed: frames with the next parent counted. *)
LEMMA CalledIsFrames ==
    ASSUME IntegrityTypeOK, HasParent
    PROVE  /\ Called \in Seq(Calls)
           /\ Len(Called) = Len(frames)
           /\ \A i \in DOMAIN frames : Called[i].id = frames[i].id
           /\ \A i \in DOMAIN frames : i # Len(frames) => Called[i] = frames[i]
           /\ Called[Len(frames)].called = Top.called + 1
           /\ \A i \in DOMAIN Called : Called[i].called <= Len(Parents(Called[i].id))
<1>1. /\ frames \in Seq(Calls)
      /\ frames # <<>>
      /\ \A i \in DOMAIN frames : frames[i].called <= Len(Parents(frames[i].id))
  BY DEF IntegrityTypeOK, HasParent
<1>2. Len(frames) \in DOMAIN frames /\ Top = frames[Len(frames)] BY TopIsFrame, <1>1 DEF Top
<1> DEFINE next(i) == IF i = Len(frames) THEN [frames[i] EXCEPT !.called = @ + 1] ELSE frames[i]
<1>a. Called = [i \in DOMAIN frames |-> next(i)] BY <1>1, <1>2 DEF Called
<1>b. \A i \in DOMAIN frames : frames[i] \in Calls BY <1>1
<1>c. \A i \in DOMAIN frames :
        /\ next(i) \in Calls /\ next(i).id = frames[i].id
        /\ i # Len(frames) => next(i) = frames[i]
        /\ i = Len(frames) => next(i).called = frames[i].called + 1
  BY <1>b DEF Calls
<1>d. DOMAIN frames = 1..Len(frames) /\ Len(frames) \in Nat BY <1>1
<1> HIDE DEF next
<1>e. Called \in Seq(Calls) /\ Len(Called) = Len(frames)
  <2>1. Called \in [1..Len(frames) -> Calls] BY <1>a, <1>c, <1>d
  <2> QED BY <2>1, <1>d
<1>3. /\ Called \in Seq(Calls) /\ Len(Called) = Len(frames)
      /\ DOMAIN Called = DOMAIN frames
      /\ \A i \in DOMAIN frames : Called[i].id = frames[i].id
      /\ \A i \in DOMAIN frames : i # Len(frames) => Called[i] = frames[i]
      /\ Called[Len(frames)].called = Top.called + 1
  BY <1>a, <1>c, <1>e, <1>2
<1>4. Top.called + 1 <= Len(Parents(Top.id)) BY ParentIsId, TopIsFrame, <1>1
<1> QED BY <1>1, <1>2, <1>3, <1>4

LEMMA StepTyped == IntegrityTypeOK /\ [IntegrityNext]_integrityvars => IntegrityTypeOK'
<1> SUFFICES ASSUME IntegrityTypeOK, [IntegrityNext]_integrityvars PROVE IntegrityTypeOK'
  OBVIOUS
<1> USE DEF given, sets
<1>1. CASE CheckReferences BY <1>1 DEF CheckReferences, IntegrityTypeOK, Parents
<1>2. CASE NextRef
  <2>1. PICK r \in todo :
          /\ todo' = todo \ {r}
          /\ IF ~Reads(r) THEN UNCHANGED <<issues, root, frames, sets>>
             ELSE /\ root' = r
                  /\ frames' = IF Enters(ref[r].id) THEN <<Frame(ref[r].id)>> ELSE <<>>
                  /\ seen' = IF OnStack(ref[r].id) THEN seen ELSE Marked(ref[r].id)
                  /\ recursion_stack' = IF Enters(ref[r].id) THEN recursion_stack \cup {ref[r].id}
                                        ELSE recursion_stack
    BY <1>2 DEF NextRef
  <2>2. UNCHANGED <<object, place, ref, phase, waiting, reachable>> BY <1>2 DEF NextRef
  <2>3. CASE ~Reads(r) BY <2>1, <2>2, <2>3 DEF IntegrityTypeOK, Parents
  <2>4. CASE Reads(r)
    <3>1. ref[r].id \in Id /\ r \in Ref BY <2>4, ReadsAnId
    <3>2. Parents(ref[r].id) \in Seq(Id) BY <3>1 DEF IntegrityTypeOK, Parents
    <3>3. Frame(ref[r].id) \in Calls
          /\ Frame(ref[r].id).called <= Len(Parents(Frame(ref[r].id).id))
      <4>1. Len(Parents(ref[r].id)) \in Nat BY <3>2
      <4> QED BY <3>1, <4>1 DEF Frame, Calls
    <3>4. frames' \in Seq(Calls)
          /\ \A i \in DOMAIN frames' : frames'[i].called <= Len(Parents(frames'[i].id))
      <4>1. CASE Enters(ref[r].id)
        <5>1. frames' = <<Frame(ref[r].id)>> BY <2>1, <2>4, <4>1
        <5> QED BY <5>1, <3>3
      <4>2. CASE ~Enters(ref[r].id)
        <5>1. frames' = <<>> BY <2>1, <2>4, <4>2
        <5> QED BY <5>1
      <4> QED BY <4>1, <4>2
    <3>5. seen' \subseteq Id /\ recursion_stack' \subseteq seen'
      BY <2>1, <2>4, <3>1 DEF Enters, OnStack, Marked, IntegrityTypeOK
    <3> QED BY <2>1, <2>2, <2>4, <3>1, <3>4, <3>5 DEF IntegrityTypeOK, Parents
  <2> QED BY <2>3, <2>4
<1>3. CASE FindCycle BY <1>3 DEF FindCycle, IntegrityTypeOK, Parents
<1>4. CASE EnterParent
  <2>1. Parent \in Id /\ Parents(Parent) \in Seq(Id)
    BY <1>4, ParentIsId DEF EnterParent, IntegrityTypeOK, Parents
  <2>2. /\ Called \in Seq(Calls)
        /\ \A i \in DOMAIN Called : Called[i].called <= Len(Parents(Called[i].id))
    BY <1>4, CalledIsFrames DEF EnterParent
  <2>3. Frame(Parent) \in Calls
        /\ Frame(Parent).called <= Len(Parents(Frame(Parent).id))
    <3>1. Len(Parents(Parent)) \in Nat BY <2>1
    <3> QED BY <2>1, <3>1 DEF Frame, Calls
  <2>4. frames' \in Seq(Calls)
        /\ \A i \in DOMAIN frames' : frames'[i].called <= Len(Parents(frames'[i].id))
    BY <1>4, <2>2, <2>3 DEF EnterParent
  <2> QED BY <1>4, <2>1, <2>4 DEF EnterParent, IntegrityTypeOK, Parents, Marked
<1>5. CASE PassParent
  <2>1. Parent \in Id BY <1>5, ParentIsId DEF PassParent
  <2>2. /\ frames' \in Seq(Calls)
        /\ \A i \in DOMAIN frames' : frames'[i].called <= Len(Parents(frames'[i].id))
    BY <1>5, CalledIsFrames DEF PassParent
  <2> QED BY <1>5, <2>1, <2>2 DEF PassParent, IntegrityTypeOK, Parents, Marked
<1>6. CASE LeaveCommit
  <2>1. /\ frames' \in Seq(Calls)
        /\ \A i \in DOMAIN frames' : i \in DOMAIN frames /\ frames'[i] = frames[i]
    BY <1>6 DEF LeaveCommit, IntegrityTypeOK
  <2> QED BY <1>6, <2>1 DEF LeaveCommit, IntegrityTypeOK, Parents, Unstacked
<1>7. CASE StartReachability
  BY <1>7, ReadsAnId DEF StartReachability, IntegrityTypeOK, Parents, Targets
<1>8. CASE VisitObject
  <2>1. \A id \in waiting : Children(id) \subseteq Id
    BY DEF IntegrityTypeOK, Children, SeqElements
  <2> QED BY <1>8, <2>1 DEF VisitObject, IntegrityTypeOK, Parents, Popped, Followed
<1>9. CASE EndChecks BY <1>9 DEF EndChecks, IntegrityTypeOK, Parents
<1>10. CASE Repair BY <1>10 DEF Repair, IntegrityTypeOK, Parents
<1>11. CASE UNCHANGED integrityvars BY <1>11 DEF integrityvars, IntegrityTypeOK, Parents
<1> QED BY <1>1, <1>2, <1>3, <1>4, <1>5, <1>6, <1>7, <1>8, <1>9, <1>10, <1>11
        DEF IntegrityNext, CheckStep

(* The checks stay well typed on every repository, however damaged: no      *)
(* call of has_cycle goes past a commit's last parent, and what is on the   *)
(* search's stack was visited.                                              *)
THEOREM IntegrityTyping == IntegritySpec => []IntegrityTypeOK
BY InitTyped, StepTyped, PTL DEF IntegritySpec

---------------------------------------------------------------------------
(* What is reachable. *)

(* The queue and the set together have the refs' commits and the children  *)
(* of what was visited, and nothing that a closed set could do without.     *)
WalkInv ==
    /\ phase \in {"references", "graph"} => reachable = {}
    /\ phase \in {"reachability", "done"} =>
         /\ Targets \subseteq waiting \cup reachable
         /\ \A id \in reachable : Children(id) \subseteq waiting \cup reachable
         /\ \A S \in SUBSET Id : ClosedUnder(S) => waiting \cup reachable \subseteq S
    /\ phase = "done" => waiting = {}

LEMMA WalkStep == WalkInv /\ [IntegrityNext]_integrityvars => WalkInv'
<1> SUFFICES ASSUME WalkInv, [IntegrityNext]_integrityvars PROVE WalkInv'
  OBVIOUS
<1> USE DEF given, sets
<1>a. ASSUME UNCHANGED <<object, place, ref>>
      PROVE  /\ Targets' = Targets
             /\ \A id : Children(id)' = Children(id)
             /\ \A S : ClosedUnder(S)' = ClosedUnder(S)
  BY <1>a DEF Targets, Reads, Children, Exists, ClosedUnder
<1>1. CASE CheckReferences BY <1>1 DEF CheckReferences, WalkInv
<1>2. ASSUME NextRef \/ FindCycle \/ EnterParent \/ PassParent \/ LeaveCommit
      PROVE  WalkInv'
  <2>1. UNCHANGED <<object, place, ref, phase, waiting, reachable>>
    BY <1>2 DEF NextRef, FindCycle, EnterParent, PassParent, LeaveCommit
  <2> QED BY <1>a, <2>1 DEF WalkInv
<1>3. CASE StartReachability
  <2>1. UNCHANGED <<object, place, ref, reachable>> /\ reachable = {} /\ waiting' = Targets
        /\ phase' = "reachability"
    BY <1>3 DEF StartReachability, WalkInv
  <2>2. \A S : ClosedUnder(S) => Targets \subseteq S BY DEF ClosedUnder
  <2> QED BY <1>a, <2>1, <2>2 DEF WalkInv
<1>4. CASE VisitObject
  <2>1. PICK id \in waiting :
          /\ reachable' = reachable \cup {id}
          /\ waiting' = IF id \in reachable THEN Popped(id) ELSE Followed(id)
    BY <1>4 DEF VisitObject
  <2>2. phase = "reachability" /\ UNCHANGED <<object, place, ref, phase>>
    BY <1>4 DEF VisitObject
  <2>3. waiting \cup reachable \subseteq waiting' \cup reachable'
    BY <2>1 DEF Popped, Followed
  <2>4. Children(id) \subseteq waiting' \cup reachable'
    BY <2>1, <2>2, <2>3 DEF WalkInv, Followed
  <2>5. ASSUME NEW S \in SUBSET Id, ClosedUnder(S)
        PROVE  waiting' \cup reachable' \subseteq S
    <3>1. waiting \cup reachable \subseteq S BY <2>2, <2>5 DEF WalkInv
    <3>2. Children(id) \subseteq S BY <2>1, <2>5, <3>1 DEF ClosedUnder
    <3> QED BY <2>1, <3>1, <3>2 DEF Popped, Followed
  <2>6. Targets \subseteq waiting \cup reachable
        /\ \A i \in reachable : Children(i) \subseteq waiting \cup reachable
    BY <2>2 DEF WalkInv
  <2>7. phase' = "reachability" BY <2>2
  <2>8. \A i \in reachable' : Children(i) \subseteq waiting' \cup reachable'
    BY <2>1, <2>3, <2>4, <2>6
  <2> QED BY <1>a, <2>2, <2>3, <2>5, <2>6, <2>7, <2>8 DEF WalkInv
<1>5. CASE EndChecks BY <1>5, <1>a DEF EndChecks, WalkInv
<1>6. CASE Repair BY <1>6 DEF Repair, WalkInv
<1>7. CASE UNCHANGED integrityvars BY <1>7, <1>a DEF integrityvars, WalkInv
<1> QED BY <1>1, <1>2, <1>3, <1>4, <1>5, <1>6, <1>7 DEF IntegrityNext, CheckStep

(* However damaged a repository is, the walk of collect_reachable_objects  *)
(* ends with the least set that has the refs' commits and the children of   *)
(* its members.                                                             *)
THEOREM ReachableIsExact == IntegritySpec => []ReachableExact
<1>1. IntegrityInit => WalkInv BY DEF IntegrityInit, WalkInv
<1>2. WalkInv => ReachableExact
  <2> SUFFICES ASSUME WalkInv, phase = "done" 
               PROVE  /\ ClosedUnder(reachable)
                      /\ \A S \in SUBSET Id : ClosedUnder(S) => reachable \subseteq S
    BY DEF ReachableExact
  <2>1. waiting = {} BY DEF WalkInv
  <2> QED BY <2>1 DEF WalkInv, ClosedUnder
<1> QED BY <1>1, <1>2, WalkStep, PTL DEF IntegritySpec

(* has_cycle runs only while check_commit_graph does. *)
CallsInPhase == frames # <<>> => phase = "graph"

LEMMA CallsInPhaseStep ==
    IntegrityTypeOK /\ CallsInPhase /\ [IntegrityNext]_integrityvars => CallsInPhase'
BY DEF CallsInPhase, IntegrityNext, CheckStep, CheckReferences, NextRef, FindCycle, EnterParent,
       PassParent, LeaveCommit, StartReachability, VisitObject, EndChecks, Repair, HasParent,
       integrityvars

(* Removing the dangling refs leaves none: what a ref that stays points to  *)
(* holds an id, and so stays too.  (repair_references)                      *)
THEOREM RepairIsEnough == IntegritySpec => []RepairSettles
<1>1. IntegrityInit => RepairSettles BY DEF IntegrityInit, RepairSettles
<1>2. RepairSettles /\ CallsInPhase /\ [IntegrityNext]_integrityvars => RepairSettles'
  <2> SUFFICES ASSUME RepairSettles, CallsInPhase, [IntegrityNext]_integrityvars
               PROVE  RepairSettles'
    OBVIOUS
  <2>1. CASE Repair
    <3> DEFINE kept == {q \in DOMAIN ref : Issue("DANGLING_REFERENCE", q) \notin RefIssues(q)}
    <3>1. ref' = [r \in kept |-> ref[r]] BY <2>1 DEF Repair
    <3>2. \A r \in kept : ~Dangles(r) BY DEF RefIssues, Dangles, Reads
    <3>3. \A r : Reads(r) => r \in kept
      <4>1. ASSUME NEW r, Reads(r) PROVE Issue("DANGLING_REFERENCE", r) \notin RefIssues(r)
        BY <4>1 DEF RefIssues, Reads, Dangles, Issue
      <4> QED BY <4>1 DEF Reads
    <3>4. \A r \in kept : ref[r].kind = "symbolic" => Reads(ref[r].target)
      BY <3>2 DEF Dangles
    <3> HIDE DEF kept
    <3>5. \A r : Reads(r) => Reads(r)' BY <3>1, <3>3 DEF Reads
    <3> QED BY <3>1, <3>4, <3>5 DEF RepairSettles
  <2>2. CASE UNCHANGED integrityvars BY <2>2 DEF integrityvars, given, RepairSettles, Reads
  <2>3. CASE CheckStep
    <3>1. phase' # "repaired"
      BY <2>3 DEF CheckStep, CheckReferences, NextRef, FindCycle, EnterParent, PassParent,
         LeaveCommit, StartReachability, VisitObject, EndChecks, HasParent, CallsInPhase
    <3> QED BY <3>1 DEF RepairSettles
  <2> QED BY <2>1, <2>2, <2>3 DEF IntegrityNext
<1>3. IntegrityInit => CallsInPhase BY DEF IntegrityInit, CallsInPhase
<1> QED BY <1>1, <1>2, <1>3, IntegrityTyping, CallsInPhaseStep, PTL DEF IntegritySpec

---------------------------------------------------------------------------
(* Cycles. *)

InCall == {frames[i].id : i \in DOMAIN frames}

Finished == seen \ recursion_stack

(* The calls of has_cycle: each is for a commit, on the stack and nowhere   *)
(* else in it; the parents passed are finished, and the one called is the   *)
(* next call's commit.                                                      *)
PathOfCalls ==
    /\ \A i \in DOMAIN frames : frames[i].id \in recursion_stack /\ IsCommit(frames[i].id)
    /\ \A i, j \in DOMAIN frames : frames[i].id = frames[j].id => i = j
    /\ \A i \in DOMAIN frames : i # Len(frames) =>
         /\ frames[i].called \in DOMAIN Parents(frames[i].id)
         /\ Parents(frames[i].id)[frames[i].called] = frames[i + 1].id

PassedFinished ==
    \A i \in DOMAIN frames : \A k \in DOMAIN Parents(frames[i].id) :
        k < frames[i].called \/ (k = frames[i].called /\ i = Len(frames))
        => Parents(frames[i].id)[k] \in Finished

(* What stays on the stack after its call leads to a cycle. *)
LeftLead == \A id \in recursion_stack \ InCall : LeadsToCycle(id)

(* What is finished leads to none. *)
FinishedLeadsNowhere == \A id \in Finished : ~LeadsToCycle(id)

UnderWay(r) == frames # <<>> /\ r = root

(* The refs dealt with are judged; those to come, and the one under way,    *)
(* have no issue yet.                                                       *)
Judged ==
    phase \in {"graph", "reachability", "done"} =>
        \A r \in DOMAIN ref :
            IF r \in todo \/ UnderWay(r) THEN Cycle(r) \notin issues
            ELSE Cycle(r) \in issues <=> Reads(r) /\ LeadsToCycle(ref[r].id)

RootOfCalls ==
    frames # <<>> =>
        root \in DOMAIN ref \ todo /\ Reads(root) /\ frames[1].id = ref[root].id

CycleInv ==
    /\ PathOfCalls /\ PassedFinished /\ LeftLead /\ FinishedLeadsNowhere
    /\ Judged /\ RootOfCalls /\ CallsInPhase
    /\ phase \in {"reachability", "done"} => todo = {}

(* A commit that has a parent which leads to a cycle leads to one; and no   *)
(* other does.                                                              *)
LEMMA LeadsByParent ==
    ASSUME NEW id \in Id, IsCommit(id), NEW k \in DOMAIN Parents(id), LeadsToCycle(Parents(id)[k])
    PROVE  LeadsToCycle(id)
<1>1. PICK S \in SUBSET Id : Parents(id)[k] \in S /\ Endless(S) BY DEF LeadsToCycle
<1>2. Endless(S \cup {id}) BY <1>1 DEF Endless
<1> QED BY <1>1, <1>2 DEF LeadsToCycle

LEMMA LeadsOnlyByParent ==
    ASSUME NEW id, LeadsToCycle(id)
    PROVE  IsCommit(id) /\ \E k \in DOMAIN Parents(id) : LeadsToCycle(Parents(id)[k])
BY DEF LeadsToCycle, Endless

(* When the next parent is on the stack, every call leads to a cycle. *)
LEMMA CallsLead ==
    ASSUME IntegrityTypeOK, CycleInv, HasParent, OnStack(Parent)
    PROVE  \A id \in InCall : LeadsToCycle(id)
<1>1. /\ frames \in Seq(Calls) /\ Len(frames) \in DOMAIN frames
      /\ \A i \in DOMAIN frames : i # Len(frames) => i + 1 \in DOMAIN frames
  BY TopIsFrame DEF IntegrityTypeOK, HasParent
<1>2. \A i \in DOMAIN frames : frames[i].id \in Id BY FramesAreCalls
<1>3. PICK S \in SUBSET Id : (S = {} \/ Endless(S)) /\ Parent \in S \cup InCall
  BY DEF CycleInv, LeftLead, LeadsToCycle, OnStack
<1>4. ASSUME NEW i \in DOMAIN frames
      PROVE  \E k \in DOMAIN Parents(frames[i].id) : Parents(frames[i].id)[k] \in S \cup InCall
  <2>1. CASE i = Len(frames) BY <1>3, <2>1, ParentIsId DEF Top, Parent
  <2>2. CASE i # Len(frames) BY <1>1, <2>2 DEF CycleInv, PathOfCalls, InCall
  <2> QED BY <2>1, <2>2
<1>5. Endless(S \cup InCall)
  <2>1. ASSUME NEW c \in S \cup InCall
        PROVE  IsCommit(c) /\ \E k \in DOMAIN Parents(c) : Parents(c)[k] \in S \cup InCall
    <3>1. CASE c \in S BY <1>3, <3>1 DEF Endless
    <3>2. CASE c \in InCall BY <1>4, <3>2 DEF InCall, CycleInv, PathOfCalls
    <3> QED BY <3>1, <3>2
  <2> QED BY <2>1 DEF Endless
<1>6. S \cup InCall \subseteq Id BY <1>2 DEF InCall
<1> QED BY <1>5, <1>6 DEF LeadsToCycle

LEMMA CycleInit == IntegrityInit => CycleInv
<1> SUFFICES ASSUME IntegrityInit PROVE CycleInv OBVIOUS
<1>1. frames = <<>> /\ seen = {} /\ recursion_stack = {} /\ phase = "references"
  BY DEF IntegrityInit
<1>2. DOMAIN frames = {} BY <1>1
<1>3. PathOfCalls /\ PassedFinished BY <1>2 DEF PathOfCalls, PassedFinished
<1>4. LeftLead /\ FinishedLeadsNowhere BY <1>1 DEF LeftLead, FinishedLeadsNowhere, Finished
<1> QED BY <1>1, <1>3, <1>4 DEF CycleInv, Judged, RootOfCalls, CallsInPhase

(* The definitions about the objects, and about the refs, do not change     *)
(* while these do not.                                                      *)
LEMMA GivenStays ==
    ASSUME UNCHANGED given
    PROVE  /\ \A id : Parents(id)' = Parents(id)
           /\ \A id : IsCommit(id)' = IsCommit(id)
           /\ \A id : LeadsToCycle(id)' = LeadsToCycle(id)
BY DEF given, Parents, IsCommit, Readable, LeadsToCycle, Endless

LEMMA CyclesApart == \A q, r : Cycle(q) = Cycle(r) => q = r
BY DEF Cycle, Issue

(* A step that leaves the search alone keeps the invariant. *)
LEMMA SearchStays ==
    ASSUME CycleInv, UNCHANGED <<given, ref, todo, root, frames, sets>>,
           phase \in {"graph", "reachability", "done"}, UNCHANGED issues,
           frames # <<>> => phase' = "graph",
           phase' \in {"reachability", "done"} => todo = {}
    PROVE  CycleInv'
<1> USE DEF sets
<1>1. /\ UNCHANGED <<InCall, Finished>>
      /\ \A r : UnderWay(r)' = UnderWay(r) /\ Reads(r)' = Reads(r) /\ Cycle(r)' = Cycle(r)
  BY DEF InCall, Finished, UnderWay, Reads, Cycle, Issue
<1>2. PathOfCalls' /\ PassedFinished' /\ LeftLead' /\ FinishedLeadsNowhere'
  BY <1>1, GivenStays DEF CycleInv, PathOfCalls, PassedFinished, LeftLead, FinishedLeadsNowhere
<1>3. Judged' BY <1>1, GivenStays DEF CycleInv, Judged
<1>4. RootOfCalls' /\ CallsInPhase' BY <1>1 DEF CycleInv, RootOfCalls, CallsInPhase
<1> QED BY <1>2, <1>3, <1>4 DEF CycleInv

LEMMA NextRefKeeps == IntegrityTypeOK /\ CycleInv /\ NextRef => CycleInv'
<1> SUFFICES ASSUME IntegrityTypeOK, CycleInv, NextRef PROVE CycleInv' OBVIOUS
<1> USE DEF sets
<1>1. /\ phase = "graph" /\ frames = <<>>
      /\ UNCHANGED <<given, ref, phase>>
  BY DEF NextRef
<1>2. PICK r \in todo :
        /\ todo' = todo \ {r}
        /\ IF ~Reads(r) THEN UNCHANGED <<issues, root, frames, sets>>
           ELSE /\ root' = r
                /\ issues' = IF OnStack(ref[r].id) THEN issues \cup {Cycle(r)} ELSE issues
                /\ frames' = IF Enters(ref[r].id) THEN <<Frame(ref[r].id)>> ELSE <<>>
                /\ seen' = IF OnStack(ref[r].id) THEN seen ELSE Marked(ref[r].id)
                /\ recursion_stack' = IF Enters(ref[r].id) THEN recursion_stack \cup {ref[r].id}
                                      ELSE recursion_stack
  BY DEF NextRef
<1>3. /\ \A q : Reads(q)' = Reads(q) /\ Cycle(q)' = Cycle(q)
      /\ InCall = {} /\ \A id \in recursion_stack : LeadsToCycle(id)
      /\ \A id \in Finished : ~LeadsToCycle(id)
  BY <1>1 DEF Reads, Cycle, Issue, InCall, CycleInv, LeftLead, FinishedLeadsNowhere
<1>4. /\ \A q \in DOMAIN ref : q \in todo => Cycle(q) \notin issues
      /\ \A q \in DOMAIN ref : q \notin todo =>
           (Cycle(q) \in issues <=> Reads(q) /\ LeadsToCycle(ref[q].id))
      /\ r \in DOMAIN ref \/ ~Reads(r)
  BY <1>1, <1>2 DEF CycleInv, Judged, UnderWay, Reads
<1>5. Judged' /\ RootOfCalls' /\ FinishedLeadsNowhere' /\ LeftLead'
      /\ PathOfCalls' /\ PassedFinished'
  <2>1. CASE ~Reads(r)
    <3>1. frames' = <<>> /\ UNCHANGED <<issues, Finished, recursion_stack>> /\ InCall' = {}
      BY <1>1, <1>2, <2>1 DEF InCall, Finished
    <3>2. DOMAIN frames' = {} BY <3>1
    <3>3. PathOfCalls' /\ PassedFinished' /\ RootOfCalls'
      BY <3>1, <3>2 DEF PathOfCalls, PassedFinished, RootOfCalls
    <3>4. FinishedLeadsNowhere' /\ LeftLead'
      BY <1>1, <1>3, <3>1, GivenStays DEF FinishedLeadsNowhere, LeftLead
    <3>5. Judged'
      BY <1>1, <1>2, <1>3, <1>4, <2>1, <3>1, GivenStays DEF Judged, UnderWay
    <3> QED BY <3>3, <3>4, <3>5
  <2>2. CASE Reads(r) /\ OnStack(ref[r].id)
    <3>1. /\ frames' = <<>> /\ UNCHANGED <<Finished, recursion_stack>> /\ InCall' = {}
          /\ issues' = issues \cup {Cycle(r)}
      BY <1>1, <1>2, <2>2 DEF InCall, Finished, Enters
    <3>2. DOMAIN frames' = {} BY <3>1
    <3>3. PathOfCalls' /\ PassedFinished' /\ RootOfCalls'
      BY <3>1, <3>2 DEF PathOfCalls, PassedFinished, RootOfCalls
    <3>4. FinishedLeadsNowhere' /\ LeftLead'
      BY <1>1, <1>3, <3>1, GivenStays DEF FinishedLeadsNowhere, LeftLead
    <3>5. LeadsToCycle(ref[r].id) BY <1>3, <2>2 DEF OnStack
    <3>6. Judged'
      BY <1>1, <1>2, <1>3, <1>4, <2>2, <3>1, <3>5, GivenStays, CyclesApart DEF Judged, UnderWay
    <3> QED BY <3>3, <3>4, <3>6
  <2>3. CASE Reads(r) /\ ~OnStack(ref[r].id) /\ ~Enters(ref[r].id)
    <3> DEFINE id == ref[r].id
    <3>1. /\ frames' = <<>> /\ UNCHANGED <<issues, recursion_stack>> /\ InCall' = {}
          /\ Finished' = Finished \cup {id}
      BY <1>1, <1>2, <2>3 DEF InCall, Finished, Marked, OnStack
    <3>2. DOMAIN frames' = {} BY <3>1
    <3>3. PathOfCalls' /\ PassedFinished' /\ RootOfCalls'
      BY <3>1, <3>2 DEF PathOfCalls, PassedFinished, RootOfCalls
    <3>4. ~LeadsToCycle(id)
      BY <1>3, <2>3, LeadsOnlyByParent DEF Enters, OnStack, Finished
    <3>5. FinishedLeadsNowhere' /\ LeftLead'
      BY <1>1, <1>3, <3>1, <3>4, GivenStays DEF FinishedLeadsNowhere, LeftLead
    <3>6. Judged'
      BY <1>1, <1>2, <1>3, <1>4, <2>3, <3>1, <3>4, GivenStays DEF Judged, UnderWay
    <3> QED BY <3>3, <3>5, <3>6
  <2>4. CASE Reads(r) /\ Enters(ref[r].id)
    <3> DEFINE id == ref[r].id
    <3>1. /\ frames' = <<Frame(id)>> /\ UNCHANGED issues /\ root' = r
          /\ recursion_stack' = recursion_stack \cup {id}
          /\ Finished' = Finished
      BY <1>1, <1>2, <2>4 DEF Finished, Marked, OnStack, Enters
    <3>2. /\ Len(frames') = 1 /\ DOMAIN frames' = {1}
          /\ frames'[1].id = id /\ frames'[1].called = 0 /\ InCall' = {id}
      BY <3>1 DEF Frame, InCall
    <3>3. id \in Id /\ Parents(id) \in Seq(Id) /\ r \in DOMAIN ref
      BY <2>4, ReadsAnId DEF IntegrityTypeOK, Parents
    <3>4. PathOfCalls'
      BY <1>1, <2>4, <3>1, <3>2, GivenStays DEF PathOfCalls, Enters
    <3>5. PassedFinished'
      BY <1>1, <3>2, <3>3, GivenStays DEF PassedFinished
    <3>6. FinishedLeadsNowhere' /\ LeftLead'
      BY <1>1, <1>3, <3>1, <3>2, GivenStays DEF FinishedLeadsNowhere, LeftLead
    <3>7. Judged' /\ RootOfCalls'
      BY <1>1, <1>2, <1>3, <1>4, <2>4, <3>1, <3>2, <3>3, GivenStays
         DEF Judged, UnderWay, RootOfCalls
    <3> QED BY <3>4, <3>5, <3>6, <3>7
  <2> QED BY <2>1, <2>2, <2>3, <2>4 DEF Enters
<1> QED BY <1>1, <1>5 DEF CycleInv, CallsInPhase

LEMMA FindCycleKeeps == IntegrityTypeOK /\ CycleInv /\ FindCycle => CycleInv'
<1> SUFFICES ASSUME IntegrityTypeOK, CycleInv, FindCycle PROVE CycleInv' OBVIOUS
<1> USE DEF sets
<1>1. /\ HasParent /\ OnStack(Parent) /\ frames # <<>> /\ phase = "graph"
      /\ issues' = issues \cup {Cycle(root)} /\ frames' = <<>>
      /\ UNCHANGED <<given, ref, phase, todo, seen, recursion_stack>>
  BY DEF FindCycle, HasParent, CycleInv, CallsInPhase
<1>2. \A id \in InCall : LeadsToCycle(id) BY <1>1, CallsLead
<1>3. \A id \in recursion_stack : LeadsToCycle(id)
  BY <1>2 DEF CycleInv, LeftLead
<1>4. /\ \A q : Reads(q)' = Reads(q) /\ Cycle(q)' = Cycle(q)
      /\ Finished' = Finished /\ DOMAIN frames' = {}
  BY <1>1 DEF Reads, Cycle, Issue, Finished
<1>5. PathOfCalls' /\ PassedFinished' /\ RootOfCalls'
  BY <1>1, <1>4 DEF PathOfCalls, PassedFinished, RootOfCalls
<1>6. FinishedLeadsNowhere' /\ LeftLead'
  BY <1>1, <1>3, <1>4, GivenStays DEF CycleInv, FinishedLeadsNowhere, LeftLead
<1>7. Reads(root) /\ LeadsToCycle(ref[root].id)
  <2>1. 1 \in DOMAIN frames BY <1>1, TopIsFrame DEF IntegrityTypeOK
  <2> QED BY <1>1, <1>2, <2>1 DEF CycleInv, RootOfCalls, InCall
<1>8. Judged'
  <2>1. ASSUME NEW r \in DOMAIN ref
        PROVE  IF r \in todo THEN Cycle(r) \notin issues'
               ELSE Cycle(r) \in issues' <=> Reads(r) /\ LeadsToCycle(ref[r].id)
    <3>1. CASE r = root
      <4>1. root \notin todo BY <1>1 DEF CycleInv, RootOfCalls
      <4> QED BY <1>1, <1>7, <3>1, <4>1
    <3>2. CASE r # root
      BY <1>1, <3>2, CyclesApart DEF CycleInv, Judged, UnderWay
    <3> QED BY <3>1, <3>2
  <2> QED BY <1>1, <1>4, <2>1, GivenStays DEF Judged, UnderWay
<1> QED BY <1>1, <1>5, <1>6, <1>8 DEF CycleInv, CallsInPhase

(* Append, by the indices it leaves and the one it adds. *)
LEMMA Appended ==
    ASSUME NEW S, NEW s \in Seq(S), NEW x \in S
    PROVE  /\ Len(Append(s, x)) = Len(s) + 1
           /\ DOMAIN Append(s, x) = DOMAIN s \cup {Len(s) + 1}
           /\ Len(s) + 1 \notin DOMAIN s
           /\ \A i \in DOMAIN s : Append(s, x)[i] = s[i]
           /\ Append(s, x)[Len(s) + 1] = x
<1>1. /\ Append(s, x) \in Seq(S) /\ Len(Append(s, x)) = Len(s) + 1
      /\ \A i \in 1..Len(s) : Append(s, x)[i] = s[i]
      /\ Append(s, x)[Len(s) + 1] = x
  BY AppendProperties
<1>2. DOMAIN s = 1..Len(s) /\ Len(s) \in Nat OBVIOUS
<1>3. DOMAIN Append(s, x) = 1..(Len(s) + 1) BY <1>1
<1>4. 1..(Len(s) + 1) = 1..Len(s) \cup {Len(s) + 1} BY <1>2
<1>5. Len(s) + 1 \notin 1..Len(s) BY <1>2
<1> QED BY <1>1, <1>2, <1>3, <1>4, <1>5

LEMMA EnterParentKeeps == IntegrityTypeOK /\ CycleInv /\ EnterParent => CycleInv'
<1> SUFFICES ASSUME IntegrityTypeOK, CycleInv, EnterParent PROVE CycleInv' OBVIOUS
<1> USE DEF sets
<1> DEFINE n == Len(frames)
           m == n + 1
           c == Top.called
<1>1. /\ HasParent /\ Enters(Parent) /\ frames # <<>> /\ phase = "graph"
      /\ frames' = Append(Called, Frame(Parent))
      /\ seen' = Marked(Parent) /\ recursion_stack' = recursion_stack \cup {Parent}
      /\ UNCHANGED <<given, ref, phase, issues, todo, root>>
  BY DEF EnterParent, HasParent, CycleInv, CallsInPhase
<1>2. /\ frames \in Seq(Calls) /\ n \in DOMAIN frames /\ Top = frames[n]
      /\ 1 \in DOMAIN frames
      /\ \A i \in DOMAIN frames : i # n => i + 1 \in DOMAIN frames
  BY <1>1, TopIsFrame DEF IntegrityTypeOK, Top
<1>3. /\ Parent \notin InCall /\ IsCommit(Parent) /\ Parent \in Id /\ Parent \notin seen
      /\ c + 1 \in DOMAIN Parents(Top.id) /\ Parents(Top.id)[c + 1] = Parent
  BY <1>1, ParentIsId DEF Enters, OnStack, InCall, CycleInv, PathOfCalls, Parent
<1>4. /\ DOMAIN frames' = DOMAIN frames \cup {m} /\ Len(frames') = m /\ m \notin DOMAIN frames
      /\ \A i \in DOMAIN frames : frames'[i].id = frames[i].id
      /\ \A i \in DOMAIN frames : i # n => frames'[i] = frames[i]
      /\ frames'[n].called = c + 1
      /\ frames'[m].id = Parent /\ frames'[m].called = 0
  <2>1. /\ Called \in Seq(Calls) /\ Len(Called) = n
        /\ \A i \in DOMAIN frames : Called[i].id = frames[i].id
        /\ \A i \in DOMAIN frames : i # n => Called[i] = frames[i]
        /\ Called[n].called = c + 1
    BY <1>1, CalledIsFrames
  <2>2. DOMAIN Called = DOMAIN frames BY <1>2, <2>1
  <2>3. Frame(Parent) \in Calls BY <1>3 DEF Frame, Calls
  <2>4. /\ DOMAIN frames' = DOMAIN frames \cup {m} /\ Len(frames') = m /\ m \notin DOMAIN frames
        /\ \A i \in DOMAIN frames : frames'[i] = Called[i]
        /\ frames'[m] = Frame(Parent)
    BY <1>1, <2>1, <2>2, <2>3, Appended
  <2>5. Frame(Parent).id = Parent /\ Frame(Parent).called = 0 BY DEF Frame
  <2> HIDE DEF n, m, c
  <2> QED BY <1>2, <2>1, <2>4, <2>5
<1>5. /\ \A q : Reads(q)' = Reads(q) /\ Cycle(q)' = Cycle(q)
      /\ Finished' = Finished /\ InCall' = InCall \cup {Parent}
      /\ \A r : UnderWay(r)' = UnderWay(r)
  <2> HIDE DEF n, m, c
  <2>1. InCall' = InCall \cup {Parent} BY <1>4 DEF InCall
  <2>2. Finished' = Finished BY <1>1 DEF Finished, Enters, OnStack, Marked
  <2>3. frames' # <<>>
    <3>1. DOMAIN frames' # {} BY <1>4
    <3> QED BY <3>1
  <2> QED BY <1>1, <2>1, <2>2, <2>3 DEF Reads, Cycle, Issue, UnderWay
<1>6. PathOfCalls'
  <2>1. \A i \in DOMAIN frames' : frames'[i].id \in recursion_stack' /\ IsCommit(frames'[i].id)
    <3> HIDE DEF n, m, c
    <3> QED BY <1>1, <1>3, <1>4 DEF CycleInv, PathOfCalls
  <2>2. \A i, j \in DOMAIN frames' : frames'[i].id = frames'[j].id => i = j
    <3> HIDE DEF n, m, c
    <3>1. \A i \in DOMAIN frames : frames[i].id # Parent BY <1>3 DEF InCall
    <3>2. \A i, j \in DOMAIN frames : frames[i].id = frames[j].id => i = j
      BY DEF CycleInv, PathOfCalls
    <3> QED BY <1>4, <3>1, <3>2
  <2>3. ASSUME NEW i \in DOMAIN frames', i # Len(frames')
        PROVE  /\ frames'[i].called \in DOMAIN Parents(frames'[i].id)
               /\ Parents(frames'[i].id)[frames'[i].called] = frames'[i + 1].id
    <3>1. i \in DOMAIN frames BY <1>4, <2>3
    <3>2. CASE i = n
      <4>1. frames'[i].id = Top.id /\ frames'[i].called = c + 1 /\ frames'[i + 1].id = Parent
        BY <1>2, <1>4, <3>2
      <4> QED BY <1>3, <4>1
    <3>3. CASE i # n
      <4>1. i + 1 \in DOMAIN frames BY <1>2, <3>1, <3>3
      <4>2. frames'[i] = frames[i] /\ frames'[i + 1].id = frames[i + 1].id
        BY <1>4, <3>1, <3>3, <4>1
      <4> QED BY <3>1, <3>3, <4>2 DEF CycleInv, PathOfCalls
    <3> QED BY <3>2, <3>3
  <2>4. \A id : Parents(id)' = Parents(id) /\ IsCommit(id)' = IsCommit(id) BY <1>1, GivenStays
  <2> QED BY <2>1, <2>2, <2>3, <2>4 DEF PathOfCalls
<1>7. PassedFinished'
  <2>1. ASSUME NEW i \in DOMAIN frames', NEW k \in DOMAIN Parents(frames'[i].id),
               k < frames'[i].called \/ (k = frames'[i].called /\ i = Len(frames'))
        PROVE  Parents(frames'[i].id)[k] \in Finished
    <3>1. CASE i = m
      <4>1. frames'[i].id = Parent /\ frames'[i].called = 0 BY <1>4, <3>1
      <4>2. Parents(Parent) \in Seq(Id) BY <1>3 DEF IntegrityTypeOK, Parents
      <4>3. k \in DOMAIN Parents(Parent) BY <4>1
      <4>4. k \in Nat /\ k > 0 BY <4>2, <4>3
      <4> QED BY <2>1, <4>1, <4>4
    <3>2. CASE i = n
      <4>1. c \in Nat /\ Parents(Top.id) \in Seq(Id)
        BY <1>1, TopIsFrame DEF Calls
      <4>2. frames'[i].called = c + 1 /\ frames'[i].id = Top.id /\ frames[i].called = c
            /\ frames[i].id = Top.id /\ i # Len(frames') /\ i \in DOMAIN frames
        BY <1>2, <1>4, <3>2
      <4>3. k < c + 1 /\ k \in DOMAIN Parents(Top.id) BY <2>1, <4>2
      <4>4. k \in Nat BY <4>1, <4>3
      <4>5. k < c \/ k = c BY <4>1, <4>3, <4>4
      <4> QED BY <3>2, <4>2, <4>3, <4>5 DEF CycleInv, PassedFinished
    <3>3. CASE i \in DOMAIN frames /\ i # n
      <4>1. frames'[i] = frames[i] /\ i # Len(frames') BY <1>4, <3>3
      <4> QED BY <2>1, <3>3, <4>1 DEF CycleInv, PassedFinished
    <3> QED BY <1>4, <3>1, <3>2, <3>3
  <2>2. \A id : Parents(id)' = Parents(id) BY <1>1, GivenStays
  <2> QED BY <1>5, <2>1, <2>2 DEF PassedFinished
<1>8. FinishedLeadsNowhere' /\ LeftLead'
  BY <1>1, <1>5, GivenStays DEF CycleInv, FinishedLeadsNowhere, LeftLead
<1>9. Judged'
  BY <1>1, <1>5, GivenStays DEF CycleInv, Judged
<1>10. RootOfCalls'
  <2>1. frames'[1].id = frames[1].id BY <1>2, <1>4
  <2> QED BY <1>1, <1>5, <2>1 DEF CycleInv, RootOfCalls
<1> QED BY <1>1, <1>6, <1>7, <1>8, <1>9, <1>10 DEF CycleInv, CallsInPhase

LEMMA PassParentKeeps == IntegrityTypeOK /\ CycleInv /\ PassParent => CycleInv'
<1> SUFFICES ASSUME IntegrityTypeOK, CycleInv, PassParent PROVE CycleInv' OBVIOUS
<1> USE DEF sets
<1> DEFINE n == Len(frames)
           c == Top.called
<1>1. /\ HasParent /\ ~OnStack(Parent) /\ ~Enters(Parent) /\ frames # <<>> /\ phase = "graph"
      /\ frames' = Called /\ seen' = Marked(Parent)
      /\ UNCHANGED <<given, ref, phase, issues, todo, root, recursion_stack>>
  BY DEF PassParent, HasParent, CycleInv, CallsInPhase
<1>2. /\ frames \in Seq(Calls) /\ n \in DOMAIN frames /\ Top = frames[n]
      /\ 1 \in DOMAIN frames
      /\ \A i \in DOMAIN frames : i # n => i + 1 \in DOMAIN frames
  BY <1>1, TopIsFrame DEF IntegrityTypeOK, Top
<1>3. c + 1 \in DOMAIN Parents(Top.id) /\ Parents(Top.id)[c + 1] = Parent
  BY <1>1, ParentIsId DEF Parent
<1>4. /\ DOMAIN frames' = DOMAIN frames /\ Len(frames') = n
      /\ \A i \in DOMAIN frames : frames'[i].id = frames[i].id
      /\ \A i \in DOMAIN frames : i # n => frames'[i] = frames[i]
      /\ frames'[n].called = c + 1
  <2>1. /\ Called \in Seq(Calls) /\ Len(Called) = n
        /\ \A i \in DOMAIN frames : Called[i].id = frames[i].id
        /\ \A i \in DOMAIN frames : i # n => Called[i] = frames[i]
        /\ Called[n].called = c + 1
    BY <1>1, CalledIsFrames
  <2>2. DOMAIN Called = DOMAIN frames BY <1>2, <2>1
  <2> HIDE DEF n, c
  <2> QED BY <1>1, <2>1, <2>2
<1>5. /\ \A q : Reads(q)' = Reads(q) /\ Cycle(q)' = Cycle(q)
      /\ Finished' = Finished \cup {Parent} /\ InCall' = InCall
      /\ \A r : UnderWay(r)' = UnderWay(r)
  <2> HIDE DEF n, c
  <2>1. InCall' = InCall BY <1>4 DEF InCall
  <2>2. Finished' = Finished \cup {Parent} BY <1>1 DEF Finished, OnStack, Marked
  <2>3. frames' # <<>>
    <3>1. DOMAIN frames' # {} BY <1>2, <1>4
    <3> QED BY <3>1
  <2> QED BY <1>1, <2>1, <2>2, <2>3 DEF Reads, Cycle, Issue, UnderWay
<1>6. ~LeadsToCycle(Parent)
  BY <1>1, LeadsOnlyByParent DEF CycleInv, FinishedLeadsNowhere, Finished, Enters, OnStack
<1>7. PathOfCalls'
  <2>1. \A i \in DOMAIN frames' : frames'[i].id \in recursion_stack' /\ IsCommit(frames'[i].id)
    <3> HIDE DEF n, c
    <3> QED BY <1>1, <1>4 DEF CycleInv, PathOfCalls
  <2>2. \A i, j \in DOMAIN frames' : frames'[i].id = frames'[j].id => i = j
    <3> HIDE DEF n, c
    <3> QED BY <1>4 DEF CycleInv, PathOfCalls
  <2>3. ASSUME NEW i \in DOMAIN frames', i # Len(frames')
        PROVE  /\ frames'[i].called \in DOMAIN Parents(frames'[i].id)
               /\ Parents(frames'[i].id)[frames'[i].called] = frames'[i + 1].id
    <3>1. i \in DOMAIN frames /\ i # n /\ i + 1 \in DOMAIN frames BY <1>2, <1>4, <2>3
    <3>2. frames'[i] = frames[i] /\ frames'[i + 1].id = frames[i + 1].id BY <1>4, <3>1
    <3> QED BY <3>1, <3>2 DEF CycleInv, PathOfCalls
  <2>4. \A id : Parents(id)' = Parents(id) /\ IsCommit(id)' = IsCommit(id) BY <1>1, GivenStays
  <2> QED BY <2>1, <2>2, <2>3, <2>4 DEF PathOfCalls
<1>8. PassedFinished'
  <2>1. ASSUME NEW i \in DOMAIN frames', NEW k \in DOMAIN Parents(frames'[i].id),
               k < frames'[i].called \/ (k = frames'[i].called /\ i = Len(frames'))
        PROVE  Parents(frames'[i].id)[k] \in Finished'
    <3>1. CASE i = n
      <4>1. c \in Nat /\ Parents(Top.id) \in Seq(Id)
        BY <1>1, TopIsFrame DEF Calls
      <4>2. frames'[i].called = c + 1 /\ frames'[i].id = Top.id /\ frames[i].called = c
            /\ frames[i].id = Top.id /\ i \in DOMAIN frames
        BY <1>2, <1>4, <3>1
      <4>3. (k < c + 1 \/ k = c + 1) /\ k \in DOMAIN Parents(Top.id) BY <2>1, <4>2
      <4>4. k \in Nat BY <4>1, <4>3
      <4>5. k < c \/ k = c \/ k = c + 1 BY <4>1, <4>3, <4>4
      <4>6. CASE k = c + 1 BY <1>3, <1>5, <4>2, <4>6
      <4>7. CASE k < c \/ k = c
        BY <1>5, <3>1, <4>2, <4>3, <4>7 DEF CycleInv, PassedFinished
      <4> QED BY <4>5, <4>6, <4>7
    <3>2. CASE i # n
      <4>1. frames'[i] = frames[i] /\ i # Len(frames') /\ i \in DOMAIN frames BY <1>4, <3>2
      <4> QED BY <1>5, <2>1, <4>1 DEF CycleInv, PassedFinished
    <3> QED BY <3>1, <3>2
  <2>2. \A id : Parents(id)' = Parents(id) BY <1>1, GivenStays
  <2> QED BY <2>1, <2>2 DEF PassedFinished
<1>9. FinishedLeadsNowhere' /\ LeftLead'
  BY <1>1, <1>5, <1>6, GivenStays DEF CycleInv, FinishedLeadsNowhere, LeftLead
<1>10. Judged'
  BY <1>1, <1>5, GivenStays DEF CycleInv, Judged
<1>11. RootOfCalls'
  <2>1. frames'[1].id = frames[1].id BY <1>2, <1>4
  <2> QED BY <1>1, <1>5, <2>1 DEF CycleInv, RootOfCalls
<1> QED BY <1>1, <1>7, <1>8, <1>9, <1>10, <1>11 DEF CycleInv, CallsInPhase

(* The calls without the last, by their indices. *)
LEMMA Shortened ==
    ASSUME NEW S, NEW s \in Seq(S), s # <<>>
    PROVE  /\ Len(SubSeq(s, 1, Len(s) - 1)) = Len(s) - 1
           /\ DOMAIN SubSeq(s, 1, Len(s) - 1) = DOMAIN s \ {Len(s)}
           /\ \A i \in DOMAIN s : i # Len(s) => SubSeq(s, 1, Len(s) - 1)[i] = s[i]
           /\ SubSeq(s, 1, Len(s) - 1) = <<>> <=> Len(s) = 1
<1> DEFINE n == Len(s)
           t == SubSeq(s, 1, n - 1)
<1>1. n \in Nat /\ n >= 1 /\ DOMAIN s = 1..n OBVIOUS
<1>2. \A i \in 1..(n - 1) : s[i] \in S
  <2>1. \A i \in 1..(n - 1) : i \in 1..n BY <1>1
  <2>2. \A i \in 1..n : s[i] \in S BY ElementOfSeq
  <2> QED BY <2>1, <2>2
<1>3. 1 \in Int /\ n - 1 \in Int BY <1>1
<1>4. /\ t \in Seq(S) /\ Len(t) = IF 1 <= n - 1 THEN n - 1 - 1 + 1 ELSE 0
      /\ \A i \in 1..(n - 1 - 1 + 1) : t[i] = s[1 + i - 1]
  BY <1>2, <1>3, SubSeqProperties
<1>5. /\ t \in Seq(S) /\ Len(t) = n - 1 /\ DOMAIN t = 1..(n - 1)
      /\ \A i \in 1..(n - 1) : t[i] = s[i]
  <2>1. \A i \in 1..(n - 1) : i \in 1..(n - 1 - 1 + 1) /\ 1 + i - 1 = i BY <1>1
  <2>2. Len(t) = n - 1 BY <1>1, <1>4
  <2>3. DOMAIN t = 1..(n - 1) BY <1>4, <2>2
  <2> HIDE DEF t
  <2> QED BY <1>4, <2>1, <2>2, <2>3
<1>6. 1..(n - 1) = 1..n \ {n} BY <1>1
<1> HIDE DEF t, n
<1>7. t = <<>> <=> n = 1
  <2>1. t = <<>> <=> Len(t) = 0 BY <1>5, EmptySeq
  <2> QED BY <1>1, <1>5, <2>1
<1> QED BY <1>1, <1>5, <1>6, <1>7 DEF n, t

(* A commit that is left was found to lead to no cycle: all its parents are *)
(* finished.                                                                *)
LEMMA LeaveCommitKeeps == IntegrityTypeOK /\ CycleInv /\ LeaveCommit => CycleInv'
<1> SUFFICES ASSUME IntegrityTypeOK, CycleInv, LeaveCommit PROVE CycleInv' OBVIOUS
<1> USE DEF sets
<1> DEFINE n == Len(frames)
           c == Top.called
           this == Top.id
<1>1. /\ ~HasParent /\ frames # <<>> /\ phase = "graph"
      /\ frames' = SubSeq(frames, 1, n - 1) /\ recursion_stack' = recursion_stack \ {this}
      /\ root' = IF n = 1 THEN NoRef ELSE root
      /\ UNCHANGED <<given, ref, phase, issues, todo, seen>>
  BY DEF LeaveCommit, CycleInv, CallsInPhase, Unstacked
<1>2. /\ frames \in Seq(Calls) /\ n \in DOMAIN frames /\ Top = frames[n]
      /\ 1 \in DOMAIN frames
      /\ \A i \in DOMAIN frames : i # n => i + 1 \in DOMAIN frames
  BY <1>1, TopIsFrame DEF IntegrityTypeOK, Top
<1>3. /\ DOMAIN frames' = DOMAIN frames \ {n} /\ Len(frames') = n - 1
      /\ \A i \in DOMAIN frames' : frames'[i] = frames[i]
      /\ frames' = <<>> <=> n = 1
  BY <1>1, <1>2, Shortened
<1>4. this \in recursion_stack /\ this \in seen
  BY <1>2 DEF CycleInv, PathOfCalls, IntegrityTypeOK
<1>5. /\ \A q : Reads(q)' = Reads(q) /\ Cycle(q)' = Cycle(q)
      /\ Finished' = Finished \cup {this} /\ InCall' = InCall \ {this}
  <2>1. \A i \in DOMAIN frames : i # n => frames[i].id # this
    BY <1>2 DEF CycleInv, PathOfCalls
  <2>2. InCall' = InCall \ {this}
    <3> HIDE DEF n
    <3> QED BY <1>2, <1>3, <2>1 DEF InCall
  <2>3. Finished' = Finished \cup {this} BY <1>1, <1>4 DEF Finished
  <2> QED BY <1>1, <2>2, <2>3 DEF Reads, Cycle, Issue
<1>6. ~LeadsToCycle(this)
  <2>1. ASSUME NEW k \in DOMAIN Parents(this) PROVE ~LeadsToCycle(Parents(this)[k])
    <3>1. c \in Nat /\ Parents(this) \in Seq(Id) /\ c <= Len(Parents(this))
      BY <1>1, TopIsFrame DEF Calls
    <3>2. c = Len(Parents(this)) BY <1>1, <3>1 DEF HasParent
    <3>3. k < c \/ k = c BY <3>1, <3>2
    <3>4. Parents(this)[k] \in Finished
      BY <1>2, <3>3 DEF CycleInv, PassedFinished
    <3> QED BY <3>4 DEF CycleInv, FinishedLeadsNowhere
  <2> QED BY <2>1, LeadsOnlyByParent
<1>7. PathOfCalls'
  <2>1. \A i \in DOMAIN frames' : frames'[i].id \in recursion_stack' /\ IsCommit(frames'[i].id)
    <3>1. \A i \in DOMAIN frames : i # n => frames[i].id # this
      BY <1>2 DEF CycleInv, PathOfCalls
    <3> HIDE DEF n
    <3> QED BY <1>1, <1>3, <3>1 DEF CycleInv, PathOfCalls
  <2>2. \A i, j \in DOMAIN frames' : frames'[i].id = frames'[j].id => i = j
    <3> HIDE DEF n
    <3> QED BY <1>3 DEF CycleInv, PathOfCalls
  <2>3. ASSUME NEW i \in DOMAIN frames', i # Len(frames')
        PROVE  /\ frames'[i].called \in DOMAIN Parents(frames'[i].id)
               /\ Parents(frames'[i].id)[frames'[i].called] = frames'[i + 1].id
    <3>1. i \in DOMAIN frames /\ i # n BY <1>3
    <3>2. i + 1 \in DOMAIN frames' BY <1>2, <1>3, <2>3, <3>1
    <3>3. frames'[i] = frames[i] /\ frames'[i + 1] = frames[i + 1] BY <1>3, <3>2
    <3> QED BY <3>1, <3>3 DEF CycleInv, PathOfCalls
  <2>4. \A id : Parents(id)' = Parents(id) /\ IsCommit(id)' = IsCommit(id) BY <1>1, GivenStays
  <2> QED BY <2>1, <2>2, <2>3, <2>4 DEF PathOfCalls
<1>8. PassedFinished'
  <2>1. ASSUME NEW i \in DOMAIN frames', NEW k \in DOMAIN Parents(frames'[i].id),
               k < frames'[i].called \/ (k = frames'[i].called /\ i = Len(frames'))
        PROVE  Parents(frames'[i].id)[k] \in Finished'
    <3>1. frames'[i] = frames[i] /\ i \in DOMAIN frames /\ i # n BY <1>3
    <3>2. CASE k < frames'[i].called
      BY <1>5, <3>1, <3>2 DEF CycleInv, PassedFinished
    <3>3. CASE k = frames'[i].called /\ i = n - 1
      <4>1. i + 1 = n BY <1>2, <3>3
      <4>2. Parents(frames[i].id)[frames[i].called] = frames[i + 1].id
        BY <3>1 DEF CycleInv, PathOfCalls
      <4> QED BY <1>2, <1>5, <3>1, <3>3, <4>1, <4>2
    <3> QED BY <1>3, <2>1, <3>2, <3>3
  <2>2. \A id : Parents(id)' = Parents(id) BY <1>1, GivenStays
  <2> QED BY <2>1, <2>2 DEF PassedFinished
<1>9. FinishedLeadsNowhere' /\ LeftLead'
  BY <1>1, <1>5, <1>6, GivenStays DEF CycleInv, FinishedLeadsNowhere, LeftLead
<1>10. Judged' /\ RootOfCalls'
  <2>1. CASE n = 1
    <3>1. frames' = <<>> BY <1>3, <2>1
    <3>2. /\ root \in DOMAIN ref /\ root \notin todo /\ Reads(root)
          /\ ref[root].id = this /\ Cycle(root) \notin issues
      BY <1>1, <1>2, <2>1 DEF CycleInv, RootOfCalls, Judged, UnderWay
    <3> QED BY <1>1, <1>5, <1>6, <3>1, <3>2, GivenStays
            DEF CycleInv, Judged, UnderWay, RootOfCalls
  <2>2. CASE n # 1
    <3>1. frames' # <<>> /\ root' = root BY <1>1, <1>3, <2>2
    <3>2. frames'[1] = frames[1] BY <1>2, <1>3, <2>2
    <3>3. \A r : UnderWay(r)' = UnderWay(r) BY <1>1, <3>1 DEF UnderWay
    <3>4. Judged' BY <1>1, <1>5, <3>3, GivenStays DEF CycleInv, Judged
    <3> QED BY <1>1, <1>5, <3>1, <3>2, <3>4 DEF CycleInv, RootOfCalls
  <2> QED BY <2>1, <2>2
<1> QED BY <1>1, <1>7, <1>8, <1>9, <1>10 DEF CycleInv, CallsInPhase

LEMMA CycleStep ==
    IntegrityTypeOK /\ CycleInv /\ [IntegrityNext]_integrityvars => CycleInv'
<1> SUFFICES ASSUME IntegrityTypeOK, CycleInv, [IntegrityNext]_integrityvars PROVE CycleInv'
  OBVIOUS
<1>1. CASE CheckReferences
  <2>1. /\ phase = "references" /\ phase' = "graph" /\ frames = <<>> /\ todo' = DOMAIN ref
        /\ issues' = UNION {RefIssues(r) : r \in DOMAIN ref}
        /\ UNCHANGED <<given, ref, root, frames, sets>>
    BY <1>1 DEF CheckReferences, CycleInv, CallsInPhase
  <2>2. \A q, r : Cycle(q) \notin RefIssues(r) BY DEF Cycle, Issue, RefIssues
  <2>3. UNCHANGED <<InCall, Finished>> /\ \A q : Cycle(q)' = Cycle(q)
    BY <2>1 DEF InCall, Finished, sets, Cycle, Issue
  <2>4. Judged' BY <2>1, <2>2, <2>3 DEF Judged
  <2>5. PathOfCalls' /\ PassedFinished' /\ LeftLead' /\ FinishedLeadsNowhere'
    BY <2>1, <2>3, GivenStays
       DEF CycleInv, PathOfCalls, PassedFinished, LeftLead, FinishedLeadsNowhere, sets
  <2> QED BY <2>1, <2>4, <2>5 DEF CycleInv, RootOfCalls, CallsInPhase
<1>2. CASE NextRef BY <1>2, NextRefKeeps
<1>3. CASE FindCycle BY <1>3, FindCycleKeeps
<1>4. CASE EnterParent BY <1>4, EnterParentKeeps
<1>5. CASE PassParent BY <1>5, PassParentKeeps
<1>6. CASE LeaveCommit BY <1>6, LeaveCommitKeeps
<1>7. CASE StartReachability
  <2>1. /\ UNCHANGED <<given, ref, todo, root, frames, sets>> /\ UNCHANGED issues
        /\ phase = "graph" /\ phase' = "reachability" /\ frames = <<>> /\ todo = {}
    BY <1>7 DEF StartReachability
  <2> QED BY <2>1, SearchStays
<1>8. CASE VisitObject
  <2>1. /\ UNCHANGED <<given, ref, todo, root, frames, sets>> /\ UNCHANGED issues
        /\ phase = "reachability" /\ phase' = "reachability"
    BY <1>8 DEF VisitObject
  <2>2. frames = <<>> /\ todo = {} BY <2>1 DEF CycleInv, CallsInPhase
  <2> QED BY <2>1, <2>2, SearchStays
<1>9. CASE EndChecks
  <2>1. /\ UNCHANGED <<given, ref, todo, root, frames, sets>> /\ UNCHANGED issues
        /\ phase = "reachability" /\ phase' = "done"
    BY <1>9 DEF EndChecks
  <2>2. frames = <<>> /\ todo = {} BY <2>1 DEF CycleInv, CallsInPhase
  <2> QED BY <2>1, <2>2, SearchStays
<1>10. CASE Repair
  <2>1. frames = <<>> /\ phase' = "repaired" /\ UNCHANGED <<given, todo, root, frames, sets>>
    BY <1>10 DEF Repair, CycleInv, CallsInPhase
  <2>2. UNCHANGED <<InCall, Finished>> BY <2>1 DEF InCall, Finished, sets
  <2>3. PathOfCalls' /\ PassedFinished' /\ LeftLead' /\ FinishedLeadsNowhere'
    BY <2>1, <2>2, GivenStays
       DEF CycleInv, PathOfCalls, PassedFinished, LeftLead, FinishedLeadsNowhere, sets
  <2> QED BY <2>1, <2>3 DEF CycleInv, RootOfCalls, CallsInPhase, Judged
<1>11. CASE UNCHANGED integrityvars
  <2>1. UNCHANGED <<given, ref, phase, issues, todo, root, frames, sets>>
    BY <1>11 DEF integrityvars
  <2>2. UNCHANGED <<InCall, Finished>> BY <2>1 DEF InCall, Finished, sets
  <2>3. PathOfCalls' /\ PassedFinished' /\ LeftLead' /\ FinishedLeadsNowhere'
    BY <2>1, <2>2, GivenStays
       DEF CycleInv, PathOfCalls, PassedFinished, LeftLead, FinishedLeadsNowhere, sets
  <2>4. \A r : UnderWay(r)' = UnderWay(r) /\ Reads(r)' = Reads(r) /\ Cycle(r)' = Cycle(r)
    BY <2>1 DEF UnderWay, Reads, Cycle, Issue
  <2>5. Judged' BY <2>1, <2>4, GivenStays DEF CycleInv, Judged
  <2> QED BY <2>1, <2>3, <2>4, <2>5 DEF CycleInv, RootOfCalls, CallsInPhase
<1> QED BY <1>1, <1>2, <1>3, <1>4, <1>5, <1>6, <1>7, <1>8, <1>9, <1>10, <1>11
        DEF IntegrityNext, CheckStep

(* fsck reports a cycle for exactly the refs that lead to one, in whatever  *)
(* order it takes them.  (check_commit_graph, has_cycle)                    *)
THEOREM CyclesAreFound == IntegritySpec => []CyclesFound
<1>1. CycleInv => CyclesFound
  BY DEF CycleInv, CyclesFound, GraphChecked, Judged, UnderWay, CallsInPhase
<1> QED BY <1>1, InitTyped, StepTyped, CycleInit, CycleStep, PTL DEF IntegritySpec

---------------------------------------------------------------------------
(* What the checks have to do yet: phases, refs, commits to be entered, the *)
(* calls under way, the parents of the last one, and the objects to be     *)
(* reached and queued.                                                     *)
PhasesToDo ==
    CASE phase = "references" -> 4 [] phase = "graph" -> 3 [] phase = "reachability" -> 2
      [] phase = "done" -> 1 [] OTHER -> 0

ParentsToDo == IF frames = <<>> THEN 0 ELSE Len(Parents(Top.id)) - Top.called

ChecksToDo ==
    <<PhasesToDo, Cardinality(todo), Cardinality(Id \ seen), Len(frames), ParentsToDo,
      Cardinality(Id \ reachable), Cardinality(waiting)>>

ChecksFall == <<ChecksToDo', ChecksToDo>> \in Falls(7)

LEMMA ParentsToDoIs == IntegrityTypeOK => ParentsToDo \in Nat
<1> SUFFICES ASSUME IntegrityTypeOK, frames # <<>> PROVE ParentsToDo \in Nat
  BY DEF ParentsToDo
<1>1. Top.called \in Nat /\ Len(Parents(Top.id)) \in Nat /\ Top.called <= Len(Parents(Top.id))
  BY TopIsFrame DEF Calls
<1> QED
  BY <1>1 DEF ParentsToDo

LEMMA SevenAre ==
  ASSUME NEW a \in Nat, NEW b \in Nat, NEW c \in Nat, NEW d \in Nat, NEW e \in Nat,
         NEW f \in Nat, NEW g \in Nat
  PROVE  <<a, b, c, d, e, f, g>> \in [1..7 -> Nat]
<1> DEFINE q == <<a, b, c, d, e, f, g>>
<1>1. q \in Seq(Nat) /\ Len(q) = 7
  OBVIOUS
<1> QED
  BY <1>1

LEMMA ChecksToDoIs ==
  ASSUME IsFiniteSet(Id), IsFiniteSet(Ref)
  PROVE  IntegrityTypeOK =>
           /\ IsFiniteSet(todo) /\ IsFiniteSet(Id \ seen)
           /\ IsFiniteSet(Id \ reachable) /\ IsFiniteSet(waiting)
           /\ ChecksToDo \in [1..7 -> Nat]
<1> SUFFICES ASSUME IntegrityTypeOK
             PROVE  /\ IsFiniteSet(todo) /\ IsFiniteSet(Id \ seen)
                    /\ IsFiniteSet(Id \ reachable) /\ IsFiniteSet(waiting)
                    /\ ChecksToDo \in [1..7 -> Nat]
  OBVIOUS
<1>1. /\ IsFiniteSet(todo) /\ IsFiniteSet(Id \ seen)
      /\ IsFiniteSet(Id \ reachable) /\ IsFiniteSet(waiting)
  BY FS_Subset, FS_Difference DEF IntegrityTypeOK
<1>2. /\ Cardinality(todo) \in Nat /\ Cardinality(Id \ seen) \in Nat
      /\ Cardinality(Id \ reachable) \in Nat /\ Cardinality(waiting) \in Nat
  BY <1>1, FS_CardinalityType
<1>3. Len(frames) \in Nat
  BY DEF IntegrityTypeOK
<1>4. ParentsToDo \in Nat
  BY ParentsToDoIs
<1>5. PhasesToDo \in Nat
  BY DEF PhasesToDo
<1> QED
  BY <1>1, <1>2, <1>3, <1>4, <1>5, SevenAre DEF ChecksToDo

LEMMA ChecksStepFalls ==
  ASSUME IsFiniteSet(Id), IsFiniteSet(Ref), IntegrityTypeOK, IntegrityTypeOK', IntegrityNext
  PROVE  ChecksFall
<1>1. /\ IsFiniteSet(todo) /\ IsFiniteSet(Id \ seen)
      /\ IsFiniteSet(Id \ reachable) /\ IsFiniteSet(waiting)
      /\ ChecksToDo \in [1..7 -> Nat]
  BY ChecksToDoIs
<1>2. ChecksToDo' \in [1..7 -> Nat]
  <2>1. /\ IsFiniteSet(todo') /\ IsFiniteSet(Id \ seen')
        /\ IsFiniteSet(Id \ reachable') /\ IsFiniteSet(waiting')
    BY FS_Subset, FS_Difference DEF IntegrityTypeOK
  <2>2. /\ Cardinality(todo') \in Nat /\ Cardinality(Id \ seen') \in Nat
        /\ Cardinality(Id \ reachable') \in Nat /\ Cardinality(waiting') \in Nat
    BY <2>1, FS_CardinalityType
  <2>3. Len(frames)' \in Nat
    BY DEF IntegrityTypeOK
  <2>4. (ParentsToDo \in Nat)'
    BY ParentsToDoIs, PTL
  <2>5. PhasesToDo' \in Nat
    BY DEF PhasesToDo
  <2> QED
    BY <2>2, <2>3, <2>4, <2>5, SevenAre DEF ChecksToDo
<1>3. ASSUME NEW j \in 1..7, \A i \in 1..(j - 1) : ChecksToDo'[i] = ChecksToDo[i],
             ChecksToDo'[j] < ChecksToDo[j]
      PROVE  ChecksFall
  BY <1>1, <1>2, <1>3, FallsIs DEF ChecksFall
<1>4. CASE CheckReferences \/ StartReachability \/ EndChecks \/ Repair
  <2>1. \/ phase = "references" /\ phase' = "graph"
        \/ phase = "graph" /\ phase' = "reachability"
        \/ phase = "reachability" /\ phase' = "done"
        \/ phase = "done" /\ phase' = "repaired"
    BY <1>4 DEF CheckReferences, StartReachability, EndChecks, Repair
  <2>2. ChecksToDo'[1] < ChecksToDo[1]
    BY <2>1 DEF ChecksToDo, PhasesToDo
  <2> QED
    BY <1>3, <2>2
<1>5. CASE NextRef
  <2>1. phase' = phase /\ \E r \in todo : todo' = todo \ {r}
    BY <1>5 DEF NextRef
  <2>2. Cardinality(todo') < Cardinality(todo)
    BY <1>1, <2>1, Smaller
  <2>3. ChecksToDo'[1] = ChecksToDo[1] /\ ChecksToDo'[2] < ChecksToDo[2]
    BY <2>1, <2>2 DEF ChecksToDo, PhasesToDo
  <2> QED
    BY <1>3, <2>3
<1>6. CASE FindCycle
  <2>1. UNCHANGED <<phase, todo, seen>> /\ frames' = <<>> /\ frames # <<>>
    BY <1>6 DEF FindCycle, HasParent, sets
  <2>2. Len(frames') < Len(frames)
    BY <2>1 DEF IntegrityTypeOK
  <2>3. \A i \in 1..3 : ChecksToDo'[i] = ChecksToDo[i]
    BY <2>1 DEF ChecksToDo, PhasesToDo
  <2>4. ChecksToDo'[4] < ChecksToDo[4]
    BY <2>2 DEF ChecksToDo
  <2> QED
    BY <1>3, <2>3, <2>4
<1>7. CASE (EnterParent \/ PassParent) /\ Parent \notin seen
  <2>1. UNCHANGED <<phase, todo>> /\ seen' = seen \cup {Parent} /\ Parent \in Id \ seen
    BY <1>7, ParentIsId DEF EnterParent, PassParent, Marked
  <2>2. Id \ seen' = (Id \ seen) \ {Parent}
    BY <2>1
  <2>3. Cardinality(Id \ seen') < Cardinality(Id \ seen)
    BY <1>1, <2>1, <2>2, Smaller
  <2>4. \A i \in 1..2 : ChecksToDo'[i] = ChecksToDo[i]
    BY <2>1 DEF ChecksToDo, PhasesToDo
  <2>5. ChecksToDo'[3] < ChecksToDo[3]
    BY <2>3 DEF ChecksToDo
  <2> QED
    BY <1>3, <2>4, <2>5
<1>8. CASE PassParent /\ Parent \in seen
  <2>1. UNCHANGED <<phase, todo>> /\ seen' = seen /\ frames' = Called /\ frames # <<>>
        /\ object' = object
    BY <1>8 DEF PassParent, Marked, HasParent, given
  <2>2. /\ Len(frames') = Len(frames)
        /\ frames'[Len(frames)].id = Top.id
        /\ frames'[Len(frames)].called = Top.called + 1
    BY <1>8, <2>1, CalledIsFrames, TopIsFrame DEF PassParent, Top
  <2>3. Len(frames) > 0 /\ Len(frames) \in Nat
    BY <2>1 DEF IntegrityTypeOK
  <2>4. frames' # <<>>
    BY <2>2, <2>3
  <2>5. ParentsToDo' = Len(Parents(Top.id)) - (Top.called + 1)
    BY <2>1, <2>2, <2>4 DEF ParentsToDo, Top, Parents
  <2>6. ParentsToDo' < ParentsToDo
    <3>1. Top.called \in Nat /\ Len(Parents(Top.id)) \in Nat
      BY <2>1, TopIsFrame DEF Calls
    <3> QED
      BY <2>1, <2>5, <3>1 DEF ParentsToDo
  <2>7. \A i \in 1..4 : ChecksToDo'[i] = ChecksToDo[i]
    BY <2>1, <2>2 DEF ChecksToDo, PhasesToDo
  <2>8. ChecksToDo'[5] < ChecksToDo[5]
    BY <2>6 DEF ChecksToDo
  <2> QED
    BY <1>3, <2>7, <2>8
<1>9. CASE LeaveCommit
  <2>1. UNCHANGED <<phase, todo, seen>> /\ frames' = SubSeq(frames, 1, Len(frames) - 1)
        /\ frames # <<>>
    BY <1>9 DEF LeaveCommit
  <2>2. Len(frames') < Len(frames)
    BY <2>1 DEF IntegrityTypeOK
  <2>3. \A i \in 1..3 : ChecksToDo'[i] = ChecksToDo[i]
    BY <2>1 DEF ChecksToDo, PhasesToDo
  <2>4. ChecksToDo'[4] < ChecksToDo[4]
    BY <2>2 DEF ChecksToDo
  <2> QED
    BY <1>3, <2>3, <2>4
<1>10. CASE VisitObject
  <2>1. UNCHANGED <<phase, todo, seen, frames, object>>
    BY <1>10 DEF VisitObject, sets, given
  <2>2. \A i \in 1..5 : ChecksToDo'[i] = ChecksToDo[i]
    BY <2>1 DEF ChecksToDo, PhasesToDo, ParentsToDo, Top, Parents
  <2>3. PICK id \in waiting :
          /\ reachable' = reachable \cup {id}
          /\ waiting' = IF id \in reachable THEN Popped(id) ELSE Followed(id)
    BY <1>10 DEF VisitObject
  <2>4. CASE id \in reachable
    <3>1. reachable' = reachable /\ waiting' = waiting \ {id}
      BY <2>3, <2>4 DEF Popped
    <3>2. Cardinality(waiting') < Cardinality(waiting)
      BY <1>1, <3>1, Smaller
    <3>3. ChecksToDo'[6] = ChecksToDo[6] /\ ChecksToDo'[7] < ChecksToDo[7]
      BY <3>1, <3>2 DEF ChecksToDo
    <3>4. \A i \in 1..6 : ChecksToDo'[i] = ChecksToDo[i]
      BY <2>2, <3>3
    <3> QED
      BY <1>3, <3>3, <3>4
  <2>5. CASE id \notin reachable
    <3>1. Id \ reachable' = (Id \ reachable) \ {id} /\ id \in Id \ reachable
      BY <2>3, <2>5 DEF IntegrityTypeOK
    <3>2. Cardinality(Id \ reachable') < Cardinality(Id \ reachable)
      BY <1>1, <3>1, Smaller
    <3>3. ChecksToDo'[6] < ChecksToDo[6]
      BY <3>2 DEF ChecksToDo
    <3> QED
      BY <1>3, <2>2, <3>3
  <2> QED
    BY <2>4, <2>5
<1>11. ASSUME EnterParent PROVE Parent \notin seen
  BY <1>11 DEF EnterParent, Enters
<1> QED
  BY <1>4, <1>5, <1>6, <1>7, <1>8, <1>9, <1>10, <1>11 DEF IntegrityNext, CheckStep

(* The checks of fsck end: each step has less to do, in an order without   *)
(* endless descents, whatever cycles there are, as every commit is entered *)
(* once for all refs.                                                      *)
THEOREM ChecksComeToEnd ==
  ASSUME IsFiniteSet(Id), IsFiniteSet(Ref)
  PROVE  IntegritySpec => [][ChecksFall]_integrityvars
<1>1. ASSUME IntegrityTypeOK, [IntegrityNext]_integrityvars PROVE [ChecksFall]_integrityvars
  BY <1>1, StepTyped, ChecksStepFalls
<1> QED
  BY <1>1, IntegrityTyping, PTL DEF IntegritySpec

---------------------------------------------------------------------------
(* A pass that has stored nothing has found every object it has passed     *)
(* without a base: this, and not the result, is what a step preserves.     *)
PassedAreStuck ==
    /\ step = "object" /\ ~progress =>
          \A i \in 1..(at - 1) : i \in Unresolved => MissingBase(pack[i])
    /\ step = "pass" /\ ~progress => \A i \in Unresolved : MissingBase(pack[i])
    /\ GivesUpWhenStuck

UnpackInv == UnpackTypeOK /\ ObjectsDescribed /\ PassedAreStuck

---------------------------------------------------------------------------
(* A pack is a sequence of raw objects of the three kinds. *)
LEMMA PackIsSequence ==
    ASSUME pack \in Packs
    PROVE  /\ Len(pack) \in Nat
           /\ DOMAIN pack = 1..Len(pack)
           /\ \A i \in DOMAIN pack : IsRawObject(pack[i])
  <1>1. /\ pack \in Seq(Range(pack))
        /\ \A i \in DOMAIN pack : IsRawObject(pack[i])
    BY PackAssumption
  <1> QED
    BY <1>1

(* The base of a delta is a content with the size the delta asks for. *)
LEMMA ResolvedIsContent ==
    ASSUME UnpackTypeOK, NEW i \in DOMAIN pack, Ready(pack[i]), Fits(pack[i]),
           NEW c \in Resolved(pack[i])
    PROVE  c \in Content /\ Describes(pack[i], c)
  <1> DEFINE o == pack[i]
  <1>1. IsRawObject(o) /\ pack \in Packs /\ store \subseteq Content
    BY PackIsSequence DEF UnpackTypeOK
  <1>2. CASE o.kind = "whole"
    BY <1>1, <1>2 DEF IsRawObject, Resolved, Describes
  <1>3. CASE o.kind = "offset"
    <2>1. Bases(o) = {cache[j] : j \in {o.base} \cap DOMAIN cache}
      BY <1>3 DEF Bases
    <2>2. PICK b \in Bases(o) : c = Append(b, o.data)
      BY <1>3 DEF Resolved
    <2>3. o.base \in DOMAIN cache /\ b = cache[o.base]
      BY <2>1, <2>2
    <2>4. Len(b) = o.size /\ b \in Content
      BY <2>2, <2>3, <1>1 DEF Fits, UnpackTypeOK
    <2>5. c \in Content
      BY <2>2, <2>4, <1>1, <1>3, PackAssumption
    <2> QED
      BY <2>2, <2>3, <2>4, <2>5, <1>3 DEF Describes
  <1>4. CASE o.kind = "id"
    <2>1. Bases(o) = {o.base} \cap store
      BY <1>4 DEF Bases
    <2>2. PICK b \in Bases(o) : c = Append(b, o.data)
      BY <1>4 DEF Resolved
    <2>3. b = o.base /\ b \in store /\ b \in Content
      BY <2>1, <2>2, <1>1
    <2>4. Len(b) = o.size
      BY <2>2 DEF Fits
    <2>5. c \in Content
      BY <2>2, <2>3, <2>4, <1>1, <1>4, PackAssumption
    <2> QED
      BY <2>2, <2>3, <2>4, <2>5, <1>4 DEF Describes
  <1> QED
    BY <1>1, <1>2, <1>3, <1>4 DEF IsRawObject, Kinds

(* A delta that is not ready misses its base. *)
LEMMA NotReadyIsMissing ==
    ASSUME UnpackTypeOK, NEW i \in DOMAIN pack, ~Ready(pack[i])
    PROVE  MissingBase(pack[i])
  <1>1. IsRawObject(pack[i])
    BY PackIsSequence DEF UnpackTypeOK
  <1> QED
    BY <1>1 DEF Ready, Bases, MissingBase, IsRawObject, Kinds

---------------------------------------------------------------------------
LEMMA UnpackInvInit == UnpackInit => UnpackInv
  <1> SUFFICES ASSUME UnpackInit PROVE UnpackInv
    OBVIOUS
  <1>1. Len(pack) \in Nat
    BY PackIsSequence DEF UnpackInit
  <1>2. UnpackTypeOK
    BY <1>1, PackAssumption DEF UnpackInit, UnpackTypeOK, NothingResolved, First
  <1>3. ObjectsDescribed
    BY DEF UnpackInit, ObjectsDescribed, NothingResolved, Range
  <1>4. PassedAreStuck
    BY DEF UnpackInit, PassedAreStuck, GivesUpWhenStuck
  <1> QED
    BY <1>2, <1>3, <1>4 DEF UnpackInv

(* The one step that changes the store and the objects resolved. *)
LEMMA UnpackInvResolve == UnpackInv /\ Resolve => UnpackInv'
  <1> SUFFICES ASSUME UnpackInv, Resolve PROVE UnpackInv'
    OBVIOUS
  <1> USE DEF UnpackInv
  <1>1. /\ at \in DOMAIN pack
        /\ at \notin DOMAIN cache
        /\ Ready(pack[at])
        /\ Fits(pack[at])
        /\ pack' = pack
        /\ before' = before
        /\ step' = "object"
        /\ at' = at + 1
        /\ progress' = TRUE
    BY DEF Resolve, Unresolved, Noted
  <1>2. PICK c \in Resolved(pack[at]) :
            /\ store' = store \cup {c}
            /\ cache' = [i \in DOMAIN cache \cup {at} |-> IF i = at THEN c ELSE cache[i]]
    BY DEF Resolve
  <1>3. c \in Content /\ Describes(pack[at], c)
    BY <1>1, ResolvedIsContent
  <1>4. /\ DOMAIN cache' = DOMAIN cache \cup {at}
        /\ cache'[at] = c
        /\ \A i \in DOMAIN cache : cache'[i] = cache[i]
    BY <1>1, <1>2
  <1>5. DOMAIN pack = 1..Len(pack) /\ Len(pack) \in Nat
    BY PackIsSequence DEF UnpackTypeOK
  <1>6. UnpackTypeOK'
    <2>1. \A i \in DOMAIN cache' : cache'[i] \in store'
      BY <1>2, <1>4 DEF UnpackTypeOK
    <2>2. cache' = [i \in DOMAIN cache' |-> cache'[i]]
      BY <1>2
    <2>3. cache' \in [DOMAIN cache' -> store']
      BY <2>1, <2>2
    <2>4. at' \in 1..(Len(pack') + 1)
      BY <1>1, <1>5
    <2> QED
      BY <1>1, <1>2, <1>3, <1>4, <2>3, <2>4 DEF UnpackTypeOK
  <1>7. ObjectsDescribed'
    <2>1. Range(cache') = Range(cache) \cup {c}
      BY <1>1, <1>4 DEF Range
    <2>2. store' = before' \cup Range(cache')
      BY <1>1, <1>2, <2>1 DEF ObjectsDescribed
    <2>3. \A i \in DOMAIN pack : pack[i].kind \in Kinds
      BY PackIsSequence DEF UnpackTypeOK, IsRawObject
    <2>4. at \notin DOMAIN cache /\ pack' = pack /\ store \subseteq store'
      BY <1>1, <1>2
    <2>5. ASSUME NEW i, i = at
          PROVE  Describes(pack[i], cache[i])'
      BY <1>1, <1>3, <1>4, <2>3, <2>4, <2>5 DEF Describes, Kinds
    <2>6. ASSUME NEW i \in DOMAIN cache
          PROVE  Describes(pack[i], cache[i])'
      <3>1. Describes(pack[i], cache[i]) /\ pack[i].kind \in Kinds
        BY <2>3 DEF ObjectsDescribed, UnpackTypeOK
      <3> QED
        BY <1>4, <2>4, <3>1 DEF Describes, Kinds
    <2>7. \A i \in DOMAIN cache' : Describes(pack[i], cache[i])'
      BY <1>4, <2>5, <2>6
    <2> QED
      BY <1>1, <2>2, <2>7 DEF ObjectsDescribed
  <1>8. PassedAreStuck'
    BY <1>1 DEF PassedAreStuck, GivesUpWhenStuck
  <1> QED
    BY <1>6, <1>7, <1>8

LEMMA UnpackInvNext == UnpackInv /\ [UnpackNext]_unpackvars => UnpackInv'
  <1> SUFFICES ASSUME UnpackInv, [UnpackNext]_unpackvars PROVE UnpackInv'
    OBVIOUS
  <1> USE DEF UnpackInv
  <1>1. DOMAIN pack = 1..Len(pack) /\ Len(pack) \in Nat
    BY PackIsSequence DEF UnpackTypeOK
  <1>2. ASSUME UNCHANGED <<pack, before, store, cache>>
        PROVE  ObjectsDescribed'
    BY <1>2 DEF ObjectsDescribed, Describes
  <1>3. CASE NextPass
    <2>1. UnpackTypeOK'
      <3>1. pack' = pack /\ at' = 1 /\ progress' = FALSE /\ step' = "object"
        BY <1>3 DEF NextPass, First
      <3>2. at' \in 1..(Len(pack') + 1)
        BY <1>1, <3>1
      <3> QED
        BY <1>3, <3>1, <3>2 DEF NextPass, UnpackTypeOK
    <2>2. 1..(at' - 1) = {} /\ step' = "object"
      BY <1>3 DEF NextPass, First
    <2>3. PassedAreStuck'
      BY <2>2 DEF PassedAreStuck, GivesUpWhenStuck
    <2> QED
      BY <1>2, <1>3, <2>1, <2>3 DEF NextPass
  <1>4. CASE Skip
    <2>1. at \in Unresolved => MissingBase(pack[at])
      BY <1>4, NotReadyIsMissing DEF Skip, Unresolved
    <2>2. UnpackTypeOK'
      BY <1>1, <1>4 DEF Skip, UnpackTypeOK
    <2>3. ~progress => \A i \in 1..at : i \in Unresolved => MissingBase(pack[i])
      <3>1. at \in Nat /\ at >= 1
        BY <1>1 DEF UnpackTypeOK
      <3>2. \A i \in 1..at : i = at \/ i \in 1..(at - 1)
        BY <3>1
      <3> QED
        BY <1>4, <2>1, <3>2 DEF Skip, PassedAreStuck
    <2>4. PassedAreStuck'
      <3>1. (at + 1) - 1 = at
        BY <1>1 DEF UnpackTypeOK
      <3> QED
        BY <1>4, <2>3, <3>1 DEF Skip, PassedAreStuck, GivesUpWhenStuck, Unresolved, MissingBase
    <2> QED
      BY <1>2, <1>4, <2>2, <2>4 DEF Skip
  <1>5. CASE Resolve
    BY <1>5, UnpackInvResolve
  <1>6. CASE Fail
    BY <1>2, <1>6 DEF Fail, UnpackTypeOK, PassedAreStuck, GivesUpWhenStuck
  <1>7. CASE EndPass
    <2>1. at = Len(pack) + 1
      BY <1>1, <1>7 DEF EndPass, UnpackTypeOK
    <2>2. 1..(at - 1) = DOMAIN pack
      BY <1>1, <2>1
    <2>3. PassedAreStuck'
      BY <1>7, <2>2 DEF EndPass, PassedAreStuck, GivesUpWhenStuck, Unresolved, MissingBase
    <2> QED
      BY <1>2, <1>7, <2>3 DEF EndPass, UnpackTypeOK
  <1>8. CASE Finish
    <2>1. PassedAreStuck'
      BY <1>8 DEF Finish, LastPass, PassedAreStuck, GivesUpWhenStuck, Unresolved, MissingBase
    <2> QED
      BY <1>2, <1>8, <2>1 DEF Finish, UnpackTypeOK
  <1>9. CASE UNCHANGED unpackvars
    BY <1>2, <1>9 DEF unpackvars, UnpackTypeOK, PassedAreStuck, GivesUpWhenStuck, Unresolved, MissingBase
  <1> QED
    BY <1>3, <1>4, <1>5, <1>6, <1>7, <1>8, <1>9 DEF UnpackNext

LEMMA UnpackInvariance == UnpackSpec => []UnpackInv
  BY UnpackInvInit, UnpackInvNext, PTL DEF UnpackSpec

(* The type invariant. *)
THEOREM UnpackTyping == UnpackSpec => []UnpackTypeOK
  BY UnpackInvariance, PTL DEF UnpackInv

(* Whenever unpacking stops, the store has gained what the pack describes   *)
(* and nothing else.                                                        *)
THEOREM UnpacksWhatIsDescribed == UnpackSpec => []ObjectsDescribed
  BY UnpackInvariance, PTL DEF UnpackInv

(* Unpacking ends with every object, or with deltas whose bases are neither *)
(* in the store nor in the pack as far as it can be resolved.               *)
THEOREM GivesUpOnlyWhenStuck == UnpackSpec => []GivesUpWhenStuck
  BY UnpackInvariance, PTL DEF UnpackInv, PassedAreStuck

---------------------------------------------------------------------------
(***************************************************************************)
(* The chains of deltas.  Each object resolved is one step further along a *)
(* chain than those before it, so n of them are reached by chains of at    *)
(* most n steps; and when unpacking ends, nothing is one step further.     *)
(***************************************************************************)

(* The chains are what their recursive definition says. *)
LEMMA ChainsAre ==
    ASSUME NEW p, NEW s
    PROVE  \A i \in Nat : Chains(p, s)[i] = IF i = 0 THEN {} ELSE Longer(p, s, Chains(p, s)[i - 1])
<1> DEFINE ChainAt(f, i) == IF i = 0 THEN {} ELSE Longer(p, s, f[i - 1])
           UpTo(f, n) == f = [i \in 0..n |-> ChainAt(f, i)]
           T == {n \in Nat : ~\E f : UpTo(f, n)}
<1>1. ASSUME NEW n \in Nat, NEW f, UpTo(f, n), NEW g, UpTo(g, n + 1)
      PROVE  \A i \in 0..n : f[i] = g[i]
  <2> DEFINE D == {i \in 0..n : f[i] # g[i]}
  <2>1. SUFFICES ASSUME D # {} PROVE FALSE
    OBVIOUS
  <2>2. D \subseteq Nat
    OBVIOUS
  <2>3. PICK i \in D : \A j \in D : i <= j
    <3> HIDE DEF D
    <3> QED
      BY <2>1, <2>2, LeastNumber
  <2>4. i \in 0..n /\ i \in 0..(n + 1) /\ i \in Nat
    OBVIOUS
  <2>5. f[i] = ChainAt(f, i) /\ g[i] = ChainAt(g, i)
    <3>1. \A h, m : UpTo(h, m) => \A k \in 0..m : h[k] = ChainAt(h, k)
      OBVIOUS
    <3> HIDE DEF UpTo, ChainAt
    <3> QED
      BY <1>1, <2>4, <3>1
  <2>6. i # 0 => i - 1 \in 0..n /\ i - 1 \notin D
    BY <2>3
  <2>7. i # 0 => f[i - 1] = g[i - 1]
    BY <2>6
  <2> QED
    BY <2>5, <2>7
<1>2. \A n \in Nat : \E f : UpTo(f, n)
  <2>1. SUFFICES ASSUME T # {} PROVE FALSE
    OBVIOUS
  <2>2. PICK n \in T : \A m \in T : n <= m
    <3>1. T \subseteq Nat
      OBVIOUS
    <3> HIDE DEF T
    <3> QED
      BY <2>1, <3>1, LeastNumber
  <2>3. n \in Nat /\ ~\E f : UpTo(f, n)
    OBVIOUS
  <2>4. CASE n = 0
    <3> DEFINE f == [i \in 0..0 |-> {}]
    <3>1. UpTo(f, 0)
      OBVIOUS
    <3> QED
      BY <2>3, <2>4, <3>1
  <2>5. CASE n # 0
    <3>1. n - 1 \in Nat /\ n - 1 \notin T
      <4> HIDE DEF T
      <4> QED
        BY <2>2, <2>3, <2>5
    <3>2. PICK f : UpTo(f, n - 1)
      <4>1. \A m \in Nat : m \notin T => \E f : UpTo(f, m)
        OBVIOUS
      <4> HIDE DEF UpTo, T
      <4> QED
        BY <3>1, <4>1
    <3> DEFINE g == [i \in 0..n |-> ChainAt(f, i)]
    <3>3. \A i \in 0..(n - 1) : f[i] = ChainAt(f, i)
      BY <3>2
    <3>4. \A i \in 0..n : g[i] = ChainAt(f, i)
      OBVIOUS
    <3>5. \A i \in 0..n : i # 0 => f[i - 1] = g[i - 1]
      <4> TAKE i \in 0..n
      <4>1. CASE i = 0
        BY <4>1
      <4>2. CASE i # 0
        <5>1. i - 1 \in 0..(n - 1) /\ i - 1 \in 0..n
          BY <2>3, <4>2
        <5> HIDE DEF g, ChainAt, UpTo
        <5> QED
          BY <3>3, <3>4, <5>1
      <4> QED
        BY <4>1, <4>2
    <3>6. \A i \in 0..n : ChainAt(f, i) = ChainAt(g, i)
      <4> HIDE DEF g
      <4> QED
        BY <3>5
    <3>7. UpTo(g, n)
      BY <3>6
    <3> HIDE DEF g, UpTo
    <3> QED
      BY <2>3, <3>7
  <2> QED
    BY <2>4, <2>5
<1> DEFINE F(n) == CHOOSE f : UpTo(f, n)
           L == [n \in Nat |-> F(n)[n]]
<1>3. \A n \in Nat : UpTo(F(n), n)
  BY <1>2
<1> HIDE DEF F
<1>4. \A n \in Nat : L[n] = ChainAt(L, n)
  <2> TAKE n \in Nat
  <2>1. CASE n = 0
    BY <2>1, <1>3
  <2>2. CASE n # 0
    <3>1. n - 1 \in Nat /\ n = (n - 1) + 1
      BY <2>2
    <3>2. \A i \in 0..(n - 1) : F(n - 1)[i] = F(n)[i]
      <4>1. UpTo(F(n - 1), n - 1) /\ UpTo(F(n), (n - 1) + 1)
        <5> HIDE DEF UpTo
        <5> QED
          BY <1>3, <3>1
      <4> HIDE DEF UpTo
      <4> QED
        BY <1>1, <3>1, <4>1
    <3>3. F(n)[n] = ChainAt(F(n), n)
      <4>1. \A f, m : UpTo(f, m) => \A k \in 0..m : f[k] = ChainAt(f, k)
        OBVIOUS
      <4> HIDE DEF UpTo, ChainAt
      <4> QED
        BY <1>3, <4>1
    <3>4. F(n - 1)[n - 1] = F(n)[n - 1]
      BY <3>1, <3>2
    <3>5. L[n] = F(n)[n] /\ L[n - 1] = F(n - 1)[n - 1]
      BY <3>1
    <3> HIDE DEF L, UpTo
    <3> QED
      BY <2>2, <3>3, <3>4, <3>5
  <2> QED
    BY <2>1, <2>2
<1>5. L = [n \in Nat |-> ChainAt(L, n)]
  BY <1>4
<1> HIDE DEF L
<1>6. \E f : f = [n \in Nat |-> ChainAt(f, n)]
  BY <1>5
<1>7. Chains(p, s) = CHOOSE f : f = [n \in Nat |-> ChainAt(f, n)]
  BY DEF Chains
<1>8. Chains(p, s) = [n \in Nat |-> ChainAt(Chains(p, s), n)]
  BY <1>6, <1>7
<1> QED
  BY <1>8

(* The objects a delta of object o of p may be applied to. *)
BasesIn(s, links, o) ==
    {b \in s \cup {d[2] : d \in links} :
        /\ Len(b) = o.size
        /\ IF o.kind = "offset" THEN <<o.base, b>> \in links ELSE b = o.base}

LEMMA LongerIs ==
  ASSUME NEW p, NEW s, NEW links
  PROVE  \A i, c : <<i, c>> \in Longer(p, s, links) <=>
            /\ i \in DOMAIN p
            /\ IF p[i].kind = "whole" THEN c = <<p[i].data>>
               ELSE \E b \in BasesIn(s, links, p[i]) : c = Append(b, p[i].data)
<1> DEFINE contents(o) == IF o.kind = "whole" THEN {<<o.data>>} ELSE {Append(b, o.data) : b \in BasesIn(s, links, o)}
<1>1. Longer(p, s, links) = UNION {{i} \X contents(p[i]) : i \in DOMAIN p}
  BY DEF Longer, BasesIn
<1>2. \A i, c : c \in contents(p[i]) <=>
        IF p[i].kind = "whole" THEN c = <<p[i].data>>
        ELSE \E b \in BasesIn(s, links, p[i]) : c = Append(b, p[i].data)
  OBVIOUS
<1> HIDE DEF contents
<1>3. \A i, c : <<i, c>> \in Longer(p, s, links) <=> i \in DOMAIN p /\ c \in contents(p[i])
  BY <1>1
<1> QED
  BY <1>2, <1>3

LEMMA LongerHasPairs ==
  ASSUME NEW p, NEW s, NEW links, NEW d \in Longer(p, s, links)
  PROVE  \E i, c : d = <<i, c>>
BY DEF Longer

LEMMA LongerGrows ==
  ASSUME NEW p, NEW s, NEW few, NEW many, few \subseteq many
  PROVE  Longer(p, s, few) \subseteq Longer(p, s, many)
<1>1. \A o : BasesIn(s, few, o) \subseteq BasesIn(s, many, o)
  BY DEF BasesIn
<1>2. ASSUME NEW d \in Longer(p, s, few) PROVE d \in Longer(p, s, many)
  <2>1. PICK i, c : d = <<i, c>>
    BY LongerHasPairs
  <2> QED
    BY <1>1, <2>1, LongerIs
<1> QED
  BY <1>2

LEMMA ChainsGrow ==
  ASSUME NEW p, NEW s
  PROVE  \A n \in Nat : Chains(p, s)[n] \subseteq Chains(p, s)[n + 1]
<1> DEFINE C == Chains(p, s)
           T == {n \in Nat : ~(C[n] \subseteq C[n + 1])}
<1>1. \A n \in Nat : C[n] = IF n = 0 THEN {} ELSE Longer(p, s, C[n - 1])
  BY ChainsAre
<1> HIDE DEF C
<1>2. SUFFICES ASSUME T # {} PROVE FALSE
  BY DEF C
<1>3. PICK n \in T : \A m \in T : n <= m
  <2>1. T \subseteq Nat
    OBVIOUS
  <2> HIDE DEF T
  <2> QED
    BY <1>2, <2>1, LeastNumber
<1>4. n \in Nat /\ ~(C[n] \subseteq C[n + 1])
  BY <1>3
<1>5. n # 0 /\ n - 1 \in Nat /\ (n - 1) + 1 = n /\ (n + 1) - 1 = n /\ n + 1 \in Nat /\ n + 1 # 0
  BY <1>1, <1>4
<1>6. C[n - 1] \subseteq C[n]
  BY <1>3, <1>5
<1>7. C[n] = Longer(p, s, C[n - 1]) /\ C[n + 1] = Longer(p, s, C[n])
  BY <1>1, <1>4, <1>5
<1> QED
  BY <1>4, <1>6, <1>7, LongerGrows

LEMMA ChainsMount ==
  ASSUME NEW p, NEW s, NEW m \in Nat
  PROVE  \A n \in Nat : m <= n => Chains(p, s)[m] \subseteq Chains(p, s)[n]
<1> DEFINE C == Chains(p, s)
           T == {n \in Nat : m <= n /\ ~(C[m] \subseteq C[n])}
<1>1. \A n \in Nat : C[n] \subseteq C[n + 1]
  BY ChainsGrow
<1> HIDE DEF C
<1>2. SUFFICES ASSUME T # {} PROVE FALSE
  BY DEF C
<1>3. PICK n \in T : \A k \in T : n <= k
  <2>1. T \subseteq Nat
    OBVIOUS
  <2> HIDE DEF T
  <2> QED
    BY <1>2, <2>1, LeastNumber
<1>4. n \in Nat /\ m <= n /\ ~(C[m] \subseteq C[n])
  BY <1>3
<1>5. n - 1 \in Nat /\ m <= n - 1 /\ (n - 1) + 1 = n /\ n - 1 \notin T
  <2>1. n # m
    BY <1>4
  <2>2. n - 1 \in Nat /\ m <= n - 1 /\ (n - 1) + 1 = n /\ ~(n <= n - 1)
    BY <1>4, <2>1
  <2> HIDE DEF T
  <2> QED
    BY <1>3, <2>2
<1>6. C[m] \subseteq C[n - 1]
  BY <1>5
<1> QED
  BY <1>1, <1>4, <1>5, <1>6

(* Whatever holds all it describes holds the chains of every length. *)
LEMMA ChainsWithin ==
  ASSUME NEW p, NEW s, NEW all, Longer(p, s, all) \subseteq all
  PROVE  \A n \in Nat : Chains(p, s)[n] \subseteq all
<1> DEFINE C == Chains(p, s)
           T == {n \in Nat : ~(C[n] \subseteq all)}
<1>1. \A n \in Nat : C[n] = IF n = 0 THEN {} ELSE Longer(p, s, C[n - 1])
  BY ChainsAre
<1> HIDE DEF C
<1>2. SUFFICES ASSUME T # {} PROVE FALSE
  BY DEF C
<1>3. PICK n \in T : \A m \in T : n <= m
  <2>1. T \subseteq Nat
    OBVIOUS
  <2> HIDE DEF T
  <2> QED
    BY <1>2, <2>1, LeastNumber
<1>4. n \in Nat /\ ~(C[n] \subseteq all)
  BY <1>3
<1>5. n # 0 /\ n - 1 \in Nat /\ ~(n <= n - 1)
  BY <1>1, <1>4
<1>6. C[n - 1] \subseteq all
  BY <1>3, <1>5
<1> QED
  BY <1>1, <1>4, <1>5, <1>6, LongerGrows

(* What was resolved, each object with its place; as many objects are      *)
(* reached by chains no longer than they are many.                         *)
Links == {<<i, cache[i]>> : i \in DOMAIN cache}

Reached ==
    /\ IsFiniteSet(DOMAIN cache)
    /\ Links \subseteq Chains(pack, before)[Cardinality(DOMAIN cache)]

LEMMA LinksAre ==
  ASSUME UnpackInv
  PROVE  /\ store = before \cup {d[2] : d \in Links}
         /\ \A i, c : <<i, c>> \in Links <=> i \in DOMAIN cache /\ c = cache[i]
         /\ \A d \in Links : \E i, c : d = <<i, c>>
<1>1. \A i, c : <<i, c>> \in Links <=> i \in DOMAIN cache /\ c = cache[i]
  BY DEF Links
<1>2. {d[2] : d \in Links} = Range(cache)
  <2>1. ASSUME NEW i \in DOMAIN cache PROVE cache[i] \in {d[2] : d \in Links}
    <3>1. <<i, cache[i]>> \in Links /\ <<i, cache[i]>>[2] = cache[i]
      BY DEF Links
    <3> QED
      BY <3>1
  <2>2. ASSUME NEW d \in Links PROVE d[2] \in Range(cache)
    <3>1. PICK i \in DOMAIN cache : d = <<i, cache[i]>>
      BY DEF Links
    <3> QED
      BY <3>1 DEF Range
  <2> QED
    BY <2>1, <2>2 DEF Range
<1>3. store = before \cup Range(cache)
  BY DEF UnpackInv, ObjectsDescribed
<1>4. \A d \in Links : \E i, c : d = <<i, c>>
  BY DEF Links
<1> QED
  BY <1>1, <1>2, <1>3, <1>4

(* What is resolved next is one step further along a chain. *)
LEMMA ResolvedIsLonger ==
  ASSUME UnpackInv, NEW i \in DOMAIN pack, Ready(pack[i]), Fits(pack[i]), NEW c \in Resolved(pack[i])
  PROVE  <<i, c>> \in Longer(pack, before, Links)
<1> DEFINE o == pack[i]
<1>1. IsRawObject(o) /\ store = before \cup {d[2] : d \in Links}
  BY PackIsSequence, LinksAre DEF UnpackInv, UnpackTypeOK
<1>2. CASE o.kind = "whole"
  BY <1>2, LongerIs DEF Resolved
<1>3. CASE o.kind # "whole"
  <2>1. PICK b \in Bases(o) : c = Append(b, o.data)
    BY <1>3 DEF Resolved
  <2>2. Len(b) = o.size
    BY DEF Fits
  <2>3. CASE o.kind = "offset"
    <3>1. o.base \in DOMAIN cache /\ b = cache[o.base]
      BY <2>3 DEF Bases
    <3>2. <<o.base, b>> \in Links
      BY <3>1, LinksAre
    <3>3. b \in {d[2] : d \in Links}
      BY <3>2
    <3>4. b \in BasesIn(before, Links, o)
      BY <2>2, <2>3, <3>2, <3>3 DEF BasesIn
    <3> QED
      BY <1>3, <2>1, <3>4, LongerIs
  <2>4. CASE o.kind = "id"
    <3>1. b = o.base /\ b \in store
      BY <2>4 DEF Bases
    <3>2. b \in BasesIn(before, Links, o)
      BY <1>1, <2>2, <2>4, <3>1 DEF BasesIn
    <3> QED
      BY <1>3, <2>1, <3>2, LongerIs
  <2> QED
    BY <1>1, <1>3, <2>3, <2>4 DEF IsRawObject, Kinds
<1> QED
  BY <1>2, <1>3

LEMMA ReachedInit == UnpackInit => Reached
<1> SUFFICES ASSUME UnpackInit PROVE Reached
  OBVIOUS
<1>1. DOMAIN cache = {}
  BY DEF UnpackInit, NothingResolved
<1>2. Links = {}
  BY <1>1 DEF Links
<1> QED
  BY <1>1, <1>2, FS_EmptySet DEF Reached

LEMMA ReachedNext == UnpackInv /\ Reached /\ [UnpackNext]_unpackvars => Reached'
<1> SUFFICES ASSUME UnpackInv, Reached, [UnpackNext]_unpackvars PROVE Reached'
  OBVIOUS
<1>1. CASE UNCHANGED <<pack, before, cache>>
  BY <1>1 DEF Reached, Links
<1>2. CASE Resolve
  <2>1. at \in DOMAIN pack /\ at \notin DOMAIN cache /\ Ready(pack[at]) /\ Fits(pack[at])
        /\ pack' = pack /\ before' = before
    BY <1>2 DEF Resolve, Unresolved
  <2>2. PICK c \in Resolved(pack[at]) :
            cache' = [i \in DOMAIN cache \cup {at} |-> IF i = at THEN c ELSE cache[i]]
    BY <1>2 DEF Resolve
  <2>3. /\ DOMAIN cache' = DOMAIN cache \cup {at} /\ cache'[at] = c
        /\ \A i \in DOMAIN cache : cache'[i] = cache[i]
    BY <2>1, <2>2
  <2>4. Links' = Links \cup {<<at, c>>}
    BY <2>1, <2>3 DEF Links
  <2> DEFINE n == Cardinality(DOMAIN cache)
             C == Chains(pack, before)
  <2>5. n \in Nat /\ IsFiniteSet(DOMAIN cache') /\ Cardinality(DOMAIN cache') = n + 1
    BY <2>1, <2>3, FS_AddElement, FS_CardinalityType DEF Reached
  <2>6. Links \subseteq C[n]
    BY DEF Reached
  <2>7. C[n + 1] = Longer(pack, before, C[n])
    <3>1. n + 1 \in Nat /\ n + 1 # 0 /\ (n + 1) - 1 = n
      BY <2>5
    <3> HIDE DEF n
    <3> QED
      BY <3>1, ChainsAre
  <2>8. <<at, c>> \in Longer(pack, before, Links)
    BY <2>1, ResolvedIsLonger
  <2> HIDE DEF n, C
  <2>9. <<at, c>> \in C[n + 1]
    BY <2>6, <2>7, <2>8, LongerGrows
  <2>10. Links \subseteq C[n + 1]
    BY <2>5, <2>6, ChainsGrow DEF C
  <2>11. Links' \subseteq C[n + 1]
    BY <2>4, <2>9, <2>10
  <2> QED
    BY <2>1, <2>5, <2>11 DEF Reached, C
<1> QED
  BY <1>1, <1>2 DEF UnpackNext, unpackvars, NextPass, Skip, Fail, EndPass, Finish

(* When nothing is left that has a base, what was resolved holds all it    *)
(* describes.                                                              *)
LEMMA EndIsClosed ==
  ASSUME UnpackInv, step \in {"done", "incomplete"}
  PROVE  Longer(pack, before, Links) \subseteq Links
<1> SUFFICES ASSUME NEW d \in Longer(pack, before, Links) PROVE d \in Links
  OBVIOUS
<1>1. PICK i, c : d = <<i, c>>
  BY LongerHasPairs
<1> DEFINE o == pack[i]
<1>2. /\ i \in DOMAIN pack
      /\ IF o.kind = "whole" THEN c = <<o.data>>
         ELSE \E b \in BasesIn(before, Links, o) : c = Append(b, o.data)
  BY <1>1, LongerIs
<1>3. IsRawObject(o) /\ store = before \cup {e[2] : e \in Links}
  BY <1>2, PackIsSequence, LinksAre DEF UnpackInv, UnpackTypeOK
<1> DEFINE HasBase(b) ==
             /\ Len(b) = o.size /\ c = Append(b, o.data)
             /\ o.kind = "offset" => (o.base \in DOMAIN cache /\ b = cache[o.base])
             /\ o.kind = "id" => (b = o.base /\ o.base \in store)
<1>4. o.kind # "whole" => \E b : HasBase(b)
  <2> SUFFICES ASSUME o.kind # "whole" PROVE \E b : HasBase(b)
    OBVIOUS
  <2>1. PICK b \in BasesIn(before, Links, o) : c = Append(b, o.data)
    BY <1>2
  <2>2. Len(b) = o.size /\ b \in store /\ IF o.kind = "offset" THEN <<o.base, b>> \in Links ELSE b = o.base
    BY <1>3 DEF BasesIn
  <2>3. o.kind = "offset" => (o.base \in DOMAIN cache /\ b = cache[o.base])
    BY <2>2, LinksAre
  <2> QED
    BY <2>1, <2>2, <2>3
<1>5. i \in DOMAIN cache
  <2>1. SUFFICES ASSUME i \notin DOMAIN cache PROVE FALSE
    OBVIOUS
  <2>2. MissingBase(o)
    BY <1>2, <2>1 DEF UnpackInv, PassedAreStuck, GivesUpWhenStuck, Unresolved
  <2> QED
    BY <1>4, <2>2 DEF MissingBase
<1>6. Describes(o, cache[i])
  BY <1>5 DEF UnpackInv, ObjectsDescribed
<1>7. c = cache[i]
  BY <1>2, <1>3, <1>4, <1>6 DEF Describes, IsRawObject, Kinds
<1> QED
  BY <1>1, <1>5, <1>7, LinksAre

(* Unpacking yields exactly what the pack describes.  (resolve_and_store)   *)
THEOREM UnpacksAllThatIsDescribed == UnpackSpec => []ResolvesDescribed
<1>1. UnpackInv /\ Reached => ResolvesDescribed
  <2> SUFFICES ASSUME UnpackInv, Reached, step \in {"done", "incomplete"} PROVE Links = Described
    BY DEF ResolvesDescribed, Links
  <2> DEFINE C == Chains(pack, before)
             n == Cardinality(DOMAIN cache)
  <2>1. Len(pack) \in Nat /\ DOMAIN pack = 1..Len(pack) /\ DOMAIN cache \subseteq DOMAIN pack
    BY PackIsSequence DEF UnpackInv, UnpackTypeOK
  <2>2. n \in Nat /\ n <= Len(pack)
    <3>1. IsFiniteSet(1..Len(pack)) /\ Cardinality(1..Len(pack)) = Len(pack)
      BY <2>1, FS_Interval
    <3> QED
      BY <2>1, <3>1, FS_Subset, FS_CardinalityType
  <2>3. Links \subseteq C[n]
    BY DEF Reached
  <2> HIDE DEF C, n
  <2>4. C[n] \subseteq C[Len(pack)]
    BY <2>1, <2>2, ChainsMount DEF C
  <2>5. C[Len(pack)] \subseteq Links
    BY <2>1, EndIsClosed, ChainsWithin DEF C
  <2>6. Described = C[Len(pack)]
    BY DEF Described, C
  <2> QED
    BY <2>3, <2>4, <2>5, <2>6
<1> QED
  BY <1>1, UnpackInvInit, UnpackInvNext, ReachedInit, ReachedNext, PTL DEF UnpackSpec

---------------------------------------------------------------------------
(* What unpacking has to do yet: whether it runs, the objects to resolve,  *)
(* whether there is to be another pass, and the rest of this one.          *)
UnpackToDo ==
    <<IF step \in {"pass", "object"} THEN 1 ELSE 0, Cardinality(Unresolved),
      IF progress THEN 1 ELSE 0, IF step = "object" THEN 1 ELSE 0, Len(pack) + 1 - at>>

UnpackFalls == <<UnpackToDo', UnpackToDo>> \in Falls(5)

LEMMA UnpackToDoIs ==
  ASSUME UnpackTypeOK
  PROVE  /\ UnpackToDo \in [1..5 -> Nat]
         /\ IsFiniteSet(Unresolved) /\ Cardinality(Unresolved) \in Nat
         /\ at \in Nat /\ Len(pack) + 1 - at \in Nat
<1>1. Len(pack) \in Nat /\ DOMAIN pack = 1..Len(pack)
  BY PackIsSequence DEF UnpackTypeOK
<1>2. IsFiniteSet(Unresolved)
  <2>1. IsFiniteSet(DOMAIN pack)
    BY <1>1, FS_Interval
  <2> QED
    BY <2>1, FS_Difference DEF Unresolved
<1>3. Cardinality(Unresolved) \in Nat
  BY <1>2, FS_CardinalityType
<1>4. at \in Nat /\ Len(pack) + 1 - at \in Nat
  BY <1>1 DEF UnpackTypeOK
<1> QED
  BY <1>2, <1>3, <1>4 DEF UnpackToDo

LEMMA UnpackStepFalls ==
  ASSUME UnpackTypeOK, UnpackTypeOK', UnpackNext
  PROVE  UnpackFalls
<1>1. /\ UnpackToDo \in [1..5 -> Nat]
      /\ IsFiniteSet(Unresolved) /\ Cardinality(Unresolved) \in Nat
      /\ at \in Nat /\ Len(pack) + 1 - at \in Nat
  BY UnpackToDoIs
<1>2. UnpackToDo' \in [1..5 -> Nat]
  <2>1. Len(pack') \in Nat /\ DOMAIN pack' = 1..Len(pack')
    BY PackAssumption DEF UnpackTypeOK
  <2>2. IsFiniteSet(Unresolved')
    <3>1. IsFiniteSet(DOMAIN pack')
      BY <2>1, FS_Interval
    <3> QED
      BY <3>1, FS_Difference DEF Unresolved
  <2>3. Cardinality(Unresolved') \in Nat
    BY <2>2, FS_CardinalityType
  <2>4. Len(pack') + 1 - at' \in Nat
    BY <2>1 DEF UnpackTypeOK
  <2> QED
    BY <2>3, <2>4 DEF UnpackToDo
<1>3. ASSUME NEW j \in 1..5, \A i \in 1..(j - 1) : UnpackToDo'[i] = UnpackToDo[i],
             UnpackToDo'[j] < UnpackToDo[j]
      PROVE  UnpackFalls
  BY <1>1, <1>2, <1>3, FallsIs DEF UnpackFalls
<1>4. CASE NextPass
  <2>1. /\ step = "pass" /\ step' = "object" /\ Unresolved' = Unresolved
        /\ progress /\ ~progress'
    BY <1>4 DEF NextPass, Unresolved
  <2>2. \A i \in 1..2 : UnpackToDo'[i] = UnpackToDo[i]
    BY <2>1 DEF UnpackToDo
  <2>3. UnpackToDo'[3] < UnpackToDo[3]
    BY <2>1 DEF UnpackToDo
  <2> QED
    BY <1>3, <2>2, <2>3
<1>5. CASE Skip
  <2>1. /\ step = "object" /\ step' = step /\ Unresolved' = Unresolved
        /\ progress' = progress /\ pack' = pack /\ at' = at + 1
    BY <1>5 DEF Skip, Unresolved
  <2>2. \A i \in 1..4 : UnpackToDo'[i] = UnpackToDo[i]
    BY <2>1 DEF UnpackToDo
  <2>3. Len(pack) \in Nat
    BY PackIsSequence DEF UnpackTypeOK
  <2>4. UnpackToDo'[5] < UnpackToDo[5]
    BY <1>1, <2>1, <2>3 DEF UnpackToDo
  <2> QED
    BY <1>3, <2>2, <2>4
<1>6. CASE Resolve
  <2>1. step = "object" /\ step' = step /\ pack' = pack /\ at \in Unresolved
    BY <1>6 DEF Resolve
  <2>2. DOMAIN cache' = DOMAIN cache \cup {at}
    BY <1>6 DEF Resolve
  <2>3. Unresolved' = Unresolved \ {at}
    BY <2>1, <2>2 DEF Unresolved
  <2>4. Cardinality(Unresolved') = Cardinality(Unresolved) - 1
    BY <1>1, <2>1, <2>3, FS_RemoveElement
  <2>5. UnpackToDo'[1] = UnpackToDo[1] /\ UnpackToDo'[2] < UnpackToDo[2]
    BY <1>1, <2>1, <2>4 DEF UnpackToDo
  <2> QED
    BY <1>3, <2>5
<1>7. CASE EndPass
  <2>1. /\ step = "object" /\ step' = "pass" /\ Unresolved' = Unresolved
        /\ progress' = progress
    BY <1>7 DEF EndPass, Unresolved
  <2>2. \A i \in 1..3 : UnpackToDo'[i] = UnpackToDo[i]
    BY <2>1 DEF UnpackToDo
  <2>3. UnpackToDo'[4] < UnpackToDo[4]
    BY <2>1 DEF UnpackToDo
  <2> QED
    BY <1>3, <2>2, <2>3
<1>8. CASE Fail \/ Finish
  <2>1. step \in {"pass", "object"} /\ step' \in {"done", "incomplete", "failed"}
    BY <1>8 DEF Fail, Finish
  <2>2. UnpackToDo'[1] < UnpackToDo[1]
    BY <2>1 DEF UnpackToDo
  <2> QED
    BY <1>3, <2>2
<1> QED
  BY <1>4, <1>5, <1>6, <1>7, <1>8 DEF UnpackNext

(* The passes of resolve_and_store end: each step has less to do, in an    *)
(* order without endless descents, whatever the pack and however its       *)
(* deltas depend on one another.                                           *)
THEOREM PassesEnd == UnpackSpec => [][UnpackFalls]_unpackvars
<1>1. ASSUME UnpackInv, [UnpackNext]_unpackvars PROVE [UnpackFalls]_unpackvars
  BY <1>1, UnpackInvNext, UnpackStepFalls DEF UnpackInv
<1> QED
  BY <1>1, UnpackInvariance, PTL DEF UnpackSpec
=============================================================================
