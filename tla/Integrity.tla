----------------------------- MODULE Integrity -----------------------------
(***************************************************************************)
(* flux fsck: IntegrityChecker::check_all on a repository that may be      *)
(* damaged, and repair_references.  The repository is chosen in the        *)
(* initial state and does not change until it is repaired.                 *)
(*                                                                         *)
(*   object    id -> what it is: its type, the parents of a commit, and    *)
(*             what else it names (a commit's tree, a tree's entries)       *)
(*   place     id -> "loose", "packed" or "missing"                        *)
(*   ref       the refs that are listed -> what their files hold           *)
(*   phase     the check under way                                         *)
(*   issues    the issues found, each with its ref                         *)
(*   todo      the refs check_commit_graph has left                        *)
(*   root      the ref it is at                                            *)
(*   frames    the calls of has_cycle: a commit, and its parent called     *)
(*   seen, recursion_stack      its sets, shared by all refs               *)
(*   waiting, reachable         those of collect_reachable_objects         *)
(***************************************************************************)
EXTENDS Naturals, Sequences

CONSTANTS
    Id,            \* the ids refs and objects name
    Ref,           \* the names refs may have
    NoRef,         \* check_commit_graph is at no ref
    Objects,       \* the possible objects: functions on Id
    Places,        \* where they may be: functions on Id
    RefContents    \* the possible refs: functions on subsets of Ref

Types == {"commit", "tree", "blob"}

Direct == [kind : {"direct"}, id : Id]

RefValues == Direct \cup [kind : {"symbolic"}, target : Ref] \cup [kind : {"unreadable"}]

ASSUME IntegrityAssumption ==
    /\ Objects \subseteq [Id -> [type : Types, parents : Seq(Id), names : Seq(Id)]]
    /\ Places \subseteq [Id -> {"loose", "packed", "missing"}]
    /\ \A f \in RefContents : DOMAIN f \subseteq Ref /\ f \in [DOMAIN f -> RefValues]
    /\ NoRef \notin Ref

VARIABLES object, place, ref, phase, issues, todo, root, frames, seen, recursion_stack,
          waiting, reachable

given == <<object, place>>

sets == <<seen, recursion_stack>>

integrityvars == <<given, ref, phase, issues, todo, root, frames, sets, waiting, reachable>>

---------------------------------------------------------------------------
(* ObjectStore::read finds packed objects; exists and get_type do not. *)
Readable(id) == place[id] # "missing"

Exists(id) == place[id] = "loose"

(* RefStore::read: an id, or an error for everything else. *)
Reads(r) == r \in DOMAIN ref /\ ref[r].kind = "direct"

Issue(type, r) == [type |-> type, ref |-> r]

IntegrityInit ==
    /\ object \in Objects
    /\ place \in Places
    /\ ref \in RefContents
    /\ phase = "references"
    /\ issues = {}
    /\ todo = {} /\ root = NoRef /\ frames = <<>>
    /\ seen = {} /\ recursion_stack = {}
    /\ waiting = {} /\ reachable = {}

---------------------------------------------------------------------------
(* Mutant: it is enough that the target is a ref. *)
DanglesNowhere(r) == ref[r].kind = "symbolic" /\ ref[r].target \notin DOMAIN ref

Dangles(r) == ref[r].kind = "symbolic" /\ ~Reads(ref[r].target)

(* check_references, for one ref. *)
RefIssues(r) ==
    CASE Dangles(r) -> {Issue("DANGLING_REFERENCE", r)}
      [] ref[r].kind = "unreadable" -> {Issue("INVALID_REFERENCE", r)}
      [] Reads(r) /\ ~Exists(ref[r].id) -> {Issue("MISSING_OBJECT", r)}
      [] OTHER -> {}

CheckReferences ==
    /\ phase = "references"
    /\ issues' = UNION {RefIssues(r) : r \in DOMAIN ref}
    /\ phase' = "graph"
    /\ todo' = DOMAIN ref
    /\ UNCHANGED <<given, ref, root, frames, sets, waiting, reachable>>

---------------------------------------------------------------------------
Parents(id) == object[id].parents

(* A commit that can be read. *)
IsCommit(id) == Readable(id) /\ object[id].type = "commit"

(* has_cycle(id): it returns TRUE for a commit on the stack, FALSE for one *)
(* that was visited or cannot be read, and else goes into its parents.      *)
OnStack(id) == id \in recursion_stack

Enters(id) == ~OnStack(id) /\ id \notin seen /\ IsCommit(id)

Marked(id) == seen \cup {id}

Calls == [id : Id, called : Nat]

Frame(id) == [id |-> id, called |-> 0]

Cycle(r) == Issue("CYCLE_IN_COMMIT_GRAPH", r)

(* check_commit_graph turns to another ref; the directory lists them in    *)
(* any order.  The sets are not emptied between two refs.                   *)
NextRef ==
    /\ phase = "graph" /\ frames = <<>>
    /\ \E r \in todo :
         /\ todo' = todo \ {r}
         /\ IF ~Reads(r) THEN UNCHANGED <<issues, root, frames, sets>>
            ELSE LET id == ref[r].id
                 IN  /\ root' = r
                     /\ issues' = IF OnStack(id) THEN issues \cup {Cycle(r)} ELSE issues
                     /\ frames' = IF Enters(id) THEN <<Frame(id)>> ELSE <<>>
                     /\ seen' = IF OnStack(id) THEN seen ELSE Marked(id)
                     /\ recursion_stack' = IF Enters(id) THEN recursion_stack \cup {id}
                                           ELSE recursion_stack
    /\ UNCHANGED <<given, ref, phase, waiting, reachable>>

Top == frames[Len(frames)]

Parent == Parents(Top.id)[Top.called + 1]

HasParent == frames # <<>> /\ Top.called < Len(Parents(Top.id))

Called == [frames EXCEPT ![Len(frames)].called = @ + 1]

(* The call for the next parent finds a cycle: every call returns TRUE,    *)
(* and leaves its commit on the stack.                                      *)
FindCycle ==
    /\ HasParent /\ OnStack(Parent)
    /\ issues' = issues \cup {Cycle(root)}
    /\ frames' = <<>> /\ root' = NoRef
    /\ UNCHANGED <<given, ref, phase, todo, sets, waiting, reachable>>

EnterParent ==
    /\ HasParent /\ Enters(Parent)
    /\ frames' = Append(Called, Frame(Parent))
    /\ seen' = Marked(Parent)
    /\ recursion_stack' = recursion_stack \cup {Parent}
    /\ UNCHANGED <<given, ref, phase, issues, todo, root, waiting, reachable>>

PassParent ==
    /\ HasParent /\ ~OnStack(Parent) /\ ~Enters(Parent)
    /\ frames' = Called
    /\ seen' = Marked(Parent)
    /\ UNCHANGED <<given, ref, phase, issues, todo, root, recursion_stack, waiting, reachable>>

(* Mutant: the commit stays on the stack. *)
UnstackedNot(id) == recursion_stack

Unstacked(id) == recursion_stack \ {id}

LeaveCommit ==
    /\ frames # <<>> /\ ~HasParent
    /\ recursion_stack' = Unstacked(Top.id)
    /\ frames' = SubSeq(frames, 1, Len(frames) - 1)
    /\ root' = IF Len(frames) = 1 THEN NoRef ELSE root
    /\ UNCHANGED <<given, ref, phase, issues, todo, seen, waiting, reachable>>

---------------------------------------------------------------------------
(* collect_reachable_objects, for check_reachability.  The order of the    *)
(* queue is left out.                                                       *)
Targets == {ref[r].id : r \in {q \in DOMAIN ref : Reads(q)}}

StartReachability ==
    /\ phase = "graph" /\ frames = <<>> /\ todo = {}
    /\ waiting' = Targets
    /\ phase' = "reachability"
    /\ UNCHANGED <<given, ref, issues, todo, root, frames, sets, reachable>>

SeqElements(s) == {s[i] : i \in DOMAIN s}

(* What is queued for an object: blobs have no children, and the type of a *)
(* packed object is not found.                                              *)
Children(id) ==
    IF Exists(id) /\ object[id].type # "blob"
    THEN SeqElements(object[id].parents) \cup SeqElements(object[id].names) ELSE {}

Popped(id) == waiting \ {id}

(* Mutant: what a commit names besides its parents is not queued. *)
FollowedParents(id) == Popped(id) \cup SeqElements(object[id].parents)

Followed(id) == Popped(id) \cup Children(id)

VisitObject ==
    /\ phase = "reachability"
    /\ \E id \in waiting :
         /\ reachable' = reachable \cup {id}
         /\ waiting' = IF id \in reachable THEN Popped(id) ELSE Followed(id)
    /\ UNCHANGED <<given, ref, phase, issues, todo, root, frames, sets>>

EndChecks ==
    /\ phase = "reachability" /\ waiting = {}
    /\ phase' = "done"
    /\ UNCHANGED <<given, ref, issues, todo, root, frames, sets, waiting, reachable>>

(* repair_references, which no command calls: the dangling refs found by a *)
(* new check_references are removed.                                        *)
Repair ==
    /\ phase = "done"
    /\ ref' = [r \in {q \in DOMAIN ref : Issue("DANGLING_REFERENCE", q) \notin RefIssues(q)} |-> ref[r]]
    /\ phase' = "repaired"
    /\ UNCHANGED <<given, issues, todo, root, frames, sets, waiting, reachable>>

CheckStep ==
    \/ CheckReferences
    \/ NextRef \/ FindCycle \/ EnterParent \/ PassParent \/ LeaveCommit
    \/ StartReachability \/ VisitObject \/ EndChecks

IntegrityNext == CheckStep \/ Repair

IntegritySpec == IntegrityInit /\ [][IntegrityNext]_integrityvars

(* The checks run in one thread: an unfinished one goes on. *)
IntegrityFairSpec == IntegritySpec /\ WF_integrityvars(CheckStep)

---------------------------------------------------------------------------
IntegrityTypeOK ==
    /\ object \in [Id -> [type : Types, parents : Seq(Id), names : Seq(Id)]]
    /\ place \in [Id -> {"loose", "packed", "missing"}]
    /\ DOMAIN ref \subseteq Ref /\ \A r \in DOMAIN ref : ref[r] \in RefValues
    /\ phase \in {"references", "graph", "reachability", "done", "repaired"}
    /\ todo \subseteq Ref
    /\ root \in Ref \cup {NoRef}
    /\ frames \in Seq(Calls)
    /\ \A i \in DOMAIN frames : frames[i].called <= Len(Parents(frames[i].id))
    /\ seen \subseteq Id /\ recursion_stack \subseteq seen
    /\ waiting \subseteq Id /\ reachable \subseteq Id

(* A set of commits each of which has a parent in the set: following       *)
(* parents from one of them need never end.                                 *)
Endless(S) == \A c \in S : IsCommit(c) /\ \E i \in DOMAIN Parents(c) : Parents(c)[i] \in S

LeadsToCycle(id) == \E S \in SUBSET Id : id \in S /\ Endless(S)

GraphChecked == phase \in {"reachability", "done"}

(* fsck reports a cycle for exactly the refs that lead to one, though the  *)
(* sets of the search are shared by all refs and a cycle that was found    *)
(* stays on its stack.  (check_commit_graph, has_cycle)                     *)
CyclesFound ==
    GraphChecked =>
        \A r \in DOMAIN ref : Cycle(r) \in issues <=> Reads(r) /\ LeadsToCycle(ref[r].id)

ClosedUnder(S) == Targets \subseteq S /\ \A id \in S : Children(id) \subseteq S

(* What is reachable is the least set that has the refs' commits and the   *)
(* children of its members.  (collect_reachable_objects)                    *)
ReachableExact ==
    phase = "done" =>
        ClosedUnder(reachable) /\ \A S \in SUBSET Id : ClosedUnder(S) => reachable \subseteq S

(* After a repair no ref dangles: removing one makes no other dangle.      *)
RepairSettles ==
    phase = "repaired" =>
        \A r \in DOMAIN ref : ref[r].kind = "symbolic" => Reads(ref[r].target)

(* The checks end, whatever cycles there are. *)
ChecksEnd == <>(phase = "done")
=============================================================================
