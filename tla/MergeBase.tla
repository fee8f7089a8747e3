----------------------------- MODULE MergeBase -----------------------------
(***************************************************************************)
(* Repository::find_merge_base: two breadth-first walks of the history.    *)
(* The first collects every ancestor of `left`; the second walks from      *)
(* `right` and returns the first commit it takes off its queue that the    *)
(* first one collected.  One action is one turn of a loop.  A commit that  *)
(* cannot be read (it was never fetched) is passed over with `continue`,    *)
(* as if it had no parents: `parents` is what can be read of the history.  *)
(*                                                                         *)
(* A merge reads one immutable history, so the history and the two commits *)
(* are chosen in the initial state and never change.                       *)
(***************************************************************************)
EXTENDS Naturals, Sequences, Functions

CONSTANTS
    CommitId,        \* the commits
    Histories,     \* the functions from a commit to the sequence of its parents
    NoCommit       \* find_merge_base fails: "No common ancestor found"

ASSUME HistoriesAssumption ==
    /\ NoCommit \notin CommitId
    /\ \A h \in Histories : h \in [CommitId -> Seq(CommitId)]

VARIABLES
    parents,       \* the history
    left, right,   \* the arguments
    pc,            \* the loop: "left", "right" or "done"
    queue,         \* queue_left, then queue_right
    pending,       \* the parents of `current` still to be looked at
    visited,       \* visited_left, then visited_right
    ancestors,     \* visited_left, once its loop has ended
    base           \* what find_merge_base returns

history == <<parents, left, right>>
vars == <<history, pc, queue, pending, visited, ancestors, base>>

---------------------------------------------------------------------------
Init ==
    /\ parents \in Histories
    /\ left \in CommitId
    /\ right \in CommitId
    /\ pc = IF left = right THEN "done" ELSE "left"
    /\ base = IF left = right THEN left ELSE NoCommit
    /\ queue = <<left>>
    /\ pending = <<>>
    /\ visited = {left}
    /\ ancestors = {}

(* Mutant: the front of the queue is read and not popped. *)
RestNotPopped(q) == q

Rest(q) == Tail(q)

(* One turn of either loop: pop the front, read its parents. *)
Pop ==
    /\ queue' = Rest(queue)
    /\ pending' = parents[Head(queue)]

(* Mutant: a parent is queued whether or not it was met before. *)
IsNewUntested(c) == c \in CommitId

IsNew(c) == c \notin visited

(* The loop over the parents of `current`. *)
PushParent ==
    /\ pending # <<>>
    /\ LET parent == Head(pending)
       IN  IF IsNew(parent)
           THEN queue' = Append(queue, parent) /\ visited' = visited \cup {parent}
           ELSE UNCHANGED <<queue, visited>>
    /\ pending' = Tail(pending)
    /\ UNCHANGED <<history, pc, ancestors, base>>

VisitLeft ==
    /\ pc = "left"
    /\ pending = <<>>
    /\ queue # <<>>
    /\ Pop
    /\ UNCHANGED <<history, pc, visited, ancestors, base>>

Start == <<right>>

TurnRight ==
    /\ pc = "left"
    /\ pending = <<>>
    /\ queue = <<>>
    /\ pc' = "right"
    /\ ancestors' = visited
    /\ queue' = Start
    /\ visited' = Range(Start)
    /\ UNCHANGED <<history, pending, base>>

(* Mutants: only `left` itself ends the walk; so does a commit above an    *)
(* ancestor of `left`.                                                      *)
IsCommonLeft(c) == c = left

IsCommonParent(c) == c \in ancestors \/ Range(parents[c]) \cap ancestors # {}

IsCommon(c) == c \in ancestors

VisitRight ==
    /\ pc = "right"
    /\ pending = <<>>
    /\ queue # <<>>
    /\ ~IsCommon(Head(queue))
    /\ Pop
    /\ UNCHANGED <<history, pc, visited, ancestors, base>>

Found ==
    /\ pc = "right"
    /\ pending = <<>>
    /\ queue # <<>>
    /\ IsCommon(Head(queue))
    /\ base' = Head(queue)
    /\ pc' = "done"
    /\ UNCHANGED <<history, queue, pending, visited, ancestors>>

Exhausted ==
    /\ pc = "right"
    /\ pending = <<>>
    /\ queue = <<>>
    /\ pc' = "done"
    /\ UNCHANGED <<history, queue, pending, visited, ancestors, base>>

Next == VisitLeft \/ PushParent \/ TurnRight \/ VisitRight \/ Found \/ Exhausted

(* The loops are sequential code of one process, which keeps running. *)
Spec == Init /\ [][Next]_vars /\ WF_vars(Next)

---------------------------------------------------------------------------
(* The ancestors of c, c among them: what every set has that holds c and   *)
(* the parents of its members.                                              *)
Closed(S) == \A c \in S : Range(parents[c]) \subseteq S

Ancestors(c) == {d \in CommitId : \A S \in SUBSET CommitId : c \in S /\ Closed(S) => d \in S}

TypeOK ==
    /\ parents \in [CommitId -> Seq(CommitId)]
    /\ left \in CommitId /\ right \in CommitId
    /\ pc \in {"left", "right", "done"}
    /\ queue \in Seq(CommitId)
    /\ pending \in Seq(CommitId)
    /\ visited \subseteq CommitId
    /\ ancestors \subseteq CommitId
    /\ base \in CommitId \cup {NoCommit}

(* What is returned is an ancestor of both arguments, and "No common       *)
(* ancestor found" is returned only for commits that have none, however    *)
(* the history branches and wherever it breaks off.                         *)
BaseIsCommon ==
    pc = "done" =>
        IF base = NoCommit THEN Ancestors(left) \cap Ancestors(right) = {}
        ELSE base \in Ancestors(left) \cap Ancestors(right)

(* No commit is queued twice: the walks are linear in the history, however *)
(* many paths lead to a commit.                                             *)
QueuedOnce == IsInjective(queue)

(* Both loops end. *)
Terminates == <>(pc = "done")

(* A branch that can be fast-forwarded is recognised: if `left` is an       *)
(* ancestor of `right`, the merge base is `left`, which is what flux merge  *)
(* tests for.                                                               *)
FastForwardFound == pc = "done" /\ left \in Ancestors(right) => base = left
=============================================================================
