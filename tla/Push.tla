------------------------------- MODULE Push --------------------------------
(***************************************************************************)
(* Clients cloning a branch from a git server, committing to it and        *)
(* pushing it back (Fetcher, Pusher), in a repository with git's hash      *)
(* (SHA-1: an object has the same id on both sides, and a blob is one      *)
(* object).  A push discovers what the branch is on the server, reads the  *)
(* local branch, collects the objects in between, sends them with the      *)
(* change of the branch it asks for, and reads the server's report.        *)
(*                                                                         *)
(* The server is not in this repository.  It is modelled by what flux      *)
(* relies on: it changes a branch only if it is still what the request     *)
(* says it was, and it sends what it holds.                                *)
(***************************************************************************)
EXTENDS FluxObjects

CONSTANTS
    Client,       \* repositories, with one branch each
    Name,         \* file names
    Data,         \* file contents
    Stamp,        \* message and time of a commit
    Lossy,        \* BOOLEAN: may a request or a response be lost?
    MaxCommits    \* bound on the commits made

ASSUME PushAssumption == Lossy \in BOOLEAN /\ MaxCommits \in Nat

VARIABLES
    remote,     \* the branch on the server
    held,       \* the objects on the server
    was,        \* every commit the branch has been on the server
    local,      \* the branch in each repository
    objects,    \* the object store of each repository
    job         \* what each client is doing, with its local variables

vars == <<remote, held, was, local, objects, job>>

---------------------------------------------------------------------------
(* told: history, not in the code: a line of a report on the branch was     *)
(* read, or none was asked for.                                             *)
Idle(result, tip) == [pc |-> "idle", result |-> result, new |-> tip, told |-> TRUE]

Quiet(c) == job[c].pc = "idle"

At(c, pc) == job[c].pc = pc

Goto(c, j) == job' = [job EXCEPT ![c] = j]

Fail(c) == Goto(c, Idle("failed", None))

CommitsMade == {o \in UNION {objects[c] : c \in Client} : o.type = "commit"}

Init ==
    /\ remote = None
    /\ held = {}
    /\ was = {}
    /\ local = [c \in Client |-> None]
    /\ objects = [c \in Client |-> {}]
    /\ job = [c \in Client |-> Idle("none", None)]

(* flux add and flux commit, at any time (nothing locks the repository), on *)
(* the branch that is pushed, or on another one that starts from it.        *)
MakeCommit(c, n, d, s) ==
    /\ Cardinality(CommitsMade) < MaxCommits
    /\ LET base   == IF local[c] = None THEN NoEntries ELSE local[c].tree.entries
           tree   == Tree(Overlay(base, [m \in {n} |-> Chunk(d)]))
           commit == Commit(tree, IF local[c] = None THEN <<>> ELSE <<local[c]>>, s)
       IN  /\ objects' = [objects EXCEPT ![c] = @ \cup {Chunk(d), tree, commit}]
           /\ \/ local' = [local EXCEPT ![c] = commit]
              \/ local[c] # None /\ UNCHANGED local
    /\ UNCHANGED <<remote, held, was, job>>

(* flux merge of another branch whose tip is `other`: the branch goes on to *)
(* it, or to a commit that has both for parents (what merge makes of the    *)
(* trees does not matter here: TreeMerge).                                  *)
MakeMerge(c, other, s) ==
    /\ Cardinality(CommitsMade) < MaxCommits
    /\ local[c] # None
    /\ LET bases  == MergeBases(local[c], other, MaxCommits, {})
           merged == Commit(local[c].tree, <<local[c], other>>, s)
       IN  /\ bases # {} /\ other \notin bases
           /\ IF local[c] \in bases
              THEN local' = [local EXCEPT ![c] = other] /\ UNCHANGED objects
              ELSE /\ local' = [local EXCEPT ![c] = merged]
                   /\ objects' = [objects EXCEPT ![c] = @ \cup {merged}]
    /\ UNCHANGED <<remote, held, was, job>>

---------------------------------------------------------------------------
(* flux clone, into a new repository: discover the refs, ask for what they  *)
(* name, unpack what comes, write the refs that were discovered.            *)
CloneDiscover(c) ==
    /\ Quiet(c) /\ local[c] = None
    /\ remote # None
    /\ Goto(c, [pc |-> "clone", want |-> remote])
    /\ UNCHANGED <<remote, held, was, local, objects>>

(* What was discovered may be what the branch was by now. *)
CloneReceive(c) ==
    /\ At(c, "clone")
    /\ objects' = [objects EXCEPT ![c] = @ \cup held]
    /\ local' = [local EXCEPT ![c] = job[c].want]
    /\ Goto(c, Idle("none", None))
    /\ UNCHANGED <<remote, held, was>>

(* The server refuses what no ref names any more, or nothing comes. *)
CloneFails(c) ==
    /\ At(c, "clone")
    /\ remote # job[c].want \/ Lossy
    /\ Fail(c)
    /\ UNCHANGED <<remote, held, was, local, objects>>

---------------------------------------------------------------------------
PushDiscover(c) ==
    /\ Quiet(c)
    /\ Goto(c, [pc |-> "read", old |-> remote])
    /\ UNCHANGED <<remote, held, was, local, objects>>

(* The locals of collect_objects; pack is its result. *)
Collecting(old, new, queue, seen, pack) ==
    [pc |-> "collect", old |-> old, new |-> new, queue |-> queue, seen |-> seen, pack |-> pack]

(* Mutant: the result of the read is not tested. *)
UnbornUntested(tip) == FALSE

(* There is no local branch to push. *)
Unborn(tip) == tip = None

PushRead(c) ==
    /\ At(c, "read")
    /\ LET old == job[c].old
           new == local[c]
       IN  IF Unborn(new)  THEN Fail(c)
           ELSE IF new = old THEN Goto(c, Idle("ok", new))
           ELSE Goto(c, Collecting(old, new, <<new>>, {}, {}))
    /\ UNCHANGED <<remote, held, was, local, objects>>

(* Mutant: a tree is sent without the files it has. *)
TreeObjectsBare(tree, store) == {tree}

(* add_tree_objects: the tree and its files, or nothing if it cannot be    *)
(* read: the push goes on without them.                                    *)
TreeObjects(tree, store) ==
    IF tree \in store THEN {tree} \cup Range(tree.entries) ELSE {}

(* What the walk does not follow: what it has seen, what the server has. *)
StopsAt(j, o) == o \in j.seen \/ o = j.old

PassOver(c) ==
    /\ At(c, "collect")
    /\ job[c].queue # <<>>
    /\ LET j == job[c]
           o == Head(j.queue)
           seen == j.seen \cup ({o} \ {j.old})
       IN  /\ StopsAt(j, o) \/ o \notin objects[c]
           /\ Goto(c, Collecting(j.old, j.new, Tail(j.queue), seen, j.pack))
    /\ UNCHANGED <<remote, held, was, local, objects>>

Collect(c) ==
    /\ At(c, "collect")
    /\ job[c].queue # <<>>
    /\ LET j == job[c]
           o == Head(j.queue)
           found == {o} \cup TreeObjects(o.tree, objects[c])
       IN  /\ ~StopsAt(j, o)
           /\ o \in objects[c]
           /\ Goto(c, Collecting(j.old, j.new, Tail(j.queue) \o o.parents,
                                 j.seen \cup found \cup {o.tree}, j.pack \cup found))
    /\ UNCHANGED <<remote, held, was, local, objects>>

(* create_pack: every object of the pack is read. *)
Pack(c) ==
    /\ At(c, "collect")
    /\ job[c].queue = <<>>
    /\ IF job[c].pack \subseteq objects[c]
       THEN Goto(c, [pc |-> "send", old |-> job[c].old, new |-> job[c].new, pack |-> job[c].pack])
       ELSE Fail(c)
    /\ UNCHANGED <<remote, held, was, local, objects>>

(* Mutant: the server is told that the branch is what it is. *)
OldOfNow(j) == remote

(* The command sent: change the branch from what was discovered. *)
OldOf(j) == j.old

Reply(j, status) == [pc |-> "reply", new |-> j.new, status |-> status]

(* The server takes the pack and changes the branch. *)
ServerAccepts(c) ==
    /\ At(c, "send")
    /\ remote = OldOf(job[c])
    /\ remote' = job[c].new
    /\ held' = held \cup job[c].pack
    /\ was' = was \cup {job[c].new}
    /\ Goto(c, Reply(job[c], "ok"))
    /\ UNCHANGED <<local, objects>>

(* The branch is no longer what was discovered. *)
ServerRejects(c) ==
    /\ At(c, "send")
    /\ remote # OldOf(job[c])
    /\ Goto(c, Reply(job[c], "ng"))
    /\ UNCHANGED <<remote, held, was, local, objects>>

RequestLost(c) ==
    /\ At(c, "send")
    /\ Lossy
    /\ Fail(c)
    /\ UNCHANGED <<remote, held, was, local, objects>>

(* Mutant: any report is taken for a success. *)
ReportsAny(lines) == "ok"

(* parse_receive_pack_response, and what push makes of it: the pack was     *)
(* unpacked, and no line on the branch says that it was refused.            *)
Reports(lines) == IF "ng" \in lines THEN "failed" ELSE "ok"

PushReport(c) ==
    /\ At(c, "reply")
    /\ Goto(c, Idle(Reports({job[c].status}), job[c].new))
    /\ UNCHANGED <<remote, held, was, local, objects>>

(* The report ends after its first line, "unpack ok": it has no line on the *)
(* branch.                                                                  *)
PushReportCut(c) ==
    /\ At(c, "reply")
    /\ Lossy
    /\ Goto(c, [Idle(Reports({}), job[c].new) EXCEPT !.told = FALSE])
    /\ UNCHANGED <<remote, held, was, local, objects>>

(* No response comes, or it ends before the end of its first line. *)
ResponseLost(c) ==
    /\ At(c, "reply")
    /\ Lossy
    /\ Fail(c)
    /\ UNCHANGED <<remote, held, was, local, objects>>

---------------------------------------------------------------------------
CloneStep(c) == CloneDiscover(c) \/ CloneReceive(c) \/ CloneFails(c)

PushStep(c) ==
    \/ PushDiscover(c) \/ PushRead(c) \/ PassOver(c) \/ Collect(c) \/ Pack(c)
    \/ ServerAccepts(c) \/ ServerRejects(c) \/ RequestLost(c)
    \/ PushReport(c) \/ PushReportCut(c) \/ ResponseLost(c)

Next ==
    \E c \in Client :
        \/ \E n \in Name, d \in Data, s \in Stamp : MakeCommit(c, n, d, s)
        \/ \E other \in CommitsMade \cap objects[c], s \in Stamp : MakeMerge(c, other, s)
        \/ CloneStep(c)
        \/ PushStep(c)

Spec == Init /\ [][Next]_vars

---------------------------------------------------------------------------
IsFile(o) == o \in {Chunk(d) : d \in Data}

IsTree(o) ==
    /\ o.type = "tree"
    /\ o.entries = [n \in DOMAIN o.entries |-> o.entries[n]]
    /\ \A n \in DOMAIN o.entries : IsFile(o.entries[n])

IsCommit(o) ==
    /\ o # None
    /\ o.type = "commit"
    /\ IsTree(o.tree)
    /\ o.parents \in Seq(Range(o.parents))
    /\ \A p \in Range(o.parents) : p.type = "commit"

IsObject(o) == IsFile(o) \/ IsTree(o) \/ IsCommit(o)

IsTip(o) == o = None \/ IsCommit(o)

JobOK(j) ==
    \/ j.pc = "idle" /\ j.result \in {"none", "ok", "failed"} /\ IsTip(j.new)
                     /\ j.told \in BOOLEAN
    \/ j.pc = "clone" /\ IsCommit(j.want)
    \/ j.pc = "read" /\ IsTip(j.old)
    \/ /\ j.pc = "collect"
       /\ IsTip(j.old) /\ IsCommit(j.new)
       /\ j.queue \in Seq(Range(j.queue))
       /\ \A o \in Range(j.queue) : IsCommit(o)
       /\ j.seen \subseteq j.pack
    \/ j.pc = "send" /\ IsTip(j.old) /\ IsCommit(j.new)
    \/ j.pc = "reply" /\ IsCommit(j.new) /\ j.status \in {"ok", "ng"}

(* Type invariant: what is stored, sent and named is made of well-formed objects. *)
TypeOK ==
    /\ IsTip(remote)
    /\ \A o \in held : IsObject(o)
    /\ local = [c \in Client |-> local[c]]
    /\ objects = [c \in Client |-> objects[c]]
    /\ job = [c \in Client |-> job[c]]
    /\ \A c \in Client : /\ IsTip(local[c])
                         /\ \A o \in objects[c] : IsObject(o)
                         /\ JobOK(job[c])

(* A history is whole in a store that has all that its objects name. *)
Whole(store, tip) ==
    /\ tip # None => tip \in store
    /\ \A o \in store : Deps(o) \subseteq store

(* Nothing is missing: whatever is lost and whoever else pushes in between, *)
(* the server's branch has its whole history on the server, and so has each *)
(* repository's.  collect_objects leaves out only what the server has.      *)
HistoryWhole ==
    /\ Whole(held, remote)
    /\ \A c \in Client : Whole(objects[c], local[c])

(* A push that reports success has put its commit on the server's branch,   *)
(* or found it there: unless the report ended after "unpack ok", which is a *)
(* success also when the server has refused the branch.                     *)
SuccessIsTrue ==
    \A c \in Client : Quiet(c) /\ job[c].result = "ok" /\ job[c].told => job[c].new \in was

(* A push changes the branch only from the commit it has discovered, to     *)
(* what its own branch was since: a push that comes in between is not lost. *)
ReplacesDiscovered ==
    [][remote' # remote => \E c \in Client : /\ At(c, "send")
                                            /\ remote = job[c].old
                                            /\ remote' \in objects[c]]_vars

Ancestors(c) == AncestorsWithin(c, MaxCommits, {})

(* Commits are not lost: the server's branch only ever gains some.  The code *)
(* does not compare what it has discovered with what it is about to push,   *)
(* so a push from a repository that does not have the server's commits, or  *)
(* has not moved since, takes them off the branch.                          *)
RemoteAdvances == [][remote # None => remote \in Ancestors(remote')]_vars
=============================================================================
