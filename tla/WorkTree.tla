------------------------------ MODULE WorkTree ------------------------------
(***************************************************************************)
(* The working tree: files edited by the user, staged by flux add,         *)
(* committed by flux commit and written back by Checkout, one entry of the *)
(* target tree at a time.  FluxRepo has the interleavings of the commands  *)
(* and leaves the files out; here one command runs at a time and the files *)
(* are there, with what flux writes into them.                             *)
(*                                                                         *)
(*   algo     the repository's hash: "sha256" after init, "sha1" in a clone *)
(*   store    the ids of the stored objects                                *)
(*   tips     branch -> the tree of its commit, or Unborn                  *)
(*   commits  the trees of all commits: what a checkout by id may name     *)
(*   head     the branch HEAD names                                        *)
(*   staged   path -> blob id: the table staging_area of the index         *)
(*   work     path -> file or directory                                    *)
(*   run      the checkout under way, or how the last command ended: the    *)
(*            chunks an add could not write                                 *)
(*                                                                         *)
(* A file's contents are a sequence of pieces, each of which the chunker   *)
(* makes one chunk.  An id is what it is the hash of: the bytes of a file  *)
(* or chunk, of a chunk list (Blob::serialize) or of a tree.               *)
(***************************************************************************)
EXTENDS Naturals, Sequences, FiniteSets, SequencesExt, Functions

CONSTANTS
    Order,         \* the names, in the order trees list them
    Branch, Main,
    Unborn,        \* the branch has no commit
    Contents,      \* what the user writes into files: sequences of pieces
    Clones,        \* the trees of the commits of a repository one may clone
    Paths,         \* where the user makes files
    MaxDepth,      \* bound: length of the paths looked at in trees
    MaxCommits,    \* bound: trees committed
    MaxObjects     \* bound: objects stored before an add

VARIABLES algo, store, tips, commits, head, staged, work, run

repo == <<algo, store, tips, commits, head>>

wtvars == <<algo, store, tips, commits, head, staged, work, run>>

---------------------------------------------------------------------------
(* Bytes, which are also the ids of the objects that hold them. *)
Raw(content) == [form |-> "raw", parts |-> content]

ChunkList(chunks) == [form |-> "chunks", parts |-> chunks]

TreeOf(entries) == [form |-> "tree", parts |-> entries]

(* Mutant: equal chunks are listed once. *)
ChunksDistinct(bytes) ==
    IF algo = "sha1" \/ bytes.form # "raw" THEN <<bytes>>
    ELSE SetToSeq({Raw(<<p>>) : p \in Range(bytes.parts)})

(* Blob::from_data.  What flux wrote into a file by mistake is one piece. *)
Chunks(bytes) ==
    IF algo = "sha1" \/ bytes.form # "raw" THEN <<bytes>>
    ELSE [i \in DOMAIN bytes.parts |-> Raw(<<bytes.parts[i]>>)]

(* The file a blob stands for: its chunks, one after the other; or, for a  *)
(* blob that came from Git, the blob itself.                                *)
FileOf(id) ==
    CASE id.form # "chunks" -> id
      [] Len(id.parts) = 1 -> id.parts[1]
      [] OTHER -> Raw(FlattenSeq([i \in DOMAIN id.parts |-> id.parts[i].parts]))

(* What materialize_tree writes for an object.  A Git blob is written as   *)
(* it is.  Of a chunk list only the ids and sizes are read, so its chunks  *)
(* have no data to reconstruct; a list of no chunk is too short to be taken *)
(* for one and is written out itself.                                       *)
Written(id) ==
    IF algo = "sha256" /\ id.form = "chunks" /\ id.parts # <<>> THEN Raw(<<>>) ELSE id

---------------------------------------------------------------------------
(* A table with one more entry, or another one. *)
With(table, at, entry) ==
    [x \in DOMAIN table \cup {at} |-> IF x = at THEN entry ELSE table[x]]

IsDirectory(p) == p = <<>> \/ (p \in DOMAIN work /\ work[p].kind = "directory")

IsLocked(p) == p # <<>> /\ IsDirectory(p) /\ work[p].locked

IsFile(p) == p \in DOMAIN work /\ work[p].kind = "file"

(* What p is in can be reached and written to. *)
Accessible(p) ==
    \A k \in 0..(Len(p) - 1) : IsDirectory(SubSeq(p, 1, k)) /\ ~IsLocked(SubSeq(p, 1, k))

FileNode(bytes) == [kind |-> "file", bytes |-> bytes]

Directory(locked) == [kind |-> "directory", locked |-> locked]

TreePaths == BoundedSeq(Range(Order), MaxDepth)

(* What a tree holds at a path: an entry, a mode and an id. *)
Root(tree) == [mode |-> "directory", id |-> TreeOf(tree)]

NoEntry == [mode |-> "absent"]

Child(entry, n) ==
    IF entry.mode = "directory" /\ n \in DOMAIN entry.id.parts THEN entry.id.parts[n] ELSE NoEntry

Along(tree, p) ==
    LET entry[k \in 0..Len(p)] == IF k = 0 THEN Root(tree) ELSE Child(entry[k - 1], p[k])
    IN  entry

EntryAt(tree, p) == Along(tree, p)[Len(p)]

ObjectsOf(tree) == {e.id : e \in {EntryAt(tree, p) : p \in TreePaths} \ {NoEntry}}

IsObject(o) ==
    /\ o = [form |-> o.form, parts |-> o.parts]
    /\ o.form \in {"raw", "chunks", "tree"}
    /\ o.form = "raw" => o.parts \in Seq(Range(o.parts))

ASSUME WorkTreeAssumption ==
    /\ Main \in Branch
    /\ {MaxDepth, MaxCommits, MaxObjects} \subseteq Nat
    /\ Order \in Seq(Range(Order))
    /\ Paths \subseteq Seq(Range(Order)) \ {<<>>}
    /\ \A content \in Contents : content \in Seq(Range(content))
    /\ \A c \in Clones : DOMAIN c = Branch /\
           \A b \in Branch : \A o \in ObjectsOf(c[b]) : IsObject(o)

---------------------------------------------------------------------------
Idle == [pc |-> "idle", unwritten |-> {}]

Busy == run.pc = "busy"

(* The start of a call of materialize_tree: the entries still to be done,   *)
(* by their places in the order of the names.                              *)
Call(at, tree) ==
    [path |-> at, tree |-> tree, left |-> {i \in DOMAIN Order : Order[i] \in DOMAIN tree}]

(* Mutant: the tree is not known to be readable. *)
BegunUnread(tree) == [pc |-> "busy", tree |-> tree, calls |-> <<Call(<<>>, tree)>>]

(* Checkout::checkout_commit: an unreadable tree ends it at once. *)
Begun(tree) ==
    IF TreeOf(tree) \in store
    THEN [pc |-> "busy", tree |-> tree, calls |-> <<Call(<<>>, tree)>>]
    ELSE [pc |-> "failed"]

WorkTreeInit ==
    /\ head = Main
    /\ staged = <<>>
    /\ work = <<>>
    /\ \/ /\ algo = "sha256"
          /\ store = {}
          /\ tips = [b \in Branch |-> Unborn]
          /\ commits = {}
          /\ run = Idle
       \/ /\ algo = "sha1"
          /\ tips \in Clones
          /\ commits = Range(tips)
          /\ \E lost \in {{}} \cup {{o} : o \in UNION {ObjectsOf(t) : t \in commits}} :
               store = UNION {ObjectsOf(t) : t \in commits} \ lost
          /\ run = Begun(tips[Main])

---------------------------------------------------------------------------
(* The user, between commands. *)
EditFile(p, content) ==
    /\ ~Busy
    /\ Accessible(p) /\ ~IsDirectory(p)
    /\ work' = With(work, p, FileNode(Raw(content)))
    /\ run' = Idle
    /\ UNCHANGED <<repo, staged>>

MakeDirectory(p) ==
    /\ ~Busy
    /\ Accessible(p) /\ p \notin DOMAIN work
    /\ work' = With(work, p, Directory(FALSE))
    /\ run' = Idle
    /\ UNCHANGED <<repo, staged>>

Delete(p) ==
    /\ ~Busy
    /\ p \in DOMAIN work /\ Accessible(p)
    /\ \A q \in DOMAIN work : IsPrefix(p, q) => ~IsLocked(q)
    /\ work' = Restrict(work, {q \in DOMAIN work : ~IsPrefix(p, q)})
    /\ run' = Idle
    /\ UNCHANGED <<repo, staged>>

---------------------------------------------------------------------------
(* flux add p: its chunks, the list of them, the row of the index.  A      *)
(* chunk that cannot be written is reported and passed over; nothing is    *)
(* staged if the list cannot be written, or the row.  A path that is a     *)
(* directory ends the command with an exception.                           *)
Add(p) ==
    /\ ~Busy
    /\ IsFile(p) /\ Accessible(p)
    /\ Cardinality(store) < MaxObjects
    /\ LET chunks == Chunks(work[p].bytes)
           list   == ChunkList(chunks)
       IN  \E written \in SUBSET (Range(chunks) \cup {list}) :
             /\ store' = store \cup written
             /\ \/ list \in store' /\ staged' = With(staged, p, list)
                \/ UNCHANGED staged
             /\ run' = [Idle EXCEPT !.unwritten = Range(chunks) \ store']
    /\ UNCHANGED <<algo, tips, commits, head, work>>

(* The entries a commit starts from: those of the branch, if its tree can  *)
(* be read.                                                                *)
BaseEntries ==
    IF tips[head] # Unborn /\ TreeOf(tips[head]) \in store THEN tips[head] ELSE <<>>

(* flux commit.  Every entry becomes a regular file, a directory's too;    *)
(* a staged path gives its file name, and two paths with one file name     *)
(* come in the order the index returns them.                               *)
Commit ==
    /\ ~Busy
    /\ staged # <<>>
    /\ \E source \in [{Last(p) : p \in DOMAIN staged} -> DOMAIN staged] :
         /\ \A n \in DOMAIN source : Last(source[n]) = n
         /\ LET names == DOMAIN BaseEntries \cup DOMAIN source
                tree == [n \in names |->
                            [mode |-> "regular",
                             id |-> IF n \in DOMAIN source THEN staged[source[n]]
                                    ELSE BaseEntries[n].id]]
            IN  /\ Cardinality(commits \cup {tree}) <= MaxCommits
                /\ commits' = commits \cup {tree}
                /\ tips' = [tips EXCEPT ![head] = tree]
                /\ store' = store \cup {TreeOf(tree)}
    /\ staged' = <<>>
    /\ run' = Idle
    /\ UNCHANGED <<algo, head, work>>

---------------------------------------------------------------------------
(* Checkout::checkout_branch: HEAD is moved first. *)
CheckoutBranch(b) ==
    /\ ~Busy
    /\ tips[b] # Unborn
    /\ head' = b
    /\ run' = Begun(tips[b])
    /\ UNCHANGED <<algo, store, tips, commits, staged, work>>

(* flux checkout <commit id>: HEAD stays. *)
CheckoutCommit(tree) ==
    /\ ~Busy
    /\ run' = Begun(tree)
    /\ UNCHANGED <<repo, staged, work>>

(* The call under way, the entry its loop is at, and that entry's path. *)
This == Head(run.calls)

EntryName == Order[Min(This.left)]

Entry == This.tree[EntryName]

Path == Append(This.path, EntryName)

(* The calls when the loop has moved on. *)
Onward == <<[This EXCEPT !.left = @ \ {Min(@)}]>> \o Tail(run.calls)

Passed == [run EXCEPT !.calls = Onward]

Aborted == [pc |-> "aborted", tree |-> run.tree]

(* Mutant: a directory that is already there is an error. *)
CanEnterNew(p) == Accessible(p) /\ p \notin DOMAIN work

(* create_directories throws when something else has the name, and when    *)
(* the name is out of reach.                                                *)
CanEnter(p) == Accessible(p) /\ (IsDirectory(p) \/ p \notin DOMAIN work)

(* One directory.  Where its tree cannot be read it is passed over. *)
EnterDirectory ==
    /\ Busy /\ This.left # {} /\ Entry.mode = "directory"
    /\ CASE Entry.id \notin store -> run' = Passed /\ UNCHANGED work
         [] Entry.id \in store /\ ~CanEnter(Path) -> run' = Aborted /\ UNCHANGED work
         [] Entry.id \in store /\ CanEnter(Path) ->
              /\ run' = [run EXCEPT !.calls = <<Call(Path, Entry.id.parts)>> \o Onward]
              /\ work' = IF IsDirectory(Path) THEN work ELSE With(work, Path, Directory(FALSE))
    /\ UNCHANGED <<repo, staged>>

(* The loop over the entries of a directory is over. *)
LeaveDirectory ==
    /\ Busy /\ This.left = {}
    /\ run' = IF Len(run.calls) = 1 THEN [pc |-> "done", tree |-> run.tree]
              ELSE [run EXCEPT !.calls = Tail(@)]
    /\ UNCHANGED <<repo, staged, work>>

(* Mutant: a file that is there is not written again. *)
OverwrittenNot(p, id) == IF IsFile(p) THEN work ELSE With(work, p, FileNode(Written(id)))

Overwritten(p, id) == With(work, p, FileNode(Written(id)))

(* One file.  An object that cannot be read is passed over.  Nobody looks  *)
(* whether the file could be opened: where a directory has its name, that  *)
(* gets the file's permissions and can no longer be entered; where the     *)
(* file is out of reach, setting its permissions throws.                    *)
WriteFile ==
    /\ Busy /\ This.left # {} /\ Entry.mode # "directory"
    /\ CASE Entry.id \notin store -> run' = Passed /\ UNCHANGED work
         [] Entry.id \in store /\ ~Accessible(Path) -> run' = Aborted /\ UNCHANGED work
         [] Entry.id \in store /\ Accessible(Path) ->
              /\ run' = Passed
              /\ work' = IF IsDirectory(Path) THEN With(work, Path, Directory(TRUE))
                         ELSE Overwritten(Path, Entry.id)
    /\ UNCHANGED <<repo, staged>>

(* The command is killed; a file it was writing is there and empty. *)
CheckoutCrash ==
    /\ Busy
    /\ run' = [pc |-> "killed"]
    /\ \/ UNCHANGED work
       \/ /\ This.left # {} /\ Entry.mode # "directory" /\ Entry.id \in store
          /\ Accessible(Path) /\ ~IsDirectory(Path)
          /\ work' = With(work, Path, FileNode(Raw(<<>>)))
    /\ UNCHANGED <<repo, staged>>

User ==
    \/ \E p \in Paths, c \in Contents : EditFile(p, c)
    \/ \E p \in {Front(q) : q \in Paths} : p # <<>> /\ MakeDirectory(p)
    \/ \E p \in DOMAIN work : Delete(p)

WorkTreeNext ==
    \/ User
    \/ \E p \in DOMAIN work : Add(p)
    \/ Commit
    \/ \E b \in Branch : CheckoutBranch(b)
    \/ \E tree \in commits : CheckoutCommit(tree)
    \/ EnterDirectory
    \/ LeaveDirectory
    \/ WriteFile
    \/ CheckoutCrash

WorkTreeSpec == WorkTreeInit /\ [][WorkTreeNext]_wtvars

---------------------------------------------------------------------------
WorkTreeTypeOK ==
    /\ algo \in {"sha1", "sha256"}
    /\ \A o \in store : IsObject(o)
    /\ \A b \in Branch : tips[b] = Unborn \/ tips[b] \in commits
    /\ head \in Branch
    /\ \A p \in DOMAIN staged : staged[p].form = "chunks"
    /\ \A p \in DOMAIN work : p # <<>> /\ IsDirectory(Front(p))
    /\ run.pc \in {"idle", "busy", "done", "aborted", "killed", "failed"}
    /\ Busy => run.calls # <<>> /\ TreeOf(run.tree) \in store

(* The directories that lead to p can be read; so can what is at p, which  *)
(* is a file or a directory.                                               *)
LedTo(tree, p) ==
    \A k \in 0..(Len(p) - 1) :
        LET above == EntryAt(tree, SubSeq(p, 1, k)) IN above.mode = "directory" /\ above.id \in store

HasFile(tree, p) ==
    LET e == EntryAt(tree, p)
    IN  LedTo(tree, p) /\ e.mode \notin {"directory", "absent"} /\ e.id \in store

HasDirectory(tree, p) ==
    LET e == EntryAt(tree, p) IN LedTo(tree, p) /\ e.mode = "directory" /\ e.id \in store

(* At p is what flux writes for the tree's file. *)
AsWritten(tree, p) == IsFile(p) /\ work[p].bytes = Written(EntryAt(tree, p).id)

(* A checkout that ends leaves every file of the tree as flux writes it,   *)
(* save objects that are missing and names a directory holds, whatever     *)
(* edits, killed checkouts and checkouts of other trees went before.        *)
(* (fetch.cpp, materialize_tree)                                           *)
CheckoutComplete ==
    run.pc = "done" =>
        \A p \in TreePaths : HasFile(run.tree, p) => IsDirectory(p) \/ AsWritten(run.tree, p)

(* A checkout is cut short by an exception only where a file has the name  *)
(* of one of the tree's directories, or one of them was locked by an        *)
(* earlier checkout that had a file in its place.                           *)
AbortExplained ==
    run.pc = "aborted" =>
        \E p \in DOMAIN work : HasDirectory(run.tree, p) /\ (IsFile(p) \/ IsLocked(p))

(* What flux add stages is the file as it was read, in a blob that is      *)
(* stored; and its chunks are, save those it has reported it could not     *)
(* write: it stages the file all the same.                                  *)
(* (add.cpp, Blob::from_data, Blob::serialize)                              *)
StagesWhatItRead ==
    [][\A p \in DOMAIN staged' :
           (p \in DOMAIN staged => staged[p] # staged'[p]) =>
           /\ IsFile(p) /\ FileOf(staged'[p]) = work[p].bytes
           /\ staged'[p] \in store'
           /\ Range(staged'[p].parts) \subseteq store' \cup run'.unwritten]_wtvars

=============================================================================
