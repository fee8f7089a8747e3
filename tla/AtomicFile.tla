----------------------------- MODULE AtomicFile -----------------------------
(***************************************************************************)
(* One file written by Filesystem::write_file and read by read_file, on a  *)
(* POSIX file system.  A write opens <path>.tmp, truncating it, writes the *)
(* data, closes, and renames <path>.tmp to <path>.  The temporary name is  *)
(* the same for every process, so two writers may have the same inode open. *)
(* The Zig port writes the file in place (Temp = "file").                  *)
(*                                                                         *)
(*   name     the directory: file and its temporary -> inode, or NoInode   *)
(*   content  inode -> the cells written to it                             *)
(*   writer   write_file in progress, with its data and its open inode     *)
(*   reader   read_file in progress, with its open inode and its size      *)
(*   got      what each reader's last successful read_file returned        *)
(*                                                                         *)
(* Data d is a write of Size[d] cells, each holding d: enough to tell a    *)
(* whole write from a truncated one and from a mix of two.                 *)
(***************************************************************************)
EXTENDS Naturals, Sequences

CONSTANTS
    Writer, Reader,
    Data,
    Size,        \* Data -> number of cells
    Buffer,      \* cells the stream keeps until close: their loss goes unseen
    Inode, NoInode,
    Nothing,     \* no read has returned yet
    Temp,        \* "tmp": write a temporary and rename; "file": in place
    DiskFull     \* BOOLEAN: may the disk fill up?

ASSUME FileAssumption ==
    /\ Size \in [Data -> Nat \ {0}]
    /\ Buffer \in Nat
    /\ NoInode \notin Inode
    /\ Temp \in {"tmp", "file"}
    /\ DiskFull \in BOOLEAN

VARIABLES name, content, writer, reader, got

vars == <<name, content, writer, reader, got>>

---------------------------------------------------------------------------
Whole(d) == [i \in 1..Size[d] |-> d]

ASSUME NothingAssumption == Nothing \notin {Whole(d) : d \in Data}

Idle == [pc |-> "idle"]

Init ==
    /\ name = [n \in {"file", "tmp"} |-> NoInode]
    /\ content = [i \in Inode |-> <<>>]
    /\ writer = [w \in Writer |-> Idle]
    /\ reader = [r \in Reader |-> Idle]
    /\ got = [r \in Reader |-> Nothing]

(* An inode is free when no name and no open stream refers to it. *)
Open(p) == p.pc # "idle"

Free(i) ==
    /\ i \notin {name["file"], name["tmp"]}
    /\ \A w \in Writer : Open(writer[w]) => writer[w].inode # i
    /\ \A r \in Reader : Open(reader[r]) => reader[r].inode # i

---------------------------------------------------------------------------
(* Mutant: the destination itself is opened for writing. *)
TempNameFile == "file"

TempName == Temp

(* Mutant: the file is opened without truncating it. *)
NotTruncated(cells) == cells

Truncated(cells) == <<>>

(* std::ofstream file(temp_path): created, or truncated if it is there. *)
WriteOpen(w, d) ==
    /\ ~Open(writer[w])
    /\ \E i \in Inode :
         /\ IF name[TempName] = NoInode THEN Free(i) ELSE i = name[TempName]
         /\ name' = [name EXCEPT ![TempName] = i]
         /\ content' = [content EXCEPT ![i] = Truncated(@)]
         /\ writer' = [writer EXCEPT ![w] = [pc |-> "data", data |-> d, inode |-> i]]
    /\ UNCHANGED <<reader, got>>

(* The first k cells of d, written over the start of what is there. *)
Overwritten(old, d, k) ==
    [i \in 1..(IF k > Len(old) THEN k ELSE Len(old)) |-> IF i <= k THEN d ELSE old[i]]

(* The bytes reach the inode: in file.write, or in file.close. *)
WriteData(w) ==
    /\ writer[w].pc = "data"
    /\ content' = [content EXCEPT ![writer[w].inode] =
                      Overwritten(@, writer[w].data, Size[writer[w].data])]
    /\ writer' = [writer EXCEPT ![w].pc = "rename"]
    /\ UNCHANGED <<name, reader, got>>

(* The disk is full before they all do.  file.write reports it, unless the  *)
(* stream still held them: then file.close does, and nobody asks it.        *)
WriteFails(w) ==
    /\ DiskFull
    /\ writer[w].pc = "data"
    /\ \E k \in 0..(Size[writer[w].data] - 1) :
         content' = [content EXCEPT ![writer[w].inode] = Overwritten(@, writer[w].data, k)]
    /\ writer' = [writer EXCEPT ![w] =
                     IF Size[writer[w].data] <= Buffer THEN [@ EXCEPT !.pc = "rename"] ELSE Idle]
    /\ UNCHANGED <<name, reader, got>>

(* rename(temp_path, path): an error if another writer has renamed it.     *)
WriteRename(w) ==
    /\ writer[w].pc = "rename"
    /\ name' = IF TempName = "file" \/ name["tmp"] = NoInode THEN name
               ELSE [n \in {"file", "tmp"} |-> IF n = "file" THEN name["tmp"] ELSE NoInode]
    /\ writer' = [writer EXCEPT ![w] = Idle]
    /\ UNCHANGED <<content, reader, got>>

(* The writing process dies; the temporary file stays. *)
Crash(w) ==
    /\ Open(writer[w])
    /\ writer' = [writer EXCEPT ![w] = Idle]
    /\ UNCHANGED <<name, content, reader, got>>

---------------------------------------------------------------------------
Prefix(s, k) == [i \in 1..k |-> s[i]]

(* read_file: open, take the size, then read that many bytes. *)
ReadOpen(r) ==
    /\ ~Open(reader[r])
    /\ name["file"] # NoInode
    /\ reader' = [reader EXCEPT ![r] =
                     [pc |-> "read", inode |-> name["file"], size |-> Len(content[name["file"]])]]
    /\ UNCHANGED <<name, content, writer, got>>

ReadData(r) ==
    /\ Open(reader[r])
    /\ got' = IF reader[r].size > Len(content[reader[r].inode]) THEN got
              ELSE [got EXCEPT ![r] = Prefix(content[reader[r].inode], reader[r].size)]
    /\ reader' = [reader EXCEPT ![r] = Idle]
    /\ UNCHANGED <<name, content, writer>>

---------------------------------------------------------------------------
Next ==
    \/ \E w \in Writer :
         \/ \E d \in Data : WriteOpen(w, d)
         \/ WriteData(w) \/ WriteFails(w) \/ WriteRename(w) \/ Crash(w)
    \/ \E r \in Reader : ReadOpen(r) \/ ReadData(r)

Spec == Init /\ [][Next]_vars

---------------------------------------------------------------------------
(* A read returns what one write wrote, all of it. *)
ReadsWhole == \A r \in Reader : got[r] \in {Nothing} \cup {Whole(d) : d \in Data}

(***************************************************************************)
(* Why one writer is safe: its temporary is nobody else's.  The inode of   *)
(* the temporary is not the file's and no reader has it open; the file's,  *)
(* and those readers have open, are whole; the temporary is empty until    *)
(* the data is written and whole when it is renamed.                       *)
(***************************************************************************)
IsWhole(i) == \E d \in Data : content[i] = Whole(d)

WriterOK(w) ==
    \/ writer[w] = Idle
    \/ /\ writer[w] = [pc |-> "data", data |-> writer[w].data, inode |-> name["tmp"]]
       /\ name["tmp"] \in Inode
       /\ writer[w].data \in Data
       /\ content[name["tmp"]] = <<>>
    \/ /\ writer[w] = [pc |-> "rename", data |-> writer[w].data, inode |-> name["tmp"]]
       /\ name["tmp"] \in Inode
       /\ writer[w].data \in Data
       /\ IsWhole(name["tmp"])

ReaderOK(r) ==
    \/ reader[r] = Idle
    \/ /\ reader[r] = [pc |-> "read", inode |-> reader[r].inode, size |-> Len(content[reader[r].inode])]
       /\ reader[r].inode \in Inode \ {name["tmp"]}
       /\ IsWhole(reader[r].inode)

PrivateTemp ==
    /\ name = [n \in {"file", "tmp"} |-> name[n]]
    /\ content = [i \in Inode |-> content[i]]
    /\ writer = [w \in Writer |-> writer[w]]
    /\ reader = [r \in Reader |-> reader[r]]
    /\ name["tmp"] \in Inode \cup {NoInode}
    /\ name["file"] # NoInode => name["file"] \in Inode \ {name["tmp"]} /\ IsWhole(name["file"])
    /\ \A w \in Writer : WriterOK(w)
    /\ \A r \in Reader : ReaderOK(r)

(* Seen by its readers, the file is a register written at the rename. *)
Register == INSTANCE AtomicRegister WITH
    Value   <- {Whole(d) : d \in Data},
    value   <- IF name["file"] = NoInode THEN Nothing ELSE content[name["file"]],
    reading <- [r \in Reader |->
                  IF Open(reader[r]) THEN Prefix(content[reader[r].inode], reader[r].size)
                  ELSE Nothing]

(* One writer at a time, crashing anywhere, implements an atomic register. *)
ImplementsRegister == Register!Spec
=============================================================================
