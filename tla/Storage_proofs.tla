--------------------------- MODULE Storage_proofs ---------------------------
(***************************************************************************)
(* What keeps data on the disk: a file written whole, the write-ahead log, *)
(* the configuration of a repository, Flux's pack files, and the cache of  *)
(* objects in front of them.  The modules share no state, and each is      *)
(* proved about under its own specification; the specification of them     *)
(* together implements each of these, so what is proved holds of it too.   *)
(***************************************************************************)
EXTENDS MCStorage, SequenceTheorems, FiniteSetTheorems, TLAPS

---------------------------------------------------------------------------
(***************************************************************************)
(* With one writer at a time, which may crash, a write_file that opens a   *)
(* temporary, reports every failed write and renames implements an atomic  *)
(* register for any readers, any data and any number of inodes.            *)
(***************************************************************************)

(* No two writers; rename, not in place; a full disk is always noticed. *)
Serial ==
    /\ \A v, w \in Writer : v = w
    /\ Temp = "tmp"
    /\ DiskFull => Buffer = 0

(* Writing over an empty file leaves the data, and only it. *)
LEMMA OverwriteEmpty ==
    ASSUME NEW d \in Data
    PROVE  Overwritten(<<>>, d, Size[d]) = Whole(d)
<1>1. Len(<<>>) = 0 /\ Size[d] \in Nat /\ Size[d] > 0
  BY FileAssumption
<1> QED
  BY <1>1 DEF Overwritten, Whole

(* A whole file read up to its size is read whole. *)
LEMMA PrefixWhole ==
    ASSUME NEW d \in Data
    PROVE  Prefix(Whole(d), Len(Whole(d))) = Whole(d)
<1>1. Whole(d) \in Seq(Data) /\ Len(Whole(d)) = Size[d]
  BY FileAssumption DEF Whole
<1> QED
  BY <1>1 DEF Whole, Prefix

LEMMA InitPrivate == Init => PrivateTemp
  BY FileAssumption DEF Init, PrivateTemp, WriterOK, ReaderOK

LEMMA StepPrivate ==
    ASSUME Serial, PrivateTemp, [Next]_vars
    PROVE  PrivateTemp'
<1> USE FileAssumption
<1>1. CASE UNCHANGED vars
  BY <1>1, Zenon DEF vars, PrivateTemp, WriterOK, ReaderOK, IsWhole
<1>2. ASSUME NEW w \in Writer, NEW d \in Data, WriteOpen(w, d) PROVE PrivateTemp'
  <2>1. PICK i \in Inode :
            /\ IF name["tmp"] = NoInode THEN Free(i) ELSE i = name["tmp"]
            /\ name' = [name EXCEPT !["tmp"] = i]
            /\ content' = [content EXCEPT ![i] = <<>>]
            /\ writer' = [writer EXCEPT ![w] = [pc |-> "data", data |-> d, inode |-> i]]
    BY <1>2 DEF WriteOpen, TempName, Truncated, Serial
  <2>2. name'["tmp"] = i /\ name'["file"] = name["file"] /\ i # name["file"]
    BY <2>1 DEF PrivateTemp, Free
  <2>3. content'[i] = <<>> /\ \A k \in Inode \ {i} : content'[k] = content[k]
    BY <2>1 DEF PrivateTemp
  <2>4. ASSUME NEW r \in Reader PROVE ReaderOK(r)'
    <3>1. CASE reader[r] = Idle
      BY <1>2, <3>1 DEF WriteOpen, ReaderOK
    <3>2. CASE reader[r] # Idle
      <4>1. Open(reader[r]) /\ reader[r].inode \in Inode \ {i} /\ IsWhole(reader[r].inode)
        BY <2>1, <3>2 DEF PrivateTemp, ReaderOK, Open, Free
      <4>2. content'[reader[r].inode] = content[reader[r].inode] /\ reader' = reader
        BY <1>2, <2>3, <4>1 DEF WriteOpen
      <4> QED
        BY <2>2, <3>2, <4>1, <4>2 DEF PrivateTemp, ReaderOK, IsWhole
    <3> QED
      BY <3>1, <3>2
  <2>5. ASSUME NEW v \in Writer PROVE WriterOK(v)'
    BY <2>1, <2>2, <2>3 DEF Serial, WriterOK, PrivateTemp
  <2>6. name'["file"] # NoInode => name'["file"] \in Inode \ {name'["tmp"]} /\ IsWhole(name["file"])'
    BY <2>2, <2>3 DEF PrivateTemp, IsWhole
  <2> QED
    BY <1>2, <2>1, <2>2, <2>4, <2>5, <2>6 DEF PrivateTemp, WriteOpen
<1>3. ASSUME NEW w \in Writer, WriteData(w) \/ WriteFails(w) PROVE PrivateTemp'
  <2> DEFINE i == name["tmp"]
  <2>1. /\ writer[w].pc = "data" /\ writer[w].inode = i /\ i \in Inode
        /\ writer[w].data \in Data /\ content[i] = <<>>
    BY <1>3 DEF WriteData, WriteFails, PrivateTemp, WriterOK, Idle
  <2>2. UNCHANGED <<name, reader>>
    BY <1>3 DEF WriteData, WriteFails
  <2>3. /\ content' = [k \in Inode |-> content'[k]]
        /\ \A k \in Inode \ {i} : content'[k] = content[k]
    BY <1>3, <2>1 DEF WriteData, WriteFails, PrivateTemp
  <2>4. ASSUME NEW r \in Reader PROVE ReaderOK(r)'
    BY <2>2, <2>3 DEF PrivateTemp, ReaderOK, IsWhole
  <2>5. ASSUME NEW v \in Writer PROVE WriterOK(v)'
    <3>1. v = w
      BY DEF Serial
    <3>2. CASE WriteData(w)
      <4>1. content'[i] = Whole(writer[w].data)
        BY <2>1, <3>2, OverwriteEmpty DEF WriteData, PrivateTemp
      <4>2. writer'[w] = [pc |-> "rename", data |-> writer[w].data, inode |-> i]
        BY <2>1, <3>2 DEF WriteData, PrivateTemp, WriterOK, Idle
      <4> QED
        BY <2>1, <2>2, <3>1, <4>1, <4>2 DEF WriterOK, IsWhole
    <3>3. CASE WriteFails(w)
      <4>1. ~(Size[writer[w].data] <= Buffer)
        BY <2>1, <3>3 DEF WriteFails, Serial
      <4>2. writer'[w] = Idle
        BY <3>3, <4>1 DEF WriteFails, PrivateTemp
      <4> QED
        BY <3>1, <4>2 DEF WriterOK
    <3> QED
      BY <1>3, <3>2, <3>3
  <2>6. name["file"] # NoInode => IsWhole(name["file"])'
    BY <2>2, <2>3 DEF PrivateTemp, IsWhole
  <2>7. writer' = [v \in Writer |-> writer'[v]]
    BY <1>3 DEF WriteData, WriteFails, PrivateTemp
  <2> QED
    BY <2>2, <2>3, <2>4, <2>5, <2>6, <2>7 DEF PrivateTemp
<1>4. ASSUME NEW w \in Writer, WriteRename(w) PROVE PrivateTemp'
  <2>1. writer[w].inode = name["tmp"] /\ name["tmp"] \in Inode /\ IsWhole(name["tmp"])
    BY <1>4 DEF WriteRename, PrivateTemp, WriterOK, Idle
  <2>2. /\ name' = [n \in {"file", "tmp"} |-> IF n = "file" THEN name["tmp"] ELSE NoInode]
        /\ writer' = [writer EXCEPT ![w] = Idle]
        /\ UNCHANGED <<content, reader>>
    BY <1>4, <2>1 DEF WriteRename, TempName, Serial
  <2>3. name'["file"] = name["tmp"] /\ name'["tmp"] = NoInode
    BY <2>2
  <2>4. \A r \in Reader : ReaderOK(r)'
    BY <2>2, <2>3 DEF PrivateTemp, ReaderOK, IsWhole
  <2>5. \A v \in Writer : WriterOK(v)'
    BY <2>2 DEF Serial, WriterOK, PrivateTemp
  <2> QED
    BY <2>1, <2>2, <2>3, <2>4, <2>5 DEF PrivateTemp, IsWhole
<1>5. ASSUME NEW w \in Writer, Crash(w) PROVE PrivateTemp'
  BY <1>5 DEF Crash, PrivateTemp, WriterOK, ReaderOK, IsWhole, Serial
<1>6. ASSUME NEW r \in Reader, ReadOpen(r) PROVE PrivateTemp'
  BY <1>6 DEF ReadOpen, PrivateTemp, WriterOK, ReaderOK, IsWhole
<1>7. ASSUME NEW r \in Reader, ReadData(r) PROVE PrivateTemp'
  BY <1>7 DEF ReadData, PrivateTemp, WriterOK, ReaderOK, IsWhole
<1> QED
  BY <1>1, <1>2, <1>3, <1>4, <1>5, <1>6, <1>7 DEF Next

(* Nobody but the writer has the temporary open, and what readers have open *)
(* is whole.                                                                *)
THEOREM TempIsPrivate ==
    ASSUME Serial
    PROVE  Spec => []PrivateTemp
<1>1. PrivateTemp /\ [Next]_vars => PrivateTemp'
  BY StepPrivate
<1> QED
  BY InitPrivate, <1>1, PTL DEF Spec

---------------------------------------------------------------------------
(* The steps of the register. *)

LEMMA InitRegister == Init => Register!Init
  BY FileAssumption DEF Init, Register!Init, Open, Idle

LEMMA StepRegister ==
    ASSUME Serial, PrivateTemp, [Next]_vars
    PROVE  [Register!Next]_(Register!register)
<1> USE FileAssumption DEF Register!register
<1> DEFINE value == IF name["file"] = NoInode THEN Nothing ELSE content[name["file"]]
           reading(r) == IF Open(reader[r])
                         THEN Prefix(content[reader[r].inode], reader[r].size) ELSE Nothing
<1>1. CASE UNCHANGED vars
  BY <1>1 DEF vars, Open, Prefix
<1>2. ASSUME NEW w \in Writer, NEW d \in Data, WriteOpen(w, d) PROVE UNCHANGED Register!register
  <2>1. PICK i \in Inode :
            /\ IF name["tmp"] = NoInode THEN Free(i) ELSE i = name["tmp"]
            /\ name' = [name EXCEPT !["tmp"] = i]
            /\ content' = [content EXCEPT ![i] = <<>>]
            /\ UNCHANGED <<reader, got>>
    BY <1>2 DEF WriteOpen, TempName, Truncated, Serial
  <2>2. value' = value
    BY <2>1 DEF PrivateTemp, Free
  <2>3. ASSUME NEW r \in Reader PROVE reading(r)' = reading(r)
    BY <2>1 DEF PrivateTemp, ReaderOK, Open, Idle, Free
  <2> QED
    BY <2>1, <2>2, <2>3
<1>3. ASSUME NEW w \in Writer, WriteData(w) \/ WriteFails(w) PROVE UNCHANGED Register!register
  <2>1. writer[w].inode = name["tmp"]
    BY <1>3 DEF WriteData, WriteFails, PrivateTemp, WriterOK, Idle
  <2>2. /\ \A k \in Inode \ {name["tmp"]} : content'[k] = content[k]
        /\ UNCHANGED <<name, reader, got>>
    BY <1>3, <2>1 DEF WriteData, WriteFails, PrivateTemp
  <2>3. value' = value
    BY <2>2 DEF PrivateTemp
  <2>4. ASSUME NEW r \in Reader PROVE reading(r)' = reading(r)
    BY <2>2 DEF PrivateTemp, ReaderOK, Open, Idle
  <2> QED
    BY <2>2, <2>3, <2>4
<1>4. ASSUME NEW w \in Writer, WriteRename(w) PROVE Register!Put
  <2>1. name["tmp"] \in Inode /\ IsWhole(name["tmp"])
    BY <1>4 DEF WriteRename, PrivateTemp, WriterOK, Idle
  <2>2. /\ name' = [n \in {"file", "tmp"} |-> IF n = "file" THEN name["tmp"] ELSE NoInode]
        /\ UNCHANGED <<content, reader, got>>
    BY <1>4, <2>1 DEF WriteRename, TempName, Serial
  <2>3. value' \in {Whole(d) : d \in Data}
    BY <2>1, <2>2 DEF IsWhole
  <2> QED
    BY <2>2, <2>3 DEF Register!Put, Open
<1>5. ASSUME NEW w \in Writer, Crash(w) PROVE UNCHANGED Register!register
  BY <1>5 DEF Crash, Open
<1>6. ASSUME NEW r \in Reader, ReadOpen(r) PROVE Register!BeginGet(r)
  <2> DEFINE i == name["file"]
  <2>1. i \in Inode /\ IsWhole(i)
    BY <1>6 DEF ReadOpen, PrivateTemp
  <2>2. content[i] # Nothing /\ Prefix(content[i], Len(content[i])) = content[i]
    BY <2>1, PrefixWhole, NothingAssumption DEF IsWhole
  <2>3. /\ reader' = [reader EXCEPT ![r] = [pc |-> "read", inode |-> i, size |-> Len(content[i])]]
        /\ UNCHANGED <<name, content, got>> /\ ~Open(reader[r])
    BY <1>6 DEF ReadOpen
  <2> QED
    BY <2>1, <2>2, <2>3 DEF Register!BeginGet, PrivateTemp, Open
<1>7. ASSUME NEW r \in Reader, ReadData(r) PROVE Register!EndGet(r)
  <2> DEFINE i == reader[r].inode
  <2>1. /\ Open(reader[r]) /\ reader[r].size = Len(content[i]) /\ IsWhole(i)
        /\ reader' = [reader EXCEPT ![r] = Idle]
        /\ UNCHANGED <<name, content>>
    BY <1>7 DEF ReadData, PrivateTemp, ReaderOK, Open, Idle
  <2>2. ~(reader[r].size > Len(content[i]))
    BY <2>1 DEF IsWhole, Whole
  <2>3. got' = [got EXCEPT ![r] = Prefix(content[i], reader[r].size)]
    BY <1>7, <2>2 DEF ReadData
  <2>4. Prefix(content[i], reader[r].size) # Nothing
    BY <2>1, PrefixWhole, NothingAssumption DEF IsWhole
  <2>5. ~Open(Idle)
    BY DEF Open, Idle
  <2> DEFINE all == [q \in Reader |-> reading(q)]
  <2>6. all[r] = Prefix(content[i], reader[r].size)
    BY <2>1
  <2>7. all' = [all EXCEPT ![r] = Nothing]
    BY <2>1, <2>5 DEF PrivateTemp
  <2> HIDE DEF i
  <2> QED
    BY <2>1, <2>3, <2>4, <2>6, <2>7 DEF Register!EndGet
<1> QED
  BY <1>1, <1>2, <1>3, <1>4, <1>5, <1>6, <1>7 DEF Next, Register!Next

(* A file with one writer at a time is an atomic register: it takes effect *)
(* at the rename, a crash before it leaves the old value, and a read       *)
(* returns the value the file had when it was opened.                      *)
THEOREM FileIsRegister ==
    ASSUME Serial
    PROVE  Spec => ImplementsRegister
<1>1. PrivateTemp /\ [Next]_vars => [Register!Next]_(Register!register)
  BY StepRegister
<1>2. Spec => []PrivateTemp
  BY TempIsPrivate
<1> QED
  BY InitRegister, <1>1, <1>2, PTL DEF Spec, ImplementsRegister, Register!Spec

---------------------------------------------------------------------------
(***************************************************************************)
(* The write-ahead log.                                                    *)
(***************************************************************************)

(* What a process can be doing; one that has not recovered has nothing open. *)
Calls ==
    {[call |-> c] : c \in {"down", "started", "none"}}
    \cup [call : {"recover"}, todo : SUBSET Nat]
    \cup [call : {"begin", "remove"}, txn : Nat]

Directory == [header : {"none", "active", "committed"}, ops : Seq(Op)]

LogTypes ==
    /\ WalTypeOK
    /\ \A t \in DOMAIN dir : dir[t] \in Directory
    /\ at \in [Process -> Calls]
    /\ DOMAIN open = Process
    /\ \A p \in Process :
        at[p].call \in {"down", "started", "recover"} => DOMAIN open[p] = {}

LEMMA LogTypesInit == WalInit => LogTypes
<1> SUFFICES ASSUME WalInit PROVE LogTypes
  OBVIOUS
<1>1. DOMAIN dir = {} /\ at \in [Process -> Calls] /\ next \in [Process -> 1..(MaxTxn + 1)]
  BY WalAssumption DEF WalInit, Calls
<1>2. DOMAIN open = Process /\ \A p \in Process : DOMAIN open[p] = {} /\ at[p].call = "down"
  BY DEF WalInit
<1> QED
  BY <1>1, <1>2 DEF LogTypes, WalTypeOK

LEMMA LogTypesNext == LogTypes /\ [WalNext]_walvars => LogTypes'
<1> SUFFICES ASSUME LogTypes, WalNext PROVE LogTypes'
  BY DEF walvars, LogTypes, WalTypeOK
<1>p. PICK p \in Process :
        \/ StartWal(p) \/ RecoverList(p) \/ RecoverOne(p)
        \/ BeginDir(p) \/ BeginHeader(p)
        \/ \E t \in DOMAIN open[p] :
            \/ \E op \in Op : LogOp(p, t, op)
            \/ CommitHeader(p, t) \/ RollbackTxn(p, t)
        \/ RemoveDir(p)
        \/ WalCrash(p)
  BY DEF WalNext
<1> DEFINE DirsOK == DOMAIN dir' \subseteq 1..MaxTxn /\ \A t \in DOMAIN dir' : dir'[t] \in Directory
<1>a. /\ DOMAIN dir \subseteq 1..MaxTxn /\ \A t \in DOMAIN dir : dir[t] \in Directory
      /\ next \in [Process -> 1..(MaxTxn + 1)] /\ MaxTxn \in Nat
      /\ at \in [Process -> Calls] /\ DOMAIN open = Process
      /\ \A q \in Process : /\ DOMAIN open[q] \subseteq 1..(next[q] - 1)
                            /\ \A t \in DOMAIN open[q] : open[q][t] \in Seq(Op)
                            /\ at[q].call \in {"begin", "remove"} => at[q].txn \in 1..(next[q] - 1)
                            /\ at[q].call \in {"down", "started", "recover"} => DOMAIN open[q] = {}
  BY WalAssumption DEF LogTypes, WalTypeOK
<1>b. ASSUME DirsOK, at' \in [Process -> Calls], DOMAIN open' = Process,
             next' \in [Process -> 1..(MaxTxn + 1)],
             \A q \in Process \ {p} : at'[q] = at[q] /\ next'[q] = next[q] /\ open'[q] = open[q],
             DOMAIN open'[p] \subseteq 1..(next'[p] - 1),
             \A t \in DOMAIN open'[p] : open'[p][t] \in Seq(Op),
             at'[p].call \in {"begin", "remove"} => at'[p].txn \in 1..(next'[p] - 1),
             at'[p].call \in {"down", "started", "recover"} => DOMAIN open'[p] = {}
      PROVE  LogTypes'
  BY <1>a, <1>b DEF LogTypes, WalTypeOK, Directory
<1> HIDE DEF DirsOK
<1>1. CASE StartWal(p)
  <2>1. at' \in [Process -> Calls] /\ at'[p] = [call |-> "started"]
    BY <1>a, <1>1 DEF StartWal, Calls
  <2>2. next' \in [Process -> 1..(MaxTxn + 1)] /\ next'[p] = 1
    BY <1>a, <1>1 DEF StartWal
  <2> QED
    BY <1>a, <1>b, <1>1, <2>1, <2>2 DEF StartWal, DirsOK
<1>2. CASE RecoverList(p)
  <2>1. at' \in [Process -> Calls] /\ at'[p] = [call |-> "recover", todo |-> DOMAIN dir]
    BY <1>a, <1>2 DEF RecoverList, Calls
  <2> QED
    BY <1>a, <1>b, <1>2, <2>1 DEF RecoverList, DirsOK
<1>3. CASE RecoverOne(p)
  <2>1. at[p] \in [call : {"recover"}, todo : SUBSET Nat]
    BY <1>a, <1>3 DEF RecoverOne, Calls
  <2>2. CASE at[p].todo = {}
    <3>1. at' \in [Process -> Calls] /\ at'[p] = Ready
      BY <1>a, <1>3, <2>2 DEF RecoverOne, Calls, Ready
    <3> QED
      BY <1>a, <1>b, <1>3, <2>2, <3>1 DEF RecoverOne, DirsOK, Ready
  <2>3. CASE at[p].todo # {}
    <3> PICK t \in at[p].todo : dir' = Without(dir, t) /\ at' = [at EXCEPT ![p].todo = @ \ {t}]
      BY <1>3, <2>3 DEF RecoverOne
    <3>1. at'[p] \in [call : {"recover"}, todo : SUBSET Nat] /\ at' \in [Process -> Calls]
      BY <1>a, <2>1 DEF Calls
    <3>2. DirsOK
      BY <1>a DEF Without, DirsOK
    <3> QED
      BY <1>a, <1>b, <1>3, <2>1, <3>1, <3>2 DEF RecoverOne
  <2> QED
    BY <2>2, <2>3
<1>4. CASE BeginDir(p)
  <2> DEFINE t == next[p]
  <2>1. t \in 1..MaxTxn /\ next' = [next EXCEPT ![p] = @ + 1] /\ open' = open
    BY <1>a, <1>4 DEF BeginDir
  <2>2. at' = [at EXCEPT ![p] = [call |-> "begin", txn |-> t]]
        /\ dir' = IF t \in DOMAIN dir THEN dir ELSE With(dir, t, NewDir)
    BY <1>4 DEF BeginDir
  <2>3. NewDir \in Directory
    BY EmptySeq DEF NewDir, Directory
  <2> HIDE DEF t
  <2>4. at' \in [Process -> Calls] /\ at'[p] = [call |-> "begin", txn |-> t]
    BY <1>a, <2>1, <2>2 DEF Calls
  <2>5. DirsOK
    BY <1>a, <2>1, <2>2, <2>3 DEF With, DirsOK
  <2>6. next' \in [Process -> 1..(MaxTxn + 1)] /\ next'[p] = t + 1
    BY <1>a, <2>1 DEF t
  <2>7. DOMAIN open[p] \subseteq 1..(next'[p] - 1) /\ t \in 1..(next'[p] - 1)
    BY <1>a, <2>1, <2>6 DEF t
  <2> QED
    BY <1>a, <1>b, <2>1, <2>2, <2>4, <2>5, <2>6, <2>7
<1>5. CASE BeginHeader(p)
  <2> DEFINE t == at[p].txn
  <2>1. at' = [at EXCEPT ![p] = Ready] /\ next' = next /\ t \in 1..(next[p] - 1)
    BY <1>a, <1>5 DEF BeginHeader
  <2>2. at' \in [Process -> Calls] /\ at'[p] = Ready
    BY <1>a, <2>1 DEF Calls, Ready
  <2>3. CASE t \in DOMAIN dir
    <3>1. dir' = [dir EXCEPT ![t].header = "active"] /\ open' = [open EXCEPT ![p] = With(@, t, <<>>)]
      BY <1>5, <2>3 DEF BeginHeader
    <3> HIDE DEF t
    <3>2. DirsOK
      BY <1>a, <2>3, <3>1 DEF DirsOK, Directory
    <3>3. /\ DOMAIN open' = Process /\ \A q \in Process \ {p} : open'[q] = open[q]
          /\ open'[p] = With(open[p], t, <<>>)
      BY <1>a, <3>1
    <3>4. DOMAIN open'[p] \subseteq 1..(next[p] - 1) /\ \A u \in DOMAIN open'[p] : open'[p][u] \in Seq(Op)
      BY <1>a, <2>1, <3>3, EmptySeq DEF With
    <3> QED
      BY <1>a, <1>b, <2>1, <2>2, <3>2, <3>3, <3>4 DEF Ready
  <2>4. CASE t \notin DOMAIN dir
    BY <1>a, <1>b, <1>5, <2>1, <2>2, <2>4 DEF BeginHeader, DirsOK, Ready
  <2> QED
    BY <2>3, <2>4
<1>6. ASSUME NEW t \in DOMAIN open[p], NEW op \in Op, LogOp(p, t, op) PROVE LogTypes'
  <2>1. /\ at' = at /\ next' = next /\ t \in DOMAIN dir
        /\ dir' = [dir EXCEPT ![t].ops = Append(@, op)]
        /\ open' = [open EXCEPT ![p][t] = Append(@, op)]
    BY <1>6 DEF LogOp
  <2>2. Append(dir[t].ops, op) \in Seq(Op) /\ Append(open[p][t], op) \in Seq(Op)
    BY <1>a, <2>1, AppendProperties DEF Directory
  <2>3. DirsOK
    BY <1>a, <2>1, <2>2 DEF DirsOK, Directory
  <2>4. /\ DOMAIN open' = Process /\ \A q \in Process \ {p} : open'[q] = open[q]
        /\ DOMAIN open'[p] = DOMAIN open[p]
        /\ \A u \in DOMAIN open[p] : open'[p][u] \in Seq(Op)
    BY <1>a, <2>1, <2>2
  <2> QED
    BY <1>a, <1>b, <2>1, <2>3, <2>4
<1>7. ASSUME NEW t \in DOMAIN open[p], CommitHeader(p, t) \/ RollbackTxn(p, t) PROVE LogTypes'
  <2>1. /\ at[p] = Ready /\ next' = next /\ open' = [open EXCEPT ![p] = Without(@, t)]
        /\ t \in 1..(next[p] - 1)
    BY <1>a, <1>7 DEF CommitHeader, RollbackTxn
  <2>2. /\ at' = at \/ at' = [at EXCEPT ![p] = Ready]
           \/ at' = [at EXCEPT ![p] = [call |-> "remove", txn |-> t]]
        /\ dir' = dir \/ (t \in DOMAIN dir /\ dir' = [dir EXCEPT ![t].header = "committed"])
    <3>1. CASE CommitHeader(p, t) /\ t \in DOMAIN dir
      BY <3>1, Zenon DEF CommitHeader
    <3>2. CASE CommitHeader(p, t) /\ t \notin DOMAIN dir
      BY <3>2, Zenon DEF CommitHeader
    <3>3. CASE RollbackTxn(p, t) /\ t \in DOMAIN dir
      BY <3>3 DEF RollbackTxn
    <3>4. CASE RollbackTxn(p, t) /\ t \notin DOMAIN dir
      BY <3>4 DEF RollbackTxn
    <3> QED
      BY <1>7, <3>1, <3>2, <3>3, <3>4
  <2>3. at' \in [Process -> Calls] /\ at'[p] \in {Ready, [call |-> "remove", txn |-> t]}
    <3>1. Ready \in Calls /\ [call |-> "remove", txn |-> t] \in Calls
      BY <1>a, <2>1 DEF Calls, Ready
    <3> QED
      BY <1>a, <2>1, <2>2, <3>1
  <2>4. DirsOK
    <3>1. CASE dir' = dir
      BY <1>a, <3>1 DEF DirsOK
    <3>2. CASE t \in DOMAIN dir /\ dir' = [dir EXCEPT ![t].header = "committed"]
      BY <1>a, <3>2 DEF DirsOK, Directory
    <3> QED
      BY <2>2, <3>1, <3>2
  <2>5. /\ DOMAIN open' = Process /\ \A q \in Process \ {p} : open'[q] = open[q]
        /\ DOMAIN open'[p] = DOMAIN open[p] \ {t}
        /\ \A u \in DOMAIN open'[p] : open'[p][u] = open[p][u]
    BY <1>a, <2>1 DEF Without
  <2> QED
    BY <1>a, <1>b, <2>1, <2>2, <2>3, <2>4, <2>5 DEF Ready
<1>8. CASE RemoveDir(p)
  <2>1. at' \in [Process -> Calls] /\ at'[p] = Ready
    BY <1>a, <1>8 DEF RemoveDir, Calls, Ready
  <2>2. DirsOK
    BY <1>a, <1>8 DEF RemoveDir, Without, DirsOK
  <2> QED
    BY <1>a, <1>b, <1>8, <2>1, <2>2 DEF RemoveDir, Ready
<1>9. CASE WalCrash(p)
  <2>1. at' \in [Process -> Calls] /\ at'[p] = [call |-> "down"]
    BY <1>a, <1>9 DEF WalCrash, Calls
  <2>2. DirsOK
    <3>1. CASE dir' = dir
      BY <1>a, <3>1 DEF DirsOK
    <3>2. CASE dir' # dir
      <4> PICK t \in Removing(p) : \E header \in {"none", dir[t].header}, ops \in {<<>>, dir[t].ops} :
                 dir' = [dir EXCEPT ![t] = [header |-> header, ops |-> ops]]
        BY <1>9, <3>2 DEF WalCrash
      <4>1. t \in DOMAIN dir
        BY DEF Removing
      <4>2. PICK header \in {"none", dir[t].header}, ops \in {<<>>, dir[t].ops} :
                 dir' = [dir EXCEPT ![t] = [header |-> header, ops |-> ops]]
        OBVIOUS
      <4> DEFINE left == [header |-> header, ops |-> ops]
      <4>3. header \in {"none", "active", "committed"} /\ ops \in Seq(Op)
        <5>1. dir[t] \in Directory
          BY <1>a, <4>1
        <5>2. <<>> \in Seq(Op)
          BY EmptySeq
        <5> QED
          BY <4>2, <5>1, <5>2 DEF Directory
      <4>4. left \in Directory /\ dir' = [dir EXCEPT ![t] = left]
        BY <4>2, <4>3 DEF Directory
      <4> HIDE DEF left
      <4> QED
        BY <1>a, <4>1, <4>4 DEF DirsOK
    <3> QED
      BY <3>1, <3>2
  <2>3. DOMAIN open' = Process /\ DOMAIN open'[p] = {} /\ \A q \in Process \ {p} : open'[q] = open[q]
    BY <1>a, <1>9 DEF WalCrash
  <2> QED
    BY <1>a, <1>b, <1>9, <2>1, <2>2, <2>3 DEF WalCrash
<1> QED
  BY <1>p, <1>1, <1>2, <1>3, <1>4, <1>5, <1>6, <1>7, <1>8, <1>9

(* The log stays well typed for any number of processes, and no process    *)
(* has an id open that it has not given out since it started.              *)
THEOREM WalTyping == WalSpec => []WalTypeOK
<1>1. LogTypes => WalTypeOK
  BY DEF LogTypes
<1> QED
  BY <1>1, LogTypesInit, LogTypesNext, PTL DEF WalSpec

(* One process at a time uses the log: no command uses it at all, and the  *)
(* ids of two processes would be the same.                                 *)
OneUser == \A p, q \in Process : p = q

(* What each call relies on and leaves.  A recovery has listed all there   *)
(* is; a transaction that begins has found no directory of its id, since    *)
(* the directories are those of open transactions, whose ids are smaller.   *)
Calling(p) ==
    /\ at[p].call = "recover" => DOMAIN dir \subseteq at[p].todo
    /\ at[p].call = "begin" =>
        /\ at[p].txn \in DOMAIN dir \ DOMAIN open[p]
        /\ dir[at[p].txn] = NewDir
    /\ at[p].call = "remove" => at[p].txn \notin DOMAIN open[p]

LogOwned == LogExact /\ \A p \in Process : Calling(p)

LEMMA LogOwnedInit == WalInit => LogOwned
<1> SUFFICES ASSUME WalInit PROVE LogOwned
  OBVIOUS
<1>1. \A p \in Process : DOMAIN open[p] = {} /\ at[p].call = "down"
  BY DEF WalInit
<1> QED
  BY <1>1 DEF LogOwned, LogExact, Calling

LEMMA LogOwnedNext ==
  ASSUME OneUser
  PROVE  LogTypes /\ LogOwned /\ [WalNext]_walvars => LogOwned'
<1>u. ASSUME LogOwned, UNCHANGED walvars PROVE LogOwned'
  <2>1. dir' = dir /\ at' = at /\ open' = open
    BY <1>u DEF walvars
  <2>2. LogExact'
    BY <1>u, <2>1 DEF LogOwned, LogExact, UnderWay
  <2>3. \A p \in Process : Calling(p)'
    BY <1>u, <2>1 DEF LogOwned, Calling
  <2> QED
    BY <2>2, <2>3 DEF LogOwned
<1> SUFFICES ASSUME LogTypes, LogOwned, WalNext PROVE LogOwned'
  BY <1>u, Zenon
<1>p. PICK p \in Process :
        \/ StartWal(p) \/ RecoverList(p) \/ RecoverOne(p)
        \/ BeginDir(p) \/ BeginHeader(p)
        \/ \E t \in DOMAIN open[p] :
            \/ \E op \in Op : LogOp(p, t, op)
            \/ CommitHeader(p, t) \/ RollbackTxn(p, t)
        \/ RemoveDir(p)
        \/ WalCrash(p)
  BY DEF WalNext
<1> DEFINE
      AsOpened(d, o) == \A t \in DOMAIN o : t \in DOMAIN d /\ d[t] = [header |-> "active", ops |-> o[t]]
      Own(d, o, a) ==
        /\ a.call = "none" => DOMAIN d \subseteq DOMAIN o
        /\ a.call \in {"begin", "remove"} => DOMAIN d \subseteq DOMAIN o \cup {a.txn}
        /\ a.call = "recover" => DOMAIN d \subseteq a.todo
        /\ a.call = "begin" => a.txn \in DOMAIN d \ DOMAIN o /\ d[a.txn] = NewDir
        /\ a.call = "remove" => a.txn \notin DOMAIN o
<1>a. /\ \A t \in DOMAIN dir : dir[t] \in Directory
      /\ next[p] \in Nat /\ at[p] \in Calls
      /\ DOMAIN at = Process /\ DOMAIN open = Process
      /\ DOMAIN open[p] \subseteq 1..(next[p] - 1)
      /\ at[p].call \in {"down", "started", "recover"} => DOMAIN open[p] = {}
  BY WalAssumption DEF LogTypes, WalTypeOK
<1>b. AsOpened(dir, open[p]) /\ Own(dir, open[p], at[p])
  BY DEF LogOwned, LogExact, UnderWay, Calling
<1>c. ASSUME AsOpened(dir', open'[p]), Own(dir', open'[p], at'[p]) PROVE LogOwned'
  <2>1. \A q \in Process : q = p
    BY DEF OneUser
  <2> QED
    BY <1>c, <2>1 DEF LogOwned, LogExact, UnderWay, Calling
<1>1. CASE StartWal(p) \/ RecoverList(p)
  <2>1. dir' = dir /\ open' = open /\ at'[p] \in {[call |-> "started"], [call |-> "recover", todo |-> DOMAIN dir]}
    BY <1>1, <1>a DEF StartWal, RecoverList
  <2> QED
    BY <1>b, <1>c, <2>1
<1>2. CASE RecoverOne(p)
  <2>1. DOMAIN open[p] = {} /\ open' = open /\ DOMAIN dir \subseteq at[p].todo
    BY <1>2, <1>a, <1>b DEF RecoverOne
  <2>2. CASE at[p].todo = {}
    <3>1. at'[p] = Ready /\ dir' = dir
      BY <1>2, <1>a, <2>2 DEF RecoverOne
    <3> QED
      BY <1>c, <2>1, <2>2, <3>1 DEF Ready
  <2>3. CASE at[p].todo # {}
    <3>1. PICK t \in at[p].todo : dir' = Without(dir, t) /\ at' = [at EXCEPT ![p].todo = @ \ {t}]
      BY <1>2, <2>3 DEF RecoverOne
    <3>2. at[p] \in [call : {"recover"}, todo : SUBSET Nat]
      BY <1>2, <1>a DEF RecoverOne, Calls
    <3>3. at'[p].call = "recover" /\ at'[p].todo = at[p].todo \ {t}
      BY <1>a, <3>1, <3>2
    <3>4. DOMAIN dir' = DOMAIN dir \ {t}
      BY <3>1 DEF Without
    <3> QED
      BY <1>c, <2>1, <3>3, <3>4
  <2> QED
    BY <2>2, <2>3
<1>3. CASE BeginDir(p)
  <2> DEFINE t == next[p]
  <2>1. t \notin DOMAIN open[p] /\ DOMAIN dir \subseteq DOMAIN open[p]
    BY <1>3, <1>a, <1>b DEF BeginDir, Ready
  <2>2. open' = open /\ at'[p] = [call |-> "begin", txn |-> t] /\ dir' = With(dir, t, NewDir)
    BY <1>3, <1>a, <2>1 DEF BeginDir
  <2> HIDE DEF t
  <2>3. /\ DOMAIN dir' = DOMAIN dir \cup {t} /\ dir'[t] = NewDir
        /\ \A u \in DOMAIN dir \ {t} : dir'[u] = dir[u]
    BY <2>2 DEF With
  <2>4. AsOpened(dir', open'[p])
    BY <1>b, <2>1, <2>2, <2>3
  <2> QED
    BY <1>c, <2>1, <2>2, <2>3, <2>4
<1>4. CASE BeginHeader(p)
  <2> DEFINE t == at[p].txn
  <2>1. t \in DOMAIN dir \ DOMAIN open[p] /\ dir[t] = NewDir /\ DOMAIN dir \subseteq DOMAIN open[p] \cup {t}
    BY <1>4, <1>b DEF BeginHeader
  <2>2. /\ dir' = [dir EXCEPT ![t].header = "active"] /\ at'[p] = Ready
        /\ open' = [open EXCEPT ![p] = With(@, t, <<>>)]
    BY <1>4, <1>a, <2>1 DEF BeginHeader
  <2> HIDE DEF t
  <2>3. DOMAIN open'[p] = DOMAIN open[p] \cup {t} /\ open'[p][t] = <<>>
        /\ \A u \in DOMAIN open[p] \ {t} : open'[p][u] = open[p][u]
    BY <1>a, <2>2 DEF With
  <2>4. /\ DOMAIN dir' = DOMAIN dir /\ dir'[t] = [header |-> "active", ops |-> <<>>]
        /\ \A u \in DOMAIN dir \ {t} : dir'[u] = dir[u]
    BY <2>1, <2>2 DEF NewDir
  <2>5. AsOpened(dir', open'[p])
    BY <1>b, <2>1, <2>3, <2>4
  <2> QED
    BY <1>c, <2>1, <2>2, <2>3, <2>4, <2>5 DEF Ready
<1>5. ASSUME NEW t \in DOMAIN open[p], NEW op \in Op, LogOp(p, t, op) PROVE LogOwned'
  <2>1. /\ at' = at /\ at[p].call = "none"
        /\ dir' = [dir EXCEPT ![t].ops = Append(@, op)]
        /\ open' = [open EXCEPT ![p][t] = Append(@, op)]
    BY <1>5 DEF LogOp, Ready
  <2>2. t \in DOMAIN dir /\ dir[t] = [header |-> "active", ops |-> open[p][t]]
    BY <1>b
  <2> DEFINE logged == open[p][t]
             more == Append(logged, op)
  <2>3. dir[t].ops = logged
    BY <2>2
  <2>4. dir' = [dir EXCEPT ![t] = [dir[t] EXCEPT !.ops = more]]
    BY <2>1, <2>3, Zenon
  <2>5. /\ DOMAIN open'[p] = DOMAIN open[p] /\ open'[p][t] = more
        /\ \A u \in DOMAIN open[p] \ {t} : open'[p][u] = open[p][u]
    BY <1>a, <2>1
  <2> HIDE DEF logged, more
  <2>6. /\ DOMAIN dir' = DOMAIN dir /\ dir'[t] = [header |-> "active", ops |-> more]
        /\ \A u \in DOMAIN dir \ {t} : dir'[u] = dir[u]
    BY <2>2, <2>4
  <2>7. AsOpened(dir', open'[p])
    <3> SUFFICES ASSUME NEW u \in DOMAIN open[p]
                 PROVE  u \in DOMAIN dir' /\ dir'[u] = [header |-> "active", ops |-> open'[p][u]]
      BY <2>5
    <3>1. CASE u = t
      BY <2>2, <2>5, <2>6, <3>1
    <3>2. CASE u # t
      BY <1>b, <2>5, <2>6, <3>2
    <3> QED
      BY <3>1, <3>2
  <2> QED
    BY <1>b, <1>c, <2>1, <2>5, <2>6, <2>7
<1>6. ASSUME NEW t \in DOMAIN open[p], CommitHeader(p, t) \/ RollbackTxn(p, t) PROVE LogOwned'
  <2>1. t \in DOMAIN dir /\ at[p].call = "none" /\ DOMAIN dir \subseteq DOMAIN open[p]
    <3>1. at[p].call = "none"
      BY <1>6 DEF CommitHeader, RollbackTxn, Ready
    <3> QED
      BY <1>b, <3>1
  <2>2. /\ open' = [open EXCEPT ![p] = Without(@, t)]
        /\ at'[p] = [call |-> "remove", txn |-> t]
        /\ dir' \in {dir, [dir EXCEPT ![t].header = "committed"]}
    BY <1>6, <1>a, <2>1 DEF CommitHeader, RollbackTxn
  <2>3. DOMAIN open'[p] = DOMAIN open[p] \ {t} /\ \A u \in DOMAIN open[p] \ {t} : open'[p][u] = open[p][u]
    BY <1>a, <2>2 DEF Without
  <2>4. DOMAIN dir' = DOMAIN dir /\ \A u \in DOMAIN dir \ {t} : dir'[u] = dir[u]
    BY <2>2
  <2>5. AsOpened(dir', open'[p])
    BY <1>b, <2>3, <2>4
  <2> QED
    BY <1>c, <2>1, <2>2, <2>3, <2>4, <2>5
<1>7. CASE RemoveDir(p)
  <2> DEFINE t == at[p].txn
  <2>1. t \notin DOMAIN open[p] /\ DOMAIN dir \subseteq DOMAIN open[p] \cup {t}
    BY <1>7, <1>b DEF RemoveDir
  <2>2. open' = open /\ at'[p] = Ready /\ dir' = Without(dir, t)
    BY <1>7, <1>a DEF RemoveDir
  <2> HIDE DEF t
  <2>3. DOMAIN dir' = DOMAIN dir \ {t} /\ \A u \in DOMAIN dir \ {t} : dir'[u] = dir[u]
    BY <2>2 DEF Without
  <2>4. AsOpened(dir', open'[p])
    BY <1>b, <2>1, <2>2, <2>3
  <2> QED
    BY <1>c, <2>1, <2>2, <2>3, <2>4 DEF Ready
<1>8. CASE WalCrash(p)
  <2>1. DOMAIN open'[p] = {} /\ at'[p] = [call |-> "down"]
    BY <1>8, <1>a DEF WalCrash
  <2> QED
    BY <1>c, <2>1
<1> QED
  BY <1>p, <1>1, <1>2, <1>3, <1>4, <1>5, <1>6, <1>7, <1>8

(* While one process uses the log, an open transaction's directory holds   *)
(* what was logged in it, in order, and nothing of a transaction that ended *)
(* or was cut short is there once the recovery is done: though ids start    *)
(* again at 1 and begin_transaction takes a directory that is there.        *)
THEOREM LogIsExact == ASSUME OneUser PROVE WalSpec => []LogExact
<1>1. LogOwned => LogExact
  BY DEF LogOwned
<1> QED
  BY <1>1, LogTypesInit, LogTypesNext, LogOwnedInit, LogOwnedNext, PTL DEF WalSpec

---------------------------------------------------------------------------
(***************************************************************************)
(* The configuration of a repository.                                      *)
(***************************************************************************)

(* Settings as they are ever held: with finitely many remotes. *)
Held == {s \in SettingsOf : IsFiniteSet(DOMAIN s.remotes)}

Working == {"structure", "config", "index", "HEAD"}

Commands == [pc : Working \cup {"opened", "saving"}, settings : Held]

HoldsSettings ==
    /\ made \subseteq Part
    /\ config \in Held \cup {NoConfig}
    /\ proc \in [Proc -> {NoCommand} \cup Commands]
    /\ behind \subseteq {p \in Proc : proc[p] # NoCommand}
    /\ met \subseteq Writers

LEMMA HeldIs ==
  ASSUME NEW s
  PROVE  s \in Held <=>
            /\ s \in [algo : Algorithm, name : User, email : User,
                      remotes : UNION {[R -> Url] : R \in SUBSET Remote}]
            /\ DOMAIN s.remotes \subseteq Remote
            /\ s.remotes \in [DOMAIN s.remotes -> Url]
            /\ IsFiniteSet(DOMAIN s.remotes)
  BY DEF Held, SettingsOf

(* What load_config makes of the remotes: finitely many, under names of    *)
(* remotes; one that alone reads back as itself keeps its URL.              *)
LEMMA ReadBackIs ==
  ASSUME NEW R \in SUBSET Remote, NEW f \in [R -> Url], IsFiniteSet(R)
  PROVE  /\ ReadBack(f) \in [DOMAIN ReadBack(f) -> Url]
         /\ DOMAIN ReadBack(f) \subseteq Remote
         /\ IsFiniteSet(DOMAIN ReadBack(f))
         /\ \A n \in Plain(f) : n \in DOMAIN ReadBack(f) /\ ReadBack(f)[n] = f[n]
<1> DEFINE Names == {ReadAs[m] : m \in R}
           Same(n) == {m \in R : ReadAs[m] = n}
           Last(n) == CHOOSE m \in Same(n) : \A o \in Same(n) \ {m} : <<o, m>> \in Later
<1>1. ReadBack(f) = [n \in Names \ {None} |-> f[Last(n)]]
  BY DEF ReadBack
<1>2. \A n \in Names : Last(n) \in Same(n)
  <2> SUFFICES ASSUME NEW n \in Names PROVE Last(n) \in Same(n)
    OBVIOUS
  <2>1. Same(n) # {} /\ Same(n) \in SUBSET Remote /\ \A m, o \in Same(n) : ReadAs[m] = ReadAs[o]
    OBVIOUS
  <2>2. IsFiniteSet(Same(n))
    BY FS_Subset
  <2>3. \E m \in Same(n) : \A o \in Same(n) \ {m} : <<o, m>> \in Later
    <3> HIDE DEF Same
    <3> QED
      BY <2>1, <2>2, OrderAssumption
  <2> HIDE DEF Same
  <2> QED
    BY <2>3
<1>3. Names \ {None} \subseteq Remote
  BY SettingsAssumption
<1>4. IsFiniteSet(Names \ {None})
  <2>1. [m \in R |-> ReadAs[m]] \in Surjection(R, Names)
    BY DEF Surjection
  <2>2. IsFiniteSet(Names)
    <3> HIDE DEF Names
    <3> QED
      BY <2>1, FS_Surjection
  <2> QED
    BY <2>2, FS_Subset
<1>5. \A n \in Names : Last(n) \in R
  <2> HIDE DEF Last
  <2> QED
    BY <1>2
<1>6. ASSUME NEW n \in Plain(f) PROVE n \in Names \ {None} /\ Last(n) = n
  <2>1. n \in R /\ ReadAs[n] = n /\ \A m \in R : ReadAs[m] = n <=> m = n
    BY <1>6 DEF Plain
  <2>3. Same(n) = {n}
    BY <2>1
  <2>2. n \in Names \ {None}
    <3>1. n # None
      BY <2>1, SettingsAssumption
    <3>2. ReadAs[n] \in Names
      BY <2>1
    <3> QED
      BY <2>1, <3>1, <3>2
  <2> HIDE DEF Last, Same
  <2> QED
    BY <1>2, <2>2, <2>3
<1> HIDE DEF Names, Same, Last
<1> QED
  BY <1>1, <1>3, <1>4, <1>5, <1>6

LEMMA ParsedIs ==
  ASSUME NEW c \in Held
  PROVE  /\ Parsed(c) \in Held
         /\ Parsed(c).algo = c.algo /\ Parsed(c).name = c.name /\ Parsed(c).email = c.email
         /\ \A n \in Plain(c.remotes) :
                n \in DOMAIN Parsed(c).remotes /\ Parsed(c).remotes[n] = c.remotes[n]
<1> DEFINE d == Parsed(c)
           back == ReadBack(c.remotes)
<1>1. d = [c EXCEPT !.remotes = back]
  BY DEF Parsed
<1>2. /\ DOMAIN c.remotes \in SUBSET Remote
      /\ c.remotes \in [DOMAIN c.remotes -> Url]
      /\ IsFiniteSet(DOMAIN c.remotes)
      /\ c \in [algo : Algorithm, name : User, email : User,
                remotes : UNION {[R -> Url] : R \in SUBSET Remote}]
  BY HeldIs
<1>3. /\ back \in [DOMAIN back -> Url] /\ DOMAIN back \subseteq Remote
      /\ IsFiniteSet(DOMAIN back)
      /\ \A n \in Plain(c.remotes) : n \in DOMAIN back /\ back[n] = c.remotes[n]
  BY <1>2, ReadBackIs
<1> HIDE DEF back, d
<1>4. /\ d.algo = c.algo /\ d.name = c.name /\ d.email = c.email /\ d.remotes = back
      /\ d \in [algo : Algorithm, name : User, email : User,
                remotes : UNION {[R -> Url] : R \in SUBSET Remote}]
  BY <1>1, <1>2, <1>3
<1>5. d \in Held
  BY <1>3, <1>4, HeldIs
<1> QED
  BY <1>3, <1>4, <1>5 DEF d

(* The settings d are those s after what a command does to them. *)
IsEdit(s, d) ==
    \/ \E v \in User : d = [s EXCEPT !.name = v] \/ d = [s EXCEPT !.email = v]
    \/ \E n \in Remote, u \in Url :
          d = [s EXCEPT !.remotes =
                 [m \in DOMAIN s.remotes \cup {n} |-> IF m = n THEN u ELSE s.remotes[m]]]
    \/ \E n \in Remote : d = [s EXCEPT !.remotes = [m \in DOMAIN s.remotes \ {n} |-> s.remotes[m]]]

(* One edit of settings that agree with c on what survives a reading       *)
(* changes one of them.                                                    *)
LEMMA EditIsSingle ==
  ASSUME NEW c \in Held, NEW s \in Held, NEW d, IsEdit(s, d),
         s.algo = c.algo, s.name = c.name, s.email = c.email,
         \A n \in Plain(c.remotes) : n \in DOMAIN s.remotes /\ s.remotes[n] = c.remotes[n]
  PROVE  /\ d \in Held
         /\ d.algo = c.algo
         /\ \A x, y \in Differences(c, d) : x = y
<1>0. /\ s \in [algo : Algorithm, name : User, email : User,
                remotes : UNION {[R -> Url] : R \in SUBSET Remote}]
      /\ DOMAIN s.remotes \subseteq Remote
      /\ s.remotes \in [DOMAIN s.remotes -> Url]
      /\ IsFiniteSet(DOMAIN s.remotes)
  BY HeldIs
<1>1. ASSUME NEW v \in User, d = [s EXCEPT !.name = v]
      PROVE  d \in Held /\ d.algo = c.algo /\ Differences(c, d) \subseteq {"name"}
  <2>1. /\ d.algo = s.algo /\ d.email = s.email /\ d.remotes = s.remotes
        /\ d \in [algo : Algorithm, name : User, email : User,
                  remotes : UNION {[R -> Url] : R \in SUBSET Remote}]
    BY <1>0, <1>1
  <2>2. d \in Held
    BY <1>0, <2>1, HeldIs
  <2> QED
    BY <2>1, <2>2 DEF Differences
<1>2. ASSUME NEW v \in User, d = [s EXCEPT !.email = v]
      PROVE  d \in Held /\ d.algo = c.algo /\ Differences(c, d) \subseteq {"email"}
  <2>1. /\ d.algo = s.algo /\ d.name = s.name /\ d.remotes = s.remotes
        /\ d \in [algo : Algorithm, name : User, email : User,
                  remotes : UNION {[R -> Url] : R \in SUBSET Remote}]
    BY <1>0, <1>2
  <2>2. d \in Held
    BY <1>0, <2>1, HeldIs
  <2> QED
    BY <2>1, <2>2 DEF Differences
<1>3. ASSUME NEW n \in Remote, NEW r, NEW R \in SUBSET Remote, r \in [R -> Url],
             IsFiniteSet(R), d = [s EXCEPT !.remotes = r],
             \A m \in DOMAIN s.remotes \ {n} : m \in R /\ r[m] = s.remotes[m]
      PROVE  d \in Held /\ d.algo = c.algo /\ Differences(c, d) \subseteq {n}
  <2>1. /\ d.algo = s.algo /\ d.name = s.name /\ d.email = s.email /\ d.remotes = r
        /\ d \in [algo : Algorithm, name : User, email : User,
                  remotes : UNION {[S -> Url] : S \in SUBSET Remote}]
    BY <1>0, <1>3
  <2>2. DOMAIN d.remotes = R
    BY <1>3, <2>1
  <2>3. d \in Held
    BY <1>3, <2>1, <2>2, HeldIs
  <2>4. \A m \in Plain(c.remotes) \ {n} : m \in DOMAIN d.remotes /\ d.remotes[m] = c.remotes[m]
    BY <1>3, <2>1, <2>2
  <2> QED
    BY <2>1, <2>3, <2>4 DEF Differences
<1>4. ASSUME NEW n \in Remote, NEW u \in Url,
             d = [s EXCEPT !.remotes =
                    [m \in DOMAIN s.remotes \cup {n} |-> IF m = n THEN u ELSE s.remotes[m]]]
      PROVE  d \in Held /\ d.algo = c.algo /\ Differences(c, d) \subseteq {n}
  <2> DEFINE R == DOMAIN s.remotes \cup {n}
             r == [m \in R |-> IF m = n THEN u ELSE s.remotes[m]]
  <2>1. R \in SUBSET Remote /\ IsFiniteSet(R)
    BY <1>0, FS_AddElement
  <2>2. r \in [R -> Url] /\ \A m \in DOMAIN s.remotes \ {n} : m \in R /\ r[m] = s.remotes[m]
    BY <1>0
  <2> HIDE DEF R
  <2>3. d = [s EXCEPT !.remotes = r]
    BY <1>4 DEF R
  <2> HIDE DEF r
  <2> QED
    BY <1>3, <2>1, <2>2, <2>3
<1>5. ASSUME NEW n \in Remote,
             d = [s EXCEPT !.remotes = [m \in DOMAIN s.remotes \ {n} |-> s.remotes[m]]]
      PROVE  d \in Held /\ d.algo = c.algo /\ Differences(c, d) \subseteq {n}
  <2> DEFINE R == DOMAIN s.remotes \ {n}
             r == [m \in R |-> s.remotes[m]]
  <2>1. R \in SUBSET Remote /\ IsFiniteSet(R)
    BY <1>0, FS_Subset
  <2>2. r \in [R -> Url] /\ \A m \in DOMAIN s.remotes \ {n} : m \in R /\ r[m] = s.remotes[m]
    BY <1>0
  <2> HIDE DEF R
  <2>3. d = [s EXCEPT !.remotes = r]
    BY <1>5 DEF R
  <2> HIDE DEF r
  <2> QED
    BY <1>3, <2>1, <2>2, <2>3
<1>6. d \in Held /\ d.algo = c.algo /\ \E x : Differences(c, d) \subseteq {x}
  BY <1>1, <1>2, <1>4, <1>5, Zenon DEF IsEdit
<1> QED
  BY <1>6

LEMMA EditIsHeld ==
  ASSUME NEW s \in Held, NEW d, IsEdit(s, d)
  PROVE  d \in Held
<1>1. \A n \in Plain(s.remotes) : n \in DOMAIN s.remotes
  BY DEF Plain
<1> QED
  BY <1>1, EditIsSingle

LEMMA NoCommandIs ==
  /\ NoCommand \notin Commands /\ NoCommand.pc = "idle" /\ NoConfig \notin Held
  /\ \A c \in Commands : c.pc # "idle" /\ c # NoCommand
<1>1. NoCommand.pc = "idle" /\ NoConfig \notin Held
  BY NoConfigAssumption DEF NoCommand, Held
<1>2. \A c \in Commands : c.pc \in Working \cup {"opened", "saving"}
  BY DEF Commands
<1> QED
  BY <1>1, <1>2 DEF Working

(* A process at work has a command; its record after a change of pc. *)
LEMMA AtWork ==
  ASSUME HoldsSettings, NEW p \in Proc, proc[p].pc # "idle"
  PROVE  /\ proc[p] \in Commands /\ proc[p].settings \in Held
         /\ \A c \in Working : [proc[p] EXCEPT !.pc = c] \in Commands
         /\ \A c \in Working : [proc[p] EXCEPT !.pc = c].pc = c
         /\ \A c \in Working : [proc[p] EXCEPT !.pc = c].settings = proc[p].settings
<1>1. proc[p] \in Commands
  BY NoCommandIs DEF HoldsSettings
<1> QED
  BY <1>1 DEF Commands

LEMMA HoldsInit == SettingsInit => HoldsSettings
  BY DEF SettingsInit, HoldsSettings

(* What is written is well formed, of whatever commands that met. *)
LEMMA SavedIsHeld ==
  ASSUME HoldsSettings, NEW p \in Proc, SaveConfig(p)
  PROVE  config' \in Held
<1>1. Garbled \subseteq Held
  BY GarbledAssumption DEF Held
<1>2. \A q \in Writers : proc[q].settings \in Held
  BY AtWork DEF Writers
<1> QED
  BY <1>1, <1>2 DEF SaveConfig

(* What each step does to the state: p goes on with command c. *)
Goes(p, c) ==
    /\ c \in {NoCommand} \cup Commands
    /\ proc' = [proc EXCEPT ![p] = c]
    /\ made' \subseteq made \cup Part
    /\ config' \in {config} \cup Held
    /\ \A q \in behind' :
        /\ q \in Proc
        /\ q # p => q \in behind \/ proc[q].pc \in {"opened", "saving"}
        /\ q = p => c # NoCommand
    /\ \A q \in met' : q \in Writers /\ q # p

LEMMA GoesHolds ==
  ASSUME HoldsSettings, NEW p \in Proc, NEW c, Goes(p, c)
  PROVE  HoldsSettings'
<1>0. /\ made \subseteq Part /\ config \in Held \cup {NoConfig}
      /\ proc \in [Proc -> {NoCommand} \cup Commands]
      /\ \A q \in behind : q \in Proc /\ proc[q] # NoCommand
  BY DEF HoldsSettings
<1>1. /\ proc' \in [Proc -> {NoCommand} \cup Commands] /\ proc'[p] = c
      /\ \A q \in Proc \ {p} : proc'[q] = proc[q]
  BY <1>0 DEF Goes
<1>2. ASSUME NEW q \in behind' PROVE q \in Proc /\ proc'[q] # NoCommand
  <2>1. /\ q \in Proc /\ (q = p => c # NoCommand)
        /\ q # p => q \in behind \/ proc[q].pc \in {"opened", "saving"}
    BY <1>2, Zenon DEF Goes
  <2>2. CASE q = p
    BY <1>1, <2>1, <2>2
  <2>3. CASE q # p
    <3>1. proc[q] # NoCommand
      <4>1. NoCommand.pc \notin {"opened", "saving"}
        BY NoCommandIs
      <4> QED
        BY <1>0, <2>1, <2>3, <4>1
    <3> QED
      BY <1>1, <2>1, <2>3, <3>1
  <2> QED
    BY <2>1, <2>2, <2>3
<1>3. met' \subseteq Writers'
  BY <1>1 DEF Goes, Writers
<1> QED
  BY <1>0, <1>1, <1>2, <1>3 DEF Goes, HoldsSettings

LEMMA HoldsNext ==
  HoldsSettings /\ [SettingsNext]_setvars => HoldsSettings'
<1> SUFFICES ASSUME HoldsSettings, SettingsNext PROVE HoldsSettings'
  BY DEF setvars, HoldsSettings, Writers
<1>0. /\ made \subseteq Part /\ config \in Held \cup {NoConfig}
      /\ proc \in [Proc -> {NoCommand} \cup Commands]
      /\ behind \subseteq {p \in Proc : proc[p] # NoCommand}
      /\ \A q \in met : q \in Writers /\ q \in Proc /\ proc[q].pc \in {"config", "saving"}
  BY DEF HoldsSettings, Writers
<1>p. PICK p \in Proc :
        \/ \E algo \in Algorithm : InitStart(p, algo)
        \/ InitStep(p)
        \/ OpenRepo(p) \/ OnlyReads(p) \/ Save(p)
        \/ \E v \in User : SetName(p, v) \/ SetEmail(p, v)
        \/ \E n \in Remote : RemoveRemote(p, n) \/ \E u \in Url : AddRemote(p, n, u)
        \/ SettingsCrash(p)
  BY DEF SettingsNext
<1>a. ASSUME NEW c, Goes(p, c) PROVE HoldsSettings'
  BY <1>a, GoesHolds
<1>1. ASSUME NEW algo \in Algorithm, InitStart(p, algo) PROVE HoldsSettings'
  <2> DEFINE c == [pc |-> "structure", settings |-> Fresh(algo)]
  <2>1. Fresh(algo).remotes \in [{} -> Url] /\ {} \in SUBSET Remote /\ IsFiniteSet({})
    BY FS_EmptySet DEF Fresh
  <2>2. Fresh(algo) \in Held
    BY <2>1, SettingsAssumption DEF Held, SettingsOf, Fresh
  <2>3. c \in Commands /\ proc' = [proc EXCEPT ![p] = c]
    BY <1>1, <2>2 DEF Commands, Working, InitStart
  <2>4. Goes(p, c)
    <3> HIDE DEF c
    <3> QED
      BY <1>0, <1>1, <2>3, NoCommandIs DEF InitStart, Goes
  <2> QED
    BY <1>a, <2>4
<1>2. ASSUME NEW c \in Working, proc[p].pc # "idle", proc' = [proc EXCEPT ![p].pc = c],
             made' \subseteq made \cup Part, config' \in {config} \cup Held,
             \/ behind' \subseteq behind
             \/ behind' \subseteq {q \in Proc \ {p} : proc[q].pc \in {"opened", "saving"}},
             \A q \in met' : q \in Writers /\ q # p
      PROVE  HoldsSettings'
  <2> DEFINE command == [proc[p] EXCEPT !.pc = c]
  <2>1. command \in Commands /\ proc' = [proc EXCEPT ![p] = command] /\ proc[p].settings \in Held
    BY <1>2, AtWork
  <2> HIDE DEF command
  <2>2. Goes(p, command)
    BY <1>0, <1>2, <2>1, NoCommandIs DEF Goes
  <2> QED
    BY <1>a, <2>2
<1>3. CASE InitStructure(p)
  <2>1. CASE proc' = proc
    BY <1>0, <1>3, <2>1 DEF InitStructure, HoldsSettings, Part, Writers
  <2>2. CASE proc' # proc
    BY <1>0, <1>2, <1>3, <2>2 DEF InitStructure, Working, Part
  <2> QED
    BY <2>1, <2>2
<1>4. CASE InitConfig(p)
  <2>1. config' \in Held
    BY <1>4, SavedIsHeld DEF InitConfig
  <2> QED
    BY <1>2, <1>4, <2>1 DEF InitConfig, SaveConfig, Working
<1>5. CASE InitIndex(p)
  BY <1>0, <1>2, <1>5 DEF InitIndex, Working, Part
<1>6. CASE InitHead(p)
  <2>1. Goes(p, NoCommand)
    BY <1>0, <1>6 DEF InitHead, Goes, Part
  <2> QED
    BY <1>a, <2>1
<1>7. CASE OpenRepo(p)
  <2> DEFINE c == [pc |-> "opened", settings |-> Parsed(config)]
  <2>1. Parsed(config) \in Held
    BY <1>0, <1>7, ParsedIs DEF OpenRepo
  <2>2. c \in Commands /\ proc' = [proc EXCEPT ![p] = c]
    BY <1>7, <2>1 DEF Commands, OpenRepo
  <2>3. Goes(p, c)
    <3> HIDE DEF c
    <3> QED
      BY <1>0, <1>7, <2>2, NoCommandIs DEF OpenRepo, Goes, Part
  <2> QED
    BY <1>a, <2>3
<1>8. CASE OnlyReads(p) \/ SettingsCrash(p)
  <2>1. Goes(p, NoCommand)
    BY <1>0, <1>8 DEF OnlyReads, SettingsCrash, Goes
  <2> QED
    BY <1>a, <2>1
<1>12. CASE Save(p)
  <2>1. config' \in Held
    BY <1>12, SavedIsHeld DEF Save
  <2>2. Goes(p, NoCommand)
    BY <1>12, <2>1 DEF Save, SaveConfig, Goes
  <2> QED
    BY <1>a, <2>2
<1>9. ASSUME NEW d, Changed(p, d), IsEdit(proc[p].settings, d) PROVE HoldsSettings'
  <2>1. proc[p].settings \in Held
    BY <1>9, AtWork DEF Changed
  <2>2. d \in Held
    BY <1>9, <2>1, EditIsHeld
  <2> DEFINE c == [pc |-> "saving", settings |-> d]
  <2>3. c \in Commands /\ proc' = [proc EXCEPT ![p] = c]
    BY <1>9, <2>2 DEF Commands, Changed
  <2>4. Goes(p, c)
    <3> HIDE DEF c
    <3> QED
      BY <1>0, <1>9, <2>3, NoCommandIs DEF Changed, Goes
  <2> QED
    BY <1>a, <2>4
<1>10. ASSUME NEW v \in User, SetName(p, v) \/ SetEmail(p, v) PROVE HoldsSettings'
  BY <1>9, <1>10, Zenon DEF SetName, SetEmail, IsEdit
<1>11. ASSUME NEW n \in Remote, RemoveRemote(p, n) \/ \E u \in Url : AddRemote(p, n, u)
       PROVE  HoldsSettings'
  BY <1>9, <1>11, Zenon DEF RemoveRemote, AddRemote, IsEdit
<1> QED
  BY <1>p, <1>1, <1>3, <1>4, <1>5, <1>6, <1>7, <1>8, <1>10, <1>11, <1>12 DEF InitStep

(* The settings in a file and in a process stay well formed, whatever      *)
(* commands run at once or are killed.                                     *)
THEOREM SettingsTyping == SettingsSpec => []SettingsTypeOK
<1>1. HoldsSettings => SettingsTypeOK
  BY DEF HoldsSettings, SettingsTypeOK, Commands, Working, Held
<1> QED
  BY <1>1, HoldsInit, HoldsNext, PTL DEF SettingsSpec

(* How far an init has come, and that one is at work where nothing is      *)
(* whole and nothing was killed.                                           *)
Setup ==
    /\ config # NoConfig => {"flux", "directories", "description"} \subseteq made
    /\ "HEAD" \in made => config # NoConfig /\ "index" \in made
    /\ \A p \in Proc :
        /\ proc[p].pc = "config" => {"flux", "directories", "description"} \subseteq made
        /\ proc[p].pc \in {"index", "HEAD", "opened", "saving"} => config # NoConfig
        /\ proc[p].pc = "HEAD" => "index" \in made
    /\ ~crashed /\ "flux" \in made /\ (config = NoConfig \/ "HEAD" \notin made)
        => \E p \in Proc : proc[p].pc \in Working

LEMMA SetupInit == SettingsInit => Setup
<1> SUFFICES ASSUME SettingsInit PROVE Setup
  OBVIOUS
<1>1. \A p \in Proc : proc[p].pc = "idle"
  BY NoCommandIs DEF SettingsInit
<1> QED
  BY <1>1 DEF SettingsInit, Setup

LEMMA SetupNext ==
  HoldsSettings /\ Setup /\ [SettingsNext]_setvars => Setup'
<1> SUFFICES ASSUME HoldsSettings, Setup, SettingsNext PROVE Setup'
  BY DEF setvars, Setup
<1>p. PICK p \in Proc :
        \/ \E algo \in Algorithm : InitStart(p, algo)
        \/ InitStep(p)
        \/ OpenRepo(p) \/ OnlyReads(p) \/ Save(p)
        \/ \E v \in User : SetName(p, v) \/ SetEmail(p, v)
        \/ \E n \in Remote : RemoveRemote(p, n) \/ \E u \in Url : AddRemote(p, n, u)
        \/ SettingsCrash(p)
  BY DEF SettingsNext
<1>0. proc \in [Proc -> {NoCommand} \cup Commands] /\ NoCommand.pc = "idle"
  BY NoCommandIs DEF HoldsSettings
<1>a. ASSUME NEW c, proc' = [proc EXCEPT ![p] = c]
      PROVE  proc'[p] = c /\ \A q \in Proc \ {p} : proc'[q] = proc[q]
  BY <1>0, <1>a
<1>b. ASSUME NEW c, proc' = [proc EXCEPT ![p].pc = c], proc[p].pc # "idle"
      PROVE  proc'[p].pc = c /\ \A q \in Proc \ {p} : proc'[q] = proc[q]
  <2>1. proc[p] \in Commands
    BY <1>0, <1>b, AtWork
  <2> QED
    BY <1>0, <1>b, <2>1 DEF Commands
<1>1. ASSUME NEW algo \in Algorithm, InitStart(p, algo) PROVE Setup'
  <2>1. proc'[p].pc = "structure" /\ \A q \in Proc \ {p} : proc'[q] = proc[q]
    BY <1>1, <1>a DEF InitStart
  <2>2. UNCHANGED <<made, config, crashed>> /\ "flux" \notin made
    BY <1>1 DEF InitStart
  <2> QED
    BY <2>1, <2>2 DEF Setup
<1>2. CASE InitStructure(p)
  <2>1. proc[p].pc = "structure" /\ made \subseteq made' /\ made' \subseteq made \cup {"flux", "directories", "description"} /\ UNCHANGED <<config, crashed>>
    BY <1>2 DEF InitStructure
  <2>2. CASE proc' = proc
    BY <2>1, <2>2 DEF Setup, Working
  <2>3. CASE proc' # proc
    <3>1. proc'[p].pc = "config" /\ \A q \in Proc \ {p} : proc'[q] = proc[q]
      BY <1>2, <1>b, <2>3 DEF InitStructure
    <3>2. {"flux", "directories", "description"} \subseteq made'
      BY <1>2, <2>3 DEF InitStructure
    <3> QED
      BY <2>1, <3>1, <3>2 DEF Setup, Working
  <2> QED
    BY <2>2, <2>3
<1>3. CASE InitConfig(p)
  <2>1. proc'[p].pc = "index" /\ \A q \in Proc \ {p} : proc'[q] = proc[q]
    BY <1>3, <1>b DEF InitConfig
  <2>2. config' # NoConfig /\ UNCHANGED <<made, crashed>> /\ proc[p].pc = "config"
    BY <1>3, SavedIsHeld, NoCommandIs DEF InitConfig
  <2> QED
    BY <2>1, <2>2 DEF Setup, Working
<1>4. CASE InitIndex(p)
  <2>1. proc'[p].pc = "HEAD" /\ \A q \in Proc \ {p} : proc'[q] = proc[q]
    BY <1>4, <1>b DEF InitIndex
  <2>2. made' = made \cup {"index"} /\ UNCHANGED <<config, crashed>> /\ proc[p].pc = "index"
    BY <1>4 DEF InitIndex
  <2> QED
    BY <2>1, <2>2 DEF Setup, Working
<1>5. CASE InitHead(p)
  <2>1. proc'[p].pc = "idle" /\ \A q \in Proc \ {p} : proc'[q] = proc[q]
    BY <1>0, <1>5, <1>a DEF InitHead
  <2>2. made' = made \cup {"HEAD"} /\ UNCHANGED <<config, crashed>> /\ proc[p].pc = "HEAD"
    BY <1>5 DEF InitHead
  <2> QED
    BY <2>1, <2>2 DEF Setup, Working
<1>6. CASE OpenRepo(p)
  <2>1. proc'[p].pc = "opened" /\ \A q \in Proc \ {p} : proc'[q] = proc[q]
    BY <1>6, <1>a DEF OpenRepo
  <2>2. made' = made \cup {"index"} /\ UNCHANGED <<config, crashed>> /\ proc[p].pc = "idle" /\ config # NoConfig
    BY <1>0, <1>6 DEF OpenRepo
  <2> QED
    BY <2>1, <2>2 DEF Setup, Working
<1>7. CASE OnlyReads(p)
  <2>1. proc'[p].pc = "idle" /\ \A q \in Proc \ {p} : proc'[q] = proc[q]
    BY <1>0, <1>7, <1>a DEF OnlyReads
  <2>2. UNCHANGED <<made, config, crashed>> /\ proc[p].pc = "opened"
    BY <1>7 DEF OnlyReads
  <2> QED
    BY <2>1, <2>2 DEF Setup, Working
<1>8. CASE SettingsCrash(p)
  <2>1. proc'[p].pc = "idle" /\ \A q \in Proc \ {p} : proc'[q] = proc[q]
    BY <1>0, <1>8, <1>a DEF SettingsCrash
  <2>2. UNCHANGED <<made, config>> /\ crashed'
    BY <1>8 DEF SettingsCrash
  <2> QED
    BY <2>1, <2>2 DEF Setup, Working
<1>9. ASSUME NEW d, Changed(p, d) PROVE Setup'
  <2>1. proc'[p].pc = "saving" /\ \A q \in Proc \ {p} : proc'[q] = proc[q]
    BY <1>9, <1>a DEF Changed
  <2>2. UNCHANGED <<made, config, crashed>> /\ proc[p].pc = "opened"
    BY <1>9 DEF Changed
  <2> QED
    BY <2>1, <2>2 DEF Setup, Working
<1>12. CASE Save(p)
  <2>1. proc'[p].pc = "idle" /\ \A q \in Proc \ {p} : proc'[q] = proc[q]
    BY <1>0, <1>12, <1>a DEF Save
  <2>2. config' # NoConfig /\ UNCHANGED <<made, crashed>> /\ proc[p].pc = "saving"
    BY <1>12, SavedIsHeld, NoCommandIs DEF Save
  <2> QED
    BY <2>1, <2>2 DEF Setup, Working
<1>10. ASSUME NEW v \in User, SetName(p, v) \/ SetEmail(p, v) PROVE Setup'
  BY <1>9, <1>10, Zenon DEF SetName, SetEmail
<1>11. ASSUME NEW n \in Remote, RemoveRemote(p, n) \/ \E u \in Url : AddRemote(p, n, u)
       PROVE  Setup'
  BY <1>9, <1>11, Zenon DEF RemoveRemote, AddRemote
<1> QED
  BY <1>p, <1>1, <1>2, <1>3, <1>4, <1>5, <1>6, <1>7, <1>8, <1>10, <1>11, <1>12 DEF InitStep

(* A repository that can be opened is whole: two inits at once, commands   *)
(* that meet an init, and crashes anywhere leave a config only in a made   *)
(* directory; and only a crash leaves one that cannot be opened.            *)
THEOREM OpenedIsWhole == SettingsSpec => []OpensWhole
<1>1. HoldsSettings /\ Setup => OpensWhole
  BY DEF Setup, OpensWhole, Stuck, Working
<1> QED
  BY <1>1, HoldsInit, HoldsNext, SetupInit, SetupNext, PTL DEF SettingsSpec

---------------------------------------------------------------------------
(* A process that is not behind holds what the file reads as, or one edit  *)
(* of that; one whose write another's rename has met is behind.            *)
NotBehind ==
    \A p \in Proc :
        /\ proc[p].pc = "opened" /\ p \notin behind =>
              config # NoConfig /\ proc[p].settings = Parsed(config)
        /\ proc[p].pc = "saving" /\ p \notin behind =>
              config # NoConfig /\ IsEdit(Parsed(config), proc[p].settings)
        /\ proc[p].pc = "saving" /\ p \in met => p \in behind

LEMMA NotBehindNext ==
  HoldsSettings /\ NotBehind /\ [SettingsNext]_setvars => NotBehind'
<1> SUFFICES ASSUME HoldsSettings, NotBehind, [SettingsNext]_setvars PROVE NotBehind'
  OBVIOUS
<1>c. ASSUME config' = config
      PROVE  /\ Parsed(config)' = Parsed(config)
             /\ \A d : IsEdit(Parsed(config), d)' <=> IsEdit(Parsed(config), d)
  BY <1>c DEF Parsed, IsEdit
<1>u. CASE UNCHANGED setvars
  <2>1. config' = config /\ proc' = proc /\ behind' = behind /\ met' = met
    BY <1>u DEF setvars
  <2> QED
    BY <1>c, <2>1 DEF NotBehind
<1> SUFFICES ASSUME SettingsNext PROVE NotBehind'
  BY <1>u
<1>p. PICK p \in Proc :
        \/ \E algo \in Algorithm : InitStart(p, algo)
        \/ InitStep(p)
        \/ OpenRepo(p) \/ OnlyReads(p) \/ Save(p)
        \/ \E v \in User : SetName(p, v) \/ SetEmail(p, v)
        \/ \E n \in Remote : RemoveRemote(p, n) \/ \E u \in Url : AddRemote(p, n, u)
        \/ SettingsCrash(p)
  BY DEF SettingsNext
<1>0. proc \in [Proc -> {NoCommand} \cup Commands] /\ NoCommand.pc = "idle"
  BY NoCommandIs DEF HoldsSettings
<1> DEFINE Abreast(q) ==
        /\ proc'[q].pc = "opened" /\ q \notin behind' =>
              config' # NoConfig /\ proc'[q].settings = Parsed(config')
        /\ proc'[q].pc = "saving" /\ q \notin behind' =>
              config' # NoConfig /\ IsEdit(Parsed(config'), proc'[q].settings)
        /\ proc'[q].pc = "saving" /\ q \in met' => q \in behind'
<1>k. (\A q \in Proc : Abreast(q)) => NotBehind'
  BY DEF NotBehind
<1>s. ASSUME config' = config, behind \subseteq behind' \cup {p}, met' \subseteq met,
             NEW q \in Proc \ {p}, proc'[q] = proc[q]
      PROVE  Abreast(q)
  BY <1>s DEF NotBehind
<1>w. ASSUME SaveConfig(p), NEW q \in Proc \ {p}, proc'[q] = proc[q]
      PROVE  Abreast(q)
  BY <1>w DEF SaveConfig
<1>i. ASSUME proc'[p].pc \notin {"opened", "saving"} PROVE Abreast(p)
  BY <1>i
<1> HIDE DEF Abreast
<1>2. ASSUME proc'[p].pc \notin {"opened", "saving"}, \A q \in Proc \ {p} : proc'[q] = proc[q],
             \/ SaveConfig(p)
             \/ config' = config /\ behind \subseteq behind' \cup {p} /\ met' \subseteq met
      PROVE  NotBehind'
  BY <1>2, <1>k, <1>s, <1>w, <1>i
<1>1. CASE OpenRepo(p)
  <2>1. /\ proc'[p] = [pc |-> "opened", settings |-> Parsed(config)]
        /\ \A q \in Proc \ {p} : proc'[q] = proc[q]
        /\ config' = config /\ config # NoConfig
        /\ behind \subseteq behind' \cup {p} /\ met' = met
    BY <1>0, <1>1 DEF OpenRepo
  <2>2. Abreast(p)
    BY <2>1 DEF Abreast
  <2> QED
    BY <2>1, <2>2, <1>k, <1>s
<1>3. ASSUME NEW algo \in Algorithm, InitStart(p, algo) PROVE NotBehind'
  BY <1>0, <1>2, <1>3 DEF InitStart
<1>4. CASE InitStructure(p)
  <2>1. CASE proc' = proc
    <3>1. proc[p].pc = "structure"
      BY <1>4 DEF InitStructure
    <3> QED
      BY <1>2, <1>4, <2>1, <3>1 DEF InitStructure
  <2>2. CASE proc' # proc
    <3>1. proc[p] \in Commands
      BY <1>4, AtWork DEF InitStructure
    <3> QED
      BY <1>0, <1>2, <1>4, <2>2, <3>1 DEF InitStructure, Commands
  <2> QED
    BY <2>1, <2>2
<1>5. CASE InitConfig(p) \/ InitIndex(p)
  <2>1. proc[p] \in Commands
    BY <1>5, AtWork DEF InitConfig, InitIndex
  <2>2. proc'[p].pc \notin {"opened", "saving"} /\ \A q \in Proc \ {p} : proc'[q] = proc[q]
    BY <1>0, <1>5, <2>1 DEF InitConfig, InitIndex, Commands
  <2> QED
    BY <1>2, <1>5, <2>2 DEF InitConfig, InitIndex
<1>6. CASE InitHead(p) \/ OnlyReads(p) \/ SettingsCrash(p) \/ Save(p)
  <2>1. proc'[p].pc \notin {"opened", "saving"} /\ \A q \in Proc \ {p} : proc'[q] = proc[q]
    BY <1>0, <1>6 DEF InitHead, OnlyReads, SettingsCrash, Save
  <2> QED
    BY <1>2, <1>6, <2>1 DEF InitHead, OnlyReads, SettingsCrash, Save
<1>7. ASSUME NEW d, Changed(p, d), IsEdit(proc[p].settings, d) PROVE NotBehind'
  <2>1. /\ proc'[p] = [pc |-> "saving", settings |-> d] /\ proc[p].pc = "opened"
        /\ \A q \in Proc \ {p} : proc'[q] = proc[q]
        /\ config' = config /\ behind' = behind /\ met' = met
    BY <1>0, <1>7 DEF Changed
  <2>2. p \notin met
    BY <2>1 DEF HoldsSettings, Writers
  <2>3. p \notin behind => config # NoConfig /\ IsEdit(Parsed(config), d)
    BY <1>7, <2>1 DEF NotBehind
  <2>4. Abreast(p)
    BY <1>c, <2>1, <2>2, <2>3 DEF Abreast
  <2> QED
    BY <1>k, <1>s, <2>1, <2>4
<1>8. ASSUME NEW v \in User, SetName(p, v) \/ SetEmail(p, v) PROVE NotBehind'
  BY <1>7, <1>8, Zenon DEF SetName, SetEmail, IsEdit
<1>9. ASSUME NEW n \in Remote, RemoveRemote(p, n) \/ \E u \in Url : AddRemote(p, n, u)
      PROVE  NotBehind'
  BY <1>7, <1>9, Zenon DEF RemoveRemote, AddRemote, IsEdit
<1> QED
  BY <1>p, <1>1, <1>3, <1>4, <1>5, <1>6, <1>8, <1>9 DEF InitStep

(* What OneAtATime says of a step. *)
ChangesOne ==
    \A p \in Proc :
        proc[p].pc = "saving" /\ p \notin behind /\ Writers = {p} /\ config' # config
        => /\ config'.algo = config.algo
           /\ \A x, y \in Differences(config, config') : x = y

LEMMA StepChangesOne ==
  HoldsSettings /\ NotBehind /\ [SettingsNext]_setvars => ChangesOne
<1> SUFFICES ASSUME HoldsSettings, NotBehind, [SettingsNext]_setvars, NEW p \in Proc,
                    proc[p].pc = "saving", p \notin behind, Writers = {p}, config' # config
             PROVE  /\ config'.algo = config.algo
                    /\ \A x, y \in Differences(config, config') : x = y
  BY DEF ChangesOne
<1>1. config \in Held /\ IsEdit(Parsed(config), proc[p].settings) /\ p \notin met
  BY DEF NotBehind, HoldsSettings
<1>2. PICK q \in Proc :
        \/ \E algo \in Algorithm : InitStart(q, algo)
        \/ InitStep(q)
        \/ OpenRepo(q) \/ OnlyReads(q) \/ Save(q)
        \/ \E v \in User : SetName(q, v) \/ SetEmail(q, v)
        \/ \E n \in Remote : RemoveRemote(q, n) \/ \E u \in Url : AddRemote(q, n, u)
        \/ SettingsCrash(q)
  BY DEF setvars, SettingsNext
<1>3. /\ ~InitStructure(q) /\ ~InitIndex(q) /\ ~InitHead(q) /\ ~OpenRepo(q) /\ ~OnlyReads(q)
      /\ ~SettingsCrash(q) /\ \A algo \in Algorithm : ~InitStart(q, algo)
      /\ \A d : ~Changed(q, d)
  BY DEF InitStructure, InitIndex, InitHead, OpenRepo, OnlyReads, SettingsCrash, InitStart, Changed
<1>4. InitConfig(q) \/ Save(q)
  BY <1>2, <1>3 DEF InitStep, SetName, SetEmail, RemoveRemote, AddRemote
<1>5. q = p /\ SaveConfig(q)
  BY <1>4 DEF InitConfig, Save, Writers
<1>6. config' = proc[p].settings
  BY <1>1, <1>5 DEF SaveConfig
<1> QED
  BY <1>1, <1>6, ParsedIs, EditIsSingle

(* flux config and flux remote, on a file that nobody has written since     *)
(* they read it and nobody else is writing, change one setting and lose    *)
(* none, for any settings, those of a garbled file included: the rest goes *)
(* through load_config and save_config.                                    *)
THEOREM OneSettingChanges == SettingsSpec => OneAtATime
<1>1. SettingsInit => NotBehind
  <2> SUFFICES ASSUME SettingsInit PROVE NotBehind
    OBVIOUS
  <2>1. \A p \in Proc : proc[p].pc = "idle"
    BY NoCommandIs DEF SettingsInit
  <2> QED
    BY <2>1 DEF NotBehind
<1>2. OneAtATime <=> [][ChangesOne]_setvars
  BY PTL DEF OneAtATime, ChangesOne
<1>3. SettingsSpec => [][ChangesOne]_setvars
  BY <1>1, HoldsInit, HoldsNext, NotBehindNext, StepChangesOne, PTL DEF SettingsSpec
<1> QED
  BY <1>2, <1>3

---------------------------------------------------------------------------
(***************************************************************************)
(* Flux's pack files.                                                      *)
(***************************************************************************)

(* Records of an index that point into the pack, of objects once written. *)
Fits(records, contents) ==
    \A i \in DOMAIN records : records[i] \in [id : written, at : DOMAIN contents]

Holds(taken) == [i \in DOMAIN taken |-> taken[i].holds]

Packing(s) == job[s] # NotPacking

PacksFit ==
    /\ loose \subseteq written /\ packed \subseteq written /\ written \subseteq Id
    /\ DOMAIN data \subseteq Pack /\ DOMAIN index \subseteq DOMAIN data
    /\ \A p \in DOMAIN data : data[p] \in Seq(written)
    /\ \A p \in DOMAIN index : Fits(index[p], data[p])
    /\ DOMAIN loaded = Instance
    /\ \A s \in Instance : \A p \in DOMAIN loaded[s] :
        p \in DOMAIN index /\ Fits(loaded[s][p], data[p])

(* A pack is filled by the one instance that named it, and once. *)
JobsFit ==
    /\ job \in [Instance -> {NotPacking} \cup Jobs]
    /\ \A s \in Instance : Packing(s) =>
        /\ job[s].got \in Seq([id : written, holds : written])
        /\ IF job[s].pc = "read" THEN job[s].pack \notin DOMAIN data
           ELSE job[s].pack \in DOMAIN data /\ data[job[s].pack] = Holds(job[s].got)
        /\ \A t \in Instance \ {s} : Packing(t) => job[t].pack # job[s].pack

PackShape == PacksFit /\ JobsFit

LEMMA IdleJob == NotPacking.pc = "idle" /\ \A j \in Jobs : j.pc \in {"read", "index", "rest"} /\ j # NotPacking
<1>1. NotPacking.pc = "idle" /\ \A j \in Jobs : j.pc \in {"read", "index", "rest"}
  BY DEF NotPacking, Jobs
<1> QED
  BY <1>1

LEMMA HoldsIs ==
  ASSUME NEW S, NEW taken \in Seq([id : S, holds : S])
  PROVE  /\ Holds(taken) \in Seq(S) /\ DOMAIN Holds(taken) = 1..Len(taken)
         /\ DOMAIN taken = 1..Len(taken) /\ Len(taken) \in Nat
         /\ \A i \in DOMAIN taken : /\ Holds(taken)[i] = taken[i].holds
                                  /\ taken[i].id \in S /\ taken[i].holds \in S
<1>1. DOMAIN taken = 1..Len(taken) /\ Len(taken) \in Nat /\ \A i \in DOMAIN taken : taken[i] \in [id : S, holds : S]
  BY LenProperties, ElementOfSeq
<1>2. Holds(taken) \in [1..Len(taken) -> S]
  BY <1>1 DEF Holds
<1> QED
  BY <1>1, <1>2, SeqDef DEF Holds

(* The records of a whole index, and of one cut short. *)
LEMMA RecordsIs ==
  ASSUME NEW taken \in Seq([id : written, holds : written])
  PROVE  /\ Records(taken) \in Seq([id : written, at : DOMAIN Holds(taken)])
         /\ DOMAIN Records(taken) = 1..Len(taken)
         /\ \A i \in DOMAIN taken : Records(taken)[i].id = taken[i].id /\ Records(taken)[i].at = i
         /\ Fits(Records(taken), Holds(taken))
<1>1. DOMAIN taken = 1..Len(taken) /\ Len(taken) \in Nat /\ DOMAIN Holds(taken) = 1..Len(taken)
      /\ \A i \in DOMAIN taken : taken[i].id \in written
  BY HoldsIs
<1>2. Records(taken) \in [1..Len(taken) -> [id : written, at : DOMAIN Holds(taken)]]
  BY <1>1 DEF Records
<1>3. DOMAIN Records(taken) = 1..Len(taken)
      /\ \A i \in DOMAIN taken : Records(taken)[i].id = taken[i].id /\ Records(taken)[i].at = i
  BY <1>1 DEF Records
<1>4. Records(taken) \in Seq([id : written, at : DOMAIN Holds(taken)])
  <2> DEFINE R == [id : written, at : DOMAIN Holds(taken)]
  <2> HIDE DEF R
  <2>1. Records(taken) \in [1..Len(taken) -> R]
    BY <1>2 DEF R
  <2>2. Records(taken) \in Seq(R)
    BY <1>1, <2>1, SeqDef
  <2> QED
    BY <2>2 DEF R
<1> QED
  BY <1>2, <1>3, <1>4 DEF Fits

LEMMA TornFits ==
  ASSUME NEW taken \in Seq([id : written, holds : written]), NEW records \in Torn(Records(taken))
  PROVE  Fits(records, Holds(taken))
<1> DEFINE R == [id : written, at : DOMAIN Holds(taken)]
           all == Records(taken)
<1>1. all \in Seq(R) /\ Len(all) \in Nat /\ DOMAIN all = 1..Len(all) /\ DOMAIN all = DOMAIN Holds(taken)
      /\ \A k \in DOMAIN all : all[k] \in R
  <2>1. all \in Seq(R) /\ DOMAIN all = 1..Len(taken) /\ DOMAIN Holds(taken) = 1..Len(taken)
    BY RecordsIs, HoldsIs
  <2> HIDE DEF all, R
  <2>2. Len(all) \in Nat /\ DOMAIN all = 1..Len(all) /\ \A k \in DOMAIN all : all[k] \in R
    BY <2>1, LenProperties, ElementOfSeq
  <2> QED
    BY <2>1, <2>2
<1>2. \A k \in 0..Len(all) : SubSeq(all, 1, k) \in Seq(R)
  <2> HIDE DEF all, R
  <2> QED
    BY <1>1, SubSeqProperties
<1>3. \A k \in DOMAIN all, n \in DOMAIN all : [id |-> all[k].id, at |-> n] \in R
  BY <1>1
<1>4. records \in Seq(R)
  <2>1. CASE \E k \in 0..Len(all) : records = SubSeq(all, 1, k)
    BY <1>2, <2>1
  <2>2. ASSUME NEW k \in DOMAIN all, NEW n \in DOMAIN all,
               records = Append(SubSeq(all, 1, k - 1), [id |-> all[k].id, at |-> n])
        PROVE  records \in Seq(R)
    <3> DEFINE e == [id |-> all[k].id, at |-> n]
    <3>1. k - 1 \in 0..Len(all) /\ e \in R
      BY <1>1, <1>3
    <3>2. SubSeq(all, 1, k - 1) \in Seq(R)
      BY <1>2, <3>1
    <3> HIDE DEF e, R, all
    <3>3. Append(SubSeq(all, 1, k - 1), e) \in Seq(R)
      BY <3>1, <3>2, AppendProperties
    <3> QED
      BY <2>2, <3>3 DEF e
  <2>3. \/ \E k \in 0..Len(all) : records = SubSeq(all, 1, k)
        \/ \E k \in DOMAIN all, n \in DOMAIN all :
              records = Append(SubSeq(all, 1, k - 1), [id |-> all[k].id, at |-> n])
    <3>1. records \in {SubSeq(all, 1, k) : k \in 0..Len(all)}
          \/ \E k \in DOMAIN all :
                records \in {Append(SubSeq(all, 1, k - 1), [id |-> all[k].id, at |-> n]) : n \in DOMAIN all}
      BY DEF Torn
    <3> QED
      BY <3>1
  <2> QED
    BY <2>1, <2>2, <2>3
<1>5. \A i \in DOMAIN records : records[i] \in R
  <2> HIDE DEF R
  <2> QED
    BY <1>4, LenProperties, ElementOfSeq
<1> QED
  BY <1>5 DEF Fits

(* Reading finds the contents of objects that were written, and an object  *)
(* that is not loose only where an index names it.                         *)
LEMMA ContentsWritten ==
  ASSUME PacksFit, NEW s \in Instance, NEW id, NEW c \in Contents(s, id)
  PROVE  c \in written /\ id \in written /\ (id \in loose => c = id)
<1>1. CASE id \in loose
  BY <1>1 DEF Contents, PacksFit
<1>2. CASE id \notin loose
  <2>p. PICK p \in DOMAIN loaded[s] :
            c \in {data[p][loaded[s][p][i].at] : i \in LastOf(loaded[s][p], id)}
    BY <1>2 DEF Contents
  <2>1. PICK i \in LastOf(loaded[s][p], id) : c = data[p][loaded[s][p][i].at]
    BY <2>p
  <2>2. i \in DOMAIN loaded[s][p] /\ loaded[s][p][i].id = id
    BY <2>1 DEF LastOf, PlacesOf
  <2>3. loaded[s][p][i] \in [id : written, at : DOMAIN data[p]] /\ data[p] \in Seq(written)
    BY <2>2 DEF PacksFit, Fits
  <2>4. loaded[s][p][i].at \in DOMAIN data[p]
    BY <2>3
  <2>5. data[p][loaded[s][p][i].at] \in written
    BY <2>3, <2>4, LenProperties, ElementOfSeq
  <2> QED
    BY <1>2, <2>1, <2>2, <2>3, <2>5
<1> QED
  BY <1>1, <1>2

---------------------------------------------------------------------------
LEMMA PackShapeInit == PackInit => PackShape
<1> SUFFICES ASSUME PackInit PROVE PackShape
  OBVIOUS
<1>1. DOMAIN data = {} /\ DOMAIN index = {} /\ \A s \in Instance : DOMAIN loaded[s] = {}
  BY DEF PackInit, Closed
<1>2. PacksFit
  BY <1>1 DEF PackInit, PacksFit
<1>3. JobsFit
  BY DEF PackInit, JobsFit, Packing
<1> QED
  BY <1>2, <1>3 DEF PackShape

(* Sequences of what was written stay so. *)
LEMMA WrittenGrows ==
  ASSUME PacksFit, written \subseteq written', UNCHANGED <<data, index, loaded>>,
         loose' \subseteq written', packed' \subseteq written', written' \subseteq Id
  PROVE  PacksFit'
<1>1. \A p \in DOMAIN data' : data'[p] \in Seq(written')
  BY SeqMonotonic DEF PacksFit
<1>2. \A r, contents : Fits(r, contents) => Fits(r, contents)'
  <2> SUFFICES ASSUME NEW r, NEW contents, Fits(r, contents),
                      NEW i \in DOMAIN r
               PROVE  r[i] \in [id : written', at : DOMAIN contents]
    BY DEF Fits
  <2>1. r[i] \in [id : written, at : DOMAIN contents]
    BY DEF Fits
  <2> QED
    BY <2>1
<1> QED
  BY <1>1, <1>2 DEF PacksFit, Fits

(* An instance goes on with job j, and nothing of the others' packs changes. *)
LEMMA JobGoes ==
  ASSUME JobsFit, UNCHANGED written, NEW s \in Instance, NEW j \in {NotPacking} \cup Jobs,
         job' = [job EXCEPT ![s] = j],
         j # NotPacking =>
            /\ j.got \in Seq([id : written, holds : written])
            /\ IF j.pc = "read" THEN j.pack \notin DOMAIN data'
               ELSE j.pack \in DOMAIN data' /\ data'[j.pack] = Holds(j.got)
            /\ \A t \in Instance \ {s} : Packing(t) => job[t].pack # j.pack,
         \A t \in Instance \ {s} : Packing(t) =>
            /\ job[t].pack \in DOMAIN data' <=> job[t].pack \in DOMAIN data
            /\ job[t].pack \in DOMAIN data => data'[job[t].pack] = data[job[t].pack]
  PROVE  JobsFit'
<1>1. /\ job \in [Instance -> {NotPacking} \cup Jobs]
      /\ job' \in [Instance -> {NotPacking} \cup Jobs]
      /\ job'[s] = j /\ \A t \in Instance \ {s} : job'[t] = job[t]
  BY DEF JobsFit
<1>2. ASSUME NEW t \in Instance, Packing(t)'
      PROVE  /\ job'[t].got \in Seq([id : written', holds : written'])
             /\ IF job'[t].pc = "read" THEN job'[t].pack \notin DOMAIN data'
                ELSE job'[t].pack \in DOMAIN data' /\ data'[job'[t].pack] = Holds(job'[t].got)
             /\ \A u \in Instance \ {t} : Packing(u)' => job'[u].pack # job'[t].pack
  <2>1. CASE t = s
    BY <1>1, <1>2, <2>1 DEF Packing
  <2>2. CASE t # s
    <3>1. Packing(t) /\ job'[t] = job[t]
      BY <1>1, <1>2, <2>2 DEF Packing
    <3>2. /\ job[t].got \in Seq([id : written, holds : written])
          /\ IF job[t].pc = "read" THEN job[t].pack \notin DOMAIN data
             ELSE job[t].pack \in DOMAIN data /\ data[job[t].pack] = Holds(job[t].got)
          /\ \A u \in Instance \ {t} : Packing(u) => job[u].pack # job[t].pack
      BY <3>1 DEF JobsFit
    <3>3. \A u \in Instance \ {t} : Packing(u)' => job'[u].pack # job'[t].pack
      BY <1>1, <2>2, <3>1, <3>2 DEF Packing
    <3> QED
      BY <2>2, <3>1, <3>2, <3>3
  <2> QED
    BY <2>1, <2>2
<1> QED
  BY <1>1, <1>2 DEF JobsFit

LEMMA JobIs ==
  ASSUME JobsFit, NEW s \in Instance, job[s].pc # "idle"
  PROVE  /\ job[s] \in Jobs /\ Packing(s)
         /\ job[s].got \in Seq([id : written, holds : written])
         /\ \A c \in {"read", "index", "rest"} :
              /\ [job[s] EXCEPT !.pc = c] \in Jobs /\ [job[s] EXCEPT !.pc = c].pc = c
              /\ [job[s] EXCEPT !.pc = c].got = job[s].got
              /\ [job[s] EXCEPT !.pc = c].pack = job[s].pack
<1>1. job[s] \in Jobs /\ Packing(s)
  BY IdleJob DEF JobsFit, Packing
<1>2. job[s].got \in Seq([id : written, holds : written])
  BY <1>1 DEF JobsFit
<1> QED
  BY <1>1, <1>2 DEF Jobs

LEMMA PackShapeNext ==
  PackShape /\ [PackNext]_packvars => PackShape'
<1> SUFFICES ASSUME PacksFit, JobsFit, PackNext PROVE PacksFit' /\ JobsFit'
  <2>1. CASE UNCHANGED packvars
    BY <2>1 DEF packvars, PackShape, PacksFit, JobsFit, Fits, Packing
  <2> QED
    BY <2>1 DEF PackShape
<1>1. ASSUME NEW id \in Id, WriteLoose(id) \/ RemoveLoose(id) PROVE PacksFit' /\ JobsFit'
  <2>1. /\ written \subseteq written' /\ UNCHANGED <<data, index, job, loaded>>
        /\ loose' \subseteq written' /\ packed' \subseteq written' /\ written' \subseteq Id
    BY <1>1 DEF WriteLoose, RemoveLoose, PacksFit
  <2>2. PacksFit'
    BY <2>1, WrittenGrows
  <2>3. \A taken \in Seq([id : written, holds : written]) : taken \in Seq([id : written', holds : written'])
    <3>1. [id : written, holds : written] \subseteq [id : written', holds : written']
      BY <2>1
    <3> HIDE <2>1
    <3> QED
      BY <3>1, SeqMonotonic
  <2>4. JobsFit'
    BY <2>1, <2>3 DEF JobsFit, Packing
  <2> QED
    BY <2>2, <2>4
<1> SUFFICES ASSUME NEW s \in Instance,
                    \/ OpenStore(s)
                    \/ \E ids \in Lists : PackBegin(s, ids)
                    \/ PackRead(s) \/ PackWrite(s) \/ IndexPart(s) \/ IndexWhole(s)
                    \/ PackCrash(s)
             PROVE  PacksFit' /\ JobsFit'
  BY <1>1 DEF PackNext
<1>2. CASE OpenStore(s)
  <2>1. UNCHANGED <<loose, written, data, index, job, packed>>
        /\ loaded' = [loaded EXCEPT ![s] = [p \in DOMAIN index |-> Loaded(index[p])]]
    BY <1>2 DEF OpenStore
  <2>2. ASSUME NEW p \in DOMAIN index PROVE Fits(Loaded(index[p]), data[p])
    <3>1. Fits(index[p], data[p])
      BY DEF PacksFit
    <3>2. \A i \in DOMAIN Loaded(index[p]) : i \in DOMAIN index[p] /\ Loaded(index[p])[i] = index[p][i]
      BY DEF Loaded
    <3> QED
      BY <3>1, <3>2 DEF Fits
  <2>3. DOMAIN loaded' = Instance /\ \A t \in Instance : \A p \in DOMAIN loaded'[t] :
            p \in DOMAIN index /\ Fits(loaded'[t][p], data[p])
    <3>1. loaded'[s] = [p \in DOMAIN index |-> Loaded(index[p])]
          /\ \A t \in Instance \ {s} : loaded'[t] = loaded[t]
      BY <2>1 DEF PacksFit
    <3>2. \A p \in DOMAIN loaded'[s] : p \in DOMAIN index /\ Fits(loaded'[s][p], data[p])
      BY <2>2, <3>1
    <3> QED
      BY <2>1, <3>1, <3>2 DEF PacksFit
  <2>4. PacksFit'
    <3>1. UNCHANGED <<loose, written, data, index, job, packed>>
      BY <2>1
    <3>2. \A t \in Instance : \A p \in DOMAIN loaded'[t] :
            p \in DOMAIN index' /\ Fits(loaded[t][p], data[p])'
      <4> SUFFICES ASSUME NEW t \in Instance, NEW p \in DOMAIN loaded'[t]
                   PROVE  p \in DOMAIN index' /\ Fits(loaded[t][p], data[p])'
        OBVIOUS
      <4>1. p \in DOMAIN index /\ Fits(loaded'[t][p], data[p])
        BY <2>3
      <4> QED
        BY <3>1, <4>1 DEF Fits
    <3>3. \A p \in DOMAIN index' : Fits(index[p], data[p])'
      BY <3>1 DEF PacksFit, Fits
    <3>4. DOMAIN loaded' = Instance
      BY <2>3
    <3> QED
      BY <3>1, <3>2, <3>3, <3>4 DEF PacksFit
  <2> QED
    BY <2>1, <2>4 DEF JobsFit, Packing
<1>3. ASSUME NEW ids \in Lists, PackBegin(s, ids) PROVE PacksFit' /\ JobsFit'
  <2>1. PICK p \in Pack \ DOMAIN data :
            /\ \A t \in Instance : job[t].pc # "idle" => job[t].pack # p
            /\ job' = [job EXCEPT ![s] = [pc |-> "read", pack |-> p, todo |-> ids, got |-> <<>>]]
    BY <1>3 DEF PackBegin
  <2>2. UNCHANGED <<loose, written, data, index, loaded, packed>>
    BY <1>3 DEF PackBegin
  <2> DEFINE j == [pc |-> "read", pack |-> p, todo |-> ids, got |-> <<>>]
  <2>3. ids \in Seq(Id) /\ <<>> \in Seq([id : Id, holds : Id]) /\ <<>> \in Seq([id : written, holds : written])
    BY PackAssumption, EmptySeq
  <2>4. j \in Jobs /\ j.pc = "read" /\ j.pack = p /\ j.got \in Seq([id : written, holds : written])
    BY <2>3 DEF Jobs
  <2>5. \A t \in Instance : Packing(t) => job[t].pack # p
    BY <2>1, IdleJob DEF JobsFit, Packing
  <2>6. job' = [job EXCEPT ![s] = j]
    BY <2>1
  <2> HIDE DEF j
  <2>7. JobsFit'
    BY <2>2, <2>4, <2>5, <2>6, JobGoes
  <2> QED
    BY <2>2, <2>7 DEF PacksFit, Fits
<1>4. CASE PackRead(s)
  <2>1. /\ UNCHANGED <<loose, written, data, index, loaded, packed>>
        /\ job[s].pc = "read" /\ job[s].todo # <<>>
    BY <1>4 DEF PackRead
  <2>2. job[s] \in Jobs /\ Packing(s) /\ job[s].got \in Seq([id : written, holds : written])
    BY <2>1, JobIs
  <2> DEFINE id == Head(job[s].todo)
             read == {[id |-> id, holds |-> c] : c \in Contents(s, id)}
  <2>3. PICK taken \in IF read = {} THEN {job[s].got} ELSE {Append(job[s].got, r) : r \in read} :
            job' = [job EXCEPT ![s].todo = Tail(@), ![s].got = taken]
    BY <1>4 DEF PackRead
  <2>4. read \subseteq [id : written, holds : written]
    <3>1. \A c \in Contents(s, id) : c \in written /\ id \in written
      BY ContentsWritten
    <3> HIDE DEF id
    <3> QED
      BY <3>1
  <2>5. taken \in Seq([id : written, holds : written])
    <3>1. CASE read = {}
      BY <2>2, <2>3, <3>1
    <3>2. CASE read # {}
      <4>1. PICK r \in read : taken = Append(job[s].got, r)
        BY <2>3, <3>2
      <4>2. r \in [id : written, holds : written]
        BY <2>4
      <4> HIDE DEF read
      <4> QED
        BY <2>2, <4>1, <4>2, AppendProperties
    <3> QED
      BY <3>1, <3>2
  <2> HIDE DEF id, read
  <2>6. taken \in Seq([id : Id, holds : Id])
    <3>1. [id : written, holds : written] \subseteq [id : Id, holds : Id]
      BY DEF PacksFit
    <3> QED
      BY <2>5, <3>1, SeqMonotonic
  <2>7. Tail(job[s].todo) \in Seq(Id)
    BY <2>1, <2>2, HeadTailProperties DEF Jobs
  <2> DEFINE rest == Tail(job[s].todo)
             j == [[job[s] EXCEPT !.todo = rest] EXCEPT !.got = taken]
  <2>8. job' = [job EXCEPT ![s] = j]
    BY <2>2, <2>3 DEF JobsFit, Jobs
  <2>9. j \in Jobs /\ j.pc = "read" /\ j.pack = job[s].pack /\ j.got = taken
    <3> HIDE DEF rest
    <3> QED
      BY <2>1, <2>2, <2>6, <2>7 DEF Jobs, rest
  <2>10. job[s].pack \notin DOMAIN data /\ \A t \in Instance \ {s} : Packing(t) => job[t].pack # job[s].pack
    BY <2>1, <2>2 DEF JobsFit
  <2> HIDE DEF j, rest
  <2>11. JobsFit'
    BY <2>1, <2>5, <2>8, <2>9, <2>10, JobGoes
  <2> QED
    BY <2>1, <2>11 DEF PacksFit, Fits
<1>5. CASE PackWrite(s)
  <2> DEFINE p == job[s].pack
             j == [job[s] EXCEPT !.pc = "index"]
  <2>1. /\ job[s].pc = "read" /\ UNCHANGED <<loose, written, index, loaded, packed>>
        /\ data' = [q \in DOMAIN data \cup {p} |-> IF q = p THEN Holds(job[s].got) ELSE data[q]]
        /\ job' = [job EXCEPT ![s] = j]
    BY <1>5 DEF PackWrite, Holds
  <2>2. /\ job[s] \in Jobs /\ Packing(s) /\ job[s].got \in Seq([id : written, holds : written])
        /\ j \in Jobs /\ j.pc = "index" /\ j.got = job[s].got /\ j.pack = p
    BY <2>1, JobIs
  <2>3. p \notin DOMAIN data /\ p \in Pack /\ \A t \in Instance \ {s} : Packing(t) => job[t].pack # p
    BY <2>1, <2>2 DEF JobsFit, Jobs
  <2>4. Holds(job[s].got) \in Seq(written)
    BY <2>2, HoldsIs
  <2> HIDE DEF j, p
  <2>5. /\ DOMAIN data' = DOMAIN data \cup {p} /\ data'[p] = Holds(job[s].got)
        /\ \A q \in DOMAIN data : data'[q] = data[q]
    BY <2>1, <2>3
  <2>6. JobsFit'
    <3>1. ASSUME NEW t \in Instance \ {s}, Packing(t)
          PROVE  /\ job[t].pack \in DOMAIN data' <=> job[t].pack \in DOMAIN data
                 /\ job[t].pack \in DOMAIN data => data'[job[t].pack] = data[job[t].pack]
      BY <2>3, <2>5, <3>1
    <3>2. p \in DOMAIN data'
      BY <2>5
    <3> QED
      BY <2>1, <2>2, <2>3, <2>5, <3>1, <3>2, JobGoes
  <2>7. PacksFit'
    BY <2>1, <2>3, <2>4, <2>5 DEF PacksFit, Fits
  <2> QED
    BY <2>6, <2>7
<1>6. ASSUME NEW records, Fits(records, Holds(job[s].got)), job[s].pc \in {"index", "rest"},
             index' = WithIndex(job[s].pack, records),
             UNCHANGED <<loose, written, data, loaded>>, packed' \subseteq written,
             NEW j, j = NotPacking \/ j = [job[s] EXCEPT !.pc = "rest"],
             job' = [job EXCEPT ![s] = j]
      PROVE  PacksFit' /\ JobsFit'
  <2> DEFINE p == job[s].pack
  <2>1. job[s] \in Jobs /\ Packing(s) /\ job[s].got \in Seq([id : written, holds : written])
    BY <1>6, JobIs
  <2>2. /\ p \in DOMAIN data /\ data[p] = Holds(job[s].got)
        /\ \A t \in Instance \ {s} : Packing(t) => job[t].pack # p
    BY <1>6, <2>1 DEF JobsFit
  <2>3. j \in {NotPacking} \cup Jobs
        /\ (j # NotPacking => j.got = job[s].got /\ j.pack = p /\ j.pc = "rest")
    BY <1>6, JobIs
  <2> HIDE DEF p
  <2>4. JobsFit'
    BY <1>6, <2>1, <2>2, <2>3, JobGoes
  <2>5. /\ DOMAIN index' = DOMAIN index \cup {p} /\ index'[p] = records
        /\ \A q \in DOMAIN index \ {p} : index'[q] = index[q]
    BY <1>6 DEF WithIndex, p
  <2>6. PacksFit'
    BY <1>6, <2>2, <2>5 DEF PacksFit, Fits
  <2> QED
    BY <2>4, <2>6
<1>7. CASE IndexPart(s)
  <2>1. PICK records \in Torn(Records(job[s].got)) : index' = WithIndex(job[s].pack, records)
    BY <1>7 DEF IndexPart
  <2>2. Fits(records, Holds(job[s].got))
    BY <1>7, JobIs, TornFits DEF IndexPart
  <2> QED
    BY <1>6, <1>7, <2>1, <2>2 DEF IndexPart, PacksFit
<1>8. CASE IndexWhole(s)
  <2>1. Fits(Records(job[s].got), Holds(job[s].got))
        /\ \A i \in DOMAIN job[s].got : job[s].got[i].id \in written
    BY <1>8, JobIs, RecordsIs, HoldsIs DEF IndexWhole
  <2> QED
    BY <1>6, <1>8, <2>1 DEF IndexWhole, PacksFit
<1>9. CASE PackCrash(s)
  <2>1. /\ UNCHANGED <<loose, written, data, index, packed>>
        /\ job' = [job EXCEPT ![s] = NotPacking] /\ loaded' = [loaded EXCEPT ![s] = Closed]
    BY <1>9 DEF PackCrash
  <2>2. JobsFit'
    BY <2>1, JobGoes
  <2>3. DOMAIN loaded' = Instance /\ DOMAIN loaded'[s] = {} /\ \A t \in Instance \ {s} : loaded'[t] = loaded[t]
    BY <2>1 DEF PacksFit, Closed
  <2> QED
    BY <2>1, <2>2, <2>3 DEF PacksFit, Fits
<1> QED
  BY <1>2, <1>3, <1>4, <1>5, <1>7, <1>8, <1>9
(* What loose files, packs and packings hold stays well typed, with any    *)
(* number of instances and crashes, and indexes cut short among the packs. *)
THEOREM PackTyping == PackSpec => []PackTypeOK
<1>1. PackShape => PackTypeOK
  <2> SUFFICES ASSUME PacksFit, JobsFit PROVE PackTypeOK
    BY DEF PackShape
  <2>1. ASSUME NEW records, NEW p \in DOMAIN data, Fits(records, data[p])
        PROVE  RecordsOK(records, data[p])
    <3>1. DOMAIN data[p] \subseteq Nat
      BY LenProperties DEF PacksFit
    <3> QED
      BY <2>1, <3>1 DEF Fits, RecordsOK, Record, PacksFit
  <2> QED
    BY <2>1 DEF PacksFit, JobsFit, PackTypeOK
<1> QED
  BY <1>1, PackShapeInit, PackShapeNext, PTL DEF PackSpec

---------------------------------------------------------------------------
(* No packing writes the pack p any more. *)
Finished(p) == \A s \in Instance : Packing(s) => job[s].pack # p

(* The pack p finds the id, or has it among hashes not of 32 bytes. *)
Finds(p, id) == Kept(index[p], data[p], id) \/ Misread(index[p], id)

(* An object is removed only once a finished pack has it: no job will      *)
(* write that pack again.  A packing may have read a wrong object, through *)
(* an index cut short, but only in place of one that is packed already.    *)
Safe ==
    /\ written \ loose \subseteq packed
    /\ \A id \in packed : \E p \in DOMAIN index : Finished(p) /\ Finds(p, id)
    /\ \A s \in Instance : Packing(s) =>
        \A i \in DOMAIN job[s].got :
            job[s].got[i].holds = job[s].got[i].id \/ job[s].got[i].id \in packed

(* A whole index of a packing that read every object with this id rightly  *)
(* finds it, or misreads a hash before it.                                 *)
LEMMA WholeFinds ==
  ASSUME NEW S, NEW taken \in Seq([id : S, holds : S]), NEW n \in DOMAIN taken,
         \A i \in DOMAIN taken : taken[i].id = taken[n].id => taken[i].holds = taken[i].id
  PROVE  Kept(Records(taken), Holds(taken), taken[n].id) \/ Misread(Records(taken), taken[n].id)
<1> DEFINE all == Records(taken)
           id == taken[n].id
<1>1. DOMAIN taken = 1..Len(taken) /\ Len(taken) \in Nat /\ \A i \in DOMAIN taken : Holds(taken)[i] = taken[i].holds
  BY HoldsIs
<1>2. DOMAIN all = DOMAIN taken /\ \A i \in DOMAIN taken : all[i].id = taken[i].id /\ all[i].at = i
  BY DEF Records
<1>3. \A i \in DOMAIN Loaded(all) : i \in DOMAIN all /\ Loaded(all)[i] = all[i]
  BY DEF Loaded
<1>4. \A i \in PlacesOf(Loaded(all), id) : Holds(taken)[all[i].at] = id
  BY <1>1, <1>2, <1>3 DEF PlacesOf
<1>5. n \in PlacesOf(all, id)
  BY <1>2 DEF PlacesOf
<1>6. CASE \A j \in 1..n : all[j].id \in Sha256
  <2>1. n \in DOMAIN Loaded(all)
    BY <1>2, <1>6 DEF Loaded
  <2>2. n \in PlacesOf(Loaded(all), id)
    BY <1>2, <1>3, <2>1 DEF PlacesOf
  <2> HIDE DEF all, id
  <2>3. Kept(all, Holds(taken), id)
    BY <1>4, <2>2 DEF Kept
  <2> QED
    BY <2>3 DEF all, id
<1>7. CASE ~\A j \in 1..n : all[j].id \in Sha256
  <2> HIDE DEF all, id
  <2>1. Misread(all, id)
    BY <1>5, <1>7 DEF Misread
  <2> QED
    BY <2>1 DEF all, id
<1> QED
  BY <1>6, <1>7

LEMMA SafeInit == PackInit => Safe
<1> SUFFICES ASSUME PackInit PROVE Safe
  OBVIOUS
<1>1. written = {} /\ packed = {} /\ \A s \in Instance : ~Packing(s)
  BY DEF PackInit, Packing
<1> QED
  BY <1>1 DEF Safe

(* Finished packs stay as they are. *)
LEMMA SafeStays ==
  ASSUME Safe, packed' = packed, written' \ loose' \subseteq packed,
         \A p \in DOMAIN index : Finished(p) =>
            /\ p \in DOMAIN index' /\ index'[p] = index[p] /\ data'[p] = data[p]
            /\ Finished(p)',
         \A s \in Instance : Packing(s)' =>
            \A i \in DOMAIN job'[s].got :
                job'[s].got[i].holds = job'[s].got[i].id \/ job'[s].got[i].id \in packed
  PROVE  Safe'
<1>1. ASSUME NEW id \in packed
      PROVE  \E p \in DOMAIN index' : Finished(p)' /\ Finds(p, id)'
  <2>1. PICK p \in DOMAIN index : Finished(p) /\ Finds(p, id)
    BY <1>1 DEF Safe
  <2>2. /\ p \in DOMAIN index' /\ index'[p] = index[p] /\ data'[p] = data[p]
        /\ Finished(p)'
    BY <2>1
  <2>3. Finds(p, id)'
    BY <2>1, <2>2 DEF Finds, Kept, Misread, PlacesOf, Loaded
  <2> QED
    BY <2>2, <2>3
<1> QED
  BY <1>1 DEF Safe

LEMMA SafeNext == PackShape /\ Safe /\ [PackNext]_packvars => Safe'
<1> SUFFICES ASSUME PacksFit, JobsFit, Safe, [PackNext]_packvars PROVE Safe'
  BY DEF PackShape
<1>0. CASE UNCHANGED packvars
  BY <1>0, SafeStays DEF packvars, Safe, Finished, Packing
<1>1. ASSUME NEW id \in Id, WriteLoose(id) \/ RemoveLoose(id) PROVE Safe'
  <2>1. UNCHANGED <<data, index, job, packed>> /\ written' \ loose' \subseteq packed
    BY <1>1 DEF WriteLoose, RemoveLoose, Safe
  <2> QED
    BY <2>1, SafeStays DEF Safe, Finished, Packing
<1> SUFFICES ASSUME NEW s \in Instance,
                    \/ OpenStore(s)
                    \/ \E ids \in Lists : PackBegin(s, ids)
                    \/ PackRead(s) \/ PackWrite(s) \/ IndexPart(s) \/ IndexWhole(s)
                    \/ PackCrash(s)
             PROVE  Safe'
  BY <1>0, <1>1 DEF PackNext
<1>2. ASSUME NEW j, job' = [job EXCEPT ![s] = j]
      PROVE  job'[s] = j /\ \A t \in Instance \ {s} : job'[t] = job[t]
  BY <1>2 DEF JobsFit
<1>3. CASE OpenStore(s)
  BY <1>3, SafeStays DEF OpenStore, Safe, Finished, Packing
<1>4. ASSUME NEW ids \in Lists, PackBegin(s, ids) PROVE Safe'
  <2>0. PICK p \in Pack \ DOMAIN data :
            job' = [job EXCEPT ![s] = [pc |-> "read", pack |-> p, todo |-> ids, got |-> <<>>]]
    BY <1>4 DEF PackBegin
  <2>1. PICK j :
            /\ j = [pc |-> "read", pack |-> p, todo |-> ids, got |-> <<>>]
            /\ job' = [job EXCEPT ![s] = j]
    BY <2>0
  <2>2. job'[s].pack = p /\ DOMAIN job'[s].got = {} /\ \A t \in Instance \ {s} : job'[t] = job[t]
    <3>1. job'[s] = j /\ \A t \in Instance \ {s} : job'[t] = job[t]
      BY <1>2, <2>1
    <3> QED
      BY <2>1, <3>1
  <2>3. UNCHANGED <<loose, written, data, index, packed>> /\ p \notin DOMAIN index
    BY <1>4 DEF PackBegin, PacksFit
  <2> QED
    BY <2>2, <2>3, SafeStays DEF Safe, Finished, Packing
<1>5. CASE PackRead(s)
  <2>1. /\ UNCHANGED <<loose, written, data, index, loaded, packed>>
        /\ job[s].pc = "read" /\ job[s].todo # <<>>
    BY <1>5 DEF PackRead
  <2>2. job[s] \in Jobs /\ Packing(s) /\ job[s].got \in Seq([id : written, holds : written])
    BY <2>1, JobIs
  <2> DEFINE id == Head(job[s].todo)
             read == {[id |-> id, holds |-> c] : c \in Contents(s, id)}
  <2>3. PICK taken \in IF read = {} THEN {job[s].got} ELSE {Append(job[s].got, r) : r \in read} :
            job' = [job EXCEPT ![s].todo = Tail(@), ![s].got = taken]
    BY <1>5 DEF PackRead
  <2>4. \A r \in read : r \in [id : written, holds : written] /\ (r.holds = r.id \/ r.id \in packed)
    <3>1. \A c \in Contents(s, id) : c \in written /\ id \in written /\ (c = id \/ id \in packed)
      BY ContentsWritten DEF Safe
    <3> HIDE DEF id
    <3> QED
      BY <3>1
  <2> HIDE DEF id, read
  <2>5. \A i \in DOMAIN taken : taken[i].holds = taken[i].id \/ taken[i].id \in packed
    <3>1. \A i \in DOMAIN job[s].got :
            job[s].got[i].holds = job[s].got[i].id \/ job[s].got[i].id \in packed
      BY <2>2 DEF Safe
    <3>2. CASE taken = job[s].got
      BY <3>1, <3>2
    <3>3. CASE taken # job[s].got
      <4>1. PICK r \in read : taken = Append(job[s].got, r)
        BY <2>3, <3>3
      <4>2. r \in [id : written, holds : written] /\ (r.holds = r.id \/ r.id \in packed)
        BY <2>4
      <4> DEFINE old == job[s].got
      <4>3. DOMAIN old = 1..Len(old) /\ Len(old) \in Nat
        BY <2>2, LenProperties
      <4>4. /\ DOMAIN taken = 1..(Len(old) + 1) /\ taken[Len(old) + 1] = r
            /\ \A i \in 1..Len(old) : taken[i] = old[i]
        <5> HIDE DEF old
        <5>1. old \in Seq([id : written, holds : written])
          BY <2>2 DEF old
        <5> QED
          BY <4>1, <4>2, <5>1, AppendProperties, LenProperties DEF old
      <4>5. ASSUME NEW i \in DOMAIN taken PROVE taken[i].holds = taken[i].id \/ taken[i].id \in packed
        <5>1. CASE i = Len(old) + 1
          BY <4>2, <4>4, <5>1
        <5>2. CASE i # Len(old) + 1
          <6>1. i \in 1..Len(old)
            BY <4>3, <4>4, <5>2
          <6> QED
            BY <3>1, <4>3, <4>4, <6>1
        <5> QED
          BY <5>1, <5>2
      <4> QED
        BY <4>5
    <3> QED
      BY <3>2, <3>3
  <2>6. job'[s].got = taken /\ job'[s].pack = job[s].pack /\ \A t \in Instance \ {s} : job'[t] = job[t]
    BY <2>2, <2>3 DEF JobsFit, Jobs
  <2> QED
    BY <2>1, <2>2, <2>5, <2>6, SafeStays DEF Safe, Finished, Packing
<1>6. CASE PackWrite(s)
  <2> DEFINE p == job[s].pack
             j == [job[s] EXCEPT !.pc = "index"]
  <2>1. /\ job[s].pc = "read" /\ UNCHANGED <<loose, written, index, loaded, packed>>
        /\ data' = [q \in DOMAIN data \cup {p} |-> IF q = p THEN Holds(job[s].got) ELSE data[q]]
        /\ job' = [job EXCEPT ![s] = j]
    BY <1>6 DEF PackWrite, Holds
  <2>2. job[s] \in Jobs /\ Packing(s) /\ j.got = job[s].got /\ j.pack = p
    BY <2>1, JobIs
  <2>3. p \notin DOMAIN data
    BY <2>1, <2>2 DEF JobsFit
  <2> HIDE DEF j, p
  <2>4. job'[s] = j /\ \A t \in Instance \ {s} : job'[t] = job[t]
    BY <1>2, <2>1
  <2>5. \A q \in DOMAIN index : q \in DOMAIN data /\ data'[q] = data[q]
    BY <2>1, <2>3 DEF PacksFit
  <2>6. UNCHANGED <<loose, written, index, packed>>
    BY <2>1
  <2>7. job'[s].got = job[s].got /\ job'[s].pack = job[s].pack
    BY <2>2, <2>4 DEF p
  <2> QED
    BY <2>2, <2>4, <2>5, <2>6, <2>7, SafeStays DEF Safe, Finished, Packing
<1>7. CASE IndexPart(s)
  <2> DEFINE j == [job[s] EXCEPT !.pc = "rest"]
  <2>1. PICK records \in Torn(Records(job[s].got)) : index' = WithIndex(job[s].pack, records)
    BY <1>7 DEF IndexPart
  <2>2. UNCHANGED <<loose, written, data, packed>> /\ job' = [job EXCEPT ![s] = j] /\ job[s].pc = "index"
    BY <1>7 DEF IndexPart
  <2>3. Packing(s) /\ j.got = job[s].got /\ j.pack = job[s].pack
    BY <2>2, JobIs
  <2> HIDE DEF j
  <2>4. job'[s] = j /\ \A t \in Instance \ {s} : job'[t] = job[t]
    BY <1>2, <2>2
  <2>5. \A q \in DOMAIN index : q # job[s].pack => q \in DOMAIN index' /\ index'[q] = index[q]
    BY <2>1 DEF WithIndex
  <2>6. UNCHANGED <<loose, written, data, packed>>
    BY <2>2
  <2>7. job'[s].got = job[s].got /\ job'[s].pack = job[s].pack
    BY <2>3, <2>4
  <2> QED
    BY <2>3, <2>4, <2>5, <2>6, <2>7, SafeStays DEF Safe, Finished, Packing
<1>8. CASE IndexWhole(s)
  <2>0. PICK p, taken : p = job[s].pack /\ taken = job[s].got
    OBVIOUS
  <2>1. /\ UNCHANGED <<loose, written, data>> /\ job[s].pc = "rest"
        /\ job' = [job EXCEPT ![s] = NotPacking]
        /\ index' = WithIndex(p, Records(taken))
        /\ packed' = packed \cup {taken[i].id : i \in DOMAIN taken}
    BY <1>8, <2>0 DEF IndexWhole
  <2>2. Packing(s) /\ taken \in Seq([id : written, holds : written])
    BY <2>0, <2>1, JobIs
  <2>3. /\ p \in DOMAIN data /\ data[p] = Holds(taken)
        /\ \A t \in Instance \ {s} : Packing(t) => job[t].pack # p
    BY <2>0, <2>1, <2>2 DEF JobsFit
  <2>4. ~Packing(s)' /\ \A t \in Instance \ {s} : job'[t] = job[t] /\ Packing(t)' = Packing(t)
    BY <1>2, <2>1 DEF Packing
  <2>5. /\ p \in DOMAIN index' /\ index'[p] = Records(taken)
        /\ \A q \in DOMAIN index : q # p => q \in DOMAIN index' /\ index'[q] = index[q]
    BY <2>1 DEF WithIndex
  <2>6. ASSUME NEW id \in packed
        PROVE  \E q \in DOMAIN index' : Finished(q)' /\ Finds(q, id)'
    <3>1. PICK q \in DOMAIN index : Finished(q) /\ Finds(q, id)
      BY <2>6 DEF Safe
    <3>2. q # p
      BY <2>0, <2>2, <3>1 DEF Finished
    <3>3. q \in DOMAIN index' /\ index'[q] = index[q] /\ data'[q] = data[q]
      BY <2>1, <2>5, <3>2
    <3>4. Finds(q, id)'
      BY <3>1, <3>3 DEF Finds, Kept, Misread, PlacesOf, Loaded
    <3>5. Finished(q)'
      BY <2>4, <3>1 DEF Finished
    <3> QED
      BY <3>3, <3>4, <3>5
  <2>7. ASSUME NEW id, NEW n \in DOMAIN taken, id = taken[n].id, id \notin packed
        PROVE  \E q \in DOMAIN index' : Finished(q)' /\ Finds(q, id)'
    <3>1. \A i \in DOMAIN taken : taken[i].id = id => taken[i].holds = taken[i].id
      BY <2>0, <2>2, <2>7 DEF Safe
    <3>2. Kept(Records(taken), Holds(taken), id) \/ Misread(Records(taken), id)
      BY <2>2, <2>7, <3>1, WholeFinds
    <3>3. data'[p] = Holds(taken)
      BY <2>1, <2>3
    <3>4. Kept(index'[p], data'[p], id) \/ Misread(index'[p], id)
      BY <2>5, <3>2, <3>3
    <3>5. Finds(p, id)'
      BY <3>4 DEF Finds, Kept, Misread, PlacesOf, Loaded
    <3>6. Finished(p)'
      BY <2>3, <2>4 DEF Finished
    <3> QED
      BY <2>5, <3>5, <3>6
  <2>8. \A t \in Instance : Packing(t)' =>
            \A i \in DOMAIN job'[t].got :
                job'[t].got[i].holds = job'[t].got[i].id \/ job'[t].got[i].id \in packed'
    BY <2>1, <2>4 DEF Safe
  <2>9. written' \ loose' \subseteq packed'
    BY <2>1 DEF Safe
  <2>10. \A id \in packed' : \E q \in DOMAIN index' : Finished(q)' /\ Finds(q, id)'
    <3>1. ASSUME NEW id \in packed', id \notin packed
          PROVE  \E q \in DOMAIN index' : Finished(q)' /\ Finds(q, id)'
      <4>1. PICK n \in DOMAIN taken : id = taken[n].id
        BY <2>1, <3>1
      <4> QED
        BY <2>7, <3>1, <4>1
    <3> QED
      BY <2>6, <3>1
  <2> QED
    BY <2>8, <2>9, <2>10 DEF Safe
<1>9. CASE PackCrash(s)
  <2>1. /\ UNCHANGED <<loose, written, data, index, packed>>
        /\ job' = [job EXCEPT ![s] = NotPacking]
    BY <1>9 DEF PackCrash
  <2>2. job'[s] = NotPacking /\ \A t \in Instance \ {s} : job'[t] = job[t]
    BY <1>2, <2>1
  <2> QED
    BY <2>1, <2>2, SafeStays DEF Safe, Finished, Packing
<1> QED
  BY <1>3, <1>4, <1>5, <1>6, <1>7, <1>8, <1>9

(* No object is lost by packing it and removing its loose file, whatever   *)
(* instances pack at once, whatever crashes cut short and whatever index   *)
(* files they left: a finished pack finds it, or holds it among hashes     *)
(* that are not of 32 bytes, which load_index misreads.                    *)
THEOREM PackingLosesNothing == PackSpec => []NothingLost
<1>1. Safe => NothingLost
  BY DEF Safe, NothingLost, Finds
<1> QED
  BY <1>1, PackShapeInit, PackShapeNext, SafeInit, SafeNext, PTL DEF PackSpec

---------------------------------------------------------------------------
(***************************************************************************)
(* The cache holds what an unbounded one would have used last.  A key put  *)
(* again may be far back in the history and no longer in the list; all     *)
(* that were used since are then in the list, so moving it to the front of *)
(* the history and pushing it onto the list do the same to the first       *)
(* Capacity entries.                                                       *)
(***************************************************************************)
CacheEntry == [key : Key, val : Val]

(* Inductive: the type, a history without a key twice, and the property. *)
CacheInv ==
    /\ CacheTypeOK
    /\ map \in [DOMAIN map -> Val]
    /\ recent \in Seq(CacheEntry)
    /\ \A i, j \in DOMAIN recent : recent[i].key = recent[j].key => i = j
    /\ KeepsMostRecent

(* Where the j-th of a list was before the i-th was moved to the front. *)
Was(i, j) == IF j = 1 THEN i ELSE IF j <= i THEN j - 1 ELSE j

LEMMA WasIs ==
  ASSUME NEW n \in Nat, NEW i \in 1..n, NEW j \in 1..n
  PROVE  /\ Was(i, j) \in 1..n
         /\ \A k \in 1..n : Was(i, j) = Was(i, k) => j = k
         /\ \E k \in 1..n : Was(i, k) = j
<1>1. \E k \in 1..n : Was(i, k) = j
  <2>1. CASE j = i
    BY <2>1 DEF Was
  <2>2. CASE j < i
    <3>1. j + 1 \in 1..n /\ Was(i, j + 1) = j
      BY <2>2 DEF Was
    <3> QED
      BY <3>1
  <2>3. CASE j > i
    BY <2>3 DEF Was
  <2> QED
    BY <2>1, <2>2, <2>3
<1> QED
  BY <1>1 DEF Was

LEMMA FrontIs ==
  ASSUME NEW S, NEW seq \in Seq(S), NEW i \in DOMAIN seq
  PROVE  /\ ToFront(seq, i) \in Seq(S) /\ Len(ToFront(seq, i)) = Len(seq)
         /\ DOMAIN ToFront(seq, i) = DOMAIN seq
         /\ \A j \in DOMAIN seq : ToFront(seq, i)[j] = seq[Was(i, j)]
<1>1. Len(seq) \in Nat /\ DOMAIN seq = 1..Len(seq) /\ \A j \in DOMAIN seq : seq[j] \in S
  OBVIOUS
<1>2. \A j \in DOMAIN seq : ToFront(seq, i)[j] = seq[Was(i, j)]
  BY <1>1 DEF ToFront, Was
<1>3. DOMAIN ToFront(seq, i) = 1..Len(seq)
  BY <1>1 DEF ToFront
<1>4. \A j \in 1..Len(seq) : ToFront(seq, i)[j] \in S
  BY <1>1, <1>2, WasIs
<1>5. ToFront(seq, i) = [j \in 1..Len(seq) |-> ToFront(seq, i)[j]]
  BY <1>1 DEF ToFront
<1>6. ToFront(seq, i) \in Seq(S) /\ Len(ToFront(seq, i)) = Len(seq)
  BY <1>1, <1>3, <1>4, <1>5, IsASeq, LenProperties
<1> QED
  BY <1>1, <1>2, <1>3, <1>6

LEMMA PushedIs ==
  ASSUME NEW S, NEW seq \in Seq(S), NEW e \in S
  PROVE  /\ <<e>> \o seq \in Seq(S) /\ Len(<<e>> \o seq) = Len(seq) + 1
         /\ (<<e>> \o seq)[1] = e
         /\ \A j \in 2..Len(seq) + 1 : (<<e>> \o seq)[j] = seq[j - 1]
<1>1. <<e>> \in Seq(S) /\ Len(<<e>>) = 1 /\ <<e>>[1] = e
  OBVIOUS
<1> QED
  BY <1>1, ConcatProperties

(* The list is never longer than the history. *)
LEMMA NoLonger ==
  ASSUME CacheInv
  PROVE  /\ Len(list) \in Nat /\ Len(recent) \in Nat /\ Len(list) <= Len(recent)
         /\ DOMAIN list = 1..Len(list) /\ DOMAIN recent = 1..Len(recent)
         /\ \A j \in DOMAIN list : j \in DOMAIN recent
<1> DEFINE size == Len(list)
           all == Len(recent)
<1>1. size \in Nat /\ all \in Nat /\ DOMAIN list = 1..size /\ DOMAIN recent = 1..all
  BY DEF CacheInv, CacheTypeOK
<1>2. size = IF all < Capacity THEN all ELSE Capacity
  BY DEF CacheInv, KeepsMostRecent
<1> HIDE DEF size, all
<1>3. size <= all /\ \A j \in 1..size : j \in 1..all
  BY <1>1, <1>2, CacheAssumption
<1> QED
  BY <1>1, <1>3 DEF size, all

(* What a use leaves: the entry first, and then the others as they were.   *)
UseOf(U, k, v) ==
    /\ U \in Seq(CacheEntry) /\ Len(U) > 0 /\ U[1] = [key |-> k, val |-> v]
    /\ \A i, j \in DOMAIN U : U[i].key = U[j].key => i = j

NewUse(U, k) ==
    /\ \A i \in DOMAIN recent : recent[i].key # k
    /\ Len(U) = Len(recent) + 1
    /\ \A j \in 2..Len(recent) + 1 : U[j] = recent[j - 1]

UseAgain(U, k, i) ==
    /\ i \in DOMAIN recent /\ recent[i].key = k /\ Len(U) = Len(recent)
    /\ \A j \in DOMAIN recent : j # 1 => U[j] = recent[Was(i, j)]

LEMMA UsedIs ==
  ASSUME CacheInv, NEW k \in Key, NEW v \in Val
  PROVE  /\ UseOf(Used(k, v), k, v)
         /\ NewUse(Used(k, v), k) \/ \E i : UseAgain(Used(k, v), k, i)
<1> DEFINE entry == [key |-> k, val |-> v]
           places == {i \in DOMAIN recent : recent[i].key = k}
           U == Used(k, v)
<1>1. /\ recent \in Seq(CacheEntry) /\ Len(recent) \in Nat /\ DOMAIN recent = 1..Len(recent)
      /\ \A i, j \in DOMAIN recent : recent[i].key = recent[j].key => i = j
      /\ entry \in CacheEntry /\ entry.key = k
  BY DEF CacheInv, CacheEntry
<1>2. CASE places = {}
  <2>1. U = <<entry>> \o recent
    BY <1>2 DEF Used
  <2>2. /\ U \in Seq(CacheEntry) /\ Len(U) = Len(recent) + 1 /\ U[1] = entry
        /\ \A j \in 2..Len(recent) + 1 : U[j] = recent[j - 1]
    BY <1>1, <2>1, PushedIs
  <2>3. \A i \in DOMAIN recent : recent[i].key # k
    BY <1>2
  <2> HIDE DEF U, places
  <2>4. NewUse(U, k)
    BY <2>2, <2>3 DEF NewUse
  <2>5. DOMAIN U = 1..Len(recent) + 1
    BY <1>1, <2>2
  <2>6. ASSUME NEW a \in DOMAIN U, NEW b \in DOMAIN U, U[a].key = U[b].key PROVE a = b
    <3>1. \A m \in DOMAIN U : m # 1 => m - 1 \in DOMAIN recent /\ U[m].key = recent[m - 1].key
      <4> SUFFICES ASSUME NEW m \in DOMAIN U, m # 1
                   PROVE  m - 1 \in DOMAIN recent /\ U[m].key = recent[m - 1].key
        OBVIOUS
      <4>1. m \in 2..Len(recent) + 1 /\ m - 1 \in DOMAIN recent
        BY <1>1, <2>5
      <4> QED
        BY <2>2, <4>1
    <3>2. U[1].key = k
      BY <1>1, <2>2
    <3>3. \A m \in DOMAIN U : m # 1 => U[m].key # k
      BY <2>3, <3>1
    <3>4. CASE a = 1 \/ b = 1
      BY <2>6, <3>2, <3>3, <3>4
    <3>5. CASE a # 1 /\ b # 1
      <4>1. recent[a - 1].key = recent[b - 1].key /\ a - 1 \in DOMAIN recent /\ b - 1 \in DOMAIN recent
        BY <2>6, <3>1, <3>5
      <4>2. a - 1 = b - 1
        BY <1>1, <4>1
      <4> QED
        BY <1>1, <2>5, <4>2
    <3> QED
      BY <3>4, <3>5
  <2>7. UseOf(U, k, v)
    BY <1>1, <2>2, <2>6 DEF UseOf
  <2> QED
    BY <2>4, <2>7 DEF U
<1>3. CASE places # {}
  <2> DEFINE i == CHOOSE i \in places : TRUE
             F == ToFront(recent, i)
  <2>1. i \in places
    BY <1>3
  <2>2. i \in DOMAIN recent /\ recent[i].key = k
    BY <2>1
  <2>3. U = [F EXCEPT ![1] = entry]
    BY <1>3 DEF Used
  <2> HIDE DEF i, places
  <2>4. /\ F \in Seq(CacheEntry) /\ Len(F) = Len(recent) /\ DOMAIN F = DOMAIN recent
        /\ \A j \in DOMAIN recent : F[j] = recent[Was(i, j)]
    BY <1>1, <2>2, FrontIs
  <2> HIDE DEF F, U, entry
  <2>5. /\ U \in Seq(CacheEntry) /\ Len(U) = Len(recent) /\ DOMAIN U = 1..Len(recent) /\ Len(recent) > 0
        /\ U[1] = entry /\ \A j \in DOMAIN recent : j # 1 => U[j] = recent[Was(i, j)]
    BY <1>1, <2>2, <2>3, <2>4, ExceptSeq
  <2>6. \A j \in DOMAIN recent : U[j].key = recent[Was(i, j)].key
    BY <1>1, <2>2, <2>5 DEF Was
  <2>7. ASSUME NEW a \in DOMAIN U, NEW b \in DOMAIN U, U[a].key = U[b].key PROVE a = b
    <3>1. Was(i, a) \in DOMAIN recent /\ Was(i, b) \in DOMAIN recent
      BY <1>1, <2>2, <2>5, WasIs
    <3>2. Was(i, a) = Was(i, b)
      BY <1>1, <2>5, <2>6, <2>7, <3>1
    <3> QED
      BY <1>1, <2>2, <2>5, <3>2, WasIs
  <2>8. UseOf(U, k, v)
    BY <2>5, <2>7 DEF UseOf, entry
  <2>9. UseAgain(U, k, i)
    BY <2>2, <2>5 DEF UseAgain
  <2> QED
    BY <2>8, <2>9 DEF U
<1> QED
  BY <1>2, <1>3

(* The key of a hit is at one place of the list. *)
LEMMA PlaceIs ==
  ASSUME CacheInv, NEW k \in DOMAIN map
  PROVE  PlaceOf(k) \in DOMAIN list /\ list[PlaceOf(k)] = k
<1>1. \E i \in DOMAIN list : list[i] = k
  BY DEF CacheInv, CacheTypeOK
<1> QED
  BY <1>1 DEF PlaceOf

(* A hit, which may write the value. *)
LEMMA HitKeeps ==
  ASSUME CacheInv, NEW k \in Key, k \in DOMAIN map, NEW v \in Val,
         list' = ToFront(list, PlaceOf(k)), map' = [map EXCEPT ![k] = v], recent' = Used(k, v)
  PROVE  CacheInv'
<1> DEFINE i == PlaceOf(k)
           l == ToFront(list, i)
           m == [map EXCEPT ![k] = v]
           U == Used(k, v)
<1>1. list' = l /\ map' = m /\ recent' = U
  OBVIOUS
<1>2. i \in DOMAIN list /\ list[i] = k
  BY PlaceIs
<1>3. /\ list \in Seq(Key) /\ Len(list) \in Nat /\ DOMAIN list = 1..Len(list) /\ Len(list) <= Capacity
      /\ DOMAIN map = {list[j] : j \in DOMAIN list} /\ (\A a, b \in DOMAIN list : list[a] = list[b] => a = b)
      /\ recent \in Seq(CacheEntry) /\ Len(recent) \in Nat /\ DOMAIN recent = 1..Len(recent)
      /\ \A a, b \in DOMAIN recent : recent[a].key = recent[b].key => a = b
  BY DEF CacheInv, CacheTypeOK
<1>4. /\ Len(list) = IF Len(recent) < Capacity THEN Len(recent) ELSE Capacity
      /\ \A j \in DOMAIN list : recent[j] = [key |-> list[j], val |-> map[list[j]]]
  BY DEF CacheInv, KeepsMostRecent
<1> HIDE DEF i
<1>5. /\ l \in Seq(Key) /\ Len(l) = Len(list) /\ DOMAIN l = DOMAIN list
      /\ \A j \in DOMAIN list : l[j] = list[Was(i, j)]
  <2>1. list \in Seq(Key) /\ i \in DOMAIN list
    BY <1>2, <1>3
  <2> QED
    BY <2>1, FrontIs
<1>6. DOMAIN m = DOMAIN map /\ m[k] = v /\ \A j \in DOMAIN map : j # k => m[j] = map[j]
  OBVIOUS
<1> HIDE DEF l, m
<1>7. i \in DOMAIN recent /\ recent[i].key = k
  <2>1. i \in DOMAIN recent
    BY <1>2, NoLonger
  <2>2. recent[i] = [key |-> list[i], val |-> map[list[i]]]
    BY <1>2, <1>4
  <2> QED
    BY <1>2, <2>1, <2>2
<1> HIDE DEF U
<1>8. UseOf(U, k, v) /\ UseAgain(U, k, i)
  <2>1. UseOf(U, k, v) /\ (NewUse(U, k) \/ \E n : UseAgain(U, k, n))
    BY UsedIs DEF U
  <2>2. PICK n : UseAgain(U, k, n)
    BY <1>7, <2>1 DEF NewUse
  <2>3. n \in DOMAIN recent /\ recent[n].key = k
    BY <2>2 DEF UseAgain
  <2>4. n = i
    BY <1>3, <1>7, <2>3
  <2> QED
    BY <2>1, <2>2, <2>4
<1>9. ASSUME NEW a \in DOMAIN l, NEW b \in DOMAIN l, l[a] = l[b] PROVE a = b
  <2>1. Was(i, a) \in DOMAIN list /\ Was(i, b) \in DOMAIN list
    BY <1>2, <1>3, <1>5, WasIs
  <2>2. Was(i, a) = Was(i, b)
    BY <1>3, <1>5, <1>9, <2>1
  <2> QED
    BY <1>2, <1>3, <1>5, <2>2, WasIs
<1>10. {l[j] : j \in DOMAIN l} = {list[j] : j \in DOMAIN list}
  <2>1. \A j \in DOMAIN l : Was(i, j) \in DOMAIN list /\ l[j] = list[Was(i, j)]
    BY <1>2, <1>3, <1>5, WasIs
  <2>2. \A j \in DOMAIN list : \E n \in DOMAIN l : l[n] = list[j]
    BY <1>2, <1>3, <1>5, WasIs
  <2> QED
    BY <2>1, <2>2
<1>11. m \in [DOMAIN m -> Val] /\ \A j \in DOMAIN m : m[j] \in Val
  BY DEF m, CacheInv, CacheTypeOK
<1>12. \A j \in DOMAIN l : U[j] = [key |-> l[j], val |-> m[l[j]]]
  <2> SUFFICES ASSUME NEW j \in DOMAIN l PROVE U[j] = [key |-> l[j], val |-> m[l[j]]]
    OBVIOUS
  <2>1. Was(i, 1) = i
    BY DEF Was
  <2>2. CASE j = 1
    <3>1. l[j] = k
      BY <1>2, <1>5, <2>1, <2>2
    <3> QED
      BY <1>6, <1>8, <2>2, <3>1 DEF UseOf
  <2>3. CASE j # 1
    <3> DEFINE w == Was(i, j)
    <3>1. w \in DOMAIN list /\ w # i /\ j \in DOMAIN recent
      <4>1. w \in DOMAIN list /\ j \in DOMAIN recent
        <5>1. w \in DOMAIN list
          BY <1>2, <1>3, <1>5, WasIs
        <5> QED
          BY <1>5, <5>1, NoLonger
      <4>2. w # i
        BY <1>2, <1>3, <1>5, <2>3 DEF Was
      <4> QED
        BY <4>1, <4>2
    <3> HIDE DEF w
    <3>2. l[j] = list[w] /\ U[j] = recent[w]
      BY <1>5, <1>8, <2>3, <3>1 DEF w, UseAgain
    <3>3. list[w] # k /\ list[w] \in DOMAIN map
      BY <1>2, <1>3, <3>1
    <3> QED
      BY <1>4, <1>6, <3>1, <3>2, <3>3
  <2> QED
    BY <2>2, <2>3
<1>13. DOMAIN m = {l[j] : j \in DOMAIN l}
  <2>1. DOMAIN map = {list[j] : j \in DOMAIN list}
    BY <1>3
  <2> QED
    BY <1>6, <1>10, <2>1
<1>14. CacheTypeOK'
  <2>1. list' \in Seq(Key) /\ Len(list') <= Capacity
    BY <1>1, <1>3, <1>5
  <2>2. DOMAIN map' = {list'[j] : j \in DOMAIN list'}
    BY <1>1, <1>13
  <2>3. \A a, b \in DOMAIN list' : list'[a] = list'[b] => a = b
    BY <1>1, <1>9
  <2>4. \A j \in DOMAIN map' : map'[j] \in Val
    BY <1>1, <1>11
  <2> QED
    BY <2>1, <2>2, <2>3, <2>4 DEF CacheTypeOK
<1>15. KeepsMostRecent'
  <2>1. Len(U) = Len(recent)
    BY <1>8 DEF UseAgain
  <2>2. Len(list') = IF Len(recent') < Capacity THEN Len(recent') ELSE Capacity
    BY <1>1, <1>4, <1>5, <2>1
  <2>3. \A j \in DOMAIN list' : recent'[j] = [key |-> list'[j], val |-> map'[list'[j]]]
    BY <1>1, <1>12
  <2> QED
    BY <2>2, <2>3 DEF KeepsMostRecent
<1>16. recent' \in Seq(CacheEntry) /\ \A a, b \in DOMAIN recent' : recent'[a].key = recent'[b].key => a = b
  BY <1>1, <1>8 DEF UseOf
<1>17. map' \in [DOMAIN map' -> Val]
  BY <1>1, <1>11
<1> QED
  BY <1>14, <1>15, <1>16, <1>17 DEF CacheInv

LEMMA NewKeeps ==
  ASSUME CacheInv, NEW k \in Key, NEW v \in Val, PutNew(k, v)
  PROVE  CacheInv'
<1> DEFINE l == <<k>> \o Remaining
           m == [j \in (DOMAIN map \ Evicted) \cup {k} |-> IF j = k THEN v ELSE map[j]]
           U == Used(k, v)
           n == Len(Remaining)
<1>1. list' = l /\ map' = m /\ recent' = U /\ k \notin DOMAIN map
  BY DEF PutNew
<1>2. /\ list \in Seq(Key) /\ Len(list) \in Nat /\ DOMAIN list = 1..Len(list) /\ Len(list) <= Capacity
      /\ DOMAIN map = {list[j] : j \in DOMAIN list} /\ (\A a, b \in DOMAIN list : list[a] = list[b] => a = b)
      /\ recent \in Seq(CacheEntry) /\ Len(recent) \in Nat /\ DOMAIN recent = 1..Len(recent)
      /\ Capacity \in Nat /\ Capacity > 0
  BY CacheAssumption DEF CacheInv, CacheTypeOK
<1>3. /\ Len(list) = IF Len(recent) < Capacity THEN Len(recent) ELSE Capacity
      /\ \A j \in DOMAIN list : recent[j] = [key |-> list[j], val |-> map[list[j]]]
  BY DEF CacheInv, KeepsMostRecent
<1>4. /\ Remaining \in Seq(Key) /\ n = IF Len(list) >= Capacity THEN Len(list) - 1 ELSE Len(list)
      /\ \A j \in 1..n : Remaining[j] = list[j]
  <2> DEFINE e == IF Len(list) >= Capacity THEN Len(list) - 1 ELSE Len(list)
  <2>1. e \in 0..Len(list)
    BY <1>2
  <2>2. Remaining = SubSeq(list, 1, e)
    BY DEF Remaining
  <2> HIDE DEF e
  <2>3. Remaining \in Seq(Key) /\ Len(Remaining) = e /\ \A j \in 1..e : Remaining[j] = list[j]
    BY <1>2, <2>1, <2>2, SubSeqProperties
  <2> QED
    BY <2>3 DEF e
<1>5. n \in Nat /\ n <= Len(list) /\ n < Capacity
  <2>1. Len(list) \in Nat /\ Len(list) <= Capacity /\ Capacity \in Nat /\ Capacity > 0
    BY <1>2
  <2>2. n = IF Len(list) >= Capacity THEN Len(list) - 1 ELSE Len(list)
    BY <1>4
  <2> HIDE DEF n
  <2> QED
    BY <2>1, <2>2
<1>6. /\ l \in Seq(Key) /\ Len(l) = n + 1 /\ l[1] = k /\ \A j \in 2..n + 1 : l[j] = list[j - 1]
  <2>1. /\ l \in Seq(Key) /\ Len(l) = n + 1 /\ l[1] = k /\ \A j \in 2..n + 1 : l[j] = Remaining[j - 1]
    BY <1>4, PushedIs
  <2> QED
    BY <1>4, <1>5, <2>1
<1>7. Evicted = {list[j] : j \in (n + 1)..Len(list)}
  <2>1. CASE Len(list) >= Capacity
    <3>1. n + 1 = Len(list) /\ (n + 1)..Len(list) = {Len(list)}
      BY <1>2, <1>4, <2>1
    <3> QED
      BY <2>1, <3>1 DEF Evicted
  <2>2. CASE ~(Len(list) >= Capacity)
    <3>1. (n + 1)..Len(list) = {}
      BY <1>2, <1>4, <2>2
    <3> QED
      BY <2>2, <3>1 DEF Evicted
  <2> QED
    BY <2>1, <2>2
<1>8. DOMAIN m = (DOMAIN map \ Evicted) \cup {k} /\ m[k] = v
      /\ \A j \in DOMAIN map \ Evicted : m[j] = map[j]
  BY <1>1
<1> HIDE DEF l, m, U, n
<1>9. DOMAIN l = 1..n + 1
  BY <1>5, <1>6
<1>10. \A j \in 2..n + 1 : /\ j - 1 \in DOMAIN list /\ list[j - 1] \in DOMAIN map \ Evicted
                           /\ list[j - 1] # k /\ l[j] = list[j - 1]
  <2> SUFFICES ASSUME NEW j \in 2..n + 1
               PROVE  /\ j - 1 \in DOMAIN list /\ list[j - 1] \in DOMAIN map \ Evicted
                      /\ list[j - 1] # k /\ l[j] = list[j - 1]
    OBVIOUS
  <2>1. j - 1 \in 1..n /\ j - 1 \in DOMAIN list /\ l[j] = list[j - 1]
    BY <1>2, <1>5, <1>6
  <2>2. list[j - 1] \in DOMAIN map
    BY <1>2, <2>1
  <2>3. list[j - 1] \notin Evicted
    BY <1>2, <1>5, <1>7, <2>1
  <2> QED
    BY <1>1, <2>1, <2>2, <2>3
<1>11. DOMAIN m = {l[j] : j \in DOMAIN l}
  <2>1. ASSUME NEW x \in DOMAIN map \ Evicted PROVE \E j \in DOMAIN l : l[j] = x
    <3>1. PICK a \in DOMAIN list : list[a] = x
      BY <1>2
    <3>2. a \in 1..n
      BY <1>2, <1>5, <1>7, <2>1, <3>1
    <3>3. a + 1 \in 2..n + 1 /\ (a + 1) - 1 = a
      BY <1>5, <3>2
    <3>4. l[a + 1] = x
      BY <1>10, <3>1, <3>3
    <3> QED
      BY <1>5, <1>9, <3>3, <3>4
  <2>2. \A j \in DOMAIN l : j = 1 \/ j \in 2..n + 1
    BY <1>5, <1>9
  <2>3. 1 \in DOMAIN l
    BY <1>5, <1>9
  <2> QED
    BY <1>6, <1>8, <1>10, <2>1, <2>2, <2>3
<1>12. \A a, b \in DOMAIN l : l[a] = l[b] => a = b
  <2> SUFFICES ASSUME NEW a \in DOMAIN l, NEW b \in DOMAIN l, l[a] = l[b] PROVE a = b
    OBVIOUS
  <2>1. (a = 1 \/ a \in 2..n + 1) /\ (b = 1 \/ b \in 2..n + 1)
    BY <1>5, <1>9
  <2>2. CASE a = 1 \/ b = 1
    BY <1>6, <1>10, <2>1, <2>2
  <2>3. CASE a # 1 /\ b # 1
    <3>1. a \in 2..n + 1 /\ b \in 2..n + 1
      BY <2>1, <2>3
    <3>2. list[a - 1] = list[b - 1] /\ a - 1 \in DOMAIN list /\ b - 1 \in DOMAIN list
      BY <1>10, <3>1
    <3>3. a - 1 = b - 1
      BY <1>2, <3>2
    <3> QED
      BY <1>5, <3>1, <3>3
  <2> QED
    BY <2>2, <2>3
<1>13. m \in [DOMAIN m -> Val] /\ \A j \in DOMAIN m : m[j] \in Val
  BY DEF m, CacheInv, CacheTypeOK
<1>14. CacheTypeOK'
  BY <1>1, <1>2, <1>5, <1>6, <1>11, <1>12, <1>13 DEF CacheTypeOK
<1>15. UseOf(U, k, v) /\ U \in Seq(CacheEntry) /\ Len(U) \in Nat /\ U[1] = [key |-> k, val |-> v]
  BY UsedIs DEF U, UseOf
<1> DEFINE size == Len(list)
           all == Len(recent)
<1>0. /\ size \in Nat /\ all \in Nat /\ Capacity \in Nat /\ Capacity > 0
      /\ size = IF all < Capacity THEN all ELSE Capacity
      /\ n = IF size >= Capacity THEN size - 1 ELSE size
  BY <1>2, <1>3, <1>4 DEF n
<1> HIDE DEF size, all
<1>16. /\ Len(l) = IF Len(U) < Capacity THEN Len(U) ELSE Capacity
       /\ \A j \in 2..n + 1 : U[j] = recent[j - 1]
  <2>1. CASE NewUse(U, k)
    <3>1. Len(U) = all + 1 /\ \A j \in 2..all + 1 : U[j] = recent[j - 1]
      BY <2>1 DEF NewUse, all
    <3>2. n <= all /\ n + 1 = IF all + 1 < Capacity THEN all + 1 ELSE Capacity
      BY <1>0
    <3>3. \A j \in 2..n + 1 : j \in 2..all + 1
      BY <1>0, <3>2
    <3> QED
      BY <1>6, <3>1, <3>2, <3>3
  <2>2. ASSUME NEW i, UseAgain(U, k, i)
        PROVE  /\ Len(l) = IF Len(U) < Capacity THEN Len(U) ELSE Capacity
               /\ \A j \in 2..n + 1 : U[j] = recent[j - 1]
    <3>1. /\ i \in DOMAIN recent /\ recent[i].key = k /\ Len(U) = all
          /\ \A j \in DOMAIN recent : j # 1 => U[j] = recent[Was(i, j)]
      BY <2>2 DEF UseAgain, all
    <3>2. i \notin DOMAIN list
      <4>1. ASSUME i \in DOMAIN list PROVE FALSE
        <5>1. recent[i] = [key |-> list[i], val |-> map[list[i]]]
          BY <1>3, <4>1
        <5>2. list[i] = k
          BY <3>1, <5>1
        <5>3. list[i] \in DOMAIN map
          BY <1>2, <4>1
        <5> QED
          BY <1>1, <5>2, <5>3
      <4> QED
        BY <4>1
    <3>3. i \in 1..all /\ i \notin 1..size /\ DOMAIN recent = 1..all
      BY <1>2, <3>1, <3>2 DEF all, size
    <3>4. size = Capacity /\ size < i /\ Capacity <= all /\ n + 1 = Capacity /\ n \in Nat
      BY <1>0, <3>3
    <3>5. \A j \in 2..n + 1 : Was(i, j) = j - 1 /\ j \in DOMAIN recent /\ j # 1
      BY <1>0, <3>3, <3>4 DEF Was
    <3>6. \A j \in 2..n + 1 : U[j] = recent[j - 1]
      BY <3>1, <3>5
    <3>7. Len(l) = IF all < Capacity THEN all ELSE Capacity
      BY <1>0, <1>6, <3>4
    <3> QED
      BY <3>1, <3>6, <3>7
  <2> QED
    BY <2>1, <2>2, UsedIs DEF U
<1>17. \A j \in DOMAIN l : U[j] = [key |-> l[j], val |-> m[l[j]]]
  <2> SUFFICES ASSUME NEW j \in DOMAIN l PROVE U[j] = [key |-> l[j], val |-> m[l[j]]]
    OBVIOUS
  <2>1. CASE j = 1
    BY <1>6, <1>8, <1>15, <2>1
  <2>2. CASE j \in 2..n + 1
    <3>1. U[j] = recent[j - 1] /\ l[j] = list[j - 1] /\ j - 1 \in DOMAIN list
          /\ m[l[j]] = map[list[j - 1]]
      BY <1>8, <1>10, <1>16, <2>2
    <3> QED
      BY <1>3, <3>1
  <2> QED
    BY <1>5, <1>9, <2>1, <2>2
<1>18. KeepsMostRecent'
  BY <1>1, <1>16, <1>17 DEF KeepsMostRecent
<1>19. recent' \in Seq(CacheEntry) /\ \A a, b \in DOMAIN recent' : recent'[a].key = recent'[b].key => a = b
  BY <1>1, <1>15 DEF UseOf
<1>20. map' \in [DOMAIN map' -> Val]
  BY <1>1, <1>13
<1> QED
  BY <1>14, <1>18, <1>19, <1>20 DEF CacheInv

LEMMA CacheInvInit == CacheInit => CacheInv
<1> SUFFICES ASSUME CacheInit PROVE CacheInv
  OBVIOUS
<1>1. list = <<>> /\ map = <<>> /\ recent = <<>>
  BY DEF CacheInit
<1>2. DOMAIN list = {} /\ DOMAIN map = {} /\ DOMAIN recent = {} /\ Len(list) = 0 /\ Len(recent) = 0
      /\ list \in Seq(Key) /\ recent \in Seq(CacheEntry) /\ map \in [DOMAIN map -> Val]
  BY <1>1
<1> QED
  BY <1>2, CacheAssumption DEF CacheInv, CacheTypeOK, KeepsMostRecent

LEMMA CacheInvNext == CacheInv /\ [CacheNext]_cachevars => CacheInv'
<1> SUFFICES ASSUME CacheInv, [CacheNext]_cachevars PROVE CacheInv'
  OBVIOUS
<1>1. ASSUME NEW k \in Key, Get(k) PROVE CacheInv'
  <2>1. k \in DOMAIN map /\ map[k] \in Val
    BY <1>1 DEF Get, CacheInv, CacheTypeOK
  <2>2. map = [map EXCEPT ![k] = map[k]]
    <3>1. map \in [DOMAIN map -> Val]
      BY DEF CacheInv
    <3> QED
      BY <2>1, <3>1
  <2>3. list' = ToFront(list, PlaceOf(k)) /\ map' = map /\ recent' = Used(k, map[k])
    BY <1>1 DEF Get
  <2> QED
    BY <2>1, <2>2, <2>3, HitKeeps
<1>2. ASSUME NEW k \in Key, NEW v \in Val, PutAgain(k, v) PROVE CacheInv'
  BY <1>2, HitKeeps DEF PutAgain
<1>3. ASSUME NEW k \in Key, NEW v \in Val, PutNew(k, v) PROVE CacheInv'
  BY <1>3, NewKeeps
<1>4. CASE Clear
  <2>1. list' = <<>> /\ map' = <<>> /\ recent' = <<>>
    BY <1>4 DEF Clear
  <2>2. DOMAIN list' = {} /\ DOMAIN map' = {} /\ DOMAIN recent' = {} /\ Len(list') = 0 /\ Len(recent') = 0
        /\ list' \in Seq(Key) /\ recent' \in Seq(CacheEntry) /\ map' \in [DOMAIN map' -> Val]
    BY <2>1
  <2> QED
    BY <2>2, CacheAssumption DEF CacheInv, CacheTypeOK, KeepsMostRecent
<1>5. CASE UNCHANGED cachevars
  BY <1>5 DEF cachevars, CacheInv, CacheTypeOK, KeepsMostRecent
<1> QED
  BY <1>1, <1>2, <1>3, <1>4, <1>5 DEF CacheNext

(* Type correctness: the list names each key of the map once, and no more  *)
(* than fit.  (LRUCache)                                                    *)
THEOREM CacheTyping == CacheSpec => []CacheTypeOK
<1>1. CacheInv => CacheTypeOK
  BY DEF CacheInv
<1> QED
  BY <1>1, CacheInvInit, CacheInvNext, PTL DEF CacheSpec

(* The cache holds what an unbounded one would have used last, with the    *)
(* values put last, for any capacity, keys and values.  (LRUCache)          *)
THEOREM MostRecentIsKept == CacheSpec => []KeepsMostRecent
<1>1. CacheInv => KeepsMostRecent
  BY DEF CacheInv
<1> QED
  BY <1>1, CacheInvInit, CacheInvNext, PTL DEF CacheSpec

---------------------------------------------------------------------------
(* The five together, as the run has them: a behaviour of all is one of    *)
(* each, in which a step of another is a step that changes nothing, so all *)
(* that is proved above holds of them together.                            *)
THEOREM StorageIsEach ==
    StorageSpec => Spec /\ PackSpec /\ CacheSpec /\ WalSpec /\ SettingsSpec
<1> DEFINE all == <<part, vars, packvars, cachevars, walvars, setvars>>
<1>1. StorageInit => Init /\ PackInit /\ CacheInit /\ WalInit /\ SettingsInit
  BY DEF StorageInit
<1>2. [StorageNext]_all =>
          [Next]_vars /\ [PackNext]_packvars /\ [CacheNext]_cachevars /\ [WalNext]_walvars /\ [SettingsNext]_setvars
  BY DEF StorageNext, FileStep, PackStep, CacheStep, WalStep, SettingsStep
<1> QED
  BY <1>1, <1>2, PTL DEF StorageSpec, Spec, PackSpec, CacheSpec, WalSpec, SettingsSpec

(* The types of the five together, with one writer of a file.  (fs.cpp,    *)
(* packfile.cpp, object_cache.hpp, wal.cpp, repository.cpp)                 *)
THEOREM StorageTyping == ASSUME Serial PROVE StorageSpec => []StorageTypeOK
<1>1. PrivateTemp /\ PackTypeOK /\ CacheTypeOK /\ WalTypeOK /\ SettingsTypeOK => StorageTypeOK
  BY DEF StorageTypeOK
<1> QED
  BY <1>1, StorageIsEach, TempIsPrivate, PackTyping, CacheTyping, WalTyping, SettingsTyping, PTL
=============================================================================
