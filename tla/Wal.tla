-------------------------------- MODULE Wal --------------------------------
(***************************************************************************)
(* WAL, the write-ahead log: a directory per transaction, with a header    *)
(* and the operations logged in it.  No command of flux uses it yet.  The  *)
(* processes here use it the way its header means it to be used: a process *)
(* that starts recovers first, and then runs transactions, several at once *)
(* if it likes; it may crash between any two steps, or in the middle of    *)
(* removing a directory.                                                   *)
(*                                                                         *)
(*   dir     transaction id -> its directory: header and operations        *)
(*   at      process -> what it is doing: the call, and its transaction    *)
(*   next    process -> next_txn_id_, which starts at 1 in every process   *)
(*   open    process -> its open transactions, with what it logged in each *)
(***************************************************************************)
EXTENDS Naturals, Sequences

CONSTANTS
    Process,
    Op,            \* operations, with their data
    MaxTxn,        \* bound: transactions of one process
    MaxLog         \* bound: operations of one transaction

ASSUME WalAssumption == MaxTxn \in Nat /\ MaxLog \in Nat

VARIABLES dir, at, next, open

walvars == <<dir, at, next, open>>

Ready == [call |-> "none"]
NewDir == [header |-> "none", ops |-> <<>>]

With(f, k, v) == [i \in DOMAIN f \cup {k} |-> IF i = k THEN v ELSE f[i]]
Without(f, k) == [i \in DOMAIN f \ {k} |-> f[i]]

WalInit ==
    /\ dir = <<>>
    /\ at = [p \in Process |-> [call |-> "down"]]
    /\ next = [p \in Process |-> 1]
    /\ open = [p \in Process |-> <<>>]

---------------------------------------------------------------------------
(* The constructor. *)
StartWal(p) ==
    /\ at[p].call = "down"
    /\ at' = [at EXCEPT ![p] = [call |-> "started"]]
    /\ next' = [next EXCEPT ![p] = 1]
    /\ UNCHANGED <<dir, open>>

(* Mutant: only the transactions whose header says active are rolled back. *)
RecoverListActive(p) ==
    /\ at[p].call = "started"
    /\ at' = [at EXCEPT ![p] = [call |-> "recover",
                 todo |-> {t \in DOMAIN dir : dir[t].header = "active"}]]
    /\ UNCHANGED <<dir, next, open>>

(* recover: list the directories of the log, and remove them one by one. *)
RecoverList(p) ==
    /\ at[p].call = "started"
    /\ at' = [at EXCEPT ![p] = [call |-> "recover", todo |-> DOMAIN dir]]
    /\ UNCHANGED <<dir, next, open>>

RecoverOne(p) ==
    /\ at[p].call = "recover"
    /\ IF at[p].todo = {}
       THEN at' = [at EXCEPT ![p] = Ready] /\ dir' = dir
       ELSE \E t \in at[p].todo :
            /\ dir' = Without(dir, t)
            /\ at' = [at EXCEPT ![p].todo = @ \ {t}]
    /\ UNCHANGED <<next, open>>

(* begin_transaction: the id is taken, the directory made (an old one of   *)
(* the same name will do), and the header written.                         *)
BeginDir(p) ==
    /\ at[p] = Ready /\ next[p] <= MaxTxn
    /\ LET t == next[p] IN
        /\ dir' = IF t \in DOMAIN dir THEN dir ELSE With(dir, t, NewDir)
        /\ at' = [at EXCEPT ![p] = [call |-> "begin", txn |-> t]]
    /\ next' = [next EXCEPT ![p] = @ + 1]
    /\ UNCHANGED open

BeginHeader(p) ==
    /\ at[p].call = "begin"
    /\ LET t == at[p].txn IN
        IF t \in DOMAIN dir
        THEN /\ dir' = [dir EXCEPT ![t].header = "active"]
             /\ open' = [open EXCEPT ![p] = With(@, t, <<>>)]
        ELSE UNCHANGED <<dir, open>>
    /\ at' = [at EXCEPT ![p] = Ready]
    /\ UNCHANGED next

(* log_operation: an error when the directory is not there. *)
LogOp(p, t, op) ==
    /\ at[p] = Ready
    /\ t \in DOMAIN open[p] \cap DOMAIN dir
    /\ Len(open[p][t]) < MaxLog
    /\ dir' = [dir EXCEPT ![t].ops = Append(@, op)]
    /\ open' = [open EXCEPT ![p][t] = Append(@, op)]
    /\ UNCHANGED <<at, next>>

(* commit_transaction writes the header, and then removes the directory;   *)
(* rollback_transaction removes it.  A directory that is not there ends    *)
(* both.                                                                   *)
CommitHeader(p, t) ==
    /\ at[p] = Ready
    /\ t \in DOMAIN open[p]
    /\ IF t \in DOMAIN dir
       THEN /\ dir' = [dir EXCEPT ![t].header = "committed"]
            /\ at' = [at EXCEPT ![p] = [call |-> "remove", txn |-> t]]
       ELSE UNCHANGED <<dir, at>>
    /\ open' = [open EXCEPT ![p] = Without(@, t)]
    /\ UNCHANGED next

RollbackTxn(p, t) ==
    /\ at[p] = Ready
    /\ t \in DOMAIN open[p]
    /\ at' = [at EXCEPT ![p] =
                 IF t \in DOMAIN dir THEN [call |-> "remove", txn |-> t] ELSE Ready]
    /\ open' = [open EXCEPT ![p] = Without(@, t)]
    /\ UNCHANGED <<dir, next>>

(* Mutant: the clean-up takes the transaction of the highest id. *)
RemoveDirLast(p) ==
    /\ at[p].call = "remove"
    /\ dir' = Without(dir, next[p] - 1)
    /\ at' = [at EXCEPT ![p] = Ready]
    /\ UNCHANGED <<next, open>>

(* Filesystem::remove, of the directory and what is in it. *)
RemoveDir(p) ==
    /\ at[p].call = "remove"
    /\ dir' = Without(dir, at[p].txn)
    /\ at' = [at EXCEPT ![p] = Ready]
    /\ UNCHANGED <<next, open>>

(* A crash: its directories stay; those being removed have lost their      *)
(* header, or their operations, or both.                                   *)
Removing(p) ==
    IF at[p].call = "remove" THEN {at[p].txn} \cap DOMAIN dir
    ELSE IF at[p].call = "recover" THEN at[p].todo \cap DOMAIN dir
    ELSE {}

WalCrash(p) ==
    /\ at[p].call # "down"
    /\ \/ dir' = dir
       \/ \E t \in Removing(p) : \E header \in {"none", dir[t].header},
                                    ops \in {<<>>, dir[t].ops} :
            dir' = [dir EXCEPT ![t] = [header |-> header, ops |-> ops]]
    /\ at' = [at EXCEPT ![p] = [call |-> "down"]]
    /\ open' = [open EXCEPT ![p] = <<>>]
    /\ UNCHANGED next

WalNext ==
    \E p \in Process :
        \/ StartWal(p) \/ RecoverList(p) \/ RecoverOne(p)
        \/ BeginDir(p) \/ BeginHeader(p)
        \/ \E t \in DOMAIN open[p] :
            \/ \E op \in Op : LogOp(p, t, op)
            \/ CommitHeader(p, t) \/ RollbackTxn(p, t)
        \/ RemoveDir(p)
        \/ WalCrash(p)

WalSpec == WalInit /\ [][WalNext]_walvars

---------------------------------------------------------------------------
(* Type invariant: a process past its recovery knows only ids it gave out, *)
(* each once.                                                              *)
WalTypeOK ==
    /\ DOMAIN dir \subseteq 1..MaxTxn
    /\ \A t \in DOMAIN dir :
        /\ dir[t].header \in {"none", "active", "committed"}
        /\ dir[t].ops \in Seq(Op)
    /\ next \in [Process -> 1..(MaxTxn + 1)]
    /\ \A p \in Process :
        /\ DOMAIN open[p] \subseteq 1..(next[p] - 1)
        /\ \A t \in DOMAIN open[p] : open[p][t] \in Seq(Op)
        /\ at[p].call \in {"begin", "remove"} => at[p].txn \in 1..(next[p] - 1)

(* The transactions of p that have a directory, between their first call's *)
(* start and their last one's end.                                          *)
UnderWay(p) == DOMAIN open[p] \cup (IF at[p].call = "none" THEN {} ELSE {at[p].txn})

(* The log of an open transaction is what its process logged in it since   *)
(* it began, and its header says active; and a process that has recovered  *)
(* finds in the log its own transactions that are under way, and nothing of *)
(* those that ended or were cut short.  Ids start again at 1 after a        *)
(* restart, and begin_transaction takes a directory that is there: what a  *)
(* crashed process left under the same id must be gone by then.  True of   *)
(* one process at a time.                                                  *)
LogExact ==
    \A p \in Process :
        /\ \A t \in DOMAIN open[p] :
             t \in DOMAIN dir /\ dir[t] = [header |-> "active", ops |-> open[p][t]]
        /\ at[p].call \in {"none", "begin", "remove"} => DOMAIN dir \subseteq UnderWay(p)
=============================================================================
