------------------------------ MODULE MCRemote ------------------------------
(***************************************************************************)
(* What goes to a server and comes back, for TLC: clients that push (Push), *)
(* the answers a client reads (Wire) and the token its requests carry       *)
(* (Credentials).  Push sees an answer as received or lost, and the report  *)
(* as cut after its first line too; Wire says what is made of an answer cut *)
(* anywhere.  They share no state, and a behaviour is a behaviour of one of *)
(* them: `part` says which, and the others stay in one initial state.       *)
(***************************************************************************)
EXTENDS MCPush, Wire, Credentials

CONSTANT MaxPlain         \* bound: commits of a behaviour that are no merges

VARIABLE part

ToldExpiry == [t \in Token |-> IF t = "t1" THEN 0 ELSE 1]

(* Clients and data are interchangeable, and so are the processes that use *)
(* the credentials.                                                         *)
Interchangeable == Symmetries \cup Permutations(Shell)

RemoteInit ==
    /\ part \in {"push", "wire", "credentials"}
    /\ Init /\ WireInit /\ CredInit
    /\ part # "wire" => kind = "refs"

PlainCommits == {c \in CommitsMade : Len(c.parents) < 2}

PushNext ==
    /\ part = "push" /\ Next
    /\ Cardinality(PlainCommits') <= MaxPlain
    /\ UNCHANGED <<part, wirevars, credvars>>

RemoteNext ==
    \/ PushNext
    \/ part = "wire" /\ WireNext /\ UNCHANGED <<part, vars, credvars>>
    \/ part = "credentials" /\ CredNext /\ UNCHANGED <<part, vars, wirevars>>

RemoteSpec == RemoteInit /\ [][RemoteNext]_<<part, vars, wirevars, credvars>>

(* The type invariants of the three. *)
RemoteTypeOK == TypeOK /\ WireTypeOK /\ CredTypeOK
=============================================================================
