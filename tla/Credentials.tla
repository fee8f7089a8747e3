---------------------------- MODULE Credentials ----------------------------
(***************************************************************************)
(* AuthManager: the token kept in ~/.flux/credentials, with the time it    *)
(* expires.  Every process loads the file once; flux auth login and logout *)
(* write it; and so does every request to a server whose answer says when  *)
(* the token of the request expires.                                       *)
(*                                                                         *)
(*   saved     the credential that is read from the file, or NoToken: no   *)
(*             file, or one without both its lines                         *)
(*   now       the clock                                                   *)
(*   run       process -> where its command is, the credential in memory,  *)
(*             and the token of the request it has sent                    *)
(*   chosen    history, not in the code: the expiries chosen at logins     *)
(*   outdated  history: processes whose credential is not the file's       *)
(*   crossed   history: an answer about another token set an expiry        *)
(*   met       history: the processes that write the file, and another has *)
(*             renamed it since they began                                 *)
(*   mixed     history: two processes wrote the file at the same time      *)
(*                                                                         *)
(* The file is written through credentials.tmp, a name all processes       *)
(* share: of two that write it at once, one may rename what the other has  *)
(* just truncated, or has written over its own, and the other goes on      *)
(* writing what is now the file (AtomicFile has the system calls).  One    *)
(* killed while it writes is taken to be killed after those it met renamed. *)
(***************************************************************************)
EXTENDS Naturals

CONSTANTS
    Shell,        \* processes
    Token,
    Expires,      \* token -> the time the server says it expires, or NoToken
    Days,         \* the 30 days a login assumes
    Until,        \* the dates given to flux auth login --expires
    MaxClock,     \* bound of the clock
    NoToken

ASSUME CredentialAssumption ==
    /\ MaxClock \in Nat /\ Days \in Nat
    /\ Expires \in [Token -> 0..MaxClock \cup {NoToken}]
    /\ Until \subseteq 0..(MaxClock + Days)
    /\ NoToken \notin Token \cup [token : Token, expires : 0..(MaxClock + Days)]

VARIABLES saved, now, run, chosen, outdated, crossed, met, mixed

credvars == <<saved, now, run, chosen, outdated, crossed, met, mixed>>

AtRest == [pc |-> "rest"]
Credential(t, e) == [token |-> t, expires |-> e]
Times == 0..(MaxClock + Days)

CredInit ==
    /\ saved = NoToken /\ now = 0
    /\ run = [p \in Shell |-> AtRest]
    /\ chosen = {} /\ outdated = {} /\ met = {}
    /\ crossed = FALSE /\ mixed = FALSE

---------------------------------------------------------------------------
(* Who is writing the file: a login, or a request told an expiry. *)
Writers == {p \in Shell : run[p].pc \in {"storing", "updating"}}

(* What is read from a file that processes Q wrote at the same time: the   *)
(* token of one with the expiry of one, or nothing.                        *)
MixedOf(Q) ==
    {Credential(run[q].cred.token, run[r].cred.expires) : q, r \in Q} \cup {NoToken}

(* Processes that have another credential than the file, after a step. *)
OutdatedBy(p) ==
    {q \in Shell : /\ run'[q] # AtRest
                   /\ IF q = p THEN saved' # run[p].cred ELSE saved' # saved \/ q \in outdated}

(* save, of a credential: the file is written whole, as far as no other    *)
(* process writes it too.  The rename fails if another has done it.  What  *)
(* save returns is ignored, and the command goes on or ends.               *)
Save(p) ==
    /\ run[p].pc \in {"storing", "updating"}
    /\ \/ saved' = run[p].cred
       \/ (Writers # {p} \/ p \in met) /\ saved' \in MixedOf(Writers)
       \/ p \in met /\ saved' = saved
    /\ \/ run' = [run EXCEPT ![p] = AtRest]
       \/ run[p].with # NoToken /\ run' = [run EXCEPT ![p].pc = "asked"]
    /\ outdated' = OutdatedBy(p)
    /\ met' = Writers \ {p}
    /\ mixed' = (mixed \/ Writers # {p} \/ p \in met)
    /\ UNCHANGED <<now, chosen, crossed>>

(* AuthManager::load, when the manager is first used. *)
StartCommand(p) ==
    /\ run[p] = AtRest
    /\ run' = [run EXCEPT ![p] = [pc |-> "loaded", cred |-> saved]]
    /\ outdated' = outdated \ {p}
    /\ UNCHANGED <<saved, now, chosen, crossed, met, mixed>>

(* flux auth login: thirty days at first, then what the server says. *)
LoginWith(p, cred, with) ==
    /\ run[p].pc = "loaded"
    /\ run' = [run EXCEPT ![p] = [pc |-> "storing", cred |-> cred, with |-> with]]
    /\ chosen' = chosen \cup {cred}
    /\ UNCHANGED <<saved, now, outdated, crossed, met, mixed>>

Login(p, t) == LoginWith(p, Credential(t, now + Days), t)

(* flux auth login --expires. *)
LoginUntil(p, t, e) == LoginWith(p, Credential(t, e), NoToken)

(* flux auth logout: the file is removed. *)
Logout(p) ==
    /\ run[p].pc = "loaded"
    /\ saved' = NoToken
    /\ run' = [run EXCEPT ![p] = AtRest]
    /\ outdated' = OutdatedBy(p)
    /\ UNCHANGED <<now, chosen, crossed, met, mixed>>

(* A request carries the token given with the command or in FLUX_TOKEN,    *)
(* else the saved one unless it has expired (get_token, is_expired), else  *)
(* none: set_token and the authentication of HttpTransport::get and post.  *)
TokenFor(cred, given) ==
    IF given # NoToken THEN given
    ELSE IF cred # NoToken /\ now <= cred.expires THEN cred.token
    ELSE NoToken

SendRequest(p, given) ==
    /\ run[p].pc = "loaded"
    /\ run' = [run EXCEPT ![p] = [pc |-> "asked", cred |-> @.cred,
                                  with |-> TokenFor(@.cred, given)]]
    /\ UNCHANGED <<saved, now, chosen, outdated, crossed, met, mixed>>

(* header_callback, and update_expiration_from_header: the answer's expiry *)
(* is given to the credential in memory, if there is one, and saved.       *)
Told(t) == IF t = NoToken THEN NoToken ELSE Expires[t]

(* Mutant: the expiry is given to the credential in the file as it is now. *)
UpdatedInFile(p) ==
    IF Told(run[p].with) = NoToken \/ saved = NoToken THEN NoToken
    ELSE Credential(saved.token, Told(run[p].with))

(* Mutant: without a credential, the request's token is taken. *)
UpdatedAlways(p) ==
    IF Told(run[p].with) = NoToken THEN NoToken
    ELSE Credential(run[p].with, Told(run[p].with))

Updated(p) ==
    IF Told(run[p].with) = NoToken \/ run[p].cred = NoToken THEN NoToken
    ELSE Credential(run[p].cred.token, Told(run[p].with))

(* A command that clones sends several requests, and may get several       *)
(* answers; others end here.                                               *)
Answer(p) ==
    /\ run[p].pc = "asked"
    /\ \/ /\ Updated(p) # NoToken
          /\ run' = [run EXCEPT ![p] = [@ EXCEPT !.pc = "updating", !.cred = Updated(p)]]
          /\ outdated' = outdated
       \/ /\ Updated(p) = NoToken
          /\ run' = [run EXCEPT ![p] = AtRest]
          /\ outdated' = outdated \ {p}
    /\ crossed' = (crossed \/
            (run[p].cred # NoToken /\ Told(run[p].with) # NoToken
             /\ run[p].with # run[p].cred.token))
    /\ UNCHANGED <<saved, now, chosen, met, mixed>>

(* A command that needs no server, or is killed, or whose request failed   *)
(* before any header came.                                                 *)
EndCommand(p) ==
    /\ run[p] # AtRest
    /\ run' = [run EXCEPT ![p] = AtRest]
    /\ outdated' = outdated \ {p} /\ met' = met \ {p}
    /\ UNCHANGED <<saved, now, chosen, crossed, mixed>>

ClockTicks ==
    /\ now < MaxClock /\ now' = now + 1
    /\ UNCHANGED <<saved, run, chosen, outdated, crossed, met, mixed>>

CredNext ==
    \/ \E p \in Shell :
        \/ StartCommand(p) \/ Logout(p) \/ Answer(p) \/ Save(p) \/ EndCommand(p)
        \/ \E t \in Token : Login(p, t) \/ \E e \in Until : LoginUntil(p, t, e)
        \/ \E given \in Token \cup {NoToken} : SendRequest(p, given)
    \/ ClockTicks

CredSpec == CredInit /\ [][CredNext]_credvars

---------------------------------------------------------------------------
CredentialSet == [token : Token, expires : Times] \cup {NoToken}

(* Type invariant. *)
CredTypeOK ==
    /\ saved \in CredentialSet /\ now \in 0..MaxClock
    /\ \A p \in Shell : run[p] # AtRest =>
        /\ run[p].pc \in {"loaded", "asked", "storing", "updating"}
        /\ run[p].cred \in CredentialSet
        /\ run[p].pc # "loaded" => run[p].with \in Token \cup {NoToken}
        /\ run[p].pc \in {"storing", "updating"} => run[p].cred # NoToken
    /\ chosen \subseteq CredentialSet
    /\ outdated \subseteq Shell /\ met \subseteq Writers

(* The expiry kept with a token is the one the server told of that token,  *)
(* or one chosen when it was saved; commands of several processes may have *)
(* written the file in any order.  Two exceptions: a request that carried  *)
(* another token than the saved one, given with the command or in the      *)
(* environment, whose expiry is saved with the wrong token; and two        *)
(* processes that write the file at the same time, through one temporary.  *)
ExpiryIsTokens ==
    saved # NoToken /\ ~crossed /\ ~mixed =>
        saved.expires = Expires[saved.token] \/ saved \in chosen

(* A credential that was removed, or lost when two processes wrote the     *)
(* file at once, comes back by a login only, or by a request of a command  *)
(* that had loaded one before.                                             *)
ComesBackExplained ==
    [][saved = NoToken /\ saved' # NoToken =>
        \E p \in Shell : /\ run'[p] # run[p]
                         /\ \/ run[p].pc = "storing"
                            \/ run[p].pc = "updating" /\ p \in outdated]_credvars
=============================================================================
