-------------------------- MODULE Transport_proofs --------------------------
(***************************************************************************)
(* What goes between a client and a server: the token that requests carry  *)
(* and the file that keeps it (Credentials), and what is made of an answer *)
(* that may be cut short (Wire), for any number of processes, tokens and   *)
(* answers of any length; and that these, and the pushes of Push_proofs,   *)
(* are as proved in the specification of the three together.               *)
(***************************************************************************)
EXTENDS MCRemote, Push_proofs, SequenceTheorems, FiniteSetTheorems, TLAPS

---------------------------------------------------------------------------
(* What a command has in memory. *)
Loading == [pc : {"loaded"}, cred : CredentialSet]
Asking == [pc : {"asked"}, cred : CredentialSet, with : Token \cup {NoToken}]
Writing == [pc : {"storing", "updating"}, cred : CredentialSet \ {NoToken},
            with : Token \cup {NoToken}]
Commands == Loading \cup Asking \cup Writing

(* The credentials there are; and, as long as no answer about another      *)
(* token set an expiry, and no two processes wrote the file at once, each  *)
(* has the expiry told of its token, or chosen.                            *)
Fine(cred, all) ==
    cred # NoToken => cred.expires = Expires[cred.token] \/ cred \in all

CredShape ==
    /\ saved \in CredentialSet /\ now \in 0..MaxClock
    /\ run \in [Shell -> {AtRest} \cup Commands]
    /\ chosen \subseteq CredentialSet /\ outdated \subseteq Shell
    /\ crossed \in BOOLEAN /\ mixed \in BOOLEAN
    /\ met \subseteq Writers

AllFine ==
    ~crossed /\ ~mixed =>
        /\ Fine(saved, chosen)
        /\ \A p \in Shell : run[p] # AtRest => Fine(run[p].cred, chosen)

(* A command not outdated has the credential of the file, or an expiry for *)
(* the one that is there.                                                  *)
Agrees(cmd, file) ==
    /\ cmd.pc \in {"loaded", "asked"} => cmd.cred = file
    /\ cmd.pc = "updating" => file # NoToken

UpToDateOr == \A p \in Shell \ outdated : Agrees(run[p], saved)

CredInv == CredShape /\ AllFine /\ UpToDateOr

LEMMA CredInvInit == CredInit => CredInv
<1> SUFFICES ASSUME CredInit PROVE CredInv
  OBVIOUS
<1>1. \A p \in Shell : run[p] = AtRest
  BY DEF CredInit
<1>2. CredShape
  <2>1. run \in [Shell -> {AtRest} \cup Commands]
    BY DEF CredInit
  <2>2. now \in 0..MaxClock /\ saved \in CredentialSet
    BY CredentialAssumption DEF CredInit, CredentialSet
  <2> QED
    BY <2>1, <2>2 DEF CredInit, CredShape
<1> QED
  BY <1>1, <1>2 DEF CredInit, CredInv, AllFine, UpToDateOr, Fine, Agrees, AtRest

(* Where a command is. *)
LEMMA CommandIs ==
  ASSUME CredShape, NEW p \in Shell
  PROVE  /\ run[p] = AtRest <=> run[p].pc \notin {"loaded", "asked", "storing", "updating"}
         /\ run[p].pc = "loaded" => run[p] \in Loading
         /\ run[p].pc = "asked" => run[p] \in Asking
         /\ run[p].pc \in {"storing", "updating"} => run[p] \in Writing
         /\ run[p] # AtRest =>
               /\ run[p].cred \in CredentialSet
               /\ run[p].pc \in {"loaded", "asked", "storing", "updating"}
BY DEF CredShape, AtRest, Commands, Loading, Asking, Writing

(* What a credential made of a token and a time is. *)
LEMMA CredentialIs ==
  ASSUME NEW t \in Token, NEW e \in Times
  PROVE  /\ Credential(t, e) \in CredentialSet /\ Credential(t, e) # NoToken
         /\ Credential(t, e).token = t /\ Credential(t, e).expires = e
BY CredentialAssumption DEF Credential, CredentialSet, Times

(* What a server tells of a token. *)
LEMMA ToldIs ==
  ASSUME NEW t \in Token \cup {NoToken}, Told(t) # NoToken
  PROVE  t \in Token /\ Told(t) = Expires[t] /\ Told(t) \in Times
BY CredentialAssumption DEF Told, Times

(* When only the command of p, the file and what is said of them change. *)
LEMMA CommandGoes ==
  ASSUME CredInv, NEW p \in Shell, NEW cmd \in {AtRest} \cup Commands,
         run' = [run EXCEPT ![p] = cmd],
         saved' \in CredentialSet, now' = now,
         chosen \subseteq chosen', chosen' \subseteq CredentialSet,
         crossed' \in BOOLEAN, mixed' \in BOOLEAN, crossed => crossed', mixed => mixed',
         ~crossed' /\ ~mixed' =>
            Fine(saved', chosen') /\ (cmd # AtRest => Fine(cmd.cred, chosen')),
         outdated' \subseteq Shell,
         \A q \in Shell \ {p} : run[q] # AtRest /\ q \notin outdated' =>
                                saved' = saved /\ q \notin outdated,
         p \notin outdated' => Agrees(cmd, saved'),
         \A q \in met' : q \in Writers /\ (q = p => cmd \in Writing)
  PROVE  CredInv'
<1>1. run'[p] = cmd /\ \A q \in Shell \ {p} : run'[q] = run[q]
  BY DEF CredInv, CredShape
<1>2. CredShape'
  <2>1. met' \subseteq Writers'
    BY <1>1 DEF Writers, Writing
  <2> QED
    BY <2>1 DEF CredInv, CredShape
<1>3. AllFine'
  BY <1>1 DEF CredInv, AllFine, Fine
<1>4. UpToDateOr'
  <2>1. ASSUME NEW q \in Shell \ outdated', q # p PROVE Agrees(run'[q], saved')
    <3>1. CASE run[q] = AtRest
      BY <1>1, <2>1, <3>1 DEF Agrees, AtRest
    <3>2. CASE run[q] # AtRest
      BY <1>1, <2>1, <3>2 DEF CredInv, UpToDateOr
    <3> QED
      BY <3>1, <3>2
  <2> QED
    BY <1>1, <2>1 DEF UpToDateOr, Agrees
<1> QED
  BY <1>2, <1>3, <1>4 DEF CredInv

(* What two processes that write at once leave. *)
LEMMA MixedIs ==
  ASSUME CredShape
  PROVE  MixedOf(Writers) \subseteq CredentialSet
<1>1. \A q \in Writers : run[q].cred \in CredentialSet \ {NoToken}
  BY CommandIs DEF Writers, Writing
<1>2. \A q, r \in Writers : Credential(run[q].cred.token, run[r].cred.expires) \in CredentialSet
  BY <1>1 DEF Credential, CredentialSet
<1> QED
  BY <1>2 DEF MixedOf, CredentialSet

LEMMA SaveKeeps ==
  ASSUME CredInv, NEW p \in Shell, Save(p)
  PROVE  CredInv'
<1>0. CredShape
  BY DEF CredInv
<1>1. run[p] \in Writing /\ run[p] # AtRest
  BY <1>0, CommandIs DEF Save, Writing
<1>2. PICK cmd \in {AtRest, [run[p] EXCEPT !.pc = "asked"]} : run' = [run EXCEPT ![p] = cmd]
  BY DEF Save
<1>3. /\ cmd \in {AtRest} \cup Commands
      /\ cmd # AtRest => cmd.cred = run[p].cred /\ cmd.pc = "asked"
  <2>1. /\ [run[p] EXCEPT !.pc = "asked"] \in Asking
        /\ [run[p] EXCEPT !.pc = "asked"].cred = run[p].cred
        /\ [run[p] EXCEPT !.pc = "asked"].pc = "asked"
    BY <1>1 DEF Writing, Asking
  <2> QED
    BY <2>1 DEF Commands
<1>4. run'[p] = cmd /\ \A q \in Shell \ {p} : run'[q] = run[q]
  BY <1>0, <1>2 DEF CredShape
<1>5. saved' \in CredentialSet
  BY <1>0, <1>1, MixedIs DEF Save, Writing, CredShape
<1>6. UNCHANGED <<now, chosen, crossed>> /\ mixed' = (mixed \/ Writers # {p} \/ p \in met)
      /\ met' = Writers \ {p} /\ outdated' = OutdatedBy(p)
  BY DEF Save
<1>7. mixed' \in BOOLEAN /\ (mixed => mixed')
  BY <1>0, <1>6 DEF CredShape
<1>8. ~crossed' /\ ~mixed' =>
         Fine(saved', chosen') /\ (cmd # AtRest => Fine(cmd.cred, chosen'))
  <2> SUFFICES ASSUME ~crossed', ~mixed'
               PROVE  Fine(saved', chosen) /\ Fine(run[p].cred, chosen)
    BY <1>3, <1>6
  <2>1. saved' = run[p].cred
    BY <1>6 DEF Save
  <2> QED
    BY <1>1, <1>6, <1>7, <2>1 DEF CredInv, AllFine
<1>9. outdated' \subseteq Shell
  BY <1>6 DEF OutdatedBy
<1>10. \A q \in Shell \ {p} : run[q] # AtRest /\ q \notin outdated' =>
                               saved' = saved /\ q \notin outdated
  BY <1>4, <1>6 DEF OutdatedBy
<1>11. p \notin outdated' => Agrees(cmd, saved')
  <2>1. CASE cmd = AtRest
    BY <2>1 DEF Agrees, AtRest
  <2>2. CASE cmd # AtRest
    BY <1>3, <1>4, <1>6, <2>2 DEF OutdatedBy, Agrees
  <2> QED
    BY <2>1, <2>2
<1>12. \A q \in met' : q \in Writers /\ (q = p => cmd \in Writing)
  BY <1>6
<1> HIDE DEF CredInv
<1> QED
  BY <1>0, <1>2, <1>3, <1>5, <1>6, <1>7, <1>8, <1>9, <1>10, <1>11, <1>12, CommandGoes DEF CredShape

LEMMA AnswerKeeps ==
  ASSUME CredInv, NEW p \in Shell, Answer(p)
  PROVE  CredInv'
<1> DEFINE cred == run[p].cred
           with == run[p].with
           new == Updated(p)
<1>0. CredShape
  BY DEF CredInv
<1>1. /\ run[p].pc = "asked" /\ UNCHANGED <<saved, now, chosen, met, mixed>>
      /\ crossed' = (crossed \/ (cred # NoToken /\ Told(with) # NoToken /\ with # cred.token))
  BY DEF Answer
<1>2. run[p] \in Asking /\ run[p] # AtRest /\ cred \in CredentialSet /\ with \in Token \cup {NoToken}
  BY <1>0, <1>1, CommandIs DEF Asking
<1>3. crossed' \in BOOLEAN /\ (crossed => crossed')
  BY <1>0, <1>1 DEF CredShape
<1>4. \A q \in met' : q \in Writers /\ q # p
  BY <1>0, <1>1 DEF CredShape, Writers
<1>5. ~crossed /\ ~mixed => Fine(saved, chosen)
  BY DEF CredInv, AllFine
<1>6. CASE new = NoToken
  <2>1. run' = [run EXCEPT ![p] = AtRest] /\ outdated' = outdated \ {p}
    BY <1>6 DEF Answer
  <2>2. Agrees(AtRest, saved')
    BY DEF Agrees, AtRest
  <2> QED
    BY <1>0, <1>1, <1>3, <1>4, <1>5, <2>1, <2>2, CommandGoes DEF CredShape
<1>7. CASE new # NoToken
  <2> DEFINE cmd == [run[p] EXCEPT !.pc = "updating", !.cred = new]
  <2>1. run' = [run EXCEPT ![p] = cmd] /\ outdated' = outdated
    BY <1>7 DEF Answer
  <2>2. cred # NoToken /\ Told(with) # NoToken /\ new = Credential(cred.token, Told(with))
    BY <1>7 DEF Updated
  <2>3. cred.token \in Token /\ with \in Token /\ Told(with) = Expires[with] /\ Told(with) \in Times
    BY <1>2, <2>2, ToldIs DEF CredentialSet
  <2>4. new \in CredentialSet \ {NoToken} /\ new.token = cred.token /\ new.expires = Expires[with]
    BY <2>2, <2>3, CredentialIs
  <2>5. ~crossed' => with = cred.token
    BY <1>1, <2>2
  <2> HIDE DEF new, cred, with
  <2>6. cmd \in Writing /\ cmd.cred = new /\ cmd.pc = "updating"
    BY <1>2, <2>4 DEF Asking, Writing
  <2>7. ~crossed' => Fine(cmd.cred, chosen)
    BY <2>4, <2>5, <2>6 DEF Fine
  <2>8. p \notin outdated' => Agrees(cmd, saved')
    <3>1. p \notin outdated => cred = saved
      BY <1>1 DEF CredInv, UpToDateOr, Agrees, cred
    <3> QED
      BY <1>1, <2>1, <2>2, <2>6, <3>1 DEF Agrees
  <2> HIDE DEF cmd
  <2> QED
    BY <1>0, <1>1, <1>3, <1>4, <1>5, <2>1, <2>6, <2>7, <2>8, CommandGoes DEF CredShape, Commands
<1> QED
  BY <1>6, <1>7

LEMMA CredInvNext == CredInv /\ [CredNext]_credvars => CredInv'
<1> SUFFICES ASSUME CredInv, [CredNext]_credvars PROVE CredInv'
  OBVIOUS
<1>0. CredShape
  BY DEF CredInv
<1>a. Agrees(AtRest, saved') /\ (~crossed /\ ~mixed => Fine(saved, chosen))
  BY DEF Agrees, AtRest, CredInv, AllFine
<1>m. \A p \in Shell : run[p].pc \in {"loaded", "rest"} => p \notin met
  BY <1>0 DEF CredShape, Writers
<1>1. CASE UNCHANGED credvars
  BY <1>1 DEF credvars, CredInv, CredShape, AllFine, UpToDateOr, Writers
<1>2. CASE ClockTicks
  BY <1>2, CredentialAssumption DEF ClockTicks, CredInv, CredShape, AllFine, UpToDateOr, Writers
<1>3. ASSUME NEW p \in Shell, StartCommand(p) PROVE CredInv'
  <2> DEFINE cmd == [pc |-> "loaded", cred |-> saved]
  <2>1. run' = [run EXCEPT ![p] = cmd] /\ outdated' = outdated \ {p}
        /\ UNCHANGED <<saved, now, chosen, crossed, met, mixed>> /\ run[p] = AtRest
    BY <1>3 DEF StartCommand
  <2>2. cmd \in Commands /\ cmd.cred = saved /\ Agrees(cmd, saved)
    BY <1>0 DEF CredShape, Loading, Commands, Agrees
  <2>3. \A q \in met' : q \in Writers /\ q # p
    BY <1>0, <1>m, <2>1 DEF CredShape, AtRest
  <2> HIDE DEF cmd
  <2> QED
    BY <1>0, <1>a, <2>1, <2>2, <2>3, CommandGoes DEF CredShape
<1>4. ASSUME NEW p \in Shell, NEW t \in Token, NEW e \in Times, NEW with \in Token \cup {NoToken},
             LoginWith(p, Credential(t, e), with)
      PROVE  CredInv'
  <2> DEFINE cred == Credential(t, e)
             cmd == [pc |-> "storing", cred |-> cred, with |-> with]
  <2>1. cred \in CredentialSet \ {NoToken}
    BY CredentialIs
  <2>2. /\ run[p].pc = "loaded" /\ run' = [run EXCEPT ![p] = cmd] /\ chosen' = chosen \cup {cred}
        /\ UNCHANGED <<saved, now, outdated, crossed, met, mixed>>
    BY <1>4 DEF LoginWith
  <2> HIDE DEF cred
  <2>3. cmd \in Commands /\ cmd \in Writing /\ cmd.cred = cred /\ Agrees(cmd, saved)
    BY <2>1 DEF Commands, Writing, Agrees
  <2>4. Fine(cmd.cred, chosen') /\ (~crossed /\ ~mixed => Fine(saved, chosen'))
    BY <1>a, <2>2, <2>3 DEF Fine
  <2>5. \A q \in met' : q \in Writers /\ q # p
    BY <1>0, <1>m, <2>2 DEF CredShape
  <2> HIDE DEF cmd
  <2> QED
    BY <1>0, <2>1, <2>2, <2>3, <2>4, <2>5, CommandGoes DEF CredShape
<1>5. ASSUME NEW p \in Shell, NEW t \in Token, Login(p, t) PROVE CredInv'
  <2>1. now + Days \in Times
    BY <1>0, CredentialAssumption DEF CredShape, Times
  <2> QED
    BY <1>4, <1>5, <2>1 DEF Login
<1>6. ASSUME NEW p \in Shell, NEW t \in Token, NEW e \in Until, LoginUntil(p, t, e) PROVE CredInv'
  BY <1>4, <1>6, CredentialAssumption DEF LoginUntil, Times
<1>7. ASSUME NEW p \in Shell, Logout(p) PROVE CredInv'
  <2>1. /\ run' = [run EXCEPT ![p] = AtRest] /\ saved' = NoToken /\ run[p].pc = "loaded"
        /\ UNCHANGED <<now, chosen, crossed, met, mixed>> /\ outdated' = OutdatedBy(p)
    BY <1>7 DEF Logout
  <2>2. Fine(saved', chosen') /\ saved' \in CredentialSet
    BY <2>1 DEF Fine, CredentialSet
  <2>3. \A q \in Shell \ {p} : run'[q] = run[q]
    BY <1>0, <2>1 DEF CredShape
  <2>4. /\ outdated' \subseteq Shell
        /\ \A q \in Shell \ {p} : run[q] # AtRest /\ q \notin outdated' =>
                                   saved' = saved /\ q \notin outdated
    BY <2>1, <2>3 DEF OutdatedBy
  <2>5. \A q \in met' : q \in Writers /\ q # p
    BY <1>0, <1>m, <2>1 DEF CredShape
  <2> QED
    BY <1>0, <1>a, <2>1, <2>2, <2>4, <2>5, CommandGoes DEF CredShape
<1>8. ASSUME NEW p \in Shell, NEW given \in Token \cup {NoToken}, SendRequest(p, given) PROVE CredInv'
  <2> DEFINE with == TokenFor(run[p].cred, given)
             cmd == [pc |-> "asked", cred |-> run[p].cred, with |-> with]
  <2>1. run[p].pc = "loaded" /\ run' = [run EXCEPT ![p] = cmd]
        /\ UNCHANGED <<saved, now, chosen, outdated, crossed, met, mixed>>
    BY <1>8 DEF SendRequest
  <2>2. run[p] \in Loading /\ run[p] # AtRest
    BY <1>0, <2>1, CommandIs DEF Loading
  <2>3. with \in Token \cup {NoToken}
    BY <2>2 DEF Loading, TokenFor, CredentialSet
  <2>4. cmd \in Commands /\ cmd.cred = run[p].cred /\ cmd.pc = "asked"
    <3> HIDE DEF with
    <3> QED
      BY <2>2, <2>3 DEF Asking, Loading, Commands
  <2>5. /\ ~crossed /\ ~mixed => Fine(saved, chosen) /\ Fine(cmd.cred, chosen)
        /\ p \notin outdated => Agrees(cmd, saved)
    BY <2>1, <2>2, <2>4 DEF CredInv, AllFine, UpToDateOr, Agrees
  <2>6. \A q \in met' : q \in Writers /\ q # p
    BY <1>0, <1>m, <2>1 DEF CredShape
  <2> HIDE DEF cmd, with
  <2> QED
    BY <1>0, <2>1, <2>4, <2>5, <2>6, CommandGoes DEF CredShape
<1>9. ASSUME NEW p \in Shell, EndCommand(p) PROVE CredInv'
  <2>1. /\ run' = [run EXCEPT ![p] = AtRest] /\ outdated' = outdated \ {p} /\ met' = met \ {p}
        /\ UNCHANGED <<saved, now, chosen, crossed, mixed>>
    BY <1>9 DEF EndCommand
  <2> QED
    BY <1>0, <1>a, <2>1, CommandGoes DEF CredShape
<1> QED
  BY <1>1, <1>2, <1>3, <1>5, <1>6, <1>7, <1>8, <1>9, AnswerKeeps, SaveKeeps DEF CredNext

(* What the file and the commands hold stays well typed. *)
THEOREM CredentialTyping == CredSpec => []CredTypeOK
<1>1. CredInv => CredTypeOK
  <2> SUFFICES ASSUME CredInv PROVE CredTypeOK
    OBVIOUS
  <2>1. CredShape
    BY DEF CredInv
  <2>2. ASSUME NEW p \in Shell, run[p] # AtRest
        PROVE  /\ run[p].pc \in {"loaded", "asked", "storing", "updating"}
               /\ run[p].cred \in CredentialSet
               /\ run[p].pc # "loaded" => run[p].with \in Token \cup {NoToken}
               /\ run[p].pc \in {"storing", "updating"} => run[p].cred # NoToken
    BY <2>1, <2>2, CommandIs DEF Asking, Writing
  <2> QED
    BY <2>1, <2>2 DEF CredShape, CredTypeOK
<1> QED
  BY <1>1, CredInvInit, CredInvNext, PTL DEF CredSpec

(* Whatever processes log in, log out and get answers, in any order, the   *)
(* expiry kept with a token is the server's of that token, or the chosen   *)
(* one, until an answer is about another token than the one saved, or two  *)
(* processes write the file at the same time.                              *)
(* (AuthManager::update_expiration_from_header and save, HttpTransport)    *)
THEOREM ExpiryIsKnown == CredSpec => []ExpiryIsTokens
<1>1. CredInv => ExpiryIsTokens
  BY DEF CredInv, AllFine, Fine, ExpiryIsTokens
<1> QED
  BY <1>1, CredInvInit, CredInvNext, PTL DEF CredSpec

(* A credential removed by a logout, or lost when two processes wrote the  *)
(* file at once, comes back by a login, or by the answer to a command that *)
(* had loaded it before: only such a command has one.                      *)
(* (AuthManager::load and save)                                            *)
THEOREM ReturnsExplained == CredSpec => ComesBackExplained
<1> DEFINE Explained ==
        saved = NoToken /\ saved' # NoToken =>
            \E p \in Shell : /\ run'[p] # run[p]
                             /\ \/ run[p].pc = "storing"
                                \/ run[p].pc = "updating" /\ p \in outdated
<1>1. CredInv /\ [CredNext]_credvars => [Explained]_credvars
  <2> SUFFICES ASSUME CredInv, CredNext, saved = NoToken, saved' # NoToken
               PROVE  Explained
    OBVIOUS
  <2>0. CredShape
    BY DEF CredInv
  <2>1. ASSUME NEW p \in Shell, Save(p) PROVE Explained
    <3>1. run[p].pc \in {"storing", "updating"} /\ run'[p].pc \in {"rest", "asked"}
      BY <2>0, <2>1 DEF Save, CredShape, AtRest, Commands, Loading, Asking, Writing
    <3>2. run[p].pc = "updating" => p \in outdated
      BY DEF CredInv, UpToDateOr, Agrees
    <3> QED
      BY <3>1, <3>2
  <2>2. ASSUME NEW p \in Shell,
               \/ StartCommand(p) \/ EndCommand(p) \/ Logout(p) \/ Answer(p)
               \/ \E given \in Token \cup {NoToken} : SendRequest(p, given)
               \/ \E t \in Token : Login(p, t) \/ \E e \in Until : LoginUntil(p, t, e)
        PROVE  FALSE
    BY <2>2 DEF StartCommand, EndCommand, Logout, Answer, SendRequest, Login, LoginUntil, LoginWith
  <2>3. ~ClockTicks
    BY DEF ClockTicks
  <2> HIDE DEF Explained
  <2> QED
    BY <2>1, <2>2, <2>3 DEF CredNext
<1> QED
  BY <1>1, CredInvInit, CredInvNext, PTL DEF CredSpec, ComesBackExplained
---------------------------------------------------------------------------
(* The contents of the lines there are, by what a line is. *)
LEMMA LineIs ==
  ASSUME NEW l \in Lines
  PROVE  /\ l # Broken /\ l.is # "broken" /\ l = Line(l.is, l.v)
         /\ l.is = "ref" => l.v \in Ref
         /\ l.is = "pack" => l.v \in Part
         /\ l.is = "unpack" => l.v \in {"ok", "error"}
         /\ l.is = "status" => l.v \in {"ok", "ng"}
         /\ l.is = "wrapped" => \E s \in {"ok", "error"}, t \in {"ok", "ng"} : l.v = Report(s, t)
BY DEF Lines, Line, Flush, Broken

LEMMA ReportIs ==
  ASSUME NEW s, NEW t
  PROVE  Report(s, t)[1].v = s /\ Report(s, t)[2].v = t
BY DEF Report, Line, Flush

(* The shape of an answer, as far as it was sent. *)
SentRefs == kind = "refs" =>
    \A i \in DOMAIN sent :
        /\ i = 1 <=> sent[i].is = "service"
        /\ i = 2 => sent[i].is = "flush"

SentPack == kind = "pack" => \A i \in DOMAIN sent : sent[i].is = "flush" => i = Len(sent)

SentReport == kind = "report" =>
    /\ Len(sent) <= 3
    /\ Len(sent) >= 1 => sent[1].is \in {"unpack", "wrapped"}
    /\ Len(sent) >= 2 => sent[2].is = IF sent[1].is = "unpack" THEN "status" ELSE "flush"
    /\ Len(sent) >= 3 => sent[1].is = "unpack" /\ sent[3].is = "flush"

Sent == SentRefs /\ SentPack /\ SentReport

(* What came of it. *)
Came ==
    /\ Len(body) <= Len(sent)
    /\ \A i \in DOMAIN body : body[i] = sent[i] \/ (body[i] = Broken /\ i = Len(body))

(* What was read. *)
NoNak == \A i \in DOMAIN sent : sent[i].is = "pack" => sent[i].v \notin HasNak

Read ==
    /\ IF kind = "refs" THEN Carries(refs, "ref", pos - 1) ELSE refs = <<>>
    /\ kind = "pack" /\ NoNak => Carries(chunks, "pack", pos - 1)
    /\ kind = "report" =>
        /\ pos <= 3
        /\ pos = 1 => report = NoReport
        /\ pos = 2 => report = WithLine(NoReport, sent[1])
        /\ pos = 3 => sent[1].is = "unpack" /\ report = WithLine(WithLine(NoReport, sent[1]), sent[2])

(* No line that was read is Broken. *)
Passed == \A i \in 1..(pos - 1) : body[i] = sent[i]

(* Where reading stopped. *)
AtEnd ==
    pos <= Len(body) =>
        body[pos].is = "broken" \/ (body[pos].is = "flush" /\ kind # "refs")

WireInv ==
    /\ WireTypeOK /\ Sent /\ Came /\ Read /\ Passed
    /\ phase \in {"send", "failed"} =>
        pos = 1 /\ body = <<>> /\ refs = <<>> /\ chunks = <<>> /\ report = NoReport
    /\ phase = "done" => AtEnd

---------------------------------------------------------------------------
LEMMA CountIs ==
  ASSUME NEW is, NEW n \in Nat
  PROVE  /\ Count(is, 0) = 0 /\ Count(is, n) \in Nat
         /\ Count(is, n + 1) = IF sent[n + 1].is = is THEN Count(is, n) + 1 ELSE Count(is, n)
         /\ \A i \in 1..n : sent[i].is = is => Count(is, i) \in 1..Count(is, n)
<1> DEFINE Of(m) == {i \in 1..m : sent[i].is = is}
<1>1. Of(0) = {} /\ Cardinality({}) = 0
  BY FS_EmptySet
<1>2. ASSUME NEW m \in Nat PROVE IsFiniteSet(Of(m)) /\ Cardinality(Of(m)) \in Nat
  <2>1. IsFiniteSet(1..m) /\ Of(m) \in SUBSET (1..m)
    BY FS_Interval
  <2>2. IsFiniteSet(Of(m))
    BY <2>1, FS_Subset
  <2> QED
    BY <2>2, FS_CardinalityType
<1>3. ASSUME NEW m \in Nat
      PROVE  Cardinality(Of(m + 1)) =
                IF sent[m + 1].is = is THEN Cardinality(Of(m)) + 1 ELSE Cardinality(Of(m))
  <2>1. CASE sent[m + 1].is = is
    <3>1. Of(m + 1) = Of(m) \cup {m + 1} /\ m + 1 \notin Of(m)
      BY <2>1
    <3> HIDE DEF Of
    <3>2. Cardinality(Of(m) \cup {m + 1}) = Cardinality(Of(m)) + 1
      BY <1>2, <3>1, FS_AddElement
    <3> QED
      BY <2>1, <3>1, <3>2
  <2>2. CASE sent[m + 1].is # is
    <3>1. Of(m + 1) = Of(m)
      BY <2>2
    <3> HIDE DEF Of
    <3> QED
      BY <2>2, <3>1
  <2> QED
    BY <2>1, <2>2
<1>4. ASSUME NEW i \in 1..n, sent[i].is = is
      PROVE  Cardinality(Of(i)) \in 1..Cardinality(Of(n))
  <2>1. i - 1 \in Nat /\ (i - 1) + 1 = i /\ i \in Nat
    OBVIOUS
  <2>2. Of(i) \in SUBSET Of(n)
    OBVIOUS
  <2> HIDE DEF Of
  <2>3. Cardinality(Of(i)) = Cardinality(Of(i - 1)) + 1
    BY <1>3, <1>4, <2>1
  <2>4. Cardinality(Of(i - 1)) \in Nat /\ IsFiniteSet(Of(n)) /\ Cardinality(Of(n)) \in Nat
    BY <1>2, <2>1
  <2>5. Cardinality(Of(i)) <= Cardinality(Of(n))
    BY <2>2, <2>4, FS_Subset
  <2> QED
    BY <2>3, <2>4, <2>5
<1>5. \A m : Count(is, m) = Cardinality(Of(m))
  BY DEF Count
<1> HIDE DEF Of
<1>6. Count(is, 0) = 0
  BY <1>1, <1>5
<1>7. Count(is, n) \in Nat
  BY <1>2, <1>5
<1>8. Count(is, n + 1) = IF sent[n + 1].is = is THEN Count(is, n) + 1 ELSE Count(is, n)
  BY <1>3, <1>5
<1>9. \A i \in 1..n : sent[i].is = is => Count(is, i) \in 1..Count(is, n)
  BY <1>4, <1>5
<1> QED
  BY <1>6, <1>7, <1>8, <1>9

(* One more line is read. *)
LEMMA CarriesOn ==
  ASSUME NEW S, NEW read \in Seq(S), NEW is, NEW n \in Nat, Carries(read, is, n)
  PROVE  /\ \A v \in S : sent[n + 1].is = is /\ sent[n + 1].v = v => Carries(Append(read, v), is, n + 1)
         /\ sent[n + 1].is # is => Carries(read, is, n + 1)
<1>1. /\ Count(is, n) \in Nat
      /\ Count(is, n + 1) = IF sent[n + 1].is = is THEN Count(is, n) + 1 ELSE Count(is, n)
      /\ \A i \in 1..n : sent[i].is = is => Count(is, i) \in 1..Count(is, n)
  BY CountIs
<1>2. Len(read) = Count(is, n) /\ \A i \in 1..n : sent[i].is = is => read[Count(is, i)] = sent[i].v
  BY DEF Carries
<1>3. ASSUME NEW v \in S, sent[n + 1].is = is, sent[n + 1].v = v
      PROVE  Carries(Append(read, v), is, n + 1)
  <2> DEFINE more == Append(read, v)
  <2>1. Len(more) = Count(is, n) + 1 /\ more[Count(is, n) + 1] = v
        /\ \A k \in 1..Count(is, n) : more[k] = read[k]
    BY <1>1, <1>2, AppendProperties, LenProperties
  <2> HIDE DEF more
  <2>2. ASSUME NEW i \in 1..(n + 1), sent[i].is = is PROVE more[Count(is, i)] = sent[i].v
    <3>1. CASE i = n + 1
      BY <1>1, <1>3, <2>1, <3>1
    <3>2. CASE i \in 1..n
      BY <1>1, <1>2, <2>1, <2>2, <3>2
    <3> QED
      BY <3>1, <3>2
  <2>3. Len(more) = Count(is, n + 1)
    BY <1>1, <1>3, <2>1
  <2> QED
    BY <2>2, <2>3 DEF Carries, more
<1>4. ASSUME sent[n + 1].is # is PROVE Carries(read, is, n + 1)
  <2>1. \A i \in 1..(n + 1) : sent[i].is = is => i \in 1..n
    BY <1>4
  <2> QED
    BY <1>1, <1>2, <1>4, <2>1 DEF Carries
<1> QED
  BY <1>3, <1>4

LEMMA CarriesNothing == ASSUME NEW is PROVE Carries(<<>>, is, 0) /\ Carries(<<>>, is, 0)'
<1>1. Carries(<<>>, is, 0)
  BY CountIs DEF Carries
<1>2. {i \in 1..0 : sent'[i].is = is} = {}
  OBVIOUS
<1>3. Carries(<<>>, is, 0)'
  BY <1>2, FS_EmptySet DEF Carries, Count
<1> QED
  BY <1>1, <1>3

LEMMA NothingReported == NoReport.unpack = "none" /\ NoReport.lines = <<>>
<1> DEFINE none == <<>>
<1>1. NoReport = [unpack |-> "none", lines |-> none]
  BY DEF NoReport
<1> HIDE DEF none
<1>2. NoReport.unpack = "none" /\ NoReport.lines = none
  BY <1>1
<1> QED
  BY <1>2 DEF none

LEMMA WireInvInit == WireInit => WireInv
<1> SUFFICES ASSUME WireInit PROVE WireInv
  OBVIOUS
<1>1. WireTypeOK
  <2>1. report.unpack = "none" /\ report.lines = <<>>
    <3>1. report = NoReport
      BY DEF WireInit
    <3> QED
      BY <3>1, NothingReported
  <2>2. report.lines \in Seq({"ok", "ng"})
    <3>1. <<>> \in Seq({"ok", "ng"})
      OBVIOUS
    <3> QED
      BY <2>1, <3>1, Zenon
  <2>3. pos \in 1..(Len(body) + 1)
    BY DEF WireInit
  <2>4. sent \in Seq(Lines) /\ body \in Seq(Lines \cup {Broken}) /\ refs \in Seq(Ref) /\ chunks \in Seq(Part)
    BY DEF WireInit
  <2> QED
    BY <2>1, <2>2, <2>3, <2>4 DEF WireInit, WireTypeOK
<1>2. Sent /\ Came
  <2>1. Len(sent) = 0 /\ DOMAIN sent = {} /\ Len(body) = 0 /\ DOMAIN body = {}
    BY DEF WireInit
  <2> QED
    BY <2>1 DEF Sent, SentRefs, SentPack, SentReport, Came
<1>3. Read
  BY CarriesNothing DEF WireInit, Read
<1> QED
  BY <1>1, <1>2, <1>3 DEF WireInit, WireInv, Passed
(* A line is sent. *)
LEMMA SendKeeps ==
  ASSUME WireInv, NEW line \in Lines, ServerSends(line)
  PROVE  WireInv'
<1>1. /\ phase = "send" /\ MayFollow(line) /\ ~Ended /\ sent' = Append(sent, line)
      /\ UNCHANGED <<kind, body, pos, phase, refs, chunks, report>>
  BY DEF ServerSends
<1>2. sent \in Seq(Lines) /\ Sent /\ kind \in {"refs", "pack", "report"}
  BY DEF WireInv, WireTypeOK
<1>3. Len(sent) \in Nat /\ DOMAIN sent = 1..Len(sent)
  BY <1>2, LenProperties
<1>4. /\ sent' \in Seq(Lines) /\ Len(sent') = Len(sent) + 1
      /\ DOMAIN sent' = 1..(Len(sent) + 1) /\ sent'[Len(sent) + 1] = line
      /\ \A i \in 1..Len(sent) : sent'[i] = sent[i]
  BY <1>1, <1>2, AppendProperties, LenProperties
<1>5. sent = <<>> <=> Len(sent) = 0
  BY <1>2, EmptySeq
<1>6. SentRefs'
  <2> SUFFICES ASSUME kind = "refs" PROVE SentRefs'
    BY <1>1 DEF SentRefs
  <2>1. \A i \in 1..Len(sent) : (i = 1 <=> sent[i].is = "service") /\ (i = 2 => sent[i].is = "flush")
    BY <1>2, <1>3 DEF Sent, SentRefs
  <2>2. line.is = "service" <=> Len(sent) = 0
    BY <1>1, <1>3, <1>5 DEF MayFollow, LastIs
  <2>3. Len(sent) = 1 => line.is = "flush"
    BY <1>1, <1>3, <1>5 DEF MayFollow, LastIs
  <2> QED
    BY <1>3, <1>4, <2>1, <2>2, <2>3 DEF SentRefs
<1>7. SentPack'
  <2> SUFFICES ASSUME kind = "pack" PROVE SentPack'
    BY <1>1 DEF SentPack
  <2>1. \A i \in 1..Len(sent) : sent[i].is # "flush"
    BY <1>1, <1>2, <1>3, <1>5 DEF Sent, SentPack, Ended, LastIs
  <2> QED
    BY <1>3, <1>4, <2>1 DEF SentPack
<1>8. SentReport'
  <2> SUFFICES ASSUME kind = "report" PROVE SentReport'
    BY <1>1 DEF SentReport
  <2>1. /\ Len(sent) <= 3
        /\ Len(sent) >= 1 => sent[1].is \in {"unpack", "wrapped"}
        /\ Len(sent) >= 2 => sent[2].is = IF sent[1].is = "unpack" THEN "status" ELSE "flush"
        /\ Len(sent) >= 3 => sent[1].is = "unpack" /\ sent[3].is = "flush"
    BY <1>2 DEF Sent, SentReport
  <2>2. Len(sent) > 0 => sent[Len(sent)].is # "flush"
    BY <1>1, <1>3, <1>5 DEF Ended, LastIs
  <2>3. CASE Len(sent) = 0
    BY <1>1, <1>4, <1>5, <2>3 DEF SentReport, MayFollow, LastIs
  <2>4. CASE Len(sent) = 1
    <3>1. line.is = IF sent[1].is = "unpack" THEN "status" ELSE "flush"
      BY <1>1, <1>5, <2>1, <2>4 DEF MayFollow, LastIs
    <3> QED
      BY <1>4, <2>1, <2>4, <3>1 DEF SentReport
  <2>5. CASE Len(sent) = 2
    <3>1. sent[1].is = "unpack" /\ sent[2].is = "status"
      BY <2>1, <2>2, <2>5
    <3>2. line.is = "flush"
      BY <1>1, <1>5, <2>5, <3>1 DEF MayFollow, LastIs
    <3> QED
      BY <1>4, <2>1, <2>5, <3>1, <3>2 DEF SentReport
  <2>6. Len(sent) \in 0..2
    BY <1>3, <2>1, <2>2
  <2> QED
    BY <2>3, <2>4, <2>5, <2>6
<1>9. pos = 1 /\ body = <<>> /\ refs = <<>> /\ chunks = <<>> /\ report = NoReport
  BY <1>1 DEF WireInv
<1>10. Came'
  BY <1>1, <1>3, <1>4, <1>9 DEF Came
<1>11. Read'
  BY <1>1, <1>9, CarriesNothing DEF Read
<1>12. WireTypeOK'
  BY <1>1, <1>4 DEF WireInv, WireTypeOK
<1> QED
  BY <1>1, <1>6, <1>7, <1>8, <1>9, <1>10, <1>11, <1>12 DEF WireInv, Sent, Passed

(* The body comes, or not. *)
LEMMA ReceiveKeeps ==
  ASSUME WireInv, NEW k \in 0..Len(sent), NEW torn \in BOOLEAN, torn => k < Len(sent),
         Receive(k, torn)
  PROVE  WireInv'
<1> DEFINE start == SubSeq(sent, 1, k)
           tail == IF torn THEN <<Broken>> ELSE <<>>
<1>1. /\ phase = "send" /\ phase' = "read" /\ body' = start \o tail
      /\ UNCHANGED <<kind, sent, pos, refs, chunks, report>>
  BY DEF Receive
<1>2. sent \in Seq(Lines) /\ Len(sent) \in Nat
  BY LenProperties DEF WireInv, WireTypeOK
<1>3. start \in Seq(Lines \cup {Broken}) /\ Len(start) = k /\ \A i \in 1..k : start[i] = sent[i]
  BY <1>2, SubSeqProperties
<1>4. tail \in Seq(Lines \cup {Broken}) /\ Len(tail) = (IF torn THEN 1 ELSE 0)
      /\ (torn => tail[1] = Broken)
  <2>1. CASE torn
    <3>1. tail = <<Broken>>
      BY <2>1
    <3> HIDE DEF tail
    <3> QED
      BY <2>1, <3>1
  <2>2. CASE ~torn
    <3>1. tail = <<>>
      BY <2>2
    <3> HIDE DEF tail
    <3> QED
      BY <2>2, <3>1
  <2> QED
    BY <2>1, <2>2
<1> HIDE DEF start, tail
<1>5. /\ body' \in Seq(Lines \cup {Broken}) /\ Len(body') = k + Len(tail)
      /\ \A i \in 1..(k + Len(tail)) : body'[i] = IF i <= k THEN start[i] ELSE tail[i - k]
  BY <1>1, <1>2, <1>3, <1>4, ConcatProperties
<1>6. Came'
  <2>1. DOMAIN body' = 1..(k + Len(tail))
    BY <1>4, <1>5, LenProperties
  <2> QED
    BY <1>1, <1>2, <1>3, <1>4, <1>5, <2>1 DEF Came
<1>7. pos = 1 /\ body = <<>> /\ refs = <<>> /\ chunks = <<>> /\ report = NoReport
  BY <1>1 DEF WireInv
<1>8. Read'
  BY <1>1, <1>7, CarriesNothing DEF Read
<1>9. Sent'
  BY <1>1 DEF WireInv, Sent, SentRefs, SentPack, SentReport
<1>10. WireTypeOK'
  <2>1. pos \in 1..(Len(body') + 1)
    BY <1>2, <1>4, <1>5, <1>7
  <2> QED
    BY <1>1, <1>5, <2>1 DEF WireInv, WireTypeOK
<1> QED
  BY <1>1, <1>6, <1>7, <1>8, <1>9, <1>10 DEF WireInv, Passed
(* The line the client reads is the one sent there. *)
LEMMA HereIs ==
  ASSUME WireInv, phase = "read", pos <= Len(body), Here.is # "broken"
  PROVE  Here = sent[pos] /\ Here \in Lines /\ pos \in 1..Len(sent) /\ pos - 1 \in Nat
<1>1. sent \in Seq(Lines) /\ body \in Seq(Lines \cup {Broken}) /\ pos \in 1..(Len(body) + 1)
  BY DEF WireInv, WireTypeOK
<1>2. Len(sent) \in Nat /\ Len(body) \in Nat /\ pos \in DOMAIN body
  BY <1>1, LenProperties
<1>3. Len(body) <= Len(sent) /\ (body[pos] = sent[pos] \/ body[pos] = Broken)
  BY <1>2 DEF WireInv, Came
<1>4. Broken.is = "broken"
  BY DEF Broken, Line
<1>5. body[pos] = sent[pos] /\ pos \in 1..Len(sent)
  BY <1>1, <1>2, <1>3, <1>4 DEF Here
<1> QED
  BY <1>1, <1>2, <1>5 DEF Here

(* When only what was read changes. *)
LEMMA ReadingKeeps ==
  ASSUME WireInv, phase = "read", phase' \in {"read", "done"}, UNCHANGED <<kind, sent, body>>,
         pos' \in 1..(Len(body) + 1), refs' \in Seq(Ref), chunks' \in Seq(Part),
         report'.unpack \in {"none", "ok", "error"}, report'.lines \in Seq({"ok", "ng"}),
         Read', Passed', phase' = "done" => AtEnd'
  PROVE  WireInv'
<1>1. WireTypeOK'
  BY DEF WireInv, WireTypeOK
<1>2. Sent' /\ Came'
  BY DEF WireInv, Sent, SentRefs, SentPack, SentReport, Came
<1> QED
  BY <1>1, <1>2 DEF WireInv

LEMMA EndKeeps ==
  ASSUME WireInv, EndOfBody
  PROVE  WireInv'
<1>1. /\ phase = "read" /\ phase' = "done" /\ pos' = pos
      /\ UNCHANGED <<kind, sent, body, refs, chunks, report>>
      /\ pos > Len(body) \/ body[pos].is = "broken"
  BY DEF EndOfBody, Stop, Here
<1>2. Read'
  <2>1. /\ IF kind = "refs" THEN Carries(refs, "ref", pos - 1) ELSE refs = <<>>
        /\ kind = "pack" /\ NoNak => Carries(chunks, "pack", pos - 1)
    BY DEF WireInv, Read
  <2>2. /\ IF kind = "refs" THEN Carries(refs, "ref", pos - 1)' ELSE refs' = <<>>
        /\ kind = "pack" /\ NoNak' => Carries(chunks, "pack", pos - 1)'
    BY <1>1, <2>1 DEF Carries, Count, NoNak
  <2> QED
    BY <1>1, <2>2 DEF WireInv, Read, WithLine
<1>3. pos \in Nat /\ Len(body) \in Nat
  BY LenProperties DEF WireInv, WireTypeOK
<1>4. AtEnd'
  BY <1>1, <1>3 DEF AtEnd
<1> QED
  BY <1>1, <1>2, <1>4, ReadingKeeps DEF WireInv, WireTypeOK, Passed

(* A ref, or a line that is none, is read. *)
LEMMA RefKeeps ==
  ASSUME WireInv, ReadRef
  PROVE  WireInv'
<1>1. /\ phase = "read" /\ kind = "refs" /\ pos <= Len(body) /\ Here.is # "broken" /\ phase' = "read"
      /\ UNCHANGED <<kind, sent, body, chunks, report>>
      /\ pos' = pos + (IF Here.is = "service" /\ pos < Len(body) /\ body[pos + 1].is # "broken" THEN 2 ELSE 1)
      /\ refs' = IF Here.is = "ref" THEN Append(refs, Here.v) ELSE refs
  BY DEF ReadRef, Reading, Go
<1>2. Here = sent[pos] /\ Here \in Lines /\ pos \in 1..Len(sent) /\ pos - 1 \in Nat
  BY <1>1, HereIs
<1>3. refs \in Seq(Ref) /\ Carries(refs, "ref", pos - 1) /\ sent \in Seq(Lines) /\ pos \in Nat /\ Len(body) \in Nat
  BY <1>1, LenProperties DEF WireInv, WireTypeOK, Read
<1>4. refs' \in Seq(Ref) /\ Carries(refs', "ref", pos)
  <2>1. (pos - 1) + 1 = pos
    BY <1>3
  <2>2. CASE Here.is = "ref"
    <3>1. Here.v \in Ref
      BY <1>2, <2>2, LineIs
    <3>2. refs' = Append(refs, Here.v)
      BY <1>1, <2>2
    <3>3. Carries(Append(refs, Here.v), "ref", pos)
      BY <1>2, <1>3, <2>1, <2>2, <3>1, CarriesOn
    <3>4. Append(refs, Here.v) \in Seq(Ref)
      BY <1>3, <3>1, AppendProperties
    <3> QED
      BY <3>2, <3>3, <3>4
  <2>3. CASE Here.is # "ref"
    BY <1>1, <1>2, <1>3, <2>1, <2>3, CarriesOn
  <2> QED
    BY <2>2, <2>3
<1>5. pos' \in 1..(Len(body) + 1) /\ Carries(refs', "ref", pos' - 1)
  <2>1. CASE pos' = pos + 1
    BY <1>1, <1>3, <1>4, <2>1
  <2>2. CASE pos' # pos + 1
    <3>1. pos' = pos + 2 /\ sent[pos].is = "service" /\ pos < Len(body)
      BY <1>1, <1>2, <1>3, <2>2
    <3>2. pos = 1 /\ Len(body) <= Len(sent)
      BY <1>1, <1>2, <1>3, <3>1, LenProperties DEF WireInv, Sent, SentRefs, Came
    <3>3. sent[2].is = "flush"
      BY <1>1, <1>3, <3>1, <3>2, LenProperties DEF WireInv, Sent, SentRefs
    <3>4. Carries(refs', "ref", 2)
      BY <1>4, <3>2, <3>3, CarriesOn
    <3> QED
      BY <1>3, <3>1, <3>2, <3>4
  <2> QED
    BY <2>1, <2>2
<1>6. Read'
  BY <1>1, <1>5 DEF Read, Carries, Count
<1>7. Passed'
  <2>1. \A i \in 1..pos : body[i] = sent[i]
    BY <1>2, <1>3 DEF WireInv, Passed, Here
  <2>2. pos < Len(body) /\ body[pos + 1].is # "broken" => body[pos + 1] = sent[pos + 1]
    <3>1. pos + 1 \in 1..Len(body) <=> pos < Len(body)
      BY <1>3
    <3>2. DOMAIN body = 1..Len(body)
      BY LenProperties DEF WireInv, WireTypeOK
    <3> QED
      BY <3>1, <3>2, <1>3 DEF WireInv, Came, Broken, Line
  <2>3. \A i \in 1..(pos' - 1) : body[i] = sent[i]
    BY <1>1, <1>3, <2>1, <2>2
  <2> QED
    BY <1>1, <2>3 DEF Passed
<1> QED
  BY <1>1, <1>4, <1>5, <1>6, <1>7, ReadingKeeps DEF WireInv, WireTypeOK

(* A part of the pack is read, or a line that is none. *)
LEMMA PackKeeps ==
  ASSUME WireInv, ReadPack
  PROVE  WireInv'
<1>1. /\ phase = "read" /\ kind = "pack" /\ pos <= Len(body) /\ Here.is # "broken"
      /\ UNCHANGED <<kind, sent, body, refs, report>>
      /\ IF Here.is = "flush" THEN phase' = "done" /\ pos' = pos ELSE phase' = "read" /\ pos' = pos + 1
      /\ chunks' = IF Here.is = "pack" /\ Here.v \notin HasNak THEN Append(chunks, Here.v) ELSE chunks
  BY DEF ReadPack, Reading, Go, Stop, IsPack, SaysNak
<1>2. Here = sent[pos] /\ Here \in Lines /\ pos \in 1..Len(sent) /\ pos - 1 \in Nat
  BY <1>1, HereIs
<1>3. /\ chunks \in Seq(Part) /\ (NoNak => Carries(chunks, "pack", pos - 1))
      /\ sent \in Seq(Lines) /\ DOMAIN sent = 1..Len(sent) /\ pos \in Nat /\ Len(body) \in Nat
  BY <1>1, LenProperties DEF WireInv, WireTypeOK, Read
<1>4. chunks' \in Seq(Part)
  <2>1. Here.is = "pack" => Here.v \in Part
    BY <1>2, LineIs
  <2> QED
    BY <1>1, <1>3, <2>1, AppendProperties
<1>5. ASSUME NoNak PROVE Carries(chunks', "pack", pos' - 1)
  <2>1. (pos - 1) + 1 = pos
    BY <1>3
  <2>2. CASE Here.is = "pack"
    <3>1. Here.v \in Part /\ Here.v \notin HasNak
      BY <1>2, <1>3, <1>5, <2>2, LineIs DEF NoNak
    <3>2. chunks' = Append(chunks, Here.v) /\ pos' = pos + 1
      BY <1>1, <2>2, <3>1
    <3>3. Carries(Append(chunks, Here.v), "pack", pos)
      BY <1>2, <1>3, <1>5, <2>1, <2>2, <3>1, CarriesOn
    <3> QED
      BY <1>3, <3>2, <3>3
  <2>3. CASE Here.is = "flush"
    BY <1>1, <1>3, <1>5, <2>3
  <2>4. CASE Here.is \notin {"flush", "pack"}
    <3>1. Carries(chunks, "pack", pos)
      BY <1>2, <1>3, <1>5, <2>1, <2>4, CarriesOn
    <3> QED
      BY <1>1, <1>3, <2>4, <3>1
  <2> QED
    BY <2>2, <2>3, <2>4
<1>6. Read'
  <2>1. refs' = <<>>
    BY <1>1 DEF WireInv, Read
  <2>2. NoNak' => NoNak
    BY <1>1 DEF NoNak
  <2>3. NoNak' => Carries(chunks, "pack", pos - 1)'
    BY <1>1, <1>5, <2>2 DEF Carries, Count
  <2> QED
    BY <1>1, <2>1, <2>3 DEF Read
<1>7. phase' = "done" => AtEnd'
  BY <1>1 DEF AtEnd, Here
<1>8. pos' \in 1..(Len(body) + 1) /\ phase' \in {"read", "done"}
  BY <1>1, <1>2, <1>3
<1>9. Passed'
  <2>1. \A i \in 1..pos : body[i] = sent[i]
    BY <1>2, <1>3 DEF WireInv, Passed, Here
  <2>2. \A i \in 1..(pos' - 1) : body[i] = sent[i]
    BY <1>1, <1>3, <2>1
  <2> QED
    BY <1>1, <2>2 DEF Passed
<1> QED
  BY <1>1, <1>4, <1>6, <1>7, <1>8, <1>9, ReadingKeeps DEF WireInv, WireTypeOK

(* What a report says, once a line is noted. *)
Summary(unpack, lines) == [unpack |-> unpack, lines |-> lines]

LEMMA SummaryIs ==
  ASSUME NEW unpack, NEW S, NEW t \in S
  PROVE  /\ Summary(unpack, <<>>).unpack = unpack /\ Summary(unpack, <<>>).lines \in Seq(S)
         /\ Summary(unpack, <<t>>).unpack = unpack /\ Summary(unpack, <<t>>).lines \in Seq(S)
<1> DEFINE none == <<>>
           one == <<t>>
<1>1. none \in Seq(S) /\ one \in Seq(S)
  OBVIOUS
<1> HIDE DEF none, one
<1>2. /\ Summary(unpack, none).unpack = unpack /\ Summary(unpack, none).lines \in Seq(S)
      /\ Summary(unpack, one).unpack = unpack /\ Summary(unpack, one).lines \in Seq(S)
  BY <1>1 DEF Summary
<1> QED
  BY <1>2 DEF none, one

LEMMA WithLineIs ==
  ASSUME NEW line
  PROVE  /\ line.is = "unpack" => WithLine(NoReport, line) = Summary(line.v, <<>>)
         /\ \A u, t : line.is = "wrapped" /\ line.v = Report(u, t) => WithLine(NoReport, line) = Summary(u, <<t>>)
         /\ \A u : line.is = "status" => WithLine(Summary(u, <<>>), line) = Summary(u, <<line.v>>)
<1> DEFINE none == <<>>
<1>0. NoReport = Summary("none", none) /\ \A t : Append(none, t) = <<t>>
  BY DEF NoReport, Summary
<1> HIDE DEF none
<1>1. line.is = "unpack" => WithLine(NoReport, line) = Summary(line.v, none)
  BY <1>0 DEF WithLine, Summary
<1>2. ASSUME NEW u, NEW t, line.is = "wrapped", line.v = Report(u, t)
      PROVE  WithLine(NoReport, line) = Summary(u, <<t>>)
  <2>1. line.v[1].v = u /\ line.v[2].v = t
    BY <1>2, ReportIs
  <2>2. NoReport.unpack = "none" /\ NoReport.lines = none
    BY <1>0 DEF Summary
  <2>3. WithLine(NoReport, line) = [unpack |-> u, lines |-> Append(none, t)]
    BY <1>2, <2>1, <2>2 DEF WithLine
  <2> QED
    BY <1>0, <2>3 DEF Summary
<1>3. ASSUME NEW u, line.is = "status" PROVE WithLine(Summary(u, none), line) = Summary(u, <<line.v>>)
  <2>1. WithLine(Summary(u, none), line) = [unpack |-> u, lines |-> Append(none, line.v)]
    BY <1>3 DEF WithLine, Summary
  <2> QED
    BY <1>0, <2>1 DEF Summary
<1> QED
  BY <1>1, <1>2, <1>3 DEF none

(* A line of the report is read. *)
LEMMA ReportKeeps ==
  ASSUME WireInv, ReadReport
  PROVE  WireInv'
<1>1. /\ phase = "read" /\ kind = "report" /\ pos <= Len(body) /\ Here.is # "broken"
      /\ UNCHANGED <<kind, sent, body, refs, chunks>>
      /\ IF Here.is = "flush" THEN phase' = "done" /\ pos' = pos ELSE phase' = "read" /\ pos' = pos + 1
      /\ report' = WithLine(report, Here)
  BY DEF ReadReport, Reading, Go, Stop
<1>2. Here = sent[pos] /\ Here \in Lines /\ pos \in 1..Len(sent) /\ pos - 1 \in Nat
  BY <1>1, HereIs
<1>3. /\ sent \in Seq(Lines) /\ DOMAIN sent = 1..Len(sent) /\ pos \in Nat /\ Len(body) \in Nat
      /\ report.unpack \in {"none", "ok", "error"} /\ report.lines \in Seq({"ok", "ng"})
  BY <1>1, LenProperties DEF WireInv, WireTypeOK
<1>4. /\ pos <= 3 /\ Len(sent) <= 3 /\ sent[1].is \in {"unpack", "wrapped"}
      /\ pos = 1 => report = NoReport
      /\ pos = 2 => report = WithLine(NoReport, sent[1])
                    /\ sent[2].is = IF sent[1].is = "unpack" THEN "status" ELSE "flush"
      /\ pos = 3 => sent[1].is = "unpack" /\ sent[3].is = "flush"
                    /\ report = WithLine(WithLine(NoReport, sent[1]), sent[2])
  BY <1>1, <1>2, <1>3, LenProperties DEF WireInv, Read, Sent, SentReport
<1>5. report'.unpack \in {"none", "ok", "error"} /\ report'.lines \in Seq({"ok", "ng"})
  <2>1. CASE Here.is = "flush"
    <3>1. WithLine(report, Here) = report
      BY <2>1 DEF WithLine
    <3> QED
      BY <1>1, <1>3, <3>1
  <2>2. CASE Here.is # "flush" /\ pos = 1
    <3>1. Here = sent[1] /\ report' = WithLine(NoReport, Here)
      BY <1>1, <1>2, <1>4, <2>2
    <3>2. CASE Here.is = "unpack"
      <4>1. report' = Summary(Here.v, <<>>)
        BY <3>1, <3>2, WithLineIs
      <4>2. Here.v \in {"ok", "error"}
        BY <1>2, <3>2, LineIs
      <4>3. Summary(Here.v, <<>>).unpack = Here.v /\ Summary(Here.v, <<>>).lines \in Seq({"ok", "ng"})
        BY SummaryIs
      <4> QED
        BY <4>1, <4>2, <4>3, Zenon
    <3>3. CASE Here.is = "wrapped"
      <4>1. PICK u \in {"ok", "error"}, t \in {"ok", "ng"} : Here.v = Report(u, t)
        BY <1>2, <3>3, LineIs
      <4>2. report' = Summary(u, <<t>>)
        <5>1. WithLine(NoReport, Here) = Summary(u, <<t>>)
          BY <3>3, <4>1, WithLineIs
        <5> QED
          BY <3>1, <5>1
      <4> QED
        <5>1. Summary(u, <<t>>).unpack = u /\ Summary(u, <<t>>).lines \in Seq({"ok", "ng"})
          BY <4>1, SummaryIs
        <5> QED
          BY <4>1, <4>2, <5>1, Zenon
    <3> QED
      BY <1>4, <3>1, <3>2, <3>3
  <2>3. CASE Here.is # "flush" /\ pos = 2
    <3>1. Here = sent[2] /\ Here.is = "status" /\ sent[1].is = "unpack" /\ sent[1] \in Lines
          /\ report = WithLine(NoReport, sent[1])
      BY <1>2, <1>3, <1>4, <2>3
    <3>2. report = Summary(sent[1].v, <<>>) /\ sent[1].v \in {"ok", "error"} /\ Here.v \in {"ok", "ng"}
      BY <1>2, <3>1, WithLineIs, LineIs
    <3>3. report' = Summary(sent[1].v, <<Here.v>>)
      BY <1>1, <3>1, <3>2, WithLineIs
    <3> QED
      BY <3>2, <3>3, SummaryIs
  <2> QED
    BY <1>2, <1>3, <1>4, <2>1, <2>2, <2>3
<1>6. Read'
  <2>1. refs' = <<>>
    BY <1>1 DEF WireInv, Read
  <2>2. CASE Here.is = "flush"
    <3>1. WithLine(report, Here) = report
      BY <2>2 DEF WithLine
    <3>2. pos' = pos /\ report' = report
      BY <1>1, <2>2, <3>1
    <3> QED
      BY <1>1, <1>4, <2>1, <3>2 DEF Read
  <2>3. CASE Here.is # "flush" /\ pos = 1
    <3>1. pos' = 2 /\ report' = WithLine(NoReport, sent[1])
      BY <1>1, <1>2, <1>4, <2>3
    <3> QED
      BY <1>1, <2>1, <3>1 DEF Read
  <2>4. CASE Here.is # "flush" /\ pos = 2
    <3>1. pos' = 3 /\ sent[1].is = "unpack" /\ report' = WithLine(WithLine(NoReport, sent[1]), sent[2])
      BY <1>1, <1>2, <1>4, <2>4
    <3> QED
      BY <1>1, <2>1, <3>1 DEF Read
  <2> QED
    BY <1>2, <1>3, <1>4, <2>2, <2>3, <2>4
<1>7. phase' = "done" => AtEnd'
  BY <1>1 DEF AtEnd, Here
<1>8. pos' \in 1..(Len(body) + 1) /\ phase' \in {"read", "done"}
  BY <1>1, <1>2, <1>3
<1>9. Passed'
  <2>1. \A i \in 1..pos : body[i] = sent[i]
    BY <1>2, <1>3 DEF WireInv, Passed, Here
  <2>2. \A i \in 1..(pos' - 1) : body[i] = sent[i]
    BY <1>1, <1>3, <2>1
  <2> QED
    BY <1>1, <2>2 DEF Passed
<1> QED
  BY <1>1, <1>5, <1>6, <1>7, <1>8, <1>9, ReadingKeeps DEF WireInv, WireTypeOK
LEMMA WireInvNext == WireInv /\ [WireNext]_wirevars => WireInv'
<1> SUFFICES ASSUME WireInv, [WireNext]_wirevars PROVE WireInv'
  OBVIOUS
<1>1. CASE UNCHANGED wirevars \/ TransportFails
  <2>1. UNCHANGED <<kind, sent, body, pos, refs, chunks, report>>
        /\ (phase' = phase \/ (phase = "send" /\ phase' = "failed"))
    BY <1>1 DEF wirevars, TransportFails
  <2>2. WireTypeOK' /\ Sent' /\ Came'
    BY <2>1 DEF WireInv, WireTypeOK, Sent, SentRefs, SentPack, SentReport, Came
  <2>3. Read'
    <3>1. /\ IF kind = "refs" THEN Carries(refs, "ref", pos - 1) ELSE refs = <<>>
          /\ kind = "pack" /\ NoNak => Carries(chunks, "pack", pos - 1)
      BY DEF WireInv, Read
    <3>2. /\ IF kind = "refs" THEN Carries(refs, "ref", pos - 1)' ELSE refs' = <<>>
          /\ kind = "pack" /\ NoNak' => Carries(chunks, "pack", pos - 1)'
      BY <2>1, <3>1 DEF Carries, Count, NoNak
    <3> QED
      BY <2>1, <3>2 DEF WireInv, Read, WithLine
  <2> QED
    BY <2>1, <2>2, <2>3 DEF WireInv, AtEnd, Passed
<1>2. CASE \E line \in Lines : ServerSends(line)
  BY <1>2, SendKeeps
<1>3. CASE \E k \in 0..Len(sent), torn \in BOOLEAN : (torn => k < Len(sent)) /\ Receive(k, torn)
  BY <1>3, ReceiveKeeps
<1> QED
  BY <1>1, <1>2, <1>3, EndKeeps, RefKeeps, PackKeeps, ReportKeeps DEF WireNext

(* What is sent, received and read stays well typed. *)
THEOREM WireTyping == WireSpec => []WireTypeOK
<1>1. WireInv => WireTypeOK
  BY DEF WireInv
<1> QED
  BY <1>1, WireInvInit, WireInvNext, PTL DEF WireSpec

(* Nothing of the framing is taken for a ref or a part of the pack, and    *)
(* nothing is lost while the answer comes whole, however long it is: the   *)
(* line skipped after the service line is a flush, and none but the last   *)
(* line of a pack is.  (parse_ref_discovery, Fetcher::receive_pack)        *)
THEOREM AnswersAreAsSent == WireSpec => []AnswersAsSent
<1>1. WireInv => AnswersAsSent
  <2> SUFFICES ASSUME WireInv PROVE AnswersAsSent
    OBVIOUS
  <2>1. /\ sent \in Seq(Lines) /\ DOMAIN sent = 1..Len(sent) /\ Len(sent) \in Nat
        /\ Len(body) \in Nat /\ Len(body) <= Len(sent) /\ pos \in 1..(Len(body) + 1)
        /\ refs \in Seq(Ref) /\ chunks \in Seq(Part)
    BY LenProperties DEF WireInv, WireTypeOK, Came
  <2>2. \E n \in 0..Len(sent) : Carries(refs, "ref", n)
    <3>1. CASE kind = "refs"
      BY <2>1, <3>1 DEF WireInv, Read
    <3>2. CASE kind # "refs"
      <4>1. refs = <<>>
        BY <3>2 DEF WireInv, Read
      <4> QED
        BY <2>1, <4>1, CarriesNothing
    <3> QED
      BY <3>1, <3>2
  <2>3. ASSUME phase = "done", AllCame, pos <= Len(sent)
        PROVE  sent[pos].is = "flush" /\ kind # "refs"
    <3>1. pos \in DOMAIN sent /\ body = sent
      BY <2>1, <2>3 DEF AllCame
    <3>2. sent[pos] \in Lines
      BY <2>1, <3>1
    <3>3. sent[pos].is # "broken"
      BY <3>2, LineIs
    <3> QED
      BY <2>3, <3>1, <3>3 DEF WireInv, AtEnd
  <2>4. ASSUME kind = "refs", phase = "done", AllCame PROVE Carries(refs, "ref", Len(sent))
    <3>1. pos = Len(sent) + 1
      BY <2>1, <2>3, <2>4 DEF AllCame
    <3> QED
      BY <2>1, <2>4, <3>1 DEF WireInv, Read
  <2>5. ASSUME kind = "pack", phase = "done", AllCame, NoNak PROVE Carries(chunks, "pack", Len(sent))
    <3>1. Carries(chunks, "pack", pos - 1)
      BY <2>5 DEF WireInv, Read
    <3>2. CASE pos = Len(sent) + 1
      BY <2>1, <3>1, <3>2
    <3>3. CASE pos <= Len(sent)
      <4>0. sent[pos].is = "flush" /\ pos \in DOMAIN sent
        BY <2>1, <2>3, <2>5, <3>3
      <4>1. sent[pos].is = "flush" /\ pos = Len(sent)
        BY <2>5, <4>0 DEF WireInv, Sent, SentPack
      <4>2. pos - 1 \in Nat /\ (pos - 1) + 1 = Len(sent)
        BY <2>1, <4>1
      <4> QED
        BY <2>1, <3>1, <4>1, <4>2, CarriesOn
    <3> QED
      BY <2>1, <3>2, <3>3 DEF AllCame
  <2>6. PackAsSent
    BY <2>5 DEF PackAsSent, NoNak
  <2> QED
    BY <2>2, <2>4, <2>6 DEF AnswersAsSent, RefsAsAdvertised
<1> QED
  BY <1>1, WireInvInit, WireInvNext, PTL DEF WireSpec

(* A push that takes a report for a success was accepted, or the report    *)
(* broke off after the unpack status.  (parse_receive_pack_response)       *)
THEOREM ReportedIsReal == WireSpec => []SuccessIsReal
<1>1. WireInv => SuccessIsReal
  <2> SUFFICES ASSUME WireInv, kind = "report", phase = "done", Succeeds(report)
               PROVE  \/ \E i \in DOMAIN sent : sent[i] = Line("status", "ok")
                      \/ sent[1] = Line("wrapped", Report("ok", "ok"))
                      \/ body \in {<<Line("unpack", "ok")>>, <<Line("unpack", "ok"), Broken>>}
    BY DEF SuccessIsReal
  <2>1. /\ DOMAIN sent = 1..Len(sent) /\ Len(sent) \in Nat
        /\ DOMAIN body = 1..Len(body) /\ Len(body) \in Nat
        /\ Len(body) <= Len(sent) /\ pos \in 1..(Len(body) + 1)
    BY LenProperties DEF WireInv, WireTypeOK, Came
  <2>9. \A i \in 1..Len(sent) : sent[i] \in Lines
    <3>1. sent \in Seq(Lines)
      BY DEF WireInv, WireTypeOK
    <3> QED
      BY <3>1
  <2>2. /\ pos <= 3
        /\ pos = 1 => report = NoReport
        /\ pos = 2 => report = WithLine(NoReport, sent[1])
        /\ pos = 3 => sent[1].is = "unpack" /\ report = WithLine(WithLine(NoReport, sent[1]), sent[2])
        /\ Len(sent) >= 1 => sent[1].is \in {"unpack", "wrapped"}
        /\ Len(sent) >= 2 => sent[2].is = IF sent[1].is = "unpack" THEN "status" ELSE "flush"
    BY DEF WireInv, Read, Sent, SentReport
  <2>3. report.unpack = "ok" /\ \A i \in DOMAIN report.lines : report.lines[i] # "ng"
    BY DEF Succeeds
  <2>4. pos # 1
    BY <2>2, <2>3, NothingReported
  <2>5. Len(sent) >= 1 /\ sent[1] \in Lines /\ sent[1] = Line(sent[1].is, sent[1].v)
    <3>1. 1 \in DOMAIN sent
      BY <2>1, <2>4
    <3>2. sent[1] \in Lines
      BY <2>1, <2>9, <3>1
    <3>3. sent[1] = Line(sent[1].is, sent[1].v)
      BY <3>2, LineIs
    <3> QED
      BY <2>1, <3>1, <3>2, <3>3
  <2>6. ASSUME sent[1].is = "wrapped" PROVE sent[1] = Line("wrapped", Report("ok", "ok"))
    <3>1. PICK u \in {"ok", "error"}, t \in {"ok", "ng"} : sent[1].v = Report(u, t)
      BY <2>5, <2>6, LineIs
    <3>2. report = Summary(u, <<t>>)
      <4>1. pos = 2
        BY <2>1, <2>2, <2>4, <2>6
      <4> QED
        BY <2>2, <2>6, <3>1, <4>1, WithLineIs
    <3>3. u = "ok" /\ t = "ok"
      <4>1. report.unpack = u /\ report.lines = <<t>>
        BY <3>2 DEF Summary
      <4> QED
        BY <2>3, <3>1, <4>1
    <3> QED
      BY <2>5, <2>6, <3>1, <3>3
  <2>7. ASSUME sent[1].is = "unpack", pos = 3 PROVE sent[2] = Line("status", "ok") /\ 2 \in DOMAIN sent
    <3>0. 2 \in DOMAIN sent
      BY <2>1, <2>7
    <3>1. 2 \in DOMAIN sent /\ sent[2] \in Lines
      BY <2>1, <2>9, <3>0
    <3>2. sent[2].is = "status" /\ sent[2].v \in {"ok", "ng"} /\ sent[2] = Line(sent[2].is, sent[2].v)
      <4>1. sent[2].is = "status"
        BY <2>1, <2>2, <2>7, <3>1
      <4>2. sent[2].v \in {"ok", "ng"} /\ sent[2] = Line(sent[2].is, sent[2].v)
        BY <3>1, <4>1, LineIs
      <4> QED
        BY <4>1, <4>2
    <3>3. report = Summary(sent[1].v, <<sent[2].v>>)
      BY <2>2, <2>7, <3>2, WithLineIs
    <3>4. report.lines = <<sent[2].v>>
      BY <3>3 DEF Summary
    <3>5. sent[2].v # "ng"
      BY <2>3, <3>4
    <3> QED
      BY <3>1, <3>2, <3>5
  <2>8. ASSUME sent[1].is = "unpack", pos = 2
        PROVE  body \in {<<Line("unpack", "ok")>>, <<Line("unpack", "ok"), Broken>>}
    <3>1. report = Summary(sent[1].v, <<>>)
      BY <2>2, <2>8, WithLineIs
    <3>2. report.unpack = sent[1].v
      BY <3>1 DEF Summary
    <3>3. sent[1] = Line("unpack", "ok")
      BY <2>3, <2>5, <2>8, <3>2
    <3>4. ASSUME Len(body) >= 2 PROVE Len(body) = 2 /\ body[2] = Broken
      <4>1. 2 \in DOMAIN body /\ Len(sent) >= 2
        BY <2>1, <3>4
      <4>2. sent[2].is = "status"
        BY <2>2, <2>8, <4>1
      <4>3. body[2].is \in {"broken", "flush"}
        BY <2>8, <3>4 DEF WireInv, AtEnd
      <4>4. body[2] = sent[2] \/ (body[2] = Broken /\ 2 = Len(body))
        BY <4>1 DEF WireInv, Came
      <4> QED
        BY <4>2, <4>3, <4>4
    <3>5. Len(body) >= 1 /\ body[1] = Line("unpack", "ok")
      BY <2>1, <2>8, <3>3 DEF WireInv, Passed
    <3>6. \A s : Len(<<s>>) = 1 /\ <<s>>[1] = s /\ \A t : Len(<<s, t>>) = 2 /\ <<s, t>>[1] = s /\ <<s, t>>[2] = t
      OBVIOUS
    <3> DEFINE first == Line("unpack", "ok")
    <3>7. body \in Seq(Lines \cup {Broken})
      BY DEF WireInv, WireTypeOK
    <3> HIDE DEF first
    <3>8. CASE Len(body) = 1
      <4>1. body = <<first>>
        BY <3>5, <3>7, <3>8 DEF first
      <4> QED
        BY <4>1 DEF first
    <3>9. CASE Len(body) >= 2
      <4>1. body = <<first, Broken>>
        BY <3>4, <3>5, <3>7, <3>9 DEF first
      <4> QED
        BY <4>1 DEF first
    <3> QED
      BY <2>1, <3>5, <3>8, <3>9
  <2> QED
    BY <2>1, <2>2, <2>4, <2>5, <2>6, <2>7, <2>8
<1> QED
  BY <1>1, WireInvInit, WireInvNext, PTL DEF WireSpec

---------------------------------------------------------------------------
(* The three together, as the run has them: a behaviour of all is one of   *)
(* each, in which a step of another is a step that changes nothing.        *)
THEOREM RemoteIsEach == RemoteSpec => Spec /\ WireSpec /\ CredSpec
<1> DEFINE all == <<part, vars, wirevars, credvars>>
<1>1. RemoteInit => Init /\ WireInit /\ CredInit
  BY DEF RemoteInit
<1>2. [RemoteNext]_all => [Next]_vars /\ [WireNext]_wirevars /\ [CredNext]_credvars
  BY DEF RemoteNext, PushNext
<1> QED
  BY <1>1, <1>2, PTL DEF RemoteSpec, Spec, WireSpec, CredSpec

(* The types of the three together.  (http_transport.cpp, git_protocol.cpp, *)
(* auth.cpp, main.cpp)                                                       *)
THEOREM RemoteTyping == RemoteSpec => []RemoteTypeOK
<1>1. TypeOK /\ WireTypeOK /\ CredTypeOK => RemoteTypeOK
  BY DEF RemoteTypeOK
<1> QED
  BY <1>1, RemoteIsEach, Typing, WireTyping, CredentialTyping, PTL
=============================================================================
