-------------------------------- MODULE Wire --------------------------------
(***************************************************************************)
(* What a client reads of one answer of a Git server: the refs that fetch  *)
(* and push discover, the pack that Fetcher::receive_pack assembles, or    *)
(* the report on a push.  The server sends pkt-lines in the order of the   *)
(* protocol; HttpTransport::get or post fails, or returns the body, which  *)
(* ends early, in the middle of a pkt-line or between two, when the server *)
(* closes a connection that does not say how long the body is; then the    *)
(* client reads one pkt-line after the other.                              *)
(*                                                                         *)
(*   kind   what is asked for: "refs", "pack" or "report"                  *)
(*   sent   the pkt-lines of the answer, as the server means it            *)
(*   body   the pkt-lines the client got; a Broken one cannot be parsed    *)
(*   pos    the next one to read                                           *)
(*   phase  "send", "read", "done", or "failed"                            *)
(*   refs   the refs discovered, in order                                  *)
(*   chunks the parts of the pack taken                                    *)
(*   report the unpack status and the lines on refs                        *)
(*                                                                         *)
(* A pkt-line is [is |-> what it is, v |-> its contents].                  *)
(***************************************************************************)
EXTENDS Naturals, Sequences, FiniteSets

CONSTANTS
    Ref,          \* advertised names, with their ids
    Part,        \* parts of a pack
    HasNak,       \* those with the bytes of "NAK" and a line feed in them
    MaxSent       \* bound: pkt-lines of an answer

ASSUME WireAssumption == HasNak \subseteq Part /\ MaxSent \in Nat

VARIABLES kind, sent, body, pos, phase, refs, chunks, report

wirevars == <<kind, sent, body, pos, phase, refs, chunks, report>>

Line(is, v) == [is |-> is, v |-> v]
Flush == Line("flush", 0)
Broken == Line("broken", 0)

NoReport == [unpack |-> "none", lines |-> <<>>]

WireInit ==
    /\ kind \in {"refs", "pack", "report"}
    /\ sent = <<>> /\ body = <<>> /\ pos = 1 /\ phase = "send"
    /\ refs = <<>> /\ chunks = <<>> /\ report = NoReport

---------------------------------------------------------------------------
(* The server (external).  Discovery: the service line and a flush, then   *)
(* the refs and a flush; lines that are no refs (a shallow commit) may     *)
(* stand among them.  A pack: NAK, then side-band packets of the pack and  *)
(* of progress, then a flush.  A report: the unpack status and a line for  *)
(* the ref, then a flush, as they are or wrapped in a side-band packet.    *)
LastIs(is) == sent # <<>> /\ sent[Len(sent)].is = is

MayFollow(line) ==
    CASE kind = "refs" ->
            (CASE line.is = "service" -> sent = <<>>
               [] line.is = "flush" -> LastIs("service") \/ Len(sent) >= 2
               [] line.is \in {"ref", "other"} -> Len(sent) >= 2
               [] OTHER -> FALSE)
      [] kind = "pack" ->
            (CASE line.is = "nak" -> sent = <<>>
               [] line.is \in {"pack", "progress"} -> sent # <<>>
               [] line.is = "flush" -> sent # <<>>
               [] OTHER -> FALSE)
      [] kind = "report" ->
            (CASE line.is = "unpack" -> sent = <<>>
               [] line.is = "status" -> LastIs("unpack")
               [] line.is = "flush" -> LastIs("status") \/ LastIs("wrapped")
               [] line.is = "wrapped" -> sent = <<>>
               [] OTHER -> FALSE)

Ended ==
    /\ LastIs("flush")
    /\ kind = "refs" => Len(sent) > 2

Report(s, t) == <<Line("unpack", s), Line("status", t), Flush>>

Lines ==
    {Flush, Line("service", 0), Line("other", 0), Line("nak", 0), Line("progress", 0)}
    \cup {Line("ref", r) : r \in Ref} \cup {Line("pack", c) : c \in Part}
    \cup {Line("unpack", s) : s \in {"ok", "error"}}
    \cup {Line("status", t) : t \in {"ok", "ng"}}
    \cup UNION {{Line("wrapped", Report(s, t)) : s \in {"ok", "error"}} : t \in {"ok", "ng"}}

ServerSends(line) ==
    /\ phase = "send" /\ ~Ended /\ Len(sent) < MaxSent
    /\ MayFollow(line)
    /\ line.is = "ref" => line \notin {sent[i] : i \in DOMAIN sent}
    /\ line.is = "status" /\ sent[1].v = "error" => line.v = "ng"
    /\ line.is = "wrapped" /\ line.v[1].v = "error" => line.v[2].v = "ng"
    /\ sent' = Append(sent, line)
    /\ UNCHANGED <<kind, body, pos, phase, refs, chunks, report>>

---------------------------------------------------------------------------
(* get and post: the whole body, or its start, or an error (the status of  *)
(* the answer, or curl's).                                                 *)
Receive(k, torn) ==
    /\ phase = "send" /\ Ended
    /\ body' = SubSeq(sent, 1, k) \o (IF torn THEN <<Broken>> ELSE <<>>)
    /\ phase' = "read"
    /\ UNCHANGED <<kind, sent, pos, refs, chunks, report>>

TransportFails ==
    /\ phase = "send" /\ Ended
    /\ phase' = "failed"
    /\ UNCHANGED <<kind, sent, body, pos, refs, chunks, report>>

---------------------------------------------------------------------------
Here == body[pos]
Reading(k) == phase = "read" /\ kind = k /\ pos <= Len(body)

Stop == phase' = "done" /\ pos' = pos
Go(n) == phase' = "read" /\ pos' = pos + n

(* Every loop ends at a pkt-line it cannot parse, and that is no error.    *)
EndOfBody ==
    /\ phase = "read"
    /\ IF pos > Len(body) THEN TRUE ELSE Here.is = "broken"
    /\ Stop
    /\ UNCHANGED <<kind, sent, body, refs, chunks, report>>

(* Mutant: a flush ends the discovery. *)
ReadRefFlush ==
    /\ Reading("refs") /\ Here.is # "broken"
    /\ IF Here.is = "flush" THEN Stop ELSE Go(1)
    /\ refs' = IF Here.is = "ref" THEN Append(refs, Here.v) ELSE refs
    /\ UNCHANGED <<kind, sent, body, chunks, report>>

(* parse_ref_discovery: the line after the service line is skipped, if it  *)
(* can be parsed; a line that is no ref is skipped too.                    *)
ReadRef ==
    /\ Reading("refs") /\ Here.is # "broken"
    /\ Go(IF Here.is = "service" /\ pos < Len(body) /\ body[pos + 1].is # "broken"
          THEN 2 ELSE 1)
    /\ refs' = IF Here.is = "ref" THEN Append(refs, Here.v) ELSE refs
    /\ UNCHANGED <<kind, sent, body, chunks, report>>

(* Mutant: what the server says of its progress is taken for the pack. *)
IsPackAny(line) == line.is \in {"pack", "progress"}

IsPack(line) == line.is = "pack"

(* Fetcher::receive_pack: a line is passed over when the bytes of a NAK    *)
(* are anywhere in it, the pack's own lines included.                      *)
SaysNak(line) == line.is = "nak" \/ (line.is = "pack" /\ line.v \in HasNak)

ReadPack ==
    /\ Reading("pack") /\ Here.is # "broken"
    /\ IF Here.is = "flush" THEN Stop ELSE Go(1)
    /\ chunks' = IF IsPack(Here) /\ ~SaysNak(Here) THEN Append(chunks, Here.v)
                 ELSE chunks
    /\ UNCHANGED <<kind, sent, body, refs, report>>

(* parse_receive_pack_response.  It reads the packet of channel 1 as an    *)
(* answer of its own, and takes the unpack status from it when it has none. *)
WithLine(r, line) ==
    CASE line.is = "unpack" -> [r EXCEPT !.unpack = line.v]
      [] line.is = "status" -> [r EXCEPT !.lines = Append(@, line.v)]
      [] line.is = "wrapped" ->
            [unpack |-> IF r.unpack = "none" THEN line.v[1].v ELSE r.unpack,
             lines |-> Append(r.lines, line.v[2].v)]
      [] OTHER -> r

ReadReport ==
    /\ Reading("report") /\ Here.is # "broken"
    /\ IF Here.is = "flush" THEN Stop ELSE Go(1)
    /\ report' = WithLine(report, Here)
    /\ UNCHANGED <<kind, sent, body, refs, chunks>>

WireNext ==
    \/ \E line \in Lines : ServerSends(line)
    \/ \E k \in 0..Len(sent), torn \in BOOLEAN :
        (torn => k < Len(sent)) /\ Receive(k, torn)
    \/ TransportFails
    \/ EndOfBody \/ ReadRef \/ ReadPack \/ ReadReport

WireSpec == WireInit /\ [][WireNext]_wirevars

---------------------------------------------------------------------------
(* Mutant: the lines on the refs are not looked at. *)
SucceedsUnpacked(r) == r.unpack = "ok"

(* Pusher::push: success, unless the unpack status is not "ok" or some ref *)
(* was refused.                                                            *)
Succeeds(r) == r.unpack = "ok" /\ "ng" \notin {r.lines[i] : i \in DOMAIN r.lines}

AllCame == body = sent

(* What was read is what the lines of a kind among the first n carry.      *)
Count(is, n) == Cardinality({i \in 1..n : sent[i].is = is})

Carries(read, is, n) ==
    /\ Len(read) = Count(is, n)
    /\ \A i \in 1..n : sent[i].is = is => read[Count(is, i)] = sent[i].v

(* Type invariant. *)
WireTypeOK ==
    /\ kind \in {"refs", "pack", "report"}
    /\ sent \in Seq(Lines) /\ body \in Seq(Lines \cup {Broken})
    /\ pos \in 1..(Len(body) + 1)
    /\ phase \in {"send", "read", "done", "failed"}
    /\ refs \in Seq(Ref) /\ chunks \in Seq(Part)
    /\ report.unpack \in {"none", "ok", "error"}
    /\ report.lines \in Seq({"ok", "ng"})

(* The refs discovered are the first of those advertised, in their order,  *)
(* and all of them when the whole answer came.  When it did not, nobody    *)
(* notices: a push takes the refs it misses for refs that do not exist.    *)
RefsAsAdvertised ==
    /\ \E n \in 0..Len(sent) : Carries(refs, "ref", n)
    /\ kind = "refs" /\ phase = "done" /\ AllCame => Carries(refs, "ref", Len(sent))

(* The pack assembled from a whole answer is the pack sent, every part in  *)
(* its place, unless some part has the bytes of a NAK line in it.          *)
PackAsSent ==
    kind = "pack" /\ phase = "done" /\ AllCame
    /\ (\A i \in DOMAIN sent : sent[i].is = "pack" => sent[i].v \notin HasNak)
    => Carries(chunks, "pack", Len(sent))

(* What is read of an answer is what the server said: nothing of the       *)
(* framing, the progress or the side-band is taken for a ref or for a part *)
(* of the pack, and none is lost while the answer comes whole.              *)
AnswersAsSent == RefsAsAdvertised /\ PackAsSent

(* A push that reports success was accepted by the server, or its answer   *)
(* ended after the unpack status and before the line that refuses the ref. *)
SuccessIsReal ==
    kind = "report" /\ phase = "done" /\ Succeeds(report) =>
        \/ \E i \in DOMAIN sent : sent[i] = Line("status", "ok")
        \/ sent[1] = Line("wrapped", Report("ok", "ok"))
        \/ body \in {<<Line("unpack", "ok")>>, <<Line("unpack", "ok"), Broken>>}
=============================================================================
