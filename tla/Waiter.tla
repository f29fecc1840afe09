------------------------------- MODULE Waiter -------------------------------
(***************************************************************************)
(* The requester's waiter (requesterwait.Waiter): it puts result streams   *)
(* together and hands quote responses, results and errors from the one     *)
(* goroutine that reads custom messages to the gRPC calls waiting for      *)
(* them.  Entries of different jobs share only the mutex and that          *)
(* goroutine, so the model follows the entry of one job.  A step is what   *)
(* happens between taking and releasing the mutex, or one channel          *)
(* operation.                                                              *)
(*                                                                         *)
(* Chunk number i of stream s is the value <<s, i>>, so a hash or a length *)
(* that matches is an equality of sequences.                               *)
(***************************************************************************)
EXTENDS Naturals, Sequences

CONSTANTS
    Streams,      \* stream ids the provider uses
    MaxLen,       \* chunks a result stream may have (maxStreamBytes)
    Results,      \* lcp_result messages the provider may send
    Callers,      \* AcceptAndExecute and AcceptAndExecuteStream calls
    Quote,        \* the RequestQuote call
    EventBuffer,  \* resultStreamEventBuffer
    None

VARIABLES
    entry,    \* entries[k], None when the map has no such key
    inbound,  \* where the goroutine that reads custom messages is
    call,     \* caller -> where its call is
    ch,       \* caller -> what the channel made by its wait holds
    subs      \* caller -> its result stream subscription

vars == <<entry, inbound, call, ch, subs>>

ASSUME WaiterAssumption ==
    /\ MaxLen \in Nat \ {0}
    /\ EventBuffer \in Nat \ {0}
    /\ Quote \notin Callers
    /\ None \notin Callers \cup {Quote}
    /\ Streams # {}

AllCallers == Callers \cup {Quote}

\* The first n chunks of stream s.
Bytes(s, n) == [i \in 1..n |-> <<s, i - 1>>]

Buffers == {Bytes(s, n) : s \in Streams, n \in 0..MaxLen}

\* An lcp_result message: its status, the stream it names, the bytes its
\* hash and length stand for, and whether its content type and encoding are
\* those of the stream.
Failed == [status |-> "failed"]

OK(s, bytes, sameType) ==
    [status |-> "ok", stream |-> s, bytes |-> bytes, sameType |-> sameType]

Messages == {Failed} \cup
    {OK(s, b, t) : s \in Streams, b \in Buffers, t \in BOOLEAN}

Error == [status |-> "error"]

Response == [status |-> "response"]

QuoteOutcomes == {Response, Error}

\* What a successful wait returns: the terminal message and the bytes.
Delivered(res, bytes) ==
    [status |-> res.status, result |-> res, bytes |-> bytes]

ResultOutcomes ==
    {Error} \cup {Delivered(r, b) : r \in Messages, b \in Buffers}

NewStream(s) == [streamID |-> s, buf |-> <<>>, done |-> FALSE]

StreamStates == [streamID : Streams, buf : Buffers, done : BOOLEAN]

\* terminalDelivered is set exactly when terminalResult is.
NewEntry ==
    [quoteOutcome |-> None, quoteDelivered |-> FALSE, quoteCh |-> None,
     resultOutcome |-> None, resultDelivered |-> FALSE, resultCh |-> None,
     resultStreamSub |-> None, resultStream |-> None, terminalResult |-> None]

Entry ==
    [quoteOutcome : QuoteOutcomes \cup {None}, quoteDelivered : BOOLEAN,
     quoteCh : {Quote, None},
     resultOutcome : ResultOutcomes \cup {None}, resultDelivered : BOOLEAN,
     resultCh : Callers \cup {None},
     resultStreamSub : Callers \cup {None},
     resultStream : StreamStates \cup {None},
     terminalResult : Messages \cup {None}]

Idle == [at |-> "idle"]

Subscriptions == [open : BOOLEAN, events : 0..EventBuffer]

\* The provider sends messages, and None is none of the values it stands
\* beside.
ASSUME ValuesAssumption ==
    /\ Results \subseteq Messages
    /\ None \notin Entry \cup ResultOutcomes \cup Subscriptions

\* quote_request is sent before RequestQuote waits, so that messages can come
\* before anyone waits for them.
Init ==
    /\ entry = None
    /\ inbound = Idle
    /\ call = [c \in AllCallers |-> "idle"]
    /\ ch = [c \in AllCallers |-> None]
    /\ subs = [c \in Callers |-> None]
-----------------------------------------------------------------------------
ensureEntry == IF entry = None THEN NewEntry ELSE entry

\* Fault: an outcome nobody has fetched does not keep the entry.
maybeCleanup_AnyOutcome(e) ==
    IF /\ e.resultStreamSub = None
       /\ e.quoteCh = None
       /\ e.resultCh = None
       /\ e.quoteDelivered
    THEN None ELSE e

maybeCleanup(e) ==
    IF /\ e.resultStreamSub = None
       /\ e.quoteCh = None
       /\ e.resultCh = None
       /\ e.quoteDelivered
       /\ e.resultDelivered
    THEN None ELSE e

\* The channels to send on once the mutex is released, in that order.
Sending(todo) == IF todo = <<>> THEN Idle ELSE [at |-> "send", todo |-> todo]

To(c, out) == IF c = None THEN <<>> ELSE <<[to |-> c, out |-> out]>>

deliverQuoteResponse ==
    LET e == ensureEntry
    IN  /\ entry' = maybeCleanup([e EXCEPT !.quoteOutcome = Response,
                                           !.quoteCh = None])
        /\ inbound' = Sending(To(e.quoteCh, Response))

\* Fault: the channel stays registered after it has been sent on.
deliverResult_KeepChannel(out) ==
    LET e == ensureEntry
    IN  /\ entry' = maybeCleanup([e EXCEPT !.resultOutcome = out])
        /\ inbound' = Sending(To(e.resultCh, out))

deliverResult(out) ==
    LET e == ensureEntry
    IN  /\ entry' = maybeCleanup([e EXCEPT !.resultOutcome = out,
                                           !.resultCh = None])
        /\ inbound' = Sending(To(e.resultCh, out))

\* Fault: only the quote's waiter hears of the error.
deliverError_QuoteOnly ==
    LET e == ensureEntry
    IN  /\ entry' = maybeCleanup([e EXCEPT
               !.quoteOutcome = Error, !.quoteCh = None,
               !.resultOutcome = Error, !.resultCh = None])
        /\ inbound' = Sending(To(e.quoteCh, Error))

\* An lcp_error of the peer, or one the waiter raises about a stream.
deliverError ==
    LET e == ensureEntry
    IN  /\ entry' = maybeCleanup([e EXCEPT
               !.quoteOutcome = Error, !.quoteCh = None,
               !.resultOutcome = Error, !.resultCh = None])
        /\ inbound' = Sending(To(e.quoteCh, Error)
                                \o To(e.resultCh, Error))

Publishing(e) ==
    IF e.resultStreamSub = None THEN Idle
    ELSE [at |-> "publish", sub |-> e.resultStreamSub]

\* A begin that the waiter cannot accept (encoding, length) is an error for
\* the job; one that comes while a stream is in progress is ignored.
handleStreamBegin(s, acceptable) ==
    IF ~acceptable THEN deliverError
    ELSE LET e == ensureEntry
             new == [e EXCEPT !.resultStream = NewStream(s)]
         IN  IF e.resultStream # None /\ ~e.resultStream.done
             THEN entry' = e /\ inbound' = inbound
             ELSE entry' = new /\ inbound' = Publishing(new)

InProgress(e, s) ==
    /\ e.resultStream # None
    /\ ~e.resultStream.done
    /\ e.resultStream.streamID = s

\* An error is delivered after the mutex has been released and taken again;
\* nothing was changed before, so this is one step.
handleStreamChunk(s, seq) ==
    LET e == ensureEntry
        st == e.resultStream
        new == [e EXCEPT !.resultStream.buf = Append(@, <<s, seq>>)]
    IN  IF ~InProgress(e, s) \/ seq < Len(st.buf)
        THEN entry' = e /\ inbound' = inbound
        ELSE IF seq > Len(st.buf) \/ Len(st.buf) = MaxLen
             THEN deliverError
             ELSE entry' = new /\ inbound' = Publishing(new)

\* The stream is done before it is validated.
handleStreamEnd(s, bytes) ==
    LET e == ensureEntry
    IN  IF InProgress(e, s)
        THEN /\ entry' = [e EXCEPT !.resultStream.done = TRUE]
             /\ inbound' = [at |-> "validate", buf |-> e.resultStream.buf,
                            bytes |-> bytes]
        ELSE entry' = e /\ inbound' = inbound

Trying(res, buf) == [at |-> "try", result |-> res, buf |-> buf]

\* The first lcp_result of an entry counts, the others are ignored.  A result
\* with status ok waits for the end of its stream.
handleTerminalResult(res) ==
    LET e == ensureEntry
        st == e.resultStream
    IN  IF e.terminalResult # None
        THEN UNCHANGED <<entry, inbound>>
        ELSE /\ entry' = [e EXCEPT !.terminalResult = res]
             /\ inbound' = IF res.status # "ok" THEN Trying(res, <<>>)
                           ELSE IF st # None /\ st.done
                                THEN Trying(res, st.buf) ELSE inbound

\* A message of the provider is read.
HandleInboundCustomMessage ==
    /\ inbound = Idle
    /\ \/ deliverQuoteResponse
       \/ deliverError
       \/ \E s \in Streams, acceptable \in BOOLEAN :
              handleStreamBegin(s, acceptable)
       \/ \E s \in Streams, seq \in 0..MaxLen : handleStreamChunk(s, seq)
       \/ \E s \in Streams, b \in Buffers : handleStreamEnd(s, b)
       \/ \E res \in Results : handleTerminalResult(res)
    /\ UNCHANGED <<call, ch, subs>>

\* The rest of handleStreamEnd: length and hash are compared outside the
\* mutex, then the entry is looked up again.
ValidateStream ==
    /\ inbound.at = "validate"
    /\ \/ /\ inbound.buf # inbound.bytes
          /\ deliverError
       \/ /\ inbound.buf = inbound.bytes
          /\ entry' = ensureEntry
          /\ inbound' = IF entry'.terminalResult = None THEN Idle
                        ELSE Trying(entry'.terminalResult, inbound.buf)
    /\ UNCHANGED <<call, ch, subs>>

\* Fault: the bytes are not compared with the result's hash.
tryDeliverResult_NoHash ==
    /\ inbound.at = "try"
    /\ deliverResult(Delivered(inbound.result, inbound.buf))
    /\ UNCHANGED <<call, ch, subs>>

\* result_stream_id is not looked at.
tryDeliverResult ==
    /\ inbound.at = "try"
    /\ LET res == inbound.result
       IN  IF res.status = "ok" /\ (res.bytes # inbound.buf \/ ~res.sameType)
           THEN deliverError
           ELSE deliverResult(Delivered(res, inbound.buf))
    /\ UNCHANGED <<call, ch, subs>>

\* ch <- out, on a channel with room for one outcome.
SendOutcome ==
    /\ inbound.at = "send"
    /\ LET next == Head(inbound.todo)
       IN  /\ ch[next.to] = None
           /\ ch' = [ch EXCEPT ![next.to] = next.out]
    /\ inbound' = Sending(Tail(inbound.todo))
    /\ UNCHANGED <<entry, call, subs>>

publishResultStreamEvent ==
    /\ inbound.at = "publish"
    /\ LET c == inbound.sub
       IN  \/ /\ subs[c].open
              /\ subs[c].events < EventBuffer
              /\ subs' = [subs EXCEPT ![c].events = @ + 1]
           \/ /\ ~subs[c].open
              /\ UNCHANGED subs
    /\ inbound' = Idle
    /\ UNCHANGED <<entry, call, ch>>
-----------------------------------------------------------------------------
Outcome(e, c) == IF c = Quote THEN e.quoteOutcome ELSE e.resultOutcome

Channel(e, c) == IF c = Quote THEN e.quoteCh ELSE e.resultCh

SetChannel(e, c, to) ==
    IF c = Quote THEN [e EXCEPT !.quoteCh = to] ELSE [e EXCEPT !.resultCh = to]

markDelivered(e, c) ==
    IF c = Quote THEN [e EXCEPT !.quoteDelivered = TRUE]
                 ELSE [e EXCEPT !.resultDelivered = TRUE]

\* RequestQuote stores the job only when it was given a quote.
Return(c, out) ==
    call' = [call EXCEPT ![c] = IF out = Response THEN "quoted"
                                ELSE "returned"]

\* RequestQuote waits once; AcceptAndExecute needs the stored quote, and its
\* streaming form subscribes before it pays and waits.
MayWait(c) ==
    IF c = Quote THEN call[c] = "idle"
    ELSE /\ call[Quote] = "quoted"
         /\ \/ call[c] = "idle"
            \/ call[c] = "subscribed" /\ subs[c].open

\* waitOutcome up to its select.  A second waiter is refused.
waitOutcome(c) ==
    /\ MayWait(c)
    /\ LET e == ensureEntry
       IN  \/ /\ Outcome(e, c) # None
              /\ entry' = maybeCleanup(markDelivered(e, c))
              /\ Return(c, Outcome(e, c))
           \/ /\ Outcome(e, c) = None
              /\ Channel(e, c) # None
              /\ entry' = e
              /\ Return(c, None)
           \/ /\ Outcome(e, c) = None
              /\ Channel(e, c) = None
              /\ entry' = SetChannel(e, c, c)
              /\ call' = [call EXCEPT ![c] = "waiting"]
    /\ UNCHANGED <<inbound, ch, subs>>

\* The select takes the outcome.
ReceiveOutcome(c) ==
    /\ call[c] = "waiting"
    /\ ch[c] # None
    /\ entry' = IF entry = None THEN None
                ELSE maybeCleanup(markDelivered(entry, c))
    /\ Return(c, ch[c])
    /\ ch' = [ch EXCEPT ![c] = None]
    /\ UNCHANGED <<inbound, subs>>

\* The select takes ctx.Done, also when an outcome is there or on its way.
WaitCancelled(c) ==
    /\ call[c] = "waiting"
    /\ entry' = IF entry # None /\ Channel(entry, c) = c
                THEN maybeCleanup(SetChannel(entry, c, None)) ELSE entry
    /\ Return(c, None)
    /\ ch' = [ch EXCEPT ![c] = None]
    /\ UNCHANGED <<inbound, subs>>

\* AcceptAndExecuteStream subscribes before it pays.
SubscribeResultStream(c) ==
    /\ call[Quote] = "quoted"
    /\ call[c] = "idle"
    /\ LET e == ensureEntry
       IN  \/ /\ e.resultStreamSub = None
              /\ entry' = [e EXCEPT !.resultStreamSub = c]
              /\ subs' = [subs EXCEPT ![c] = [open |-> TRUE, events |-> 0]]
              /\ call' = [call EXCEPT ![c] = "subscribed"]
           \/ /\ e.resultStreamSub # None
              /\ entry' = e
              /\ call' = [call EXCEPT ![c] = "returned"]
              /\ UNCHANGED subs
    /\ UNCHANGED <<inbound, ch>>

\* Fault: the subscription goes, an entry that is done with stays.
unsubscribe_NoCleanup(c) ==
    /\ subs[c] # None
    /\ subs[c].open
    /\ entry' = [entry EXCEPT !.resultStreamSub = None]
    /\ subs' = [subs EXCEPT ![c] = [open |-> FALSE, events |-> 0]]
    /\ call' = [call EXCEPT ![c] = IF @ = "subscribed" THEN "returned" ELSE @]
    /\ UNCHANGED <<inbound, ch>>

\* The streaming call returns: its payment failed, its client is gone, or it
\* has the outcome.
unsubscribe(c) ==
    /\ subs[c] # None
    /\ subs[c].open
    /\ entry' = maybeCleanup([entry EXCEPT !.resultStreamSub = None])
    /\ subs' = [subs EXCEPT ![c] = [open |-> FALSE, events |-> 0]]
    /\ call' = [call EXCEPT ![c] = IF @ = "subscribed" THEN "returned" ELSE @]
    /\ UNCHANGED <<inbound, ch>>

\* The loop of AcceptAndExecuteStream, which starts after the payment.
ReadEvent(c) ==
    /\ call[c] \in {"waiting", "returned"}
    /\ subs[c] # None
    /\ subs[c].open
    /\ subs[c].events > 0
    /\ subs' = [subs EXCEPT ![c].events = @ - 1]
    /\ UNCHANGED <<entry, inbound, call, ch>>
-----------------------------------------------------------------------------
InboundStep ==
    \/ ValidateStream
    \/ tryDeliverResult
    \/ SendOutcome
    \/ publishResultStreamEvent

CallerStep(c) ==
    \/ waitOutcome(c)
    \/ ReceiveOutcome(c)
    \/ WaitCancelled(c)

StreamingStep(c) ==
    \/ SubscribeResultStream(c)
    \/ unsubscribe(c)
    \/ ReadEvent(c)

Next ==
    \/ HandleInboundCustomMessage
    \/ InboundStep
    \/ \E c \in AllCallers : CallerStep(c)
    \/ \E c \in Callers : StreamingStep(c)

Spec == Init /\ [][Next]_vars

\* A call that has subscribed goes on to wait or gives up: payments end.
Proceed(c) == call[c] = "subscribed" /\ (waitOutcome(c) \/ unsubscribe(c))

\* A streaming call that is past its payment reads its events or returns.
Consume(c) ==
    call[c] # "subscribed" /\ (ReadEvent(c) \/ unsubscribe(c))

\* Go runs every goroutine that can run.  Clients of streaming calls are
\* assumed to read what they are sent or to hang up; nobody is assumed to
\* give up waiting, and the provider is not assumed to send anything.
Fairness ==
    /\ WF_vars(InboundStep)
    /\ \A c \in AllCallers : WF_vars(ReceiveOutcome(c))
    /\ \A c \in Callers : WF_vars(Proceed(c)) /\ WF_vars(Consume(c))

FairSpec == Spec /\ Fairness
-----------------------------------------------------------------------------
\* The state has its type.
TypeOK ==
    /\ entry \in Entry \cup {None}
    /\ \/ inbound = Idle
       \/ inbound.at = "validate" /\ {inbound.buf, inbound.bytes} \subseteq Buffers
       \/ inbound.at = "try" /\ inbound.result \in Messages
                             /\ inbound.buf \in Buffers
       \/ inbound.at = "send" /\ Len(inbound.todo) \in 1..2
       \/ inbound.at = "publish" /\ inbound.sub \in Callers
    /\ call \in [AllCallers ->
           {"idle", "subscribed", "waiting", "quoted", "returned"}]
    /\ ch \in [AllCallers -> QuoteOutcomes \cup ResultOutcomes \cup {None}]
    /\ subs \in [Callers -> Subscriptions \cup {None}]

IsOK(out) == out # None /\ out.status = "ok"

Vouched(out) == IsOK(out) => out.bytes = out.result.bytes /\ out.bytes \in Buffers

\* However messages, retried streams and waits interleave, a result that is
\* handed out as ok carries the bytes its lcp_result vouches for: the chunks
\* of one stream, all of them and in order (tryDeliverResult).
ResultVouchedFor ==
    \A out \in {ch[c] : c \in Callers} \cup
               (IF entry = None THEN {} ELSE {entry.resultOutcome}) : Vouched(out)

Unfetched(e) == e # None /\ e.resultOutcome # None /\ ~e.resultDelivered

\* An outcome that came while the call was giving up is there for the next
\* call: a result outcome that no wait has returned is only dropped by
\* the wait that returns it (waitOutcome's ctx.Done branch,
\* maybeCleanupLocked).
OutcomeKept ==
    [][(Unfetched(entry) /\ (entry' = None \/ entry'.resultOutcome = None))
          => \E c \in Callers : waitOutcome(c) \/ ReceiveOutcome(c)]_vars

\* The last one to leave cleans up: an entry whose two outcomes have been
\* fetched, with nobody waiting or subscribed, is not kept.
NoDeadEntries ==
    entry # None => maybeCleanup(entry) # None

\* A call that waits while the outcome is known returns: registering a
\* channel cannot cross the delivery (waitOutcome, deliverResult,
\* deliverError).
WaitersReturn ==
    \A c \in AllCallers :
        (call[c] = "waiting" /\ entry # None /\ Outcome(entry, c) # None)
            ~> call[c] # "waiting"

\* The goroutine that reads custom messages, which serves every peer and
\* job, is never stuck in the waiter: it can go on, or it waits for the
\* events of a streaming call that will read them or return.  No channel
\* send blocks it for good, whoever gives up in between.
InboundNotStuck ==
    inbound # Idle =>
        \/ ENABLED InboundStep
        \/ /\ inbound.at = "publish"
           /\ ENABLED (Proceed(inbound.sub) \/ Consume(inbound.sub))
=============================================================================
