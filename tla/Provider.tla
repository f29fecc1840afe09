------------------------------ MODULE Provider ------------------------------
(***************************************************************************)
(* The provider side of LCP v0.2 (provider.Handler): quote_request, input  *)
(* stream, invoice, settlement, execution, result.                         *)
(*                                                                         *)
(* Two kinds of goroutine share the job store and the table of cancel      *)
(* functions.  One goroutine (lndpeermsg.customMessagesLoop) calls the     *)
(* message handlers one after the other; inb is where it is inside a       *)
(* handler.  Every call of startJobRunner may start a runner (runJob);     *)
(* runners[r].pc is where that one is.  A handler that reads a job, works  *)
(* on its copy and stores it takes one step to read and one to store, so   *)
(* that the steps of the runners fall in between.                          *)
(*                                                                         *)
(* A message that is dropped before it reaches the replay store (a failed  *)
(* decoding, an unsupported task, a disabled provider, an expired          *)
(* envelope) changes no state and is not a step.  The bytes of the input   *)
(* stream are one unit per chunk; clean says that the bytes received are   *)
(* the ones the announced hash is a hash of.                               *)
(***************************************************************************)
EXTENDS ReplayStore, JobStore, Sequences

CONSTANTS
    Peers, JobIds,      \* job_id values are only unique per peer
    MsgIds,             \* msg_id values of quote_request, begin, end, cancel
    MsgExpiry,          \* the envelope expiry of each of them
    StreamIds,          \* stream_id values of input streams, without 0
    MaxLen,             \* bound: longest announced input stream
    QuoteTTL,           \* quoteTTLSeconds
    Slack,              \* invoice expiry slack
    Window,             \* MAX_ENVELOPE_EXPIRY_WINDOW_SECONDS
    MaxNow,             \* bound: last clock value
    MaxRunners,         \* bound: runners ever started
    MaxInvoices         \* bound: invoices ever created

VARIABLES
    now,                \* the clock, in seconds
    manifests,          \* peers whose manifest the peer directory holds
    inb,                \* the inbound goroutine: where it is and what it holds
    jobCancels,         \* job key -> the runner whose cancel function it is
    inFlight,           \* the counter the surge price is computed from
    runners,            \* every runner ever started
    invoices            \* every invoice ever created, as LND sees it

vars == <<entries, jobs, now, manifests, inb, jobCancels, inFlight, runners,
          invoices>>

Keys == Peers \X JobIds

ASSUME ProviderAssumption ==
    /\ MsgExpiry \in [MsgIds -> Nat]
    /\ StreamIds \subseteq Nat \ {0}
    /\ MaxLen \in Nat /\ MaxNow \in Nat /\ MaxRunners \in Nat /\ MaxInvoices \in Nat
    /\ QuoteTTL \in Nat \ {0} /\ Slack \in Nat /\ Window \in Nat

-----------------------------------------------------------------------------
(* The values that the state is made of. *)

\* InputStreamState; id 0 is the nil stream.
InputStream == [id : StreamIds \cup {0}, total : 0..MaxLen, seq : 0..MaxLen,
                clean : BOOLEAN, validated : BOOLEAN]

\* A stream of which nothing has been received.
NewInput(s, total) ==
    [id |-> s, total |-> total, seq |-> 0, clean |-> TRUE, validated |-> FALSE]

\* jobstore.Job; invoice 0 means that QuoteResponse is nil, and otherwise
\* stands for the response, the payment hash and the add index.
Job == [state : JobStates, quoteExpiry : Nat, input : InputStream,
        invoice : Nat, createdAt : Nat]

NewJob == [state |-> "awaiting_input", quoteExpiry |-> 0, input |-> NewInput(0, 0),
           invoice |-> 0, createdAt |-> 0]

\* What an invoice was created for, and what became of it in LND.  A payer
\* learns of it only with the quote_response (state "open"); results counts
\* the lcp_result(ok) messages sent for it.
Invoice == [key : Keys, input : StreamIds, quoteExpiry : Nat, expiry : Nat,
            cause : MsgIds, at : Nat, results : Nat,
            state : {"created", "open", "settled"}]

\* deliver and stream are before, send and relay after the look at the peer's
\* manifest, for a complete output and for a streamed one.
RunnerStates == {"settle", "paid", "begin", "exec", "deliver", "send", "stream",
                 "relay", "done", "fail", "exit", "gone"}

Runner == [key : Keys, invoice : Nat, input : StreamIds, deadline : Nat,
           canceled : BOOLEAN, pc : RunnerStates]

Idle == [pc |-> "idle"]

Inbound ==
    {Idle}
    \cup [pc : {"upsert"}, key : Keys, job : Job, requote : BOOLEAN]
    \cup [pc : {"resend", "quote", "start"}, key : Keys, job : Job]
    \cup [pc : {"invoice"}, key : Keys, input : InputStream, at : Nat, msg : MsgIds]
    \cup [pc : {"cancel"}, key : Keys]

Init ==
    /\ entries = EmptyMap
    /\ jobs = EmptyMap
    /\ now = 1
    /\ manifests \in SUBSET Peers
    /\ inb = Idle
    /\ jobCancels = EmptyMap
    /\ inFlight = 0
    /\ runners = <<>>
    /\ invoices = <<>>

-----------------------------------------------------------------------------
(* The inbound goroutine. *)

\* min(expiry, now + window): how long a message is remembered.
EffectiveExpiry(m) ==
    IF MsgExpiry[m] > now + Window THEN now + Window ELSE MsgExpiry[m]

Fresh(k, m) == CheckResult(<<k, m>>, EffectiveExpiry(m), now) = "ok"

\* dropIfExpired and checkReplay, which every handler but the chunk's runs.
checkReplay(k, m) ==
    /\ inb = Idle
    /\ MsgExpiry[m] >= now
    /\ CheckAndRemember(<<k, m>>, EffectiveExpiry(m), now)

\* The message is remembered as seen, and nothing else happens: it is a
\* duplicate, or it is answered with lcp_error.
Refuse == UNCHANGED <<jobs, now, manifests, inb, jobCancels, inFlight, runners,
                      invoices>>

\* The handler has read the job and goes on to store its changed copy.
ReadThenUpsert(k, job, requote) ==
    /\ inb' = [pc |-> "upsert", key |-> k, job |-> job, requote |-> requote]
    /\ UNCHANGED <<jobs, now, manifests, jobCancels, inFlight, runners, invoices>>

QuoteExpired(k) == jobs[k].quoteExpiry # 0 /\ jobs[k].quoteExpiry < now

\* Fault: a quote_request always begins a job.
handleQuoteRequest_NoLookup(k, m, matches) ==
    /\ Len(runners) < MaxRunners
    /\ checkReplay(k, m)
    /\ Fresh(k, m) /\ k[1] \in manifests
    /\ Upsert(k, NewJob, now)
    /\ UNCHANGED <<now, manifests, inb, jobCancels, inFlight, runners, invoices>>

\* matches: the task kind and the params are those of the stored request.
handleQuoteRequest(k, m, matches) ==
    /\ Len(runners) < MaxRunners
    /\ checkReplay(k, m)
    /\ \/ /\ \/ ~ Fresh(k, m)
             \/ k[1] \notin manifests
             \/ k \in DOMAIN jobs /\ (QuoteExpired(k) \/ ~ matches)
          /\ Refuse
       \/ /\ Fresh(k, m) /\ k[1] \in manifests
          /\ k \notin DOMAIN jobs
          /\ Upsert(k, NewJob, now)
          /\ UNCHANGED <<now, manifests, inb, jobCancels, inFlight, runners, invoices>>
       \/ /\ Fresh(k, m) /\ k[1] \in manifests
          /\ k \in DOMAIN jobs /\ ~ QuoteExpired(k) /\ matches
          /\ ReadThenUpsert(k, jobs[k], TRUE)

\* Fault: a stream may begin whatever the state of the job.
handleStreamBegin_AnyState(k, m, s, total, wellFormed) ==
    /\ k[1] \in manifests /\ k \in DOMAIN jobs /\ wellFormed
    /\ checkReplay(k, m)
    /\ Fresh(k, m)
    /\ ReadThenUpsert(k, [jobs[k] EXCEPT !.input = NewInput(s, total)], FALSE)

\* wellFormed: encoding, total_len, sha256, limits and content type are right.
\* A second begin while the job awaits input replaces the stream so far.
handleStreamBegin(k, m, s, total, wellFormed) ==
    /\ k[1] \in manifests
    /\ checkReplay(k, m)
    /\ \/ /\ \/ ~ Fresh(k, m) \/ ~ wellFormed
             \/ k \notin DOMAIN jobs
             \/ k \in DOMAIN jobs /\ jobs[k].state # "awaiting_input"
          /\ Refuse
       \/ /\ Fresh(k, m) /\ wellFormed
          /\ k \in DOMAIN jobs /\ jobs[k].state = "awaiting_input"
          /\ ReadThenUpsert(k, [jobs[k] EXCEPT !.input = NewInput(s, total)], FALSE)

\* The job receives chunks or the end of its current input stream s.
Receiving(k, s) ==
    /\ k \in DOMAIN jobs
    /\ jobs[k].state = "awaiting_input"
    /\ jobs[k].input.id = s
    /\ ~ jobs[k].input.validated

\* Chunks are not in the replay store: a sequence number below the expected
\* one is a duplicate and one above it an error; neither changes the job, and
\* neither does a chunk that would exceed the announced length.
handleStreamChunk(k, s, seq, good) ==
    /\ inb = Idle
    /\ Receiving(k, s)
    /\ seq = jobs[k].input.seq
    /\ seq + 1 <= jobs[k].input.total
    /\ ReadThenUpsert(k, [jobs[k] EXCEPT !.input.seq = @ + 1,
                                         !.input.clean = @ /\ good], FALSE)
    /\ UNCHANGED entries

\* The bytes received have the announced length and hash.
Complete(input) == input.seq = input.total /\ input.clean

\* valid: the end repeats the length and hash of the begin, validateInputStream,
\* quotePrice and computeTermsHash succeed.  The clock is read here, before the
\* invoice is created.  The branch for a job that has a quote already is left
\* out: a job that is Receiving has none (TermsBinding).
handleStreamEnd(k, m, s, valid) ==
    /\ now + QuoteTTL <= MaxNow
    /\ Len(runners) < MaxRunners /\ Len(invoices) < MaxInvoices
    /\ checkReplay(k, m)
    /\ \/ /\ \/ ~ Fresh(k, m) \/ ~ valid
             \/ ~ Receiving(k, s)
             \/ Receiving(k, s) /\ ~ Complete(jobs[k].input)
             \/ k[1] \notin manifests
          /\ Refuse
       \/ /\ Fresh(k, m) /\ valid
          /\ Receiving(k, s) /\ Complete(jobs[k].input)
          /\ k[1] \in manifests
          /\ inb' = [pc |-> "invoice", key |-> k, at |-> now, msg |-> m,
                     input |-> [jobs[k].input EXCEPT !.validated = TRUE]]
          /\ UNCHANGED <<jobs, now, manifests, jobCancels, inFlight, runners, invoices>>

\* if h.inFlight > 0 { h.inFlight-- }
DecInFlight == IF inFlight > 0 THEN inFlight - 1 ELSE inFlight

\* cancelJob, under jobMu; the state is changed in the next step.
handleCancel(k, m) ==
    /\ checkReplay(k, m)
    /\ \/ ~ Fresh(k, m) /\ Refuse
       \/ /\ Fresh(k, m)
          /\ inb' = [pc |-> "cancel", key |-> k]
          /\ \/ /\ k \in DOMAIN jobCancels
                /\ runners' = [runners EXCEPT ![jobCancels[k]].canceled = TRUE]
                /\ jobCancels' = Delete(jobCancels, k)
                /\ inFlight' = DecInFlight
             \/ /\ k \notin DOMAIN jobCancels
                /\ UNCHANGED <<runners, jobCancels, inFlight>>
          /\ UNCHANGED <<jobs, now, manifests, invoices>>

\* The copy is stored.  A quote_request for a job that has a quote already is
\* then answered with the stored quote_response.
UpsertCopy ==
    /\ inb.pc = "upsert"
    /\ Upsert(inb.key, inb.job, now)
    /\ inb' = IF inb.requote /\ inb.job.invoice # 0
              THEN [pc |-> "resend", key |-> inb.key, job |-> inb.job] ELSE Idle
    /\ UNCHANGED <<entries, now, manifests, jobCancels, inFlight, runners, invoices>>

\* The context of a runner ends with the quote; a quote that has expired when
\* the runner starts leaves it without a deadline.
NewRunner(k, job) ==
    [key |-> k, invoice |-> job.invoice, input |-> job.input.id,
     deadline |-> IF job.quoteExpiry > now THEN job.quoteExpiry ELSE 0,
     canceled |-> FALSE, pc |-> "settle"]

\* Fault: the cancel function is registered and no goroutine started.
startJobRunner_NoGo(k, job) ==
    /\ jobCancels' = Put(jobCancels, k, Len(runners) + 1)
    /\ inFlight' = inFlight + 1
    /\ UNCHANGED runners

\* Fault: a runner is started even when the key has one.
startJobRunner_Unchecked(k, job) ==
    /\ runners' = Append(runners, NewRunner(k, job))
    /\ jobCancels' = Put(jobCancels, k, Len(runners) + 1)
    /\ inFlight' = inFlight + 1

\* Under jobMu: no runner is started for a key that has a cancel function.
startJobRunner(k, job) ==
    \/ /\ k \in DOMAIN jobCancels
       /\ UNCHANGED <<jobCancels, inFlight, runners>>
    \/ /\ k \notin DOMAIN jobCancels
       /\ runners' = Append(runners, NewRunner(k, job))
       /\ jobCancels' = Put(jobCancels, k, Len(runners) + 1)
       /\ inFlight' = inFlight + 1

\* sendQuoteResponse of the stored response; a failure ends the handler.
Resend(sent) ==
    /\ inb.pc = "resend"
    /\ inb' = Idle
    /\ \/ sent /\ inb.job.input.validated /\ startJobRunner(inb.key, inb.job)
       \/ /\ ~ (sent /\ inb.job.input.validated)
          /\ UNCHANGED <<jobCancels, inFlight, runners>>
    /\ UNCHANGED <<entries, jobs, now, manifests, invoices>>

\* max(1, ttl - slack), except that a slack as long as the ttl is ignored.
InvoiceExpirySeconds == IF QuoteTTL > Slack THEN QuoteTTL - Slack ELSE QuoteTTL

\* CreateInvoice: an error is answered with lcp_error and leaves the job as it
\* was, its stream not validated.  LND counts the expiry from its own clock.
CreateInvoice(created) ==
    /\ inb.pc = "invoice"
    /\ \/ /\ ~ created
          /\ inb' = Idle
          /\ UNCHANGED invoices
       \/ /\ created
          /\ invoices' = Append(invoices,
                 [key |-> inb.key, input |-> inb.input.id, cause |-> inb.msg,
                  at |-> inb.at, quoteExpiry |-> inb.at + QuoteTTL, results |-> 0,
                  expiry |-> now + InvoiceExpirySeconds, state |-> "created"])
          /\ inb' = [pc |-> "quote", key |-> inb.key,
                     job |-> [state |-> "waiting_payment", input |-> inb.input,
                              quoteExpiry |-> inb.at + QuoteTTL,
                              invoice |-> Len(invoices) + 1, createdAt |-> 0]]
    /\ UNCHANGED <<entries, jobs, now, manifests, jobCancels, inFlight, runners>>

\* sendQuoteResponse of a new quote: when it fails the invoice stays in LND
\* and the job stays as it was.
SendQuote(sent) ==
    /\ inb.pc = "quote"
    /\ \/ /\ ~ sent
          /\ inb' = Idle
          /\ UNCHANGED <<jobs, invoices>>
       \/ /\ sent
          /\ invoices' = [invoices EXCEPT ![inb.job.invoice].state = "open"]
          /\ Upsert(inb.key, inb.job, now)
          /\ inb' = [inb EXCEPT !.pc = "start"]
    /\ UNCHANGED <<entries, now, manifests, jobCancels, inFlight, runners>>

StartQuotedJob ==
    /\ inb.pc = "start"
    /\ startJobRunner(inb.key, inb.job)
    /\ inb' = Idle
    /\ UNCHANGED <<entries, jobs, now, manifests, invoices>>

MarkCanceled ==
    /\ inb.pc = "cancel"
    /\ UpdateState(inb.key, "canceled")
    /\ inb' = Idle
    /\ UNCHANGED <<entries, now, manifests, jobCancels, inFlight, runners, invoices>>

-----------------------------------------------------------------------------
(* A runner. *)

\* Fault: the context of a runner has no deadline.
CtxDone_NoDeadline(r) == runners[r].canceled

CtxDone(r) ==
    \/ runners[r].canceled
    \/ runners[r].deadline # 0 /\ now >= runners[r].deadline

\* The runner goes from one place to another.
Goto(r, from, to) ==
    /\ runners[r].pc = from
    /\ runners' = [runners EXCEPT ![r].pc = to]
    /\ UNCHANGED <<entries, now, manifests, inb, jobCancels, inFlight>>

\* The runner goes on from one of these places, the job untouched.
GotoAny(r, froms, to) ==
    /\ \E from \in froms : Goto(r, from, to)
    /\ UNCHANGED <<jobs, invoices>>

\* The runner goes on after updateState.
GotoWithState(r, from, to, state) ==
    /\ Goto(r, from, to)
    /\ UpdateState(runners[r].key, state)
    /\ UNCHANGED invoices

\* Fault: any update of the invoice counts as its settlement.
Settled_AnyUpdate(r) == GotoWithState(r, "settle", "paid", "paid")

\* WaitForSettlement returns nil.
Settled(r) ==
    /\ invoices[runners[r].invoice].state = "settled"
    /\ GotoWithState(r, "settle", "paid", "paid")

\* WaitForSettlement returns an error.  An ended context is reported as
\* context.Canceled, which the runner leaves the job alone for, only when the
\* stream's error says so; a gRPC status of code Canceled does not.
SettlementAborted(r) ==
    /\ CtxDone(r)
    /\ \/ runners[r].canceled /\ GotoAny(r, {"settle"}, "exit")
       \/ GotoAny(r, {"settle"}, "fail")

\* The subscription breaks, or tells of a canceled invoice.
SettlementFailed(r) == GotoAny(r, {"settle"}, "fail")

\* A context that ended before execution leaves the job paid.
CheckContext(r) ==
    \/ CtxDone(r) /\ GotoAny(r, {"paid"}, "exit")
    \/ ~ CtxDone(r) /\ GotoAny(r, {"paid"}, "begin")

StartExecution(r) == GotoWithState(r, "begin", "exec", "executing")

\* planTask and Execute, or planTask and ExecuteStreaming.
Executed(r) ==
    \/ GotoAny(r, {"exec"}, "deliver")
    \/ GotoWithState(r, "exec", "stream", "streaming_result")

\* An error of the plan, of the backend or of the streamed output: silence
\* when the context has ended, lcp_error otherwise.
ExecutionFailed(r) ==
    \/ CtxDone(r) /\ GotoAny(r, {"exec", "relay"}, "exit")
    \/ ~ CtxDone(r) /\ GotoAny(r, {"exec", "relay"}, "fail")

\* resolveRemoteManifestAndMaxPayload
OpenResult(r) ==
    LET found == runners[r].key[1] \in manifests
    IN  \/ found /\ GotoAny(r, {"deliver"}, "send")
        \/ found /\ GotoAny(r, {"stream"}, "relay")
        \/ ~ found /\ GotoAny(r, {"deliver", "stream"}, "fail")

\* sendResult and sendResultStreaming: the result stream and lcp_result(ok), or
\* lcp_result(failed) for an output beyond the peer's limits.
ResultSent(r) ==
    /\ ~ CtxDone(r)
    /\ \E from \in {"send", "relay"} : Goto(r, from, "done")
    /\ \/ invoices' = [invoices EXCEPT ![runners[r].invoice].results = @ + 1]
       \/ UNCHANGED invoices
    /\ UNCHANGED jobs

\* SendCustomMessage fails, as it does under an ended context.
SendFailed(r) == GotoAny(r, {"send", "relay"}, "fail")

Finish(r) ==
    \/ GotoWithState(r, "done", "exit", "done")
    \/ GotoWithState(r, "fail", "exit", "failed")

\* The deferred forgetJob deletes the cancel function of the key, whichever
\* runner it belongs to.
forgetJob(r) ==
    /\ runners[r].pc = "exit"
    /\ runners' = [runners EXCEPT ![r].pc = "gone"]
    /\ \/ /\ runners[r].key \in DOMAIN jobCancels
          /\ jobCancels' = Delete(jobCancels, runners[r].key)
          /\ inFlight' = DecInFlight
       \/ /\ runners[r].key \notin DOMAIN jobCancels
          /\ UNCHANGED <<jobCancels, inFlight>>
    /\ UNCHANGED <<entries, jobs, now, manifests, inb, invoices>>

-----------------------------------------------------------------------------
(* The environment: LND, the peer directory, the clock. *)

\* A payer pays an invoice that a quote_response has told of.
SettleInvoice(i) ==
    /\ invoices[i].state = "open" /\ now <= invoices[i].expiry
    /\ invoices' = [invoices EXCEPT ![i].state = "settled"]
    /\ UNCHANGED <<entries, jobs, now, manifests, inb, jobCancels, inFlight, runners>>

\* A peer's manifest arrives, or its connection is lost.
PeerChange(p) ==
    /\ manifests' = IF p \in manifests THEN manifests \ {p} ELSE manifests \cup {p}
    /\ UNCHANGED <<entries, jobs, now, inb, jobCancels, inFlight, runners, invoices>>

Tick ==
    /\ now < MaxNow
    /\ now' = now + 1
    /\ UNCHANGED <<entries, jobs, manifests, inb, jobCancels, inFlight, runners, invoices>>

-----------------------------------------------------------------------------

Receive ==
    \E k \in Keys, m \in MsgIds :
        \/ \E matches \in BOOLEAN : handleQuoteRequest(k, m, matches)
        \/ \E s \in StreamIds, total \in 1..MaxLen, wellFormed \in BOOLEAN :
               handleStreamBegin(k, m, s, total, wellFormed)
        \/ \E s \in StreamIds, valid \in BOOLEAN : handleStreamEnd(k, m, s, valid)
        \/ handleCancel(k, m)

ReceiveChunk ==
    \E k \in Keys, s \in StreamIds, seq \in 0..MaxLen, good \in BOOLEAN :
        handleStreamChunk(k, s, seq, good)

\* The rest of a handler that has begun.
Continue ==
    \/ UpsertCopy
    \/ StartQuotedJob
    \/ MarkCanceled
    \/ \E ok \in BOOLEAN : Resend(ok) \/ CreateInvoice(ok) \/ SendQuote(ok)

\* What a runner does without waiting for anybody, or because what it waits
\* for has come or its context has ended.
Proceed(r) ==
    \/ Settled(r) \/ SettlementAborted(r) \/ CheckContext(r) \/ StartExecution(r)
    \/ OpenResult(r) \/ Finish(r) \/ forgetJob(r)
    \/ CtxDone(r) /\ (ExecutionFailed(r) \/ SendFailed(r))

\* What LND, the backend or the peer may do to a runner.
Respond(r) ==
    \/ SettlementFailed(r) \/ Executed(r) \/ ResultSent(r)
    \/ ~ CtxDone(r) /\ (ExecutionFailed(r) \/ SendFailed(r))

Next ==
    \/ Receive \/ ReceiveChunk \/ Continue
    \/ \E r \in DOMAIN runners : Proceed(r) \/ Respond(r)
    \/ \E i \in DOMAIN invoices : SettleInvoice(i)
    \/ \E p \in Peers : PeerChange(p)
    \/ Tick

Spec == Init /\ [][Next]_vars

\* Goroutines that can go on do, and time passes.  Nothing is assumed of the
\* peer, of the payer or of a backend whose context has not ended.
Fairness ==
    /\ WF_vars(Continue)
    /\ WF_vars(Tick)
    /\ \A r \in 1..MaxRunners : WF_vars(r \in DOMAIN runners /\ Proceed(r))

FairSpec == Spec /\ Fairness

-----------------------------------------------------------------------------
(* Properties. *)

\* Every variable has its type; a registered cancel function is that of a
\* runner that was started (startJobRunner).
TypeOK ==
    /\ IsMap(entries, Keys \X MsgIds, Nat)
    /\ IsMap(jobs, Keys, Job)
    /\ now \in Nat
    /\ manifests \in SUBSET Peers
    /\ inb \in Inbound
    /\ IsMap(jobCancels, Keys, DOMAIN runners)
    /\ inFlight \in Nat
    /\ runners \in Seq(Runner)
    /\ invoices \in Seq(Invoice)

\* A runner between WaitForSettlement and its end.
Working(r) == runners[r].pc \notin {"settle", "fail", "exit", "gone"}

\* No job is executed, and no result sent, before the invoice of its quote is
\* settled, and the invoice is the one for this job and this input, however
\* often quotes are repeated, jobs canceled, pruned and requested again.
ExecutesOnlyAfterSettlement ==
    /\ \A r \in DOMAIN runners : Working(r) =>
           /\ runners[r].invoice \in DOMAIN invoices
           /\ LET i == invoices[runners[r].invoice]
              IN  i.state = "settled" /\ i.key = runners[r].key
                  /\ i.input = runners[r].input
    /\ \A i \in DOMAIN invoices : invoices[i].results > 0 => invoices[i].state = "settled"

\* The job has the input and the expiry its invoice, one of ivs, was created
\* for, or no quote at all.
Bound(ivs, k, job) ==
    \/ job.invoice = 0 /\ job.quoteExpiry = 0 /\ ~ job.input.validated
    \/ /\ job.invoice \in DOMAIN ivs
       /\ job.state # "awaiting_input"
       /\ job.input.validated
       /\ LET i == ivs[job.invoice]
          IN  i.key = k /\ i.input = job.input.id /\ i.quoteExpiry = job.quoteExpiry

\* What a requester pays for is what it sent: a stored quote stays bound to
\* the key, the validated input and the expiry that its invoice commits to,
\* and a job that still awaits input has no quote.
TermsBinding == \A k \in DOMAIN jobs : Bound(invoices, k, jobs[k])

\* Every registered cancel function is that of a runner of the same job that
\* is neither canceled nor gone, and inFlight, which the surge price is
\* computed from, is their number (cancelJob, forgetJob, startJobRunner).
CancelEntriesLive ==
    /\ \A k \in DOMAIN jobCancels :
           LET r == runners[jobCancels[k]]
           IN  r.key = k /\ r.pc # "gone" /\ ~ r.canceled
    /\ inFlight = Cardinality(DOMAIN jobCancels)

\* As long as a job is stored its quote is the one first given: no interleaving
\* of handlers and runners replaces or drops it.
QuoteStable ==
    [][\A k \in DOMAIN jobs \cap DOMAIN jobs' :
          jobs[k].invoice # 0 => jobs'[k].invoice = jobs[k].invoice]_vars

\* One lcp_stream_end creates one invoice: a copy that is delivered again
\* creates another only after the time its first copy is remembered for, even
\* when the first quote could not be sent.  (A replay store that is full may
\* forget it sooner: ForgetsSoonest.)
DuplicateMintsNoInvoice ==
    \A i, j \in DOMAIN invoices :
        /\ i < j
        /\ invoices[i].key = invoices[j].key /\ invoices[i].cause = invoices[j].cause
        => \/ invoices[j].at > MsgExpiry[invoices[i].cause]
           \/ invoices[j].at > invoices[i].at + Window

\* The stores keep to their capacity (evictIfOverCapacityLocked).
StoresBounded ==
    /\ Cardinality(DOMAIN jobs) <= MaxJobs
    /\ Cardinality(DOMAIN entries) <= ReplayMax

\* A job that is paid for, or over, leaves the job store only when the store
\* holds no job that is still waiting for its input or its payment: neither a
\* quote's expiry (pruneExpiredLocked) nor a new job (evictOldestLocked) takes
\* its record away from a runner that works on it.
PaidJobsKept ==
    [][\A k \in DOMAIN jobs \ DOMAIN jobs' : jobs[k].state \notin PendingStates =>
          \A j \in DOMAIN jobs' : jobs'[j].state \notin PendingStates]_vars

\* A runner that has a deadline ends: no wait of runJob outlasts its context.
RunnersTerminate ==
    \A r \in 1..MaxRunners :
        r \in DOMAIN runners /\ runners[r].deadline # 0
            ~> r \in DOMAIN runners /\ runners[r].pc = "gone"

\* The invoices a payer has been told of, as sales.
Offered == {i \in DOMAIN invoices : invoices[i].state # "created"}

Deals == [i \in Offered |-> [item |-> <<invoices[i].key, invoices[i].input>>,
                             due |-> invoices[i].expiry]]

Paid == {i \in Offered : invoices[i].state = "settled"}

\* What a runner works on.
Work(r) == <<runners[r].invoice, <<runners[r].key, runners[r].input>>>>

Busy == {Work(r) : r \in {x \in DOMAIN runners : Working(x)}}

Promise == INSTANCE Sale WITH
    time <- now, deals <- Deals, committed <- {}, paid <- Paid, busy <- Busy

\* The provider implements the sale: what a quote_response offers is never
\* changed afterwards, it is paid while its invoice stands, and runJob works
\* only on a settled invoice's own job and input.
ImplementsSale == Promise!Spec

\* docs/go-lcpd/spec.md:309: exactly one result stream for a paid job.
OneResultPerPayment == \A i \in DOMAIN invoices : invoices[i].results <= 1

\* docs/go-lcpd/spec.md:606: an lcp_cancel for a job that is executing cancels
\* its context.  Once cancelJob has run, no runner executes the job without
\* having been canceled.
CancelStopsWork ==
    inb.pc = "cancel" /\ inb.key \in DOMAIN jobs /\ jobs[inb.key].state = "executing" =>
        \A r \in DOMAIN runners :
            runners[r].key = inb.key /\ runners[r].pc = "exec" => runners[r].canceled
=============================================================================
