------------------------------ MODULE Gateway -------------------------------
(***************************************************************************)
(* openai-serve in front of lcpd: an HTTP handler (httpapi.Server) routes  *)
(* a request to a provider, asks lcpd for a quote, holds it against the    *)
(* price limit, has lcpd pay and execute, and answers.  The calls of lcpd  *)
(* are those of Requester: the handler of request h has its call           *)
(* <<h, "execute">>, the goroutine that cancels the job <<h, "cancel">>.   *)
(*                                                                         *)
(* The handler stops waiting for lcpd when the client has gone or the time *)
(* is up; the call it abandons goes on in lcpd until that notices.  Bodies *)
(* of requests and answers are left out: what remains of a streamed body   *)
(* is whether any of it has been written.                                  *)
(***************************************************************************)
EXTENDS Requester, FiniteSetsExt

CONSTANTS
    Requests,    \* HTTP requests
    Peers,       \* numbered in the order of ListLCPPeers
    Advertised,  \* peer -> the <<task kind, model>> pairs of its manifest
    Want,        \* request -> the <<task kind, model>> it asks for
    Configs,     \* configurations of the gateway
    Prices,      \* price_msat values of quotes
    NoJob

VARIABLES
    cfg,  \* the configuration, which does not change
    web   \* request -> where its handler is

gatewayVars == <<now, store, quotes, calls, payments, cfg, web>>

\* What a handler does not touch when it does not call lcpd.
lcpdVars == <<now, store, quotes, calls, payments>>

\* modelMap is a map, allowlist a set; defaultPeer and maxPrice are 0 when
\* they are not set.
ASSUME GatewayAssumption ==
    /\ Calls = Requests \X {"execute", "cancel"}
    /\ Peers \subseteq Nat \ {0}
    /\ NoJob \notin Jobs
    /\ Prices \subseteq Nat
    /\ \A c \in Configs : c.maxPrice \in Nat /\ c.defaultPeer \in Peers \cup {0}

Execution(h) == <<h, "execute">>

Cancellation(h) == <<h, "cancel">>

\* A handler.  status is that of the response, 0 before it has one; gone says
\* that the request's context is canceled.
NewRequest(stream) ==
    [at |-> "new", stream |-> stream, gone |-> FALSE, peer |-> 0, job |-> NoJob,
     price |-> 0, status |-> 0, result |-> "none", body |-> FALSE,
     cancel |-> "none"]

GatewayInit ==
    /\ Init
    /\ cfg \in Configs
    /\ \E stream \in [Requests -> BOOLEAN] :
           web = [h \in Requests |-> NewRequest(stream[h])]
-----------------------------------------------------------------------------
(* Routing.  peers is what ListLCPPeers returned: the peers ready just then. *)

collectModelsFromPeersForKind(kind, peers) ==
    {task[2] : task \in {t \in UNION {Advertised[p] : p \in peers} : t[1] = kind}}

\* Without an allowlist and without anything advertised every model is valid.
validateModelForTaskKind(kind, model, peers) ==
    LET listed == IF cfg.allowlist # {} THEN cfg.allowlist
                  ELSE collectModelsFromPeersForKind(kind, peers)
    IN  listed = {} \/ model \in listed \/ cfg.allowUnlisted

peerInList(p, peers) == IF p \in peers THEN p ELSE 0

\* The peer to ask, or 0.  A peer that is configured and not ready is an
\* error, not a reason to look for another one.
resolvePeerIDForTaskKind(kind, model, peers) ==
    LET offering == {p \in peers : <<kind, model>> \in Advertised[p]}
    IN  IF model \in DOMAIN cfg.modelMap THEN peerInList(cfg.modelMap[model], peers)
        ELSE IF cfg.defaultPeer # 0 THEN peerInList(cfg.defaultPeer, peers)
        ELSE IF offering # {} THEN Min(offering)
        ELSE IF peers # {} THEN Min(peers) ELSE 0
-----------------------------------------------------------------------------
(* The handler. *)

httpStatusFromGRPC(code) ==
    CASE code = "Canceled" -> 408
      [] code = "DeadlineExceeded" -> 504
      [] code = "Unavailable" -> 502
      [] code \in {"NotFound", "FailedPrecondition"} -> 400
      [] OTHER -> 500

\* writeOpenAIError, or nothing when a part of the body has been written.
Answer(h, status) ==
    [web[h] EXCEPT !.at = "answered", !.status = IF web[h].body THEN @ ELSE status]

\* A call that failed with code; the job is canceled when the request was, or
\* when the code says that the call was given up.
shouldCancelAfterExecuteError(h, code) ==
    web[h].gone \/ code \in {"Canceled", "DeadlineExceeded"}

ExecuteError(h, code) ==
    LET answered == Answer(h, httpStatusFromGRPC(code))
    IN  IF shouldCancelAfterExecuteError(h, code)
        THEN [answered EXCEPT !.cancel = "due"] ELSE answered

\* The request is refused before it is routed: authentication, body, or lcpd
\* does not list its peers, which it does not when the client has gone.
Reject(h) ==
    /\ web[h].at = "new"
    /\ \E status \in {400, 502} :
           web' = [web EXCEPT ![h] = Answer(h, status)]
    /\ UNCHANGED <<lcpdVars, cfg>>

resolvePeerForTaskKindAndModel(h) ==
    LET kind == Want[h][1]
        model == Want[h][2]
    IN  /\ web[h].at = "new" /\ ~web[h].gone
        /\ \E peers \in SUBSET Peers :
               LET peer == resolvePeerIDForTaskKind(kind, model, peers)
               IN  web' = [web EXCEPT ![h] =
                       IF ~validateModelForTaskKind(kind, model, peers)
                       THEN Answer(h, 400)
                       ELSE IF peer = 0 THEN Answer(h, 503)
                       ELSE [web[h] EXCEPT !.at = "routed", !.peer = peer]]
        /\ UNCHANGED <<lcpdVars, cfg>>

\* Fault: the price is not looked at.
WithinLimit_Any(price) == TRUE

WithinLimit(price) == cfg.maxPrice = 0 \/ price <= cfg.maxPrice

\* lcpd has stored a quote in time.  One above the limit is not canceled.
requestQuoteAndValidatePrice(h, j, invoice, price) ==
    LET quoted == [web[h] EXCEPT !.at = "quoted", !.job = j, !.price = price]
    IN  /\ web[h].at = "routed" /\ ~web[h].gone
        /\ RequestQuote(j, invoice)
        /\ web' = [web EXCEPT ![h] =
               IF WithinLimit(price) THEN quoted
               ELSE [quoted EXCEPT !.at = "answered", !.status = 400]]
        /\ UNCHANGED cfg

\* RequestQuote failed or took longer than TimeoutQuote.
QuoteError(h) ==
    /\ web[h].at = "routed"
    /\ \E code \in {"Canceled", "DeadlineExceeded", "Unavailable", "Internal"} :
           /\ code = "Canceled" <=> web[h].gone
           /\ web' = [web EXCEPT ![h] = Answer(h, httpStatusFromGRPC(code))]
    /\ UNCHANGED <<lcpdVars, cfg>>

\* lcpd takes the call, or refuses it because the quote has been evicted or
\* has expired.
acceptAndExecute(h) ==
    LET j == web[h].job
        known == j \in DOMAIN store /\ store[j].state # "expired"
    IN  /\ web[h].at = "quoted" /\ ~web[h].gone
        /\ IF known THEN GetTerms(Execution(h), j) ELSE UNCHANGED lcpdVars
        /\ web' = [web EXCEPT ![h] =
               IF calls'[Execution(h)] # Idle THEN [web[h] EXCEPT !.at = "executing"]
               ELSE ExecuteError(h, "FailedPrecondition")]
        /\ UNCHANGED cfg

\* Fault: the call has no deadline of its own.
ContextDone_NoTimeout(h) ==
    /\ web[h].at \in {"quoted", "executing"} /\ web[h].gone
    /\ web' = [web EXCEPT ![h] = ExecuteError(h, "Canceled")]
    /\ UNCHANGED <<lcpdVars, cfg>>

\* The client of a gRPC call returns as soon as the context of the call is
\* done: the client has gone or TimeoutExecute has passed.
ContextDone(h) ==
    /\ \/ web[h].at = "executing"
       \/ web[h].at = "quoted" /\ web[h].gone
    /\ web' = [web EXCEPT ![h] =
           ExecuteError(h, IF web[h].gone THEN "Canceled" ELSE "DeadlineExceeded")]
    /\ UNCHANGED <<lcpdVars, cfg>>

Received(h, result) ==
    IF result = "ok"
    THEN [web[h] EXCEPT !.at = "answered", !.status = 200, !.result = "ok"]
    ELSE [Answer(h, 502) EXCEPT !.result = result]

\* AcceptAndExecute returns in lcpd.  A handler that still waits for it
\* answers: an unsuccessful result, and when it is not streamed one with an
\* encoding, is an error.  Otherwise nobody hears of it.
ExecuteReturns(h) ==
    LET c == Execution(h)
    IN  /\ Return(c)
        /\ \/ /\ web[h].at = "executing" /\ calls[c].at = "completing"
              /\ \E result \in {"ok", "failed", "encoded"} :
                     /\ web[h].stream => result # "encoded"
                     /\ web' = [web EXCEPT ![h] = Received(h, result)]
           \/ /\ web[h].at = "executing" /\ calls[c].at = "failing"
              /\ \E code \in {"FailedPrecondition", "Unavailable", "Internal",
                              "DeadlineExceeded"} :
                     web' = [web EXCEPT ![h] = ExecuteError(h, code)]
           \/ web[h].at # "executing" /\ UNCHANGED web
        /\ UNCHANGED cfg

\* The stream's last event arrives before lcpd's call has returned.
StreamedResult(h) ==
    /\ web[h].at = "executing" /\ web[h].stream
    /\ calls[Execution(h)].at = "completing"
    /\ \E result \in {"ok", "failed"} :
           web' = [web EXCEPT ![h] = Received(h, result)]
    /\ UNCHANGED <<lcpdVars, cfg>>

\* The handler is given data that it writes, that it cannot write, or the
\* first of which has an encoding it does not pass on.
writeStreamChunk(h) ==
    LET begun == [web[h] EXCEPT !.body = TRUE, !.status = 200]
        failed(w) == [w EXCEPT !.at = "answered",
                               !.status = IF w.body THEN @ ELSE 500,
                               !.cancel = IF w.gone THEN "due" ELSE @]
    IN  /\ web[h].at = "executing" /\ web[h].stream
        /\ calls[Execution(h)].at \in {"wait", "completing"}
        /\ \/ web' = [web EXCEPT ![h] = begun]
           \/ web' = [web EXCEPT ![h] = failed(begun)]
           \/ ~web[h].body /\ web' = [web EXCEPT ![h] = failed(web[h])]
        /\ UNCHANGED <<lcpdVars, cfg>>

\* Fault: the goroutine's context is that of the request.
cancelJobAsync_RequestContext(h) ==
    /\ web[h].cancel = "due"
    /\ \E connected \in BOOLEAN :
           /\ IF connected /\ ~web[h].gone
              THEN SendCancel(Cancellation(h), web[h].job) ELSE UNCHANGED lcpdVars
           /\ web' = [web EXCEPT ![h].cancel =
                  IF web[h].gone THEN "lost"
                  ELSE IF connected THEN "sent" ELSE "unreachable"]
    /\ UNCHANGED cfg

\* The goroutine calls CancelJob, which wants a connected peer and then sends
\* lcp_cancel; MarkCancelled is the rest of that call.
cancelJobAsync(h) ==
    /\ web[h].cancel = "due"
    /\ \E connected \in BOOLEAN :
           /\ IF connected
              THEN SendCancel(Cancellation(h), web[h].job) ELSE UNCHANGED lcpdVars
           /\ web' = [web EXCEPT ![h].cancel =
                  IF connected THEN "sent" ELSE "unreachable"]
    /\ UNCHANGED cfg
-----------------------------------------------------------------------------
(* lcpd, the clients and the end of the process. *)

\* The rest of lcpd's call.  Its context ends with the handler.
CallRuns(h) ==
    LET c == Execution(h)
    IN  /\ \/ MarkPaying(c) \/ Verify(c) \/ SendPayment(c) \/ PayInvoice(c)
           \/ MarkAwaitingResult(c)
           \/ web[h].at \in {"answered", "lost"} /\ CallFails(c)
        /\ UNCHANGED <<cfg, web>>

\* What other clients of lcpd, LND, the provider and time do.  A quote nobody
\* here waits for can also be one whose handler has given up.
Elsewhere ==
    /\ \/ \E j \in Jobs, invoice \in Offers : RequestQuote(j, invoice)
       \/ \E j \in Jobs, status \in {"settled", "failed"} : FinishPayment(j, status)
       \/ \E h \in Requests : WaitResult(Execution(h)) \/ CallFails(Execution(h))
       \/ Tick
    /\ UNCHANGED <<cfg, web>>

CancelReturns(h) == MarkCancelled(Cancellation(h)) /\ UNCHANGED <<cfg, web>>

ClientLeaves(h) ==
    /\ web[h].at \notin {"answered", "lost"} /\ ~web[h].gone
    /\ web' = [web EXCEPT ![h].gone = TRUE]
    /\ UNCHANGED <<lcpdVars, cfg>>

\* The process ends: Shutdown waits for handlers, but not for long and not
\* for the goroutines that cancel.
Exit ==
    /\ web' = [h \in Requests |->
           CASE web[h].at = "new" -> web[h]
             [] web[h].at = "answered" /\ web[h].cancel # "due" -> web[h]
             [] OTHER -> [web[h] EXCEPT !.at = "lost", !.cancel =
                              IF @ = "due" THEN "lost" ELSE @]]
    /\ UNCHANGED <<lcpdVars, cfg>>
-----------------------------------------------------------------------------
Handler(h) ==
    \/ Reject(h)
    \/ resolvePeerForTaskKindAndModel(h)
    \/ \E j \in Jobs, invoice \in Offers, price \in Prices :
           requestQuoteAndValidatePrice(h, j, invoice, price)
    \/ QuoteError(h)
    \/ acceptAndExecute(h)
    \/ ContextDone(h)

GatewayNext ==
    \/ \E h \in Requests :
           \/ Handler(h)
           \/ StreamedResult(h)
           \/ writeStreamChunk(h)
           \/ CallRuns(h)
           \/ ExecuteReturns(h)
           \/ cancelJobAsync(h)
           \/ CancelReturns(h)
           \/ ClientLeaves(h)
    \/ Elsewhere
    \/ Exit

\* Handlers, goroutines and calls run, and their timeouts go off.  Nothing is
\* expected of clients, peers, payments or providers.
GatewaySpec ==
    /\ GatewayInit /\ [][GatewayNext]_gatewayVars
    /\ \A h \in Requests :
           /\ WF_gatewayVars(Handler(h))
           /\ WF_gatewayVars(CallRuns(h) \/ ExecuteReturns(h))
           /\ WF_gatewayVars(cancelJobAsync(h))
           /\ WF_gatewayVars(CancelReturns(h))
-----------------------------------------------------------------------------
\* Whatever lcpd pays has been asked for by a handler that had seen the price
\* of that very job and found it within OPENAI_SERVE_MAX_PRICE_MSAT; a quote
\* above it, or one that came too late, is never paid
\* (requestQuoteAndValidatePrice, acceptAndExecute).
PaidWithinLimit ==
    \A j \in Jobs : payments[j].status # "none" =>
        \E h \in Requests :
            web[h].job = j /\ (cfg.maxPrice > 0 => web[h].price <= cfg.maxPrice)

\* A client is told 200 only when the job of its request is paid, and then has
\* a successful result or the beginning of one, also when the answer races
\* the timeout, a cancellation or a payment still in flight (validateResult,
\* validateStreamedTerminalResult, AcceptAndExecute).
OkMeansPaid ==
    \A h \in Requests : web[h].status = 200 =>
        /\ payments[web[h].job].status = "settled"
        /\ web[h].result = "ok" \/ web[h].body

\* Every request comes to an end, and so does what lcpd does for it: when the
\* client leaves, the time is up or the gateway stops, no call is left behind
\* and no job stays paying or awaiting its result (handleOpenAIPassthrough,
\* AcceptAndExecute).
EveryRequestEnds ==
    \A h \in Requests : <>[]
        /\ web[h].at \in {"answered", "lost"}
        /\ calls[Execution(h)] = Idle
        /\ web[h].job \in DOMAIN store =>
               store[web[h].job].state \notin {"paying", "awaiting_result"}

\* When a client leaves while its job executes, either the result still comes
\* or the provider is told, unless it cannot be reached or the gateway stops
\* first: the goroutine outlives the request (cancelJobAsync).
AbandonedIsCancelled ==
    \A h \in Requests :
        web[h].at = "executing" /\ web[h].gone
            ~> \/ web[h].result # "none"
               \/ web[h].cancel \in {"sent", "unreachable"}
               \/ web[h].at = "lost"
=============================================================================
