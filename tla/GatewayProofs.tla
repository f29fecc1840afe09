--------------------------- MODULE GatewayProofs ----------------------------
(***************************************************************************)
(* The gateway uses lcpd as Requester allows, so that everything proved of *)
(* Requester holds behind it; and for every number of requests and every   *)
(* configuration it pays within its limit and says 200 only of what it has *)
(* paid.                                                                   *)
(***************************************************************************)
EXTENDS Gateway, RequesterProofs

Within(h) == cfg.maxPrice > 0 => web[h].price <= cfg.maxPrice

Fields == {"at", "stream", "gone", "peer", "job", "price", "status",
           "result", "body", "cancel"}

\* w has the fields of a handler.
Shape(w) == w = [k \in Fields |-> w[k]]

\* The step makes w of the handler.
Becomes(h, w) == web' = [web EXCEPT ![h] = w]

WebType ==
    /\ web = [h \in Requests |-> web[h]]
    /\ \A h \in Requests : Shape(web[h])

\* A handler has no job and no status before it is quoted; what lcpd works on
\* for it is its job, and it has let the price pass.
HandlerInv ==
    \A h \in Requests :
        /\ web[h].at \in {"new", "routed"} =>
               /\ web[h].job = NoJob /\ web[h].status = 0 /\ web[h].body = FALSE
               /\ calls[Execution(h)] = Idle
        /\ web[h].at = "quoted" => Within(h) /\ calls[Execution(h)] = Idle
        /\ calls[Execution(h)].at \in Places =>
               calls[Execution(h)].job = web[h].job /\ Within(h)
        /\ calls[Execution(h)].at # "cancel"
        /\ calls[Cancellation(h)].at \notin Places
        /\ web[h].body => web[h].status = 200
        /\ web[h].status = 200 => web[h].job \in Jobs

\* The inductive invariant, beside that of Requester.
GInv == WebType /\ HandlerInv /\ PaidWithinLimit /\ OkMeansPaid

\* What a step may do to the calls of a handler: run on, end, send a cancel.
CallRunsOn(h) ==
    /\ \/ calls'[Execution(h)] = calls[Execution(h)]
       \/ calls'[Execution(h)] = Idle
       \/ /\ {calls[Execution(h)].at, calls'[Execution(h)].at} \subseteq Places
          /\ calls'[Execution(h)].job = calls[Execution(h)].job
    /\ \/ calls'[Cancellation(h)] = calls[Cancellation(h)]
       \/ calls'[Cancellation(h)].at \in {"idle", "cancel"}

\* Payments are begun for the job of a handler, and those settled stay so.
PaymentsRunOn ==
    \A j \in Jobs :
        /\ payments[j].status = "settled" => payments'[j].status = "settled"
        /\ payments'[j].status # "none" =>
               \/ payments[j].status # "none"
               \/ \E h \in Requests :
                      calls[Execution(h)].at \in Places /\ calls[Execution(h)].job = j

\* The handler goes on with the job and the price it has.
HandlerRunsOn(h) ==
    /\ Shape(web'[h])
    /\ web'[h].job = web[h].job /\ web'[h].price = web[h].price
    /\ web'[h].at \in {"new", "routed"} =>
           /\ web[h].at \in {"new", "routed"}
           /\ web'[h].status = web[h].status /\ web'[h].body = web[h].body
    /\ web'[h].at = "quoted" => web[h].at = "quoted"
    /\ web'[h].body => web'[h].status = 200
    /\ web'[h].status = 200 =>
           /\ web'[h].result = "ok" \/ web'[h].body
           /\ \/ web[h].status = 200
              \/ web[h].job \in Jobs /\ payments[web[h].job].status = "settled"

\* Steps of these kinds preserve the invariant.
LEMMA RunsOn ==
    ASSUME GInv, UNCHANGED cfg, PaymentsRunOn,
           web' = [h \in Requests |-> web'[h]],
           \A h \in Requests : CallRunsOn(h) /\ HandlerRunsOn(h)
    PROVE  GInv'
<1>1. WebType'
  BY DEF WebType, HandlerRunsOn
<1>2. \A h \in Requests : Within(h)' <=> Within(h)
  BY DEF Within, HandlerRunsOn
<1>3. HandlerInv'
  <2> SUFFICES ASSUME NEW h \in Requests
               PROVE  HandlerInv!(h)'
    BY DEF HandlerInv
  <2>1. Idle.at \notin Places /\ Idle.at # "cancel" /\ "cancel" \notin Places
        /\ "idle" \notin Places
    BY DEF Idle, Places
  <2>2. HandlerInv!(h) /\ CallRunsOn(h) /\ HandlerRunsOn(h)
    BY DEF GInv, HandlerInv
  <2> QED
    BY <1>2, <2>1, <2>2 DEF CallRunsOn, HandlerRunsOn
<1>4. PaidWithinLimit'
  <2> SUFFICES ASSUME NEW j \in Jobs, payments'[j].status # "none"
               PROVE  \E h \in Requests : web'[h].job = j /\ Within(h)'
    BY DEF PaidWithinLimit, Within
  <2>1. \E h \in Requests : web[h].job = j /\ Within(h)
    BY DEF GInv, PaidWithinLimit, Within, HandlerInv, PaymentsRunOn
  <2> QED
    BY <1>2, <2>1 DEF HandlerRunsOn
<1>5. OkMeansPaid'
  BY DEF GInv, OkMeansPaid, HandlerInv, HandlerRunsOn, PaymentsRunOn
<1> QED
  BY <1>1, <1>3, <1>4, <1>5 DEF GInv
-----------------------------------------------------------------------------
\* Every handler has two calls of its own.
LEMMA OwnCalls ==
    /\ \A h \in Requests : {Execution(h), Cancellation(h)} \subseteq Calls
    /\ \A g, h \in Requests :
           /\ Execution(g) # Cancellation(h)
           /\ Execution(g) = Execution(h) => g = h
           /\ Cancellation(g) = Cancellation(h) => g = h
  BY GatewayAssumption DEF Execution, Cancellation

\* Nothing happens to the calls.
LEMMA CallsSame ==
    ASSUME UNCHANGED calls
    PROVE  \A h \in Requests : CallRunsOn(h)
  BY DEF CallRunsOn

\* A call moves on.
LEMMA CallMoves ==
    ASSUME TypeOK, NEW h \in Requests, calls[Execution(h)].at \in Places,
           NEW p \in Places, At(Execution(h), p)
    PROVE  \A g \in Requests : CallRunsOn(g)
<1>0. Execution(h) \in Calls
  BY OwnCalls
<1>1. /\ calls'[Execution(h)] = [at |-> p, job |-> calls[Execution(h)].job,
                                 terms |-> calls[Execution(h)].terms]
      /\ \A d \in Calls : d # Execution(h) => calls'[d] = calls[d]
  BY <1>0, AtResult
<1> QED
  BY <1>1, OwnCalls DEF CallRunsOn

\* A call ends.
LEMMA CallEnds ==
    ASSUME TypeOK, NEW c \in Calls, calls' = [calls EXCEPT ![c] = Idle]
    PROVE  \A g \in Requests : CallRunsOn(g)
<1>1. calls'[c] = Idle /\ \A d \in Calls : d # c => calls'[d] = calls[d]
  BY DEF TypeOK
<1>2. Idle.at = "idle"
  BY DEF Idle
<1> QED
  BY <1>1, <1>2, OwnCalls DEF CallRunsOn

\* A goroutine has sent a cancel.
LEMMA CancelStarts ==
    ASSUME TypeOK, NEW h \in Requests, NEW j, SendCancel(Cancellation(h), j)
    PROVE  \A g \in Requests : CallRunsOn(g)
<1>1. /\ calls'[Cancellation(h)].at = "cancel"
      /\ \A d \in Calls : d # Cancellation(h) => calls'[d] = calls[d]
  BY OwnCalls DEF TypeOK, SendCancel
<1> QED
  BY <1>1, OwnCalls DEF CallRunsOn

\* Nothing happens to the payments.
LEMMA PaymentsSame ==
    ASSUME UNCHANGED payments
    PROVE  PaymentsRunOn
  BY DEF PaymentsRunOn

\* Nothing happens to the handlers.
LEMMA HandlersSame ==
    ASSUME GInv, UNCHANGED web
    PROVE  /\ web' = [h \in Requests |-> web'[h]]
           /\ \A h \in Requests : HandlerRunsOn(h)
<1>1. web' = [h \in Requests |-> web'[h]]
  BY DEF GInv, WebType
<1> QED
  BY <1>1 DEF GInv, WebType, HandlerInv, OkMeansPaid, HandlerRunsOn

\* One handler goes on.
LEMMA HandlerMoves ==
    ASSUME GInv, NEW h \in Requests, NEW w, Becomes(h, w),
           HandlerRunsOn(h)
    PROVE  /\ web' = [g \in Requests |-> web'[g]]
           /\ \A g \in Requests : HandlerRunsOn(g)
<1>1. web' = [g \in Requests |-> web'[g]]
  BY DEF GInv, WebType, Becomes
<1>2. \A g \in Requests : g # h => web'[g] = web[g]
  BY DEF GInv, WebType, Becomes
<1>3. ASSUME NEW g \in Requests, g # h
      PROVE  HandlerRunsOn(g)
  BY <1>2, <1>3 DEF GInv, WebType, HandlerInv, OkMeansPaid, HandlerRunsOn
<1> QED
  BY <1>1, <1>3
-----------------------------------------------------------------------------
\* The steps that lcpd takes for itself.
LEMMA CallRunsStep ==
    ASSUME IInv, GInv, NEW h \in Requests, CallRuns(h)
    PROVE  GInv' /\ [Next]_vars
<1> DEFINE c == Execution(h)
<1>0. TypeOK /\ c \in Calls
  BY OwnCalls DEF IInv
<1>1. [Next]_vars
  BY <1>0 DEF CallRuns, Next, CallStep
<1>2. UNCHANGED cfg /\ web' = [g \in Requests |-> web'[g]]
      /\ \A g \in Requests : HandlerRunsOn(g)
  BY HandlersSame DEF CallRuns
<1>3. calls[c].at \in Places /\ \E p \in Places : At(c, p)
  BY DEF CallRuns, MarkPaying, Verify, SendPayment, PayInvoice,
         MarkAwaitingResult, CallFails, Places
<1>4. \A g \in Requests : CallRunsOn(g)
  BY <1>0, <1>3, CallMoves
<1>5. PaymentsRunOn
  <2>1. CASE UNCHANGED payments
    BY <2>1, PaymentsSame
  <2>2. CASE SendPayment(c)
    BY <1>0, <1>3, <2>2 DEF SendPayment, TypeOK, PaymentsRunOn
  <2> QED
    BY <2>1, <2>2 DEF CallRuns, MarkPaying, Verify, PayInvoice,
                      MarkAwaitingResult, CallFails
<1> QED
  BY <1>1, <1>2, <1>4, <1>5, RunsOn

\* What the other clients, LND, the provider and time do.
LEMMA ElsewhereStep ==
    ASSUME IInv, GInv, Elsewhere
    PROVE  GInv' /\ [Next]_vars
<1>0. TypeOK
  BY DEF IInv
<1>1. [Next]_vars
  BY OwnCalls DEF Elsewhere, Next, CallStep
<1>2. UNCHANGED cfg /\ web' = [g \in Requests |-> web'[g]]
      /\ \A g \in Requests : HandlerRunsOn(g)
  BY HandlersSame DEF Elsewhere
<1>3. \A g \in Requests : CallRunsOn(g)
  <2>1. CASE UNCHANGED calls
    BY <2>1, CallsSame
  <2>2. ASSUME NEW h \in Requests,
               WaitResult(Execution(h)) \/ CallFails(Execution(h))
        PROVE  \A g \in Requests : CallRunsOn(g)
    <3>1. calls[Execution(h)].at \in Places /\ \E p \in Places : At(Execution(h), p)
      BY <2>2 DEF WaitResult, CallFails, Places
    <3> QED
      BY <1>0, <3>1, CallMoves
  <2> QED
    BY <2>1, <2>2 DEF Elsewhere, RequestQuote, FinishPayment, Tick
<1>4. PaymentsRunOn
  <2>1. CASE UNCHANGED payments
    BY <2>1, PaymentsSame
  <2>2. ASSUME NEW j \in Jobs, NEW status, FinishPayment(j, status)
        PROVE  PaymentsRunOn
    BY <1>0, <2>2 DEF FinishPayment, TypeOK, PaymentsRunOn
  <2> QED
    BY <2>1, <2>2 DEF Elsewhere, RequestQuote, WaitResult, CallFails, Tick
<1> QED
  BY <1>1, <1>2, <1>3, <1>4, RunsOn

\* Handlers that step while lcpd does nothing.
LEMMA LcpdRests ==
    ASSUME GInv, NEW h \in Requests, NEW w, UNCHANGED <<lcpdVars, cfg>>,
           Becomes(h, w), HandlerRunsOn(h)
    PROVE  GInv' /\ [Next]_vars
<1>1. UNCHANGED <<vars, calls, payments, cfg>>
  BY DEF lcpdVars, vars
<1> QED
  BY <1>1, HandlerMoves, CallsSame, PaymentsSame, RunsOn

\* A handler that is h, and where its job stands.
LEMMA HandlerFacts ==
    ASSUME IInv, GInv, NEW h \in Requests
    PROVE  /\ Shape(web[h])
           /\ web[h].status = 200 => web[h].result = "ok" \/ web[h].body
           /\ web[h].body => web[h].status = 200
           /\ calls[Execution(h)].at \in {"wait", "completing"} =>
                  /\ web[h].job \in Jobs
                  /\ payments[web[h].job].status = "settled"
<1>1. Execution(h) \in Calls /\ TypeOK /\ CallInv
  BY OwnCalls DEF IInv
<1>2. ASSUME calls[Execution(h)].at \in {"wait", "completing"}
      PROVE  /\ web[h].job \in Jobs
             /\ payments[web[h].job].status = "settled"
  <2>1. calls[Execution(h)].at \in Places
    BY <1>2 DEF Places
  <2>2. calls[Execution(h)] \in WorkingCall /\ calls[Execution(h)].job = web[h].job
    BY <1>1, <2>1, CallType DEF GInv, HandlerInv
  <2> QED
    BY <1>1, <1>2, <2>1, <2>2 DEF CallInv, WorkingCall
<1> QED
  BY <1>2 DEF GInv, WebType, HandlerInv, OkMeansPaid

Answered(w, status) ==
    [w EXCEPT !.at = "answered", !.status = IF w.body THEN @ ELSE status]

\* A handler that is answered keeps its fields.
LEMMA AnswerFields ==
    ASSUME NEW w, Shape(w), NEW status, w.body => w.status = 200
    PROVE  LET a == Answered(w, status)
           IN  /\ Shape(a) /\ a.at = "answered" /\ a.job = w.job
               /\ a.price = w.price /\ a.result = w.result /\ a.body = w.body
               /\ a.status = IF w.body THEN 200 ELSE status
  BY DEF Answered, Shape, Fields

\* An answer that is an error.
LEMMA AnswerRunsOn ==
    ASSUME IInv, GInv, NEW h \in Requests, NEW status, status # 200,
           NEW w, w = Answer(h, status) \/ w = [Answer(h, status) EXCEPT !.cancel = "due"]
    PROVE  /\ Shape(w) /\ w.at = "answered"
           /\ w.job = web[h].job /\ w.price = web[h].price
           /\ w.result = web[h].result /\ w.body = web[h].body
           /\ w.status = IF web[h].body THEN 200 ELSE status
<1>1. Shape(web[h]) /\ (web[h].body => web[h].status = 200)
  BY HandlerFacts
<1> DEFINE a == Answer(h, status)
<1>0. a = Answered(web[h], status)
  BY DEF Answer, Answered
<1> HIDE DEF a
<1>2. /\ Shape(a) /\ a.at = "answered" /\ a.job = web[h].job
      /\ a.price = web[h].price /\ a.result = web[h].result
      /\ a.body = web[h].body
      /\ a.status = IF web[h].body THEN 200 ELSE status
  BY <1>0, <1>1, AnswerFields
<1>3. CASE w = a
  BY <1>2, <1>3
<1>4. CASE w = [a EXCEPT !.cancel = "due"]
  BY <1>2, <1>4 DEF Shape, Fields
<1> QED
  BY <1>3, <1>4 DEF a

LEMMA ErrorStatus ==
    ASSUME NEW code
    PROVE  httpStatusFromGRPC(code) # 200
  BY DEF httpStatusFromGRPC

LEMMA ExecuteErrorRunsOn ==
    ASSUME IInv, GInv, NEW h \in Requests, NEW code
    PROVE  LET w == ExecuteError(h, code)
           IN  /\ Shape(w) /\ w.at = "answered"
               /\ w.job = web[h].job /\ w.price = web[h].price
               /\ w.result = web[h].result /\ w.body = web[h].body
               /\ w.body => w.status = 200
               /\ w.status = 200 => w.body
<1> DEFINE status == httpStatusFromGRPC(code)
<1>1. status # 200
  BY ErrorStatus
<1>2. \/ ExecuteError(h, code) = Answer(h, status)
      \/ ExecuteError(h, code) = [Answer(h, status) EXCEPT !.cancel = "due"]
  BY DEF ExecuteError
<1> HIDE DEF status
<1> QED
  BY <1>1, <1>2, AnswerRunsOn

\* A handler that answers with an error goes on as it should.
LEMMA Errs ==
    ASSUME IInv, GInv, NEW h \in Requests, NEW w, Becomes(h, w),
           Shape(w), w.at = "answered", w.job = web[h].job, w.price = web[h].price,
           w.result = web[h].result, w.body = web[h].body,
           w.body => w.status = 200, w.status = 200 => w.body
    PROVE  HandlerRunsOn(h)
<1>1. web'[h] = w
  BY DEF GInv, WebType, Becomes
<1>2. web[h].body => web[h].status = 200
  BY HandlerFacts
<1> QED
  BY <1>1, <1>2 DEF HandlerRunsOn

\* The steps of a handler before it has a quote, and the end of its context.
LEMMA RestStep ==
    ASSUME IInv, GInv, NEW h \in Requests,
           \/ Reject(h) \/ resolvePeerForTaskKindAndModel(h) \/ QuoteError(h)
           \/ ContextDone(h)
    PROVE  GInv' /\ [Next]_vars
<1>1. ASSUME NEW status, status # 200, Becomes(h, Answer(h, status))
      PROVE  GInv' /\ [Next]_vars
  <2> DEFINE w == Answer(h, status)
  <2>3. /\ Shape(w) /\ w.at = "answered" /\ w.job = web[h].job
        /\ w.price = web[h].price /\ w.result = web[h].result
        /\ w.body = web[h].body /\ w.status = IF web[h].body THEN 200 ELSE status
    BY <1>1, AnswerRunsOn
  <2> HIDE DEF w
  <2>2. HandlerRunsOn(h)
    BY <1>1, <2>3, Errs DEF w
  <2> QED
    BY <1>1, <2>2, LcpdRests DEF Reject, resolvePeerForTaskKindAndModel, QuoteError,
                                 ContextDone
<1>2. ASSUME NEW code, Becomes(h, ExecuteError(h, code))
      PROVE  GInv' /\ [Next]_vars
  <2>1. HandlerRunsOn(h)
    BY <1>2, ExecuteErrorRunsOn, Errs
  <2> QED
    BY <1>2, <2>1, LcpdRests DEF Reject, resolvePeerForTaskKindAndModel, QuoteError,
                                 ContextDone
<1>3. ASSUME NEW peer, web[h].at = "new", UNCHANGED <<lcpdVars, cfg>>,
             Becomes(h, [web[h] EXCEPT !.at = "routed", !.peer = peer])
      PROVE  GInv' /\ [Next]_vars
  <2> DEFINE w == web'[h]
  <2>0. Shape(web[h]) /\ w = [web[h] EXCEPT !.at = "routed", !.peer = peer]
    BY <1>3, HandlerFacts DEF GInv, WebType, Becomes
  <2>1. /\ Shape(w) /\ w.at = "routed" /\ w.job = web[h].job /\ w.price = web[h].price
        /\ w.status = web[h].status /\ w.body = web[h].body
    BY <2>0 DEF Shape, Fields
  <2>2. HandlerRunsOn(h)
    BY <1>3, <2>1, HandlerFacts DEF HandlerRunsOn, GInv, HandlerInv
  <2> QED
    BY <1>3, <2>2, LcpdRests
<1>4. CASE Reject(h)
  <2>1. PICK status \in {400, 502} : Becomes(h, Answer(h, status))
    BY <1>4 DEF Reject, Becomes
  <2> QED
    BY <1>1, <2>1
<1>5. CASE resolvePeerForTaskKindAndModel(h)
  <2> DEFINE kind == Want[h][1]
             model == Want[h][2]
             peer(peers) == resolvePeerIDForTaskKind(kind, model, peers)
             w(peers) == IF ~validateModelForTaskKind(kind, model, peers)
                         THEN Answer(h, 400)
                         ELSE IF peer(peers) = 0 THEN Answer(h, 503)
                         ELSE [web[h] EXCEPT !.at = "routed", !.peer = peer(peers)]
  <2>1. web[h].at = "new" /\ UNCHANGED <<lcpdVars, cfg>>
    BY <1>5 DEF resolvePeerForTaskKindAndModel
  <2>2. PICK peers \in SUBSET Peers : Becomes(h, w(peers))
    BY <1>5, Zenon DEF resolvePeerForTaskKindAndModel, Becomes
  <2>3. \/ w(peers) = Answer(h, 400)
        \/ w(peers) = Answer(h, 503)
        \/ w(peers) = [web[h] EXCEPT !.at = "routed", !.peer = peer(peers)]
    OBVIOUS
  <2> HIDE DEF w, peer
  <2>4. CASE w(peers) = Answer(h, 400) \/ w(peers) = Answer(h, 503)
    BY <1>1, <2>2, <2>4
  <2>5. CASE w(peers) = [web[h] EXCEPT !.at = "routed", !.peer = peer(peers)]
    <3>1. Becomes(h, [web[h] EXCEPT !.at = "routed", !.peer = peer(peers)])
      BY <2>2, <2>5
    <3> QED
      BY <1>3, <2>1, <3>1
  <2> QED
    BY <2>3, <2>4, <2>5
<1>6. CASE QuoteError(h)
  <2>1. PICK code : Becomes(h, Answer(h, httpStatusFromGRPC(code)))
    BY <1>6 DEF QuoteError, Becomes
  <2> QED
    BY <1>1, <2>1, ErrorStatus
<1>7. CASE ContextDone(h)
  <2>1. PICK code : Becomes(h, ExecuteError(h, code))
    BY <1>7 DEF ContextDone, Becomes
  <2> QED
    BY <1>2, <2>1
<1> QED
  BY <1>4, <1>5, <1>6, <1>7

\* A result, of whatever status.
LEMMA ReceivedRunsOn ==
    ASSUME IInv, GInv, NEW h \in Requests, NEW result,
           calls[Execution(h)].at = "completing", web[h].at = "executing",
           Becomes(h, Received(h, result))
    PROVE  HandlerRunsOn(h)
<1> DEFINE w == web[h]
           v == web'[h]
<1>1. Shape(w) /\ (w.body => w.status = 200) /\ v = Received(h, result)
  BY HandlerFacts DEF GInv, WebType, Becomes
<1>2. w.job \in Jobs /\ payments[w.job].status = "settled"
  BY HandlerFacts
<1>3. CASE result = "ok"
  <2>1. v = [w EXCEPT !.at = "answered", !.status = 200, !.result = "ok"]
    BY <1>1, <1>3 DEF Received
  <2>2. Shape(w)
    BY <1>1
  <2> HIDE DEF w, v
  <2>3. Shape(v)
    BY <2>1, <2>2 DEF Shape
  <2>4. /\ v.at = "answered" /\ v.job = w.job /\ v.price = w.price
        /\ v.status = 200 /\ v.result = "ok"
    BY <2>1, <2>2 DEF Shape, Fields
  <2> QED
    BY <1>2, <2>3, <2>4 DEF HandlerRunsOn, w, v
<1>4. CASE result # "ok"
  <2> DEFINE a == Answered(w, 502)
  <2>1. v = [a EXCEPT !.result = result]
    BY <1>1, <1>4 DEF Received, Answer, Answered
  <2> HIDE DEF w, v
  <2>2. /\ Shape(a) /\ a.at = "answered" /\ a.job = w.job /\ a.price = w.price
        /\ a.body = w.body /\ a.status = IF w.body THEN 200 ELSE 502
    BY <1>1, AnswerFields
  <2> HIDE DEF a
  <2>3. /\ Shape(v) /\ v.at = "answered" /\ v.job = w.job /\ v.price = w.price
        /\ v.body = w.body /\ v.status = IF w.body THEN 200 ELSE 502
    BY <2>1, <2>2 DEF Shape, Fields
  <2> QED
    BY <1>2, <2>3 DEF HandlerRunsOn, w, v
<1> QED
  BY <1>3, <1>4

\* What a handler does with a stream, and a client that leaves it.
LEMMA StreamStep ==
    ASSUME IInv, GInv, NEW h \in Requests,
           StreamedResult(h) \/ writeStreamChunk(h) \/ ClientLeaves(h)
    PROVE  GInv' /\ [Next]_vars
<1> DEFINE w == web[h]
           v == web'[h]
<1>1. CASE StreamedResult(h)
  <2>1. PICK result : Becomes(h, Received(h, result))
    BY <1>1 DEF StreamedResult, Becomes
  <2>2. HandlerRunsOn(h)
    BY <1>1, <2>1, ReceivedRunsOn DEF StreamedResult
  <2> QED
    BY <1>1, <2>1, <2>2, LcpdRests DEF StreamedResult
<1>2. CASE writeStreamChunk(h)
  <2> DEFINE begun == [w EXCEPT !.body = TRUE, !.status = 200]
             failed(x) == [x EXCEPT !.at = "answered",
                                    !.status = IF x.body THEN @ ELSE 500,
                                    !.cancel = IF x.gone THEN "due" ELSE @]
  <2>1. w.at = "executing" /\ UNCHANGED <<lcpdVars, cfg>>
    BY <1>2 DEF writeStreamChunk
  <2>2. /\ Shape(w) /\ (w.body => w.status = 200)
        /\ w.job \in Jobs /\ payments[w.job].status = "settled"
    BY <1>2, HandlerFacts DEF writeStreamChunk
  <2>3. \/ Becomes(h, begun) \/ Becomes(h, failed(begun))
        \/ ~w.body /\ Becomes(h, failed(w))
    BY <1>2, Zenon DEF writeStreamChunk, Becomes
  <2> HIDE DEF w, begun, failed
  <2>4. /\ Shape(begun) /\ begun.body = TRUE /\ begun.status = 200 /\ begun.at = w.at
        /\ begun.job = w.job /\ begun.price = w.price
    BY <2>2 DEF begun, Shape, Fields
  <2>5. ASSUME NEW x, Shape(x)
        PROVE  /\ Shape(failed(x)) /\ failed(x).at = "answered"
               /\ failed(x).job = x.job /\ failed(x).price = x.price
               /\ failed(x).body = x.body
               /\ failed(x).status = IF x.body THEN x.status ELSE 500
    <3>1. Shape(failed(x))
      <4> DEFINE s == IF x.body THEN x.status ELSE 500
                 c == IF x.gone THEN "due" ELSE x.cancel
      <4>1. failed(x) = [x EXCEPT !.at = "answered", !.status = s, !.cancel = c]
        BY DEF failed
      <4> HIDE DEF s, c
      <4> QED
        BY <2>5, <4>1 DEF Shape
    <3>2. failed(x).at = "answered"
      <4>1. {"at", "status", "cancel"} \subseteq DOMAIN x
        BY <2>5 DEF Shape, Fields
      <4> QED
        BY <4>1 DEF failed
    <3>4. failed(x).status = IF x.body THEN x.status ELSE 500
      <4>1. CASE x.body
        BY <2>5, <4>1 DEF failed, Shape, Fields
      <4>2. CASE ~x.body
        BY <2>5, <4>2 DEF failed, Shape, Fields
      <4> QED
        BY <4>1, <4>2
    <3>3. /\ failed(x).job = x.job /\ failed(x).price = x.price
          /\ failed(x).body = x.body
      BY <2>5 DEF failed, Shape, Fields
    <3> QED
      BY <3>1, <3>2, <3>3, <3>4
  <2>6. ASSUME NEW x, Becomes(h, x)
        PROVE  v = x
    BY <2>6 DEF GInv, WebType, Becomes
  <2>7. HandlerRunsOn(h)
    BY <2>1, <2>2, <2>3, <2>4, <2>5, <2>6 DEF HandlerRunsOn, w
  <2> QED
    BY <2>1, <2>3, <2>7, LcpdRests
<1>3. CASE ClientLeaves(h)
  <2>1. Becomes(h, [w EXCEPT !.gone = TRUE]) /\ UNCHANGED <<lcpdVars, cfg>>
    BY <1>3 DEF ClientLeaves, Becomes
  <2>2. Shape(w) /\ v = [w EXCEPT !.gone = TRUE]
    BY <2>1, HandlerFacts DEF GInv, WebType, Becomes
  <2> HIDE DEF w, v
  <2>3. /\ Shape(v) /\ v.at = w.at /\ v.job = w.job /\ v.price = w.price
        /\ v.status = w.status /\ v.result = w.result /\ v.body = w.body
    BY <2>2 DEF Shape, Fields
  <2>4. HandlerRunsOn(h)
    BY <2>3, HandlerFacts DEF HandlerRunsOn, w, v
  <2> QED
    BY <2>1, <2>4, LcpdRests
<1> QED
  BY <1>1, <1>2, <1>3

\* The goroutine that cancels.
LEMMA CancelStep ==
    ASSUME IInv, GInv, NEW h \in Requests, cancelJobAsync(h) \/ CancelReturns(h)
    PROVE  GInv' /\ [Next]_vars
<1>0. TypeOK /\ Cancellation(h) \in Calls
  BY OwnCalls DEF IInv
<1>1. CASE cancelJobAsync(h)
  <2> DEFINE w == web[h]
             v == web'[h]
  <2>1. UNCHANGED cfg
    BY <1>1 DEF cancelJobAsync
  <2>2. PICK cancel : Becomes(h, [w EXCEPT !.cancel = cancel])
    BY <1>1 DEF cancelJobAsync, Becomes
  <2>3. Shape(w) /\ v = [w EXCEPT !.cancel = cancel]
    BY <2>2, HandlerFacts DEF GInv, WebType, Becomes
  <2> HIDE DEF w, v
  <2>4. /\ Shape(v) /\ v.at = w.at /\ v.job = w.job /\ v.price = w.price
        /\ v.status = w.status /\ v.result = w.result /\ v.body = w.body
    BY <2>3 DEF Shape, Fields
  <2>5. HandlerRunsOn(h)
    BY <2>4, HandlerFacts DEF HandlerRunsOn, w, v
  <2>6. CASE UNCHANGED lcpdVars
    BY <2>1, <2>2, <2>5, <2>6, LcpdRests
  <2>7. CASE SendCancel(Cancellation(h), web[h].job)
    <3>1. web[h].job \in Jobs
      BY <1>0, <2>7 DEF SendCancel, TypeOK, IsMap
    <3>2. [Next]_vars
      BY <1>0, <2>7, <3>1 DEF Next, CallStep
    <3>3. (\A g \in Requests : CallRunsOn(g)) /\ PaymentsRunOn
      BY <1>0, <2>7, CancelStarts, PaymentsSame DEF SendCancel
    <3> QED
      BY <2>1, <2>2, <2>5, <3>2, <3>3, HandlerMoves, RunsOn
  <2> QED
    BY <1>1, <2>6, <2>7 DEF cancelJobAsync
<1>2. CASE CancelReturns(h)
  <2>1. [Next]_vars
    BY <1>0, <1>2 DEF CancelReturns, Next, CallStep
  <2>2. (\A g \in Requests : CallRunsOn(g)) /\ PaymentsRunOn
    BY <1>0, <1>2, CallEnds, PaymentsSame DEF CancelReturns, MarkCancelled
  <2> QED
    BY <1>2, <2>1, <2>2, HandlersSame, RunsOn DEF CancelReturns
<1> QED
  BY <1>1, <1>2

\* AcceptAndExecute returns, to a handler that waits or to nobody.
LEMMA ReturnStep ==
    ASSUME IInv, GInv, NEW h \in Requests, ExecuteReturns(h)
    PROVE  GInv' /\ [Next]_vars
<1>0. TypeOK /\ Execution(h) \in Calls /\ Return(Execution(h)) /\ UNCHANGED cfg
  BY OwnCalls DEF IInv, ExecuteReturns
<1>1. [Next]_vars
  BY <1>0 DEF Next, CallStep
<1>2. (\A g \in Requests : CallRunsOn(g)) /\ PaymentsRunOn
  BY <1>0, CallEnds, PaymentsSame DEF Return
<1>3. /\ web' = [g \in Requests |-> web'[g]]
      /\ \A g \in Requests : HandlerRunsOn(g)
  <2>1. ASSUME NEW result, web[h].at = "executing",
               calls[Execution(h)].at = "completing",
               Becomes(h, Received(h, result))
        PROVE  <1>3!:
    BY <2>1, ReceivedRunsOn, HandlerMoves
  <2>2. ASSUME NEW code, Becomes(h, ExecuteError(h, code))
        PROVE  <1>3!:
    <3>1. HandlerRunsOn(h)
      BY <2>2, ExecuteErrorRunsOn, Errs
    <3> QED
      BY <2>2, <3>1, HandlerMoves
  <2>3. CASE UNCHANGED web
    BY <2>3, HandlersSame
  <2>4. \/ /\ web[h].at = "executing" /\ calls[Execution(h)].at = "completing"
           /\ \E result : Becomes(h, Received(h, result))
        \/ \E code : Becomes(h, ExecuteError(h, code))
        \/ UNCHANGED web
    BY Zenon DEF ExecuteReturns, Becomes
  <2> QED
    BY <2>1, <2>2, <2>3, <2>4
<1> QED
  BY <1>0, <1>1, <1>2, <1>3, RunsOn

\* The process ends.
LEMMA ExitStep ==
    ASSUME IInv, GInv, Exit
    PROVE  GInv' /\ [Next]_vars
<1>1. UNCHANGED <<vars, calls, payments, cfg>>
  BY DEF Exit, lcpdVars, vars
<1>2. web' = [h \in Requests |-> web'[h]]
  BY DEF Exit
<1>3. ASSUME NEW h \in Requests
      PROVE  HandlerRunsOn(h)
  <2> DEFINE w == web[h]
             v == web'[h]
  <2>1. v = w \/ \E cancel : v = [w EXCEPT !.at = "lost", !.cancel = cancel]
    BY DEF Exit
  <2>2. PICK cancel : v = w \/ v = [w EXCEPT !.at = "lost", !.cancel = cancel]
    BY <2>1
  <2>3. Shape(w)
    BY HandlerFacts
  <2> HIDE DEF w, v
  <2>4. /\ Shape(v) /\ v.at \in {w.at, "lost"} /\ v.job = w.job /\ v.price = w.price
        /\ v.status = w.status /\ v.result = w.result /\ v.body = w.body
    BY <2>2, <2>3 DEF Shape, Fields
  <2> QED
    BY <2>4, HandlerFacts DEF HandlerRunsOn, w, v
<1> QED
  BY <1>1, <1>2, <1>3, CallsSame, PaymentsSame, RunsOn

\* lcpd takes up the call of a handler that has let the price pass.
LEMMA TakesUp ==
    ASSUME IInv, GInv, NEW h \in Requests, web[h].at = "quoted", UNCHANGED <<cfg, payments>>,
           NEW terms,
           calls' = [calls EXCEPT ![Execution(h)] =
                        [at |-> "accepted", job |-> web[h].job, terms |-> terms]],
           Becomes(h, [web[h] EXCEPT !.at = "executing"])
    PROVE  GInv'
<1> DEFINE w == web[h]
           v == web'[h]
<1>0. Shape(w) /\ v = [w EXCEPT !.at = "executing"]
      /\ \A g \in Requests : g # h => web'[g] = web[g]
  BY HandlerFacts DEF GInv, WebType, Becomes
<1>1. /\ Shape(v) /\ v.at = "executing" /\ v.job = w.job /\ v.price = w.price
      /\ v.status = w.status /\ v.result = w.result /\ v.body = w.body
  <2> HIDE DEF w, v
  <2> QED
    BY <1>0 DEF Shape, Fields
<1>2. /\ calls'[Execution(h)].at = "accepted" /\ calls'[Execution(h)].job = w.job
      /\ \A d \in Calls : d # Execution(h) => calls'[d] = calls[d]
  BY OwnCalls DEF IInv, TypeOK
<1>3. WebType'
  BY <1>0, <1>1 DEF GInv, WebType, Becomes
<1>4. \A g \in Requests : Within(g)' <=> Within(g)
  BY <1>0, <1>1 DEF Within
<1>5. HandlerInv'
  <2> SUFFICES ASSUME NEW g \in Requests
               PROVE  HandlerInv!(g)'
    BY DEF HandlerInv
  <2>1. HandlerInv!(g)
    BY DEF GInv, HandlerInv
  <2>2. CASE g # h
    <3>1. /\ web'[g] = web[g] /\ calls'[Execution(g)] = calls[Execution(g)]
          /\ calls'[Cancellation(g)] = calls[Cancellation(g)]
      BY <1>0, <1>2, <2>2, OwnCalls
    <3> QED
      BY <1>4, <2>1, <3>1
  <2>3. CASE g = h
    <3>1. calls'[Cancellation(h)] = calls[Cancellation(h)]
      BY <1>2, OwnCalls
    <3> QED
      BY <1>1, <1>2, <1>4, <2>1, <2>3, <3>1
  <2> QED
    BY <2>2, <2>3
<1> HIDE DEF w, v
<1>8. \A g \in Requests :
          /\ web'[g].job = web[g].job /\ web'[g].price = web[g].price
          /\ web'[g].status = web[g].status /\ web'[g].result = web[g].result
          /\ web'[g].body = web[g].body
  BY <1>0, <1>1 DEF w, v
<1>6. PaidWithinLimit'
  BY <1>8 DEF GInv, PaidWithinLimit
<1>7. OkMeansPaid'
  BY <1>8 DEF GInv, OkMeansPaid
<1> QED
  BY <1>3, <1>5, <1>6, <1>7 DEF GInv

\* AcceptAndExecute is called.
LEMMA ExecuteStep ==
    ASSUME IInv, GInv, NEW h \in Requests, acceptAndExecute(h)
    PROVE  GInv' /\ [Next]_vars
<1> DEFINE j == web[h].job
           c == Execution(h)
<1>0. /\ TypeOK /\ c \in Calls /\ web[h].at = "quoted" /\ UNCHANGED cfg
      /\ calls[c] = Idle
  BY OwnCalls DEF IInv, acceptAndExecute, GInv, HandlerInv
<1>1. GetTerms(c, j) \/ UNCHANGED lcpdVars
  BY DEF acceptAndExecute
<1>2. [Next]_vars
  <2>1. CASE GetTerms(c, j)
    <3>1. j \in Jobs
      BY <1>0, <2>1 DEF GetTerms, TypeOK, IsMap
    <3> QED
      BY <1>0, <2>1, <3>1 DEF Next, CallStep
  <2> QED
    BY <1>1, <2>1 DEF lcpdVars, vars
<1>3. UNCHANGED payments
  BY <1>1 DEF GetTerms, lcpdVars
<1>4. CASE UNCHANGED calls
  <2>1. Becomes(h, ExecuteError(h, "FailedPrecondition"))
    BY <1>0, <1>4 DEF acceptAndExecute, Becomes
  <2>2. HandlerRunsOn(h)
    BY <2>1, ExecuteErrorRunsOn, Errs
  <2> QED
    BY <1>0, <1>2, <1>3, <1>4, <2>1, <2>2, HandlerMoves, CallsSame, PaymentsSame, RunsOn
<1>5. CASE calls' = [calls EXCEPT ![c] =
                 [at |-> "accepted", job |-> j, terms |-> store[j].terms]]
  <2>1. calls'[c].at = "accepted"
    BY <1>0, <1>5 DEF TypeOK
  <2>2. calls'[c] # Idle
    BY <2>1 DEF Idle
  <2>3. Becomes(h, [web[h] EXCEPT !.at = "executing"])
    BY <2>2 DEF acceptAndExecute, Becomes
  <2> QED
    BY <1>0, <1>2, <1>3, <1>5, <2>3, TakesUp
<1> QED
  BY <1>1, <1>4, <1>5 DEF GetTerms, lcpdVars

\* A quote arrives in time.
LEMMA QuoteStep ==
    ASSUME IInv, GInv, cfg \in Configs, NEW h \in Requests, NEW j \in Jobs,
           NEW invoice \in Offers, NEW price \in Prices,
           requestQuoteAndValidatePrice(h, j, invoice, price)
    PROVE  GInv' /\ [Next]_vars
<1> DEFINE w == web[h]
           v == web'[h]
<1>0. /\ w.at = "routed" /\ RequestQuote(j, invoice) /\ UNCHANGED cfg
      /\ UNCHANGED <<calls, payments>>
  BY DEF requestQuoteAndValidatePrice, RequestQuote
<1>1. [Next]_vars
  BY <1>0 DEF Next
<1>2. /\ Shape(w) /\ w.job = NoJob /\ w.status = 0 /\ w.body = FALSE
      /\ calls[Execution(h)] = Idle
  BY <1>0, HandlerFacts DEF GInv, HandlerInv
<1>3. \A g \in Requests : g # h => web'[g] = web[g]
  BY DEF GInv, WebType, requestQuoteAndValidatePrice
<1> DEFINE quoted == [w EXCEPT !.at = "quoted", !.job = j, !.price = price]
<1>4. v = IF WithinLimit(price) THEN quoted
          ELSE [quoted EXCEPT !.at = "answered", !.status = 400]
  BY DEF GInv, WebType, requestQuoteAndValidatePrice
<1> HIDE DEF w, v
<1>5. /\ Shape(quoted) /\ quoted.at = "quoted" /\ quoted.job = j
      /\ quoted.price = price /\ quoted.status = 0 /\ quoted.body = FALSE
  BY <1>2 DEF Shape, Fields
<1> HIDE DEF quoted
<1>6. /\ Shape(v) /\ v.job = j /\ v.price = price /\ v.body = FALSE
      /\ v.status \in {0, 400} /\ v.at \in {"quoted", "answered"}
      /\ v.at = "quoted" => WithinLimit(price)
  <2>1. CASE WithinLimit(price)
    BY <1>4, <1>5, <2>1
  <2>2. CASE ~WithinLimit(price)
    <3>1. v = [quoted EXCEPT !.at = "answered", !.status = 400]
      BY <1>4, <2>2
    <3>2. Shape(v)
      BY <1>5, <3>1 DEF Shape
    <3>3. /\ v.job = quoted.job /\ v.price = quoted.price /\ v.body = quoted.body
          /\ v.status = 400 /\ v.at = "answered"
      BY <1>5, <3>1 DEF Shape, Fields
    <3> QED
      BY <1>5, <3>2, <3>3
  <2> QED
    BY <2>1, <2>2
<1>7. WebType'
  BY <1>3, <1>6 DEF GInv, WebType, requestQuoteAndValidatePrice, v
<1>8. WithinLimit(price) => Within(h)'
  BY <1>0, <1>6, GatewayAssumption DEF WithinLimit, Within, v
<1>9. HandlerInv'
  <2> SUFFICES ASSUME NEW g \in Requests
               PROVE  HandlerInv!(g)'
    BY DEF HandlerInv
  <2>1. HandlerInv!(g)
    BY DEF GInv, HandlerInv
  <2>2. CASE g # h
    BY <1>0, <1>3, <2>1, <2>2 DEF Within
  <2>3. CASE g = h
    <3>1. Idle.at \notin Places
      BY DEF Idle, Places
    <3> QED
      BY <1>0, <1>2, <1>6, <1>8, <2>1, <2>3, <3>1 DEF v
  <2> QED
    BY <2>2, <2>3
<1>10. PaidWithinLimit'
  <2> SUFFICES ASSUME NEW i \in Jobs, payments[i].status # "none"
               PROVE  \E g \in Requests : web'[g].job = i /\ Within(g)'
    BY <1>0 DEF PaidWithinLimit, Within
  <2>1. PICK g \in Requests : web[g].job = i /\ Within(g)
    BY DEF GInv, PaidWithinLimit, Within
  <2>2. g # h
    BY <1>2, <2>1, GatewayAssumption DEF w
  <2> QED
    BY <1>0, <1>3, <2>1, <2>2 DEF Within
<1>11. OkMeansPaid'
  BY <1>0, <1>3, <1>6 DEF GInv, OkMeansPaid, v
<1> QED
  BY <1>1, <1>7, <1>9, <1>10, <1>11 DEF GInv
-----------------------------------------------------------------------------
LEMMA InitGInv ==
    ASSUME GatewayInit
    PROVE  GInv
<1>1. PICK stream \in [Requests -> BOOLEAN] :
          web = [h \in Requests |-> NewRequest(stream[h])]
  BY DEF GatewayInit
<1>2. \A h \in Requests : web[h] = NewRequest(stream[h])
  BY <1>1
<1>3. \A h \in Requests :
          /\ Shape(web[h]) /\ web[h].at = "new" /\ web[h].job = NoJob
          /\ web[h].status = 0 /\ web[h].body = FALSE
  <2> SUFFICES ASSUME NEW h \in Requests
               PROVE  <1>3!(h)
    OBVIOUS
  <2> DEFINE w == web[h]
  <2>1. w = NewRequest(stream[h])
    BY <1>2
  <2> HIDE DEF w
  <2>2. /\ Shape(w) /\ w.at = "new" /\ w.job = NoJob /\ w.status = 0 /\ w.body = FALSE
    BY <2>1 DEF NewRequest, Shape, Fields
  <2> QED
    BY <2>2 DEF w
<1>4. \A c \in Calls : calls[c] = Idle
  BY DEF GatewayInit, Init
<1>5. Idle.at \notin Places /\ Idle.at # "cancel"
  BY DEF Idle, Places
<1>6. \A j \in Jobs : payments[j].status = "none"
  BY DEF GatewayInit, Init
<1>7. WebType
  BY <1>1, <1>3 DEF WebType
<1>8. HandlerInv
  BY <1>3, <1>4, <1>5, OwnCalls DEF HandlerInv
<1> QED
  BY <1>3, <1>6, <1>7, <1>8 DEF GInv, PaidWithinLimit, OkMeansPaid

\* Every step of the gateway is one of lcpd, or none, and preserves the
\* invariants.
LEMMA GatewayStep ==
    ASSUME IInv, GInv, cfg \in Configs, [GatewayNext]_gatewayVars
    PROVE  [Next]_vars /\ IInv' /\ GInv' /\ cfg' \in Configs
<1>1. GInv' /\ [Next]_vars
  <2>1. CASE UNCHANGED gatewayVars
    <3>1. UNCHANGED <<vars, calls, payments, cfg, web>>
      BY <2>1 DEF gatewayVars, lcpdVars, vars
    <3> QED
      BY <3>1, HandlersSame, CallsSame, PaymentsSame, RunsOn
  <2>2. CASE Elsewhere
    BY <2>2, ElsewhereStep
  <2>3. CASE Exit
    BY <2>3, ExitStep
  <2>4. ASSUME NEW h \in Requests,
               \/ StreamedResult(h) \/ writeStreamChunk(h) \/ CallRuns(h)
               \/ ExecuteReturns(h) \/ cancelJobAsync(h) \/ CancelReturns(h)
               \/ ClientLeaves(h)
        PROVE  GInv' /\ [Next]_vars
    BY <2>4, StreamStep, CallRunsStep, ReturnStep, CancelStep
  <2>5. ASSUME NEW h \in Requests, Handler(h)
        PROVE  GInv' /\ [Next]_vars
    BY <2>5, RestStep, QuoteStep, ExecuteStep DEF Handler
  <2> QED
    BY <2>1, <2>2, <2>3, <2>4, <2>5 DEF GatewayNext
<1>2. IInv'
  BY <1>1, NextIInv
<1>3. cfg' = cfg
  <2>1. ASSUME NEW h \in Requests, Handler(h)
        PROVE  cfg' = cfg
    BY <2>1, Zenon
       DEF Handler, Reject, resolvePeerForTaskKindAndModel,
           requestQuoteAndValidatePrice, QuoteError, acceptAndExecute, ContextDone
  <2>2. ASSUME NEW h \in Requests, StreamedResult(h) \/ writeStreamChunk(h)
        PROVE  cfg' = cfg
    BY <2>2, Zenon DEF StreamedResult, writeStreamChunk
  <2>3. ASSUME NEW h \in Requests,
               CallRuns(h) \/ ExecuteReturns(h) \/ cancelJobAsync(h)
               \/ CancelReturns(h) \/ ClientLeaves(h)
        PROVE  cfg' = cfg
    BY <2>3, Zenon
       DEF CallRuns, ExecuteReturns, cancelJobAsync, CancelReturns, ClientLeaves
  <2>4. CASE Elsewhere \/ Exit
    BY <2>4, Zenon DEF Elsewhere, Exit
  <2>5. CASE UNCHANGED gatewayVars
    BY <2>5 DEF gatewayVars
  <2> QED
    BY <2>1, <2>2, <2>3, <2>4, <2>5 DEF GatewayNext
<1> QED
  BY <1>1, <1>2, <1>3

LEMMA GatewayInvariant == GatewaySpec => [](IInv /\ GInv /\ cfg \in Configs)
<1>1. GatewayInit => IInv /\ GInv /\ cfg \in Configs
  BY InitGInv, InitIInv DEF GatewayInit
<1>2. IInv /\ GInv /\ cfg \in Configs /\ [GatewayNext]_gatewayVars
          => (IInv /\ GInv /\ cfg \in Configs)'
  BY GatewayStep
<1> QED
  BY <1>1, <1>2, PTL DEF GatewaySpec
-----------------------------------------------------------------------------
\* Behind the gateway lcpd runs as Requester says, whatever clients, timeouts
\* and the end of the process do: every theorem on Requester holds there.
THEOREM GatewayRunsRequester == GatewaySpec => Spec
<1>1. GatewayInit => Init
  BY DEF GatewayInit
<1>2. IInv /\ GInv /\ cfg \in Configs /\ [GatewayNext]_gatewayVars => [Next]_vars
  BY GatewayStep
<1> QED
  BY <1>1, <1>2, GatewayInvariant, PTL DEF GatewaySpec, Spec

\* Nothing is paid for a client above the limit of the operator
\* (requestQuoteAndValidatePrice).
THEOREM LimitHonoured == GatewaySpec => []PaidWithinLimit
<1>1. GInv => PaidWithinLimit
  BY DEF GInv
<1> QED
  BY <1>1, GatewayInvariant, PTL

\* No client is told 200 for a job that is not paid (validateResult,
\* writeStreamChunk).
THEOREM OkIsPaid == GatewaySpec => []OkMeansPaid
<1>1. GInv => OkMeansPaid
  BY DEF GInv
<1> QED
  BY <1>1, GatewayInvariant, PTL

\* The gateway and lcpd together keep the promise of a sale.
THEOREM GatewayImplementsSale == GatewaySpec => ImplementsSale
  BY GatewayRunsRequester, RequesterImplementsSale, PTL
=============================================================================
