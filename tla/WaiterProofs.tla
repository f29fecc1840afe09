---------------------------- MODULE WaiterProofs ----------------------------
(***************************************************************************)
(* What the waiter hands out, keeps and drops, and that it does not block  *)
(* who reads the messages, for any number of streams, callers and chunks.  *)
(***************************************************************************)
EXTENDS Waiter, SequenceTheorems, TLAPS

Fields == {"quoteOutcome", "quoteDelivered", "quoteCh", "resultOutcome",
           "resultDelivered", "resultCh", "resultStreamSub", "resultStream",
           "terminalResult"}

\* e has the fields of an entry.
Shape(e) == e = [f \in Fields |-> e[f]]

\* A stream holds its own chunks, in order and from the first.
StreamOK(st) ==
    \E s \in Streams, n \in 0..MaxLen, done \in BOOLEAN :
        st = [streamID |-> s, buf |-> Bytes(s, n), done |-> done]

\* An outcome that is known.
Known(out) == out \in QuoteOutcomes \cup ResultOutcomes /\ Vouched(out)

\* The fields of an entry have their types.
FieldsOK(e) ==
    /\ e.quoteOutcome \in QuoteOutcomes \cup {None}
    /\ e.quoteDelivered \in BOOLEAN
    /\ e.quoteCh \in {Quote, None}
    /\ e.resultOutcome \in ResultOutcomes \cup {None}
    /\ Vouched(e.resultOutcome)
    /\ e.resultDelivered \in BOOLEAN
    /\ e.resultCh \in Callers \cup {None}
    /\ e.resultStreamSub \in Callers \cup {None}
    /\ e.resultStream = None \/ StreamOK(e.resultStream)
    /\ e.terminalResult \in Messages \cup {None}

Good(e) == Shape(e) /\ FieldsOK(e)

\* Nobody needs the entry any more.
Dead(e) ==
    /\ e.resultStreamSub = None
    /\ e.quoteCh = None
    /\ e.resultCh = None
    /\ e.quoteDelivered
    /\ e.resultDelivered

Post(p) == \E c, out : c \in AllCallers /\ Known(out) /\ p = [to |-> c, out |-> out]

\* Where the inbound goroutine can be.
InboundOK(i) ==
    \/ i = Idle
    \/ \E buf \in Buffers, bytes \in Buffers :
           i = [at |-> "validate", buf |-> buf, bytes |-> bytes]
    \/ \E res \in Messages, buf \in Buffers : i = Trying(res, buf)
    \/ \E p : Post(p) /\ i = [at |-> "send", todo |-> <<p>>]
    \/ \E p, q : Post(p) /\ Post(q) /\ i = [at |-> "send", todo |-> <<p, q>>]
    \/ \E c \in Callers : i = [at |-> "publish", sub |-> c]

EntryOK == entry # None => Good(entry) /\ ~Dead(entry)

CallsOK ==
    /\ call \in [AllCallers ->
           {"idle", "subscribed", "waiting", "quoted", "returned"}]
    /\ ch = [c \in AllCallers |-> ch[c]]
    /\ \A c \in AllCallers : ch[c] = None \/ Known(ch[c])

Subscriber == IF entry = None THEN None ELSE entry.resultStreamSub

\* The entry names the subscription that is open, and events go to one that
\* exists.
SubsOK ==
    /\ subs \in [Callers -> Subscriptions \cup {None}]
    /\ \A c \in Callers : subs[c] # None /\ subs[c].open => Subscriber = c
    /\ Subscriber # None => subs[Subscriber] # None
    /\ inbound.at = "publish" => subs[inbound.sub] # None

\* The inductive invariant.
IInv == EntryOK /\ InboundOK(inbound) /\ CallsOK /\ SubsOK
-----------------------------------------------------------------------------
\* What setting a field does.
LEMMA SetField ==
    ASSUME NEW e, Shape(e), NEW f \in Fields, NEW v, NEW x, x = [e EXCEPT ![f] = v]
    PROVE  Shape(x) /\ x[f] = v /\ \A g \in Fields \ {f} : x[g] = e[g]
  BY DEF Shape

LEMMA FieldNames ==
    /\ "quoteOutcome" \in Fields /\ "quoteDelivered" \in Fields /\ "quoteCh" \in Fields
    /\ "resultOutcome" \in Fields /\ "resultDelivered" \in Fields /\ "resultCh" \in Fields
    /\ "resultStreamSub" \in Fields /\ "terminalResult" \in Fields
  BY DEF Fields

LEMMA StreamFields ==
    ASSUME NEW st, StreamOK(st) PROVE st \in StreamStates /\ st.buf \in Buffers
<1>1. PICK s \in Streams, n \in 0..MaxLen, done \in BOOLEAN :
          st = [streamID |-> s, buf |-> Bytes(s, n), done |-> done]
  BY DEF StreamOK
<1>2. Bytes(s, n) \in Buffers
  BY DEF Buffers
<1>3. st.streamID = s /\ st.buf = Bytes(s, n) /\ st.done = done
  BY <1>1
<1> QED BY <1>1, <1>2, <1>3 DEF StreamStates

LEMMA NewIsGood == Good(NewEntry) /\ ~Dead(NewEntry)
<1>1. Shape(NewEntry)
  BY DEF NewEntry, Shape, Fields
<1>2. FieldsOK(NewEntry)
  BY DEF NewEntry, FieldsOK, Vouched, IsOK
<1> QED BY <1>1, <1>2 DEF Good, Dead, NewEntry

\* A good entry is an entry, and is not None.
LEMMA GoodIsEntry == ASSUME NEW e, Good(e) PROVE e \in Entry /\ e # None
<1>1. e = [quoteOutcome |-> e.quoteOutcome, quoteDelivered |-> e.quoteDelivered,
           quoteCh |-> e.quoteCh, resultOutcome |-> e.resultOutcome,
           resultDelivered |-> e.resultDelivered, resultCh |-> e.resultCh,
           resultStreamSub |-> e.resultStreamSub, resultStream |-> e.resultStream,
           terminalResult |-> e.terminalResult]
  BY DEF Good, Shape, Fields
<1>2. e.resultStream \in StreamStates \cup {None}
  BY StreamFields DEF Good, FieldsOK
<1>3. e \in Entry
  BY <1>1, <1>2 DEF Good, FieldsOK, Entry
<1> QED BY <1>3, ValuesAssumption

LEMMA Ensured ==
    ASSUME EntryOK
    PROVE  /\ Good(ensureEntry) /\ ~Dead(ensureEntry)
           /\ entry # None => ensureEntry = entry
           /\ entry = None => ensureEntry = NewEntry
  BY NewIsGood DEF EntryOK, ensureEntry

\* An outcome that nobody has fetched is still there after the step.
Kept == Unfetched(entry) => entry' # None /\ entry'.resultOutcome # None

\* The entry becomes x, or goes when nobody needs it.
Becomes(x) == entry' = maybeCleanup(x) \/ (entry' = x /\ ~Dead(x))

LEMMA Cleaned ==
    ASSUME NEW x, Becomes(x)
    PROVE  (entry' = None /\ Dead(x)) \/ (entry' = x /\ ~Dead(x))
  BY DEF Becomes, maybeCleanup, Dead

LEMMA EntryMoves ==
    ASSUME EntryOK, NEW x, Good(x), Becomes(x),
           x.resultStreamSub = ensureEntry.resultStreamSub
    PROVE  /\ EntryOK' /\ Subscriber' = Subscriber
           /\ x.resultDelivered = ensureEntry.resultDelivered
              /\ x.resultOutcome \in ResultOutcomes \cup {ensureEntry.resultOutcome}
              => Kept
<1>1. (entry' = None /\ Dead(x)) \/ (entry' = x /\ ~Dead(x))
  BY Cleaned
<1>2. x # None
  BY GoodIsEntry
<1>3. EntryOK'
  BY <1>1 DEF EntryOK
<1>4. Subscriber' = x.resultStreamSub
  BY <1>1, <1>2 DEF Subscriber, Dead
<1>5. Subscriber = ensureEntry.resultStreamSub
  BY Ensured DEF Subscriber, NewEntry
<1>6. ASSUME x.resultDelivered = ensureEntry.resultDelivered,
             x.resultOutcome \in ResultOutcomes \cup {ensureEntry.resultOutcome}
      PROVE  Kept
  BY <1>1, <1>2, <1>6, Ensured, ValuesAssumption DEF Kept, Unfetched, Dead
<1> QED BY <1>3, <1>4, <1>5, <1>6

\* The entry stays as it is or is made.
LEMMA EntryStays ==
    ASSUME EntryOK, entry' = ensureEntry
    PROVE  EntryOK' /\ Subscriber' = Subscriber /\ Kept
<1>1. Becomes(ensureEntry)
  BY Ensured DEF Becomes
<1> QED BY <1>1, Ensured, EntryMoves

\* The inbound goroutine moves on.
LEMMA InboundMoves ==
    ASSUME IInv, EntryOK', Subscriber' = Subscriber, UNCHANGED <<call, ch, subs>>,
           InboundOK(inbound'),
           inbound'.at = "publish" => Subscriber # None /\ inbound'.sub = Subscriber
    PROVE  IInv'
<1>1. CallsOK'
  BY DEF IInv, CallsOK
<1>2. SubsOK'
  BY DEF IInv, SubsOK
<1> QED BY <1>1, <1>2 DEF IInv

LEMMA KnownOutcomes ==
    /\ Known(Response) /\ Known(Error)
    /\ Error \in ResultOutcomes /\ Vouched(Error)
  BY DEF Known, Response, Error, QuoteOutcomes, ResultOutcomes, Vouched, IsOK

\* What is sent, by no more than two messages.
LEMMA SendingOne ==
    ASSUME NEW c \in AllCallers \cup {None}, NEW out, Known(out)
    PROVE  /\ InboundOK(Sending(To(c, out)))
           /\ Sending(To(c, out)).at \in {"idle", "send"}
<1>1. CASE c = None
  BY <1>1 DEF Sending, To, InboundOK, Idle
<1>2. CASE c # None
  <2> DEFINE p == [to |-> c, out |-> out]
  <2>1. Post(p)
    BY <1>2 DEF Post
  <2>2. Sending(To(c, out)) = [at |-> "send", todo |-> <<p>>]
    BY <1>2 DEF Sending, To
  <2> HIDE DEF p
  <2> QED BY <2>1, <2>2 DEF InboundOK
<1> QED BY <1>1, <1>2

LEMMA Pair == ASSUME NEW p, NEW q PROVE <<p>> \o <<q>> = <<p, q>>
<1> DEFINE s == <<p>> \o <<q>>
           t == <<p, q>>
<1>1. <<p>> \in Seq({p, q}) /\ <<q>> \in Seq({p, q}) /\ t \in Seq({p, q})
  OBVIOUS
<1>2. Len(s) = 2 /\ s[1] = p /\ s[2] = q /\ s \in Seq({p, q})
  BY <1>1
<1>3. Len(t) = 2 /\ t[1] = p /\ t[2] = q
  OBVIOUS
<1> HIDE DEF s, t
<1>4. \A i \in 1..Len(s) : s[i] = t[i]
  BY <1>2, <1>3
<1>5. s = t
  BY <1>1, <1>2, <1>3, <1>4, SeqEqual
<1> QED BY <1>5 DEF s, t

LEMMA SendingTwo ==
    ASSUME NEW c \in AllCallers \cup {None}, NEW d \in AllCallers \cup {None},
           NEW out, Known(out)
    PROVE  /\ InboundOK(Sending(To(c, out) \o To(d, out)))
           /\ Sending(To(c, out) \o To(d, out)).at \in {"idle", "send"}
<1> DEFINE p == [to |-> c, out |-> out]
           q == [to |-> d, out |-> out]
<1>1. CASE c = None
  <2>1. To(c, out) \o To(d, out) = To(d, out)
    BY <1>1 DEF To
  <2> QED BY <2>1, SendingOne
<1>2. CASE c # None /\ d = None
  <2>1. To(c, out) \o To(d, out) = To(c, out)
    BY <1>2 DEF To
  <2> QED BY <2>1, SendingOne
<1>3. CASE c # None /\ d # None
  <2>1. Post(p) /\ Post(q)
    BY <1>3 DEF Post
  <2> HIDE DEF p, q
  <2>2. To(c, out) = <<p>> /\ To(d, out) = <<q>>
    BY <1>3 DEF To, p, q
  <2>3. To(c, out) \o To(d, out) = <<p, q>>
    BY <2>2, Pair
  <2>4. Sending(<<p, q>>) = [at |-> "send", todo |-> <<p, q>>]
    BY DEF Sending
  <2>5. InboundOK([at |-> "send", todo |-> <<p, q>>])
    BY <2>1 DEF InboundOK
  <2> QED BY <2>3, <2>4, <2>5
<1> QED BY <1>1, <1>2, <1>3
-----------------------------------------------------------------------------
\* The inbound goroutine.

LEMMA QuoteStep ==
    ASSUME IInv, deliverQuoteResponse, UNCHANGED <<call, ch, subs>>
    PROVE  IInv' /\ Kept
<1> DEFINE e == ensureEntry
           y == [e EXCEPT !.quoteOutcome = Response]
           x == [y EXCEPT !.quoteCh = None]
<1>0. Good(e)
  BY Ensured DEF IInv
<1>1. Shape(y) /\ y.quoteOutcome = Response
      /\ \A g \in Fields \ {"quoteOutcome"} : y[g] = e[g]
  BY <1>0, SetField DEF Good, Fields
<1> HIDE DEF y
<1>2. Shape(x) /\ x.quoteCh = None /\ \A g \in Fields \ {"quoteCh"} : x[g] = y[g]
  BY <1>1, FieldNames DEF Shape
<1>3. Good(x)
  BY <1>0, <1>1, <1>2 DEF Good, FieldsOK, Fields, QuoteOutcomes
<1>4. Becomes(x) /\ inbound' = Sending(To(e.quoteCh, Response))
  BY DEF deliverQuoteResponse, Becomes, y
<1>5. /\ x.resultStreamSub = e.resultStreamSub /\ x.resultDelivered = e.resultDelivered
      /\ x.resultOutcome = e.resultOutcome
  BY <1>1, <1>2 DEF Fields
<1> HIDE DEF x, y
<1>6. EntryOK' /\ Subscriber' = Subscriber /\ Kept
  BY <1>3, <1>4, <1>5, EntryMoves DEF IInv
<1>7. InboundOK(inbound') /\ inbound'.at # "publish"
  BY <1>0, <1>4, SendingOne, KnownOutcomes DEF Good, FieldsOK, AllCallers
<1> QED BY <1>6, <1>7, InboundMoves

LEMMA ResultStep ==
    ASSUME IInv, NEW out \in ResultOutcomes, Vouched(out), deliverResult(out),
           UNCHANGED <<call, ch, subs>>
    PROVE  IInv' /\ Kept
<1> DEFINE e == ensureEntry
           y == [e EXCEPT !.resultOutcome = out]
           x == [y EXCEPT !.resultCh = None]
<1>0. Good(e)
  BY Ensured DEF IInv
<1>1. Shape(y) /\ y.resultOutcome = out
      /\ \A g \in Fields \ {"resultOutcome"} : y[g] = e[g]
  BY <1>0, SetField DEF Good, Fields
<1> HIDE DEF y
<1>2. Shape(x) /\ x.resultCh = None /\ \A g \in Fields \ {"resultCh"} : x[g] = y[g]
  BY <1>1, FieldNames DEF Shape
<1>3. Good(x)
  BY <1>0, <1>1, <1>2 DEF Good, FieldsOK, Fields
<1>4. Becomes(x) /\ inbound' = Sending(To(e.resultCh, out))
  BY DEF deliverResult, Becomes, y
<1>5. /\ x.resultStreamSub = e.resultStreamSub /\ x.resultDelivered = e.resultDelivered
      /\ x.resultOutcome = out
  BY <1>1, <1>2 DEF Fields
<1> HIDE DEF x, y
<1>6. EntryOK' /\ Subscriber' = Subscriber /\ Kept
  BY <1>3, <1>4, <1>5, EntryMoves DEF IInv
<1>7. Known(out)
  BY DEF Known
<1>8. InboundOK(inbound') /\ inbound'.at # "publish"
  BY <1>0, <1>4, <1>7, SendingOne DEF Good, FieldsOK, AllCallers
<1> QED BY <1>6, <1>8, InboundMoves

LEMMA ErrorStep ==
    ASSUME IInv, deliverError, UNCHANGED <<call, ch, subs>>
    PROVE  IInv' /\ Kept
<1> DEFINE e == ensureEntry
           w == [e EXCEPT !.quoteOutcome = Error]
           v == [w EXCEPT !.quoteCh = None]
           y == [v EXCEPT !.resultOutcome = Error]
           x == [y EXCEPT !.resultCh = None]
<1>0. Good(e)
  BY Ensured DEF IInv
<1>1. Shape(w) /\ w.quoteOutcome = Error
      /\ \A g \in Fields \ {"quoteOutcome"} : w[g] = e[g]
  BY <1>0, SetField DEF Good, Fields
<1> HIDE DEF w
<1>2. Shape(v) /\ v.quoteCh = None /\ \A g \in Fields \ {"quoteCh"} : v[g] = w[g]
  BY <1>1, FieldNames DEF Shape
<1> HIDE DEF v
<1>3. Shape(y) /\ y.resultOutcome = Error
      /\ \A g \in Fields \ {"resultOutcome"} : y[g] = v[g]
  BY <1>2, FieldNames DEF Shape
<1> HIDE DEF y
<1>4. Shape(x) /\ x.resultCh = None /\ \A g \in Fields \ {"resultCh"} : x[g] = y[g]
  BY <1>3, FieldNames DEF Shape
<1>5. Becomes(x) /\ inbound' = Sending(To(e.quoteCh, Error) \o To(e.resultCh, Error))
  BY DEF deliverError, Becomes, w, v, y
<1> HIDE DEF x
<1>6. /\ x.quoteOutcome = Error /\ x.quoteCh = None
      /\ x.resultOutcome = Error /\ x.resultCh = None
      /\ \A g \in Fields \ {"quoteOutcome", "quoteCh", "resultOutcome", "resultCh"} :
             x[g] = e[g]
  BY <1>1, <1>2, <1>3, <1>4 DEF Fields
<1>7. Good(x)
  BY <1>0, <1>4, <1>6, KnownOutcomes DEF Good, FieldsOK, Fields, QuoteOutcomes
<1>8. x.resultStreamSub = e.resultStreamSub /\ x.resultDelivered = e.resultDelivered
  BY <1>6 DEF Fields
<1>9. EntryOK' /\ Subscriber' = Subscriber /\ Kept
  BY <1>5, <1>6, <1>7, <1>8, EntryMoves, KnownOutcomes DEF IInv
<1>10. InboundOK(inbound') /\ inbound'.at # "publish"
  <2>1. e.quoteCh \in AllCallers \cup {None} /\ e.resultCh \in AllCallers \cup {None}
    BY <1>0 DEF Good, FieldsOK, AllCallers
  <2> QED BY <1>5, <2>1, SendingTwo, KnownOutcomes
<1> QED BY <1>9, <1>10, InboundMoves

\* A message that only makes sure of the entry.
LEMMA Ignored ==
    ASSUME IInv, entry' = ensureEntry, InboundOK(inbound'), inbound'.at # "publish",
           UNCHANGED <<call, ch, subs>>
    PROVE  IInv' /\ Kept
  BY EntryStays, InboundMoves DEF IInv

\* The stream of the entry changes.
LEMMA StreamSet ==
    ASSUME IInv, NEW st, StreamOK(st), NEW x,
           x = [ensureEntry EXCEPT !.resultStream = st]
    PROVE  /\ Good(x) /\ ~Dead(x) /\ x.resultStreamSub = Subscriber
           /\ entry' = x => EntryOK' /\ Subscriber' = Subscriber /\ Kept
<1> DEFINE e == ensureEntry
<1>0. Good(e) /\ ~Dead(e)
  BY Ensured DEF IInv
<1>1. Shape(x) /\ x.resultStream = st
      /\ \A g \in Fields \ {"resultStream"} : x[g] = e[g]
  BY <1>0, SetField DEF Good, Fields
<1> HIDE DEF e
<1>2. Good(x)
  BY <1>0, <1>1 DEF Good, FieldsOK, Fields
<1>3. ~Dead(x)
  BY <1>0, <1>1 DEF Dead, Fields
<1>4. /\ x.resultStreamSub = e.resultStreamSub /\ x.resultDelivered = e.resultDelivered
      /\ x.resultOutcome = e.resultOutcome
  BY <1>1 DEF Fields
<1>5. e.resultStreamSub = Subscriber
  BY Ensured DEF e, IInv, Subscriber, NewEntry
<1>6. ASSUME entry' = x PROVE EntryOK' /\ Subscriber' = Subscriber /\ Kept
  <2>1. Becomes(x)
    BY <1>3, <1>6 DEF Becomes
  <2> QED BY <1>2, <1>4, <2>1, EntryMoves DEF e, IInv
<1> QED BY <1>2, <1>3, <1>4, <1>5, <1>6

LEMMA Published ==
    ASSUME IInv, NEW x, x.resultStreamSub = Subscriber
    PROVE  /\ InboundOK(Publishing(x))
           /\ Publishing(x).at = "publish" =>
                  Subscriber # None /\ Publishing(x).sub = Subscriber
<1>1. Subscriber \in Callers \cup {None}
  BY DEF IInv, EntryOK, Subscriber, Good, FieldsOK
<1> QED BY <1>1 DEF Publishing, InboundOK, Idle

LEMMA BeginStep ==
    ASSUME IInv, inbound = Idle, NEW s \in Streams, NEW acceptable \in BOOLEAN,
           handleStreamBegin(s, acceptable), UNCHANGED <<call, ch, subs>>
    PROVE  IInv' /\ Kept
<1> DEFINE x == [ensureEntry EXCEPT !.resultStream = NewStream(s)]
<1>1. CASE deliverError
  BY <1>1, ErrorStep
<1>2. CASE entry' = ensureEntry /\ inbound' = inbound
  BY <1>2, Ignored DEF InboundOK, Idle
<1>3. CASE entry' = x /\ inbound' = Publishing(x)
  <2>1. Bytes(s, 0) = <<>>
    BY DEF Bytes
  <2>2. StreamOK(NewStream(s))
    <3>1. 0 \in 0..MaxLen
      BY WaiterAssumption
    <3>2. NewStream(s) = [streamID |-> s, buf |-> Bytes(s, 0), done |-> FALSE]
      BY <2>1 DEF NewStream
    <3> QED BY <3>1, <3>2 DEF StreamOK
  <2> HIDE DEF x
  <2>3. x.resultStreamSub = Subscriber /\ EntryOK' /\ Subscriber' = Subscriber /\ Kept
    BY <1>3, <2>2, StreamSet DEF x
  <2> QED BY <1>3, <2>3, Published, InboundMoves
<1> QED BY <1>1, <1>2, <1>3 DEF handleStreamBegin

\* One more chunk of the stream in progress.
LEMMA Appended ==
    ASSUME NEW s \in Streams, NEW n \in Nat
    PROVE  Len(Bytes(s, n)) = n /\ Append(Bytes(s, n), <<s, n>>) = Bytes(s, n + 1)
<1>1. Bytes(s, n) \in Seq(Streams \X Nat) /\ Len(Bytes(s, n)) = n
  BY DEF Bytes
<1> QED BY <1>1 DEF Bytes

LEMMA ChunkStep ==
    ASSUME IInv, inbound = Idle, NEW s \in Streams, NEW seq \in 0..MaxLen,
           handleStreamChunk(s, seq), UNCHANGED <<call, ch, subs>>
    PROVE  IInv' /\ Kept
<1> DEFINE e == ensureEntry
           st == e.resultStream
           new == [st EXCEPT !.buf = Append(@, <<s, seq>>)]
           x == [e EXCEPT !.resultStream = new]
<1>1. CASE deliverError
  BY <1>1, ErrorStep
<1>2. CASE entry' = e /\ inbound' = inbound
  BY <1>2, Ignored DEF InboundOK, Idle
<1>3. CASE /\ InProgress(e, s) /\ seq = Len(st.buf) /\ Len(st.buf) # MaxLen
           /\ entry' = x /\ inbound' = Publishing(x)
  <2>1. StreamOK(st)
    BY <1>3, Ensured DEF IInv, Good, FieldsOK, InProgress
  <2>2. PICK n \in 0..MaxLen, done \in BOOLEAN :
            st = [streamID |-> s, buf |-> Bytes(s, n), done |-> done]
    BY <1>3, <2>1 DEF StreamOK, InProgress
  <2>3. seq = n /\ n + 1 \in 0..MaxLen
        /\ Append(Bytes(s, n), <<s, seq>>) = Bytes(s, n + 1)
    <3>1. n \in Nat /\ MaxLen \in Nat /\ st.buf = Bytes(s, n)
      BY <2>2, WaiterAssumption
    <3>2. Len(Bytes(s, n)) = n /\ Append(Bytes(s, n), <<s, n>>) = Bytes(s, n + 1)
      BY <3>1, Appended
    <3>3. seq = n /\ n # MaxLen
      BY <1>3, <3>1, <3>2
    <3> QED BY <3>1, <3>2, <3>3
  <2>4. new = [streamID |-> s, buf |-> Bytes(s, n + 1), done |-> done]
    <3> DEFINE more == Append(st.buf, <<s, seq>>)
    <3>1. new = [st EXCEPT !.buf = more] /\ more = Bytes(s, n + 1)
      BY <2>2, <2>3
    <3> HIDE DEF st, new, more
    <3> QED BY <2>2, <3>1
  <2>5. StreamOK(new)
    BY <2>3, <2>4 DEF StreamOK
  <2> HIDE DEF new, x
  <2>6. x.resultStreamSub = Subscriber /\ EntryOK' /\ Subscriber' = Subscriber /\ Kept
    BY <1>3, <2>5, StreamSet DEF x
  <2> QED BY <1>3, <2>6, Published, InboundMoves
<1>4. InProgress(e, s) => Len(st.buf) \in Nat
  <2> SUFFICES ASSUME InProgress(e, s) PROVE Len(st.buf) \in Nat
    OBVIOUS
  <2>1. StreamOK(st)
    BY Ensured DEF IInv, Good, FieldsOK, InProgress
  <2>2. PICK t \in Streams, n \in 0..MaxLen : st.buf = Bytes(t, n)
    BY <2>1 DEF StreamOK
  <2> QED BY <2>2, Appended
<1> QED BY <1>1, <1>2, <1>3, <1>4 DEF handleStreamChunk

LEMMA EndStep ==
    ASSUME IInv, inbound = Idle, NEW s \in Streams, NEW b \in Buffers,
           handleStreamEnd(s, b), UNCHANGED <<call, ch, subs>>
    PROVE  IInv' /\ Kept
<1> DEFINE e == ensureEntry
           st == e.resultStream
           yes == TRUE
           new == [st EXCEPT !.done = yes]
           x == [e EXCEPT !.resultStream = new]
<1>1. CASE entry' = e /\ inbound' = inbound
  BY <1>1, Ignored DEF InboundOK, Idle
<1>2. CASE /\ InProgress(e, s) /\ entry' = x
           /\ inbound' = [at |-> "validate", buf |-> st.buf, bytes |-> b]
  <2>1. StreamOK(st)
    BY <1>2, Ensured DEF IInv, Good, FieldsOK, InProgress
  <2>2. PICK n \in 0..MaxLen, done \in BOOLEAN :
            st = [streamID |-> s, buf |-> Bytes(s, n), done |-> done]
    BY <1>2, <2>1 DEF StreamOK, InProgress
  <2>3. new = [streamID |-> s, buf |-> Bytes(s, n), done |-> yes]
    <3> HIDE DEF st, yes
    <3> QED BY <2>2
  <2>4. StreamOK(new) /\ st.buf \in Buffers
    <3>1. yes \in BOOLEAN
      OBVIOUS
    <3> HIDE DEF new, yes
    <3> QED BY <2>1, <2>3, <3>1, StreamFields DEF StreamOK
  <2>5. InboundOK(inbound') /\ inbound'.at # "publish"
    BY <1>2, <2>4 DEF InboundOK
  <2> HIDE DEF new, x
  <2>6. EntryOK' /\ Subscriber' = Subscriber /\ Kept
    BY <1>2, <2>4, StreamSet DEF x
  <2> QED BY <2>5, <2>6, InboundMoves
<1> QED BY <1>1, <1>2 DEF handleStreamEnd

LEMMA EmptyBuffer == <<>> \in Buffers
<1>1. PICK s \in Streams : TRUE
  BY WaiterAssumption
<1>2. Bytes(s, 0) = <<>> /\ 0 \in 0..MaxLen
  BY WaiterAssumption DEF Bytes
<1> QED BY <1>2 DEF Buffers

LEMMA TerminalStep ==
    ASSUME IInv, inbound = Idle, NEW res \in Results,
           handleTerminalResult(res), UNCHANGED <<call, ch, subs>>
    PROVE  IInv' /\ Kept
<1> DEFINE e == ensureEntry
           st == e.resultStream
           x == [e EXCEPT !.terminalResult = res]
<1>1. CASE UNCHANGED <<entry, inbound>>
  BY <1>1 DEF IInv, EntryOK, CallsOK, SubsOK, Subscriber, Kept, Unfetched
<1>2. CASE /\ entry' = x
           /\ inbound' = IF res.status # "ok" THEN Trying(res, <<>>)
                         ELSE IF st # None /\ st.done
                              THEN Trying(res, st.buf) ELSE inbound
  <2>0. Good(e) /\ ~Dead(e) /\ res \in Messages
    BY Ensured, ValuesAssumption DEF IInv
  <2>1. st # None => st.buf \in Buffers
    BY <2>0, StreamFields DEF Good, FieldsOK
  <2>2. InboundOK(inbound') /\ inbound'.at # "publish"
    BY <1>2, <2>0, <2>1, EmptyBuffer DEF InboundOK, Trying, Idle
  <2>3. Shape(x) /\ x.terminalResult = res
        /\ \A g \in Fields \ {"terminalResult"} : x[g] = e[g]
    BY <2>0, SetField DEF Good, Fields
  <2> HIDE DEF x
  <2>4. Good(x)
    BY <2>0, <2>3 DEF Good, FieldsOK, Fields
  <2>5. Becomes(x)
    BY <1>2, <2>0, <2>3 DEF Becomes, Dead, Fields
  <2>6. /\ x.resultStreamSub = e.resultStreamSub /\ x.resultDelivered = e.resultDelivered
        /\ x.resultOutcome = e.resultOutcome
    BY <2>3 DEF Fields
  <2>7. EntryOK' /\ Subscriber' = Subscriber /\ Kept
    BY <2>4, <2>5, <2>6, EntryMoves DEF IInv
  <2> QED BY <2>2, <2>7, InboundMoves
<1> QED BY <1>1, <1>2 DEF handleTerminalResult

LEMMA MessageStep == ASSUME IInv, HandleInboundCustomMessage PROVE IInv' /\ Kept
  BY QuoteStep, ErrorStep, BeginStep, ChunkStep, EndStep, TerminalStep
     DEF HandleInboundCustomMessage

LEMMA ValidateStep == ASSUME IInv, ValidateStream PROVE IInv' /\ Kept
<1>0. UNCHANGED <<call, ch, subs>> /\ inbound.at = "validate"
  BY DEF ValidateStream
<1>1. CASE deliverError
  BY <1>0, <1>1, ErrorStep
<1>2. CASE /\ entry' = ensureEntry
           /\ inbound' = IF entry'.terminalResult = None THEN Idle
                         ELSE Trying(entry'.terminalResult, inbound.buf)
  <2>1. inbound.buf \in Buffers
    BY <1>0 DEF IInv, InboundOK, Idle, Trying
  <2>2. entry'.terminalResult \in Messages \cup {None}
    BY <1>2, Ensured DEF IInv, Good, FieldsOK
  <2>3. InboundOK(inbound') /\ inbound'.at # "publish"
    BY <1>2, <2>1, <2>2 DEF InboundOK, Idle, Trying
  <2> QED BY <1>0, <1>2, <2>3, Ignored
<1> QED BY <1>1, <1>2 DEF ValidateStream

LEMMA TryStep == ASSUME IInv, tryDeliverResult PROVE IInv' /\ Kept
<1>0. UNCHANGED <<call, ch, subs>> /\ inbound.at = "try"
  BY DEF tryDeliverResult
<1>1. CASE deliverError
  BY <1>0, <1>1, ErrorStep
<1>2. ASSUME ~(inbound.result.status = "ok"
                  /\ (inbound.result.bytes # inbound.buf \/ ~inbound.result.sameType)),
             deliverResult(Delivered(inbound.result, inbound.buf))
      PROVE  IInv' /\ Kept
  <2>1. PICK res \in Messages, buf \in Buffers : inbound = Trying(res, buf)
    BY <1>0 DEF IInv, InboundOK, Idle
  <2>2. inbound.result = res /\ inbound.buf = buf
    BY <2>1 DEF Trying
  <2> DEFINE out == Delivered(res, buf)
  <2>3. out \in ResultOutcomes
    BY DEF ResultOutcomes
  <2>4. Vouched(out)
    BY <1>2, <2>2 DEF Vouched, IsOK, Delivered
  <2>5. deliverResult(out)
    BY <1>2, <2>2
  <2> HIDE DEF out
  <2> QED BY <1>0, <2>3, <2>4, <2>5, ResultStep
<1> QED BY <1>1, <1>2 DEF tryDeliverResult

\* Nothing happens to the entry.
LEMMA EntrySame == ASSUME IInv, UNCHANGED entry PROVE EntryOK' /\ Kept /\ Subscriber' = Subscriber
  BY DEF IInv, EntryOK, Kept, Unfetched, Subscriber

LEMMA SendStep == ASSUME IInv, SendOutcome PROVE IInv' /\ Kept
<1>0. /\ inbound.at = "send" /\ UNCHANGED <<entry, call, subs>>
      /\ ch' = [ch EXCEPT ![Head(inbound.todo).to] = Head(inbound.todo).out]
      /\ inbound' = Sending(Tail(inbound.todo))
  BY DEF SendOutcome
<1>1. PICK p : /\ Post(p) /\ Head(inbound.todo) = p
               /\ \/ Tail(inbound.todo) = <<>>
                  \/ \E q : Post(q) /\ Tail(inbound.todo) = <<q>>
  <2>1. CASE \E p : Post(p) /\ inbound = [at |-> "send", todo |-> <<p>>]
    BY <2>1
  <2>2. CASE \E p, q : Post(p) /\ Post(q) /\ inbound = [at |-> "send", todo |-> <<p, q>>]
    <3>1. PICK p, q : Post(p) /\ Post(q) /\ inbound = [at |-> "send", todo |-> <<p, q>>]
      BY <2>2
    <3>2. Head(<<p, q>>) = p /\ Tail(<<p, q>>) = <<q>>
      OBVIOUS
    <3> QED BY <3>1, <3>2
  <2> QED BY <1>0, <2>1, <2>2 DEF IInv, InboundOK, Idle, Trying
<1>2. InboundOK(inbound') /\ inbound'.at # "publish"
  <2>1. CASE Tail(inbound.todo) = <<>>
    BY <1>0, <2>1 DEF Sending, InboundOK, Idle
  <2>2. CASE \E q : Post(q) /\ Tail(inbound.todo) = <<q>>
    <3>1. PICK q : Post(q) /\ Tail(inbound.todo) = <<q>>
      BY <2>2
    <3>2. Sending(<<q>>) = [at |-> "send", todo |-> <<q>>]
      BY DEF Sending
    <3>3. InboundOK([at |-> "send", todo |-> <<q>>])
      BY <3>1 DEF InboundOK
    <3>4. inbound' = [at |-> "send", todo |-> <<q>>]
      BY <1>0, <3>1, <3>2
    <3> QED BY <3>3, <3>4
  <2> QED BY <1>1, <2>1, <2>2
<1>3. PICK c, out : c \in AllCallers /\ Known(out) /\ p = [to |-> c, out |-> out]
  BY <1>1 DEF Post
<1>4. ch' = [ch EXCEPT ![c] = out]
  <2>1. Head(inbound.todo).to = c /\ Head(inbound.todo).out = out
    BY <1>1, <1>3
  <2> QED BY <1>0, <2>1
<1>5. CallsOK'
  BY <1>0, <1>3, <1>4 DEF IInv, CallsOK
<1>6. EntryOK' /\ Kept /\ Subscriber' = Subscriber
  BY <1>0, EntrySame
<1>7. SubsOK'
  BY <1>0, <1>2, <1>6 DEF IInv, SubsOK
<1> QED BY <1>2, <1>5, <1>6, <1>7 DEF IInv

\* An open subscription gains or loses an event.
LEMMA EventMoves ==
    ASSUME IInv, UNCHANGED <<entry, call, ch>>, NEW c \in Callers, subs[c] # None,
           NEW n \in 0..EventBuffer, subs' = [subs EXCEPT ![c].events = n],
           inbound' = inbound \/ inbound' = Idle
    PROVE  IInv' /\ Kept
<1>1. subs[c] \in Subscriptions
  BY DEF IInv, SubsOK
<1>2. subs'[c] = [open |-> subs[c].open, events |-> n] /\ subs'[c] \in Subscriptions
  BY <1>1 DEF IInv, SubsOK, Subscriptions
<1>3. subs'[c] # None /\ subs'[c].open = subs[c].open
  BY <1>2, ValuesAssumption
<1>4. \A d \in Callers : d # c => subs'[d] = subs[d]
  BY DEF IInv, SubsOK
<1>5. subs' \in [Callers -> Subscriptions \cup {None}]
  BY <1>2, <1>4 DEF IInv, SubsOK
<1>6. EntryOK' /\ Kept /\ Subscriber' = Subscriber
  BY EntrySame
<1>7. Subscriber \in Callers \cup {None}
  BY DEF IInv, EntryOK, Subscriber, Good, FieldsOK
<1>8. inbound.at = "publish" => inbound.sub \in Callers
  BY DEF IInv, InboundOK, Idle, Trying
<1>9. SubsOK'
  BY <1>3, <1>4, <1>5, <1>6, <1>7, <1>8 DEF IInv, SubsOK, Idle
<1>10. InboundOK(inbound') /\ CallsOK'
  BY DEF IInv, InboundOK, CallsOK
<1> QED BY <1>6, <1>9, <1>10 DEF IInv

LEMMA PublishStep == ASSUME IInv, publishResultStreamEvent PROVE IInv' /\ Kept
<1> DEFINE c == inbound.sub
<1>1. inbound.at = "publish" /\ inbound' = Idle /\ UNCHANGED <<entry, call, ch>>
  BY DEF publishResultStreamEvent
<1>2. c \in Callers /\ subs[c] # None
  BY <1>1 DEF IInv, InboundOK, SubsOK, Idle, Trying
<1>3. subs[c] \in Subscriptions
  BY <1>2 DEF IInv, SubsOK
<1>4. CASE subs[c].events < EventBuffer /\ subs' = [subs EXCEPT ![c].events = @ + 1]
  <2>1. subs[c].events + 1 \in 0..EventBuffer
    BY <1>3, <1>4, WaiterAssumption DEF Subscriptions
  <2>2. subs' = [subs EXCEPT ![c].events = subs[c].events + 1]
    BY <1>4
  <2> QED BY <1>1, <1>2, <2>1, <2>2, EventMoves
<1>5. CASE UNCHANGED subs
  <2>1. EntryOK' /\ Kept /\ Subscriber' = Subscriber
    BY <1>1, EntrySame
  <2> QED BY <1>1, <1>5, <2>1, InboundMoves DEF InboundOK, Idle
<1> QED BY <1>4, <1>5 DEF publishResultStreamEvent

LEMMA ReadStep ==
    ASSUME IInv, NEW c \in Callers, ReadEvent(c) PROVE IInv' /\ Kept
<1>1. subs[c] \in Subscriptions /\ subs[c] # None
  BY DEF IInv, SubsOK, ReadEvent
<1>2. subs[c].events - 1 \in 0..EventBuffer
  BY <1>1, WaiterAssumption DEF Subscriptions, ReadEvent
<1>3. subs' = [subs EXCEPT ![c].events = subs[c].events - 1]
      /\ UNCHANGED <<entry, inbound, call, ch>>
  BY DEF ReadEvent
<1> QED BY <1>1, <1>2, <1>3, EventMoves
-----------------------------------------------------------------------------
\* The calls.

\* A call moves on, perhaps after its channel was read.
LEMMA CallMoves ==
    ASSUME IInv, EntryOK', Subscriber' = Subscriber, UNCHANGED <<inbound, subs>>,
           NEW c \in AllCallers, NEW at \in {"quoted", "returned", "waiting"},
           call' = [call EXCEPT ![c] = at],
           ch' = ch \/ ch' = [ch EXCEPT ![c] = None]
    PROVE  IInv'
<1>1. CallsOK'
  BY DEF IInv, CallsOK
<1>2. SubsOK'
  BY DEF IInv, SubsOK
<1> QED BY <1>1, <1>2 DEF IInv

\* Return is a move of a call.
LEMMA Returns ==
    ASSUME NEW c, NEW out, Return(c, out)
    PROVE  \E at \in {"quoted", "returned", "waiting"} : call' = [call EXCEPT ![c] = at]
  BY DEF Return

\* The channel of an entry is set, or its outcome marked as delivered.
LEMMA ChannelSet ==
    ASSUME NEW e, Good(e), NEW c \in AllCallers, NEW to \in {c, None}
    PROVE  LET x == SetChannel(e, c, to)
           IN  /\ Good(x) /\ x.resultStreamSub = e.resultStreamSub
               /\ x.resultDelivered = e.resultDelivered
               /\ x.resultOutcome = e.resultOutcome
               /\ to # None => ~Dead(x)
<1> DEFINE x == SetChannel(e, c, to)
<1>1. CASE c = Quote
  <2>1. x = [e EXCEPT !.quoteCh = to]
    BY <1>1 DEF SetChannel
  <2> HIDE DEF x
  <2>2. Shape(x) /\ x.quoteCh = to /\ \A g \in Fields \ {"quoteCh"} : x[g] = e[g]
    BY <2>1, FieldNames DEF Good, Shape
  <2>3. Good(x)
    BY <1>1, <2>2 DEF Good, FieldsOK, Fields
  <2> QED BY <2>2, <2>3 DEF Dead, Fields, x
<1>2. CASE c # Quote
  <2>1. x = [e EXCEPT !.resultCh = to]
    BY <1>2 DEF SetChannel
  <2> HIDE DEF x
  <2>2. Shape(x) /\ x.resultCh = to /\ \A g \in Fields \ {"resultCh"} : x[g] = e[g]
    BY <2>1, FieldNames DEF Good, Shape
  <2>3. Good(x)
    BY <1>2, <2>2 DEF Good, FieldsOK, Fields, AllCallers
  <2> QED BY <2>2, <2>3 DEF Dead, Fields, x
<1> QED BY <1>1, <1>2

LEMMA Marked ==
    ASSUME NEW e, Good(e), NEW c \in AllCallers
    PROVE  LET x == markDelivered(e, c)
           IN  /\ Good(x) /\ x.resultStreamSub = e.resultStreamSub
               /\ x.resultOutcome = e.resultOutcome
               /\ c = Quote => x.resultDelivered = e.resultDelivered
<1> DEFINE x == markDelivered(e, c)
<1>1. CASE c = Quote
  <2>1. x = [e EXCEPT !.quoteDelivered = TRUE]
    BY <1>1 DEF markDelivered
  <2> HIDE DEF x
  <2>2. Shape(x) /\ x.quoteDelivered = TRUE
        /\ \A g \in Fields \ {"quoteDelivered"} : x[g] = e[g]
    BY <2>1, FieldNames DEF Good, Shape
  <2>3. Good(x)
    BY <2>2 DEF Good, FieldsOK, Fields
  <2> QED BY <2>2, <2>3 DEF Fields, x
<1>2. CASE c # Quote
  <2>1. x = [e EXCEPT !.resultDelivered = TRUE]
    BY <1>2 DEF markDelivered
  <2> HIDE DEF x
  <2>2. Shape(x) /\ x.resultDelivered = TRUE
        /\ \A g \in Fields \ {"resultDelivered"} : x[g] = e[g]
    BY <2>1, FieldNames DEF Good, Shape
  <2>3. Good(x)
    BY <2>2 DEF Good, FieldsOK, Fields
  <2> QED BY <1>2, <2>2, <2>3 DEF Fields, x
<1> QED BY <1>1, <1>2

LEMMA WaitStep ==
    ASSUME IInv, NEW c \in AllCallers, waitOutcome(c)
    PROVE  IInv' /\ (c = Quote => Kept)
<1> DEFINE e == ensureEntry
<1>0. UNCHANGED <<inbound, ch, subs>> /\ EntryOK /\ Good(e)
  BY Ensured DEF waitOutcome, IInv
<1>1. CASE entry' = maybeCleanup(markDelivered(e, c)) /\ Return(c, Outcome(e, c))
  <2> DEFINE x == markDelivered(e, c)
  <2>1. /\ Good(x) /\ x.resultStreamSub = e.resultStreamSub
        /\ x.resultOutcome = e.resultOutcome
        /\ c = Quote => x.resultDelivered = e.resultDelivered
    BY <1>0, Marked
  <2>2. Becomes(x)
    BY <1>1 DEF Becomes
  <2> HIDE DEF x
  <2>3. EntryOK' /\ Subscriber' = Subscriber /\ (c = Quote => Kept)
    BY <1>0, <2>1, <2>2, EntryMoves
  <2> QED BY <1>0, <1>1, <2>3, Returns, CallMoves
<1>2. CASE entry' = e /\ Return(c, None)
  <2>1. EntryOK' /\ Subscriber' = Subscriber /\ Kept
    BY <1>0, <1>2, EntryStays
  <2> QED BY <1>0, <1>2, <2>1, Returns, CallMoves
<1>3. CASE entry' = SetChannel(e, c, c) /\ call' = [call EXCEPT ![c] = "waiting"]
  <2> DEFINE x == SetChannel(e, c, c)
  <2>1. /\ Good(x) /\ x.resultStreamSub = e.resultStreamSub /\ ~Dead(x)
        /\ x.resultDelivered = e.resultDelivered /\ x.resultOutcome = e.resultOutcome
    BY <1>0, ChannelSet, WaiterAssumption DEF AllCallers
  <2>2. Becomes(x)
    BY <1>3, <2>1 DEF Becomes
  <2> HIDE DEF x
  <2>3. EntryOK' /\ Subscriber' = Subscriber /\ Kept
    BY <1>0, <2>1, <2>2, EntryMoves
  <2> QED BY <1>0, <1>3, <2>3, CallMoves
<1> QED BY <1>1, <1>2, <1>3 DEF waitOutcome

LEMMA ReceiveStep ==
    ASSUME IInv, NEW c \in AllCallers, ReceiveOutcome(c)
    PROVE  IInv' /\ (c = Quote => Kept)
<1>0. /\ UNCHANGED <<inbound, subs>> /\ EntryOK
      /\ Return(c, ch[c]) /\ ch' = [ch EXCEPT ![c] = None]
  BY DEF ReceiveOutcome, IInv
<1>1. CASE UNCHANGED entry
  BY <1>0, <1>1, EntrySame, Returns, CallMoves
<1>2. CASE entry # None /\ entry' = maybeCleanup(markDelivered(entry, c))
  <2> DEFINE x == markDelivered(entry, c)
  <2>0. Good(entry) /\ ensureEntry = entry
    BY <1>0, <1>2, Ensured
  <2>1. /\ Good(x) /\ x.resultStreamSub = entry.resultStreamSub
        /\ x.resultOutcome = entry.resultOutcome
        /\ c = Quote => x.resultDelivered = entry.resultDelivered
    BY <2>0, Marked
  <2>2. Becomes(x)
    BY <1>2 DEF Becomes
  <2> HIDE DEF x
  <2>3. EntryOK' /\ Subscriber' = Subscriber /\ (c = Quote => Kept)
    BY <1>0, <2>0, <2>1, <2>2, EntryMoves
  <2> QED BY <1>0, <2>3, Returns, CallMoves
<1> QED BY <1>1, <1>2 DEF ReceiveOutcome

LEMMA CancelStep ==
    ASSUME IInv, NEW c \in AllCallers, WaitCancelled(c) PROVE IInv' /\ Kept
<1>0. /\ UNCHANGED <<inbound, subs>> /\ EntryOK
      /\ Return(c, None) /\ ch' = [ch EXCEPT ![c] = None]
  BY DEF WaitCancelled, IInv
<1>1. CASE UNCHANGED entry
  BY <1>0, <1>1, EntrySame, Returns, CallMoves
<1>2. CASE entry # None /\ entry' = maybeCleanup(SetChannel(entry, c, None))
  <2> DEFINE x == SetChannel(entry, c, None)
  <2>0. Good(entry) /\ ensureEntry = entry
    BY <1>0, <1>2, Ensured
  <2>1. /\ Good(x) /\ x.resultStreamSub = entry.resultStreamSub
        /\ x.resultDelivered = entry.resultDelivered
        /\ x.resultOutcome = entry.resultOutcome
    BY <2>0, ChannelSet
  <2>2. Becomes(x)
    BY <1>2 DEF Becomes
  <2> HIDE DEF x
  <2>3. EntryOK' /\ Subscriber' = Subscriber /\ Kept
    BY <1>0, <2>0, <2>1, <2>2, EntryMoves
  <2> QED BY <1>0, <2>3, Returns, CallMoves
<1> QED BY <1>1, <1>2 DEF WaitCancelled

\* The subscriber of the entry is set.
LEMMA SubscriberSet ==
    ASSUME NEW e, Good(e), NEW c \in Callers \cup {None}
    PROVE  LET x == [e EXCEPT !.resultStreamSub = c]
           IN  /\ Good(x) /\ x.resultStreamSub = c
               /\ x.resultDelivered = e.resultDelivered
               /\ x.resultOutcome = e.resultOutcome
<1> DEFINE x == [e EXCEPT !["resultStreamSub"] = c]
<1>1. Shape(x) /\ x.resultStreamSub = c
      /\ \A g \in Fields \ {"resultStreamSub"} : x[g] = e[g]
  BY SetField DEF Good, Fields
<1> HIDE DEF x
<1>2. Good(x)
  BY <1>1 DEF Good, FieldsOK, Fields
<1> QED BY <1>1, <1>2 DEF Fields, x

LEMMA SubscriptionIsOne ==
    /\ None \notin Subscriptions
    /\ \A open \in BOOLEAN : [open |-> open, events |-> 0] \in Subscriptions
<1>1. 0 \in 0..EventBuffer
  BY WaiterAssumption
<1> QED BY <1>1, ValuesAssumption DEF Subscriptions

LEMMA SubscribeStep ==
    ASSUME IInv, NEW c \in Callers, SubscribeResultStream(c) PROVE IInv' /\ Kept
<1> DEFINE e == ensureEntry
<1>0. UNCHANGED <<inbound, ch>> /\ EntryOK /\ Good(e) /\ e.resultStreamSub = Subscriber
  BY Ensured DEF SubscribeResultStream, IInv, Subscriber, NewEntry
<1>1. CASE /\ entry' = e /\ UNCHANGED subs
           /\ call' = [call EXCEPT ![c] = "returned"]
  <2>1. EntryOK' /\ Subscriber' = Subscriber /\ Kept
    BY <1>0, <1>1, EntryStays
  <2> QED BY <1>0, <1>1, <2>1, CallMoves DEF AllCallers
<1>2. CASE /\ Subscriber = None
           /\ entry' = [e EXCEPT !.resultStreamSub = c]
           /\ subs' = [subs EXCEPT ![c] = [open |-> TRUE, events |-> 0]]
           /\ call' = [call EXCEPT ![c] = "subscribed"]
  <2> DEFINE x == [e EXCEPT !.resultStreamSub = c]
             new == [open |-> TRUE, events |-> 0]
  <2>1. /\ Good(x) /\ x.resultStreamSub = c
        /\ x.resultDelivered = e.resultDelivered /\ x.resultOutcome = e.resultOutcome
    BY <1>0, SubscriberSet
  <2>2. c # None
    BY WaiterAssumption
  <2>3. new \in Subscriptions /\ new # None /\ new.open
    BY SubscriptionIsOne
  <2>4. subs' = [subs EXCEPT ![c] = new] /\ entry' = x
    BY <1>2
  <2> HIDE DEF x, new
  <2>5. entry' # None /\ EntryOK' /\ Subscriber' = c
    BY <2>1, <2>2, <2>4, GoodIsEntry DEF EntryOK, Subscriber, Dead
  <2>6. Kept
    BY <1>0, <2>1, <2>4, <2>5, Ensured DEF Kept, Unfetched
  <2>7. \A d \in Callers : d # c => ~(subs[d] # None /\ subs[d].open)
    BY <1>2, WaiterAssumption DEF IInv, SubsOK
  <2>8. inbound.at = "publish" => inbound.sub \in Callers
    BY DEF IInv, InboundOK, Idle, Trying
  <2>9. SubsOK'
    BY <1>0, <2>3, <2>4, <2>5, <2>7, <2>8 DEF IInv, SubsOK
  <2>10. CallsOK'
    BY <1>0, <1>2 DEF IInv, CallsOK, AllCallers
  <2> QED BY <1>0, <2>5, <2>6, <2>9, <2>10 DEF IInv
<1> QED BY <1>0, <1>1, <1>2 DEF SubscribeResultStream

LEMMA UnsubscribeStep ==
    ASSUME IInv, NEW c \in Callers, unsubscribe(c) PROVE IInv' /\ Kept
<1> DEFINE x == [entry EXCEPT !.resultStreamSub = None]
           closed == [open |-> FALSE, events |-> 0]
<1>1. /\ UNCHANGED <<inbound, ch>> /\ entry' = maybeCleanup(x)
      /\ subs' = [subs EXCEPT ![c] = closed]
      /\ subs[c] # None /\ subs[c].open
      /\ call' = [call EXCEPT ![c] = IF @ = "subscribed" THEN "returned" ELSE @]
  BY DEF unsubscribe
<1>2. c # None /\ Subscriber = c /\ entry # None
  BY <1>1, WaiterAssumption DEF IInv, SubsOK, Subscriber
<1>3. Good(entry)
  BY <1>2 DEF IInv, EntryOK
<1>4. /\ Good(x) /\ x.resultStreamSub = None
      /\ x.resultDelivered = entry.resultDelivered /\ x.resultOutcome = entry.resultOutcome
  BY <1>3, SubscriberSet
<1>5. closed \in Subscriptions /\ closed # None /\ closed.open = FALSE
  BY SubscriptionIsOne
<1> HIDE DEF x, closed
<1>6. (entry' = None /\ Dead(x)) \/ (entry' = x /\ ~Dead(x))
  BY <1>1, Cleaned DEF Becomes
<1>7. EntryOK' /\ Subscriber' = None
  BY <1>4, <1>6 DEF EntryOK, Subscriber
<1>8. Kept
  BY <1>4, <1>6, GoodIsEntry DEF Kept, Unfetched, Dead
<1>9. inbound.at = "publish" => inbound.sub \in Callers
  BY DEF IInv, InboundOK, Idle, Trying
<1>10. SubsOK'
  BY <1>1, <1>2, <1>5, <1>7, <1>9 DEF IInv, SubsOK
<1>11. CallsOK'
  BY <1>1 DEF IInv, CallsOK, AllCallers
<1> QED BY <1>1, <1>7, <1>8, <1>10, <1>11 DEF IInv
-----------------------------------------------------------------------------
LEMMA InitIInv == Init => IInv
<1> SUFFICES ASSUME Init PROVE IInv
  OBVIOUS
<1>1. EntryOK /\ Subscriber = None
  BY DEF Init, EntryOK, Subscriber
<1>2. InboundOK(inbound) /\ inbound.at # "publish"
  BY DEF Init, InboundOK, Idle
<1>3. CallsOK
  BY DEF Init, CallsOK
<1>4. SubsOK
  BY <1>1, <1>2 DEF Init, SubsOK
<1> QED BY <1>1, <1>2, <1>3, <1>4 DEF IInv

\* Only a wait for the result drops an outcome.
LEMMA NextStep ==
    ASSUME IInv, [Next]_vars
    PROVE  /\ IInv'
           /\ Kept \/ \E c \in Callers : waitOutcome(c) \/ ReceiveOutcome(c)
<1>1. CASE UNCHANGED vars
  BY <1>1, EntrySame DEF vars, IInv, CallsOK, SubsOK
<1>2. CASE HandleInboundCustomMessage
  BY <1>2, MessageStep
<1>3. CASE InboundStep
  BY <1>3, ValidateStep, TryStep, SendStep, PublishStep DEF InboundStep
<1>4. ASSUME NEW c \in AllCallers, CallerStep(c)
      PROVE  /\ IInv'
             /\ Kept \/ \E d \in Callers : waitOutcome(d) \/ ReceiveOutcome(d)
  BY <1>4, WaitStep, ReceiveStep, CancelStep DEF CallerStep, AllCallers
<1>5. ASSUME NEW c \in Callers, StreamingStep(c) PROVE IInv' /\ Kept
  BY <1>5, SubscribeStep, UnsubscribeStep, ReadStep DEF StreamingStep
<1> QED BY <1>1, <1>2, <1>3, <1>4, <1>5 DEF Next

\* Everything the waiter relies on holds in every state.
THEOREM Invariance == Spec => []IInv
  BY InitIInv, NextStep, PTL DEF Spec

\* Every variable of the waiter keeps its type: buffers in particular are the
\* chunks of one stream, in order (handleStreamChunk).
THEOREM TypeCorrect == Spec => []TypeOK
<1>1. IInv => TypeOK
  <2> SUFFICES ASSUME IInv PROVE TypeOK
    OBVIOUS
  <2>1. entry \in Entry \cup {None}
    BY GoodIsEntry DEF IInv, EntryOK
  <2>2. \/ inbound = Idle
        \/ inbound.at = "validate" /\ {inbound.buf, inbound.bytes} \subseteq Buffers
        \/ inbound.at = "try" /\ inbound.result \in Messages /\ inbound.buf \in Buffers
        \/ inbound.at = "send" /\ Len(inbound.todo) \in 1..2
        \/ inbound.at = "publish" /\ inbound.sub \in Callers
    BY DEF IInv, InboundOK, Trying
  <2>3. ch \in [AllCallers -> QuoteOutcomes \cup ResultOutcomes \cup {None}]
    BY DEF IInv, CallsOK, Known
  <2> QED BY <2>1, <2>2, <2>3 DEF TypeOK, IInv, CallsOK, SubsOK
<1> QED BY <1>1, Invariance, PTL

\* Whatever the provider sends and however calls come and go, a result that
\* is handed out as ok carries the bytes its lcp_result vouches for
\* (tryDeliverResult).
THEOREM ResultsVouched == Spec => []ResultVouchedFor
<1>1. IInv => ResultVouchedFor
  <2> SUFFICES ASSUME IInv PROVE ResultVouchedFor
    OBVIOUS
  <2>1. \A c \in Callers : Vouched(ch[c])
    BY DEF IInv, CallsOK, Known, Vouched, IsOK, AllCallers
  <2>2. entry # None => Vouched(entry.resultOutcome)
    BY DEF IInv, EntryOK, Good, FieldsOK
  <2> QED BY <2>1, <2>2 DEF ResultVouchedFor
<1> QED BY <1>1, Invariance, PTL

\* No entry is left that is done with (maybeCleanupLocked).
THEOREM NoneDead == Spec => []NoDeadEntries
<1>1. IInv => NoDeadEntries
  BY DEF IInv, EntryOK, NoDeadEntries, maybeCleanup, Dead
<1> QED BY <1>1, Invariance, PTL

\* An outcome that no wait has returned is dropped only by the wait that
\* returns it (waitOutcome, maybeCleanupLocked).
THEOREM OutcomesKept == Spec => OutcomeKept
<1>1. IInv /\ [Next]_vars =>
          [(Unfetched(entry) /\ (entry' = None \/ entry'.resultOutcome = None))
              => \E c \in Callers : waitOutcome(c) \/ ReceiveOutcome(c)]_vars
  BY NextStep DEF Kept
<1> QED BY <1>1, Invariance, PTL DEF Spec, OutcomeKept
-----------------------------------------------------------------------------
(* The channels of the calls. *)

\* The entry holds the channel of the call c.
Registered(c) == entry # None /\ Channel(entry, c) = c

\* The inbound goroutine is about to send on the channel of the call c.
Posted(c) == inbound.at = "send" /\ \E i \in 1..Len(inbound.todo) : inbound.todo[i].to = c

Before(c) == call[c] \in {"idle", "subscribed"}

\* A channel is registered, about to be sent on, or holds its outcome, and
\* never two of these at a time: it is made by a wait, and a call waits once.
OnceInv ==
    /\ \A c \in AllCallers :
          /\ Registered(c) => ~Posted(c) /\ ch[c] = None /\ call[c] = "waiting"
          /\ Posted(c) => ch[c] = None
          /\ Before(c) => ~Registered(c) /\ ~Posted(c) /\ ch[c] = None
    /\ inbound.at = "send" /\ Len(inbound.todo) = 2 =>
          inbound.todo[1].to # inbound.todo[2].to

\* The channel that the inbound goroutine sends on next has room for it.
SendHasRoom == inbound.at = "send" => ch[Head(inbound.todo).to] = None

LEMMA CallersAreSome == ASSUME NEW c \in AllCallers PROVE c # None
  BY WaiterAssumption DEF AllCallers

\* The entry becomes x or goes.
MayBecome(x) == entry' \in {None, x}

LEMMA ChannelsOf ==
    ASSUME IInv, NEW x, MayBecome(x), NEW c \in AllCallers
    PROVE  /\ Registered(c) <=> Channel(ensureEntry, c) = c
           /\ Registered(c)' => Channel(x, c) = c
  BY Ensured, CallersAreSome DEF IInv, Registered, Channel, NewEntry, MayBecome

\* Setting a field that holds no channel.
LEMMA OtherField ==
    ASSUME IInv, NEW f \in Fields \ {"quoteCh", "resultCh"}, NEW v, NEW x,
           x = [ensureEntry EXCEPT ![f] = v]
    PROVE  x.quoteCh = ensureEntry.quoteCh /\ x.resultCh = ensureEntry.resultCh
<1>1. Shape(ensureEntry)
  BY Ensured DEF IInv, Good
<1>2. \A g \in Fields \ {f} : x[g] = ensureEntry[g]
  BY <1>1, SetField
<1> QED BY <1>2 DEF Fields

\* A step of the inbound goroutine: only a channel that is taken out of the
\* entry is to be sent on.
LEMMA InboundOnce ==
    ASSUME OnceInv, UNCHANGED <<call, ch>>,
           \A c \in AllCallers : Registered(c)' => Registered(c),
           \A c \in AllCallers : Posted(c)' => Posted(c) \/ (Registered(c) /\ ~Registered(c)'),
           inbound'.at = "send" /\ Len(inbound'.todo) = 2 =>
               inbound'.todo[1].to # inbound'.todo[2].to
    PROVE  OnceInv'
<1> SUFFICES ASSUME NEW c \in AllCallers
             PROVE  /\ Registered(c)' => ~Posted(c)' /\ ch'[c] = None /\ call'[c] = "waiting"
                    /\ Posted(c)' => ch'[c] = None
                    /\ Before(c)' => ~Registered(c)' /\ ~Posted(c)' /\ ch'[c] = None
  BY DEF OnceInv
<1>1. /\ Registered(c) => ~Posted(c) /\ ch[c] = None /\ call[c] = "waiting"
      /\ Posted(c) => ch[c] = None
      /\ Before(c) => ~Registered(c) /\ ~Posted(c) /\ ch[c] = None
      /\ Before(c)' = Before(c)
  BY DEF OnceInv, Before
<1> QED BY <1>1

\* A step that sends nothing and changes no channel.
LEMMA QuietOnce ==
    ASSUME IInv, OnceInv, UNCHANGED <<call, ch>>, NEW x, MayBecome(x),
           x.quoteCh = ensureEntry.quoteCh, x.resultCh = ensureEntry.resultCh,
           inbound' = inbound \/ inbound'.at # "send"
    PROVE  OnceInv'
<1>1. \A c \in AllCallers : Registered(c)' => Registered(c)
  BY ChannelsOf DEF Channel
<1>2. \A c \in AllCallers : Posted(c)' => Posted(c)
  BY DEF Posted
<1>3. inbound'.at = "send" /\ Len(inbound'.todo) = 2 =>
          inbound'.todo[1].to # inbound'.todo[2].to
  BY DEF OnceInv
<1> QED BY <1>1, <1>2, <1>3, InboundOnce

LEMMA PostedOne ==
    ASSUME NEW d \in AllCallers \cup {None}, NEW out, inbound' = Sending(To(d, out))
    PROVE  /\ \A c \in AllCallers : Posted(c)' => c = d
           /\ ~(inbound'.at = "send" /\ Len(inbound'.todo) = 2)
<1>1. CASE d = None
  BY <1>1 DEF Sending, To, Idle, Posted
<1>2. CASE d # None
  <2> DEFINE p == [to |-> d, out |-> out]
  <2>1. inbound' = [at |-> "send", todo |-> <<p>>]
    BY <1>2 DEF Sending, To
  <2>2. p.to = d
    OBVIOUS
  <2> HIDE DEF p
  <2>3. inbound'.todo = <<p>> /\ Len(inbound'.todo) = 1
    BY <2>1
  <2>4. \A i \in 1..Len(inbound'.todo) : inbound'.todo[i] = p
    BY <2>3
  <2> QED BY <2>2, <2>3, <2>4 DEF Posted
<1> QED BY <1>1, <1>2

LEMMA PostedTwo ==
    ASSUME NEW d \in {Quote, None}, NEW f \in Callers \cup {None}, NEW out,
           inbound' = Sending(To(d, out) \o To(f, out))
    PROVE  /\ \A c \in AllCallers : Posted(c)' => c \in {d, f}
           /\ inbound'.at = "send" /\ Len(inbound'.todo) = 2 =>
                  inbound'.todo[1].to # inbound'.todo[2].to
<1>1. CASE d = None
  <2>1. To(d, out) \o To(f, out) = To(f, out)
    BY <1>1 DEF To
  <2> QED BY <2>1, PostedOne DEF AllCallers
<1>2. CASE d # None /\ f = None
  <2>1. To(d, out) \o To(f, out) = To(d, out)
    BY <1>2 DEF To
  <2> QED BY <2>1, PostedOne DEF AllCallers
<1>3. CASE d # None /\ f # None
  <2> DEFINE p == [to |-> d, out |-> out]
             q == [to |-> f, out |-> out]
  <2>1. p.to = d /\ q.to = f /\ d # f
    BY <1>3, WaiterAssumption
  <2> HIDE DEF p, q
  <2>2. To(d, out) = <<p>> /\ To(f, out) = <<q>>
    BY <1>3 DEF To, p, q
  <2>3. To(d, out) \o To(f, out) = <<p, q>>
    BY <2>2, Pair
  <2>4. Sending(<<p, q>>) = [at |-> "send", todo |-> <<p, q>>]
    BY DEF Sending
  <2>5. inbound'.todo = <<p, q>>
    BY <2>3, <2>4
  <2>6. /\ inbound'.todo[1] = p /\ inbound'.todo[2] = q
        /\ \A i \in 1..Len(inbound'.todo) : inbound'.todo[i] \in {p, q}
    BY <2>5
  <2> QED BY <2>1, <2>6 DEF Posted
<1> QED BY <1>1, <1>2, <1>3

\* An outcome is sent on the channels that the entry held and holds no more.
LEMMA ResultOnce ==
    ASSUME IInv, OnceInv, NEW out, deliverResult(out), UNCHANGED <<call, ch>>
    PROVE  OnceInv'
<1> DEFINE e == ensureEntry
           x == [e EXCEPT !.resultOutcome = out, !.resultCh = None]
<1>1. x.resultCh = None /\ x.quoteCh = e.quoteCh /\ e.resultCh \in Callers \cup {None}
  BY Ensured DEF IInv, Good, Shape, Fields, FieldsOK
<1>2. MayBecome(x) /\ inbound' = Sending(To(e.resultCh, out))
  BY DEF deliverResult, maybeCleanup, MayBecome
<1> HIDE DEF x
<1>3. \A c \in AllCallers : /\ Registered(c) <=> Channel(e, c) = c
                            /\ Registered(c)' => Channel(x, c) = c
  BY <1>2, ChannelsOf
<1> HIDE DEF e
<1>4. /\ \A c \in AllCallers : Posted(c)' => c = e.resultCh
      /\ ~(inbound'.at = "send" /\ Len(inbound'.todo) = 2)
  BY <1>1, <1>2, PostedOne DEF AllCallers
<1>5. \A c \in AllCallers : Registered(c)' => Registered(c)
  BY <1>1, <1>3, CallersAreSome DEF Channel
<1>6. \A c \in AllCallers : Posted(c)' => Registered(c) /\ ~Registered(c)'
  BY <1>1, <1>3, <1>4, CallersAreSome, WaiterAssumption DEF Channel
<1> QED BY <1>4, <1>5, <1>6, InboundOnce

LEMMA QuoteOnce ==
    ASSUME IInv, OnceInv, deliverQuoteResponse, UNCHANGED <<call, ch>>
    PROVE  OnceInv'
<1> DEFINE e == ensureEntry
           x == [e EXCEPT !.quoteOutcome = Response, !.quoteCh = None]
<1>1. x.quoteCh = None /\ x.resultCh = e.resultCh /\ e.quoteCh \in {Quote, None}
      /\ e.resultCh \in Callers \cup {None}
  BY Ensured DEF IInv, Good, Shape, Fields, FieldsOK
<1>2. MayBecome(x) /\ inbound' = Sending(To(e.quoteCh, Response))
  BY DEF deliverQuoteResponse, maybeCleanup, MayBecome
<1> HIDE DEF x
<1>3. \A c \in AllCallers : /\ Registered(c) <=> Channel(e, c) = c
                            /\ Registered(c)' => Channel(x, c) = c
  BY <1>2, ChannelsOf
<1> HIDE DEF e
<1>4. /\ \A c \in AllCallers : Posted(c)' => c = e.quoteCh
      /\ ~(inbound'.at = "send" /\ Len(inbound'.todo) = 2)
  BY <1>1, <1>2, PostedOne DEF AllCallers
<1>5. \A c \in AllCallers : Registered(c)' => Registered(c)
  BY <1>1, <1>3, CallersAreSome DEF Channel
<1>6. \A c \in AllCallers : Posted(c)' => Registered(c) /\ ~Registered(c)'
  BY <1>1, <1>3, <1>4, CallersAreSome DEF Channel
<1> QED BY <1>4, <1>5, <1>6, InboundOnce

LEMMA ErrorOnce ==
    ASSUME IInv, OnceInv, deliverError, UNCHANGED <<call, ch>>
    PROVE  OnceInv'
<1> DEFINE e == ensureEntry
           x == [e EXCEPT !.quoteOutcome = Error, !.quoteCh = None,
                          !.resultOutcome = Error, !.resultCh = None]
<1>1. x.quoteCh = None /\ x.resultCh = None
      /\ e.quoteCh \in {Quote, None} /\ e.resultCh \in Callers \cup {None}
  BY Ensured DEF IInv, Good, Shape, Fields, FieldsOK
<1>2. MayBecome(x) /\ inbound' = Sending(To(e.quoteCh, Error) \o To(e.resultCh, Error))
  BY DEF deliverError, maybeCleanup, MayBecome
<1> HIDE DEF x
<1>3. \A c \in AllCallers : /\ Registered(c) <=> Channel(e, c) = c
                            /\ Registered(c)' => Channel(x, c) = c
  BY <1>2, ChannelsOf
<1> HIDE DEF e
<1>4. /\ \A c \in AllCallers : Posted(c)' => c \in {e.quoteCh, e.resultCh}
      /\ inbound'.at = "send" /\ Len(inbound'.todo) = 2 =>
             inbound'.todo[1].to # inbound'.todo[2].to
  BY <1>1, <1>2, PostedTwo
<1>5. \A c \in AllCallers : ~Registered(c)'
  BY <1>1, <1>3, CallersAreSome DEF Channel
<1>6. \A c \in AllCallers : Posted(c)' => Registered(c)
  BY <1>1, <1>3, <1>4, CallersAreSome, WaiterAssumption DEF Channel
<1> QED BY <1>4, <1>5, <1>6, InboundOnce

\* A field is set that holds no channel.
LEMMA FieldOnce ==
    ASSUME IInv, OnceInv, UNCHANGED <<call, ch>>,
           NEW f \in Fields \ {"quoteCh", "resultCh"}, NEW v,
           entry' = [ensureEntry EXCEPT ![f] = v],
           inbound' = inbound \/ inbound'.at # "send"
    PROVE  OnceInv'
<1> DEFINE x == [ensureEntry EXCEPT ![f] = v]
<1>1. x.quoteCh = ensureEntry.quoteCh /\ x.resultCh = ensureEntry.resultCh
  BY OtherField
<1>2. MayBecome(x)
  BY DEF MayBecome
<1> HIDE DEF x
<1> QED BY <1>1, <1>2, QuietOnce

LEMMA SameOnce ==
    ASSUME IInv, OnceInv, UNCHANGED <<call, ch>>, entry' \in {entry, ensureEntry},
           inbound' = inbound \/ inbound'.at # "send"
    PROVE  OnceInv'
<1>1. MayBecome(ensureEntry)
  BY DEF MayBecome, ensureEntry
<1> QED BY <1>1, QuietOnce

LEMMA MessageOnce == ASSUME IInv, OnceInv, HandleInboundCustomMessage PROVE OnceInv'
<1> DEFINE e == ensureEntry
<1>0. UNCHANGED <<call, ch>>
  BY DEF HandleInboundCustomMessage
<1>1. CASE deliverQuoteResponse
  BY <1>0, <1>1, QuoteOnce
<1>2. CASE deliverError
  BY <1>0, <1>2, ErrorOnce
<1>3. ASSUME NEW s, NEW acceptable, handleStreamBegin(s, acceptable) PROVE OnceInv'
  <2>1. CASE entry' = e /\ inbound' = inbound
    BY <1>0, <2>1, SameOnce
  <2> DEFINE st == NewStream(s)
             x == [e EXCEPT !.resultStream = st]
  <2>2. CASE entry' = x /\ inbound' = Publishing(x)
    <3> HIDE DEF st
    <3>1. inbound'.at # "send"
      BY <2>2 DEF Publishing, Idle
    <3> QED BY <1>0, <2>2, <3>1, FieldOnce DEF Fields
  <2> QED BY <1>2, <1>3, <2>1, <2>2 DEF handleStreamBegin
<1>4. ASSUME NEW s, NEW seq, handleStreamChunk(s, seq) PROVE OnceInv'
  <2>1. CASE entry' = e /\ inbound' = inbound
    BY <1>0, <2>1, SameOnce
  <2> DEFINE st == [e.resultStream EXCEPT !.buf = Append(@, <<s, seq>>)]
             x == [e EXCEPT !.resultStream = st]
  <2>2. CASE entry' = x /\ inbound' = Publishing(x)
    <3> HIDE DEF st
    <3>1. inbound'.at # "send"
      BY <2>2 DEF Publishing, Idle
    <3> QED BY <1>0, <2>2, <3>1, FieldOnce DEF Fields
  <2> QED BY <1>2, <1>4, <2>1, <2>2 DEF handleStreamChunk
<1>5. ASSUME NEW s, NEW b, handleStreamEnd(s, b) PROVE OnceInv'
  <2>1. CASE entry' = e /\ inbound' = inbound
    BY <1>0, <2>1, SameOnce
  <2> DEFINE st == [e.resultStream EXCEPT !.done = TRUE]
             x == [e EXCEPT !.resultStream = st]
  <2>2. CASE entry' = x /\ inbound'.at = "validate"
    <3> HIDE DEF st
    <3> QED BY <1>0, <2>2, FieldOnce DEF Fields
  <2> QED BY <1>5, <2>1, <2>2 DEF handleStreamEnd
<1>6. ASSUME NEW res, handleTerminalResult(res) PROVE OnceInv'
  <2>1. CASE UNCHANGED <<entry, inbound>>
    BY <1>0, <2>1, SameOnce
  <2>2. CASE /\ entry' = [e EXCEPT !.terminalResult = res]
             /\ inbound' = inbound \/ inbound'.at = "try"
    BY <1>0, <2>2, FieldOnce DEF Fields
  <2> QED BY <1>6, <2>1, <2>2 DEF handleTerminalResult, Trying
<1> QED BY <1>1, <1>2, <1>3, <1>4, <1>5, <1>6 DEF HandleInboundCustomMessage

LEMMA SendOnce == ASSUME IInv, OnceInv, SendOutcome PROVE OnceInv'
<1>0. /\ inbound.at = "send" /\ UNCHANGED <<entry, call>>
      /\ ch' = [ch EXCEPT ![Head(inbound.todo).to] = Head(inbound.todo).out]
      /\ inbound' = Sending(Tail(inbound.todo))
  BY DEF SendOutcome
<1>1. \A c \in AllCallers : Registered(c)' = Registered(c) /\ Before(c)' = Before(c)
  BY <1>0 DEF Registered, Before
<1>2. PICK d, out, rest :
          /\ d \in AllCallers
          /\ ch' = [ch EXCEPT ![d] = out] /\ Posted(d)
          /\ \/ rest = {} /\ inbound' = Idle
             \/ \E f, o :
                   /\ f \in AllCallers /\ rest = {f} /\ f # d /\ Posted(f)
                   /\ inbound' = [at |-> "send", todo |-> <<[to |-> f, out |-> o]>>]
  <2>1. CASE \E p : Post(p) /\ inbound = [at |-> "send", todo |-> <<p>>]
    <3>1. PICK p : Post(p) /\ inbound = [at |-> "send", todo |-> <<p>>]
      BY <2>1
    <3>2. PICK d, out : d \in AllCallers /\ p = [to |-> d, out |-> out]
      BY <3>1 DEF Post
    <3>3. p.to = d /\ p.out = out
      BY <3>2
    <3>4. inbound.todo = <<p>> /\ Head(<<p>>) = p /\ Tail(<<p>>) = <<>>
      BY <3>1
    <3>5. Len(<<p>>) = 1 /\ <<p>>[1] = p
      OBVIOUS
    <3>6. Posted(d)
      BY <1>0, <3>3, <3>4, <3>5 DEF Posted
    <3>7. inbound' = Idle /\ ch' = [ch EXCEPT ![d] = out]
      BY <1>0, <3>3, <3>4 DEF Sending
    <3> QED BY <3>2, <3>6, <3>7
  <2>2. CASE \E p, q : Post(p) /\ Post(q) /\ inbound = [at |-> "send", todo |-> <<p, q>>]
    <3>1. PICK p, q : Post(p) /\ Post(q) /\ inbound = [at |-> "send", todo |-> <<p, q>>]
      BY <2>2
    <3>2. PICK d, out : d \in AllCallers /\ p = [to |-> d, out |-> out]
      BY <3>1 DEF Post
    <3>3. PICK f, o : f \in AllCallers /\ q = [to |-> f, out |-> o]
      BY <3>1 DEF Post
    <3>4. p.to = d /\ p.out = out /\ q.to = f
      BY <3>2, <3>3
    <3>5. /\ inbound.todo = <<p, q>> /\ Head(<<p, q>>) = p /\ Tail(<<p, q>>) = <<q>>
          /\ Len(<<p, q>>) = 2 /\ <<p, q>>[1] = p /\ <<p, q>>[2] = q
      BY <3>1
    <3>6. Posted(d) /\ Posted(f)
      BY <1>0, <3>4, <3>5 DEF Posted
    <3>7. f # d
      BY <1>0, <3>4, <3>5 DEF OnceInv
    <3>8. Sending(<<q>>) = [at |-> "send", todo |-> <<q>>]
      BY DEF Sending
    <3>9. inbound' = [at |-> "send", todo |-> <<q>>] /\ ch' = [ch EXCEPT ![d] = out]
      BY <1>0, <3>4, <3>5, <3>8
    <3> QED BY <3>2, <3>3, <3>6, <3>7, <3>9
  <2>3. \/ \E p : Post(p) /\ inbound = [at |-> "send", todo |-> <<p>>]
        \/ \E p, q : Post(p) /\ Post(q) /\ inbound = [at |-> "send", todo |-> <<p, q>>]
    BY <1>0 DEF IInv, InboundOK, Idle, Trying
  <2> QED BY <2>1, <2>2, <2>3
<1>3. /\ \A c \in AllCallers : Posted(c)' => c \in rest
      /\ ~(inbound'.at = "send" /\ Len(inbound'.todo) = 2)
      /\ \A c \in rest : c # d /\ Posted(c)
  <2>1. CASE rest = {} /\ inbound' = Idle
    BY <2>1 DEF Posted, Idle
  <2>2. CASE \E f, o :
                /\ f \in AllCallers /\ rest = {f} /\ f # d /\ Posted(f)
                /\ inbound' = [at |-> "send", todo |-> <<[to |-> f, out |-> o]>>]
    <3>1. PICK f, o :
                /\ f \in AllCallers /\ rest = {f} /\ f # d /\ Posted(f)
                /\ inbound' = [at |-> "send", todo |-> <<[to |-> f, out |-> o]>>]
      BY <2>2
    <3>2. To(f, o) = <<[to |-> f, out |-> o]>>
      BY <3>1, CallersAreSome DEF To
    <3>3. inbound' = Sending(To(f, o))
      BY <3>1, <3>2 DEF Sending
    <3> QED BY <3>1, <3>3, PostedOne
  <2> QED BY <1>2, <2>1, <2>2
<1>4. \A c \in AllCallers : ch'[c] = IF c = d THEN out ELSE ch[c]
  BY <1>2 DEF IInv, CallsOK
<1>5. ASSUME NEW c \in AllCallers
      PROVE  /\ Registered(c)' => ~Posted(c)' /\ ch'[c] = None /\ call'[c] = "waiting"
             /\ Posted(c)' => ch'[c] = None
             /\ Before(c)' => ~Registered(c)' /\ ~Posted(c)' /\ ch'[c] = None
  <2>1. /\ Registered(c) => ~Posted(c) /\ ch[c] = None /\ call[c] = "waiting"
        /\ Posted(c) => ch[c] = None
        /\ Before(c) => ~Registered(c) /\ ~Posted(c) /\ ch[c] = None
    BY DEF OnceInv
  <2> QED BY <1>0, <1>1, <1>2, <1>3, <1>4, <2>1
<1> QED BY <1>3, <1>5 DEF OnceInv

\* A call moves on: it comes to wait, or is done.
LEMMA CallOnce ==
    ASSUME IInv, OnceInv, UNCHANGED inbound, NEW c \in AllCallers, NEW at,
           call' = [call EXCEPT ![c] = at], ch' = ch \/ ch' = [ch EXCEPT ![c] = None],
           at \in {"idle", "subscribed"} => Before(c),
           \A d \in AllCallers :
               Registered(d)' => \/ Registered(d) /\ d # c
                                 \/ d = c /\ Before(c) /\ at = "waiting"
    PROVE  OnceInv'
<1>1. \A d \in AllCallers : /\ call'[d] = IF d = c THEN at ELSE call[d]
                            /\ ch'[d] = ch[d] \/ ch'[d] = None
                            /\ Posted(d)' = Posted(d)
  BY DEF IInv, CallsOK, Posted
<1>2. ASSUME NEW d \in AllCallers
      PROVE  /\ Registered(d)' => ~Posted(d)' /\ ch'[d] = None /\ call'[d] = "waiting"
             /\ Posted(d)' => ch'[d] = None
             /\ Before(d)' => ~Registered(d)' /\ ~Posted(d)' /\ ch'[d] = None
  <2>1. /\ Registered(d) => ~Posted(d) /\ ch[d] = None /\ call[d] = "waiting"
        /\ Posted(d) => ch[d] = None
        /\ Before(d) => ~Registered(d) /\ ~Posted(d) /\ ch[d] = None
    BY DEF OnceInv
  <2> QED BY <1>1, <2>1 DEF Before
<1> QED BY <1>2 DEF OnceInv

LEMMA WaitOnce == ASSUME IInv, OnceInv, NEW c \in AllCallers, waitOutcome(c) PROVE OnceInv'
<1> DEFINE e == ensureEntry
<1>0. /\ UNCHANGED <<inbound, ch>> /\ Before(c) /\ ~Registered(c)
      /\ Good(e) /\ e = [f \in Fields |-> e[f]]
  BY Ensured DEF waitOutcome, MayWait, Before, OnceInv, IInv, Good, Shape
<1>1. CASE entry' = maybeCleanup(markDelivered(e, c)) /\ Return(c, Outcome(e, c))
  <2> DEFINE x == markDelivered(e, c)
  <2>1. x.quoteCh = e.quoteCh /\ x.resultCh = e.resultCh
    BY OtherField DEF markDelivered, Fields
  <2>2. MayBecome(x)
    BY <1>1 DEF MayBecome, maybeCleanup
  <2> HIDE DEF x
  <2>3. \A d \in AllCallers : Registered(d)' => Registered(d)
    BY <2>1, <2>2, ChannelsOf DEF Channel
  <2> QED BY <1>0, <1>1, <2>3, CallOnce DEF Return
<1>2. CASE entry' = e /\ Return(c, None)
  <2>1. MayBecome(e)
    BY <1>2 DEF MayBecome
  <2>2. \A d \in AllCallers : Registered(d)' => Registered(d)
    BY <2>1, ChannelsOf
  <2>3. \A d \in AllCallers : Registered(d)' => Registered(d) /\ d # c
    BY <1>0, <2>2
  <2>4. PICK at \in {"quoted", "returned", "waiting"} : call' = [call EXCEPT ![c] = at]
    BY <1>2, Returns
  <2> QED BY <1>0, <2>3, <2>4, CallOnce
<1>3. CASE /\ Channel(e, c) = None /\ entry' = SetChannel(e, c, c)
           /\ call' = [call EXCEPT ![c] = "waiting"]
  <2> DEFINE x == SetChannel(e, c, c)
  <2>1. /\ c = Quote => x.quoteCh = c /\ x.resultCh = e.resultCh
        /\ c # Quote => x.quoteCh = e.quoteCh /\ x.resultCh = c
    BY <1>0 DEF SetChannel, Fields
  <2>2. MayBecome(x)
    BY <1>3 DEF MayBecome
  <2> HIDE DEF x
  <2>3. \A d \in AllCallers : Registered(d)' => Registered(d) \/ d = c
    BY <2>1, <2>2, ChannelsOf DEF Channel
  <2> QED BY <1>0, <1>3, <2>3, CallOnce
<1> QED BY <1>1, <1>2, <1>3 DEF waitOutcome

LEMMA ReceiveOnce == ASSUME IInv, OnceInv, NEW c \in AllCallers, ReceiveOutcome(c) PROVE OnceInv'
<1>0. /\ UNCHANGED inbound /\ Return(c, ch[c]) /\ ch' = [ch EXCEPT ![c] = None]
      /\ ~Registered(c)
  BY DEF ReceiveOutcome, OnceInv
<1>1. \A d \in AllCallers : Registered(d)' => Registered(d)
  <2>1. CASE entry = None
    BY <2>1 DEF ReceiveOutcome, Registered
  <2>2. CASE entry # None
    <3> DEFINE x == markDelivered(entry, c)
    <3>1. ensureEntry = entry
      BY <2>2 DEF ensureEntry
    <3>2. x.quoteCh = entry.quoteCh /\ x.resultCh = entry.resultCh
      BY <3>1, OtherField DEF markDelivered, Fields
    <3>3. MayBecome(x)
      BY <2>2 DEF ReceiveOutcome, MayBecome, maybeCleanup
    <3> HIDE DEF x
    <3> QED BY <3>1, <3>2, <3>3, ChannelsOf DEF Channel
  <2> QED BY <2>1, <2>2
<1>2. \A d \in AllCallers : Registered(d)' => Registered(d) /\ d # c
  BY <1>0, <1>1
<1>3. PICK at \in {"quoted", "returned", "waiting"} : call' = [call EXCEPT ![c] = at]
  BY <1>0, Returns
<1> QED BY <1>0, <1>2, <1>3, CallOnce

\* A wait that is given up takes its channel out of the entry.
LEMMA CancelOnce == ASSUME IInv, OnceInv, NEW c \in AllCallers, WaitCancelled(c) PROVE OnceInv'
<1>0. UNCHANGED inbound /\ Return(c, None) /\ ch' = [ch EXCEPT ![c] = None]
  BY DEF WaitCancelled
<1>1. \A d \in AllCallers : Registered(d)' => Registered(d) /\ d # c
  <2>1. CASE ~(entry # None /\ Channel(entry, c) = c)
    <3>1. UNCHANGED entry
      BY <2>1 DEF WaitCancelled
    <3> QED BY <2>1, <3>1 DEF Registered
  <2>2. CASE entry # None /\ Channel(entry, c) = c
    <3> DEFINE x == SetChannel(entry, c, None)
    <3>1. ensureEntry = entry /\ entry = [f \in Fields |-> entry[f]]
          /\ entry.resultCh \in Callers \cup {None}
      BY <2>2 DEF ensureEntry, IInv, EntryOK, Good, Shape, FieldsOK
    <3>2. /\ c = Quote => x.quoteCh = None /\ x.resultCh = entry.resultCh
          /\ c # Quote => x.quoteCh = entry.quoteCh /\ x.resultCh = None
      BY <3>1 DEF SetChannel, Fields
    <3>3. MayBecome(x)
      BY <2>2 DEF WaitCancelled, MayBecome, maybeCleanup
    <3> HIDE DEF x
    <3> QED BY <2>2, <3>1, <3>2, <3>3, ChannelsOf, CallersAreSome DEF Channel
  <2> QED BY <2>1, <2>2
<1>2. \A d \in AllCallers : Registered(d)' => Registered(d) /\ d # c
  BY <1>0, <1>1
<1>3. PICK at \in {"quoted", "returned", "waiting"} : call' = [call EXCEPT ![c] = at]
  BY <1>0, Returns
<1> QED BY <1>0, <1>2, <1>3, CallOnce

LEMMA StreamingOnce == ASSUME IInv, OnceInv, NEW c \in Callers, StreamingStep(c) PROVE OnceInv'
<1> DEFINE e == ensureEntry
<1>0. c \in AllCallers
  BY DEF AllCallers
<1>1. CASE SubscribeResultStream(c)
  <2>0. UNCHANGED <<inbound, ch>> /\ Before(c)
    BY <1>1 DEF SubscribeResultStream, Before
  <2>1. ~Registered(c)
    BY <1>0, <2>0 DEF OnceInv
  <2> DEFINE x == [e EXCEPT !.resultStreamSub = c]
  <2>2. x.quoteCh = e.quoteCh /\ x.resultCh = e.resultCh
    BY OtherField DEF Fields
  <2>3. MayBecome(x) \/ MayBecome(e)
    BY <1>1 DEF SubscribeResultStream, MayBecome
  <2> HIDE DEF x
  <2>4. \A d \in AllCallers : Registered(d)' => Registered(d)
    BY <2>2, <2>3, ChannelsOf DEF Channel
  <2>5. ASSUME NEW at, call' = [call EXCEPT ![c] = at] PROVE OnceInv'
    <3>1. \A d \in AllCallers :
              Registered(d)' => \/ Registered(d) /\ d # c
                                \/ d = c /\ Before(c) /\ at = "waiting"
      BY <2>1, <2>4
    <3>2. at \in {"idle", "subscribed"} => Before(c)
      BY <2>0
    <3>3. ch' = ch \/ ch' = [ch EXCEPT ![c] = None]
      BY <2>0
    <3>4. UNCHANGED inbound
      BY <2>0
    <3> QED BY <1>0, <2>5, <3>1, <3>2, <3>3, <3>4, CallOnce
  <2> QED BY <1>1, <2>5 DEF SubscribeResultStream
<1>2. CASE unsubscribe(c)
  <2>1. /\ UNCHANGED <<inbound, ch>> /\ entry # None
        /\ call' = [call EXCEPT ![c] = IF @ = "subscribed" THEN "returned" ELSE @]
    BY <1>2, WaiterAssumption DEF unsubscribe, IInv, SubsOK, Subscriber
  <2> DEFINE x == [e EXCEPT !.resultStreamSub = None]
  <2>2. x.quoteCh = e.quoteCh /\ x.resultCh = e.resultCh
    BY OtherField DEF Fields
  <2>3. MayBecome(x)
    BY <1>2, <2>1 DEF unsubscribe, MayBecome, maybeCleanup, ensureEntry
  <2> HIDE DEF x
  <2>4. \A d \in AllCallers : Registered(d)' => Registered(d)
    BY <2>2, <2>3, ChannelsOf DEF Channel
  <2>5. CASE call[c] = "subscribed"
    <3>1. call' = [call EXCEPT ![c] = "returned"] /\ ~Registered(c)
      BY <1>0, <2>1, <2>5 DEF OnceInv, Before
    <3> QED BY <1>0, <2>1, <2>4, <3>1, CallOnce
  <2>6. CASE call[c] # "subscribed"
    <3>1. call' = call
      BY <1>0, <2>1, <2>6 DEF IInv, CallsOK
    <3>2. \A d \in AllCallers : Posted(d)' = Posted(d)
      BY <2>1 DEF Posted
    <3>3. inbound'.at = "send" /\ Len(inbound'.todo) = 2 =>
              inbound'.todo[1].to # inbound'.todo[2].to
      BY <2>1 DEF OnceInv
    <3> QED BY <2>1, <2>4, <3>1, <3>2, <3>3, InboundOnce
  <2> QED BY <2>5, <2>6
<1>3. CASE ReadEvent(c)
  BY <1>3, SameOnce DEF ReadEvent
<1> QED BY <1>1, <1>2, <1>3 DEF StreamingStep

LEMMA NextOnce == ASSUME IInv, OnceInv, [Next]_vars PROVE OnceInv'
<1>1. CASE HandleInboundCustomMessage
  BY <1>1, MessageOnce
<1>2. CASE ValidateStream
  <2>1. UNCHANGED <<call, ch>> /\ (deliverError \/ (entry' = ensureEntry /\ inbound'.at # "send"))
    BY <1>2 DEF ValidateStream, Trying, Idle
  <2> QED BY <2>1, ErrorOnce, SameOnce
<1>3. CASE tryDeliverResult
  BY <1>3, ErrorOnce, ResultOnce DEF tryDeliverResult
<1>4. CASE SendOutcome
  BY <1>4, SendOnce
<1>5. CASE publishResultStreamEvent
  <2>1. UNCHANGED <<entry, call, ch>> /\ inbound'.at # "send"
    BY <1>5 DEF publishResultStreamEvent, Idle
  <2> QED BY <2>1, SameOnce
<1>6. ASSUME NEW c \in AllCallers, CallerStep(c) PROVE OnceInv'
  BY <1>6, WaitOnce, ReceiveOnce, CancelOnce DEF CallerStep
<1>7. ASSUME NEW c \in Callers, StreamingStep(c) PROVE OnceInv'
  BY <1>7, StreamingOnce
<1>8. CASE UNCHANGED vars
  BY <1>8, SameOnce DEF vars
<1> QED BY <1>1, <1>2, <1>3, <1>4, <1>5, <1>6, <1>7, <1>8 DEF Next, InboundStep

\* Where InboundNotStuck asks which steps are enabled, their guards: the
\* goroutine that reads custom messages never waits at a channel that is full,
\* whoever gives up a wait while the outcome is on its way (waitOutcome,
\* deliverResult, deliverError), and its events go to a subscription that was
\* made, which has room, is closed, or can be closed by its call.
THEOREM InboundGoesOn ==
    Spec => [](/\ SendHasRoom
               /\ inbound.at = "publish" => subs[inbound.sub] # None)
<1>1. Init => OnceInv
  BY DEF Init, OnceInv, Registered, Posted, Idle
<1>2. IInv /\ OnceInv => SendHasRoom
  <2> SUFFICES ASSUME IInv, OnceInv, inbound.at = "send"
               PROVE  ch[Head(inbound.todo).to] = None
    BY DEF SendHasRoom
  <2>1. PICK p : Post(p) /\ Len(inbound.todo) \in 1..2 /\ inbound.todo[1] = p
                 /\ Head(inbound.todo) = p
    <3>1. CASE \E p : Post(p) /\ inbound = [at |-> "send", todo |-> <<p>>]
      BY <3>1
    <3>2. CASE \E p, q : Post(p) /\ Post(q) /\ inbound = [at |-> "send", todo |-> <<p, q>>]
      <4>1. PICK p, q : Post(p) /\ Post(q) /\ inbound = [at |-> "send", todo |-> <<p, q>>]
        BY <3>2
      <4>2. Head(<<p, q>>) = p /\ Len(<<p, q>>) = 2 /\ <<p, q>>[1] = p
        OBVIOUS
      <4> QED BY <4>1, <4>2
    <3>3. /\ InboundOK(inbound)
          /\ inbound # Idle
          /\ \A buf, bytes : inbound # [at |-> "validate", buf |-> buf, bytes |-> bytes]
          /\ \A res, buf : inbound # Trying(res, buf)
          /\ \A c : inbound # [at |-> "publish", sub |-> c]
      BY DEF IInv, Idle, Trying
    <3> QED BY Zenon, <3>1, <3>2, <3>3 DEF InboundOK
  <2>2. p.to \in AllCallers
    BY <2>1 DEF Post
  <2>3. Posted(p.to)
    BY <2>1 DEF Posted
  <2> QED BY <2>1, <2>2, <2>3 DEF OnceInv
<1>3. IInv => (inbound.at = "publish" => subs[inbound.sub] # None)
  BY DEF IInv, SubsOK
<1>4. IInv /\ OnceInv /\ [Next]_vars => OnceInv'
  BY NextOnce
<1> QED BY <1>1, <1>2, <1>3, <1>4, Invariance, PTL DEF Spec
=============================================================================
