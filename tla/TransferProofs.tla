--------------------------- MODULE TransferProofs ---------------------------
(***************************************************************************)
(* What a receiver accepts is the whole of the data, and every chunk fits  *)
(* what the receiver takes, for every length, every limit and any number   *)
(* of losses.                                                              *)
(***************************************************************************)
EXTENDS Transfer, NaturalsInduction, WellFoundedInduction, TLAPS

\* Every end and every lcp_result announces the length of the data; the begin
\* is the first message of all; and before it nothing has happened.
Announced ==
    /\ \A i \in 1..Len(net) :
          /\ net[i].type \in {"end", "result"} => net[i].total = job.length
          /\ net[i].type = "begin" => i = 1 /\ rcv.outcomes = {}
    /\ snd.pc = "start" => net = <<>> /\ rcv.outcomes = {}
    /\ snd.pc = "result" => snd.offset = job.length

\* A stream that was accepted is closed, so that no chunk is added to it.
Closed == "ok" \in rcv.outcomes => rcv.stream.status = "done"

IInv == TypeOK /\ Announced /\ AcceptedIsWhole /\ Closed

LEMMA InitIInv == Init => IInv
<1> SUFFICES ASSUME Init PROVE IInv
  OBVIOUS
<1>1. <<>> \in Seq(Messages) /\ Len(<<>>) = 0 /\ <<>> \in Seq(Nat)
  OBVIOUS
<1>2. TypeOK
  <2>1. job.kind \in Kinds /\ job.length \in Lengths /\ job.length \in Nat
    BY TransferAssumption DEF Init
  <2>2. /\ snd \in [pc : {"start", "chunks", "result", "sent", "refused", "reported", "failed"},
                    offset : Nat, seq : Nat, pending : Nat]
        /\ snd.offset + snd.pending <= job.length
    BY <2>1 DEF Init
  <2>3. NewStream("none", Unknown) \in Streams
    BY <1>1 DEF NewStream, Streams
  <2>4. /\ rcv \in [stream : Streams, terminal : Lengths \cup {Unknown},
                    outcomes : SUBSET {"ok", "failed", "error"}]
        /\ net \in Seq(Messages) /\ faults \in 0..MaxFaults
    BY <1>1, <2>3, TransferAssumption DEF Init
  <2> QED BY <2>1, <2>2, <2>4 DEF TypeOK
<1>3. Announced /\ AcceptedIsWhole /\ Closed
  BY <1>1 DEF Init, Announced, AcceptedIsWhole, Closed
<1> QED BY <1>2, <1>3 DEF IInv

\* The sender appends a message, or nothing, and the receiver waits.
LEMMA AppendStep ==
    ASSUME IInv, UNCHANGED <<job, rcv>>, faults' \in 0..MaxFaults,
           snd' \in [pc : {"start", "chunks", "result", "sent", "refused", "reported", "failed"},
                     offset : Nat, seq : Nat, pending : Nat],
           snd'.offset + snd'.pending <= job.length,
           snd'.pc # "start",
           snd'.pc = "result" => snd'.offset = job.length,
           NEW m \in Messages,
           net' = net \/ net' = Append(net, m),
           m.type \in {"end", "result"} => m.total = job.length,
           m.type = "begin" => snd.pc = "start"
    PROVE  IInv'
<1>1. net \in Seq(Messages)
  BY DEF IInv, TypeOK
<1>2. net' \in Seq(Messages)
  BY <1>1
<1>3. TypeOK'
  BY <1>2 DEF IInv, TypeOK
<1>4. ASSUME NEW i \in 1..Len(net')
      PROVE  /\ net'[i].type \in {"end", "result"} => net'[i].total = job.length
             /\ net'[i].type = "begin" => i = 1 /\ rcv.outcomes = {}
  <2>1. CASE i \in 1..Len(net) /\ net'[i] = net[i]
    BY <2>1 DEF IInv, Announced
  <2>2. CASE i = Len(net) + 1 /\ net'[i] = m
    <3>1. snd.pc = "start" => Len(net) = 0 /\ rcv.outcomes = {}
      BY DEF IInv, Announced
    <3> QED BY <2>2, <3>1, <1>1
  <2> QED BY <1>1, <2>1, <2>2
<1>5. Announced'
  BY <1>4 DEF Announced
<1>6. AcceptedIsWhole' /\ Closed'
  BY DEF IInv, AcceptedIsWhole, Closed
<1> QED BY <1>3, <1>5, <1>6 DEF IInv

\* Send, sendTerminalResultStatus and sendError as cases of it.
LEMMA SenderStep == ASSUME IInv, Sender \/ ReadFails \/ SendFails PROVE IInv'
<1> DEFINE Fail == [type |-> "failed"]
           Error == [type |-> "error"]
<1>1. Fail \in Messages /\ Error \in Messages
  BY DEF Messages
<1>2. /\ snd \in [pc : {"start", "chunks", "result", "sent", "refused", "reported", "failed"},
                  offset : Nat, seq : Nat, pending : Nat]
      /\ snd.offset + snd.pending <= job.length
      /\ job.length \in Lengths /\ job.length \in Nat /\ faults \in 0..MaxFaults
      /\ snd.pc = "result" => snd.offset = job.length
  BY TransferAssumption DEF IInv, TypeOK, Announced
<1>3. CASE SendBegin
  <2>1. /\ [type |-> "begin", total |-> Unknown] \in Messages
        /\ [type |-> "begin", total |-> job.length] \in Messages
    BY <1>2 DEF Messages
  <2>2. \E m \in Messages :
           /\ net' = net \/ net' = Append(net, m)
           /\ m.type \in {"begin", "failed"}
           /\ \E pc \in {"refused", "reported", "failed", "chunks"} :
                 snd' = [snd EXCEPT !.pc = pc]
    BY <1>1, <1>3, <2>1 DEF SendBegin, Send, Stop, sendTerminalResultStatus
  <2>3. snd.pc = "start" /\ UNCHANGED <<job, rcv, faults>>
    BY <1>3 DEF SendBegin
  <2> QED BY <1>2, <2>2, <2>3, AppendStep
<1>4. CASE ReadOutput
  <2>1. PICK n \in 1..(job.length - snd.offset) : snd' = [snd EXCEPT !.pending = n]
    BY <1>4 DEF ReadOutput
  <2>2. snd.pc = "chunks" /\ UNCHANGED <<job, rcv, net, faults>>
    BY <1>4 DEF ReadOutput
  <2>3. snd'.offset + snd'.pending <= job.length /\ snd'.pc = "chunks"
    BY <1>2, <2>1, <2>2
  <2> QED BY <1>1, <1>2, <2>1, <2>2, <2>3, AppendStep
<1>5. CASE SendChunk
  <2>1. PICK n \in 0..snd.pending :
           \/ /\ net' = net \/ net' = Append(net, Fail) \/ net' = Append(net, Error)
              /\ \E pc \in {"reported", "failed"} : snd' = [snd EXCEPT !.pc = pc]
           \/ /\ net' = Append(net, [type |-> "chunk", seq |-> snd.seq,
                                     from |-> snd.offset, len |-> n])
              /\ snd' = [snd EXCEPT !.offset = @ + n, !.seq = @ + 1, !.pending = @ - n]
    BY <1>5 DEF SendChunk, Send, Stop, sendError, sendTerminalResultStatus
  <2>2. snd.pc = "chunks" /\ UNCHANGED <<job, rcv, faults>>
    BY <1>5 DEF SendChunk
  <2>3. CASE /\ net' = net \/ net' = Append(net, Fail) \/ net' = Append(net, Error)
             /\ \E pc \in {"reported", "failed"} : snd' = [snd EXCEPT !.pc = pc]
    BY <1>1, <1>2, <2>2, <2>3, AppendStep
  <2>4. CASE /\ net' = Append(net, [type |-> "chunk", seq |-> snd.seq,
                                    from |-> snd.offset, len |-> n])
             /\ snd' = [snd EXCEPT !.offset = @ + n, !.seq = @ + 1, !.pending = @ - n]
    <3>1. [type |-> "chunk", seq |-> snd.seq, from |-> snd.offset, len |-> n] \in Messages
      BY <1>2 DEF Messages
    <3>2. /\ snd' \in [pc : {"start", "chunks", "result", "sent", "refused", "reported", "failed"},
                        offset : Nat, seq : Nat, pending : Nat]
          /\ snd'.offset + snd'.pending <= job.length /\ snd'.pc = "chunks"
      <4>1. /\ snd.offset + n \in Nat /\ snd.pending - n \in Nat /\ snd.seq + 1 \in Nat
            /\ (snd.offset + n) + (snd.pending - n) <= job.length
        BY <1>2
      <4>2. /\ snd'.offset = snd.offset + n /\ snd'.pending = snd.pending - n
            /\ snd'.seq = snd.seq + 1 /\ snd'.pc = "chunks"
        BY <1>2, <2>2, <2>4
      <4>3. snd' = [pc |-> "chunks", offset |-> snd.offset + n, seq |-> snd.seq + 1,
                    pending |-> snd.pending - n]
        BY <1>2, <2>2, <2>4
      <4> QED BY <4>1, <4>2, <4>3
    <3> QED BY <1>2, <2>2, <2>4, <3>1, <3>2, AppendStep
  <2> QED BY <2>1, <2>3, <2>4
<1>6. CASE SendEnd
  <2>1. [type |-> "end", total |-> snd.offset] \in Messages
    BY <1>2, <1>6 DEF SendEnd, Messages
  <2>2. \E m \in Messages :
           /\ net' = net \/ net' = Append(net, m)
           /\ m.type \in {"end", "error"} /\ (m.type = "end" => m.total = snd.offset)
           /\ \E pc \in {"reported", "failed", "sent", "result"} :
                 snd' = [snd EXCEPT !.pc = pc]
    BY <1>1, <1>6, <2>1 DEF SendEnd, Send, Stop, sendError
  <2>3. snd.pc = "chunks" /\ snd.offset = job.length /\ UNCHANGED <<job, rcv, faults>>
    BY <1>6 DEF SendEnd
  <2> QED BY <1>2, <2>2, <2>3, AppendStep
<1>7. CASE sendTerminalOKResult
  <2>1. [type |-> "result", total |-> snd.offset] \in Messages /\ snd.offset = job.length
    BY <1>2, <1>7 DEF sendTerminalOKResult, Messages
  <2>2. \E m \in Messages :
           /\ net' = net \/ net' = Append(net, m)
           /\ m.type = "result" /\ m.total = job.length
           /\ \E pc \in {"failed", "sent"} : snd' = [snd EXCEPT !.pc = pc]
    BY <1>7, <2>1 DEF sendTerminalOKResult, Send, Stop
  <2> QED BY <1>2, <1>7, <2>2, AppendStep DEF sendTerminalOKResult
<1>8. CASE ReadFails \/ SendFails
  <2>1. /\ net' = net \/ net' = Append(net, Error)
        /\ \E pc \in {"failed", "reported"} : snd' = [snd EXCEPT !.pc = pc]
        /\ faults < MaxFaults /\ faults' = faults + 1 /\ UNCHANGED <<job, rcv>>
    BY <1>8 DEF ReadFails, SendFails, sendError, Stop
  <2>2. faults' \in 0..MaxFaults
    BY <1>2, <2>1, TransferAssumption
  <2> QED BY <1>1, <1>2, <2>1, <2>2, AppendStep
<1> QED
  BY <1>3, <1>4, <1>5, <1>6, <1>7, <1>8 DEF Sender

\* The link keeps a first part of what is under way.
LEMMA LoseStep == ASSUME IInv, Lose PROVE IInv'
<1>1. net \in Seq(Messages) /\ faults \in 0..MaxFaults
  BY DEF IInv, TypeOK
<1>2. PICK kept \in 0..(Len(net) - 1) : net' = SubSeq(net, 1, kept)
  BY DEF Lose
<1>3. UNCHANGED <<job, snd, rcv>> /\ faults' \in 0..MaxFaults
  BY <1>1, TransferAssumption DEF Lose
<1>4. /\ net' \in Seq(Messages) /\ Len(net') = kept
      /\ \A i \in 1..kept : net'[i] = net[i] /\ i \in 1..Len(net)
  BY <1>1, <1>2
<1>5. TypeOK'
  BY <1>3, <1>4 DEF IInv, TypeOK
<1>6. net = <<>> => FALSE
  BY <1>2
<1>7. Announced'
  BY <1>3, <1>4, <1>6 DEF IInv, Announced
<1>8. AcceptedIsWhole' /\ Closed'
  BY <1>3 DEF IInv, AcceptedIsWhole, Closed
<1> QED BY <1>5, <1>7, <1>8 DEF IInv

\* The receiver takes the first message.
LEMMA ReceiveStep == ASSUME IInv, Receive PROVE IInv'
<1> DEFINE m == net[1]
<1>1. /\ net \in Seq(Messages) /\ net # <<>> /\ m \in Messages /\ Head(net) = m
      /\ net' \in Seq(Messages) /\ Len(net') = Len(net) - 1
      /\ \A i \in 1..Len(net') : net'[i] = net[i + 1] /\ i + 1 \in 1..Len(net) /\ i + 1 # 1
      /\ UNCHANGED <<job, snd, faults>> /\ 1 \in 1..Len(net)
  BY DEF IInv, TypeOK, Receive
<1>2. /\ m.type \in {"end", "result"} => m.total = job.length
      /\ m.type = "begin" => rcv.outcomes = {}
      /\ \A i \in 1..Len(net') : net'[i].type # "begin"
      /\ snd.pc # "start"
  BY <1>1 DEF IInv, Announced
<1>3. Announced'
  BY <1>1, <1>2 DEF IInv, Announced
<1>4. rcv \in [stream : Streams, terminal : Lengths \cup {Unknown},
               outcomes : SUBSET {"ok", "failed", "error"}]
  BY DEF IInv, TypeOK
<1> DEFINE RcvOK == /\ rcv' \in [stream : Streams, terminal : Lengths \cup {Unknown},
                                 outcomes : SUBSET {"ok", "failed", "error"}]
                   /\ AcceptedIsWhole' /\ Closed'
<1>5. ASSUME NEW o \in {"failed", "error"}, Outcome(o) PROVE RcvOK
  BY <1>1, <1>4, <1>5 DEF Outcome, IInv, AcceptedIsWhole, Closed
<1>6. RcvOK
  <2>1. CASE m.type = "begin" /\ handleStreamBegin(m)
    <3>1. CASE Outcome("error")
      BY <1>5, <3>1
    <3>2. CASE rcv' = [rcv EXCEPT !.stream = NewStream("open", m.total)]
      <4>1. m.total \in Lengths \cup {Unknown}
        BY <1>1, <2>1 DEF Messages
      <4>2. NewStream("open", m.total) \in Streams
        <5>1. <<>> \in Seq(Nat)
          OBVIOUS
        <5> QED BY <4>1, <5>1 DEF NewStream, Streams
      <4> QED BY <1>1, <1>2, <1>4, <2>1, <3>2, <4>2 DEF AcceptedIsWhole, Closed
    <3> QED BY <2>1, <3>1, <3>2 DEF handleStreamBegin
  <2>2. CASE m.type = "chunk" /\ handleStreamChunk(m)
    <3>1. CASE UNCHANGED rcv
      BY <1>1, <1>4, <3>1 DEF IInv, AcceptedIsWhole, Closed
    <3>2. CASE Outcome("error")
      BY <1>5, <3>2
    <3>3. CASE /\ rcv.stream.status # "done"
               /\ rcv' = [rcv EXCEPT !.stream.seq = @ + 1,
                                     !.stream.buf = @ \o [i \in 1..m.len |-> m.from + i]]
      <4>1. m.len \in Nat /\ m.from \in Nat
        BY <1>1, <2>2 DEF Messages
      <4>2. [i \in 1..m.len |-> m.from + i] \in Seq(Nat)
        BY <4>1
      <4>3. rcv.stream \in Streams /\ rcv.stream.buf \in Seq(Nat)
        BY <1>4 DEF Streams
      <4>4. rcv.stream.buf \o [i \in 1..m.len |-> m.from + i] \in Seq(Nat)
        BY <4>2, <4>3
      <4>5. rcv'.stream \in Streams
        <5> DEFINE all == rcv.stream.buf \o [i \in 1..m.len |-> m.from + i]
        <5>1. rcv'.stream = [rcv.stream EXCEPT !.seq = @ + 1, !.buf = all]
          BY <1>4, <3>3, <4>3 DEF Streams
        <5>2. all \in Seq(Nat) /\ rcv.stream.seq + 1 \in Nat
          BY <4>3, <4>4 DEF Streams
        <5> HIDE DEF all
        <5>3. rcv'.stream = [status |-> rcv.stream.status, total |-> rcv.stream.total,
                             seq |-> rcv.stream.seq + 1, buf |-> all]
          BY <4>3, <5>1 DEF Streams
        <5>4. rcv.stream.status \in {"none", "open", "done"}
              /\ rcv.stream.total \in Lengths \cup {Unknown}
          BY <4>3 DEF Streams
        <5> QED BY <5>2, <5>3, <5>4 DEF Streams
      <4>6. rcv' \in [stream : Streams, terminal : Lengths \cup {Unknown},
                      outcomes : SUBSET {"ok", "failed", "error"}]
            /\ rcv'.outcomes = rcv.outcomes
        BY <1>4, <3>3, <4>5
      <4>7. "ok" \notin rcv.outcomes
        BY <3>3 DEF IInv, Closed
      <4> QED BY <4>6, <4>7 DEF AcceptedIsWhole, Closed
    <3> QED BY <2>2, <3>1, <3>2, <3>3 DEF handleStreamChunk
  <2>3. CASE m.type = "end" /\ InputEnd(m)
    <3>1. CASE Outcome("error")
      BY <1>5, <3>1
    <3>2. CASE /\ Complete(m.total)
               /\ rcv' = [rcv EXCEPT !.stream.status = "done", !.outcomes = @ \cup {"ok"}]
      <4>1. /\ rcv'.stream.buf = rcv.stream.buf /\ rcv'.stream.status = "done"
            /\ rcv' \in [stream : Streams, terminal : Lengths \cup {Unknown},
                         outcomes : SUBSET {"ok", "failed", "error"}]
        BY <1>4, <3>2 DEF Streams
      <4> QED BY <1>1, <1>2, <2>3, <3>2, <4>1 DEF AcceptedIsWhole, Closed, Complete
    <3> QED BY <2>3, <3>1, <3>2 DEF InputEnd
  <2>4. CASE m.type = "end" /\ ResultEnd(m)
    <3>1. CASE UNCHANGED rcv
      BY <1>1, <1>4, <3>1 DEF IInv, AcceptedIsWhole, Closed
    <3>2. CASE rcv' = [rcv EXCEPT !.stream.status = "done",
                         !.outcomes = @ \cup IF Complete(m.total) THEN {} ELSE {"error"}]
      <4>1. /\ rcv'.stream.buf = rcv.stream.buf /\ rcv'.stream.status = "done"
            /\ "ok" \in rcv'.outcomes => "ok" \in rcv.outcomes
            /\ rcv' \in [stream : Streams, terminal : Lengths \cup {Unknown},
                         outcomes : SUBSET {"ok", "failed", "error"}]
        BY <1>4, <3>2 DEF Streams
      <4> QED BY <1>1, <4>1 DEF IInv, AcceptedIsWhole, Closed
    <3> QED BY <2>4, <3>1, <3>2 DEF ResultEnd
  <2>5. CASE m.type = "result" /\ handleTerminalResult(m)
    <3>1. CASE rcv' = [rcv EXCEPT !.terminal = m.total]
      <4>1. m.total \in Lengths \cup {Unknown}
        BY <1>1, <2>5 DEF Messages
      <4> QED BY <1>1, <1>4, <3>1, <4>1 DEF IInv, AcceptedIsWhole, Closed
    <3>2. CASE Outcome("error")
      BY <1>5, <3>2
    <3>3. CASE rcv.stream.status = "done" /\ Complete(m.total) /\ Outcome("ok")
      BY <1>1, <1>2, <1>4, <2>5, <3>3 DEF Outcome, AcceptedIsWhole, Closed, Complete
    <3> QED BY <2>5, <3>1, <3>2, <3>3 DEF handleTerminalResult
  <2>6. CASE m.type \in {"failed", "error"} /\ Outcome(m.type)
    BY <1>5, <2>6
  <2> QED
    BY <1>1, <2>1, <2>2, <2>3, <2>4, <2>5, <2>6 DEF Receive
<1>7. TypeOK'
  BY <1>1, <1>6 DEF IInv, TypeOK
<1> QED BY <1>3, <1>6, <1>7 DEF IInv

LEMMA NextIInv == ASSUME IInv, [Next]_vars PROVE IInv'
<1>1. CASE UNCHANGED vars
  BY <1>1 DEF vars, IInv, TypeOK, Announced, AcceptedIsWhole, Closed
<1> QED
  BY <1>1, SenderStep, LoseStep, ReceiveStep DEF Next

\* IInv is an invariant of every transfer.
THEOREM Invariance == Spec => []IInv
  BY InitIInv, NextIInv, PTL DEF Spec

\* Whatever is lost, the provider validates and the waiter delivers nothing but
\* the whole of what was to be sent.
THEOREM AcceptedWhole == Spec => []AcceptedIsWhole
<1>1. IInv => AcceptedIsWhole
  BY DEF IInv
<1> QED BY <1>1, Invariance, PTL
-----------------------------------------------------------------------------
(* The length of a chunk. *)

LEMMA Division ==
    ASSUME NEW n \in Nat, NEW d \in Nat \ {0}
    PROVE  /\ n \div d \in Nat /\ n % d \in 0..(d - 1)
           /\ n = d * (n \div d) + (n % d)
  OBVIOUS

\* The quotient is the number that has a rest.
LEMMA Quotient ==
    ASSUME NEW n \in Nat, NEW d \in Nat \ {0}, NEW q \in Nat, NEW r \in 0..(d - 1),
           n = d * q + r
    PROVE  n \div d = q
<1> DEFINE p == n \div d
           s == n % d
<1>1. p \in Nat /\ s \in 0..(d - 1) /\ n = d * p + s
  BY Division
<1> HIDE DEF p, s
<1>2. ~ p <= q - 1
  <2> SUFFICES ASSUME p <= q - 1 PROVE FALSE
    OBVIOUS
  <2>1. d * p <= d * (q - 1)
    BY <1>1
  <2>2. d * (q - 1) = d * q - d
    OBVIOUS
  <2> QED BY <1>1, <2>1, <2>2
<1>3. ~ q <= p - 1
  <2> SUFFICES ASSUME q <= p - 1 PROVE FALSE
    OBVIOUS
  <2>1. d * q <= d * (p - 1)
    BY <1>1
  <2>2. d * (p - 1) = d * p - d
    BY <1>1
  <2> QED BY <1>1, <2>1, <2>2
<1>4. p = q
  BY <1>1, <1>2, <1>3
<1> QED BY <1>4 DEF p

\* To divide by twice as much is to divide once more by two.
LEMMA DivideTwice ==
    ASSUME NEW n \in Nat, NEW c \in Nat \ {0}
    PROVE  n \div (2 * c) = (n \div c) \div 2
<1> DEFINE q == n \div c
           r == n % c
           h == q \div 2
           b == q % 2
<1>1. q \in Nat /\ r \in 0..(c - 1) /\ n = c * q + r
  BY Division
<1> HIDE DEF q, r
<1>2. h \in Nat /\ b \in 0..1 /\ q = 2 * h + b
  BY <1>1
<1> HIDE DEF h, b
<1> DEFINE p == c * h
<1>3. p \in Nat /\ c * q = 2 * p + c * b /\ (2 * c) * h = 2 * p
  BY <1>2
<1> HIDE DEF p
<1>4. CASE b = 0
  <2>1. c * b = 0
    BY <1>4
  <2>2. n = (2 * c) * h + r
    BY <1>1, <1>3, <2>1
  <2>3. r \in 0..(2 * c - 1) /\ 2 * c \in Nat \ {0}
    BY <1>1
  <2>4. n \div (2 * c) = h
    BY <1>2, <2>2, <2>3, Quotient
  <2> QED BY <2>4 DEF h, q
<1>5. CASE b = 1
  <2>1. c * b = c
    BY <1>5
  <2>2. n = (2 * c) * h + (c + r)
    BY <1>1, <1>3, <2>1
  <2>3. c + r \in 0..(2 * c - 1) /\ 2 * c \in Nat \ {0}
    BY <1>1
  <2>4. n \div (2 * c) = h
    BY <1>2, <2>2, <2>3, Quotient
  <2> QED BY <2>4 DEF h, q
<1> QED BY <1>2, <1>4, <1>5

LEMMA DivideLess ==
    ASSUME NEW n \in Nat, NEW d \in Nat \ {0}
    PROVE  n \div d \in 0..n
<1> DEFINE q == n \div d
           r == n % d
<1>1. q \in Nat /\ r \in Nat /\ n = d * q + r
  BY Division
<1> HIDE DEF q, r
<1>2. q <= d * q
  BY <1>1
<1>3. q \in 0..n
  BY <1>1, <1>2
<1> QED BY <1>3 DEF q

\* A power of two that is not 1 is twice another one.
LEMMA HalfOfPower ==
    ASSUME NEW n \in Nat, NEW d \in PowersOfTwo(n), d # 1
    PROVE  \E c \in PowersOfTwo(n) : d = 2 * c /\ c < d
<1>1. d \in 2..n /\ \A e \in 2..d : d % e = 0 => e % 2 = 0
  BY DEF PowersOfTwo
<1>2. d % d = 0
  <2>1. d = d * 1 + 0 /\ d \div d = 1
    BY <1>1, Quotient
  <2>2. d = d * (d \div d) + (d % d) /\ d % d \in Nat
    BY <1>1, Division
  <2> QED BY <1>1, <2>1, <2>2
<1>3. d % 2 = 0
  BY <1>1, <1>2
<1> DEFINE c == d \div 2
<1>4. c \in 1..n /\ d = 2 * c /\ c < d
  BY <1>1, <1>3
<1> HIDE DEF c
<1>5. ASSUME NEW e \in 2..c, c % e = 0 PROVE e % 2 = 0
  <2> DEFINE k == c \div e
  <2>0. c \in Nat /\ e \in Nat \ {0}
    BY <1>4
  <2>1. k \in Nat /\ c = e * k + (c % e)
    BY <2>0, Division
  <2> HIDE DEF k
  <2>2. d = e * (2 * k) + 0 /\ 2 * k \in Nat
    BY <1>4, <1>5, <2>1
  <2>3. d \div e = 2 * k
    BY <1>4, <2>2, Quotient
  <2>4. d = e * (d \div e) + (d % e) /\ d % e \in Nat
    BY <1>1, Division
  <2>5. d = e * (2 * k) + (d % e)
    BY <2>3, <2>4
  <2>6. d % e = 0
    <3> DEFINE p == e * (2 * k)
               r == d % e
    <3>1. p = d /\ d = p + r /\ r \in Nat /\ d \in Nat
      BY <1>1, <2>2, <2>4, <2>5
    <3> HIDE DEF p, r
    <3>2. r = 0
      BY <3>1
    <3> QED BY <3>2 DEF r
  <2> QED BY <1>1, <1>4, <2>6
<1> QED BY <1>4, <1>5 DEF PowersOfTwo

\* A set of numbers has a least one, and a greatest one when it is bounded.
LEMMA Smallest ==
    ASSUME NEW S \in SUBSET Nat, S # {}
    PROVE  \E x \in S : \A y \in S : x <= y
<1> DEFINE less == {ss \in Nat \X Nat : ss[1] < ss[2]}
<1>1. IsWellFoundedOn(less, Nat)
  BY NatLessThanWellFounded DEF OpToRel
<1>2. \A x, y \in S : <<y, x>> \notin less => x <= y
  OBVIOUS
<1> HIDE DEF less
<1>3. \E x \in S : \A y \in S : ~ (<<y, x>> \in less)
  BY <1>1, WFMin
<1> QED BY <1>2, <1>3

LEMMA Greatest ==
    ASSUME NEW b \in Nat, NEW S \in SUBSET (0..b), S # {}
    PROVE  Max(S) \in S /\ \A y \in S : y <= Max(S)
<1> DEFINE T == {b - x : x \in S}
<1>1. T \in SUBSET Nat /\ T # {}
  <2>1. \A x \in S : b - x \in Nat
    OBVIOUS
  <2> QED BY <2>1
<1>2. PICK t \in T : \A u \in T : t <= u
  BY <1>1, Smallest
<1>3. PICK x \in S : t = b - x
  BY <1>2
<1>4. \A y \in S : x >= y
  BY <1>2, <1>3
<1>5. \E z \in S : \A y \in S : z >= y
  BY <1>4
<1> QED BY <1>5 DEF Max

LEMMA MinOfTwo ==
    ASSUME NEW a \in Nat, NEW b \in Nat
    PROVE  Min({a, b}) = IF a <= b THEN a ELSE b
<1> DEFINE m == IF a <= b THEN a ELSE b
<1>1. m \in {a, b} /\ \A y \in {a, b} : m <= y
  OBVIOUS
<1>2. \A x \in {a, b} : (\A y \in {a, b} : x <= y) => x = m
  OBVIOUS
<1> HIDE DEF m
<1>3. Min({a, b}) = m
  BY <1>1, <1>2 DEF Min
<1> QED BY <1>3 DEF m

\* A chunk that encodeFitting makes fits, and is no shorter than half of what
\* would fit unless it takes all that is left: what was tried before was twice
\* as long, and too long.
LEMMA FittingLength ==
    ASSUME job.limits.payload \in Nat, Overhead \in Nat, NEW avail \in Nat, NEW seq \in Nat,
           NEW n, n = encodeFitting(avail, seq), n > 0
    PROVE  /\ n \in Nat /\ n >= 1 /\ n <= avail
           /\ ChunkSize(n, seq) <= job.limits.payload
           /\ n < avail => (Room + 1) \div 2 <= n
<1> DEFINE max == job.limits.payload
           most == Min({avail, max})
           powers == PowersOfTwo(most)
           halves == {most \div d : d \in powers}
           Fit(x) == x >= 1 /\ ChunkSize(x, seq) <= max
           fitting == {x \in halves : Fit(x)}
<1>1. /\ most = (IF avail <= max THEN avail ELSE max)
      /\ most \in Nat /\ most <= avail /\ most <= max
  BY MinOfTwo
<1>2. n = (IF fitting = {} THEN 0 ELSE Max(fitting))
  BY DEF encodeFitting
<1> HIDE DEF most
<1>3. powers \subseteq 1..most
  BY DEF PowersOfTwo
<1>4. \A d \in powers : most \div d \in 0..most
  BY <1>1, <1>3, DivideLess
<1>5. fitting \in SUBSET (0..most) /\ fitting # {}
  BY <1>2, <1>4
<1>6. n \in fitting /\ \A y \in fitting : y <= n
  <2> HIDE DEF fitting
  <2> QED BY <1>1, <1>2, <1>5, Greatest
<1>7. n \in 1..most /\ ChunkSize(n, seq) <= max
  BY <1>5, <1>6
<1> SUFFICES ASSUME n < avail PROVE (Room + 1) \div 2 <= n
  BY <1>1, <1>7
<1> DEFINE E == {d \in powers : Fit(most \div d)}
<1>8. PICK d \in E : \A c \in E : d <= c
  <2>1. E \in SUBSET Nat /\ E # {}
    BY <1>3, <1>6
  <2> QED BY <2>1, Smallest
<1>9. Room \in Int /\ Room = max - Overhead - 1
  BY DEF Room, ChunkSize
<1> HIDE DEF max
<1>10. CASE d = 1
  <2>1. most \div 1 = most
    BY <1>1
  <2>2. most \in fitting
    BY <1>8, <1>10, <2>1
  <2>3. n = most /\ most = max
    BY <1>1, <1>6, <1>7, <2>2
  <2> QED BY <1>1, <1>9, <2>3
<1>11. CASE d # 1
  <2>1. PICK c \in powers : d = 2 * c /\ c < d
    BY <1>1, <1>8, <1>11, HalfOfPower
  <2> DEFINE q == most \div c
             m == most \div d
  <2>2. c \in Nat \ {0} /\ q \in Nat /\ m = q \div 2
    <3>1. c \in Nat \ {0}
      BY <1>1, <1>3
    <3>2. q \in Nat
      BY <1>4
    <3>3. most \div (2 * c) = (most \div c) \div 2
      BY <1>1, <3>1, DivideTwice
    <3> QED BY <2>1, <3>1, <3>2, <3>3
  <2>3. m \in fitting /\ m >= 1
    BY <1>8
  <2>4. ~ Fit(q)
    BY <1>8, <2>1
  <2> HIDE DEF q, m
  <2>5. q >= 1
    BY <2>2, <2>3
  <2>6. q >= Room + 1
    <3>1. ~ (ChunkSize(q, seq) <= max)
      BY <2>4, <2>5
    <3>2. ChunkSize(q, seq) \in Int /\ ChunkSize(q, seq) <= Overhead + 1 + q
      BY <2>2 DEF ChunkSize
    <3>3. max \in Nat
      BY DEF max
    <3> QED BY <1>9, <2>2, <3>1, <3>2, <3>3
  <2>7. (Room + 1) \div 2 <= m
    BY <1>9, <2>2, <2>6
  <2>8. m <= n
    BY <1>6, <2>3
  <2>9. m \in Nat /\ (Room + 1) \div 2 \in Int
    BY <1>9, <2>2
  <2> QED BY <1>7, <2>7, <2>8, <2>9
<1> QED BY <1>10, <1>11

-----------------------------------------------------------------------------
(* The chunks of a stream. *)

Half == (Room + 1) \div 2

NetFits ==
    \A i \in 1..Len(net) : net[i].type = "chunk" =>
        net[i].len >= 1 /\ ChunkSize(net[i].len, net[i].seq) <= job.limits.payload

\* Only the last chunk of a stream of known length may carry less than half.
Progress ==
    job.kind # "streamed" =>
        /\ snd.pending > 0 => snd.seq * Half <= snd.offset
        /\ snd.pending = 0 /\ snd.seq > 0 => (snd.seq - 1) * Half <= snd.offset

ChunkInv == job.limits \in Manifests /\ NetFits /\ Progress

LEMMA NetAppend ==
    ASSUME IInv, NetFits, UNCHANGED job, NEW m,
           net' = net \/ net' = Append(net, m),
           m.type = "chunk" =>
               m.len >= 1 /\ ChunkSize(m.len, m.seq) <= job.limits.payload
    PROVE  NetFits'
<1>1. net \in Seq(Messages)
  BY DEF IInv, TypeOK
<1>2. CASE net' = net
  BY <1>2 DEF NetFits, ChunkSize
<1>3. CASE net' = Append(net, m)
  <2>1. /\ Len(net') = Len(net) + 1 /\ Len(net) \in Nat /\ net'[Len(net) + 1] = m
        /\ \A i \in 1..Len(net) : net'[i] = net[i]
    BY <1>1, <1>3
  <2>2. \A i \in 1..Len(net') : i \in 1..Len(net) \/ i = Len(net) + 1
    BY <2>1
  <2> QED BY <2>1, <2>2 DEF NetFits, ChunkSize
<1> QED BY <1>2, <1>3

\* A step of the sender that sends no chunk.
LEMMA NoChunk ==
    ASSUME IInv, ChunkInv, UNCHANGED job, NEW m, net' = net \/ net' = Append(net, m),
           m.type # "chunk", NEW pc, snd' = [snd EXCEPT !.pc = pc]
    PROVE  ChunkInv'
<1>1. snd'.offset = snd.offset /\ snd'.seq = snd.seq /\ snd'.pending = snd.pending
  BY DEF IInv, TypeOK
<1>2. NetFits'
  BY NetAppend DEF ChunkInv
<1>3. Progress'
  BY <1>1 DEF ChunkInv, Progress, Half, Room, ChunkSize
<1> QED BY <1>2, <1>3 DEF ChunkInv

LEMMA SendChunkKeeps == ASSUME IInv, ChunkInv, SendChunk PROVE ChunkInv'
<1>1. /\ snd \in [pc : {"start", "chunks", "result", "sent", "refused", "reported", "failed"},
                  offset : Nat, seq : Nat, pending : Nat]
      /\ UNCHANGED job /\ snd.pending > 0
      /\ job.limits.payload \in Nat /\ Overhead \in Nat
  BY TransferAssumption DEF IInv, TypeOK, SendChunk, ChunkInv
<1> DEFINE chunk(n) == [type |-> "chunk", seq |-> snd.seq, from |-> snd.offset, len |-> n]
<1>2. PICK n \in 0..snd.pending :
          /\ n = encodeFitting(snd.pending, snd.seq)
          /\ \/ /\ \/ net' = net \/ net' = Append(net, [type |-> "failed"])
                   \/ net' = Append(net, [type |-> "error"])
                /\ \E pc \in {"reported", "failed"} : snd' = [snd EXCEPT !.pc = pc]
             \/ /\ n > 0 /\ net' = Append(net, chunk(n))
                /\ snd' = [snd EXCEPT !.offset = @ + n, !.seq = @ + 1, !.pending = @ - n]
  BY DEF SendChunk, Send, Stop, sendError, sendTerminalResultStatus
<1>3. CASE /\ \/ net' = net \/ net' = Append(net, [type |-> "failed"])
              \/ net' = Append(net, [type |-> "error"])
           /\ \E pc \in {"reported", "failed"} : snd' = [snd EXCEPT !.pc = pc]
  <2>1. \E m \in Messages : /\ net' = net \/ net' = Append(net, m)
                            /\ m.type # "chunk"
    <3>1. [type |-> "failed"] \in Messages /\ [type |-> "error"] \in Messages
      BY DEF Messages
    <3> QED BY <1>3, <3>1
  <2> QED BY <1>1, <1>3, <2>1, NoChunk
<1>4. CASE /\ n > 0 /\ net' = Append(net, chunk(n))
           /\ snd' = [snd EXCEPT !.offset = @ + n, !.seq = @ + 1, !.pending = @ - n]
  <2>1. /\ n \in Nat /\ n >= 1 /\ ChunkSize(n, snd.seq) <= job.limits.payload
        /\ n < snd.pending => Half <= n
    BY <1>1, <1>2, <1>4, FittingLength DEF Half
  <2>2. NetFits'
    <3>1. chunk(n).type = "chunk" /\ chunk(n).len = n /\ chunk(n).seq = snd.seq
      OBVIOUS
    <3> HIDE DEF chunk
    <3> QED BY <1>1, <1>4, <2>1, <3>1, NetAppend DEF ChunkInv
  <2>3. /\ snd'.offset = snd.offset + n /\ snd'.pending = snd.pending - n
        /\ snd'.seq = snd.seq + 1
    BY <1>1, <1>4
  <2>4. Half \in Int /\ Half' = Half
    BY <1>1 DEF Half, Room, ChunkSize
  <2>5. Progress'
    <3> SUFFICES ASSUME job.kind # "streamed"
                 PROVE  /\ snd.pending - n > 0 => (snd.seq + 1) * Half <= snd.offset + n
                        /\ snd.pending - n = 0 => snd.seq * Half <= snd.offset + n
      BY <1>1, <2>3, <2>4 DEF Progress
    <3> DEFINE p == snd.seq * Half
    <3>1. p \in Int /\ p <= snd.offset /\ (snd.seq + 1) * Half = p + Half
      BY <1>1, <2>4 DEF ChunkInv, Progress
    <3> HIDE DEF p, Half
    <3>2. snd.pending - n > 0 => p + Half <= snd.offset + n
      BY <1>1, <2>1, <2>4, <3>1
    <3>3. p <= snd.offset + n
      BY <1>1, <2>1, <3>1
    <3> QED BY <3>1, <3>2, <3>3 DEF p
  <2> QED BY <1>1, <2>2, <2>5 DEF ChunkInv
<1> QED BY <1>2, <1>3, <1>4

LEMMA NextChunkInv == ASSUME IInv, ChunkInv, [Next]_vars PROVE ChunkInv'
<1>1. CASE SendBegin \/ SendEnd \/ sendTerminalOKResult \/ ReadFails \/ SendFails
  <2>1. UNCHANGED job
    BY <1>1 DEF SendBegin, SendEnd, sendTerminalOKResult, ReadFails, SendFails
  <2>2. \E m \in Messages : /\ net' = net \/ net' = Append(net, m)
                            /\ m.type # "chunk" /\ \E pc : snd' = [snd EXCEPT !.pc = pc]
    <3>1. /\ [type |-> "failed"] \in Messages /\ [type |-> "error"] \in Messages
          /\ [type |-> "begin", total |-> Unknown] \in Messages
          /\ [type |-> "begin", total |-> job.length] \in Messages
      BY DEF Messages, IInv, TypeOK
    <3>2. CASE SendBegin
      BY <3>1, <3>2 DEF SendBegin, Send, Stop, sendTerminalResultStatus
    <3>3. CASE SendEnd
      <4>1. [type |-> "end", total |-> snd.offset] \in Messages
        BY <3>3 DEF SendEnd, Messages, IInv, TypeOK
      <4> QED BY <3>1, <3>3, <4>1 DEF SendEnd, Send, Stop, sendError
    <3>4. CASE sendTerminalOKResult
      <4>1. [type |-> "result", total |-> snd.offset] \in Messages
        BY <3>4 DEF sendTerminalOKResult, Messages, IInv, TypeOK, Announced
      <4> QED BY <3>1, <3>4, <4>1 DEF sendTerminalOKResult, Send, Stop
    <3>5. CASE ReadFails
      BY <3>1, <3>5 DEF ReadFails, sendError
    <3>6. CASE SendFails
      BY <3>1, <3>6 DEF SendFails, Stop
    <3> QED BY <1>1, <3>2, <3>3, <3>4, <3>5, <3>6
  <2> QED BY <2>1, <2>2, NoChunk
<1>2. CASE ReadOutput
  <2>1. job.kind = "streamed" /\ UNCHANGED <<job, net>>
    BY <1>2 DEF ReadOutput
  <2> QED BY <2>1 DEF ChunkInv, NetFits, ChunkSize, Progress
<1>3. CASE SendChunk
  BY <1>3, SendChunkKeeps
<1>4. CASE Lose
  <2>1. net \in Seq(Messages) /\ UNCHANGED <<job, snd>>
    BY <1>4 DEF IInv, TypeOK, Lose
  <2>2. PICK kept \in 0..(Len(net) - 1) : net' = SubSeq(net, 1, kept)
    BY <1>4 DEF Lose
  <2>3. Len(net') = kept /\ \A i \in 1..kept : net'[i] = net[i] /\ i \in 1..Len(net)
    BY <2>1, <2>2
  <2> QED BY <2>1, <2>3 DEF ChunkInv, NetFits, Progress, Half, Room, ChunkSize
<1>5. CASE Receive
  <2>1. net \in Seq(Messages) /\ UNCHANGED <<job, snd>> /\ net # <<>> /\ net' = Tail(net)
    BY <1>5 DEF IInv, TypeOK, Receive
  <2>2. \A i \in 1..Len(net') : net'[i] = net[i + 1] /\ i + 1 \in 1..Len(net)
    BY <2>1
  <2> QED BY <2>1, <2>2 DEF ChunkInv, NetFits, Progress, Half, Room, ChunkSize
<1>6. CASE UNCHANGED vars
  BY <1>6 DEF vars, ChunkInv, NetFits, Progress, Half, Room, ChunkSize
<1> QED BY <1>1, <1>2, <1>3, <1>4, <1>5, <1>6 DEF Next, Sender

\* Every chunk fits, and no more than twice as many are sent as are needed
\* (encodeFittingInputStreamChunk, encodeFittingResultStreamChunk), for every
\* length and every max_payload.
THEOREM ChunksAlwaysFit == Spec => []ChunksFit
<1>1. Init => ChunkInv
  <2> SUFFICES ASSUME Init PROVE ChunkInv
    OBVIOUS
  <2>1. job.limits \in Manifests /\ Len(net) = 0 /\ snd.seq = 0 /\ snd.offset = 0
    BY DEF Init
  <2>2. Half \in Int
    BY <2>1, TransferAssumption DEF Half, Room, ChunkSize
  <2>3. snd.seq * Half <= snd.offset
    BY <2>1, <2>2
  <2> QED BY <2>1, <2>3 DEF ChunkInv, NetFits, Progress
<1>2. IInv /\ ChunkInv => ChunksFit
  <2> SUFFICES ASSUME IInv, ChunkInv PROVE ChunksFit
    OBVIOUS
  <2>1. /\ snd \in [pc : {"start", "chunks", "result", "sent", "refused", "reported", "failed"},
                    offset : Nat, seq : Nat, pending : Nat]
        /\ snd.offset + snd.pending <= job.length /\ job.length \in Nat
    BY TransferAssumption DEF IInv, TypeOK
  <2>2. Half \in Int
    BY TransferAssumption DEF ChunkInv, Half, Room, ChunkSize
  <2>3. ASSUME job.kind # "streamed", snd.seq > 0 PROVE (snd.seq - 1) * Half <= job.length
    <3>1. CASE snd.pending = 0
      <4>1. (snd.seq - 1) * Half <= snd.offset /\ (snd.seq - 1) * Half \in Int
        BY <2>1, <2>2, <2>3, <3>1 DEF ChunkInv, Progress
      <4> QED BY <2>1, <4>1
    <3>2. CASE snd.pending > 0
      <4> DEFINE p == snd.seq * Half
      <4>1. p <= snd.offset /\ p \in Int /\ (snd.seq - 1) * Half = p - Half
        BY <2>1, <2>2, <2>3, <3>2 DEF ChunkInv, Progress
      <4>2. Half < 0 => p - Half <= 0
        BY <2>1, <2>2, <2>3
      <4> HIDE DEF p
      <4>3. p - Half <= job.length
        BY <2>1, <2>2, <4>1, <4>2
      <4> QED BY <4>1, <4>3
    <3> QED BY <2>1, <3>1, <3>2
  <2> QED BY <2>3 DEF ChunksFit, ChunkInv, NetFits, Half
<1>3. IInv /\ ChunkInv /\ [Next]_vars => ChunkInv'
  BY NextChunkInv
<1> QED BY <1>1, <1>2, <1>3, Invariance, PTL DEF Spec
=============================================================================
