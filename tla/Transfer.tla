------------------------------ MODULE Transfer ------------------------------
(***************************************************************************)
(* One stream from its sender to its receiver: the input of a job, from    *)
(* sendInputStream to the provider's stream handlers, a complete result,   *)
(* from sendResult to the requester's waiter, or a result that is relayed  *)
(* while the backend produces it, from sendResultStreaming.  The bytes of  *)
(* the data are their positions, and a hash is the data it is the hash of. *)
(* Both receivers enforce the limits that their manifest announces.        *)
(*                                                                         *)
(* The link keeps the order of messages.  When it breaks, what is under    *)
(* way is lost, and a sender that does not notice goes on.                 *)
(***************************************************************************)
EXTENDS Integers, Sequences, FiniteSetsExt

CONSTANTS
    Lengths,            \* the lengths of the data
    InputLens,          \* the lengths of the input that a result is for
    Manifests,          \* the limits: max_payload, max_stream and max_job bytes
    Size,               \* encoded length of begin, end, result and failed
    Overhead,           \* encoded length of a chunk with seq 0 and no data
    MaxFaults           \* bound: how often the link or a call fails

ASSUME TransferAssumption ==
    /\ Lengths \subseteq Nat /\ MaxFaults \in Nat /\ Overhead \in Nat
    /\ \A m \in Manifests : m.payload \in Nat

VARIABLES
    job,                \* what is to be sent, and the receiver's limits
    snd,                \* the sender
    net,                \* messages under way
    rcv,                \* the receiver
    faults

vars == <<job, snd, net, rcv, faults>>

Unknown == -1

Kinds == {"input", "result", "streamed"}

\* A stream of which no chunk was received; status is none, open or done.
NewStream(status, total) == [status |-> status, total |-> total, seq |-> 0, buf |-> <<>>]

Data(n) == [i \in 1..n |-> i]

Init ==
    /\ job \in [kind : Kinds, length : Lengths, input : InputLens, limits : Manifests]
    /\ job.kind = "input" => job.input = 0
    /\ job.kind # "streamed" => job.length > 0
    /\ snd = [pc |-> "start", offset |-> 0, seq |-> 0,
              pending |-> IF job.kind = "streamed" THEN 0 ELSE job.length]
    /\ net = <<>>
    /\ rcv = [stream |-> NewStream("none", Unknown), terminal |-> Unknown, outcomes |-> {}]
    /\ faults = 0

-----------------------------------------------------------------------------
(* The sender. *)

Fits(type) == Size[type] <= job.limits.payload

\* Fault: the input of the job is not counted.
ExceedsRemote_NoInput(n) == n > job.limits.stream \/ n > job.limits.job

\* More than the receiver takes: in one stream, or for the whole job.
ExceedsRemote(n) == n > job.limits.stream \/ job.input + n > job.limits.job

Stop(pc) ==
    /\ snd' = [snd EXCEPT !.pc = pc]
    /\ UNCHANGED net

\* A message that is longer than max_payload ends the transfer without a word.
Send(m, pc) ==
    \/ Fits(m.type) /\ net' = Append(net, m) /\ snd' = [snd EXCEPT !.pc = pc]
    \/ ~ Fits(m.type) /\ Stop("failed")

\* lcp_result(failed): the result exceeds the limits.
sendTerminalResultStatus == Send([type |-> "failed"], "reported")

\* lcp_error, of any length: the output cannot be read or sent.
sendError ==
    /\ net' = Append(net, [type |-> "error"])
    /\ snd' = [snd EXCEPT !.pc = "reported"]

\* validateQuoteRequestRemoteLimits refuses an input, and sendResult reports a
\* result, that is too long; the length of a relayed one is not known yet.
SendBegin ==
    /\ snd.pc = "start"
    /\ \/ /\ job.kind = "input" /\ ExceedsRemote(job.length)
          /\ Stop("refused")
       \/ /\ job.kind = "result" /\ ExceedsRemote(job.length)
          /\ sendTerminalResultStatus
       \/ /\ job.kind = "streamed"
          /\ Send([type |-> "begin", total |-> Unknown], "chunks")
       \/ /\ job.kind # "streamed" /\ ~ ExceedsRemote(job.length)
          /\ Send([type |-> "begin", total |-> job.length], "chunks")
    /\ UNCHANGED <<job, rcv, faults>>

\* The sequence number is written without leading zeros: nothing for 0.
ChunkSize(n, seq) == Overhead + (IF seq = 0 THEN 0 ELSE 1) + n

\* Fault: the length of the envelope is not taken off.
encodeFitting_NoOverhead(avail, seq) == Min({avail, job.limits.payload})

\* The numbers up to n with no divisor that is odd but 1.
PowersOfTwo(n) == {d \in 1..n : \A e \in 2..d : d % e = 0 => e % 2 = 0}

\* The data is cut to max_payload bytes and then halved until the encoded
\* chunk fits; 0 when not even one byte does.
encodeFitting(avail, seq) ==
    LET most == Min({avail, job.limits.payload})
        halves == {most \div d : d \in PowersOfTwo(most)}
        fitting == {n \in halves : n >= 1 /\ ChunkSize(n, seq) <= job.limits.payload}
    IN  IF fitting = {} THEN 0 ELSE Max(fitting)

\* The backend's output is read a buffer of max_payload bytes at a time.
ReadOutput ==
    /\ job.kind = "streamed" /\ snd.pc = "chunks" /\ snd.pending = 0
    /\ \E n \in 1..(job.length - snd.offset) :
          n <= job.limits.payload /\ snd' = [snd EXCEPT !.pending = n]
    /\ UNCHANGED <<job, net, rcv, faults>>

ReadFails ==
    /\ faults < MaxFaults
    /\ job.kind = "streamed" /\ snd.pc = "chunks" /\ snd.pending = 0
    /\ sendError
    /\ faults' = faults + 1
    /\ UNCHANGED <<job, rcv>>

\* The limits are checked for each chunk when the length is not known before.
SendChunk ==
    /\ snd.pc = "chunks" /\ snd.pending > 0
    /\ \E n \in 0..snd.pending :
       LET tooMuch == job.kind = "streamed" /\ ExceedsRemote(snd.offset + n)
       IN  /\ n = encodeFitting(snd.pending, snd.seq)
           /\ \/ n = 0 /\ job.kind # "streamed" /\ Stop("failed")
              \/ n = 0 /\ job.kind = "streamed" /\ sendError
              \/ n > 0 /\ tooMuch /\ sendTerminalResultStatus
              \/ /\ n > 0 /\ ~ tooMuch
                 /\ net' = Append(net, [type |-> "chunk", seq |-> snd.seq,
                                        from |-> snd.offset, len |-> n])
                 /\ snd' = [snd EXCEPT !.offset = @ + n, !.seq = @ + 1, !.pending = @ - n]
    /\ UNCHANGED <<job, rcv, faults>>

\* The end of the data; an output that ends without a byte is an error.
SendEnd ==
    /\ snd.pc = "chunks" /\ snd.pending = 0 /\ snd.offset = job.length
    /\ \/ snd.offset = 0 /\ sendError
       \/ /\ snd.offset > 0
          /\ Send([type |-> "end", total |-> snd.offset],
                  IF job.kind = "input" THEN "sent" ELSE "result")
    /\ UNCHANGED <<job, rcv, faults>>

sendTerminalOKResult ==
    /\ snd.pc = "result"
    /\ Send([type |-> "result", total |-> snd.offset], "sent")
    /\ UNCHANGED <<job, rcv, faults>>

\* SendCustomMessage fails, or the sender's context ends.
SendFails ==
    /\ faults < MaxFaults
    /\ snd.pc \in {"start", "chunks", "result"}
    /\ Stop("failed")
    /\ faults' = faults + 1
    /\ UNCHANGED <<job, rcv>>

\* The link breaks and is made again.
Lose ==
    /\ faults < MaxFaults
    /\ \E kept \in 0..(Len(net) - 1) : net' = SubSeq(net, 1, kept)
    /\ faults' = faults + 1
    /\ UNCHANGED <<job, snd, rcv>>

-----------------------------------------------------------------------------
(* The receiver. *)

ExceedsLocal(n) == n > job.limits.stream \/ n > job.limits.job

Outcome(o) == rcv' = [rcv EXCEPT !.outcomes = @ \cup {o}]

handleStreamBegin(m) ==
    \/ ExceedsLocal(m.total) /\ Outcome("error")
    \/ /\ ~ ExceedsLocal(m.total)
       /\ rcv' = [rcv EXCEPT !.stream = NewStream("open", m.total)]

\* The provider holds a stream to the length that its begin announced too.
handleStreamChunk(m) ==
    LET s == rcv.stream
        next == Len(s.buf) + m.len
        tooMuch == ExceedsLocal(next) \/ (job.kind = "input" /\ next > s.total)
        expected == s.status = "open" /\ m.seq >= s.seq
    IN  \/ ~ expected /\ UNCHANGED rcv
        \/ expected /\ (m.seq > s.seq \/ tooMuch) /\ Outcome("error")
        \/ /\ expected /\ m.seq = s.seq /\ ~ tooMuch
           /\ rcv' = [rcv EXCEPT !.stream.seq = @ + 1,
                                 !.stream.buf = @ \o [i \in 1..m.len |-> m.from + i]]

\* Fault: only the announced lengths are compared, not what was received.
Complete_Announced(total) == rcv.stream.total \in {Unknown, total}

\* The bytes received have the length and the hash that the sender gave.
Complete(total) == rcv.stream.buf = Data(total)

\* The provider's handler: Validated is set, or the end, without a stream or
\* of another one than was received, is reported.
InputEnd(m) ==
    IF rcv.stream.status = "open" /\ m.total = rcv.stream.total /\ Complete(m.total)
    THEN rcv' = [rcv EXCEPT !.stream.status = "done", !.outcomes = @ \cup {"ok"}]
    ELSE Outcome("error")

\* The waiter's handler, which ignores one.  Its other branch, for an end that
\* comes after the lcp_result(ok), needs two streams: see Waiter.
ResultEnd(m) ==
    \/ rcv.stream.status # "open" /\ UNCHANGED rcv
    \/ /\ rcv.stream.status = "open"
       /\ rcv' = [rcv EXCEPT !.stream.status = "done",
                             !.outcomes = @ \cup IF Complete(m.total) THEN {} ELSE {"error"}]

\* lcp_result(ok) is delivered with the bytes of the stream that is done; one
\* that is not leaves the caller waiting.
handleTerminalResult(m) ==
    IF rcv.stream.status # "done" THEN rcv' = [rcv EXCEPT !.terminal = m.total]
    ELSE IF Complete(m.total) THEN Outcome("ok") ELSE Outcome("error")

Receive ==
    /\ net # <<>>
    /\ LET m == Head(net) IN
       \/ m.type = "begin" /\ handleStreamBegin(m)
       \/ m.type = "chunk" /\ handleStreamChunk(m)
       \/ m.type = "end" /\ job.kind = "input" /\ InputEnd(m)
       \/ m.type = "end" /\ job.kind # "input" /\ ResultEnd(m)
       \/ m.type = "result" /\ handleTerminalResult(m)
       \/ m.type \in {"failed", "error"} /\ Outcome(m.type)
    /\ net' = Tail(net)
    /\ UNCHANGED <<job, snd, faults>>

-----------------------------------------------------------------------------

Sender == SendBegin \/ ReadOutput \/ SendChunk \/ SendEnd \/ sendTerminalOKResult

Next == Sender \/ ReadFails \/ SendFails \/ Lose \/ Receive

Spec == Init /\ [][Next]_vars

\* The sender is one call of a goroutine that waits only for the backend and
\* LND, and the receiver's loop takes every message LND hands to it.
FairSpec == Spec /\ WF_vars(Sender) /\ WF_vars(Receive)

-----------------------------------------------------------------------------
(* Properties. *)

Messages ==
    [type : {"begin", "end", "result"}, total : Lengths \cup {Unknown}]
    \cup [type : {"chunk"}, seq : Nat, from : Nat, len : Nat]
    \cup [type : {"failed", "error"}]

Streams == [status : {"none", "open", "done"}, total : Lengths \cup {Unknown},
            seq : Nat, buf : Seq(Nat)]

\* The type invariant; what was sent and what is pending is never more than
\* there is.
TypeOK ==
    /\ job.kind \in Kinds /\ job.length \in Lengths
    /\ snd \in [pc : {"start", "chunks", "result", "sent", "refused", "reported", "failed"},
                offset : Nat, seq : Nat, pending : Nat]
    /\ snd.offset + snd.pending <= job.length
    /\ net \in Seq(Messages)
    /\ rcv \in [stream : Streams, terminal : Lengths \cup {Unknown},
                outcomes : SUBSET {"ok", "failed", "error"}]
    /\ faults \in 0..MaxFaults

\* Whatever the link loses, a stream that its receiver accepts (the provider by
\* validating the input, the waiter by delivering the result) is exactly the
\* data: no byte is missing, and none is of another place.
AcceptedIsWhole == "ok" \in rcv.outcomes => rcv.stream.buf = Data(job.length)

\* The data bytes that fit into a chunk of any sequence number but 0.
Room == job.limits.payload - ChunkSize(0, 1)

\* No chunk that encodeFitting makes exceeds the receiver's max_payload, each
\* carries data, and the halving at most doubles the number of chunks: of a
\* stream whose length is known each one but the last carries half of what
\* would fit.
ChunksFit ==
    /\ \A i \in 1..Len(net) : net[i].type = "chunk" =>
          /\ net[i].len >= 1
          /\ ChunkSize(net[i].len, net[i].seq) <= job.limits.payload
    /\ job.kind # "streamed" /\ snd.seq > 0 =>
          (snd.seq - 1) * ((Room + 1) \div 2) <= job.length

\* Every message of the transfer and a chunk of one byte fit.
AllFit == Room >= 1 /\ \A t \in DOMAIN Size : Fits(t)

\* What the receiver has to end up with.
Due ==
    LET most == Min({job.limits.stream, job.limits.job - job.input}) IN
    CASE job.length = 0       -> {"error"}
      [] job.length \in 1..most -> {"ok"}
      [] OTHER                -> IF job.kind = "input" THEN {} ELSE {"failed"}

\* With nothing lost, and max_payload not too small for the messages that are
\* not cut, every transfer ends with the one outcome that is due: the limits
\* that the sender keeps are the ones that the receiver enforces, so that what
\* was sent is never refused.
DueOutcome == <>[](faults = 0 /\ AllFit => rcv.outcomes = Due)
=============================================================================
