--------------------------- MODULE PeerMessaging ---------------------------
(***************************************************************************)
(* The exchange of lcp_manifest between two nodes that both run go-lcpd    *)
(* (lndpeermsg.PeerMessaging and peerdirectory.Directory), over LND.       *)
(*                                                                         *)
(* Each process has four threads: "start", which ends before the loops do  *)
(* anything; "events" (peerEventsLoop), "msgs" (customMessagesLoop) and    *)
(* "resend" (manifestResendLoop).  They share the directory, whose methods *)
(* hold its mutex, and manifestSendMu, which a thread holds from the look  *)
(* at ManifestSent until MarkManifestSent: here, while it is at "mark".    *)
(*                                                                         *)
(* LND reports events and messages on two streams of their own, so that    *)
(* nothing orders an event with respect to a message.  What LND receives   *)
(* while nobody is subscribed is lost.                                     *)
(***************************************************************************)
EXTENDS Naturals, Sequences, FiniteSets

CONSTANTS
    Nodes,              \* the two nodes
    Failing,            \* the ones whose process, streams or calls may fail
    MaxFaults,          \* bound: lost links and streams, restarts, failed calls
    MaxQueue            \* bound: messages on their way when a resend is due

VARIABLES
    resending,          \* the nodes whose ManifestResendInterval is positive
    link,               \* whether the two LND nodes are connected
    dir,                \* a node's directory entry of the other one
    thread,             \* where the threads of a node are
    sub,                \* the two subscriptions of a node
    events,             \* peer events a node has not handled yet
    msgs,               \* custom messages a node has not handled yet
    faults

vars == <<resending, link, dir, thread, sub, events, msgs, faults>>

ASSUME PeerAssumption ==
    /\ IsFiniteSet(Nodes) /\ Cardinality(Nodes) = 2 /\ Failing \subseteq Nodes
    /\ MaxFaults \in Nat /\ MaxQueue \in Nat

Other(n) == CHOOSE m \in Nodes : m # n

Threads == {"start", "events", "msgs", "resend"}
Streams == {"events", "msgs"}

\* send and force are before the calls of sendManifestIfNotSent and
\* sendManifestAndMarkSent; first and again are between the look at the
\* directory and MarkLCPReady, for a peer without and with a manifest.
Places == {"idle", "first", "again", "send", "force", "mark"}

\* peerdirectory.Peer.  CustomMsgEnabled is set and reset together with
\* Connected.
Peer == [connected : BOOLEAN, sent : BOOLEAN, remote : BOOLEAN]

\* updateLCPReadyLocked
LCPReady(n) == dir[n].connected /\ dir[n].sent /\ dir[n].remote

\* A message is an lcp_manifest, any other message that is not answered here,
\* or one of an unknown even type.
Messages == {"manifest", "other", "unknown"}

Unknown == [connected |-> FALSE, sent |-> FALSE, remote |-> FALSE]

AllIdle == [t \in Threads |-> "idle"]

\* start: refreshPeers, then sendManifestToConnectedPeersOnce.
Starting(up) == [AllIdle EXCEPT !["start"] = IF up THEN "send" ELSE "idle"]

Init ==
    /\ resending \in SUBSET Nodes
    /\ link \in BOOLEAN
    /\ dir = [n \in Nodes |-> [Unknown EXCEPT !.connected = link]]
    /\ thread = [n \in Nodes |-> Starting(link)]
    /\ sub = [n \in Nodes |-> [s \in Streams |-> "none"]]
    /\ events = [n \in Nodes |-> <<>>]
    /\ msgs = [n \in Nodes |-> <<>>]
    /\ faults = 0

-----------------------------------------------------------------------------
(* The threads of a process. *)

Running(n) == thread[n]["start"] = "idle"

Locked(n) == \E t \in Threads : thread[n][t] = "mark"

Goto(n, t, place) == thread' = [thread EXCEPT ![n][t] = place]

\* SubscribePeerEvents and SubscribeCustomMessages are retried until they
\* succeed, and called again when the stream breaks.
Subscribe(n, s) ==
    /\ Running(n) /\ sub[n][s] = "none"
    /\ sub' = [sub EXCEPT ![n][s] = "live"]
    /\ UNCHANGED <<resending, link, dir, thread, events, msgs, faults>>

\* PEER_ONLINE: refreshPeers, which may fail, and markPeerConnected.
\* PEER_OFFLINE: MarkDisconnected.
HandlePeerEvent(n) ==
    /\ Running(n) /\ thread[n]["events"] = "idle" /\ events[n] # <<>>
    /\ events' = [events EXCEPT ![n] = Tail(@)]
    /\ \/ /\ Head(events[n]) = "online"
          /\ dir' = [dir EXCEPT ![n].connected = TRUE]
          /\ Goto(n, "events", "send")
       \/ /\ Head(events[n]) = "offline"
          /\ dir' = [dir EXCEPT ![n] = Unknown]
          /\ UNCHANGED thread
    /\ UNCHANGED <<resending, link, sub, msgs, faults>>

\* The other node is told of the end of the connection, too; what is on its
\* way is lost, except for what LND has handed over already.
Drop ==
    /\ link' = FALSE
    /\ events' = [n \in Nodes |->
           IF sub[n]["events"] = "live" THEN Append(events[n], "offline") ELSE events[n]]

\* Fault: every manifest is answered.
ApplyManifest_AlwaysReply(n) ==
    /\ thread[n]["msgs"] \in {"first", "again"}
    /\ dir' = [dir EXCEPT ![n].remote = TRUE]
    /\ Goto(n, "msgs", "force")
    /\ UNCHANGED <<resending, link, sub, events, msgs, faults>>

\* Whatever the message is, its sender is marked as connected.
HandleCustomMessage(n) ==
    /\ Running(n) /\ sub[n]["msgs"] = "live"
    /\ thread[n]["msgs"] = "idle" /\ msgs[n] # <<>>
    /\ msgs' = [msgs EXCEPT ![n] = Tail(@)]
    /\ dir' = [dir EXCEPT ![n].connected = TRUE]
    /\ \/ /\ Head(msgs[n]) = "manifest"
          /\ Goto(n, "msgs", IF dir[n].remote THEN "again" ELSE "first")
          /\ UNCHANGED <<link, events>>
       \/ /\ Head(msgs[n]) = "other"
          /\ UNCHANGED <<link, events, thread>>
       \/ /\ Head(msgs[n]) = "unknown"
          /\ \/ link /\ Drop
             \/ UNCHANGED <<link, events>>
          /\ UNCHANGED thread
    /\ UNCHANGED <<resending, sub, faults>>

\* MarkLCPReady; the first manifest is answered even if ours was sent before.
ApplyManifest(n) ==
    /\ thread[n]["msgs"] \in {"first", "again"}
    /\ dir' = [dir EXCEPT ![n].remote = TRUE]
    /\ Goto(n, "msgs", IF thread[n]["msgs"] = "first" THEN "force" ELSE "send")
    /\ UNCHANGED <<resending, link, sub, events, msgs, faults>>

\* A message that LND receives while nobody is subscribed is lost; it may also
\* arrive later.
Transmit(n, m) ==
    \/ /\ sub[n]["msgs"] # "ended"
       /\ msgs' = [msgs EXCEPT ![n] = Append(@, m)]
    \/ /\ sub[n]["msgs"] # "live"
       /\ UNCHANGED msgs

\* The manifest is not to be sent, or SendCustomMessage fails.
SkipManifest(n, t) ==
    /\ ~ Locked(n)
    /\ \/ thread[n][t] = "send" /\ dir[n].sent /\ UNCHANGED faults
       \/ thread[n][t] \in {"send", "force"} /\ ~ link /\ UNCHANGED faults
       \/ /\ thread[n][t] \in {"send", "force"} /\ link
          /\ n \in Failing /\ faults < MaxFaults /\ faults' = faults + 1
    /\ Goto(n, t, "idle")
    /\ UNCHANGED <<resending, link, dir, sub, events, msgs>>

\* Fault: manifestSendMu is not taken.
sendManifest_NoLock(n, t) ==
    /\ \/ thread[n][t] = "send" /\ ~ dir[n].sent
       \/ thread[n][t] = "force"
    /\ link
    /\ Transmit(Other(n), "manifest")
    /\ Goto(n, t, "mark")
    /\ UNCHANGED <<resending, link, dir, sub, events, faults>>

sendManifest(n, t) ==
    /\ ~ Locked(n)
    /\ \/ thread[n][t] = "send" /\ ~ dir[n].sent
       \/ thread[n][t] = "force"
    /\ link
    /\ Transmit(Other(n), "manifest")
    /\ Goto(n, t, "mark")
    /\ UNCHANGED <<resending, link, dir, sub, events, faults>>

\* Fault: a tick sends only a manifest that was not sent before.
ResendTick_IfNotSent(n) ==
    /\ n \in resending /\ Running(n) /\ ~ Locked(n)
    /\ Len(msgs[Other(n)]) < MaxQueue
    /\ dir[n].connected /\ ~ dir[n].sent /\ link
    /\ Transmit(Other(n), "manifest")
    /\ Goto(n, "resend", "mark")
    /\ UNCHANGED <<resending, link, dir, sub, events, faults>>

\* sendManifestToConnectedPeers, called on every tick; a call that fails
\* changes nothing.
ResendTick(n) ==
    /\ n \in resending /\ Running(n) /\ ~ Locked(n)
    /\ Len(msgs[Other(n)]) < MaxQueue
    /\ dir[n].connected /\ link
    /\ Transmit(Other(n), "manifest")
    /\ Goto(n, "resend", "mark")
    /\ UNCHANGED <<resending, link, dir, sub, events, faults>>

MarkManifestSent(n, t) ==
    /\ thread[n][t] = "mark"
    /\ dir' = [dir EXCEPT ![n].sent = TRUE]
    /\ Goto(n, t, "idle")
    /\ UNCHANGED <<resending, link, sub, events, msgs, faults>>

-----------------------------------------------------------------------------
(* LND and the other things that happen to a process. *)

Fault == faults < MaxFaults /\ faults' = faults + 1

Prefixes(q) == {SubSeq(q, 1, i) : i \in 0..Len(q)}

LinkUp ==
    /\ ~ link /\ link' = TRUE
    /\ events' = [n \in Nodes |->
           IF sub[n]["events"] = "live" THEN Append(events[n], "online") ELSE events[n]]
    /\ UNCHANGED <<resending, dir, thread, sub, msgs, faults>>

LinkDown ==
    /\ Fault /\ link /\ Drop
    /\ \E q \in [Nodes -> UNION {Prefixes(msgs[n]) : n \in Nodes}] :
           /\ \A n \in Nodes : q[n] \in Prefixes(msgs[n])
           /\ msgs' = q
    /\ UNCHANGED <<resending, dir, thread, sub>>

\* Recv fails: with io.EOF the loop ends for good, otherwise it subscribes anew.
StreamEnds(n, s) ==
    /\ Fault /\ sub[n][s] = "live"
    /\ \E state \in {"none", "ended"} : sub' = [sub EXCEPT ![n][s] = state]
    /\ IF s = "events" THEN events' = [events EXCEPT ![n] = <<>>] /\ UNCHANGED msgs
                       ELSE msgs' = [msgs EXCEPT ![n] = <<>>] /\ UNCHANGED events
    /\ UNCHANGED <<resending, link, dir, thread>>

Restart(n) ==
    /\ Fault
    /\ dir' = [dir EXCEPT ![n] = [Unknown EXCEPT !.connected = link]]
    /\ thread' = [thread EXCEPT ![n] = Starting(link)]
    /\ sub' = [sub EXCEPT ![n] = [s \in Streams |-> "none"]]
    /\ events' = [events EXCEPT ![n] = <<>>]
    /\ msgs' = [msgs EXCEPT ![n] = <<>>]
    /\ UNCHANGED <<resending, link>>

\* A message about a job, or one of a type this version does not know.
PeerSends(n) ==
    /\ Fault /\ link
    /\ \E m \in Messages \ {"manifest"} : Transmit(n, m)
    /\ UNCHANGED <<resending, link, dir, thread, sub, events>>

-----------------------------------------------------------------------------

\* What a process does by itself.
Step(n) ==
    \/ \E s \in Streams : Subscribe(n, s)
    \/ HandlePeerEvent(n) \/ HandleCustomMessage(n) \/ ApplyManifest(n) \/ ResendTick(n)
    \/ \E t \in Threads : sendManifest(n, t) \/ MarkManifestSent(n, t) \/ SkipManifest(n, t)

Environment ==
    \/ LinkUp \/ LinkDown
    \/ \E n \in Failing : Restart(n) \/ PeerSends(n) \/ \E s \in Streams : StreamEnds(n, s)

Next == Environment \/ \E n \in Nodes : Step(n)

Spec == Init /\ [][Next]_vars

ThreadStep(n, t) ==
    \/ t = "events" /\ HandlePeerEvent(n)
    \/ t = "msgs" /\ (HandleCustomMessage(n) \/ ApplyManifest(n))
    \/ t = "resend" /\ ResendTick(n)
    \/ sendManifest(n, t) \/ MarkManifestSent(n, t)
    \/ (~ link \/ dir[n].sent) /\ SkipManifest(n, t)

\* Every goroutine that can go on does, and a mutex of Go does not keep one
\* waiting for ever while the resend loop takes it again and again.
Fairness ==
    \A n \in Nodes :
        /\ \A s \in Streams : WF_vars(Subscribe(n, s))
        /\ \A t \in Threads : WF_vars(ThreadStep(n, t))
        /\ SF_vars(\E t \in Streams : sendManifest(n, t) \/ SkipManifest(n, t))

FairSpec == Spec /\ Fairness

-----------------------------------------------------------------------------
(* Properties. *)

\* Every variable has its type, and at most one thread of a process is between
\* the sending of a manifest and MarkManifestSent (manifestSendMu).
TypeOK ==
    /\ resending \in SUBSET Nodes
    /\ link \in BOOLEAN
    /\ dir \in [Nodes -> Peer]
    /\ thread \in [Nodes -> [Threads -> Places]]
    /\ \A n \in Nodes : Cardinality({t \in Threads : thread[n][t] = "mark"}) <= 1
    /\ sub \in [Nodes -> [Streams -> {"none", "live", "ended"}]]
    /\ events \in [Nodes -> Seq({"online", "offline"})]
    /\ msgs \in [Nodes -> Seq(Messages)]
    /\ faults \in 0..MaxFaults

\* Both processes run, are connected, and hear of it.
Stable ==
    /\ link
    /\ \A n \in Nodes : Running(n) /\ \A s \in Streams : sub[n][s] = "live"

\* A node whose peer sends its manifest periodically, and knows that the two
\* are connected, ends up ready for that peer, whatever has been lost before
\* (spec.md:386, manifestResendLoop).
EventuallyReady ==
    \A n \in Nodes :
        Other(n) \in resending /\ <>[](Stable /\ dir[Other(n)].connected)
            => <>[]LCPReady(n)

\* Without periodic sending the two nodes do not answer each other's manifests
\* for ever (spec.md:385, "to avoid infinite loops").
ManifestsCease ==
    resending = {} => <>[](\A n \in Nodes : msgs[n] = <<>> /\ thread[n] = AllIdle)

\* Nothing is on its way and nobody has anything left to do.
Quiet == Stable /\ \A n \in Nodes : events[n] = <<>> /\ msgs[n] = <<>> /\ thread[n] = AllIdle

\* peermsg.go:439: the reply to the first manifest is there "to avoid ending up
\* in a one-sided LCP-ready state".
NoOneSidedReady ==
    resending = {} /\ Quiet => \A m, n \in Nodes : LCPReady(m) => LCPReady(n)
=============================================================================
