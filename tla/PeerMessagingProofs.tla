------------------------ MODULE PeerMessagingProofs ------------------------
(***************************************************************************)
(* The types of PeerMessaging, and that manifestSendMu excludes, for any   *)
(* number of faults and any length of the queues.                          *)
(***************************************************************************)
EXTENDS PeerMessaging, FiniteSetTheorems, TLAPS

Types ==
    /\ resending \in SUBSET Nodes
    /\ link \in BOOLEAN
    /\ dir \in [Nodes -> Peer]
    /\ thread \in [Nodes -> [Threads -> Places]]
    /\ sub \in [Nodes -> [Streams -> {"none", "live", "ended"}]]
    /\ events \in [Nodes -> Seq({"online", "offline"})]
    /\ msgs \in [Nodes -> Seq(Messages)]
    /\ faults \in 0..MaxFaults

\* No two threads of a process hold manifestSendMu.
Exclusive ==
    \A n \in Nodes : \A t, u \in Threads :
        thread[n][t] = "mark" /\ thread[n][u] = "mark" => t = u

PInv == Types /\ Exclusive

\* A thread goes somewhere; only one that finds the mutex free takes it.
LEMMA GotoKeeps ==
    ASSUME PInv, NEW n \in Nodes, NEW t \in Threads, NEW place \in Places,
           Goto(n, t, place), place = "mark" => ~ Locked(n)
    PROVE  thread' \in [Nodes -> [Threads -> Places]] /\ Exclusive'
<1>1. thread \in [Nodes -> [Threads -> Places]]
  BY DEF PInv, Types
<1>2. thread' = [thread EXCEPT ![n] = [thread[n] EXCEPT ![t] = place]]
  BY <1>1 DEF Goto
<1>3. thread' \in [Nodes -> [Threads -> Places]]
  BY <1>1, <1>2
<1>4. /\ \A m \in Nodes : m # n => thread'[m] = thread[m]
      /\ thread'[n][t] = place
      /\ \A u \in Threads : u # t => thread'[n][u] = thread[n][u]
  BY <1>1, <1>2
<1>5. ASSUME NEW m \in Nodes, NEW u \in Threads, NEW v \in Threads,
             thread'[m][u] = "mark", thread'[m][v] = "mark"
      PROVE  u = v
  <2>1. CASE m # n
    BY <1>4, <1>5, <2>1 DEF PInv, Exclusive
  <2>2. CASE m = n /\ place = "mark"
    BY <1>4, <1>5, <2>2 DEF Locked
  <2>3. CASE m = n /\ place # "mark"
    BY <1>4, <1>5, <2>3 DEF PInv, Exclusive
  <2> QED BY <2>1, <2>2, <2>3
<1> QED BY <1>3, <1>5 DEF Exclusive

\* The other changes of one component of the state.
LEMMA TransmitKeeps ==
    ASSUME Types, NEW n, NEW m \in Messages, Transmit(n, m)
    PROVE  msgs' \in [Nodes -> Seq(Messages)]
<1>1. CASE UNCHANGED msgs
  BY <1>1 DEF Types
<1>2. CASE msgs' = [msgs EXCEPT ![n] = Append(@, m)]
  <2>1. \A x \in Nodes : msgs[x] \in Seq(Messages) /\ Append(msgs[x], m) \in Seq(Messages)
    BY DEF Types
  <2> QED BY <1>2, <2>1 DEF Types
<1> QED BY <1>1, <1>2 DEF Transmit

LEMMA DirKeeps ==
    ASSUME Types, NEW n \in Nodes, NEW c \in BOOLEAN,
           \/ dir' = [dir EXCEPT ![n].connected = TRUE]
           \/ dir' = [dir EXCEPT ![n].sent = TRUE]
           \/ dir' = [dir EXCEPT ![n].remote = TRUE]
           \/ dir' = [dir EXCEPT ![n] = [Unknown EXCEPT !.connected = c]]
           \/ dir' = [dir EXCEPT ![n] = Unknown]
    PROVE  dir' \in [Nodes -> Peer]
<1>1. dir \in [Nodes -> Peer] /\ dir[n] \in Peer
  BY DEF Types
<1>2. /\ [dir[n] EXCEPT !.connected = TRUE] \in Peer
      /\ [dir[n] EXCEPT !.sent = TRUE] \in Peer
      /\ [dir[n] EXCEPT !.remote = TRUE] \in Peer
  BY <1>1 DEF Peer
<1>3. Unknown \in Peer /\ [Unknown EXCEPT !.connected = c] \in Peer
  BY DEF Peer, Unknown
<1>4. ASSUME NEW p \in Peer, dir' = [dir EXCEPT ![n] = p] PROVE dir' \in [Nodes -> Peer]
  BY <1>1, <1>4
<1> QED BY <1>2, <1>3, <1>4

\* An event of the link is reported to the nodes that listen.
LEMMA EventsKeep ==
    ASSUME Types, NEW e \in {"online", "offline"},
           events' = [n \in Nodes |->
               IF sub[n]["events"] = "live" THEN Append(events[n], e) ELSE events[n]]
    PROVE  events' \in [Nodes -> Seq({"online", "offline"})]
<1>1. \A n \in Nodes : events[n] \in Seq({"online", "offline"})
  BY DEF Types
<1>2. \A n \in Nodes : Append(events[n], e) \in Seq({"online", "offline"})
  BY <1>1
<1> QED BY <1>1, <1>2

LEMMA ThreadsSame ==
    ASSUME PInv, UNCHANGED thread
    PROVE  Exclusive' /\ thread' \in [Nodes -> [Threads -> Places]]
  BY DEF PInv, Types, Exclusive

LEMMA Faults == ASSUME Types, Fault PROVE faults' \in 0..MaxFaults
  BY PeerAssumption DEF Types, Fault

LEMMA StepKeeps == ASSUME PInv, NEW n \in Nodes, Step(n) PROVE PInv'
<1> USE DEF PInv
<1>1. ASSUME NEW s \in Streams, Subscribe(n, s) PROVE PInv'
  <2>1. sub' \in [Nodes -> [Streams -> {"none", "live", "ended"}]]
    BY <1>1 DEF Subscribe, Types
  <2> QED BY <1>1, <2>1, ThreadsSame DEF Subscribe, Types
<1>2. CASE HandlePeerEvent(n)
  <2>1. events' \in [Nodes -> Seq({"online", "offline"})]
    BY <1>2 DEF HandlePeerEvent, Types
  <2>2. dir' \in [Nodes -> Peer]
    BY <1>2, DirKeeps DEF HandlePeerEvent
  <2>3. Exclusive' /\ thread' \in [Nodes -> [Threads -> Places]]
    BY <1>2, GotoKeeps, ThreadsSame DEF HandlePeerEvent, Threads, Places
  <2> QED BY <1>2, <2>1, <2>2, <2>3 DEF HandlePeerEvent, Types
<1>3. CASE HandleCustomMessage(n)
  <2>1. msgs' \in [Nodes -> Seq(Messages)]
    BY <1>3 DEF HandleCustomMessage, Types
  <2>2. dir' \in [Nodes -> Peer]
    BY <1>3, DirKeeps DEF HandleCustomMessage
  <2>3. Exclusive' /\ thread' \in [Nodes -> [Threads -> Places]]
    BY <1>3, GotoKeeps, ThreadsSame DEF HandleCustomMessage, Threads, Places
  <2>4. link' \in BOOLEAN /\ events' \in [Nodes -> Seq({"online", "offline"})]
    BY <1>3, EventsKeep DEF HandleCustomMessage, Drop, Types
  <2> QED BY <1>3, <2>1, <2>2, <2>3, <2>4 DEF HandleCustomMessage, Types
<1>4. CASE ApplyManifest(n)
  <2>1. dir' \in [Nodes -> Peer]
    BY <1>4, DirKeeps DEF ApplyManifest
  <2>2. Exclusive' /\ thread' \in [Nodes -> [Threads -> Places]]
    BY <1>4, GotoKeeps DEF ApplyManifest, Threads, Places
  <2> QED BY <1>4, <2>1, <2>2 DEF ApplyManifest, Types
<1>5. CASE ResendTick(n)
  <2>1. msgs' \in [Nodes -> Seq(Messages)]
    BY <1>5, TransmitKeeps DEF ResendTick, Messages
  <2>2. Exclusive' /\ thread' \in [Nodes -> [Threads -> Places]]
    BY <1>5, GotoKeeps DEF ResendTick, Threads, Places
  <2> QED BY <1>5, <2>1, <2>2 DEF ResendTick, Types
<1>6. ASSUME NEW t \in Threads, sendManifest(n, t) PROVE PInv'
  <2>1. msgs' \in [Nodes -> Seq(Messages)]
    BY <1>6, TransmitKeeps DEF sendManifest, Messages
  <2>2. Exclusive' /\ thread' \in [Nodes -> [Threads -> Places]]
    BY <1>6, GotoKeeps DEF sendManifest, Places
  <2> QED BY <1>6, <2>1, <2>2 DEF sendManifest, Types
<1>7. ASSUME NEW t \in Threads, MarkManifestSent(n, t) PROVE PInv'
  <2>1. dir' \in [Nodes -> Peer]
    BY <1>7, DirKeeps DEF MarkManifestSent
  <2>2. Exclusive' /\ thread' \in [Nodes -> [Threads -> Places]]
    BY <1>7, GotoKeeps DEF MarkManifestSent, Places
  <2> QED BY <1>7, <2>1, <2>2 DEF MarkManifestSent, Types
<1>8. ASSUME NEW t \in Threads, SkipManifest(n, t) PROVE PInv'
  <2>1. faults' \in 0..MaxFaults
    BY <1>8, PeerAssumption DEF SkipManifest, Types
  <2>2. Exclusive' /\ thread' \in [Nodes -> [Threads -> Places]]
    BY <1>8, GotoKeeps DEF SkipManifest, Places
  <2> QED BY <1>8, <2>1, <2>2 DEF SkipManifest, Types
<1> QED BY <1>1, <1>2, <1>3, <1>4, <1>5, <1>6, <1>7, <1>8 DEF Step

LEMMA EnvironmentKeeps == ASSUME PInv, Environment PROVE PInv'
<1> USE DEF PInv
<1>1. CASE LinkUp
  BY <1>1, EventsKeep, ThreadsSame DEF LinkUp, Types
<1>2. CASE LinkDown
  <2>1. \A n \in Nodes : msgs[n] \in Seq(Messages)
    BY DEF Types
  <2>2. \A n \in Nodes : Prefixes(msgs[n]) \subseteq Seq(Messages)
    <3> TAKE n \in Nodes
    <3>1. \A i \in 0..Len(msgs[n]) : SubSeq(msgs[n], 1, i) \in Seq(Messages)
      BY <2>1
    <3> QED BY <3>1 DEF Prefixes
  <2>3. msgs' \in [Nodes -> Seq(Messages)]
    BY <1>2, <2>2 DEF LinkDown
  <2>4. events' \in [Nodes -> Seq({"online", "offline"})]
    BY <1>2, EventsKeep DEF LinkDown, Drop
  <2> QED BY <1>2, <2>3, <2>4, Faults, ThreadsSame DEF LinkDown, Drop, Types
<1>3. ASSUME NEW n \in Nodes, Restart(n) PROVE PInv'
  <2>1. link \in BOOLEAN /\ Types
    BY DEF Types
  <2>2. dir' \in [Nodes -> Peer]
    BY <1>3, <2>1, DirKeeps DEF Restart
  <2>3. /\ sub' \in [Nodes -> [Streams -> {"none", "live", "ended"}]]
        /\ events' \in [Nodes -> Seq({"online", "offline"})]
        /\ msgs' \in [Nodes -> Seq(Messages)]
    BY <1>3 DEF Restart, Types
  <2>4. /\ Starting(link) \in [Threads -> Places]
        /\ \A t \in Threads : Starting(link)[t] # "mark"
    BY DEF Starting, AllIdle, Threads, Places
  <2>5. /\ thread' \in [Nodes -> [Threads -> Places]]
        /\ thread'[n] = Starting(link)
        /\ \A m \in Nodes : m # n => thread'[m] = thread[m]
    BY <1>3, <2>4 DEF Restart, Types
  <2>6. Exclusive'
    BY <2>4, <2>5 DEF Exclusive
  <2> QED BY <1>3, <2>2, <2>3, <2>5, <2>6, Faults DEF Restart, Types
<1>4. ASSUME NEW n \in Nodes, PeerSends(n) PROVE PInv'
  <2>1. msgs' \in [Nodes -> Seq(Messages)]
    BY <1>4, TransmitKeeps DEF PeerSends
  <2> QED BY <1>4, <2>1, Faults, ThreadsSame DEF PeerSends, Types
<1>5. ASSUME NEW n \in Nodes, NEW s \in Streams, StreamEnds(n, s) PROVE PInv'
  <2>1. /\ sub' \in [Nodes -> [Streams -> {"none", "live", "ended"}]]
        /\ events' \in [Nodes -> Seq({"online", "offline"})]
        /\ msgs' \in [Nodes -> Seq(Messages)]
    <3>1. sub' \in [Nodes -> [Streams -> {"none", "live", "ended"}]]
      BY <1>5 DEF StreamEnds, Types
    <3>2. CASE events' = [events EXCEPT ![n] = <<>>] /\ UNCHANGED msgs
      BY <3>1, <3>2 DEF Types
    <3>3. CASE msgs' = [msgs EXCEPT ![n] = <<>>] /\ UNCHANGED events
      BY <3>1, <3>3 DEF Types
    <3> QED BY <1>5, <3>2, <3>3 DEF StreamEnds
  <2> QED BY <1>5, <2>1, Faults, ThreadsSame DEF StreamEnds, Types
<1> QED BY <1>1, <1>2, <1>3, <1>4, <1>5, PeerAssumption DEF Environment

\* Exclusive in the form in which TypeOK has it.
LEMMA ExclusiveCounts ==
    ASSUME Exclusive, NEW n \in Nodes
    PROVE  Cardinality({t \in Threads : thread[n][t] = "mark"}) <= 1
<1> DEFINE holders == {t \in Threads : thread[n][t] = "mark"}
<1>1. CASE holders = {}
  BY <1>1, FS_EmptySet
<1>2. CASE holders # {}
  <2>1. PICK t \in holders : TRUE
    BY <1>2
  <2>2. holders = {t}
    BY <2>1 DEF Exclusive
  <2>3. Cardinality({t}) = 1
    BY FS_Singleton
  <2> QED BY <2>2, <2>3
<1> QED BY <1>1, <1>2

\* The variables keep their types, and manifestSendMu is held by at most one
\* thread of a process: none looks at ManifestSent while another one is about
\* to call MarkManifestSent (sendManifestIfNotSent, sendManifestAndMarkSent).
THEOREM TypeCorrect == Spec => []TypeOK
<1>1. Init => PInv
  <2> SUFFICES ASSUME Init PROVE PInv
    OBVIOUS
  <2>1. /\ Starting(link) \in [Threads -> Places]
        /\ \A t \in Threads : Starting(link)[t] # "mark"
    BY DEF Starting, AllIdle, Threads, Places
  <2>2. [Unknown EXCEPT !.connected = link] \in Peer
    BY DEF Init, Unknown, Peer
  <2>3. Exclusive
    BY <2>1 DEF Init, Exclusive
  <2> QED BY <2>1, <2>2, <2>3, PeerAssumption DEF Init, PInv, Types
<1>2. PInv /\ [Next]_vars => PInv'
  <2>1. PInv /\ UNCHANGED vars => PInv'
    BY DEF PInv, Types, Exclusive, vars
  <2> QED BY <2>1, StepKeeps, EnvironmentKeeps DEF Next
<1>3. PInv => TypeOK
  BY ExclusiveCounts DEF PInv, Types, TypeOK
<1> QED BY <1>1, <1>2, <1>3, PTL DEF Spec
=============================================================================
