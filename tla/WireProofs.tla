----------------------------- MODULE WireProofs -----------------------------
(***************************************************************************)
(* What encoders, decoders, the check of a request and the terms hash have *)
(* to do with each other, for any 32-byte values and any number of records *)
(* that differ.                                                            *)
(***************************************************************************)
EXTENDS Wire, TLAPS

-----------------------------------------------------------------------------
(* The tables of types. *)

LEMMA EnvelopeTypes ==
    DOMAIN Envelope = {1, 2, 3, 4} /\ Envelope[3] = B32
  BY DEF Envelope, :>, @@

LEMMA ResultTypes ==
    LET s == Schema["result"]
    IN  /\ 100 \in DOMAIN s.required /\ 81 \notin DOMAIN s.required
        /\ DOMAIN ResultOK \subseteq DOMAIN s.optional /\ 81 \notin DOMAIN ResultOK
<1>1. DOMAIN ResultOK = {101, 102, 103, 104, 105}
  BY DEF ResultOK, :>, @@
<1>2. DOMAIN (Envelope @@ (100 :> 0..2)) = {1, 2, 3, 4, 100}
  BY EnvelopeTypes DEF :>, @@
<1>3. DOMAIN ((81 :> Text) @@ ResultOK) = {81, 101, 102, 103, 104, 105}
  BY <1>1 DEF :>, @@
<1>4. /\ Schema["result"].required = Envelope @@ (100 :> 0..2)
      /\ Schema["result"].optional = (81 :> Text) @@ ResultOK
  BY DEF Schema, Result
<1> QED BY <1>1, <1>2, <1>3, <1>4

LEMMA ChunkTypes ==
    LET s == Schema["stream_chunk"]
    IN  /\ {3, 90, 96} \subseteq DOMAIN s.required
        /\ s.required[3] = B32 /\ s.required[96] = TU
<1> DEFINE a == Envelope @@ (90 :> B32)
           b == a @@ (96 :> TU)
           c == b @@ (97 :> Text)
<1>1. DOMAIN a = {1, 2, 3, 4, 90} /\ a[3] = B32
  BY EnvelopeTypes DEF :>, @@
<1> HIDE DEF a
<1>2. DOMAIN b = {1, 2, 3, 4, 90, 96} /\ b[3] = B32 /\ b[96] = TU
  BY <1>1 DEF :>, @@
<1> HIDE DEF b
<1>3. DOMAIN c = {1, 2, 3, 4, 90, 96, 97} /\ c[3] = B32 /\ c[96] = TU
  BY <1>2 DEF :>, @@
<1> HIDE DEF c
<1>4. Schema["stream_chunk"].required = c
  BY DEF Schema, StreamChunk, a, b, c
<1> QED BY <1>3, <1>4

LEMMA ManifestTypes ==
    12 \notin DOMAIN Schema["manifest"].required /\ {2, 3, 4} \cap Known("manifest") = {}
<1> DEFINE s == Schema["manifest"]
<1>1. DOMAIN s.required = {1, 11, 14, 15} /\ DOMAIN s.optional = {12, 16}
  BY DEF Schema, Manifest, :>, @@
<1>2. Known("manifest") = {1, 11, 14, 15} \cup {12, 16}
  BY <1>1 DEF Known
<1> QED BY <1>1, <1>2

LEMMA RequestTypes == {1, 2, 20} \subseteq DOMAIN Schema["quote_request"].required
<1>1. Schema["quote_request"].required = Envelope @@ (20 :> TaskKinds)
  BY DEF Schema, QuoteRequest
<1> QED BY <1>1, EnvelopeTypes DEF :>, @@

-----------------------------------------------------------------------------
(* Decoders and encoders. *)

\* The types that a decoder leaves out.
Dropped(k, m) ==
    {t \in DOMAIN m :
        \/ t \notin Known(k)
        \/ k = "result" /\ t = 81 /\ m[100] = 0
        \/ k = "manifest" /\ t = 12 /\ m[12] = <<>>}

LEMMA DecodeValue ==
    ASSUME NEW k, NEW m
    PROVE  Decode(k, m) =
               IF Decodable(k, m) THEN Restrict(m, DOMAIN m \ Dropped(k, m)) ELSE Malformed
  BY DEF Decode, Dropped

\* Of two streams with the same known types, both can be decoded or neither.
LEMMA UnknownIgnored ==
    ASSUME NEW k \in DOMAIN Schema, NEW m, NEW n,
           DOMAIN m \cap Known(k) = DOMAIN n \cap Known(k),
           \A t \in DOMAIN n \cap Known(k) : m[t] = n[t],
           k = "manifest" => {2, 3, 4} \cap DOMAIN m = {},
           Decodable(k, n)
    PROVE  Decodable(k, m)
<1> DEFINE s == Schema[k]
<1>1. DOMAIN s.required \subseteq Known(k) /\ DOMAIN s.optional \subseteq Known(k)
  BY DEF Known
<1>2. /\ \A t \in DOMAIN s.required : t \in DOMAIN n /\ n[t] \in s.required[t]
      /\ \A t \in DOMAIN s.optional \cap DOMAIN n : n[t] \in s.optional[t]
  BY DEF Decodable, WellFormed
<1>3. /\ \A t \in DOMAIN s.required : t \in DOMAIN m /\ m[t] = n[t] /\ m[t] \in s.required[t]
      /\ \A t \in DOMAIN s.optional \cap DOMAIN m : m[t] \in s.optional[t]
  BY <1>1, <1>2
<1>4. ASSUME k = "result"
      PROVE  IF m[100] = 0 THEN DOMAIN ResultOK \subseteq DOMAIN m
             ELSE DOMAIN ResultOK \cap DOMAIN m = {}
  <2>1. m[100] = n[100]
    BY <1>3, <1>4, ResultTypes
  <2>2. DOMAIN ResultOK \subseteq Known(k)
    BY <1>1, <1>4, ResultTypes
  <2>3. IF n[100] = 0 THEN DOMAIN ResultOK \subseteq DOMAIN n
        ELSE DOMAIN ResultOK \cap DOMAIN n = {}
    BY <1>4 DEF Decodable, WellFormed
  <2> QED BY <2>1, <2>2, <2>3
<1>5. ASSUME k = "stream_chunk" PROVE m[3] = <<m[90], m[96]>>
  <2>1. m[3] = n[3] /\ m[90] = n[90] /\ m[96] = n[96]
    BY <1>3, <1>5, ChunkTypes
  <2> QED BY <1>5, <2>1 DEF Decodable
<1> QED BY <1>3, <1>4, <1>5 DEF Decodable, WellFormed

\* What can be encoded is decoded, once it is encoded.
LEMMA EncodedDecodes ==
    ASSUME NEW k \in DOMAIN Schema, NEW x, CanEncode(k, x),
           k = "stream_chunk" => x[90] \in Hashes
    PROVE  Decodable(k, Encode(k, x))
<1> DEFINE s == Schema[k]
           y == Encode(k, x)
<1>1. /\ \A t \in DOMAIN s.required : t \in DOMAIN x /\ x[t] \in s.required[t]
      /\ \A t \in DOMAIN s.optional \cap DOMAIN x : x[t] \in s.optional[t]
      /\ WellFormed(k, x)
  BY DEF CanEncode, WellFormed
<1>2. CASE k = "stream_chunk"
  <2>1. y = [x EXCEPT ![3] = <<x[90], x[96]>>]
    BY <1>2 DEF Encode
  <2>2. 3 \in DOMAIN s.required /\ 90 \in DOMAIN s.required /\ 96 \in DOMAIN s.required
    BY <1>2, ChunkTypes
  <2>3. 3 \in DOMAIN x /\ 90 \in DOMAIN x /\ 96 \in DOMAIN x /\ x[96] \in TU
    BY <1>1, <1>2, <2>2, ChunkTypes
  <2>4. <<x[90], x[96]>> \in B32
    BY <1>2, <2>3 DEF B32, ChunkIds
  <2> HIDE DEF y
  <2>5. /\ DOMAIN y = DOMAIN x /\ y[3] = <<x[90], x[96]>>
        /\ \A t \in DOMAIN x : t # 3 => y[t] = x[t]
    BY <2>1, <2>3
  <2>6. s.required[3] = B32
    BY <1>2, ChunkTypes
  <2>7. \A t \in DOMAIN s.required : t \in DOMAIN y /\ y[t] \in s.required[t]
    BY <1>1, <2>4, <2>5, <2>6
  <2>8. \A t \in DOMAIN s.optional \cap DOMAIN y : y[t] \in s.optional[t]
    <3>1. DOMAIN s.optional = {}
      BY <1>2 DEF Schema, StreamChunk, EmptyMap
    <3> QED BY <3>1
  <2>9. y[3] = <<y[90], y[96]>>
    BY <2>3, <2>5
  <2> QED BY <1>2, <2>7, <2>8, <2>9 DEF Decodable, WellFormed, y
<1>3. CASE k = "manifest" /\ 12 \in DOMAIN x /\ x[12] = <<>>
  <2>1. y = Delete(x, 12)
    BY <1>3 DEF Encode
  <2> HIDE DEF y
  <2>2. DOMAIN y = DOMAIN x \ {12} /\ \A t \in DOMAIN y : y[t] = x[t]
    BY <2>1 DEF Delete, Restrict
  <2>3. 12 \notin DOMAIN s.required
    BY <1>3, ManifestTypes
  <2>4. \A t \in DOMAIN s.required : t \in DOMAIN y /\ y[t] \in s.required[t]
    BY <1>1, <2>2, <2>3
  <2>5. \A t \in DOMAIN s.optional \cap DOMAIN y : y[t] \in s.optional[t]
    BY <1>1, <2>2
  <2>6. {2, 3, 4} \cap DOMAIN y = {}
    BY <1>1, <1>3, <2>2 DEF WellFormed
  <2> QED BY <1>3, <2>4, <2>5, <2>6 DEF Decodable, WellFormed, y
<1>4. CASE k # "stream_chunk" /\ ~ (k = "manifest" /\ 12 \in DOMAIN x /\ x[12] = <<>>)
  <2>1. y = x
    BY <1>4 DEF Encode
  <2> QED BY <1>1, <1>4, <2>1 DEF Decodable
<1> QED BY <1>2, <1>3, <1>4

\* An encoder writes nothing that a decoder leaves out.
LEMMA EncodedKept ==
    ASSUME NEW k \in DOMAIN Schema, NEW x, CanEncode(k, x), NEW m,
           DOMAIN m \cap Known(k) = DOMAIN Encode(k, x),
           \A t \in DOMAIN Encode(k, x) : m[t] = Encode(k, x)[t]
    PROVE  DOMAIN m \ Dropped(k, m) = DOMAIN Encode(k, x)
<1> DEFINE y == Encode(k, x)
<1>1. ASSUME k = "result" PROVE ~ (81 \in DOMAIN m /\ m[100] = 0)
  <2>1. y = x /\ 100 \in DOMAIN x
    BY <1>1, ResultTypes DEF Encode, CanEncode, WellFormed
  <2>2. m[100] = x[100]
    BY <2>1
  <2>3. 81 \in DOMAIN m => 81 \in DOMAIN x
    <3>1. 81 \in Known("result")
      <4>1. 81 \in DOMAIN ((81 :> Text) @@ ResultOK)
        BY DEF :>, @@
      <4>2. Schema["result"].optional = (81 :> Text) @@ ResultOK
        BY DEF Schema, Result
      <4> QED BY <4>1, <4>2 DEF Known
    <3> QED BY <1>1, <2>1, <3>1
  <2> QED BY <1>1, <2>2, <2>3 DEF CanEncode
<1>2. ASSUME k = "manifest", 12 \in DOMAIN y PROVE m[12] # <<>>
  <2>1. CASE 12 \in DOMAIN x /\ x[12] = <<>>
    BY <1>2, <2>1 DEF Encode, Delete, Restrict
  <2>2. CASE ~ (12 \in DOMAIN x /\ x[12] = <<>>)
    <3>1. y = x
      BY <1>2, <2>2 DEF Encode
    <3> QED BY <1>2, <2>2, <3>1
  <2> QED BY <2>1, <2>2
<1> HIDE DEF y
<1>3. DOMAIN m \cap Known(k) = DOMAIN y
  BY DEF y
<1>4. ASSUME NEW t \in DOMAIN m PROVE t \in Dropped(k, m) <=> t \notin DOMAIN y
  BY <1>1, <1>2, <1>3 DEF Dropped
<1>5. DOMAIN y \subseteq DOMAIN m
  BY <1>3
<1> QED BY <1>4, <1>5 DEF y

\* What has been received is encoded as it is, and is received again as it is.
LEMMA ReceivedKept ==
    ASSUME NEW k \in DOMAIN Schema, NEW m, Decodable(k, m), NEW r,
           r = Restrict(m, DOMAIN m \ Dropped(k, m)), r[1] # 0
    PROVE  CanEncode(k, r) /\ Encode(k, r) = r /\ Decode(k, r) = r
<1> DEFINE s == Schema[k]
<1>1. /\ DOMAIN r = DOMAIN m \ Dropped(k, m) /\ \A t \in DOMAIN r : r[t] = m[t]
      /\ r = [t \in DOMAIN r |-> r[t]]
  BY DEF Restrict
<1>2. /\ \A t \in DOMAIN s.required : t \in DOMAIN m /\ m[t] \in s.required[t]
      /\ \A t \in DOMAIN s.optional \cap DOMAIN m : m[t] \in s.optional[t]
  BY DEF Decodable, WellFormed
<1>3. DOMAIN s.required \subseteq Known(k) /\ DOMAIN s.optional \subseteq Known(k)
  BY DEF Known
<1>4. \A t \in DOMAIN s.required : t \in DOMAIN r /\ r[t] = m[t]
  <2>1. ASSUME NEW t \in DOMAIN s.required PROVE t \notin Dropped(k, m)
    BY <1>3, ResultTypes, ManifestTypes DEF Dropped
  <2> QED BY <1>1, <1>2, <2>1
<1>5. \A t \in DOMAIN s.optional \cap DOMAIN r : r[t] \in s.optional[t]
  BY <1>1, <1>2
<1>6. ASSUME k = "result"
      PROVE  /\ r[100] = m[100]
             /\ IF r[100] = 0 THEN DOMAIN ResultOK \subseteq DOMAIN r
                ELSE DOMAIN ResultOK \cap DOMAIN r = {}
             /\ r[100] = 0 => 81 \notin DOMAIN r
  <2>1. r[100] = m[100]
    BY <1>4, <1>6, ResultTypes
  <2>2. \A t \in DOMAIN ResultOK : t \in Dropped(k, m) => FALSE
    BY <1>3, <1>6, ResultTypes DEF Dropped
  <2>3. IF m[100] = 0 THEN DOMAIN ResultOK \subseteq DOMAIN m
        ELSE DOMAIN ResultOK \cap DOMAIN m = {}
    BY <1>6 DEF Decodable, WellFormed
  <2>4. m[100] = 0 => 81 \notin DOMAIN r
    BY <1>1, <1>6 DEF Dropped
  <2> QED BY <1>1, <2>1, <2>2, <2>3, <2>4
<1>7. ASSUME k = "stream_chunk" PROVE 3 \in DOMAIN r /\ r[3] = <<r[90], r[96]>>
  BY <1>4, <1>7, ChunkTypes DEF Decodable
<1>8. k = "manifest" => {2, 3, 4} \cap DOMAIN r = {} /\ ~ (12 \in DOMAIN r /\ r[12] = <<>>)
  BY <1>1 DEF Decodable, WellFormed, Dropped
<1>9. WellFormed(k, r)
  BY <1>2, <1>4, <1>5, <1>6, <1>8 DEF WellFormed
<1>10. CanEncode(k, r) /\ Decodable(k, r)
  BY <1>6, <1>7, <1>9 DEF CanEncode, Decodable
<1>11. Encode(k, r) = r
  <2>1. CASE k = "stream_chunk"
    <3>1. [r EXCEPT ![3] = <<r[90], r[96]>>] = r
      BY <1>1, <1>7, <2>1
    <3> QED BY <2>1, <3>1 DEF Encode
  <2>2. CASE k # "stream_chunk"
    BY <1>8, <2>2 DEF Encode
  <2> QED BY <2>1, <2>2
<1>12. Dropped(k, r) = {}
  <2>1. ASSUME NEW t \in DOMAIN r PROVE t \notin Dropped(k, r)
    BY <1>1, <1>6, <1>8 DEF Dropped
  <2>2. Dropped(k, r) \subseteq DOMAIN r
    BY DEF Dropped
  <2> QED BY <2>1, <2>2
<1>13. Restrict(r, DOMAIN r \ Dropped(k, r)) = r
  BY <1>1, <1>12 DEF Restrict
<1> QED BY <1>10, <1>11, <1>13, DecodeValue
-----------------------------------------------------------------------------
(* The message on its way. *)

\* What is on its way was encoded, of version 2, and none of its fields is
\* changed any more.
WInv ==
    /\ kind \in DOMAIN Schema
    /\ 1 \in DOMAIN sent /\ sent[1] = 2
    /\ 1 \notin todo
    /\ 90 \in DOMAIN sent => sent[90] \in Hashes
    /\ payload # EmptyMap => todo = {} /\ CanEncode(kind, sent)
    /\ models \in [{"provider", "requester"} -> SUBSET Models]

\* WInv holds throughout: every message is given version 2, a copy of its
\* request's or ProtocolVersionV02, and is encoded before it is sent (Encode*).
THEOREM Invariance == WireSpec => []WInv
<1>1. WireInit => WInv
  <2> SUFFICES ASSUME WireInit PROVE WInv
    OBVIOUS
  <2>1. PICK h \in Hashes, i \in Hashes :
            sent = IF kind = "manifest" THEN 1 :> 2
                   ELSE (1 :> 2) @@ (2 :> h) @@ (3 :> i) @@ (4 :> 1)
    BY DEF WireInit
  <2>2. 1 \in DOMAIN sent /\ sent[1] = 2 /\ 90 \notin DOMAIN sent
    BY <2>1 DEF :>, @@
  <2>3. models \in [{"provider", "requester"} -> SUBSET Models]
    BY DEF WireInit
  <2> QED BY <2>2, <2>3 DEF WireInit, WInv
<1>2. WInv /\ [WireNext]_wireVars => WInv'
  <2> SUFFICES ASSUME WInv, [WireNext]_wireVars PROVE WInv'
    OBVIOUS
  <2>1. CASE SetField
    <3>1. PICK t \in todo :
              /\ todo' = todo \ {t}
              /\ (\E v \in Values(t) : sent' = Put(sent, t, v)) \/ sent' = sent
              /\ UNCHANGED <<kind, payload, faults, models>>
      BY <2>1 DEF SetField
    <3>2. CASE sent' = sent
      BY <3>1, <3>2 DEF WInv
    <3>3. ASSUME NEW v \in Values(t), sent' = Put(sent, t, v) PROVE WInv'
      <4>1. /\ DOMAIN sent' = DOMAIN sent \cup {t} /\ sent'[t] = v
            /\ \A u \in DOMAIN sent : u # t => sent'[u] = sent[u]
        BY <3>3 DEF Put
      <4>2. t = 90 => v \in Hashes
        BY <3>3 DEF Values
      <4>3. t # 1 /\ payload' = EmptyMap
        BY <3>1 DEF WInv
      <4> QED BY <3>1, <4>1, <4>2, <4>3 DEF WInv
    <3> QED BY <3>1, <3>2, <3>3
  <2>2. CASE Send
    BY <2>2 DEF Send, WInv
  <2>3. CASE Deviate
    BY <2>3 DEF Deviate, WInv
  <2>4. CASE UNCHANGED wireVars
    BY <2>4 DEF wireVars, WInv
  <2> QED BY <2>1, <2>2, <2>3, <2>4 DEF WireNext
<1> QED BY <1>1, <1>2, PTL DEF WireSpec

\* A message whose known records are those that were sent.
LEMMA UndamagedReceived ==
    ASSUME WInv, Arrived, Undamaged,
           kind = "manifest" => {2, 3, 4} \cap DOMAIN payload = {}
    PROVE  Received = Encode(kind, sent)
<1> DEFINE y == Encode(kind, sent)
<1>1. CanEncode(kind, sent) /\ kind \in DOMAIN Schema
  BY DEF WInv, Arrived
<1>2. kind = "stream_chunk" => sent[90] \in Hashes
  <2>1. kind = "stream_chunk" => 90 \in DOMAIN sent
    BY <1>1, ChunkTypes DEF CanEncode, WellFormed
  <2> QED BY <2>1 DEF WInv
<1>3. Decodable(kind, y)
  BY <1>1, <1>2, EncodedDecodes
<1> HIDE DEF y
<1>4. y = [t \in DOMAIN payload \cap Known(kind) |-> payload[t]]
  BY DEF Undamaged, Restrict, y
<1>5. /\ DOMAIN payload \cap Known(kind) = DOMAIN y
      /\ \A t \in DOMAIN y : payload[t] = y[t]
  BY <1>4
<1>6. Decodable(kind, payload)
  BY <1>1, <1>3, <1>5, UnknownIgnored
<1>7. DOMAIN payload \ Dropped(kind, payload) = DOMAIN y
  BY <1>1, <1>5, EncodedKept DEF y
<1>8. Restrict(payload, DOMAIN payload \ Dropped(kind, payload)) = y
  BY <1>4, <1>5, <1>7 DEF Restrict
<1> QED BY <1>6, <1>8, DecodeValue DEF Received, y

\* ReadsBack: what an encoder of lcpwire writes is what the decoder returns,
\* with whatever types the decoder does not know.
THEOREM MessagesReadBack == WireSpec => []ReadsBack
<1>1. WInv => ReadsBack
  BY UndamagedReceived DEF ReadsBack
<1> QED BY <1>1, Invariance, PTL

\* AcceptedCanBeSent: what a decoder of lcpwire returns, its encoder accepts,
\* and it is decoded as the same message.
THEOREM ReceivedCanBeSent == WireSpec => []AcceptedCanBeSent
<1>1. WInv => AcceptedCanBeSent
  <2> SUFFICES ASSUME WInv, Arrived, Received # Malformed, Received[1] # 0
               PROVE  /\ CanEncode(kind, Received)
                      /\ Decode(kind, Encode(kind, Received)) = Received
    BY DEF AcceptedCanBeSent
  <2>1. /\ Decodable(kind, payload)
        /\ Received = Restrict(payload, DOMAIN payload \ Dropped(kind, payload))
    BY DecodeValue DEF Received
  <2>2. kind \in DOMAIN Schema
    BY DEF WInv
  <2> QED BY <2>1, <2>2, ReceivedKept
<1> QED BY <1>1, Invariance, PTL

\* TermsBind: a request that ValidateQuoteRequest accepts and that has the
\* ComputeTermsHash of the request that was sent asks for the same task.
THEOREM TermsAreBound == WireSpec => []TermsBind
<1>1. WInv => TermsBind
  <2> DEFINE r == Received
             mine == IF 22 \in DOMAIN r THEN r[22] ELSE EmptyMap
             theirs == IF 22 \in DOMAIN sent THEN sent[22] ELSE EmptyMap
  <2> SUFFICES ASSUME WInv, Arrived, kind = "quote_request", r # Malformed,
                      Accepts(r), ComputeTermsHash(r) = ComputeTermsHash(sent)
               PROVE  \A t \in {1, 2, 20, 22} :
                          /\ t \in DOMAIN r <=> t \in DOMAIN sent
                          /\ t \in DOMAIN sent => r[t] = sent[t]
    BY DEF TermsBind
  <2>1. {1, 2, 20} \subseteq DOMAIN sent
    BY RequestTypes DEF WInv, Arrived, CanEncode, WellFormed
  <2>2. /\ Decodable(kind, payload)
        /\ DOMAIN r = DOMAIN payload \ Dropped(kind, payload)
    BY DecodeValue DEF Received, Restrict
  <2>3. {1, 2, 20} \subseteq DOMAIN r
    <3>1. {1, 2, 20} \subseteq DOMAIN payload /\ {1, 2, 20} \subseteq Known(kind)
      BY <2>2, RequestTypes DEF Decodable, WellFormed, Known
    <3>2. Dropped(kind, payload) \cap Known(kind) = {}
      BY DEF Dropped
    <3> QED BY <2>2, <3>1, <3>2
  <2>4. 22 \in DOMAIN r /\ DOMAIN r[22] = {1}
    BY DEF Accepts, ValidateQuoteRequest, validateTaskParams
  <2> HIDE DEF r
  <2>5. <<r[1], r[2], r[20], mine>> = <<sent[1], sent[2], sent[20], theirs>>
    BY DEF ComputeTermsHash
  <2>6. r[1] = sent[1] /\ r[2] = sent[2] /\ r[20] = sent[20] /\ mine = theirs
    <3> HIDE DEF mine, theirs
    <3> QED BY <2>5
  <2>7. 22 \in DOMAIN sent
    <3>1. DOMAIN EmptyMap = {}
      BY DEF EmptyMap
    <3> QED BY <2>4, <2>6, <3>1
  <2> QED BY <2>1, <2>3, <2>4, <2>6, <2>7
<1> QED BY <1>1, Invariance, PTL

\* AdvertisedIsAccepted: a request for a task of the provider's manifest
\* passes ValidateQuoteRequest and rejectQuoteRequestIfUnsupportedModel.
THEOREM AdvertisedAccepted == WireSpec => []AdvertisedIsAccepted
<1>1. WInv => AdvertisedIsAccepted
  <2> DEFINE listed(side) == \E t \in localManifestForProvider(side) : matchesTemplate(sent, t)
  <2> SUFFICES ASSUME WInv, Arrived, Undamaged, kind = "quote_request",
                      listed("provider"), models["requester"] = {} \/ listed("requester")
               PROVE  Accepts(Received)
    BY DEF AdvertisedIsAccepted
  <2>1. Received = sent
    <3>1. Encode(kind, sent) = sent
      BY DEF Encode
    <3> QED BY <3>1, UndamagedReceived
  <2>2. PICK name \in {"chat", "responses"}, m \in models["provider"] :
            matchesTemplate(sent, Task(name, m))
    BY DEF localManifestForProvider
  <2>3. /\ 22 \in DOMAIN Task(name, m)
        /\ Task(name, m)[20] = name /\ Task(name, m)[22] = EncodeParams(m)
    BY DEF Task, :>, @@
  <2>4. sent[20] = name /\ 22 \in DOMAIN sent /\ sent[22] = EncodeParams(m)
    BY <2>2, <2>3 DEF matchesTemplate
  <2>5. m \in Models
    BY DEF WInv
  <2>6. DOMAIN sent[22] = {1} /\ sent[22][1] = m /\ m # ""
    BY <2>4, <2>5, WireAssumption DEF EncodeParams, :>
  <2>7. sent[22] # Garbage
    BY <2>4, <2>5, WireAssumption
  <2>8. validateTaskParams(sent)
    BY <2>4, <2>6, <2>7 DEF validateTaskParams
  <2>9. localManifestForProvider("requester") # {} =>
            \E t \in localManifestForProvider("requester") : matchesTemplate(sent, t)
    BY DEF localManifestForProvider
  <2>10. ValidateQuoteRequest(sent, localManifestForProvider("requester"))
    BY <2>2, <2>4, <2>8, <2>9 DEF ValidateQuoteRequest, WInv
  <2> QED BY <2>1, <2>2, <2>6, <2>10 DEF Accepts
<1> QED BY <1>1, Invariance, PTL
=============================================================================
