-------------------------------- MODULE Wire --------------------------------
(***************************************************************************)
(* The messages of the protocol as TLV streams (lcpwire), the check of a   *)
(* quote request (ValidateQuoteRequest) and the terms hash that binds a    *)
(* quote to it (ComputeTermsHash).                                         *)
(*                                                                         *)
(* A stream is a map from TLV types to values, and so is the message it    *)
(* stands for: an absent pointer is an absent type.  Malformed is a value  *)
(* that its reader refuses, of the wrong length, not minimal or not UTF-8, *)
(* and Garbage is one that is bytes but no TLV stream.  A message on its   *)
(* way may lose records, gain unknown ones or have them replaced, by a     *)
(* peer that implements the protocol otherwise.                            *)
(***************************************************************************)
EXTENDS Naturals, Sequences, Maps

CONSTANTS
    Hashes,     \* 32-byte values
    MaxU16,     \* the largest 16-bit integer
    MaxTU,      \* the largest truncated integer
    Text,       \* UTF-8 strings
    Models,     \* the names of models
    Malformed, Garbage,
    MaxFaults   \* bound: records that differ from what was sent

VARIABLES
    kind,     \* of the message
    sent,     \* the message
    todo,     \* the types not yet decided on
    payload,  \* what arrives
    faults,   \* records of it that differ
    models    \* side -> the models it is configured to serve

wireVars == <<kind, sent, todo, payload, faults, models>>

\* One record, and the records of two streams.
k :> v == [t \in {k} |-> v]

m @@ n == [t \in DOMAIN m \cup DOMAIN n |-> IF t \in DOMAIN m THEN m[t] ELSE n[t]]

\* What the readers return: readU16, readTU32 and readTU64, readBytes32 and
\* readUTF8String, and the texts that may not be empty.
U16 == 0..MaxU16

TU == 0..MaxTU

ChunkIds == Hashes \X TU

B32 == Hashes \cup ChunkIds

Name == Text \ {""}

TaskKinds == {"chat", "responses", "x"}
-----------------------------------------------------------------------------
(* The types of each message, and for each the values its decoder accepts. *)

Envelope == (1 :> U16) @@ (2 :> B32) @@ (3 :> B32) @@ (4 :> TU)

\* EncodeOpenAI*V1Params: the model is type 1.
EncodeParams(model) == 1 :> model

\* The versions, statuses and kinds that have a meaning are 16-bit integers, the
\* encoded parameters of a task are a TLV stream, and a model without a name is
\* left out when the configuration is read.
ASSUME WireAssumption ==
    /\ MaxU16 \in Nat /\ MaxU16 >= 3 /\ MaxTU \in Nat \ {0}
    /\ "" \in Text /\ "" \notin Models
    /\ Garbage \notin {EncodeParams(m) : m \in Models}

\* What the parameters of a task can be: any bytes.
Params ==
    {EncodeParams(m) : m \in Models} \cup {(1 :> "x") @@ (3 :> "x"), EmptyMap, Garbage}

\* ToWireQuoteRequestTask, and an element of supported_tasks.
Task(name, model) == (20 :> name) @@ (22 :> EncodeParams(model))

DecodeTaskTemplate(m) == 20 \in DOMAIN m /\ m[20] \in TaskKinds

Templates == {Task("chat", "x"), 20 :> "chat", 20 :> ""}

\* validateJobScopeNotPresent is in WellFormed.
Manifest ==
    [required |-> (1 :> U16) @@ (11 :> TU \ {0}) @@ (14 :> TU \ {0}) @@ (15 :> TU \ {0}),
     optional |-> (12 :> {<<>>} \cup {<<t>> : t \in {u \in Templates : DecodeTaskTemplate(u)}})
                  @@ (16 :> U16)]

QuoteRequest ==
    [required |-> Envelope @@ (20 :> TaskKinds), optional |-> (22 :> Params)]

QuoteResponse ==
    [required |-> Envelope @@ (30 :> TU) @@ (31 :> TU) @@ (32 :> B32) @@ (33 :> Name),
     optional |-> EmptyMap]

StreamBegin ==
    [required |-> Envelope @@ (90 :> B32) @@ (91 :> {1, 2}) @@ (94 :> Name) @@ (95 :> Name),
     optional |-> (92 :> TU) @@ (93 :> B32)]

StreamChunk ==
    [required |-> Envelope @@ (90 :> B32) @@ (96 :> TU) @@ (97 :> Text),
     optional |-> EmptyMap]

StreamEnd ==
    [required |-> Envelope @@ (90 :> B32) @@ (92 :> TU) @@ (93 :> B32),
     optional |-> EmptyMap]

\* Of a result with status 0 (ok), the metadata are required; of any other
\* they are refused (WellFormed).
ResultOK == (101 :> B32) @@ (102 :> B32) @@ (103 :> TU) @@ (104 :> Name) @@ (105 :> Name)

Result ==
    [required |-> Envelope @@ (100 :> 0..2), optional |-> (81 :> Text) @@ ResultOK]

Cancel == [required |-> Envelope, optional |-> (70 :> Text)]

Error == [required |-> Envelope @@ (80 :> U16 \ {0}), optional |-> (81 :> Text)]

Schema ==
    [manifest |-> Manifest, quote_request |-> QuoteRequest,
     quote_response |-> QuoteResponse, stream_begin |-> StreamBegin,
     stream_chunk |-> StreamChunk, stream_end |-> StreamEnd, result |-> Result,
     cancel |-> Cancel, error |-> Error]

Known(k) == DOMAIN Schema[k].required \cup DOMAIN Schema[k].optional

\* The values can be read, and the rules hold that relate several types.
WellFormed(k, m) ==
    LET s == Schema[k]
    IN  /\ \A t \in DOMAIN s.required : t \in DOMAIN m /\ m[t] \in s.required[t]
        /\ \A t \in DOMAIN s.optional \cap DOMAIN m : m[t] \in s.optional[t]
        /\ k = "manifest" => {2, 3, 4} \cap DOMAIN m = {}
        /\ k = "result" =>
               IF m[100] = 0 THEN DOMAIN ResultOK \subseteq DOMAIN m
               ELSE DOMAIN ResultOK \cap DOMAIN m = {}

\* The message id of a chunk is the one of its place.
Decodable(k, m) ==
    /\ WellFormed(k, m)
    /\ k = "stream_chunk" => m[3] = <<m[90], m[96]>>

\* Fault: the message keeps types the decoder does not know.
Decode_KeepsUnknown(k, m) == IF Decodable(k, m) THEN m ELSE Malformed

\* Fault: a result that is ok keeps its message.
Decode_KeepsMessage(k, m) ==
    IF Decodable(k, m) THEN Restrict(m, DOMAIN m \cap Known(k)) ELSE Malformed

\* Decode*: unknown types are left out, and so are the message of a result
\* that is ok and an empty list of tasks.
Decode(k, m) ==
    LET dropped == {t \in DOMAIN m :
            \/ t \notin Known(k)
            \/ k = "result" /\ t = 81 /\ m[100] = 0
            \/ k = "manifest" /\ t = 12 /\ m[12] = <<>>}
    IN  IF Decodable(k, m) THEN Restrict(m, DOMAIN m \ dropped) ELSE Malformed

\* What Encode* refuses besides: no version, and a message of a result that is
\* ok.
CanEncode(k, x) ==
    /\ WellFormed(k, x)
    /\ x[1] # 0
    /\ k = "result" => (x[100] = 0 => 81 \notin DOMAIN x)

\* Encode*: a chunk is given the message id of its place, and an empty list of
\* tasks is left out.
Encode(k, x) ==
    LET y == IF k = "stream_chunk" THEN [x EXCEPT ![3] = <<x[90], x[96]>>] ELSE x
    IN  IF k = "manifest" /\ 12 \in DOMAIN y /\ y[12] = <<>> THEN Delete(y, 12) ELSE y
-----------------------------------------------------------------------------
(* Quotes. *)

\* DecodeOpenAI*V1Params, and no unknown types.
validateTaskParams(q) ==
    /\ 22 \in DOMAIN q
    /\ q[22] # Garbage
    /\ 1 \in DOMAIN q[22] /\ q[22][1] # ""
    /\ DOMAIN q[22] = {1}

\* The tasks of the manifest a side sends.
localManifestForProvider(side) ==
    {Task(name, m) : name \in {"chat", "responses"}, m \in models[side]}

matchesTemplate(q, t) ==
    /\ q[20] = t[20]
    /\ 22 \in DOMAIN t => 22 \in DOMAIN q /\ q[22] = t[22]

\* Fault: a requester that lists no tasks is taken to have listed others.
ValidateQuoteRequest_NoneListed(q, remote) ==
    /\ q[1] = 2
    /\ q[20] \in {"chat", "responses"}
    /\ validateTaskParams(q)
    /\ \E t \in remote : matchesTemplate(q, t)

\* remote are the tasks in the manifest of the peer that asks.
ValidateQuoteRequest(q, remote) ==
    /\ q[1] = 2
    /\ q[20] \in {"chat", "responses"}
    /\ validateTaskParams(q)
    /\ remote # {} => \E t \in remote : matchesTemplate(q, t)

\* handleQuoteRequest as far as it looks at nothing but the request:
\* ValidateQuoteRequest and rejectQuoteRequestIfUnsupportedModel.
Accepts(q) ==
    /\ ValidateQuoteRequest(q, localManifestForProvider("requester"))
    /\ models["provider"] # {} => q[22][1] \in models["provider"]

\* Fault: the parameters are not part of the terms.
ComputeTermsHash_NoParams(q) == <<q[1], q[2], q[20]>>

\* What is hashed of a request; price, expiry and input are added to it.
\* Parameters that are absent count as empty ones.
ComputeTermsHash(q) ==
    <<q[1], q[2], q[20], IF 22 \in DOMAIN q THEN q[22] ELSE EmptyMap>>
-----------------------------------------------------------------------------
(* A message is put together, sent, and changed on its way. *)

\* The values a type can have: those its reader returns.
Values(t) ==
    CASE t \in {1, 16, 80, 91, 100} -> U16
      [] t \in {4, 11, 14, 15, 30, 31, 92, 96, 103} -> TU
      [] t = 3 -> B32
      [] t \in {2, 32, 90, 93, 101, 102} -> Hashes
      [] t = 12 -> {<<>>} \cup {<<m>> : m \in Templates}
      [] t = 20 -> Text \cup TaskKinds
      [] t = 22 -> Params
      [] OTHER -> Text

WireInit ==
    /\ kind \in DOMAIN Schema
    /\ \E h \in Hashes, i \in Hashes :
           /\ h # i
           /\ sent = IF kind = "manifest" THEN 1 :> 2
                     ELSE (1 :> 2) @@ (2 :> h) @@ (3 :> i) @@ (4 :> 1)
    /\ todo = Known(kind) \ DOMAIN sent
    /\ payload = EmptyMap
    /\ faults = 0
    /\ IF kind = "quote_request"
       THEN models \in [{"provider", "requester"} -> SUBSET Models]
       ELSE models = [side \in {"provider", "requester"} |-> {}]

\* The program sets a field, or leaves it out.
SetField ==
    \E t \in todo :
        /\ \A u \in todo : t <= u
        /\ todo' = todo \ {t}
        /\ \/ \E v \in Values(t) : sent' = Put(sent, t, v)
           \/ UNCHANGED sent
        /\ UNCHANGED <<kind, payload, faults, models>>

\* Nothing is sent when the message cannot be encoded.
Send ==
    /\ todo = {} /\ payload = EmptyMap
    /\ CanEncode(kind, sent)
    /\ payload' = Encode(kind, sent)
    /\ UNCHANGED <<kind, sent, todo, faults, models>>

\* One record more is missing, replaced or new; type 200 is in no message.
Deviate ==
    /\ payload # EmptyMap
    /\ faults < MaxFaults
    /\ \/ \E t \in DOMAIN payload : payload' = Delete(payload, t)
       \/ \E t \in Known(kind) \cup Known("error") \cup {200} :
              \E v \in Values(t) \cup {Malformed} : payload' = Put(payload, t, v)
    /\ faults' = faults + 1
    /\ UNCHANGED <<kind, sent, todo, models>>

WireNext == SetField \/ Send \/ Deviate

WireSpec == WireInit /\ [][WireNext]_wireVars
-----------------------------------------------------------------------------
Arrived == payload # EmptyMap

Received == Decode(kind, payload)

Undamaged == Restrict(payload, DOMAIN payload \cap Known(kind)) = Encode(kind, sent)

\* What is sent is what is received, whichever optional fields it has and
\* whatever unknown types a newer peer adds; only the message id of a chunk is
\* the sender's to choose and is not kept (Encode*, Decode*).
ReadsBack ==
    Arrived /\ Undamaged /\ (kind = "manifest" => {2, 3, 4} \cap DOMAIN payload = {})
        => Received = Encode(kind, sent)

\* The decoders let through nothing that the encoders would refuse, but for
\* the version, which they leave to their callers: what has been received can
\* be sent on, and is received as the same message (Decode*, Encode*).
AcceptedCanBeSent ==
    Arrived /\ Received # Malformed /\ Received[1] # 0 =>
        /\ CanEncode(kind, Received)
        /\ Decode(kind, Encode(kind, Received)) = Received

\* A request that arrives otherwise than it was sent, and passes the
\* provider's checks nevertheless, gives the provider other terms than the
\* requester expects, unless the difference is in the message id or the
\* expiry of the message (ComputeTermsHash, ValidateQuoteRequest).
TermsBind ==
    Arrived /\ kind = "quote_request" /\ Received # Malformed =>
        (Accepts(Received) /\ ComputeTermsHash(Received) = ComputeTermsHash(sent)
            => \A t \in {1, 2, 20, 22} :
                   /\ t \in DOMAIN Received <=> t \in DOMAIN sent
                   /\ t \in DOMAIN sent => Received[t] = sent[t])

\* A provider accepts what it advertises, when the requester itself lists no
\* tasks or lists this one too: the tasks that are compared with are those of
\* the requester's manifest (localManifestForProvider, ValidateQuoteRequest).
AdvertisedIsAccepted ==
    LET listed(side) == \E t \in localManifestForProvider(side) : matchesTemplate(sent, t)
        asked == /\ Arrived /\ Undamaged /\ kind = "quote_request"
                 /\ listed("provider")
                 /\ models["requester"] = {} \/ listed("requester")
    IN  asked => Accepts(Received)
=============================================================================
