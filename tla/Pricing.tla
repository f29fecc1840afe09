------------------------------ MODULE Pricing ------------------------------
(***************************************************************************)
(* What a quote costs (quotePrice), how the price becomes the amount of an *)
(* invoice (setInvoicePriceMsat), and what the requester reads from that   *)
(* invoice (DecodePaymentRequest).  Jobs start and end between two quotes, *)
(* and the price follows their number.                                     *)
(*                                                                         *)
(* The constants of the code are parameters: a model checker has no 64-bit *)
(* integers, and every rounding and every overflow shows in narrow ones.   *)
(***************************************************************************)
EXTENDS Integers, FiniteSetsExt

CONSTANTS
    MaxUint64, MaxInt64, MaxUint32,
    TokensPerMillion,   \* what a price of the table is for
    MultiplierOne,      \* multiplierBpsOne
    DefaultMaxBps,      \* defaultMaxInFlightSurgeMultiplierBps
    BytesPerToken,      \* approxBytesPerToken
    MsatPerSat,
    Configs,            \* provider configurations
    Requests,           \* tasks to be quoted
    MaxInFlight         \* bound: jobs at a time

VARIABLES
    cfg,                \* the configuration
    inFlight,           \* Handler.inFlight
    quote               \* the last quote

vars == <<cfg, inFlight, quote>>

Absent == -1

\* The fields of the surge configuration have 32 bits, and a price of 0 is
\* refused when the price table is read.  As many jobs as it would take for the
\* 64-bit product of the multiplier to overflow cannot run at a time.
ASSUME PricingAssumption ==
    /\ {MaxUint64, MaxInt64, MaxUint32, DefaultMaxBps, MaxInFlight} \subseteq Nat
    /\ {TokensPerMillion, MultiplierOne, BytesPerToken, MsatPerSat} \subseteq Nat \ {0}
    /\ MultiplierOne + MaxUint32 * MaxInFlight <= MaxUint64
    /\ Configs \subseteq
           [policyMax : Nat, modelMax : Nat \cup {Absent},
            surge : [threshold : 0..MaxUint32, perJob : 0..MaxUint32, max : 0..MaxUint32],
            price : [input : Nat \ {0}, output : Nat \ {0}]]
    /\ Requests \subseteq
           [kind : {"chat", "responses"}, len : Nat, cap : Nat \cup {Absent}, known : BOOLEAN]

\* An error in place of a number.
Failed == -2

NoQuote == [req |-> Absent, load |-> 0, price |-> Failed]

Init ==
    /\ cfg \in Configs
    /\ inFlight = 0
    /\ quote = NoQuote

-----------------------------------------------------------------------------
(* The arithmetic. *)

DivCeil(n, d) == n \div d + (IF n % d = 0 THEN 0 ELSE 1)

\* IsUint64 of a big.Int.
Checked(n) == IF n > MaxUint64 THEN Failed ELSE n

approxTokenCountBytes(n) == (n + BytesPerToken - 1) \div BytesPerToken

\* Fault: what is left of a million tokens is not charged.
totalMsat_Floor(price, in, out) ==
    Checked((in * price.input + out * price.output) \div TokensPerMillion)

\* PriceTableEntry.totalMsat; quotes count no cached tokens.
totalMsat(price, in, out) ==
    Checked(DivCeil(in * price.input + out * price.output, TokensPerMillion))

\* Fault: the multiplier is computed in the 32 bits of the configuration.
inFlightMultiplierBps_Uint32(surge, load) ==
    LET over == IF load > surge.threshold THEN load - surge.threshold ELSE 0
        bps == (MultiplierOne + surge.perJob * over) % (MaxUint32 + 1)
        cap == IF surge.max = 0 THEN DefaultMaxBps ELSE surge.max
    IN  Max({Min({bps, cap}), MultiplierOne})

inFlightMultiplierBps(surge, load) ==
    LET over == IF load > surge.threshold THEN load - surge.threshold ELSE 0
        bps == (MultiplierOne + surge.perJob * over) % (MaxUint64 + 1)
        cap == IF surge.max = 0 THEN DefaultMaxBps ELSE surge.max
    IN  IF surge.perJob = 0 THEN MultiplierOne ELSE Max({Min({bps, cap}), MultiplierOne})

applyMultiplierCeil(price, bps) ==
    IF bps = MultiplierOne THEN price ELSE Checked(DivCeil(price * bps, MultiplierOne))

-----------------------------------------------------------------------------
(* The quote. *)

\* maxOutputTokensForModel: the model's own maximum, if it is configured.
maxOutputTokensForModel == IF cfg.modelMax # Absent THEN cfg.modelMax ELSE cfg.policyMax

\* What planTask has the quote count as output.  A chat request may ask for
\* less than the provider's maximum; the cap of a responses request is not
\* read, and the provider's maximum counts.
planTask(req) ==
    LET most == maxOutputTokensForModel IN
    CASE most = 0 -> Failed
      [] most # 0 /\ (req.kind = "responses" \/ req.cap = Absent) -> most
      [] most # 0 /\ req.kind = "chat" /\ req.cap \in 1..most -> req.cap
      [] OTHER -> Failed

\* Estimate refuses an empty input, and there is none for a task without a plan.
Estimable(req) == planTask(req) # Failed /\ req.len > 0

\* priceFromTokens of the estimate; a model without a price is refused.
basePrice(req) ==
    IF Estimable(req) /\ req.known
    THEN totalMsat(cfg.price, approxTokenCountBytes(req.len), planTask(req))
    ELSE Failed

quotePrice(req, load) ==
    IF basePrice(req) = Failed THEN Failed
    ELSE applyMultiplierCeil(basePrice(req), inFlightMultiplierBps(cfg.surge, load))

\* handleValidatedInputStreamEnd; a price that cannot be computed is an error.
Quote(req) ==
    /\ quote' = [req |-> req, load |-> inFlight, price |-> quotePrice(req, inFlight)]
    /\ UNCHANGED <<cfg, inFlight>>

\* startJobRunner
JobStarts ==
    /\ inFlight < MaxInFlight
    /\ inFlight' = inFlight + 1
    /\ UNCHANGED <<cfg, quote>>

\* forgetJob and cancelJob
JobEnds ==
    /\ inFlight > 0
    /\ inFlight' = inFlight - 1
    /\ UNCHANGED <<cfg, quote>>

Next == (\E req \in Requests : Quote(req)) \/ JobStarts \/ JobEnds

Spec == Init /\ [][Next]_vars

-----------------------------------------------------------------------------
(* The invoice. *)

\* The error that keeps an invoice from being created.
NoInvoice == [value |-> 0, valueMsat |-> 0]

\* Fault: the satoshi field is used for every price.
setInvoicePriceMsat_AlwaysSats(price) ==
    IF price = 0 THEN NoInvoice ELSE [value |-> price \div MsatPerSat, valueMsat |-> 0]

\* Whole satoshis go into the field that every version of LND reads.
setInvoicePriceMsat(price) ==
    CASE price = 0 -> NoInvoice
      [] price # 0 /\ price % MsatPerSat = 0 /\ price \div MsatPerSat <= MaxInt64 ->
            [value |-> price \div MsatPerSat, valueMsat |-> 0]
      [] price # 0 /\ price % MsatPerSat # 0 /\ price <= MaxInt64 ->
            [value |-> 0, valueMsat |-> price]
      [] OTHER -> NoInvoice

\* LND: the amount of the payment request, and what DecodePayReq says of it in
\* signed integers; a version that knows only satoshis rounds down.
DecodePayReq(invoice, knowsMsat) ==
    LET amount == invoice.value * MsatPerSat + invoice.valueMsat IN
    [numMsat |-> IF ~ knowsMsat THEN 0
                 ELSE IF amount <= MaxInt64 THEN amount ELSE amount - MaxUint64 - 1,
     numSats |-> amount \div MsatPerSat]

\* The amount that verifyInvoiceBinding compares with the price of the terms.
DecodePaymentRequest(d) ==
    CASE d.numMsat # 0 -> IF d.numMsat < 0 THEN Failed ELSE d.numMsat
      [] d.numMsat = 0 /\ d.numSats > 0 ->
            IF d.numSats > MaxInt64 \div MsatPerSat THEN Failed ELSE d.numSats * MsatPerSat
      [] OTHER -> 0

-----------------------------------------------------------------------------
(* Properties. *)

Quoted == quote.price # Failed

\* A quote is never below the cost of the tokens it allows, and exceeds it by
\* less than the two roundings: the price is the least whole number of msat
\* that covers the multiplied base price, which is the least that covers the
\* tokens.  The multiplier is never below one, and within its cap.
QuoteExact ==
    Quoted =>
        LET req == quote.req
            cost == approxTokenCountBytes(req.len) * cfg.price.input
                    + planTask(req) * cfg.price.output
            base == CHOOSE p \in 0..MaxUint64 :
                       p * TokensPerMillion >= cost /\ (p - 1) * TokensPerMillion < cost
            bps == inFlightMultiplierBps(cfg.surge, quote.load)
        IN  /\ quote.price * MultiplierOne >= base * bps
            /\ (quote.price - 1) * MultiplierOne < base * bps
            /\ bps >= MultiplierOne
            /\ bps \in {MultiplierOne} \cup
                    0..(IF cfg.surge.max = 0 THEN DefaultMaxBps ELSE cfg.surge.max)

\* The same task is never quoted lower when more jobs are running: no step of
\* the multiplier, and no overflow of its 64-bit product, turns the load into
\* a discount.
LoadNeverCheaper ==
    [][Quoted /\ Quoted' /\ quote'.req = quote.req /\ quote'.load >= quote.load
          => quote'.price >= quote.price]_vars

\* A quote can be paid as quoted: an invoice for its price is never refused for
\* being free, and the amount that the requester reads from it is the price,
\* or there is no invoice that passes.  Only a price that is not in whole
\* satoshis needs an LND that knows millisatoshis.
InvoiceCarriesPrice ==
    Quoted =>
        /\ quote.price > 0
        /\ LET invoice == setInvoicePriceMsat(quote.price) IN
           invoice # NoInvoice =>
              \A knowsMsat \in BOOLEAN :
                 LET amount == DecodePaymentRequest(DecodePayReq(invoice, knowsMsat)) IN
                 \/ amount \in {quote.price, Failed}
                 \/ ~ knowsMsat /\ quote.price % MsatPerSat # 0 /\ amount < quote.price
=============================================================================
