--------------------------- MODULE PricingProofs ---------------------------
(***************************************************************************)
(* What a quote costs and what its invoice carries, for words of any       *)
(* width, any configuration and any request.                               *)
(***************************************************************************)
EXTENDS Pricing, TLAPS

-----------------------------------------------------------------------------
(* Arithmetic. *)

LEMMA Division ==
    ASSUME NEW n \in Nat, NEW d \in Nat \ {0}
    PROVE  /\ n \div d \in Nat /\ n % d \in 0..(d - 1)
           /\ n = d * (n \div d) + (n % d)
  OBVIOUS

LEMMA ProductType == ASSUME NEW a \in Nat, NEW b \in Nat PROVE a * b \in Nat
  OBVIOUS

LEMMA ProductMonotone ==
    ASSUME NEW a \in Int, NEW b \in Int, a <= b, NEW k \in Nat
    PROVE  a * k <= b * k
  OBVIOUS

\* c is the least number of units of d that cover n.
Least(c, n, d) == c * d >= n /\ (c - 1) * d < n

LEMMA LeastUnique ==
    ASSUME NEW n \in Nat, NEW d \in Nat \ {0}, NEW b \in Int, NEW c \in Int,
           Least(b, n, d), Least(c, n, d)
    PROVE  b = c
<1>1. ~ b <= c - 1
  <2> SUFFICES ASSUME b <= c - 1 PROVE FALSE
    OBVIOUS
  <2> QED BY ProductMonotone DEF Least
<1>2. ~ c <= b - 1
  <2> SUFFICES ASSUME c <= b - 1 PROVE FALSE
    OBVIOUS
  <2> QED BY ProductMonotone DEF Least
<1> QED BY <1>1, <1>2

\* DivCeil rounds up.
LEMMA DivCeilLeast ==
    ASSUME NEW n \in Nat, NEW d \in Nat \ {0}
    PROVE  DivCeil(n, d) \in Nat /\ Least(DivCeil(n, d), n, d)
<1> DEFINE q == n \div d
           r == n % d
<1>0. q \in Nat /\ r \in 0..(d - 1) /\ n = d * q + r
  BY Division
<1> HIDE DEF q, r
<1>1. q \in Nat /\ r \in 0..(d - 1) /\ n = q * d + r
  BY <1>0
<1>2. CASE r = 0
  <2>1. DivCeil(n, d) = q
    BY <1>1, <1>2 DEF DivCeil, q, r
  <2>2. q * d = n /\ (q - 1) * d = q * d - d
    BY <1>1, <1>2
  <2> QED BY <1>1, <2>1, <2>2 DEF Least
<1>3. CASE r # 0
  <2>1. DivCeil(n, d) = q + 1
    BY <1>1, <1>3 DEF DivCeil, q, r
  <2>2. (q + 1) * d = q * d + d /\ (q + 1) - 1 = q
    BY <1>1
  <2> QED BY <1>1, <1>3, <2>1, <2>2 DEF Least
<1> QED BY <1>2, <1>3

LEMMA DivCeilMonotone ==
    ASSUME NEW m \in Nat, NEW n \in Nat, m <= n, NEW d \in Nat \ {0}
    PROVE  DivCeil(m, d) <= DivCeil(n, d)
<1> DEFINE a == DivCeil(m, d)
           b == DivCeil(n, d)
<1>1. a \in Nat /\ b \in Nat /\ (a - 1) * d < m /\ b * d >= n
  BY DivCeilLeast DEF Least
<1> HIDE DEF a, b
<1> SUFFICES ASSUME b <= a - 1 PROVE FALSE
  BY <1>1 DEF a, b
<1> QED BY <1>1, ProductMonotone

LEMMA MaxOfTwo ==
    ASSUME NEW a \in Int, NEW b \in Int
    PROVE  Max({a, b}) = IF a >= b THEN a ELSE b
  BY DEF Max

LEMMA MinOfTwo ==
    ASSUME NEW a \in Int, NEW b \in Int
    PROVE  Min({a, b}) = IF a <= b THEN a ELSE b
  BY DEF Min

-----------------------------------------------------------------------------
(* The multiplier and the price. *)

\* A request that is quoted, under a configuration of the code.
LEMMA Types ==
    ASSUME cfg \in Configs, NEW req \in Requests
    PROVE  /\ cfg.policyMax \in Nat /\ cfg.modelMax \in Nat \cup {Absent}
           /\ cfg.price.input \in Nat \ {0} /\ cfg.price.output \in Nat \ {0}
           /\ cfg.surge.threshold \in 0..MaxUint32 /\ cfg.surge.perJob \in 0..MaxUint32
           /\ cfg.surge.max \in 0..MaxUint32
           /\ req.len \in Nat /\ req.cap \in Nat \cup {Absent}
           /\ req.kind \in {"chat", "responses"}
  BY PricingAssumption

\* The surge multiplier without its 64-bit word: the product does not overflow.
Surge(surge, load) ==
    MultiplierOne + surge.perJob * (IF load > surge.threshold THEN load - surge.threshold ELSE 0)

Cap(surge) == IF surge.max = 0 THEN DefaultMaxBps ELSE surge.max

Surges == [threshold : 0..MaxUint32, perJob : 0..MaxUint32, max : 0..MaxUint32]

LEMMA SurgeFits ==
    ASSUME NEW s \in Surges, NEW load \in 0..MaxInFlight
    PROVE  Surge(s, load) \in MultiplierOne..MaxUint64
<1> DEFINE over == IF load > s.threshold THEN load - s.threshold ELSE 0
<1>1. over \in 0..MaxInFlight /\ s.perJob \in 0..MaxUint32
  BY PricingAssumption DEF Surges
<1>2. /\ MaxInFlight \in Nat /\ MaxUint32 \in Nat /\ MultiplierOne \in Nat /\ MaxUint64 \in Nat
      /\ MultiplierOne + MaxUint32 * MaxInFlight <= MaxUint64
  BY PricingAssumption
<1> HIDE DEF over
<1>3. s.perJob * over <= MaxUint32 * over
  BY <1>1, <1>2, ProductMonotone
<1>4. over * MaxUint32 <= MaxInFlight * MaxUint32
  BY <1>1, <1>2, ProductMonotone
<1>5. s.perJob * over \in Nat
  BY <1>1, <1>2, ProductType
<1>6. Surge(s, load) = MultiplierOne + s.perJob * over
  BY DEF Surge, over
<1>7. MaxUint32 * over = over * MaxUint32 /\ MaxInFlight * MaxUint32 = MaxUint32 * MaxInFlight
  BY <1>1, <1>2
<1> DEFINE x == s.perJob * over
           y == MaxUint32 * over
           z == MaxUint32 * MaxInFlight
<1>8. x <= y /\ y <= z /\ x \in Nat /\ y \in Int /\ z \in Int
  BY <1>1, <1>2, <1>3, <1>4, <1>5, <1>7
<1> HIDE DEF x, y, z
<1>9. MultiplierOne + z <= MaxUint64 /\ Surge(s, load) = MultiplierOne + x
  BY <1>2, <1>6 DEF x, z
<1> QED BY <1>2, <1>8, <1>9

\* inFlightMultiplierBps without CHOOSE and without the word.
LEMMA MultiplierValue ==
    ASSUME NEW s \in Surges, NEW load \in 0..MaxInFlight
    PROVE  inFlightMultiplierBps(s, load) =
               IF s.perJob = 0 THEN MultiplierOne
               ELSE LET b == IF Surge(s, load) <= Cap(s) THEN Surge(s, load) ELSE Cap(s)
                    IN  IF b >= MultiplierOne THEN b ELSE MultiplierOne
<1> DEFINE bps == Surge(s, load) % (MaxUint64 + 1)
           low == IF Surge(s, load) <= Cap(s) THEN Surge(s, load) ELSE Cap(s)
<1>1. /\ MultiplierOne \in Nat /\ MaxUint64 \in Nat /\ Cap(s) \in Nat
      /\ Surge(s, load) \in MultiplierOne..MaxUint64
  BY PricingAssumption, SurgeFits DEF Cap, Surges
<1>2. bps = Surge(s, load)
  BY <1>1
<1>3. inFlightMultiplierBps(s, load) =
          IF s.perJob = 0 THEN MultiplierOne ELSE Max({Min({bps, Cap(s)}), MultiplierOne})
  BY DEF inFlightMultiplierBps, Surge, Cap
<1> HIDE DEF bps
<1>4. Min({bps, Cap(s)}) = low /\ low \in Int
  BY <1>1, <1>2, MinOfTwo
<1> HIDE DEF low
<1>5. Max({low, MultiplierOne}) = IF low >= MultiplierOne THEN low ELSE MultiplierOne
  BY <1>1, <1>4, MaxOfTwo
<1> QED BY <1>3, <1>4, <1>5 DEF low

\* The multiplier is at least one, keeps to its cap and grows with the load.
LEMMA MultiplierBounds ==
    ASSUME NEW s \in Surges, NEW load \in 0..MaxInFlight
    PROVE  LET bps == inFlightMultiplierBps(s, load)
           IN  /\ bps \in Nat /\ bps >= MultiplierOne
               /\ bps \in {MultiplierOne} \cup 0..Cap(s)
<1>1. /\ MultiplierOne \in Nat /\ MaxUint64 \in Nat /\ Cap(s) \in Nat
      /\ Surge(s, load) \in MultiplierOne..MaxUint64
  BY PricingAssumption, SurgeFits DEF Cap, Surges
<1> QED BY <1>1, MultiplierValue

LEMMA MultiplierMonotone ==
    ASSUME NEW s \in Surges, NEW a \in 0..MaxInFlight, NEW b \in 0..MaxInFlight, a <= b
    PROVE  inFlightMultiplierBps(s, a) <= inFlightMultiplierBps(s, b)
<1> DEFINE over(load) == IF load > s.threshold THEN load - s.threshold ELSE 0
<1>1. /\ MultiplierOne \in Nat /\ MaxUint64 \in Nat /\ Cap(s) \in Nat
      /\ Surge(s, a) \in MultiplierOne..MaxUint64 /\ Surge(s, b) \in MultiplierOne..MaxUint64
  BY PricingAssumption, SurgeFits DEF Cap, Surges
<1>2. over(a) \in Nat /\ over(b) \in Nat /\ over(a) <= over(b) /\ s.perJob \in Nat
  BY PricingAssumption DEF Surges
<1>3. /\ Surge(s, a) = MultiplierOne + s.perJob * over(a)
      /\ Surge(s, b) = MultiplierOne + s.perJob * over(b)
  BY DEF Surge
<1> HIDE DEF over
<1>4. over(a) * s.perJob <= over(b) * s.perJob
  BY <1>2, ProductMonotone
<1>5. Surge(s, a) <= Surge(s, b)
  BY <1>1, <1>2, <1>3, <1>4
<1> QED BY <1>1, <1>5, MultiplierValue

LEMMA PlanType ==
    ASSUME cfg \in Configs, NEW req \in Requests, planTask(req) # Failed
    PROVE  planTask(req) \in Nat \ {0}
  BY Types DEF planTask, maxOutputTokensForModel, Failed, Absent

\* What the tokens of a request cost, in the units of the price table.
Cost(req) == approxTokenCountBytes(req.len) * cfg.price.input + planTask(req) * cfg.price.output

LEMMA CostType ==
    ASSUME cfg \in Configs, NEW req \in Requests, Estimable(req)
    PROVE  Cost(req) \in Nat \ {0}
<1> DEFINE in == approxTokenCountBytes(req.len)
           out == planTask(req)
<1>1. in \in Nat
  <2>1. req.len + BytesPerToken - 1 \in Nat /\ BytesPerToken \in Nat \ {0}
    BY Types, PricingAssumption
  <2> QED BY <2>1, Division DEF approxTokenCountBytes
<1>2. out \in Nat \ {0}
  BY PlanType DEF Estimable
<1>3. cfg.price.input \in Nat /\ cfg.price.output \in Nat \ {0}
  BY Types
<1> HIDE DEF in, out
<1>4. in * cfg.price.input \in Nat
  BY <1>1, <1>3, ProductType
<1>5. out * cfg.price.output \in Nat \ {0}
  BY <1>2, <1>3
<1> QED BY <1>4, <1>5 DEF Cost, in, out

\* The base price is the least number of msat that covers the tokens.
LEMMA BasePrice ==
    ASSUME cfg \in Configs, NEW req \in Requests, basePrice(req) # Failed
    PROVE  /\ Estimable(req)
           /\ basePrice(req) \in 1..MaxUint64
           /\ Least(basePrice(req), Cost(req), TokensPerMillion)
<1> DEFINE c == Cost(req)
           p == DivCeil(c, TokensPerMillion)
<1>1. Estimable(req) /\ basePrice(req) = Checked(p)
  BY DEF basePrice, totalMsat, Cost
<1>2. c \in Nat \ {0} /\ TokensPerMillion \in Nat \ {0} /\ MaxUint64 \in Nat
  BY <1>1, CostType, PricingAssumption
<1> HIDE DEF c
<1>3. p \in Nat /\ Least(p, c, TokensPerMillion)
  BY <1>2, DivCeilLeast
<1> HIDE DEF p
<1>4. basePrice(req) = p /\ p <= MaxUint64
  BY <1>1, <1>2, <1>3 DEF Checked
<1>5. p # 0
  BY <1>2, <1>3 DEF Least
<1> QED BY <1>1, <1>2, <1>3, <1>4, <1>5 DEF c

\* A price is the least number of msat that covers the multiplied base price.
LEMMA PriceValue ==
    ASSUME cfg \in Configs, NEW req \in Requests, NEW load \in 0..MaxInFlight,
           quotePrice(req, load) # Failed
    PROVE  /\ basePrice(req) # Failed
           /\ quotePrice(req, load) \in 1..MaxUint64
           /\ quotePrice(req, load) =
                  DivCeil(basePrice(req) * inFlightMultiplierBps(cfg.surge, load), MultiplierOne)
<1> DEFINE base == basePrice(req)
           bps == inFlightMultiplierBps(cfg.surge, load)
           p == DivCeil(base * bps, MultiplierOne)
<1>1. base # Failed /\ quotePrice(req, load) = applyMultiplierCeil(base, bps)
  BY DEF quotePrice
<1>2. base \in 1..MaxUint64 /\ MultiplierOne \in Nat \ {0} /\ MaxUint64 \in Nat
  BY <1>1, BasePrice, PricingAssumption
<1>3. bps \in Nat /\ bps >= MultiplierOne
  BY Types, MultiplierBounds, PricingAssumption DEF Surges
<1> HIDE DEF base, bps
<1>4. base * bps \in Nat /\ base * bps > 0
  BY <1>2, <1>3
<1> DEFINE n == base * bps
<1>5. p \in Nat /\ Least(p, base * bps, MultiplierOne)
  <2> HIDE DEF n
  <2> QED BY <1>2, <1>4, DivCeilLeast DEF n
<1>6. p # 0
  <2>1. n > 0 /\ n \in Nat /\ p * MultiplierOne >= n
    BY <1>4, <1>5 DEF Least
  <2> HIDE DEF n, p
  <2> QED BY <1>2, <2>1
<1>7. CASE bps = MultiplierOne
  <2>1. quotePrice(req, load) = base
    BY <1>1, <1>7 DEF applyMultiplierCeil
  <2>2. n \in Nat /\ Least(base, n, MultiplierOne)
    <3>1. (base - 1) * MultiplierOne = base * MultiplierOne - MultiplierOne
      BY <1>2
    <3> QED BY <1>2, <1>4, <1>7, <3>1 DEF Least
  <2>3. p = base
    <3>1. p \in Int /\ base \in Int /\ Least(p, n, MultiplierOne)
      BY <1>2, <1>5
    <3> HIDE DEF n, p
    <3> QED BY <1>2, <2>2, <3>1, LeastUnique
  <2> QED BY <1>1, <1>2, <2>1, <2>3 DEF base, bps
<1>8. CASE bps # MultiplierOne
  <2>1. quotePrice(req, load) = Checked(p)
    BY <1>1, <1>8 DEF applyMultiplierCeil
  <2> HIDE DEF p
  <2>2. quotePrice(req, load) = p /\ p <= MaxUint64
    BY <1>2, <1>5, <2>1 DEF Checked
  <2> QED BY <1>1, <1>2, <1>5, <1>6, <2>2 DEF p, base, bps
<1> QED BY <1>7, <1>8

-----------------------------------------------------------------------------
(* The quotes. *)

\* q is the quote of a request at a load that has been.
QuoteOf(q) ==
    \E req \in Requests, load \in 0..MaxInFlight :
        q = [req |-> req, load |-> load, price |-> quotePrice(req, load)]

\* The inductive invariant: the last quote is what quotePrice returned for its
\* request and its load, under the configuration there is.
IInv ==
    /\ cfg \in Configs
    /\ inFlight \in 0..MaxInFlight
    /\ quote = NoQuote \/ QuoteOf(quote)

LEMMA InitIInv == Init => IInv
  BY PricingAssumption DEF Init, IInv

\* The price depends on nothing that changes.
LEMMA SamePrice ==
    ASSUME cfg' = cfg, NEW req, NEW load
    PROVE  quotePrice(req, load)' = quotePrice(req, load)
  BY DEF quotePrice, basePrice, Estimable, planTask, maxOutputTokensForModel

LEMMA NextIInv == ASSUME IInv, [Next]_vars PROVE IInv'
<1>1. cfg' = cfg
  BY DEF Next, vars, Quote, JobStarts, JobEnds
<1>2. ASSUME NEW q, QuoteOf(q) PROVE QuoteOf(q)'
  <2>1. PICK req \in Requests, load \in 0..MaxInFlight :
            q = [req |-> req, load |-> load, price |-> quotePrice(req, load)]
    BY <1>2 DEF QuoteOf
  <2> QED BY <1>1, <2>1, SamePrice DEF QuoteOf
<1>3. ASSUME NEW req \in Requests, Quote(req) PROVE IInv'
  <2>1. quote' = [req |-> req, load |-> inFlight, price |-> quotePrice(req, inFlight)]
    BY <1>3 DEF Quote
  <2>2. QuoteOf(quote')
    BY <2>1 DEF QuoteOf, IInv
  <2>3. QuoteOf(quote)'
    BY <1>1, <2>1, SamePrice DEF QuoteOf, IInv
  <2> QED BY <1>1, <1>3, <2>3 DEF IInv, Quote
<1>4. CASE quote' = quote /\ inFlight' \in 0..MaxInFlight
  BY <1>1, <1>2, <1>4 DEF IInv
<1> QED
  BY <1>3, <1>4, PricingAssumption DEF IInv, Next, vars, JobStarts, JobEnds

\* IInv holds after every quote, start and end of a job.
THEOREM Invariance == Spec => []IInv
  BY InitIInv, NextIInv, PTL DEF Spec

\* A quote that was given.
LEMMA QuotedFacts ==
    ASSUME IInv, Quoted
    PROVE  /\ cfg \in Configs /\ quote.req \in Requests /\ quote.load \in 0..MaxInFlight
           /\ quote.price = quotePrice(quote.req, quote.load)
           /\ quotePrice(quote.req, quote.load) # Failed
  BY DEF IInv, QuoteOf, Quoted, NoQuote

\* Every quote is the least number of millisatoshis that covers the multiplied
\* base price, which is the least that covers the tokens, and the multiplier
\* is at least one and within its cap (totalMsat, applyMultiplierCeil,
\* inFlightMultiplierBps).
THEOREM QuotesExact == Spec => []QuoteExact
<1>1. ASSUME IInv PROVE QuoteExact
  <2> SUFFICES ASSUME Quoted PROVE QuoteExact
    BY DEF QuoteExact
  <2> DEFINE req == quote.req
             cost == Cost(req)
             base == CHOOSE p \in 0..MaxUint64 :
                        p * TokensPerMillion >= cost /\ (p - 1) * TokensPerMillion < cost
             bps == inFlightMultiplierBps(cfg.surge, quote.load)
  <2>1. /\ cfg \in Configs /\ req \in Requests /\ quote.load \in 0..MaxInFlight
        /\ quote.price = quotePrice(req, quote.load) /\ quote.price # Failed
    BY <1>1, QuotedFacts
  <2>2. /\ basePrice(req) # Failed /\ quote.price \in 1..MaxUint64
        /\ quote.price = DivCeil(basePrice(req) * bps, MultiplierOne)
    BY <2>1, PriceValue
  <2>3. /\ MaxUint64 \in Nat /\ MultiplierOne \in Nat \ {0} /\ TokensPerMillion \in Nat \ {0}
    BY PricingAssumption
  <2>4. /\ basePrice(req) \in 1..MaxUint64
        /\ Least(basePrice(req), cost, TokensPerMillion)
        /\ cost \in Nat
    BY <2>1, <2>2, BasePrice, CostType
  <2>5. base = basePrice(req)
    <3> HIDE DEF cost
    <3>1. base \in 0..MaxUint64 /\ Least(base, cost, TokensPerMillion)
      BY <2>3, <2>4 DEF Least
    <3> HIDE DEF base
    <3> QED BY <2>3, <2>4, <3>1, LeastUnique
  <2>6. bps \in Nat /\ bps >= MultiplierOne /\ bps \in {MultiplierOne} \cup 0..Cap(cfg.surge)
    <3>1. cfg.surge \in Surges
      BY <2>1, PricingAssumption DEF Surges
    <3> QED BY <2>1, <3>1, MultiplierBounds
  <2>7. Least(quote.price, base * bps, MultiplierOne)
    <3> HIDE DEF base, bps
    <3>1. base * bps \in Nat
      BY <2>3, <2>4, <2>5, <2>6, ProductType
    <3> QED BY <2>2, <2>3, <2>5, <3>1, DivCeilLeast
  <2> HIDE DEF base, bps
  <2>8. /\ quote.price * MultiplierOne >= base * bps
        /\ (quote.price - 1) * MultiplierOne < base * bps
    BY <2>7 DEF Least
  <2> QED BY <2>6, <2>8 DEF QuoteExact, base, bps, Cost, Cap
<1> QED BY <1>1, Invariance, PTL

\* A task is never quoted lower when more jobs run: neither the rounding nor
\* the 64-bit product of the multiplier turns load into a discount
\* (inFlightMultiplierBps, applyMultiplierCeil).
THEOREM LoadCostsMore == Spec => LoadNeverCheaper
<1>1. ASSUME IInv, IInv', [Next]_vars, Quoted, Quoted', quote'.req = quote.req,
             quote'.load >= quote.load
      PROVE  quote'.price >= quote.price
  <2> DEFINE req == quote.req
             base == basePrice(req)
             bps(load) == inFlightMultiplierBps(cfg.surge, load)
  <2>1. cfg' = cfg
    BY <1>1 DEF Next, vars, Quote, JobStarts, JobEnds
  <2>2. /\ cfg \in Configs /\ req \in Requests /\ quote.load \in 0..MaxInFlight
        /\ quote.price = quotePrice(req, quote.load) /\ quotePrice(req, quote.load) # Failed
    BY <1>1, QuotedFacts
  <2>3. /\ quote'.load \in 0..MaxInFlight
        /\ quote'.price = quotePrice(req, quote'.load) /\ quotePrice(req, quote'.load) # Failed
    <3>1. /\ quote'.load \in 0..MaxInFlight
          /\ \E r \in Requests, l \in 0..MaxInFlight :
                quote' = [req |-> r, load |-> l, price |-> quotePrice(r, l)']
          /\ quote'.price # Failed
      BY <1>1 DEF IInv, QuoteOf, Quoted, NoQuote
    <3>2. PICK r \in Requests, l \in 0..MaxInFlight :
              quote' = [req |-> r, load |-> l, price |-> quotePrice(r, l)']
      BY <3>1
    <3>3. quote'.price = quotePrice(r, l) /\ quote'.load = l /\ quote'.req = r
      BY <2>1, <3>2, SamePrice
    <3> QED BY <1>1, <3>1, <3>3
  <2>4. /\ base # Failed
        /\ quote.price = DivCeil(base * bps(quote.load), MultiplierOne)
        /\ quote'.price = DivCeil(base * bps(quote'.load), MultiplierOne)
    BY <2>2, <2>3, PriceValue
  <2>5. base \in Nat /\ MultiplierOne \in Nat \ {0}
    BY <2>2, <2>4, BasePrice, PricingAssumption
  <2>6. /\ bps(quote.load) \in Nat /\ bps(quote'.load) \in Nat
        /\ bps(quote.load) <= bps(quote'.load)
    <3>1. cfg.surge \in Surges
      BY <2>2, PricingAssumption DEF Surges
    <3> QED BY <1>1, <2>2, <2>3, <3>1, MultiplierBounds, MultiplierMonotone, PricingAssumption
  <2> HIDE DEF base, bps
  <2>7. bps(quote.load) * base <= bps(quote'.load) * base
    BY <2>5, <2>6, ProductMonotone
  <2>8. /\ base * bps(quote.load) \in Nat /\ base * bps(quote'.load) \in Nat
        /\ base * bps(quote.load) <= base * bps(quote'.load)
    BY <2>5, <2>6, <2>7, ProductType
  <2>9. DivCeil(base * bps(quote.load), MultiplierOne)
            <= DivCeil(base * bps(quote'.load), MultiplierOne)
    BY <2>5, <2>8, DivCeilMonotone
  <2>10. quote.price \in Int /\ quote'.price \in Int
    BY <2>2, <2>3, PriceValue, PricingAssumption
  <2> QED BY <2>4, <2>9, <2>10
<1>2. ASSUME IInv, IInv', [Next]_vars
      PROVE  [Quoted /\ Quoted' /\ quote'.req = quote.req /\ quote'.load >= quote.load
                 => quote'.price >= quote.price]_vars
  BY <1>1, <1>2
<1> QED BY <1>2, Invariance, PTL DEF Spec, LoadNeverCheaper

\* The invoice of a quote asks for the quoted price, and what the requester
\* reads from it is that price or nothing it would pay, whichever of LND's two
\* amount fields is used (setInvoicePriceMsat, DecodePaymentRequest).
THEOREM InvoicesCarryPrice == Spec => []InvoiceCarriesPrice
<1>1. ASSUME NEW price \in 1..MaxUint64, setInvoicePriceMsat(price) # NoInvoice,
             NEW knowsMsat \in BOOLEAN
      PROVE  LET amount ==
                     DecodePaymentRequest(DecodePayReq(setInvoicePriceMsat(price), knowsMsat))
             IN  \/ amount \in {price, Failed}
                 \/ ~ knowsMsat /\ price % MsatPerSat # 0 /\ amount < price
  <2> DEFINE sats == price \div MsatPerSat
             rest == price % MsatPerSat
             invoice == setInvoicePriceMsat(price)
             amount == DecodePaymentRequest(DecodePayReq(invoice, knowsMsat))
  <2>1. MaxUint64 \in Nat /\ MaxInt64 \in Nat /\ MsatPerSat \in Nat \ {0} /\ price \in Nat \ {0}
    BY PricingAssumption
  <2>2. sats \in Nat /\ rest \in 0..(MsatPerSat - 1) /\ price = MsatPerSat * sats + rest
    BY <2>1, Division
  <2>3. \/ rest = 0 /\ sats <= MaxInt64 /\ invoice = [value |-> sats, valueMsat |-> 0]
        \/ rest # 0 /\ price <= MaxInt64 /\ invoice = [value |-> 0, valueMsat |-> price]
    BY <1>1, <2>1 DEF setInvoicePriceMsat
  <2>4. invoice.value * MsatPerSat + invoice.valueMsat = price
    <3> HIDE DEF invoice, sats, rest
    <3> QED BY <2>1, <2>2, <2>3
  <2>5. DecodePayReq(invoice, knowsMsat) =
            [numMsat |-> IF ~ knowsMsat THEN 0
                         ELSE IF price <= MaxInt64 THEN price ELSE price - MaxUint64 - 1,
             numSats |-> sats]
    <3> HIDE DEF invoice
    <3> QED BY <2>4 DEF DecodePayReq
  <2>6. CASE knowsMsat
    <3> DEFINE msat == IF price <= MaxInt64 THEN price ELSE price - MaxUint64 - 1
    <3>1. msat # 0 /\ (msat < 0 \/ msat = price)
      BY <2>1
    <3>2. DecodePayReq(invoice, knowsMsat) = [numMsat |-> msat, numSats |-> sats]
      BY <2>5, <2>6
    <3> HIDE DEF msat, invoice, sats
    <3> QED BY <3>1, <3>2 DEF DecodePaymentRequest, invoice
  <2>7. CASE ~ knowsMsat
    <3>1. DecodePayReq(invoice, knowsMsat) = [numMsat |-> 0, numSats |-> sats]
      BY <2>5, <2>7
    <3>2. amount \in {Failed, sats * MsatPerSat} \/ (sats = 0 /\ amount = 0)
      <4> HIDE DEF invoice, sats
      <4> QED BY <2>2, <3>1 DEF DecodePaymentRequest
    <3> HIDE DEF amount
    <3>3. rest = 0 => amount \in {price, Failed}
      <4> HIDE DEF sats, rest
      <4> QED BY <2>1, <2>2, <3>2
    <3>4. rest # 0 => amount = Failed \/ amount < price
      <4> HIDE DEF sats, rest
      <4> QED BY <2>1, <2>2, <3>2
    <3> QED BY <2>7, <3>3, <3>4 DEF amount
  <2> QED BY <2>6, <2>7
<1>2. ASSUME IInv PROVE InvoiceCarriesPrice
  <2> SUFFICES ASSUME Quoted PROVE InvoiceCarriesPrice
    BY DEF InvoiceCarriesPrice
  <2>1. quote.price \in 1..MaxUint64
    BY <1>2, QuotedFacts, PriceValue
  <2>2. quote.price > 0
    BY <2>1, PricingAssumption
  <2> QED BY <1>1, <2>1, <2>2 DEF InvoiceCarriesPrice
<1> QED BY <1>2, Invariance, PTL
=============================================================================
