---------------------------- MODULE PlanFigures -----------------------------
(***************************************************************************)
(* What the figures of packages/plan-core and packages/passport must agree *)
(* on with each other and with the money they describe.  Apps and services *)
(* recompute them one by one; nothing of it is stored.  First units.ts and *)
(* the rate of services/fx schemas.ts: the three scales one amount is      *)
(* written at, and its decimal text, its whole part and the digits after   *)
(* the point.  What the source throws on is an empty set of results.       *)
(***************************************************************************)
EXTENDS PlanCore, FiniteSets

LOCAL INSTANCE Functions
LOCAL INSTANCE SequencesExt
LOCAL INSTANCE FiniteSetsExt

CONSTANTS FigureBound,   \* bound: the largest amount tried
          SCALE,         \* native units in one minor unit (10^12)
          RADIX,         \* 10
          DECIMALS,      \* digits of a minor unit (6)
          RATE_DECIMALS  \* digits of a rate (18)

ASSUME UnitsAssumption ==
    {SCALE, DECIMALS, RATE_DECIMALS} \subseteq Nat \ {0} /\ RADIX \in Nat \ {0, 1}

-----------------------------------------------------------------------------
\* The branded figures: any of them refuses a negative one.
usdc6(value) == IF value < 0 THEN {} ELSE {value}
wei18(value) == IF value < 0 THEN {} ELSE {value}

toWei18(value) == value * SCALE

\* A settlement balance: a remainder is refused.
toUsdc6(value) == IF value % SCALE = 0 THEN {value \div SCALE} ELSE {}

narrowWithDust(value) == [amount |-> value \div SCALE, dust |-> value % SCALE]

\* Somebody else's transfer: a remainder is dropped.
toMinor6(value) == value \div SCALE

\* Money that still says what it is: two currencies never meet.
Currency == {"USDC", "EURC"}
money(currency, value) == [currency |-> currency, value |-> value]
assertSameCurrency(a, b) == a.currency = b.currency

-----------------------------------------------------------------------------
FromDigits(digits) == FoldLeft(LAMBDA n, d : n * RADIX + d, 0, digits)
Zeros(n) == [k \in 1 .. n |-> 0]

\* Trailing zeros are not written.
formatUsdc6(value) ==
    LET frac == [k \in 1 .. DECIMALS |-> (value \div RADIX^(DECIMALS - k)) % RADIX]
        written == Max({0} \cup {k \in 1 .. DECIMALS : frac[k] # 0})
    IN  [whole |-> value \div RADIX^DECIMALS, frac |-> SubSeq(frac, 1, written)]

\* More digits than the token has are refused.
parseUsdc6(text) ==
    IF Len(text.frac) > DECIMALS THEN {}
    ELSE {text.whole * RADIX^DECIMALS
            + FromDigits(text.frac \o Zeros(DECIMALS - Len(text.frac)))}

\* More digits than a rate has are dropped, never rounded.
rateToE18(text) ==
    text.whole * RADIX^RATE_DECIMALS
      + FromDigits(SubSeq(text.frac \o Zeros(RATE_DECIMALS), 1, RATE_DECIMALS))

-----------------------------------------------------------------------------
Amounts == 0 .. FigureBound
Total(parts) == FoldFunction(LAMBDA a, b : a + b, 0, parts)

-----------------------------------------------------------------------------
\* Whatever is in the cart and whatever the limit, a quote's parts are the
\* money: the merchant's net, the fee, the installments, and what a fallback
\* asks up front.  It never lends over the limit or outside the ticket bounds,
\* and it either approves, offers one alternative, or says why not.
QuotesAddUp ==
    \A cart, limit \in Amounts, count \in 1 .. 4 :
        LET q == BuildQuote(cart, count, limit)
            p == ORIGINATION_DEFAULTS
        IN  /\ Total(q.installments) = q.principal
            /\ q.mdr + q.merchantNet = q.principal /\ q.mdr >= 0 /\ q.merchantNet >= 0
            /\ q.principal # 0 =>
                  q.principal \in p.minTicket .. p.maxTicket /\ q.principal <= limit
            /\ q.approved => q.principal = cart
            /\ \A o \in q.fallback :
                  /\ o.upfront + o.financed = cart /\ o.upfront > 0
                  /\ o.financed = q.principal /\ Total(o.installments) = o.financed
            /\ Cardinality(q.fallback \cup q.declineReason) = (IF q.approved THEN 0 ELSE 1)

\* The borrower's explanation, given the figures of the curve, ends at the very
\* limit the curve gives, by steps that only go down.
ExplanationsEndAtTheLimit ==
    \A completions \in 0 .. 5, identity \in IdentityClass, signer \in SignerClass,
       active \in 0 .. 1, throttleBps \in 0 .. BPS, headroom \in Amounts :
        LET p == ORIGINATION_DEFAULTS
            identityCap == IF identity = "Identified" THEN p.tier0IdentifiedCap
                           ELSE p.tier0PseudonymousCap
            \* What the chain answers at each step, for this borrower.
            held == Min2(Grown(completions), identityCap)
            signed == IF signer = "Contract" THEN (held * p.contractSignerCapBps) \div BPS
                      ELSE held
            told == ExplainLimit(
                        [completions |-> completions, activeNegatives |-> 0,
                         curveLimit |-> Grown(completions), identityCap |-> identityCap,
                         signerCap |-> signed, throttled |-> (signed * throttleBps) \div BPS,
                         bookHeadroom |-> headroom, hasActivePlan |-> active > 0])
        IN  /\ told.limit = Tier0Limit(completions, identity, signer, active,
                                       throttleBps, headroom)
            /\ told.steps[Len(told.steps)].limit = told.limit
            /\ \A k \in 1 .. Len(told.steps) - 1 :
                  told.steps[k + 1].limit < told.steps[k].limit

\* A record only gets worse with a mark and better with time and completions.
Rank(tier) == CASE tier = "Impaired" -> 1 [] tier = "Building" -> 2
                [] tier = "Established" -> 3 [] tier = "Trusted" -> 4
RecordsAge ==
    \A completions \in 0 .. 6, first, second \in 0 .. FigureBound, now \in 0 .. FigureBound :
        LET active(at) == ActiveNegatives(<<first, second>>, at)
            tier(n, c) == Score(c, n)
        IN  /\ \A c \in 0 .. 6, n \in 0 .. 3 : tier(n, c) \in Tier \ {"Unknown"}
            /\ (first <= now /\ second <= now) =>
                  Rank(tier(active(now), completions)) <= Rank(tier(active(now + 1), completions))
            /\ Rank(tier(active(now), completions)) <= Rank(tier(active(now), completions + 1))

\* The plan a borrower is shown adds up to what is signed: the strip's values
\* are the principal, each under a nonce of its own, in the order it falls due,
\* and the acceptance names the first and the later ones and the last due date.
PreparedPlansAddUp ==
    \A principal \in 1 .. FigureBound, count \in 2 .. 4 :
        LET terms == [principal |-> principal, installmentCount |-> count,
                      firstDueDate |-> JITTER_HALF_WIDTH, interval |-> 2 * JITTER_HALF_WIDTH,
                      factory |-> "factory", implementation |-> "plan",
                      borrower |-> "borrower", merchant |-> "merchant", token |-> "USDC",
                      termsHash |-> "terms"]
            plan == PreparePlan(terms, 0)
            strip == plan.strip
            shown == plan.acceptance
        IN  /\ Total(plan.amounts) = principal
            /\ \A i \in DOMAIN strip :
                  /\ strip[i].value = plan.amounts[i] /\ strip[i].to = plan.address
                  /\ strip[i].validAfter < plan.dueDates[i]
                  /\ \A j \in DOMAIN strip : i < j =>
                        /\ strip[i].nonce # strip[j].nonce
                        /\ plan.dueDates[i] < plan.dueDates[j]
                        /\ plan.dueDates[j] <= shown.finalDueDate
            /\ shown.firstInstallment + (count - 1) * shown.laterInstallment = principal

\* One amount at its three scales and in its text is one amount: nothing is lost
\* on the way up, what is dropped on the way down is the dust, a settlement with
\* dust is refused, what is displayed reads back, and a rate is never rounded up.
UnitsRoundTrip ==
    /\ \A value \in Amounts :
          /\ usdc6(value) = {value} /\ usdc6(value - FigureBound - 1) = {}
          /\ toUsdc6(toWei18(value)) = {value}
          /\ parseUsdc6(formatUsdc6(value)) = {value}
    /\ \A native \in 0 .. FigureBound * SCALE :
          LET narrowed == narrowWithDust(native) IN
          /\ wei18(native) = {toWei18(narrowed.amount) + narrowed.dust}
          /\ narrowed.amount = toMinor6(native) /\ narrowed.dust < SCALE
          /\ toUsdc6(native) = IF narrowed.dust = 0 THEN {narrowed.amount} ELSE {}
    /\ \A whole \in 0 .. 2, first, second, third \in 0 .. RADIX - 1 :
          LET text == [whole |-> whole, frac |-> <<first, second, third>>]
              exact == ((whole * RADIX + first) * RADIX + second) * RADIX + third
          IN  /\ rateToE18(text) * RADIX^3 <= exact * RADIX^RATE_DECIMALS
              /\ exact * RADIX^RATE_DECIMALS < (rateToE18(text) + 1) * RADIX^3
              /\ (parseUsdc6(text) = {}) = (DECIMALS < 3)
    /\ \A a, b \in Currency :
          assertSameCurrency(money(a, 1), money(b, 1)) <=> money(a, 1) = money(b, 1)

\* A commitment opens to one history under one version and one salt, so neither
\* a reordered history, an older state nor a rotated salt passes for it; and a
\* consent signed for one chain or passport is not one for another.
CommitmentsOpenOnce ==
    LET histories == {<<x, y>> : x, y \in {"plan.repaid", "income.verified"}}
        record(events) == [borrower |-> "borrower", schemaId |-> "schema",
                           schemaVersion |-> 1, events |-> events]
        grant(nonce) == [borrower |-> "borrower", reader |-> "reader", schemaId |-> "schema",
                         validUntil |-> 1, nonce |-> nonce]
    IN  \A e, f \in histories, v, w, s, r \in 1 .. 2 :
           /\ (CommitRecord(record(e), v, s) = CommitRecord(record(f), w, r))
                 <=> <<e, v, s>> = <<f, w, r>>
           /\ (ConsentTypedData(grant(v), s, r) = ConsentTypedData(grant(w), r, s))
                 => v = w /\ s = r

\* The packages' figures agree.
FiguresAgree ==
    /\ QuotesAddUp /\ ExplanationsEndAtTheLimit /\ RecordsAge /\ PreparedPlansAddUp
    /\ UnitsRoundTrip /\ CommitmentsOpenOnce
=============================================================================
