------------------------------ MODULE PlanCore ------------------------------
(***************************************************************************)
(* packages/plan-core and packages/passport: the arithmetic every service  *)
(* and every app recomputes from the contracts' rules.  A hash is the      *)
(* tuple of what is hashed, which says of keccak256 exactly what the code  *)
(* relies on: equal inputs give equal digests and different ones do not.   *)
(* The source's bigints do not overflow; neither do these.                 *)
(***************************************************************************)
EXTENDS Integers, Sequences

CONSTANTS
    BPS,                          \* the denominator of every ratio
    JITTER_HALF_WIDTH, AUTHORIZATION_WINDOW, GRACE_WINDOW,
    BOUNTY_START_BPS, BOUNTY_END_BPS, BOUNTY_FLOOR, BOUNTY_CAP, MARK_BOUNTY,
    ORIGINATION_DEFAULTS,         \* a record: tickets, mdrBps, the Tier-0 curve
    NEGATIVE_MARK_TTL,
    BandEdges,                    \* the six edges of bandOf, ascending
    IdNumber(_)                   \* BigInt(planId): some number for each id

Min2(a, b) == IF a < b THEN a ELSE b

---------------------------------------------------------------------------
(* Identity: plan-id.ts. *)

DerivePlanId(terms) == <<"Plan", terms>>

CheckNonce(planId, index) == <<planId, index>>

CloneInitCodeHash(implementation) == <<"ERC1167", implementation>>

PredictPlanAddress(deployer, implementation, planId) ==
    <<"CREATE2", deployer, planId, CloneInitCodeHash(implementation)>>

Indices(terms) == 0 .. (terms.installmentCount - 1)

DerivePlan(terms) ==
    LET id == DerivePlanId(terms)
    IN  [planId |-> id,
         address |-> PredictPlanAddress(terms.factory, terms.implementation, id),
         nonces |-> [i \in Indices(terms) |-> CheckNonce(id, i)]]

---------------------------------------------------------------------------
(* The schedule and the strip: params.ts and strip.ts. *)

MarkEscrow(installmentCount) == installmentCount * MARK_BOUNTY * 2

\* Mutant of CollectBounty: the window's last rate from the first moment.
CollectBountyAtTheEnd(installment, elapsed, window) ==
    LET paid == (installment * BOUNTY_END_BPS) \div BPS
        floored == IF paid < BOUNTY_FLOOR THEN BOUNTY_FLOOR ELSE paid
    IN  Min2(Min2(floored, BOUNTY_CAP), installment)

\* BigInt division truncates, and every operand is positive inside the window.
CollectBounty(installment, elapsed, window) ==
    LET bps == IF window = 0 \/ elapsed >= window THEN BOUNTY_END_BPS
               ELSE BOUNTY_START_BPS
                      + ((BOUNTY_END_BPS - BOUNTY_START_BPS) * elapsed) \div window
        paid == (installment * bps) \div BPS
        floored == IF paid < BOUNTY_FLOOR THEN BOUNTY_FLOOR ELSE paid
    IN  Min2(Min2(floored, BOUNTY_CAP), installment)

scheduleJitter(planId) == (IdNumber(planId) % (2 * JITTER_HALF_WIDTH)) - JITTER_HALF_WIDTH

DueDate(planId, terms, index) ==
    IF index = 0 THEN terms.firstDueDate
    ELSE terms.firstDueDate + index * terms.interval + scheduleJitter(planId)

DueDates(planId, terms) == [i \in Indices(terms) |-> DueDate(planId, terms, i)]

InstallmentAmount(terms, index) ==
    LET base == terms.principal \div terms.installmentCount
    IN  IF index = 0 THEN base + (terms.principal % terms.installmentCount) ELSE base

InstallmentAmounts(terms) == [i \in Indices(terms) |-> InstallmentAmount(terms, i)]

HashTermsDetail(detail) == <<"TermsDetail", detail>>

\* The arguments of receiveWithAuthorization, one per installment.
BuildStrip(terms, id) ==
    [i \in Indices(terms) |->
        [index |-> i,
         from |-> terms.borrower,
         to |-> PredictPlanAddress(terms.factory, terms.implementation, id),
         value |-> InstallmentAmount(terms, i),
         validAfter |-> DueDate(id, terms, i) - 1,
         validBefore |-> DueDate(id, terms, i) + AUTHORIZATION_WINDOW,
         nonce |-> CheckNonce(id, i)]]

\* What the wallet's screen renders and signs: the index is not part of it.
ReceiveWithAuthorizationTypedData(domain, authorization) ==
    [domain |-> domain, primaryType |-> "ReceiveWithAuthorization",
     message |-> [f \in {"from", "to", "value", "validAfter", "validBefore", "nonce"} |->
                    authorization[f]]]

BuildAcceptance(terms, validUntil, id) ==
    [planId |-> id, borrower |-> terms.borrower, merchant |-> terms.merchant,
     token |-> terms.token, principal |-> terms.principal,
     installmentCount |-> terms.installmentCount,
     firstInstallment |-> InstallmentAmount(terms, 0),
     laterInstallment |-> InstallmentAmount(terms, 1),
     firstDueDate |-> DueDate(id, terms, 0),
     finalDueDate |-> DueDate(id, terms, terms.installmentCount - 1),
     interval |-> terms.interval, termsHash |-> terms.termsHash,
     validUntil |-> validUntil]

AcceptanceTypedData(chainId, plan, acceptance) ==
    [domain |-> [name |-> "Plazo", version |-> "1", chainId |-> chainId,
                 verifyingContract |-> plan],
     primaryType |-> "PlanAcceptance", message |-> acceptance]

PreparePlan(terms, validUntil) ==
    LET id == DerivePlanId(terms)
    IN  [planId |-> id,
         address |-> PredictPlanAddress(terms.factory, terms.implementation, id),
         dueDates |-> DueDates(id, terms),
         amounts |-> InstallmentAmounts(terms),
         strip |-> BuildStrip(terms, id),
         acceptance |-> BuildAcceptance(terms, validUntil, id)]

---------------------------------------------------------------------------
(* Limits and quotes: underwriting.ts. *)

IdentityClass == {"Pseudonymous", "Identified"}
SignerClass == {"EOA", "Contract"}

PseudonymousId(wallet) == <<"PLAZO.PSEUDONYMOUS", wallet>>

LimitAttestationTypedData(chainId, router, attestation) ==
    [domain |-> [name |-> "Plazo", version |-> "1", chainId |-> chainId,
                 verifyingContract |-> router],
     primaryType |-> "LimitAttestation", message |-> attestation]

\* The number of edges at or below the limit.
BandOf(limit) ==
    CHOOSE b \in 0 .. Len(BandEdges) :
        /\ \A e \in 1 .. b : limit >= BandEdges[e]
        /\ b < Len(BandEdges) => limit < BandEdges[b + 1]

\* The curve after `steps` clean completions.  The source's loop stops at the
\* ceiling, which is where it stays.
Grown(steps) ==
    LET p == ORIGINATION_DEFAULTS
        grown[s \in 0 .. steps] ==
            IF s = 0 THEN p.tier0InitialLimit
            ELSE Min2((grown[s - 1] * p.tier0GrowthBps) \div BPS, p.tier0IdentifiedCap)
    IN  grown[steps]

Tier0Limit(cleanCompletions, identity, signerClass, activePlans, throttleBps, bookHeadroom) ==
    LET p == ORIGINATION_DEFAULTS
        grown == Grown(Min2(cleanCompletions, 64))
        capped == Min2(grown, IF identity = "Identified" THEN p.tier0IdentifiedCap
                              ELSE p.tier0PseudonymousCap)
        signed == IF signerClass = "Contract"
                  THEN (capped * p.contractSignerCapBps) \div BPS ELSE capped
        throttled == (signed * throttleBps) \div BPS
    IN  IF activePlans > 0 THEN 0 ELSE Min2(throttled, bookHeadroom)

SplitInstallments(principal, count) ==
    [i \in 0 .. (count - 1) |->
        (principal \div count) + (IF i = 0 THEN principal % count ELSE 0)]

Price(principal, count, mdrBps) ==
    LET mdr == (principal * mdrBps) \div BPS
    IN  [principal |-> principal, mdr |-> mdr, merchantNet |-> principal - mdr,
         installments |-> SplitInstallments(principal, count)]

\* A quote carries at most one fallback, and at most one reason to decline.
Quoted(approved, price, limit, fallback, declineReason) ==
    [approved |-> approved, principal |-> price.principal,
     installments |-> price.installments, mdr |-> price.mdr,
     merchantNet |-> price.merchantNet, availableLimit |-> limit,
     fallback |-> fallback, declineReason |-> declineReason]

BuildQuote(cartTotal, count, availableLimit) ==
    LET p == ORIGINATION_DEFAULTS
        price(principal) == Price(principal, count, p.mdrBps)
        capped == Min2(Min2(cartTotal, availableLimit), p.maxTicket)
        offer == [upfront |-> cartTotal - capped, financed |-> capped,
                  installments |-> SplitInstallments(capped, count)]
    IN  IF cartTotal < p.minTicket
        THEN Quoted(FALSE, price(0), availableLimit, {}, {"below-minimum-ticket"})
        ELSE IF capped >= cartTotal
        THEN Quoted(TRUE, price(cartTotal), availableLimit, {}, {})
        ELSE IF capped < p.minTicket
        THEN Quoted(FALSE, price(0), availableLimit, {},
                    {IF capped = 0 THEN "no-credit-available" ELSE "below-minimum-ticket"})
        ELSE Quoted(FALSE, price(capped), availableLimit, {offer}, {})

---------------------------------------------------------------------------
(* The portable record: passport/src/index.ts. *)

Tier == {"Unknown", "Impaired", "Building", "Established", "Trusted"}

Score(completions, negatives) ==
    IF negatives >= 2 THEN "Impaired"
    ELSE IF negatives = 1 THEN (IF completions >= 4 THEN "Established" ELSE "Building")
    ELSE IF completions >= 5 THEN "Trusted"
    ELSE IF completions >= 2 THEN "Established"
    ELSE "Building"

\* Marks still inside the window; 0 is an empty slot of the ring.
ActiveNegatives(markedAt, now) ==
    LET cutoff == IF now > NEGATIVE_MARK_TTL THEN now - NEGATIVE_MARK_TTL ELSE 0
    IN  Len(SelectSeq(markedAt, LAMBDA at : at # 0 /\ at >= cutoff))

\* The record kept off the chain, event by event in the order it happened, and
\* what the chain holds of it.
HashRecord(record) ==
    <<record.borrower, record.schemaId, record.schemaVersion,
      [i \in DOMAIN record.events |-> <<"PassportEvent", record.events[i]>>]>>
Commitment(version, salt, recordHash) == <<version, salt, recordHash>>

CommitRecord(record, version, salt) == Commitment(version, salt, HashRecord(record))

\* What a borrower signs to let one reader see one schema.
ConsentTypedData(grant, chainId, passport) ==
    [domain |-> [name |-> "PlazoPassport", version |-> "1", chainId |-> chainId,
                 verifyingContract |-> passport],
     primaryType |-> "ConsentGrant", message |-> grant]

\* The steps that bound, in the order they are applied, each with the limit
\* after it.  The caller supplies the figures, which come from the chain.
ExplainLimit(input) ==
    LET explained(steps, limit) ==
            [tier |-> Score(input.completions, input.activeNegatives),
             completions |-> input.completions, activeNegatives |-> input.activeNegatives,
             steps |-> steps, limit |-> limit]
        caps == <<[kind |-> "identity-cap", cap |-> input.identityCap],
                  [kind |-> "signer-cap", cap |-> input.signerCap],
                  [kind |-> "throttle", cap |-> input.throttled],
                  [kind |-> "book-share", cap |-> input.bookHeadroom]>>
        first == <<[kind |-> IF input.completions > 0 THEN "growth" ELSE "base",
                    limit |-> input.curveLimit]>>
        after[k \in 0 .. 4] ==
            IF k = 0 THEN [steps |-> first, limit |-> input.curveLimit]
            ELSE IF caps[k].cap < after[k - 1].limit
            THEN [steps |-> Append(after[k - 1].steps,
                                   [kind |-> caps[k].kind, limit |-> caps[k].cap]),
                  limit |-> caps[k].cap]
            ELSE after[k - 1]
    IN  IF input.hasActivePlan
        THEN explained(<<[kind |-> "active-plan", limit |-> 0]>>, 0)
        ELSE explained(after[4].steps, after[4].limit)
=============================================================================
