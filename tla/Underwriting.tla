---------------------------- MODULE Underwriting ----------------------------
(***************************************************************************)
(* services/origination: tier1.ts, what verified income proposes, and      *)
(* underwriting.ts, the attestation a checkout carries, from three reads   *)
(* that answer when they will.  The inflow tables have no writer in the    *)
(* repository: one row per payer and month, its count of payments the      *)
(* other way fixed when it is written, is what their schema asks of one.   *)
(***************************************************************************)
EXTENDS PlanCore, FiniteSets

LOCAL INSTANCE FiniteSetsExt
LOCAL INSTANCE SequencesExt

CONSTANTS Payers, ProtocolAddresses, Months, Values,
          UW_BPS,                       \* the denominator of every ratio
          incomeMultipleBps, pseudonymousCap, payrollBonusBps,
          minMonths, minCounterparties, dispersionCeilingBps,
          Written,                      \* and of those, the values rows are written with
          Caps,                         \* what capFor may answer
          CHAIN_ID,
          PaymentBound                  \* bound: the payments received

VARIABLES evidence,     \* the inflow rows of the subject, as they were written
          sentTo,       \* payers the subject has paid
          decision,     \* a decide() between its reads and its signature
          signed        \* the last decision's attestation, as it was signed

uwVars == <<evidence, sentTo, decision, signed>>

-----------------------------------------------------------------------------
\* tier1.ts: the rows, and the four exclusions.
InflowRow(payer, month, value, sentToCount) ==
    [counterparty |-> payer, valueMinor |-> value, monthBucket |-> month,
     sentToCount |-> sentToCount, isProtocolAddress |-> payer \in ProtocolAddresses]

AfterRoundTrip(rows) == {r \in rows : r.sentToCount = 0}
\* Mutant of Surviving: the protocol's own payouts count.
SurvivingWithProtocol(rows) == AfterRoundTrip(rows)

Surviving(rows) == {r \in AfterRoundTrip(rows) : ~r.isProtocolAddress}
Buckets(rows) == {r.monthBucket : r \in rows}
BucketTotal(rows, month) ==
    MapThenSumSet(LAMBDA r : r.valueMinor, {r \in rows : r.monthBucket = month})

\* The integer square root, from below.
isqrt(value) == CHOOSE r \in 0 .. value : r * r <= value /\ value < (r + 1) * (r + 1)

MeanMonth(rows) ==
    MapThenSumSet(LAMBDA m : BucketTotal(rows, m), Buckets(rows)) \div Cardinality(Buckets(rows))
Dispersion(rows) ==
    LET mean == MeanMonth(rows)
        squared(m) == (BucketTotal(rows, m) - mean) * (BucketTotal(rows, m) - mean)
        variance == MapThenSumSet(squared, Buckets(rows)) \div Cardinality(Buckets(rows))
    IN  (isqrt(variance) * UW_BPS) \div mean

Tier1Score ==
    [verifiedMonthlyMinor : Nat, months : Nat, counterparties : Nat,
     excluded : [roundTrip : Nat, protocol : Nat]]

scoreInflows(rows) ==
    LET kept == Surviving(rows)
        months == Cardinality(Buckets(kept))
        counterparties == Cardinality({r.counterparty : r \in kept})
        qualifies == /\ months >= minMonths
                     /\ counterparties >= minCounterparties
                     /\ MeanMonth(kept) # 0
                     /\ Dispersion(kept) <= dispersionCeilingBps
    IN  [verifiedMonthlyMinor |-> IF qualifies THEN MeanMonth(kept) ELSE 0,
         months |-> months, counterparties |-> counterparties,
         excluded |-> [roundTrip |-> Cardinality(rows \ AfterRoundTrip(rows)),
                       protocol |-> Cardinality(AfterRoundTrip(rows) \ kept)]]

\* The multiple, the payroll uplift, and then the pseudonymous ceiling.
tier1LimitFor(score, identity, payrollOptedIn) ==
    LET base == (score.verifiedMonthlyMinor * incomeMultipleBps) \div UW_BPS
        uplifted == IF payrollOptedIn THEN (base * (UW_BPS + payrollBonusBps)) \div UW_BPS ELSE base
    IN  IF identity = "Pseudonymous" /\ uplifted > pseudonymousCap THEN pseudonymousCap ELSE uplifted
NO_TIER1 == 0

-----------------------------------------------------------------------------
\* underwriting.ts: the chain's figure is what is attested; the income figure
\* rides beside it and never into it.
NoDecision == [reading |-> FALSE]

\* A commitment an operator attested, or the wallet alone.
personIdFor(attested) ==
    IF attested THEN [personId |-> <<"commitment">>, identityClass |-> "Identified"]
    ELSE [personId |-> PseudonymousId("wallet"), identityClass |-> "Pseudonymous"]

\* The three reads go out together; maxPrincipalFor is handed back as it comes.
decide(attested, signerClass) ==
    /\ ~decision.reading
    /\ decision' = [reading |-> TRUE, person |-> personIdFor(attested), signerClass |-> signerClass,
                    answer |-> {}, tier1 |-> {}, rows |-> {}, payroll |-> FALSE]
    /\ signed' = {}
    /\ UNCHANGED <<evidence, sentTo>>

\* The chain's answer to one question at one moment; it moves as it likes.
CapAnswer(personId, identity, signerClass, limit) ==
    [personId |-> personId, identityClass |-> identity, signerClass |-> signerClass,
     limit |-> limit]

capForAnswers(limit) ==
    /\ decision.reading /\ decision.answer = {}
    /\ decision' = [decision EXCEPT !.answer =
          {CapAnswer(decision.person.personId, decision.person.identityClass,
                     decision.signerClass, limit)}]
    /\ UNCHANGED <<evidence, sentTo, signed>>

\* Without an injected scorer the proposal is zero and no row is read.
proposeForAnswers(configured, payrollOptedIn) ==
    /\ decision.reading /\ decision.tier1 = {}
    /\ decision' =
          IF configured
          THEN [decision EXCEPT !.rows = evidence, !.payroll = payrollOptedIn,
                    !.tier1 = {tier1LimitFor(scoreInflows(evidence),
                                             decision.person.identityClass, payrollOptedIn)}]
          ELSE [decision EXCEPT !.tier1 = {NO_TIER1}]
    /\ UNCHANGED <<evidence, sentTo, signed>>

\* A read or the signer rejects, and nothing is signed.
decideThrows ==
    /\ decision.reading
    /\ decision' = NoDecision
    /\ UNCHANGED <<evidence, sentTo, signed>>

\* The chain's figure is signed; the proposal rides beside it.
signTypedData ==
    /\ decision.reading /\ decision.tier1 # {}
    /\ \E answer \in decision.answer, tier1 \in decision.tier1 :
        LET attestation == [personId |-> decision.person.personId, limit |-> answer.limit,
                            identityClass |-> decision.person.identityClass]
        IN  signed' = {[typedData |-> LimitAttestationTypedData(CHAIN_ID, "router", attestation),
                        band |-> BandOf(answer.limit), tier1 |-> tier1,
                        of |-> decision]}
    /\ decision' = NoDecision
    /\ UNCHANGED <<evidence, sentTo>>

-----------------------------------------------------------------------------
\* The world: rows are written with the count as it stands, and the subject pays
\* somebody, which no row written before shows.
RowIsWritten ==
    /\ Cardinality(evidence) < PaymentBound
    /\ \E payer \in Payers \cup ProtocolAddresses, month \in Months, value \in Written :
        /\ \A r \in evidence : <<r.counterparty, r.monthBucket>> # <<payer, month>>
        /\ evidence' = evidence \cup
               {InflowRow(payer, month, value, Cardinality({payer} \cap sentTo))}
    /\ UNCHANGED <<sentTo, decision, signed>>
SubjectPays ==
    /\ \E payer \in Payers \ sentTo : sentTo' = sentTo \cup {payer}
    /\ UNCHANGED <<evidence, decision, signed>>

UwInit ==
    /\ evidence = {} /\ sentTo = {}
    /\ decision = NoDecision /\ signed = {}
UwNext ==
    \/ \E attested \in BOOLEAN, signerClass \in SignerClass : decide(attested, signerClass)
    \/ \E configured, payrollOptedIn \in BOOLEAN :
           proposeForAnswers(configured, payrollOptedIn)
    \/ \E limit \in Caps : capForAnswers(limit)
    \/ decideThrows \/ signTypedData
    \/ RowIsWritten \/ SubjectPays
UwSpec == UwInit /\ [][UwNext]_uwVars

-----------------------------------------------------------------------------
\* What the rows a decision read say was earned in a month: from payers the
\* subject had not paid when the row was written, and not from the protocol.
Earned(rows, month) ==
    MapThenSumSet(LAMBDA r : r.valueMinor,
        {r \in rows : /\ r.monthBucket = month /\ r.sentToCount = 0
                      /\ r.counterparty \notin ProtocolAddresses})

\* A proposal is earned by its rows: over minMonths months at least, from
\* minCounterparties payers at least, it is the multiple of no more than the
\* average earned month, uplifted by the bonus only on payroll; a wallet nobody
\* attested gets the ceiling at most, and never more than it would attested.
EarnedBy(rows, identity, payroll, limit) ==
    LET earning == {m \in Months : Earned(rows, m) > 0}
        payers == {r.counterparty : r \in {x \in rows : x.sentToCount = 0}}
        uplift == UW_BPS + (IF payroll THEN payrollBonusBps ELSE 0)
    IN  /\ limit > 0 =>
             /\ Cardinality(earning) >= minMonths
             /\ Cardinality(payers \ ProtocolAddresses) >= minCounterparties
             /\ limit * Cardinality(earning) * UW_BPS * UW_BPS
                  <= MapThenSumSet(LAMBDA m : Earned(rows, m), earning)
                       * incomeMultipleBps * uplift
        /\ identity = "Pseudonymous" =>
             /\ limit <= pseudonymousCap
             /\ limit <= tier1LimitFor(scoreInflows(rows), "Identified", payroll)

\* What tier1.ts answers for any few rows the tables could hold.
EveryScoreIsEarned ==
    LET kept == {InflowRow(payer, month, value, 0) :
                   payer \in Payers \cup ProtocolAddresses, month \in Months, value \in Values}
        paidBack == {InflowRow(payer, month, Max(Values), 1) : payer \in Payers, month \in Months}
    IN  \A rows \in UNION {kSubset(n, kept \cup paidBack) : n \in 0 .. PaymentBound} :
            LET score == scoreInflows(rows) IN
            /\ score \in Tier1Score
            /\ \A identity \in IdentityClass, payroll \in BOOLEAN :
                  EarnedBy(rows, identity, payroll, tier1LimitFor(score, identity, payroll))

\* And what a decision publishes beside its attestation is earned by the very
\* rows it read, whatever is written or paid before it is signed.
LimitIsEarned ==
    \A a \in signed :
        EarnedBy(a.of.rows, a.of.person.identityClass, a.of.payroll, a.tier1)

\* What is attested is what the chain answered in this decision for this very
\* person, identity class and signer, and never the proposal beside it; the band
\* published with it is the number of edges it reaches.
AttestedIsTheChains ==
    \A a \in signed :
        LET said == a.typedData.message IN
        /\ a.of.answer = {CapAnswer(said.personId, said.identityClass, a.of.signerClass,
                                    said.limit)}
        /\ said.identityClass = "Pseudonymous" <=> said.personId = PseudonymousId("wallet")
        /\ a.band = Cardinality({e \in DOMAIN BandEdges : BandEdges[e] <= said.limit})

\* Neither figure is more than what it rests on.
UnderwritingHolds == LimitIsEarned /\ AttestedIsTheChains
=============================================================================
