-------------------------- MODULE InstallmentPlan --------------------------
(***************************************************************************)
(* One InstallmentPlan.sol clone from the moment initialize() returned,    *)
(* the EIP-3009 token it collects through, and everybody who may call it:  *)
(* keepers, the borrower or anyone paying for them, the merchant, and the  *)
(* token's administrator.  Every external function is one action; the EVM  *)
(* runs it to completion, so what interleaves is the calls.                *)
(***************************************************************************)
EXTENDS PlanLogic

CONSTANTS
    OriginatedAt,         \* when initialize() ran
    UnsignedChecks,       \* entries of the strip that never validated
    Purses,               \* balances the borrower may hold when a check is pulled
    RepayAmounts, RefundAmounts,
    MayBlacklist,         \* whether the token may blacklist this borrower
    MaxTime, MaxOutages, MaxDonated \* bounds of the exploration

ASSUME InputsAssumption ==
    /\ OriginatedAt \in Nat \ {0}
    /\ UnsignedChecks \subseteq Index
    /\ Purses \subseteq Nat
    /\ RepayAmounts \subseteq Nat \ {0}
    /\ RefundAmounts \subseteq Nat \ {0}
    /\ MayBlacklist \in BOOLEAN
    /\ MaxTime \in Nat /\ MaxOutages \in Nat /\ MaxDonated \in Nat

VARIABLES
    plan,      \* the contract's storage and its token balance
    now,       \* block.timestamp
    rail,      \* the token: paused, borrower blacklisted, nonces spent or cancelled
    outages,   \* pauses so far
    donated,   \* value ever sent to the plan by mistake
    swept      \* what sweep() has forwarded

vars == <<plan, now, rail, outages, donated, swept>>

world == <<now, outages, donated, swept>>

Init ==
    /\ plan = NewPlan
    /\ now = OriginatedAt
    /\ rail = [paused |-> FALSE, blacklisted |-> FALSE, used |-> {}]
    /\ outages = 0
    /\ donated = 0
    /\ swept = 0

---------------------------------------------------------------------------
(* The crank: collection.  A contract wallet can change which signatures  *)
(* it accepts between any two calls; an externally owned account cannot.  *)

StaleSets == IF ContractSigner THEN SUBSET Index ELSE {UnsignedChecks}

RailAfter(r, i, reason) ==
    IF reason = "None" THEN [r EXCEPT !.used = @ \cup {i}] ELSE r

Collect(i) ==
    \E stale \in StaleSets, purse \in Purses :
        LET reason == Diagnose(i, now, rail, stale, purse)
        IN  /\ CanCollect(plan, i, now)
            /\ plan' = Collected(plan, i, now, reason)
            /\ rail' = RailAfter(rail, i, reason)
            /\ UNCHANGED world

\* A batch of two, in the caller's order and atomic: if the second index has
\* become uncollectible because of the first, the whole call reverts.
CollectBatch(i, j) ==
    \E stale \in StaleSets, purse \in Purses :
        LET reason1 == Diagnose(i, now, rail, stale, purse)
            plan1   == Collected(plan, i, now, reason1)
            rail1   == RailAfter(rail, i, reason1)
            purse1  == IF reason1 = "None"
                       THEN purse - Applied(plan, InstallmentAmount(i)) ELSE purse
            reason2 == Diagnose(j, now, rail1, stale, purse1)
        IN  /\ CanCollect(plan, i, now)
            /\ CanCollect(plan1, j, now)
            /\ plan' = Collected(plan1, j, now, reason2)
            /\ rail' = RailAfter(rail1, j, reason2)
            /\ UNCHANGED world

---------------------------------------------------------------------------
(* The crank: marking.  No default is recorded while the rail is down. *)

MarkMissed(i) ==
    /\ ~rail.paused
    /\ CanMarkMissed(plan, i, now)
    /\ plan' = Marked(plan, i, "Missed")
    /\ UNCHANGED <<rail, world>>

MarkExpired(i) ==
    /\ ~rail.paused
    /\ CanMarkExpired(plan, i, now)
    /\ plan' = Marked(plan, i, "Expired")
    /\ UNCHANGED <<rail, world>>

NoteCancellation(i) ==
    /\ ~rail.paused
    /\ i \in Live(plan)
    /\ i \in rail.used
    /\ plan' = CancellationNoted(plan, i)
    /\ UNCHANGED <<rail, world>>

---------------------------------------------------------------------------
(* The push rail and refunds.  The token refuses every transfer while it  *)
(* is paused, and one to a blacklisted borrower.                          *)

Repay(amount) ==
    /\ ~rail.paused
    /\ CanRepay(plan)
    /\ plan' = Repaid(plan, amount, now)
    /\ UNCHANGED <<rail, world>>

CreditRefund(amount) ==
    /\ ~rail.paused
    /\ rail.blacklisted => RefundApplied(plan, amount) = amount
    /\ plan' = Refunded(plan, amount, now)
    /\ UNCHANGED <<rail, world>>

---------------------------------------------------------------------------
(* Signer mutation, halts, charge-off and the sweep. *)

Revalidate ==
    \E stale \in StaleSets :
        /\ CanRevalidate(plan, now)
        /\ plan' = Revalidated(plan, stale, now)
        /\ rail.paused => plan'.keepers = plan.keepers
        /\ UNCHANGED <<rail, world>>

Halt ==
    /\ rail.paused
    /\ CanHalt(plan)
    /\ plan' = EnterHalt(plan, now)
    /\ UNCHANGED <<rail, world>>

Resume ==
    /\ ~rail.paused
    /\ plan.state = "HALTED"
    /\ plan' = Resumed(plan, now)
    /\ UNCHANGED <<rail, world>>

ChargeOff ==
    /\ ~rail.paused
    /\ CanChargeOff(plan, now)
    /\ plan' = ChargedOff(plan)
    /\ UNCHANGED <<rail, world>>

Sweep ==
    /\ ~rail.paused
    /\ plan.balance > plan.markEscrow
    /\ plan' = Swept(plan)
    /\ swept' = swept + (plan.balance - plan.markEscrow)
    /\ UNCHANGED <<now, rail, outages, donated>>

---------------------------------------------------------------------------
(* The world outside the contract: time, the token's administrator, the   *)
(* borrower's wallet, and whoever sends money to the wrong address.       *)

Tick ==
    /\ now < MaxTime
    /\ now' = now + 1
    /\ UNCHANGED <<plan, rail, outages, donated, swept>>

Pause ==
    /\ ~rail.paused
    /\ outages < MaxOutages
    /\ rail' = [rail EXCEPT !.paused = TRUE]
    /\ outages' = outages + 1
    /\ UNCHANGED <<plan, now, donated, swept>>

Unpause ==
    /\ rail.paused
    /\ rail' = [rail EXCEPT !.paused = FALSE]
    /\ UNCHANGED <<plan, world>>

SetBlacklisted ==
    /\ MayBlacklist
    /\ rail' = [rail EXCEPT !.blacklisted = ~@]
    /\ UNCHANGED <<plan, world>>

CancelAuthorization(i) ==
    /\ i \notin rail.used
    /\ rail' = [rail EXCEPT !.used = @ \cup {i}]
    /\ UNCHANGED <<plan, world>>

Donate ==
    /\ ~rail.paused
    /\ donated < MaxDonated
    /\ donated' = donated + 1
    /\ plan' = [plan EXCEPT !.balance = @ + 1]
    /\ UNCHANGED <<now, rail, outages, swept>>

---------------------------------------------------------------------------

Next ==
    \/ \E i \in Index :
        \/ Collect(i)
        \/ \E j \in Index : CollectBatch(i, j)
        \/ MarkMissed(i)
        \/ MarkExpired(i)
        \/ NoteCancellation(i)
        \/ CancelAuthorization(i)
    \/ \E amount \in RepayAmounts : Repay(amount)
    \/ \E amount \in RefundAmounts : CreditRefund(amount)
    \/ Revalidate
    \/ Halt
    \/ Resume
    \/ ChargeOff
    \/ Sweep
    \/ Tick
    \/ Pause
    \/ Unpause
    \/ SetBlacklisted
    \/ Donate

Spec == Init /\ [][Next]_vars

---------------------------------------------------------------------------
(* What the plan promises. *)

\* The storage, the token and the clock hold values of their types, and a
\* halt never began in the future.
TypeOK ==
    /\ plan \in Plan
    /\ now \in Nat
    /\ plan.haltStartedAt <= now
    /\ rail \in [paused : BOOLEAN, blacklisted : BOOLEAN, used : SUBSET Index]
    /\ outages \in Nat /\ donated \in Nat /\ swept \in Nat

\* Every unit collected or credited has retired principal or paid a fee, and
\* every unit the token says ever entered the plan is either still there,
\* with the settlement recipient, or with a keeper (_account, creditRefund,
\* _forward and the bounties agree with one another over any history).
ValueConserved ==
    /\ plan.outstandingPrincipal <= Principal
    /\ plan.totalCollected + plan.refundCredit
         = (Principal - plan.outstandingPrincipal) + plan.feesPaid
    /\ plan.balance + plan.forwarded + plan.keepers
         = plan.totalCollected + plan.refundCredit + MarkEscrowFor + donated

\* The plan holds no float: between calls its token balance is its crank
\* escrow and the stray value nobody has swept, so the escrow is always backed.
EscrowIsTheOnlyFloat ==
    /\ plan.balance = plan.markEscrow + (donated - swept)
    /\ swept <= donated

\* Observation bounties (revalidate, resume, chargeOff) never eat the budget
\* of the marks still to be made.  Charge-off itself hands the escrow over.
MarkBudgetFunded ==
    plan.state # "Defaulted" => plan.markEscrow >= ReservedForMarks(plan)

FaceValue(S) ==
    Cardinality(S) * (Principal \div InstallmentCount)
      + (IF 0 \in S THEN Principal % InstallmentCount ELSE 0)

Cleared(p) == {i \in Index : p.status[i] = "Cleared"}

\* repay() and collect() racing on a check never credit it twice: while the
\* plan is not charged off, no more face value is marked Cleared than money
\* has been collected or refunded.
NoDoubleClear ==
    plan.state # "Defaulted"
      => FaceValue(Cleared(plan)) <= plan.totalCollected + plan.refundCredit

\* Once the principal is gone no check is left for a keeper to pull or to
\* mark, whichever of the three routes retired it and in whatever state the
\* plan was at the time (_resolveOutstanding).
SettledDebtIsLeftAlone == plan.outstandingPrincipal = 0 => Live(plan) = {}

\* A debt is settled once, by whichever of collect(), repay() and a refund gets
\* there first, and no check outlives it.
DebtIsSettledOnce == NoDoubleClear /\ SettledDebtIsLeftAlone

\* However many checks are missed, expired or cancelled, the plan charges one
\* late fee, and only paying it reduces it (_accrueLateFee).
OneLateFee == plan.feesOutstanding + plan.feesPaid \in {0, LateFee}

\* The absorbing states carry no residue of the kind they exclude, and
\* SettledWithFeeOutstanding means what its name says.
SettledStatesAreClean ==
    /\ plan.state = "Repaid" => PayoffAmount(plan) = 0 /\ plan.markEscrow = 0
    /\ plan.state = "Refunded" => PayoffAmount(plan) = 0 /\ plan.markEscrow = 0
    /\ plan.state = "Defaulted" => plan.markEscrow = 0
    /\ plan.state = "SettledWithFeeOutstanding"
         => plan.outstandingPrincipal = 0 /\ plan.feesOutstanding > 0

\* A plan no merchant has refunded, and that still owes principal, keeps an
\* installment whose money never arrived: charge-off has a clock to run on.
UnrefundedDebtKeepsAClock ==
    /\ plan.refundCredit = 0
    /\ plan.outstandingPrincipal > 0
    /\ ~IsTerminal(plan.state)
    => Unpaid(plan) # {}

\* What a plan holds fits the state it is in: escrow for the marks still to be
\* paid, nothing left in a settled state, and a clock while it is owed.
BooksFitTheState ==
    MarkBudgetFunded /\ SettledStatesAreClean /\ UnrefundedDebtKeepsAClock

Books(p) == <<p.outstandingPrincipal, p.feesOutstanding, p.feesPaid,
              p.totalCollected, p.status, p.state, p.markEscrow>>

\* A keeper's pull and a push by the borrower in the same block, in either
\* order, leave the same debt, statuses and state whenever both succeed.
RepayAndCollectCommute ==
    \A i \in Index, amount \in RepayAmounts :
        LET pulled == Collected(plan, i, now, "None")
            pushed == Repaid(plan, amount, now)
        IN  /\ CanCollect(plan, i, now) /\ CanRepay(plan)
            /\ CanCollect(pushed, i, now) /\ CanRepay(pulled)
            => Books(Repaid(pulled, amount, now))
                 = Books(Collected(pushed, i, now, "None"))

Outcomes == InstallmentStatus \ {"Pending", "Bounced"}

\* Absorbing means absorbing: no call leaves a terminal state, and an
\* installment's recorded outcome is never rewritten by a later call.
OutcomesAreFinal ==
    [][ /\ IsTerminal(plan.state) => plan'.state = plan.state
        /\ \A i \in Index :
             plan.status[i] \in Outcomes => plan'.status[i] = plan.status[i] ]_vars

---------------------------------------------------------------------------
(* What the documentation says and the code does not do. *)

\* PlanParams and the interface say a suspension is added to every grace
\* window, so no call makes one end earlier.
GraceNeverShrinks ==
    [][ \A i \in Index : GraceEndsAt(plan', i, now') >= GraceEndsAt(plan, i, now) ]_vars

\* IInstallmentPlan: Delinquent is "Grace expired without a cure", so with no
\* authorization cancelled a plan turns delinquent only with arrears.
DelinquencyNeedsArrears ==
    [][ plan'.state = "Delinquent" /\ plan.state # "Delinquent" /\ rail.used \subseteq Cleared(plan)
          => ~IsCurrent(plan, now) ]_vars

\* A plan that owes principal and is not terminal has an installment that
\* charge-off can be timed from.
DebtKeepsAClock ==
    plan.outstandingPrincipal > 0 /\ ~IsTerminal(plan.state) => Unpaid(plan) # {}

---------------------------------------------------------------------------
(* What eventually happens.  Time passes and no outage lasts for ever.     *)

TimedSpec == Spec /\ WF_vars(Tick) /\ WF_vars(Unpause)

\* At least one keeper takes the bounties on offer.
HonestKeeper ==
    /\ WF_vars(Resume)
    /\ WF_vars(\E i \in Index : MarkMissed(i) \/ MarkExpired(i))

\* The borrower keeps pushing money.
PersistentPayer == WF_vars(\E amount \in RepayAmounts : Repay(amount))

\* The collection guarantee: with one honest keeper every installment reaches
\* an outcome, whatever outages, bounces and signer changes come first.
EveryCheckIsAccountedFor ==
    HonestKeeper => \A i \in Index : <>[](plan.status[i] \in Outcomes)

\* Principal before fees converges: a borrower who keeps paying ends up owing
\* nothing, in every state the plan can be in, charge-off included.
PayingAlwaysConverges ==
    PersistentPayer => <>[](PayoffAmount(plan) = 0)
=============================================================================
