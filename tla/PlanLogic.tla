----------------------------- MODULE PlanLogic -----------------------------
(***************************************************************************)
(* The arithmetic and the handlers of InstallmentPlan.sol as operators on  *)
(* a plan record.  A handler that can revert is split into the condition   *)
(* under which it does not (Can...) and the plan it leaves behind; a call  *)
(* inside the contract is a call between operators here, so a state        *)
(* machine that drives one plan, or a book of several, composes the same   *)
(* definitions.  Times are in abstract ticks, money in abstract units; the *)
(* EVM's uint256 is wide enough that no amount here can wrap.              *)
(***************************************************************************)
EXTENDS Integers, FiniteSets

CONSTANTS
    \* The signed terms and the disclosed detail.
    InstallmentCount, Principal, FirstDueDate, Interval, ScheduleJitter,
    LateFeeFlat, LateFeeCapBps, LateFeeCapAbsolute,
    ContractSigner,       \* TRUE for TermsDetail.SignerClass.Contract
    \* The protocol parameters.
    Bps, BountyStartBps, BountyEndBps, BountyFloor, BountyCap, MarkBounty,
    GraceWindow, ChargeOffAfter, AuthorizationWindow, RevalidationWindow,
    JitterHalfWidth

ASSUME TermsAssumption ==
    /\ InstallmentCount \in Nat \ {0}
    /\ Principal \in Nat \ {0}
    /\ FirstDueDate \in Nat \ {0}
    /\ Interval \in Nat
    /\ ScheduleJitter \in Int
    /\ -JitterHalfWidth <= ScheduleJitter /\ ScheduleJitter < JitterHalfWidth
    /\ Interval > JitterHalfWidth
    /\ LateFeeFlat \in Nat /\ LateFeeCapBps \in Nat /\ LateFeeCapAbsolute \in Nat
    /\ ContractSigner \in BOOLEAN

ASSUME ParamsAssumption ==
    /\ Bps \in Nat \ {0}
    /\ BountyStartBps \in Nat /\ BountyEndBps \in Nat
    /\ BountyStartBps <= BountyEndBps
    /\ BountyFloor \in Nat /\ BountyCap \in Nat /\ MarkBounty \in Nat
    /\ GraceWindow \in Nat /\ ChargeOffAfter \in Nat
    /\ AuthorizationWindow \in Nat /\ RevalidationWindow \in Nat
    /\ JitterHalfWidth \in Nat \ {0}

Lesser(a, b) == IF a < b THEN a ELSE b

---------------------------------------------------------------------------
(* The state set, the statuses and the reasons a pull fails. *)

Index == 0 .. (InstallmentCount - 1)

PlanState ==
    {"Pending", "Active", "Grace", "Delinquent", "Disputed", "Hold", "HALTED",
     "Blocked", "FraudReversed", "SettledWithFeeOutstanding", "Repaid",
     "Defaulted", "Cancelled", "Refunded"}

InstallmentStatus ==
    {"Pending", "Cleared", "Bounced", "Missed", "Expired", "Refunded"}

TerminalStates == {"Repaid", "Defaulted", "Cancelled", "Refunded"}

IsTerminal(state) == state \in TerminalStates

---------------------------------------------------------------------------
(* The schedule. *)

InstallmentAmount(i) ==
    (Principal \div InstallmentCount)
        + (IF i = 0 THEN Principal % InstallmentCount ELSE 0)

DueDate(i) ==
    IF i = 0 THEN FirstDueDate
             ELSE FirstDueDate + i * Interval + ScheduleJitter

ValidBefore(i) == DueDate(i) + AuthorizationWindow

\* Face value due on or before `at`: every installment but the first has the
\* same amount, so the loop's sum is a product.
ScheduledThrough(at) ==
    LET due == {i \in Index : DueDate(i) <= at}
    IN  Cardinality(due) * (Principal \div InstallmentCount)
          + (IF 0 \in due THEN Principal % InstallmentCount ELSE 0)

\* The disclosed fee, reduced to the jurisdiction's two ceilings.
LateFee ==
    Lesser(Lesser(LateFeeFlat,
                  (InstallmentAmount(InstallmentCount - 1) * LateFeeCapBps) \div Bps),
           LateFeeCapAbsolute)

CollectBounty(installment, elapsed) ==
    LET bps == IF GraceWindow = 0 \/ elapsed >= GraceWindow
               THEN BountyEndBps
               ELSE BountyStartBps
                      + ((BountyEndBps - BountyStartBps) * elapsed) \div GraceWindow
        ramp    == (installment * bps) \div Bps
        floored == IF ramp < BountyFloor THEN BountyFloor ELSE ramp
    IN  Lesser(Lesser(floored, BountyCap), installment)

MarkEscrowFor == InstallmentCount * MarkBounty * 2

---------------------------------------------------------------------------
(* The plan.  `balance` is the token's balance of the plan's address and   *)
(* `keepers` what the plan has paid to the callers of its cranks: the      *)
(* token's ledger, kept beside the plan's own books so that the two can be *)
(* compared.                                                               *)

Plan ==
    [state : PlanState, status : [Index -> InstallmentStatus],
     outstandingPrincipal : Nat, totalCollected : Nat, feesOutstanding : Nat,
     feesPaid : Nat, refundCredit : Nat, forwarded : Nat, markEscrow : Nat,
     haltOffset : Nat, haltStartedAt : Nat, revalidatedAt : Nat,
     balance : Int, keepers : Nat]

NewPlan ==
    [state |-> "Pending", status |-> [i \in Index |-> "Pending"],
     outstandingPrincipal |-> Principal, totalCollected |-> 0,
     feesOutstanding |-> 0, feesPaid |-> 0, refundCredit |-> 0,
     forwarded |-> 0, markEscrow |-> MarkEscrowFor,
     haltOffset |-> 0, haltStartedAt |-> 0, revalidatedAt |-> 0,
     balance |-> MarkEscrowFor, keepers |-> 0]

\* Fault: a bounced check is forgotten.
LiveButNotBounced(p) == {i \in Index : p.status[i] = "Pending"}

\* The installments a keeper can still work on.
Live(p) == {i \in Index : p.status[i] \in {"Pending", "Bounced"}}

PayoffAmount(p) == p.outstandingPrincipal + p.feesOutstanding

SuspendedFor(p, now) ==
    p.haltOffset
      + (IF p.state = "HALTED" /\ p.haltStartedAt # 0
         THEN now - p.haltStartedAt ELSE 0)

GraceEndsAt(p, i, now) == DueDate(i) + GraceWindow + SuspendedFor(p, now)

IsCurrent(p, now) ==
    /\ p.feesOutstanding = 0
    /\ Principal - p.outstandingPrincipal >= ScheduledThrough(now)

\* Fault: a terminal state can be left.
TransitionFromAnywhere(p, next) == [p EXCEPT !.state = next]

Transition(p, next) == IF IsTerminal(p.state) THEN p ELSE [p EXCEPT !.state = next]

---------------------------------------------------------------------------
(* Movements of the token out of the plan. *)

Forward(p, amount) ==
    [p EXCEPT !.forwarded = @ + amount, !.balance = @ - amount]

PayKeeper(p, amount) ==
    [p EXCEPT !.keepers = @ + amount, !.balance = @ - amount]

ReleaseEscrow(p) == Forward([p EXCEPT !.markEscrow = 0], p.markEscrow)

\* Fault: the bounty is not clamped to what the escrow holds.
PayFromEscrowUnclamped(p, amount) ==
    PayKeeper([p EXCEPT !.markEscrow = @ - amount], amount)

PayFromEscrow(p, amount) ==
    LET bounty == Lesser(amount, p.markEscrow)
    IN  PayKeeper([p EXCEPT !.markEscrow = @ - bounty], bounty)

ReservedForMarks(p) == Cardinality(Live(p)) * MarkBounty

PayMarkBounty(p) == PayFromEscrow(p, MarkBounty)

ObservationBounty(p) ==
    IF p.markEscrow <= ReservedForMarks(p) THEN 0
    ELSE Lesser(p.markEscrow - ReservedForMarks(p), MarkBounty)

PayObservationBounty(p) == PayFromEscrow(p, ObservationBounty(p))

---------------------------------------------------------------------------
(* Internal accounting. *)

Applied(p, gross) == Lesser(gross, PayoffAmount(p))

\* Fault: a fee is retired without being recorded as paid.
AccountForgettingFeesPaid(p, gross) ==
    LET applied     == Applied(p, gross)
        toPrincipal == Lesser(applied, p.outstandingPrincipal)
    IN  [p EXCEPT !.outstandingPrincipal = @ - toPrincipal,
                  !.feesOutstanding = @ - (applied - toPrincipal),
                  !.totalCollected = @ + applied,
                  !.balance = @ + applied]

\* The waterfall: principal before fees.  Money has arrived in full and the
\* part nobody owed has gone straight back, so the balance grows by what was
\* applied.
Account(p, gross) ==
    LET applied     == Applied(p, gross)
        toPrincipal == Lesser(applied, p.outstandingPrincipal)
        toFees      == applied - toPrincipal
    IN  [p EXCEPT !.outstandingPrincipal = @ - toPrincipal,
                  !.feesOutstanding = @ - toFees,
                  !.feesPaid = @ + toFees,
                  !.totalCollected = @ + applied,
                  !.balance = @ + applied]

ResolveOutstanding(p, resolution) ==
    [p EXCEPT !.status =
        [i \in Index |-> IF i \in Live(p) THEN resolution ELSE p.status[i]]]

\* Fault: a plan left with only a fee keeps its checks live.
AfterInflowLeavingChecks(p, now) ==
    IF p.outstandingPrincipal = 0 /\ p.feesOutstanding = 0
    THEN ReleaseEscrow(Transition(ResolveOutstanding(p, "Cleared"), "Repaid"))
    ELSE IF p.outstandingPrincipal = 0
    THEN Transition(p, "SettledWithFeeOutstanding")
    ELSE IF p.state \in {"Pending", "Grace", "Delinquent"} /\ IsCurrent(p, now)
    THEN Transition(p, "Active") ELSE p

AfterInflow(p, now) ==
    IF p.outstandingPrincipal = 0 /\ p.feesOutstanding = 0
    THEN ReleaseEscrow(Transition(ResolveOutstanding(p, "Cleared"), "Repaid"))
    ELSE IF p.outstandingPrincipal = 0
    THEN Transition(ResolveOutstanding(p, "Cleared"), "SettledWithFeeOutstanding")
    ELSE IF p.state \in {"Grace", "Delinquent"}
    THEN IF IsCurrent(p, now) THEN Transition(p, "Active") ELSE p
    ELSE IF p.state = "Pending" THEN Transition(p, "Active") ELSE p

\* Fault: a fee for every mark.
AccrueLateFeePerMark(p) == [p EXCEPT !.feesOutstanding = @ + LateFee]

\* One late fee per plan, not one per installment.
AccrueLateFee(p) ==
    IF p.feesOutstanding > 0 \/ p.feesPaid > 0
    THEN p ELSE [p EXCEPT !.feesOutstanding = LateFee]

\* Fault: charge-off is timed from the oldest unresolved check.
UnpaidIfLive(p) == Live(p)

\* The index charge-off is timed from, among those whose money never arrived.
Unpaid(p) == {i \in Index : p.status[i] \notin {"Cleared", "Refunded"}}

IsOldest(i, S) == i \in S /\ \A j \in S : i <= j

---------------------------------------------------------------------------
(* Collection. *)

CanCollect(p, i, now) ==
    /\ ~IsTerminal(p.state)
    /\ p.state \notin {"Disputed", "Hold", "SettledWithFeeOutstanding"}
    /\ i \in Live(p)
    /\ now >= DueDate(i)

\* Why a pull of `i` would fail.  `rail` is the token as the plan reads it,
\* `stale` the checks whose stored signature does not validate and `purse`
\* the borrower's balance.  Past these tests the token has no reason left to
\* decline, so the pull itself succeeds.
Diagnose(i, now, rail, stale, purse) ==
    IF rail.paused THEN "Halted"
    ELSE IF rail.blacklisted THEN "Blocked"
    ELSE IF now >= ValidBefore(i) THEN "AuthorizationExpired"
    ELSE IF i \in rail.used THEN "AuthorizationUsed"
    ELSE IF i \in stale THEN "SignerInvalid"
    ELSE IF purse < InstallmentAmount(i) THEN "InsufficientFunds"
    ELSE "None"

EnterHalt(p, now) ==
    IF p.state = "HALTED" THEN p
    ELSE Transition([p EXCEPT !.haltStartedAt = now], "HALTED")

Bounce(p, i, reason) ==
    LET q == [p EXCEPT !.status[i] = "Bounced"]
    IN  IF reason \notin {"Halted", "Blocked"} /\ p.state # "Delinquent"
        THEN Transition(q, "Grace") ELSE q

\* Fault: the bounty is paid and forwarded too.
SettleClearedForwardingAll(p, i, now) ==
    LET amount == InstallmentAmount(i)
        bounty == Lesser(CollectBounty(amount, now - DueDate(i)), Applied(p, amount))
        booked == Account([p EXCEPT !.status[i] = "Cleared"], amount)
    IN  AfterInflow(Forward(PayKeeper(booked, bounty), Applied(p, amount)), now)

\* Fault: the plan's state is settled before the money is booked.
SettleClearedTooEarly(p, i, now) ==
    LET amount == InstallmentAmount(i)
        bounty == Lesser(CollectBounty(amount, now - DueDate(i)), Applied(p, amount))
        early  == AfterInflow([p EXCEPT !.status[i] = "Cleared"], now)
    IN  Forward(PayKeeper(Account(early, amount), bounty), Applied(p, amount) - bounty)

SettleCleared(p, i, now) ==
    LET amount == InstallmentAmount(i)
        bounty == Lesser(CollectBounty(amount, now - DueDate(i)), Applied(p, amount))
        booked == Account([p EXCEPT !.status[i] = "Cleared"], amount)
    IN  AfterInflow(Forward(PayKeeper(booked, bounty), Applied(p, amount) - bounty),
                    now)

Collected(p, i, now, reason) ==
    IF reason = "None" THEN SettleCleared(p, i, now)
    ELSE IF reason = "Halted" THEN Bounce(EnterHalt(p, now), i, reason)
    ELSE IF reason = "Blocked" THEN Bounce(Transition(p, "Blocked"), i, reason)
    ELSE Bounce(p, i, reason)

---------------------------------------------------------------------------
(* Marking. *)

CanMarkMissed(p, i, now) == i \in Live(p) /\ now > GraceEndsAt(p, i, now)

CanMarkExpired(p, i, now) == i \in Live(p) /\ now >= ValidBefore(i)

\* What the three negative signals share: the status, the fee, the state and
\* the bounty, in that order.
Marked(p, i, status) ==
    PayMarkBounty(Transition(AccrueLateFee([p EXCEPT !.status[i] = status]),
                             "Delinquent"))

\* Fault: the debt is looked for among the fees.
CancellationNotedByFees(p, i) ==
    IF IsTerminal(p.state) \/ p.feesOutstanding = 0
    THEN [p EXCEPT !.status[i] = "Cleared"]
    ELSE Marked(p, i, "Missed")

CancellationNoted(p, i) ==
    IF IsTerminal(p.state) \/ p.outstandingPrincipal = 0
    THEN [p EXCEPT !.status[i] = "Cleared"]
    ELSE Marked(p, i, "Missed")

---------------------------------------------------------------------------
(* Cure, prepayment and refunds. *)

\* Fault: a charged-off plan refuses money.
CanRepayUnlessTerminal(p) == ~IsTerminal(p.state)

CanRepay(p) == p.state \notin {"Repaid", "Cancelled"}

Repaid(p, amount, now) ==
    AfterInflow(Forward(Account(p, amount), Applied(p, amount)), now)

\* The principal still to be covered when the walk reaches installment n.
RemainingBefore(p) ==
    LET f[n \in Nat] ==
          IF n = 0 THEN p.outstandingPrincipal
          ELSE IF n - 1 \in Live(p) /\ f[n - 1] >= InstallmentAmount(n - 1)
               THEN f[n - 1] - InstallmentAmount(n - 1) ELSE f[n - 1]
    IN  f

SuppressCoveredTail(p) ==
    [p EXCEPT !.status = [i \in Index |->
        IF i \in Live(p) /\ RemainingBefore(p)[i] < InstallmentAmount(i)
        THEN "Refunded" ELSE p.status[i]]]

RefundApplied(p, amount) == Lesser(amount, p.outstandingPrincipal)

\* What does not retire principal goes to the borrower in the same call, so
\* the plan's balance is left where it was.
Refunded(p, amount, now) ==
    LET applied  == RefundApplied(p, amount)
        credited == SuppressCoveredTail(
                      [p EXCEPT !.outstandingPrincipal = @ - applied,
                                !.refundCredit = @ + applied,
                                !.balance = @ + applied])
        settled  == Forward(credited, applied)
    IN  IF settled.outstandingPrincipal = 0
        THEN ReleaseEscrow(Transition(ResolveOutstanding(settled, "Refunded"),
               IF settled.feesOutstanding > 0
               THEN "SettledWithFeeOutstanding" ELSE "Refunded"))
        ELSE AfterInflow(settled, now)

---------------------------------------------------------------------------
(* Signer mutation, halts and charge-off. *)

CanRevalidate(p, now) ==
    p.revalidatedAt = 0 \/ now >= p.revalidatedAt + RevalidationWindow

\* `stale` are the stored signatures that no longer validate.
Revalidated(p, stale, now) ==
    LET q == [p EXCEPT !.revalidatedAt = now,
                       !.status = [i \in Index |->
                           IF i \in Live(p) \cap stale THEN "Bounced"
                           ELSE p.status[i]]]
    IN  IF ContractSigner THEN PayObservationBounty(q) ELSE q

CanHalt(p) == p.state # "HALTED" /\ ~IsTerminal(p.state)

Resumed(p, now) ==
    LET q == [p EXCEPT !.haltOffset = @ + (now - p.haltStartedAt),
                       !.haltStartedAt = 0]
    IN  PayObservationBounty(
          Transition(q, IF IsCurrent(q, now) THEN "Active" ELSE "Grace"))

CanChargeOff(p, now) ==
    \E i \in Unpaid(p) :
        /\ IsOldest(i, Unpaid(p))
        /\ now > DueDate(i) + ChargeOffAfter + SuspendedFor(p, now)

ChargedOff(p) == ReleaseEscrow(PayObservationBounty(Transition(p, "Defaulted")))

Swept(p) == Forward(p, p.balance - p.markEscrow)
=============================================================================
