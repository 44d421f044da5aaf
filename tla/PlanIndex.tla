----------------------------- MODULE PlanIndex -----------------------------
(***************************************************************************)
(* One plan and the index of it: every call of InstallmentPlan, the logs   *)
(* the call leaves in the order the contract emits them, and the indexer   *)
(* behind.  What a borrower, a lender or an operator is shown of a plan is *)
(* the index, so what matters is how far it can be from the contract.      *)
(***************************************************************************)
EXTENDS InstallmentPlan, Sequences, TLC

LOCAL INSTANCE FiniteSetsExt

CONSTANTS Hex, Zero, Thrown,
          ARC_DOMAIN, UNKNOWN_MERCHANT, PAYROLL_SWEEPER, OPERATOR_ADDRESSES, TRACKED,
          Month, NativePerMinor, MaxBlocks, MaxLag,
          PlanId, PlanAddress, Factory, Callers  \* who may turn a crank

VARIABLES log, blockNumber, applied, tables, halted

I == INSTANCE IndexerCore

indexVars == <<log, blockNumber, applied, tables, halted>>

PlanStateOrder ==
    <<"Pending", "Active", "Grace", "Delinquent", "Disputed", "Hold", "HALTED", "Blocked",
      "FraudReversed", "SettledWithFeeOutstanding", "Repaid", "Defaulted", "Cancelled",
      "Refunded">>
PlanStateNumber(state) == (CHOOSE k \in DOMAIN PlanStateOrder : PlanStateOrder[k] = state) - 1

-----------------------------------------------------------------------------
\* The logs of a call, from the plan before it (p) and after it (q).
Emitted(name, args) ==
    I!Raw("InstallmentPlan", PlanAddress, name, args @@ [planId |-> PlanId])

Changed(p, q) ==
    IF p.state = q.state THEN <<>>
    ELSE <<Emitted("PlanStateChanged", [from |-> PlanStateNumber(p.state),
                                        to |-> PlanStateNumber(q.state)])>>

\* _afterInflow: repaid, cured, or neither.
InflowLogs(p, q) ==
    Changed(p, q) \o
    (IF q.outstandingPrincipal = 0 /\ q.feesOutstanding = 0
       THEN <<Emitted("PlanRepaid", [total |-> q.totalCollected])>>
     ELSE IF p.state \in {"Grace", "Delinquent"} /\ q.state = "Active"
       THEN <<Emitted("PlanCured", [index |-> 0])>>
     ELSE <<>>)

ClearedLogs(p, q, i, keeper) ==
    <<Emitted("CheckCleared", [index |-> i, amount |-> InstallmentAmount(i),
                               keeper |-> keeper])>> \o InflowLogs(p, q)

\* A halt or a blocklisting moves the state before the bounce is written.
BouncedLogs(p, q, i) ==
    LET bounced == <<Emitted("CheckBounced", [index |-> i, reason |-> 1])>> IN
    IF q.state \in {"HALTED", "Blocked"} THEN Changed(p, q) \o bounced
    ELSE bounced \o Changed(p, q)

MarkedLogs(p, q, i, name, marker) ==
    <<Emitted(name, [index |-> i, marker |-> marker])>> \o
    (IF q.feesOutstanding > p.feesOutstanding
       THEN <<Emitted("PlanDelinquent", [lateFee |-> LateFee])>> ELSE <<>>) \o
    Changed(p, q)

RefundLogs(p, q) ==
    <<Emitted("RefundCredited", [amount |-> q.refundCredit - p.refundCredit])>> \o
    (IF q.outstandingPrincipal = 0 THEN Changed(p, q) ELSE InflowLogs(p, q))

\* revalidate() writes a bounce for every live check it found stale.
StaleLogs(stale) ==
    [k \in 1..Cardinality(stale) |->
        Emitted("CheckBounced",
            [index |-> CHOOSE i \in stale : Cardinality({j \in stale : j < i}) = k - 1,
             reason |-> 5])]

-----------------------------------------------------------------------------
Indexed(sender, raws) ==
    IF raws = <<>> THEN UNCHANGED indexVars
    ELSE I!Transaction(sender, raws, <<>>) /\ UNCHANGED <<applied, tables, halted>>

Views ==
    [principal |-> Principal, installmentCount |-> InstallmentCount, lateFee |-> LateFee,
     installmentAmount |-> [i \in Index |-> InstallmentAmount(i)],
     dueDate |-> [i \in Index |-> DueDate(i)],
     graceEndsAt |-> [i \in Index |-> GraceEndsAt(plan, i, now)]]

IndexInit ==
    /\ Init
    /\ I!IndexerInit

Deploy ==
    /\ log = <<>>
    /\ I!Transaction(Factory,
         <<I!Raw("PlanFactory", Factory, "PlanDeployed",
                 [planId |-> PlanId, plan |-> PlanAddress, implementation |-> Factory])>>,
         Views)
    /\ UNCHANGED <<applied, tables, halted, vars>>

Call ==
    /\ log # <<>>
    /\ \/ \E i \in Index, caller \in Callers :
            \/ /\ Collect(i)
               /\ Indexed(caller, IF i \in rail'.used \ rail.used
                                    THEN ClearedLogs(plan, plan', i, caller)
                                    ELSE BouncedLogs(plan, plan', i))
            \/ MarkMissed(i) /\ Indexed(caller, MarkedLogs(plan, plan', i, "CheckMissed", caller))
            \/ MarkExpired(i) /\ Indexed(caller, MarkedLogs(plan, plan', i, "CheckExpired", caller))
            \/ /\ NoteCancellation(i)
               /\ Indexed(caller, IF plan'.status[i] = "Cleared" THEN <<>>
                                  ELSE MarkedLogs(plan, plan', i, "CheckMissed", caller))
       \/ \E amount \in RepayAmounts : Repay(amount) /\ Indexed(Zero, InflowLogs(plan, plan'))
       \/ \E amount \in RefundAmounts :
            CreditRefund(amount) /\ Indexed(Zero, RefundLogs(plan, plan'))
       \/ \E stale \in StaleSets :
            /\ Revalidate
            /\ plan' = Revalidated(plan, stale, now)
            /\ Indexed(Zero, StaleLogs(Live(plan) \cap stale))
       \/ Halt /\ Indexed(Zero, Changed(plan, plan'))
       \/ Resume /\ Indexed(Zero, Changed(plan, plan'))
       \/ /\ ChargeOff
          /\ Indexed(Zero, Changed(plan, plan') \o
               <<Emitted("PlanChargedOff", [outstanding |-> PayoffAmount(plan)])>>)

World ==
    /\ log # <<>>
    /\ \/ Tick \/ Pause \/ Unpause \/ \E i \in Index : CancelAuthorization(i)
    /\ UNCHANGED indexVars

Index_Handle == I!Handle /\ UNCHANGED vars

IndexNext == Deploy \/ Call \/ World \/ Index_Handle

indexedVars == <<vars, indexVars>>
IndexSpec == IndexInit /\ [][IndexNext]_indexedVars

-----------------------------------------------------------------------------
CaughtUp == ~halted /\ log # <<>> /\ applied = Len(log)
PlanRow == tables.plan[PlanId]
CheckRow(i) == tables.installment[<<PlanId, i>>]

\* No order of a plan's calls makes a handler throw, every row fits its table,
\* and the state a caught-up index shows is the contract's own.
StateFollowsTheChain ==
    /\ ~halted
    /\ CaughtUp => PlanRow.state = PlanStateNumber(plan.state)

\* The outcomes a caught-up index shows are the contract's, and it shows every
\* mark: only the installments _resolveOutstanding and _suppressCoveredTail
\* retire in silence may still look live.
OutcomesAreExact ==
    CaughtUp => \A i \in Index :
        /\ CheckRow(i).status = 1 => plan.status[i] = "Cleared"
        /\ CheckRow(i).status = 3 <=> plan.status[i] = "Missed"
        /\ CheckRow(i).status = 4 <=> plan.status[i] = "Expired"

\* The index never shows a borrower owing less than the contract would take:
\* what it does not hear of, a push or the fee part of one, makes it late.
DebtIsNeverUnderstated ==
    CaughtUp => /\ PlanRow.outstandingPrincipal >= plan.outstandingPrincipal
                /\ PlanRow.feesOutstanding >= plan.feesOutstanding

\* Collections are counted once: a successful attempt, a credit to its keeper
\* and a cleared row for each check the token let through, and no other.
CollectionsAreCountedOnce ==
    CaughtUp =>
        LET successes == {id \in DOMAIN tables.collectionAttempt :
                             tables.collectionAttempt[id].succeeded}
        IN  /\ Cardinality(successes) = Cardinality({i \in Index : CheckRow(i).status = 1})
            /\ Cardinality(successes)
                 = MapThenSumSet(LAMBDA k : tables.keeperStats[k].collections,
                                 DOMAIN tables.keeperStats)

\* What a borrower, a lender and an operator are shown of a plan is the plan.
TheIndexIsTheContract ==
    StateFollowsTheChain /\ OutcomesAreExact /\ CollectionsAreCountedOnce

-----------------------------------------------------------------------------
(* What the documentation says and the code does not do. *)

\* index.ts reads a plan's schedule once because "re-reading would produce the
\* same answer": the grace it shows is the grace the contract counts.
GraceNeedsNoReReading ==
    CaughtUp => \A i \in Index : CheckRow(i).graceEndsAt = GraceEndsAt(plan, i, now)
=============================================================================
