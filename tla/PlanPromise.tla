---------------------------- MODULE PlanPromise ----------------------------
(***************************************************************************)
(* What the funding book may assume of a plan it has fronted.  The book    *)
(* reads four things through IInstallmentPlan: the state, the outstanding  *)
(* principal, the running total the plan has forwarded, and whether some   *)
(* check is past its grace and still unmarked.  Follows says how they may  *)
(* move, whatever keepers, borrower and merchant do.                       *)
(***************************************************************************)
EXTENDS Integers

\* The states a plan can be in, the absorbing ones, and the absorbing ones
\* that say the debt is gone.
States ==
    {"Pending", "Active", "Grace", "Delinquent", "Disputed", "Hold", "HALTED",
     "Blocked", "FraudReversed", "SettledWithFeeOutstanding", "Repaid",
     "Defaulted", "Cancelled", "Refunded"}

Absorbing == {"Repaid", "Defaulted", "Cancelled", "Refunded"}

DebtFree == {"Repaid", "Refunded", "SettledWithFeeOutstanding"}

\* The terms of one plan: its principal, the most that collection bounties can
\* take out of what is forwarded, and the most that a fee, a returned escrow
\* and stray value can add to it.
View == [state : States, outstanding : Nat, forwarded : Nat, late : BOOLEAN]

Opening(terms) ==
    [state |-> "Pending", outstanding |-> terms.principal, forwarded |-> 0,
     late |-> FALSE]

WithinTerms(terms, v) ==
    /\ v.forwarded + v.outstanding >= terms.principal - terms.bounties
    /\ v.forwarded + v.outstanding <= terms.principal + terms.extras

\* Debt only falls, money only arrives, an absorbing state is never left and
\* a plan that owes nothing has no check to mark.
Follows(terms, v, w) ==
    /\ w.outstanding <= v.outstanding
    /\ w.forwarded >= v.forwarded
    /\ v.state \in Absorbing => w.state = v.state
    /\ w.state \in DebtFree => w.outstanding = 0
    /\ w.outstanding = 0 => ~w.late
    /\ WithinTerms(terms, w)
=============================================================================
