------------------------- MODULE MCInstallmentPlan -------------------------
(***************************************************************************)
(* A plan of two checks, 2 and 1, the remainder riding on the first, small *)
(* enough to explore and with the source's proportions: jitter < interval, *)
(* grace < interval < charge-off < authorization window, a bounty that     *)
(* rises along its ramp, and an escrow of twice the mark budget.           *)
(***************************************************************************)
EXTENDS InstallmentPlan

MCJitter == -1

\* What the funding book sees of the plan, and the terms it was fronted on.
BookView ==
    [state |-> plan.state, outstanding |-> plan.outstandingPrincipal,
     forwarded |-> plan.forwarded,
     late |-> \E i \in Live(plan) : now > GraceEndsAt(plan, i, now)]

BookTerms ==
    [principal |-> Principal, bounties |-> InstallmentCount * BountyCap,
     extras |-> LateFee + MarkEscrowFor + MaxDonated]

Promise == INSTANCE PlanView WITH Terms <- BookTerms, view <- BookView

\* The plan implements what the funding book assumes of it: its debt only
\* falls, what it forwards only grows and stays within the disclosed terms,
\* an absorbing state is never left, and a settled plan has nothing to mark.
KeepsItsPromise == Promise!Spec
=============================================================================
