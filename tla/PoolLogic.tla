----------------------------- MODULE PoolLogic -----------------------------
(***************************************************************************)
(* The loan side of TranchedCreditPool.sol as operators on a pool record:  *)
(* what it holds, who has a claim on it, how income and loss run through   *)
(* the waterfall, and how a fronted plan is recognised, provisioned,       *)
(* marked and closed.  A plan is what the pool reads of it, a view of      *)
(* PlanPromise.                                                            *)
(***************************************************************************)
EXTENDS Sequences, FiniteSets, Functions, PlanPromise

CONSTANTS
    Plans, Merchants, Corridors,
    Terms,               \* per plan: what it was fronted on (see TermsAssumption)
    Bps, ReserveTargetBps, MinSubordinationBps, DelinquentProvisionBps,
    MaxEpoch             \* bound: epochs explored

Tranche == {"Junior", "Senior"}

Epochs == 0 .. MaxEpoch

\* A plan and a merchant is an address, and of those there are finitely many.
ASSUME PoolPartiesAssumption == IsFiniteSet(Plans) /\ IsFiniteSet(Merchants)

ASSUME PoolTermsAssumption ==
    \A k \in Plans :
        /\ Terms[k].principal \in Nat \ {0}
        /\ Terms[k].bounties \in Nat /\ Terms[k].extras \in Nat
        /\ Terms[k].mdr \in Nat /\ Terms[k].escrow \in Nat
        /\ Terms[k].escrow <= Terms[k].mdr
        /\ Terms[k].mdr <= Terms[k].principal
        /\ Terms[k].merchant \in Merchants
        /\ Terms[k].corridor \in Corridors

ASSUME PoolParamsAssumption ==
    /\ Bps \in Nat \ {0}
    /\ ReserveTargetBps \in Nat /\ MinSubordinationBps \in Nat
    /\ DelinquentProvisionBps \in 0 .. Bps
    /\ MaxEpoch \in Nat \ {0}

Lesser(a, b) == IF a < b THEN a ELSE b

SumOver(f, S) == SumFunctionOnSet(f, S)

\* Subtraction that stops at zero.
Less(a, b) == IF a > b THEN a - b ELSE 0

---------------------------------------------------------------------------
(* The records. *)

PlanBook ==
    [fronted : BOOLEAN, carrying : Nat, recognisedInflow : Nat,
     deferredIncome : Nat, open : BOOLEAN, unmarked : BOOLEAN,
     markedEpoch : Epochs]

NoBook ==
    [fronted |-> FALSE, carrying |-> 0, recognisedInflow |-> 0,
     deferredIncome |-> 0, open |-> FALSE, unmarked |-> FALSE,
     markedEpoch |-> 0]

Provision ==
    [amount : Nat, epoch : Epochs, fromReserve : Nat, fromJunior : Nat,
     fromSenior : Nat]

NoProvision ==
    [amount |-> 0, epoch |-> 0, fromReserve |-> 0, fromJunior |-> 0,
     fromSenior |-> 0]

\* `reserve` and `assets` are the claims, the next five what backs them and
\* what is held against it.  `balance` is the token's balance of the pool's
\* address, kept beside the books so that the two can be compared.
LoanBook ==
    [reserve : Nat, assets : [Tranche -> Nat],
     bookedCash : Nat, deployedAssets : Nat, bookedReceivables : Nat,
     deferredIncome : Nat, totalProvisioned : Nat,
     provisionedAt : [Epochs -> Nat], provisions : [Plans -> Provision],
     seniorAccrued : Nat, books : [Plans -> PlanBook],
     merchantExposure : [Merchants -> Nat], corridorExposure : [Corridors -> Nat],
     openPlanList : Seq(Plans), openPlanSlot : [Plans -> Nat], openPlans : Nat,
     unmarkedDelinquencies : Nat, epoch : Epochs, markedThisEpoch : Nat,
     markCursor : Nat, balance : Nat]

NewLoanBook ==
    [reserve |-> 0, assets |-> [t \in Tranche |-> 0],
     bookedCash |-> 0, deployedAssets |-> 0, bookedReceivables |-> 0,
     deferredIncome |-> 0, totalProvisioned |-> 0,
     provisionedAt |-> [e \in Epochs |-> 0],
     provisions |-> [k \in Plans |-> NoProvision],
     seniorAccrued |-> 0, books |-> [k \in Plans |-> NoBook],
     merchantExposure |-> [m \in Merchants |-> 0],
     corridorExposure |-> [c \in Corridors |-> 0],
     openPlanList |-> <<>>, openPlanSlot |-> [k \in Plans |-> 0], openPlans |-> 0,
     unmarkedDelinquencies |-> 0, epoch |-> 1, markedThisEpoch |-> 0,
     markCursor |-> 0, balance |-> 0]

---------------------------------------------------------------------------
(* Marks and gates. *)

TotalAssets(b) == b.reserve + b.assets["Junior"] + b.assets["Senior"]

SubordinationBps(b) ==
    IF TotalAssets(b) = 0 THEN 0 ELSE (b.assets["Junior"] * Bps) \div TotalAssets(b)

ReserveBps(b) ==
    IF TotalAssets(b) = 0 THEN 0 ELSE (b.reserve * Bps) \div TotalAssets(b)

ReserveTarget(b) == (TotalAssets(b) * ReserveTargetBps) \div Bps

OriginationOpen(b) ==
    /\ TotalAssets(b) # 0
    /\ b.unmarkedDelinquencies = 0
    /\ SubordinationBps(b) >= MinSubordinationBps
    /\ ReserveBps(b) >= ReserveTargetBps

MarkComplete(b) == b.markedThisEpoch >= b.openPlans

---------------------------------------------------------------------------
(* Loss and income.  Loss strikes the reserve, then junior, then senior;   *)
(* income tops the reserve up, pays senior what it has accrued and leaves  *)
(* the rest to junior.                                                     *)

Strike(b, amount) ==
    LET fromReserve == Lesser(amount, b.reserve)
        fromJunior  == Lesser(amount - fromReserve, b.assets["Junior"])
        fromSenior  == Lesser(amount - fromReserve - fromJunior, b.assets["Senior"])
    IN  [reserve |-> fromReserve, junior |-> fromJunior, senior |-> fromSenior]

Total(s) == s.reserve + s.junior + s.senior

Struck(b, s) ==
    [b EXCEPT !.reserve = @ - s.reserve,
              !.assets = [t \in Tranche |->
                  b.assets[t] - (IF t = "Junior" THEN s.junior ELSE s.senior)]]

\* A fraud loss takes the same path: the reserve first, then the waterfall.
AbsorbLoss(b, amount) == Struck(b, Strike(b, amount))

Distribute(b, amount) ==
    LET toReserve == Lesser(amount, Less(ReserveTarget(b), b.reserve))
        toSenior  == IF b.assets["Senior"] > 0
                     THEN Lesser(amount - toReserve, b.seniorAccrued) ELSE 0
        residual  == amount - toReserve - toSenior
        heir      == IF b.assets["Junior"] > 0 THEN "Junior"
                     ELSE IF b.assets["Senior"] > 0 THEN "Senior" ELSE "reserve"
    IN  [b EXCEPT !.reserve = @ + toReserve + (IF heir = "reserve" THEN residual ELSE 0),
                  !.seniorAccrued = @ - toSenior,
                  !.assets = [t \in Tranche |->
                      b.assets[t] + (IF t = "Senior" THEN toSenior ELSE 0)
                                  + (IF t = heir THEN residual ELSE 0)]]

\* First-loss capital from whoever pays it in.
ReserveFunded(b, amount) ==
    [b EXCEPT !.reserve = @ + amount, !.bookedCash = @ + amount, !.balance = @ + amount]

---------------------------------------------------------------------------
(* Provisioning: a markdown that moves back on cure. *)

TakeProvision(b, k, amount) ==
    LET s     == Strike(b, amount)
        taken == Total(s)
        held  == b.provisions[k]
        at    == IF held.amount = 0 THEN b.epoch ELSE held.epoch
    IN  IF taken = 0 THEN b
        ELSE [Struck(b, s) EXCEPT
                !.provisions[k] =
                    [amount |-> held.amount + taken, epoch |-> at,
                     fromReserve |-> held.fromReserve + s.reserve,
                     fromJunior |-> held.fromJunior + s.junior,
                     fromSenior |-> held.fromSenior + s.senior],
                !.totalProvisioned = @ + taken,
                !.provisionedAt[at] = @ + taken]

\* Fault: what a cure releases all goes to the reserve.
ReleaseProvisionToReserve(b, k, amount) ==
    LET held == b.provisions[k]
    IN  [b EXCEPT !.reserve = @ + held.amount,
                  !.provisions[k] = [NoProvision EXCEPT !.epoch = held.epoch],
                  !.totalProvisioned = @ - held.amount,
                  !.provisionedAt[held.epoch] = @ - held.amount]

ReleaseProvision(b, k, amount) ==
    LET held      == b.provisions[k]
        part      == Lesser(amount, held.amount)
        toSenior  == (held.fromSenior * part) \div held.amount
        toJunior  == (held.fromJunior * part) \div held.amount
        toReserve == Lesser(part - toSenior - toJunior, held.fromReserve)
        returned  == toSenior + toJunior + toReserve
    IN  IF held.amount = 0 \/ amount = 0 THEN b
        ELSE [b EXCEPT
                !.reserve = @ + toReserve,
                !.assets = [t \in Tranche |->
                    b.assets[t] + (IF t = "Junior" THEN toJunior ELSE toSenior)],
                !.provisions[k] =
                    [amount |-> Less(held.amount, returned), epoch |-> held.epoch,
                     fromReserve |-> held.fromReserve - toReserve,
                     fromJunior |-> held.fromJunior - toJunior,
                     fromSenior |-> held.fromSenior - toSenior],
                !.totalProvisioned = Less(@, returned),
                !.provisionedAt[held.epoch] = Less(@, returned)]

SyncProvision(b, k, v) ==
    LET want == IF v.state = "Delinquent"
                THEN (b.books[k].carrying * DelinquentProvisionBps) \div Bps ELSE 0
        held == b.provisions[k].amount
    IN  IF want > held THEN TakeProvision(b, k, want - held)
        ELSE IF want < held THEN ReleaseProvision(b, k, held - want) ELSE b

---------------------------------------------------------------------------
(* The list of open plans and its counters. *)

ReduceExposure(b, k, amount) ==
    [b EXCEPT !.merchantExposure[Terms[k].merchant] = Less(@, amount),
              !.corridorExposure[Terms[k].corridor] = Less(@, amount)]

\* The last plan of the list takes the slot of the one removed; `slot` counts
\* from 0 as in the source.
RemoveOpenPlan(b, k) ==
    LET last  == b.openPlanList[Len(b.openPlanList)]
        slot  == b.openPlanSlot[k]
        moved == [b.openPlanList EXCEPT ![slot + 1] = last]
    IN  [b EXCEPT !.openPlanList = SubSeq(moved, 1, Len(moved) - 1),
                  !.openPlanSlot = [@ EXCEPT ![last] = slot, ![k] = 0],
                  !.markedThisEpoch =
                      IF b.books[k].markedEpoch = b.epoch THEN Less(@, 1) ELSE @]

\* A check past its grace and still unmarked, counted once per plan.
SyncMarkState(b, k, v) ==
    [b EXCEPT !.books[k].unmarked = v.late,
              !.unmarkedDelinquencies =
                  @ + (IF v.late THEN 1 ELSE 0)
                    - (IF b.books[k].unmarked THEN 1 ELSE 0)]

---------------------------------------------------------------------------
(* Fronting, recognising and closing a plan. *)

CashOut(k) == Terms[k].principal - Terms[k].mdr + Terms[k].escrow

CanFront(b, k) ==
    /\ ~b.books[k].fronted
    /\ OriginationOpen(b)
    /\ CashOut(k) <= b.bookedCash

Fronted(b, k) ==
    LET terms == Terms[k]
    IN  [b EXCEPT
            !.books[k] =
                [fronted |-> TRUE, carrying |-> terms.principal,
                 recognisedInflow |-> 0,
                 deferredIncome |-> terms.mdr - terms.escrow,
                 open |-> TRUE, unmarked |-> FALSE, markedEpoch |-> b.epoch],
            !.bookedCash = @ - CashOut(k), !.balance = @ - CashOut(k),
            !.bookedReceivables = @ + terms.principal,
            !.deferredIncome = @ + terms.mdr - terms.escrow,
            !.merchantExposure[terms.merchant] = @ + terms.principal,
            !.corridorExposure[terms.corridor] = @ + terms.principal,
            !.openPlanSlot[k] = Len(b.openPlanList),
            !.openPlanList = Append(@, k),
            !.openPlans = @ + 1,
            !.markedThisEpoch = @ + 1]

\* Fault: the exposure is not brought down when the plan closes.
CloseKeepingExposure(b, k) ==
    LET book     == b.books[k]
        writeOff == book.carrying
        unearned == book.deferredIncome
        released == ReleaseProvision(RemoveOpenPlan(b, k), k, b.provisions[k].amount)
        settled  == [released EXCEPT
            !.openPlans = @ - 1,
            !.unmarkedDelinquencies = @ - (IF book.unmarked THEN 1 ELSE 0),
            !.deferredIncome = @ - unearned,
            !.bookedReceivables = Less(@, writeOff),
            !.books[k] = [@ EXCEPT !.open = FALSE, !.unmarked = FALSE,
                                   !.deferredIncome = 0, !.carrying = 0]]
    IN  IF writeOff > unearned THEN AbsorbLoss(settled, writeOff - unearned)
        ELSE Distribute(settled, unearned - writeOff)

\* A provision is released in full before the loss it anticipated is taken.
Close(b, k) ==
    LET book     == b.books[k]
        writeOff == book.carrying
        unearned == book.deferredIncome
        released == ReleaseProvision(RemoveOpenPlan(b, k), k, b.provisions[k].amount)
        settled  == [ReduceExposure(released, k, writeOff) EXCEPT
            !.openPlans = @ - 1,
            !.unmarkedDelinquencies = @ - (IF book.unmarked THEN 1 ELSE 0),
            !.deferredIncome = @ - unearned,
            !.bookedReceivables = Less(@, writeOff),
            !.books[k] = [@ EXCEPT !.open = FALSE, !.unmarked = FALSE,
                                   !.deferredIncome = 0, !.carrying = 0]]
    IN  IF writeOff > unearned THEN AbsorbLoss(settled, writeOff - unearned)
        ELSE Distribute(settled, unearned - writeOff)

ClosingStates == {"Repaid", "Refunded", "Cancelled", "Defaulted", "FraudReversed"}

\* What the plan has moved since the book last looked, the share of the
\* discount it has earned, and the difference as income or loss.
Inflow(b, k, v) == v.forwarded - b.books[k].recognisedInflow

Recovered(b, k, v) == Less(b.books[k].carrying, v.outstanding)

Earned(b, k, v) ==
    IF Recovered(b, k, v) = 0 THEN 0
    ELSE (b.books[k].deferredIncome * Recovered(b, k, v)) \div b.books[k].carrying

Accrued(b, k, v) ==
    LET inflow    == Inflow(b, k, v)
        recovered == Recovered(b, k, v)
        earned    == Earned(b, k, v)
        booked    == [ReduceExposure(b, k, recovered) EXCEPT
            !.books[k] = [@ EXCEPT !.recognisedInflow = v.forwarded,
                                   !.carrying = v.outstanding,
                                   !.deferredIncome = b.books[k].deferredIncome - earned],
            !.bookedCash = @ + inflow,
            !.bookedReceivables = @ - recovered,
            !.deferredIncome = @ - earned]
    IN  IF inflow + earned >= recovered
        THEN Distribute(booked, inflow + earned - recovered)
        ELSE AbsorbLoss(booked, recovered - inflow - earned)

Recognised(b, k, v) ==
    LET marked == SyncProvision(SyncMarkState(Accrued(b, k, v), k, v), k, v)
    IN  IF ~b.books[k].open THEN b
        ELSE IF v.state \in ClosingStates THEN Close(marked, k) ELSE marked

---------------------------------------------------------------------------
(* The mark phase of the epoch crank. *)

\* Fault: a strict cursor that does not wrap.
MarkStepWithoutWrap(b, view) ==
    LET k       == b.openPlanList[b.markCursor + 1]
        visited == Recognised(b, k, view[k])
    IN  IF b.markedThisEpoch >= b.openPlans \/ b.markCursor >= Len(b.openPlanList)
        THEN b
        ELSE IF b.books[k].markedEpoch >= b.epoch
        THEN [b EXCEPT !.markCursor = @ + 1]
        ELSE IF visited.books[k].open
        THEN [visited EXCEPT !.books[k].markedEpoch = b.epoch,
                             !.markedThisEpoch = @ + 1,
                             !.markCursor = @ + 1]
        ELSE [visited EXCEPT !.markCursor = @ + 1]

\* One step of the walk: the cursor wraps, a plan already marked in this
\* epoch is stepped over, and one that recognition closed vacates its slot
\* without moving the cursor.
MarkStep(b, view) ==
    LET cursor  == IF b.markCursor >= Len(b.openPlanList) THEN 0 ELSE b.markCursor
        k       == b.openPlanList[cursor + 1]
        visited == Recognised([b EXCEPT !.markCursor = cursor], k, view[k])
    IN  IF b.markedThisEpoch >= b.openPlans THEN b
        ELSE IF b.books[k].markedEpoch >= b.epoch
        THEN [b EXCEPT !.markCursor = cursor + 1]
        ELSE IF visited.books[k].open
        THEN [visited EXCEPT !.books[k].markedEpoch = b.epoch,
                             !.markedThisEpoch = @ + 1,
                             !.markCursor = cursor + 1]
        ELSE visited

MarkedUpTo(b, limit, view) ==
    LET walk[i \in 0 .. limit] == IF i = 0 THEN b ELSE MarkStep(walk[i - 1], view)
    IN  walk[limit]
=============================================================================
