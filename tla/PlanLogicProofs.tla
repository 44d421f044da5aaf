-------------------------- MODULE PlanLogicProofs --------------------------
(***************************************************************************)
(* What the operators of PlanLogic preserve, for every plan and every      *)
(* value of the constants.  Sound(p, given, float, at) collects the money  *)
(* identities of a plan p: `given` is what ever arrived by mistake, and    *)
(* `float` what p's token balance holds beyond its escrow.  Inside a call  *)
(* the float rises when money arrives and falls when it leaves; the lemmas *)
(* say by how much.  No halt of p began after the time `at`.               *)
(***************************************************************************)
EXTENDS PlanLogic, FiniteSetTheorems, TLAPS

Identities(p, given) ==
    /\ p.outstandingPrincipal <= Principal
    /\ p.totalCollected + p.refundCredit
         = (Principal - p.outstandingPrincipal) + p.feesPaid
    /\ p.balance + p.forwarded + p.keepers
         = p.totalCollected + p.refundCredit + MarkEscrowFor + given
    /\ p.feesOutstanding + p.feesPaid \in {0, LateFee}

Sound(p, given, float, at) ==
    /\ p \in Plan
    /\ Identities(p, given)
    /\ p.balance = p.markEscrow + float
    /\ p.haltStartedAt <= at

---------------------------------------------------------------------------
(* Constants. *)

\* Each installment, the late fee, the bounty and the escrow are amounts, and
\* no collection bounty exceeds the installment it is taken from.
LEMMA QuotientIsNat ==
    ASSUME NEW a \in Nat, NEW b \in Nat, b > 0
    PROVE  a \div b \in Nat /\ a % b \in Nat
  OBVIOUS

LEMMA ProductIsNat ==
    ASSUME NEW a \in Nat, NEW b \in Nat
    PROVE  a * b \in Nat
  OBVIOUS

LEMMA InstallmentIsNat ==
    ASSUME NEW i \in Index
    PROVE  InstallmentAmount(i) \in Nat
  <1>1. Principal \div InstallmentCount \in Nat /\ Principal % InstallmentCount \in Nat
    BY QuotientIsNat, TermsAssumption
  <1> QED BY <1>1 DEF InstallmentAmount

LEMMA LateFeeIsNat == LateFee \in Nat
  <1>1. InstallmentCount - 1 \in Index
    BY TermsAssumption DEF Index
  <1>2. InstallmentAmount(InstallmentCount - 1) * LateFeeCapBps \in Nat
    BY <1>1, InstallmentIsNat, ProductIsNat, TermsAssumption
  <1>3. (InstallmentAmount(InstallmentCount - 1) * LateFeeCapBps) \div Bps \in Nat
    BY <1>2, QuotientIsNat, ParamsAssumption
  <1> QED BY <1>3, TermsAssumption DEF LateFee, Lesser

LEMMA EscrowIsNat == MarkEscrowFor \in Nat
  BY ProductIsNat, TermsAssumption, ParamsAssumption DEF MarkEscrowFor

LEMMA BountyIsNat ==
    ASSUME NEW amount \in Nat, NEW elapsed \in Nat
    PROVE  /\ CollectBounty(amount, elapsed) \in 0 .. amount
           /\ CollectBounty(amount, elapsed) <= BountyCap
  <1> DEFINE bps == IF GraceWindow = 0 \/ elapsed >= GraceWindow
                    THEN BountyEndBps
                    ELSE BountyStartBps
                           + ((BountyEndBps - BountyStartBps) * elapsed) \div GraceWindow
  <1>1. bps \in Nat
    <2>1. (BountyEndBps - BountyStartBps) * elapsed \in Nat
      BY ProductIsNat, ParamsAssumption
    <2>2. GraceWindow # 0
            => ((BountyEndBps - BountyStartBps) * elapsed) \div GraceWindow \in Nat
      BY <2>1, QuotientIsNat, ParamsAssumption
    <2> QED BY <2>2, ParamsAssumption
  <1>2. (amount * bps) \div Bps \in Nat
    <2>1. amount * bps \in Nat
      BY <1>1, ProductIsNat
    <2> QED BY <2>1, QuotientIsNat, ParamsAssumption
  <1> HIDE DEF bps
  <1>3. CollectBounty(amount, elapsed)
          = LET floored == IF (amount * bps) \div Bps < BountyFloor
                           THEN BountyFloor ELSE (amount * bps) \div Bps
            IN  Lesser(Lesser(floored, BountyCap), amount)
    BY DEF CollectBounty, bps
  <1> QED BY <1>2, <1>3, ParamsAssumption DEF Lesser

---------------------------------------------------------------------------
(* Operators that move no money. *)

\* A change of state, status or clock leaves a plan sound.
LEMMA TransitionSound ==
    ASSUME NEW p, NEW given \in Nat, NEW float \in Int,
           NEW at \in Nat, Sound(p, given, float, at),
           NEW next \in PlanState
    PROVE  Sound(Transition(p, next), given, float, at)
  BY DEF Transition, Sound, Identities, Plan

LEMMA StatusSound ==
    ASSUME NEW p, NEW given \in Nat, NEW float \in Int,
           NEW at \in Nat, Sound(p, given, float, at),
           NEW f \in [Index -> InstallmentStatus]
    PROVE  Sound([p EXCEPT !.status = f], given, float, at)
  BY DEF Sound, Identities, Plan

LEMMA StatusOfOneSound ==
    ASSUME NEW p, NEW given \in Nat, NEW float \in Int,
           NEW at \in Nat, Sound(p, given, float, at),
           NEW i \in Index, NEW s \in InstallmentStatus
    PROVE  Sound([p EXCEPT !.status[i] = s], given, float, at)
  BY DEF Sound, Identities, Plan

LEMMA ResolveSound ==
    ASSUME NEW p, NEW given \in Nat, NEW float \in Int,
           NEW at \in Nat, Sound(p, given, float, at),
           NEW resolution \in InstallmentStatus
    PROVE  Sound(ResolveOutstanding(p, resolution), given, float, at)
  <1>1. p.status \in [Index -> InstallmentStatus]
    BY DEF Sound, Plan
  <1>2. [i \in Index |-> IF i \in Live(p) THEN resolution ELSE p.status[i]]
          \in [Index -> InstallmentStatus]
    BY <1>1
  <1> QED BY <1>2, StatusSound DEF ResolveOutstanding

LEMMA SuppressSound ==
    ASSUME NEW p, NEW given \in Nat, NEW float \in Int,
           NEW at \in Nat, Sound(p, given, float, at)
    PROVE  Sound(SuppressCoveredTail(p), given, float, at)
  <1>1. p.status \in [Index -> InstallmentStatus]
    BY DEF Sound, Plan
  <1>2. "Refunded" \in InstallmentStatus
    BY DEF InstallmentStatus
  <1>3. [i \in Index |->
           IF i \in Live(p) /\ RemainingBefore(p)[i] < InstallmentAmount(i)
           THEN "Refunded" ELSE p.status[i]] \in [Index -> InstallmentStatus]
    BY <1>1, <1>2
  <1> QED BY <1>3, StatusSound DEF SuppressCoveredTail

\* The late fee is charged only on a plan that has neither owed nor paid one.
LEMMA AccrueSound ==
    ASSUME NEW p, NEW given \in Nat, NEW float \in Int,
           NEW at \in Nat, Sound(p, given, float, at)
    PROVE  Sound(AccrueLateFee(p), given, float, at)
  BY LateFeeIsNat DEF AccrueLateFee, Sound, Identities, Plan

LEMMA EnterHaltSound ==
    ASSUME NEW p, NEW given \in Nat, NEW float \in Int,
           NEW at \in Nat, Sound(p, given, float, at),
           NEW now \in 0 .. at
    PROVE  Sound(EnterHalt(p, now), given, float, at)
  <1>1. now \in Nat /\ "HALTED" \in PlanState
    BY DEF PlanState
  <1>2. Sound([p EXCEPT !.haltStartedAt = now], given, float, at)
    BY <1>1 DEF Sound, Identities, Plan
  <1> QED BY <1>1, <1>2, TransitionSound DEF EnterHalt

---------------------------------------------------------------------------
(* Operators that do. *)

\* The types of a plan's numbers, and the identities, spelled out for arithmetic.
LEMMA Numbers ==
    ASSUME NEW p, NEW given \in Nat, NEW float \in Int,
           NEW at \in Nat, Sound(p, given, float, at)
    PROVE  /\ p.outstandingPrincipal \in Nat /\ p.totalCollected \in Nat
           /\ p.feesOutstanding \in Nat /\ p.feesPaid \in Nat
           /\ p.refundCredit \in Nat /\ p.forwarded \in Nat
           /\ p.markEscrow \in Nat /\ p.keepers \in Nat /\ p.balance \in Int
           /\ p.haltStartedAt \in Nat
           /\ Principal \in Nat /\ MarkEscrowFor \in Nat /\ LateFee \in Nat
  BY EscrowIsNat, LateFeeIsNat, TermsAssumption DEF Sound, Plan

LEMMA ForwardSound ==
    ASSUME NEW p, NEW given \in Nat, NEW float \in Int,
           NEW at \in Nat, Sound(p, given, float, at),
           NEW amount \in Nat
    PROVE  Sound(Forward(p, amount), given, float - amount, at)
  <1> DEFINE q == [p EXCEPT !.forwarded = @ + amount, !.balance = @ - amount]
  <1>1. p \in Plan /\ p.forwarded + amount \in Nat /\ p.balance - amount \in Int
    BY Numbers DEF Sound
  <1>2. q \in Plan
    BY <1>1 DEF Plan
  <1>3. /\ q.forwarded = p.forwarded + amount
        /\ q.balance = p.balance - amount
        /\ q.outstandingPrincipal = p.outstandingPrincipal
        /\ q.totalCollected = p.totalCollected /\ q.refundCredit = p.refundCredit
        /\ q.feesOutstanding = p.feesOutstanding /\ q.feesPaid = p.feesPaid
        /\ q.markEscrow = p.markEscrow /\ q.keepers = p.keepers
        /\ q.haltStartedAt = p.haltStartedAt
    BY <1>1 DEF Plan
  <1> HIDE DEF q
  <1>4. Sound(q, given, float - amount, at)
    BY <1>2, <1>3, Numbers DEF Sound, Identities
  <1> QED BY <1>4 DEF Forward, q

LEMMA PayKeeperSound ==
    ASSUME NEW p, NEW given \in Nat, NEW float \in Int,
           NEW at \in Nat, Sound(p, given, float, at),
           NEW amount \in Nat
    PROVE  Sound(PayKeeper(p, amount), given, float - amount, at)
  <1> DEFINE q == [p EXCEPT !.keepers = @ + amount, !.balance = @ - amount]
  <1>1. p \in Plan /\ p.keepers + amount \in Nat /\ p.balance - amount \in Int
    BY Numbers DEF Sound
  <1>2. q \in Plan
    BY <1>1 DEF Plan
  <1>3. /\ q.keepers = p.keepers + amount
        /\ q.balance = p.balance - amount
        /\ q.outstandingPrincipal = p.outstandingPrincipal
        /\ q.totalCollected = p.totalCollected /\ q.refundCredit = p.refundCredit
        /\ q.feesOutstanding = p.feesOutstanding /\ q.feesPaid = p.feesPaid
        /\ q.markEscrow = p.markEscrow /\ q.forwarded = p.forwarded
        /\ q.haltStartedAt = p.haltStartedAt
    BY <1>1 DEF Plan
  <1> HIDE DEF q
  <1>4. Sound(q, given, float - amount, at)
    BY <1>2, <1>3, Numbers DEF Sound, Identities
  <1> QED BY <1>4 DEF PayKeeper, q

\* Giving up part of the escrow turns it into float.
LEMMA EscrowToFloat ==
    ASSUME NEW p, NEW given \in Nat, NEW float \in Int,
           NEW at \in Nat, Sound(p, given, float, at),
           NEW left \in Nat
    PROVE  Sound([p EXCEPT !.markEscrow = left], given, float + (p.markEscrow - left), at)
  <1> DEFINE q == [p EXCEPT !.markEscrow = left]
  <1>1. p \in Plan
    BY DEF Sound
  <1>2. q \in Plan
    BY <1>1 DEF Plan
  <1>3. /\ q.markEscrow = left
        /\ q.outstandingPrincipal = p.outstandingPrincipal
        /\ q.totalCollected = p.totalCollected /\ q.refundCredit = p.refundCredit
        /\ q.feesOutstanding = p.feesOutstanding /\ q.feesPaid = p.feesPaid
        /\ q.balance = p.balance /\ q.forwarded = p.forwarded
        /\ q.keepers = p.keepers /\ q.haltStartedAt = p.haltStartedAt
    BY <1>1 DEF Plan
  <1> HIDE DEF q
  <1>4. Sound(q, given, float + (p.markEscrow - left), at)
    BY <1>2, <1>3, Numbers DEF Sound, Identities
  <1> QED BY <1>4 DEF q

LEMMA ReleaseEscrowSound ==
    ASSUME NEW p, NEW given \in Nat, NEW float \in Int,
           NEW at \in Nat, Sound(p, given, float, at)
    PROVE  Sound(ReleaseEscrow(p), given, float, at)
  <1> DEFINE q == [p EXCEPT !.markEscrow = 0]
             loose == float + (p.markEscrow - 0)
  <1>1. p.markEscrow \in Nat
    BY Numbers
  <1>2. Sound(q, given, loose, at)
    BY <1>1, EscrowToFloat
  <1>3. loose \in Int /\ loose - p.markEscrow = float
    BY <1>1
  <1> HIDE DEF q, loose
  <1>4. Sound(Forward(q, p.markEscrow), given, loose - p.markEscrow, at)
    BY <1>1, <1>2, <1>3, ForwardSound
  <1> QED BY <1>3, <1>4 DEF ReleaseEscrow, q

\* A bounty from the escrow is clamped to it, so it never comes out of the float.
LEMMA PayFromEscrowSound ==
    ASSUME NEW p, NEW given \in Nat, NEW float \in Int,
           NEW at \in Nat, Sound(p, given, float, at),
           NEW amount \in Nat
    PROVE  Sound(PayFromEscrow(p, amount), given, float, at)
  <1> DEFINE bounty == Lesser(amount, p.markEscrow)
             q == [p EXCEPT !.markEscrow = p.markEscrow - bounty]
  <1>1. bounty \in Nat /\ p.markEscrow - bounty \in Nat /\ p.markEscrow \in Nat
    BY Numbers DEF Lesser
  <1>2. PayFromEscrow(p, amount) = PayKeeper(q, bounty)
    BY DEF PayFromEscrow
  <1> HIDE DEF bounty
  <1> DEFINE loose == float + (p.markEscrow - (p.markEscrow - bounty))
  <1>3. Sound(q, given, loose, at)
    BY <1>1, EscrowToFloat
  <1>4. loose \in Int /\ loose - bounty = float
    BY <1>1
  <1> HIDE DEF q, loose
  <1>5. Sound(PayKeeper(q, bounty), given, loose - bounty, at)
    BY <1>1, <1>3, <1>4, PayKeeperSound
  <1> QED BY <1>2, <1>4, <1>5

LEMMA PayMarkBountySound ==
    ASSUME NEW p, NEW given \in Nat, NEW float \in Int,
           NEW at \in Nat, Sound(p, given, float, at)
    PROVE  Sound(PayMarkBounty(p), given, float, at)
  BY PayFromEscrowSound, ParamsAssumption DEF PayMarkBounty

LEMMA LiveIsFinite ==
    ASSUME NEW p
    PROVE  IsFiniteSet(Live(p)) /\ Cardinality(Live(p)) \in Nat
  <1>1. IsFiniteSet(Index)
    BY FS_Interval, TermsAssumption DEF Index
  <1>2. IsFiniteSet(Live(p))
    BY <1>1, FS_Subset DEF Live
  <1> QED BY <1>2, FS_CardinalityType

LEMMA ReservedIsNat ==
    ASSUME NEW p
    PROVE  ReservedForMarks(p) \in Nat
  BY LiveIsFinite, ProductIsNat, ParamsAssumption DEF ReservedForMarks

LEMMA ObservationIsNat ==
    ASSUME NEW p \in Plan
    PROVE  ObservationBounty(p) \in Nat
  BY ReservedIsNat, ParamsAssumption DEF ObservationBounty, Lesser, Plan

LEMMA PayObservationBountySound ==
    ASSUME NEW p, NEW given \in Nat, NEW float \in Int,
           NEW at \in Nat, Sound(p, given, float, at)
    PROVE  Sound(PayObservationBounty(p), given, float, at)
  BY PayFromEscrowSound, ObservationIsNat DEF PayObservationBounty, Sound

LEMMA AppliedIsNat ==
    ASSUME NEW p \in Plan, NEW gross \in Nat
    PROVE  Applied(p, gross) \in Nat /\ Applied(p, gross) <= gross
  BY DEF Applied, PayoffAmount, Lesser, Plan

\* The waterfall: what was applied retires principal, then fees, and waits in
\* the float to be paid on.
LEMMA AccountSound ==
    ASSUME NEW p, NEW given \in Nat, NEW float \in Int,
           NEW at \in Nat, Sound(p, given, float, at),
           NEW gross \in Nat
    PROVE  Sound(Account(p, gross), given, float + Applied(p, gross), at)
  <1> DEFINE applied == Applied(p, gross)
             toPrincipal == Lesser(applied, p.outstandingPrincipal)
             toFees == applied - toPrincipal
  <1>1. applied \in Nat /\ applied <= p.outstandingPrincipal + p.feesOutstanding
    BY DEF Applied, PayoffAmount, Lesser, Sound, Plan
  <1>2. toPrincipal \in Nat /\ toPrincipal <= p.outstandingPrincipal
    BY <1>1 DEF Lesser, Sound, Plan
  <1>3. toFees \in Nat /\ toFees <= p.feesOutstanding
    BY <1>1 DEF Lesser, Sound, Plan
  <1>4. Account(p, gross) =
          [p EXCEPT !.outstandingPrincipal = @ - toPrincipal,
                    !.feesOutstanding = @ - toFees,
                    !.feesPaid = @ + toFees,
                    !.totalCollected = @ + applied,
                    !.balance = @ + applied]
    BY DEF Account
  <1> HIDE DEF applied, toPrincipal, toFees
  <1>5. applied = toPrincipal + toFees
    BY <1>1, <1>2 DEF toFees
  <1> DEFINE q == [p EXCEPT !.outstandingPrincipal = p.outstandingPrincipal - toPrincipal,
                            !.feesOutstanding = p.feesOutstanding - toFees,
                            !.feesPaid = p.feesPaid + toFees,
                            !.totalCollected = p.totalCollected + applied,
                            !.balance = p.balance + applied]
  <1>6. p \in Plan
        /\ p.outstandingPrincipal - toPrincipal \in Nat
        /\ p.feesOutstanding - toFees \in Nat /\ p.feesPaid + toFees \in Nat
        /\ p.totalCollected + applied \in Nat /\ p.balance + applied \in Int
    BY <1>1, <1>2, <1>3, Numbers DEF Sound
  <1>7. q \in Plan
    BY <1>6 DEF Plan
  <1>8. /\ q.outstandingPrincipal = p.outstandingPrincipal - toPrincipal
        /\ q.feesOutstanding = p.feesOutstanding - toFees
        /\ q.feesPaid = p.feesPaid + toFees
        /\ q.totalCollected = p.totalCollected + applied
        /\ q.balance = p.balance + applied
        /\ q.refundCredit = p.refundCredit /\ q.forwarded = p.forwarded
        /\ q.markEscrow = p.markEscrow /\ q.keepers = p.keepers
        /\ q.haltStartedAt = p.haltStartedAt
    BY <1>6 DEF Plan
  <1>9. Account(p, gross) = q
    BY <1>4
  <1> HIDE DEF q
  <1>10. Sound(q, given, float + applied, at)
    <2>1. /\ p.outstandingPrincipal \in Nat /\ p.totalCollected \in Nat
          /\ p.feesOutstanding \in Nat /\ p.feesPaid \in Nat
          /\ p.refundCredit \in Nat /\ p.forwarded \in Nat
          /\ p.markEscrow \in Nat /\ p.keepers \in Nat /\ p.balance \in Int
           /\ p.haltStartedAt \in Nat
          /\ Principal \in Nat /\ MarkEscrowFor \in Nat
      BY Numbers
    <2>2. /\ p.outstandingPrincipal <= Principal
          /\ p.totalCollected + p.refundCredit
               = (Principal - p.outstandingPrincipal) + p.feesPaid
          /\ p.balance + p.forwarded + p.keepers
               = p.totalCollected + p.refundCredit + MarkEscrowFor + given
      BY DEF Sound, Identities
    <2>3. /\ q.outstandingPrincipal <= Principal
          /\ q.totalCollected + q.refundCredit
               = (Principal - q.outstandingPrincipal) + q.feesPaid
      BY <1>1, <1>2, <1>3, <1>5, <1>8, <2>1, <2>2
    <2>4. q.balance + q.forwarded + q.keepers
            = q.totalCollected + q.refundCredit + MarkEscrowFor + given
      BY <1>1, <1>8, <2>1, <2>2
    <2>5. q.feesOutstanding + q.feesPaid = p.feesOutstanding + p.feesPaid
      BY <1>3, <1>8, <2>1
    <2>6. q.balance = q.markEscrow + (float + applied)
      BY <1>1, <1>8, <2>1 DEF Sound
    <2> QED BY <1>7, <1>8, <2>3, <2>4, <2>5, <2>6 DEF Sound, Identities
  <1>11. Applied(p, gross) = applied
    BY DEF applied
  <1> QED BY <1>9, <1>10, <1>11

LEMMA AfterInflowSound ==
    ASSUME NEW p, NEW given \in Nat, NEW float \in Int,
           NEW at \in Nat, Sound(p, given, float, at),
           NEW now
    PROVE  Sound(AfterInflow(p, now), given, float, at)
  <1>1. "Cleared" \in InstallmentStatus
        /\ {"Repaid", "SettledWithFeeOutstanding", "Active"} \subseteq PlanState
    BY DEF InstallmentStatus, PlanState
  <1>2. Sound(ResolveOutstanding(p, "Cleared"), given, float, at)
    BY <1>1, ResolveSound
  <1>3. Sound(ReleaseEscrow(Transition(ResolveOutstanding(p, "Cleared"), "Repaid")),
              given, float, at)
    BY <1>1, <1>2, TransitionSound, ReleaseEscrowSound
  <1>4. Sound(Transition(ResolveOutstanding(p, "Cleared"), "SettledWithFeeOutstanding"),
              given, float, at)
    BY <1>1, <1>2, TransitionSound
  <1>5. Sound(Transition(p, "Active"), given, float, at)
    BY <1>1, TransitionSound
  <1> QED BY <1>3, <1>4, <1>5 DEF AfterInflow
---------------------------------------------------------------------------
(* The handlers, one lemma each: none of them creates, loses or strands    *)
(* money, whatever the plan looked like when it was called.                *)

LEMMA DueDateIsInt ==
    ASSUME NEW i \in Index
    PROVE  DueDate(i) \in Int
  <1>1. i \in Nat
    BY DEF Index
  <1>2. i * Interval \in Nat
    BY <1>1, ProductIsNat, TermsAssumption
  <1> QED BY <1>2, TermsAssumption DEF DueDate

\* Status names the two fields the waterfall reads are left alone by.
LEMMA StatusKeepsApplied ==
    ASSUME NEW p \in Plan, NEW i \in Index, NEW s, NEW gross
    PROVE  Applied([p EXCEPT !.status[i] = s], gross) = Applied(p, gross)
  BY DEF Applied, PayoffAmount, Plan

\* A cleared pull: the money is booked, the bounty comes out of it and the
\* rest is forwarded, so nothing of it stays.
LEMMA SettleClearedSound ==
    ASSUME NEW p, NEW given \in Nat, NEW float \in Int,
           NEW at \in Nat, Sound(p, given, float, at),
           NEW i \in Index, NEW now \in Nat, now >= DueDate(i)
    PROVE  Sound(SettleCleared(p, i, now), given, float, at)
  <1> DEFINE amount  == InstallmentAmount(i)
             applied == Applied(p, amount)
             bounty  == Lesser(CollectBounty(amount, now - DueDate(i)), applied)
             cleared == [p EXCEPT !.status[i] = "Cleared"]
             booked  == Account(cleared, amount)
             paid    == PayKeeper(booked, bounty)
  <1>1. p \in Plan
    BY DEF Sound
  <1>2. amount \in Nat /\ applied \in Nat
    BY <1>1, InstallmentIsNat, AppliedIsNat
  <1>3. now - DueDate(i) \in Nat
    BY DueDateIsInt
  <1>4. CollectBounty(amount, now - DueDate(i)) \in Nat
    <2>1. CollectBounty(amount, now - DueDate(i)) \in 0 .. amount
      BY <1>2, <1>3, BountyIsNat
    <2> QED BY <1>2, <2>1
  <1>5. bounty \in Nat /\ bounty <= applied
    BY <1>2, <1>4 DEF Lesser
  <1>6. Sound(cleared, given, float, at)
    BY StatusOfOneSound DEF InstallmentStatus
  <1>7. Applied(cleared, amount) = applied
    BY <1>1, StatusKeepsApplied
  <1>8. SettleCleared(p, i, now) = AfterInflow(Forward(paid, applied - bounty), now)
    BY DEF SettleCleared
  <1> HIDE DEF applied, bounty, amount, cleared
  <1>9. Sound(booked, given, float + applied, at)
    BY <1>2, <1>6, <1>7, AccountSound
  <1> DEFINE loose == float + applied
  <1>10. loose \in Int /\ loose - bounty \in Int /\ applied - bounty \in Nat
         /\ (loose - bounty) - (applied - bounty) = float
    BY <1>2, <1>5
  <1>11. Sound(booked, given, loose, at)
    BY <1>9
  <1> HIDE DEF loose, booked
  <1>12. Sound(paid, given, loose - bounty, at)
    BY <1>5, <1>10, <1>11, PayKeeperSound
  <1> HIDE DEF paid
  <1>13. Sound(Forward(paid, applied - bounty), given,
               (loose - bounty) - (applied - bounty), at)
    BY <1>10, <1>12, ForwardSound
  <1>14. Sound(Forward(paid, applied - bounty), given, float, at)
    BY <1>10, <1>13
  <1> QED BY <1>8, <1>14, AfterInflowSound

LEMMA BounceSound ==
    ASSUME NEW p, NEW given \in Nat, NEW float \in Int,
           NEW at \in Nat, Sound(p, given, float, at),
           NEW i \in Index, NEW reason
    PROVE  Sound(Bounce(p, i, reason), given, float, at)
  <1> DEFINE q == [p EXCEPT !.status[i] = "Bounced"]
  <1>1. "Bounced" \in InstallmentStatus /\ "Grace" \in PlanState
    BY DEF InstallmentStatus, PlanState
  <1>2. Sound(q, given, float, at)
    BY <1>1, StatusOfOneSound
  <1>3. Bounce(p, i, reason)
          = IF reason \notin {"Halted", "Blocked"} /\ p.state # "Delinquent"
            THEN Transition(q, "Grace") ELSE q
    BY DEF Bounce
  <1> HIDE DEF q
  <1>4. Sound(Transition(q, "Grace"), given, float, at)
    BY <1>1, <1>2, TransitionSound
  <1> QED BY <1>2, <1>3, <1>4

LEMMA CollectedSound ==
    ASSUME NEW p, NEW given \in Nat, NEW float \in Int,
           NEW at \in Nat, Sound(p, given, float, at),
           NEW i \in Index, NEW now \in 0 .. at, CanCollect(p, i, now), NEW reason
    PROVE  Sound(Collected(p, i, now, reason), given, float, at)
  <1>1. now \in Nat /\ now >= DueDate(i)
    BY DEF CanCollect
  <1>2. Sound(SettleCleared(p, i, now), given, float, at)
    BY <1>1, SettleClearedSound
  <1>3. Sound(Bounce(EnterHalt(p, now), i, reason), given, float, at)
    BY EnterHaltSound, BounceSound
  <1>4. Sound(Bounce(Transition(p, "Blocked"), i, reason), given, float, at)
    <2>1. "Blocked" \in PlanState
      BY DEF PlanState
    <2> QED BY <2>1, TransitionSound, BounceSound
  <1> QED BY <1>2, <1>3, <1>4, BounceSound DEF Collected

LEMMA MarkedSound ==
    ASSUME NEW p, NEW given \in Nat, NEW float \in Int,
           NEW at \in Nat, Sound(p, given, float, at),
           NEW i \in Index, NEW status \in InstallmentStatus
    PROVE  Sound(Marked(p, i, status), given, float, at)
  <1>1. Sound([p EXCEPT !.status[i] = status], given, float, at)
    BY StatusOfOneSound
  <1>2. Sound(AccrueLateFee([p EXCEPT !.status[i] = status]), given, float, at)
    BY <1>1, AccrueSound
  <1>3. "Delinquent" \in PlanState
    BY DEF PlanState
  <1>4. Sound(Transition(AccrueLateFee([p EXCEPT !.status[i] = status]), "Delinquent"),
              given, float, at)
    BY <1>2, <1>3, TransitionSound
  <1> QED BY <1>4, PayMarkBountySound DEF Marked

LEMMA CancellationNotedSound ==
    ASSUME NEW p, NEW given \in Nat, NEW float \in Int,
           NEW at \in Nat, Sound(p, given, float, at),
           NEW i \in Index
    PROVE  Sound(CancellationNoted(p, i), given, float, at)
  <1>1. {"Cleared", "Missed"} \subseteq InstallmentStatus
    BY DEF InstallmentStatus
  <1> QED BY <1>1, MarkedSound, StatusOfOneSound DEF CancellationNoted

LEMMA RepaidSound ==
    ASSUME NEW p, NEW given \in Nat, NEW float \in Int,
           NEW at \in Nat, Sound(p, given, float, at),
           NEW amount \in Nat, NEW now
    PROVE  Sound(Repaid(p, amount, now), given, float, at)
  <1> DEFINE applied == Applied(p, amount)
             loose == float + applied
             booked == Account(p, amount)
  <1>1. applied \in Nat
    BY AppliedIsNat DEF Sound
  <1>2. Sound(booked, given, loose, at)
    BY AccountSound
  <1>3. Repaid(p, amount, now) = AfterInflow(Forward(booked, applied), now)
    BY DEF Repaid
  <1> HIDE DEF applied, booked
  <1>4. loose \in Int /\ loose - applied = float
    BY <1>1
  <1> HIDE DEF loose
  <1>5. Sound(Forward(booked, applied), given, loose - applied, at)
    BY <1>1, <1>2, <1>4, ForwardSound
  <1> QED BY <1>3, <1>4, <1>5, AfterInflowSound
\* Crediting a refund: the debt falls, the credit and the float rise, by what
\* the refund could retire.
LEMMA CreditSound ==
    ASSUME NEW p, NEW given \in Nat, NEW float \in Int,
           NEW at \in Nat, Sound(p, given, float, at),
           NEW applied \in Nat, applied <= p.outstandingPrincipal
    PROVE  Sound([p EXCEPT !.outstandingPrincipal = @ - applied,
                           !.refundCredit = @ + applied,
                           !.balance = @ + applied], given, float + applied, at)
  <1> DEFINE q == [p EXCEPT !.outstandingPrincipal = p.outstandingPrincipal - applied,
                            !.refundCredit = p.refundCredit + applied,
                            !.balance = p.balance + applied]
  <1>1. p \in Plan /\ p.outstandingPrincipal - applied \in Nat
        /\ p.refundCredit + applied \in Nat /\ p.balance + applied \in Int
    BY Numbers DEF Sound
  <1>2. q \in Plan
    BY <1>1 DEF Plan
  <1>3. /\ q.outstandingPrincipal = p.outstandingPrincipal - applied
        /\ q.refundCredit = p.refundCredit + applied
        /\ q.balance = p.balance + applied
        /\ q.totalCollected = p.totalCollected /\ q.forwarded = p.forwarded
        /\ q.feesOutstanding = p.feesOutstanding /\ q.feesPaid = p.feesPaid
        /\ q.markEscrow = p.markEscrow /\ q.keepers = p.keepers
        /\ q.haltStartedAt = p.haltStartedAt
    BY <1>1 DEF Plan
  <1> HIDE DEF q
  <1>4. Sound(q, given, float + applied, at)
    <2>1. /\ p.outstandingPrincipal \in Nat /\ p.totalCollected \in Nat
          /\ p.feesOutstanding \in Nat /\ p.feesPaid \in Nat
          /\ p.refundCredit \in Nat /\ p.forwarded \in Nat
          /\ p.markEscrow \in Nat /\ p.keepers \in Nat /\ p.balance \in Int
          /\ Principal \in Nat /\ MarkEscrowFor \in Nat
      BY Numbers
    <2>2. /\ p.outstandingPrincipal <= Principal
          /\ p.totalCollected + p.refundCredit
               = (Principal - p.outstandingPrincipal) + p.feesPaid
          /\ p.balance + p.forwarded + p.keepers
               = p.totalCollected + p.refundCredit + MarkEscrowFor + given
      BY DEF Sound, Identities
    <2>6. q.outstandingPrincipal <= Principal
      BY <1>3, <2>1, <2>2
    <2>7. p.totalCollected + (p.refundCredit + applied)
            = (Principal - (p.outstandingPrincipal - applied)) + p.feesPaid
      <3>1. \A a, b, c, d, e, x \in Int :
               a + b = (c - d) + e => a + (b + x) = (c - (d - x)) + e
        OBVIOUS
      <3>2. applied \in Int /\ p.totalCollected \in Int /\ p.refundCredit \in Int
            /\ Principal \in Int /\ p.outstandingPrincipal \in Int /\ p.feesPaid \in Int
        BY <2>1
      <3> QED BY <3>1, <3>2, <2>2
    <2>3. q.totalCollected + q.refundCredit
            = (Principal - q.outstandingPrincipal) + q.feesPaid
      BY <1>3, <2>7
    <2>4. q.balance + q.forwarded + q.keepers
            = q.totalCollected + q.refundCredit + MarkEscrowFor + given
      BY <1>3, <2>1, <2>2
    <2>5. q.balance = q.markEscrow + (float + applied)
      BY <1>3, <2>1 DEF Sound
    <2> QED BY <1>2, <1>3, <2>6, <2>3, <2>4, <2>5 DEF Sound, Identities
  <1> QED BY <1>4 DEF q

LEMMA RefundedSound ==
    ASSUME NEW p, NEW given \in Nat, NEW float \in Int,
           NEW at \in Nat, Sound(p, given, float, at),
           NEW amount \in Nat, NEW now
    PROVE  Sound(Refunded(p, amount, now), given, float, at)
  <1> DEFINE applied == RefundApplied(p, amount)
             loose == float + applied
             credit == [p EXCEPT !.outstandingPrincipal = @ - applied,
                                 !.refundCredit = @ + applied,
                                 !.balance = @ + applied]
             settled == Forward(SuppressCoveredTail(credit), applied)
             resolved == ResolveOutstanding(settled, "Refunded")
             next == IF settled.feesOutstanding > 0
                     THEN "SettledWithFeeOutstanding" ELSE "Refunded"
  <1>1. applied \in Nat /\ applied <= p.outstandingPrincipal
    BY DEF RefundApplied, Lesser, Sound, Plan
  <1>2. Refunded(p, amount, now)
          = IF settled.outstandingPrincipal = 0
            THEN ReleaseEscrow(Transition(resolved, next))
            ELSE AfterInflow(settled, now)
    BY DEF Refunded
  <1> HIDE DEF applied
  <1>3. Sound(credit, given, loose, at)
    BY <1>1, CreditSound
  <1>4. loose \in Int /\ loose - applied = float
    BY <1>1
  <1> HIDE DEF loose, credit
  <1>5. Sound(SuppressCoveredTail(credit), given, loose, at)
    BY <1>3, <1>4, SuppressSound
  <1>6. Sound(settled, given, float, at)
    <2>1. Sound(settled, given, loose - applied, at)
      BY <1>1, <1>4, <1>5, ForwardSound
    <2> QED BY <1>4, <2>1
  <1> HIDE DEF settled
  <1>7. "Refunded" \in InstallmentStatus /\ next \in PlanState
    BY DEF InstallmentStatus, PlanState
  <1>8. Sound(resolved, given, float, at)
    BY <1>6, <1>7, ResolveSound
  <1> HIDE DEF resolved, next
  <1>9. Sound(ReleaseEscrow(Transition(resolved, next)), given, float, at)
    BY <1>7, <1>8, TransitionSound, ReleaseEscrowSound
  <1> QED BY <1>2, <1>6, <1>9, AfterInflowSound

LEMMA RevalidatedSound ==
    ASSUME NEW p, NEW given \in Nat, NEW float \in Int,
           NEW at \in Nat, Sound(p, given, float, at),
           NEW stale, NEW now \in Nat
    PROVE  Sound(Revalidated(p, stale, now), given, float, at)
  <1> DEFINE seen == [i \in Index |-> IF i \in Live(p) \cap stale THEN "Bounced"
                                      ELSE p.status[i]]
             q == [p EXCEPT !.revalidatedAt = now, !.status = seen]
  <1>1. p \in Plan /\ seen \in [Index -> InstallmentStatus]
    BY DEF Sound, Plan, InstallmentStatus
  <1>2. Revalidated(p, stale, now) = IF ContractSigner THEN PayObservationBounty(q) ELSE q
    BY DEF Revalidated
  <1> HIDE DEF seen
  <1>3. Sound(q, given, float, at)
    BY <1>1 DEF Sound, Identities, Plan
  <1> HIDE DEF q
  <1> QED BY <1>2, <1>3, PayObservationBountySound

LEMMA ResumedSound ==
    ASSUME NEW p, NEW given \in Nat, NEW float \in Int,
           NEW at \in Nat, Sound(p, given, float, at),
           NEW now \in Nat, p.haltStartedAt <= now
    PROVE  Sound(Resumed(p, now), given, float, at)
  <1> DEFINE q == [p EXCEPT !.haltOffset = p.haltOffset + (now - p.haltStartedAt),
                            !.haltStartedAt = 0]
             next == IF IsCurrent(q, now) THEN "Active" ELSE "Grace"
  <1>1. p \in Plan /\ p.haltOffset + (now - p.haltStartedAt) \in Nat
    BY DEF Sound, Plan
  <1>2. Sound(q, given, float, at)
    <2>1. q \in Plan /\ q.haltStartedAt = 0
      BY <1>1 DEF Plan
    <2>2. /\ q.outstandingPrincipal = p.outstandingPrincipal
          /\ q.totalCollected = p.totalCollected /\ q.refundCredit = p.refundCredit
          /\ q.feesOutstanding = p.feesOutstanding /\ q.feesPaid = p.feesPaid
          /\ q.balance = p.balance /\ q.forwarded = p.forwarded
          /\ q.markEscrow = p.markEscrow /\ q.keepers = p.keepers
      BY <1>1 DEF Plan
    <2> HIDE DEF q
    <2> QED BY <2>1, <2>2 DEF Sound, Identities
  <1>3. Resumed(p, now) = PayObservationBounty(Transition(q, next))
    BY DEF Resumed
  <1> HIDE DEF q
  <1>4. next \in PlanState
    BY DEF PlanState
  <1> HIDE DEF next
  <1> QED BY <1>2, <1>3, <1>4, TransitionSound, PayObservationBountySound

LEMMA ChargedOffSound ==
    ASSUME NEW p, NEW given \in Nat, NEW float \in Int,
           NEW at \in Nat, Sound(p, given, float, at)
    PROVE  Sound(ChargedOff(p), given, float, at)
  <1>1. "Defaulted" \in PlanState
    BY DEF PlanState
  <1> QED BY <1>1, TransitionSound, PayObservationBountySound, ReleaseEscrowSound
          DEF ChargedOff

\* A sweep takes the whole float and nothing else.
LEMMA SweptSound ==
    ASSUME NEW p, NEW given \in Nat, NEW float \in Int,
           NEW at \in Nat, Sound(p, given, float, at),
           p.balance > p.markEscrow
    PROVE  Sound(Swept(p), given, 0, at)
  <1>1. /\ p.balance - p.markEscrow \in Nat
        /\ float - (p.balance - p.markEscrow) = 0
    BY Numbers DEF Sound
  <1>2. Sound(Forward(p, p.balance - p.markEscrow), given,
              float - (p.balance - p.markEscrow), at)
    BY <1>1, ForwardSound
  <1> QED BY <1>1, <1>2 DEF Swept

\* What arrives by mistake is float.
LEMMA DonationSound ==
    ASSUME NEW p, NEW given \in Nat, NEW float \in Int,
           NEW at \in Nat, Sound(p, given, float, at)
    PROVE  Sound([p EXCEPT !.balance = @ + 1], given + 1, float + 1, at)
  <1> DEFINE q == [p EXCEPT !.balance = p.balance + 1]
  <1>1. p \in Plan /\ p.balance + 1 \in Int
    BY Numbers DEF Sound
  <1>2. q \in Plan
    BY <1>1 DEF Plan
  <1>3. /\ q.balance = p.balance + 1
        /\ q.outstandingPrincipal = p.outstandingPrincipal
        /\ q.totalCollected = p.totalCollected /\ q.refundCredit = p.refundCredit
        /\ q.feesOutstanding = p.feesOutstanding /\ q.feesPaid = p.feesPaid
        /\ q.markEscrow = p.markEscrow /\ q.forwarded = p.forwarded
        /\ q.keepers = p.keepers /\ q.haltStartedAt = p.haltStartedAt
    BY <1>1 DEF Plan
  <1> HIDE DEF q
  <1>4. Sound(q, given + 1, float + 1, at)
    <2>1. /\ p.outstandingPrincipal \in Nat /\ p.totalCollected \in Nat
          /\ p.feesOutstanding \in Nat /\ p.feesPaid \in Nat
          /\ p.refundCredit \in Nat /\ p.forwarded \in Nat
          /\ p.markEscrow \in Nat /\ p.keepers \in Nat /\ p.balance \in Int
          /\ Principal \in Nat /\ MarkEscrowFor \in Nat
      BY Numbers
    <2>2. /\ p.outstandingPrincipal <= Principal
          /\ p.totalCollected + p.refundCredit
               = (Principal - p.outstandingPrincipal) + p.feesPaid
          /\ p.balance + p.forwarded + p.keepers
               = p.totalCollected + p.refundCredit + MarkEscrowFor + given
      BY DEF Sound, Identities
    <2>3. q.balance + q.forwarded + q.keepers
            = q.totalCollected + q.refundCredit + MarkEscrowFor + (given + 1)
      <3>1. q.balance + q.forwarded + q.keepers
              = (p.balance + p.forwarded + p.keepers) + 1
        BY <1>3, <2>1
      <3>2. q.totalCollected + q.refundCredit + MarkEscrowFor + (given + 1)
              = (p.totalCollected + p.refundCredit + MarkEscrowFor + given) + 1
        BY <1>3, <2>1
      <3> QED BY <2>2, <3>1, <3>2
    <2>4. q.balance = q.markEscrow + (float + 1)
      BY <1>3, <2>1 DEF Sound
    <2> QED BY <1>2, <1>3, <2>2, <2>3, <2>4 DEF Sound, Identities
  <1> QED BY <1>4 DEF q
=============================================================================
