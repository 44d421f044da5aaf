----------------------- MODULE InstallmentPlanProofs -----------------------
(***************************************************************************)
(* InstallmentPlan keeps its books, for any number of installments, any    *)
(* amounts and windows, and any number of outages, refunds and donations.  *)
(* The four properties of the books are inductive together: the type and   *)
(* the order of the clocks let each handler be applied to the state, and   *)
(* the lemmas of PlanLogicProofs say what it leaves.                       *)
(***************************************************************************)
EXTENDS MCInstallmentPlan, PlanLogicProofs

IInv ==
    /\ TypeOK
    /\ ValueConserved
    /\ OneLateFee
    /\ EscrowIsTheOnlyFloat

Float == donated - swept

WorldOK ==
    /\ now \in Nat
    /\ rail \in [paused : BOOLEAN, blacklisted : BOOLEAN, used : SUBSET Index]
    /\ outages \in Nat /\ donated \in Nat /\ swept \in Nat
    /\ swept <= donated

\* The invariant is the soundness of the plan in a well-typed world.
LEMMA IInvIsSoundness == IInv <=> WorldOK /\ Sound(plan, donated, Float, now)
  BY DEF IInv, TypeOK, ValueConserved, OneLateFee, EscrowIsTheOnlyFloat,
         WorldOK, Sound, Identities, Float

LEMMA IInvIsSoundnessNext ==
    IInv' <=> WorldOK' /\ Sound(plan', donated', Float', now')
  BY DEF IInv, TypeOK, ValueConserved, OneLateFee, EscrowIsTheOnlyFloat,
         WorldOK, Sound, Identities, Float

LEMMA InitIInv == Init => IInv
  <1> SUFFICES ASSUME Init PROVE IInv
    OBVIOUS
  <1>1. NewPlan \in Plan
    BY EscrowIsNat, TermsAssumption
       DEF NewPlan, Plan, PlanState, InstallmentStatus
  <1> USE DEF Init
  <1>2. TypeOK
    BY <1>1, InputsAssumption DEF TypeOK, NewPlan
  <1>3. ValueConserved /\ EscrowIsTheOnlyFloat
    BY EscrowIsNat, TermsAssumption DEF ValueConserved, EscrowIsTheOnlyFloat, NewPlan
  <1>4. OneLateFee
    BY DEF OneLateFee, NewPlan
  <1> QED BY <1>2, <1>3, <1>4 DEF IInv

\* A call that changes only the plan and the rail keeps the invariant when the
\* plan it leaves is sound.
LEMMA CallKeepsIInv ==
    ASSUME WorldOK, UNCHANGED world,
           rail' \in [paused : BOOLEAN, blacklisted : BOOLEAN, used : SUBSET Index],
           Sound(plan', donated, Float, now)
    PROVE  IInv'
  <1>1. now' = now /\ outages' = outages /\ donated' = donated /\ swept' = swept
    BY DEF world
  <1>2. WorldOK' /\ Float' = Float
    BY <1>1 DEF WorldOK, Float
  <1>3. Sound(plan', donated', Float', now')
    BY <1>1, <1>2
  <1> QED BY <1>2, <1>3, IInvIsSoundnessNext

LEMMA RailAfterOK ==
    ASSUME NEW r \in [paused : BOOLEAN, blacklisted : BOOLEAN, used : SUBSET Index],
           NEW i \in Index, NEW reason
    PROVE  RailAfter(r, i, reason)
             \in [paused : BOOLEAN, blacklisted : BOOLEAN, used : SUBSET Index]
  BY DEF RailAfter

LEMMA NextIInv == IInv /\ [Next]_vars => IInv'
  <1> SUFFICES ASSUME IInv, [Next]_vars PROVE IInv'
    OBVIOUS
  <1>a. WorldOK /\ Sound(plan, donated, Float, now)
    BY IInvIsSoundness
  <1>b. donated \in Nat /\ Float \in Int /\ now \in Nat /\ now \in 0 .. now
    BY <1>a DEF WorldOK, Float
  <1>c. rail \in [paused : BOOLEAN, blacklisted : BOOLEAN, used : SUBSET Index]
    BY <1>a DEF WorldOK
  <1>1. ASSUME NEW i \in Index, Collect(i) PROVE IInv'
    <2>1. PICK stale \in StaleSets, purse \in Purses :
            /\ CanCollect(plan, i, now)
            /\ plan' = Collected(plan, i, now, Diagnose(i, now, rail, stale, purse))
            /\ rail' = RailAfter(rail, i, Diagnose(i, now, rail, stale, purse))
            /\ UNCHANGED world
      BY <1>1 DEF Collect
    <2>2. Sound(plan', donated, Float, now)
      BY <1>a, <1>b, <2>1, CollectedSound
    <2> QED BY <1>a, <1>c, <2>1, <2>2, RailAfterOK, CallKeepsIInv
  <1>2. ASSUME NEW i \in Index, NEW j \in Index, CollectBatch(i, j) PROVE IInv'
    <2>1. PICK reason1, reason2 :
            /\ CanCollect(plan, i, now)
            /\ CanCollect(Collected(plan, i, now, reason1), j, now)
            /\ plan' = Collected(Collected(plan, i, now, reason1), j, now, reason2)
            /\ rail' = RailAfter(RailAfter(rail, i, reason1), j, reason2)
            /\ UNCHANGED world
      BY <1>2 DEF CollectBatch
    <2>2. Sound(Collected(plan, i, now, reason1), donated, Float, now)
      BY <1>a, <1>b, <2>1, CollectedSound
    <2>3. Sound(plan', donated, Float, now)
      BY <1>b, <2>1, <2>2, CollectedSound
    <2>4. rail' \in [paused : BOOLEAN, blacklisted : BOOLEAN, used : SUBSET Index]
      BY <1>c, <2>1, RailAfterOK
    <2> QED BY <1>a, <2>1, <2>3, <2>4, CallKeepsIInv
  <1>3. ASSUME NEW i \in Index, MarkMissed(i) \/ MarkExpired(i) PROVE IInv'
    <2>1. {"Missed", "Expired"} \subseteq InstallmentStatus
      BY DEF InstallmentStatus
    <2>2. /\ plan' = Marked(plan, i, "Missed") \/ plan' = Marked(plan, i, "Expired")
          /\ UNCHANGED <<rail, world>>
      BY <1>3 DEF MarkMissed, MarkExpired
    <2>3. Sound(plan', donated, Float, now)
      BY <1>a, <1>b, <2>1, <2>2, MarkedSound
    <2> QED BY <1>a, <1>c, <2>2, <2>3, CallKeepsIInv
  <1>4. ASSUME NEW i \in Index, NoteCancellation(i) PROVE IInv'
    <2>1. plan' = CancellationNoted(plan, i) /\ UNCHANGED <<rail, world>>
      BY <1>4 DEF NoteCancellation
    <2>2. Sound(plan', donated, Float, now)
      BY <1>a, <1>b, <2>1, CancellationNotedSound
    <2> QED BY <1>a, <1>c, <2>1, <2>2, CallKeepsIInv
  <1>5. ASSUME NEW i \in Index, CancelAuthorization(i) PROVE IInv'
    <2>1. /\ rail' = [rail EXCEPT !.used = @ \cup {i}]
          /\ plan' = plan /\ UNCHANGED world
      BY <1>5 DEF CancelAuthorization
    <2>2. rail' \in [paused : BOOLEAN, blacklisted : BOOLEAN, used : SUBSET Index]
      BY <1>c, <2>1
    <2> QED BY <1>a, <2>1, <2>2, CallKeepsIInv
  <1>6. ASSUME NEW amount \in RepayAmounts, Repay(amount) PROVE IInv'
    <2>1. plan' = Repaid(plan, amount, now) /\ UNCHANGED <<rail, world>>
      BY <1>6 DEF Repay
    <2>2. amount \in Nat
      BY InputsAssumption
    <2>3. Sound(plan', donated, Float, now)
      BY <1>a, <1>b, <2>1, <2>2, RepaidSound
    <2> QED BY <1>a, <1>c, <2>1, <2>3, CallKeepsIInv
  <1>7. ASSUME NEW amount \in RefundAmounts, CreditRefund(amount) PROVE IInv'
    <2>1. plan' = Refunded(plan, amount, now) /\ UNCHANGED <<rail, world>>
      BY <1>7 DEF CreditRefund
    <2>2. amount \in Nat
      BY InputsAssumption
    <2>3. Sound(plan', donated, Float, now)
      BY <1>a, <1>b, <2>1, <2>2, RefundedSound
    <2> QED BY <1>a, <1>c, <2>1, <2>3, CallKeepsIInv
  <1>8. ASSUME Revalidate PROVE IInv'
    <2>1. PICK stale \in StaleSets :
            plan' = Revalidated(plan, stale, now) /\ UNCHANGED <<rail, world>>
      BY <1>8 DEF Revalidate
    <2>2. Sound(plan', donated, Float, now)
      BY <1>a, <1>b, <2>1, RevalidatedSound
    <2> QED BY <1>a, <1>c, <2>1, <2>2, CallKeepsIInv
  <1>9. ASSUME Halt PROVE IInv'
    <2>1. plan' = EnterHalt(plan, now) /\ UNCHANGED <<rail, world>>
      BY <1>9 DEF Halt
    <2>2. Sound(plan', donated, Float, now)
      BY <1>a, <1>b, <2>1, EnterHaltSound
    <2> QED BY <1>a, <1>c, <2>1, <2>2, CallKeepsIInv
  <1>10. ASSUME Resume PROVE IInv'
    <2>1. plan' = Resumed(plan, now) /\ UNCHANGED <<rail, world>>
      BY <1>10 DEF Resume
    <2>2. plan.haltStartedAt <= now
      BY <1>a DEF Sound
    <2>3. Sound(plan', donated, Float, now)
      BY <1>a, <1>b, <2>1, <2>2, ResumedSound
    <2> QED BY <1>a, <1>c, <2>1, <2>3, CallKeepsIInv
  <1>11. ASSUME ChargeOff PROVE IInv'
    <2>1. plan' = ChargedOff(plan) /\ UNCHANGED <<rail, world>>
      BY <1>11 DEF ChargeOff
    <2>2. Sound(plan', donated, Float, now)
      BY <1>a, <1>b, <2>1, ChargedOffSound
    <2> QED BY <1>a, <1>c, <2>1, <2>2, CallKeepsIInv
  <1>12. ASSUME Sweep PROVE IInv'
    <2>1. /\ plan.balance > plan.markEscrow /\ plan' = Swept(plan)
          /\ swept' = swept + (plan.balance - plan.markEscrow)
          /\ UNCHANGED <<now, rail, outages, donated>>
      BY <1>12 DEF Sweep
    <2>2. Sound(plan', donated, 0, now)
      BY <1>a, <1>b, <2>1, SweptSound
    <2>3. swept' = donated
      <3>1. plan.balance = plan.markEscrow + Float /\ plan.markEscrow \in Nat
        BY <1>a DEF Sound, Plan
      <3> QED BY <1>a, <2>1, <3>1 DEF WorldOK, Float
    <2>4. WorldOK' /\ Float' = 0
      BY <1>a, <2>1, <2>3 DEF WorldOK, Float
    <2>5. Sound(plan', donated', Float', now')
      BY <2>1, <2>2, <2>4
    <2> QED BY <2>4, <2>5, IInvIsSoundnessNext
  <1>13. ASSUME Tick PROVE IInv'
    <2>1. now' = now + 1 /\ UNCHANGED <<plan, rail, outages, donated, swept>>
      BY <1>13 DEF Tick
    <2>2. WorldOK' /\ Float' = Float
      BY <1>a, <2>1 DEF WorldOK, Float
    <2>3. Sound(plan, donated, Float, now + 1)
      BY <1>a, <1>b DEF Sound, Plan
    <2> QED BY <2>1, <2>2, <2>3, IInvIsSoundnessNext
  <1>14. ASSUME Pause PROVE IInv'
    <2>1. /\ rail' = [rail EXCEPT !.paused = TRUE] /\ outages' = outages + 1
          /\ UNCHANGED <<plan, now, donated, swept>>
      BY <1>14 DEF Pause
    <2>2. rail' \in [paused : BOOLEAN, blacklisted : BOOLEAN, used : SUBSET Index]
      BY <1>c, <2>1
    <2>3. WorldOK' /\ Float' = Float
      BY <1>a, <2>1, <2>2 DEF WorldOK, Float
    <2> QED BY <1>a, <2>1, <2>3, IInvIsSoundnessNext
  <1>15. ASSUME Unpause \/ SetBlacklisted PROVE IInv'
    <2>1. UNCHANGED <<plan, world>>
      BY <1>15 DEF Unpause, SetBlacklisted
    <2>2. rail' \in [paused : BOOLEAN, blacklisted : BOOLEAN, used : SUBSET Index]
      BY <1>15, <1>c DEF Unpause, SetBlacklisted
    <2> QED BY <1>a, <2>1, <2>2, CallKeepsIInv
  <1>16. ASSUME Donate PROVE IInv'
    <2>1. /\ donated' = donated + 1 /\ plan' = [plan EXCEPT !.balance = @ + 1]
          /\ UNCHANGED <<now, rail, outages, swept>>
      BY <1>16 DEF Donate
    <2>2. Sound(plan', donated + 1, Float + 1, now)
      BY <1>a, <1>b, <2>1, DonationSound
    <2>3. WorldOK' /\ Float' = Float + 1
      BY <1>a, <2>1 DEF WorldOK, Float
    <2> QED BY <2>1, <2>2, <2>3, IInvIsSoundnessNext
  <1>17. ASSUME UNCHANGED vars PROVE IInv'
    <2>1. UNCHANGED <<plan, rail, world>>
      BY <1>17 DEF vars, world
    <2> QED BY <1>a, <1>c, <2>1, CallKeepsIInv
  <1> QED BY <1>1, <1>2, <1>3, <1>4, <1>5, <1>6, <1>7, <1>8, <1>9, <1>10,
             <1>11, <1>12, <1>13, <1>14, <1>15, <1>16, <1>17 DEF Next

LEMMA BooksInvariant == Spec => []IInv
  BY InitIInv, NextIInv, PTL DEF Spec

---------------------------------------------------------------------------

\* The storage and the clocks hold values of their types after any calls.
THEOREM PlanTypes == Spec => []TypeOK
  BY BooksInvariant, PTL DEF IInv

\* No sequence of collections, repayments, refunds, bounties and sweeps makes
\* the debt, the collected total and the token's balance disagree.
THEOREM PlanConservesValue == Spec => []ValueConserved
  BY BooksInvariant, PTL DEF IInv

\* The token balance is the crank escrow and stray value: the escrow is always
\* backed, and nothing the borrower paid is ever held by the plan.
THEOREM PlanHoldsNoFloat == Spec => []EscrowIsTheOnlyFloat
  BY BooksInvariant, PTL DEF IInv

\* A plan charges one late fee, whatever is missed, expired or cancelled.
THEOREM PlanChargesOneLateFee == Spec => []OneLateFee
  BY BooksInvariant, PTL DEF IInv

-----------------------------------------------------------------------------
(***************************************************************************)
(* What a plan settles stays settled, for any schedule, amounts, windows   *)
(* and history of calls: the debt is retired once, an outcome is never     *)
(* rewritten, the escrow pays for the marks still to be made, and a plan   *)
(* implements what the funding book assumes of one it has fronted.         *)
(*                                                                         *)
(* Fits(p) is what makes the books inductive once a plan is Sound.  It     *)
(* joins the statuses to the money: what is retired bounds the bounties    *)
(* paid, what is cleared bounds the money that arrived, and a settled debt *)
(* has no live check.  Within a call it holds up to the last step, which   *)
(* settles the state; Tidy(p) is the part that holds all through.          *)
(***************************************************************************)

Retired(p) == Index \ Live(p)

BountiesAllowed(p) == Cardinality(Retired(p)) * BountyCap

Tidy(p) ==
    /\ p.state # "Cancelled"
    /\ p.state \in {"Repaid", "Refunded"} => PayoffAmount(p) = 0 /\ p.markEscrow = 0
    /\ p.state = "Defaulted" => p.markEscrow = 0
    /\ p.state = "SettledWithFeeOutstanding" => p.outstandingPrincipal = 0
    /\ p.state # "Defaulted" => p.markEscrow >= ReservedForMarks(p)
    /\ p.feesPaid > 0 => p.outstandingPrincipal = 0
    /\ p.refundCredit = 0 => \A i \in Index : p.status[i] # "Refunded"
    /\ p.state # "Defaulted" /\ p.outstandingPrincipal > 0
         => FaceValue(Cleared(p)) <= p.totalCollected + p.refundCredit
    /\ p.keepers + p.markEscrow <= MarkEscrowFor + BountiesAllowed(p)

Fits(p) ==
    /\ Tidy(p)
    /\ p.outstandingPrincipal = 0 => Live(p) = {}
    /\ p.state = "SettledWithFeeOutstanding" => p.feesOutstanding > 0

\* What no call undoes: a terminal state, an outcome, a payment.
Onward(p, q) ==
    /\ IsTerminal(p.state) => q.state = p.state
    /\ \A i \in Index : p.status[i] \in Outcomes => q.status[i] = p.status[i]
    /\ q.outstandingPrincipal <= p.outstandingPrincipal
    /\ q.forwarded >= p.forwarded

LEMMA OnwardTransitive ==
    ASSUME NEW p \in Plan, NEW q \in Plan, NEW r \in Plan, Onward(p, q), Onward(q, r)
    PROVE  Onward(p, r)
  BY DEF Onward, Plan

---------------------------------------------------------------------------
(* Counting checks. *)

LEMMA IndexIsFinite ==
    IsFiniteSet(Index) /\ Cardinality(Index) = InstallmentCount
  BY FS_Interval, TermsAssumption DEF Index

LEMMA SubsetsAreFinite ==
    ASSUME NEW S \in SUBSET Index
    PROVE  IsFiniteSet(S) /\ Cardinality(S) \in Nat
  BY IndexIsFinite, FS_Subset, FS_CardinalityType

LEMMA ProductIsMonotone ==
    ASSUME NEW a \in Nat, NEW b \in Nat, NEW c \in Nat, a <= b
    PROVE  a * c <= b * c
  <1>1. b * c = a * c + (b - a) * c /\ (b - a) * c \in Nat /\ a * c \in Nat
    BY ProductIsNat
  <1> QED BY <1>1

LEMMA ProductOfOneMore ==
    ASSUME NEW a \in Nat, NEW b \in Nat, NEW c \in Nat, a + 1 <= b
    PROVE  a * c + c <= b * c
  <1>1. (a + 1) * c = a * c + c
    OBVIOUS
  <1>2. (a + 1) * c <= b * c
    BY ProductIsMonotone
  <1> QED BY <1>1, <1>2

LEMMA LiveCounts ==
    ASSUME NEW p, NEW q
    PROVE  /\ Cardinality(Live(p)) \in Nat /\ Cardinality(Retired(p)) \in Nat
           /\ ReservedForMarks(p) \in Nat /\ BountiesAllowed(p) \in Nat
           /\ Live(q) \subseteq Live(p)
                => /\ Cardinality(Live(q)) <= Cardinality(Live(p))
                   /\ Cardinality(Retired(p)) <= Cardinality(Retired(q))
  <1>1. /\ Live(p) \in SUBSET Index /\ Retired(p) \in SUBSET Index
        /\ Live(q) \in SUBSET Index /\ Retired(q) \in SUBSET Index
    BY DEF Live, Retired
  <1>2. /\ Cardinality(Live(p)) \in Nat /\ Cardinality(Retired(p)) \in Nat
        /\ IsFiniteSet(Live(p)) /\ IsFiniteSet(Retired(q))
    BY <1>1, SubsetsAreFinite
  <1>3. ReservedForMarks(p) \in Nat /\ BountiesAllowed(p) \in Nat
    BY <1>2, ProductIsNat, ParamsAssumption DEF ReservedForMarks, BountiesAllowed
  <1>4. Live(q) \subseteq Live(p) => Retired(p) \subseteq Retired(q)
    BY DEF Retired
  <1> QED BY <1>2, <1>3, <1>4, FS_Subset

\* Fewer live checks reserve less escrow and allow more bounties.
LEMMA FewerLive ==
    ASSUME NEW p, NEW q, Live(q) \subseteq Live(p)
    PROVE  /\ ReservedForMarks(q) <= ReservedForMarks(p)
           /\ BountiesAllowed(p) <= BountiesAllowed(q)
  <1>1. /\ Cardinality(Live(p)) \in Nat /\ Cardinality(Retired(p)) \in Nat
        /\ Cardinality(Live(q)) \in Nat /\ Cardinality(Retired(q)) \in Nat
        /\ Cardinality(Live(q)) <= Cardinality(Live(p))
        /\ Cardinality(Retired(p)) <= Cardinality(Retired(q))
    BY LiveCounts
  <1> QED BY <1>1, ProductIsMonotone, ParamsAssumption
          DEF ReservedForMarks, BountiesAllowed

\* A check that leaves the live ones frees its mark bounty and allows one
\* collection bounty.
LEMMA OneFewerLive ==
    ASSUME NEW p, NEW q, NEW i \in Live(p), Live(q) \subseteq Live(p) \ {i}
    PROVE  /\ ReservedForMarks(q) + MarkBounty <= ReservedForMarks(p)
           /\ BountiesAllowed(p) + BountyCap <= BountiesAllowed(q)
  <1>1. /\ Live(p) \in SUBSET Index /\ Retired(q) \in SUBSET Index
        /\ Live(q) \in SUBSET Index /\ Retired(p) \in SUBSET Index
        /\ i \in Index /\ i \in Retired(q) /\ i \notin Retired(p)
        /\ Retired(p) \subseteq Retired(q) \ {i}
    BY DEF Live, Retired
  <1>2. /\ IsFiniteSet(Live(p)) /\ IsFiniteSet(Retired(q))
        /\ Cardinality(Live(p)) \in Nat /\ Cardinality(Retired(q)) \in Nat
        /\ Cardinality(Live(q)) \in Nat /\ Cardinality(Retired(p)) \in Nat
    BY <1>1, SubsetsAreFinite
  <1>3. /\ Cardinality(Live(p) \ {i}) = Cardinality(Live(p)) - 1
        /\ Cardinality(Retired(q) \ {i}) = Cardinality(Retired(q)) - 1
        /\ IsFiniteSet(Live(p) \ {i}) /\ IsFiniteSet(Retired(q) \ {i})
    BY <1>1, <1>2, FS_RemoveElement
  <1>4. /\ Cardinality(Live(q)) <= Cardinality(Live(p) \ {i})
        /\ Cardinality(Retired(p)) <= Cardinality(Retired(q) \ {i})
    BY <1>1, <1>3, FS_Subset
  <1>5. /\ Cardinality(Live(q)) + 1 <= Cardinality(Live(p))
        /\ Cardinality(Retired(p)) + 1 <= Cardinality(Retired(q))
    BY <1>2, <1>3, <1>4
  <1> QED BY <1>2, <1>5, ProductOfOneMore, ParamsAssumption
          DEF ReservedForMarks, BountiesAllowed

\* The face values of the strip add up to the principal.
LEMMA FaceValueIsBounded ==
    ASSUME NEW S \in SUBSET Index
    PROVE  FaceValue(S) \in Nat /\ FaceValue(S) <= Principal
  <1> DEFINE each == Principal \div InstallmentCount
             rest == Principal % InstallmentCount
  <1>1. each \in Nat /\ rest \in Nat /\ Principal = InstallmentCount * each + rest
    BY TermsAssumption
  <1> HIDE DEF each, rest
  <1>2. Cardinality(S) \in Nat /\ Cardinality(S) <= InstallmentCount
    BY IndexIsFinite, SubsetsAreFinite, FS_Subset
  <1>3. /\ Cardinality(S) * each <= InstallmentCount * each
        /\ Cardinality(S) * each \in Nat
    BY <1>1, <1>2, ProductIsMonotone, ProductIsNat, TermsAssumption
  <1>4. FaceValue(S) = Cardinality(S) * each + (IF 0 \in S THEN rest ELSE 0)
    BY DEF FaceValue, each, rest
  <1>5. InstallmentCount * each \in Nat
    BY <1>1, ProductIsNat, TermsAssumption
  <1> QED BY <1>1, <1>3, <1>4, <1>5, TermsAssumption

LEMMA WholeFaceValue == FaceValue(Index) = Principal
  <1> DEFINE each == Principal \div InstallmentCount
             rest == Principal % InstallmentCount
  <1>1. each \in Nat /\ rest \in Nat /\ Principal = InstallmentCount * each + rest
    BY TermsAssumption
  <1>2. 0 \in Index
    BY TermsAssumption DEF Index
  <1> QED BY <1>1, <1>2, IndexIsFinite DEF FaceValue

LEMMA FaceValueOfOneMore ==
    ASSUME NEW S \in SUBSET Index, NEW i \in Index, i \notin S
    PROVE  FaceValue(S \cup {i}) = FaceValue(S) + InstallmentAmount(i)
  <1> DEFINE each == Principal \div InstallmentCount
             rest == Principal % InstallmentCount
  <1>1. each \in Nat /\ rest \in Nat
    BY TermsAssumption, QuotientIsNat
  <1> HIDE DEF each, rest
  <1>2. Cardinality(S \cup {i}) = Cardinality(S) + 1 /\ Cardinality(S) \in Nat
    BY SubsetsAreFinite, FS_AddElement
  <1>3. (Cardinality(S) + 1) * each = Cardinality(S) * each + each
        /\ Cardinality(S) * each \in Nat
    BY <1>1, <1>2, ProductIsNat
  <1>4. FaceValue(S \cup {i})
          = (Cardinality(S) + 1) * each + (IF 0 \in S \cup {i} THEN rest ELSE 0)
    BY <1>2 DEF FaceValue, each, rest
  <1>5. FaceValue(S) = Cardinality(S) * each + (IF 0 \in S THEN rest ELSE 0)
    BY DEF FaceValue, each, rest
  <1>6. InstallmentAmount(i) = each + (IF i = 0 THEN rest ELSE 0)
    BY DEF InstallmentAmount, each, rest
  <1> QED BY <1>1, <1>3, <1>4, <1>5, <1>6

---------------------------------------------------------------------------
(* What each operator does to the fields Fits reads. *)

\* Everything but the state, the statuses, the clocks and the token balance.
SameMoney(p, q) ==
    /\ q.outstandingPrincipal = p.outstandingPrincipal
    /\ q.feesOutstanding = p.feesOutstanding /\ q.feesPaid = p.feesPaid
    /\ q.totalCollected = p.totalCollected /\ q.refundCredit = p.refundCredit
    /\ q.forwarded = p.forwarded
    /\ q.markEscrow = p.markEscrow /\ q.keepers = p.keepers

LEMMA TransitionEffect ==
    ASSUME NEW p \in Plan, NEW next
    PROVE  /\ SameMoney(p, Transition(p, next))
           /\ Transition(p, next).status = p.status
           /\ Transition(p, next).state = IF IsTerminal(p.state) THEN p.state ELSE next
  BY DEF Transition, SameMoney, Plan

LEMMA ResolveEffect ==
    ASSUME NEW p \in Plan, NEW resolution
    PROVE  /\ SameMoney(p, ResolveOutstanding(p, resolution))
           /\ ResolveOutstanding(p, resolution).state = p.state
           /\ \A i \in Index : ResolveOutstanding(p, resolution).status[i]
                = IF i \in Live(p) THEN resolution ELSE p.status[i]
  BY DEF ResolveOutstanding, SameMoney, Plan

LEMMA ForwardEffect ==
    ASSUME NEW p \in Plan, NEW amount
    PROVE  LET q == Forward(p, amount)
           IN  /\ q.state = p.state /\ q.status = p.status
               /\ q.outstandingPrincipal = p.outstandingPrincipal
               /\ q.feesOutstanding = p.feesOutstanding /\ q.feesPaid = p.feesPaid
               /\ q.totalCollected = p.totalCollected /\ q.refundCredit = p.refundCredit
               /\ q.markEscrow = p.markEscrow /\ q.keepers = p.keepers
               /\ q.forwarded = p.forwarded + amount
  BY DEF Forward, Plan

LEMMA PayKeeperEffect ==
    ASSUME NEW p \in Plan, NEW amount
    PROVE  LET q == PayKeeper(p, amount)
           IN  /\ q.state = p.state /\ q.status = p.status
               /\ q.outstandingPrincipal = p.outstandingPrincipal
               /\ q.feesOutstanding = p.feesOutstanding /\ q.feesPaid = p.feesPaid
               /\ q.totalCollected = p.totalCollected /\ q.refundCredit = p.refundCredit
               /\ q.markEscrow = p.markEscrow /\ q.forwarded = p.forwarded
               /\ q.keepers = p.keepers + amount
  BY DEF PayKeeper, Plan

LEMMA ReleaseEffect ==
    ASSUME NEW p \in Plan
    PROVE  LET q == ReleaseEscrow(p)
           IN  /\ q.state = p.state /\ q.status = p.status
               /\ q.outstandingPrincipal = p.outstandingPrincipal
               /\ q.feesOutstanding = p.feesOutstanding /\ q.feesPaid = p.feesPaid
               /\ q.totalCollected = p.totalCollected /\ q.refundCredit = p.refundCredit
               /\ q.keepers = p.keepers
               /\ q.markEscrow = 0 /\ q.forwarded = p.forwarded + p.markEscrow
  <1>1. [p EXCEPT !.markEscrow = 0] \in Plan
    BY DEF Plan
  <1> QED BY <1>1, ForwardEffect DEF ReleaseEscrow, Plan

\* A bounty from the escrow moves at most what the escrow holds to the keeper.
LEMMA PayFromEscrowEffect ==
    ASSUME NEW p \in Plan, NEW amount \in Nat
    PROVE  LET q == PayFromEscrow(p, amount)
               bounty == Lesser(amount, p.markEscrow)
           IN  /\ q.state = p.state /\ q.status = p.status
               /\ q.outstandingPrincipal = p.outstandingPrincipal
               /\ q.feesOutstanding = p.feesOutstanding /\ q.feesPaid = p.feesPaid
               /\ q.totalCollected = p.totalCollected /\ q.refundCredit = p.refundCredit
               /\ q.forwarded = p.forwarded
               /\ q.markEscrow = p.markEscrow - bounty
               /\ q.keepers = p.keepers + bounty
  <1> DEFINE bounty == Lesser(amount, p.markEscrow)
             r == [p EXCEPT !.markEscrow = @ - bounty]
  <1>1. bounty \in Nat /\ p.markEscrow - bounty \in Nat
    BY DEF Lesser, Plan
  <1>2. PayFromEscrow(p, amount) = PayKeeper(r, bounty)
    BY DEF PayFromEscrow
  <1> HIDE DEF bounty
  <1>3. r \in Plan
    BY <1>1 DEF Plan
  <1>4. /\ r.state = p.state /\ r.status = p.status
        /\ r.outstandingPrincipal = p.outstandingPrincipal
        /\ r.feesOutstanding = p.feesOutstanding /\ r.feesPaid = p.feesPaid
        /\ r.totalCollected = p.totalCollected /\ r.refundCredit = p.refundCredit
        /\ r.forwarded = p.forwarded
        /\ r.markEscrow = p.markEscrow - bounty /\ r.keepers = p.keepers
    BY DEF Plan
  <1> HIDE DEF r
  <1>5. LET q == PayKeeper(r, bounty)
        IN  /\ q.state = r.state /\ q.status = r.status
            /\ q.outstandingPrincipal = r.outstandingPrincipal
            /\ q.feesOutstanding = r.feesOutstanding /\ q.feesPaid = r.feesPaid
            /\ q.totalCollected = r.totalCollected /\ q.refundCredit = r.refundCredit
            /\ q.markEscrow = r.markEscrow /\ q.forwarded = r.forwarded
            /\ q.keepers = r.keepers + bounty
    BY <1>3, PayKeeperEffect
  <1> QED BY <1>2, <1>4, <1>5 DEF bounty

\* The waterfall: fees are retired only once the principal is, and money is
\* turned away only when nothing is owed any more.
LEMMA AccountEffect ==
    ASSUME NEW p \in Plan, NEW gross \in Nat
    PROVE  LET q == Account(p, gross)
           IN  /\ q.state = p.state /\ q.status = p.status
               /\ q.outstandingPrincipal <= p.outstandingPrincipal
               /\ q.feesPaid > p.feesPaid => q.outstandingPrincipal = 0
               /\ q.feesOutstanding <= p.feesOutstanding
               /\ q.feesPaid >= p.feesPaid
               /\ q.outstandingPrincipal > 0
                    => q.totalCollected = p.totalCollected + gross
               /\ q.refundCredit = p.refundCredit /\ q.forwarded = p.forwarded
               /\ q.markEscrow = p.markEscrow /\ q.keepers = p.keepers
  <1> DEFINE applied == Applied(p, gross)
             toPrincipal == Lesser(applied, p.outstandingPrincipal)
             toFees == applied - toPrincipal
             q == [p EXCEPT !.outstandingPrincipal = @ - toPrincipal,
                            !.feesOutstanding = @ - toFees,
                            !.feesPaid = @ + toFees,
                            !.totalCollected = @ + applied,
                            !.balance = @ + applied]
  <1>1. /\ p.outstandingPrincipal \in Nat /\ p.feesOutstanding \in Nat
        /\ p.feesPaid \in Nat /\ p.totalCollected \in Nat
    BY DEF Plan
  <1>2. /\ applied \in Nat /\ toPrincipal \in Nat /\ toFees \in Nat
        /\ toPrincipal <= p.outstandingPrincipal
        /\ toFees > 0 => toPrincipal = p.outstandingPrincipal
        /\ toPrincipal < p.outstandingPrincipal => applied = gross
    BY <1>1 DEF Applied, PayoffAmount, Lesser
  <1>3. Account(p, gross) = q
    BY DEF Account
  <1> HIDE DEF applied, toPrincipal, toFees
  <1>4. /\ q.state = p.state /\ q.status = p.status
        /\ q.outstandingPrincipal = p.outstandingPrincipal - toPrincipal
        /\ q.feesOutstanding = p.feesOutstanding - toFees
        /\ q.feesPaid = p.feesPaid + toFees
        /\ q.totalCollected = p.totalCollected + applied
        /\ q.refundCredit = p.refundCredit /\ q.forwarded = p.forwarded
        /\ q.markEscrow = p.markEscrow /\ q.keepers = p.keepers
    BY DEF Plan
  <1> HIDE DEF q
  <1> QED BY <1>1, <1>2, <1>3, <1>4

---------------------------------------------------------------------------
(* Settling the state, the last step of every inflow. *)

LEMMA LiveMeans ==
    ASSUME NEW p, NEW i \in Index
    PROVE  /\ i \in Live(p) <=> p.status[i] \notin Outcomes /\ p.status[i] \in InstallmentStatus
           /\ i \in Cleared(p) <=> p.status[i] = "Cleared"
           /\ i \in Cleared(p) => i \notin Live(p)
  BY DEF Live, Cleared, Outcomes, InstallmentStatus

\* A plan that owes no principal: whatever was live is resolved, and the state
\* says whether a fee is left.
LEMMA AfterInflowFits ==
    ASSUME NEW p, NEW given \in Nat, NEW float \in Int, NEW at \in Nat,
           Sound(p, given, float, at), Tidy(p), NEW time
    PROVE  Fits(AfterInflow(p, time)) /\ Onward(p, AfterInflow(p, time))
  <1> DEFINE resolved == ResolveOutstanding(p, "Cleared")
             q == AfterInflow(p, time)
  <1>1. p \in Plan /\ resolved \in Plan
    BY ResolveSound DEF Sound, InstallmentStatus
  <1>2. /\ SameMoney(p, resolved) /\ resolved.state = p.state
        /\ \A i \in Index : resolved.status[i]
             = IF i \in Live(p) THEN "Cleared" ELSE p.status[i]
    BY <1>1, ResolveEffect
  <1>3. Live(resolved) = {}
    BY <1>2 DEF Live
  <1>4. \A i \in Index : p.status[i] \in Outcomes => resolved.status[i] = p.status[i]
    BY <1>2, LiveMeans
  <1>n. /\ p.outstandingPrincipal \in Nat /\ p.feesOutstanding \in Nat
        /\ p.markEscrow \in Nat /\ p.keepers \in Nat /\ p.forwarded \in Nat
        /\ p.feesPaid \in Nat
    BY <1>1 DEF Plan
  <1> HIDE DEF resolved
  <1>5. CASE p.outstandingPrincipal = 0 /\ p.feesOutstanding = 0
    <2> DEFINE r == Transition(resolved, "Repaid")
    <2>1. q = ReleaseEscrow(r)
      BY <1>5 DEF AfterInflow, resolved
    <2>2. /\ SameMoney(resolved, r) /\ r.status = resolved.status /\ r \in Plan
          /\ r.state = IF IsTerminal(p.state) THEN p.state ELSE "Repaid"
      <3>1. r \in Plan
        BY <1>1 DEF Transition, Plan, PlanState
      <3> QED BY <1>1, <1>2, <3>1, TransitionEffect
    <2> HIDE DEF r
    <2>3. /\ q.state = r.state /\ q.status = r.status
          /\ q.outstandingPrincipal = 0 /\ q.feesOutstanding = 0
          /\ q.feesPaid = p.feesPaid
          /\ q.totalCollected = p.totalCollected /\ q.refundCredit = p.refundCredit
          /\ q.keepers = p.keepers
          /\ q.markEscrow = 0 /\ q.forwarded = p.forwarded + p.markEscrow
      BY <1>2, <1>5, <2>1, <2>2, ReleaseEffect DEF SameMoney
    <2> HIDE DEF q
    <2>4. Live(q) = {} /\ Cleared(q) = Cleared(resolved)
      BY <1>3, <2>2, <2>3 DEF Live, Cleared
    <2>5. ReservedForMarks(q) = 0
      BY <2>4, FS_EmptySet, ParamsAssumption DEF ReservedForMarks
    <2>6. BountiesAllowed(p) <= BountiesAllowed(q) /\ BountiesAllowed(p) \in Nat
          /\ BountiesAllowed(q) \in Nat
      BY <2>4, FewerLive, LiveCounts
    <2>7. q.keepers + q.markEscrow <= MarkEscrowFor + BountiesAllowed(q)
      BY <1>n, <2>3, <2>6, EscrowIsNat DEF Tidy
    <2>8. \A i \in Index : q.refundCredit = 0 => q.status[i] # "Refunded"
      BY <1>2, <2>2, <2>3 DEF Tidy
    <2>9. q.state # "Cancelled" /\ q.state # "SettledWithFeeOutstanding"
      BY <2>2, <2>3 DEF Tidy, IsTerminal, TerminalStates
    <2>10. Fits(q)
      BY <2>3, <2>4, <2>5, <2>7, <2>8, <2>9 DEF Fits, Tidy, PayoffAmount
    <2>11. Onward(p, q)
      BY <1>4, <1>n, <1>5, <2>2, <2>3 DEF Onward
    <2> QED BY <2>10, <2>11 DEF q
  <1>6. CASE p.outstandingPrincipal = 0 /\ p.feesOutstanding # 0
    <2>1. q = Transition(resolved, "SettledWithFeeOutstanding")
      BY <1>6 DEF AfterInflow, resolved
    <2>2. /\ SameMoney(resolved, q) /\ q.status = resolved.status
          /\ q.state = IF IsTerminal(p.state) THEN p.state ELSE "SettledWithFeeOutstanding"
      BY <1>1, <1>2, <2>1, TransitionEffect
    <2> HIDE DEF q
    <2>3. SameMoney(p, q)
      BY <1>2, <2>2 DEF SameMoney
    <2>4. Live(q) = {}
      BY <1>3, <2>2 DEF Live
    <2>5. ReservedForMarks(q) = 0
      BY <2>4, FS_EmptySet, ParamsAssumption DEF ReservedForMarks
    <2>6. BountiesAllowed(p) <= BountiesAllowed(q) /\ BountiesAllowed(p) \in Nat
          /\ BountiesAllowed(q) \in Nat
      BY <2>4, FewerLive, LiveCounts
    <2>7. q.keepers + q.markEscrow <= MarkEscrowFor + BountiesAllowed(q)
      BY <1>n, <2>3, <2>6, EscrowIsNat DEF Tidy, SameMoney
    <2>8. \A i \in Index : q.refundCredit = 0 => q.status[i] # "Refunded"
      BY <1>2, <2>2, <2>3 DEF Tidy, SameMoney
    <2>9. p.state \notin {"Repaid", "Refunded", "Cancelled"}
      BY <1>6, <1>n DEF Tidy, PayoffAmount
    <2>10. /\ q.state \notin {"Repaid", "Refunded", "Cancelled"}
           /\ q.state = "Defaulted" => q.markEscrow = 0
      BY <2>2, <2>3, <2>9 DEF IsTerminal, TerminalStates, Tidy, SameMoney
    <2>11. Fits(q)
      BY <1>n, <1>6, <2>3, <2>4, <2>5, <2>7, <2>8, <2>10 DEF Fits, Tidy, SameMoney
    <2>12. Onward(p, q)
      BY <1>4, <1>n, <2>2, <2>3 DEF Onward, SameMoney
    <2> QED BY <2>11, <2>12 DEF q
  <1>7. CASE p.outstandingPrincipal # 0
    <2>1. \/ q = p
          \/ p.state \in {"Grace", "Delinquent", "Pending"} /\ q = Transition(p, "Active")
      BY <1>7 DEF AfterInflow
    <2>2. /\ SameMoney(p, q) /\ q.status = p.status
          /\ q.state = p.state \/ (q.state = "Active" /\ ~IsTerminal(p.state))
      <3>1. ~IsTerminal("Grace") /\ ~IsTerminal("Delinquent") /\ ~IsTerminal("Pending")
        BY DEF IsTerminal, TerminalStates
      <3> HIDE DEF q
      <3> QED BY <1>1, <2>1, <3>1, TransitionEffect DEF SameMoney
    <2> HIDE DEF q
    <2>3. Live(q) = Live(p) /\ Cleared(q) = Cleared(p)
      BY <2>2 DEF Live, Cleared
    <2>4. ReservedForMarks(q) = ReservedForMarks(p) /\ BountiesAllowed(q) = BountiesAllowed(p)
      BY <2>3 DEF ReservedForMarks, BountiesAllowed, Retired
    <2>5. p.state # "Defaulted" => p.markEscrow >= ReservedForMarks(p)
      BY DEF Tidy
    <2>6. Tidy(q)
      BY <2>2, <2>3, <2>4 DEF Tidy, SameMoney, PayoffAmount, IsTerminal, TerminalStates
    <2>7. Fits(q)
      BY <1>7, <2>2, <2>6 DEF Fits, Tidy, SameMoney
    <2>8. Onward(p, q)
      BY <1>n, <2>2 DEF Onward, SameMoney
    <2> QED BY <2>7, <2>8 DEF q
  <1> QED BY <1>5, <1>6, <1>7

---------------------------------------------------------------------------
(* The handlers, one lemma each. *)

\* A cleared pull: one check leaves the live ones for good, for at most one
\* capped bounty, and is cleared by the money that arrived for it.
LEMMA SettleClearedFits ==
    ASSUME NEW p, NEW given \in Nat, NEW float \in Int, NEW at \in Nat,
           Sound(p, given, float, at), Fits(p),
           NEW i \in Index, NEW time \in Nat, CanCollect(p, i, time)
    PROVE  Fits(SettleCleared(p, i, time)) /\ Onward(p, SettleCleared(p, i, time))
  <1> DEFINE amount  == InstallmentAmount(i)
             applied == Applied(p, amount)
             bounty  == Lesser(CollectBounty(amount, time - DueDate(i)), applied)
             cleared == [p EXCEPT !.status[i] = "Cleared"]
             booked  == Account(cleared, amount)
             paid    == PayKeeper(booked, bounty)
             mid     == Forward(paid, applied - bounty)
  <1>1. /\ p \in Plan /\ i \in Live(p) /\ time >= DueDate(i)
        /\ ~IsTerminal(p.state) /\ p.state # "SettledWithFeeOutstanding"
    BY DEF Sound, CanCollect
  <1>2. amount \in Nat /\ applied \in Nat
    BY <1>1, InstallmentIsNat, AppliedIsNat
  <1>3. bounty \in Nat /\ bounty <= applied /\ bounty <= BountyCap
    <2>1. time - DueDate(i) \in Nat
      BY <1>1, DueDateIsInt
    <2>2. /\ CollectBounty(amount, time - DueDate(i)) \in Nat
          /\ CollectBounty(amount, time - DueDate(i)) <= BountyCap
      <3>1. CollectBounty(amount, time - DueDate(i)) \in 0 .. amount
        BY <1>2, <2>1, BountyIsNat
      <3>2. CollectBounty(amount, time - DueDate(i)) <= BountyCap
        BY <1>2, <2>1, BountyIsNat
      <3> QED BY <1>2, <3>1, <3>2
    <2> QED BY <1>2, <2>2, ParamsAssumption DEF Lesser
  <1>4. SettleCleared(p, i, time) = AfterInflow(mid, time)
    BY DEF SettleCleared
  <1>5. Applied(cleared, amount) = applied
    BY <1>1, StatusKeepsApplied
  <1> HIDE DEF amount, applied, bounty
  <1>6. Sound(cleared, given, float, at)
    BY StatusOfOneSound DEF InstallmentStatus
  <1>7. Sound(booked, given, float + applied, at)
    BY <1>2, <1>5, <1>6, AccountSound
  <1>8. Sound(paid, given, (float + applied) - bounty, at)
    <2>1. float + applied \in Int
      BY <1>2
    <2> QED BY <1>3, <1>7, <2>1, PayKeeperSound
  <1>9. Sound(mid, given, float, at)
    <2>1. /\ (float + applied) - bounty \in Int /\ applied - bounty \in Nat
          /\ ((float + applied) - bounty) - (applied - bounty) = float
      BY <1>2, <1>3
    <2>2. Sound(mid, given, ((float + applied) - bounty) - (applied - bounty), at)
      BY <1>8, <2>1, ForwardSound
    <2> QED BY <2>1, <2>2
  <1>10. cleared \in Plan /\ booked \in Plan /\ paid \in Plan /\ mid \in Plan
    BY <1>6, <1>7, <1>8, <1>9 DEF Sound
  <1>11. /\ cleared.state = p.state
         /\ cleared.status = [p.status EXCEPT ![i] = "Cleared"]
         /\ SameMoney(p, cleared)
    BY <1>1 DEF Plan, SameMoney
  <1> HIDE DEF cleared
  <1>12. /\ mid.state = p.state /\ mid.status = [p.status EXCEPT ![i] = "Cleared"]
         /\ mid.outstandingPrincipal <= p.outstandingPrincipal
         /\ mid.feesPaid > p.feesPaid => mid.outstandingPrincipal = 0
         /\ mid.outstandingPrincipal > 0 => mid.totalCollected = p.totalCollected + amount
         /\ mid.refundCredit = p.refundCredit
         /\ mid.markEscrow = p.markEscrow /\ mid.keepers = p.keepers + bounty
         /\ mid.forwarded = p.forwarded + (applied - bounty)
    <2>1. /\ booked.state = p.state /\ booked.status = cleared.status
          /\ booked.outstandingPrincipal <= p.outstandingPrincipal
          /\ booked.feesPaid > p.feesPaid => booked.outstandingPrincipal = 0
          /\ booked.outstandingPrincipal > 0
               => booked.totalCollected = p.totalCollected + amount
          /\ booked.refundCredit = p.refundCredit /\ booked.forwarded = p.forwarded
          /\ booked.markEscrow = p.markEscrow /\ booked.keepers = p.keepers
      BY <1>2, <1>10, <1>11, AccountEffect DEF SameMoney
    <2> HIDE DEF booked
    <2>2. /\ paid.state = booked.state /\ paid.status = booked.status
          /\ paid.outstandingPrincipal = booked.outstandingPrincipal
          /\ paid.feesPaid = booked.feesPaid
          /\ paid.totalCollected = booked.totalCollected
          /\ paid.refundCredit = booked.refundCredit
          /\ paid.markEscrow = booked.markEscrow /\ paid.forwarded = booked.forwarded
          /\ paid.keepers = booked.keepers + bounty
      BY <1>10, PayKeeperEffect
    <2> HIDE DEF paid
    <2>3. /\ mid.state = paid.state /\ mid.status = paid.status
          /\ mid.outstandingPrincipal = paid.outstandingPrincipal
          /\ mid.feesPaid = paid.feesPaid
          /\ mid.totalCollected = paid.totalCollected
          /\ mid.refundCredit = paid.refundCredit
          /\ mid.markEscrow = paid.markEscrow /\ mid.keepers = paid.keepers
          /\ mid.forwarded = paid.forwarded + (applied - bounty)
      BY <1>10, ForwardEffect
    <2> QED BY <1>11, <2>1, <2>2, <2>3
  <1> HIDE DEF mid
  <1>n. /\ p.outstandingPrincipal \in Nat /\ mid.outstandingPrincipal \in Nat
        /\ p.markEscrow \in Nat /\ p.keepers \in Nat /\ p.forwarded \in Nat
        /\ p.feesPaid \in Nat /\ mid.feesPaid \in Nat
        /\ p.totalCollected \in Nat /\ p.refundCredit \in Nat
    BY <1>1, <1>10 DEF Plan
  <1>13. Live(mid) = Live(p) \ {i} /\ Cleared(mid) = Cleared(p) \cup {i}
    BY <1>1, <1>12 DEF Live, Cleared, Plan
  <1>14. /\ ReservedForMarks(mid) + MarkBounty <= ReservedForMarks(p)
         /\ BountiesAllowed(p) + BountyCap <= BountiesAllowed(mid)
         /\ ReservedForMarks(mid) \in Nat /\ ReservedForMarks(p) \in Nat
         /\ BountiesAllowed(mid) \in Nat /\ BountiesAllowed(p) \in Nat
    BY <1>1, <1>13, OneFewerLive, LiveCounts
  <1>15. mid.markEscrow >= ReservedForMarks(mid)
    BY <1>1, <1>12, <1>14, <1>n, ParamsAssumption
       DEF Fits, Tidy, IsTerminal, TerminalStates
  <1>16. mid.keepers + mid.markEscrow <= MarkEscrowFor + BountiesAllowed(mid)
    BY <1>3, <1>12, <1>14, <1>n, EscrowIsNat, ParamsAssumption DEF Fits, Tidy
  <1>17. mid.outstandingPrincipal > 0
           => FaceValue(Cleared(mid)) <= mid.totalCollected + mid.refundCredit
    <2>1. Cleared(p) \in SUBSET Index /\ i \notin Cleared(p)
      BY <1>1, LiveMeans DEF Cleared
    <2>2. FaceValue(Cleared(mid)) = FaceValue(Cleared(p)) + amount
          /\ FaceValue(Cleared(p)) \in Nat
      BY <1>13, <2>1, FaceValueOfOneMore, FaceValueIsBounded DEF amount
    <2>3. p.outstandingPrincipal > 0
            => FaceValue(Cleared(p)) <= p.totalCollected + p.refundCredit
      BY <1>1 DEF Fits, Tidy, IsTerminal, TerminalStates
    <2> QED BY <1>2, <1>12, <1>n, <2>2, <2>3
  <1>18. mid.feesPaid > 0 => mid.outstandingPrincipal = 0
    BY <1>12, <1>n DEF Fits, Tidy
  <1>19. mid.refundCredit = 0 => \A j \in Index : mid.status[j] # "Refunded"
    BY <1>1, <1>12 DEF Fits, Tidy, Plan
  <1>20. Tidy(mid)
    BY <1>1, <1>12, <1>15, <1>16, <1>17, <1>18, <1>19
       DEF Fits, Tidy, IsTerminal, TerminalStates
  <1>21. Onward(p, mid)
    <2>1. \A j \in Index : p.status[j] \in Outcomes => j # i
      BY <1>1, LiveMeans
    <2>2. mid.forwarded >= p.forwarded
      BY <1>2, <1>3, <1>12, <1>n
    <2> QED BY <1>1, <1>12, <2>1, <2>2 DEF Onward, Plan
  <1>22. /\ Fits(AfterInflow(mid, time)) /\ Onward(mid, AfterInflow(mid, time))
         /\ AfterInflow(mid, time) \in Plan
    BY <1>9, <1>20, AfterInflowFits, AfterInflowSound DEF Sound
  <1> QED BY <1>1, <1>4, <1>10, <1>21, <1>22, OnwardTransitive

\* A push: the waterfall, the forwarding and the settled state.
LEMMA RepaidFits ==
    ASSUME NEW p, NEW given \in Nat, NEW float \in Int, NEW at \in Nat,
           Sound(p, given, float, at), Fits(p), NEW amount \in Nat, NEW time
    PROVE  Fits(Repaid(p, amount, time)) /\ Onward(p, Repaid(p, amount, time))
  <1> DEFINE applied == Applied(p, amount)
             booked  == Account(p, amount)
             mid     == Forward(booked, applied)
  <1>1. p \in Plan /\ applied \in Nat
    BY AppliedIsNat DEF Sound
  <1>2. Repaid(p, amount, time) = AfterInflow(mid, time)
    BY DEF Repaid
  <1>3. Sound(booked, given, float + applied, at)
    BY AccountSound
  <1> HIDE DEF applied
  <1>4. Sound(mid, given, float, at)
    <2>1. float + applied \in Int /\ (float + applied) - applied = float
      BY <1>1
    <2>2. Sound(mid, given, (float + applied) - applied, at)
      BY <1>1, <1>3, <2>1, ForwardSound
    <2> QED BY <2>1, <2>2
  <1>5. booked \in Plan /\ mid \in Plan
    BY <1>3, <1>4 DEF Sound
  <1>6. /\ mid.state = p.state /\ mid.status = p.status
        /\ mid.outstandingPrincipal <= p.outstandingPrincipal
        /\ mid.feesOutstanding <= p.feesOutstanding
        /\ mid.feesPaid > p.feesPaid => mid.outstandingPrincipal = 0
        /\ mid.outstandingPrincipal > 0 => mid.totalCollected = p.totalCollected + amount
        /\ mid.refundCredit = p.refundCredit
        /\ mid.markEscrow = p.markEscrow /\ mid.keepers = p.keepers
        /\ mid.forwarded = p.forwarded + applied
    <2>1. /\ booked.state = p.state /\ booked.status = p.status
          /\ booked.outstandingPrincipal <= p.outstandingPrincipal
          /\ booked.feesOutstanding <= p.feesOutstanding
          /\ booked.feesPaid > p.feesPaid => booked.outstandingPrincipal = 0
          /\ booked.outstandingPrincipal > 0
               => booked.totalCollected = p.totalCollected + amount
          /\ booked.refundCredit = p.refundCredit /\ booked.forwarded = p.forwarded
          /\ booked.markEscrow = p.markEscrow /\ booked.keepers = p.keepers
      BY <1>1, AccountEffect
    <2> HIDE DEF booked
    <2>2. /\ mid.state = booked.state /\ mid.status = booked.status
          /\ mid.outstandingPrincipal = booked.outstandingPrincipal
          /\ mid.feesOutstanding = booked.feesOutstanding
          /\ mid.feesPaid = booked.feesPaid
          /\ mid.totalCollected = booked.totalCollected
          /\ mid.refundCredit = booked.refundCredit
          /\ mid.markEscrow = booked.markEscrow /\ mid.keepers = booked.keepers
          /\ mid.forwarded = booked.forwarded + applied
      BY <1>5, ForwardEffect
    <2> QED BY <2>1, <2>2
  <1> HIDE DEF mid
  <1>n. /\ p.outstandingPrincipal \in Nat /\ mid.outstandingPrincipal \in Nat
        /\ p.feesOutstanding \in Nat /\ mid.feesOutstanding \in Nat
        /\ p.feesPaid \in Nat /\ mid.feesPaid \in Nat
        /\ p.totalCollected \in Nat /\ p.refundCredit \in Nat /\ p.forwarded \in Nat
    BY <1>1, <1>5 DEF Plan
  <1>7. Live(mid) = Live(p) /\ Cleared(mid) = Cleared(p)
    BY <1>6 DEF Live, Cleared
  <1>8. ReservedForMarks(mid) = ReservedForMarks(p)
        /\ BountiesAllowed(mid) = BountiesAllowed(p)
    BY <1>7 DEF ReservedForMarks, BountiesAllowed, Retired
  <1>9. p.state # "Defaulted" /\ mid.outstandingPrincipal > 0
          => FaceValue(Cleared(mid)) <= mid.totalCollected + mid.refundCredit
    <2>1. FaceValue(Cleared(p)) \in Nat
      BY FaceValueIsBounded DEF Cleared
    <2>2. p.state # "Defaulted" /\ p.outstandingPrincipal > 0
            => FaceValue(Cleared(p)) <= p.totalCollected + p.refundCredit
      BY DEF Fits, Tidy
    <2> QED BY <1>6, <1>7, <1>n, <2>1, <2>2
  <1>10. p.state \in {"Repaid", "Refunded"} => PayoffAmount(mid) = 0
    BY <1>6, <1>n DEF Fits, Tidy, PayoffAmount
  <1>11. mid.feesPaid > 0 => mid.outstandingPrincipal = 0
    BY <1>6, <1>n DEF Fits, Tidy
  <1>12. p.state = "SettledWithFeeOutstanding" => mid.outstandingPrincipal = 0
    BY <1>6, <1>n DEF Fits, Tidy
  <1>13. Tidy(mid)
    BY <1>6, <1>8, <1>9, <1>10, <1>11, <1>12 DEF Fits, Tidy
  <1>14. Onward(p, mid)
    BY <1>1, <1>6, <1>n DEF Onward
  <1>15. /\ Fits(AfterInflow(mid, time)) /\ Onward(mid, AfterInflow(mid, time))
         /\ AfterInflow(mid, time) \in Plan
    BY <1>4, <1>13, AfterInflowFits, AfterInflowSound DEF Sound
  <1> QED BY <1>1, <1>2, <1>5, <1>14, <1>15, OnwardTransitive

\* A call that moves no money, retires no check and leaves only a state that
\* is not terminal, for one that is not terminal either.
LEMMA RestatedFits ==
    ASSUME NEW p \in Plan, NEW q \in Plan, Fits(p), SameMoney(p, q),
           \A i \in Index : \/ q.status[i] = p.status[i]
                            \/ i \in Live(p) /\ q.status[i] = "Bounced",
           \/ q.state = p.state
           \/ /\ ~IsTerminal(p.state)
              /\ q.state \in {"Active", "Grace", "HALTED", "Blocked"}
    PROVE  Fits(q) /\ Onward(p, q)
  <1>1. Live(q) = Live(p) /\ Cleared(q) = Cleared(p)
    BY DEF Live, Cleared
  <1>2. ReservedForMarks(q) = ReservedForMarks(p)
        /\ BountiesAllowed(q) = BountiesAllowed(p)
    BY <1>1 DEF ReservedForMarks, BountiesAllowed, Retired
  <1>3. \A i \in Index : q.status[i] = "Refunded" => p.status[i] = "Refunded"
    OBVIOUS
  <1>4. Fits(q)
    BY <1>1, <1>2, <1>3
       DEF Fits, Tidy, SameMoney, PayoffAmount, IsTerminal, TerminalStates
  <1>5. \A i \in Index : p.status[i] \in Outcomes => q.status[i] = p.status[i]
    BY LiveMeans
  <1>6. Onward(p, q)
    BY <1>5 DEF Onward, SameMoney, Plan
  <1> QED BY <1>4, <1>6

LEMMA BouncedFits ==
    ASSUME NEW p \in Plan, Fits(p), NEW i \in Live(p), NEW reason
    PROVE  /\ Fits(Bounce(p, i, reason)) /\ Onward(p, Bounce(p, i, reason))
           /\ Bounce(p, i, reason) \in Plan
  <1> DEFINE r == [p EXCEPT !.status[i] = "Bounced"]
             q == Bounce(p, i, reason)
  <1>1. i \in Index
    BY DEF Live
  <1>2. /\ r \in Plan /\ SameMoney(p, r) /\ r.state = p.state
        /\ r.status = [p.status EXCEPT ![i] = "Bounced"]
    BY <1>1 DEF Plan, SameMoney, InstallmentStatus
  <1>3. q = Transition(r, "Grace") \/ q = r
    BY DEF Bounce
  <1> HIDE DEF r
  <1>4. Transition(r, "Grace") \in Plan
    BY <1>2 DEF Transition, Plan, PlanState
  <1>5. /\ q \in Plan /\ SameMoney(p, q) /\ q.status = r.status
        /\ \/ q.state = p.state
           \/ ~IsTerminal(p.state) /\ q.state = "Grace"
    BY <1>2, <1>3, <1>4, TransitionEffect DEF SameMoney
  <1> HIDE DEF q
  <1>6. \A j \in Index : \/ q.status[j] = p.status[j]
                         \/ j \in Live(p) /\ q.status[j] = "Bounced"
    BY <1>1, <1>2, <1>5 DEF Plan
  <1> QED BY <1>5, <1>6, RestatedFits DEF q

LEMMA EnterHaltFits ==
    ASSUME NEW p \in Plan, Fits(p), NEW time \in Nat
    PROVE  /\ Fits(EnterHalt(p, time)) /\ Onward(p, EnterHalt(p, time))
           /\ EnterHalt(p, time) \in Plan /\ Live(EnterHalt(p, time)) = Live(p)
  <1> DEFINE r == [p EXCEPT !.haltStartedAt = time]
             q == EnterHalt(p, time)
  <1>1. r \in Plan /\ SameMoney(p, r) /\ r.state = p.state /\ r.status = p.status
    BY DEF Plan, SameMoney
  <1>2. q = p \/ q = Transition(r, "HALTED")
    BY DEF EnterHalt
  <1> HIDE DEF r
  <1>3. Transition(r, "HALTED") \in Plan
    BY <1>1 DEF Transition, Plan, PlanState
  <1>4. /\ q \in Plan /\ SameMoney(p, q) /\ q.status = p.status
        /\ \/ q.state = p.state
           \/ ~IsTerminal(p.state) /\ q.state = "HALTED"
    BY <1>1, <1>2, <1>3, TransitionEffect DEF SameMoney
  <1> HIDE DEF q
  <1> QED BY <1>4, RestatedFits DEF q, Live

\* Every outcome of a pull.
LEMMA CollectedFits ==
    ASSUME NEW p, NEW given \in Nat, NEW float \in Int, NEW at \in Nat,
           Sound(p, given, float, at), Fits(p),
           NEW i \in Index, NEW time \in Nat, CanCollect(p, i, time), NEW reason
    PROVE  Fits(Collected(p, i, time, reason)) /\ Onward(p, Collected(p, i, time, reason))
  <1>1. p \in Plan /\ i \in Live(p)
    BY DEF Sound, CanCollect
  <1>2. CASE reason = "None"
    BY <1>2, SettleClearedFits DEF Collected
  <1>3. CASE reason = "Halted"
    <2> DEFINE h == EnterHalt(p, time)
    <2>1. Fits(h) /\ Onward(p, h) /\ h \in Plan /\ i \in Live(h)
      BY <1>1, EnterHaltFits
    <2>2. Collected(p, i, time, reason) = Bounce(h, i, reason)
      BY <1>3 DEF Collected
    <2> HIDE DEF h
    <2>3. /\ Fits(Bounce(h, i, reason)) /\ Onward(h, Bounce(h, i, reason))
          /\ Bounce(h, i, reason) \in Plan
      BY <2>1, BouncedFits
    <2> QED BY <1>1, <2>1, <2>2, <2>3, OnwardTransitive
  <1>4. CASE reason = "Blocked"
    <2> DEFINE b == Transition(p, "Blocked")
    <2>1. b \in Plan
      BY <1>1 DEF Transition, Plan, PlanState
    <2>2. /\ SameMoney(p, b) /\ b.status = p.status
          /\ b.state = IF IsTerminal(p.state) THEN p.state ELSE "Blocked"
      BY <1>1, TransitionEffect
    <2>3. Collected(p, i, time, reason) = Bounce(b, i, reason)
      BY <1>4 DEF Collected
    <2> HIDE DEF b
    <2>4. Fits(b) /\ Onward(p, b) /\ i \in Live(b)
      BY <1>1, <2>1, <2>2, RestatedFits DEF Live
    <2>5. /\ Fits(Bounce(b, i, reason)) /\ Onward(b, Bounce(b, i, reason))
          /\ Bounce(b, i, reason) \in Plan
      BY <2>1, <2>4, BouncedFits
    <2> QED BY <1>1, <2>1, <2>3, <2>4, <2>5, OnwardTransitive
  <1>5. CASE reason \notin {"None", "Halted", "Blocked"}
    BY <1>1, <1>5, BouncedFits DEF Collected
  <1> QED BY <1>2, <1>3, <1>4, <1>5

\* A recorded default, expiry or cancellation: one check leaves the live ones
\* for good and its bounty was in the escrow.
LEMMA MarkedFits ==
    ASSUME NEW p \in Plan, Fits(p), NEW i \in Live(p), NEW status \in {"Missed", "Expired"}
    PROVE  Fits(Marked(p, i, status)) /\ Onward(p, Marked(p, i, status))
  <1> DEFINE r == [p EXCEPT !.status[i] = status]
             s == AccrueLateFee(r)
             t == Transition(s, "Delinquent")
             q == Marked(p, i, status)
             bounty == Lesser(MarkBounty, p.markEscrow)
  <1>1. i \in Index /\ p.outstandingPrincipal > 0
    BY DEF Live, Fits, Plan
  <1>2. /\ r \in Plan /\ SameMoney(p, r) /\ r.state = p.state
        /\ r.status = [p.status EXCEPT ![i] = status]
    BY <1>1 DEF Plan, SameMoney, InstallmentStatus
  <1>3. q = PayFromEscrow(t, MarkBounty)
    BY DEF Marked, PayMarkBounty
  <1> HIDE DEF r
  <1>4. /\ s \in Plan /\ s.state = p.state /\ s.status = r.status
        /\ s.outstandingPrincipal = p.outstandingPrincipal /\ s.feesPaid = p.feesPaid
        /\ s.totalCollected = p.totalCollected /\ s.refundCredit = p.refundCredit
        /\ s.forwarded = p.forwarded
        /\ s.markEscrow = p.markEscrow /\ s.keepers = p.keepers
    BY <1>2, LateFeeIsNat DEF AccrueLateFee, SameMoney, Plan
  <1> HIDE DEF s
  <1>5. /\ t \in Plan /\ SameMoney(s, t) /\ t.status = s.status
        /\ t.state = IF IsTerminal(p.state) THEN p.state ELSE "Delinquent"
    <2>1. t \in Plan
      BY <1>4 DEF Transition, Plan, PlanState
    <2> QED BY <1>4, <2>1, TransitionEffect
  <1> HIDE DEF t
  <1>6. /\ q.state = t.state /\ q.status = [p.status EXCEPT ![i] = status]
        /\ q.outstandingPrincipal = p.outstandingPrincipal /\ q.feesPaid = p.feesPaid
        /\ q.totalCollected = p.totalCollected /\ q.refundCredit = p.refundCredit
        /\ q.forwarded = p.forwarded
        /\ q.markEscrow = p.markEscrow - bounty /\ q.keepers = p.keepers + bounty
    BY <1>2, <1>3, <1>4, <1>5, PayFromEscrowEffect, ParamsAssumption DEF SameMoney
  <1> HIDE DEF q
  <1>7. p.state \notin {"Repaid", "Refunded", "Cancelled", "SettledWithFeeOutstanding"}
    BY <1>1 DEF Fits, Tidy, PayoffAmount, Plan
  <1>8. Live(q) = Live(p) \ {i} /\ Cleared(q) = Cleared(p)
    BY <1>1, <1>6 DEF Live, Cleared, Plan
  <1>9. /\ ReservedForMarks(q) + MarkBounty <= ReservedForMarks(p)
        /\ BountiesAllowed(p) <= BountiesAllowed(q)
        /\ ReservedForMarks(q) \in Nat /\ ReservedForMarks(p) \in Nat
        /\ BountiesAllowed(q) \in Nat /\ BountiesAllowed(p) \in Nat
    BY <1>8, OneFewerLive, FewerLive, LiveCounts
  <1>n. /\ p.markEscrow \in Nat /\ p.keepers \in Nat /\ MarkBounty \in Nat
        /\ bounty \in Nat /\ bounty <= p.markEscrow /\ bounty <= MarkBounty
        /\ MarkEscrowFor \in Nat
    BY EscrowIsNat, ParamsAssumption DEF Plan, Lesser
  <1> HIDE DEF bounty
  <1>10. /\ q.state = "Defaulted" => p.state = "Defaulted"
         /\ q.state \notin {"Repaid", "Refunded", "Cancelled", "SettledWithFeeOutstanding"}
         /\ IsTerminal(p.state) => q.state = p.state
    BY <1>5, <1>6, <1>7 DEF IsTerminal, TerminalStates
  <1>11. q.state = "Defaulted" => q.markEscrow = 0
    BY <1>6, <1>10, <1>n DEF Fits, Tidy
  <1>12. q.state # "Defaulted" => q.markEscrow >= ReservedForMarks(q)
    <2>1. q.state # "Defaulted" => p.markEscrow >= ReservedForMarks(p)
      BY <1>5, <1>6 DEF Fits, Tidy, IsTerminal, TerminalStates
    <2> QED BY <1>6, <1>9, <1>n, <2>1
  <1>13. q.keepers + q.markEscrow <= MarkEscrowFor + BountiesAllowed(q)
    <2>1. p.keepers + p.markEscrow <= MarkEscrowFor + BountiesAllowed(p)
      BY DEF Fits, Tidy
    <2> QED BY <1>6, <1>9, <1>n, <2>1
  <1>14. q.refundCredit = 0 => \A j \in Index : q.status[j] # "Refunded"
    BY <1>1, <1>6 DEF Fits, Tidy, Plan
  <1>15. q.state # "Defaulted" /\ q.outstandingPrincipal > 0
           => FaceValue(Cleared(q)) <= q.totalCollected + q.refundCredit
    BY <1>5, <1>6, <1>8 DEF Fits, Tidy, IsTerminal, TerminalStates
  <1>16. Fits(q)
    BY <1>1, <1>6, <1>10, <1>11, <1>12, <1>13, <1>14, <1>15 DEF Fits, Tidy
  <1>17. Onward(p, q)
    <2>1. \A j \in Index : p.status[j] \in Outcomes => j # i
      BY <1>1, LiveMeans
    <2> QED BY <1>1, <1>6, <1>10, <2>1 DEF Onward, Plan
  <1> QED BY <1>16, <1>17 DEF q

LEMMA CancellationNotedFits ==
    ASSUME NEW p \in Plan, Fits(p), NEW i \in Live(p)
    PROVE  Fits(CancellationNoted(p, i)) /\ Onward(p, CancellationNoted(p, i))
  <1> DEFINE q == [p EXCEPT !.status[i] = "Cleared"]
  <1>1. i \in Index /\ p.outstandingPrincipal > 0
    BY DEF Live, Fits, Plan
  <1>2. CASE ~IsTerminal(p.state)
    BY <1>1, <1>2, MarkedFits DEF CancellationNoted
  <1>3. CASE IsTerminal(p.state)
    <2>1. p.state = "Defaulted"
      BY <1>1, <1>3 DEF Fits, Tidy, PayoffAmount, IsTerminal, TerminalStates, Plan
    <2>2. /\ SameMoney(p, q) /\ q.state = p.state
          /\ q.status = [p.status EXCEPT ![i] = "Cleared"]
      BY <1>1 DEF Plan, SameMoney
    <2>3. CancellationNoted(p, i) = q
      BY <1>3 DEF CancellationNoted
    <2> HIDE DEF q
    <2>4. Live(q) \subseteq Live(p)
      BY <2>2 DEF Live, Plan
    <2>5. BountiesAllowed(p) <= BountiesAllowed(q)
          /\ BountiesAllowed(q) \in Nat /\ BountiesAllowed(p) \in Nat
      BY <2>4, FewerLive, LiveCounts
    <2>6. q.keepers + q.markEscrow <= MarkEscrowFor + BountiesAllowed(q)
      BY <2>2, <2>5, EscrowIsNat DEF Fits, Tidy, SameMoney, Plan
    <2>7. q.refundCredit = 0 => \A j \in Index : q.status[j] # "Refunded"
      BY <1>1, <2>2 DEF Fits, Tidy, Plan, SameMoney
    <2>8. Fits(q)
      BY <1>1, <2>1, <2>2, <2>6, <2>7 DEF Fits, Tidy, SameMoney
    <2>9. Onward(p, q)
      <3>1. \A j \in Index : p.status[j] \in Outcomes => j # i
        BY <1>1, LiveMeans
      <3> QED BY <1>1, <2>2, <3>1 DEF Onward, SameMoney, Plan
    <2> QED BY <2>3, <2>8, <2>9
  <1> QED BY <1>2, <1>3

\* An observation bounty comes out of what the marks still to be made leave.
LEMMA ObservationFits ==
    ASSUME NEW p \in Plan, Fits(p)
    PROVE  /\ Fits(PayObservationBounty(p)) /\ Onward(p, PayObservationBounty(p))
           /\ PayObservationBounty(p).state = p.state
           /\ PayObservationBounty(p).status = p.status
           /\ PayObservationBounty(p).outstandingPrincipal = p.outstandingPrincipal
           /\ PayObservationBounty(p).forwarded = p.forwarded
  <1> DEFINE bounty == Lesser(ObservationBounty(p), p.markEscrow)
             q == PayObservationBounty(p)
  <1>1. ObservationBounty(p) \in Nat
    BY ObservationIsNat
  <1>2. /\ q.state = p.state /\ q.status = p.status
        /\ q.outstandingPrincipal = p.outstandingPrincipal
        /\ q.feesOutstanding = p.feesOutstanding /\ q.feesPaid = p.feesPaid
        /\ q.totalCollected = p.totalCollected /\ q.refundCredit = p.refundCredit
        /\ q.forwarded = p.forwarded
        /\ q.markEscrow = p.markEscrow - bounty /\ q.keepers = p.keepers + bounty
    BY <1>1, PayFromEscrowEffect DEF PayObservationBounty
  <1>3. /\ p.markEscrow \in Nat /\ p.keepers \in Nat
        /\ ReservedForMarks(p) \in Nat /\ BountiesAllowed(p) \in Nat
        /\ p.outstandingPrincipal \in Nat /\ p.forwarded \in Nat
    BY LiveCounts DEF Plan
  <1>4. /\ bounty \in Nat /\ bounty <= p.markEscrow
        /\ p.markEscrow >= ReservedForMarks(p)
             => p.markEscrow - bounty >= ReservedForMarks(p)
    BY <1>1, <1>3, ParamsAssumption DEF ObservationBounty, Lesser
  <1> HIDE DEF bounty, q
  <1>5. Live(q) = Live(p) /\ Cleared(q) = Cleared(p)
    BY <1>2 DEF Live, Cleared
  <1>6. ReservedForMarks(q) = ReservedForMarks(p)
        /\ BountiesAllowed(q) = BountiesAllowed(p)
    BY <1>5 DEF ReservedForMarks, BountiesAllowed, Retired
  <1>7. /\ p.markEscrow = 0 => q.markEscrow = 0
        /\ p.markEscrow >= ReservedForMarks(p) => q.markEscrow >= ReservedForMarks(q)
        /\ q.keepers + q.markEscrow = p.keepers + p.markEscrow
    BY <1>2, <1>3, <1>4, <1>6
  <1>8. Fits(q)
    BY <1>2, <1>5, <1>6, <1>7 DEF Fits, Tidy, PayoffAmount
  <1>9. Onward(p, q)
    BY <1>2, <1>3 DEF Onward
  <1> QED BY <1>2, <1>8, <1>9 DEF q

LEMMA RevalidatedFits ==
    ASSUME NEW p, NEW given \in Nat, NEW float \in Int, NEW at \in Nat,
           Sound(p, given, float, at), Fits(p), NEW stale, NEW time \in Nat
    PROVE  Fits(Revalidated(p, stale, time)) /\ Onward(p, Revalidated(p, stale, time))
  <1> DEFINE seen == [i \in Index |-> IF i \in Live(p) \cap stale THEN "Bounced"
                                      ELSE p.status[i]]
             r == [p EXCEPT !.revalidatedAt = time, !.status = seen]
  <1>1. p \in Plan /\ seen \in [Index -> InstallmentStatus]
    BY DEF Sound, Plan, InstallmentStatus
  <1>2. Revalidated(p, stale, time) = IF ContractSigner THEN PayObservationBounty(r) ELSE r
    BY DEF Revalidated
  <1>3. \A i \in Index : \/ seen[i] = p.status[i]
                         \/ i \in Live(p) /\ seen[i] = "Bounced"
    OBVIOUS
  <1> HIDE DEF seen
  <1>4. r \in Plan /\ SameMoney(p, r) /\ r.state = p.state /\ r.status = seen
    BY <1>1 DEF Plan, SameMoney
  <1> HIDE DEF r
  <1>5. Fits(r) /\ Onward(p, r)
    BY <1>1, <1>3, <1>4, RestatedFits
  <1>6. Fits(PayObservationBounty(r)) /\ Onward(r, PayObservationBounty(r))
    BY <1>4, <1>5, ObservationFits
  <1>7. Revalidated(p, stale, time) \in Plan
    BY RevalidatedSound DEF Sound
  <1> QED BY <1>1, <1>2, <1>4, <1>5, <1>6, <1>7, OnwardTransitive

LEMMA ResumedFits ==
    ASSUME NEW p, NEW given \in Nat, NEW float \in Int, NEW at \in Nat,
           Sound(p, given, float, at), Fits(p),
           NEW time \in Nat, p.haltStartedAt <= time, p.state = "HALTED"
    PROVE  Fits(Resumed(p, time)) /\ Onward(p, Resumed(p, time))
  <1> DEFINE r == [p EXCEPT !.haltOffset = @ + (time - p.haltStartedAt),
                            !.haltStartedAt = 0]
             next == IF IsCurrent(r, time) THEN "Active" ELSE "Grace"
             t == Transition(r, next)
  <1>1. p \in Plan /\ p.haltOffset + (time - p.haltStartedAt) \in Nat
    BY DEF Sound, Plan
  <1>2. r \in Plan /\ SameMoney(p, r) /\ r.state = p.state /\ r.status = p.status
    BY <1>1 DEF Plan, SameMoney
  <1>3. Resumed(p, time) = PayObservationBounty(t)
    BY DEF Resumed
  <1> HIDE DEF r
  <1>4. next \in {"Active", "Grace"}
    OBVIOUS
  <1> HIDE DEF next
  <1>5. /\ t \in Plan /\ SameMoney(p, t) /\ t.status = p.status
        /\ t.state = next /\ ~IsTerminal(p.state)
    <2>1. t \in Plan
      BY <1>2, <1>4 DEF Transition, Plan, PlanState
    <2> QED BY <1>2, <2>1, TransitionEffect DEF SameMoney, IsTerminal, TerminalStates
  <1> HIDE DEF t
  <1>6. Fits(t) /\ Onward(p, t)
    BY <1>1, <1>4, <1>5, RestatedFits
  <1>7. Fits(PayObservationBounty(t)) /\ Onward(t, PayObservationBounty(t))
    BY <1>5, <1>6, ObservationFits
  <1>8. Resumed(p, time) \in Plan
    BY ResumedSound DEF Sound
  <1> QED BY <1>1, <1>3, <1>5, <1>6, <1>7, <1>8, OnwardTransitive

\* Charge-off pays its caller, records the default and hands over the escrow.
LEMMA ChargedOffFits ==
    ASSUME NEW p, NEW given \in Nat, NEW float \in Int, NEW at \in Nat,
           Sound(p, given, float, at), Fits(p)
    PROVE  Fits(ChargedOff(p)) /\ Onward(p, ChargedOff(p))
  <1> DEFINE t == Transition(p, "Defaulted")
             bounty == Lesser(ObservationBounty(t), t.markEscrow)
             o == PayObservationBounty(t)
             q == ChargedOff(p)
  <1>1. p \in Plan /\ t \in Plan /\ o \in Plan
    <2>1. "Defaulted" \in PlanState
      BY DEF PlanState
    <2> QED BY <2>1, TransitionSound, PayObservationBountySound DEF Sound
  <1>2. /\ SameMoney(p, t) /\ t.status = p.status
        /\ t.state = IF IsTerminal(p.state) THEN p.state ELSE "Defaulted"
    BY <1>1, TransitionEffect
  <1> HIDE DEF t
  <1>3. ObservationBounty(t) \in Nat
    BY <1>1, ObservationIsNat
  <1>4. /\ o.state = t.state /\ o.status = t.status
        /\ o.outstandingPrincipal = t.outstandingPrincipal
        /\ o.feesOutstanding = t.feesOutstanding /\ o.feesPaid = t.feesPaid
        /\ o.totalCollected = t.totalCollected /\ o.refundCredit = t.refundCredit
        /\ o.forwarded = t.forwarded
        /\ o.markEscrow = t.markEscrow - bounty /\ o.keepers = t.keepers + bounty
    BY <1>1, <1>3, PayFromEscrowEffect DEF PayObservationBounty
  <1>5. bounty \in Nat /\ bounty <= p.markEscrow /\ p.markEscrow \in Nat /\ p.keepers \in Nat
    BY <1>1, <1>2, <1>3 DEF Lesser, SameMoney, Plan
  <1>6. q = ReleaseEscrow(o)
    BY DEF ChargedOff, t
  <1> HIDE DEF o, bounty
  <1>7. /\ q.state = o.state /\ q.status = o.status
        /\ q.outstandingPrincipal = o.outstandingPrincipal
        /\ q.feesOutstanding = o.feesOutstanding /\ q.feesPaid = o.feesPaid
        /\ q.totalCollected = o.totalCollected /\ q.refundCredit = o.refundCredit
        /\ q.keepers = o.keepers
        /\ q.markEscrow = 0 /\ q.forwarded = o.forwarded + o.markEscrow
    BY <1>1, <1>6, ReleaseEffect
  <1> HIDE DEF q
  <1>8. /\ q.status = p.status
        /\ q.state = IF IsTerminal(p.state) THEN p.state ELSE "Defaulted"
        /\ q.outstandingPrincipal = p.outstandingPrincipal
        /\ q.feesOutstanding = p.feesOutstanding /\ q.feesPaid = p.feesPaid
        /\ q.totalCollected = p.totalCollected /\ q.refundCredit = p.refundCredit
        /\ q.markEscrow = 0 /\ q.keepers = p.keepers + bounty
        /\ q.forwarded = p.forwarded + (p.markEscrow - bounty)
    BY <1>2, <1>4, <1>7 DEF SameMoney
  <1>9. Live(q) = Live(p) /\ Cleared(q) = Cleared(p)
    BY <1>8 DEF Live, Cleared
  <1>10. ReservedForMarks(q) = ReservedForMarks(p)
         /\ BountiesAllowed(q) = BountiesAllowed(p)
         /\ BountiesAllowed(p) \in Nat
    BY <1>9, LiveCounts DEF ReservedForMarks, BountiesAllowed, Retired
  <1>11. q.state # "Defaulted" => ReservedForMarks(q) = 0
    <2>1. q.state # "Defaulted" => Live(q) = {}
      BY <1>8, <1>9, <1>1
         DEF Fits, Tidy, PayoffAmount, IsTerminal, TerminalStates, Plan
    <2> QED BY <2>1, FS_EmptySet, ParamsAssumption DEF ReservedForMarks
  <1>12. q.keepers + q.markEscrow <= MarkEscrowFor + BountiesAllowed(q)
    <2>1. p.keepers + p.markEscrow <= MarkEscrowFor + BountiesAllowed(p)
      BY DEF Fits, Tidy
    <2> QED BY <1>5, <1>8, <1>10, <2>1, EscrowIsNat
  <1>13. q.state # "Defaulted" /\ q.outstandingPrincipal > 0
           => FaceValue(Cleared(q)) <= q.totalCollected + q.refundCredit
    BY <1>8, <1>9 DEF Fits, Tidy
  <1>14. /\ q.state # "Cancelled" /\ q.state # "SettledWithFeeOutstanding"
         /\ q.state \in {"Repaid", "Refunded"} => PayoffAmount(q) = 0
    BY <1>8 DEF Fits, Tidy, PayoffAmount, IsTerminal, TerminalStates
  <1>15. q.refundCredit = 0 => \A i \in Index : q.status[i] # "Refunded"
    BY <1>8 DEF Fits, Tidy
  <1>16. q.feesPaid > 0 => q.outstandingPrincipal = 0
    BY <1>8 DEF Fits, Tidy
  <1>17. q.outstandingPrincipal = 0 => Live(q) = {}
    BY <1>8, <1>9 DEF Fits
  <1>18. Fits(q)
    BY <1>8, <1>11, <1>12, <1>13, <1>14, <1>15, <1>16, <1>17 DEF Fits, Tidy
  <1>19. Onward(p, q)
    BY <1>1, <1>5, <1>8 DEF Onward, Plan
  <1> QED BY <1>18, <1>19 DEF q

\* A sweep takes what is not escrow; stray value changes nothing Fits reads.
LEMMA SweptFits ==
    ASSUME NEW p \in Plan, Fits(p), p.balance > p.markEscrow
    PROVE  Fits(Swept(p)) /\ Onward(p, Swept(p))
  <1> DEFINE amount == p.balance - p.markEscrow
             q == Swept(p)
  <1>1. amount \in Nat /\ p.forwarded \in Nat /\ p.outstandingPrincipal \in Nat
    BY DEF Plan
  <1>2. /\ q.state = p.state /\ q.status = p.status
        /\ q.outstandingPrincipal = p.outstandingPrincipal
        /\ q.feesOutstanding = p.feesOutstanding /\ q.feesPaid = p.feesPaid
        /\ q.totalCollected = p.totalCollected /\ q.refundCredit = p.refundCredit
        /\ q.markEscrow = p.markEscrow /\ q.keepers = p.keepers
        /\ q.forwarded = p.forwarded + amount
    BY ForwardEffect DEF Swept
  <1> HIDE DEF q, amount
  <1>3. Live(q) = Live(p) /\ Cleared(q) = Cleared(p)
    BY <1>2 DEF Live, Cleared
  <1>4. ReservedForMarks(q) = ReservedForMarks(p)
        /\ BountiesAllowed(q) = BountiesAllowed(p)
    BY <1>3 DEF ReservedForMarks, BountiesAllowed, Retired
  <1>5. Fits(q)
    BY <1>2, <1>3, <1>4 DEF Fits, Tidy, PayoffAmount
  <1>6. Onward(p, q)
    BY <1>1, <1>2 DEF Onward
  <1> QED BY <1>5, <1>6 DEF q

LEMMA DonationFits ==
    ASSUME NEW p \in Plan, Fits(p)
    PROVE  /\ Fits([p EXCEPT !.balance = @ + 1])
           /\ Onward(p, [p EXCEPT !.balance = @ + 1])
  <1> DEFINE q == [p EXCEPT !.balance = @ + 1]
  <1>1. q \in Plan /\ SameMoney(p, q) /\ q.state = p.state /\ q.status = p.status
    BY DEF Plan, SameMoney
  <1> HIDE DEF q
  <1>2. Fits(q) /\ Onward(p, q)
    BY <1>1, RestatedFits
  <1> QED BY <1>2 DEF q

\* A refund: the debt it retires takes checks with it from the tail, and what
\* it retires in full is settled on the spot.
LEMMA RefundedFits ==
    ASSUME NEW p, NEW given \in Nat, NEW float \in Int, NEW at \in Nat,
           Sound(p, given, float, at), Fits(p), NEW amount \in Nat \ {0}, NEW time
    PROVE  Fits(Refunded(p, amount, time)) /\ Onward(p, Refunded(p, amount, time))
  <1> DEFINE applied == RefundApplied(p, amount)
             credit == [p EXCEPT !.outstandingPrincipal = @ - applied,
                                 !.refundCredit = @ + applied,
                                 !.balance = @ + applied]
             tail == SuppressCoveredTail(credit)
             settled == Forward(tail, applied)
             resolved == ResolveOutstanding(settled, "Refunded")
             next == IF settled.feesOutstanding > 0
                     THEN "SettledWithFeeOutstanding" ELSE "Refunded"
             moved == Transition(resolved, next)
             q == Refunded(p, amount, time)
  <1>1. /\ p \in Plan /\ applied \in Nat /\ applied <= p.outstandingPrincipal
        /\ applied = 0 => p.outstandingPrincipal = 0
    BY DEF RefundApplied, Lesser, Sound, Plan
  <1>2. q = IF settled.outstandingPrincipal = 0 THEN ReleaseEscrow(moved)
            ELSE AfterInflow(settled, time)
    BY DEF Refunded
  <1> HIDE DEF applied, q
  <1>3. Sound(credit, given, float + applied, at)
    BY <1>1, CreditSound
  <1>4. Sound(tail, given, float + applied, at)
    <2>1. float + applied \in Int
      BY <1>1
    <2> QED BY <1>3, <2>1, SuppressSound
  <1>5. Sound(settled, given, float, at)
    <2>1. float + applied \in Int /\ (float + applied) - applied = float
      BY <1>1
    <2>2. Sound(settled, given, (float + applied) - applied, at)
      BY <1>1, <1>4, <2>1, ForwardSound
    <2> QED BY <2>1, <2>2
  <1>6. Sound(resolved, given, float, at) /\ Sound(moved, given, float, at)
    <2>1. "Refunded" \in InstallmentStatus /\ next \in PlanState
      BY DEF InstallmentStatus, PlanState
    <2> HIDE DEF next
    <2>2. Sound(resolved, given, float, at)
      BY <1>5, <2>1, ResolveSound
    <2> QED BY <2>1, <2>2, TransitionSound
  <1>7. /\ credit \in Plan /\ tail \in Plan /\ settled \in Plan
        /\ resolved \in Plan /\ moved \in Plan
    BY <1>3, <1>4, <1>5, <1>6 DEF Sound
  <1>8. /\ credit.state = p.state /\ credit.status = p.status
        /\ credit.outstandingPrincipal = p.outstandingPrincipal - applied
        /\ credit.refundCredit = p.refundCredit + applied
        /\ credit.feesOutstanding = p.feesOutstanding /\ credit.feesPaid = p.feesPaid
        /\ credit.totalCollected = p.totalCollected /\ credit.forwarded = p.forwarded
        /\ credit.markEscrow = p.markEscrow /\ credit.keepers = p.keepers
    BY <1>1 DEF Plan
  <1> HIDE DEF credit
  <1>9. /\ SameMoney(credit, tail) /\ tail.state = p.state
        /\ \A i \in Index : \/ tail.status[i] = p.status[i]
                            \/ i \in Live(p) /\ tail.status[i] = "Refunded"
    <2>1. Live(credit) = Live(p)
      BY <1>8 DEF Live
    <2>2. /\ SameMoney(credit, tail) /\ tail.state = credit.state
          /\ tail.status = [i \in Index |->
                IF i \in Live(credit) /\ RemainingBefore(credit)[i] < InstallmentAmount(i)
                THEN "Refunded" ELSE credit.status[i]]
      BY <1>7 DEF SuppressCoveredTail, SameMoney, Plan
    <2> QED BY <1>8, <2>1, <2>2
  <1> HIDE DEF tail
  <1>10. /\ settled.state = p.state /\ settled.status = tail.status
         /\ settled.outstandingPrincipal = p.outstandingPrincipal - applied
         /\ settled.refundCredit = p.refundCredit + applied
         /\ settled.feesOutstanding = p.feesOutstanding
         /\ settled.feesPaid = p.feesPaid
         /\ settled.totalCollected = p.totalCollected
         /\ settled.markEscrow = p.markEscrow /\ settled.keepers = p.keepers
         /\ settled.forwarded = p.forwarded + applied
    BY <1>7, <1>8, <1>9, ForwardEffect DEF SameMoney
  <1> HIDE DEF settled
  <1>n. /\ p.outstandingPrincipal \in Nat /\ settled.outstandingPrincipal \in Nat
        /\ p.feesOutstanding \in Nat /\ p.feesPaid \in Nat /\ p.refundCredit \in Nat
        /\ p.totalCollected \in Nat /\ p.forwarded \in Nat
        /\ p.markEscrow \in Nat /\ p.keepers \in Nat
    BY <1>1, <1>7 DEF Plan
  <1>11. Live(settled) \subseteq Live(p) /\ Cleared(settled) = Cleared(p)
    BY <1>9, <1>10 DEF Live, Cleared
  <1>12. /\ ReservedForMarks(settled) <= ReservedForMarks(p)
         /\ BountiesAllowed(p) <= BountiesAllowed(settled)
         /\ ReservedForMarks(settled) \in Nat /\ ReservedForMarks(p) \in Nat
         /\ BountiesAllowed(settled) \in Nat /\ BountiesAllowed(p) \in Nat
    BY <1>11, FewerLive, LiveCounts
  <1>13. settled.refundCredit = 0 => \A i \in Index : settled.status[i] # "Refunded"
    <2>1. settled.refundCredit = 0 => applied = 0 /\ p.refundCredit = 0
      BY <1>1, <1>10, <1>n
    <2>2. applied = 0 => Live(p) = {}
      BY <1>1 DEF Fits
    <2>3. p.refundCredit = 0 => \A i \in Index : p.status[i] # "Refunded"
      BY DEF Fits, Tidy
    <2> QED BY <1>9, <1>10, <2>1, <2>2, <2>3
  <1>14. Tidy(settled)
    <2>1. p.state \in {"Repaid", "Refunded"} => PayoffAmount(settled) = 0
      BY <1>1, <1>10, <1>n DEF Fits, Tidy, PayoffAmount
    <2>2. p.state # "Defaulted" => settled.markEscrow >= ReservedForMarks(settled)
      BY <1>10, <1>12, <1>n DEF Fits, Tidy
    <2>3. p.state # "Defaulted" /\ settled.outstandingPrincipal > 0
            => FaceValue(Cleared(settled)) <= settled.totalCollected + settled.refundCredit
      <3>1. FaceValue(Cleared(p)) \in Nat
        BY FaceValueIsBounded DEF Cleared
      <3>2. p.state # "Defaulted" /\ p.outstandingPrincipal > 0
              => FaceValue(Cleared(p)) <= p.totalCollected + p.refundCredit
        BY DEF Fits, Tidy
      <3> QED BY <1>1, <1>10, <1>11, <1>n, <3>1, <3>2
    <2>4. settled.keepers + settled.markEscrow <= MarkEscrowFor + BountiesAllowed(settled)
      <3>1. p.keepers + p.markEscrow <= MarkEscrowFor + BountiesAllowed(p)
        BY DEF Fits, Tidy
      <3> QED BY <1>10, <1>12, <1>n, <3>1, EscrowIsNat
    <2>5. settled.feesPaid > 0 => settled.outstandingPrincipal = 0
      BY <1>1, <1>10, <1>n DEF Fits, Tidy
    <2>6. p.state = "SettledWithFeeOutstanding" => settled.outstandingPrincipal = 0
      BY <1>1, <1>10, <1>n DEF Fits, Tidy
    <2> QED BY <1>10, <1>13, <2>1, <2>2, <2>3, <2>4, <2>5, <2>6 DEF Fits, Tidy
  <1>15. Onward(p, settled)
    <2>1. \A i \in Index : p.status[i] \in Outcomes => settled.status[i] = p.status[i]
      BY <1>9, <1>10, LiveMeans
    <2> QED BY <1>1, <1>10, <1>n, <2>1 DEF Onward
  <1>16. CASE settled.outstandingPrincipal # 0
    <2>1. /\ Fits(AfterInflow(settled, time)) /\ Onward(settled, AfterInflow(settled, time))
          /\ AfterInflow(settled, time) \in Plan
      BY <1>5, <1>14, AfterInflowFits, AfterInflowSound DEF Sound
    <2> QED BY <1>1, <1>2, <1>7, <1>15, <1>16, <2>1, OnwardTransitive DEF q
  <1>17. CASE settled.outstandingPrincipal = 0
    <2>1. /\ SameMoney(settled, resolved) /\ resolved.state = p.state
          /\ \A i \in Index : resolved.status[i]
               = IF i \in Live(settled) THEN "Refunded" ELSE settled.status[i]
      BY <1>7, <1>10, ResolveEffect
    <2>2. \A i \in Index : settled.status[i] \in Outcomes
                             => resolved.status[i] = settled.status[i]
      BY <2>1, LiveMeans
    <2>3. /\ SameMoney(resolved, moved) /\ moved.status = resolved.status
          /\ moved.state = IF IsTerminal(p.state) THEN p.state ELSE next
      BY <1>7, <2>1, TransitionEffect
    <2>4. Live(resolved) = {}
      BY <2>1 DEF Live
    <2>5. q = ReleaseEscrow(moved)
      BY <1>2, <1>17
    <2>6. next = IF p.feesOutstanding > 0 THEN "SettledWithFeeOutstanding" ELSE "Refunded"
      BY <1>10
    <2> HIDE DEF resolved, moved, next
    <2>7. /\ q.state = moved.state /\ q.status = resolved.status
          /\ q.outstandingPrincipal = 0
          /\ q.feesOutstanding = p.feesOutstanding
          /\ q.feesPaid = p.feesPaid
          /\ q.refundCredit = settled.refundCredit
          /\ q.keepers = p.keepers
          /\ q.markEscrow = 0 /\ q.forwarded = settled.forwarded + settled.markEscrow
      BY <1>7, <1>10, <1>17, <2>1, <2>3, <2>5, ReleaseEffect DEF SameMoney
    <2>8. Live(q) = {}
      BY <2>4, <2>7 DEF Live
    <2>9. ReservedForMarks(q) = 0
      BY <2>8, FS_EmptySet, ParamsAssumption DEF ReservedForMarks
    <2>10. BountiesAllowed(p) <= BountiesAllowed(q) /\ BountiesAllowed(q) \in Nat
      BY <2>8, FewerLive, LiveCounts
    <2>11. q.keepers + q.markEscrow <= MarkEscrowFor + BountiesAllowed(q)
      <3>1. p.keepers + p.markEscrow <= MarkEscrowFor + BountiesAllowed(p)
        BY DEF Fits, Tidy
      <3> QED BY <1>12, <1>n, <2>7, <2>10, <3>1, EscrowIsNat
    <2>12. q.refundCredit = 0 => \A i \in Index : q.status[i] # "Refunded"
      <3>1. q.refundCredit = 0 => Live(settled) = {}
        <4>1. q.refundCredit = 0 => applied = 0
          BY <1>1, <1>10, <1>n, <2>7
        <4>2. applied = 0 => Live(p) = {}
          BY <1>1 DEF Fits
        <4> QED BY <1>11, <4>1, <4>2
      <3> QED BY <1>13, <2>1, <2>7, <3>1
    <2>13. /\ q.state # "Cancelled"
           /\ q.state \in {"Repaid", "Refunded"} => q.feesOutstanding = 0
           /\ q.state = "SettledWithFeeOutstanding" => q.feesOutstanding > 0
      BY <1>n, <2>3, <2>6, <2>7 DEF Fits, Tidy, PayoffAmount, IsTerminal, TerminalStates
    <2>14. Fits(q)
      BY <2>7, <2>8, <2>9, <2>11, <2>12, <2>13 DEF Fits, Tidy, PayoffAmount
    <2>15. Onward(settled, q)
      BY <1>7, <1>10, <1>17, <2>2, <2>3, <2>7 DEF Onward, Plan
    <2>16. q \in Plan
      BY RefundedSound DEF q, Sound
    <2> QED BY <1>1, <1>7, <1>15, <2>14, <2>15, <2>16, OnwardTransitive DEF q
  <1> QED BY <1>16, <1>17

---------------------------------------------------------------------------
(* The invariant, over any history of calls. *)

SettledInv ==
    /\ IInv
    /\ Fits(plan)
    /\ donated <= MaxDonated

\* A new plan owes its principal, so its live checks are all there are.
LEMMA InitSettled == Init => SettledInv
  <1> SUFFICES ASSUME Init PROVE SettledInv
    OBVIOUS
  <1>1. IInv
    BY InitIInv
  <1>2. plan = NewPlan /\ donated = 0
    BY DEF Init
  <1>3. Live(plan) = Index /\ Cleared(plan) = {} /\ Retired(plan) = {}
    BY <1>2 DEF Live, Cleared, Retired, NewPlan
  <1>4. FaceValue(Cleared(plan)) = 0
    <2>1. Principal \div InstallmentCount \in Nat
      BY TermsAssumption, QuotientIsNat
    <2> QED BY <1>3, <2>1, FS_EmptySet DEF FaceValue
  <1>5. ReservedForMarks(plan) <= MarkEscrowFor /\ BountiesAllowed(plan) = 0
    <2>1. ReservedForMarks(plan) = InstallmentCount * MarkBounty
      BY <1>3, IndexIsFinite DEF ReservedForMarks
    <2>2. InstallmentCount * MarkBounty \in Nat
      BY ProductIsNat, TermsAssumption, ParamsAssumption
    <2>3. BountiesAllowed(plan) = 0
      BY <1>3, FS_EmptySet, ParamsAssumption DEF BountiesAllowed
    <2> QED BY <2>1, <2>2, <2>3 DEF MarkEscrowFor
  <1>6. Fits(plan)
    BY <1>2, <1>4, <1>5, EscrowIsNat, TermsAssumption DEF Fits, Tidy, NewPlan
  <1> QED BY <1>1, <1>2, <1>6, InputsAssumption DEF SettledInv

\* Every action keeps the books in order and undoes nothing.
LEMMA NextSettled == SettledInv /\ [Next]_vars => SettledInv' /\ Onward(plan, plan')
  <1> SUFFICES ASSUME SettledInv, [Next]_vars PROVE SettledInv' /\ Onward(plan, plan')
    OBVIOUS
  <1>a. /\ Sound(plan, donated, Float, now) /\ Fits(plan)
        /\ donated \in Nat /\ Float \in Int /\ now \in Nat /\ plan \in Plan
        /\ now \in 0 .. now /\ donated <= MaxDonated
    BY IInvIsSoundness DEF SettledInv, WorldOK, Float, Sound
  <1>b. IInv' /\ plan' \in Plan
    BY NextIInv DEF SettledInv, IInv, TypeOK
  <1>c. Onward(plan, plan)
    BY <1>a DEF Onward, Plan
  <1> SUFFICES Fits(plan') /\ Onward(plan, plan') /\ donated' <= MaxDonated
    BY <1>b DEF SettledInv
  <1> DEFINE Goal == Fits(plan') /\ Onward(plan, plan') /\ donated' <= MaxDonated
  <1>1. ASSUME NEW i \in Index, Collect(i) PROVE Goal
    <2>1. PICK stale \in StaleSets, purse \in Purses :
            /\ CanCollect(plan, i, now)
            /\ plan' = Collected(plan, i, now, Diagnose(i, now, rail, stale, purse))
            /\ UNCHANGED world
      BY <1>1 DEF Collect
    <2> QED BY <1>a, <2>1, CollectedFits DEF world
  <1>2. ASSUME NEW i \in Index, NEW j \in Index, CollectBatch(i, j) PROVE Goal
    <2>1. PICK reason1, reason2 :
            /\ CanCollect(plan, i, now)
            /\ CanCollect(Collected(plan, i, now, reason1), j, now)
            /\ plan' = Collected(Collected(plan, i, now, reason1), j, now, reason2)
            /\ UNCHANGED world
      BY <1>2 DEF CollectBatch
    <2> DEFINE first == Collected(plan, i, now, reason1)
    <2>2. Fits(first) /\ Onward(plan, first) /\ Sound(first, donated, Float, now)
      BY <1>a, <2>1, CollectedFits, CollectedSound
    <2>3. first \in Plan
      BY <2>2 DEF Sound
    <2>4. CanCollect(first, j, now) /\ plan' = Collected(first, j, now, reason2)
      BY <2>1
    <2> HIDE DEF first
    <2>5. Fits(plan') /\ Onward(first, plan')
      BY <1>a, <2>2, <2>4, CollectedFits
    <2> QED BY <1>a, <1>b, <2>1, <2>2, <2>3, <2>5, OnwardTransitive DEF world
  <1>3. ASSUME NEW i \in Index, MarkMissed(i) \/ MarkExpired(i) PROVE Goal
    <2>1. /\ plan' = Marked(plan, i, "Missed") \/ plan' = Marked(plan, i, "Expired")
          /\ i \in Live(plan) /\ UNCHANGED world
      BY <1>3 DEF MarkMissed, MarkExpired, CanMarkMissed, CanMarkExpired
    <2> QED BY <1>a, <2>1, MarkedFits DEF world
  <1>4. ASSUME NEW i \in Index, NoteCancellation(i) PROVE Goal
    <2>1. plan' = CancellationNoted(plan, i) /\ i \in Live(plan) /\ UNCHANGED world
      BY <1>4 DEF NoteCancellation
    <2> QED BY <1>a, <2>1, CancellationNotedFits DEF world
  <1>5. ASSUME NEW amount \in RepayAmounts, Repay(amount) PROVE Goal
    <2>1. plan' = Repaid(plan, amount, now) /\ UNCHANGED world
      BY <1>5 DEF Repay
    <2>2. amount \in Nat
      BY InputsAssumption
    <2> QED BY <1>a, <2>1, <2>2, RepaidFits DEF world
  <1>6. ASSUME NEW amount \in RefundAmounts, CreditRefund(amount) PROVE Goal
    <2>1. plan' = Refunded(plan, amount, now) /\ UNCHANGED world
      BY <1>6 DEF CreditRefund
    <2>2. amount \in Nat \ {0}
      BY InputsAssumption
    <2> QED BY <1>a, <2>1, <2>2, RefundedFits DEF world
  <1>7. ASSUME Revalidate PROVE Goal
    <2>1. PICK stale \in StaleSets : plan' = Revalidated(plan, stale, now) /\ UNCHANGED world
      BY <1>7 DEF Revalidate
    <2> QED BY <1>a, <2>1, RevalidatedFits DEF world
  <1>8. ASSUME Halt PROVE Goal
    <2>1. plan' = EnterHalt(plan, now) /\ UNCHANGED world
      BY <1>8 DEF Halt
    <2> QED BY <1>a, <2>1, EnterHaltFits DEF world
  <1>9. ASSUME Resume PROVE Goal
    <2>1. plan' = Resumed(plan, now) /\ plan.state = "HALTED" /\ UNCHANGED world
      BY <1>9 DEF Resume
    <2>2. plan.haltStartedAt <= now
      BY <1>a DEF Sound
    <2> QED BY <1>a, <2>1, <2>2, ResumedFits DEF world
  <1>10. ASSUME ChargeOff PROVE Goal
    <2>1. plan' = ChargedOff(plan) /\ UNCHANGED world
      BY <1>10 DEF ChargeOff
    <2> QED BY <1>a, <2>1, ChargedOffFits DEF world
  <1>11. ASSUME Sweep PROVE Goal
    <2>1. plan' = Swept(plan) /\ plan.balance > plan.markEscrow /\ donated' = donated
      BY <1>11 DEF Sweep
    <2> QED BY <1>a, <2>1, SweptFits
  <1>12. ASSUME Donate PROVE Goal
    <2>1. /\ plan' = [plan EXCEPT !.balance = @ + 1]
          /\ donated' = donated + 1 /\ donated < MaxDonated
      BY <1>12 DEF Donate
    <2>2. donated' <= MaxDonated
      BY <1>a, <2>1, InputsAssumption
    <2> QED BY <1>a, <2>1, <2>2, DonationFits
  <1>13. ASSUME \/ \E i \in Index : CancelAuthorization(i)
                \/ Tick \/ Pause \/ Unpause \/ SetBlacklisted \/ UNCHANGED vars
         PROVE  Goal
    <2>1. plan' = plan /\ donated' = donated
      BY <1>13 DEF CancelAuthorization, Tick, Pause, Unpause, SetBlacklisted, vars, world
    <2> QED BY <1>a, <1>c, <2>1
  <1> QED BY <1>1, <1>2, <1>3, <1>4, <1>5, <1>6, <1>7, <1>8, <1>9, <1>10,
             <1>11, <1>12, <1>13 DEF Next

LEMMA SettledInvariant == Spec => []SettledInv
  BY InitSettled, NextSettled, PTL DEF Spec

---------------------------------------------------------------------------
(* What follows from it. *)

\* No debt is settled twice, by whichever of a pull, a push and a refund gets
\* there first, and no check outlives it.
THEOREM PlanSettlesDebtOnce == Spec => []DebtIsSettledOnce
  <1>1. SettledInv => DebtIsSettledOnce
    <2> SUFFICES ASSUME SettledInv PROVE DebtIsSettledOnce
      OBVIOUS
    <2>1. Fits(plan) /\ ValueConserved /\ plan \in Plan
      BY DEF SettledInv, IInv, TypeOK
    <2>2. SettledDebtIsLeftAlone
      BY <2>1 DEF SettledDebtIsLeftAlone, Fits
    <2>3. NoDoubleClear
      <3>1. FaceValue(Cleared(plan)) \in Nat /\ FaceValue(Cleared(plan)) <= Principal
        BY FaceValueIsBounded DEF Cleared
      <3>2. plan.outstandingPrincipal = 0
              => Principal <= plan.totalCollected + plan.refundCredit
        BY <2>1, TermsAssumption DEF ValueConserved, Plan
      <3>3. plan.state # "Defaulted" /\ plan.outstandingPrincipal > 0
              => FaceValue(Cleared(plan)) <= plan.totalCollected + plan.refundCredit
        BY <2>1 DEF Fits, Tidy
      <3>4. /\ plan.outstandingPrincipal \in Nat
            /\ plan.totalCollected + plan.refundCredit \in Nat /\ Principal \in Nat
        BY <2>1, TermsAssumption DEF Plan
      <3> QED BY <3>1, <3>2, <3>3, <3>4 DEF NoDoubleClear
    <2> QED BY <2>2, <2>3 DEF DebtIsSettledOnce
  <1> QED BY <1>1, SettledInvariant, PTL

\* What a plan holds fits its state: the escrow pays for the marks still to be
\* made, the settled states are clean, and a debt keeps charge-off's clock.
THEOREM PlanFitsItsState == Spec => []BooksFitTheState
  <1>1. SettledInv => BooksFitTheState
    <2> SUFFICES ASSUME SettledInv PROVE BooksFitTheState
      OBVIOUS
    <2>1. Fits(plan) /\ ValueConserved /\ plan \in Plan
      BY DEF SettledInv, IInv, TypeOK
    <2>2. MarkBudgetFunded /\ SettledStatesAreClean
      BY <2>1 DEF MarkBudgetFunded, SettledStatesAreClean, Fits, Tidy
    <2>3. UnrefundedDebtKeepsAClock
      <3> SUFFICES ASSUME plan.refundCredit = 0, plan.outstandingPrincipal > 0,
                          ~IsTerminal(plan.state), Unpaid(plan) = {}
                   PROVE  FALSE
        BY DEF UnrefundedDebtKeepsAClock
      <3>1. Cleared(plan) = Index
        BY <2>1 DEF Unpaid, Cleared, Fits, Tidy
      <3>2. Principal <= plan.totalCollected + plan.refundCredit
        BY <2>1, <3>1, WholeFaceValue DEF Fits, Tidy, IsTerminal, TerminalStates
      <3>3. plan.feesPaid = 0
        BY <2>1 DEF Fits, Tidy, Plan
      <3>4. plan.totalCollected + plan.refundCredit
              = (Principal - plan.outstandingPrincipal) + plan.feesPaid
        BY <2>1 DEF ValueConserved
      <3>5. plan.outstandingPrincipal \in Nat /\ plan.totalCollected \in Nat
            /\ Principal \in Nat
        BY <2>1, TermsAssumption DEF Plan
      <3> QED BY <3>2, <3>3, <3>4, <3>5
    <2> QED BY <2>2, <2>3 DEF BooksFitTheState
  <1> QED BY <1>1, SettledInvariant, PTL

\* No call leaves a terminal state or rewrites the outcome of an installment.
THEOREM PlanOutcomesAreFinal == Spec => OutcomesAreFinal
  <1>1. SettledInv /\ [Next]_vars
          => [ /\ IsTerminal(plan.state) => plan'.state = plan.state
               /\ \A i \in Index :
                    plan.status[i] \in Outcomes => plan'.status[i] = plan.status[i] ]_vars
    BY NextSettled DEF Onward
  <1> QED BY <1>1, SettledInvariant, PTL DEF Spec, OutcomesAreFinal

---------------------------------------------------------------------------
(* The refinement.  What a plan has forwarded and what it still owes differ *)
(* from its principal by what entered beside the debt and what left to      *)
(* keepers, and Fits bounds both.                                           *)

LEMMA WithinItsTerms == SettledInv => Promise!WithinTerms(BookTerms, BookView)
  <1> SUFFICES ASSUME SettledInv PROVE Promise!WithinTerms(BookTerms, BookView)
    OBVIOUS
  <1>1. /\ plan \in Plan /\ Fits(plan) /\ ValueConserved /\ EscrowIsTheOnlyFloat
        /\ OneLateFee /\ donated \in Nat /\ swept \in Nat /\ donated <= MaxDonated
    BY DEF SettledInv, IInv, TypeOK
  <1>2. /\ plan.outstandingPrincipal \in Nat /\ plan.forwarded \in Nat
        /\ plan.markEscrow \in Nat /\ plan.keepers \in Nat /\ plan.feesPaid \in Nat
        /\ plan.feesOutstanding \in Nat /\ plan.balance \in Int
        /\ plan.totalCollected \in Nat /\ plan.refundCredit \in Nat
        /\ Principal \in Nat /\ MarkEscrowFor \in Nat /\ LateFee \in Nat
        /\ MaxDonated \in Nat
    BY <1>1, EscrowIsNat, LateFeeIsNat, TermsAssumption, InputsAssumption DEF Plan
  <1>3. plan.forwarded + plan.outstandingPrincipal
          = Principal + plan.feesPaid + (MarkEscrowFor - plan.markEscrow)
              + swept - plan.keepers
    BY <1>1, <1>2 DEF ValueConserved, EscrowIsTheOnlyFloat
  <1>4. plan.feesPaid <= LateFee
    BY <1>1, <1>2 DEF OneLateFee
  <1>5. swept <= MaxDonated
    BY <1>1, <1>2 DEF EscrowIsTheOnlyFloat
  <1>6. /\ plan.keepers + plan.markEscrow <= MarkEscrowFor + BountiesAllowed(plan)
        /\ BountiesAllowed(plan) \in Nat
        /\ BountiesAllowed(plan) <= InstallmentCount * BountyCap
        /\ InstallmentCount * BountyCap \in Nat
    <2>1. Cardinality(Retired(plan)) <= InstallmentCount
      BY IndexIsFinite, FS_Subset DEF Retired
    <2>2. Cardinality(Retired(plan)) \in Nat /\ BountiesAllowed(plan) \in Nat
      BY LiveCounts
    <2>3. BountiesAllowed(plan) <= InstallmentCount * BountyCap
      BY <2>1, <2>2, ProductIsMonotone, TermsAssumption, ParamsAssumption
         DEF BountiesAllowed
    <2> QED BY <1>1, <2>2, <2>3, ProductIsNat, TermsAssumption, ParamsAssumption
            DEF Fits, Tidy
  <1>7. /\ BookView.forwarded = plan.forwarded
        /\ BookView.outstanding = plan.outstandingPrincipal
        /\ BookTerms.principal = Principal
        /\ BookTerms.bounties = InstallmentCount * BountyCap
        /\ BookTerms.extras = LateFee + MarkEscrowFor + MaxDonated
    BY DEF BookView, BookTerms
  <1> DEFINE allowance == InstallmentCount * BountyCap
             seen == plan.forwarded + plan.outstandingPrincipal
  <1>8. seen >= Principal - allowance
    <2>1. plan.keepers <= (MarkEscrowFor - plan.markEscrow) + allowance
      BY <1>2, <1>6
    <2> HIDE DEF allowance
    <2>2. allowance \in Nat
      BY <1>6 DEF allowance
    <2> QED BY <1>1, <1>2, <1>3, <2>1, <2>2
  <1>9. seen <= Principal + (LateFee + MarkEscrowFor + MaxDonated)
    BY <1>1, <1>2, <1>3, <1>4, <1>5
  <1> QED BY <1>7, <1>8, <1>9 DEF Promise!WithinTerms

\* A settled plan has no check past its grace, and its state says so only when
\* the debt is gone.
LEMMA ViewOfASettledPlan ==
    SettledInv => /\ BookView.state \in Promise!DebtFree => BookView.outstanding = 0
                  /\ BookView.outstanding = 0 => ~BookView.late
  <1> SUFFICES ASSUME SettledInv
               PROVE  /\ BookView.state \in Promise!DebtFree => BookView.outstanding = 0
                      /\ BookView.outstanding = 0 => ~BookView.late
    OBVIOUS
  <1>1. plan \in Plan /\ Fits(plan)
    BY DEF SettledInv, IInv, TypeOK
  <1>2. /\ BookView.state = plan.state
        /\ BookView.outstanding = plan.outstandingPrincipal
        /\ BookView.late = (\E i \in Live(plan) : now > GraceEndsAt(plan, i, now))
    BY DEF BookView
  <1>3. plan.state \in {"Repaid", "Refunded", "SettledWithFeeOutstanding"}
          => plan.outstandingPrincipal = 0
    BY <1>1 DEF Fits, Tidy, PayoffAmount, Plan
  <1>4. plan.outstandingPrincipal = 0 => Live(plan) = {}
    BY <1>1 DEF Fits
  <1> QED BY <1>2, <1>3, <1>4 DEF Promise!DebtFree

\* A plan does what the funding book assumes of it: its debt only falls, what
\* it forwards only grows and stays within its terms, an absorbing state is
\* never left, and a settled plan has nothing left to mark.

\* A plan does what the funding book assumes of it: its debt only falls, what
\* it forwards only grows and stays within its terms, an absorbing state is
\* never left, and a settled plan has nothing left to mark.
THEOREM PlanKeepsItsPromise == Spec => KeepsItsPromise
  <1>1. Init => Promise!Init
    <2> SUFFICES ASSUME Init PROVE Promise!Init
      OBVIOUS
    <2> DEFINE late == \E i \in Live(plan) : now > GraceEndsAt(plan, i, now)
    <2>1. /\ plan.state = "Pending" /\ plan.forwarded = 0
          /\ plan.outstandingPrincipal = Principal
      BY DEF Init, NewPlan
    <2>2. late \in BOOLEAN
      OBVIOUS
    <2>3. BookView = [state |-> "Pending", outstanding |-> Principal,
                      forwarded |-> 0, late |-> late]
      BY <2>1 DEF BookView
    <2> HIDE DEF late
    <2>4. BookView = [Promise!Opening(BookTerms) EXCEPT !.late = late]
      BY <2>3 DEF Promise!Opening, BookTerms
    <2> QED BY <2>2, <2>4 DEF Promise!Init
  <1>2. SettledInv /\ [Next]_vars /\ SettledInv' => [Promise!Next]_BookView
    <2> SUFFICES ASSUME SettledInv, [Next]_vars, SettledInv'
                 PROVE  Promise!Follows(BookTerms, BookView, BookView')
      BY DEF Promise!Next
    <2>1. Onward(plan, plan')
      BY NextSettled
    <2>2. /\ BookView.state = plan.state /\ BookView'.state = plan'.state
          /\ BookView.outstanding = plan.outstandingPrincipal
          /\ BookView'.outstanding = plan'.outstandingPrincipal
          /\ BookView.forwarded = plan.forwarded
          /\ BookView'.forwarded = plan'.forwarded
      BY DEF BookView
    <2>3. /\ BookView'.outstanding <= BookView.outstanding
          /\ BookView'.forwarded >= BookView.forwarded
          /\ BookView.state \in Promise!Absorbing => BookView'.state = BookView.state
      BY <2>1, <2>2 DEF Onward, IsTerminal, TerminalStates, Promise!Absorbing
    <2>4. /\ BookView'.state \in Promise!DebtFree => BookView'.outstanding = 0
          /\ BookView'.outstanding = 0 => ~BookView'.late
      <3>1. SettledInv' => (/\ BookView.state \in Promise!DebtFree => BookView.outstanding = 0
                            /\ BookView.outstanding = 0 => ~BookView.late)'
        BY ViewOfASettledPlan, PTL
      <3> QED BY <3>1 DEF Promise!DebtFree
    <2>5. Promise!WithinTerms(BookTerms, BookView')
      <3>1. SettledInv' => Promise!WithinTerms(BookTerms, BookView)'
        BY WithinItsTerms, PTL
      <3> QED BY <3>1 DEF Promise!WithinTerms
    <2> QED BY <2>3, <2>4, <2>5 DEF Promise!Follows
  <1> QED BY <1>1, <1>2, SettledInvariant, PTL DEF Spec, KeepsItsPromise, Promise!Spec

---------------------------------------------------------------------------
(* A pull and a push commute.  Both run the waterfall and then settle the   *)
(* state; the waterfall adds up, and settling depends on the sums.          *)

Waterfall(p, q, gross) ==
    LET toPrincipal == Lesser(Applied(p, gross), p.outstandingPrincipal)
        toFees      == Applied(p, gross) - toPrincipal
    IN  /\ q.state = p.state /\ q.markEscrow = p.markEscrow
        /\ q.outstandingPrincipal = p.outstandingPrincipal - toPrincipal
        /\ q.feesOutstanding = p.feesOutstanding - toFees
        /\ q.feesPaid = p.feesPaid + toFees
        /\ q.totalCollected = p.totalCollected + Applied(p, gross)

\* What settling the state leaves, from the debt, the state and the statuses.
SettledAs(m, q, time) ==
    /\ q.outstandingPrincipal = m.outstandingPrincipal
    /\ q.feesOutstanding = m.feesOutstanding /\ q.feesPaid = m.feesPaid
    /\ q.totalCollected = m.totalCollected
    /\ \A j \in Index : q.status[j] =
         IF m.outstandingPrincipal = 0 /\ j \in Live(m) THEN "Cleared" ELSE m.status[j]
    /\ PayoffAmount(m) = 0
         => q.state = (IF IsTerminal(m.state) THEN m.state ELSE "Repaid") /\ q.markEscrow = 0
    /\ m.outstandingPrincipal = 0 /\ m.feesOutstanding > 0
         => /\ q.state = IF IsTerminal(m.state) THEN m.state ELSE "SettledWithFeeOutstanding"
            /\ q.markEscrow = m.markEscrow
    /\ m.outstandingPrincipal > 0
         => /\ q.state = IF \/ m.state = "Pending"
                            \/ m.state \in {"Grace", "Delinquent"} /\ IsCurrent(m, time)
                         THEN "Active" ELSE m.state
            /\ q.markEscrow = m.markEscrow

LEMMA AccountIsWaterfall ==
    ASSUME NEW p \in Plan, NEW gross
    PROVE  Waterfall(p, Account(p, gross), gross) /\ Account(p, gross).status = p.status
  BY DEF Account, Waterfall, Plan

LEMMA AfterInflowSettles ==
    ASSUME NEW m \in Plan, NEW time
    PROVE  SettledAs(m, AfterInflow(m, time), time)
  <1> DEFINE r == ResolveOutstanding(m, "Cleared")
             q == AfterInflow(m, time)
  <1>1. m.outstandingPrincipal \in Nat /\ m.feesOutstanding \in Nat
    BY DEF Plan
  <1>2. r \in Plan
    <2>1. [j \in Index |-> IF j \in Live(m) THEN "Cleared" ELSE m.status[j]]
            \in [Index -> InstallmentStatus]
      BY DEF Plan, InstallmentStatus
    <2> QED BY <2>1 DEF ResolveOutstanding, Plan
  <1>3. /\ SameMoney(m, r) /\ r.state = m.state
        /\ \A j \in Index : r.status[j] = IF j \in Live(m) THEN "Cleared" ELSE m.status[j]
    BY ResolveEffect
  <1> HIDE DEF r
  <1>4. CASE m.outstandingPrincipal = 0 /\ m.feesOutstanding = 0
    <2> DEFINE t == Transition(r, "Repaid")
    <2>1. q = ReleaseEscrow(t) /\ PayoffAmount(m) = 0
      BY <1>4 DEF AfterInflow, r, PayoffAmount
    <2>2. t \in Plan
      BY <1>2 DEF Transition, Plan, PlanState
    <2>3. /\ SameMoney(r, t) /\ t.status = r.status
          /\ t.state = IF IsTerminal(m.state) THEN m.state ELSE "Repaid"
      BY <1>2, <1>3, TransitionEffect
    <2> HIDE DEF t, q
    <2>4. /\ q.state = t.state /\ q.status = t.status /\ q.markEscrow = 0
          /\ q.outstandingPrincipal = t.outstandingPrincipal
          /\ q.feesOutstanding = t.feesOutstanding /\ q.feesPaid = t.feesPaid
          /\ q.totalCollected = t.totalCollected
      BY <2>1, <2>2, ReleaseEffect
    <2> QED BY <1>3, <1>4, <2>1, <2>3, <2>4 DEF SettledAs, SameMoney, q
  <1>5. CASE m.outstandingPrincipal = 0 /\ m.feesOutstanding # 0
    <2>1. q = Transition(r, "SettledWithFeeOutstanding") /\ PayoffAmount(m) # 0
      BY <1>1, <1>5 DEF AfterInflow, r, PayoffAmount
    <2>2. /\ SameMoney(r, q) /\ q.status = r.status
          /\ q.state = IF IsTerminal(m.state) THEN m.state ELSE "SettledWithFeeOutstanding"
      BY <1>2, <1>3, <2>1, TransitionEffect
    <2> HIDE DEF q
    <2> QED BY <1>1, <1>3, <1>5, <2>1, <2>2 DEF SettledAs, SameMoney, q
  <1>6. CASE m.outstandingPrincipal # 0
    <2> DEFINE lively == \/ m.state = "Pending"
                         \/ m.state \in {"Grace", "Delinquent"} /\ IsCurrent(m, time)
    <2>1. q = IF lively THEN Transition(m, "Active") ELSE m
      BY <1>6 DEF AfterInflow
    <2>2. lively => ~IsTerminal(m.state)
      BY DEF IsTerminal, TerminalStates
    <2>3. /\ SameMoney(m, q) /\ q.status = m.status
          /\ q.state = IF lively THEN "Active" ELSE m.state
      <3> HIDE DEF q, lively
      <3> QED BY <2>1, <2>2, TransitionEffect DEF SameMoney
    <2>4. PayoffAmount(m) # 0
      BY <1>1, <1>6 DEF PayoffAmount
    <2> HIDE DEF q
    <2> QED BY <1>1, <1>6, <2>3, <2>4 DEF SettledAs, SameMoney, q
  <1> QED BY <1>4, <1>5, <1>6

\* A pull is the waterfall of a check's face value with the check cleared.
LEMMA PullIsAnInflow ==
    ASSUME NEW p, NEW given \in Nat, NEW float \in Int, NEW at \in Nat,
           Sound(p, given, float, at),
           NEW i \in Index, NEW time \in Nat, time >= DueDate(i)
    PROVE  \E m \in Plan :
             /\ Waterfall(p, m, InstallmentAmount(i))
             /\ m.status = [p.status EXCEPT ![i] = "Cleared"]
             /\ SettledAs(m, SettleCleared(p, i, time), time)
  <1> DEFINE amount  == InstallmentAmount(i)
             applied == Applied(p, amount)
             bounty  == Lesser(CollectBounty(amount, time - DueDate(i)), applied)
             cleared == [p EXCEPT !.status[i] = "Cleared"]
             booked  == Account(cleared, amount)
             paid    == PayKeeper(booked, bounty)
             mid     == Forward(paid, applied - bounty)
  <1>1. p \in Plan /\ amount \in Nat
    BY InstallmentIsNat DEF Sound
  <1>2. applied \in Nat
    BY <1>1, AppliedIsNat
  <1>3. bounty \in Nat /\ bounty <= applied
    <2>1. time - DueDate(i) \in Nat
      BY DueDateIsInt
    <2>2. CollectBounty(amount, time - DueDate(i)) \in Nat
      <3>1. CollectBounty(amount, time - DueDate(i)) \in 0 .. amount
        BY <1>1, <2>1, BountyIsNat
      <3> QED BY <1>1, <3>1
    <2> QED BY <1>2, <2>2 DEF Lesser
  <1>4. SettleCleared(p, i, time) = AfterInflow(mid, time)
    BY DEF SettleCleared
  <1>5. Applied(cleared, amount) = applied
    BY <1>1, StatusKeepsApplied
  <1> HIDE DEF amount, bounty
  <1>6. Sound(cleared, given, float, at)
    BY StatusOfOneSound DEF InstallmentStatus
  <1>7. Sound(booked, given, float + applied, at)
    BY <1>1, <1>5, <1>6, AccountSound
  <1> DEFINE loose == float + applied
  <1>8. loose \in Int /\ loose - bounty \in Int /\ applied - bounty \in Nat
    BY <1>2, <1>3
  <1>9. Sound(paid, given, loose - bounty, at)
    <2>1. Sound(booked, given, loose, at)
      BY <1>7
    <2> HIDE DEF loose, booked
    <2> QED BY <1>3, <1>8, <2>1, PayKeeperSound
  <1>10. mid \in Plan /\ paid \in Plan /\ booked \in Plan /\ cleared \in Plan
    <2>1. Sound(mid, given, (loose - bounty) - (applied - bounty), at)
      <3> HIDE DEF loose, paid, applied
      <3> QED BY <1>8, <1>9, ForwardSound
    <2> QED BY <1>6, <1>7, <1>9, <2>1 DEF Sound
  <1>11. /\ cleared.state = p.state
         /\ cleared.status = [p.status EXCEPT ![i] = "Cleared"]
         /\ SameMoney(p, cleared)
    BY <1>1 DEF Plan, SameMoney
  <1> HIDE DEF cleared
  <1>12. Waterfall(cleared, booked, amount) /\ booked.status = cleared.status
    BY <1>10, AccountIsWaterfall
  <1> HIDE DEF booked
  <1>13. /\ paid.state = booked.state /\ paid.status = booked.status
         /\ paid.outstandingPrincipal = booked.outstandingPrincipal
         /\ paid.feesOutstanding = booked.feesOutstanding
         /\ paid.feesPaid = booked.feesPaid
         /\ paid.totalCollected = booked.totalCollected
         /\ paid.markEscrow = booked.markEscrow
    BY <1>10, PayKeeperEffect
  <1> HIDE DEF paid
  <1>14. /\ mid.state = paid.state /\ mid.status = paid.status
         /\ mid.outstandingPrincipal = paid.outstandingPrincipal
         /\ mid.feesOutstanding = paid.feesOutstanding
         /\ mid.feesPaid = paid.feesPaid
         /\ mid.totalCollected = paid.totalCollected
         /\ mid.markEscrow = paid.markEscrow
    BY <1>10, ForwardEffect
  <1> HIDE DEF mid
  <1>15. Waterfall(p, mid, amount)
    BY <1>5, <1>11, <1>12, <1>13, <1>14 DEF Waterfall, SameMoney
  <1>16. SettledAs(mid, SettleCleared(p, i, time), time)
    BY <1>4, <1>10, AfterInflowSettles
  <1> QED BY <1>10, <1>11, <1>12, <1>13, <1>14, <1>15, <1>16 DEF amount

LEMMA PushIsAnInflow ==
    ASSUME NEW p, NEW given \in Nat, NEW float \in Int, NEW at \in Nat,
           Sound(p, given, float, at), NEW amount \in Nat, NEW time
    PROVE  \E m \in Plan :
             /\ Waterfall(p, m, amount) /\ m.status = p.status
             /\ SettledAs(m, Repaid(p, amount, time), time)
  <1> DEFINE applied == Applied(p, amount)
             booked  == Account(p, amount)
             mid     == Forward(booked, applied)
  <1>1. p \in Plan /\ applied \in Nat
    BY AppliedIsNat DEF Sound
  <1>2. Repaid(p, amount, time) = AfterInflow(mid, time)
    BY DEF Repaid
  <1>3. Sound(booked, given, float + applied, at)
    BY AccountSound
  <1>4. mid \in Plan /\ booked \in Plan
    <2> DEFINE loose == float + applied
    <2>1. loose \in Int
      BY <1>1
    <2>2. Sound(booked, given, loose, at)
      BY <1>3
    <2> HIDE DEF loose, booked, applied
    <2>3. Sound(mid, given, loose - applied, at)
      BY <1>1, <2>1, <2>2, ForwardSound
    <2> QED BY <2>2, <2>3 DEF Sound
  <1>5. Waterfall(p, booked, amount) /\ booked.status = p.status
    BY <1>1, AccountIsWaterfall
  <1> HIDE DEF booked, applied
  <1>6. /\ mid.state = booked.state /\ mid.status = booked.status
        /\ mid.outstandingPrincipal = booked.outstandingPrincipal
        /\ mid.feesOutstanding = booked.feesOutstanding
        /\ mid.feesPaid = booked.feesPaid
        /\ mid.totalCollected = booked.totalCollected
        /\ mid.markEscrow = booked.markEscrow
    BY <1>4, ForwardEffect
  <1> HIDE DEF mid
  <1>7. SettledAs(mid, Repaid(p, amount, time), time)
    BY <1>2, <1>4, AfterInflowSettles
  <1> QED BY <1>4, <1>5, <1>6, <1>7 DEF Waterfall

\* The waterfall adds up: two amounts retire the same debt in either order.
LEMMA WaterfallAddsUp ==
    ASSUME NEW p \in Plan, NEW a \in Nat, NEW b \in Nat,
           NEW m \in Plan, NEW q \in Plan, NEW n \in Plan,
           Waterfall(p, m, a),
           q.outstandingPrincipal = m.outstandingPrincipal,
           q.feesOutstanding = m.feesOutstanding, q.feesPaid = m.feesPaid,
           q.totalCollected = m.totalCollected,
           Waterfall(q, n, b)
    PROVE  LET applied == Applied(p, a + b)
               toPrincipal == Lesser(applied, p.outstandingPrincipal)
           IN  /\ n.outstandingPrincipal = p.outstandingPrincipal - toPrincipal
               /\ n.feesOutstanding = p.feesOutstanding - (applied - toPrincipal)
               /\ n.feesPaid = p.feesPaid + (applied - toPrincipal)
               /\ n.totalCollected = p.totalCollected + applied
  <1>1. /\ p.outstandingPrincipal \in Nat /\ p.feesOutstanding \in Nat
        /\ p.feesPaid \in Nat /\ p.totalCollected \in Nat
    BY DEF Plan
  <1> QED BY <1>1 DEF Waterfall, Applied, PayoffAmount, Lesser

\* What two amounts leave of a plan that takes them both, one of them as the
\* proceeds of check `i`: nothing in it says which came first.
BothPaid(p, i, total, time, q) ==
    LET applied     == Applied(p, total)
        toPrincipal == Lesser(applied, p.outstandingPrincipal)
    IN  /\ q.outstandingPrincipal = p.outstandingPrincipal - toPrincipal
        /\ q.feesOutstanding = p.feesOutstanding - (applied - toPrincipal)
        /\ q.feesPaid = p.feesPaid + (applied - toPrincipal)
        /\ q.totalCollected = p.totalCollected + applied
        /\ \A j \in Index : q.status[j] =
             IF j = i \/ (q.outstandingPrincipal = 0 /\ j \in Live(p))
             THEN "Cleared" ELSE p.status[j]
        /\ PayoffAmount(q) = 0 => q.state = "Repaid" /\ q.markEscrow = 0
        /\ q.outstandingPrincipal = 0 /\ q.feesOutstanding > 0
             => q.state = "SettledWithFeeOutstanding" /\ q.markEscrow = p.markEscrow
        /\ q.outstandingPrincipal > 0
             => /\ q.state = IF \/ p.state = "Pending"
                                \/ p.state \in {"Grace", "Delinquent"} /\ IsCurrent(q, time)
                             THEN "Active" ELSE p.state
                /\ q.markEscrow = p.markEscrow

LEMMA BothPaidDecidesTheBooks ==
    ASSUME NEW p \in Plan, NEW i \in Index, NEW total, NEW time,
           NEW q \in Plan, BothPaid(p, i, total, time, q),
           NEW r \in Plan, BothPaid(p, i, total, time, r)
    PROVE  Books(q) = Books(r)
  <1>1. /\ q.outstandingPrincipal = r.outstandingPrincipal
        /\ q.feesOutstanding = r.feesOutstanding
        /\ q.feesPaid = r.feesPaid /\ q.totalCollected = r.totalCollected
    BY DEF BothPaid
  <1>2. q.status = r.status
    <2>1. q.status \in [Index -> InstallmentStatus] /\ r.status \in [Index -> InstallmentStatus]
      BY DEF Plan
    <2>2. \A j \in Index : q.status[j] = r.status[j]
      BY <1>1 DEF BothPaid
    <2> QED BY <2>1, <2>2
  <1>3. IsCurrent(q, time) = IsCurrent(r, time) /\ PayoffAmount(q) = PayoffAmount(r)
    BY <1>1 DEF IsCurrent, PayoffAmount
  <1>4. /\ q.outstandingPrincipal \in Nat /\ q.feesOutstanding \in Nat
        /\ PayoffAmount(q) = q.outstandingPrincipal + q.feesOutstanding
    BY DEF Plan, PayoffAmount
  <1>5. q.state = r.state /\ q.markEscrow = r.markEscrow
    <2>1. CASE q.outstandingPrincipal > 0
      BY <1>1, <1>3, <2>1 DEF BothPaid
    <2>2. CASE q.outstandingPrincipal = 0 /\ q.feesOutstanding > 0
      BY <1>1, <2>2 DEF BothPaid
    <2>3. CASE q.outstandingPrincipal = 0 /\ q.feesOutstanding = 0
      <3>1. PayoffAmount(q) = 0
        BY <1>4, <2>3
      <3> QED BY <1>3, <3>1 DEF BothPaid
    <2> QED BY <1>4, <2>1, <2>2, <2>3
  <1> QED BY <1>1, <1>2, <1>5 DEF Books

LEMMA ScheduleIsNat == \A at : ScheduledThrough(at) \in Nat
  <1> TAKE at
  <1> DEFINE due == {i \in Index : DueDate(i) <= at}
  <1>1. Cardinality(due) \in Nat
    <2>1. IsFiniteSet(due)
      BY SubsetsAreFinite
    <2> QED BY <2>1, FS_CardinalityType
  <1>2. /\ Principal \div InstallmentCount \in Nat
        /\ Principal % InstallmentCount \in Nat
    BY TermsAssumption, QuotientIsNat
  <1> HIDE DEF due
  <1>3. Cardinality(due) * (Principal \div InstallmentCount) \in Nat
    BY <1>1, <1>2, ProductIsNat
  <1> QED BY <1>2, <1>3 DEF ScheduledThrough, due

\* A borrower who is current stays so when more is paid.
LEMMA CurrentStaysCurrent ==
    ASSUME NEW m \in Plan, NEW n \in Plan, NEW time, IsCurrent(m, time),
           n.outstandingPrincipal <= m.outstandingPrincipal,
           n.feesOutstanding <= m.feesOutstanding
    PROVE  IsCurrent(n, time)
  BY ScheduleIsNat, TermsAssumption DEF IsCurrent, Plan

LEMMA WaterfallOnlyFalls ==
    ASSUME NEW p \in Plan, NEW m \in Plan, NEW gross \in Nat, Waterfall(p, m, gross)
    PROVE  /\ m.outstandingPrincipal <= p.outstandingPrincipal
           /\ m.feesOutstanding <= p.feesOutstanding
  BY DEF Waterfall, Applied, PayoffAmount, Lesser, Plan

\* The state two inflows leave, whichever of them settled it.
LEMMA StateAfterTwo ==
    ASSUME NEW p \in Plan, ~IsTerminal(p.state), p.state # "SettledWithFeeOutstanding",
           NEW time, NEW m \in Plan, NEW q \in Plan, NEW n \in Plan, NEW r \in Plan,
           NEW a \in Nat, NEW b \in Nat,
           Waterfall(p, m, a), SettledAs(m, q, time), q.state # "Repaid",
           Waterfall(q, n, b), SettledAs(n, r, time)
    PROVE  /\ PayoffAmount(r) = 0 => r.state = "Repaid" /\ r.markEscrow = 0
           /\ r.outstandingPrincipal = 0 /\ r.feesOutstanding > 0
                => r.state = "SettledWithFeeOutstanding" /\ r.markEscrow = p.markEscrow
           /\ r.outstandingPrincipal > 0
                => /\ r.state = IF \/ p.state = "Pending"
                                   \/ p.state \in {"Grace", "Delinquent"} /\ IsCurrent(r, time)
                                THEN "Active" ELSE p.state
                   /\ r.markEscrow = p.markEscrow
  <1>1. /\ m.outstandingPrincipal \in Nat /\ m.feesOutstanding \in Nat
        /\ q.outstandingPrincipal \in Nat /\ q.feesOutstanding \in Nat
        /\ n.outstandingPrincipal \in Nat /\ n.feesOutstanding \in Nat
    BY DEF Plan
  <1>2. /\ q.outstandingPrincipal = m.outstandingPrincipal
        /\ q.feesOutstanding = m.feesOutstanding
        /\ r.outstandingPrincipal = n.outstandingPrincipal
        /\ r.feesOutstanding = n.feesOutstanding
        /\ m.state = p.state /\ m.markEscrow = p.markEscrow
        /\ n.state = q.state /\ n.markEscrow = q.markEscrow
    BY DEF SettledAs, Waterfall
  <1>3. /\ n.outstandingPrincipal <= m.outstandingPrincipal
        /\ n.feesOutstanding <= m.feesOutstanding
    BY <1>2, WaterfallOnlyFalls
  <1>4. IsCurrent(n, time) = IsCurrent(r, time) /\ PayoffAmount(n) = PayoffAmount(r)
    BY <1>2 DEF IsCurrent, PayoffAmount
  <1>5. PayoffAmount(m) # 0
    BY <1>2 DEF SettledAs
  <1>6. q.markEscrow = p.markEscrow /\ ~IsTerminal(q.state)
        /\ (m.outstandingPrincipal > 0
              => q.state = IF \/ p.state = "Pending"
                              \/ p.state \in {"Grace", "Delinquent"} /\ IsCurrent(m, time)
                           THEN "Active" ELSE p.state)
    <2>1. CASE m.outstandingPrincipal > 0
      BY <1>2, <2>1 DEF SettledAs, IsTerminal, TerminalStates
    <2>2. CASE m.outstandingPrincipal = 0
      <3>1. m.feesOutstanding > 0
        BY <1>1, <1>5, <2>2 DEF PayoffAmount
      <3> QED BY <1>2, <2>2, <3>1 DEF SettledAs, IsTerminal, TerminalStates
    <2> QED BY <1>1, <2>1, <2>2
  <1>7. IsCurrent(m, time) => IsCurrent(n, time)
    BY <1>3, CurrentStaysCurrent
  <1>8. CASE n.outstandingPrincipal > 0
    <2>1. m.outstandingPrincipal > 0
      BY <1>1, <1>3, <1>8
    <2>2. PayoffAmount(n) # 0
      BY <1>1, <1>8 DEF PayoffAmount
    <2>3. r.state = (IF \/ n.state = "Pending"
                        \/ n.state \in {"Grace", "Delinquent"} /\ IsCurrent(n, time)
                     THEN "Active" ELSE n.state) /\ r.markEscrow = n.markEscrow
      BY <1>8 DEF SettledAs
    <2>4. q.state = IF \/ p.state = "Pending"
                       \/ p.state \in {"Grace", "Delinquent"} /\ IsCurrent(m, time)
                    THEN "Active" ELSE p.state
      BY <1>6, <2>1
    <2>5. r.state = IF \/ p.state = "Pending"
                       \/ p.state \in {"Grace", "Delinquent"} /\ IsCurrent(n, time)
                    THEN "Active" ELSE p.state
      BY <1>2, <1>7, <2>3, <2>4
    <2> QED BY <1>2, <1>3, <1>4, <1>6, <1>8, <2>2, <2>3, <2>5
  <1>9. CASE n.outstandingPrincipal = 0
    <2>1. n.feesOutstanding > 0 => PayoffAmount(n) # 0
      BY <1>1, <1>9 DEF PayoffAmount
    <2>2. PayoffAmount(n) = 0 => r.state = "Repaid" /\ r.markEscrow = 0
      BY <1>2, <1>6 DEF SettledAs
    <2>3. n.feesOutstanding > 0
            => r.state = "SettledWithFeeOutstanding" /\ r.markEscrow = p.markEscrow
      BY <1>2, <1>6, <1>9 DEF SettledAs
    <2> QED BY <1>1, <1>2, <1>3, <1>4, <1>9, <2>1, <2>2, <2>3
  <1> QED BY <1>1, <1>8, <1>9

\* In both orders the call that comes second finds a plan still open.
CommutesFor(p, i, amount, time) ==
    LET pulled == SettleCleared(p, i, time)
        pushed == Repaid(p, amount, time)
    IN  /\ CanCollect(p, i, time) /\ CanRepay(p)
        /\ CanCollect(pushed, i, time) /\ CanRepay(pulled)

LEMMA PullThenPush ==
    ASSUME NEW p, NEW given \in Nat, NEW float \in Int, NEW at \in Nat,
           Sound(p, given, float, at), NEW i \in Index, NEW amount \in Nat,
           NEW time \in 0 .. at, CommutesFor(p, i, amount, time)
    PROVE  LET r == Repaid(SettleCleared(p, i, time), amount, time)
           IN  r \in Plan /\ BothPaid(p, i, InstallmentAmount(i) + amount, time, r)
  <1> DEFINE q == SettleCleared(p, i, time)
             r == Repaid(q, amount, time)
  <1>1. /\ ~IsTerminal(p.state) /\ p.state # "SettledWithFeeOutstanding"
        /\ i \in Live(p) /\ time >= DueDate(i) /\ time \in Nat /\ q.state # "Repaid"
    BY DEF CommutesFor, CanCollect, CanRepay
  <1>2. InstallmentAmount(i) \in Nat
    BY InstallmentIsNat
  <1>3. Sound(q, given, float, at)
    BY <1>1, SettleClearedSound
  <1>4. PICK m \in Plan :
          /\ Waterfall(p, m, InstallmentAmount(i))
          /\ m.status = [p.status EXCEPT ![i] = "Cleared"]
          /\ SettledAs(m, q, time)
    BY <1>1, PullIsAnInflow
  <1> HIDE DEF q
  <1>5. Sound(r, given, float, at)
    BY <1>3, RepaidSound
  <1>6. PICK n \in Plan :
          /\ Waterfall(q, n, amount) /\ n.status = q.status /\ SettledAs(n, r, time)
    BY <1>3, PushIsAnInflow
  <1> HIDE DEF r
  <1>7. p \in Plan /\ q \in Plan /\ r \in Plan
    BY <1>3, <1>5 DEF Sound
  <1>8. /\ q.outstandingPrincipal = m.outstandingPrincipal
        /\ q.feesOutstanding = m.feesOutstanding /\ q.feesPaid = m.feesPaid
        /\ q.totalCollected = m.totalCollected
        /\ r.outstandingPrincipal = n.outstandingPrincipal
        /\ r.feesOutstanding = n.feesOutstanding /\ r.feesPaid = n.feesPaid
        /\ r.totalCollected = n.totalCollected
    BY <1>4, <1>6 DEF SettledAs
  <1>9. \A j \in Index : r.status[j] =
          IF j = i \/ (r.outstandingPrincipal = 0 /\ j \in Live(p))
          THEN "Cleared" ELSE p.status[j]
    <2> TAKE j \in Index
    <2>1. /\ q.status[j] = IF m.outstandingPrincipal = 0 /\ j \in Live(m)
                           THEN "Cleared" ELSE m.status[j]
          /\ r.status[j] = IF n.outstandingPrincipal = 0 /\ j \in Live(n)
                           THEN "Cleared" ELSE n.status[j]
      BY <1>4, <1>6 DEF SettledAs
    <2>2. /\ j \in Live(p) <=> p.status[j] \in {"Pending", "Bounced"}
          /\ j \in Live(m) <=> m.status[j] \in {"Pending", "Bounced"}
          /\ j \in Live(n) <=> n.status[j] \in {"Pending", "Bounced"}
      BY DEF Live
    <2>3. m.status[j] = IF j = i THEN "Cleared" ELSE p.status[j]
      BY <1>4, <1>7 DEF Plan
    <2>4. m.outstandingPrincipal = 0 => n.outstandingPrincipal = 0
      <3>1. n.outstandingPrincipal <= q.outstandingPrincipal
        BY <1>6, <1>7, WaterfallOnlyFalls
      <3> QED BY <1>8, <3>1 DEF Plan
    <2>5. n.status[j] = q.status[j] /\ r.outstandingPrincipal = n.outstandingPrincipal
      BY <1>6, <1>8
    <2> QED BY <2>1, <2>2, <2>3, <2>4, <2>5
  <1>10. LET applied == Applied(p, InstallmentAmount(i) + amount)
             toPrincipal == Lesser(applied, p.outstandingPrincipal)
         IN  /\ n.outstandingPrincipal = p.outstandingPrincipal - toPrincipal
             /\ n.feesOutstanding = p.feesOutstanding - (applied - toPrincipal)
             /\ n.feesPaid = p.feesPaid + (applied - toPrincipal)
             /\ n.totalCollected = p.totalCollected + applied
    BY <1>2, <1>4, <1>6, <1>7, <1>8, WaterfallAddsUp
  <1>11. /\ PayoffAmount(r) = 0 => r.state = "Repaid" /\ r.markEscrow = 0
         /\ r.outstandingPrincipal = 0 /\ r.feesOutstanding > 0
              => r.state = "SettledWithFeeOutstanding" /\ r.markEscrow = p.markEscrow
         /\ r.outstandingPrincipal > 0
              => /\ r.state = IF \/ p.state = "Pending"
                                 \/ p.state \in {"Grace", "Delinquent"} /\ IsCurrent(r, time)
                              THEN "Active" ELSE p.state
                 /\ r.markEscrow = p.markEscrow
    BY <1>1, <1>2, <1>4, <1>6, <1>7, StateAfterTwo
  <1>12. BothPaid(p, i, InstallmentAmount(i) + amount, time, r)
    BY <1>8, <1>9, <1>10, <1>11 DEF BothPaid
  <1> QED BY <1>7, <1>12 DEF q, r

LEMMA PushThenPull ==
    ASSUME NEW p, NEW given \in Nat, NEW float \in Int, NEW at \in Nat,
           Sound(p, given, float, at), NEW i \in Index, NEW amount \in Nat,
           NEW time \in 0 .. at, CommutesFor(p, i, amount, time)
    PROVE  LET r == SettleCleared(Repaid(p, amount, time), i, time)
           IN  r \in Plan /\ BothPaid(p, i, InstallmentAmount(i) + amount, time, r)
  <1> DEFINE q == Repaid(p, amount, time)
             r == SettleCleared(q, i, time)
  <1>1. /\ ~IsTerminal(p.state) /\ p.state # "SettledWithFeeOutstanding"
        /\ i \in Live(q) /\ time >= DueDate(i) /\ time \in Nat
        /\ ~IsTerminal(q.state)
    BY DEF CommutesFor, CanCollect
  <1>2. InstallmentAmount(i) \in Nat /\ InstallmentAmount(i) + amount = amount + InstallmentAmount(i)
    BY InstallmentIsNat
  <1>3. Sound(q, given, float, at)
    BY RepaidSound
  <1>4. PICK m \in Plan :
          Waterfall(p, m, amount) /\ m.status = p.status /\ SettledAs(m, q, time)
    BY PushIsAnInflow
  <1> HIDE DEF q
  <1>5. Sound(r, given, float, at)
    BY <1>1, <1>3, SettleClearedSound
  <1>6. PICK n \in Plan :
          /\ Waterfall(q, n, InstallmentAmount(i))
          /\ n.status = [q.status EXCEPT ![i] = "Cleared"]
          /\ SettledAs(n, r, time)
    BY <1>1, <1>3, PullIsAnInflow
  <1> HIDE DEF r
  <1>7. p \in Plan /\ q \in Plan /\ r \in Plan
    BY <1>3, <1>5 DEF Sound
  <1>8. /\ q.outstandingPrincipal = m.outstandingPrincipal
        /\ q.feesOutstanding = m.feesOutstanding /\ q.feesPaid = m.feesPaid
        /\ q.totalCollected = m.totalCollected
        /\ r.outstandingPrincipal = n.outstandingPrincipal
        /\ r.feesOutstanding = n.feesOutstanding /\ r.feesPaid = n.feesPaid
        /\ r.totalCollected = n.totalCollected
    BY <1>4, <1>6 DEF SettledAs
  <1>9. \A j \in Index : q.status[j] = p.status[j]
    <2>1. \A j \in Index : q.status[j] =
            IF m.outstandingPrincipal = 0 /\ j \in Live(m) THEN "Cleared" ELSE m.status[j]
      BY <1>4 DEF SettledAs
    <2>2. m.outstandingPrincipal # 0
      <3> SUFFICES ASSUME m.outstandingPrincipal = 0 PROVE FALSE
        OBVIOUS
      <3>1. q.status[i] \notin {"Pending", "Bounced"}
        BY <2>1 DEF Live
      <3> QED BY <1>1, <3>1 DEF Live
    <2> QED BY <1>4, <2>1, <2>2
  <1>10. \A j \in Index : r.status[j] =
           IF j = i \/ (r.outstandingPrincipal = 0 /\ j \in Live(p))
           THEN "Cleared" ELSE p.status[j]
    <2> TAKE j \in Index
    <2>1. r.status[j] = IF n.outstandingPrincipal = 0 /\ j \in Live(n)
                        THEN "Cleared" ELSE n.status[j]
      BY <1>6 DEF SettledAs
    <2>2. n.status[j] = IF j = i THEN "Cleared" ELSE p.status[j]
      BY <1>6, <1>7, <1>9 DEF Plan
    <2>3. /\ j \in Live(p) <=> p.status[j] \in {"Pending", "Bounced"}
          /\ j \in Live(n) <=> n.status[j] \in {"Pending", "Bounced"}
      BY DEF Live
    <2> QED BY <1>8, <2>1, <2>2, <2>3
  <1>11. LET applied == Applied(p, InstallmentAmount(i) + amount)
             toPrincipal == Lesser(applied, p.outstandingPrincipal)
         IN  /\ n.outstandingPrincipal = p.outstandingPrincipal - toPrincipal
             /\ n.feesOutstanding = p.feesOutstanding - (applied - toPrincipal)
             /\ n.feesPaid = p.feesPaid + (applied - toPrincipal)
             /\ n.totalCollected = p.totalCollected + applied
    BY <1>2, <1>4, <1>6, <1>7, <1>8, WaterfallAddsUp
  <1>12. q.state # "Repaid"
    BY <1>1 DEF IsTerminal, TerminalStates
  <1>13. /\ PayoffAmount(r) = 0 => r.state = "Repaid" /\ r.markEscrow = 0
         /\ r.outstandingPrincipal = 0 /\ r.feesOutstanding > 0
              => r.state = "SettledWithFeeOutstanding" /\ r.markEscrow = p.markEscrow
         /\ r.outstandingPrincipal > 0
              => /\ r.state = IF \/ p.state = "Pending"
                                 \/ p.state \in {"Grace", "Delinquent"} /\ IsCurrent(r, time)
                              THEN "Active" ELSE p.state
                 /\ r.markEscrow = p.markEscrow
    BY <1>1, <1>2, <1>4, <1>6, <1>7, <1>12, StateAfterTwo
  <1>14. BothPaid(p, i, InstallmentAmount(i) + amount, time, r)
    BY <1>8, <1>10, <1>11, <1>13 DEF BothPaid
  <1> QED BY <1>7, <1>14 DEF q, r

\* The order of a keeper's pull and a borrower's push in one block does not
\* matter: the books they leave are the same, for every schedule and amount.
THEOREM PlanInflowsCommute == Spec => []RepayAndCollectCommute
  <1>1. SettledInv => RepayAndCollectCommute
    <2> SUFFICES ASSUME SettledInv, NEW i \in Index, NEW amount \in RepayAmounts,
                        CommutesFor(plan, i, amount, now)
                 PROVE  Books(Repaid(SettleCleared(plan, i, now), amount, now))
                          = Books(SettleCleared(Repaid(plan, amount, now), i, now))
      BY DEF RepayAndCollectCommute, CommutesFor, Collected
    <2>1. WorldOK /\ Sound(plan, donated, Float, now)
      BY IInvIsSoundness DEF SettledInv
    <2>2. /\ donated \in Nat /\ Float \in Int /\ now \in Nat /\ now \in 0 .. now
          /\ amount \in Nat /\ plan \in Plan
      BY <2>1, InputsAssumption DEF WorldOK, Float, Sound
    <2> DEFINE q == Repaid(SettleCleared(plan, i, now), amount, now)
               r == SettleCleared(Repaid(plan, amount, now), i, now)
    <2>3. q \in Plan /\ BothPaid(plan, i, InstallmentAmount(i) + amount, now, q)
      BY <2>1, <2>2, PullThenPush
    <2>4. r \in Plan /\ BothPaid(plan, i, InstallmentAmount(i) + amount, now, r)
      BY <2>1, <2>2, PushThenPull
    <2> HIDE DEF q, r
    <2>5. Books(q) = Books(r)
      BY <2>2, <2>3, <2>4, BothPaidDecidesTheBooks
    <2> QED BY <2>5 DEF q, r
  <1> QED BY <1>1, SettledInvariant, PTL
=============================================================================
