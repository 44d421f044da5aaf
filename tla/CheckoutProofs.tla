--------------------------- MODULE CheckoutProofs ---------------------------
(***************************************************************************)
(* What the checkout side keeps for any number of merchants, plans and     *)
(* destinations, any terms and any parameters, in the order proved here:   *)
(*                                                                         *)
(*  1. BondInv: what a merchant was withheld stays part of its bond.  A    *)
(*     slash takes what a dispute was opened for, and a dispute may be     *)
(*     sized on a settlement in escrow, so all three are amounts.          *)
(*  2. LedgerInv: the ledgers of the registry, the pool and the custodians *)
(*     agree.  One group of conjuncts per contract, and the sums over the  *)
(*     rows of a ledger move with the one row a call writes.               *)
(*  3. Safer: each step either leaves a merchant's bond at least as far    *)
(*     above its requirement as it was, or is the execution of a dispute.  *)
(*  4. MeterInv: the bucket of a new merchant, with what it has leaked,    *)
(*     bounds what was sold over every stretch of its vesting.             *)
(***************************************************************************)
EXTENDS Checkout, PoolLogicProofs

MerchantFields ==
    {"registered", "kybVerified", "registeredAt", "payoutDomain", "bond",
     "withheld", "outstandingFronted", "bucket", "bucketAt", "category"}

\* A merchant's record whose withheld part is within its bond.
Bonded(r) ==
    /\ r = [f \in MerchantFields |-> r[f]]
    /\ r.bond \in Int /\ r.withheld \in Int
    /\ r.withheld <= r.bond

EscrowFields == {"state", "amount", "domain", "heldAt", "attestedAt"}

IsRow(r) == r = [f \in EscrowFields |-> r[f]] /\ r.amount \in Int

IsDispute(d) == d.amount \in Int

RefundFields == {"credited", "rebateOwed", "rebateReserve", "disputes"}

MerchantsOK ==
    /\ merchants = [m \in Merchants |-> merchants[m]]
    /\ \A m \in Merchants : Bonded(merchants[m])

EscrowsOK ==
    /\ escrows = [k \in Plans |-> escrows[k]]
    /\ \A k \in Plans : IsRow(escrows[k])

DisputesOK(disputes) ==
    /\ disputes = [k \in Plans |-> disputes[k]]
    /\ \A k \in Plans : IsDispute(disputes[k])

RefundsOK ==
    /\ refunds = [f \in RefundFields |-> refunds[f]]
    /\ DisputesOK(refunds.disputes)

BondInv == MerchantsOK /\ EscrowsOK /\ RefundsOK

---------------------------------------------------------------------------
(* One merchant's record. *)

LEMMA RegisteredBonded ==
    ASSUME NEW r, Bonded(r), NEW domain, NEW at
    PROVE  Bonded(Registered(r, domain, at))
  BY DEF Bonded, Registered, MerchantFields

LEMMA TakenBonded ==
    ASSUME NEW r, Bonded(r), NEW amount \in Int, amount <= r.bond
    PROVE  Bonded(BondTaken(r, amount))
  <1> DEFINE q == BondTaken(r, amount)
  <1>1. /\ q = [f \in MerchantFields |-> q[f]]
        /\ q.bond = r.bond - amount
        /\ q.withheld = Less(r.withheld, amount)
    BY DEF Bonded, BondTaken, MerchantFields
  <1>2. /\ r.bond - amount \in Int
        /\ Less(r.withheld, amount) \in Int
        /\ Less(r.withheld, amount) <= r.bond - amount
    BY DEF Bonded, Less
  <1> QED BY <1>1, <1>2 DEF Bonded

LEMMA PostedBonded ==
    ASSUME NEW r, Bonded(r), NEW amount \in Int
    PROVE  Bonded(WithheldPosted(r, amount))
  <1> DEFINE q == WithheldPosted(r, amount)
  <1>1. /\ q = [f \in MerchantFields |-> q[f]]
        /\ q.bond = r.bond + amount
        /\ q.withheld = r.withheld + amount
    BY DEF Bonded, WithheldPosted, MerchantFields
  <1>2. /\ r.bond + amount \in Int
        /\ r.withheld + amount \in Int
        /\ r.withheld + amount <= r.bond + amount
    BY DEF Bonded
  <1> QED BY <1>1, <1>2 DEF Bonded

LEMMA NotedBonded ==
    ASSUME NEW r, Bonded(r), NEW principal, NEW at
    PROVE  Bonded(OriginationNoted(r, principal, at))
  BY DEF Bonded, OriginationNoted, MerchantFields

LEMMA RecoveryBonded ==
    ASSUME NEW r, Bonded(r), NEW amount
    PROVE  Bonded(RecoveryNoted(r, amount))
  BY DEF Bonded, RecoveryNoted, MerchantFields

LEMMA WithholdingIsInt ==
    ASSUME NEW k \in Plans
    PROVE  Withholding(k) \in Int /\ Payable(k) \in Int
  <1>1. Net(k) \in Int
    BY PoolTermsAssumption DEF Net
  <1>2. \A m : VestingBpsFor(m, now) \in Int
    BY MerchantParamsAssumption, PoolParamsAssumption DEF VestingBpsFor
  <1>3. \A x, y \in Int : (x * y) \div Bps \in Int
    BY PoolParamsAssumption
  <1>4. Withholding(k) \in Int
    BY <1>1, <1>2, <1>3 DEF Withholding
  <1> QED BY <1>1, <1>4 DEF Payable

---------------------------------------------------------------------------
(* One entry of a table changes. *)

LEMMA MerchantMoved ==
    ASSUME MerchantsOK, NEW m, NEW r, m \in Merchants => Bonded(r),
           merchants' = [merchants EXCEPT ![m] = r]
    PROVE  MerchantsOK'
  BY DEF MerchantsOK

LEMMA RowMoved ==
    ASSUME EscrowsOK, NEW k, NEW r, IsRow(r), escrows' = [escrows EXCEPT ![k] = r]
    PROVE  EscrowsOK'
  BY DEF EscrowsOK

LEMMA DisputeMoved ==
    ASSUME RefundsOK, NEW k, NEW d, IsDispute(d),
           refunds' = [refunds EXCEPT !.disputes[k] = d]
    PROVE  RefundsOK'
  <1>1. DisputesOK([refunds.disputes EXCEPT ![k] = d])
    BY DEF RefundsOK, DisputesOK
  <1>2. refunds'.disputes = [refunds.disputes EXCEPT ![k] = d]
    BY DEF RefundsOK, RefundFields
  <1>3. refunds' = [f \in RefundFields |-> refunds'[f]]
    BY DEF RefundsOK
  <1> QED BY <1>1, <1>2, <1>3 DEF RefundsOK

LEMMA DisputesUntouched ==
    ASSUME RefundsOK, refunds' = [f \in RefundFields |-> refunds'[f]],
           refunds'.disputes = refunds.disputes
    PROVE  RefundsOK'
  BY DEF RefundsOK

LEMMA UntouchedMerchants == MerchantsOK /\ UNCHANGED merchants => MerchantsOK'
  BY DEF MerchantsOK

LEMMA UntouchedEscrows == EscrowsOK /\ UNCHANGED escrows => EscrowsOK'
  BY DEF EscrowsOK

LEMMA UntouchedRefunds == RefundsOK /\ UNCHANGED refunds => RefundsOK'
  BY DEF RefundsOK

---------------------------------------------------------------------------
(* Every step keeps the invariant. *)

LEMMA InitBond == Init => BondInv
  <1> SUFFICES ASSUME Init PROVE BondInv
    OBVIOUS
  <1>1. Bonded(NoMerchant)
    BY DEF Bonded, NoMerchant, MerchantFields
  <1>2. IsRow(NoEscrow) /\ IsDispute(NoDispute)
    BY DEF IsRow, NoEscrow, EscrowFields, IsDispute, NoDispute
  <1>3. MerchantsOK
    BY <1>1 DEF Init, MerchantsOK
  <1>4. EscrowsOK
    BY <1>2 DEF Init, EscrowsOK
  <1>5. RefundsOK
    BY <1>2 DEF Init, RefundsOK, DisputesOK, RefundFields
  <1> QED BY <1>3, <1>4, <1>5 DEF BondInv

LEMMA TradeBond ==
    ASSUME BondInv, NEW m \in Merchants, Trade(m)
    PROVE  BondInv'
  <1>a. MerchantsOK /\ EscrowsOK /\ RefundsOK /\ Bonded(merchants[m])
    BY DEF BondInv, MerchantsOK
  <1>b. BondAmounts \subseteq Int
    BY CheckoutAssumption
  <1>1. ASSUME NEW d \in Domains, Register(m, d) PROVE BondInv'
    <2>1. MerchantsOK'
      BY <1>a, <1>1, RegisteredBonded, MerchantMoved DEF Register
    <2> QED BY <1>a, <1>1, <2>1, UntouchedEscrows, UntouchedRefunds DEF Register, BondInv
  <1>2. ASSUME NEW d \in Domains, SetPayoutRoute(m, d) PROVE BondInv'
    <2>1. Bonded([merchants[m] EXCEPT !.payoutDomain = d])
      BY <1>a DEF Bonded, MerchantFields
    <2>2. MerchantsOK'
      BY <1>a, <1>2, <2>1, MerchantMoved DEF SetPayoutRoute
    <2> QED BY <1>a, <1>2, <2>2, UntouchedEscrows, UntouchedRefunds DEF SetPayoutRoute, BondInv
  <1>3. ASSUME NEW d \in Domains, Dispatch(m, d) PROVE BondInv'
    BY <1>a, <1>3, UntouchedMerchants, UntouchedEscrows, UntouchedRefunds DEF Dispatch, BondInv
  <1>4. ASSUME NEW verified \in Verdicts, AttestKyb(m, verified) PROVE BondInv'
    <2>1. Bonded([merchants[m] EXCEPT !.kybVerified = verified])
      BY <1>a DEF Bonded, MerchantFields
    <2>2. MerchantsOK'
      BY <1>a, <1>4, <2>1, MerchantMoved DEF AttestKyb
    <2> QED BY <1>a, <1>4, <2>2, UntouchedEscrows, UntouchedRefunds DEF AttestKyb, BondInv
  <1>5. ASSUME NEW category \in SettlementCategory, SetCategory(m, category) PROVE BondInv'
    <2>1. Bonded([merchants[m] EXCEPT !.category = category])
      BY <1>a DEF Bonded, MerchantFields
    <2>2. MerchantsOK'
      BY <1>a, <1>5, <2>1, MerchantMoved DEF SetCategory
    <2> QED BY <1>a, <1>5, <2>2, UntouchedEscrows, UntouchedRefunds DEF SetCategory, BondInv
  <1>6. ASSUME NEW amount \in BondAmounts, PostBond(m, amount) PROVE BondInv'
    <2> DEFINE r == [merchants[m] EXCEPT !.bond = merchants[m].bond + amount]
    <2>1. /\ r = [f \in MerchantFields |-> r[f]]
          /\ r.bond = merchants[m].bond + amount /\ r.withheld = merchants[m].withheld
      BY <1>a DEF Bonded, MerchantFields
    <2>2. amount \in Nat
      BY CheckoutAssumption
    <2>3. /\ merchants[m].bond + amount \in Int
          /\ merchants[m].withheld \in Int
          /\ merchants[m].withheld <= merchants[m].bond + amount
      BY <1>a, <2>2 DEF Bonded
    <2>4. Bonded(r)
      BY <2>1, <2>3 DEF Bonded
    <2>5. MerchantsOK'
      BY <1>a, <1>6, <2>4, MerchantMoved DEF PostBond
    <2> QED BY <1>a, <1>6, <2>5, UntouchedEscrows, UntouchedRefunds DEF PostBond, BondInv
  <1>7. ASSUME NEW amount \in BondAmounts, WithdrawBond(m, amount) PROVE BondInv'
    <2>1. amount \in Int /\ amount <= merchants[m].bond
      BY <1>b, <1>7 DEF WithdrawBond, CanWithdrawBond
    <2>2. Bonded(BondTaken(merchants[m], amount))
      BY <1>a, <2>1, TakenBonded
    <2>3. MerchantsOK'
      BY <1>a, <1>7, <2>2, MerchantMoved DEF WithdrawBond
    <2> QED BY <1>a, <1>7, <2>3, UntouchedEscrows, UntouchedRefunds DEF WithdrawBond, BondInv
  <1>8. ASSUME ClaimRebate(m) PROVE BondInv'
    <2>1. /\ refunds' = [f \in RefundFields |-> refunds'[f]]
          /\ refunds'.disputes = refunds.disputes
      BY <1>a, <1>8 DEF ClaimRebate, RefundsOK, RefundFields
    <2>2. RefundsOK'
      BY <1>a, <2>1, DisputesUntouched
    <2> QED BY <1>a, <1>8, <2>2, UntouchedMerchants, UntouchedEscrows DEF ClaimRebate, BondInv
  <1> QED BY <1>1, <1>2, <1>3, <1>4, <1>5, <1>6, <1>7, <1>8 DEF Trade

LEMMA RecognisedBond ==
    ASSUME MerchantsOK, NEW k \in Plans, RecogniseThroughRouter(k)
    PROVE  MerchantsOK'
  <1>1. Terms[k].merchant \in Merchants
    BY PoolTermsAssumption
  <1>2. Bonded(RecoveryNoted(merchants[Terms[k].merchant], RecoveredOf(k)))
    BY <1>1, RecoveryBonded DEF MerchantsOK
  <1> QED BY <1>2, MerchantMoved DEF RecogniseThroughRouter

LEMMA SettledBond ==
    ASSUME MerchantsOK, EscrowsOK, NEW k \in Plans, SettleMerchant(k)
    PROVE  MerchantsOK' /\ EscrowsOK'
  <1> DEFINE m == Terms[k].merchant
             posted == WithheldPosted(merchants[m], Withholding(k))
             row == [state |-> "Held", amount |-> Payable(k),
                     domain |-> posted.payoutDomain, heldAt |-> now, attestedAt |-> 0]
  <1>1. m \in Merchants /\ Bonded(merchants[m])
    BY PoolTermsAssumption DEF MerchantsOK
  <1>2. Bonded(posted)
    BY <1>1, WithholdingIsInt, PostedBonded
  <1>3. Bonded(OriginationNoted(posted, Terms[k].principal, now))
    BY <1>2, NotedBonded
  <1>4. MerchantsOK'
    BY <1>3, MerchantMoved DEF SettleMerchant
  <1>5. IsRow(row)
    BY WithholdingIsInt DEF IsRow, EscrowFields
  <1>6. escrows' = escrows \/ escrows' = [escrows EXCEPT ![k] = row]
    BY DEF SettleMerchant
  <1>7. EscrowsOK'
    BY <1>5, <1>6, RowMoved, UntouchedEscrows
  <1> QED BY <1>4, <1>7

LEMMA ServeBond ==
    ASSUME BondInv, NEW k \in Plans, Serve(k)
    PROVE  BondInv'
  <1>a. MerchantsOK /\ EscrowsOK /\ RefundsOK /\ IsRow(escrows[k])
    BY DEF BondInv, EscrowsOK
  <1>1. CASE Originate(k)
    BY <1>a, <1>1, SettledBond, UntouchedRefunds DEF Originate, BondInv
  <1>2. CASE Recognise(k)
    BY <1>a, <1>2, RecognisedBond, UntouchedEscrows, UntouchedRefunds DEF Recognise, BondInv
  <1>3. CASE RecogniseAtPool(k)
    BY <1>a, <1>3, UntouchedMerchants, UntouchedEscrows, UntouchedRefunds
       DEF RecogniseAtPool, BondInv
  <1>4. CASE AttestShipment(k)
    <2>1. IsRow([escrows[k] EXCEPT !.state = "Attested", !.attestedAt = now])
      BY <1>a DEF IsRow, EscrowFields
    <2>2. escrows' = [escrows EXCEPT ![k] =
                        [escrows[k] EXCEPT !.state = "Attested", !.attestedAt = now]]
      BY <1>4 DEF AttestShipment, EscrowsOK
    <2>3. EscrowsOK'
      BY <1>a, <2>1, <2>2, RowMoved
    <2> QED BY <1>a, <1>4, <2>3, UntouchedMerchants, UntouchedRefunds DEF AttestShipment, BondInv
  <1>5. CASE Release(k)
    <2>1. IsRow([escrows[k] EXCEPT !.state = "Released"])
      BY <1>a DEF IsRow, EscrowFields
    <2>2. EscrowsOK'
      BY <1>a, <1>5, <2>1, RowMoved DEF Release
    <2> QED BY <1>a, <1>5, <2>2, UntouchedMerchants, UntouchedRefunds DEF Release, BondInv
  <1>6. CASE RefundToPool(k)
    <2>1. IsRow([escrows[k] EXCEPT !.state = "Returned"])
      BY <1>a DEF IsRow, EscrowFields
    <2>2. EscrowsOK'
      BY <1>a, <1>6, <2>1, RowMoved DEF RefundToPool
    <2> QED BY <1>a, <1>6, <2>2, UntouchedMerchants, UntouchedRefunds DEF RefundToPool, BondInv
  <1>7. CASE NoteRefund(k)
    <2>1. MerchantsOK'
      BY <1>a, <1>7, RecognisedBond DEF NoteRefund
    <2>2. /\ refunds' = [f \in RefundFields |-> refunds'[f]]
          /\ refunds'.disputes = refunds.disputes
      BY <1>a, <1>7 DEF NoteRefund, RefundsOK, RefundFields
    <2>3. RefundsOK'
      BY <1>a, <2>2, DisputesUntouched
    <2> QED BY <1>a, <1>7, <2>1, <2>3, UntouchedEscrows DEF NoteRefund, BondInv
  <1> QED BY <1>1, <1>2, <1>3, <1>4, <1>5, <1>6, <1>7 DEF Serve

LEMMA ContestBond ==
    ASSUME BondInv, NEW k \in Plans, Contest(k)
    PROVE  BondInv'
  <1>a. MerchantsOK /\ EscrowsOK /\ RefundsOK
    BY DEF BondInv
  <1>1. ASSUME NEW m \in Merchants, NEW amount \in Int, Open(k, m, amount) PROVE BondInv'
    <2>1. IsDispute([merchant |-> m, amount |-> amount, openedAt |-> now])
      BY <1>1 DEF IsDispute
    <2>2. RefundsOK'
      BY <1>a, <1>1, <2>1, DisputeMoved DEF Open
    <2> QED BY <1>a, <1>1, <2>2, UntouchedMerchants, UntouchedEscrows DEF Open, BondInv
  <1>2. ASSUME NEW m \in Merchants, NEW amount \in DisputeAmounts, OpenDispute(k, m, amount)
        PROVE BondInv'
    <2>1. amount \in Int
      BY CheckoutAssumption
    <2> QED BY <1>1, <1>2, <2>1 DEF OpenDispute
  <1>3. CASE OpenNonAttestationDispute(k)
    <2>1. Terms[k].merchant \in Merchants
      BY PoolTermsAssumption
    <2>2. escrows[k].amount \in Int /\ merchants[Terms[k].merchant].bond \in Int
      BY <1>a, <2>1 DEF EscrowsOK, IsRow, MerchantsOK, Bonded
    <2>3. Lesser(escrows[k].amount, merchants[Terms[k].merchant].bond) \in Int
      BY <2>2 DEF Lesser
    <2> QED BY <1>1, <1>3, <2>1, <2>3 DEF OpenNonAttestationDispute
  <1>4. CASE CancelDispute(k)
    <2>1. IsDispute(NoDispute)
      BY DEF IsDispute, NoDispute
    <2>2. RefundsOK'
      BY <1>a, <1>4, <2>1, DisputeMoved DEF CancelDispute
    <2> QED BY <1>a, <1>4, <2>2, UntouchedMerchants, UntouchedEscrows DEF CancelDispute, BondInv
  <1>5. CASE ExecuteSlash(k)
    <2> DEFINE d == refunds.disputes[k]
    <2>1. IsDispute(NoDispute) /\ d.amount \in Int
      BY <1>a DEF IsDispute, NoDispute, RefundsOK, DisputesOK
    <2>2. d.amount <= merchants[d.merchant].bond
      BY <1>5 DEF ExecuteSlash
    <2>3. d.merchant \in Merchants => Bonded(BondTaken(merchants[d.merchant], d.amount))
      BY <1>a, <2>1, <2>2, TakenBonded DEF MerchantsOK
    <2>4. MerchantsOK'
      BY <1>a, <1>5, <2>3, MerchantMoved DEF ExecuteSlash
    <2>5. RefundsOK'
      BY <1>a, <1>5, <2>1, DisputeMoved DEF ExecuteSlash
    <2> QED BY <1>a, <1>5, <2>4, <2>5, UntouchedEscrows DEF ExecuteSlash, BondInv
  <1> QED BY <1>2, <1>3, <1>4, <1>5 DEF Contest

LEMMA NextBond == BondInv /\ [Next]_vars => BondInv'
  <1> SUFFICES ASSUME BondInv, [Next]_vars PROVE BondInv'
    OBVIOUS
  <1>a. MerchantsOK /\ EscrowsOK /\ RefundsOK
    BY DEF BondInv
  <1>1. ASSUME NEW k \in Moving, Repay(k) PROVE BondInv'
    BY <1>a, <1>1, UntouchedMerchants, UntouchedEscrows, UntouchedRefunds
       DEF Repay, CreditRefund, PlanMoves, BondInv
  <1>2. ASSUME NEW k \in Contested, Contest(k) PROVE BondInv'
    BY <1>2, ContestBond, CheckoutAssumption
  <1>3. ASSUME NEW d \in Deniable, DenyDomain(d) PROVE BondInv'
    BY <1>a, <1>3, UntouchedMerchants, UntouchedEscrows, UntouchedRefunds DEF DenyDomain, BondInv
  <1>4. ASSUME NEW amount \in RebateAmounts, FundRebates(amount) PROVE BondInv'
    <2>1. /\ refunds' = [f \in RefundFields |-> refunds'[f]]
          /\ refunds'.disputes = refunds.disputes
      BY <1>a, <1>4 DEF FundRebates, RefundsOK, RefundFields
    <2>2. RefundsOK'
      BY <1>a, <2>1, DisputesUntouched
    <2> QED BY <1>a, <1>4, <2>2, UntouchedMerchants, UntouchedEscrows DEF FundRebates, BondInv
  <1>5. CASE Tick \/ UNCHANGED vars
    BY <1>a, <1>5, UntouchedMerchants, UntouchedEscrows, UntouchedRefunds DEF Tick, vars, BondInv
  <1> QED BY <1>1, <1>2, <1>3, <1>4, <1>5, TradeBond, ServeBond DEF Next

LEMMA BondInvariant == Spec => []BondInv
  BY InitBond, NextBond, PTL DEF Spec

\* What a merchant was withheld is part of its bond, whatever is posted,
\* withheld, withdrawn and slashed (MerchantRegistry.sol's two figures).
THEOREM BondCoversWhatWasWithheld == Spec => []WithheldIsInTheBond
  <1>1. BondInv => WithheldIsInTheBond
    BY DEF BondInv, MerchantsOK, Bonded, WithheldIsInTheBond
  <1> QED BY <1>1, BondInvariant, PTL

---------------------------------------------------------------------------
(* The sums the ledgers are compared by, as functions of the tables they   *)
(* add up, and what one changed entry does to each.                        *)

BondsOf(ms) == SumOver([m \in Merchants |-> ms[m].bond], Merchants)

FrontedOf(ms) == SumOver([m \in Merchants |-> ms[m].outstandingFronted], Merchants)

OutOf(papers, m) ==
    SumOver([k \in Plans |-> papers[k].carrying],
            {k \in Plans : papers[k].open /\ Terms[k].merchant = m})

Live(row) == row.state \in {"Held", "Attested"}

EscrowOf(rows) == SumOver([k \in Plans |-> rows[k].amount], {k \in Plans : Live(rows[k])})

QueuedOf(queue) == SumOver([m \in Merchants |-> SumOver(queue[m], Domains)], Merchants)

\* What plans have forwarded and the book has not recognised.
Unseen(views, papers) ==
    SumOver([k \in Plans |-> views[k].forwarded - papers[k].recognisedInflow], Plans)

LEMMA BondsMove ==
    ASSUME NEW ms, NEW m \in Merchants, NEW r, r.bond \in Int,
           ms = [x \in Merchants |-> ms[x]], \A x \in Merchants : ms[x].bond \in Int
    PROVE  BondsOf([ms EXCEPT ![m] = r]) = BondsOf(ms) - ms[m].bond + r.bond
  <1> DEFINE f == [x \in Merchants |-> ms[x].bond]
             after == [ms EXCEPT ![m] = r]
             e == [x \in Merchants |-> after[x].bond]
  <1>0. \A x \in Merchants : after[x] = IF x = m THEN r ELSE ms[x]
    OBVIOUS
  <1> HIDE DEF after
  <1>1. /\ \A x \in Merchants : f[x] \in Int /\ e[x] \in Int
        /\ \A x \in Merchants : x # m => f[x] = e[x]
        /\ f[m] = ms[m].bond /\ e[m] = r.bond
    BY <1>0
  <1>2. BondsOf(ms) = SumOver(f, Merchants) /\ BondsOf(after) = SumOver(e, Merchants)
    BY DEF BondsOf
  <1> HIDE DEF f, e
  <1>3. SumOver(e, Merchants) = SumOver(f, Merchants) - f[m] + e[m]
    <2>1. IsFiniteSet(Merchants)
      BY PoolPartiesAssumption
    <2>2. OnlyAt(f, e, m, Merchants)
      BY <1>1 DEF OnlyAt
    <2> QED BY <2>1, <2>2, SumMoves
  <1> QED BY <1>1, <1>2, <1>3 DEF after

LEMMA FrontedMoves ==
    ASSUME NEW ms, NEW m \in Merchants, NEW r, r.outstandingFronted \in Int,
           ms = [x \in Merchants |-> ms[x]],
           \A x \in Merchants : ms[x].outstandingFronted \in Int
    PROVE  FrontedOf([ms EXCEPT ![m] = r])
             = FrontedOf(ms) - ms[m].outstandingFronted + r.outstandingFronted
  <1> DEFINE f == [x \in Merchants |-> ms[x].outstandingFronted]
             after == [ms EXCEPT ![m] = r]
             e == [x \in Merchants |-> after[x].outstandingFronted]
  <1>0. \A x \in Merchants : after[x] = IF x = m THEN r ELSE ms[x]
    OBVIOUS
  <1> HIDE DEF after
  <1>1. /\ \A x \in Merchants : f[x] \in Int /\ e[x] \in Int
        /\ \A x \in Merchants : x # m => f[x] = e[x]
        /\ f[m] = ms[m].outstandingFronted /\ e[m] = r.outstandingFronted
    BY <1>0
  <1>2. /\ FrontedOf(ms) = SumOver(f, Merchants)
        /\ FrontedOf(after) = SumOver(e, Merchants)
    BY DEF FrontedOf
  <1> HIDE DEF f, e
  <1>3. SumOver(e, Merchants) = SumOver(f, Merchants) - f[m] + e[m]
    <2>1. IsFiniteSet(Merchants)
      BY PoolPartiesAssumption
    <2>2. OnlyAt(f, e, m, Merchants)
      BY <1>1 DEF OnlyAt
    <2> QED BY <2>1, <2>2, SumMoves
  <1> QED BY <1>1, <1>2, <1>3 DEF after

LEMMA SumsAreInt ==
    ASSUME NEW ms, \A x \in Merchants : ms[x].bond \in Int /\ ms[x].outstandingFronted \in Nat
    PROVE  BondsOf(ms) \in Int /\ FrontedOf(ms) \in Nat
  <1> DEFINE f == [x \in Merchants |-> ms[x].bond]
             e == [x \in Merchants |-> ms[x].outstandingFronted]
  <1>1. \A x \in Merchants : f[x] \in Int /\ e[x] \in Nat
    OBVIOUS
  <1>2. BondsOf(ms) = SumOver(f, Merchants) /\ FrontedOf(ms) = SumOver(e, Merchants)
    BY DEF BondsOf, FrontedOf
  <1> HIDE DEF f, e
  <1> QED BY <1>1, <1>2, SumIsInt, SumIsNat, PoolPartiesAssumption

\* The paper of one plan changes: what is out with its merchant changes by the
\* difference, and what is out with the others does not.
Share(p) == IF p.open THEN p.carrying ELSE 0

PapersDifferAt(papers, after, k) ==
    \A j \in Plans : /\ papers[j].carrying \in Int /\ after[j].carrying \in Int
                     /\ j # k => after[j] = papers[j]

LEMMA OutMoves ==
    ASSUME NEW papers, NEW after, NEW k \in Plans, NEW m, PapersDifferAt(papers, after, k)
    PROVE  OutOf(after, m) =
             IF Terms[k].merchant = m
             THEN OutOf(papers, m) - Share(papers[k]) + Share(after[k])
             ELSE OutOf(papers, m)
  <1> USE DEF PapersDifferAt
  <1> DEFINE f == [j \in Plans |-> papers[j].carrying]
             e == [j \in Plans |-> after[j].carrying]
             P == {j \in Plans : papers[j].open /\ Terms[j].merchant = m}
             Q == {j \in Plans : after[j].open /\ Terms[j].merchant = m}
             was == IF k \in P THEN f[k] ELSE 0
             is == IF k \in Q THEN e[k] ELSE 0
  <1>1. /\ \A j \in Plans : f[j] \in Int /\ e[j] \in Int
        /\ P \in SUBSET Plans /\ Q \in SUBSET Plans
        /\ \A j \in Plans : j # k => f[j] = e[j] /\ (j \in P <=> j \in Q)
    OBVIOUS
  <1>2. OutOf(papers, m) = SumOver(f, P) /\ OutOf(after, m) = SumOver(e, Q)
    BY DEF OutOf
  <1>3. CASE Terms[k].merchant = m
    <2>1. was = Share(papers[k]) /\ is = Share(after[k])
      BY <1>3 DEF Share
    <2> HIDE DEF f, e, P, Q
    <2>2. SumOver(e, Q) = SumOver(f, P) - was + is
      <3>1. IsFiniteSet(Plans) /\ OnlyAt(f, e, k, Plans)
        BY <1>1, PoolPartiesAssumption DEF OnlyAt
      <3> QED BY <1>1, <3>1, PartMoves
    <2> QED BY <1>2, <1>3, <2>1, <2>2
  <1>4. CASE Terms[k].merchant # m
    <2>1. P = Q /\ \A j \in P : f[j] = e[j]
      BY <1>4
    <2>2. IsFiniteSet(P)
      BY FS_Subset, PoolPartiesAssumption
    <2> HIDE DEF f, e, P, Q
    <2>3. SumOver(e, Q) = SumOver(f, P)
      BY <2>1, <2>2, PartStays
    <2> QED BY <1>2, <1>4, <2>3
  <1> QED BY <1>3, <1>4

LEMMA OutIsInt ==
    ASSUME NEW papers, \A j \in Plans : papers[j].carrying \in Int, NEW m
    PROVE  OutOf(papers, m) \in Int
  <1> DEFINE f == [j \in Plans |-> papers[j].carrying]
             P == {j \in Plans : papers[j].open /\ Terms[j].merchant = m}
  <1>1. P \subseteq Plans /\ IsFiniteSet(P) /\ \A j \in P : f[j] \in Int
    BY FS_Subset, PoolPartiesAssumption
  <1>2. OutOf(papers, m) = SumOver(f, P)
    BY DEF OutOf
  <1> HIDE DEF f, P
  <1> QED BY <1>1, <1>2, SumIsInt

\* A row of the escrow is opened, settled, or passed on.
LEMMA EscrowMoves ==
    ASSUME NEW rows, NEW k \in Plans, NEW r, r.amount \in Int,
           rows = [j \in Plans |-> rows[j]], \A j \in Plans : rows[j].amount \in Int
    PROVE  EscrowOf([rows EXCEPT ![k] = r])
             = EscrowOf(rows) - (IF Live(rows[k]) THEN rows[k].amount ELSE 0)
                              + (IF Live(r) THEN r.amount ELSE 0)
  <1> DEFINE after == [rows EXCEPT ![k] = r]
             f == [j \in Plans |-> rows[j].amount]
             e == [j \in Plans |-> after[j].amount]
             P == {j \in Plans : Live(rows[j])}
             Q == {j \in Plans : Live(after[j])}
  <1>0. \A j \in Plans : after[j] = IF j = k THEN r ELSE rows[j]
    OBVIOUS
  <1> HIDE DEF after
  <1>1. /\ \A j \in Plans : f[j] \in Int /\ e[j] \in Int
        /\ P \in SUBSET Plans /\ Q \in SUBSET Plans
        /\ \A j \in Plans : j # k => f[j] = e[j] /\ (j \in P <=> j \in Q)
    BY <1>0
  <1>2. EscrowOf(rows) = SumOver(f, P) /\ EscrowOf(after) = SumOver(e, Q)
    BY DEF EscrowOf
  <1> DEFINE was == IF k \in P THEN f[k] ELSE 0
             is == IF k \in Q THEN e[k] ELSE 0
  <1>3. /\ was = IF Live(rows[k]) THEN rows[k].amount ELSE 0
        /\ is = IF Live(r) THEN r.amount ELSE 0
    BY <1>0
  <1> HIDE DEF f, e, P, Q
  <1>4. SumOver(e, Q) = SumOver(f, P) - was + is
    <2>1. IsFiniteSet(Plans) /\ OnlyAt(f, e, k, Plans)
      BY <1>1, PoolPartiesAssumption DEF OnlyAt
    <2> QED BY <1>1, <2>1, PartMoves
  <1> HIDE DEF was, is
  <1> QED BY <1>2, <1>3, <1>4 DEF after

IsQueue(q) ==
    /\ q = [m \in Merchants |-> q[m]]
    /\ \A m \in Merchants :
         /\ q[m] = [d \in Domains |-> q[m][d]]
         /\ \A d \in Domains : q[m][d] \in Int

\* One merchant's settlement for one domain is queued or sent.
LEMMA QueueMoves ==
    ASSUME NEW q, IsQueue(q), NEW m \in Merchants, NEW d \in Domains, NEW amount \in Int
    PROVE  LET after == [q EXCEPT ![m][d] = amount]
           IN  IsQueue(after) /\ QueuedOf(after) = QueuedOf(q) - q[m][d] + amount
  <1> DEFINE lane == [q[m] EXCEPT ![d] = amount]
             after == [q EXCEPT ![m][d] = amount]
  <1>1. after = [q EXCEPT ![m] = lane]
    OBVIOUS
  <1>2. /\ lane = [x \in Domains |-> lane[x]]
        /\ \A x \in Domains : lane[x] = IF x = d THEN amount ELSE q[m][x]
    BY DEF IsQueue
  <1>3. \A x \in Domains : lane[x] \in Int
    BY <1>2 DEF IsQueue
  <1> HIDE DEF lane, after
  <1>4. /\ after = [x \in Merchants |-> after[x]]
        /\ \A x \in Merchants : after[x] = IF x = m THEN lane ELSE q[x]
    BY <1>1 DEF IsQueue
  <1>5. IsQueue(after)
    BY <1>2, <1>3, <1>4 DEF IsQueue
  <1>6. SumOver(lane, Domains) = SumOver(q[m], Domains) - q[m][d] + amount
    <2> DEFINE f == q[m]
    <2>1. \A x \in Domains : f[x] \in Int
      BY DEF IsQueue
    <2> HIDE DEF f
    <2>2. OnlyAt(f, lane, d, Domains)
      BY <1>2, <1>3, <2>1 DEF f, OnlyAt
    <2>3. SumOver(lane, Domains) = SumOver(f, Domains) - f[d] + lane[d]
      BY <2>2, SumMoves, MerchantParamsAssumption
    <2> QED BY <1>2, <2>3 DEF f
  <1> DEFINE g == [x \in Merchants |-> SumOver(q[x], Domains)]
             h == [x \in Merchants |-> SumOver(after[x], Domains)]
  <1>7. \A x \in Merchants : g[x] \in Int /\ h[x] \in Int
    <2>1. \A x \in Merchants : SumOver(q[x], Domains) \in Int
      BY SumIsInt, MerchantParamsAssumption DEF IsQueue
    <2>2. \A x \in Merchants : SumOver(after[x], Domains) \in Int
      BY <1>5, SumIsInt, MerchantParamsAssumption DEF IsQueue
    <2> QED BY <2>1, <2>2
  <1>8. /\ \A x \in Merchants : x # m => g[x] = h[x]
        /\ g[m] = SumOver(q[m], Domains) /\ h[m] = SumOver(lane, Domains)
    BY <1>4
  <1>9. QueuedOf(q) = SumOver(g, Merchants) /\ QueuedOf(after) = SumOver(h, Merchants)
    BY DEF QueuedOf
  <1> HIDE DEF g, h
  <1>10. SumOver(h, Merchants) = SumOver(g, Merchants) - g[m] + h[m]
    <2>1. IsFiniteSet(Merchants)
      BY PoolPartiesAssumption
    <2>2. OnlyAt(g, h, m, Merchants)
      BY <1>7, <1>8 DEF OnlyAt
    <2> QED BY <2>1, <2>2, SumMoves
  <1>11. /\ SumOver(g, Merchants) \in Int /\ g[m] \in Int /\ q[m][d] \in Int
    BY <1>7, SumIsInt, PoolPartiesAssumption DEF IsQueue
  <1>12. QueuedOf(after) = QueuedOf(q) - q[m][d] + amount
    BY <1>6, <1>8, <1>9, <1>10, <1>11
  <1> QED BY <1>5, <1>12 DEF after

\* One plan forwards, or has what it forwarded recognised.
FlowsDifferAt(views, papers, shown, after, k) ==
    \A j \in Plans :
        /\ views[j].forwarded \in Int /\ shown[j].forwarded \in Int
        /\ papers[j].recognisedInflow \in Int /\ after[j].recognisedInflow \in Int
        /\ j # k => shown[j] = views[j] /\ after[j] = papers[j]

LEMMA UnseenMoves ==
    ASSUME NEW views, NEW papers, NEW shown, NEW after, NEW k \in Plans,
           FlowsDifferAt(views, papers, shown, after, k)
    PROVE  Unseen(shown, after)
             = Unseen(views, papers) - (views[k].forwarded - papers[k].recognisedInflow)
                                     + (shown[k].forwarded - after[k].recognisedInflow)
  <1> USE DEF FlowsDifferAt
  <1> DEFINE f == [j \in Plans |-> views[j].forwarded - papers[j].recognisedInflow]
             e == [j \in Plans |-> shown[j].forwarded - after[j].recognisedInflow]
  <1>1. /\ \A j \in Plans : f[j] \in Int /\ e[j] \in Int
        /\ \A j \in Plans : j # k => f[j] = e[j]
        /\ f[k] = views[k].forwarded - papers[k].recognisedInflow
        /\ e[k] = shown[k].forwarded - after[k].recognisedInflow
    OBVIOUS
  <1>2. Unseen(views, papers) = SumOver(f, Plans) /\ Unseen(shown, after) = SumOver(e, Plans)
    BY DEF Unseen
  <1> HIDE DEF f, e
  <1>3. SumOver(e, Plans) = SumOver(f, Plans) - f[k] + e[k]
    <2>1. IsFiniteSet(Plans)
      BY PoolPartiesAssumption
    <2>2. OnlyAt(f, e, k, Plans)
      BY <1>1 DEF OnlyAt
    <2> QED BY <2>1, <2>2, SumMoves
  <1> QED BY <1>1, <1>2, <1>3

---------------------------------------------------------------------------
(* The invariant under which the ledgers agree, one group per contract:    *)
(* what its entries are, and what the contract holds against them.         *)

Dealing(r) == r.outstandingFronted \in Nat /\ r.payoutDomain \in Domains

RegistryAgrees ==
    /\ MerchantsOK
    /\ \A m \in Merchants : Dealing(merchants[m])
    /\ totalFronted = FrontedOf(merchants)
    /\ custody.registry = BondsOf(merchants)

EscrowAgrees ==
    /\ EscrowsOK
    /\ \A k \in Plans : escrows[k].domain \in Domains
    /\ custody.escrow = EscrowOf(escrows)

PayoutsAgree ==
    /\ payouts = [f \in {"queued", "denied"} |-> payouts[f]]
    /\ IsQueue(payouts.queued)
    /\ custody.payouts = QueuedOf(payouts.queued)

RefundsAgree ==
    /\ RefundsOK
    /\ \A k \in Plans : refunds.disputes[k].openedAt # 0
                          => refunds.disputes[k].merchant \in Merchants
    /\ custody.refunds = refunds.rebateReserve

CustodyOK ==
    /\ custody = [f \in {"registry", "escrow", "payouts", "refunds"} |-> custody[f]]
    /\ custody.registry \in Int /\ custody.escrow \in Int /\ custody.payouts \in Int

\* What a plan shows: it never owes more than its principal.
Owing(k, v) ==
    /\ v = [f \in {"state", "outstanding", "forwarded", "late"} |-> v[f]]
    /\ v.outstanding \in Nat /\ v.forwarded \in Nat
    /\ v.outstanding <= Terms[k].principal

\* The paper of a plan: nothing before it is fronted, and while it is open at
\* least what the plan shows.
Backed(p, v) ==
    /\ p.carrying \in Nat /\ p.recognisedInflow \in Int
    /\ ~p.fronted => ~p.open /\ p.carrying = 0 /\ p.recognisedInflow = 0
    /\ p.open => v.outstanding <= p.carrying

PoolAgrees ==
    /\ Shaped(book)
    /\ view = [k \in Plans |-> view[k]]
    /\ \A k \in Plans : Owing(k, view[k]) /\ Backed(book.books[k], view[k])
    /\ book.balance \in Int /\ book.bookedCash \in Int
    /\ book.balance = book.bookedCash + Unseen(view, book.books)

ExposureCovers ==
    \A m \in Merchants : merchants[m].outstandingFronted >= OutOf(book.books, m)

\* A settlement is in escrow only once its sale was originated.
SalesOK ==
    /\ now \in Nat \ {0}
    /\ originatedAt = [k \in Plans |-> originatedAt[k]]
    /\ \A k \in Plans : originatedAt[k] \in Nat
    /\ \A k \in Plans : originatedAt[k] = 0 => escrows[k].state = "None"

LedgerInv ==
    /\ RegistryAgrees /\ EscrowAgrees /\ PayoutsAgree /\ RefundsAgree
    /\ CustodyOK /\ PoolAgrees /\ ExposureCovers /\ SalesOK

---------------------------------------------------------------------------
(* One group changes, the others stay. *)

LEMMA RegistryStays ==
    ASSUME RegistryAgrees, UNCHANGED <<merchants, totalFronted>>,
           custody'.registry = custody.registry
    PROVE  RegistryAgrees'
  BY UntouchedMerchants DEF RegistryAgrees

LEMMA EscrowStays ==
    ASSUME EscrowAgrees, UNCHANGED escrows, custody'.escrow = custody.escrow
    PROVE  EscrowAgrees'
  BY UntouchedEscrows DEF EscrowAgrees

LEMMA PayoutsStay ==
    ASSUME PayoutsAgree, UNCHANGED payouts, custody'.payouts = custody.payouts
    PROVE  PayoutsAgree'
  BY DEF PayoutsAgree

LEMMA RefundsStay ==
    ASSUME RefundsAgree, UNCHANGED refunds, custody'.refunds = custody.refunds
    PROVE  RefundsAgree'
  BY UntouchedRefunds DEF RefundsAgree

LEMMA PoolStays ==
    ASSUME PoolAgrees, UNCHANGED <<book, view>>
    PROVE  PoolAgrees'
  BY DEF PoolAgrees

LEMMA ExposureStays ==
    ASSUME ExposureCovers, UNCHANGED <<book, merchants>>
    PROVE  ExposureCovers'
  BY DEF ExposureCovers

LEMMA SalesStay ==
    ASSUME SalesOK, UNCHANGED <<originatedAt, escrows>>, now' \in Nat \ {0}
    PROVE  SalesOK'
  BY DEF SalesOK

\* One merchant's record is replaced.
LEMMA RegistryMoves ==
    ASSUME RegistryAgrees, NEW m \in Merchants, NEW r, Bonded(r), Dealing(r),
           merchants' = [merchants EXCEPT ![m] = r],
           totalFronted' = totalFronted - merchants[m].outstandingFronted
                                        + r.outstandingFronted,
           custody'.registry = custody.registry - merchants[m].bond + r.bond
    PROVE  RegistryAgrees'
  <1>1. MerchantsOK'
    BY MerchantMoved DEF RegistryAgrees
  <1>2. /\ merchants = [x \in Merchants |-> merchants[x]]
        /\ \A x \in Merchants : /\ merchants[x].bond \in Int
                                /\ merchants[x].outstandingFronted \in Int
        /\ r.bond \in Int /\ r.outstandingFronted \in Int
    BY DEF RegistryAgrees, MerchantsOK, Bonded, Dealing
  <1>3. totalFronted' = FrontedOf(merchants')
    BY <1>2, FrontedMoves DEF RegistryAgrees
  <1>4. custody'.registry = BondsOf(merchants')
    BY <1>2, BondsMove DEF RegistryAgrees
  <1>5. \A x \in Merchants : Dealing(merchants'[x])
    BY <1>2 DEF RegistryAgrees
  <1> QED BY <1>1, <1>3, <1>4, <1>5 DEF RegistryAgrees

\* One row of the escrow is replaced.
LEMMA EscrowRowMoves ==
    ASSUME EscrowAgrees, NEW k \in Plans, NEW r, IsRow(r), r.domain \in Domains,
           escrows' = [escrows EXCEPT ![k] = r],
           custody'.escrow = custody.escrow
                               - (IF Live(escrows[k]) THEN escrows[k].amount ELSE 0)
                               + (IF Live(r) THEN r.amount ELSE 0)
    PROVE  EscrowAgrees'
  <1>1. EscrowsOK'
    BY RowMoved DEF EscrowAgrees
  <1>2. /\ escrows = [j \in Plans |-> escrows[j]]
        /\ \A j \in Plans : escrows[j].amount \in Int
        /\ r.amount \in Int
    BY DEF EscrowAgrees, EscrowsOK, IsRow
  <1>3. custody'.escrow = EscrowOf(escrows')
    BY <1>2, EscrowMoves DEF EscrowAgrees
  <1>4. \A j \in Plans : escrows'[j].domain \in Domains
    BY <1>2 DEF EscrowAgrees
  <1> QED BY <1>1, <1>3, <1>4 DEF EscrowAgrees

\* Settlement is queued for a merchant, or paid out on the spot.
LEMMA PayoutsTake ==
    ASSUME PayoutsAgree, CustodyOK, NEW m \in Merchants, NEW d \in Domains,
           NEW amount \in Int, payouts' = Paid(payouts, m, d, amount),
           custody'.payouts = custody.payouts + Kept(d, amount)
    PROVE  PayoutsAgree'
  <1>1. CASE d = Arc
    <2>1. payouts' = payouts /\ custody'.payouts = custody.payouts
      BY <1>1 DEF Paid, Kept, CustodyOK
    <2> QED BY <2>1, PayoutsStay
  <1>2. CASE d # Arc
    <2> DEFINE q == payouts.queued
               sum == q[m][d] + amount
    <2>0. payouts' = [payouts EXCEPT !.queued[m][d] = sum]
      BY <1>2 DEF Paid
    <2>1. /\ payouts'.queued = [q EXCEPT ![m][d] = sum]
          /\ payouts' = [f \in {"queued", "denied"} |-> payouts'[f]]
      <3> HIDE DEF sum
      <3> QED BY <2>0 DEF PayoutsAgree
    <2>2. IsQueue(q) /\ q[m][d] \in Int /\ sum \in Int
      <3>1. IsQueue(q)
        BY DEF PayoutsAgree
      <3> HIDE DEF q
      <3>2. q[m][d] \in Int
        BY <3>1 DEF IsQueue
      <3> QED BY <3>1, <3>2
    <2>3. /\ IsQueue([q EXCEPT ![m][d] = sum])
          /\ QueuedOf([q EXCEPT ![m][d] = sum]) = QueuedOf(q) - q[m][d] + sum
      <3> HIDE DEF q, sum
      <3> QED BY <2>2, QueueMoves
    <2>4. custody'.payouts = custody.payouts + amount /\ custody.payouts = QueuedOf(q)
      BY <1>2 DEF Kept, PayoutsAgree
    <2>5. custody.payouts \in Int
      BY DEF CustodyOK
    <2>6. custody'.payouts = QueuedOf(q) - q[m][d] + sum
      BY <2>2, <2>4, <2>5
    <2> QED BY <2>1, <2>3, <2>6 DEF PayoutsAgree
  <1> QED BY <1>1, <1>2

---------------------------------------------------------------------------
(* What the pool's own operations do to its side of the ledgers. *)

\* The paper of k changes, and cash and balance with it.
LEMMA PoolMoves ==
    ASSUME PoolAgrees, NEW k \in Plans, UNCHANGED view, Shaped(book'),
           OthersKept(book, book', k), Backed(book'.books[k], view[k]),
           book'.balance \in Int, book'.bookedCash \in Int,
           book'.balance - book'.bookedCash
             = book.balance - book.bookedCash + book.books[k].recognisedInflow
                                              - book'.books[k].recognisedInflow
    PROVE  PoolAgrees'
  <1> DEFINE was == book.books
             is == book'.books
             a == view[k].forwarded
             c == was[k].recognisedInflow
             d == is[k].recognisedInflow
             u == Unseen(view, was)
             v == Unseen(view, is)
  <1>1. /\ \A j \in Plans : j # k => is[j] = was[j]
        /\ \A j \in Plans : Owing(j, view[j]) /\ Backed(was[j], view[j])
    BY DEF PoolAgrees, OthersKept
  <1>2. \A j \in Plans : Backed(is[j], view[j])
    BY <1>1
  <1>3. \A j \in Plans : /\ view[j].forwarded \in Int
                         /\ was[j].recognisedInflow \in Int
                         /\ is[j].recognisedInflow \in Int
    <2> HIDE DEF was, is
    <2> TAKE j \in Plans
    <2>1. Owing(j, view[j]) /\ Backed(was[j], view[j]) /\ Backed(is[j], view[j])
      BY <1>1, <1>2
    <2> QED BY <2>1 DEF Owing, Backed
  <1>4. v = u - (a - c) + (a - d) /\ u \in Int
    <2> HIDE DEF was, is
    <2>0. FlowsDifferAt(view, was, view, is, k)
      BY <1>1, <1>3 DEF FlowsDifferAt
    <2>1. Unseen(view, is) = Unseen(view, was) - (view[k].forwarded - was[k].recognisedInflow)
                                               + (view[k].forwarded - is[k].recognisedInflow)
      BY <2>0, UnseenMoves
    <2>2. Unseen(view, was) \in Int
      <3> DEFINE f == [j \in Plans |-> view[j].forwarded - was[j].recognisedInflow]
      <3>1. \A j \in Plans : f[j] \in Int
        BY <1>3
      <3>2. Unseen(view, was) = SumOver(f, Plans)
        BY DEF Unseen
      <3> HIDE DEF f
      <3> QED BY <3>1, <3>2, SumIsInt, PoolPartiesAssumption
    <2> QED BY <2>1, <2>2
  <1>5. a \in Int /\ c \in Int /\ d \in Int
    BY <1>3
  <1>6. book.balance = book.bookedCash + u /\ book.balance \in Int /\ book.bookedCash \in Int
    BY DEF PoolAgrees
  <1>7. book'.balance - book'.bookedCash = book.balance - book.bookedCash + c - d
    OBVIOUS
  <1> HIDE DEF a, c, d, u, v
  <1>8. book'.balance = book'.bookedCash + v
    BY <1>4, <1>5, <1>6, <1>7
  <1> QED BY <1>1, <1>2, <1>8 DEF PoolAgrees, v

\* What the receivable falls by across a recognition, and what is out with the
\* plan's merchant with it.
LEMMA PoolRecognises ==
    ASSUME PoolAgrees, NEW k \in Plans, UNCHANGED view,
           book' = Recognised(book, k, view[k])
    PROVE  /\ PoolAgrees'
           /\ RecoveredOf(k) \in Nat
           /\ \A m \in Merchants :
                OutOf(book'.books, m) =
                  IF Terms[k].merchant = m
                  THEN OutOf(book.books, m) - RecoveredOf(k) ELSE OutOf(book.books, m)
  <1> DEFINE c == Recognised(book, k, view[k])
             p == book.books[k]
             q == c.books[k]
             v == view[k]
  <1>1. /\ Shaped(book) /\ Backed(p, v) /\ Owing(k, v)
        /\ book.balance \in Int /\ book.bookedCash \in Int
    BY DEF PoolAgrees
  <1>2. RecoveredOf(k) = Less(p.carrying, q.carrying)
    BY DEF RecoveredOf
  <1>3. /\ PoolAgrees' /\ OthersKept(book, c, k) /\ Backed(q, v)
        /\ RecoveredOf(k) \in Nat /\ Share(q) = Share(p) - RecoveredOf(k)
    <2>1. CASE ~p.open
      <3>1. c = book
        BY <2>1 DEF Recognised
      <3>2. RecoveredOf(k) = 0
        BY <1>1, <1>2, <3>1 DEF Less, Backed
      <3> QED BY <1>1, <2>1, <3>1, <3>2, PoolStays DEF OthersKept, Share
    <2>2. CASE p.open
      <3>1. /\ Shaped(c) /\ OthersKept(book, c, k) /\ c.balance = book.balance
            /\ c.bookedCash = book.bookedCash + Inflow(book, k, v)
            /\ q.fronted = p.fronted /\ q.recognisedInflow = v.forwarded
            /\ v.state \in ClosingStates => q.open = FALSE /\ q.carrying = 0
            /\ v.state \notin ClosingStates => q.open = p.open /\ q.carrying = v.outstanding
        <4>1. RecognisedAs(book, c, k, v)
          BY <1>1, <2>2, RecognisedPaper
        <4> QED BY <4>1 DEF RecognisedAs
      <3> HIDE DEF c
      <3>2. /\ p.fronted /\ p.carrying \in Nat /\ p.recognisedInflow \in Int
            /\ v.outstanding \in Nat /\ v.forwarded \in Nat /\ v.outstanding <= p.carrying
        BY <1>1, <2>2 DEF Backed, Owing
      <3> HIDE DEF p, q, v
      <3>3. Backed(q, v) /\ Less(p.carrying, q.carrying) = p.carrying - q.carrying
        BY <3>1, <3>2 DEF Backed, Less
      <3>4. q.carrying \in Nat /\ p.carrying - q.carrying \in Nat
        BY <3>1, <3>2
      <3>5. RecoveredOf(k) = p.carrying - q.carrying
        BY <1>2, <3>3
      <3>6. Share(p) = p.carrying /\ Share(q) = q.carrying
        BY <2>2, <3>1 DEF Share
      <3>7. /\ c.bookedCash = book.bookedCash + (v.forwarded - p.recognisedInflow)
        BY <3>1 DEF Inflow, p
      <3>8. PoolAgrees'
        <4>1. /\ c.bookedCash \in Int /\ c.balance \in Int
              /\ c.balance - c.bookedCash
                   = book.balance - book.bookedCash + p.recognisedInflow - q.recognisedInflow
          BY <1>1, <3>1, <3>2, <3>7
        <4> QED BY <3>1, <3>3, <4>1, PoolMoves DEF c, p, q, v
      <3> QED BY <3>1, <3>2, <3>3, <3>4, <3>5, <3>6, <3>8
    <2> QED BY <2>1, <2>2
  <1>4. ASSUME NEW m \in Merchants
        PROVE  OutOf(c.books, m) =
                  IF Terms[k].merchant = m
                  THEN OutOf(book.books, m) - RecoveredOf(k) ELSE OutOf(book.books, m)
    <2> DEFINE was == book.books
               is == c.books
    <2>1. PapersDifferAt(was, is, k)
      BY <1>3 DEF PoolAgrees, Backed, OthersKept, PapersDifferAt
    <2>2. OutOf(was, m) \in Int /\ Share(was[k]) \in Int /\ RecoveredOf(k) \in Int
      <3> HIDE DEF was, is
      <3> QED BY <1>3, <2>1, OutIsInt DEF Share, PapersDifferAt
    <2>3. Share(is[k]) = Share(was[k]) - RecoveredOf(k)
      BY <1>3
    <2> HIDE DEF was, is
    <2>4. OutOf(is, m) = IF Terms[k].merchant = m
                         THEN OutOf(was, m) - Share(was[k]) + Share(is[k])
                         ELSE OutOf(was, m)
      BY <2>1, OutMoves
    <2> QED BY <2>2, <2>3, <2>4 DEF was, is
  <1> QED BY <1>3, <1>4

LEMMA PoolFronts ==
    ASSUME PoolAgrees, NEW k \in Plans, UNCHANGED view,
           ~book.books[k].fronted, book' = Fronted(book, k)
    PROVE  /\ PoolAgrees'
           /\ \A m \in Merchants :
                OutOf(book'.books, m) =
                  IF Terms[k].merchant = m
                  THEN OutOf(book.books, m) + Terms[k].principal ELSE OutOf(book.books, m)
  <1> DEFINE c == Fronted(book, k)
             p == book.books[k]
             q == c.books[k]
             v == view[k]
  <1>1. /\ Shaped(book) /\ Backed(p, v) /\ Owing(k, v)
        /\ book.balance \in Int /\ book.bookedCash \in Int
    BY DEF PoolAgrees
  <1>2. FrontedAs(book, c, k)
    BY <1>1, FrontedPaper
  <1>3. /\ Terms[k].principal \in Nat /\ CashOut(k) \in Int
    BY PoolTermsAssumption DEF CashOut
  <1> HIDE DEF c, p, q, v
  <1>4. Backed(q, v)
    BY <1>1, <1>2, <1>3 DEF FrontedAs, Backed, Owing, q
  <1>5. PoolAgrees'
    <2>1. /\ c.bookedCash \in Int /\ c.balance \in Int
          /\ c.balance - c.bookedCash = book.balance - book.bookedCash
          /\ p.recognisedInflow = 0 /\ q.recognisedInflow = 0
      BY <1>1, <1>2, <1>3 DEF FrontedAs, Backed, p, q
    <2>2. book'.balance - book'.bookedCash
            = book.balance - book.bookedCash + book.books[k].recognisedInflow
                                             - book'.books[k].recognisedInflow
      BY <1>1, <2>1 DEF c, p, q
    <2>3. /\ Shaped(book') /\ OthersKept(book, book', k) /\ Backed(book'.books[k], view[k])
          /\ book'.balance \in Int /\ book'.bookedCash \in Int
      BY <1>2, <1>4, <2>1 DEF FrontedAs, c, q, v
    <2> QED BY <2>2, <2>3, PoolMoves
  <1>6. ASSUME NEW m \in Merchants
        PROVE  OutOf(c.books, m) =
                  IF Terms[k].merchant = m
                  THEN OutOf(book.books, m) + Terms[k].principal ELSE OutOf(book.books, m)
    <2> DEFINE was == book.books
               is == c.books
    <2>1. PapersDifferAt(was, is, k)
      BY <1>2, <1>4 DEF PoolAgrees, Backed, FrontedAs, OthersKept, PapersDifferAt, c, q
    <2>2. Share(was[k]) = 0 /\ Share(is[k]) = Terms[k].principal
      BY <1>1, <1>2 DEF Share, Backed, FrontedAs, p
    <2> HIDE DEF was, is
    <2>3. OutOf(was, m) \in Int
      BY <2>1, OutIsInt DEF PapersDifferAt
    <2>4. OutOf(is, m) = IF Terms[k].merchant = m
                         THEN OutOf(was, m) - Share(was[k]) + Share(is[k])
                         ELSE OutOf(was, m)
      BY <2>1, OutMoves
    <2> QED BY <1>3, <2>2, <2>3, <2>4 DEF was, is
  <1> QED BY <1>5, <1>6 DEF c

LEMMA PoolIsFunded ==
    ASSUME PoolAgrees, ExposureCovers, UNCHANGED view, NEW amount \in Int,
           book' = ReserveFunded(book, amount),
           \A m \in Merchants :
             merchants'[m].outstandingFronted = merchants[m].outstandingFronted
    PROVE  PoolAgrees' /\ ExposureCovers'
  <1>1. FundedBy(book, book', amount)
    BY FundedPaper DEF PoolAgrees
  <1>2. /\ Shaped(book') /\ book'.books = book.books
        /\ book'.balance = book.balance + amount
        /\ book'.bookedCash = book.bookedCash + amount
    BY <1>1 DEF FundedBy
  <1> DEFINE u == Unseen(view, book.books)
  <1>3. /\ book.balance \in Int /\ book.bookedCash \in Int
        /\ book.balance = book.bookedCash + u
    BY DEF PoolAgrees
  <1>4. u \in Int
    <2> DEFINE f == [j \in Plans |-> view[j].forwarded - book.books[j].recognisedInflow]
    <2>1. \A j \in Plans : f[j] \in Int
      BY DEF PoolAgrees, Owing, Backed
    <2>2. u = SumOver(f, Plans)
      BY DEF Unseen
    <2> HIDE DEF f, u
    <2> QED BY <2>1, <2>2, SumIsInt, PoolPartiesAssumption
  <1> HIDE DEF u
  <1>5. /\ book'.balance \in Int /\ book'.bookedCash \in Int
        /\ book'.balance = book'.bookedCash + u
    BY <1>2, <1>3, <1>4
  <1>6. PoolAgrees'
    BY <1>2, <1>5 DEF PoolAgrees, u
  <1>7. ExposureCovers'
    BY <1>2 DEF ExposureCovers
  <1> QED BY <1>6, <1>7

\* A plan moves: what it forwards reaches the pool's address before its book.
LEMMA PoolIsPaid ==
    ASSUME PoolAgrees, ExposureCovers, UNCHANGED merchants, NEW k \in Plans, NEW w,
           Owing(k, w), w.outstanding <= view[k].outstanding, Became(k, w)
    PROVE  PoolAgrees' /\ ExposureCovers'
  <1> DEFINE a == view[k].forwarded
             b == w.forwarded
             u == Unseen(view, book.books)
             v == Unseen(view', book.books)
             c == book.books[k].recognisedInflow
  <1>1. /\ Shaped(book) /\ book.balance \in Int /\ book.bookedCash \in Int
        /\ book.balance = book.bookedCash + u
        /\ \A j \in Plans : Owing(j, view[j]) /\ Backed(book.books[j], view[j])
        /\ view = [j \in Plans |-> view[j]]
    BY DEF PoolAgrees
  <1>2. /\ view' = [view EXCEPT ![k] = w]
        /\ book' = [book EXCEPT !.balance = book.balance + b - a]
    BY DEF Became
  <1>3. /\ view' = [j \in Plans |-> view'[j]]
        /\ \A j \in Plans : view'[j] = IF j = k THEN w ELSE view[j]
    BY <1>1, <1>2
  <1>4. a \in Nat /\ b \in Nat /\ c \in Int
    BY <1>1 DEF Owing, Backed
  <1>5. /\ Shaped(book') /\ book'.books = book.books
        /\ book'.bookedCash = book.bookedCash /\ book'.balance = book.balance + b - a
    <2> HIDE DEF a, b
    <2> QED BY <1>1, <1>2 DEF Shaped, BookFields
  <1>6. \A j \in Plans : Owing(j, view'[j]) /\ Backed(book.books[j], view'[j])
    <2> TAKE j \in Plans
    <2>1. CASE j # k
      BY <1>1, <1>3, <2>1
    <2>2. CASE j = k
      <3>1. Backed(book.books[k], view[k]) /\ Owing(k, view[k])
        BY <1>1
      <3>2. Backed(book.books[k], w)
        BY <3>1 DEF Backed, Owing
      <3> QED BY <1>3, <2>2, <3>2
    <2> QED BY <2>1, <2>2
  <1>7. v = u - (a - c) + (b - c)
    <2> DEFINE papers == book.books
               shown == view'
    <2>1. FlowsDifferAt(view, papers, shown, papers, k) /\ shown[k] = w
      BY <1>1, <1>3, <1>6 DEF Owing, Backed, FlowsDifferAt
    <2> HIDE DEF papers, shown
    <2>2. Unseen(shown, papers)
            = Unseen(view, papers) - (view[k].forwarded - papers[k].recognisedInflow)
                                   + (shown[k].forwarded - papers[k].recognisedInflow)
      BY <2>1, UnseenMoves
    <2> QED BY <2>1, <2>2 DEF papers, shown
  <1>8. u \in Int
    <2> DEFINE f == [j \in Plans |-> view[j].forwarded - book.books[j].recognisedInflow]
    <2>1. \A j \in Plans : f[j] \in Int
      BY <1>1 DEF Owing, Backed
    <2>2. u = SumOver(f, Plans)
      BY DEF Unseen
    <2> HIDE DEF f, u
    <2> QED BY <2>1, <2>2, SumIsInt, PoolPartiesAssumption
  <1> HIDE DEF a, b, c, u, v
  <1>9. book'.balance = book'.bookedCash + v /\ book'.balance \in Int
    BY <1>1, <1>4, <1>5, <1>7, <1>8
  <1>10. PoolAgrees'
    BY <1>1, <1>3, <1>5, <1>6, <1>9 DEF PoolAgrees, v
  <1>11. ExposureCovers'
    BY <1>5 DEF ExposureCovers
  <1> QED BY <1>10, <1>11

---------------------------------------------------------------------------
(* Every step keeps the ledgers in agreement. *)

\* A merchant's record changes and its exposure does not; what its bond gains
\* the registry holds.
RecordChange(m, r, gain) ==
    /\ Bonded(r) /\ Dealing(r) /\ gain \in Int
    /\ r.outstandingFronted = merchants[m].outstandingFronted
    /\ r.bond = merchants[m].bond + gain
    /\ merchants' = [merchants EXCEPT ![m] = r]
    /\ custody' = [custody EXCEPT !.registry = custody.registry + gain]
    /\ UNCHANGED <<pool, totalFronted, escrows, payouts, refunds, now>>

LEMMA RecordChanges ==
    ASSUME LedgerInv, NEW m \in Merchants, NEW r, NEW gain, RecordChange(m, r, gain)
    PROVE  LedgerInv'
  <1> USE DEF RecordChange
  <1>1. /\ CustodyOK' /\ custody'.registry = custody.registry + gain
        /\ custody'.escrow = custody.escrow /\ custody'.payouts = custody.payouts
        /\ custody'.refunds = custody.refunds
    BY DEF LedgerInv, CustodyOK
  <1>2. /\ merchants[m].bond \in Int /\ merchants[m].outstandingFronted \in Nat
        /\ custody.registry \in Int /\ totalFronted \in Int
    <2>1. \A x \in Merchants : merchants[x].bond \in Int /\ merchants[x].outstandingFronted \in Nat
      BY DEF LedgerInv, RegistryAgrees, MerchantsOK, Bonded, Dealing
    <2>2. totalFronted \in Nat
      BY <2>1, SumsAreInt DEF LedgerInv, RegistryAgrees
    <2> QED BY <2>1, <2>2 DEF LedgerInv, CustodyOK
  <1>3. RegistryAgrees'
    <2>1. /\ totalFronted' = totalFronted - merchants[m].outstandingFronted + r.outstandingFronted
          /\ custody'.registry = custody.registry - merchants[m].bond + r.bond
      BY <1>1, <1>2
    <2> QED BY <2>1, RegistryMoves DEF LedgerInv
  <1>4. ExposureCovers'
    <2>1. \A x \in Merchants : merchants'[x].outstandingFronted = merchants[x].outstandingFronted
      BY DEF LedgerInv, RegistryAgrees, MerchantsOK
    <2>2. book' = book
      BY DEF pool
    <2> QED BY <2>1, <2>2 DEF LedgerInv, ExposureCovers
  <1>5. EscrowAgrees' /\ PayoutsAgree' /\ RefundsAgree'
    BY <1>1, EscrowStays, PayoutsStay, RefundsStay DEF LedgerInv
  <1>6. PoolAgrees' /\ SalesOK'
    BY PoolStays, SalesStay DEF LedgerInv, pool, SalesOK
  <1> QED BY <1>1, <1>3, <1>4, <1>5, <1>6 DEF LedgerInv

\* No bond changes.
LEMMA RecordRetouched ==
    ASSUME LedgerInv, NEW m \in Merchants, NEW r, Bonded(r), Dealing(r),
           r.outstandingFronted = merchants[m].outstandingFronted,
           r.bond = merchants[m].bond,
           merchants' = [merchants EXCEPT ![m] = r],
           UNCHANGED <<pool, totalFronted, escrows, payouts, refunds, custody, now>>
    PROVE  LedgerInv'
  <1>1. r.bond = merchants[m].bond + 0
    BY DEF Bonded
  <1>2. custody' = [custody EXCEPT !.registry = custody.registry + 0]
    BY DEF LedgerInv, CustodyOK
  <1>3. 0 \in Int
    OBVIOUS
  <1>4. RecordChange(m, r, 0)
    BY <1>1, <1>2, <1>3, Zenon DEF RecordChange
  <1> QED BY <1>4, RecordChanges

LEMMA TradeLedgers ==
    ASSUME LedgerInv, NEW m \in Merchants, Trade(m)
    PROVE  LedgerInv'
  <1> DEFINE old == merchants[m]
  <1>a. /\ RegistryAgrees /\ EscrowAgrees /\ PayoutsAgree /\ RefundsAgree
        /\ CustodyOK /\ PoolAgrees /\ ExposureCovers /\ SalesOK
        /\ Bonded(old) /\ Dealing(old)
    BY DEF LedgerInv, RegistryAgrees, MerchantsOK
  <1>b. BondAmounts \subseteq Int
    BY CheckoutAssumption
  <1>1. ASSUME NEW d \in Domains, Register(m, d) PROVE LedgerInv'
    <2> DEFINE r == Registered(old, d, now)
    <2>1. /\ r.outstandingFronted = old.outstandingFronted /\ r.bond = old.bond
          /\ r.payoutDomain = d
      BY <1>a DEF Registered, Bonded, MerchantFields
    <2>2. Bonded(r) /\ Dealing(r)
      BY <1>a, <2>1, RegisteredBonded DEF Dealing
    <2>3. merchants' = [merchants EXCEPT ![m] = r]
      BY <1>1 DEF Register
    <2> HIDE DEF r, old
    <2> QED BY <1>1, <2>1, <2>2, <2>3, RecordRetouched DEF Register, old
  <1>2. ASSUME NEW d \in Domains, SetPayoutRoute(m, d) PROVE LedgerInv'
    <2> DEFINE r == [old EXCEPT !.payoutDomain = d]
    <2>1. /\ r.outstandingFronted = old.outstandingFronted /\ r.bond = old.bond
          /\ r.payoutDomain = d /\ Bonded(r)
      BY <1>a DEF Bonded, MerchantFields
    <2>2. Dealing(r)
      BY <1>a, <2>1 DEF Dealing
    <2>3. merchants' = [merchants EXCEPT ![m] = r]
      BY <1>2 DEF SetPayoutRoute
    <2> HIDE DEF r, old
    <2> QED BY <1>2, <2>1, <2>2, <2>3, RecordRetouched DEF SetPayoutRoute, old
  <1>3. ASSUME NEW verified \in Verdicts, AttestKyb(m, verified) PROVE LedgerInv'
    <2> DEFINE r == [old EXCEPT !.kybVerified = verified]
    <2>1. /\ r.outstandingFronted = old.outstandingFronted /\ r.bond = old.bond
          /\ r.payoutDomain = old.payoutDomain /\ Bonded(r)
      BY <1>a DEF Bonded, MerchantFields
    <2>2. Dealing(r)
      BY <1>a, <2>1 DEF Dealing
    <2>3. merchants' = [merchants EXCEPT ![m] = r]
      BY <1>3 DEF AttestKyb
    <2> HIDE DEF r, old
    <2> QED BY <1>3, <2>1, <2>2, <2>3, RecordRetouched DEF AttestKyb, old
  <1>4. ASSUME NEW category \in SettlementCategory, SetCategory(m, category) PROVE LedgerInv'
    <2> DEFINE r == [old EXCEPT !.category = category]
    <2>1. /\ r.outstandingFronted = old.outstandingFronted /\ r.bond = old.bond
          /\ r.payoutDomain = old.payoutDomain /\ Bonded(r)
      BY <1>a DEF Bonded, MerchantFields
    <2>2. Dealing(r)
      BY <1>a, <2>1 DEF Dealing
    <2>3. merchants' = [merchants EXCEPT ![m] = r]
      BY <1>4 DEF SetCategory
    <2> HIDE DEF r, old
    <2> QED BY <1>4, <2>1, <2>2, <2>3, RecordRetouched DEF SetCategory, old
  <1>5. ASSUME NEW amount \in BondAmounts, PostBond(m, amount) PROVE LedgerInv'
    <2> DEFINE r == [old EXCEPT !.bond = old.bond + amount]
    <2>1. /\ r.outstandingFronted = old.outstandingFronted /\ r.bond = old.bond + amount
          /\ r.payoutDomain = old.payoutDomain /\ r.withheld = old.withheld
          /\ r = [f \in MerchantFields |-> r[f]]
      BY <1>a DEF Bonded, MerchantFields
    <2>2. amount \in Nat
      BY CheckoutAssumption
    <2>3. /\ old.bond + amount \in Int /\ old.withheld \in Int
          /\ old.withheld <= old.bond + amount
      BY <1>a, <2>2 DEF Bonded
    <2>4. merchants' = [merchants EXCEPT ![m] = r]
      BY <1>5 DEF PostBond
    <2>5. custody' = [custody EXCEPT !.registry = custody.registry + amount]
      BY <1>5 DEF PostBond
    <2> HIDE DEF r, old
    <2>6. Bonded(r) /\ Dealing(r)
      BY <1>a, <2>1, <2>3 DEF Bonded, Dealing
    <2>7. RecordChange(m, r, amount)
      <3>1. amount \in Int /\ UNCHANGED <<pool, totalFronted, escrows, payouts, refunds, now>>
        BY <1>5, <2>2 DEF PostBond
      <3> QED BY <2>1, <2>4, <2>5, <2>6, <3>1, Zenon DEF RecordChange, old
    <2> QED BY <2>7, RecordChanges
  <1>6. ASSUME NEW amount \in BondAmounts, WithdrawBond(m, amount) PROVE LedgerInv'
    <2> DEFINE r == BondTaken(old, amount)
    <2>1. /\ r.outstandingFronted = old.outstandingFronted /\ r.bond = old.bond - amount
          /\ r.payoutDomain = old.payoutDomain
      BY <1>a DEF BondTaken, Bonded, MerchantFields
    <2>2. amount \in Int /\ amount <= old.bond
      BY <1>b, <1>6 DEF WithdrawBond, CanWithdrawBond
    <2>3. Bonded(r) /\ Dealing(r)
      BY <1>a, <2>1, <2>2, TakenBonded DEF Dealing
    <2>4. merchants' = [merchants EXCEPT ![m] = r]
      BY <1>6 DEF WithdrawBond
    <2>5. custody' = [custody EXCEPT !.registry = custody.registry - amount]
      BY <1>6 DEF WithdrawBond
    <2> HIDE DEF r, old
    <2>6. /\ -amount \in Int /\ old.bond - amount = old.bond + (-amount)
          /\ custody.registry - amount = custody.registry + (-amount)
      BY <1>a, <2>2 DEF Bonded, CustodyOK
    <2>7. RecordChange(m, r, -amount)
      <3>1. UNCHANGED <<pool, totalFronted, escrows, payouts, refunds, now>>
        BY <1>6 DEF WithdrawBond
      <3>2. /\ r.bond = old.bond + (-amount)
            /\ custody' = [custody EXCEPT !.registry = custody.registry + (-amount)]
        BY <2>1, <2>5, <2>6
      <3> QED BY <2>1, <2>3, <2>4, <2>6, <3>1, <3>2, Zenon DEF RecordChange, old
    <2> QED BY <2>7, RecordChanges
  <1>7. ASSUME NEW d \in Domains, Dispatch(m, d) PROVE LedgerInv'
    <2> DEFINE q == payouts.queued
    <2>0. IsQueue(q) /\ 0 \in Int
      BY <1>a DEF PayoutsAgree
    <2>1. q[m][d] \in Int
      BY <2>0 DEF IsQueue
    <2>2. /\ payouts' = [payouts EXCEPT !.queued[m][d] = 0]
          /\ custody' = [custody EXCEPT !.payouts = custody.payouts - q[m][d]]
      BY <1>7 DEF Dispatch
    <2>3. /\ payouts' = [f \in {"queued", "denied"} |-> payouts'[f]]
          /\ payouts'.queued = [q EXCEPT ![m][d] = 0]
      BY <1>a, <2>2 DEF PayoutsAgree
    <2>4. /\ IsQueue([q EXCEPT ![m][d] = 0])
          /\ QueuedOf([q EXCEPT ![m][d] = 0]) = QueuedOf(q) - q[m][d] + 0
      <3> HIDE DEF q
      <3> QED BY <2>0, QueueMoves
    <2>5. /\ CustodyOK' /\ custody'.payouts = custody.payouts - q[m][d]
          /\ custody'.registry = custody.registry /\ custody'.escrow = custody.escrow
          /\ custody'.refunds = custody.refunds
      BY <1>a, <2>1, <2>2 DEF CustodyOK
    <2>6. custody.payouts = QueuedOf(q) /\ custody.payouts \in Int
      BY <1>a DEF PayoutsAgree, CustodyOK
    <2> HIDE DEF q
    <2>7. custody'.payouts = QueuedOf([q EXCEPT ![m][d] = 0])
      BY <2>1, <2>4, <2>5, <2>6
    <2>8. PayoutsAgree'
      BY <2>3, <2>4, <2>7 DEF PayoutsAgree
    <2>9. RegistryAgrees' /\ EscrowAgrees' /\ RefundsAgree'
      BY <1>a, <1>7, <2>5, RegistryStays, EscrowStays, RefundsStay DEF Dispatch
    <2>10. PoolAgrees' /\ ExposureCovers' /\ SalesOK'
      BY <1>a, <1>7, PoolStays, ExposureStays, SalesStay DEF Dispatch, pool, SalesOK
    <2> QED BY <2>5, <2>8, <2>9, <2>10 DEF LedgerInv
  <1>8. ASSUME ClaimRebate(m) PROVE LedgerInv'
    <2> DEFINE pay == Lesser(refunds.rebateOwed[m], refunds.rebateReserve)
    <2>1. /\ refunds' = [f \in RefundFields |-> refunds'[f]]
          /\ refunds'.disputes = refunds.disputes
          /\ refunds'.rebateReserve = refunds.rebateReserve - pay
      <3> HIDE DEF pay
      <3> QED BY <1>a, <1>8 DEF ClaimRebate, RefundsAgree, RefundsOK, RefundFields, pay
    <2>2. /\ CustodyOK' /\ custody'.payouts = custody.payouts
          /\ custody'.registry = custody.registry /\ custody'.escrow = custody.escrow
          /\ custody'.refunds = custody.refunds - pay
      BY <1>a, <1>8 DEF ClaimRebate, CustodyOK
    <2>3. RefundsOK'
      BY <1>a, <2>1, DisputesUntouched DEF RefundsAgree
    <2>4. RefundsAgree'
      BY <1>a, <2>1, <2>2, <2>3 DEF RefundsAgree
    <2>5. RegistryAgrees' /\ EscrowAgrees' /\ PayoutsAgree'
      BY <1>a, <1>8, <2>2, RegistryStays, EscrowStays, PayoutsStay DEF ClaimRebate
    <2>6. PoolAgrees' /\ ExposureCovers' /\ SalesOK'
      BY <1>a, <1>8, PoolStays, ExposureStays, SalesStay DEF ClaimRebate, pool, SalesOK
    <2> QED BY <2>2, <2>4, <2>5, <2>6 DEF LedgerInv
  <1> QED BY <1>1, <1>2, <1>3, <1>4, <1>5, <1>6, <1>7, <1>8 DEF Trade

\* Recognition through the router: the merchant's exposure and the total come
\* down by what the receivable fell by.
LEMMA RouterLedgers ==
    ASSUME LedgerInv, NEW k \in Plans, RecogniseThroughRouter(k), UNCHANGED <<view, custody>>
    PROVE  RegistryAgrees' /\ PoolAgrees' /\ ExposureCovers'
  <1> DEFINE m == Terms[k].merchant
             old == merchants[m]
             rec == RecoveredOf(k)
             r == RecoveryNoted(old, rec)
             x == old.outstandingFronted
             y == Less(x, rec)
  <1>1. m \in Merchants
    BY PoolTermsAssumption
  <1>2. /\ RegistryAgrees /\ Bonded(old) /\ Dealing(old) /\ CustodyOK
        /\ ExposureCovers /\ PoolAgrees /\ merchants = [n \in Merchants |-> merchants[n]]
        /\ \A n \in Merchants : /\ merchants[n].bond \in Int
                                /\ merchants[n].outstandingFronted \in Nat
    BY <1>1 DEF LedgerInv, RegistryAgrees, MerchantsOK, Bonded, Dealing
  <1>3. /\ PoolAgrees' /\ rec \in Nat
        /\ \A n \in Merchants :
             OutOf(book'.books, n) =
               IF Terms[k].merchant = n THEN OutOf(book.books, n) - rec
               ELSE OutOf(book.books, n)
    <2>1. book' = Recognised(book, k, view[k])
      BY DEF RecogniseThroughRouter
    <2> QED BY <1>2, <2>1, PoolRecognises
  <1>4. /\ r.bond = old.bond /\ r.payoutDomain = old.payoutDomain
        /\ r.outstandingFronted = y
    BY <1>2 DEF RecoveryNoted, Bonded, MerchantFields
  <1>5. /\ merchants' = [merchants EXCEPT ![m] = r]
        /\ totalFronted' = Less(totalFronted, Lesser(rec, x))
    BY DEF RecogniseThroughRouter
  <1>6. Bonded(r)
    BY <1>2, RecoveryBonded
  <1> HIDE DEF r, rec, old
  <1>7. x \in Nat /\ y \in Nat /\ y >= x - rec /\ x - Lesser(rec, x) = y
    BY <1>2, <1>3 DEF Less, Lesser, Dealing
  <1> HIDE DEF x, y
  <1>8. \A n \in Merchants : merchants'[n] = IF n = m THEN r ELSE merchants[n]
    BY <1>2, <1>5
  <1>9. FrontedOf(merchants') = FrontedOf(merchants) - x + y
    <2>1. \A n \in Merchants : merchants[n].outstandingFronted \in Int
      BY <1>2
    <2>2. r.outstandingFronted \in Int
      BY <1>4, <1>7
    <2> QED BY <1>1, <1>2, <1>4, <1>5, <2>1, <2>2, FrontedMoves DEF x, old
  <1>10. FrontedOf(merchants) \in Nat /\ FrontedOf(merchants') \in Nat
    <2>1. \A n \in Merchants : /\ merchants'[n].bond \in Int
                               /\ merchants'[n].outstandingFronted \in Nat
      BY <1>2, <1>4, <1>6, <1>7, <1>8 DEF Bonded
    <2> QED BY <1>2, <2>1, SumsAreInt
  <1>11. totalFronted' = totalFronted - x + r.outstandingFronted
    <2> DEFINE t == FrontedOf(merchants)
               u == FrontedOf(merchants')
               z == Lesser(rec, x)
    <2>1. totalFronted = t
      BY <1>2 DEF RegistryAgrees
    <2>2. z \in Nat
      BY <1>3, <1>7 DEF Lesser
    <2> HIDE DEF t, u, z
    <2>3. t \in Nat /\ u \in Nat /\ u = t - x + y /\ x - z = y
      BY <1>7, <1>9, <1>10 DEF t, u, z
    <2>4. Less(t, z) = t - x + y
      BY <1>7, <2>2, <2>3 DEF Less
    <2> QED BY <1>4, <1>5, <2>1, <2>4 DEF z
  <1>12. RegistryAgrees'
    <2>1. Dealing(r)
      BY <1>2, <1>4, <1>7 DEF Dealing
    <2>2. custody'.registry = custody.registry - merchants[m].bond + r.bond
      BY <1>2, <1>4 DEF CustodyOK, Bonded, old
    <2> QED BY <1>1, <1>2, <1>5, <1>6, <1>11, <2>1, <2>2, RegistryMoves DEF x, old
  <1>13. ExposureCovers'
    <2> SUFFICES ASSUME NEW n \in Merchants
                 PROVE  merchants'[n].outstandingFronted >= OutOf(book'.books, n)
      BY DEF ExposureCovers
    <2>1. merchants[n].outstandingFronted >= OutOf(book.books, n)
      BY <1>2 DEF ExposureCovers
    <2>2. OutOf(book.books, n) \in Int
      BY <1>2, OutIsInt DEF PoolAgrees, Backed
    <2>3. CASE n # m
      BY <1>3, <1>8, <2>1, <2>3
    <2>4. CASE n = m
      <3>1. x >= OutOf(book.books, m) /\ OutOf(book.books, m) \in Int
        BY <2>1, <2>2, <2>4 DEF x, old
      <3>2. OutOf(book'.books, m) = OutOf(book.books, m) - rec
        BY <1>1, <1>3
      <3>3. y >= OutOf(book'.books, m)
        BY <1>3, <1>7, <3>1, <3>2
      <3> QED BY <1>4, <1>8, <2>4, <3>3
    <2> QED BY <2>3, <2>4
  <1> QED BY <1>3, <1>12, <1>13

LEMMA RecogniseLedgers ==
    ASSUME LedgerInv, NEW k \in Plans, Recognise(k)
    PROVE  LedgerInv'
  <1>1. RegistryAgrees' /\ PoolAgrees' /\ ExposureCovers'
    BY RouterLedgers DEF Recognise
  <1>2. EscrowAgrees' /\ PayoutsAgree' /\ RefundsAgree'
    BY EscrowStays, PayoutsStay, RefundsStay DEF LedgerInv, Recognise
  <1>3. CustodyOK' /\ SalesOK'
    BY SalesStay DEF LedgerInv, Recognise, CustodyOK, SalesOK
  <1> QED BY <1>1, <1>2, <1>3 DEF LedgerInv

LEMMA PoolCrankLedgers ==
    ASSUME LedgerInv, NEW k \in Plans, RecogniseAtPool(k)
    PROVE  LedgerInv'
  <1>1. /\ PoolAgrees' /\ RecoveredOf(k) \in Nat
        /\ \A m \in Merchants :
             OutOf(book'.books, m) =
               IF Terms[k].merchant = m
               THEN OutOf(book.books, m) - RecoveredOf(k) ELSE OutOf(book.books, m)
    BY PoolRecognises DEF LedgerInv, RecogniseAtPool
  <1>2. ExposureCovers'
    <2> SUFFICES ASSUME NEW m \in Merchants
                 PROVE  merchants[m].outstandingFronted >= OutOf(book'.books, m)
      BY DEF ExposureCovers, RecogniseAtPool
    <2>1. /\ merchants[m].outstandingFronted >= OutOf(book.books, m)
          /\ merchants[m].outstandingFronted \in Nat
      BY DEF LedgerInv, ExposureCovers, RegistryAgrees, Dealing
    <2>2. OutOf(book.books, m) \in Int
      BY OutIsInt DEF LedgerInv, PoolAgrees, Backed
    <2> QED BY <1>1, <2>1, <2>2
  <1>3. RegistryAgrees' /\ EscrowAgrees' /\ PayoutsAgree' /\ RefundsAgree'
    BY RegistryStays, EscrowStays, PayoutsStay, RefundsStay DEF LedgerInv, RecogniseAtPool
  <1>4. CustodyOK' /\ SalesOK'
    BY SalesStay DEF LedgerInv, RecogniseAtPool, CustodyOK, SalesOK
  <1> QED BY <1>1, <1>2, <1>3, <1>4 DEF LedgerInv

\* A sale: the slice withheld goes to the registry, the rest into escrow, into
\* the queue or out.
LEMMA OriginateLedgers ==
    ASSUME LedgerInv, NEW k \in Plans, Originate(k)
    PROVE  LedgerInv'
  <1> DEFINE m == Terms[k].merchant
             size == Terms[k].principal
             old == merchants[m]
             w == Withholding(k)
             p == Payable(k)
             posted == WithheldPosted(old, w)
             r == OriginationNoted(posted, size, now)
             held == posted.category = "Escrowed"
             domain == posted.payoutDomain
             row == [state |-> "Held", amount |-> p, domain |-> domain,
                     heldAt |-> now, attestedAt |-> 0]
  <1>1. m \in Merchants /\ size \in Nat \ {0} /\ w \in Int /\ p \in Int
    BY PoolTermsAssumption, WithholdingIsInt
  <1>2. /\ RegistryAgrees /\ EscrowAgrees /\ PayoutsAgree /\ RefundsAgree
        /\ CustodyOK /\ PoolAgrees /\ ExposureCovers /\ SalesOK
        /\ Bonded(old) /\ Dealing(old) /\ merchants = [n \in Merchants |-> merchants[n]]
    BY <1>1 DEF LedgerInv, RegistryAgrees, MerchantsOK
  <1>3. /\ posted.bond = old.bond + w /\ posted.payoutDomain = old.payoutDomain
        /\ posted.outstandingFronted = old.outstandingFronted
    BY <1>2 DEF WithheldPosted, Bonded, MerchantFields
  <1>4. Bonded(posted)
    BY <1>1, <1>2, PostedBonded
  <1>5. /\ r.bond = posted.bond /\ r.payoutDomain = posted.payoutDomain
        /\ r.outstandingFronted = posted.outstandingFronted + size
    <2> HIDE DEF posted
    <2> QED BY <1>4 DEF OriginationNoted, Bonded, MerchantFields
  <1>6. Bonded(r)
    BY <1>4, NotedBonded
  <1>7. /\ merchants' = [merchants EXCEPT ![m] = r]
        /\ totalFronted' = totalFronted + size
        /\ escrows' = IF held THEN [escrows EXCEPT ![k] = row] ELSE escrows
        /\ payouts' = IF held THEN payouts ELSE Paid(payouts, m, domain, p)
        /\ custody' = [custody EXCEPT
                         !.registry = custody.registry + w,
                         !.escrow = custody.escrow + (IF held THEN p ELSE 0),
                         !.payouts = custody.payouts + (IF held THEN 0 ELSE Kept(domain, p))]
    BY DEF Originate, SettleMerchant
  <1>8. /\ originatedAt[k] = 0 /\ ~book.books[k].fronted /\ book' = Fronted(book, k)
        /\ originatedAt' = [originatedAt EXCEPT ![k] = now]
        /\ UNCHANGED <<view, refunds, now>>
    BY DEF Originate, CanFront
  <1>9. domain \in Domains /\ row.amount = p /\ row.domain = domain /\ row.state = "Held"
    BY <1>2, <1>3 DEF Dealing
  <1>10. IsRow(row)
    BY <1>1 DEF IsRow, EscrowFields
  <1> HIDE DEF m, size, old, w, p, posted, r, held, domain, row
  <1>11. /\ CustodyOK' /\ custody'.registry = custody.registry + w
         /\ custody'.escrow = custody.escrow + (IF held THEN p ELSE 0)
         /\ custody'.payouts = custody.payouts + (IF held THEN 0 ELSE Kept(domain, p))
         /\ custody'.refunds = custody.refunds
    <2> DEFINE a == IF held THEN p ELSE 0
               b == IF held THEN 0 ELSE Kept(domain, p)
    <2>1. a \in Int /\ b \in Int
      BY <1>1 DEF Kept
    <2> HIDE DEF a, b
    <2>2. custody' = [custody EXCEPT !.registry = custody.registry + w,
                                     !.escrow = custody.escrow + a,
                                     !.payouts = custody.payouts + b]
      BY <1>7 DEF a, b
    <2> DEFINE x == custody.registry + w
               y == custody.escrow + a
               z == custody.payouts + b
    <2>3. x \in Int /\ y \in Int /\ z \in Int
      BY <1>1, <1>2, <2>1 DEF CustodyOK
    <2>4. custody' = [custody EXCEPT !.registry = x, !.escrow = y, !.payouts = z]
      BY <2>2
    <2> HIDE DEF x, y, z
    <2>5. /\ CustodyOK' /\ custody'.registry = x /\ custody'.escrow = y
          /\ custody'.payouts = z /\ custody'.refunds = custody.refunds
      BY <1>2, <2>3, <2>4 DEF CustodyOK
    <2> QED BY <2>5 DEF a, b, x, y, z
  <1>12. RegistryAgrees'
    <2>1. \A n \in Merchants : merchants[n].bond \in Int /\ merchants[n].outstandingFronted \in Nat
      BY <1>2 DEF RegistryAgrees, MerchantsOK, Bonded, Dealing
    <2>2. totalFronted \in Nat
      BY <1>2, <2>1, SumsAreInt DEF RegistryAgrees
    <2>3. old.outstandingFronted \in Nat /\ old.bond \in Int
      BY <1>1, <2>1 DEF old
    <2>4. Dealing(r)
      BY <1>1, <1>2, <1>3, <1>5, <2>3 DEF Dealing
    <2>5. /\ totalFronted' = totalFronted - old.outstandingFronted + r.outstandingFronted
          /\ custody'.registry = custody.registry - old.bond + r.bond
      BY <1>1, <1>2, <1>3, <1>5, <1>7, <1>11, <2>2, <2>3 DEF CustodyOK
    <2> QED BY <1>1, <1>2, <1>6, <1>7, <2>4, <2>5, RegistryMoves DEF old
  <1>13. EscrowAgrees'
    <2>1. CASE held
      <3>1. ~Live(escrows[k]) /\ Live(row)
        BY <1>2, <1>8, <1>9 DEF SalesOK, Live
      <3>2. escrows' = [escrows EXCEPT ![k] = row]
        BY <1>7, <2>1
      <3>3. custody'.escrow = custody.escrow
                               - (IF Live(escrows[k]) THEN escrows[k].amount ELSE 0)
                               + (IF Live(row) THEN row.amount ELSE 0)
        BY <1>1, <1>2, <1>9, <1>11, <2>1, <3>1 DEF CustodyOK
      <3> QED BY <1>2, <1>9, <1>10, <3>2, <3>3, EscrowRowMoves
    <2>2. CASE ~held
      <3>1. escrows' = escrows /\ custody'.escrow = custody.escrow
        BY <1>2, <1>7, <1>11, <2>2 DEF CustodyOK
      <3> QED BY <1>2, <3>1, EscrowStays
    <2> QED BY <2>1, <2>2
  <1>14. PayoutsAgree'
    <2>1. CASE held
      <3>1. payouts' = payouts /\ custody'.payouts = custody.payouts
        BY <1>2, <1>7, <1>11, <2>1 DEF CustodyOK
      <3> QED BY <1>2, <3>1, PayoutsStay
    <2>2. CASE ~held
      <3>1. payouts' = Paid(payouts, m, domain, p)
            /\ custody'.payouts = custody.payouts + Kept(domain, p)
        BY <1>7, <1>11, <2>2
      <3> QED BY <1>1, <1>2, <1>9, <3>1, PayoutsTake
    <2> QED BY <2>1, <2>2
  <1>15. RefundsAgree'
    BY <1>2, <1>8, <1>11, RefundsStay
  <1>16. /\ PoolAgrees'
         /\ \A n \in Merchants :
              OutOf(book'.books, n) =
                IF Terms[k].merchant = n
                THEN OutOf(book.books, n) + Terms[k].principal ELSE OutOf(book.books, n)
    BY <1>2, <1>8, PoolFronts
  <1>17. ExposureCovers'
    <2> SUFFICES ASSUME NEW n \in Merchants
                 PROVE  merchants'[n].outstandingFronted >= OutOf(book'.books, n)
      BY DEF ExposureCovers
    <2>1. /\ merchants[n].outstandingFronted >= OutOf(book.books, n)
          /\ merchants[n].outstandingFronted \in Nat
      BY <1>2 DEF ExposureCovers, RegistryAgrees, Dealing
    <2>2. OutOf(book.books, n) \in Int
      BY <1>2, OutIsInt DEF PoolAgrees, Backed
    <2>3. CASE n # m
      <3>1. merchants'[n] = merchants[n] /\ OutOf(book'.books, n) = OutOf(book.books, n)
        BY <1>2, <1>7, <1>16, <2>3 DEF m
      <3> QED BY <2>1, <3>1
    <2>4. CASE n = m
      <3>1. merchants'[n].outstandingFronted = merchants[n].outstandingFronted + size
        BY <1>1, <1>2, <1>3, <1>5, <1>7, <2>4 DEF old
      <3>2. OutOf(book'.books, n) = OutOf(book.books, n) + size
        BY <1>16, <2>4 DEF m, size
      <3> QED BY <1>1, <2>1, <2>2, <3>1, <3>2
    <2> QED BY <2>3, <2>4
  <1>18. SalesOK'
    <2>1. \A j \in Plans : originatedAt'[j] = IF j = k THEN now ELSE originatedAt[j]
      BY <1>2, <1>8 DEF SalesOK
    <2>2. \A j \in Plans : j # k => escrows'[j] = escrows[j]
      BY <1>2, <1>7 DEF EscrowAgrees, EscrowsOK
    <2> QED BY <1>2, <1>8, <2>1, <2>2 DEF SalesOK
  <1> QED BY <1>11, <1>12, <1>13, <1>14, <1>15, <1>16, <1>17, <1>18 DEF LedgerInv

LEMMA AttestLedgers ==
    ASSUME LedgerInv, NEW k \in Plans, AttestShipment(k)
    PROVE  LedgerInv'
  <1> DEFINE r == [escrows[k] EXCEPT !.state = "Attested", !.attestedAt = now]
  <1>1. /\ EscrowAgrees /\ CustodyOK /\ SalesOK /\ IsRow(escrows[k])
        /\ escrows[k].domain \in Domains
    BY DEF LedgerInv, EscrowAgrees, EscrowsOK
  <1>2. /\ r.amount = escrows[k].amount /\ r.domain = escrows[k].domain
        /\ r.state = "Attested" /\ IsRow(r)
    BY <1>1 DEF IsRow, EscrowFields
  <1>3. escrows' = [escrows EXCEPT ![k] = r]
    BY <1>1 DEF AttestShipment, EscrowAgrees, EscrowsOK
  <1> HIDE DEF r
  <1>4. escrows[k].state = "Held" /\ UNCHANGED custody
    BY DEF AttestShipment
  <1>5. EscrowAgrees'
    <2>1. Live(escrows[k]) /\ Live(r)
      BY <1>2, <1>4 DEF Live
    <2>2. custody'.escrow = custody.escrow
                              - (IF Live(escrows[k]) THEN escrows[k].amount ELSE 0)
                              + (IF Live(r) THEN r.amount ELSE 0)
      BY <1>1, <1>2, <1>4, <2>1 DEF CustodyOK, IsRow
    <2> QED BY <1>1, <1>2, <1>3, <2>2, EscrowRowMoves
  <1>6. SalesOK'
    <2>1. \A j \in Plans : j # k => escrows'[j] = escrows[j]
      BY <1>1, <1>3 DEF EscrowAgrees, EscrowsOK
    <2> QED BY <1>1, <1>4, <2>1 DEF SalesOK, AttestShipment, pool
  <1>7. RegistryAgrees' /\ PayoutsAgree' /\ RefundsAgree' /\ PoolAgrees' /\ ExposureCovers'
    BY RegistryStays, PayoutsStay, RefundsStay, PoolStays, ExposureStays
       DEF LedgerInv, AttestShipment, pool
  <1> QED BY <1>1, <1>4, <1>5, <1>6, <1>7 DEF LedgerInv, CustodyOK

\* A row leaves the escrow with its amount.
LEMMA RowLeaves ==
    ASSUME EscrowAgrees, CustodyOK, SalesOK, NEW k \in Plans, NEW state,
           Live(escrows[k]), state \in {"Released", "Returned"},
           escrows' = [escrows EXCEPT ![k].state = state],
           custody'.escrow = custody.escrow - escrows[k].amount,
           UNCHANGED <<originatedAt, now>>
    PROVE  EscrowAgrees' /\ SalesOK'
  <1> DEFINE r == [escrows[k] EXCEPT !.state = state]
  <1>1. /\ escrows = [j \in Plans |-> escrows[j]] /\ IsRow(escrows[k])
        /\ escrows[k].domain \in Domains
    BY DEF EscrowAgrees, EscrowsOK
  <1>2. /\ r.amount = escrows[k].amount /\ r.domain = escrows[k].domain
        /\ r.state = state /\ IsRow(r)
    BY <1>1 DEF IsRow, EscrowFields
  <1>3. escrows' = [escrows EXCEPT ![k] = r]
    BY <1>1
  <1> HIDE DEF r
  <1>4. EscrowAgrees'
    <2>1. ~Live(r)
      BY <1>2 DEF Live
    <2>2. custody'.escrow = custody.escrow
                              - (IF Live(escrows[k]) THEN escrows[k].amount ELSE 0)
                              + (IF Live(r) THEN r.amount ELSE 0)
      BY <1>1, <2>1 DEF CustodyOK, IsRow
    <2> QED BY <1>1, <1>2, <1>3, <2>2, EscrowRowMoves
  <1>5. SalesOK'
    <2>1. \A j \in Plans : j # k => escrows'[j] = escrows[j]
      BY <1>1, <1>3
    <2>2. originatedAt[k] # 0
      BY DEF SalesOK, Live
    <2> QED BY <2>1, <2>2 DEF SalesOK
  <1> QED BY <1>4, <1>5

LEMMA ReleaseLedgers ==
    ASSUME LedgerInv, NEW k \in Plans, Release(k)
    PROVE  LedgerInv'
  <1> DEFINE m == Terms[k].merchant
             amount == escrows[k].amount
             domain == escrows[k].domain
  <1>1. /\ EscrowAgrees /\ CustodyOK /\ SalesOK /\ PayoutsAgree
        /\ m \in Merchants /\ amount \in Int /\ domain \in Domains
    BY PoolTermsAssumption DEF LedgerInv, EscrowAgrees, EscrowsOK, IsRow
  <1>2. /\ escrows' = [escrows EXCEPT ![k].state = "Released"]
        /\ payouts' = Paid(payouts, m, domain, amount)
        /\ custody' = [custody EXCEPT !.escrow = custody.escrow - amount,
                                      !.payouts = custody.payouts + Kept(domain, amount)]
        /\ Live(escrows[k])
    BY DEF Release, CanRelease, Live
  <1> HIDE DEF m, amount, domain
  <1>3. Kept(domain, amount) \in Int
    BY <1>1 DEF Kept
  <1>4. /\ CustodyOK' /\ custody'.escrow = custody.escrow - amount
        /\ custody'.payouts = custody.payouts + Kept(domain, amount)
        /\ custody'.registry = custody.registry /\ custody'.refunds = custody.refunds
    <2> DEFINE y == custody.escrow - amount
               z == custody.payouts + Kept(domain, amount)
    <2>1. y \in Int /\ z \in Int
      BY <1>1, <1>3 DEF CustodyOK
    <2>2. custody' = [custody EXCEPT !.escrow = y, !.payouts = z]
      BY <1>2
    <2> HIDE DEF y, z
    <2>3. /\ CustodyOK' /\ custody'.escrow = y /\ custody'.payouts = z
          /\ custody'.registry = custody.registry /\ custody'.refunds = custody.refunds
      BY <1>1, <2>1, <2>2 DEF CustodyOK
    <2> QED BY <2>3 DEF y, z
  <1>5. EscrowAgrees' /\ SalesOK'
    <2>1. UNCHANGED <<originatedAt, now>>
      BY DEF Release, pool
    <2>2. custody'.escrow = custody.escrow - escrows[k].amount
      BY <1>4 DEF amount
    <2> QED BY <1>1, <1>2, <2>1, <2>2, RowLeaves
  <1>6. PayoutsAgree'
    BY <1>1, <1>2, <1>4, PayoutsTake
  <1>7. RegistryAgrees' /\ RefundsAgree' /\ PoolAgrees' /\ ExposureCovers'
    BY <1>4, RegistryStays, RefundsStay, PoolStays, ExposureStays DEF LedgerInv, Release, pool
  <1> QED BY <1>4, <1>5, <1>6, <1>7 DEF LedgerInv

LEMMA ReturnLedgers ==
    ASSUME LedgerInv, NEW k \in Plans, RefundToPool(k)
    PROVE  LedgerInv'
  <1> DEFINE amount == escrows[k].amount
  <1>1. EscrowAgrees /\ CustodyOK /\ SalesOK /\ amount \in Int
    BY DEF LedgerInv, EscrowAgrees, EscrowsOK, IsRow
  <1>2. /\ escrows' = [escrows EXCEPT ![k].state = "Returned"]
        /\ custody' = [custody EXCEPT !.escrow = custody.escrow - amount]
        /\ book' = ReserveFunded(book, amount) /\ Live(escrows[k])
        /\ UNCHANGED <<view, originatedAt, merchants, totalFronted, payouts, refunds, now>>
    BY DEF RefundToPool, Live
  <1>3. /\ CustodyOK' /\ custody'.escrow = custody.escrow - amount
        /\ custody'.payouts = custody.payouts
        /\ custody'.registry = custody.registry /\ custody'.refunds = custody.refunds
    BY <1>1, <1>2 DEF CustodyOK
  <1>4. EscrowAgrees' /\ SalesOK'
    BY <1>1, <1>2, <1>3, RowLeaves
  <1>5. PoolAgrees' /\ ExposureCovers'
    BY <1>1, <1>2, PoolIsFunded DEF LedgerInv
  <1>6. RegistryAgrees' /\ RefundsAgree' /\ PayoutsAgree'
    BY <1>2, <1>3, RegistryStays, RefundsStay, PayoutsStay DEF LedgerInv
  <1> QED BY <1>3, <1>4, <1>5, <1>6 DEF LedgerInv

LEMMA NoteRefundLedgers ==
    ASSUME LedgerInv, NEW k \in Plans, NoteRefund(k)
    PROVE  LedgerInv'
  <1>1. UNCHANGED <<view, custody, originatedAt, escrows, payouts, now>>
    BY DEF NoteRefund
  <1>2. RegistryAgrees' /\ PoolAgrees' /\ ExposureCovers'
    BY <1>1, RouterLedgers DEF NoteRefund
  <1>3. /\ refunds' = [f \in RefundFields |-> refunds'[f]]
        /\ refunds'.disputes = refunds.disputes
        /\ refunds'.rebateReserve = refunds.rebateReserve
    BY DEF NoteRefund, LedgerInv, RefundsAgree, RefundsOK, RefundFields
  <1>4. RefundsOK'
    BY <1>3, DisputesUntouched DEF LedgerInv, RefundsAgree
  <1>5. RefundsAgree'
    BY <1>1, <1>3, <1>4 DEF LedgerInv, RefundsAgree
  <1>6. EscrowAgrees' /\ PayoutsAgree'
    BY <1>1, EscrowStays, PayoutsStay DEF LedgerInv
  <1>7. CustodyOK' /\ SalesOK'
    BY <1>1, SalesStay DEF LedgerInv, CustodyOK, SalesOK
  <1> QED BY <1>2, <1>5, <1>6, <1>7 DEF LedgerInv

LEMMA ServeLedgers ==
    ASSUME LedgerInv, NEW k \in Plans, Serve(k)
    PROVE  LedgerInv'
  BY OriginateLedgers, RecogniseLedgers, PoolCrankLedgers, AttestLedgers, ReleaseLedgers,
     ReturnLedgers, NoteRefundLedgers DEF Serve

LEMMA RepayLedgers ==
    ASSUME LedgerInv, NEW k \in Plans, Repay(k)
    PROVE  LedgerInv'
  <1>1. /\ PoolAgrees /\ ExposureCovers /\ Owing(k, view[k])
        /\ Terms[k].principal \in Nat /\ Terms[k].extras \in Nat
    BY PoolTermsAssumption DEF LedgerInv, PoolAgrees
  <1>2. ASSUME UNCHANGED <<originatedAt, merchants, totalFronted, escrows, payouts,
                           refunds, custody, now>>,
               NEW w, Owing(k, w), w.outstanding <= view[k].outstanding, Became(k, w)
        PROVE  LedgerInv'
    <2>1. PoolAgrees' /\ ExposureCovers'
      BY <1>1, <1>2, PoolIsPaid
    <2>2. RegistryAgrees' /\ EscrowAgrees' /\ PayoutsAgree' /\ RefundsAgree'
      BY <1>2, RegistryStays, EscrowStays, PayoutsStay, RefundsStay DEF LedgerInv
    <2>3. CustodyOK' /\ SalesOK'
      BY <1>2, SalesStay DEF LedgerInv, CustodyOK, SalesOK
    <2> QED BY <2>1, <2>2, <2>3 DEF LedgerInv
  <1>3. ASSUME NEW amount \in RefundAmounts, CreditRefund(k, amount) PROVE LedgerInv'
    <2> DEFINE v == view[k]
               applied == Lesser(amount, v.outstanding)
               left == v.outstanding - applied
    <2>1. PICK released, state :
            /\ released \in Nat
            /\ Became(k, [v EXCEPT !.state = state, !.outstanding = left,
                                   !.forwarded = v.forwarded + applied + released])
      <3>1. \A released : released \in (IF left = 0 THEN 0 .. Terms[k].extras ELSE {0})
                            => released \in Nat
        BY <1>1
      <3> QED BY <1>3, <3>1 DEF CreditRefund
    <2> DEFINE paid == v.forwarded + applied + released
               w == [v EXCEPT !.state = state, !.outstanding = left, !.forwarded = paid]
    <2>12. released \in Nat
      BY <2>1
    <2>2. amount \in Nat /\ v.outstanding \in Nat /\ v.forwarded \in Nat
          /\ v.outstanding <= Terms[k].principal
      BY <1>1, CheckoutAssumption DEF Owing
    <2>3. left \in Nat /\ left <= v.outstanding /\ paid \in Nat
      BY <2>2, <2>12 DEF Lesser
    <2>4. UNCHANGED <<originatedAt, merchants, totalFronted, escrows, payouts,
                      refunds, custody, now>>
      BY <1>3 DEF CreditRefund
    <2>5. Became(k, w)
      BY <2>1
    <2> HIDE DEF left, paid, applied
    <2>6. Owing(k, w) /\ w.outstanding = left
      <3>1. v = [f \in {"state", "outstanding", "forwarded", "late"} |-> v[f]]
        BY <1>1 DEF Owing
      <3> HIDE DEF v
      <3>2. /\ w = [f \in {"state", "outstanding", "forwarded", "late"} |-> w[f]]
            /\ w.outstanding = left /\ w.forwarded = paid
        BY <3>1
      <3> HIDE DEF w
      <3>3. w.outstanding <= Terms[k].principal
        BY <1>1, <2>2, <2>3, <3>2
      <3> QED BY <2>3, <3>2, <3>3 DEF Owing
    <2> HIDE DEF w
    <2>7. w.outstanding <= view[k].outstanding
      BY <2>3, <2>6
    <2> QED BY <1>2, <2>4, <2>5, <2>6, <2>7
  <1>4. ASSUME PlanMoves(k) PROVE LedgerInv'
    <2>1. PICK state \in PlanStates, outstanding \in 0 .. view[k].outstanding,
               forwarded \in view[k].forwarded .. Terms[k].principal + Terms[k].extras :
            Became(k, [state |-> state, outstanding |-> outstanding,
                       forwarded |-> forwarded, late |-> FALSE])
      BY <1>4 DEF PlanMoves
    <2> DEFINE w == [state |-> state, outstanding |-> outstanding,
                     forwarded |-> forwarded, late |-> FALSE]
    <2>2. outstanding \in Nat /\ forwarded \in Nat /\ outstanding <= view[k].outstanding
          /\ outstanding <= Terms[k].principal
      BY <1>1 DEF Owing
    <2>3. Owing(k, w) /\ w.outstanding <= view[k].outstanding
      BY <2>2 DEF Owing
    <2>4. Became(k, w)
      BY <2>1
    <2>5. UNCHANGED <<originatedAt, merchants, totalFronted, escrows, payouts,
                      refunds, custody, now>>
      BY <1>4 DEF PlanMoves
    <2> HIDE DEF w
    <2> QED BY <1>2, <2>3, <2>4, <2>5
  <1> QED BY <1>3, <1>4 DEF Repay

\* A dispute is opened, cancelled or executed.
LEMMA DisputeLedgers ==
    ASSUME RefundsAgree, NEW k \in Plans, NEW d, IsDispute(d),
           d.openedAt # 0 => d.merchant \in Merchants,
           refunds' = [refunds EXCEPT !.disputes[k] = d],
           custody'.refunds = custody.refunds
    PROVE  RefundsAgree'
  <1>1. RefundsOK'
    BY DisputeMoved DEF RefundsAgree
  <1>2. /\ refunds'.disputes = [refunds.disputes EXCEPT ![k] = d]
        /\ refunds'.rebateReserve = refunds.rebateReserve
    BY DEF RefundsAgree, RefundsOK, RefundFields
  <1>3. \A j \in Plans : refunds'.disputes[j] = IF j = k THEN d ELSE refunds.disputes[j]
    BY <1>2 DEF RefundsAgree, RefundsOK, DisputesOK
  <1> QED BY <1>1, <1>2, <1>3 DEF RefundsAgree

LEMMA ContestLedgers ==
    ASSUME LedgerInv, NEW k \in Plans, Contest(k)
    PROVE  LedgerInv'
  <1>a. /\ RefundsAgree /\ CustodyOK /\ SalesOK /\ EscrowsOK /\ RefundsOK
        /\ RegistryAgrees /\ MerchantsOK
    BY DEF LedgerInv, RefundsAgree, EscrowAgrees, RegistryAgrees
  <1>b. IsDispute(NoDispute) /\ NoDispute.openedAt = 0
    BY DEF IsDispute, NoDispute
  <1>1. ASSUME NEW d, IsDispute(d), d.openedAt # 0 => d.merchant \in Merchants,
               refunds' = [refunds EXCEPT !.disputes[k] = d],
               UNCHANGED <<pool, merchants, totalFronted, escrows, payouts, custody, now>>
        PROVE  LedgerInv'
    <2>1. RefundsAgree'
      BY <1>a, <1>1, DisputeLedgers
    <2>2. RegistryAgrees' /\ EscrowAgrees' /\ PayoutsAgree'
      BY <1>1, RegistryStays, EscrowStays, PayoutsStay DEF LedgerInv
    <2>3. PoolAgrees' /\ ExposureCovers' /\ SalesOK' /\ CustodyOK'
      BY <1>1, PoolStays, ExposureStays, SalesStay DEF LedgerInv, pool, SalesOK, CustodyOK
    <2> QED BY <2>1, <2>2, <2>3 DEF LedgerInv
  <1>2. ASSUME NEW m \in Merchants, NEW amount \in Int, Open(k, m, amount) PROVE LedgerInv'
    <2> DEFINE d == [merchant |-> m, amount |-> amount, openedAt |-> now]
    <2>1. IsDispute(d) /\ (d.openedAt # 0 => d.merchant \in Merchants)
      BY <1>2 DEF IsDispute
    <2>2. refunds' = [refunds EXCEPT !.disputes[k] = d]
      BY <1>2 DEF Open
    <2> HIDE DEF d
    <2> QED BY <1>1, <1>2, <2>1, <2>2 DEF Open
  <1>3. ASSUME NEW m \in Merchants, NEW amount \in DisputeAmounts, OpenDispute(k, m, amount)
        PROVE LedgerInv'
    <2>1. amount \in Int
      BY CheckoutAssumption
    <2> QED BY <1>2, <1>3, <2>1 DEF OpenDispute
  <1>4. CASE OpenNonAttestationDispute(k)
    <2>1. Terms[k].merchant \in Merchants
      BY PoolTermsAssumption
    <2>2. escrows[k].amount \in Int /\ merchants[Terms[k].merchant].bond \in Int
      BY <1>a, <2>1 DEF EscrowsOK, IsRow, MerchantsOK, Bonded
    <2>3. Lesser(escrows[k].amount, merchants[Terms[k].merchant].bond) \in Int
      BY <2>2 DEF Lesser
    <2> QED BY <1>2, <1>4, <2>1, <2>3 DEF OpenNonAttestationDispute
  <1>5. CASE CancelDispute(k)
    BY <1>b, <1>1, <1>5 DEF CancelDispute
  <1>6. CASE ExecuteSlash(k)
    <2> DEFINE d == refunds.disputes[k]
               m == d.merchant
               old == merchants[m]
               r == BondTaken(old, d.amount)
    <2>1. /\ d.amount \in Int /\ m \in Merchants /\ d.amount <= old.bond
      BY <1>a, <1>6 DEF ExecuteSlash, RefundsAgree, RefundsOK, DisputesOK, IsDispute
    <2>2. Bonded(old) /\ Dealing(old)
      BY <1>a, <2>1 DEF RegistryAgrees, MerchantsOK
    <2>3. /\ r.outstandingFronted = old.outstandingFronted
          /\ r.bond = old.bond - d.amount /\ r.payoutDomain = old.payoutDomain
      BY <2>2 DEF BondTaken, Bonded, MerchantFields
    <2>4. Bonded(r) /\ Dealing(r)
      BY <2>1, <2>2, <2>3, TakenBonded DEF Dealing
    <2>5. /\ merchants' = [merchants EXCEPT ![m] = r]
          /\ custody' = [custody EXCEPT !.registry = custody.registry - d.amount]
          /\ refunds' = [refunds EXCEPT !.disputes[k] = NoDispute]
          /\ book' = ReserveFunded(book, d.amount)
          /\ UNCHANGED <<view, originatedAt, totalFronted, escrows, payouts, now>>
      BY <1>6 DEF ExecuteSlash
    <2> HIDE DEF r, old, m
    <2>6. /\ CustodyOK' /\ custody'.registry = custody.registry - d.amount
          /\ custody'.escrow = custody.escrow /\ custody'.payouts = custody.payouts
          /\ custody'.refunds = custody.refunds
      <3> HIDE DEF d
      <3> QED BY <1>a, <2>1, <2>5 DEF CustodyOK
    <2>7. RegistryAgrees'
      <3>1. totalFronted \in Int
        <4>1. \A n \in Merchants : merchants[n].bond \in Int
                                   /\ merchants[n].outstandingFronted \in Nat
          BY <1>a DEF RegistryAgrees, MerchantsOK, Bonded, Dealing
        <4>2. totalFronted \in Nat
          BY <1>a, <4>1, SumsAreInt DEF RegistryAgrees
        <4> QED BY <4>2
      <3>2. old.bond \in Int /\ old.outstandingFronted \in Nat
        BY <2>2 DEF Bonded, Dealing
      <3>3. totalFronted' = totalFronted - merchants[m].outstandingFronted
                                         + r.outstandingFronted
        BY <2>3, <2>5, <3>1, <3>2 DEF old
      <3>4. custody'.registry = custody.registry - merchants[m].bond + r.bond
        BY <1>a, <2>1, <2>3, <2>6, <3>2 DEF old, CustodyOK
      <3> QED BY <1>a, <2>1, <2>4, <2>5, <3>3, <3>4, RegistryMoves
    <2>8. \A n \in Merchants : merchants'[n].outstandingFronted = merchants[n].outstandingFronted
      BY <1>a, <2>1, <2>3, <2>5 DEF MerchantsOK, old
    <2>9. PoolAgrees' /\ ExposureCovers'
      BY <2>1, <2>5, <2>8, PoolIsFunded DEF LedgerInv
    <2>10. RefundsAgree'
      BY <1>a, <1>b, <2>5, <2>6, DisputeLedgers
    <2>11. EscrowAgrees' /\ PayoutsAgree' /\ SalesOK'
      BY <2>5, <2>6, EscrowStays, PayoutsStay, SalesStay DEF LedgerInv, SalesOK
    <2> QED BY <2>6, <2>7, <2>9, <2>10, <2>11 DEF LedgerInv
  <1> QED BY <1>3, <1>4, <1>5, <1>6 DEF Contest

LEMMA InitLedgers == Init => LedgerInv
  <1> SUFFICES ASSUME Init PROVE LedgerInv
    OBVIOUS
  <1>1. BondInv
    BY InitBond
  <1>2. IsFiniteSet(Plans) /\ IsFiniteSet(Merchants) /\ IsFiniteSet(Domains)
    BY PoolPartiesAssumption, MerchantParamsAssumption
  <1> DEFINE none == [m \in Merchants |-> 0]
             nil == [k \in Plans |-> 0]
             idle == [d \in Domains |-> 0]
  <1>3. /\ SumOver(none, Merchants) = 0 /\ SumOver(nil, Plans) = 0
        /\ SumOver(nil, {}) = 0 /\ SumOver(idle, Domains) = 0
    BY <1>2, SumOfZeros, SumOfNothing
  <1>4. RegistryAgrees
    <2>1. \A m \in Merchants : merchants[m] = NoMerchant
      BY DEF Init
    <2>2. BondsOf(merchants) = 0 /\ FrontedOf(merchants) = 0
      <3>1. /\ [m \in Merchants |-> merchants[m].bond] = none
            /\ [m \in Merchants |-> merchants[m].outstandingFronted] = none
        BY <2>1 DEF NoMerchant
      <3> QED BY <1>3, <3>1 DEF BondsOf, FrontedOf
    <2>3. \A m \in Merchants : Dealing(merchants[m])
      BY <2>1, MerchantParamsAssumption DEF Dealing, NoMerchant
    <2>4. totalFronted = 0 /\ custody.registry = 0
      BY DEF Init
    <2> QED BY <1>1, <2>2, <2>3, <2>4 DEF RegistryAgrees, BondInv
  <1>5. EscrowAgrees
    <2>1. \A k \in Plans : escrows[k] = NoEscrow
      BY DEF Init
    <2>2. [k \in Plans |-> escrows[k].amount] = nil /\ {k \in Plans : Live(escrows[k])} = {}
      BY <2>1 DEF NoEscrow, Live
    <2>3. custody.escrow = EscrowOf(escrows)
      BY <1>3, <2>2 DEF EscrowOf, Init
    <2> QED BY <1>1, <2>1, <2>3, MerchantParamsAssumption DEF EscrowAgrees, BondInv, NoEscrow
  <1>6. PayoutsAgree
    <2>1. payouts.queued = [m \in Merchants |-> idle]
      BY DEF Init
    <2>2. IsQueue(payouts.queued)
      BY <2>1 DEF IsQueue
    <2>3. [m \in Merchants |-> SumOver(payouts.queued[m], Domains)] = none
      <3> HIDE DEF idle
      <3> QED BY <1>3, <2>1
    <2>4. custody.payouts = QueuedOf(payouts.queued)
      BY <1>3, <2>3 DEF QueuedOf, Init
    <2> QED BY <2>2, <2>4 DEF PayoutsAgree, Init
  <1>7. RefundsAgree
    BY <1>1 DEF RefundsAgree, BondInv, Init, NoDispute
  <1>8. CustodyOK
    BY DEF CustodyOK, Init
  <1>9. /\ \A k \in Plans : book.books[k] = NoBook /\ view[k] = Opening(Terms[k])
        /\ book.books = [k \in Plans |-> book.books[k]]
    BY DEF Init, NewLoanBook
  <1>10. PoolAgrees
    <2>1. /\ book.balance = Reserve + Junior /\ book.bookedCash = Reserve + Junior
          /\ book = [f \in BookFields |-> book[f]]
      BY DEF Init, NewLoanBook, BookFields
    <2>2. IsPaper(NoBook)
      BY DEF IsPaper, NoBook, PaperFields
    <2>3. Shaped(book)
      BY <1>9, <2>1, <2>2 DEF Shaped
    <2>4. \A k \in Plans : Owing(k, view[k]) /\ Backed(book.books[k], view[k])
      <3> SUFFICES ASSUME NEW k \in Plans
                   PROVE  Owing(k, view[k]) /\ Backed(book.books[k], view[k])
        OBVIOUS
      <3>1. Terms[k].principal \in Nat
        BY PoolTermsAssumption
      <3>2. Owing(k, Opening(Terms[k]))
        BY <3>1 DEF Owing, Opening
      <3>3. Backed(NoBook, view[k])
        BY DEF Backed, NoBook
      <3> QED BY <1>9, <3>2, <3>3
    <2>5. [k \in Plans |-> view[k].forwarded - book.books[k].recognisedInflow] = nil
      <3>1. \A k \in Plans : view[k].forwarded - book.books[k].recognisedInflow = 0
        <4> TAKE k \in Plans
        <4>1. Opening(Terms[k]).forwarded = 0 /\ NoBook.recognisedInflow = 0
          BY DEF Opening, NoBook
        <4> QED BY <1>9, <4>1
      <3> QED BY <3>1
    <2>6. Unseen(view, book.books) = 0
      BY <1>3, <2>5 DEF Unseen
    <2>7. Reserve \in Nat /\ Junior \in Nat
      BY CheckoutAssumption
    <2> QED BY <2>1, <2>3, <2>4, <2>6, <2>7 DEF PoolAgrees, Init
  <1>11. ExposureCovers
    <2> SUFFICES ASSUME NEW m \in Merchants
                 PROVE  merchants[m].outstandingFronted >= OutOf(book.books, m)
      BY DEF ExposureCovers
    <2>1. {k \in Plans : book.books[k].open /\ Terms[k].merchant = m} = {}
      BY <1>9 DEF NoBook
    <2>2. OutOf(book.books, m) = 0
      BY <2>1, SumOfNothing DEF OutOf
    <2>3. merchants[m].outstandingFronted = 0
      BY DEF Init, NoMerchant
    <2> QED BY <2>2, <2>3
  <1>12. SalesOK
    BY DEF SalesOK, Init, NoEscrow
  <1> QED BY <1>4, <1>5, <1>6, <1>7, <1>8, <1>10, <1>11, <1>12 DEF LedgerInv

LEMMA NextLedgers == LedgerInv /\ [Next]_vars => LedgerInv'
  <1> SUFFICES ASSUME LedgerInv, [Next]_vars PROVE LedgerInv'
    OBVIOUS
  <1>a. /\ RefundsAgree /\ RefundsOK /\ CustodyOK /\ SalesOK
        /\ Moving \subseteq Plans /\ Contested \subseteq Plans
    BY CheckoutAssumption DEF LedgerInv, RefundsAgree
  <1>1. ASSUME NEW d \in Deniable, DenyDomain(d) PROVE LedgerInv'
    <2>1. PayoutsAgree'
      BY <1>1 DEF DenyDomain, LedgerInv, PayoutsAgree
    <2>2. RegistryAgrees' /\ EscrowAgrees' /\ RefundsAgree'
      BY <1>1, RegistryStays, EscrowStays, RefundsStay DEF DenyDomain, LedgerInv
    <2>3. PoolAgrees' /\ ExposureCovers' /\ SalesOK' /\ CustodyOK'
      BY <1>1, PoolStays, ExposureStays, SalesStay
         DEF DenyDomain, LedgerInv, pool, SalesOK, CustodyOK
    <2> QED BY <2>1, <2>2, <2>3 DEF LedgerInv
  <1>2. ASSUME NEW amount \in RebateAmounts, FundRebates(amount) PROVE LedgerInv'
    <2>1. /\ refunds' = [f \in RefundFields |-> refunds'[f]]
          /\ refunds'.disputes = refunds.disputes
          /\ refunds'.rebateReserve = refunds.rebateReserve + amount
      BY <1>a, <1>2 DEF FundRebates, RefundsOK, RefundFields
    <2>2. /\ CustodyOK' /\ custody'.payouts = custody.payouts
          /\ custody'.registry = custody.registry /\ custody'.escrow = custody.escrow
          /\ custody'.refunds = custody.refunds + amount
      BY <1>a, <1>2 DEF FundRebates, CustodyOK
    <2>3. RefundsOK'
      BY <1>a, <2>1, DisputesUntouched
    <2>4. RefundsAgree'
      BY <1>a, <2>1, <2>2, <2>3 DEF RefundsAgree
    <2>5. RegistryAgrees' /\ EscrowAgrees' /\ PayoutsAgree'
      BY <1>2, <2>2, RegistryStays, EscrowStays, PayoutsStay DEF FundRebates, LedgerInv
    <2>6. PoolAgrees' /\ ExposureCovers' /\ SalesOK'
      BY <1>2, PoolStays, ExposureStays, SalesStay DEF FundRebates, LedgerInv, pool, SalesOK
    <2> QED BY <2>2, <2>4, <2>5, <2>6 DEF LedgerInv
  <1>3. ASSUME now' \in Nat \ {0},
               UNCHANGED <<pool, merchants, totalFronted, escrows, payouts, refunds, custody>>
        PROVE  LedgerInv'
    <2>1. RegistryAgrees' /\ EscrowAgrees' /\ PayoutsAgree' /\ RefundsAgree'
      BY <1>3, RegistryStays, EscrowStays, PayoutsStay, RefundsStay DEF LedgerInv
    <2>2. PoolAgrees' /\ ExposureCovers' /\ SalesOK' /\ CustodyOK'
      BY <1>3, PoolStays, ExposureStays, SalesStay DEF LedgerInv, pool, CustodyOK
    <2> QED BY <2>1, <2>2 DEF LedgerInv
  <1>4. CASE Tick \/ UNCHANGED vars
    <2>1. CASE Tick
      <3>1. now' \in Nat \ {0}
        BY <1>a, <2>1 DEF Tick, SalesOK
      <3> QED BY <1>3, <2>1, <3>1 DEF Tick
    <2>2. CASE UNCHANGED vars
      BY <1>a, <1>3, <2>2 DEF vars, pool, SalesOK
    <2> QED BY <1>4, <2>1, <2>2
  <1> QED BY <1>a, <1>1, <1>2, <1>4, TradeLedgers, ServeLedgers, RepayLedgers, ContestLedgers
     DEF Next

LEMMA LedgerInvariant == Spec => []LedgerInv
  BY InitLedgers, NextLedgers, PTL DEF Spec

LEMMA LedgersMeet == LedgerInv => LedgersAgree
  <1> SUFFICES ASSUME LedgerInv PROVE LedgersAgree
    OBVIOUS
  <1>1. ExposureIsNeverUnderstated
    BY DEF LedgerInv, ExposureCovers, RegistryAgrees, ExposureIsNeverUnderstated, OutOf, Out,
           FrontedOf
  <1>2. {k \in Plans : Live(escrows[k])} = Escrowed
    BY DEF Live, Escrowed
  <1>3. CustodyMatchesTheBooks
    BY <1>2 DEF LedgerInv, RegistryAgrees, EscrowAgrees, PayoutsAgree, RefundsAgree,
       PoolAgrees, BondsOf, EscrowOf, QueuedOf, Unseen, CustodyMatchesTheBooks
  <1> QED BY <1>1, <1>3 DEF LedgersAgree

\* The ledgers of the registry, the pool and the four custodians agree, for any
\* number of merchants, sales and destinations: the exposure a bond is sized on
\* is never below what the pool has out with the merchant, and every contract
\* holds what its books say it owes (MerchantRegistry, SettlementEscrow,
\* PayoutRouter, RefundEscrow and TranchedCreditPool).
THEOREM LedgersAlwaysAgree == Spec => []LedgersAgree
  BY LedgerInvariant, LedgersMeet, PTL

---------------------------------------------------------------------------
(* Only a slash uncovers a bond. *)

\* What a step may do to a record: it does not take a covered bond below what
\* is required of it.
Safer(r, q) ==
    r.registered /\ r.bond >= RequiredBond(r) => q.bond >= RequiredBond(q)

LEMMA RequirementGrows ==
    ASSUME NEW x \in Nat, NEW y \in Nat, x <= y
    PROVE  /\ RequiredBondAt(x) <= RequiredBondAt(y)
           /\ RequiredBondAt(x) \in Nat /\ RequiredBondAt(y) \in Nat
  <1>1. BondBps \in Nat /\ BondFloor \in Nat /\ Bps \in Nat \ {0}
    BY MerchantParamsAssumption, PoolParamsAssumption
  <1>2. PICK z \in Nat : y = x + z
    <2>1. y - x \in Nat /\ y = x + (y - x)
      OBVIOUS
    <2> QED BY <2>1
  <1>3. /\ x * BondBps \in Nat /\ y * BondBps \in Nat /\ z * BondBps \in Nat
        /\ y * BondBps = x * BondBps + z * BondBps
    BY <1>1, <1>2
  <1>4. \A a, b \in Nat : (a + b) \div Bps >= a \div Bps /\ a \div Bps \in Nat
    BY <1>1
  <1> DEFINE low == (x * BondBps) \div Bps
             high == (y * BondBps) \div Bps
  <1>5. low <= high /\ low \in Nat /\ high \in Nat
    BY <1>3, <1>4
  <1>6. /\ RequiredBondAt(x) = (IF low > BondFloor THEN low ELSE BondFloor)
        /\ RequiredBondAt(y) = (IF high > BondFloor THEN high ELSE BondFloor)
    BY DEF RequiredBondAt
  <1> HIDE DEF low, high
  <1> QED BY <1>1, <1>5, <1>6

\* The bond does not fall and the exposure does not rise.
LEMMA SaferIfNoLower ==
    ASSUME NEW r, NEW q, Bonded(r), Dealing(r), q.bond \in Int, q.bond >= r.bond,
           q.outstandingFronted \in Nat, q.outstandingFronted <= r.outstandingFronted,
           q.registered = r.registered
    PROVE  Safer(r, q)
  <1>1. RequiredBondAt(q.outstandingFronted) <= RequiredBondAt(r.outstandingFronted)
        /\ RequiredBondAt(q.outstandingFronted) \in Nat
        /\ RequiredBondAt(r.outstandingFronted) \in Nat
    BY RequirementGrows DEF Dealing
  <1> QED BY <1>1 DEF Safer, RequiredBond, Bonded

LEMMA TakenIsSafe ==
    ASSUME NEW r, Bonded(r), NEW amount \in Int, CanWithdrawBond(r, amount)
    PROVE  Safer(r, BondTaken(r, amount))
  <1> DEFINE q == BondTaken(r, amount)
  <1>1. /\ q.bond = r.bond - amount /\ q.registered = r.registered
        /\ q.outstandingFronted = r.outstandingFronted
    BY DEF Bonded, BondTaken, MerchantFields
  <1>2. RequiredBond(q) = RequiredBond(r)
    BY <1>1 DEF RequiredBond
  <1> QED BY <1>1, <1>2 DEF Safer, CanWithdrawBond

LEMMA NotedIsSafe ==
    ASSUME NEW r, NEW posted, Bonded(posted), NEW principal, NEW at,
           CanNoteOrigination(posted, principal, at)
    PROVE  Safer(r, OriginationNoted(posted, principal, at))
  <1>1. OriginationNoted(posted, principal, at).bond = posted.bond
    BY DEF Bonded, OriginationNoted, MerchantFields
  <1> QED BY <1>1 DEF Safer, CanNoteOrigination

AllSafer == \A m \in Merchants : Safer(merchants[m], merchants'[m])

LEMMA SaferIfSame ==
    ASSUME UNCHANGED merchants
    PROVE  AllSafer
  BY DEF AllSafer, Safer

LEMMA SaferIfOne ==
    ASSUME MerchantsOK, NEW m \in Merchants, NEW r, Safer(merchants[m], r),
           merchants' = [merchants EXCEPT ![m] = r]
    PROVE  AllSafer
  <1> SUFFICES ASSUME NEW x \in Merchants PROVE Safer(merchants[x], merchants'[x])
    BY DEF AllSafer
  <1>1. CASE x = m
    BY <1>1 DEF MerchantsOK
  <1>2. CASE x # m
    <2>1. merchants'[x] = merchants[x]
      BY <1>2 DEF MerchantsOK
    <2> QED BY <2>1 DEF Safer
  <1> QED BY <1>1, <1>2

LEMMA TradeIsSafe ==
    ASSUME LedgerInv, NEW m \in Merchants, Trade(m)
    PROVE  AllSafer
  <1> DEFINE r == merchants[m]
  <1>a. MerchantsOK /\ Bonded(r) /\ Dealing(r)
    BY DEF LedgerInv, RegistryAgrees, MerchantsOK
  <1>b. BondAmounts \subseteq Nat
    BY CheckoutAssumption
  <1>1. ASSUME NEW q, q.bond = r.bond, q.outstandingFronted = r.outstandingFronted,
               q.registered = r.registered, merchants' = [merchants EXCEPT ![m] = q]
        PROVE  AllSafer
    <2>1. Safer(r, q)
      BY <1>a, <1>1, SaferIfNoLower DEF Bonded, Dealing
    <2> QED BY <1>a, <1>1, <2>1, SaferIfOne
  <1>2. ASSUME NEW d \in Domains, Register(m, d) PROVE AllSafer
    <2>1. Safer(r, Registered(r, d, now))
      BY <1>2 DEF Register, Safer
    <2> QED BY <1>a, <1>2, <2>1, SaferIfOne DEF Register
  <1>3. ASSUME NEW d \in Domains, SetPayoutRoute(m, d) PROVE AllSafer
    <2> DEFINE q == [r EXCEPT !.payoutDomain = d]
    <2>1. /\ q.bond = r.bond /\ q.outstandingFronted = r.outstandingFronted
          /\ q.registered = r.registered
      BY <1>a DEF Bonded, MerchantFields
    <2>2. merchants' = [merchants EXCEPT ![m] = q]
      BY <1>a, <1>3 DEF SetPayoutRoute, MerchantsOK
    <2> QED BY <1>1, <2>1, <2>2
  <1>4. ASSUME NEW verified \in Verdicts, AttestKyb(m, verified) PROVE AllSafer
    <2> DEFINE q == [r EXCEPT !.kybVerified = verified]
    <2>1. /\ q.bond = r.bond /\ q.outstandingFronted = r.outstandingFronted
          /\ q.registered = r.registered
      BY <1>a DEF Bonded, MerchantFields
    <2>2. merchants' = [merchants EXCEPT ![m] = q]
      BY <1>a, <1>4 DEF AttestKyb, MerchantsOK
    <2> QED BY <1>1, <2>1, <2>2
  <1>5. ASSUME NEW category \in SettlementCategory, SetCategory(m, category) PROVE AllSafer
    <2> DEFINE q == [r EXCEPT !.category = category]
    <2>1. /\ q.bond = r.bond /\ q.outstandingFronted = r.outstandingFronted
          /\ q.registered = r.registered
      BY <1>a DEF Bonded, MerchantFields
    <2>2. merchants' = [merchants EXCEPT ![m] = q]
      BY <1>a, <1>5 DEF SetCategory, MerchantsOK
    <2> QED BY <1>1, <2>1, <2>2
  <1>6. ASSUME NEW amount \in BondAmounts, PostBond(m, amount) PROVE AllSafer
    <2> DEFINE q == [r EXCEPT !.bond = r.bond + amount]
    <2>1. /\ q.bond = r.bond + amount /\ q.outstandingFronted = r.outstandingFronted
          /\ q.registered = r.registered
      BY <1>a DEF Bonded, MerchantFields
    <2>2. q.bond \in Int /\ q.bond >= r.bond
      BY <1>a, <1>b, <2>1 DEF Bonded
    <2>3. merchants' = [merchants EXCEPT ![m] = q]
      BY <1>a, <1>6 DEF PostBond, MerchantsOK
    <2> HIDE DEF q
    <2>4. Safer(r, q)
      BY <1>a, <2>1, <2>2, SaferIfNoLower DEF Dealing
    <2> QED BY <1>a, <2>3, <2>4, SaferIfOne
  <1>7. ASSUME NEW amount \in BondAmounts, WithdrawBond(m, amount) PROVE AllSafer
    <2>1. amount \in Int /\ CanWithdrawBond(r, amount)
      BY <1>b, <1>7 DEF WithdrawBond
    <2>2. Safer(r, BondTaken(r, amount))
      BY <1>a, <2>1, TakenIsSafe
    <2>3. merchants' = [merchants EXCEPT ![m] = BondTaken(r, amount)]
      BY <1>a, <1>7 DEF WithdrawBond, MerchantsOK
    <2> QED BY <1>a, <2>2, <2>3, SaferIfOne
  <1>8. ASSUME NEW d \in Domains, Dispatch(m, d) PROVE AllSafer
    BY <1>8, SaferIfSame DEF Dispatch
  <1>9. CASE ClaimRebate(m)
    BY <1>9, SaferIfSame DEF ClaimRebate
  <1> QED BY <1>2, <1>3, <1>4, <1>5, <1>6, <1>7, <1>8, <1>9 DEF Trade

LEMMA RecoveryIsSafe ==
    ASSUME LedgerInv, NEW k \in Plans, RecogniseThroughRouter(k), RecoveredOf(k) \in Nat
    PROVE  AllSafer
  <1> DEFINE m == Terms[k].merchant
             r == merchants[m]
             q == RecoveryNoted(r, RecoveredOf(k))
  <1>1. m \in Merchants /\ MerchantsOK /\ Bonded(r) /\ Dealing(r)
    BY PoolTermsAssumption DEF LedgerInv, RegistryAgrees, MerchantsOK
  <1>3. /\ q.bond = r.bond /\ q.registered = r.registered
        /\ q.outstandingFronted = Less(r.outstandingFronted, RecoveredOf(k))
    BY <1>1 DEF Bonded, RecoveryNoted, MerchantFields
  <1>4. /\ Less(r.outstandingFronted, RecoveredOf(k)) \in Nat
        /\ Less(r.outstandingFronted, RecoveredOf(k)) <= r.outstandingFronted
    BY <1>1 DEF Less, Dealing
  <1>6. merchants' = [merchants EXCEPT ![m] = q]
    BY <1>1 DEF RecogniseThroughRouter, MerchantsOK
  <1>7. r.bond \in Int
    BY <1>1 DEF Bonded
  <1>8. q.bond \in Int /\ q.bond >= r.bond /\ q.outstandingFronted \in Nat
        /\ q.outstandingFronted <= r.outstandingFronted
    BY <1>3, <1>4, <1>7
  <1> HIDE DEF q
  <1>5. Safer(r, q)
    BY <1>1, <1>3, <1>7, <1>8, SaferIfNoLower
  <1> QED BY <1>1, <1>5, <1>6, SaferIfOne

LEMMA ServeIsSafe ==
    ASSUME LedgerInv, NEW k \in Plans, Serve(k)
    PROVE  AllSafer
  <1>1. CASE Originate(k)
    <2> DEFINE m == Terms[k].merchant
               posted == WithheldPosted(merchants[m], Withholding(k))
    <2>1. m \in Merchants /\ MerchantsOK /\ Bonded(merchants[m])
      BY PoolTermsAssumption DEF LedgerInv, RegistryAgrees, MerchantsOK
    <2>2. Bonded(posted)
      BY <2>1, WithholdingIsInt, PostedBonded
    <2>3. /\ CanNoteOrigination(posted, Terms[k].principal, now)
          /\ merchants' = [merchants EXCEPT ![m] =
                             OriginationNoted(posted, Terms[k].principal, now)]
      BY <1>1 DEF Originate, SettleMerchant
    <2>4. Safer(merchants[m], OriginationNoted(posted, Terms[k].principal, now))
      BY <2>2, <2>3, NotedIsSafe
    <2> QED BY <2>1, <2>3, <2>4, SaferIfOne
  <1>2. CASE Recognise(k) \/ NoteRefund(k)
    <2>1. /\ RecogniseThroughRouter(k) /\ UNCHANGED view
          /\ book' = Recognised(book, k, view[k])
      BY <1>2 DEF Recognise, NoteRefund, RecogniseThroughRouter
    <2>2. RecoveredOf(k) \in Nat
      BY <2>1, PoolRecognises DEF LedgerInv
    <2> QED BY <2>1, <2>2, RecoveryIsSafe
  <1>3. CASE RecogniseAtPool(k) \/ AttestShipment(k) \/ Release(k) \/ RefundToPool(k)
    BY <1>3, SaferIfSame DEF RecogniseAtPool, AttestShipment, Release, RefundToPool
  <1> QED BY <1>1, <1>2, <1>3 DEF Serve

\* Of a dispute: what it takes out of the registry is what the bond falls by.
LEMMA ContestUncovers ==
    ASSUME LedgerInv, NEW k \in Plans, Contest(k), NEW m \in Merchants
    PROVE  Safer(merchants[m], merchants'[m]) \/ Slashed(k, m)
  <1>1. CASE UNCHANGED merchants
    BY <1>1, SaferIfSame DEF AllSafer
  <1>2. CASE ExecuteSlash(k)
    <2> DEFINE d == refunds.disputes[k]
               r == merchants[m]
    <2>1. /\ MerchantsOK /\ Bonded(r) /\ Dealing(r) /\ RefundsOK /\ CustodyOK
      BY DEF LedgerInv, RegistryAgrees, RefundsAgree, MerchantsOK
    <2>2. d.amount \in Int /\ d.amount <= merchants[d.merchant].bond
      BY <1>2, <2>1 DEF ExecuteSlash, RefundsOK, DisputesOK, IsDispute
    <2>3. merchants' = [merchants EXCEPT ![d.merchant] =
                          BondTaken(merchants[d.merchant], d.amount)]
      BY <1>2 DEF ExecuteSlash
    <2>4. CASE d.merchant # m
      <3>1. merchants'[m] = r
        BY <2>1, <2>3, <2>4 DEF MerchantsOK
      <3> QED BY <3>1 DEF Safer
    <2>5. CASE d.merchant = m /\ d.amount > 0
      <3>1. custody'.registry = custody.registry - d.amount
        BY <1>2, <2>1 DEF ExecuteSlash, CustodyOK
      <3>2. custody'.registry < custody.registry
        BY <2>1, <2>2, <2>5, <3>1 DEF CustodyOK
      <3>3. refunds'.disputes[k] = NoDispute
        BY <1>2, <2>1 DEF ExecuteSlash, RefundsOK, DisputesOK, RefundFields
      <3> QED BY <2>5, <3>2, <3>3 DEF Slashed
    <2>6. CASE d.merchant = m /\ d.amount <= 0
      <3> DEFINE q == BondTaken(r, d.amount)
      <3>1. /\ q.bond = r.bond - d.amount /\ q.registered = r.registered
            /\ q.outstandingFronted = r.outstandingFronted
        BY <2>1 DEF Bonded, BondTaken, MerchantFields
      <3>2. q.bond \in Int /\ q.bond >= r.bond
        BY <2>1, <2>2, <2>6, <3>1 DEF Bonded
      <3>3. merchants'[m] = q
        BY <2>1, <2>3, <2>6 DEF MerchantsOK
      <3> HIDE DEF q
      <3>4. Safer(r, q)
        BY <2>1, <3>1, <3>2, SaferIfNoLower DEF Dealing
      <3> QED BY <3>3, <3>4
    <2>7. d.amount > 0 \/ d.amount <= 0
      BY <2>2
    <2> QED BY <2>4, <2>5, <2>6, <2>7
  <1> QED BY <1>1, <1>2 DEF Contest, OpenDispute, OpenNonAttestationDispute, Open, CancelDispute

Uncovers ==
    \A m \in Merchants :
      merchants[m].registered /\ Covered(m) /\ ~Covered(m)'
        => \E k \in Plans : Slashed(k, m)

LEMMA SafeUncoversNothing == AllSafer => Uncovers
  BY DEF AllSafer, Safer, Uncovers, Covered

LEMMA StepUncovers == LedgerInv /\ [Next]_vars => Uncovers
  <1> SUFFICES ASSUME LedgerInv, [Next]_vars PROVE Uncovers
    OBVIOUS
  <1>1. ASSUME NEW m \in Merchants, Trade(m) PROVE Uncovers
    BY <1>1, TradeIsSafe, SafeUncoversNothing
  <1>2. ASSUME NEW k \in Plans, Serve(k) PROVE Uncovers
    BY <1>2, ServeIsSafe, SafeUncoversNothing
  <1>3. ASSUME NEW k \in Contested, Contest(k) PROVE Uncovers
    <2>1. k \in Plans
      BY CheckoutAssumption
    <2>2. \A m \in Merchants : Safer(merchants[m], merchants'[m]) \/ Slashed(k, m)
      BY <1>3, <2>1, ContestUncovers
    <2> QED BY <2>1, <2>2 DEF Uncovers, Covered, Safer
  <1>4. CASE UNCHANGED merchants
    BY <1>4, SaferIfSame, SafeUncoversNothing
  <1>5. \A k \in Moving : Repay(k) => UNCHANGED merchants
    BY DEF Repay, CreditRefund, PlanMoves
  <1>6. \A d \in Deniable : DenyDomain(d) => UNCHANGED merchants
    BY DEF DenyDomain
  <1>7. \A amount \in RebateAmounts : FundRebates(amount) => UNCHANGED merchants
    BY DEF FundRebates
  <1>8. Tick \/ UNCHANGED vars => UNCHANGED merchants
    BY DEF Tick, vars
  <1> QED BY <1>1, <1>2, <1>3, <1>4, <1>5, <1>6, <1>7, <1>8 DEF Next

\* Whatever the parameters, and however originations, recoveries, withdrawals
\* and route changes are mixed, a registered merchant whose bond covers its
\* exposure stays covered unless a dispute is executed against it
\* (MerchantRegistry, CheckoutRouter and RefundEscrow).
THEOREM SlashesAloneUncover == Spec => OnlyASlashUncoversABond
  <1>1. LedgerInv /\ [Next]_vars =>
          (\A m \in Merchants :
             merchants[m].registered /\ Covered(m) /\ ~Covered(m)'
               => \E k \in Plans : Slashed(k, m))
    BY StepUncovers DEF Uncovers
  <1> QED BY <1>1, LedgerInvariant, PTL DEF Spec, OnlyASlashUncoversABond

---------------------------------------------------------------------------
(* The leaky bucket: what a new merchant has sold against what has leaked.  *)

Leak(span) == (VelocityCap * span) \div VelocityWindow

Prices == [k \in Plans |-> Terms[k].principal]

SalesOf(at, m, from, to) == {k \in Plans : Terms[k].merchant = m /\ at[k] \in from .. to}

VolumeOf(at, m, from, to) == SumOver(Prices, SalesOf(at, m, from, to))

Dated(at) == at = [k \in Plans |-> at[k]] /\ \A k \in Plans : at[k] \in Nat

LEMMA QuotientIsFloor ==
    ASSUME NEW w \in Nat \ {0}, NEW n \in Nat, NEW q \in Nat
    PROVE  /\ n \div w \in Nat /\ (n \div w) * w <= n
           /\ q * w <= n => q <= n \div w
  <1> DEFINE d == n \div w
             rest == n % w
  <1>1. d \in Nat /\ rest \in 0 .. w - 1 /\ n = d * w + rest
    BY Z3
  <1> HIDE DEF d, rest
  <1>2. d * w \in Nat /\ d * w <= n
    BY <1>1
  <1>3. ASSUME q * w <= n PROVE q <= d
    <2> SUFFICES ASSUME ~(q <= d) PROVE FALSE
      OBVIOUS
    <2>1. PICK z \in Nat : q = d + 1 + z
      <3>1. q - d - 1 \in Nat /\ q = d + 1 + (q - d - 1)
        BY <1>1
      <3> QED BY <3>1
    <2>2. q * w = d * w + w + z * w /\ z * w \in Nat
      BY <1>1, <2>1
    <2> QED BY <1>1, <1>2, <1>3, <2>2
  <1> QED BY <1>1, <1>2, <1>3 DEF d

LEMMA QuotientsAdd ==
    ASSUME NEW w \in Nat \ {0}, NEW a \in Nat, NEW b \in Nat
    PROVE  a \div w + b \div w <= (a + b) \div w
  <1> DEFINE x == a \div w
             y == b \div w
  <1>1. x \in Nat /\ y \in Nat /\ x * w <= a /\ y * w <= b
    BY QuotientIsFloor
  <1> HIDE DEF x, y
  <1>2. (x + y) * w = x * w + y * w /\ x * w \in Nat /\ y * w \in Nat
    BY <1>1
  <1>3. (x + y) * w <= a + b
    BY <1>1, <1>2
  <1>4. x + y <= (a + b) \div w
    BY <1>1, <1>3, QuotientIsFloor
  <1> QED BY <1>4 DEF x, y

LEMMA QuotientsGrow ==
    ASSUME NEW w \in Nat \ {0}, NEW a \in Nat, NEW b \in Nat, a <= b
    PROVE  a \div w <= b \div w
  <1> DEFINE x == a \div w
  <1>1. x \in Nat /\ x * w <= a
    BY QuotientIsFloor
  <1> HIDE DEF x
  <1>2. x * w <= b
    BY <1>1
  <1>3. x <= b \div w
    BY <1>1, <1>2, QuotientIsFloor
  <1> QED BY <1>3 DEF x

LEMMA LeaksAdd ==
    ASSUME NEW x \in Nat, NEW y \in Nat
    PROVE  /\ Leak(x) \in Nat /\ Leak(y) \in Nat /\ Leak(x + y) \in Nat
           /\ Leak(x) + Leak(y) <= Leak(x + y)
  <1>1. VelocityCap \in Nat /\ VelocityWindow \in Nat \ {0}
    BY MerchantParamsAssumption
  <1>2. /\ VelocityCap * x \in Nat /\ VelocityCap * y \in Nat
        /\ VelocityCap * (x + y) = VelocityCap * x + VelocityCap * y
    BY <1>1
  <1>3. \A n \in Nat : n \div VelocityWindow \in Nat
    BY <1>1, QuotientIsFloor
  <1> QED BY <1>1, <1>2, <1>3, QuotientsAdd DEF Leak

\* What is left in a bucket after a while: with what leaked it makes up for
\* what was there.
LEMMA BucketLeaks ==
    ASSUME NEW b \in Nat, b <= VelocityCap, NEW e \in Nat,
           NEW used, used = IF e >= VelocityWindow THEN 0
                            ELSE b - (b * e) \div VelocityWindow
    PROVE  used \in Nat /\ b <= used + Leak(e)
  <1> DEFINE w == VelocityWindow
             cap == VelocityCap
  <1>1. cap \in Nat /\ w \in Nat \ {0}
    BY MerchantParamsAssumption
  <1> HIDE DEF w, cap
  <1>2. Leak(e) = (cap * e) \div w /\ cap * e \in Nat /\ Leak(e) \in Nat
    BY <1>1, QuotientIsFloor DEF Leak, w, cap
  <1>3. CASE e >= w
    <2>1. PICK z \in Nat : e = w + z
      <3>1. e - w \in Nat /\ e = w + (e - w)
        BY <1>1, <1>3
      <3> QED BY <3>1
    <2>2. cap * e = cap * w + cap * z /\ cap * z \in Nat /\ cap * w \in Nat
      BY <1>1, <2>1
    <2>3. cap * w <= cap * e
      BY <1>2, <2>2
    <2>4. cap <= Leak(e)
      BY <1>1, <1>2, <2>3, QuotientIsFloor
    <2>5. used = 0 /\ b <= cap
      BY <1>3 DEF w, cap
    <2> QED BY <1>1, <1>2, <2>4, <2>5
  <1>4. CASE e < w
    <2> DEFINE lost == (b * e) \div w
    <2>1. b * e \in Nat /\ lost \in Nat /\ lost * w <= b * e
      BY <1>1, QuotientIsFloor
    <2>2. PICK y \in Nat : cap = b + y
      <3>1. cap - b \in Nat /\ cap = b + (cap - b)
        BY <1>1 DEF cap
      <3> QED BY <3>1
    <2>3. cap * e = b * e + y * e /\ y * e \in Nat
      BY <1>1, <2>2
    <2>4. b * e <= cap * e
      BY <2>1, <2>3
    <2>5. lost <= Leak(e)
      BY <1>1, <1>2, <2>1, <2>4, QuotientsGrow
    <2>6. lost <= b
      <3>1. PICK z \in Nat : w = e + z
        <4>1. w - e \in Nat /\ w = e + (w - e)
          BY <1>1, <1>4
        <4> QED BY <4>1
      <3>2. b * w = b * e + b * z /\ b * z \in Nat /\ b * w \in Nat
        BY <1>1, <3>1
      <3>3. b * e <= b * w
        BY <2>1, <3>2
      <3>4. (b * w) \div w = b
        BY <1>1, Z3
      <3> QED BY <1>1, <2>1, <3>2, <3>3, <3>4, QuotientsGrow
    <2>7. used = b - lost
      BY <1>1, <1>4 DEF w
    <2> HIDE DEF lost
    <2> QED BY <1>2, <2>1, <2>5, <2>6, <2>7
  <1> QED BY <1>1, <1>3, <1>4

LEMMA VolumeIsNat ==
    ASSUME NEW at, NEW m, NEW from, NEW to
    PROVE  VolumeOf(at, m, from, to) \in Nat
  <1>1. IsFiniteSet(SalesOf(at, m, from, to))
    <2>1. SalesOf(at, m, from, to) \subseteq Plans
      BY DEF SalesOf
    <2> QED BY <2>1, PoolPartiesAssumption, FS_Subset
  <1>2. \A k \in SalesOf(at, m, from, to) : Prices[k] \in Nat
    BY PoolTermsAssumption DEF SalesOf, Prices
  <1> QED BY <1>1, <1>2, SumIsNat DEF VolumeOf

LEMMA NoSalesNoVolume ==
    ASSUME NEW at, NEW m, NEW from, NEW to, SalesOf(at, m, from, to) = {}
    PROVE  VolumeOf(at, m, from, to) = 0
  BY SumOfNothing DEF VolumeOf

\* A sale adds its price to the stretches of time it falls in.
LEMMA SaleAddsVolume ==
    ASSUME NEW at, Dated(at), NEW k \in Plans, at[k] = 0, NEW t \in Nat \ {0},
           NEW m, NEW from \in Nat \ {0}, NEW to \in Nat
    PROVE  VolumeOf([at EXCEPT ![k] = t], m, from, to) =
             VolumeOf(at, m, from, to)
               + (IF Terms[k].merchant = m /\ t \in from .. to THEN Terms[k].principal ELSE 0)
  <1> DEFINE S == SalesOf(at, m, from, to)
             after == [at EXCEPT ![k] = t]
             T == SalesOf(after, m, from, to)
  <1>1. \A j \in Plans : after[j] = IF j = k THEN t ELSE at[j]
    BY DEF Dated
  <1>2. k \notin S
    BY DEF SalesOf
  <1>3. CASE Terms[k].merchant = m /\ t \in from .. to
    <2>1. T = S \cup {k}
      <3> HIDE DEF after
      <3> QED BY <1>1, <1>3 DEF SalesOf
    <2>2. S \subseteq Plans /\ IsFiniteSet(S)
      <3>1. S \subseteq Plans
        BY DEF SalesOf
      <3> QED BY <3>1, PoolPartiesAssumption, FS_Subset
    <2>3. \A j \in S \cup {k} : Prices[j] \in Int
      BY <2>2, PoolTermsAssumption DEF Prices
    <2> HIDE DEF S
    <2>4. SumOver(Prices, S \cup {k}) = SumOver(Prices, S) + Prices[k]
      BY <1>2, <2>2, <2>3, SumPutsIn
    <2>5. Prices[k] = Terms[k].principal
      BY DEF Prices
    <2> QED BY <1>3, <2>1, <2>4, <2>5 DEF VolumeOf, S
  <1>4. CASE ~(Terms[k].merchant = m /\ t \in from .. to)
    <2>1. T = S
      <3> HIDE DEF after
      <3> QED BY <1>1, <1>2, <1>4 DEF SalesOf
    <2>2. VolumeOf(at, m, from, to) \in Nat
      BY VolumeIsNat
    <2> QED BY <1>4, <2>1, <2>2 DEF VolumeOf
  <1> QED BY <1>3, <1>4

SoldBy(at, m, t) == \A k \in Plans : Terms[k].merchant = m /\ at[k] # 0 => at[k] <= t

\* Nothing is sold after the last sale.
LEMMA NoLaterVolume ==
    ASSUME NEW at, Dated(at), NEW m, NEW t \in Nat, SoldBy(at, m, t),
           NEW from \in Nat \ {0}, NEW to \in Nat
    PROVE  /\ t <= to => VolumeOf(at, m, from, to) = VolumeOf(at, m, from, t)
           /\ t < from => VolumeOf(at, m, from, to) = 0
  <1>1. ASSUME t <= to
        PROVE  VolumeOf(at, m, from, to) = VolumeOf(at, m, from, t)
    <2>1. SalesOf(at, m, from, to) = SalesOf(at, m, from, t)
      BY <1>1 DEF SalesOf, SoldBy, Dated
    <2> QED BY <2>1 DEF VolumeOf
  <1>2. ASSUME t < from
        PROVE  VolumeOf(at, m, from, to) = 0
    <2>1. SalesOf(at, m, from, to) = {}
      BY <1>2 DEF SalesOf, SoldBy, Dated
    <2> QED BY <2>1, NoSalesNoVolume
  <1> QED BY <1>1, <1>2

LEMMA SameSalesSameVolume ==
    ASSUME NEW at, NEW after, NEW m,
           \A k \in Plans : Terms[k].merchant = m => after[k] = at[k]
    PROVE  \A from, to : VolumeOf(after, m, from, to) = VolumeOf(at, m, from, to)
  <1>1. ASSUME NEW from, NEW to
        PROVE  SalesOf(after, m, from, to) = SalesOf(at, m, from, to)
    BY DEF SalesOf
  <1> QED BY <1>1 DEF VolumeOf

---------------------------------------------------------------------------
(* A merchant's meter.  Until it is seasoned, the bucket is within the cap *)
(* and, with what has leaked since any earlier moment, covers what was     *)
(* sold since then.                                                        *)

Filled(r, at, m) ==
    \A from \in Nat \ {0} :
      from <= r.bucketAt
        => VolumeOf(at, m, from, r.bucketAt) <= r.bucket + Leak(r.bucketAt - from)

Bounded(r, at, m) ==
    \A from, to \in Nat \ {0} :
      from <= to /\ to < r.registeredAt + VestingWindow
        => VolumeOf(at, m, from, to) <= VelocityCap + Leak(to - from)

Metered(r, at, m) ==
    /\ r.bucket \in Nat /\ r.bucketAt \in Nat /\ r.registeredAt \in Nat
    /\ SoldBy(at, m, r.bucketAt)
    /\ ~r.registered => r.bucket = 0 /\ SoldBy(at, m, 0)
    /\ r.bucketAt < r.registeredAt + VestingWindow
         => r.bucket <= VelocityCap /\ Filled(r, at, m)
    /\ Bounded(r, at, m)

LEMMA MeterStays ==
    ASSUME NEW r, NEW at, NEW m, Metered(r, at, m), NEW q, NEW after,
           q.bucket = r.bucket, q.bucketAt = r.bucketAt,
           q.registeredAt = r.registeredAt, q.registered = r.registered,
           \A k \in Plans : Terms[k].merchant = m => after[k] = at[k]
    PROVE  Metered(q, after, m)
  <1>1. \A from, to : VolumeOf(after, m, from, to) = VolumeOf(at, m, from, to)
    BY SameSalesSameVolume
  <1>2. Bounded(q, after, m)
    BY <1>1 DEF Metered, Bounded
  <1>3. Filled(r, at, m) => Filled(q, after, m)
    BY <1>1 DEF Filled
  <1>4. \A t : SoldBy(at, m, t) => SoldBy(after, m, t)
    BY DEF SoldBy
  <1> QED BY <1>2, <1>3, <1>4 DEF Metered

\* A merchant that has sold nothing yet.
LEMMA MeterStarts ==
    ASSUME NEW at, Dated(at), NEW m, SoldBy(at, m, 0), NEW q,
           q.bucket = 0, q.bucketAt \in Nat, q.registeredAt \in Nat
    PROVE  Metered(q, at, m)
  <1>1. \A from \in Nat \ {0}, to \in Nat : VolumeOf(at, m, from, to) = 0
    BY NoLaterVolume
  <1>2. \A x \in Nat : Leak(x) \in Nat
    BY LeaksAdd
  <1>3. VelocityCap \in Nat
    BY MerchantParamsAssumption
  <1>4. Bounded(q, at, m)
    <2> SUFFICES ASSUME NEW from \in Nat \ {0}, NEW to \in Nat \ {0}, from <= to
                 PROVE  VolumeOf(at, m, from, to) <= VelocityCap + Leak(to - from)
      BY DEF Bounded
    <2>1. Leak(to - from) \in Nat /\ VolumeOf(at, m, from, to) = 0
      BY <1>1, <1>2
    <2> QED BY <1>3, <2>1
  <1>5. Filled(q, at, m)
    <2> SUFFICES ASSUME NEW from \in Nat \ {0}, from <= q.bucketAt
                 PROVE  VolumeOf(at, m, from, q.bucketAt) <= q.bucket + Leak(q.bucketAt - from)
      BY DEF Filled
    <2>1. Leak(q.bucketAt - from) \in Nat /\ VolumeOf(at, m, from, q.bucketAt) = 0
      BY <1>1, <1>2
    <2> QED BY <2>1
  <1>6. SoldBy(at, m, q.bucketAt)
    BY DEF SoldBy, Dated
  <1> QED BY <1>3, <1>4, <1>5, <1>6 DEF Metered

\* The bucket after a sale covers what was sold since any earlier moment.
LEMMA SaleFillsBucket ==
    ASSUME NEW r, NEW at, NEW m, Metered(r, at, m), Dated(at), r.registered,
           NEW k \in Plans, Terms[k].merchant = m, at[k] = 0,
           NEW t \in Nat \ {0}, r.bucketAt <= t,
           t < r.registeredAt + VestingWindow, NEW q, q.bucketAt = t,
           q.bucket = VelocityUsed(r, t) + Terms[k].principal
    PROVE  q.bucket \in Nat /\ Filled(q, [at EXCEPT ![k] = t], m)
  <1> DEFINE price == Terms[k].principal
             used == VelocityUsed(r, t)
             e == t - r.bucketAt
             last == r.bucketAt
  <1>1. /\ r.bucket \in Nat /\ last \in Nat /\ r.registeredAt \in Nat
        /\ SoldBy(at, m, last) /\ price \in Nat
        /\ VestingWindow \in Nat /\ e \in Nat
    BY PoolTermsAssumption, MerchantParamsAssumption DEF Metered
  <1>2. r.bucket <= VelocityCap /\ Filled(r, at, m)
    <2>1. last < r.registeredAt + VestingWindow
      BY <1>1
    <2> QED BY <2>1 DEF Metered
  <1>3. used = IF e >= VelocityWindow THEN 0
               ELSE r.bucket - (r.bucket * e) \div VelocityWindow
    BY DEF VelocityUsed
  <1> HIDE DEF used, price, e
  <1>4. used \in Nat /\ r.bucket <= used + Leak(e)
    BY <1>1, <1>2, <1>3, BucketLeaks
  <1>5. q.bucket = used + price
    BY DEF used, price
  <1>6. ASSUME NEW from \in Nat \ {0}, from <= t
        PROVE  VolumeOf([at EXCEPT ![k] = t], m, from, t) <= q.bucket + Leak(t - from)
    <2> DEFINE before == VolumeOf(at, m, from, t)
    <2>1. VolumeOf([at EXCEPT ![k] = t], m, from, t) = before + price
      <3>1. t \in from .. t
        BY <1>6
      <3> QED BY <3>1, SaleAddsVolume DEF price
    <2>2. before \in Nat /\ Leak(t - from) \in Nat
      BY <1>6, VolumeIsNat, LeaksAdd
    <2>3. before <= used + Leak(t - from)
      <3>1. CASE last < from
        <4>1. before = 0
          BY <1>1, <3>1, NoLaterVolume
        <4> HIDE DEF before
        <4> QED BY <1>4, <2>2, <4>1
      <3>2. CASE from <= last
        <4>1. before = VolumeOf(at, m, from, last)
          BY <1>1, NoLaterVolume
        <4>2. VolumeOf(at, m, from, last) <= r.bucket + Leak(last - from)
          BY <1>2, <3>2 DEF Filled
        <4>3. /\ last - from \in Nat /\ e + (last - from) = t - from
          BY <1>1, <3>2 DEF e
        <4>4. /\ Leak(e) \in Nat /\ Leak(last - from) \in Nat
              /\ Leak(e) + Leak(last - from) <= Leak(t - from)
          BY <1>1, <4>3, LeaksAdd
        <4> HIDE DEF before
        <4> DEFINE a == Leak(e)
                   b == Leak(last - from)
                   c == Leak(t - from)
        <4>5. before <= r.bucket + b
          BY <4>1, <4>2
        <4> HIDE DEF a, b, c
        <4>6. r.bucket <= used + a /\ a \in Nat /\ b \in Nat /\ c \in Nat /\ a + b <= c
          BY <1>4, <2>2, <4>4 DEF a, b, c
        <4>7. before <= used + c
          BY <1>1, <1>4, <2>2, <4>5, <4>6
        <4> QED BY <4>7 DEF c
      <3> QED BY <1>1, <3>1, <3>2
    <2> HIDE DEF before
    <2> QED BY <1>1, <1>4, <1>5, <2>1, <2>2, <2>3
  <1>7. Filled(q, [at EXCEPT ![k] = t], m)
    BY Zenon, <1>6 DEF Filled
  <1>8. q.bucket \in Nat
    BY <1>1, <1>4, <1>5
  <1> QED BY <1>7, <1>8

\* A sale keeps the meter: the cap binds until the merchant is seasoned.
LEMMA MeterTakesSale ==
    ASSUME VestingBps # 0,
           NEW r, NEW at, NEW m, Metered(r, at, m), Dated(at), r.registered,
           NEW k \in Plans, Terms[k].merchant = m, at[k] = 0,
           NEW t \in Nat \ {0}, r.bucketAt <= t,
           WithinVelocity(r, Terms[k].principal, t),
           NEW q, q.bucketAt = t, q.bucket = VelocityUsed(r, t) + Terms[k].principal,
           q.registeredAt = r.registeredAt, q.registered = r.registered,
           q.bucket \in Nat
    PROVE  Metered(q, [at EXCEPT ![k] = t], m)
  <1> DEFINE after == [at EXCEPT ![k] = t]
             ends == r.registeredAt + VestingWindow
  <1>1. /\ r.bucketAt \in Nat /\ r.registeredAt \in Nat /\ ends \in Nat
        /\ SoldBy(at, m, r.bucketAt) /\ VelocityCap \in Nat
    BY MerchantParamsAssumption DEF Metered
  <1>2. \A j \in Plans : after[j] = IF j = k THEN t ELSE at[j]
    BY DEF Dated
  <1>3. SoldBy(after, m, t)
    <2> HIDE DEF after
    <2> QED BY <1>1, <1>2 DEF SoldBy, Dated
  <1>4. ASSUME t < ends
        PROVE  q.bucket <= VelocityCap /\ Filled(q, after, m)
    <2>1. VestingBpsFor(r, t) # 0
      BY <1>1, <1>4 DEF VestingBpsFor
    <2>2. q.bucket <= VelocityCap
      BY <2>1 DEF WithinVelocity
    <2> QED BY <1>4, <2>2, SaleFillsBucket
  <1>5. Bounded(q, after, m)
    <2> SUFFICES ASSUME NEW from \in Nat \ {0}, NEW to \in Nat \ {0}, from <= to, to < ends
                 PROVE  VolumeOf(after, m, from, to) <= VelocityCap + Leak(to - from)
      BY DEF Bounded
    <2>a. VolumeOf(at, m, from, to) <= VelocityCap + Leak(to - from)
      BY DEF Metered, Bounded
    <2>b. to - from \in Nat
      OBVIOUS
    <2>1. /\ Leak(to - from) \in Nat /\ VolumeOf(at, m, from, to) \in Nat
          /\ VolumeOf(at, m, from, to) <= VelocityCap + Leak(to - from)
      BY <2>a, <2>b, LeaksAdd, VolumeIsNat
    <2>2. CASE to < t \/ t < from
      <3>1. VolumeOf(after, m, from, to) = VolumeOf(at, m, from, to) + 0
        <4>1. t \notin from .. to
          BY <2>2
        <4> QED BY <4>1, SaleAddsVolume
      <3> QED BY <2>1, <3>1
    <2>3. CASE from <= t /\ t <= to
      <3>1. Dated(after)
        <4> HIDE DEF after
        <4>1. after = [j \in Plans |-> after[j]]
          BY DEF after, Dated
        <4> QED BY <1>2, <4>1 DEF Dated
      <3>2. VolumeOf(after, m, from, to) = VolumeOf(after, m, from, t)
        BY <1>3, <2>3, <3>1, NoLaterVolume
      <3>3. /\ q.bucket <= VelocityCap
            /\ VolumeOf(after, m, from, t) <= q.bucket + Leak(t - from)
        <4>1. t < ends
          BY <1>1, <2>3
        <4>2. q.bucket <= VelocityCap /\ Filled(q, after, m)
          BY <1>4, <4>1
        <4> HIDE DEF after
        <4> QED BY <2>3, <4>2 DEF Filled
      <3>4. t - from \in Nat /\ to - t \in Nat /\ (t - from) + (to - t) = to - from
        BY <2>3
      <3>5. /\ Leak(t - from) \in Nat /\ Leak(to - t) \in Nat
            /\ Leak(t - from) + Leak(to - t) <= Leak(to - from)
        BY <3>4, LeaksAdd
      <3> DEFINE a == Leak(t - from)
                 b == Leak(to - t)
                 c == Leak(to - from)
                 v == VolumeOf(after, m, from, to)
      <3>6. v <= q.bucket + a /\ v \in Nat
        BY <3>2, <3>3, VolumeIsNat
      <3>7. a \in Nat /\ b \in Nat /\ c \in Nat /\ a + b <= c
        BY <2>1, <3>5
      <3> HIDE DEF a, b, c, v
      <3>8. v <= VelocityCap + c
        BY <1>1, <3>3, <3>6, <3>7
      <3> QED BY <3>8 DEF v, c
    <2> QED BY <2>2, <2>3
  <1> HIDE DEF after
  <1> QED BY <1>1, <1>3, <1>4, <1>5 DEF Metered, after

MeterInv ==
    \A m \in Merchants : Metered(merchants[m], originatedAt, m) /\ merchants[m].bucketAt <= now

LEMMA UsedIsNat ==
    ASSUME NEW r, r.bucket \in Nat, r.bucketAt \in Nat, NEW t \in Nat, r.bucketAt <= t
    PROVE  VelocityUsed(r, t) \in Nat
  <1> DEFINE b == r.bucket
             e == t - r.bucketAt
             w == VelocityWindow
             lost == (b * e) \div w
  <1>1. w \in Nat \ {0} /\ b \in Nat /\ e \in Nat
    BY MerchantParamsAssumption
  <1>2. VelocityUsed(r, t) = IF e >= w THEN 0 ELSE b - lost
    BY DEF VelocityUsed
  <1> HIDE DEF w, b, e
  <1>3. CASE e < w
    <2>1. PICK z \in Nat : w = e + z
      <3>1. w - e \in Nat /\ w = e + (w - e)
        BY <1>1, <1>3
      <3> QED BY <3>1
    <2>2. b * w = b * e + b * z /\ b * z \in Nat /\ b * w \in Nat /\ b * e \in Nat
      BY <1>1, <2>1
    <2>3. b * e <= b * w
      BY <2>2
    <2>4. (b * w) \div w = b
      BY <1>1, Z3
    <2>5. lost \in Nat /\ lost <= b
      BY <1>1, <2>2, <2>3, <2>4, QuotientsGrow, QuotientIsFloor
    <2> HIDE DEF lost
    <2> QED BY <1>1, <1>2, <1>3, <2>5
  <1>4. CASE e >= w
    BY <1>2, <1>4
  <1> QED BY <1>1, <1>3, <1>4

\* The same sales, and for every merchant a record with the same meter.
LEMMA MetersStay ==
    ASSUME MeterInv, UNCHANGED originatedAt, now \in Nat, now' \in Nat, now <= now',
           \A m \in Merchants :
             /\ merchants'[m].bucket = merchants[m].bucket
             /\ merchants'[m].bucketAt = merchants[m].bucketAt
             /\ merchants'[m].registeredAt = merchants[m].registeredAt
             /\ merchants'[m].registered = merchants[m].registered
    PROVE  MeterInv'
  <1> SUFFICES ASSUME NEW m \in Merchants
               PROVE  /\ Metered(merchants'[m], originatedAt', m)
                      /\ merchants'[m].bucketAt <= now'
    BY DEF MeterInv
  <1>1. Metered(merchants[m], originatedAt, m) /\ merchants[m].bucketAt <= now
    BY DEF MeterInv
  <1>2. merchants[m].bucketAt \in Nat
    BY <1>1 DEF Metered
  <1>3. Metered(merchants'[m], originatedAt', m)
    BY <1>1, MeterStays
  <1> QED BY <1>1, <1>2, <1>3

\* One record changes, and of the sales at most this merchant's.
LEMMA MeterMoves ==
    ASSUME MeterInv, MerchantsOK, NEW m \in Merchants, NEW r, UNCHANGED now,
           merchants' = [merchants EXCEPT ![m] = r],
           Metered(r, originatedAt', m), r.bucketAt <= now,
           \A k \in Plans : Terms[k].merchant # m => originatedAt'[k] = originatedAt[k]
    PROVE  MeterInv'
  <1> SUFFICES ASSUME NEW x \in Merchants
               PROVE  /\ Metered(merchants'[x], originatedAt', x)
                      /\ merchants'[x].bucketAt <= now'
    BY DEF MeterInv
  <1>1. CASE x = m
    <2>1. merchants'[x] = r
      BY <1>1 DEF MerchantsOK
    <2> QED BY <1>1, <2>1
  <1>2. CASE x # m
    <2>1. merchants'[x] = merchants[x]
      BY <1>2 DEF MerchantsOK
    <2>2. Metered(merchants[x], originatedAt, x) /\ merchants[x].bucketAt <= now
      BY DEF MeterInv
    <2>3. \A k \in Plans : Terms[k].merchant = x => originatedAt'[k] = originatedAt[k]
      BY <1>2
    <2>4. Metered(merchants[x], originatedAt', x)
      BY <2>2, <2>3, MeterStays
    <2> QED BY <2>1, <2>2, <2>4
  <1> QED BY <1>1, <1>2

SameMeter(r, q) ==
    /\ q.bucket = r.bucket /\ q.bucketAt = r.bucketAt
    /\ q.registeredAt = r.registeredAt /\ q.registered = r.registered

\* A change of one record that leaves its meter alone.
LEMMA MetersStayButOne ==
    ASSUME MeterInv, MerchantsOK, NEW m, NEW r, UNCHANGED <<originatedAt, now>>,
           now \in Nat, m \in Merchants => SameMeter(merchants[m], r),
           merchants' = [merchants EXCEPT ![m] = r]
    PROVE  MeterInv'
  <1> SUFFICES ASSUME NEW x \in Merchants PROVE SameMeter(merchants[x], merchants'[x])
    BY MetersStay DEF SameMeter
  <1>1. CASE x = m
    BY <1>1 DEF MerchantsOK
  <1>2. CASE x # m
    <2>1. merchants'[x] = merchants[x]
      BY <1>2 DEF MerchantsOK
    <2> QED BY <2>1 DEF SameMeter
  <1> QED BY <1>1, <1>2

LEMMA TradeMeters ==
    ASSUME LedgerInv, MeterInv, NEW m \in Merchants, Trade(m)
    PROVE  MeterInv'
  <1> DEFINE r == merchants[m]
  <1>a. MerchantsOK /\ Bonded(r) /\ now \in Nat \ {0} /\ Dated(originatedAt)
    BY DEF LedgerInv, RegistryAgrees, MerchantsOK, SalesOK, Dated
  <1>1. ASSUME NEW q, SameMeter(r, q), merchants' = [merchants EXCEPT ![m] = q],
               UNCHANGED <<pool, now>>
        PROVE  MeterInv'
    BY <1>a, <1>1, MetersStayButOne DEF pool
  <1>2. ASSUME NEW d \in Domains, Register(m, d) PROVE MeterInv'
    <2> DEFINE q == Registered(r, d, now)
    <2>1. ~r.registered /\ merchants' = [merchants EXCEPT ![m] = q] /\ UNCHANGED <<pool, now>>
      BY <1>2 DEF Register
    <2>2. r.bucket = 0 /\ SoldBy(originatedAt, m, 0)
      BY <2>1 DEF MeterInv, Metered
    <2>3. q.bucket = 0 /\ q.bucketAt = now /\ q.registeredAt = now
      BY <1>a, <2>2 DEF Bonded, Registered, MerchantFields
    <2> HIDE DEF q
    <2>4. Metered(q, originatedAt, m)
      BY <1>a, <2>2, <2>3, MeterStarts
    <2>5. UNCHANGED <<originatedAt, now>> /\ q.bucketAt <= now
      BY <1>a, <2>1, <2>3 DEF pool
    <2>6. Metered(q, originatedAt', m)
      BY <2>4, <2>5
    <2>7. MerchantsOK /\ merchants' = [merchants EXCEPT ![m] = q] /\ UNCHANGED now
      BY <1>a, <2>1
    <2> QED BY <2>5, <2>6, <2>7, MeterMoves
  <1>3. ASSUME NEW d \in Domains, SetPayoutRoute(m, d) PROVE MeterInv'
    <2>1. SameMeter(r, [r EXCEPT !.payoutDomain = d])
      BY <1>a DEF Bonded, MerchantFields, SameMeter
    <2> QED BY <1>1, <1>3, <2>1 DEF SetPayoutRoute
  <1>4. ASSUME NEW verified \in Verdicts, AttestKyb(m, verified) PROVE MeterInv'
    <2>1. SameMeter(r, [r EXCEPT !.kybVerified = verified])
      BY <1>a DEF Bonded, MerchantFields, SameMeter
    <2> QED BY <1>1, <1>4, <2>1 DEF AttestKyb
  <1>5. ASSUME NEW category \in SettlementCategory, SetCategory(m, category) PROVE MeterInv'
    <2>1. SameMeter(r, [r EXCEPT !.category = category])
      BY <1>a DEF Bonded, MerchantFields, SameMeter
    <2> QED BY <1>1, <1>5, <2>1 DEF SetCategory
  <1>6. ASSUME NEW amount \in BondAmounts, PostBond(m, amount) PROVE MeterInv'
    <2>1. SameMeter(r, [r EXCEPT !.bond = r.bond + amount])
      BY <1>a DEF Bonded, MerchantFields, SameMeter
    <2> QED BY <1>1, <1>6, <2>1 DEF PostBond
  <1>7. ASSUME NEW amount \in BondAmounts, WithdrawBond(m, amount) PROVE MeterInv'
    <2>1. SameMeter(r, BondTaken(r, amount))
      BY <1>a DEF Bonded, MerchantFields, SameMeter, BondTaken
    <2> QED BY <1>1, <1>7, <2>1 DEF WithdrawBond
  <1>8. ASSUME UNCHANGED <<merchants, pool, now>> PROVE MeterInv'
    BY <1>a, <1>8, MetersStay DEF pool
  <1>9. ASSUME NEW d \in Domains, Dispatch(m, d) PROVE MeterInv'
    BY <1>8, <1>9 DEF Dispatch
  <1>10. CASE ClaimRebate(m)
    BY <1>8, <1>10 DEF ClaimRebate
  <1> QED BY <1>2, <1>3, <1>4, <1>5, <1>6, <1>7, <1>9, <1>10 DEF Trade

LEMMA SaleMeters ==
    ASSUME VestingBps # 0, LedgerInv, MeterInv, NEW k \in Plans, Originate(k)
    PROVE  MeterInv'
  <1> DEFINE m == Terms[k].merchant
             r == merchants[m]
             posted == WithheldPosted(r, Withholding(k))
             q == OriginationNoted(posted, Terms[k].principal, now)
  <1>1. /\ m \in Merchants /\ MerchantsOK /\ Bonded(r) /\ now \in Nat \ {0}
        /\ Dated(originatedAt) /\ Metered(r, originatedAt, m) /\ r.bucketAt <= now
        /\ Terms[k].principal \in Nat
    BY PoolTermsAssumption
       DEF LedgerInv, RegistryAgrees, MerchantsOK, SalesOK, Dated, MeterInv
  <1>2. Bonded(posted) /\ SameMeter(r, posted)
    <2>1. SameMeter(r, posted)
      BY <1>1 DEF SameMeter, Bonded, MerchantFields, WithheldPosted
    <2> QED BY <1>1, <2>1, WithholdingIsInt, PostedBonded
  <1>3. /\ originatedAt[k] = 0 /\ UNCHANGED now
        /\ originatedAt' = [originatedAt EXCEPT ![k] = now]
        /\ CanNoteOrigination(posted, Terms[k].principal, now)
        /\ merchants' = [merchants EXCEPT ![m] = q]
    BY <1>1 DEF Originate, SettleMerchant
  <1>4. /\ q.bucketAt = now /\ q.bucket = VelocityUsed(posted, now) + Terms[k].principal
        /\ q.registeredAt = posted.registeredAt /\ q.registered = posted.registered
    BY <1>2 DEF Bonded, MerchantFields, OriginationNoted
  <1> HIDE DEF q, posted
  <1>5. Metered(posted, originatedAt, m) /\ posted.bucketAt <= now
    BY <1>1, <1>2, MeterStays DEF SameMeter
  <1>6. posted.registered /\ WithinVelocity(posted, Terms[k].principal, now)
    BY <1>3 DEF CanNoteOrigination
  <1>7. q.bucket \in Nat
    <2>1. VelocityUsed(posted, now) \in Nat
      BY <1>1, <1>5, UsedIsNat DEF Metered
    <2> QED BY <1>1, <1>4, <2>1
  <1>8. Metered(q, [originatedAt EXCEPT ![k] = now], m)
    BY <1>1, <1>3, <1>4, <1>5, <1>6, <1>7, MeterTakesSale
  <1>9. \A j \in Plans : Terms[j].merchant # m => originatedAt'[j] = originatedAt[j]
    BY <1>1, <1>3 DEF Dated
  <1>10. Metered(q, originatedAt', m) /\ q.bucketAt <= now
    BY <1>1, <1>3, <1>4, <1>8
  <1> HIDE DEF m
  <1> QED BY <1>1, <1>3, <1>9, <1>10, MeterMoves

LEMMA NextMeters == VestingBps # 0 /\ LedgerInv /\ MeterInv /\ [Next]_vars => MeterInv'
  <1> SUFFICES ASSUME VestingBps # 0, LedgerInv, MeterInv, [Next]_vars PROVE MeterInv'
    OBVIOUS
  <1>a. MerchantsOK /\ now \in Nat \ {0} /\ Moving \subseteq Plans /\ Contested \subseteq Plans
    BY CheckoutAssumption DEF LedgerInv, RegistryAgrees, SalesOK
  <1>b. ASSUME UNCHANGED <<merchants, originatedAt, now>> PROVE MeterInv'
    BY <1>a, <1>b, MetersStay
  <1>1. ASSUME NEW m \in Merchants, Trade(m) PROVE MeterInv'
    BY <1>1, TradeMeters
  <1>2. ASSUME NEW k \in Plans, Serve(k) PROVE MeterInv'
    <2>1. CASE Originate(k)
      BY <2>1, SaleMeters
    <2>2. CASE Recognise(k) \/ NoteRefund(k)
      <3> DEFINE m == Terms[k].merchant
                 q == RecoveryNoted(merchants[m], RecoveredOf(k))
      <3>1. /\ m \in Merchants /\ Bonded(merchants[m])
            /\ merchants' = [merchants EXCEPT ![m] = q]
            /\ UNCHANGED <<originatedAt, now>>
        BY <1>a, <2>2, PoolTermsAssumption
           DEF Recognise, NoteRefund, RecogniseThroughRouter, MerchantsOK
      <3>2. SameMeter(merchants[m], q)
        BY <3>1 DEF SameMeter, Bonded, MerchantFields, RecoveryNoted
      <3> HIDE DEF m, q
      <3> QED BY <1>a, <3>1, <3>2, MetersStayButOne
    <2>3. CASE RecogniseAtPool(k) \/ AttestShipment(k) \/ Release(k) \/ RefundToPool(k)
      BY <1>b, <2>3 DEF RecogniseAtPool, AttestShipment, Release, RefundToPool, pool
    <2> QED BY <1>2, <2>1, <2>2, <2>3 DEF Serve
  <1>3. ASSUME NEW k \in Moving, Repay(k) PROVE MeterInv'
    BY <1>b, <1>3 DEF Repay, CreditRefund, PlanMoves
  <1>4. ASSUME NEW k \in Contested, Contest(k) PROVE MeterInv'
    <2>1. CASE ExecuteSlash(k)
      <3> DEFINE d == refunds.disputes[k]
                 q == BondTaken(merchants[d.merchant], d.amount)
      <3>1. /\ merchants' = [merchants EXCEPT ![d.merchant] = q]
            /\ UNCHANGED <<originatedAt, now>>
        BY <2>1 DEF ExecuteSlash
      <3>2. d.merchant \in Merchants => SameMeter(merchants[d.merchant], q)
        BY <1>a DEF SameMeter, Bonded, MerchantFields, BondTaken, MerchantsOK
      <3> HIDE DEF d, q
      <3> QED BY <1>a, <3>1, <3>2, MetersStayButOne
    <2> QED BY <1>b, <1>4, <2>1 DEF Contest, OpenDispute, OpenNonAttestationDispute, Open,
                                    CancelDispute, pool
  <1>5. ASSUME NEW d \in Deniable, DenyDomain(d) PROVE MeterInv'
    BY <1>b, <1>5 DEF DenyDomain, pool
  <1>6. ASSUME NEW amount \in RebateAmounts, FundRebates(amount) PROVE MeterInv'
    BY <1>b, <1>6 DEF FundRebates, pool
  <1>7. CASE Tick
    <2>1. UNCHANGED <<merchants, originatedAt>> /\ now' \in Nat /\ now <= now'
      BY <1>a, <1>7 DEF Tick, pool
    <2> QED BY <1>a, <2>1, MetersStay
  <1>8. CASE UNCHANGED vars
    BY <1>b, <1>8 DEF vars
  <1> QED BY <1>1, <1>2, <1>3, <1>4, <1>5, <1>6, <1>7, <1>8 DEF Next

LEMMA InitMeters == Init => MeterInv
  <1> SUFFICES ASSUME Init, NEW m \in Merchants
               PROVE  Metered(merchants[m], originatedAt, m) /\ merchants[m].bucketAt <= now
    BY DEF MeterInv
  <1>1. merchants[m] = NoMerchant /\ now = 1
    BY DEF Init
  <1>2. Dated(originatedAt) /\ SoldBy(originatedAt, m, 0)
    BY DEF Init, Dated, SoldBy
  <1>3. NoMerchant.bucket = 0 /\ NoMerchant.bucketAt = 0 /\ NoMerchant.registeredAt = 0
    BY DEF NoMerchant
  <1> HIDE DEF NoMerchant
  <1>4. Metered(merchants[m], originatedAt, m)
    BY <1>1, <1>2, <1>3, MeterStarts
  <1> QED BY <1>1, <1>3, <1>4

LEMMA MetersBound == LedgerInv /\ MeterInv => VelocityIsBounded
  <1> SUFFICES ASSUME LedgerInv, MeterInv, NEW m \in Merchants,
                      NEW from \in 1 .. now, NEW to \in 1 .. now, from <= to,
                      to < merchants[m].registeredAt + VestingWindow
               PROVE  Volume(m, from, to) <=
                        VelocityCap + (VelocityCap * (to - from)) \div VelocityWindow
    BY DEF VelocityIsBounded
  <1>1. from \in Nat \ {0} /\ to \in Nat \ {0}
    BY DEF LedgerInv, SalesOK
  <1>2. VolumeOf(originatedAt, m, from, to) <= VelocityCap + Leak(to - from)
    BY <1>1 DEF MeterInv, Metered, Bounded
  <1>3. Volume(m, from, to) = VolumeOf(originatedAt, m, from, to)
    BY DEF Volume, VolumeOf, SalesOf, Prices
  <1> QED BY <1>2, <1>3 DEF Leak

\* While vesting withholds anything, a new merchant sells over any stretch of
\* its vesting at most the cap and what the bucket leaked meanwhile, whatever
\* the cap, the window and the sales (MerchantRegistry's velocity bucket).
\* With nothing withheld the registry counts nobody as new, and caps nobody.
THEOREM VelocityStaysBounded ==
    ASSUME VestingBps # 0
    PROVE  Spec => []VelocityIsBounded
  <1>1. LedgerInv /\ MeterInv /\ [Next]_vars => MeterInv'
    BY NextMeters
  <1> QED BY <1>1, InitMeters, LedgerInvariant, MetersBound, PTL DEF Spec
=============================================================================
