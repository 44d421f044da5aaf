------------------------------ MODULE Checkout ------------------------------
(***************************************************************************)
(* Where a merchant's money goes: CheckoutRouter.sol, which originates a   *)
(* plan out of the pool and splits its settlement, MerchantRegistry.sol,   *)
(* SettlementEscrow.sol, PayoutRouter.sol and RefundEscrow.sol, around the *)
(* pool's own loan book and the plans it has fronted.  One token.          *)
(***************************************************************************)
EXTENDS MerchantLogic

CONSTANTS
    NoOne,                           \* the merchant of a dispute that is not there
    ConcentrationBps,                \* a merchant's and a corridor's share of the pool
    AttestationDeadline, ReleaseTimer, DisputeTimelock,
    PlanStates,                      \* states of a plan the environment uses
    Deniable,                        \* domains the curator may deny
    Moving, Contested,               \* plans that are repaid, and disputed
    Verdicts,                        \* what the KYB desk attests
    Reserve, Junior,                 \* what the pool starts with
    BondAmounts, RefundAmounts, DisputeAmounts, RebateAmounts,
    MaxBond, MaxRebates, MaxTime     \* bounds of the exploration

ASSUME CheckoutAssumption ==
    /\ NoOne \notin Merchants
    /\ {ConcentrationBps, AttestationDeadline, ReleaseTimer, DisputeTimelock,
        Reserve, Junior, MaxBond, MaxRebates, MaxTime} \subseteq Nat
    /\ PlanStates \subseteq States /\ Verdicts \subseteq BOOLEAN
    /\ Deniable \subseteq Domains /\ Moving \cup Contested \subseteq Plans
    /\ BondAmounts \cup RefundAmounts \cup DisputeAmounts \cup RebateAmounts
         \subseteq Nat \ {0}

VARIABLES
    book,         \* the pool's loan book
    view,         \* what each plan shows
    refundCredit, \* and what its merchant has refunded through it
    originatedAt, \* when the router originated it, 0 if it has not
    merchants,    \* MerchantRegistry
    totalFronted,
    escrows,      \* SettlementEscrow's rows
    payouts,      \* PayoutRouter: queued settlement and denied domains
    refunds,      \* RefundEscrow: refunds seen, rebates owed, disputes
    custody,      \* the token balance of each of the four contracts
    now           \* block.timestamp

vars == <<book, view, refundCredit, originatedAt, merchants, totalFronted,
          escrows, payouts, refunds, custody, now>>

pool == <<book, view, refundCredit, originatedAt>>

EscrowState == {"None", "Held", "Attested", "Released", "Returned"}

NoEscrow == [state |-> "None", amount |-> 0, domain |-> Arc, heldAt |-> 0, attestedAt |-> 0]

NoDispute == [merchant |-> NoOne, amount |-> 0, openedAt |-> 0]

Init ==
    /\ book = [NewLoanBook EXCEPT !.reserve = Reserve, !.assets["Junior"] = Junior,
                                  !.bookedCash = Reserve + Junior,
                                  !.balance = Reserve + Junior]
    /\ view = [k \in Plans |-> Opening(Terms[k])]
    /\ refundCredit = [k \in Plans |-> 0]
    /\ originatedAt = [k \in Plans |-> 0]
    /\ merchants = [m \in Merchants |-> NoMerchant]
    /\ totalFronted = 0
    /\ escrows = [k \in Plans |-> NoEscrow]
    /\ payouts = [queued |-> [m \in Merchants |-> [d \in Domains |-> 0]], denied |-> {}]
    /\ refunds = [credited |-> [k \in Plans |-> 0],
                  rebateOwed |-> [m \in Merchants |-> 0], rebateReserve |-> 0,
                  disputes |-> [k \in Plans |-> NoDispute]]
    /\ custody = [registry |-> 0, escrow |-> 0, payouts |-> 0, refunds |-> 0]
    /\ now = 1

---------------------------------------------------------------------------
(* MerchantRegistry. *)

Register(m, domain) ==
    /\ ~merchants[m].registered
    /\ merchants' = [merchants EXCEPT ![m] = Registered(@, domain, now)]
    /\ UNCHANGED <<pool, totalFronted, escrows, payouts, refunds, custody, now>>

AttestKyb(m, verified) ==
    /\ merchants[m].registered
    /\ merchants' = [merchants EXCEPT ![m].kybVerified = verified]
    /\ UNCHANGED <<pool, totalFronted, escrows, payouts, refunds, custody, now>>

SetPayoutRoute(m, domain) ==
    /\ merchants[m].registered
    /\ merchants' = [merchants EXCEPT ![m].payoutDomain = domain]
    /\ UNCHANGED <<pool, totalFronted, escrows, payouts, refunds, custody, now>>

\* No merchant without a record is let out of escrow; anybody may be put back.
SetCategory(m, category) ==
    /\ merchants[m].registered
    /\ category = "Instant" => VestingBpsFor(merchants[m], now) = 0
    /\ merchants' = [merchants EXCEPT ![m].category = category]
    /\ UNCHANGED <<pool, totalFronted, escrows, payouts, refunds, custody, now>>

PostBond(m, amount) ==
    /\ merchants[m].registered
    /\ merchants[m].bond + amount <= MaxBond
    /\ merchants' = [merchants EXCEPT ![m].bond = @ + amount]
    /\ custody' = [custody EXCEPT !.registry = @ + amount]
    /\ UNCHANGED <<pool, totalFronted, escrows, payouts, refunds, now>>

WithdrawBond(m, amount) ==
    /\ CanWithdrawBond(merchants[m], amount)
    /\ merchants' = [merchants EXCEPT ![m] = BondTaken(@, amount)]
    /\ custody' = [custody EXCEPT !.registry = @ - amount]
    /\ UNCHANGED <<pool, totalFronted, escrows, payouts, refunds, now>>

---------------------------------------------------------------------------
(* PayoutRouter.  Arc is paid at once, any other domain is queued.         *)

\* Every member of Domains is one the bridge acknowledges.
Supported(domain) == domain \notin payouts.denied

Paid(p, m, domain, amount) ==
    IF domain = Arc THEN p ELSE [p EXCEPT !.queued[m][domain] = @ + amount]

Kept(domain, amount) == IF domain = Arc THEN 0 ELSE amount

Dispatch(m, domain) ==
    /\ payouts.queued[m][domain] > 0
    /\ payouts' = [payouts EXCEPT !.queued[m][domain] = 0]
    /\ custody' = [custody EXCEPT !.payouts = @ - payouts.queued[m][domain]]
    /\ UNCHANGED <<pool, merchants, totalFronted, escrows, refunds, now>>

DenyDomain(domain) ==
    /\ Supported(domain)
    /\ payouts' = [payouts EXCEPT !.denied = @ \cup {domain}]
    /\ UNCHANGED <<pool, merchants, totalFronted, escrows, refunds, custody, now>>

---------------------------------------------------------------------------
(* CheckoutRouter. *)

Room(exposure) == Less((TotalAssets(book) * ConcentrationBps) \div Bps, exposure)

\* Of a settlement net of the fee, a slice goes into the bond while the
\* merchant is new, and the rest to the merchant or into escrow.
Net(k) == Terms[k].principal - Terms[k].mdr

Withholding(k) ==
    (Net(k) * VestingBpsFor(merchants[Terms[k].merchant], now)) \div Bps

Payable(k) == Net(k) - Withholding(k)

SizeCheck(k) ==
    LET m    == Terms[k].merchant
        size == Terms[k].principal
    IN  /\ size <= Room(book.merchantExposure[m])
        /\ size <= Room(book.corridorExposure[Terms[k].corridor])
        /\ CanOriginate(merchants[m], size, now)

\* The slice goes into the bond first, so that the bond is measured with it.
SettleMerchant(k) ==
    LET m      == Terms[k].merchant
        posted == WithheldPosted(merchants[m], Withholding(k))
        domain == posted.payoutDomain
        held   == posted.category = "Escrowed"
    IN  /\ Supported(domain)
        /\ CanNoteOrigination(posted, Terms[k].principal, now)
        /\ merchants' = [merchants EXCEPT ![m] = OriginationNoted(posted, Terms[k].principal, now)]
        /\ totalFronted' = totalFronted + Terms[k].principal
        /\ escrows' = IF held
                      THEN [escrows EXCEPT ![k] =
                              [state |-> "Held", amount |-> Payable(k), domain |-> domain,
                               heldAt |-> now, attestedAt |-> 0]]
                      ELSE escrows
        /\ payouts' = IF held THEN payouts ELSE Paid(payouts, m, domain, Payable(k))
        /\ custody' = [custody EXCEPT
                         !.registry = @ + Withholding(k),
                         !.escrow = @ + (IF held THEN Payable(k) ELSE 0),
                         !.payouts = @ + (IF held THEN 0 ELSE Kept(domain, Payable(k)))]

Originate(k) ==
    /\ originatedAt[k] = 0
    /\ SizeCheck(k)
    /\ CanFront(book, k)
    /\ book' = Fronted(book, k)
    /\ SettleMerchant(k)
    /\ originatedAt' = [originatedAt EXCEPT ![k] = now]
    /\ UNCHANGED <<view, refundCredit, refunds, now>>

\* Fault: the exposure comes down by the whole principal.
RecoveredWhole(k) ==
    IF Recognised(book, k, view[k]).books[k].carrying < book.books[k].carrying
    THEN Terms[k].principal ELSE 0

\* What the receivable fell by across the pool's own crank.
RecoveredOf(k) ==
    Less(book.books[k].carrying, Recognised(book, k, view[k]).books[k].carrying)

RecogniseThroughRouter(k) ==
    /\ book' = Recognised(book, k, view[k])
    /\ merchants' = [merchants EXCEPT ![Terms[k].merchant] = RecoveryNoted(@, RecoveredOf(k))]
    /\ totalFronted' = Less(totalFronted, Lesser(RecoveredOf(k),
                            merchants[Terms[k].merchant].outstandingFronted))

Recognise(k) ==
    /\ originatedAt[k] # 0
    /\ RecogniseThroughRouter(k)
    /\ UNCHANGED <<view, refundCredit, originatedAt, escrows, payouts, refunds, custody, now>>

\* The pool's crank is as permissionless as the router's, and the epoch crank
\* runs it over every open plan.
RecogniseAtPool(k) ==
    /\ originatedAt[k] # 0
    /\ book' = Recognised(book, k, view[k])
    /\ UNCHANGED <<view, refundCredit, originatedAt, merchants, totalFronted,
                   escrows, payouts, refunds, custody, now>>

---------------------------------------------------------------------------
(* SettlementEscrow. *)

AttestShipment(k) ==
    /\ escrows[k].state = "Held"
    /\ escrows' = [escrows EXCEPT ![k].state = "Attested", ![k].attestedAt = now]
    /\ UNCHANGED <<pool, merchants, totalFronted, payouts, refunds, custody, now>>

ReleasableAt(k) == escrows[k].attestedAt + ReleaseTimer

ReturnableAt(k) == escrows[k].heldAt + AttestationDeadline

\* Fault: a release is refused once the attestation deadline has passed.
CanReleaseInTime(k) ==
    /\ escrows[k].state = "Attested"
    /\ now >= ReleasableAt(k)
    /\ now <= ReturnableAt(k)
    /\ Supported(escrows[k].domain)

CanRelease(k) ==
    /\ escrows[k].state = "Attested"
    /\ now >= ReleasableAt(k)
    /\ Supported(escrows[k].domain)

Release(k) ==
    LET row == escrows[k]
    IN  /\ CanRelease(k)
        /\ escrows' = [escrows EXCEPT ![k].state = "Released"]
        /\ payouts' = Paid(payouts, Terms[k].merchant, row.domain, row.amount)
        /\ custody' = [custody EXCEPT !.escrow = @ - row.amount,
                                      !.payouts = @ + Kept(row.domain, row.amount)]
        /\ UNCHANGED <<pool, merchants, totalFronted, refunds, now>>

RefundToPool(k) ==
    LET row == escrows[k]
    IN  /\ row.state = "Held"
        /\ now >= ReturnableAt(k)
        /\ escrows' = [escrows EXCEPT ![k].state = "Returned"]
        /\ book' = ReserveFunded(book, row.amount)
        /\ custody' = [custody EXCEPT !.escrow = @ - row.amount]
        /\ UNCHANGED <<view, refundCredit, originatedAt, merchants, totalFronted,
                       payouts, refunds, now>>

---------------------------------------------------------------------------
(* RefundEscrow. *)

RebateFrom(paper, applied) ==
    IF paper.carrying = 0 \/ paper.deferredIncome = 0 THEN 0
    ELSE (paper.deferredIncome * Lesser(applied, paper.carrying)) \div paper.carrying

\* The rebate is struck on the book as it stands before recognition.
NoteRefund(k) ==
    LET delta  == refundCredit[k] - refunds.credited[k]
        rebate == RebateFrom(book.books[k], delta)
    IN  /\ originatedAt[k] # 0
        /\ delta > 0
        /\ RecogniseThroughRouter(k)
        /\ refunds' = [refunds EXCEPT !.credited[k] = refundCredit[k],
                                      !.rebateOwed[Terms[k].merchant] = @ + rebate]
        /\ UNCHANGED <<view, refundCredit, originatedAt, escrows, payouts, custody, now>>

FundRebates(amount) ==
    /\ refunds.rebateReserve + amount <= MaxRebates
    /\ refunds' = [refunds EXCEPT !.rebateReserve = @ + amount]
    /\ custody' = [custody EXCEPT !.refunds = @ + amount]
    /\ UNCHANGED <<pool, merchants, totalFronted, escrows, payouts, now>>

ClaimRebate(m) ==
    LET pay == Lesser(refunds.rebateOwed[m], refunds.rebateReserve)
    IN  /\ pay > 0
        /\ refunds' = [refunds EXCEPT !.rebateOwed[m] = @ - pay, !.rebateReserve = @ - pay]
        /\ custody' = [custody EXCEPT !.refunds = @ - pay]
        /\ UNCHANGED <<pool, merchants, totalFronted, escrows, payouts, now>>

Open(k, m, amount) ==
    /\ refunds.disputes[k].openedAt = 0
    /\ refunds' = [refunds EXCEPT !.disputes[k] =
                     [merchant |-> m, amount |-> amount, openedAt |-> now]]
    /\ UNCHANGED <<pool, merchants, totalFronted, escrows, payouts, custody, now>>

OpenDispute(k, m, amount) ==
    /\ amount <= merchants[m].bond
    /\ Open(k, m, amount)

OpenNonAttestationDispute(k) ==
    LET m == Terms[k].merchant
    IN  /\ escrows[k].state = "Returned"
        /\ Open(k, m, Lesser(escrows[k].amount, merchants[m].bond))

ExecutableAt(k) == refunds.disputes[k].openedAt + DisputeTimelock

CancelDispute(k) ==
    /\ refunds.disputes[k].openedAt # 0
    /\ now < ExecutableAt(k)
    /\ refunds' = [refunds EXCEPT !.disputes[k] = NoDispute]
    /\ UNCHANGED <<pool, merchants, totalFronted, escrows, payouts, custody, now>>

\* The bond is taken through RefundEscrow into the pool's reserve; what the
\* bond can no longer cover cannot be taken at all.
ExecuteSlash(k) ==
    LET d == refunds.disputes[k]
    IN  /\ d.openedAt # 0
        /\ now >= ExecutableAt(k)
        /\ originatedAt[k] # 0
        /\ d.amount <= merchants[d.merchant].bond
        /\ refunds' = [refunds EXCEPT !.disputes[k] = NoDispute]
        /\ merchants' = [merchants EXCEPT ![d.merchant] = BondTaken(@, d.amount)]
        /\ custody' = [custody EXCEPT !.registry = @ - d.amount]
        /\ book' = ReserveFunded(book, d.amount)
        /\ UNCHANGED <<view, refundCredit, originatedAt, totalFronted, escrows, payouts, now>>

---------------------------------------------------------------------------
(* The plans.  A refund by the merchant retires principal first, and is    *)
(* forwarded with what the plan releases when nothing is owed any more.    *)

Became(k, w) ==
    /\ Follows(Terms[k], view[k], w)
    /\ view' = [view EXCEPT ![k] = w]
    /\ book' = [book EXCEPT !.balance = @ + w.forwarded - view[k].forwarded]

CreditRefund(k, amount) ==
    LET applied == Lesser(amount, view[k].outstanding)
        left    == view[k].outstanding - applied
    IN  /\ originatedAt[k] # 0
        /\ applied > 0
        /\ \E released \in IF left = 0 THEN 0 .. Terms[k].extras ELSE {0},
              state \in (IF left = 0 THEN {"Refunded", "SettledWithFeeOutstanding"} ELSE {})
                          \cup {view[k].state} :
             /\ left = 0 /\ state = view[k].state => state \in Absorbing
             /\ Became(k, [view[k] EXCEPT !.state = state, !.outstanding = left,
                                          !.forwarded = @ + applied + released])
        /\ refundCredit' = [refundCredit EXCEPT ![k] = @ + applied]
        /\ UNCHANGED <<originatedAt, merchants, totalFronted, escrows, payouts,
                       refunds, custody, now>>

PlanMoves(k) ==
    /\ originatedAt[k] # 0
    /\ \E state \in PlanStates, outstanding \in 0 .. view[k].outstanding,
          forwarded \in view[k].forwarded .. Terms[k].principal + Terms[k].extras :
         Became(k, [state |-> state, outstanding |-> outstanding,
                    forwarded |-> forwarded, late |-> FALSE])
    /\ UNCHANGED <<refundCredit, originatedAt, merchants, totalFronted, escrows,
                   payouts, refunds, custody, now>>

Tick ==
    /\ now < MaxTime
    /\ now' = now + 1
    /\ UNCHANGED <<pool, merchants, totalFronted, escrows, payouts, refunds, custody>>

---------------------------------------------------------------------------

Trade(m) ==
    \/ \E d \in Domains : Register(m, d) \/ SetPayoutRoute(m, d) \/ Dispatch(m, d)
    \/ \E verified \in Verdicts : AttestKyb(m, verified)
    \/ \E category \in SettlementCategory : SetCategory(m, category)
    \/ \E amount \in BondAmounts : PostBond(m, amount) \/ WithdrawBond(m, amount)
    \/ ClaimRebate(m)

Serve(k) ==
    \/ Originate(k) \/ Recognise(k) \/ RecogniseAtPool(k)
    \/ AttestShipment(k) \/ Release(k) \/ RefundToPool(k)
    \/ NoteRefund(k)

Repay(k) ==
    \/ \E amount \in RefundAmounts : CreditRefund(k, amount)
    \/ PlanMoves(k)

Contest(k) ==
    \/ \E m \in Merchants, amount \in DisputeAmounts : OpenDispute(k, m, amount)
    \/ OpenNonAttestationDispute(k)
    \/ CancelDispute(k)
    \/ ExecuteSlash(k)

Next ==
    \/ \E m \in Merchants : Trade(m)
    \/ \E k \in Plans : Serve(k)
    \/ \E k \in Moving : Repay(k)
    \/ \E k \in Contested : Contest(k)
    \/ \E d \in Deniable : DenyDomain(d)
    \/ \E amount \in RebateAmounts : FundRebates(amount)
    \/ Tick

Spec == Init /\ [][Next]_vars

---------------------------------------------------------------------------
(* What the checkout promises. *)

TokenRow == [registry : Nat, escrow : Nat, payouts : Nat, refunds : Nat]

EscrowRow ==
    [state : EscrowState, amount : Nat, domain : Domains, heldAt : Nat, attestedAt : Nat]

Dispute == [merchant : Merchants \cup {NoOne}, amount : Nat, openedAt : Nat]

\* The five contracts' storage and the clock hold values of their types.
TypeOK ==
    /\ book \in LoanBook /\ view \in [Plans -> View]
    /\ refundCredit \in [Plans -> Nat] /\ originatedAt \in [Plans -> Nat]
    /\ merchants \in [Merchants -> Merchant] /\ totalFronted \in Nat
    /\ escrows \in [Plans -> EscrowRow]
    /\ payouts \in [queued : [Merchants -> [Domains -> Nat]], denied : SUBSET Domains]
    /\ refunds \in [credited : [Plans -> Nat], rebateOwed : [Merchants -> Nat],
                    rebateReserve : Nat, disputes : [Plans -> Dispute]]
    /\ custody \in TokenRow /\ now \in Nat

Out(m) ==
    SumOver([k \in Plans |-> book.books[k].carrying],
            {k \in Plans : book.books[k].open /\ Terms[k].merchant = m})

\* The exposure a bond is sized on never falls short of what the pool has out
\* with the merchant, however the two permissionless recognition cranks, the
\* refunds and the write-offs are interleaved, and the protocol-wide total is
\* the sum of the merchants'.
ExposureIsNeverUnderstated ==
    /\ \A m \in Merchants : merchants[m].outstandingFronted >= Out(m)
    /\ totalFronted =
         SumOver([m \in Merchants |-> merchants[m].outstandingFronted], Merchants)

Escrowed == {k \in Plans : escrows[k].state \in {"Held", "Attested"}}

\* Every contract holds exactly what its books say it owes: the bonds, the
\* settlements in escrow, the queued payouts, the rebate reserve, and the
\* pool's booked cash with what plans forwarded and nobody has recognised.
CustodyMatchesTheBooks ==
    /\ custody.registry = SumOver([m \in Merchants |-> merchants[m].bond], Merchants)
    /\ custody.escrow = SumOver([k \in Plans |-> escrows[k].amount], Escrowed)
    /\ custody.payouts =
         SumOver([m \in Merchants |-> SumOver(payouts.queued[m], Domains)], Merchants)
    /\ custody.refunds = refunds.rebateReserve
    /\ book.balance = book.bookedCash
         + SumOver([k \in Plans |-> view[k].forwarded - book.books[k].recognisedInflow], Plans)

\* The ledgers of the registry, the pool and the four custodians agree with each
\* other through repayments, refunds, rebates, disputes and losses.
LedgersAgree == ExposureIsNeverUnderstated /\ CustodyMatchesTheBooks

\* What was withheld is part of the bond, through any mix of withholdings,
\* deposits, withdrawals and slashes, so a merchant is never owed more of its
\* own settlement back than the registry holds for it.
WithheldIsInTheBond == \A m \in Merchants : merchants[m].withheld <= merchants[m].bond

Volume(m, from, to) ==
    SumOver([k \in Plans |-> Terms[k].principal],
            {k \in Plans : Terms[k].merchant = m /\ originatedAt[k] \in from .. to})

\* The leaky bucket: over any stretch of its vesting a new merchant sells at
\* most the cap and what the bucket leaked meanwhile, so two caps cannot be
\* run back to back across a boundary.
VelocityIsBounded ==
    \A m \in Merchants : \A from, to \in 1 .. now :
        from <= to /\ to < merchants[m].registeredAt + VestingWindow
          => Volume(m, from, to) <= VelocityCap + (VelocityCap * (to - from)) \div VelocityWindow

Covered(m) == merchants[m].bond >= RequiredBond(merchants[m])

Slashed(k, m) ==
    /\ refunds.disputes[k].merchant = m
    /\ refunds'.disputes[k] = NoDispute
    /\ custody'.registry < custody.registry

\* A registered merchant whose bond covers its exposure stays covered through
\* every origination, recovery, withdrawal and route change: only an executed
\* slash takes a bond below its requirement.
OnlyASlashUncoversABond ==
    [][ \A m \in Merchants :
          merchants[m].registered /\ Covered(m) /\ ~Covered(m)'
            => \E k \in Plans : Slashed(k, m) ]_vars

---------------------------------------------------------------------------
(* What eventually happens.  Time passes, and the party with an interest in *)
(* a permissionless exit takes it.                                          *)

FairSpec ==
    /\ Spec
    /\ WF_vars(Tick)
    /\ \A k \in Plans : WF_vars(Release(k)) /\ WF_vars(RefundToPool(k))
    /\ \A m \in Merchants, d \in Domains : WF_vars(Dispatch(m, d))

\* No settlement is stranded: one that is never attested goes back to the
\* pool, one that is attested, late or not, reaches the merchant unless its
\* destination was denied, and queued settlement is dispatched even then.
SettlementsDoNotStrand ==
    /\ \A k \in Plans :
         /\ escrows[k].state = "Held" /\ ReturnableAt(k) <= MaxTime
              ~> escrows[k].state # "Held"
         /\ escrows[k].state = "Attested" /\ ReleasableAt(k) <= MaxTime
              ~> escrows[k].state = "Released" \/ ~Supported(escrows[k].domain)
    /\ \A m \in Merchants, d \in Domains :
         payouts.queued[m][d] > 0 ~> payouts.queued[m][d] = 0
=============================================================================
