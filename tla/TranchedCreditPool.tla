------------------------- MODULE TranchedCreditPool -------------------------
(***************************************************************************)
(* TranchedCreditPool.sol, the two tranche tokens it mints, the yield      *)
(* venues it may park cash in, and everybody who calls it: its owner and   *)
(* treasurer, the originator that fronts plans, lenders, and whoever turns *)
(* the permissionless cranks.  Each external function is one action.  The  *)
(* plans it has fronted move on their own, as PlanPromise lets them.       *)
(***************************************************************************)
EXTENDS TrancheLogic

CONSTANTS
    Venues, NoVenue,
    PlanStates,                      \* per plan: the states the environment uses
    LatePlans,                       \* the plans whose checks may go unmarked
    Treasury,                        \* the protocol's own money
    LenderFunds,                     \* what each holder starts with
    SeedAmounts, ReserveAmounts, YieldAmounts,
    DepositAmounts, RedeemAmounts, BufferAmounts, MarkLimits, ClaimSteps,
    MaxTime                          \* bound of the exploration

ASSUME PoolInputsAssumption ==
    /\ NoVenue \notin Venues
    /\ PlanStates \in [Plans -> SUBSET States] /\ LatePlans \subseteq Plans
    /\ Treasury \in Nat /\ LenderFunds \in Nat /\ MaxTime \in Nat
    /\ SeedAmounts \cup ReserveAmounts \cup YieldAmounts \cup DepositAmounts
         \cup RedeemAmounts \cup BufferAmounts \subseteq Nat \ {0}
    /\ MarkLimits \cup ClaimSteps \subseteq Nat \ {0}

VARIABLES
    book,       \* the loan side of the pool's storage, and its token balance
    desk,       \* the lender side, and the tranche tokens
    venue,      \* the venue the pool points at
    positions,  \* what the pool holds in each venue
    view,       \* what each fronted plan shows the pool
    treasury,   \* the protocol's wallet
    wallet,     \* the lenders' wallets
    now         \* block.timestamp

vars == <<book, desk, venue, positions, view, treasury, wallet, now>>

Init ==
    /\ book = NewLoanBook
    /\ desk = NewDesk(1)
    /\ venue = NoVenue
    /\ positions = [x \in Venues |-> [shares |-> 0, assets |-> 0]]
    /\ view = [k \in Plans |-> Opening(Terms[k])]
    /\ treasury = Treasury
    /\ wallet = [h \in Holders |-> LenderFunds]
    /\ now = 1

---------------------------------------------------------------------------
(* The owner's capital. *)

Seed(t, amount) ==
    /\ amount <= treasury
    /\ CanSeed(desk, t, amount)
    /\ book' = SeededBook(book, t, amount)
    /\ desk' = SeededDesk(book, desk, t, amount)
    /\ treasury' = treasury - amount
    /\ UNCHANGED <<venue, positions, view, wallet, now>>

FundReserve(amount) ==
    /\ amount <= treasury
    /\ book' = ReserveFunded(book, amount)
    /\ treasury' = treasury - amount
    /\ UNCHANGED <<desk, venue, positions, view, wallet, now>>

---------------------------------------------------------------------------
(* Lenders. *)

RequestDeposit(t, h, amount) ==
    /\ amount <= wallet[h]
    /\ CanDeposit(book, desk, t, h, amount)
    /\ desk' = Deposited(book, desk, t, h, amount)
    /\ book' = [book EXCEPT !.balance = @ + amount]
    /\ wallet' = [wallet EXCEPT ![h] = @ - amount]
    /\ UNCHANGED <<venue, positions, view, treasury, now>>

CancelDeposit(t, h) ==
    LET amount == desk.depositTickets[t][h].assets
    IN  /\ CanCancelDeposit(book, desk, t, h)
        /\ desk' = DepositCancelled(book, desk, t, h)
        /\ book' = [book EXCEPT !.balance = @ - amount]
        /\ wallet' = [wallet EXCEPT ![h] = @ + amount]
        /\ UNCHANGED <<venue, positions, view, treasury, now>>

ClaimShares(t, h) ==
    /\ CanClaimShares(book, desk, t, h)
    /\ desk' = SharesClaimed(desk, t, h, now)
    /\ UNCHANGED <<book, venue, positions, view, treasury, wallet, now>>

RequestRedeem(t, h, amount) ==
    /\ CanRequestRedeem(desk, t, h, amount, now)
    /\ desk' = RedeemRequested(desk, t, h, amount)
    /\ UNCHANGED <<book, venue, positions, view, treasury, wallet, now>>

ClaimRedemption(t, h, index, maxSteps) ==
    LET claim == Claim(desk.fills[t], desk.redeemTickets[t][h][index], maxSteps)
    IN  /\ desk' = RedemptionClaimed(desk, t, h, index, claim)
        /\ book' = [book EXCEPT !.balance = @ - claim.assets]
        /\ wallet' = [wallet EXCEPT ![h] = @ + claim.assets]
        /\ UNCHANGED <<venue, positions, view, treasury, now>>

---------------------------------------------------------------------------
(* Loans. *)

Front(k) ==
    /\ CanFront(book, k)
    /\ book' = Fronted(book, k)
    /\ UNCHANGED <<desk, venue, positions, view, treasury, wallet, now>>

Recognise(k) ==
    /\ book.books[k].fronted
    /\ book' = Recognised(book, k, view[k])
    /\ UNCHANGED <<desk, venue, positions, view, treasury, wallet, now>>

\* A fronted plan collects, bounces, defaults or is cured, and what it
\* forwards arrives in the pool's balance before anybody books it.
PlanMoves(k) ==
    /\ book.books[k].fronted
    /\ \E state \in PlanStates[k], late \in BOOLEAN,
          outstanding \in 0 .. view[k].outstanding,
          forwarded \in view[k].forwarded .. Terms[k].principal + Terms[k].extras :
        LET w == [state |-> state, outstanding |-> outstanding,
                  forwarded |-> forwarded, late |-> late]
        IN  /\ Follows(Terms[k], view[k], w)
            /\ late => k \in LatePlans
            /\ view' = [view EXCEPT ![k] = w]
            /\ book' = [book EXCEPT !.balance = @ + forwarded - view[k].forwarded]
    /\ UNCHANGED <<desk, venue, positions, treasury, wallet, now>>

---------------------------------------------------------------------------
(* The epoch crank. *)

MarkEpoch(limit) ==
    /\ book' = MarkedUpTo(book, limit, view)
    /\ UNCHANGED <<desk, venue, positions, view, treasury, wallet, now>>

\* The venue is marked at its redeemable value; with no venue nothing is.
Synced ==
    IF venue = NoVenue THEN book
    ELSE VenueSynced(book, RedeemableValue(positions[venue]))

CloseEpoch ==
    LET closed == ClosedEpoch(Synced, desk, now)
    IN  /\ book.epoch < MaxEpoch
        /\ CanCloseEpoch(book, desk, now)
        /\ book' = closed.book
        /\ desk' = closed.desk
        /\ UNCHANGED <<venue, positions, view, treasury, wallet, now>>

---------------------------------------------------------------------------
(* The idle buffer. *)

SetVenue(x) ==
    /\ venue' = x
    /\ UNCHANGED <<book, desk, positions, view, treasury, wallet, now>>

DeployBuffer(requested) ==
    LET amount == Lesser(requested, DeployableBuffer(book, desk))
    IN  /\ venue # NoVenue
        /\ amount > 0
        /\ book' = BufferDeployed(book, amount)
        /\ positions' = [positions EXCEPT ![venue] = VenueDeposit(@, amount)]
        /\ UNCHANGED <<desk, venue, view, treasury, wallet, now>>

RecallBuffer(requested) ==
    /\ venue # NoVenue
    /\ LET got == VenueTake(positions[venue], requested)
       IN  /\ got > 0
           /\ book' = BufferRecalled(book, got)
           /\ positions' = [positions EXCEPT ![venue] = VenueWithdraw(@, got)]
    /\ UNCHANGED <<desk, venue, view, treasury, wallet, now>>

SyncVenue ==
    /\ book' = Synced
    /\ UNCHANGED <<desk, venue, positions, view, treasury, wallet, now>>

PayYield(x, amount) ==
    /\ amount <= treasury
    /\ positions' = [positions EXCEPT ![x].assets = @ + amount]
    /\ treasury' = treasury - amount
    /\ UNCHANGED <<book, desk, venue, view, wallet, now>>

Tick ==
    /\ now < MaxTime
    /\ now' = now + 1
    /\ UNCHANGED <<book, desk, venue, positions, view, treasury, wallet>>

---------------------------------------------------------------------------

Lend ==
    \E t \in Tranche, h \in Holders :
        \/ \E amount \in DepositAmounts : RequestDeposit(t, h, amount)
        \/ CancelDeposit(t, h)
        \/ ClaimShares(t, h)
        \/ \E amount \in RedeemAmounts : RequestRedeem(t, h, amount)
        \/ \E index \in DOMAIN desk.redeemTickets[t][h], steps \in ClaimSteps :
             ClaimRedemption(t, h, index, steps)

Borrow == \E k \in Plans : Front(k) \/ Recognise(k) \/ PlanMoves(k)

Next ==
    \/ \E t \in Tranche, amount \in SeedAmounts : Seed(t, amount)
    \/ \E amount \in ReserveAmounts : FundReserve(amount)
    \/ Lend
    \/ Borrow
    \/ \E limit \in MarkLimits : MarkEpoch(limit)
    \/ CloseEpoch
    \/ \E x \in Venues \cup {NoVenue} : SetVenue(x)
    \/ \E amount \in BufferAmounts : DeployBuffer(amount) \/ RecallBuffer(amount)
    \/ SyncVenue
    \/ \E x \in Venues, amount \in YieldAmounts : PayYield(x, amount)
    \/ Tick

Spec == Init /\ [][Next]_vars

---------------------------------------------------------------------------
(* What the pool promises. *)

\* The storage, the ledgers and the clock hold values of their types.
TypeOK ==
    /\ book \in LoanBook
    /\ desk \in Desk
    /\ venue \in Venues \cup {NoVenue}
    /\ positions \in [Venues -> Position]
    /\ view \in [Plans -> View]
    /\ treasury \in Nat /\ wallet \in [Holders -> Nat] /\ now \in Nat

Claims(b) == TotalAssets(b)

Holdings(b) ==
    b.bookedCash + b.deployedAssets + b.bookedReceivables
      - b.deferredIncome - b.totalProvisioned

\* The holdings identity: what the reserve and the two tranches claim is what
\* the pool holds, after any history of loans, marks, cures, losses and closes.
ClaimsEqualHoldings == Claims(book) = Holdings(book)

\* With a venue that pays, the lenders are never promised more than there is.
ClaimsNeverExceedHoldings == Claims(book) <= Holdings(book)

Unbooked(k) == view[k].forwarded - book.books[k].recognisedInflow

\* Assets are booked, never weighed: the token balance is exactly the booked
\* cash, the money of lenders not yet admitted, the money owed to lenders
\* already out, and what plans forwarded and nobody has recognised.
EveryUnitIsBooked ==
    book.balance = book.bookedCash + desk.pendingDepositAssets
                     + desk.pendingRedemptionAssets
                     + SumOver([k \in Plans |-> Unbooked(k)], Plans)

OpenPaper == {k \in Plans : book.books[k].open}

Carrying(S) == SumOver([k \in Plans |-> book.books[k].carrying], S)

\* The totals the pool quotes are the sums of its plans: receivables,
\* deferred income, both concentration ledgers and both views of the
\* provisions (recognise, _close, _takeProvision and _releaseProvision each
\* move several of them).
TotalsMatchThePaper ==
    /\ book.bookedReceivables = Carrying(OpenPaper)
    /\ book.deferredIncome =
         SumOver([k \in Plans |-> book.books[k].deferredIncome], OpenPaper)
    /\ \A m \in Merchants :
         book.merchantExposure[m] = Carrying({k \in OpenPaper : Terms[k].merchant = m})
    /\ \A c \in Corridors :
         book.corridorExposure[c] = Carrying({k \in OpenPaper : Terms[k].corridor = c})
    /\ book.totalProvisioned =
         SumOver([k \in Plans |-> book.provisions[k].amount], OpenPaper)
    /\ \A e \in Epochs :
         book.provisionedAt[e] =
           SumOver([k \in Plans |-> book.provisions[k].amount],
                   {k \in OpenPaper : book.provisions[k].epoch = e})

\* Swap-removal keeps the list of open plans and its slots in step, and the
\* three counters the epoch close relies on count what they say.
OpenListIsExact ==
    /\ {book.openPlanList[i] : i \in DOMAIN book.openPlanList} = OpenPaper
    /\ book.openPlans = Len(book.openPlanList)
    /\ \A k \in OpenPaper : book.openPlanList[book.openPlanSlot[k] + 1] = k
    /\ book.markedThisEpoch =
         Cardinality({k \in OpenPaper : book.books[k].markedEpoch = book.epoch})
    /\ book.unmarkedDelinquencies =
         Cardinality({k \in OpenPaper : book.books[k].unmarked})

\* The book the pool prices every share on: the identity, the totals and the
\* list and counters, none of them recomputed and each moved in several places.
TheBookIsExact == ClaimsEqualHoldings /\ TotalsMatchThePaper /\ OpenListIsExact

\* The wrapping walk of markEpoch always gets to the end of the phase within
\* two rounds of the list, wherever the cursor was left and whatever closes.
MarkPhaseCompletes ==
    MarkComplete(MarkedUpTo(book, 2 * book.openPlans, view))

Nav(b) == <<b.reserve, b.assets, b.totalProvisioned, b.bookedReceivables>>

\* A delinquency that is cured leaves no trace in anybody's claim: the cure
\* gives back to each layer exactly what the provision took from it.
CureReleasesWhatDelinquencyTook ==
    \A k \in OpenPaper :
        LET calm  == [view[k] EXCEPT !.state = "Active", !.late = FALSE]
            here  == Recognised(book, k, calm)
            there == Recognised(here, k, [calm EXCEPT !.state = "Delinquent"])
        IN  Nav(Recognised(there, k, calm)) = Nav(here)

\* Recognition is idempotent: a second call on an unmoved plan changes nothing.
RecogniseIsIdempotent ==
    \A k \in OpenPaper :
        LET once == Recognised(book, k, view[k])
        IN  Recognised(once, k, view[k]) = once

\* recognise() reads a plan as it is, however often and in whatever order its
\* states are seen: nothing is booked twice and a cure undoes a delinquency.
RecognitionIsExact == CureReleasesWhatDelinquencyTook /\ RecogniseIsIdempotent

\* The pool's own tranche shares cover the seed it never redeems, the shares
\* priced and not yet claimed, and the shares queued and not yet filled: no
\* claim and no fill ever burns or hands out somebody else's.
SharesAreCovered ==
    \A t \in Tranche :
        LET waiting == {h \in Holders : CanClaimShares(book, desk, t, h)}
        IN  desk.poolShares[t] >=
              desk.seedShares[t]
                + SumOver([h \in Holders |-> SharesOwed(desk, t, h)], waiting)
                + (desk.queueTail[t] - desk.queueFilled[t])

Claimable(t, h) ==
    LET tickets == desk.redeemTickets[t][h]
        found   == [i \in DOMAIN tickets |->
                      Claim(desk.fills[t], tickets[i], Len(desk.fills[t]) + 1).assets]
    IN  SumOver(found, DOMAIN tickets)

\* Whatever the lenders in the queue can claim today, in whatever steps, is
\* set aside for them.
RedemptionsAreCovered ==
    SumOver([h \in Holders |-> Claimable("Senior", h) + Claimable("Junior", h)], Holders)
      <= desk.pendingRedemptionAssets

\* Every lender, in or on the way out, can be given what it has been priced,
\* out of units the pool has.
LendersAreCovered == EveryUnitIsBooked /\ SharesAreCovered /\ RedemptionsAreCovered

\* Pricing one lender in or out never costs another: a close lowers neither
\* share price, unless the venue lost money.
CloseNeverDilutes ==
    [][ book'.epoch # book.epoch /\ Synced.deployedAssets >= book.deployedAssets
          => \A t \in Tranche :
               NavPerShare(book', desk', t) >= NavPerShare(book, desk, t) ]_vars

\* A close that pays junior lenders out leaves junior at or above its share of
\* what is then left, whatever senior was paid and deposited in the same close.
JuniorIsNotPaidThroughItsFloor ==
    [][ desk'.queueFilled["Junior"] > desk.queueFilled["Junior"]
          => book'.assets["Junior"] >= (TotalAssets(book') * MinSubordinationBps) \div Bps ]_vars

\* One close is fair to those who stay, senior and junior, whoever it admits,
\* pays out or charges.
ClosesAreFair == CloseNeverDilutes /\ JuniorIsNotPaidThroughItsFloor

---------------------------------------------------------------------------
(* What the documentation says and the code does not do. *)

\* maxSeniorDeposit() "keeps subordination at its floor": a close that takes
\* deposits and pays nobody out does not bring subordination below the floor.
DepositsKeepTheFloor ==
    [][ (/\ book'.epoch # book.epoch
         /\ desk'.queueFilled = desk.queueFilled
         /\ SubordinationBps(Synced) >= MinSubordinationBps)
        => SubordinationBps(book') >= MinSubordinationBps ]_vars

\* A plan the pool has nothing new to learn from.
InStep(k) == Recognised(book, k, view[k]) = book
=============================================================================
