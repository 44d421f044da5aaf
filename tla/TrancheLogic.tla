---------------------------- MODULE TrancheLogic ----------------------------
(***************************************************************************)
(* The lender side of TranchedCreditPool.sol, with the TrancheToken it     *)
(* mints and burns and the ParkedYieldVenue its idle cash may sit in:      *)
(* deposits priced at the close of their epoch, redemptions filled first   *)
(* come first served out of free cash, and the close itself.               *)
(***************************************************************************)
EXTENDS PoolLogic

CONSTANTS
    Holders,
    VirtualShares,       \* TRANCHE_DECIMALS_OFFSET as a number of shares
    Scale,               \* the fixed point of a share price
    SeniorApyBps, Year,
    LiquidityFeeThresholdBps, LiquidityFeeBps, BufferFloorBps,
    EpochLength, JuniorLockPeriod,
    VenueVirtualShares

\* A lender is an address too.
ASSUME LendersAssumption == IsFiniteSet(Holders)

ASSUME TrancheParamsAssumption ==
    /\ VirtualShares \in Nat \ {0} /\ Scale \in Nat \ {0} /\ Year \in Nat \ {0}
    /\ SeniorApyBps \in Nat /\ LiquidityFeeThresholdBps \in Nat
    /\ LiquidityFeeBps \in 0 .. Bps /\ BufferFloorBps \in Nat
    /\ EpochLength \in Nat \ {0} /\ JuniorLockPeriod \in Nat
    /\ VenueVirtualShares \in Nat \ {0}

---------------------------------------------------------------------------
(* The records. *)

DepositTicket == [epoch : Epochs, assets : Nat]

RedeemTicket == [hi : Nat, claimedTo : Nat, cursor : Nat]

Fill == [filledTo : Nat, sharesFilled : Nat, assetsAllocated : Nat]

\* `shares` and `poolShares` are the tranche token's ledger, `seedShares` the
\* part of it minted for good by seed(); of the requests per epoch only the
\* running epoch's are ever read, so only those are kept.
Desk ==
    [pendingDepositAssets : Nat, pendingRedemptionAssets : Nat,
     depositTickets : [Tranche -> [Holders -> DepositTicket]],
     epochDepositAssets : [Tranche -> [Epochs -> Nat]],
     epochDepositShares : [Tranche -> [Epochs -> Nat]],
     seeded : [Tranche -> BOOLEAN],
     redeemTickets : [Tranche -> [Holders -> Seq(RedeemTicket)]],
     queueTail : [Tranche -> Nat], queueFilled : [Tranche -> Nat],
     fills : [Tranche -> Seq(Fill)], redeemRequested : [Tranche -> Nat],
     shares : [Tranche -> [Holders -> Nat]], poolShares : [Tranche -> Nat],
     seedShares : [Tranche -> Nat],
     unlockAt : [Holders -> Nat], epochStartedAt : Nat]

NewDesk(now) ==
    [pendingDepositAssets |-> 0, pendingRedemptionAssets |-> 0,
     depositTickets |->
        [t \in Tranche |-> [h \in Holders |-> [epoch |-> 0, assets |-> 0]]],
     epochDepositAssets |-> [t \in Tranche |-> [e \in Epochs |-> 0]],
     epochDepositShares |-> [t \in Tranche |-> [e \in Epochs |-> 0]],
     seeded |-> [t \in Tranche |-> FALSE],
     redeemTickets |-> [t \in Tranche |-> [h \in Holders |-> <<>>]],
     queueTail |-> [t \in Tranche |-> 0], queueFilled |-> [t \in Tranche |-> 0],
     fills |-> [t \in Tranche |-> <<>>], redeemRequested |-> [t \in Tranche |-> 0],
     shares |-> [t \in Tranche |-> [h \in Holders |-> 0]],
     poolShares |-> [t \in Tranche |-> 0], seedShares |-> [t \in Tranche |-> 0],
     unlockAt |-> [h \in Holders |-> 0], epochStartedAt |-> now]

---------------------------------------------------------------------------
(* Prices. *)

TrancheShares(d, t) == d.poolShares[t] + SumOver(d.shares[t], Holders)

\* A virtual unit and virtual shares keep the first price from being moved.
SharesFor(b, d, t, amount) ==
    (amount * (TrancheShares(d, t) + VirtualShares)) \div (b.assets[t] + 1)

NavPerShare(b, d, t) ==
    ((b.assets[t] + 1) * Scale) \div (TrancheShares(d, t) + VirtualShares)

\* The largest senior deposit that keeps subordination at its floor, with
\* the junior money pending in this epoch counted as if settled.
SeniorRoom(b, d) ==
    LET junior == b.assets["Junior"] + d.epochDepositAssets["Junior"][b.epoch]
    IN  Less((junior * Bps) \div MinSubordinationBps,
             TotalAssets(b) + d.pendingDepositAssets)

---------------------------------------------------------------------------
(* Capital in. *)

CanSeed(d, t, amount) == ~d.seeded[t] /\ amount > 0

SeededBook(b, t, amount) ==
    [b EXCEPT !.bookedCash = @ + amount, !.balance = @ + amount,
              !.assets[t] = @ + amount]

SeededDesk(b, d, t, amount) ==
    [d EXCEPT !.poolShares[t] = @ + SharesFor(b, d, t, amount),
              !.seedShares[t] = SharesFor(b, d, t, amount),
              !.seeded[t] = TRUE]

CanDeposit(b, d, t, h, amount) ==
    /\ amount > 0
    /\ d.seeded[t]
    /\ t = "Senior" /\ MinSubordinationBps > 0 => amount <= SeniorRoom(b, d)
    /\ d.depositTickets[t][h].assets > 0 => d.depositTickets[t][h].epoch = b.epoch

Deposited(b, d, t, h, amount) ==
    [d EXCEPT !.depositTickets[t][h] = [epoch |-> b.epoch, assets |-> @.assets + amount],
              !.pendingDepositAssets = @ + amount,
              !.epochDepositAssets[t][b.epoch] = @ + amount]

CanCancelDeposit(b, d, t, h) ==
    /\ d.depositTickets[t][h].assets > 0
    /\ d.depositTickets[t][h].epoch = b.epoch

DepositCancelled(b, d, t, h) ==
    LET amount == d.depositTickets[t][h].assets
    IN  [d EXCEPT !.depositTickets[t][h].assets = 0,
                  !.pendingDepositAssets = @ - amount,
                  !.epochDepositAssets[t][b.epoch] = @ - amount]

CanClaimShares(b, d, t, h) ==
    /\ d.depositTickets[t][h].assets > 0
    /\ d.depositTickets[t][h].epoch < b.epoch

SharesOwed(d, t, h) ==
    LET ticket == d.depositTickets[t][h]
        total  == d.epochDepositAssets[t][ticket.epoch]
    IN  IF total = 0 THEN 0
        ELSE (ticket.assets * d.epochDepositShares[t][ticket.epoch]) \div total

\* Junior shares are locked afresh whenever they arrive.
SharesClaimed(d, t, h, now) ==
    LET amount == SharesOwed(d, t, h)
    IN  [d EXCEPT !.depositTickets[t][h].assets = 0,
                  !.shares[t][h] = @ + amount,
                  !.poolShares[t] = @ - amount,
                  !.unlockAt[h] = IF t = "Junior" /\ JuniorLockPeriod > 0
                                  THEN now + JuniorLockPeriod ELSE @]

---------------------------------------------------------------------------
(* Capital out: a ticket is the interval of the queue it asked for. *)

CanRequestRedeem(d, t, h, amount, now) ==
    /\ 0 < amount /\ amount <= d.shares[t][h]
    /\ t = "Junior" => now >= d.unlockAt[h]

RedeemRequested(d, t, h, amount) ==
    LET lo == d.queueTail[t]
        ticket == [hi |-> lo + amount, claimedTo |-> lo, cursor |-> Len(d.fills[t])]
    IN  [d EXCEPT !.shares[t][h] = @ - amount,
                  !.poolShares[t] = @ + amount,
                  !.queueTail[t] = lo + amount,
                  !.redeemTickets[t][h] = Append(@, ticket),
                  !.redeemRequested[t] = @ + amount]

\* One step of the walk of a ticket along the fills; `c` is the ticket and
\* the assets found so far.
ClaimStep(fills, c) ==
    LET ticket == c.ticket
        fill   == fills[ticket.cursor + 1]
        upTo   == Lesser(fill.filledTo, ticket.hi)
    IN  IF ticket.cursor >= Len(fills) \/ ticket.claimedTo >= ticket.hi THEN c
        ELSE IF fill.filledTo <= ticket.claimedTo
        THEN [c EXCEPT !.ticket.cursor = @ + 1]
        ELSE [assets |-> c.assets + ((upTo - ticket.claimedTo) * fill.assetsAllocated)
                                       \div fill.sharesFilled,
              ticket |-> [ticket EXCEPT !.claimedTo = upTo,
                                        !.cursor = IF fill.filledTo <= upTo
                                                   THEN @ + 1 ELSE @]]

Claim(fills, ticket, maxSteps) ==
    LET walk[i \in 0 .. maxSteps] ==
            IF i = 0 THEN [assets |-> 0, ticket |-> ticket]
            ELSE ClaimStep(fills, walk[i - 1])
    IN  walk[maxSteps]

\* Fault: what was paid out stays set aside.
RedemptionClaimedKeepingReserve(d, t, h, index, claim) ==
    [d EXCEPT !.redeemTickets[t][h][index] = claim.ticket]

RedemptionClaimed(d, t, h, index, claim) ==
    [d EXCEPT !.redeemTickets[t][h][index] = claim.ticket,
              !.pendingRedemptionAssets = @ - claim.assets]

---------------------------------------------------------------------------
(* The idle buffer.  A position is the pool's shares of the venue and what *)
(* the venue says it holds; the pool is its only depositor.                *)

Position == [shares : Nat, assets : Nat]

RedeemableValue(p) ==
    IF p.shares = 0 THEN 0
    ELSE (p.shares * (p.assets + 1)) \div (p.shares + VenueVirtualShares)

VenueDeposit(p, amount) ==
    [shares |-> p.shares
                  + (amount * (p.shares + VenueVirtualShares)) \div (p.assets + 1),
     assets |-> p.assets + amount]

VenueTake(p, amount) == Lesser(amount, RedeemableValue(p))

VenueWithdraw(p, take) ==
    [shares |-> p.shares - Lesser((take * (p.shares + VenueVirtualShares))
                                    \div (p.assets + 1), p.shares),
     assets |-> p.assets - take]

DeployableBuffer(b, d) ==
    Less(b.bookedCash,
         (TotalAssets(b) * BufferFloorBps) \div Bps + d.pendingRedemptionAssets)

BufferDeployed(b, amount) ==
    [b EXCEPT !.bookedCash = @ - amount, !.deployedAssets = @ + amount,
              !.balance = @ - amount]

BufferRecalled(b, got) ==
    [b EXCEPT !.deployedAssets = Less(@, got), !.bookedCash = @ + got,
              !.balance = @ + got]

VenueSynced(b, value) ==
    LET moved == [b EXCEPT !.deployedAssets = value]
    IN  IF value >= b.deployedAssets
        THEN Distribute(moved, value - b.deployedAssets)
        ELSE AbsorbLoss(moved, b.deployedAssets - value)

---------------------------------------------------------------------------
(* The close of an epoch, on both records at once. *)

SeniorAccruedTo(b, elapsed) ==
    [b EXCEPT !.seniorAccrued =
        @ + (b.assets["Senior"] * SeniorApyBps * elapsed) \div (Year * Bps)]

RedemptionAssetsRequested(b, d, t) ==
    (d.redeemRequested[t] * NavPerShare(b, d, t)) \div Scale

FeeBps(b, d) ==
    LET requested == RedemptionAssetsRequested(b, d, "Senior")
                       + RedemptionAssetsRequested(b, d, "Junior")
        deposits  == d.epochDepositAssets["Senior"][b.epoch]
                       + d.epochDepositAssets["Junior"][b.epoch]
        net       == Less(requested, deposits)
    IN  IF \/ TotalAssets(b) = 0
           \/ net = 0
           \/ (net * Bps) \div TotalAssets(b) < LiquidityFeeThresholdBps
        THEN 0 ELSE LiquidityFeeBps

SettleDeposits(b, d, t) ==
    LET amount == d.epochDepositAssets[t][b.epoch]
        minted == SharesFor(b, d, t, amount)
    IN  IF amount = 0 THEN [book |-> b, desk |-> d]
        ELSE [book |-> [b EXCEPT !.bookedCash = @ + amount, !.assets[t] = @ + amount],
              desk |-> [d EXCEPT !.pendingDepositAssets = @ - amount,
                                 !.epochDepositShares[t][b.epoch] = minted,
                                 !.poolShares[t] = @ + minted]]

\* Fault: junior is paid down through its floor.
SpendableWithoutFloor(b, t) == Lesser(b.bookedCash, b.assets[t])

\* What a tranche may pay out now: its own claim, in cash, and for junior
\* only what keeps the subordination floor.
Spendable(b, t) ==
    LET own == Lesser(b.bookedCash, b.assets[t])
    IN  IF t = "Junior" /\ MinSubordinationBps > 0
        THEN Lesser(own, Less(b.assets["Junior"],
                              (TotalAssets(b) * MinSubordinationBps) \div Bps))
        ELSE own

\* How much of its queue, in shares, a tranche pays for now.
SharesFilled(b, d, t) ==
    LET queued == d.queueTail[t] - d.queueFilled[t]
        price  == NavPerShare(b, d, t)
    IN  IF price = 0 THEN 0
        ELSE Lesser((Spendable(b, t) * Scale) \div price, queued)

FillQueue(b, d, t, feeBps) ==
    LET filled == SharesFilled(b, d, t)
        gross  == (filled * NavPerShare(b, d, t)) \div Scale
        net    == gross - (gross * feeBps) \div Bps
    IN  IF filled = 0 THEN [book |-> b, desk |-> d]
        ELSE [book |-> [b EXCEPT !.assets[t] = @ - net, !.bookedCash = @ - net],
              desk |-> [d EXCEPT
                  !.queueFilled[t] = @ + filled,
                  !.poolShares[t] = @ - filled,
                  !.pendingRedemptionAssets = @ + net,
                  !.fills[t] = Append(@, [filledTo |-> d.queueFilled[t] + filled,
                                          sharesFilled |-> filled,
                                          assetsAllocated |-> net])]]

CanCloseEpoch(b, d, now) ==
    /\ now >= d.epochStartedAt + EpochLength
    /\ MarkComplete(b)
    /\ b.unmarkedDelinquencies = 0

\* `synced` is the book once the venue is marked.  The fee is struck before
\* the deposits settle, and senior is served before junior.
ClosedEpoch(synced, d, now) ==
    LET accrued == SeniorAccruedTo(synced, now - d.epochStartedAt)
        feeBps  == FeeBps(accrued, d)
        q1 == SettleDeposits(accrued, d, "Senior")
        q2 == SettleDeposits(q1.book, q1.desk, "Junior")
        q3 == FillQueue(q2.book, q2.desk, "Senior", feeBps)
        q4 == FillQueue(q3.book, q3.desk, "Junior", feeBps)
    IN  [book |-> [q4.book EXCEPT !.epoch = @ + 1, !.markedThisEpoch = 0,
                                  !.markCursor = 0],
         desk |-> [q4.desk EXCEPT !.epochStartedAt = now,
                                  !.redeemRequested = [t \in Tranche |-> 0]]]
=============================================================================
