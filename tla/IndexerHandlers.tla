-------------------------- MODULE IndexerHandlers --------------------------
(***************************************************************************)
(* services/indexer: one operator per handler, from the tables and a log   *)
(* to the tables.  A log e carries the contract's name and address, its    *)
(* arguments, its block and its transaction; a plan's deployment also      *)
(* carries what the new plan answers when the handler reads it.            *)
(***************************************************************************)
EXTENDS IndexerTables, FiniteSetsExt

CONSTANTS ARC_DOMAIN,          \* the corridor's own CCTP domain
          UNKNOWN_MERCHANT,    \* stands for a merchant no origination names
          PAYROLL_SWEEPER,     \* the deployed sweeper, or Zero
          OPERATOR_ADDRESSES,  \* keepers the operator runs
          TRACKED,             \* recipients whose inflows are recorded
          Month,               \* length of a cohort
          NativePerMinor       \* native units in one 6-decimal minor unit

cohortOf(timestamp) == timestamp \div Month
eventId(e) == <<e.block.number, e.log.logIndex>>
logId(txHash, logIndex) == <<txHash, logIndex>>
\* Mutant of poolPositionId: a lender is one row over every pool.
positionIdOverPools(pool, tranche, holder) == <<tranche, holder>>

poolPositionId(pool, tranche, holder) == <<pool, tranche, holder>>
poolTicketId(pool, tranche, holder, index) == <<pool, tranche, holder, index>>
Less(a, b) == IF a > b THEN a - b ELSE 0
isOperator(address) == address \in OPERATOR_ADDRESSES
At(e) == [blockNumber |-> e.block.number, timestamp |-> e.block.timestamp]

-----------------------------------------------------------------------------
\* settlement.ts: which log settled a plan, and which rows a dispatch closes.
netOf(principal, mdr, withheld) == principal - mdr - withheld

statusFromDispatch(kind) ==
    CASE kind = "paid" -> "settled" [] kind = "queued" -> "queued" [] OTHER -> "dispatched"

dispatchClosesOut(row, route) ==
    /\ row.status = "queued"
    /\ row.token = route.token
    /\ row.recipient = {route.recipient}
    /\ row.domain = {route.domain}

planIdsClosedOutBy(rows, route) ==
    {planId \in DOMAIN rows : dispatchClosesOut(rows[planId], route)}

\* Mutant of settlementLogFor: the first such log instead of the last.
settlementLogForFirst(rows, logIndex, payable) ==
    LET earlier == {row \in rows : row.logIndex < logIndex /\ row.amount = payable}
    IN  {row \in earlier : \A other \in earlier : other.logIndex >= row.logIndex}

\* The last log before the origination that moved exactly what it owed.
settlementLogFor(rows, logIndex, payable) ==
    LET earlier == {row \in rows : row.logIndex < logIndex /\ row.amount = payable}
    IN  {row \in earlier : \A other \in earlier : other.logIndex <= row.logIndex}

dispatchRow(kind, e) ==
    [id |-> eventId(e), kind |-> kind, token |-> e.args.token,
     recipient |-> e.args.recipient, domain |-> e.args.domain, amount |-> e.args.amount,
     txHash |-> e.transaction.hash, logIndex |-> e.log.logIndex] @@ At(e)

-----------------------------------------------------------------------------
\* index.ts: plans, their installments, and who serviced them.
keeperRow(address, timestamp, delta) ==
    [keeper |-> address, collections |-> delta.collections, marks |-> delta.marks,
     bountyEarned |-> 0, firstSeenAt |-> timestamp, lastSeenAt |-> timestamp,
     isOperator |-> isOperator(address)]
keeperMerge(row, timestamp, delta) ==
    [row EXCEPT !.collections = @ + delta.collections, !.marks = @ + delta.marks,
                !.lastSeenAt = timestamp]
Credit(table, address, timestamp, delta) ==
    Upsert(table, address, keeperRow(address, timestamp, delta),
           LAMBDA row : keeperMerge(row, timestamp, delta))

OnPlanDeployed(db, e) ==
    LET view == e.views
        indices == 0..(view.installmentCount - 1)
        strip == [key \in {<<e.args.planId, index>> : index \in indices} |->
                    [planId |-> e.args.planId, index |-> key[2],
                     amount |-> view.installmentAmount[key[2]],
                     dueDate |-> view.dueDate[key[2]],
                     graceEndsAt |-> view.graceEndsAt[key[2]]] @@ installmentDefaults]
    IN  [db EXCEPT
            !.plan = Insert(@, e.args.planId,
                [planId |-> e.args.planId, address |-> e.args.plan,
                 implementation |-> e.args.implementation,
                 installmentCount |-> view.installmentCount, principal |-> view.principal,
                 outstandingPrincipal |-> view.principal, lateFee |-> view.lateFee,
                 originatedAtBlock |-> e.block.number, originatedAt |-> e.block.timestamp,
                 cohort |-> cohortOf(e.block.timestamp)] @@ planDefaults),
            !.installment = IF DOMAIN @ \cap DOMAIN strip = {} THEN strip @@ @ ELSE Thrown]

Attempt(e, keeper, succeeded, reason, amount) ==
    [id |-> logId(e.transaction.hash, e.log.logIndex), planId |-> e.args.planId,
     installmentIndex |-> e.args.index, keeper |-> keeper, succeeded |-> succeeded,
     bounceReason |-> reason, amount |-> amount] @@ At(e)

\* underwriting.ts: a collection is a sweep when the deployed sweeper made it.
isPayrollSweep(keeper, sweeper) == sweeper # Zero /\ keeper = sweeper
recordSweep(table, e) ==
    IF isPayrollSweep(e.args.keeper, PAYROLL_SWEEPER)
      THEN InsertOnce(table, logId(e.transaction.hash, e.log.logIndex),
             [id |-> logId(e.transaction.hash, e.log.logIndex), planId |-> e.args.planId,
              index |-> e.args.index, value |-> e.args.amount, sweeper |-> e.args.keeper,
              txHash |-> e.transaction.hash] @@ At(e))
      ELSE table

OnCheckCleared(db, e) ==
    [db EXCEPT
        !.installment = Update(@, <<e.args.planId, e.args.index>>,
            LAMBDA row : [row EXCEPT !.status = 1, !.clearedAt = {e.block.timestamp},
                                     !.keeper = {e.args.keeper}, !.bounceReason = 0]),
        !.collectionAttempt = Insert(@, logId(e.transaction.hash, e.log.logIndex),
            Attempt(e, e.args.keeper, TRUE, 0, e.args.amount)),
        !.sweepEvent = recordSweep(@, e),
        !.plan = Update(@, e.args.planId,
            LAMBDA row : [row EXCEPT !.totalCollected = @ + e.args.amount]),
        !.keeperStats = Credit(@, e.args.keeper, e.block.timestamp,
                               [collections |-> 1, marks |-> 0])]

\* Mutant of OnCheckBounced: whoever tried is credited with a collection.
OnCheckBouncedAsCollected(db, e) ==
    [db EXCEPT
        !.installment = Update(@, <<e.args.planId, e.args.index>>,
            LAMBDA row : [row EXCEPT !.status = 2, !.bounceReason = e.args.reason,
                                     !.bounceCount = @ + 1]),
        !.keeperStats = Credit(@, e.transaction.from, e.block.timestamp,
                               [collections |-> 1, marks |-> 0])]

\* A bounce names no keeper: the row credits whoever sent the transaction.
OnCheckBounced(db, e) ==
    [db EXCEPT
        !.installment = Update(@, <<e.args.planId, e.args.index>>,
            LAMBDA row : [row EXCEPT !.status = 2, !.bounceReason = e.args.reason,
                                     !.bounceCount = @ + 1]),
        !.collectionAttempt = Insert(@, logId(e.transaction.hash, e.log.logIndex),
            Attempt(e, e.transaction.from, FALSE, e.args.reason, 0)),
        !.keeperStats = Credit(@, e.transaction.from, e.block.timestamp,
                               [collections |-> 0, marks |-> 0])]

Marked(db, e, status) ==
    [db EXCEPT
        !.installment = Update(@, <<e.args.planId, e.args.index>>,
            LAMBDA row : [row EXCEPT !.status = status, !.markedBy = {e.args.marker},
                                     !.markedAt = {e.block.timestamp}]),
        !.keeperStats = Credit(@, e.args.marker, e.block.timestamp,
                               [collections |-> 0, marks |-> 1])]
OnCheckMissed(db, e) == Marked(db, e, 3)
OnCheckExpired(db, e) == Marked(db, e, 4)

OnPlanStateChanged(db, e) ==
    [db EXCEPT
        !.planStateTransition = Insert(@, logId(e.transaction.hash, e.log.logIndex),
            [id |-> logId(e.transaction.hash, e.log.logIndex), planId |-> e.args.planId,
             fromState |-> e.args.from, toState |-> e.args.to] @@ At(e)),
        !.plan = Update(@, e.args.planId, LAMBDA row : [row EXCEPT !.state = e.args.to])]

OnPlanDelinquent(db, e) ==
    [db EXCEPT !.plan = Update(@, e.args.planId,
        LAMBDA row : [row EXCEPT !.feesOutstanding = e.args.lateFee])]
OnPlanCured(db, e) ==
    [db EXCEPT !.plan = Update(@, e.args.planId,
        LAMBDA row : [row EXCEPT !.feesOutstanding = 0])]
OnPlanRepaid(db, e) ==
    [db EXCEPT !.plan = Update(@, e.args.planId,
        LAMBDA row : [row EXCEPT !.outstandingPrincipal = 0, !.feesOutstanding = 0,
                                 !.repaidAt = {e.block.timestamp}])]
\* Mutant of OnPlanChargedOff: what is charged off is no longer owed.
OnPlanChargedOffAsForgiven(db, e) ==
    [db EXCEPT !.plan = Update(@, e.args.planId,
        LAMBDA row : [row EXCEPT !.chargedOff = TRUE, !.outstandingPrincipal = 0])]

OnPlanChargedOff(db, e) ==
    [db EXCEPT !.plan = Update(@, e.args.planId,
        LAMBDA row : [row EXCEPT !.chargedOff = TRUE])]
OnPlanRefundCredited(db, e) ==
    [db EXCEPT !.plan = Update(@, e.args.planId,
        LAMBDA row : [row EXCEPT !.refundCredit = @ + e.args.amount,
                                 !.outstandingPrincipal = Less(@, e.args.amount)])]

-----------------------------------------------------------------------------
\* payout.ts: the adapter's logs, and the settlement they make.
OnPaidOut(db, e) ==
    [db EXCEPT !.payoutDispatch = InsertOnce(@, eventId(e), dispatchRow("paid", e))]
OnPayoutQueued(db, e) ==
    [db EXCEPT !.payoutDispatch = InsertOnce(@, eventId(e), dispatchRow("queued", e))]
OnPayoutDispatched(db, e) ==
    LET closed == planIdsClosedOutBy(db.payout, e.args) IN
    [db EXCEPT
        !.payoutDispatch = InsertOnce(@, eventId(e), dispatchRow("dispatched", e)),
        !.payout = [planId \in DOMAIN @ |->
            IF planId \in closed
              THEN [@[planId] EXCEPT !.status = "dispatched",
                                     !.dispatchTxHash = {e.transaction.hash}]
              ELSE @[planId]]]

recordSettlement(db, e) ==
    LET a == e.args
        net == netOf(a.principal, a.mdr, a.withheld)
        held == a.planId \in DOMAIN db.settlementEscrow
        logs == IF held THEN {}
                ELSE {row \in {db.payoutDispatch[id] : id \in DOMAIN db.payoutDispatch} :
                        row.txHash = e.transaction.hash}
        log == settlementLogFor(logs, e.log.logIndex, net)
        route == {[token |-> row.token, recipient |-> {row.recipient},
                   domain |-> {row.domain}, status |-> statusFromDispatch(row.kind)] :
                    row \in log}
        routed == IF route # {} THEN CHOOSE r \in route : TRUE
                  ELSE [token |-> Zero, recipient |-> {}, domain |-> {},
                        status |-> IF held THEN "escrowed" ELSE "settled"]
        money == [merchant |-> a.merchant, gross |-> a.principal, mdr |-> a.mdr,
                  withheld |-> a.withheld, net |-> net, txHash |-> {e.transaction.hash}]
        fresh == routed @@ money @@ [planId |-> a.planId] @@ At(e)
                 @@ [cohort |-> cohortOf(e.block.timestamp)] @@ payoutDefaults
    IN  Upsert(db.payout, a.planId, fresh,
               LAMBDA row : IF route # {} THEN routed @@ money @@ row ELSE money @@ row)

OnSettlementHeld(db, e) ==
    [db EXCEPT
        !.settlementEscrow = InsertOnce(@, e.args.planId,
            [planId |-> e.args.planId, merchant |-> e.args.merchant,
             amount |-> e.args.amount, heldAt |-> e.block.timestamp, state |-> "held"]
            @@ settlementEscrowDefaults),
        !.payout = Upsert(@, e.args.planId,
            [planId |-> e.args.planId, merchant |-> e.args.merchant, token |-> Zero,
             status |-> "escrowed", txHash |-> {e.transaction.hash},
             cohort |-> cohortOf(e.block.timestamp)] @@ At(e) @@ payoutDefaults,
            LAMBDA row : [row EXCEPT !.status = "escrowed"])]
OnShipmentAttested(db, e) ==
    [db EXCEPT !.settlementEscrow = Update(@, e.args.planId,
        LAMBDA row : [row EXCEPT !.attestedAt = {e.block.timestamp},
                                 !.carrierRef = {e.args.carrierRef}, !.state = "attested"])]
\* The release names the route but not the token the money left in.
OnEscrowReleased(db, e) ==
    [db EXCEPT
        !.settlementEscrow = Update(@, e.args.planId,
            LAMBDA row : [row EXCEPT !.releasedAt = {e.block.timestamp},
                                     !.state = "released"]),
        !.payout = Update(@, e.args.planId,
            LAMBDA row : [row EXCEPT !.recipient = {e.args.recipient},
                                     !.domain = {e.args.domain},
                                     !.status = IF e.args.domain = ARC_DOMAIN
                                                  THEN "settled" ELSE "queued"])]
OnEscrowReturned(db, e) ==
    [db EXCEPT
        !.settlementEscrow = Update(@, e.args.planId,
            LAMBDA row : [row EXCEPT !.returnedAt = {e.block.timestamp},
                                     !.state = "returned"]),
        !.payout = Update(@, e.args.planId,
            LAMBDA row : [row EXCEPT !.status = "returned"])]
OnNonAttestation(db, e) ==
    [db EXCEPT !.settlementEscrow = Update(@, e.args.planId,
        LAMBDA row : [row EXCEPT !.nonAttested = TRUE])]

-----------------------------------------------------------------------------
\* origination.ts: the terms, the pool's book and the merchant's standing.
OnLimitAttested(db, e) ==
    [db EXCEPT !.attestation = InsertOnce(@, e.args.sessionId,
        [sessionId |-> e.args.sessionId, band |-> e.args.band,
         attestor |-> e.args.attestor] @@ At(e))]

\* A merchant's row may begin with any of the events that name it.
NewMerchant(e, values) ==
    values @@ [address |-> e.args.merchant, registeredAt |-> e.block.timestamp]
           @@ merchantDefaults
MerchantUpsert(table, e, values, Merge(_)) ==
    Upsert(table, e.args.merchant, NewMerchant(e, values), Merge)

OnOriginationCompleted(db, e) ==
    LET a == e.args
        terms == [merchant |-> a.merchant, principal |-> a.principal, mdr |-> a.mdr,
                  withheld |-> a.withheld]
    IN  [db EXCEPT
            !.origination = Upsert(@, a.planId,
                terms @@ [planId |-> a.planId, cohort |-> cohortOf(e.block.timestamp)] @@ At(e),
                LAMBDA row : terms @@ row),
            !.merchant = MerchantUpsert(@, e,
                [originations |-> 1, principalOriginated |-> a.principal],
                LAMBDA row : [row EXCEPT !.originations = @ + 1,
                                         !.principalOriginated = @ + a.principal]),
            !.payout = recordSettlement(db, e)]

\* A book row belongs to the pool that emitted it; until the plan is fronted
\* it has no merchant.
NewBookEntry(e, values) ==
    values @@ [planId |-> e.args.planId, pool |-> {e.log.address},
               merchant |-> Zero, principal |-> 0] @@ bookEntryDefaults
BookUpsert(table, e, values, Merge(_)) ==
    Upsert(table, e.args.planId, NewBookEntry(e, values), Merge)

OnFronted(db, e) ==
    [db EXCEPT !.bookEntry = InsertOnce(@, e.args.planId,
        [planId |-> e.args.planId, pool |-> {e.log.address}, merchant |-> e.args.merchant,
         principal |-> e.args.principal] @@ bookEntryDefaults)]
OnRecognised(db, e) ==
    [db EXCEPT !.bookEntry = BookUpsert(@, e,
        [recognisedInflow |-> e.args.inflow,
         principalRecovered |-> e.args.principalRecovered,
         incomeEarned |-> e.args.incomeEarned, lastRecognisedAt |-> {e.block.timestamp}],
        LAMBDA row : [row EXCEPT !.recognisedInflow = @ + e.args.inflow,
                                 !.principalRecovered = @ + e.args.principalRecovered,
                                 !.incomeEarned = @ + e.args.incomeEarned,
                                 !.lastRecognisedAt = {e.block.timestamp}])]
OnLossAbsorbed(db, e) ==
    LET total == e.args.fromReserve + e.args.fromJunior + e.args.fromSenior IN
    [db EXCEPT !.bookEntry = BookUpsert(@, e,
        [lossAbsorbed |-> total, fromReserve |-> e.args.fromReserve,
         fromJunior |-> e.args.fromJunior, fromSenior |-> e.args.fromSenior],
        LAMBDA row : [row EXCEPT !.lossAbsorbed = @ + total,
                                 !.fromReserve = @ + e.args.fromReserve,
                                 !.fromJunior = @ + e.args.fromJunior,
                                 !.fromSenior = @ + e.args.fromSenior])]
OnUnmarkedDelinquency(db, e) ==
    [db EXCEPT !.bookEntry = BookUpsert(@, e, [unmarked |-> e.args.unmarked],
        LAMBDA row : [row EXCEPT !.unmarked = e.args.unmarked])]
OnOriginationGated(db, e) ==
    [db EXCEPT !.gateReading = Insert(@, eventId(e),
        [id |-> eventId(e), pool |-> e.log.address, open |-> e.args.open,
         subordinationBps |-> e.args.subordinationBps,
         reserveBps |-> e.args.reserveBps] @@ At(e))]

OnMerchantRegistered(db, e) ==
    [db EXCEPT !.merchant = MerchantUpsert(@, e, [bond |-> e.args.bond],
        LAMBDA row : [row EXCEPT !.registeredAt = e.block.timestamp])]
OnKybAttested(db, e) ==
    [db EXCEPT !.merchant = MerchantUpsert(@, e, [kybVerified |-> e.args.verified],
        LAMBDA row : [row EXCEPT !.kybVerified = e.args.verified])]
OnBondPosted(db, e) ==
    [db EXCEPT !.merchant = MerchantUpsert(@, e, [bond |-> e.args.total],
        LAMBDA row : [row EXCEPT !.bond = e.args.total])]
OnBondWithheld(db, e) ==
    [db EXCEPT !.merchant = MerchantUpsert(@, e,
        [bond |-> e.args.total, withheld |-> e.args.amount],
        LAMBDA row : [row EXCEPT !.bond = e.args.total, !.withheld = @ + e.args.amount])]
OnExposureChanged(db, e) ==
    [db EXCEPT !.merchant = MerchantUpsert(@, e,
        [outstandingFronted |-> e.args.outstanding, requiredBond |-> e.args.requiredBond],
        LAMBDA row : [row EXCEPT !.outstandingFronted = e.args.outstanding,
                                 !.requiredBond = e.args.requiredBond])]

OnFirstPaymentObserved(db, e) ==
    [db EXCEPT !.firstPaymentObservation = InsertOnce(@, e.args.planId,
        [planId |-> e.args.planId, defaulted |-> e.args.defaulted,
         seasoned |-> e.args.seasoned, observer |-> e.args.observer,
         cohort |-> cohortOf(e.block.timestamp)] @@ At(e))]
OnThrottleChanged(db, e) ==
    [db EXCEPT !.throttleReading = Insert(@, eventId(e),
        [id |-> eventId(e), throttleBps |-> e.args.throttleBps, fpdBps |-> e.args.fpdBps,
         cohortSize |-> e.args.cohortSize] @@ At(e))]
OnParameterSet(db, e) ==
    [db EXCEPT !.parameterChange = Insert(@, eventId(e),
        [id |-> eventId(e), key |-> e.args.key, previous |-> e.args.previous,
         value |-> e.args.value] @@ At(e))]

PauseRow(e, corridor) ==
    [id |-> eventId(e), corridor |-> corridor, paused |-> e.args.paused,
     by |-> e.args.by] @@ At(e)
OnGlobalPauseSet(db, e) ==
    [db EXCEPT !.pauseEvent = Insert(@, eventId(e), PauseRow(e, Zero))]
OnCorridorPauseSet(db, e) ==
    [db EXCEPT !.pauseEvent = Insert(@, eventId(e), PauseRow(e, e.args.corridor))]

\* merchant.ts: refunds against the merchant of the origination.
RefundRow(db, e, kind, amount) ==
    [id |-> eventId(e), planId |-> e.args.planId,
     merchant |-> IF e.args.planId \in DOMAIN db.origination
                    THEN db.origination[e.args.planId].merchant ELSE UNKNOWN_MERCHANT,
     amount |-> amount, kind |-> kind] @@ At(e)
OnEscrowRefundCredited(db, e) ==
    [db EXCEPT !.refund = InsertOnce(@, eventId(e), RefundRow(db, e, "refund", e.args.amount))]
OnPlanVoided(db, e) ==
    [db EXCEPT !.refund = InsertOnce(@, eventId(e), RefundRow(db, e, "void", 0))]
OnBondSlashedToReserve(db, e) ==
    [db EXCEPT !.merchant = MerchantUpsert(@, e, [slashedToReserve |-> e.args.amount],
        LAMBDA row : [row EXCEPT !.slashedToReserve = @ + e.args.amount])]
OnSettlementCategoryChanged(db, e) ==
    [db EXCEPT !.merchant = MerchantUpsert(@, e, [settlementCategory |-> e.args.category],
        LAMBDA row : [row EXCEPT !.settlementCategory = e.args.category])]

-----------------------------------------------------------------------------
\* capital.ts: epochs, provisions, lenders and passports.
OnEpochClosed(db, e) ==
    [db EXCEPT !.epoch = InsertOnce(@, <<e.log.address, e.args.epoch>>,
        [pool |-> e.log.address, number |-> e.args.epoch, seniorNav |-> e.args.seniorNav,
         juniorNav |-> e.args.juniorNav, liquidityFeeBps |-> e.args.liquidityFeeBps,
         closedAt |-> e.block.timestamp, blockNumber |-> e.block.number])]

NewProvision(e, values) ==
    values @@ [planId |-> e.args.planId, pool |-> {e.log.address},
               epoch |-> e.args.epoch, updatedAt |-> e.block.timestamp]
           @@ provisionDefaults
ProvisionUpsert(table, e, values, Merge(_)) ==
    Upsert(table, e.args.planId, NewProvision(e, values), Merge)
OnProvisioned(db, e) ==
    [db EXCEPT !.provision = ProvisionUpsert(@, e,
        [raised |-> e.args.amount, outstanding |-> e.args.amount],
        LAMBDA row : [row EXCEPT !.raised = @ + e.args.amount,
                                 !.outstanding = @ + e.args.amount,
                                 !.updatedAt = e.block.timestamp])]
OnProvisionReleased(db, e) ==
    [db EXCEPT !.provision = ProvisionUpsert(@, e, [released |-> e.args.amount],
        LAMBDA row : [row EXCEPT !.released = @ + e.args.amount,
                                 !.outstanding = Less(@, e.args.amount),
                                 !.updatedAt = e.block.timestamp])]

\* A lender's row adds what each request moved to one of its four columns.
PositionUpsert(table, e, column, amount) ==
    LET id == poolPositionId(e.log.address, e.args.tranche, e.args.holder)
        fresh == [id |-> id, pool |-> e.log.address, tranche |-> e.args.tranche,
                  holder |-> e.args.holder, updatedAt |-> e.block.timestamp]
                 @@ lenderPositionDefaults
    IN  Upsert(table, id, [fresh EXCEPT ![column] = amount],
               LAMBDA row : [row EXCEPT ![column] = @ + amount,
                                        !.updatedAt = e.block.timestamp])
OnDepositRequested(db, e) ==
    [db EXCEPT !.lenderPosition = PositionUpsert(@, e, "depositedAssets", e.args.assets)]
OnSharesClaimed(db, e) ==
    [db EXCEPT !.lenderPosition = PositionUpsert(@, e, "claimedShares", e.args.shares)]

TicketRow(e, shares, position, claimed) ==
    [id |-> poolTicketId(e.log.address, e.args.tranche, e.args.holder, e.args.index),
     pool |-> e.log.address, tranche |-> e.args.tranche, holder |-> e.args.holder,
     index |-> e.args.index, shares |-> shares, position |-> position,
     claimedAssets |-> claimed, requestedAt |-> e.block.timestamp]
OnRedeemRequested(db, e) ==
    LET ticket == TicketRow(e, e.args.shares, e.args.position, 0) IN
    [db EXCEPT
        !.redemptionTicket = Insert(@, ticket.id, ticket),
        !.lenderPosition = PositionUpsert(@, e, "redeemedShares", e.args.shares)]
OnQueueFilled(db, e) ==
    [db EXCEPT !.queueFill = Insert(@, eventId(e),
        [id |-> eventId(e), pool |-> e.log.address, tranche |-> e.args.tranche,
         epoch |-> e.args.epoch, shares |-> e.args.shares, assets |-> e.args.assets,
         feeBps |-> e.args.feeBps, filledAt |-> e.block.timestamp])]
OnRedemptionClaimed(db, e) ==
    LET ticket == TicketRow(e, 0, 0, e.args.assets) IN
    [db EXCEPT
        !.redemptionTicket = Upsert(@, ticket.id, ticket,
            LAMBDA row : [row EXCEPT !.claimedAssets = @ + e.args.assets]),
        !.lenderPosition = PositionUpsert(@, e, "redeemedAssets", e.args.assets)]

RecordUpsert(table, e, values) ==
    LET written == values @@ [updatedAt |-> e.block.timestamp] IN
    Upsert(table, e.args.subject, written @@ [subject |-> e.args.subject]
           @@ passportRecordDefaults, LAMBDA row : written @@ row)
MarkRow(e, at) == [id |-> eventId(e), subject |-> e.args.subject, markedAt |-> at]
OnOutcomeNoted(db, e) ==
    [db EXCEPT
        !.passportRecord = RecordUpsert(@, e, [completions |-> e.args.completions,
                                               negativesEver |-> e.args.negativesEver]),
        !.passportMark = IF e.args.clean THEN @
                         ELSE Insert(@, eventId(e), MarkRow(e, e.block.timestamp))]
OnNegativeNoted(db, e) ==
    [db EXCEPT
        !.passportMark = Insert(@, eventId(e), MarkRow(e, e.args.at)),
        !.passportRecord = RecordUpsert(@, e, [negativesEver |-> e.args.negativesEver])]
OnCommitmentWritten(db, e) ==
    [db EXCEPT !.passportRecord = RecordUpsert(@, e,
        [commitment |-> {e.args.commitment}, schemaId |-> {e.args.schemaId},
         version |-> e.args.version])]
OnSaltRotated(db, e) ==
    [db EXCEPT !.passportRecord = Delete(@, e.args.previousSubject)]

ConsentRow(e, granted, validUntil) ==
    [id |-> eventId(e), subject |-> e.args.subject, reader |-> e.args.reader,
     schemaId |-> e.args.schemaId, granted |-> granted, validUntil |-> validUntil,
     at |-> e.block.timestamp]
OnConsentGranted(db, e) ==
    [db EXCEPT !.consentEvent = Insert(@, eventId(e), ConsentRow(e, TRUE, e.args.validUntil))]
OnConsentRevoked(db, e) ==
    [db EXCEPT !.consentEvent = Insert(@, eventId(e), ConsentRow(e, FALSE, 0))]
OnCollected(db, e) ==
    [db EXCEPT !.relayedCollection = Insert(@, eventId(e),
        [id |-> eventId(e), plan |-> e.args.plan, index |-> e.args.index,
         cleared |-> e.args.cleared, reason |-> e.args.reason, at |-> e.block.timestamp])]

-----------------------------------------------------------------------------
\* underwriting.ts, fx.ts and inflow.ts: the second corridor.
recordPledgeEvent(table, e, kind, account, shares) ==
    LET id == logId(e.transaction.hash, e.log.logIndex) IN
    InsertOnce(table, id,
        [id |-> id, kind |-> kind, account |-> account, amount |-> e.args.amount,
         shares |-> shares, txHash |-> e.transaction.hash] @@ At(e))
OnPledged(db, e) ==
    [db EXCEPT
        !.pledgeEvent = recordPledgeEvent(@, e, "pledged", e.args.pledger, e.args.shares),
        !.pledgePosition = Upsert(@, e.args.pledger,
            [id |-> e.args.pledger, totalPledged |-> e.args.amount,
             sharesHeld |-> e.args.shares, updatedAt |-> e.block.timestamp]
            @@ pledgePositionDefaults,
            LAMBDA row : [row EXCEPT !.totalPledged = @ + e.args.amount,
                                     !.sharesHeld = @ + e.args.shares,
                                     !.updatedAt = e.block.timestamp])]
OnReleased(db, e) ==
    [db EXCEPT
        !.pledgeEvent = recordPledgeEvent(@, e, "released", e.args.pledger, e.args.shares),
        !.pledgePosition = Upsert(@, e.args.pledger,
            [id |-> e.args.pledger, totalReleased |-> e.args.amount,
             updatedAt |-> e.block.timestamp] @@ pledgePositionDefaults,
            LAMBDA row : [row EXCEPT !.totalReleased = @ + e.args.amount,
                                     !.sharesHeld = Less(@, e.args.shares),
                                     !.updatedAt = e.block.timestamp])]
OnYieldPaid(db, e) ==
    [db EXCEPT !.pledgeEvent =
        recordPledgeEvent(@, e, "yieldPaid", e.args.from, e.args.totalAssets)]
OnTieredOrigination(db, e) ==
    [db EXCEPT !.tierOrigination = InsertOnce(@, e.args.planId,
        [id |-> e.args.planId, tier |-> e.args.tier, principal |-> e.args.principal,
         txHash |-> e.transaction.hash] @@ At(e))]

fxHeadroom(amountOut, floor) == Less(amountOut, floor)
OnFillGuarded(db, e) ==
    LET id == logId(e.transaction.hash, e.log.logIndex) IN
    [db EXCEPT !.fxFill = InsertOnce(@, id,
        [id |-> id, corridor |-> e.args.corridor, venue |-> e.args.venue,
         amountIn |-> e.args.amountIn, amountOut |-> e.args.amountOut,
         floor |-> e.args.floor, headroom |-> fxHeadroom(e.args.amountOut, e.args.floor),
         txHash |-> e.transaction.hash] @@ At(e))]

Overwrite(table, key, e, values) ==
    LET row == values @@ [id |-> key, blockNumber |-> e.block.number,
                          updatedAt |-> e.block.timestamp]
    IN  Upsert(table, key, row, LAMBDA old : row)
OnPayoutCurrencySet(db, e) ==
    [db EXCEPT !.merchantCurrency =
        Overwrite(@, e.args.merchant, e, [currency |-> e.args.currency])]
OnCurrencyAllowed(db, e) ==
    [db EXCEPT !.currencyAllowance =
        Overwrite(@, e.args.currency, e, [allowed |-> e.args.allowed, by |-> e.args.by])]
OnCorridorSet(db, e) ==
    [db EXCEPT !.corridorWiring =
        Overwrite(@, e.args.token, e,
            [fxRouter |-> e.args.fxRouter, parameters |-> e.args.parameters,
             underwriter |-> e.args.underwriter, setBy |-> e.args.by])]

toMinor6(native) == native \div NativePerMinor
\* Only a tracked recipient's money, and never a block's own reward.
OnTransfer(db, e) ==
    LET id == logId(e.transaction.hash, e.log.logIndex) IN
    IF e.args.to \notin TRACKED \/ e.args.to = e.block.miner THEN db
    ELSE [db EXCEPT !.inflow = InsertOnce(@, id,
            [id |-> id, recipient |-> e.args.to, counterparty |-> e.args.from,
             valueNative |-> e.args.value, valueMinor |-> toMinor6(e.args.value),
             blockNumber |-> e.block.number, blockTimestamp |-> e.block.timestamp,
             txHash |-> e.transaction.hash])]

-----------------------------------------------------------------------------
\* The handler registered for a log; a log with none changes nothing.
Handled(db, e) ==
    CASE e.name = "PlanDeployed" -> OnPlanDeployed(db, e)
      [] e.name = "CheckCleared" -> OnCheckCleared(db, e)
      [] e.name = "CheckBounced" -> OnCheckBounced(db, e)
      [] e.name = "CheckMissed" -> OnCheckMissed(db, e)
      [] e.name = "CheckExpired" -> OnCheckExpired(db, e)
      [] e.name = "PlanStateChanged" -> OnPlanStateChanged(db, e)
      [] e.name = "PlanDelinquent" -> OnPlanDelinquent(db, e)
      [] e.name = "PlanCured" -> OnPlanCured(db, e)
      [] e.name = "PlanRepaid" -> OnPlanRepaid(db, e)
      [] e.name = "PlanChargedOff" -> OnPlanChargedOff(db, e)
      [] e.name = "RefundCredited" /\ e.contract = "InstallmentPlan" ->
            OnPlanRefundCredited(db, e)
      [] e.name = "RefundCredited" /\ e.contract = "RefundEscrow" ->
            OnEscrowRefundCredited(db, e)
      [] e.name = "PaidOut" -> OnPaidOut(db, e)
      [] e.name = "PayoutQueued" -> OnPayoutQueued(db, e)
      [] e.name = "PayoutDispatched" -> OnPayoutDispatched(db, e)
      [] e.name = "SettlementHeld" -> OnSettlementHeld(db, e)
      [] e.name = "ShipmentAttested" -> OnShipmentAttested(db, e)
      [] e.name = "EscrowReleased" -> OnEscrowReleased(db, e)
      [] e.name = "EscrowReturned" -> OnEscrowReturned(db, e)
      [] e.name = "SettlementReturnedForNonAttestation" -> OnNonAttestation(db, e)
      [] e.name = "LimitAttested" -> OnLimitAttested(db, e)
      [] e.name = "OriginationCompleted" -> OnOriginationCompleted(db, e)
      [] e.name = "Fronted" -> OnFronted(db, e)
      [] e.name = "Recognised" -> OnRecognised(db, e)
      [] e.name = "LossAbsorbed" -> OnLossAbsorbed(db, e)
      [] e.name = "UnmarkedDelinquency" -> OnUnmarkedDelinquency(db, e)
      [] e.name = "OriginationGated" -> OnOriginationGated(db, e)
      [] e.name = "MerchantRegistered" -> OnMerchantRegistered(db, e)
      [] e.name = "KybAttested" -> OnKybAttested(db, e)
      [] e.name = "BondPosted" -> OnBondPosted(db, e)
      [] e.name = "BondWithheld" -> OnBondWithheld(db, e)
      [] e.name = "ExposureChanged" -> OnExposureChanged(db, e)
      [] e.name = "FirstPaymentObserved" -> OnFirstPaymentObserved(db, e)
      [] e.name = "ThrottleChanged" -> OnThrottleChanged(db, e)
      [] e.name = "ParameterSet" -> OnParameterSet(db, e)
      [] e.name = "GlobalPauseSet" -> OnGlobalPauseSet(db, e)
      [] e.name = "CorridorPauseSet" -> OnCorridorPauseSet(db, e)
      [] e.name = "PlanVoided" -> OnPlanVoided(db, e)
      [] e.name = "BondSlashedToReserve" -> OnBondSlashedToReserve(db, e)
      [] e.name = "SettlementCategoryChanged" -> OnSettlementCategoryChanged(db, e)
      [] e.name = "EpochClosed" -> OnEpochClosed(db, e)
      [] e.name = "Provisioned" -> OnProvisioned(db, e)
      [] e.name = "ProvisionReleased" -> OnProvisionReleased(db, e)
      [] e.name = "DepositRequested" -> OnDepositRequested(db, e)
      [] e.name = "SharesClaimed" -> OnSharesClaimed(db, e)
      [] e.name = "RedeemRequested" -> OnRedeemRequested(db, e)
      [] e.name = "QueueFilled" -> OnQueueFilled(db, e)
      [] e.name = "RedemptionClaimed" -> OnRedemptionClaimed(db, e)
      [] e.name = "OutcomeNoted" -> OnOutcomeNoted(db, e)
      [] e.name = "NegativeNoted" -> OnNegativeNoted(db, e)
      [] e.name = "CommitmentWritten" -> OnCommitmentWritten(db, e)
      [] e.name = "SaltRotated" -> OnSaltRotated(db, e)
      [] e.name = "ConsentGranted" -> OnConsentGranted(db, e)
      [] e.name = "ConsentRevoked" -> OnConsentRevoked(db, e)
      [] e.name = "Collected" -> OnCollected(db, e)
      [] e.name = "Pledged" -> OnPledged(db, e)
      [] e.name = "Released" -> OnReleased(db, e)
      [] e.name = "YieldPaid" -> OnYieldPaid(db, e)
      [] e.name = "TieredOrigination" -> OnTieredOrigination(db, e)
      [] e.name = "FillGuarded" -> OnFillGuarded(db, e)
      [] e.name = "PayoutCurrencySet" -> OnPayoutCurrencySet(db, e)
      [] e.name = "CurrencyAllowed" -> OnCurrencyAllowed(db, e)
      [] e.name = "CorridorSet" -> OnCorridorSet(db, e)
      [] e.name = "Transfer" -> OnTransfer(db, e)
      [] OTHER -> db
=============================================================================
