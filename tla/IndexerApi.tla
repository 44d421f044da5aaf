----------------------------- MODULE IndexerApi -----------------------------
(***************************************************************************)
(* What the indexer serves and how it reads: the two routes of its API,    *)
(* the derivations the dashboards draw from its tables, and the transport  *)
(* it reads the chain over.                                                *)
(***************************************************************************)
EXTENDS IndexerHandlers, Sequences, SequencesExt

CONSTANTS ARC_NATIVE_TRANSFER_EMITTER   \* the chain's own emitter of native transfers

-----------------------------------------------------------------------------
\* reconciliation.ts: a merchant's settlements, joined to escrow, refunds and
\* the operator's external references.  An optional filter is a set.
Meets(filter, Accepts(_)) == \A bound \in filter : Accepts(bound)
Capped(limit, fallback, ceiling) ==
    IF limit = {} THEN fallback
    ELSE LET asked == CHOOSE n \in limit : TRUE IN IF asked < ceiling THEN asked ELSE ceiling
Page(seq, n) == SubSeq(seq, 1, IF n < Len(seq) THEN n ELSE Len(seq))
RowsOf(table) == {table[key] : key \in DOMAIN table}
OfPlan(table, planId, Column(_)) ==
    IF planId \in DOMAIN table THEN {Column(table[planId])} ELSE {}

settlementsQuery(db, params) ==
    {row \in RowsOf(db.payout) :
        /\ row.merchant = params.merchant
        /\ Meets(params.from, LAMBDA bound : row.blockNumber >= bound)
        /\ Meets(params.to, LAMBDA bound : row.blockNumber <= bound)
        /\ Meets(params.status, LAMBDA status : row.status = status)}

SettlementView(db, refs, row) ==
    [planId |-> row.planId, externalId |-> OfPlan(refs, row.planId, LAMBDA ref : ref),
     gross |-> row.gross, mdr |-> row.mdr, withheld |-> row.withheld, net |-> row.net,
     refundedAmount |-> MapThenSumSet(LAMBDA r : r.amount,
        {r \in RowsOf(db.refund) : r.planId = row.planId}),
     payoutDomain |-> row.domain, payoutStatus |-> row.status,
     escrowState |-> OfPlan(db.settlementEscrow, row.planId, LAMBDA held : held.state),
     txHash |-> row.txHash, dispatchTxHash |-> row.dispatchTxHash,
     blockNumber |-> row.blockNumber, timestamp |-> row.timestamp]

\* Newest block first; rows of one block in some fixed order of their plans.
settlementsFor(db, refs, params) ==
    LET rows == SetToSortSeq(settlementsQuery(db, params),
                             LAMBDA a, b : a.blockNumber > b.blockNumber)
    IN  Page([k \in DOMAIN rows |-> SettlementView(db, refs, rows[k])],
             Capped(params.limit, 200, 1000))

\* Every burn after a block, oldest first: a page of them.
pendingDispatches(db, after, limit) ==
    LET found == {row \in RowsOf(db.payoutDispatch) :
                    /\ row.kind = "dispatched"
                    /\ Meets(after, LAMBDA bound : row.blockNumber > bound)}
    IN  Page(SetToSortSeq(found, LAMBDA a, b :
                \/ a.blockNumber < b.blockNumber
                \/ a.blockNumber = b.blockNumber /\ a.logIndex < b.logIndex),
             Capped(limit, 100, 500))

\* api/index.ts: a request names the parameters that do not parse, a merchant
\* that is no address or a block that is no number.
STATUSES == {"settled", "queued", "dispatched", "escrowed", "returned"}
BadRequest(request) == request.malformed # {}
settlementsRoute(db, refs, request) ==
    IF BadRequest(request) \/ ~(request.status \subseteq STATUSES)
      THEN [code |-> 400, settlements |-> <<>>]
      ELSE [code |-> 200, settlements |-> settlementsFor(db, refs, request)]
dispatchesRoute(db, request) ==
    IF BadRequest(request) THEN [code |-> 400, dispatches |-> <<>>]
    ELSE [code |-> 200, dispatches |-> pendingDispatches(db, request.after, request.limit)]

-----------------------------------------------------------------------------
\* corridor.ts: the outages of a corridor, from its pauses in order.  A trip
\* while it is already shut is the same outage; an open one has no end.
Shut(windows, corridor) ==
    {k \in DOMAIN windows : windows[k].corridor = corridor /\ windows[k].to = {}}
\* Mutant of AfterReading: a trip while it is shut is another outage.
AfterReadingEveryTrip(windows, reading) ==
    IF reading.paused
      THEN Append(windows, [corridor |-> reading.corridor, from |-> reading.timestamp,
                            to |-> {}])
      ELSE [k \in DOMAIN windows |->
              IF k \in Shut(windows, reading.corridor)
                THEN [windows[k] EXCEPT !.to = {reading.timestamp}] ELSE windows[k]]

AfterReading(windows, reading) ==
    LET open == Shut(windows, reading.corridor) IN
    IF reading.paused
      THEN IF open # {} THEN windows
           ELSE Append(windows, [corridor |-> reading.corridor,
                                 from |-> reading.timestamp, to |-> {}])
      ELSE [k \in DOMAIN windows |->
              IF k \in open THEN [windows[k] EXCEPT !.to = {reading.timestamp}]
              ELSE windows[k]]
corridorPauseWindows(readings) == FoldLeft(AfterReading, <<>>, readings)

\* pools.ts: the pools, tranches and epochs that filled at more than one fee.
FillKey(fill) == <<fill.pool, fill.tranche, fill.epoch>>
nonUniformFills(fills) ==
    {FillKey(fill) : fill \in
        {f \in fills : \E g \in fills : FillKey(g) = FillKey(f) /\ g.feeBps # f.feeBps}}

-----------------------------------------------------------------------------
\* transport.ts: ranges of at most maxRange blocks, from the first block to the last.
chunkBlockRange(fromBlock, toBlock, maxRange) ==
    IF toBlock < fromBlock THEN <<>>
    ELSE [k \in 1..((toBlock - fromBlock) \div maxRange + 1) |->
            LET start == fromBlock + (k - 1) * maxRange
                end == start + (maxRange - 1)
            IN  [fromBlock |-> start, toBlock |-> IF end > toBlock THEN toBlock ELSE end]]

\* A backfill asks for every block of its range once, and never for more blocks
\* at a time than the endpoint answers for.
RangesCoverTheSweep ==
    \A fromBlock, toBlock \in 0..6, maxRange \in 1..4 :
        LET chunks == chunkBlockRange(fromBlock, toBlock, maxRange)
            Asked(k) == chunks[k].fromBlock..chunks[k].toBlock
        IN  /\ \A k \in DOMAIN chunks : Cardinality(Asked(k)) \in 1..maxRange
            /\ UNION {Asked(k) : k \in DOMAIN chunks} = fromBlock..toBlock
            /\ \A j, k \in DOMAIN chunks : j # k => Asked(j) \cap Asked(k) = {}

-----------------------------------------------------------------------------
\* ponder.config.ts: the addresses a source is watched at.  env maps a
\* variable to a set of at most one value; an unset one watches Zero, from
\* now on instead of from the deployment's first block.
Env(env, name) == IF name \in DOMAIN env THEN env[name] ELSE {}
at(env, name) == Env(env, name) \cup (IF Env(env, name) = {} THEN {Zero} ELSE {})
atAll(env, names) ==
    LET set == UNION {Env(env, name) : name \in names} \ {Zero} IN
    IF set = {} THEN {Zero} ELSE set
watch(env, name) ==
    [address |-> at(env, name), fromDeployment |-> Env(env, name) # {}]
watchFixed(env, name, fixed) ==
    [address |-> {fixed}, fromDeployment |-> Env(env, name) # {}]
watchAll(env, names) ==
    [address |-> atAll(env, names),
     fromDeployment |-> \E name \in names : Env(env, name) # {}]

Sources(env) ==
    [PlanFactory |-> watch(env, "PLAZO_PLAN_FACTORY_ADDRESS"),
     CheckoutRouter |-> watchAll(env, {"PLAZO_CHECKOUT_ROUTER_ADDRESS",
                                       "PLAZO_CHECKOUT_ROUTER_ADDRESS_LEGACY",
                                       "PLAZO_CHECKOUT_ROUTER_ADDRESS_LEGACY2"}),
     TranchedCreditPool |-> watchAll(env, {"PLAZO_CREDIT_POOL_ADDRESS",
                                           "PLAZO_EURC_POOL_ADDRESS"}),
     PlazoPassport |-> watch(env, "PLAZO_PASSPORT_ADDRESS"),
     AttestationSchemaRegistry |-> watch(env, "PLAZO_SCHEMAS_ADDRESS"),
     RelayerGate |-> watch(env, "PLAZO_RELAYER_ADDRESS"),
     PoolRegistry |-> watch(env, "PLAZO_POOL_REGISTRY_ADDRESS"),
     MerchantRegistry |-> watch(env, "PLAZO_MERCHANT_REGISTRY_ADDRESS"),
     ReceivableToken |-> watch(env, "PLAZO_RECEIVABLE_ADDRESS"),
     Tier0Underwriter |-> watch(env, "PLAZO_TIER0_ADDRESS"),
     FirstPaymentDefaultSwitch |-> watch(env, "PLAZO_KILL_SWITCH_ADDRESS"),
     ParameterRegistry |-> watch(env, "PLAZO_PARAMETERS_ADDRESS"),
     OriginationPause |-> watch(env, "PLAZO_PAUSE_ADDRESS"),
     PayoutRouter |-> watch(env, "PLAZO_PAYOUT_ROUTER_ADDRESS"),
     RefundEscrow |-> watch(env, "PLAZO_REFUND_ESCROW_ADDRESS"),
     SettlementEscrow |-> watch(env, "PLAZO_SETTLEMENT_ESCROW_ADDRESS"),
     NativeTransferEmitter |-> watchFixed(env, "PLAZO_INFLOW_START_BLOCK",
                                         ARC_NATIVE_TRANSFER_EMITTER),
     FxDeviationGuard |-> watch(env, "PLAZO_FX_GUARD_ADDRESS"),
     PledgeVault |-> watch(env, "PLAZO_PLEDGE_VAULT_ADDRESS"),
     TieredUnderwriter |-> watch(env, "PLAZO_TIERED_UNDERWRITER_ADDRESS"),
     MerchantCurrencyRegistry |-> watch(env, "PLAZO_MERCHANT_CURRENCY_ADDRESS")]

=============================================================================
