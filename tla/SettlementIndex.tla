-------------------------- MODULE SettlementIndex --------------------------
(***************************************************************************)
(* Where a merchant's money went: originations settle through the payout   *)
(* router or the settlement escrow, queued routes are dispatched as burns, *)
(* the indexer stitches the router's planless logs to plans, and a poller  *)
(* reads the burns from the index and asks Circle for each attestation.    *)
(* Beside the logs the module keeps what really became of each settlement. *)
(***************************************************************************)
EXTENDS IndexerCore, IndexerApi

CONSTANTS Plans, Merchants, Tokens, Domains, Withheld,
          Router, Escrow, Checkout, Pool, Factory, Registry, Refunds, Attestor,
          PRINCIPAL, MDR,     \* one size of sale
          BurnsPerBlock,      \* bound: routes dispatched in one block
          PageLimit,          \* the limit the poller passes, or {}
          PollBound           \* bound: answers recorded for one burn

VARIABLES settled,       \* what became of each originated plan's settlement
          signed,        \* burns Circle has attested
          cursor,        \* the block the poller last swept past, or {}
          outstanding,   \* the burns of its last sweep it has still to ask about
          complete,      \* burns the host has recorded a signed message for
          attestation_   \* payout_attestation rows by plan and domain

chainSide == <<settled, signed>>
poller == <<cursor, outstanding, complete, attestation_>>

RouteOf(s) == [token |-> s.token, recipient |-> s.merchant, domain |-> s.domain]
OnRoute(route) ==
    {p \in DOMAIN settled : RouteOf(settled[p]) = route /\ settled[p].stage = "queued"}
QueuedAmount(route) == MapThenSumSet(LAMBDA p : settled[p].net, OnRoute(route))
Routes == {RouteOf(settled[p]) : p \in DOMAIN settled}

-----------------------------------------------------------------------------
\* The logs of an origination, in the order CheckoutRouter's call emits them:
\* the pool and the factory first, then the settlement, the origination last.
Adapter(route, name, amount) == Raw("PayoutRouter", Router, name, route @@ [amount |-> amount])
Payment(s) ==
    Adapter(RouteOf(s), IF s.domain = ARC_DOMAIN THEN "PaidOut" ELSE "PayoutQueued", s.net)

OriginationLogs(p, s, held) ==
    <<Raw("TranchedCreditPool", Pool, "Fronted",
          [planId |-> p, merchant |-> s.merchant, principal |-> PRINCIPAL, mdr |-> MDR]),
      IF held
        THEN Raw("SettlementEscrow", Escrow, "SettlementHeld",
                 [planId |-> p, merchant |-> s.merchant, amount |-> s.net])
        ELSE Payment(s)>>
    \o (IF s.withheld = 0 THEN <<>>
        ELSE <<Raw("MerchantRegistry", Registry, "BondWithheld",
                   [merchant |-> s.merchant, planId |-> p, amount |-> s.withheld,
                    total |-> s.withheld])>>)
    \o <<Raw("MerchantRegistry", Registry, "ExposureChanged",
             [merchant |-> s.merchant, outstanding |-> PRINCIPAL, requiredBond |-> 0]),
         Raw("CheckoutRouter", Checkout, "LimitAttested",
             [sessionId |-> p, band |-> 1, attestor |-> Attestor]),
         Raw("TieredUnderwriter", Checkout, "TieredOrigination",
             [planId |-> p, tier |-> 0, principal |-> PRINCIPAL]),
         Raw("CheckoutRouter", Checkout, "OriginationCompleted",
             [planId |-> p, merchant |-> s.merchant, principal |-> PRINCIPAL,
              mdr |-> MDR, withheld |-> s.withheld])>>

Settlement(m, t, d, w, held) ==
    [merchant |-> m, token |-> t, domain |-> d, withheld |-> w,
     net |-> netOf(PRINCIPAL, MDR, w), escrow |-> held, burn |-> {},
     stage |-> IF held THEN "held" ELSE IF d = ARC_DOMAIN THEN "settled" ELSE "queued"]

Settlements ==
    {Settlement(m, t, d, w, h) :
        m \in Merchants, t \in Tokens, d \in Domains, w \in Withheld, h \in BOOLEAN}

Originate(p) ==
    /\ p \notin DOMAIN settled
    /\ \E s \in Settlements :
        /\ Transaction(Checkout, OriginationLogs(p, s, s.escrow), <<>>)
        /\ settled' = (p :> s) @@ settled
    /\ UNCHANGED <<indexer, signed, poller>>

\* Two sales in one transaction, as a batching caller of the router makes them.
OriginateBoth(p, q) ==
    /\ {p, q} \cap DOMAIN settled = {}
    /\ p # q
    /\ \E s, t \in Settlements :
        /\ Transaction(Checkout, OriginationLogs(p, s, s.escrow)
                                 \o OriginationLogs(q, t, t.escrow), <<>>)
        /\ settled' = (p :> s) @@ (q :> t) @@ settled
    /\ UNCHANGED <<indexer, signed, poller>>

\* Anybody may send a route's queue on its way: one burn for all it holds.
Dispatch(routes) ==
    /\ routes # {}
    /\ Cardinality(routes) <= BurnsPerBlock
    /\ \A route \in routes : QueuedAmount(route) > 0
    /\ LET order == SetToSeq(routes)
       IN  Transaction(Router,
             [k \in DOMAIN order |->
                 Adapter(order[k], "PayoutDispatched", QueuedAmount(order[k]))], <<>>)
    /\ settled' = [p \in DOMAIN settled |->
                     IF \E route \in routes : p \in OnRoute(route)
                       THEN [settled[p] EXCEPT !.stage = "dispatched",
                                               !.burn = {blockNumber + 1}]
                       ELSE settled[p]]
    /\ UNCHANGED <<indexer, signed, poller>>

EscrowCall(p, raws, stage) ==
    /\ Transaction(Escrow, raws, <<>>)
    /\ settled' = [settled EXCEPT ![p].stage = stage]
    /\ UNCHANGED <<indexer, signed, poller>>

AttestShipment(p) ==
    /\ settled[p].stage = "held"
    /\ EscrowCall(p, <<Raw("SettlementEscrow", Escrow, "ShipmentAttested",
                           [planId |-> p, carrierRef |-> Attestor])>>, "attested")

\* The escrow pays through the router, then says where the money went.
Release(p) ==
    LET s == settled[p] IN
    /\ s.stage = "attested"
    /\ EscrowCall(p,
         <<Payment(s),
           Raw("SettlementEscrow", Escrow, "EscrowReleased",
               [planId |-> p, recipient |-> s.merchant, domain |-> s.domain,
                amount |-> s.net])>>,
         IF s.domain = ARC_DOMAIN THEN "settled" ELSE "queued")

ReturnUnshipped(p) ==
    /\ settled[p].stage = "held"
    /\ EscrowCall(p,
         <<Raw("SettlementEscrow", Escrow, "EscrowReturned",
               [planId |-> p, amount |-> settled[p].net]),
           Raw("SettlementEscrow", Escrow, "SettlementReturnedForNonAttestation",
               [planId |-> p, merchant |-> settled[p].merchant, amount |-> settled[p].net])>>,
         "returned")

\* A refund, or a void, is written by the refund escrow in a call of its own.
RefundOrVoid(p) ==
    /\ \/ Transaction(Refunds, <<Raw("RefundEscrow", Refunds, "RefundCredited",
                                     [planId |-> p, amount |-> 1])>>, <<>>)
       \/ Transaction(Refunds, <<Raw("RefundEscrow", Refunds, "PlanVoided",
                                     [planId |-> p])>>, <<>>)
    /\ UNCHANGED <<indexer, chainSide, poller>>

-----------------------------------------------------------------------------
\* cctp.ts: the sweep over the index, and one question to Circle per burn.
isDone(dispatch) == dispatch.id \in complete

\* Mutant of DonePrefix: a finished burn counts whatever came before it.
DoneAnywhere(found) == {k \in DOMAIN found : isDone(found[k])}

\* The prefix of finished burns the cursor may pass.
DonePrefix(found) ==
    {k \in DOMAIN found : \A j \in 1..k : isDone(found[j])}

\* The poller's work is the index's own answer to its route.
indexerPendingDispatches(after) ==
    dispatchesRoute(tables,
        [after |-> after, limit |-> PageLimit, malformed |-> {}]).dispatches

pollDispatched ==
    LET found == indexerPendingDispatches(cursor)
        done == DonePrefix(found)
    IN  /\ outstanding' = {found[k] : k \in {j \in DOMAIN found : ~isDone(found[j])}}
        /\ cursor' = IF done = {} THEN cursor ELSE {found[Max(done)].blockNumber}
        /\ <<outstanding', cursor'>> # <<outstanding, cursor>>
        /\ UNCHANGED <<chain, indexer, chainSide, complete, attestation_>>

\* Circle signs a burn some time after it landed, and answers for a transaction
\* with its burns in order.
Burns(txHash) ==
    SelectSeq(log, LAMBDA e : e.name = "PayoutDispatched" /\ e.transaction.hash = txHash)

Sign ==
    /\ \E k \in DOMAIN log :
        /\ log[k].name = "PayoutDispatched"
        /\ eventId(log[k]) \notin signed
        /\ signed' = signed \cup {eventId(log[k])}
    /\ UNCHANGED <<chain, indexer, settled, poller>>

\* The first message of the transaction once it is complete, or nothing; an HTML
\* body or an error throws and leaves everything as it was.
fetchAttestation(txHash) == {eventId(Burns(txHash)[1])} \cap signed

One(rows) == CHOOSE r \in rows : TRUE

PayoutAttestation ==
    [txHash : Nat, status : {"pending", "complete"}, message : SUBSET EventId,
     attempts : 1 .. PollBound]

\* The row after one more poll: what an empty answer finds is kept.
notePoll(row, txHash, found) ==
    [txHash |-> txHash, status |-> IF found = {} THEN "pending" ELSE "complete",
     message |-> IF found = {} /\ row # {} THEN One(row).message ELSE found,
     attempts |-> IF row = {} THEN 1 ELSE One(row).attempts + 1]

\* The plans the index shows on a burn.
PlansOn(dispatch) ==
    {p \in DOMAIN tables.payout :
        /\ tables.payout[p].dispatchTxHash = {dispatch.txHash}
        /\ tables.payout[p].token = dispatch.token
        /\ tables.payout[p].recipient = {dispatch.recipient}
        /\ tables.payout[p].domain = {dispatch.domain}}

RowFor(key) == IF key \in DOMAIN attestation_ THEN {attestation_[key]} ELSE {}

Ask ==
    \E dispatch \in outstanding :
        LET found == fetchAttestation(dispatch.txHash)
            polled == {<<p, dispatch.domain>> : p \in PlansOn(dispatch)}
        IN  /\ \A key \in polled : \A row \in RowFor(key) : row.attempts < PollBound
            /\ attestation_' = [key \in DOMAIN attestation_ \cup polled |->
                   IF key \in polled THEN notePoll(RowFor(key), dispatch.txHash, found)
                   ELSE attestation_[key]]
            /\ complete' = IF found = {} THEN complete ELSE complete \cup {dispatch.id}
            /\ outstanding' = outstanding \ {dispatch}
            /\ UNCHANGED <<chain, indexer, chainSide, cursor>>

\* What the merchant is shown, to carry to the other chain.
attestationFor(p, domain) == RowFor(<<p, domain>>)

-----------------------------------------------------------------------------
SettlementInit ==
    /\ IndexerInit
    /\ settled = NoRow /\ signed = {}
    /\ cursor = {} /\ outstanding = {} /\ complete = {} /\ attestation_ = NoRow

ChainStep ==
    \/ \E p \in Plans : Originate(p)
    \/ \E p, q \in Plans : OriginateBoth(p, q)
    \/ \E routes \in SUBSET Routes : Dispatch(routes)
    \/ \E p \in DOMAIN settled :
        AttestShipment(p) \/ Release(p) \/ ReturnUnshipped(p) \/ RefundOrVoid(p)

HandleLog == Handle /\ UNCHANGED <<chainSide, poller>>

SettlementNext == ChainStep \/ HandleLog \/ pollDispatched \/ Sign \/ Ask

settlementVars == <<log, blockNumber, indexer, chainSide, poller>>
SettlementSpec == SettlementInit /\ [][SettlementNext]_settlementVars

-----------------------------------------------------------------------------
PayoutStatus(s) ==
    CASE s.stage \in {"held", "attested"} -> "escrowed"
      [] s.stage = "returned" -> "returned"
      [] OTHER -> s.stage

Shown(p) == tables.payout[p]

\* A caught-up index shows every settlement made at origination where and as
\* it really is, though the router's logs name no plan: right status, right
\* route, right burn, with any number of plans sharing a block or a route.
SettlementsFollowTheMoney ==
    CaughtUp /\ ~halted => \A p \in DOMAIN settled :
        LET s == settled[p] IN
        ~s.escrow => /\ Shown(p).status = s.stage
                     /\ Shown(p).token = s.token
                     /\ Shown(p).recipient = {s.merchant} /\ Shown(p).domain = {s.domain}
                     /\ Shown(p).dispatchTxHash = s.burn

\* Held settlements are shown held, and leave the escrow with the chain: never
\* paid by a neighbour's log, in the same block or on the same route.
HeldIsShownHeld ==
    CaughtUp /\ ~halted => \A p \in DOMAIN settled :
        settled[p].escrow => \/ Shown(p).status = PayoutStatus(settled[p])
                             \/ settled[p].stage = "dispatched" /\ Shown(p).status = "queued"

\* A refund is against the merchant that made the sale, whichever plan it is.
RefundsNameTheirMerchant ==
    \A id \in DOMAIN tables.refund :
        tables.refund[id].merchant = settled[tables.refund[id].planId].merchant

\* A merchant's statement has each of its sales once, newest first, under exactly one
\* of the statuses the route filters by, and its columns add up to the sale.
StatementsAreWhole ==
    CaughtUp /\ ~halted => \A m \in Merchants :
        LET Asked(status) == settlementsRoute(tables, <<>>,
                [merchant |-> m, status |-> status, from |-> {}, to |-> {}, limit |-> {},
                 malformed |-> {}]).settlements
            all == Asked({})
        IN  /\ {all[k].planId : k \in DOMAIN all} = {p \in DOMAIN settled : settled[p].merchant = m}
            /\ \A j, k \in DOMAIN all : j < k =>
                  all[j].planId # all[k].planId /\ all[j].blockNumber >= all[k].blockNumber
            /\ Len(all) = MapThenSumSet(LAMBDA s : Len(Asked({s})), STATUSES)
            /\ \A k \in DOMAIN all : all[k].gross = all[k].mdr + all[k].withheld + all[k].net

\* A payout's row and a refund's row follow the money, and nothing else.
PayoutsFollowTheMoney ==
    /\ SettlementsFollowTheMoney /\ HeldIsShownHeld /\ RefundsNameTheirMerchant
    /\ StatementsAreWhole

\* The cursor leaves no block behind it with a burn still owed, whatever order
\* Circle signs in (pollDispatched).
EarlierBurnsAreDone ==
    /\ \A row \in RowsOf(tables.payoutDispatch) :
          row.kind = "dispatched" /\ (\E bound \in cursor : row.blockNumber < bound)
              => isDone(row)
    /\ \A row \in RowsOf(attestation_) :
          row \in PayoutAttestation /\ (row.status = "complete" => row.message \subseteq signed)

-----------------------------------------------------------------------------
(* What the documentation says and the code does not do. *)

\* cctp.ts: "Advancing past an outstanding one would mean never seeing it again,
\* so a single stuck attestation holds the cursor": every burn the cursor's
\* sweeps leave out has its attestation.
NoBurnIsAbandoned ==
    \A row \in RowsOf(tables.payoutDispatch) :
        row.kind = "dispatched" /\ (\E bound \in cursor : row.blockNumber <= bound)
            => isDone(row)

\* cctp.ts: "The burn. The only join to Circle's ledger": the message a plan's
\* merchant is shown is the one that pays that plan's route.
MessagesPayTheirPlan ==
    \A p \in DOMAIN settled : \A row \in attestationFor(p, settled[p].domain) :
        \A id \in row.message : \A e \in {log[k] : k \in DOMAIN log} :
            eventId(e) = id =>
                RouteOf(settled[p]) = [token |-> e.args.token, recipient |-> e.args.recipient,
                                       domain |-> e.args.domain]

\* payout.ts: "The burn went out, and every plan waiting on that route is now
\* waiting on Circle", the ones the escrow released among them.
ReleasedAreClosedOut ==
    CaughtUp /\ ~halted => \A p \in DOMAIN settled :
        settled[p].stage = "dispatched" => Shown(p).status = "dispatched"
=============================================================================
