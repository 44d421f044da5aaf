--------------------------- MODULE IndexerTables ---------------------------
(***************************************************************************)
(* services/indexer/ponder.schema.ts: the tables the surfaces read.  A     *)
(* table is a function from its primary key to its row; a row type is the  *)
(* record set of its columns, and beside it stand the defaults the schema  *)
(* gives.  A nullable column holds a set of at most one value.  Addresses, *)
(* hashes of terms and the like are members of Hex; a transaction hash is  *)
(* its number, and a composite text id the tuple it was printed from.      *)
(***************************************************************************)
EXTENDS Naturals, TLC

CONSTANTS Hex,      \* every address, plan id and other opaque hex value
          Zero,     \* the zero address and the zero hash
          Thrown    \* what a write that the store refuses leaves of a table

Opt(S) == SUBSET S
EventId == Nat \X Nat
PositionId == Hex \X Nat \X Hex
TicketId == Hex \X Nat \X Hex \X Nat

-----------------------------------------------------------------------------
\* The store's writes: a plain insert of a key that is there, and an update
\* of one that is not, throw; the other forms never do.
Insert(table, key, row) ==
    IF key \in DOMAIN table THEN Thrown ELSE (key :> row) @@ table
InsertOnce(table, key, row) ==
    IF key \in DOMAIN table THEN table ELSE (key :> row) @@ table
Upsert(table, key, row, Merge(_)) ==
    IF key \in DOMAIN table THEN [table EXCEPT ![key] = Merge(@)] ELSE (key :> row) @@ table
Update(table, key, Set(_)) ==
    IF key \in DOMAIN table THEN [table EXCEPT ![key] = Set(@)] ELSE Thrown
Delete(table, key) == [k \in DOMAIN table \ {key} |-> table[k]]

-----------------------------------------------------------------------------
\* Plans and their strips.
plan == [planId : Hex, address : Hex, implementation : Hex, state : Nat,
         installmentCount : Nat, principal : Nat, outstandingPrincipal : Nat,
         totalCollected : Nat, feesOutstanding : Nat, refundCredit : Nat, lateFee : Nat,
         originatedAtBlock : Nat, originatedAt : Nat, cohort : Nat,
         chargedOff : BOOLEAN, repaidAt : Opt(Nat)]
planDefaults == [state |-> 0, totalCollected |-> 0, feesOutstanding |-> 0,
                 refundCredit |-> 0, chargedOff |-> FALSE, repaidAt |-> {}]

installment == [planId : Hex, index : Nat, status : Nat, amount : Nat, dueDate : Nat,
                graceEndsAt : Nat, clearedAt : Opt(Nat), keeper : Opt(Hex),
                bounceReason : Nat, bounceCount : Nat, markedBy : Opt(Hex),
                markedAt : Opt(Nat)]
installmentDefaults == [status |-> 0, clearedAt |-> {}, keeper |-> {}, bounceReason |-> 0,
                        bounceCount |-> 0, markedBy |-> {}, markedAt |-> {}]

collectionAttempt == [id : EventId, planId : Hex, installmentIndex : Nat, keeper : Hex,
                      succeeded : BOOLEAN, bounceReason : Nat, amount : Nat,
                      blockNumber : Nat, timestamp : Nat]
planStateTransition == [id : EventId, planId : Hex, fromState : Nat, toState : Nat,
                        blockNumber : Nat, timestamp : Nat]
keeperStats == [keeper : Hex, collections : Nat, marks : Nat, bountyEarned : Nat,
                firstSeenAt : Nat, lastSeenAt : Nat, isOperator : BOOLEAN]

-----------------------------------------------------------------------------
\* Origination, the pool's book and the merchant's standing.
origination == [planId : Hex, merchant : Hex, principal : Nat, mdr : Nat, withheld : Nat,
                blockNumber : Nat, timestamp : Nat, cohort : Nat]
attestation == [sessionId : Hex, band : Nat, attestor : Hex, blockNumber : Nat,
                timestamp : Nat]

merchant == [address : Hex, kybVerified : BOOLEAN, bond : Nat, withheld : Nat,
             outstandingFronted : Nat, requiredBond : Nat, registeredAt : Nat,
             originations : Nat, principalOriginated : Nat, settlementCategory : Nat,
             slashedToReserve : Nat]
merchantDefaults == [kybVerified |-> FALSE, bond |-> 0, withheld |-> 0,
                     outstandingFronted |-> 0, requiredBond |-> 0, originations |-> 0,
                     principalOriginated |-> 0, settlementCategory |-> 0,
                     slashedToReserve |-> 0]

bookEntry == [planId : Hex, pool : Opt(Hex), merchant : Hex, principal : Nat,
              recognisedInflow : Nat, principalRecovered : Nat, incomeEarned : Nat,
              lossAbsorbed : Nat, fromReserve : Nat, fromJunior : Nat, fromSenior : Nat,
              unmarked : BOOLEAN, lastRecognisedAt : Opt(Nat)]
bookEntryDefaults == [recognisedInflow |-> 0, principalRecovered |-> 0, incomeEarned |-> 0,
                      lossAbsorbed |-> 0, fromReserve |-> 0, fromJunior |-> 0,
                      fromSenior |-> 0, unmarked |-> FALSE, lastRecognisedAt |-> {}]

gateReading == [id : EventId, pool : Hex, open : BOOLEAN, subordinationBps : Nat,
                reserveBps : Nat, blockNumber : Nat, timestamp : Nat]
firstPaymentObservation == [planId : Hex, defaulted : BOOLEAN, seasoned : BOOLEAN,
                            observer : Hex, blockNumber : Nat, timestamp : Nat, cohort : Nat]
throttleReading == [id : EventId, throttleBps : Nat, fpdBps : Nat, cohortSize : Nat,
                    blockNumber : Nat, timestamp : Nat]
parameterChange == [id : EventId, key : Hex, previous : Nat, value : Nat,
                    blockNumber : Nat, timestamp : Nat]
pauseEvent == [id : EventId, corridor : Hex, paused : BOOLEAN, by : Hex,
               blockNumber : Nat, timestamp : Nat]

-----------------------------------------------------------------------------
\* What a merchant was paid, where, and whether it left.
payout == [planId : Hex, merchant : Hex, token : Hex, recipient : Opt(Hex),
           domain : Opt(Nat), gross : Nat, mdr : Nat, withheld : Nat, net : Nat,
           status : {"settled", "queued", "dispatched", "escrowed", "returned"},
           txHash : Opt(Nat), dispatchTxHash : Opt(Nat), blockNumber : Nat,
           timestamp : Nat, cohort : Nat]
payoutDefaults == [recipient |-> {}, domain |-> {}, gross |-> 0, mdr |-> 0, withheld |-> 0,
                   net |-> 0, txHash |-> {}, dispatchTxHash |-> {}]

payoutDispatch == [id : EventId, kind : {"paid", "queued", "dispatched"}, token : Hex,
                   recipient : Hex, domain : Nat, amount : Nat, txHash : Nat,
                   blockNumber : Nat, logIndex : Nat, timestamp : Nat]

settlementEscrow == [planId : Hex, merchant : Hex, amount : Nat, heldAt : Nat,
                     attestedAt : Opt(Nat), carrierRef : Opt(Hex), releasedAt : Opt(Nat),
                     returnedAt : Opt(Nat), state : {"held", "attested", "released", "returned"},
                     nonAttested : BOOLEAN]
settlementEscrowDefaults == [attestedAt |-> {}, carrierRef |-> {}, releasedAt |-> {},
                             returnedAt |-> {}, nonAttested |-> FALSE]

refund == [id : EventId, planId : Hex, merchant : Hex, amount : Nat,
           kind : {"refund", "void"}, blockNumber : Nat, timestamp : Nat]

-----------------------------------------------------------------------------
\* Epochs, provisions and lenders, each row under the pool it belongs to.
epoch == [pool : Hex, number : Nat, seniorNav : Nat, juniorNav : Nat,
          liquidityFeeBps : Nat, closedAt : Nat, blockNumber : Nat]
provision == [planId : Hex, pool : Opt(Hex), epoch : Nat, raised : Nat, released : Nat,
              outstanding : Nat, updatedAt : Nat]
provisionDefaults == [raised |-> 0, released |-> 0, outstanding |-> 0]

lenderPosition == [id : PositionId, pool : Hex, tranche : Nat, holder : Hex,
                   depositedAssets : Nat, claimedShares : Nat, redeemedShares : Nat,
                   redeemedAssets : Nat, updatedAt : Nat]
lenderPositionDefaults == [depositedAssets |-> 0, claimedShares |-> 0,
                           redeemedShares |-> 0, redeemedAssets |-> 0]

redemptionTicket == [id : TicketId, pool : Hex, tranche : Nat, holder : Hex, index : Nat,
                     shares : Nat, position : Nat, claimedAssets : Nat, requestedAt : Nat]
queueFill == [id : EventId, pool : Hex, tranche : Nat, epoch : Nat, shares : Nat,
              assets : Nat, feeBps : Nat, filledAt : Nat]

-----------------------------------------------------------------------------
\* Passports, consents, inflows and relayed collections.
passportRecord == [subject : Hex, completions : Nat, negativesEver : Nat,
                   commitment : Opt(Hex), schemaId : Opt(Hex), version : Nat, updatedAt : Nat]
passportRecordDefaults == [completions |-> 0, negativesEver |-> 0, commitment |-> {},
                           schemaId |-> {}, version |-> 0]
passportMark == [id : EventId, subject : Hex, markedAt : Nat]
consentEvent == [id : EventId, subject : Hex, reader : Hex, schemaId : Hex,
                 granted : BOOLEAN, validUntil : Nat, at : Nat]
inflow == [id : EventId, recipient : Hex, counterparty : Hex, valueNative : Nat,
           valueMinor : Nat, blockNumber : Nat, blockTimestamp : Nat, txHash : Nat]
relayedCollection == [id : EventId, plan : Hex, index : Nat, cleared : BOOLEAN,
                      reason : Nat, at : Nat]

-----------------------------------------------------------------------------
\* The second corridor: fills, pledges, sweeps, tiers, currencies and wiring.
fxFill == [id : EventId, corridor : Hex, venue : Hex, amountIn : Nat, amountOut : Nat,
           floor : Nat, headroom : Nat, blockNumber : Nat, txHash : Nat, timestamp : Nat]
pledgePosition == [id : Hex, totalPledged : Nat, totalReleased : Nat, sharesHeld : Nat,
                   updatedAt : Nat]
pledgePositionDefaults == [totalPledged |-> 0, totalReleased |-> 0, sharesHeld |-> 0]
pledgeEvent == [id : EventId, kind : {"pledged", "released", "yieldPaid"}, account : Hex,
                amount : Nat, shares : Nat, blockNumber : Nat, txHash : Nat, timestamp : Nat]
sweepEvent == [id : EventId, planId : Hex, index : Nat, value : Nat, sweeper : Hex,
               blockNumber : Nat, txHash : Nat, timestamp : Nat]
tierOrigination == [id : Hex, tier : Nat, principal : Nat, blockNumber : Nat, txHash : Nat,
                    timestamp : Nat]
merchantCurrency == [id : Hex, currency : Hex, blockNumber : Nat, updatedAt : Nat]
currencyAllowance == [id : Hex, allowed : BOOLEAN, by : Hex, blockNumber : Nat,
                      updatedAt : Nat]
corridorWiring == [id : Hex, fxRouter : Hex, parameters : Hex, underwriter : Hex,
                   setBy : Hex, blockNumber : Nat, updatedAt : Nat]

-----------------------------------------------------------------------------
RowTypes ==
    [plan |-> plan, installment |-> installment, collectionAttempt |-> collectionAttempt,
     planStateTransition |-> planStateTransition, keeperStats |-> keeperStats,
     origination |-> origination, attestation |-> attestation, merchant |-> merchant,
     bookEntry |-> bookEntry, gateReading |-> gateReading,
     firstPaymentObservation |-> firstPaymentObservation,
     throttleReading |-> throttleReading, parameterChange |-> parameterChange,
     pauseEvent |-> pauseEvent, payout |-> payout, payoutDispatch |-> payoutDispatch,
     settlementEscrow |-> settlementEscrow, refund |-> refund, epoch |-> epoch,
     provision |-> provision, lenderPosition |-> lenderPosition,
     redemptionTicket |-> redemptionTicket, queueFill |-> queueFill,
     passportRecord |-> passportRecord, passportMark |-> passportMark,
     consentEvent |-> consentEvent, inflow |-> inflow,
     relayedCollection |-> relayedCollection, fxFill |-> fxFill,
     pledgePosition |-> pledgePosition, pledgeEvent |-> pledgeEvent,
     sweepEvent |-> sweepEvent, tierOrigination |-> tierOrigination,
     merchantCurrency |-> merchantCurrency, currencyAllowance |-> currencyAllowance,
     corridorWiring |-> corridorWiring]

NoRow == [key \in {} |-> 0]
EmptyTables == [table \in DOMAIN RowTypes |-> NoRow]

\* Every stored row has the columns, and only the values, its table declares.
RowsFit(tables) ==
    \A table \in DOMAIN RowTypes : \A key \in DOMAIN tables[table] :
        tables[table][key] \in RowTypes[table]
=============================================================================
