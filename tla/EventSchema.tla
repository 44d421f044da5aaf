---------------------------- MODULE EventSchema ----------------------------
(***************************************************************************)
(* packages/events: every event a surface may read, by contract, with its  *)
(* indexed and its plain fields.  The contracts write these, the indexer   *)
(* reads nothing else, and a field that is not here does not exist for it. *)
(* Types and prose are left out; names, contracts and fields are not.      *)
(***************************************************************************)
EXTENDS Naturals, FiniteSets

Ev(contract, name, indexed, plain) ==
    [contract |-> contract, name |-> name, indexed |-> indexed, plain |-> plain]

PLAN_EVENTS ==
    {Ev("PlanFactory", "PlanDeployed", {"planId", "plan", "implementation"}, {}),
     Ev("InstallmentPlan", "CheckCleared", {"planId", "index"}, {"amount", "keeper"}),
     Ev("InstallmentPlan", "CheckBounced", {"planId", "index"}, {"reason"}),
     Ev("InstallmentPlan", "CheckMissed", {"planId", "index"}, {"marker"}),
     Ev("InstallmentPlan", "CheckExpired", {"planId", "index"}, {"marker"}),
     Ev("InstallmentPlan", "PlanStateChanged", {"planId"}, {"from", "to"}),
     Ev("InstallmentPlan", "PlanCured", {"planId", "index"}, {}),
     Ev("InstallmentPlan", "PlanDelinquent", {"planId"}, {"lateFee"}),
     Ev("InstallmentPlan", "PlanRepaid", {"planId"}, {"total"}),
     Ev("InstallmentPlan", "PlanChargedOff", {"planId"}, {"outstanding"}),
     Ev("InstallmentPlan", "RefundCredited", {"planId"}, {"amount"})}

EPOCH_EVENTS ==
    {Ev("TranchedCreditPool", "EpochClosed", {"epoch"}, {"seniorNav", "juniorNav", "liquidityFeeBps"}),
     Ev("TranchedCreditPool", "EpochMarked", {"epoch"}, {"marked", "openPlans"}),
     Ev("TranchedCreditPool", "Provisioned", {"planId"}, {"epoch", "amount", "total"}),
     Ev("TranchedCreditPool", "ProvisionReleased", {"planId"}, {"epoch", "amount", "total"}),
     Ev("TranchedCreditPool", "LossAbsorbed", {"planId"}, {"fromReserve", "fromJunior", "fromSenior"}),
     Ev("TranchedCreditPool", "FraudLossAbsorbed", {"planId"}, {"fromReserve", "beyondReserve"}),
     Ev("TranchedCreditPool", "OriginationGated", {}, {"open", "subordinationBps", "reserveBps"})}

LENDER_EVENTS ==
    {Ev("TranchedCreditPool", "DepositRequested", {"tranche", "holder"}, {"epoch", "assets"}),
     Ev("TranchedCreditPool", "SharesClaimed", {"tranche", "holder"}, {"assets", "shares"}),
     Ev("TranchedCreditPool", "RedeemRequested", {"tranche", "holder"}, {"index", "shares", "position"}),
     Ev("TranchedCreditPool", "QueueFilled", {"tranche", "epoch"}, {"shares", "assets", "feeBps"}),
     Ev("TranchedCreditPool", "RedemptionClaimed", {"tranche", "holder"}, {"index", "assets"}),
     Ev("TranchedCreditPool", "ReserveFunded", {"from"}, {"amount", "balance"}),
     Ev("TranchedCreditPool", "Seeded", {"tranche"}, {"assets", "shares"}),
     Ev("TranchedCreditPool", "VenueSynced", {}, {"delta", "deployed"})}

BOOK_EVENTS ==
    {Ev("TranchedCreditPool", "Fronted", {"planId", "merchant"}, {"principal", "mdr"}),
     Ev("TranchedCreditPool", "Recognised", {"planId"}, {"inflow", "principalRecovered", "incomeEarned"}),
     Ev("TranchedCreditPool", "UnmarkedDelinquency", {"planId"}, {"unmarked"})}

POOL_EVENTS == EPOCH_EVENTS \cup LENDER_EVENTS \cup BOOK_EVENTS

SETTLEMENT_EVENTS ==
    {Ev("MerchantRegistry", "MerchantRegistered", {"merchant"}, {"bond"}),
     Ev("MerchantRegistry", "SettlementCategoryChanged", {"merchant", "by"}, {"category"}),
     Ev("PayoutRouter", "PaidOut", {"token", "recipient"}, {"domain", "amount"}),
     Ev("PayoutRouter", "PayoutQueued", {"token", "recipient"}, {"domain", "amount"}),
     Ev("PayoutRouter", "PayoutDispatched", {"token", "recipient"}, {"domain", "amount"}),
     Ev("PayoutRouter", "DomainDenied", {"domain", "by"}, {})}

REFUND_EVENTS ==
    {Ev("RefundEscrow", "RefundCredited", {"planId"}, {"amount"}),
     Ev("RefundEscrow", "PlanVoided", {"planId"}, {}),
     Ev("RefundEscrow", "RebateAccrued", {"merchant"}, {"amount"}),
     Ev("RefundEscrow", "RebateClaimed", {"merchant"}, {"amount", "remaining"}),
     Ev("RefundEscrow", "RebatesFunded", {"from"}, {"amount", "balance"}),
     Ev("RefundEscrow", "DisputeOpened", {"planId", "merchant"}, {"amount", "evidenceRef"}),
     Ev("RefundEscrow", "DisputeCancelled", {"planId"}, {}),
     Ev("RefundEscrow", "BondSlashedToReserve", {"planId", "merchant"}, {"amount"})}

ESCROW_EVENTS ==
    {Ev("SettlementEscrow", "SettlementHeld", {"planId", "merchant"}, {"amount"}),
     Ev("SettlementEscrow", "ShipmentAttested", {"planId"}, {"carrierRef"}),
     Ev("SettlementEscrow", "EscrowReleased", {"planId", "recipient"}, {"domain", "amount"}),
     Ev("SettlementEscrow", "EscrowReturned", {"planId"}, {"amount"}),
     Ev("SettlementEscrow", "SettlementReturnedForNonAttestation", {"planId", "merchant"}, {"amount"})}

MERCHANT_EVENTS == SETTLEMENT_EVENTS \cup REFUND_EVENTS \cup ESCROW_EVENTS

PASSPORT_EVENTS ==
    {Ev("PlazoPassport", "OutcomeNoted", {"subject"}, {"clean", "completions", "negativesEver"}),
     Ev("PlazoPassport", "NegativeNoted", {"subject"}, {"at", "negativesEver"}),
     Ev("PlazoPassport", "CommitmentWritten", {"subject"}, {"version", "commitment", "schemaId"}),
     Ev("PlazoPassport", "SaltRotated", {"previousSubject", "subject"}, {"version"}),
     Ev("PlazoPassport", "CorrectionRequested", {"subject", "disputed"}, {"reason"}),
     Ev("PlazoPassport", "ConsentGranted", {"subject", "reader", "schemaId"}, {"validUntil"}),
     Ev("PlazoPassport", "ConsentRevoked", {"subject", "reader", "schemaId"}, {}),
     Ev("AttestationSchemaRegistry", "SchemaPublished", {"schemaId", "version"}, {"contentHash", "uri"})}

ORIGINATION_EVENTS ==
    {Ev("CheckoutRouter", "LimitAttested", {"sessionId", "attestor"}, {"band"}),
     Ev("CheckoutRouter", "OriginationCompleted", {"planId", "merchant"}, {"principal", "mdr", "withheld"}),
     Ev("ReceivableToken", "ReceivableMinted", {"planId", "to"}, {"principal"}),
     Ev("MerchantRegistry", "KybAttested", {"merchant", "attestor"}, {"verified"}),
     Ev("MerchantRegistry", "BondPosted", {"merchant", "from"}, {"amount", "total"}),
     Ev("MerchantRegistry", "BondWithheld", {"merchant", "planId"}, {"amount", "total"}),
     Ev("MerchantRegistry", "ExposureChanged", {"merchant"}, {"outstanding", "requiredBond"}),
     Ev("Tier0Underwriter", "PlanNoted", {"planId"}, {"principal"}),
     Ev("Tier0Underwriter", "PlanSettled", {"planId"}, {"clean"}),
     Ev("FirstPaymentDefaultSwitch", "FirstPaymentObserved", {"planId", "observer"}, {"defaulted", "seasoned"}),
     Ev("FirstPaymentDefaultSwitch", "ThrottleChanged", {}, {"throttleBps", "fpdBps", "cohortSize"}),
     Ev("ParameterRegistry", "ParameterSet", {"key"}, {"previous", "value"}),
     Ev("OriginationPause", "GlobalPauseSet", {"by"}, {"paused"}),
     Ev("OriginationPause", "CorridorPauseSet", {"corridor", "by"}, {"paused"})}

SERVICING_EVENTS ==
    {Ev("RelayerGate", "Collected", {"plan", "index"}, {"cleared", "reason"}),
     Ev("PoolRegistry", "PoolRegistered", {"productLine", "pool"}, {})}

CORRIDOR_EVENTS ==
    {Ev("FxDeviationGuard", "FillGuarded", {"corridor", "venue"}, {"amountIn", "amountOut", "floor"}),
     Ev("MerchantCurrencyRegistry", "PayoutCurrencySet", {"merchant", "currency"}, {}),
     Ev("MerchantCurrencyRegistry", "CurrencyAllowed", {"currency", "by"}, {"allowed"}),
     Ev("CheckoutRouter", "CorridorSet", {"token", "by"}, {"fxRouter", "parameters", "underwriter"})}

UNDERWRITING_EVENTS ==
    {Ev("PledgeVault", "Pledged", {"pledger"}, {"amount", "shares"}),
     Ev("PledgeVault", "Released", {"pledger"}, {"amount", "shares"}),
     Ev("PledgeVault", "YieldPaid", {"from"}, {"amount", "totalAssets"}),
     Ev("TieredUnderwriter", "TieredOrigination", {"planId"}, {"tier", "principal"})}


EVENT_SCHEMA ==
    PLAN_EVENTS \cup POOL_EVENTS \cup MERCHANT_EVENTS \cup PASSPORT_EVENTS
      \cup ORIGINATION_EVENTS \cup SERVICING_EVENTS \cup CORRIDOR_EVENTS
      \cup UNDERWRITING_EVENTS

AbiForContract(contract) == {d \in EVENT_SCHEMA : d.contract = contract}

\* The contracts whose ABI the package spells out a second time for inference.
CONTRACT_ABIS ==
    {"PlanFactory", "InstallmentPlan", "CheckoutRouter", "ReceivableToken",
     "TranchedCreditPool", "PlazoPassport", "AttestationSchemaRegistry", "RelayerGate",
     "PoolRegistry", "MerchantRegistry", "PayoutRouter", "RefundEscrow",
     "SettlementEscrow", "Tier0Underwriter", "FirstPaymentDefaultSwitch",
     "ParameterRegistry", "OriginationPause", "FxDeviationGuard",
     "MerchantCurrencyRegistry", "PledgeVault", "TieredUnderwriter"}

ABI == UNION {AbiForContract(contract) : contract \in CONTRACT_ABIS}

\* What the schema's tests hold it to: one definition for a name in a contract,
\* at most three indexed fields, no plan event keyed by anything but its plan,
\* no wallet beside a plan, and every definition in some contract's ABI.
ASSUME SchemaIsSound ==
    /\ \A d, e \in EVENT_SCHEMA : d.contract = e.contract /\ d.name = e.name => d = e
    /\ \A d \in EVENT_SCHEMA :
         /\ Cardinality(d.indexed) <= 3
         /\ d.indexed \cap d.plain = {}
         /\ d.contract = "InstallmentPlan" => "planId" \in d.indexed
         /\ (d.indexed \cup d.plain) \cap {"borrower", "personId", "wallet"} = {}
         /\ "planId" \in d.indexed => "pledger" \notin (d.indexed \cup d.plain)
    /\ EVENT_SCHEMA = ABI
=============================================================================
