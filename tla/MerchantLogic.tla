--------------------------- MODULE MerchantLogic ---------------------------
(***************************************************************************)
(* MerchantRegistry.sol as operators on one merchant's record: the bond    *)
(* that scales with what the pool has fronted, the vesting of a new        *)
(* merchant, and the leaky bucket of its volume.                           *)
(***************************************************************************)
EXTENDS PoolLogic

CONSTANTS
    Domains, Arc,        \* payout destinations, and the local one
    BondBps, BondFloor, VestingWindow, VestingBps, VelocityCap, VelocityWindow

ASSUME MerchantParamsAssumption ==
    /\ Arc \in Domains /\ IsFiniteSet(Domains)
    /\ {BondBps, BondFloor, VestingWindow, VelocityCap} \subseteq Nat
    /\ VestingBps \in 0 .. Bps
    /\ VelocityWindow \in Nat \ {0}

SettlementCategory == {"Escrowed", "Instant"}

Merchant ==
    [registered : BOOLEAN, kybVerified : BOOLEAN, registeredAt : Nat,
     payoutDomain : Domains, bond : Nat, withheld : Nat,
     outstandingFronted : Nat, bucket : Nat, bucketAt : Nat,
     category : SettlementCategory]

NoMerchant ==
    [registered |-> FALSE, kybVerified |-> FALSE, registeredAt |-> 0,
     payoutDomain |-> Arc, bond |-> 0, withheld |-> 0,
     outstandingFronted |-> 0, bucket |-> 0, bucketAt |-> 0,
     category |-> "Escrowed"]

Registered(m, domain, now) ==
    [m EXCEPT !.registered = TRUE, !.registeredAt = now, !.bucketAt = now,
              !.payoutDomain = domain]

---------------------------------------------------------------------------
(* The bond. *)

RequiredBondAt(exposure) ==
    LET scaled == (exposure * BondBps) \div Bps
    IN  IF scaled > BondFloor THEN scaled ELSE BondFloor

RequiredBond(m) ==
    IF m.registered THEN RequiredBondAt(m.outstandingFronted) ELSE 0

\* Fault: the bond is tested before the withdrawal instead of after.
CanWithdrawBondOnceCovered(m, amount) ==
    /\ m.registered
    /\ amount <= m.bond
    /\ m.bond >= RequiredBond(m)

CanWithdrawBond(m, amount) ==
    /\ m.registered
    /\ amount <= m.bond
    /\ m.bond - amount >= RequiredBond(m)

\* Fault: the withheld part goes last.
BondTakenKeepingWithheld(m, amount) == [m EXCEPT !.bond = @ - amount]

\* A withdrawal and a slash alike: the withheld part goes first.
BondTaken(m, amount) ==
    [m EXCEPT !.bond = @ - amount, !.withheld = Less(@, amount)]

WithheldPosted(m, amount) ==
    [m EXCEPT !.bond = @ + amount, !.withheld = @ + amount]

---------------------------------------------------------------------------
(* Vesting and velocity. *)

VestingBpsFor(m, now) ==
    IF ~m.registered \/ now >= m.registeredAt + VestingWindow THEN 0 ELSE VestingBps

\* Fault: a fixed window that starts afresh every VelocityWindow.
FixedWindowUsed(m, now) ==
    IF now \div VelocityWindow # m.bucketAt \div VelocityWindow THEN 0 ELSE m.bucket

VelocityUsed(m, now) ==
    LET elapsed == now - m.bucketAt
    IN  IF elapsed >= VelocityWindow THEN 0
        ELSE m.bucket - (m.bucket * elapsed) \div VelocityWindow

\* A seasoned merchant has no cap.
WithinVelocity(m, principal, now) ==
    \/ VestingBpsFor(m, now) = 0
    \/ VelocityUsed(m, now) + principal <= VelocityCap

\* The quote: what canOriginate() answers.
CanOriginate(m, principal, now) ==
    /\ m.registered
    /\ m.kybVerified
    /\ WithinVelocity(m, principal, now)
    /\ m.bond + (principal * VestingBpsFor(m, now)) \div Bps
         >= RequiredBondAt(m.outstandingFronted + principal)

OriginationNoted(m, principal, now) ==
    [m EXCEPT !.bucket = VelocityUsed(m, now) + principal,
              !.bucketAt = now,
              !.outstandingFronted = @ + principal]

\* What noteOrigination() reverts on, the bond last.
CanNoteOrigination(m, principal, now) ==
    /\ m.registered
    /\ m.kybVerified
    /\ WithinVelocity(m, principal, now)
    /\ m.bond >= RequiredBond(OriginationNoted(m, principal, now))

RecoveryNoted(m, amount) == [m EXCEPT !.outstandingFronted = Less(@, amount)]
=============================================================================
