----------------------------- MODULE BookIndex -----------------------------
(***************************************************************************)
(* The rest of what the indexer keeps: two pools' books, merchants'        *)
(* standing, passports, pauses and the second corridor.  Each plane has a  *)
(* little of its contract's state, enough to emit only logs the contract   *)
(* can emit, and that state is what the tables are held against.  A        *)
(* behaviour follows one plane, chosen in Init.                            *)
(***************************************************************************)
EXTENDS IndexerCore, IndexerApi

CONSTANTS Planes,                     \* the planes this instance follows
          PoolA, PoolB, Holder, Senior, \* two books, one lender, one tranche number
          PlanA, PlanB,               \* a plan fronted by each
          Merchant, Guardian, Corridor, Vault, Guard,
          Subjects,                   \* a borrower's subjects, one per salt
          MaxAmount,                  \* bound: units in one call
          BlocksIn                    \* bound: blocks by plane

VARIABLES plane, book

bookVars == <<plane, book>>
Amounts == 1..MaxAmount
Books == {PoolA, PoolB}
PoolOf(p) == IF p = PlanA THEN PoolA ELSE PoolB

Call(sender, raws) ==
    /\ blockNumber < BlocksIn[plane]
    /\ Transaction(sender, raws, <<>>)
    /\ UNCHANGED <<indexer, plane>>
Pooled(pool, name, args) == Raw("TranchedCreditPool", pool, name, args)

-----------------------------------------------------------------------------
\* Lenders: a ticket is priced by the close of its epoch, shares are claimed at
\* one for one, and a redemption is filled whole at a close.
Lender == [epoch |-> 1, pending |-> 0, ticket |-> 0, shares |-> 0, redeeming |-> <<>>,
           deposited |-> 0, claimed |-> 0, redeemed |-> 0, paid |-> 0, feeBps |-> {}]
LenderCall(pool, after, name, args) ==
    /\ Call(Holder, <<Pooled(pool, name, [tranche |-> Senior, holder |-> Holder] @@ args)>>)
    /\ book' = [book EXCEPT ![pool] = after]

RequestDeposit(pool) ==
    LET b == book[pool] IN
    /\ b.ticket = 0
    /\ \E a \in Amounts :
        LenderCall(pool, [b EXCEPT !.pending = @ + a, !.deposited = @ + a],
                   "DepositRequested", [epoch |-> b.epoch, assets |-> a])

ClaimShares(pool) ==
    LET b == book[pool] IN
    /\ b.ticket > 0
    /\ LenderCall(pool, [b EXCEPT !.ticket = 0, !.shares = @ + b.ticket,
                                  !.claimed = @ + b.ticket],
                  "SharesClaimed", [assets |-> b.ticket, shares |-> b.ticket])

\* The ticket's number is the lender's own count of tickets in that book.
RequestRedeem(pool) ==
    LET b == book[pool] IN
    \E s \in 1..b.shares :
        LenderCall(pool, [b EXCEPT !.shares = @ - s, !.redeemed = @ + s,
                                   !.redeeming = Append(@, [shares |-> s, owed |-> 0,
                                                            filled |-> FALSE])],
                   "RedeemRequested",
                   [index |-> Len(b.redeeming), shares |-> s,
                    position |-> b.redeemed + s])

\* A ticket nothing has reached may be claimed too: it pays nothing, and logs it.
ClaimRedemption(pool) ==
    LET b == book[pool] IN
    \E k \in DOMAIN b.redeeming :
        LenderCall(pool, [b EXCEPT !.redeeming[k].owed = 0, !.paid = @ + b.redeeming[k].owed],
                   "RedemptionClaimed", [index |-> k - 1, assets |-> b.redeeming[k].owed])

\* A close prices the pending ticket and fills the queue at the epoch's one fee.
CloseEpoch(pool) ==
    LET b == book[pool]
        unfilled == {k \in DOMAIN b.redeeming : ~b.redeeming[k].filled}
        shares == MapThenSumSet(LAMBDA k : b.redeeming[k].shares, unfilled)
        closed == Pooled(pool, "EpochClosed",
                    [epoch |-> b.epoch, seniorNav |-> 10, juniorNav |-> 10,
                     liquidityFeeBps |-> b.epoch])
        fill == Pooled(pool, "QueueFilled",
                    [tranche |-> Senior, epoch |-> b.epoch, shares |-> shares,
                     assets |-> shares, feeBps |-> b.epoch])
    IN  /\ Call(Guardian, IF unfilled = {} THEN <<closed>> ELSE <<fill, closed>>)
        /\ book' = [book EXCEPT ![pool] =
               [b EXCEPT !.epoch = @ + 1, !.pending = 0, !.ticket = @ + b.pending,
                         !.redeeming = [k \in DOMAIN @ |->
                             IF k \in unfilled
                               THEN [@[k] EXCEPT !.filled = TRUE, !.owed = b.redeeming[k].shares]
                               ELSE @[k]]]]

LenderStep ==
    \E pool \in Books :
        \/ RequestDeposit(pool) \/ ClaimShares(pool) \/ RequestRedeem(pool)
        \/ ClaimRedemption(pool) \/ CloseEpoch(pool)

-----------------------------------------------------------------------------
\* Plans on a book: fronted, provisioned while delinquent, released, lost.
Paper == [fronted |-> 0, carrying |-> 0, held |-> 0, unmarked |-> FALSE]
\* Each pool writes the total it holds over all its plans beside each change.
HeldIn(papers, pool) ==
    MapThenSumSet(LAMBDA p : papers[p].held, {p \in DOMAIN papers : PoolOf(p) = pool})
PaperCall(p, after, Logs(_)) ==
    LET papers == [book EXCEPT ![p] = after] IN
    /\ Call(Guardian, Logs(HeldIn(papers, PoolOf(p))))
    /\ book' = papers
Of(p, name, args) == Pooled(PoolOf(p), name, args @@ [planId |-> p])

FrontPlan(p) ==
    /\ book[p].fronted = 0
    /\ PaperCall(p, [book[p] EXCEPT !.fronted = MaxAmount + 1, !.carrying = MaxAmount + 1],
         LAMBDA total : <<Of(p, "Fronted", [merchant |-> Merchant,
                                            principal |-> MaxAmount + 1, mdr |-> 0])>>)

\* The flag may be raised on paper nobody has recognised yet.
Flag(p) ==
    /\ book[p].carrying > 0
    /\ PaperCall(p, [book[p] EXCEPT !.unmarked = ~@],
         LAMBDA total : <<Of(p, "UnmarkedDelinquency", [unmarked |-> ~book[p].unmarked])>>)

Provide(p) ==
    LET b == book[p] IN
    \E a \in 1..(b.carrying - b.held) :
        PaperCall(p, [b EXCEPT !.held = @ + a],
            LAMBDA total : <<Of(p, "Provisioned", [epoch |-> 1, amount |-> a, total |-> total])>>)

\* An inflow writes the recovery first and lets go of what it had set aside.
Recover(p) ==
    LET b == book[p] IN
    \E a \in 1..b.carrying :
        LET kept == IF b.held < b.carrying - a THEN b.held ELSE b.carrying - a IN
        PaperCall(p, [b EXCEPT !.carrying = @ - a, !.held = kept],
            LAMBDA total :
                <<Of(p, "Recognised", [inflow |-> a + 1, principalRecovered |-> a,
                                       incomeEarned |-> 1])>>
                \o (IF kept = b.held THEN <<>>
                    ELSE <<Of(p, "ProvisionReleased",
                              [epoch |-> 1, amount |-> b.held - kept, total |-> total])>>))

WriteOff(p) ==
    LET b == book[p] IN
    /\ b.carrying > 0
    /\ PaperCall(p, [b EXCEPT !.carrying = 0, !.held = 0],
         LAMBDA total :
            (IF b.held = 0 THEN <<>>
             ELSE <<Of(p, "ProvisionReleased",
                       [epoch |-> 1, amount |-> b.held, total |-> total])>>)
            \o <<Of(p, "LossAbsorbed", [fromReserve |-> 1, fromJunior |-> b.carrying - 1,
                                        fromSenior |-> 0])>>)

PaperStep ==
    \E p \in {PlanA, PlanB} :
        FrontPlan(p) \/ Flag(p) \/ Provide(p) \/ Recover(p) \/ WriteOff(p)

-----------------------------------------------------------------------------
\* A borrower's passport: counters the chain never forgets, under a subject
\* that a rotation replaces.
Passport == [salt |-> 0, completions |-> 0, negatives |-> 0, committed |-> FALSE, version |-> 0]
SubjectAt(salt) == Subjects[salt]
PassportCall(after, name, args) ==
    /\ Call(Guardian, <<Raw("PlazoPassport", Vault, name, args)>>)
    /\ book' = after
Touched == [book EXCEPT !.salt = IF @ = 0 THEN 1 ELSE @, !.version = @ + 1]
About(after, args) == args @@ [subject |-> SubjectAt(after.salt)]

NoteOutcome ==
    \E clean \in BOOLEAN :
        LET after == IF clean THEN [Touched EXCEPT !.completions = @ + 1]
                     ELSE [Touched EXCEPT !.negatives = @ + 1]
        IN  PassportCall(after, "OutcomeNoted",
                About(after, [clean |-> clean, completions |-> after.completions,
                              negativesEver |-> after.negatives]))
NoteNegative ==
    LET after == [Touched EXCEPT !.negatives = @ + 1]
    IN  PassportCall(after, "NegativeNoted",
            About(after, [at |-> blockNumber + 1, negativesEver |-> after.negatives]))
WriteCommitment ==
    LET after == [Touched EXCEPT !.committed = TRUE]
    IN  PassportCall(after, "CommitmentWritten",
            About(after, [version |-> after.version, commitment |-> Guard, schemaId |-> Guard]))
RotateSalt ==
    LET after == [book EXCEPT !.salt = @ + 1, !.committed = FALSE]
    IN  /\ book.version > 0
        /\ after.salt \in DOMAIN Subjects
        /\ PassportCall(after, "SaltRotated",
               About(after, [previousSubject |-> SubjectAt(book.salt),
                             version |-> after.version]))
Consent ==
    /\ book.salt > 0
    /\ \/ PassportCall(book, "ConsentGranted",
              About(book, [reader |-> Merchant, schemaId |-> Guard, validUntil |-> 9]))
       \/ PassportCall(book, "ConsentRevoked",
              About(book, [reader |-> Merchant, schemaId |-> Guard]))

PassportStep == NoteOutcome \/ NoteNegative \/ WriteCommitment \/ RotateSalt \/ Consent

-----------------------------------------------------------------------------
\* Pauses: a setter may say again what is already so.
Pauses == [shut |-> {}, outages |-> <<>>]
SetPause ==
    \E area \in {Zero, Corridor}, paused \in BOOLEAN :
        /\ Call(Guardian, <<IF area = Zero
                THEN Raw("OriginationPause", Guard, "GlobalPauseSet",
                         [paused |-> paused, by |-> Guardian])
                ELSE Raw("OriginationPause", Guard, "CorridorPauseSet",
                         [corridor |-> area, paused |-> paused, by |-> Guardian])>>)
        /\ book' = [shut |-> IF paused THEN book.shut \cup {area} ELSE book.shut \ {area},
                    outages |->
                      IF paused /\ area \notin book.shut
                        THEN Append(book.outages, [corridor |-> area, to |-> {},
                                                   from |-> blockNumber + 1])
                      ELSE IF ~paused /\ area \in book.shut
                        THEN [k \in DOMAIN book.outages |->
                                IF book.outages[k].corridor = area /\ book.outages[k].to = {}
                                  THEN [book.outages[k] EXCEPT !.to = {blockNumber + 1}]
                                  ELSE book.outages[k]]
                      ELSE book.outages]

-----------------------------------------------------------------------------
\* Pledges: shares of a vault whose assets grow by yield between pledges.
Pledges == [shares |-> 0, assets |-> 0, pledged |-> 0, released |-> 0]
PledgeCall(after, name, args) ==
    /\ Call(Holder, <<Raw("PledgeVault", Vault, name, args)>>)
    /\ book' = after
Worth(shares) == (shares * (book.assets + 1)) \div (book.shares + 1)
Pledge ==
    \E a \in Amounts :
        LET bought == (a * (book.shares + 1)) \div (book.assets + 1) IN
        PledgeCall([book EXCEPT !.shares = @ + bought, !.assets = @ + a, !.pledged = @ + a],
                   "Pledged", [pledger |-> Holder, amount |-> a, shares |-> bought])
ReleasePledge ==
    \E s \in 1..book.shares :
        LET taken == Worth(s) IN
        /\ taken > 0
        /\ PledgeCall([book EXCEPT !.shares = @ - s, !.assets = @ - taken,
                                   !.released = @ + taken],
                      "Released", [pledger |-> Holder, amount |-> taken, shares |-> s])
PayYield ==
    \E a \in Amounts :
        PledgeCall([book EXCEPT !.assets = @ + a], "YieldPaid",
                   [from |-> Guardian, amount |-> a, totalAssets |-> book.assets + a])
PledgeStep == Pledge \/ ReleasePledge \/ PayYield

-----------------------------------------------------------------------------
\* Merchants and readings: a posting says the bond's new total, a withdrawal
\* and a slash are logs no surface subscribes to.
Standing == [bond |-> 0, withheld |-> 0, exposure |-> 0, known |-> FALSE]
Standings(after, raws) == Call(Guardian, raws) /\ book' = after
Registered(name, args) ==
    Raw("MerchantRegistry", Guard, name, args @@ [merchant |-> Merchant])

Register ==
    /\ ~book.known
    /\ Standings([book EXCEPT !.known = TRUE],
                 <<Registered("MerchantRegistered", [bond |-> 0])>>)
PostBond ==
    /\ book.known
    /\ \E a \in Amounts :
        Standings([book EXCEPT !.bond = @ + a],
            <<Registered("BondPosted",
                [from |-> Guardian, amount |-> a, total |-> book.bond + a])>>)
WithholdBond ==
    /\ book.known
    /\ \E a \in Amounts :
        Standings([book EXCEPT !.bond = @ + a, !.withheld = @ + a, !.exposure = @ + a],
            <<Registered("BondWithheld",
                [planId |-> PlanA, amount |-> a, total |-> book.bond + a]),
              Registered("ExposureChanged",
                [outstanding |-> book.exposure + a, requiredBond |-> 1])>>)
\* BondReleased and BondSlashed are not in the schema; the refund escrow's own
\* log of a slash to the reserve is.
LowerBond ==
    \E a \in 1..book.bond :
        \/ Standings([book EXCEPT !.bond = @ - a],
               <<Registered("BondReleased", [amount |-> a, total |-> book.bond - a])>>)
        \/ Standings([book EXCEPT !.bond = @ - a],
               <<Registered("BondSlashed", [to |-> Guardian, amount |-> a]),
                 Raw("RefundEscrow", Vault, "BondSlashedToReserve",
                     [planId |-> PlanA, merchant |-> Merchant, amount |-> a])>>)
Attest ==
    \E verified \in BOOLEAN :
        Standings(book,
            <<Registered("KybAttested", [verified |-> verified, attestor |-> Guardian]),
              Registered("SettlementCategoryChanged", [category |-> 1, by |-> Guardian])>>)
MerchantStep == Register \/ PostBond \/ WithholdBond \/ LowerBond \/ Attest

\* Everything else is a log kept as it is read.
Readings ==
    {Raw("TranchedCreditPool", PoolA, "OriginationGated",
         [open |-> TRUE, subordinationBps |-> 2, reserveBps |-> 1]),
     Raw("FirstPaymentDefaultSwitch", Guard, "FirstPaymentObserved",
         [planId |-> PlanA, defaulted |-> FALSE, seasoned |-> FALSE, observer |-> Holder]),
     Raw("FirstPaymentDefaultSwitch", Guard, "ThrottleChanged",
         [throttleBps |-> 5, fpdBps |-> 2, cohortSize |-> 3]),
     Raw("ParameterRegistry", Guard, "ParameterSet", [key |-> Guard, previous |-> 0, value |-> 1]),
     Raw("RelayerGate", Guard, "Collected",
         [plan |-> PlanA, index |-> 0, cleared |-> FALSE, reason |-> 1]),
     Raw("TieredUnderwriter", Guard, "TieredOrigination",
         [planId |-> PlanA, tier |-> 1, principal |-> 2]),
     Raw("FxDeviationGuard", Guard, "FillGuarded",
         [corridor |-> Corridor, venue |-> Vault, amountIn |-> 3, amountOut |-> 3, floor |-> 2]),
     Raw("MerchantCurrencyRegistry", Guard, "PayoutCurrencySet",
         [merchant |-> Merchant, currency |-> Corridor]),
     Raw("MerchantCurrencyRegistry", Guard, "CurrencyAllowed",
         [currency |-> Corridor, by |-> Guardian, allowed |-> FALSE]),
     Raw("CheckoutRouter", Guard, "CorridorSet",
         [token |-> Corridor, by |-> Guardian, fxRouter |-> Vault, parameters |-> Guard,
          underwriter |-> Guard]),
     Raw("NativeTransferEmitter", ARC_NATIVE_TRANSFER_EMITTER, "Transfer",
         [from |-> Merchant, to |-> Holder, value |-> 25]),
     Raw("NativeTransferEmitter", ARC_NATIVE_TRANSFER_EMITTER, "Transfer",
         [from |-> Merchant, to |-> Guardian, value |-> 25])}
Read ==
    /\ \E raw \in Readings : Call(Guardian, <<raw>>)
    /\ UNCHANGED book

-----------------------------------------------------------------------------
PlaneInit == [lenders |-> [pool \in Books |-> Lender],
              paper |-> [p \in {PlanA, PlanB} |-> Paper],
              passport |-> Passport, pauses |-> Pauses, pledges |-> Pledges,
              merchants |-> Standing, readings |-> <<>>]
BookInit == IndexerInit /\ plane \in Planes /\ book = PlaneInit[plane]

PlaneStep ==
    \/ plane = "lenders" /\ LenderStep
    \/ plane = "paper" /\ PaperStep
    \/ plane = "passport" /\ PassportStep
    \/ plane = "pauses" /\ SetPause
    \/ plane = "pledges" /\ PledgeStep
    \/ plane = "merchants" /\ MerchantStep
    \/ plane = "readings" /\ Read
HandleBook == Handle /\ UNCHANGED bookVars
BookNext == PlaneStep \/ HandleBook
BookSpec == BookInit /\ [][BookNext]_<<log, blockNumber, indexer, bookVars>>
Settled(name) == plane = name /\ CaughtUp /\ ~halted

-----------------------------------------------------------------------------
\* pools.ts: two books number their epochs and tickets alike, and no row of one
\* ever carries the other's figures; a claim of a ticket and a fill of an epoch
\* land on the row of the request and stay at one rate.
PoolsAreKeptApart ==
    Settled("lenders") => \A pool \in Books :
        LET b == book[pool]
            key == poolPositionId(pool, Senior, Holder)
        IN  /\ IF key \in DOMAIN tables.lenderPosition
                 THEN LET row == tables.lenderPosition[key] IN
                      /\ row.depositedAssets = b.deposited /\ row.claimedShares = b.claimed
                      /\ row.redeemedShares = b.redeemed /\ row.redeemedAssets = b.paid
                 ELSE b.deposited = 0
            /\ \A k \in DOMAIN b.redeeming :
                 LET ticket == tables.redemptionTicket[poolTicketId(pool, Senior, Holder, k - 1)]
                 IN  /\ ticket.shares = b.redeeming[k].shares
                     /\ ticket.claimedAssets =
                          IF b.redeeming[k].filled /\ b.redeeming[k].owed = 0
                            THEN b.redeeming[k].shares ELSE 0
            /\ {id[2] : id \in {e \in DOMAIN tables.epoch : e[1] = pool}} = 1..(b.epoch - 1)
            /\ nonUniformFills(RowsOf(tables.queueFill)) = {}

\* capital.ts: "Keeping both means the check is a subtraction rather than a
\* belief": raised less released is what is outstanding, what is outstanding over
\* a pool's plans is the total that pool last wrote, and the book's principal
\* less what came back and what was lost is the paper's carrying value.
ProvisionsAreASubtraction ==
    Settled("paper") =>
        /\ \A row \in RowsOf(tables.provision) : row.outstanding = row.raised - row.released
        /\ \A pool \in Books :
             MapThenSumSet(LAMBDA row : row.outstanding,
                {row \in RowsOf(tables.provision) : row.pool = {pool}}) = HeldIn(book, pool)
        /\ \A p \in DOMAIN tables.bookEntry :
             LET row == tables.bookEntry[p] IN
             /\ row.pool = {PoolOf(p)}
             /\ row.principal - row.principalRecovered - row.lossAbsorbed = book[p].carrying
             /\ row.unmarked = book[p].unmarked

\* capital.ts: marks are stored one by one, so that each can age: as many rows as
\* the chain has pushed, and no record under a subject a rotation has left.
MarksOutliveTheSubject ==
    Settled("passport") =>
        /\ Cardinality(DOMAIN tables.passportMark) = book.negatives
        /\ \A subject \in DOMAIN tables.passportRecord : subject = SubjectAt(book.salt)

\* corridor.ts: repeated trips are one outage and an open one stays open: the
\* windows drawn from the pause rows are the outages there were.
PauseWindowsAreTheOutages ==
    Settled("pauses") =>
        LET rows == SetToSortSeq(RowsOf(tables.pauseEvent),
                                 LAMBDA a, b : a.timestamp < b.timestamp)
        IN  corridorPauseWindows(rows) = book.outages

\* underwriting.ts: a position's shares are the vault's, through any mix of
\* pledges, releases and yield at a moving price per share.
PledgesFollowTheVault ==
    Settled("pledges") /\ Holder \in DOMAIN tables.pledgePosition =>
        LET row == tables.pledgePosition[Holder] IN
        /\ row.sharesHeld = book.shares
        /\ row.totalPledged = book.pledged /\ row.totalReleased = book.released

\* A dashboard never shows a merchant less bond than the registry holds, though
\* nothing tells the index when the bond goes down.
BondIsNeverUnderstated ==
    Settled("merchants") /\ Merchant \in DOMAIN tables.merchant =>
        /\ tables.merchant[Merchant].bond >= book.bond
        /\ tables.merchant[Merchant].outstandingFronted = book.exposure

\* Whatever legal logs arrive, no handler throws: a thrown handler stops every
\* surface at that block, and every row it does write has its table's columns.
TheIndexNeverStalls ==
    /\ ~halted
    /\ RowsFit(tables)

\* The capital surfaces read what the contracts hold: queues, provisions,
\* pledges and marks alike.
CapitalReadsTheBooks ==
    /\ PoolsAreKeptApart /\ ProvisionsAreASubtraction
    /\ PledgesFollowTheVault /\ MarksOutliveTheSubject

\* ponder.config.ts watches what the schema has events of, no more and no less, and
\* every vintage of the router it is given an address for, or nobody.
RouterNames == {"PLAZO_CHECKOUT_ROUTER_ADDRESS", "PLAZO_CHECKOUT_ROUTER_ADDRESS_LEGACY",
                "PLAZO_CHECKOUT_ROUTER_ADDRESS_LEGACY2"}
EverySourceIsDecoded ==
    /\ DOMAIN Sources(<<>>) \cup {"InstallmentPlan"} = CONTRACT_ABIS \cup {"NativeTransferEmitter"}
    /\ \A set \in SUBSET RouterNames :
          Sources([name \in set |-> {name}])["CheckoutRouter"].address
             = IF set = {} THEN {Zero} ELSE set

\* The index keeps up with whatever it is told, a merchant's standing and the
\* corridors' pauses among it, from the sources and ranges it is configured with.
TheIndexKeepsUp ==
    /\ TheIndexNeverStalls /\ PauseWindowsAreTheOutages /\ BondIsNeverUnderstated
    /\ log = <<>> => RangesCoverTheSweep /\ EverySourceIsDecoded

-----------------------------------------------------------------------------
(* What the documentation says and the code does not do. *)

\* schema.ts: "The bond scales with outstanding fronted exposure": what a
\* merchant's row says is posted against it is what the registry holds.
BondShownIsTheBond ==
    Settled("merchants") /\ Merchant \in DOMAIN tables.merchant =>
        tables.merchant[Merchant].bond = book.bond

\* capital.ts: "Erasure. The old subject's rows are deleted from the indexed
\* view."
RotatedSubjectsHaveNoRows ==
    Settled("passport") => \A row \in RowsOf(tables.passportMark) \cup RowsOf(tables.consentEvent) :
        row.subject = SubjectAt(book.salt)

\* PlazoPassport.rotateSalt: "The onchain counters are untouched": the record a
\* surface reads shows them.
RecordShowsTheCounters ==
    Settled("passport") => \A row \in RowsOf(tables.passportRecord) :
        row.completions = book.completions /\ row.negativesEver = book.negatives
=============================================================================
