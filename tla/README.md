# Plazo in TLA+

Plazo is a buy-now-pay-later protocol.  A borrower signs a strip of dated
transfer authorizations ("checks"), a pool of lenders pays the merchant at once,
and keepers pull the checks one by one.  Nobody operates it: collection, marking,
recognition, epoch closes, settlement releases and payouts are permissionless
calls ("cranks").  Around the contracts stand an indexer, a keeper, a handful of
services that one operator process composes, and pages.  The protocol is right if
*any* order of those calls, by anybody, next to a token that can be paused and
wallets that change their mind, leaves the books straight, the money where the
books say it is, and nobody stuck; the services are right if what they store,
send and show is what the chain did, through crashes, retries and overlapping
requests.  That is what these modules model and check, and, for the plan and the
checkout contracts, prove.

Paths below are relative to the repository; a Solidity file with no path is in
`contracts/src`.

## 1. The system

| Part | State it keeps | Operations | Correct if |
|---|---|---|---|
| `InstallmentPlan.sol` | debt, fees, escrow, status per check, state, suspension clock | `collect`, `collectBatch`, `markMissed`, `markExpired`, `noteCancellation`, `repay`, `creditRefund`, `revalidate`, `halt`, `resume`, `chargeOff`, `sweep` | money in = money out + escrow; a debt is settled once; one late fee; outcomes stay; every check gets an outcome; paying always ends the debt |
| `TranchedCreditPool.sol` | reserve, two tranches, cash, receivables, deferred income, provisions, exposures, open-plan list, mark cursor, tickets, fills, epoch | `front`, `recognise`, `markEpoch`, `closeEpoch`, deposits, redemptions, claims, `deployBuffer`, `recallBuffer`, `syncVenue` | claims = holdings; totals = sum of the paper; nobody's shares or money given to another; every epoch closes |
| `TrancheToken.sol`, `ParkedYieldVenue.sol` | share balances; venue shares and assets | mint, burn; deposit, withdraw, `payYield` | used by the pool only |
| `CheckoutRouter.sol` | corridor configuration, plan → pool | `originate`, `recognise` | one transaction or nothing; exposure never below the paper |
| `MerchantRegistry.sol` | bond, withheld part, exposure, leaky bucket, KYB, category, route | `register`, `postBond`, `withdrawBond`, `slash`, `noteOrigination`, `noteRecovered`, `postWithheld` | the bond covers the exposure unless slashed; a new merchant's volume is bounded |
| `SettlementEscrow.sol` | a row per plan | `hold`, `attestShipment`, `release`, `refundToPool` | exactly one exit stays open |
| `PayoutRouter.sol` | queued settlement, denied domains | `payout`, `dispatch`, `denyDomain` | what is owed leaves |
| `RefundEscrow.sol` | credits seen, rebates owed, disputes | `noteRefund`, `fundRebates`, `claimRebate`, disputes, `executeSlash` | holds exactly its rebate reserve |
| `packages/keeper` | a snapshot of one plan or of the pool | decide, rank, send; the epoch job | one keeper is enough; it is paid what it reckoned; epochs close |
| `services/indexer` | 36 tables, a poller's cursor | one handler per event, the API's reads, the attestation poll | what is shown is what the contracts hold, or is late; no log stops it |
| `services/servicing` | endpoints, deliveries, notice log, audit chain, relayer pass | register, fan out, retry, replay, rotate; dispatch; act and append; crank | accepted means processed, and no oftener than asked; told once, or shown missed; one chain; the market goes first |
| `services/origination` | sessions, accounts, keys, buckets, screening run | record a signature, accept, submit, expire; rotate, revoke, admit; reconcile; score and sign | a session is what was signed; revoked keys are dead; the list is the feed |
| `services/fx`, `FxDeviationGuard.sol` | a breaker per corridor, signed mids | observe, trip, quote, settle | a poll of a market that answers within its bands closes nothing, and an outage is this poll's own; what was signed is taken |
| `packages/checkout-embed`, `apps/checkout` | a frame, its instance, the posts under way | open, reload, close, post | one frame, and only it is believed |
| `packages/plan-core`, `packages/passport`, `packages/events` | none | ids, digests, schedules, quotes, bands, the event schema | what is recomputed agrees with the contracts and with itself |
| `Tier0Underwriter.sol`, `underwriting/`, `PlazoPassport.sol`, `FirstPaymentDefaultSwitch.sol`, `OriginationPause.sol` | person ledgers, pledges, marks, pauses | notes, pledges, pauses | in part: section 9 |
| `PlanFactory.sol`, `ParameterRegistry.sol`, owner-set registries, scripts, read-only apps | | | in part or not: section 9 |

### How they interact

    borrower/keeper --> InstallmentPlan --forward--> TranchedCreditPool <-- lenders
                              ^   |                     ^   ^     |
                   creditRefund   | state, forwarded,   |   |     +--> ParkedYieldVenue
                              |   | outstanding, late   |   |
                           merchant  (read by the pool) |   | front / recognise
                                                        |   |
           SettlementEscrow --refundToPool--------------+   |
                ^      \--release--> PayoutRouter           |
                |  hold                ^ payout             |
                +------------- CheckoutRouter --------------+
                                 | note*, postWithheld
           RefundEscrow --slash--> MerchantRegistry

    every contract --logs--> indexer tables --> API, attestation poller, pages
    keeper, relayer --read, then crank--> plan, pool
    operator process = sessions + keys + webhooks + notices + audit + fx + screening + relayer

* The pool never hears from a plan.  It *reads* it, whenever anybody cranks
  `recognise()` or `markEpoch()`: four fields, `PlanPromise` in the models.
* A plan pays whoever it was wired to by plain transfer; the pool finds the money
  through the plan's running total, not through its own balance.
* The merchant's exposure in the registry follows the pool's receivable only when
  the recognition ran through the router.
* The escrow stamps a payout domain at `hold`; the payout router decides at
  `release`.
* The indexer hears logs only, one at a time, behind the chain; what the logs do
  not say (a push, a resolved installment) it does not know.
* The services of the operator process share no state with each other.

### What is hard

* **Interleaving.** Every crank is open to anybody, so each pair of calls meets in
  both orders; every `await` of a service is a place where another request runs.
* **Failure of the rail.** The token can be paused or blacklist a borrower,
  an authorization can be spent or cancelled elsewhere, a contract wallet can stop
  accepting its own signatures between two calls.
* **Crashes and retries.** A post is sent before its row is written; a capability is
  exercised before its line is appended; a job is queued again after it threw.
* **Time.** Grace windows, a suspension clock added to them, a charge-off clock,
  epochs, a junior lock, attestation deadlines, release timers, dispute timelocks,
  key overlaps, mid lifetimes.
* **Arithmetic.** Prices in shares, rounding in several places of one flow,
  clamped incremental totals, three scales of one amount.
* **Liveness without an operator.** One stuck plan holds up an epoch, an epoch
  every lender.

The list, line by line, is `hazards` in `PROJECT.json`.

## 2. The modules

*Contracts.*

| Module | Models |
|---|---|
| `PlanLogic` | the plan's storage as a record and every internal function as an operator |
| `InstallmentPlan` | one clone, its token and its callers: one action per external function; EXTENDS `PlanLogic` |
| `PlanPromise`, `PlanView` | the four fields the pool reads of a plan and how they may move; the abstract plan as a specification |
| `PoolLogic` | the loan side of the pool: waterfall, provisions, exposures, recognition, the mark walk; EXTENDS `PlanPromise` |
| `TrancheLogic` | the lender side: tickets, fills, pricing, the epoch close, the venue; EXTENDS `PoolLogic` |
| `TranchedCreditPool` | the pool, its lenders, its owner, its venues, and plans that move as `PlanPromise` lets them |
| `MerchantLogic` | a merchant's record: bond, vesting, velocity; EXTENDS `PoolLogic` |
| `Checkout` | router, registry, settlement escrow, payout router and refund escrow around the pool's loan book |

*Keepers.*

| Module | Models |
|---|---|
| `Keeper` | a pass of `packages/keeper` over a plan: three reads, a ranked list, crank by crank; EXTENDS `InstallmentPlan` |
| `EpochKeeper` | the epoch job, batch by batch, with calls that fail; EXTENDS `TranchedCreditPool` |

*Indexer.*

| Module | Models |
|---|---|
| `EventSchema` | every event, its contract and its fields |
| `IndexerTables`, `IndexerHandlers` | the tables, their insert/update/upsert rules, and one operator per handler |
| `IndexerCore` | the chain of logs and the engine that applies them one at a time and stops at a throw |
| `IndexerApi` | the reconciliation and payout reads, configured sources and ranges |
| `SettlementIndex` | settlements, the payout tables and the attestation poller |
| `BookIndex` | pools, provisions, passports, pauses, pledges, merchants and the sweep's readings, one plane per behaviour |
| `PlanIndex` | `InstallmentPlan` itself driving the handlers |

*Services, pages and shared packages.*

| Module | Models |
|---|---|
| `CheckoutSession`, `MerchantKeys`, `Screening`, `Underwriting` | `services/origination` |
| `Webhooks`, `Notices`, `AuditConsole`, `Relayer` | `services/servicing` |
| `CorridorBreaker` | `services/fx` and the deviation guard it signs for |
| `CheckoutEmbed`, `ProductMessage` | the drop-in, the hosted page's frame protocol, the product-page message |
| `PlanCore`, `PlanFigures` | the shared arithmetic; the three scales of an amount and what the figures must agree on |

`MC*` are the instances TLC runs.  `PlanLogicProofs`, `InstallmentPlanProofs`,
`PoolLogicProofs`, `TranchedCreditPoolProofs`, `CheckoutProofs` and `OperatorProofs` hold the proofs.

The contracts are written as handlers over storage, so the models are operators
over a record, `[p EXCEPT ...]` standing for the assignments of a function, and an
action is a guard and a composition of them in the order of the source
(`Collected`, for instance, is diagnosis, settlement or bounce, bounty, forward,
escrow release).  The EVM runs a call to completion and `nonReentrant` covers the
external ones, so a whole external call is one step; a call that reverts is a step
that is not taken.  The services are written the other way round: every stretch
between two `await`s is a step, and what was read before an `await` sits in a
variable of the request while others run.

Next to some operators stands a faulty form, marked `Mutant of` (or `Fault:`),
which no specification uses; `mutants` in `PROJECT.json` says which property each of
them must break.

**The plan and the pool meet in `PlanPromise`.**  `Follows(terms, v, w)` says what
one move of a plan may do to the view the pool has of it.  `MCInstallmentPlan`
shows on its instance, and `InstallmentPlanProofs` proves for all of them, that the
detailed plan implements the abstract one (`KeepsItsPromise == Promise!Spec`, with the
refinement mapping `BookView`); `TranchedCreditPool` and `Checkout` use `Follows` as the
environment of the pool.  So what is checked of the pool holds over the plans the
plan contract really produces, at a fraction of the states.

**Correspondence.**  `plan` is the contract's storage plus its token balance; `rail`
the token (paused, blacklisted, nonces used).  A signature is abstracted to the
set of checks that do not validate; the borrower's balance to a set of purses.
`book` and `desk` are the two halves of the pool's storage.  `view[k]` is what
plan *k* shows.  In `Checkout`, `merchants`, `escrows`, `payouts` and `refunds`
are the storage of the four contracts and `custody` their token balances, kept
apart from the books on purpose so that the two can be compared.  In the indexer a
table is a function from keys to rows and a nullable column a set of at most one
value.  In the services `rows`, `evidence`, `account`, `key`, `delivery`, `noticeLog`, `audit` are
the stores, and `request`, `call`, `sender`, `dispatcher`, `command`, `poll`, `run`, `decision`, `pass` the
code under way.  Some variables are history, kept for the properties
and the bounds alone: `acknowledged`, `wanted`, `processed`, `disturbed`, `stillness`, `admitted`, `granted`
among them.  In `PROJECT.json`, `map` gives the lines of every definition.

**Simplifications that keep control.**  `recogniseBatch` and batches of more than
two checks are successive steps (a pair is modelled, because atomicity shows with
two).  Setters of roles and addresses are left out.  `Checkout` has one token and
one recipient per merchant and domain; what `originate()` also asks of the
underwriter, the screening and the pause flags is a reason not to take the
step, and the step is always optional.  The late flag of a plan stays FALSE there:
marking is the pool module's subject.  A digest is the tuple it digests, which says of
`keccak256` exactly what the code relies on.  The indexer's library is modelled from its
use: in order, once, and stopped by a throw.  Wording, layout and transport details
are left out.

## 3. The runs

Eleven runs pass, each within three minutes on two cores; one finds the code against a
statement of its comments.

| Run | Distinct states | What it asks |
|---|---|---|
| `plan_books` | 263 760 | two checks, every interleaving of keepers, borrower, merchant, contract wallet, outage and stray transfer |
| `plan_liveness` | 113 272 | with an honest keeper every check reaches an outcome; with a persistent payer the debt reaches zero |
| `pool_book` | 240 285 | two loans, losses, provisions, cures, marking in any order |
| `pool_shares` | 485 050 | two lenders, one loan, three epochs |
| `pool_epochs` | 216 476 | the epoch job against the pool, with a venue that pays and calls that fail |
| `checkout_settles` | 61 006 | a merchant's life with two sales, settlements in escrow, a domain denied |
| `checkout_recovers` | 155 864 | sales repaid, refunded, disputed, defaulted; three recognition cranks |
| `keeper` | 150 693 | a pass of the keeper against a rival, an outage and the borrower |
| `indexer` | 596 422 | contracts, logs, handlers, poller and API, one plane at a time |
| `plan_index` | 64 879 | the plan contract driving the handlers |
| `operator` | 1 924 403 | the services of the operator process and the pages, one at a time |
| `epoch_stall` | | violated on purpose: section 7, number 6 |

### What the properties say

*Plan* (`plan_books`, `plan_liveness`).  `ValueConserved` and `EscrowIsTheOnlyFloat` tie
together five counters and a token balance that eight functions move.
`DebtIsSettledOnce`: no more face value is Cleared than money came in, and when
principal is gone nothing is left to pull or mark.  `BooksFitTheState`: the bounties that
may be drawn from the escrow over and over never eat what the marks need, a repaid or refunded
plan owes nothing, one settled with its fee outstanding owes that fee alone, and a plan that owes principal and was never
refunded keeps an unpaid check for the charge-off clock.  `OneLateFee`
and `OutcomesAreFinal` are what they say.  `RepayAndCollectCommute`: pull and push in either
order leave the same books.  `KeepsItsPromise` is the refinement of `PlanPromise`.
`EveryCheckIsAccountedFor` and `PayingAlwaysConverges` are liveness.

*Pool* (`pool_book`, `pool_shares`, `pool_epochs`).  `TheBookIsExact` is the identity the
source states for itself, and every incremental total compared with the sum it stands for.
`MarkPhaseCompletes` and `RecognitionIsExact` evaluate the operators at every reachable
state: the walk ends, a second recognition changes nothing, a cure gives back what the
delinquency took.  `LendersAreCovered` explains the token balance to the last unit and says
that what lenders can still claim, in any steps, is there.  `ClosesAreFair`: no close
dilutes those who stay or pays junior through its floor.  `EpochsCloseOnWhatThereIs`
composes the job with the pool: claims never exceed holdings where a venue pays between
the job's reads and its close, and every epoch closes.

*Checkout* (`checkout_settles`, `checkout_recovers`).  `LedgersAgree`: whichever of three
cranks recognises first, the exposure a bond is sized on is at least the paper, and five
token balances, the pool's included, are what five books say.  `WithheldIsInTheBond`,
`OnlyASlashUncoversABond`: the bond through deposits, withholdings, withdrawals, slashes,
originations and recoveries.  `VelocityIsBounded`: the leaky bucket over every stretch of
time.  `SettlementsDoNotStrand`: the unattested goes back, the attested is paid, the queued
is dispatched.

*Keeper* (`keeper`).  `OneKeeperIsEnough`: with one keeper that goes on passing, every check
reaches an outcome, the plans behind this one in the list are reached, and what the
keeper recomputes off chain is what the contract computes.  `PaidWhatItReckoned`: the
bounty it ranked on is paid, unless somebody moved the plan meanwhile.

*Indexer* (`indexer`, `plan_index`).  `PayoutsFollowTheMoney`: log order alone pairs a
router's planless logs with the right plans.  `EarlierBurnsAreDone`: the cursor passes no
block with an outstanding burn.  `CapitalReadsTheBooks`, `TheIndexKeepsUp`: two pools
are kept apart, a provision and its release cancel, pause windows are the outages, no log
order makes a handler throw, and every configured source is decoded.
`TheIndexIsTheContract`, `DebtIsNeverUnderstated`: the plan's row is the plan, where it
claims to be, and what it does not hear of makes it late on the safe side.

*Operator* (`operator`).  One property per service, each a conjunction stated in the
service's own module: `SessionsHold` (`SessionsAreWhatWasSigned`), `KeysHold`
(`KeysDoWhatTheyMay`), `HooksHold`, `NoticesHold` (`BorrowersAreTold`), `AuditHolds`
(`LogIsEvidence`), `CorridorHolds` (`TripsAreWarranted`, `MidsAreHonoured`), `ScreeningHolds`
(`TheListIsKept`), `RelayerHolds` (`TheRelayerOnlyBacksUp`), `LimitsHold` (`UnderwritingHolds`,
`EveryScoreIsEarned`, `FiguresAgree`), `PagesHold` (`EmbedIsHonest`, `MessageIsHonest`).  Where the code does
not do quite what its comments say, the property is the part that holds, and section 7 has the rest:

* *Sessions.*  The index of a posted authorization is `Number()` of a piece of the path, and the two comparisons
  refuse neither NaN nor a fraction (`InRange`, `NotIntegers`); of the body only the payee is
  compared, so any signature may come with it (`PostedSignatures`, `Forged`).  Such a key counts towards a
  complete strip.  Hence `StateTellsTheSignatures` says what ready means in terms of
  keys, and a whole strip where no such key was taken, and `HandedStripsAreWhole` that what is handed out has
  exactly the plan's installments, each taken for that index and answered 200, and is as drawn where
  the client posted what it was asked to sign.
* *Webhooks.*  An attempt is guarded in one step and connects in another, and the name may move in between; so
  `PostsWereChecked` speaks of the addresses that attempt found.  `AcceptedMeansProcessed` bounds the processings of
  a body at an endpoint from both sides: at least the rows that say accepted, at most the deliveries asked for.
* *Notices.*  A contact is told once (`ToldOnceUndisturbed`), whatever failed and however often the scheduler
  fired, unless two dispatches were at that notice together or one that had sent lost its row.
* *Corridor.*  A poll starts its count of failures at nothing.  `QuietMarketsStayOpen` is about a market that answers,
  has stood still since this poll began and is inside every band, after any failures in earlier windows;
  `OutagesAreThisPollsOwn` about a trip as an outage being what this poll's two legs found.
* *Limits.*  `AttestedIsTheChains`: what is signed is the chain's answer in that decision to that person, identity class
  and signer, however the reads overlap.  `LimitIsEarned` is about the rows that very decision read, with the
  count of payments the other way as it stood when each row was written; `EveryScoreIsEarned` compares
  `tier1.ts` with a reference definition over every small set of rows.

### Bounds, and why they are enough

* **Plan**: two checks of 2 and 1 (so the remainder rides on the first, a second
  check exists to be left over, and a batch exists), amounts up to 4, four ticks (`MaxTime`):
  enough for both due dates, a grace window, the authorization window, charge-off
  and a suspension in between.  The constants keep the order of the source's
  figures (jitter < interval, grace < interval < charge-off).  One outage and one
  stray unit: a second one repeats the first.  The liveness run takes an
  externally owned account, a jitter of -1 and no refunds: a refund can only retire
  debt sooner, except in the way section 7 describes.  What these bounds leave open is
  closed by the proofs, which have no bounds.
* **Pool**: figures are divided (basis points of 4, prices in hundredths or tenths), so
  every rounding happens on small numbers.  Two loans on one merchant and two corridors
  for the paper, one with bounties and a discount, seeds of 2 and a reserve of 4, and walks
  of one plan at a time (`MarkLimits = {1}`), which is the finest a walk can be cut; two
  interchangeable lenders (symmetry is sound: no definition names one) and three
  epochs for tickets that are filled in parts and claimed late.  The two sides meet
  in `pool_shares` through one loan.  The epoch job takes batches of two and one refused
  call, in any place.
* **Checkout**: one merchant, two sales.  `checkout_settles` takes three ticks, so that
  a merchant is new at two and seasoned at the third, two domains one of which
  may be denied, and nobody repays; `checkout_recovers` takes one domain, two ticks
  and lets one of the sales be repaid in parts, refunded or lost.  `Moving`,
  `Contested`, `Verdicts`, `Deniable` name what the environment of a run does; all
  actions fire in one run or the other.  The instances are split because the
  timestamps of five contracts multiply.
* **Keeper**: the plan of `plan_books` with an externally owned account, and one move of a
  rival within a pass (`MaxRivalMoves`): a pass that was overtaken once ends or goes on,
  and a second rival move meets the same decisions.
* **Indexer**: `MCBlocksIn` gives each plane the blocks its longest story needs (three for a
  reading of the sweep, six for an outage that trips twice); `MaxLag = 0`, because a step of a
  contract and `HandleLog` touch disjoint variables and commute, so handling at once reaches
  every state of the tables that handling late does.  Two plans, two tokens, two domains and
  two burns in a block give every ambiguity the stitching has to resolve; two polls
  (`PollBound`) give one that stops short and one that resumes.
* **Operator**: every service gets two of whatever can overlap: requests, calls, senders,
  dispatchers, commands; `SendBound`, `RecordBound`, `MessageBound`, `SecretBound`,
  `EntryBound`, `PostBound`, `StrayBound`, `ReloadBound` cap what is appended.  A session of this run has two
  installments, one key that is no index, a signature other than the drawn one at that key and at index 0 (`ForgedAt`), and a lifetime
  that ends within `SessionTime`; the page asks for four signatures.  Two notices of the ladder come due by
  `NoticeTime`; `SendBound` (all sends together) and `RecordBound` leave room for a send that
  is repeated and one whose row is lost.  The webhooks have two merchants, two destinations and two senders, and take two emissions or
  replays (`AskBound`), two ids and two secrets; an endpoint that has begun to fail is delivered to like an active one, so
  the run takes only the age at which it is disabled (`FailureAges`).  `PaymentBound` is three inflow rows, enough for two months and two payers with one row to exclude; the rows
  a decision may meet are of one value (`Written`), while `EveryScoreIsEarned` takes every mix of `Values`.  A new sender of the webhooks takes
  a free name and a new destination a new id, which name nothing in the code, so neither is tried twice under two names.
  `MCOperator` explores one service per behaviour (`focus`), which loses nothing: no service
  reads a variable of another.  `FigureBound` bounds the amounts over which the pure figures
  are compared, every combination of them.
* Every unbounded counter has a named bound: the above, and `MaxOutages`, `MaxDonated`,
  `MaxEpoch`, `MaxBond`, `MaxRebates`, and the sets of amounts.

`CHECK_DEADLOCK FALSE` throughout: clocks and lists are bounded, so every exploration
ends, and a plan that is repaid really stops.

## 4. Fairness

* `TimedSpec` (plan): time passes and no outage lasts for ever; the pause is the
  token administrator's and outside the code, so this is an assumption.
  `HonestKeeper` is weak fairness of marking and resuming: each of those pays a
  bounty from the escrow, which is the code's own reason why somebody makes the call.
  It is a hypothesis of the property, not part of the specification.  Nothing is
  assumed of `collect()`.  `PersistentPayer` is weak fairness of `repay()`.
* `KeeperSpec`: a process that goes on passing, and again no outage for ever.  That the
  process is restarted after a pass that died is its own loop (`packages/keeper/src/keeper.ts`).
* `JobSpec`, `RecognisedSpec` (epoch job): the job is scheduled again and again, time passes, a
  call is not refused for ever and every late check is marked in the end; `RecognisedSpec` adds
  that somebody recognises what was lost, which is the assumption `epoch_stall` shows to be needed.
* `FairSpec` (checkout): time passes, and whoever has an interest in a permissionless
  exit (`release`, `refundToPool`, `dispatch`) takes it.  Nothing is assumed of the merchant's
  attestation, of the arbiter, or of recognition.

The services have no liveness property: what brings a job, a request or a poll back is a
queue or a caller outside the code.


## 5. What is proved

`tlapm` checks these from nothing, for every value of the constants that the assumptions
below allow: any number of checks, plans, merchants, domains and lenders, any amounts,
any windows, no bound on time.

| Theorem | In | Run that checks it on an instance |
|---|---|---|
| `PlanTypes`, `PlanConservesValue`, `PlanHoldsNoFloat`, `PlanChargesOneLateFee` | `InstallmentPlanProofs` | `plan_books` |
| `PlanSettlesDebtOnce`, `PlanFitsItsState` | `InstallmentPlanProofs` | `plan_books` |
| `PlanOutcomesAreFinal` (an action property) | `InstallmentPlanProofs` | `plan_books` |
| `PlanKeepsItsPromise` (the refinement of `PlanPromise`) | `InstallmentPlanProofs` | `plan_books` |
| `PlanInflowsCommute` | `InstallmentPlanProofs` | `plan_books` |
| `BondCoversWhatWasWithheld` | `CheckoutProofs` | `checkout_settles` |
| `LedgersAlwaysAgree` | `CheckoutProofs` | `checkout_recovers` |
| `SlashesAloneUncover` (an action property) | `CheckoutProofs` | `checkout_settles` |
| `VelocityStaysBounded` | `CheckoutProofs` | `checkout_settles` |
| `LendersAreAlwaysCovered` | `TranchedCreditPoolProofs` | `pool_shares` |
| `PoolClosesAreFair` (two action properties) | `TranchedCreditPoolProofs` | `pool_shares` |
| `MarkPhaseAlwaysCompletes` | `TranchedCreditPoolProofs` | `pool_book` |
| `RecognitionIsAlwaysExact` | `TranchedCreditPoolProofs` | `pool_book` |
| `BookStaysExact` (two of the three parts of `TheBookIsExact`) | `TranchedCreditPoolProofs` | `pool_book` |
| `CashIsAlwaysThere` | `TranchedCreditPoolProofs` | none: it is what the others add up to |
| `SessionsAlwaysHold`, `KeysAlwaysHold`, `HooksAlwaysHold`, `CorridorAlwaysHolds`, `ScreeningAlwaysHolds`, `RelayerAlwaysHolds`, `PagesAlwaysHold` | `OperatorProofs` | `operator` |

So every property of `plan_books`, `pool_book` and `pool_shares` is a theorem, but for one part of `TheBookIsExact`,
every property of the two checkout runs but the liveness one and seven of the ten of `operator`.

**Assumptions.**  `TermsAssumption` and `ParamsAssumption` (`PlanLogic`) ask of a plan what
`initialize` and the registry's bounds ask: at least one installment, a positive
principal, an interval wider than the schedule's jitter, natural fees and windows, a positive divisor.  `InputsAssumption` (`InstallmentPlan`) says
the amounts callers pass are positive.  `PoolPartiesAssumption` says that plans and merchants are finitely many,
as addresses are, and `PoolTermsAssumption` and `PoolParamsAssumption` (`PoolLogic`) what the router and the
factory check of a sale.  `TrancheParamsAssumption` and `LendersAssumption` (`TrancheLogic`) give the
lender side's parameters their types and say that lenders are finitely many. `MerchantParamsAssumption` and `CheckoutAssumption` give the registry's
parameters and the inputs their types.  TLC evaluates each of them in the runs.
`SessionAssumption` (`CheckoutSession`) and `KeysAssumption` (`MerchantKeys`) give the session's and the limiter's figures their
types, the first also that what `Number()` makes of a path beside integers is no integer and the marker of the acceptance is no index;
`HooksAssumption` (`Webhooks`) says that finitely many deliveries are under way, and `NoneAssumption` and `UnsetAssumption` that the marker for
an absent row or column is no row, number or name.  `CorridorAssumption` (`CorridorBreaker`) says that par is a rate, that rates and
windows are numbers, and that the guard's tolerance is less than the whole, as the registry keeps it; `FreshnessAssumption` and `FeedAssumption` (`Screening`) that
the refresh age is more than a day below the router's limit, as five days are below seven, and that the feed leaves no account out.
`EmbedAssumption` (`CheckoutEmbed`) says that a sibling window is none of the drop-in's frames, `MessageAssumption` (`ProductMessage`) that the
figures are numbers, and `RelayerAssumption` and `RefsAssumption` (`Relayer`) that due dates and floors are numbers, a batch is of at least one and the checks are finitely
many.  `RelayerAlwaysHolds` has one hypothesis more, `Cardinality(Refs) < 20000`, because `keeperShare` rounds: of
20000 collections or more, one by the operator rounds away and the third-party share reads 10000 bps.  `VelocityStaysBounded` has one hypothesis more, `VestingBps # 0`, and means it: with a rate of 0,
which the registry's bounds allow, `isNew()` is never true and there is no cap to hold.

**One plan.**  `IInv` is `WorldOK` with `Sound(plan, donated, Float, now)`: the types, the
conservation equations, and the token balance as escrow plus what strays.  A handler moves
money through intermediate records in which the last equation is off by what is about to be
forwarded or paid, so `Sound` takes that amount as a parameter; each operator has a lemma saying
which float it takes and which it leaves, an action's lemma chains them, and `NextIInv` has one step per action.

**Its outcomes.**  `Sound` is not enough for what a plan *settles*: nothing in it joins the
statuses of the checks to the money.  `Fits(p)` does.  What is retired bounds the bounties that can have been
paid; what is cleared bounds, by face value, the money that came in; a debt of nothing
leaves no check to pull; the escrow of a plan that is not defaulted covers the marks still to be made.
Within a call the last conjuncts fail until the state settles, and `Tidy(p)` is the part that
holds throughout.  `PlanSettlesDebtOnce` and `PlanFitsItsState` follow from the two; `Onward(p, q)`, what no call
undoes, is proved of each handler along the way and gives `PlanOutcomesAreFinal`.
For `PlanKeepsItsPromise`, the initial states map to initial states under `BookView`, and each
action is a step of the abstract plan or a stutter, the bounds `WithinTerms` coming from `Fits`.
`PlanInflowsCommute` shows a pull and a push to be the same waterfall of one amount (`PullIsAnInflow`, `PushIsAnInflow`),
two of them to be the waterfall of the sum, and the state to be decided by the books.

**Sums.**  The books of a pool are compared with sums over its paper, and the community
modules define such a sum by a recursive function with a `CHOOSE` in it.  `PoolLogicProofs` gets at it
without an induction theorem: a set of natural numbers, or of finite subsets, that is not
empty has a smallest member (`FS_StrictSubsetOrderingWellFounded`, `WFMin`), so a sum that
went wrong went wrong first at some subset, and that one can be looked at (`SmallestSubset`).
From there: a sum moves with the one term that moves, by as much (`SumMoves`); a part never exceeds the
whole (`SumOfPart`).  The recursive functions of a step count, the mark walk and the claim walk, are met the
same way (`WFMin` on the steps): a walk that broke the invariant broke it first at some step (`WalkKeeps`).

**The pool.**  `PoolInv` is `Core(book, desk, view)`, the reserve being natural with the rest.  It joins two
invariants and one equation:

* `BookInv(b)`, the loan side: claims, cash and venue natural; the receivables, the deferred income, both concentration
  ledgers and both views of the provisions *sums* over the plans; `openPlanList` and the slots inverse of each other;
  the counters cardinalities; a provision made up of what it took from each layer.
* `DeskInv(d, epoch)`, the lender side.  Tickets of one lender are apart in share space and joined to the queue;
  fills cut the queue into slices, in order; what an epoch's depositors are owed, each rounded down, is no more than was minted;
  and what the unclaimed units of all fills are worth is at most `pendingRedemptionAssets`.  The
  last is the one that is not visible in the code: a claim walks fills and pays each
  slice of a ticket rounded down, so what remains set aside has to be bounded fill by fill, over the *units* of
  the queue rather than its tickets and rounding up (`Slice`, `Worth`), for a claim of part of a ticket to leave the bound true.
* `Lenders(b, views)`, the balance less the booked cash less what plans forwarded and the pool has not recognised, equals
  the deposits and redemptions pending.

They cannot be proved apart.  `_fillQueue` prices shares on the claims that recognition moves;
`deployBuffer` keeps back `pendingRedemptionAssets`; what `cancelDeposit` and `claimRedemption`
pay comes out of the balance that `front` lends from.  Every operator of the loan side has a lemma that it keeps
`BookInv` and says by how much it moves cash and balance (`Moves`); every one of the lender side says by how much it moves the two
pending amounts (`DeskGoes`); `CoreMoves` joins them when the amounts agree, and `PoolSteps` has
one step per action.  `LendersAreAlwaysCovered`, `BookStaysExact` and `CashIsAlwaysThere` are read off `PoolInv`.

For `PoolClosesAreFair` the close is followed trade by trade.  A price is a quotient, so each step compares
the *claims and shares* crosswise: minting `x * n / a` shares, rounded down, for `x`, and burning shares for
their worth rounded down, leave `a / n` no lower (`MintingKeepsPrice`, `BurningKeepsPrice`, `PriceGrows` for
the quotient); the other tranche's price does not move (`OtherPriceStays`), and so the four trades in turn lower
neither (`TradesAreFair`).  A sync that finds at least what was booked adds to claims only (`DistributeAdds`).  The
floor comes from `_spendable`, which stops junior at its share of the *larger* pool before the fill
(`SpendingKeepsFloor`).  `OnlyClosesMove` says that no other call moves the epoch or what the queues were paid.

For `MarkPhaseAlwaysCompletes` a step of the walk either moves the cursor past a plan it has marked or closes the
plan under the cursor, whose slot the last plan of the list then takes (`Vacated`): the list is one shorter
and the cursor stays (`MarkStepGoes`).  Either way what is behind the cursor stays marked once it is
(`MarksStay`).  So `EndsWithin(b, m)`, that what is behind the cursor is marked and at most `m` steps remain to
the end of the list, or that at most `m` remain of that and one more round, holds of `m - 1` after a step
(`StepsToTheEnd`); a cursor at the end with everything behind it marked has marked the whole list, and the counter
says so (`MarkedToTheEnd`, by `FS_Injection`).

`RecognitionIsAlwaysExact` is about rounding.  A release gives each tranche its share rounded down and the reserve the
rest, as far as the reserve gave; what it keeps back is one unit at most, and then the reserve has had
all of its own while both tranches still wait for some of theirs (`RoundingKeepsOne`), so that a release of that unit gives
nobody anything (`ReleaseSettles`).  A provision that could not be taken in full has emptied every layer (`TakeSettles`).  In both
cases a provision brought to what is wanted stays where it is when it is brought there again (`SyncSettles`);
accrual and mark state of a plan that has not moved change nothing (`AccruedAgain`, `MarkedAgain`), hence
`RecognisedOnce`.  A plan that is calm holds no provision, and one taken and released in full leaves every claim where it was
(`CalmHoldsNothing`, `CureGivesBack`), hence `CureLeavesNoTrace`.

**The checkout.**  `LedgerInv` has one group of conjuncts per contract: exposures against
sales, escrow rows against the custodian's tokens, the queue against its own, rebates
against theirs, the pool's balance against its booked cash and what plans forwarded unseen.  The three
recognition cranks differ in which of the ledgers they tell, so the exposure can only be bounded from below: the pool's crank lowers the paper and leaves the
exposure where it was.  For
`SlashesAloneUncover`, a merchant is no less safe after a step in which its requirement
grew by no more than its free bond (`Safer`, `RequirementGrows`), and of all steps only an executed dispute is
not of that kind.  For `VelocityStaysBounded`, `MeterInv` says, for every earlier moment since the
merchant began, that what was sold since is at most the level of the bucket, less what it then
held, plus what leaked in between; `LeaksAdd` is needed because the leak is rounded at
each sale and roundings must not add up in the merchant's favour.

**The sessions.**  A handler writes back the row it read, whatever was written in between, so what holds of a
row has to hold of every copy under way (`IsCopy`), and one signature must keep it of a copy (`AuthorizationKeeps`,
`AcceptanceKeeps`), however stale.  Three facts carry it.  The store converts field by field, and what comes back is
what went in, offers and amounts included (`SessionBack`).  What a row or a copy carries was answered 200, for that
session and at that very item (`KeptFor`), and an answer is never taken back, so a put-back
may lose a signature but cannot bring in one of another index.  And a strip has as many keys as
installments exactly when it lacks as many indices as it has keys that are none (`StraysByCounting`), which is all that the
service's counting can tell; `FinishAuthorizationKeeps` covers every body the code lets through.

**The keys.**  `KeysInv` is about what a request holds while it awaits.  A rotation under way keeps its own row of
the merchant the key belongs to (`RotatesItsOwn`), so the key it issues late is still that merchant's, and a stamp once
in force is never lifted (`RevokedFor`).  For the limiter, the row of a window bounds what was let
through in it only while no later window has a row (`Within`): a sweep for a later row deletes it, and a request that
read the clock before then opens it again at the full limit.  What is let through from then on is a straggler, and that
a later row exists is never undone, because a sweep is made for a row no older than the one it
deletes (`SweepsForARow`).

**The webhooks.**  Nothing ties a row of the log to the receiver but the id the message went out under, and the
row is written after the post by a process that may die between the two.  So `HooksInv` counts ids.  Each is drawn
once, is on its way in one sender or in one row (`OnceInHand`, `OnceInLog`), and nobody has seen it before it is
posted (`UnseenYet`): that is what makes an answer of 200 mean that the receiver acted and did not merely
recognise an old id, and it is the reason a replay must draw a new one.  Those acknowledged for a
destination and a body, in a row or in the hands of a sender whose answer has come, are no more than the times
its receiver acted on that body (`Counted`); a lost answer or a crash only lowers the count.  Rows have different
ids, so there are no more of them than acknowledged ids.  The bound from above is `HooksAsked`: what a receiver has acted on and the senders that
still owe it that body (`Owers`) are together no more than was asked for.  A sender owes a destination a body once (`OwesOnce`),
its queue naming each destination once, so that acting on a post discharges it.

**The corridor.**  `CorridorInv` is one invariant per actor.  Of the poll, that it has counted exactly its own legs that came
back empty (`TalliesItsLegs`), a retry and the next window starting at nothing (`FinishKeeps`), and that as long as the market has stood still
since it began, the legs it has read show the market as it is, its silence included (`LegsShow`): so a count of failures is what this poll saw, and
of a market that stood still the verdict is about that market.  Of the signer, that
no mid outlives the cap it was signed under and that only a process with a key quotes (`SignInv`); governance may lower the cap
afterwards, and the mid is then refused.  Of the fills, that each session has one, numbered in order, so
that the last accepted mid is that of the latest fill, and that each paid what its mid promised to within the guard's tolerance
(`FillInv`); the guard's floor is a quotient rounded down, and `FloorsLoseLittle` bounds what that gives away.

**The screening list.**  `reconcile` is handed the feed once and the chain is read account by account, so nothing relates
the two at the end of a run unless each update is followed: it is still to be read, still to be written, or true of the chain
(`Kept`), and the updates under way are of one mind about every account (`OneWord`), without which a batch that
lists an account twice could write either word.  A run that ends has seen every account (`NobodyLeftOut`), and so leaves each
screened that day or within the refresh age; a run that dies leaves what the last finished one did (`Recent`).  That and the schedule, at most one day
missed, give the margin: the refresh age and two days are no more than the router's limit.

**The relayer.**  The floor is read before a pass and may move during it, and so may every balance and every other keeper, so nothing
about the pass makes its calls land late: the gate does, and `BooksFit` joins each collection to the floor in force when it came in.  It also joins it to the
check's status, which is why two collections of one check are one; that makes `collections` no larger than `Refs`, and
`ShareMeansAll` then reads the rounded share.  `PassFits` follows the pass itself: what it has answered for and what it has still to send are
together what it set out to crank, through batches that revert.

**The pages.**  A message outlives the document that posted it, so `EmbedInv` holds what each message says against the
furthest step its frame has ever spoken of, which only grows, and no frame is opened twice (`SaidInFrame`).  The first words of a frame
that has not been reloaded still have their open to come (`FirstWordsFit`): only its one load can have used any.  On the product page each line's
figure is one the router gave for the wallet it was rendered for (`LineFits`), and a read that comes back after a newer render fills a line that is no longer shown.

## 6. What is only model-checked, and why

* **Liveness**: `EveryCheckIsAccountedFor`, `PayingAlwaysConverges`, `OneKeeperIsEnough`,
  `SettlementsDoNotStrand` and the liveness half of `EpochsCloseOnWhatThereIs`.  They need
  `ENABLED`, which the prover does not expand.
* **The pool**: the first part of `TheBookIsExact`, `ClaimsEqualHoldings`.
  It is not a theorem at all: a loss larger than all
  capital is clamped by the waterfall, and a venue's gain that is recalled before it is synced has no claimant
  (section 7).  It holds where the run looks, with no venue and losses that capital bears.
* **The indexer, the keeper and the operator**, but for the sessions, keys, webhooks, corridor,
  screening list, relayer and pages.  The indexer's invariants are about the replay of a log; those of the notices, the audit chain and the limits are about folds
  and sorts of sequences; a proof of each would be an induction over data.  They are small-scope properties (two of everything
  that can overlap), and TLC explores those scopes whole.

## 7. Where the code and its documents differ

`findings` in `PROJECT.json` quotes the lines.  Number 6 has a run of its own, `epoch_stall`.  The
statements of the others are definitions that no configuration lists, because they do not hold:
add one to a configuration and TLC prints the behaviour.

*Contracts.*

1. `GraceNeverShrinks`: a halted plan that a keeper cranks before anyone calls
   `resume()` loses its suspension, and its grace windows move back.
2. `DelinquencyNeedsArrears`: a bounced check that was paid by push inside grace can still
   be marked missed, with the fee and the delinquency that follow.
3. `DebtKeepsAClock`: a partial refund that is not a multiple of an installment can
   retire every check while principal is left; nothing then collects or charges it off.
4. `ClaimsEqualHoldings` with a venue: recalling a position that has gained books cash
   nobody is credited with.
5. `DepositsKeepTheFloor`: junior money admits senior money and then leaves.
6. `MarkingUnblocksTheClose` (run `epoch_stall`): once the walk of an epoch is complete, marking
   a plan does not lower the count that holds the close up; somebody must recognise it.

*Services.*

7. `AcknowledgedSignaturesAreKept`: two posts for one session overlap and the second put
   writes the first one's signature away.
8. `NoBurnIsAbandoned`: of two burns in a block the outstanding one is passed when the other is
   done.
9. `MessagesPayTheirPlan`: two dispatches in a transaction share one attestation.
10. `ReleasedAreClosedOut`: the row of a settlement released from escrow never matches its dispatch.
11. `GraceNeedsNoReReading`: the index reads a grace end once, and a resumption moves it.
12. `RotatedSubjectsHaveNoRows`, `RecordShowsTheCounters`: a salt rotation leaves marks and
    consents of the old subject, and restarts the counters shown.
13. `BondShownIsTheBond`: bonds that leave the registry are not in the event schema.
14. An act whose audit line was lost: `perform()` acts, then appends.
15. `RefusalsAreNotOutages`: a venue that declines trips the outage breaker.
16. `SnapshotsReadTheChain`: `pausedOnChain` is what this poll did, not what the chain says.
17. `OnePausePerWindow`: a job retried after a throw pauses again.
18. `NoSignedMidIsRefused`: lowering the lifetime parameter refuses mids already signed.
19. `ProposedCranksDoNotRevert`: a pass can collect a check and then try to mark it.
20. The epoch job throws when a reading of it is refused, where its comment says it never does.
21. `EveryLateCheckIsReached`: charged-off plans with money in the wallet fill the relayer's batch.
22. `EveryPageIsOpened`: a page reloaded before its script spoke is never told to open.
23. `LeavingLosesNothing`: a ceremony left half way starts over.
24. `FramersAreTold`: the page posts to the first configured origin only.
25. `ReadyMeansNothingIsOutstanding`: an index that is NaN or a fraction is stored and counted, and a session is
    ready with an installment outstanding.
26. `EachNoticeGoesOutOnce`: two dispatches that overlap, or one that died before its row, send a notice twice.
27. Failures of earlier windows: `priorFailures` is passed by nobody, so an outage threshold above two never trips, and a
    leg that answers does not reset the count.

Met while modelling, and stated nowhere else: the exposure of a merchant never comes down for
what the pool's own crank recognised.  A settlement that was attested and whose domain is then
denied can leave the escrow by neither exit (`SettlementsDoNotStrand` excepts it).
`canOriginate()` quotes the withheld part on the principal and `originate()` withholds on the
net.  A slash whose bond has shrunk reverts whole.  `initialize` takes a first due date in the
past, so a plan may be late from birth (`PlanView` lets it).  Governance may set
`MERCHANT_VESTING_BPS` to 0 (`ParameterRegistry.sol:206`), and then nobody is new and nobody is
capped.  `plan.totalCollected` of the index sums the faces of cleared checks and ignores pushes;
an installment that is resolved or suppressed emits nothing, so its row stays Pending.
`keeperStats.bountyEarned` is never added to.  The keeper treats Defaulted as terminal, though
`collect()` still works there.  Dispatching a notice covers send and record with one `try`.  Two
`rotateSigningSecret` calls that overlap lose a secret.  The `Stale` trip of a corridor is
unreachable.  A screening update of more than 200
accounts can be half applied.  The bounce, receipt, delinquent and shortfall notices, the
corridor poll and the FX composition have no caller outside tests; the hosted page sends neither
`complete` nor `cancelled` and never listens for `plazo:open`.

The inflow tables that `tier1.ts` reads have no writer in the repository: the model takes `sentToCount` as it
stood when a row was written, which is what `tier1.ts` and the schema ask of a writer, and a payment to a counterparty
made afterwards does not reach the rows already there.  `jobKey` of the webhooks has no caller, so one event emitted twice is two
deliveries.  `ssrf.ts` documents that `fetch` resolves a name again after the guard did; `PostsLandWhereChecked` (`Webhooks`)
states what that leaves open.  A contact to whom a notice could not be sent is not tried again once it was sent to
another contact of the borrower, and the notice is not shown as missed.

## 8. Plan

Done: the contracts, the keepers, the indexer, the services and the pages, and the proofs of
section 5.  Next, in this order:

1. Proofs: `EarlierBurnsAreDone`, and the sources of `BookIndex`.
2. The person ledger of `Tier0Underwriter` and the cohort of `FirstPaymentDefaultSwitch`,
   modelled with the sales of `Checkout`.

## 9. Not modelled, and why

* `PlanFactory`, `CloneAddress`, `ReceivableToken`: creation is one transaction that leaves an
  initialized plan or nothing; address derivation has no state that later steps race on.  Ids,
  digests and acceptances are in `PlanCore`.
* The person ledger of `Tier0Underwriter`, the tier decisions and payroll sweeps of
  `underwriting/`, the cohort of `FirstPaymentDefaultSwitch` and the ring of marks of
  `PlazoPassport`: `Checkout` leaves open whether a sale is admitted, so its properties hold
  under any of their answers; what they *log* is in `BookIndex`.
* Owner-set tables (`EligibilityRegistry`, `PoolRegistry`, `JurisdictionRegistry`,
  `MerchantCurrencyRegistry`): look-ups.
* `ParameterRegistry`: parameters are constants here, but for the two that the FX service and
  the relayer read again while they move (`Govern`, the gate delay).
* Currencies: the crossing in `originate()`, the AMM's pricing.
* Read-only query routes, response schemas, start-up and shutdown of the operator process.
* The merchant, lender and landing apps (they render what the index serves), deployment
  scripts and live verification: pure I/O.

## 10. Running it

    cd tla
    tlc -workers 2 -config MCInstallmentPlan.cfg MCInstallmentPlan
    tlc -workers 2 -config CheckoutSettles.cfg MCCheckout
    tlc -workers 2 -config Operator.cfg MCOperator
    tlapm --threads 4 InstallmentPlanProofs.tla
    tlapm --threads 4 CheckoutProofs.tla
    tlapm --threads 4 OperatorProofs.tla

`runs` in `PROJECT.json` pairs every configuration with its module and properties,
`mutants` every property with a change of the code's model that breaks it.
