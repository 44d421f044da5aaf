-------------------------- MODULE CorridorBreaker --------------------------
(***************************************************************************)
(* services/fx: one corridor.  A venue quotes, the service signs a quote   *)
(* as a short-lived mid, the deviation guard floors a fill against it, and *)
(* a poll reads both directions and closes the corridor when something is  *)
(* wrong.  Every await is a step, so the market, the parameters and the    *)
(* administrator move between them.                                        *)
(* Rates are integers with One for par; FX_BPS parts make a whole.         *)
(***************************************************************************)
EXTENDS Naturals, FiniteSets

LOCAL INSTANCE FiniteSetsExt

CONSTANTS Rates, One, FX_BPS,                 \* what a venue may quote; its unit
          PAR_BAND, ROUNDTRIP, MAX_AGE,    \* governed thresholds
          MAX_DEVIATION, OUTAGE_FAILURES,
          TtlCaps, Ttls,                   \* FX_MID_MAX_TTL's values; TTLs asked for
          VenueFailures, TradeReads,       \* how the venue may fail; statuses read back
          Sessions, AmountIn,
          PollWindows,                         \* poll windows: 1..n
          FxTime, FxMoves                  \* bounds: the clock, and the world's moves

\* Par is a rate; the guard's tolerance is less than the whole (ParameterRegistry).
ASSUME CorridorAssumption ==
    /\ Rates \subseteq Nat /\ One \in Rates \ {0}
    /\ FX_BPS \in Nat \ {0} /\ MAX_DEVIATION \in 0 .. FX_BPS
    /\ {PAR_BAND, ROUNDTRIP, MAX_AGE, OUTAGE_FAILURES, AmountIn} \cup TtlCaps \cup Ttls \subseteq Nat

VARIABLES service,   \* the configuration the process started with
          venue,     \* the market: a rate each way, and whether it answers
          trades,    \* statuses of the trades read back this window
          corridorPaused, guardReverts,
          ttlCap, fxNow, moves,
          requests,  \* POST /v1/fx/quote in flight, by session
          mids,      \* every mid signed
          fills,     \* every fill the guard let through
          jobs,      \* poll jobs by window
          poll,      \* the poll that is running
          snapshot,  \* what GET /v1/fx/corridor answers, if anything
          stillness  \* nothing has moved since the poll began

market == <<venue, trades, ttlCap, fxNow, moves>>
guard == <<guardReverts, fills>>
signing == <<requests, mids>>
polling == <<jobs, poll, snapshot>>
fxVars == <<service, market, guard, signing, polling, corridorPaused, stillness>>

-----------------------------------------------------------------------------
\* config.ts and venue.ts: what the process starts with, or that it refuses to.
Environments == {"sandbox", "live"}
KeyClasses == {"TEST", "LIVE", "unknown"}
keyClassOf(key) == key
CLASS_FOR == [sandbox |-> "TEST", live |-> "LIVE"]
assertKeyClassMatchesEnvironment(env) ==
    \A key \in env.apiKey : keyClassOf(key) = CLASS_FOR[env.environment]
requireHttps(env) == env.secure
readFxConfig(env) == assertKeyClassMatchesEnvironment(env) /\ requireHttps(env)

\* What the running process is made of: with no key no venue answers, a pause
\* needs the contract's address, a signer its key and the guard's address.
Parts(env) == [keyed |-> env.apiKey # {}, pauses |-> env.originationPause,
               signs |-> env.midSignerKey /\ env.guard]
resolveFxVenue(parts) == IF parts.keyed THEN "StableFxVenue" ELSE "StubVenue"

Configurations ==
    [environment : Environments, apiKey : {{}} \cup {{k} : k \in KeyClasses},
     secure : BOOLEAN, originationPause : BOOLEAN, midSignerKey : BOOLEAN, guard : BOOLEAN]
\* One absent part at a time is enough to tell the cases apart.
Started ==
    {parts \in {Parts(env) : env \in {e \in Configurations : readFxConfig(e)}} :
        Cardinality({p \in DOMAIN parts : ~parts[p]}) <= 1}

\* stablefx.ts: an answer that validates, or one of the ways a call fails.
QuoteFailures == {"timeout", "redirect", "network", "http4xx", "http5xx", "malformed-response"}
isOutageShaped(failure) == failure \in {"network", "timeout", "http5xx"}
isSupportedPair(pair) == pair \in {<<"USD", "EUR">>, <<"EUR", "USD">>}
RateOf(pair) == IF pair = <<"USD", "EUR">> THEN venue.ab ELSE venue.ba
Answers(parts) == resolveFxVenue(parts) = "StableFxVenue" /\ venue.failure = "none"
\* A quote is a rate the venue gave, or nothing: never a substituted one.
quote(pair) == IF isSupportedPair(pair) /\ Answers(service) THEN {RateOf(pair)} ELSE {}

-----------------------------------------------------------------------------
\* breaker.ts: six reasons to stop, decided from one poll's observations.
DISTRESS_STATUSES == {"breaching", "breached"}
TradeStatus == DISTRESS_STATUSES \cup
    {"pending", "processing", "settled", "failed", "cancelled", "expired"}
Apart(a, b) == IF a > b THEN a - b ELSE b - a
deviationBps(value, against) == IF against = 0 THEN 0 ELSE (Apart(value, against) * FX_BPS) \div against
roundTripDeviationBps(ab, ba) == deviationBps((ab * ba) \div One, One)

\* What this instance lets the venue do is among what it can.
ASSUME VenueAssumption == VenueFailures \subseteq QuoteFailures /\ TradeReads \subseteq TradeStatus

TripReason == {"ParBand", "Stale", "RoundTrip", "VenueDistress", "Outage", "GuardRevert"}

evaluateCorridorHealth(input) ==
    {reason \in TripReason :
        CASE reason = "ParBand" ->
               \E q \in input.legAB : /\ input.lastAcceptedMid # 0
                                      /\ deviationBps(q.rate, input.lastAcceptedMid) > PAR_BAND
          [] reason = "Stale" ->
               LET legs == input.legAB \cup input.legBA IN
               legs # {} /\ \A q \in legs : input.now - q.at > MAX_AGE
          [] reason = "RoundTrip" ->
               \E q \in input.legAB, r \in input.legBA :
                   roundTripDeviationBps(q.rate, r.rate) > ROUNDTRIP
          [] reason = "VenueDistress" -> input.tradeStatuses \cap DISTRESS_STATUSES # {}
          [] reason = "Outage" ->
               OUTAGE_FAILURES > 0 /\ input.consecutiveFailures >= OUTAGE_FAILURES
          [] reason = "GuardRevert" -> input.guardReverts > 0}

\* The last mid a fill was accepted against; the poll's caller hands it in.
lastAcceptedMid ==
    IF fills = {} THEN 0
    ELSE (CHOOSE f \in fills : \A g \in fills : g.order <= f.order).mid.rate

-----------------------------------------------------------------------------
\* The poll: enqueued once per window, run by a worker that tries again when a
\* run throws.  observe() has no clock of its own: a leg is dated by the poll.
corridorPollJobKey(window) == window
enqueueCorridorPoll(window) ==
    /\ jobs[corridorPollJobKey(window)] = "none"
    /\ jobs' = [jobs EXCEPT ![corridorPollJobKey(window)] = "queued"]
    /\ UNCHANGED <<service, market, guard, signing, poll, snapshot, corridorPaused, stillness>>

IdlePoll == [stage |-> "idle", window |-> 0, now |-> 0, legAB |-> {}, legBA |-> {},
         failures |-> 0, trips |-> {}]

\* runCorridorPoll: its count of failures starts at priorFailures ?? 0, and no
\* caller passes any.
StartPoll(window) ==
    /\ poll.stage = "idle"
    /\ jobs[window] = "queued"
    /\ jobs' = [jobs EXCEPT ![window] = "running"]
    /\ poll' = [poll EXCEPT !.stage = "ab", !.window = window, !.now = fxNow]
    /\ stillness' = TRUE
    /\ UNCHANGED <<service, market, guard, signing, snapshot, corridorPaused>>

\* One leg: a failure of any shape is counted and never thrown.
observe(pair) == {[rate |-> r, at |-> poll.now] : r \in quote(pair)}
Observe(stage, pair, next, leg) ==
    LET seen == observe(pair) IN
    /\ poll.stage = stage
    /\ poll' = [poll EXCEPT !.stage = next, ![leg] = seen,
                            !.failures = IF seen = {} THEN @ + 1 ELSE @]
    /\ UNCHANGED <<service, market, guard, signing, jobs, snapshot, corridorPaused, stillness>>
ObserveAB == Observe("ab", <<"USD", "EUR">>, "ba", "legAB")
ObserveBA == Observe("ba", <<"EUR", "USD">>, "judge", "legBA")

Verdict ==
    evaluateCorridorHealth(
        [legAB |-> poll.legAB, legBA |-> poll.legBA, now |-> poll.now,
         lastAcceptedMid |-> lastAcceptedMid, tradeStatuses |-> trades,
         consecutiveFailures |-> poll.failures, guardReverts |-> guardReverts])

\* Mutant of Finish: the count of failures outlives the window it was made in.
FinishCounting(trips, paused) ==
    /\ snapshot' = {[healthy |-> trips = {}, trips |-> trips, pausedOnChain |-> paused]}
    /\ jobs' = [jobs EXCEPT ![poll.window] = "done"]
    /\ poll' = [IdlePoll EXCEPT !.failures = poll.failures]

CorridorSnapshot == [healthy : BOOLEAN, trips : SUBSET TripReason, pausedOnChain : BOOLEAN]

\* What a finished poll leaves to be served.  Nothing it counted goes further.
Finish(trips, paused) ==
    /\ snapshot' = {[healthy |-> trips = {}, trips |-> trips, pausedOnChain |-> paused]}
    /\ jobs' = [jobs EXCEPT ![poll.window] = "done"]
    /\ poll' = IdlePoll

Healthy ==
    /\ poll.stage = "judge"
    /\ Verdict = {}
    /\ Finish({}, FALSE)
    /\ UNCHANGED <<service, market, guard, signing, corridorPaused, stillness>>

\* The one write: sent, then read back; a service with no address detects only.
pauseCorridor ==
    /\ poll.stage = "judge"
    /\ Verdict # {}
    /\ service.pauses
    /\ corridorPaused' = TRUE
    /\ guardReverts' = 0
    /\ poll' = [poll EXCEPT !.stage = "confirm", !.trips = Verdict]
    /\ UNCHANGED <<service, market, fills, signing, jobs, snapshot, stillness>>
ConfirmPause ==
    /\ poll.stage = "confirm"
    /\ Finish(poll.trips, TRUE)
    /\ UNCHANGED <<service, market, guard, signing, corridorPaused, stillness>>

\* A run that throws, at the pause or at its receipt, is queued again.
PollThrows ==
    /\ poll.stage \in {"judge", "confirm"}
    /\ moves < FxMoves
    /\ moves' = moves + 1
    /\ jobs' = [jobs EXCEPT ![poll.window] = "queued"]
    /\ poll' = IdlePoll
    /\ UNCHANGED <<service, venue, trades, ttlCap, fxNow, guard, signing, snapshot,
                   corridorPaused, stillness>>

PollStep ==
    \/ \E window \in PollWindows : enqueueCorridorPoll(window) \/ StartPoll(window)
    \/ ObserveAB \/ ObserveBA \/ Healthy \/ pauseCorridor \/ ConfirmPause \/ PollThrows

-----------------------------------------------------------------------------
\* POST /v1/fx/quote: a key, a body, the venue, then the signature.  A refusal,
\* at the door, at the venue or for want of a signer, signs nothing.
FxRequest == [stage : {"none", "venue", "sign"}, rate : SUBSET Rates, ttl : Nat]
NoRequest == [stage |-> "none", rate |-> {}, ttl |-> 0]
Asking(session, request) ==
    /\ requests' = [requests EXCEPT ![session] = request]
    /\ UNCHANGED <<service, market, guard, polling, corridorPaused, stillness>>

PostQuote(session) ==
    /\ requests[session].stage = "none"
    /\ \E ttl \in Ttls : Asking(session, [NoRequest EXCEPT !.stage = "venue", !.ttl = ttl])
    /\ UNCHANGED mids

QuoteVenue(session) ==
    /\ requests[session].stage = "venue"
    /\ Asking(session,
         IF Answers(service) /\ service.signs
         THEN [requests[session] EXCEPT !.stage = "sign", !.rate = quote(<<"USD", "EUR">>)]
         ELSE NoRequest)
    /\ UNCHANGED mids

FxMid == [session : Sessions, rate : Rates, validUntil : Nat, maxTtl : TtlCaps]

\* The TTL is cut to the registry's at the moment of signing.
grantedTtl(ttl) == IF ttl > ttlCap THEN ttlCap ELSE ttl
signMid(session) ==
    /\ requests[session].stage = "sign"
    /\ mids' = mids \cup
         {[session |-> session, rate |-> rate, validUntil |-> fxNow + grantedTtl(requests[session].ttl),
           maxTtl |-> ttlCap] : rate \in requests[session].rate}
    /\ Asking(session, NoRequest)

QuoteStep == \E s \in Sessions : PostQuote(s) \/ QuoteVenue(s) \/ signMid(s)

-----------------------------------------------------------------------------
\* FxDeviationGuard.settleGuarded, called by anybody with a signed mid: a fill
\* below the floor undoes everything, the session's use included.
floorFor(rate) == (((AmountIn * rate) \div One) * (FX_BPS - MAX_DEVIATION)) \div FX_BPS
midUsed(session) == \E f \in fills : f.mid.session = session
MidTooLong(mid) == mid.validUntil - fxNow > ttlCap
Presentable(mid) == fxNow <= mid.validUntil /\ ~MidTooLong(mid) /\ ~midUsed(mid.session)
Deliverable == {(AmountIn * r) \div One : r \in Rates}

settleGuarded(mid) ==
    /\ Presentable(mid)
    /\ \E amountOut \in Deliverable :
        /\ amountOut >= floorFor(mid.rate)
        /\ fills' = fills \cup {[mid |-> mid, amountOut |-> amountOut,
                                 order |-> Cardinality(fills) + 1, at |-> fxNow]}
    /\ UNCHANGED <<service, market, guardReverts, signing, polling, corridorPaused, stillness>>
FillOutsideGuard(mid) ==
    /\ Presentable(mid)
    /\ guardReverts = 0
    /\ \E amountOut \in Deliverable : amountOut < floorFor(mid.rate)
    /\ guardReverts' = 1
    /\ stillness' = FALSE
    /\ UNCHANGED <<service, market, fills, signing, polling, corridorPaused>>

-----------------------------------------------------------------------------
\* The world: the market, the venue's health, the clock, governance, the admin.
Moves == moves < FxMoves /\ moves' = moves + 1 /\ stillness' = FALSE
PricesMove ==
    /\ Moves
    /\ \E way \in {"ab", "ba"}, rate \in Rates : venue' = [venue EXCEPT ![way] = rate]
    /\ UNCHANGED <<service, trades, ttlCap, fxNow, guard, signing, polling, corridorPaused>>
VenueFails ==
    /\ Moves
    /\ \E failure \in VenueFailures : venue' = [venue EXCEPT !.failure = failure]
    /\ UNCHANGED <<service, trades, ttlCap, fxNow, guard, signing, polling, corridorPaused>>
VenueRecovers ==
    /\ venue.failure # "none"
    /\ venue' = [venue EXCEPT !.failure = "none"]
    /\ stillness' = FALSE
    /\ UNCHANGED <<service, trades, ttlCap, fxNow, moves, guard, signing, polling, corridorPaused>>
TradesMove ==
    /\ Moves
    /\ \E status \in TradeReads : trades' = {status}
    /\ UNCHANGED <<service, venue, ttlCap, fxNow, guard, signing, polling, corridorPaused>>
Govern ==
    /\ Moves
    /\ \E cap \in TtlCaps : ttlCap' = cap
    /\ UNCHANGED <<service, venue, trades, fxNow, guard, signing, polling, corridorPaused>>
AdminResumes ==
    /\ corridorPaused
    /\ Moves
    /\ corridorPaused' = FALSE
    /\ UNCHANGED <<service, venue, trades, ttlCap, fxNow, guard, signing, polling>>
FxTick ==
    /\ fxNow < FxTime
    /\ fxNow' = fxNow + 1
    /\ UNCHANGED <<service, venue, trades, ttlCap, moves, guard, signing, polling,
                   corridorPaused, stillness>>

FxInit ==
    /\ service \in Started
    /\ venue = [ab |-> One, ba |-> One, failure |-> "none"]
    /\ trades = {} /\ guardReverts = 0 /\ corridorPaused = FALSE
    /\ ttlCap \in TtlCaps /\ fxNow = 0 /\ moves = 0
    /\ requests = [s \in Sessions |-> NoRequest]
    /\ mids = {} /\ fills = {}
    /\ jobs = [w \in PollWindows |-> "none"]
    /\ poll = IdlePoll /\ snapshot = {} /\ stillness = TRUE

FxNext ==
    \/ PollStep \/ QuoteStep
    \/ \E mid \in mids : settleGuarded(mid) \/ FillOutsideGuard(mid)
    \/ PricesMove \/ VenueFails \/ VenueRecovers \/ TradesMove \/ Govern \/ AdminResumes \/ FxTick

FxSpec == FxInit /\ [][FxNext]_fxVars

-----------------------------------------------------------------------------
\* What the market shows when nothing moves: inside every band, and answering.
InBand ==
    /\ Answers(service)
    /\ lastAcceptedMid # 0 => deviationBps(venue.ab, lastAcceptedMid) <= PAR_BAND
    /\ roundTripDeviationBps(venue.ab, venue.ba) <= ROUNDTRIP
    /\ trades \cap DISTRESS_STATUSES = {}
    /\ guardReverts = 0

\* breaker.ts, the negative control: a poll whose market stood still inside every
\* band and answered, whatever failed or moved in windows before it, never closes
\* the corridor.
QuietMarketsStayOpen ==
    poll.stage = "judge" /\ stillness /\ InBand => Verdict = {}

\* An outage is what this very poll saw: as many of its two legs unanswered as
\* OUTAGE_FAILURES asks for, and none that earlier windows or earlier tries at
\* this one left behind.  So a market that stands still and does not answer trips
\* a breaker that asks for one or two.
OutagesAreThisPollsOwn ==
    poll.stage = "judge" =>
        LET unanswered == {leg \in {"legAB", "legBA"} : poll[leg] = {}}
        IN  /\ "Outage" \in Verdict <=> OUTAGE_FAILURES \in 1 .. Cardinality(unanswered)
            /\ stillness /\ ~Answers(service) => Cardinality(unanswered) = 2

\* A snapshot calls healthy what tripped nothing; requests and mids are api.ts's
\* and mid.ts's.
FxRecords ==
    /\ \A s \in snapshot : s \in CorridorSnapshot /\ (s.healthy <=> s.trips = {})
    /\ requests \in [Sessions -> FxRequest]
    /\ mids \subseteq FxMid

\* A corridor is closed when there is a reason to, and only then.
TripsAreWarranted == FxRecords /\ QuietMarketsStayOpen /\ OutagesAreThisPollsOwn

\* mid.ts: while the cap it was signed under still holds, the guard refuses no
\* unexpired mid as too long.  (Once governance lowers the cap it does:
\* NoSignedMidIsRefused below.)
SignedMidsAreTaken ==
    \A mid \in mids : mid.maxTtl <= ttlCap /\ fxNow <= mid.validUntil => ~MidTooLong(mid)

\* A filled session was quoted by a venue that really answered, is filled once,
\* and its borrower got what the signed rate promised, less the tolerance.
FillsKeepTheQuote ==
    \A f \in fills :
        /\ resolveFxVenue(service) = "StableFxVenue" /\ f.mid.rate \in Rates
        /\ f.amountOut * FX_BPS * One + FX_BPS * One + One * FX_BPS
              >= AmountIn * f.mid.rate * (FX_BPS - MAX_DEVIATION)
        /\ f.at <= f.mid.validUntil
        /\ \A g \in fills : g.mid.session = f.mid.session => g = f

\* A quote that was signed is honoured, once, at what it promised.
MidsAreHonoured == SignedMidsAreTaken /\ FillsKeepTheQuote

-----------------------------------------------------------------------------
(* What the documentation says and the code does not do. *)

\* api.ts: "Whether the corridor is paused on chain right now. A read, never
\* inferred."
SnapshotsReadTheChain ==
    poll.stage = "idle" /\ stillness => \A s \in snapshot : s.pausedOnChain = corridorPaused

\* breaker.ts: the job key "lets graphile-worker retry without a second pause
\* transaction": a window whose corridor is closed is not judged again.
OnePausePerWindow ==
    [][pauseCorridor => ~corridorPaused \/ stillness = FALSE]_fxVars

\* breaker.ts: "isOutageShaped is what separates 'the venue is down' from 'the
\* venue said no'": only the first trips Outage.
RefusalsAreNotOutages ==
    poll.stage = "judge" /\ "Outage" \in Verdict =>
        resolveFxVenue(service) = "StableFxVenue" /\ isOutageShaped(venue.failure)

\* mid.ts: "structurally unable to sign something the guard will refuse".
NoSignedMidIsRefused ==
    \A mid \in mids : fxNow <= mid.validUntil => ~MidTooLong(mid)
=============================================================================
