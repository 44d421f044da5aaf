-------------------------- MODULE CheckoutSession --------------------------
(***************************************************************************)
(* services/origination: the checkout session.  A borrower signs one       *)
(* authorization per installment and an acceptance, in any order, over any *)
(* number of visits; the service keeps what was signed.  Every handler     *)
(* reads the row, changes its copy and writes the whole row back, with an  *)
(* await between the two, so handlers of one session overlap.              *)
(***************************************************************************)
EXTENDS PlanCore, FiniteSets

CONSTANTS
    SessionIds, Merchants, ExternalIds,
    Requests,                     \* handlers that may be under way at once
    Carts, Limits, Counts,        \* what prepare() may be asked and answer
    DEFAULT_SESSION_TTL,
    Durable,                      \* TRUE for PgSessionStore, FALSE for the map
    NotIntegers,                  \* what Number() makes of a path and `<` does not refuse
    Elsewhere, Acceptance, Forged,  \* markers: a foreign payee, not an index, not as drawn
    ForgedAt,                     \* bound: the items another signature may be posted at
    SessionTime                   \* bound: the last instant explored

ASSUME SessionAssumption ==
    /\ Carts \cup Limits \cup {DEFAULT_SESSION_TTL, SessionTime} \subseteq Nat
    /\ Counts \subseteq Nat \ {0}
    /\ Durable \in BOOLEAN
    /\ NotIntegers \cap Int = {}
    /\ Acceptance \notin Int \cup NotIntegers

VARIABLES
    rows,          \* operator.checkout_session, or the in-memory map
    refs,          \* operator.merchant_external_ref: plan id to its reference
    request,       \* what each handler holds across its awaits
    acknowledged,  \* <<session, item, signature>> answered 200
    sessionNow     \* seconds

sessionVars == <<rows, refs, request, acknowledged, sessionNow>>

SessionState == {"quoted", "signing", "ready", "originated", "expired"}

---------------------------------------------------------------------------
(* session.ts.  A strip is a function from the keys posted so far to their *)
(* signatures; an acceptance is a set of at most one.                      *)

Count(session) == session.terms.installmentCount

OpenSession(input, now) ==
    [sessionId |-> input.sessionId, merchant |-> input.terms.merchant,
     borrower |-> input.terms.borrower, state |-> "quoted", terms |-> input.terms,
     planId |-> input.planId, planAddress |-> input.planAddress,
     quote |-> BuildQuote(input.cartTotal, input.terms.installmentCount,
                          input.availableLimit),
     strip |-> <<>>, acceptance |-> {},
     expiresAt |-> now + DEFAULT_SESSION_TTL, createdAt |-> now, updatedAt |-> now]

Live(session, now) ==
    session.state \notin {"originated", "expired"} /\ now <= session.expiresAt

OutstandingAuthorizations(session) ==
    {i \in 0 .. (Count(session) - 1) : i \notin DOMAIN session.strip}

NeedsAcceptance(session) == session.acceptance = {}

IsReady(session) == OutstandingAuthorizations(session) = {} /\ ~NeedsAcceptance(session)

ResumeIndex(session) ==
    LET missing == OutstandingAuthorizations(session)
    IN  {i \in missing : \A j \in missing : i <= j}

\* recordAuthorization's refusals, in the order it makes them.  The index is
\* Number() of a piece of the path: `index < 0 || index >= count` refuses every
\* integer off the strip, and neither NaN nor a fraction inside it.
InRange(session, index) == index \in (0 .. (Count(session) - 1)) \cup NotIntegers

CanRecordAuthorization(session, index, authorization, now) ==
    /\ Live(session, now)
    /\ InRange(session, index)
    /\ index \notin DOMAIN session.strip
    /\ authorization.to = session.planAddress

\* Mutant of RecordAuthorization: a whole strip is ready, accepted or not.
RecordAuthorizationUnaccepted(session, index, signature, now) ==
    LET strip == [i \in DOMAIN session.strip \cup {index} |->
                    IF i = index THEN signature ELSE session.strip[i]]
    IN  [session EXCEPT !.strip = strip, !.updatedAt = now,
                        !.state = IF Cardinality(DOMAIN strip) = Count(session)
                                    THEN "ready" ELSE "signing"]

RecordAuthorization(session, index, signature, now) ==
    LET strip == [i \in DOMAIN session.strip \cup {index} |->
                    IF i = index THEN signature ELSE session.strip[i]]
        complete == Cardinality(DOMAIN strip) = Count(session) /\ session.acceptance # {}
    IN  [session EXCEPT !.strip = strip, !.updatedAt = now,
                        !.state = IF complete THEN "ready" ELSE "signing"]

RecordAcceptance(session, signature, now) ==
    LET complete == Cardinality(DOMAIN session.strip) = Count(session)
    IN  [session EXCEPT !.acceptance = {signature}, !.updatedAt = now,
                        !.state = IF complete THEN "ready"
                                  ELSE IF @ = "quoted" THEN "signing" ELSE @]

AssembleStrip(session) == [i \in 0 .. (Count(session) - 1) |-> session.strip[i]]

\* What api.ts answers with.
Serialise(session) ==
    [sessionId |-> session.sessionId, state |-> session.state, planId |-> session.planId,
     planAddress |-> session.planAddress, merchant |-> session.merchant,
     expiresAt |-> session.expiresAt, quote |-> session.quote,
     outstanding |-> OutstandingAuthorizations(session),
     resumeAt |-> ResumeIndex(session), needsAcceptance |-> NeedsAcceptance(session),
     ready |-> IsReady(session)]

---------------------------------------------------------------------------
(* The store: pg-session.ts and db/schema.ts.  A 256-bit number crosses to *)
(* JSON as a decimal string, and an absent field stays absent.             *)

Decimal(n) == [decimal |-> n]
FromDecimal(s) == s.decimal
Crossed(way, n) == IF way = "store" THEN Decimal(n) ELSE FromDecimal(n)

TermsNumbers ==
    {"chainId", "principal", "installmentCount", "firstDueDate", "interval",
     "originationNonce"}

\* The record with its numbers, its nested quote and its offers carried across.
AmountsInto(way, amounts) == [i \in DOMAIN amounts |-> Crossed(way, amounts[i])]

TermsInto(way, terms) ==
    [t \in DOMAIN terms |-> IF t \in TermsNumbers THEN Crossed(way, terms[t]) ELSE terms[t]]

OfferInto(way, offer) ==
    [upfront |-> Crossed(way, offer.upfront), financed |-> Crossed(way, offer.financed),
     installments |-> AmountsInto(way, offer.installments)]

QuoteInto(way, quote) ==
    [quote EXCEPT !.principal = Crossed(way, @), !.installments = AmountsInto(way, @),
                  !.mdr = Crossed(way, @), !.merchantNet = Crossed(way, @),
                  !.availableLimit = Crossed(way, @),
                  !.fallback = {OfferInto(way, offer) : offer \in @}]

Converted(session, way) ==
    [session EXCEPT !.terms = TermsInto(way, @), !.quote = QuoteInto(way, @)]

ToStoredSession(session) == Converted(session, "store")
FromStoredSession(stored) == Converted(stored, "load")

NewRow(session) ==
    [sessionId |-> session.sessionId, merchant |-> session.merchant,
     state |-> session.state, expiresAt |-> session.expiresAt,
     planId |-> session.planId, payload |-> ToStoredSession(session),
     createdAt |-> session.createdAt, updatedAt |-> session.updatedAt]

Held(id) == id \in DOMAIN rows

\* A new row, or a conflict on the key: the merchant column is not rewritten.
PutRow(session) ==
    LET id == session.sessionId
        row == NewRow(session)
    IN  IF Held(id)
        THEN [row EXCEPT !.merchant = rows[id].merchant, !.createdAt = rows[id].createdAt]
        ELSE row

Put(session) ==
    rows' = [id \in DOMAIN rows \cup {session.sessionId} |->
                IF id = session.sessionId THEN PutRow(session) ELSE rows[id]]

Get(id) == FromStoredSession(rows[id].payload)

\* The columns of operator.checkout_session, and of operator.merchant_external_ref.
CheckoutSessionRow(row) ==
    /\ row.sessionId \in SessionIds /\ row.merchant \in Merchants
    /\ row.state \in SessionState
    /\ {row.expiresAt, row.createdAt, row.updatedAt} \subseteq Nat
    /\ ToStoredSession(Get(row.sessionId)) = row.payload

MerchantExternalRef == [merchantId : Merchants, externalId : {{x} : x \in ExternalIds}]

\* The merchant's own session: the key that opened it decides who reads it.
SessionFor(merchant, id) == Held(id) /\ Get(id).merchant = merchant

---------------------------------------------------------------------------
(* The handlers: api.ts. *)

Idle == [stage |-> "idle"]

SessionInit ==
    /\ rows = <<>>
    /\ refs = <<>>
    /\ request = [r \in Requests |-> Idle]
    /\ acknowledged = {}
    /\ sessionNow = 0

\* config.prepare: the host's terms.  A session id and an origination nonce
\* are the host's and never used twice.
Prepare(id, merchant, cart, count, limit) ==
    LET terms == [chainId |-> 1, factory |-> "factory", implementation |-> "plan",
                  borrower |-> "borrower", merchant |-> merchant, token |-> "USDC",
                  principal |-> cart, installmentCount |-> count,
                  firstDueDate |-> 1, interval |-> 2 * JITTER_HALF_WIDTH,
                  originationNonce |-> 0, termsHash |-> HashTermsDetail(id)]
        plan == DerivePlan(terms)
    IN  [sessionId |-> id, terms |-> terms, planId |-> plan.planId,
         planAddress |-> plan.address, cartTotal |-> cart, availableLimit |-> limit]

\* POST /v1/sessions: the row is written, then the reference is linked.
PostSession(r, merchant, id, cart, count, limit, external) ==
    LET session == OpenSession(Prepare(id, merchant, cart, count, limit), sessionNow)
    IN  /\ request[r] = Idle
        /\ sessionNow < SessionTime
        /\ ~Held(id)
        /\ Put(session)
        /\ request' = [request EXCEPT ![r] =
                         IF external = {} THEN Idle
                         ELSE [stage |-> "link", merchant |-> merchant,
                               planId |-> session.planId, external |-> external]]
        /\ UNCHANGED <<refs, acknowledged, sessionNow>>

\* resolveMerchantPlane.linkExternalRef: insert, or overwrite one's own.
LinkExternalRef(r) ==
    LET link == request[r]
        taken == link.planId \in DOMAIN refs
        ref == [merchantId |-> link.merchant, externalId |-> link.external]
    IN  /\ link.stage = "link"
        /\ refs' = IF taken /\ refs[link.planId].merchantId # link.merchant THEN refs
                   ELSE [p \in DOMAIN refs \cup {link.planId} |->
                           IF p = link.planId THEN ref ELSE refs[p]]
        /\ request' = [request EXCEPT ![r] = Idle]
        /\ UNCHANGED <<rows, acknowledged, sessionNow>>

\* POST .../authorizations/:index and .../acceptance, up to the awaited read.  The
\* body is read only after it, so the handler holds nothing but its copy.
BeginRecord(r, merchant, id) ==
    /\ request[r] = Idle
    /\ SessionFor(merchant, id)
    /\ request' = [request EXCEPT ![r] = [stage |-> "record", session |-> Get(id)]]
    /\ UNCHANGED <<rows, refs, acknowledged, sessionNow>>

Refuse(r) ==
    /\ request' = [request EXCEPT ![r] = Idle]
    /\ UNCHANGED <<rows, refs, acknowledged, sessionNow>>

Accept(r, next, item, signature) ==
    /\ Put(next)
    /\ acknowledged' = acknowledged \cup {<<next.sessionId, item, signature>>}
    /\ request' = [request EXCEPT ![r] = Idle]
    /\ UNCHANGED <<refs, sessionNow>>

\* What the client was asked to sign: one authorization per index, and the plan.
Drawn(session, index) ==
    ReceiveWithAuthorizationTypedData("USDC", BuildStrip(session.terms, session.planId)[index])

Consent(session) ==
    AcceptanceTypedData(session.terms.chainId, session.planAddress,
        BuildAcceptance(session.terms, session.expiresAt, session.planId))

\* What it may post instead.  Of the authorization in the body only the payee is
\* read, and the signature beside it is compared with nothing: not with that
\* authorization, nor with what was drawn for the index.
PostedSignatures(session, item) ==
    (IF item = Acceptance THEN {Consent(session)}
     ELSE IF item \in Indices(session.terms) THEN {Drawn(session, item)} ELSE {Forged})
    \cup (IF item \in ForgedAt THEN {Forged} ELSE {})

Bodies(session, index) ==
    [authorization : [to : {session.planAddress, Elsewhere}],
     signature : PostedSignatures(session, index)]

FinishAuthorization(r, index, body) ==
    LET session == request[r].session IN
    IF CanRecordAuthorization(session, index, body.authorization, sessionNow)
    THEN Accept(r, RecordAuthorization(session, index, body.signature, sessionNow), index,
                body.signature)
    ELSE Refuse(r)

FinishAcceptance(r, signature) ==
    LET session == request[r].session IN
    IF Live(session, sessionNow)
    THEN Accept(r, RecordAcceptance(session, signature, sessionNow), Acceptance, signature)
    ELSE Refuse(r)

\* GET /strip: one read, no liveness asked, and nothing written.
StripAnswer(session) ==
    [strip |-> AssembleStrip(session), acceptance |-> session.acceptance]

\* The process dies: its handlers with it, and the in-memory map.
Restart ==
    /\ \/ \E r \in Requests : request[r] # Idle
       \/ ~Durable
    /\ request' = [r \in Requests |-> Idle]
    /\ rows' = IF Durable THEN rows ELSE <<>>
    /\ UNCHANGED <<refs, acknowledged, sessionNow>>

SessionTick ==
    /\ sessionNow < SessionTime
    /\ sessionNow' = sessionNow + 1
    /\ UNCHANGED <<rows, refs, request, acknowledged>>

\* Every index of a strip, one past its end, and what is no index at all.
PathIndices == (UNION {0 .. n : n \in Counts}) \cup NotIntegers

SessionNext ==
    \/ \E r \in Requests, m \in Merchants, id \in SessionIds, cart \in Carts,
          count \in Counts, limit \in Limits, external \in {{}} \cup {{x} : x \in ExternalIds} :
            PostSession(r, m, id, cart, count, limit, external)
    \/ \E r \in Requests : LinkExternalRef(r)
    \/ \E r \in Requests, m \in Merchants, id \in SessionIds : BeginRecord(r, m, id)
    \/ \E r \in Requests :
          /\ request[r].stage = "record"
          /\ \/ \E index \in PathIndices : \E body \in Bodies(request[r].session, index) :
                    FinishAuthorization(r, index, body)
             \/ \E signature \in PostedSignatures(request[r].session, Acceptance) :
                    FinishAcceptance(r, signature)
    \/ Restart
    \/ SessionTick

SessionSpec == SessionInit /\ [][SessionNext]_sessionVars

---------------------------------------------------------------------------
(* Properties. *)

\* Whatever posts overlap, restart or are refused, the row a dashboard filters
\* on agrees with the record inside it, and the record's state with what it
\* carries.  Quoted means nothing posted.  Ready means accepted, with a key for
\* every installment or one that is no index in the place of it: where no such key
\* was taken, ready is a whole strip and an acceptance, and nothing less is.
StateTellsTheSignatures ==
    \A id \in SessionIds : Held(id) =>
        LET s == Get(id)
            told == Serialise(s)
            stray == DOMAIN s.strip \ Indices(s.terms)
        IN  /\ rows[id].state = s.state /\ rows[id].expiresAt = s.expiresAt
            /\ rows[id].planId = s.planId /\ rows[id].merchant = s.merchant
            /\ told.state \in SessionState
            /\ told.state = "ready" <=>
                  (Cardinality(told.outstanding) = Cardinality(stray) /\ ~told.needsAcceptance)
            /\ stray = {} => (told.state = "ready" <=> told.ready)
            /\ told.state = "quoted" <=> (DOMAIN s.strip = {} /\ s.acceptance = {})
            /\ \A i \in told.resumeAt : i \notin DOMAIN s.strip

\* A strip is handed out with no hole, whatever was overwritten on the way: it has
\* exactly the plan's installments, each signature is one this session took for
\* that very index and answered 200 to, and so is the acceptance.  Nothing is made
\* up, left from another index or kept from a post that was refused; and a client
\* that posts what it was asked to sign gets back the strip its terms draw.
HandedStripsAreWhole ==
    \A session \in {Get(id) : id \in DOMAIN rows} : IsReady(session) =>
        LET answer == StripAnswer(session)
            drawn == BuildStrip(session.terms, DerivePlanId(session.terms))
        IN  /\ DOMAIN answer.strip = DOMAIN drawn
            /\ \A i \in DOMAIN drawn :
                  /\ <<session.sessionId, i, answer.strip[i]>> \in acknowledged
                  /\ answer.strip[i] # Forged =>
                        answer.strip[i] = ReceiveWithAuthorizationTypedData("USDC", drawn[i])
            /\ answer.acceptance # {}
            /\ \A a \in answer.acceptance :
                  /\ <<session.sessionId, Acceptance, a>> \in acknowledged
                  /\ a # Forged => a.message.planId = DerivePlanId(session.terms)

\* The rows are what db/schema.ts says a row is, the payload lossless.
SessionTables ==
    /\ \A id \in SessionIds : Held(id) => rows[id].sessionId = id /\ CheckoutSessionRow(rows[id])
    /\ \A plan \in DOMAIN refs : refs[plan] \in MerchantExternalRef

\* What a session says of itself and what it hands out are what was posted to it.
SessionsAreWhatWasSigned == SessionTables /\ StateTellsTheSignatures /\ HandedStripsAreWhole

-----------------------------------------------------------------------------
(* What the documentation says and the code does not do. *)

\* A signature the service answered 200 to is never asked for again.
AcknowledgedSignaturesAreKept ==
    \A a \in acknowledged : Held(a[1]) =>
        LET s == Get(a[1]) IN
        IF a[2] = Acceptance THEN s.acceptance # {} ELSE a[2] \in DOMAIN s.strip

\* A session whose state is ready has every signature and can be submitted.
ReadyMeansNothingIsOutstanding ==
    \A id \in SessionIds : Held(id) /\ Get(id).state = "ready" => IsReady(Get(id))
=============================================================================
