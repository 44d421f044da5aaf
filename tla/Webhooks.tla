------------------------------ MODULE Webhooks ------------------------------
(***************************************************************************)
(* services/servicing: webhooks a merchant registers, the deliveries of    *)
(* its events and their replays.  A delivery is a signed post to a server  *)
(* that may be slow, unreachable or deaf, and one row written after it;    *)
(* several deliveries are under way at once and the process can die        *)
(* between the post and the row.  The receiver is the merchant's, written  *)
(* as the code instructs: it checks the signature and dedupes on the id.   *)
(***************************************************************************)
EXTENDS Integers, Sequences, FiniteSets, TLC

LOCAL INSTANCE Functions

CONSTANTS
    HookMerchants, Endpoints, Events,
    Senders,              \* deliveries, replays and rotations under way at once
    Hosts,                \* what a destination can resolve to: sets of addresses
    REPLAY_WINDOW_SECONDS, DISABLE_AFTER, MAX_ATTEMPTS,
    Delays,               \* seconds a post can spend on the way
    FailureAges,          \* how long an endpoint can have been failing
    Unset,                \* a null column
    MessageBound, SecretBound, AskBound    \* bounds: ids, secrets, deliveries asked for

ASSUME HooksAssumption ==
    /\ IsFiniteSet(Senders)
    /\ {REPLAY_WINDOW_SECONDS, DISABLE_AFTER, MAX_ATTEMPTS,
        MessageBound, SecretBound, AskBound} \cup Delays \cup FailureAges \subseteq Nat

VARIABLES
    endpoint,    \* operator.webhook_endpoint
    host,        \* what each destination resolves to now
    delivery,    \* operator.webhook_delivery, in the order the rows were written
    sender,      \* what each of them holds across its awaits
    messages,    \* ids newWebhookId has drawn
    wanted,       \* per <<endpoint, body>>, the deliveries an emission or a replay asked for
    secrets,     \* secrets newSigningSecret has drawn
    installed,   \* the secrets each receiver verifies with
    seen,        \* <<endpoint, webhook id>> each receiver has processed
    processed    \* per <<endpoint, body>>, how often its receiver acted on it

hooksVars == <<endpoint, host, delivery, sender, messages, wanted, secrets, installed, seen,
               processed>>

WebhookEndpoint ==
    [merchantId : HookMerchants, signingSecrets : Seq(Nat),
     status : {"active", "degraded", "disabled"}]
WebhookDelivery ==
    [merchantId : HookMerchants, endpointId : Endpoints, event : Events, webhookId : Nat,
     attempt : Nat, requestBody : Events, responseStatus : Nat \cup {Unset},
     retry : SUBSET (1 .. MAX_ATTEMPTS), replayOf : Nat \cup {Unset}]

ASSUME UnsetAssumption == Unset \notin WebhookEndpoint

---------------------------------------------------------------------------
(* ssrf.ts: which addresses a webhook may be posted to.                    *)

V4Octets(address) == IF Len(address) = 4 THEN {address} ELSE {}
V6Bytes(address) == IF Len(address) = 16 THEN {address} ELSE {}

AllZero(bytes, last) == \A i \in 1 .. last : bytes[i] = 0

\* The set of the refusal, empty for a public address.
ClassifyV4(octets) ==
    LET a == octets[1]
        b == octets[2]
    IN  IF a = 0 THEN {"unspecified"}
        ELSE IF a = 127 THEN {"loopback"}
        ELSE IF a = 10 \/ (a = 172 /\ b \in 16 .. 31) \/ (a = 192 /\ b = 168)
                \/ (a = 100 /\ b \in 64 .. 127) THEN {"private"}
        ELSE IF a = 169 /\ b = 254 THEN {"link-local"}
        ELSE IF (a = 192 /\ b = 0 /\ octets[3] = 0) \/ (a = 198 /\ b \in {18, 19})
                THEN {"reserved"}
        ELSE IF a \in 224 .. 239 THEN {"multicast"}
        ELSE IF a >= 240 THEN {"reserved"}
        ELSE {}

\* A v4 address carried in a v6 one is classified as itself.
ClassifyV6(bytes) ==
    LET zeroPrefix == AllZero(bytes, 12)
        mapped == AllZero(bytes, 10) /\ bytes[11] = 255 /\ bytes[12] = 255
        nat64 == /\ SubSeq(bytes, 1, 4) = <<0, 100, 255, 155>>
                 /\ \A i \in 5 .. 12 : bytes[i] = 0
        embedded == IF mapped \/ nat64 \/ zeroPrefix
                    THEN ClassifyV4(SubSeq(bytes, 13, 16)) ELSE {}
    IN  IF AllZero(bytes, 16) THEN {"unspecified"}
        ELSE IF AllZero(bytes, 15) /\ bytes[16] = 1 THEN {"loopback"}
        ELSE IF embedded # {} THEN embedded
        ELSE IF bytes[1] = 255 THEN {"multicast"}
        ELSE IF bytes[1] = 254 /\ bytes[2] \in 128 .. 191 THEN {"link-local"}
        ELSE IF bytes[1] \in {252, 253} THEN {"unique-local"}
        ELSE {}

ClassifyAddress(address) ==
    IF V4Octets(address) # {} THEN ClassifyV4(address)
    ELSE IF V6Bytes(address) # {} THEN ClassifyV6(address)
    ELSE {"unresolvable"}

\* Every address a name resolves to is public, and there is one.
AssertDeliverable(addresses) ==
    addresses # {} /\ \A a \in addresses : ClassifyAddress(a) = {}

AssertNotRedirected(status) == status \notin 300 .. 399

---------------------------------------------------------------------------
(* webhooks.ts: signatures, verified by the receiver with the same code.   *)

Sign(secret, id, ts, body) == <<secret, id, ts, body>>

VerifySignature(known, message, now) ==
    /\ now - message.ts \in -REPLAY_WINDOW_SECONDS .. REPLAY_WINDOW_SECONDS
    /\ \E secret \in known :
            Sign(secret, message.id, message.ts, message.body) \in message.signatures

Successful(status) == status # Unset /\ status \in 200 .. 299

\* Whether another attempt is due after this one, were anybody to make it.
NextAttempt(attempt) == IF attempt >= MAX_ATTEMPTS THEN {} ELSE {attempt}

Message(row, id, body) ==
    [id |-> id, ts |-> 0, body |-> body,
     signatures |-> {Sign(row.signingSecrets[i], id, 0, body) :
                        i \in DOMAIN row.signingSecrets}]

---------------------------------------------------------------------------
Waiting == [stage |-> "idle"]

Sets(w, to) == sender' = [sender EXCEPT ![w] = to]

HooksInit ==
    /\ endpoint = [e \in Endpoints |-> Unset]
    /\ host \in [Endpoints -> Hosts]
    /\ delivery = <<>>
    /\ sender = [w \in Senders |-> Waiting]
    /\ messages = 0
    /\ wanted = [x \in Endpoints \X Events |-> 0]
    /\ secrets = 0
    /\ installed = [e \in Endpoints |-> {}]
    /\ seen = {}
    /\ processed = [x \in Endpoints \X Events |-> 0]

\* Ids differ in nothing: an endpoint gets a new one.
IsNewId(e) == e = CHOOSE x \in Endpoints : endpoint[x] = Unset

\* POST /v1/webhooks/endpoints: the destination is resolved, then written with
\* its first secret, which the answer carries and the merchant installs.
RegisterEndpoint(m, e) ==
    /\ endpoint[e] = Unset /\ IsNewId(e)
    /\ secrets < SecretBound
    /\ AssertDeliverable(host[e])
    /\ endpoint' = [endpoint EXCEPT ![e] =
                      [merchantId |-> m, signingSecrets |-> <<secrets + 1>>,
                       status |-> "active"]]
    /\ secrets' = secrets + 1
    /\ installed' = [installed EXCEPT ![e] = {secrets + 1}]
    /\ UNCHANGED <<host, delivery, sender, messages, wanted, seen, processed>>

\* And calls in nothing but their names: a new one takes a free name.
FreeSender(w) == w = CHOOSE x \in Senders : sender[x] = Waiting

EndpointsFor(m) == {e \in Endpoints : endpoint[e] # Unset /\ endpoint[e].merchantId = m}

AsksFor(names) ==
    /\ SumFunction(wanted) + Cardinality(names) <= AskBound
    /\ wanted' = [x \in Endpoints \X Events |-> wanted[x] + IF x \in names THEN 1 ELSE 0]

\* merchantEventEmitter: fanout reads the merchant's endpoints once.
Fanout(w, m, event) ==
    /\ sender[w] = Waiting /\ FreeSender(w)
    /\ EndpointsFor(m) # {}
    /\ AsksFor({<<e, event>> : e \in EndpointsFor(m)})
    /\ Sets(w, [stage |-> "fanout", event |-> event,
                queue |-> {[id |-> e, row |-> endpoint[e]] : e \in EndpointsFor(m)}])
    /\ UNCHANGED <<endpoint, host, delivery, messages, secrets, installed, seen, processed>>

\* What deliver and replay hold from here to the row.
Post(event, queue, id, row, merchantId, webhookId, body, replayOf) ==
    [stage |-> "post", event |-> event, queue |-> queue, endpointId |-> id, row |-> row,
     merchantId |-> merchantId, webhookId |-> webhookId, body |-> body,
     replayOf |-> replayOf, addresses |-> {}, status |-> Unset]

\* The next of them: skipped if it was disabled, else deliver with a new id.
Deliver(w, target) ==
    LET held == sender[w]
        left == held.queue \ {target}
    IN  /\ held.stage = "fanout" /\ target \in held.queue
        /\ IF target.row.status = "disabled"
           THEN /\ Sets(w, IF left = {} THEN Waiting ELSE [held EXCEPT !.queue = left])
                /\ UNCHANGED messages
           ELSE /\ messages < MessageBound
                /\ messages' = messages + 1
                /\ Sets(w, Post(held.event, left, target.id, target.row,
                                target.row.merchantId, messages + 1, held.event, Unset))
        /\ UNCHANGED <<endpoint, host, delivery, wanted, secrets, installed, seen, processed>>

\* Mutant of ReplayId: the original's id again.
ReplayIdReused(original) == original.webhookId

\* The id a replay goes out under: a fresh one, never the original's.
ReplayId(original) == messages + 1

\* POST /v1/webhooks/deliveries/:id/replay: the merchant's own delivery, its
\* body verbatim, to its endpoint whatever the endpoint's status.
Replay(w, m, d) ==
    LET original == delivery[d] IN
    /\ sender[w] = Waiting /\ FreeSender(w)
    /\ original.merchantId = m
    /\ messages < MessageBound
    /\ messages' = messages + 1
    /\ AsksFor({<<original.endpointId, original.requestBody>>})
    /\ Sets(w, Post(original.event, {}, original.endpointId, endpoint[original.endpointId],
                    original.merchantId, ReplayId(original), original.requestBody, d))
    /\ UNCHANGED <<endpoint, host, delivery, secrets, installed, seen, processed>>

\* send: the name is resolved on this very attempt, and every address checked.
Guard(w) ==
    LET held == sender[w] IN
    /\ held.stage = "post"
    /\ AssertDeliverable(host[held.endpointId])
    /\ Sets(w, [held EXCEPT !.stage = "connect", !.addresses = host[held.endpointId]])
    /\ UNCHANGED <<endpoint, host, delivery, messages, wanted, secrets, installed, seen,
                   processed>>

\* fetch resolves the name again and posts to whatever it finds there, which
\* over https can only be the name's own server: it refuses what does not
\* verify, acts on a new id, acknowledges one it has seen; its answer can be lost.
Received(w, delay, status) ==
    LET held == sender[w]
        message == Message(held.row, held.webhookId, held.body)
        verified == VerifySignature(installed[held.endpointId], message, delay)
        name == <<held.endpointId, held.webhookId>>
        acts == verified /\ status = 200 /\ name \notin seen
    IN  /\ held.stage = "connect"
        /\ verified \/ status # 200
        /\ seen' = IF acts THEN seen \cup {name} ELSE seen
        /\ processed' = IF acts THEN [processed EXCEPT ![<<held.endpointId, held.body>>] = @ + 1]
                        ELSE processed
        /\ \E answer \in {Unset, status} :
                Sets(w, [held EXCEPT !.stage = "row",
                                     !.status = IF answer # Unset /\ AssertNotRedirected(answer)
                                                THEN answer ELSE Unset])
        /\ UNCHANGED <<endpoint, host, delivery, messages, wanted, secrets, installed>>

\* The lookup fails or the guard refuses what it finds, or nothing connects.
NotReceived(w) ==
    /\ sender[w].stage \in {"post", "connect"}
    /\ Sets(w, [sender[w] EXCEPT !.stage = "row"])
    /\ UNCHANGED <<endpoint, host, delivery, messages, wanted, secrets, installed, seen,
                   processed>>

\* The row, whatever the outcome was.
InsertDelivery(w) ==
    LET held == sender[w] IN
    /\ held.stage = "row"
    /\ delivery' = Append(delivery,
         [merchantId |-> held.merchantId, endpointId |-> held.endpointId,
          event |-> held.event, webhookId |-> held.webhookId, attempt |-> 0,
          requestBody |-> held.body, responseStatus |-> held.status,
          retry |-> IF Successful(held.status) \/ held.replayOf # Unset THEN {}
                    ELSE NextAttempt(1),
          replayOf |-> held.replayOf])
    /\ Sets(w, IF held.queue = {} THEN Waiting
               ELSE [stage |-> "fanout", event |-> held.event, queue |-> held.queue])
    /\ UNCHANGED <<endpoint, host, messages, wanted, secrets, installed, seen, processed>>

\* rotateSigningSecret: the row is read, and the newest two are written back.
RotateSecretRead(w, e) ==
    /\ sender[w] = Waiting /\ FreeSender(w)
    /\ endpoint[e] # Unset
    /\ Sets(w, [stage |-> "rotate", endpointId |-> e, held |-> endpoint[e].signingSecrets])
    /\ UNCHANGED <<endpoint, host, delivery, messages, wanted, secrets, installed, seen, processed>>

RotateSecretWrite(w) ==
    LET held == sender[w]
        newest == <<secrets + 1>> \o held.held
    IN  /\ held.stage = "rotate"
        /\ secrets < SecretBound
        /\ secrets' = secrets + 1
        /\ endpoint' = [endpoint EXCEPT ![held.endpointId].signingSecrets =
                          IF Len(newest) > 2 THEN SubSeq(newest, 1, 2) ELSE newest]
        /\ Sets(w, Waiting)
        /\ UNCHANGED <<host, delivery, messages, wanted, installed, seen, processed>>

\* noteEndpointFailure and noteEndpointSuccess rewrite the label.
NoteEndpointFailure(e, age) ==
    LET status == IF age >= DISABLE_AFTER THEN "disabled" ELSE "degraded" IN
    /\ endpoint[e] # Unset
    /\ endpoint' = [endpoint EXCEPT ![e].status = status]
    /\ UNCHANGED <<host, delivery, sender, messages, wanted, secrets, installed, seen, processed>>

NoteEndpointSuccess(e) ==
    /\ endpoint[e] # Unset
    /\ endpoint' = [endpoint EXCEPT ![e].status = "active"]
    /\ UNCHANGED <<host, delivery, sender, messages, wanted, secrets, installed, seen, processed>>

\* Outside: a name starts to resolve elsewhere, a receiver changes the secret
\* it checks, the process dies.
HostMoves(e) ==
    /\ \E h \in Hosts \ {host[e]} : host' = [host EXCEPT ![e] = h]
    /\ UNCHANGED <<endpoint, delivery, sender, messages, wanted, secrets, installed, seen, processed>>

ReceiverInstalls(e, n) ==
    /\ endpoint[e] # Unset /\ n \in DOMAIN endpoint[e].signingSecrets
    /\ installed' = [installed EXCEPT ![e] = {endpoint[e].signingSecrets[n]}]
    /\ UNCHANGED <<endpoint, host, delivery, sender, messages, wanted, secrets, seen, processed>>

HooksCrash ==
    /\ \E w \in Senders : sender[w] # Waiting
    /\ sender' = [w \in Senders |-> Waiting]
    /\ UNCHANGED <<endpoint, host, delivery, messages, wanted, secrets, installed, seen, processed>>

HooksNext ==
    \/ \E m \in HookMerchants, e \in Endpoints : RegisterEndpoint(m, e)
    \/ \E w \in Senders, m \in HookMerchants :
            \/ \E event \in Events : Fanout(w, m, event)
            \/ \E d \in DOMAIN delivery : Replay(w, m, d)
    \/ \E w \in Senders :
            \/ sender[w].stage = "fanout" /\ \E t \in sender[w].queue : Deliver(w, t)
            \/ \E delay \in Delays, status \in {200, 302, 500} : Received(w, delay, status)
            \/ Guard(w) \/ NotReceived(w) \/ InsertDelivery(w) \/ RotateSecretWrite(w)
    \/ \E w \in Senders, e \in Endpoints : RotateSecretRead(w, e)
    \/ \E e \in Endpoints :
            \/ \E age \in FailureAges : NoteEndpointFailure(e, age)
            \/ NoteEndpointSuccess(e) \/ HostMoves(e)
            \/ \E n \in 1 .. 2 : ReceiverInstalls(e, n)
    \/ HooksCrash

HooksSpec == HooksInit /\ [][HooksNext]_hooksVars

---------------------------------------------------------------------------
(* What a merchant reads back, at most two secrets counted and none shown. *)

ListEndpoints(m) ==
    {[id |-> e, status |-> endpoint[e].status,
      signingSecretCount |-> Len(endpoint[e].signingSecrets)] : e \in EndpointsFor(m)}

ListDeliveries(m) == {d \in DOMAIN delivery : delivery[d].merchantId = m}

---------------------------------------------------------------------------
(* Properties. *)

\* A merchant's log holds what was posted to its own destinations, each of
\* which can be listed, with one secret or, while rotating, two.
MerchantsSeeTheirOwn ==
    \A m \in HookMerchants :
        /\ \A d \in ListDeliveries(m) :
                \E view \in ListEndpoints(m) : view.id = delivery[d].endpointId
        /\ \A view \in ListEndpoints(m) : view.signingSecretCount \in {1, 2}

\* The rows are what db/schema.ts says a row is.
HookTables ==
    /\ \A e \in Endpoints : endpoint[e] # Unset => endpoint[e] \in WebhookEndpoint
    /\ \A d \in DOMAIN delivery : delivery[d] \in WebhookDelivery

AcceptedRows(x) ==
    {d \in DOMAIN delivery :
        /\ <<delivery[d].endpointId, delivery[d].requestBody>> = x
        /\ Successful(delivery[d].responseStatus)}

\* A delivery the log shows as accepted was acted on by its receiver, once for
\* every such row: a receiver that dedupes on the id, as instructed, still
\* acts on each replay, on the original's very body and at its own endpoint.
\* And it acts no more often than an emission or a replay asked for.
AcceptedMeansProcessed ==
    \A x \in Endpoints \X Events :
        Cardinality(AcceptedRows(x)) <= processed[x] /\ processed[x] <= wanted[x]

\* Nothing is posted on an answer the resolver gave earlier: whatever connects, or
\* was answered, had every address of its name checked on that same attempt.
PostsWereChecked ==
    \A w \in Senders :
        sender[w].stage = "connect" \/ (sender[w].stage = "row" /\ sender[w].status # Unset)
            => AssertDeliverable(sender[w].addresses)

\* ssrf.ts states what that leaves open: the name can resolve elsewhere again
\* before fetch connects, so this is not a property of the program.
PostsLandWhereChecked ==
    \A w \in Senders :
        sender[w].stage = "connect" => AssertDeliverable(host[sender[w].endpointId])
=============================================================================
