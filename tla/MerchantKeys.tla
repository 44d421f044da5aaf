---------------------------- MODULE MerchantKeys ----------------------------
(***************************************************************************)
(* services/origination: merchant accounts, their API keys and the token   *)
(* bucket in front of every authenticated route.  A request is a sequence  *)
(* of statements against one Postgres, each atomic, with other requests,   *)
(* other replicas and the clock in between; `now` is read once, where the  *)
(* code reads it, and used by the statements that follow.                  *)
(***************************************************************************)
EXTENDS Integers, FiniteSets

CONSTANTS
    Accounts,                 \* merchant ids; one address each
    KeyIds,                   \* ids mint() can draw
    Calls,                    \* requests that may be under way at once
    Overlaps,                 \* rotation overlaps asked for
    DEFAULT_OVERLAP_DAYS, MAX_OVERLAP_DAYS,
    RATE_LIMIT, RATE_WINDOW,  \* the bucket's policy
    Environment,              \* the environment this deployment serves
    None, KeyTime             \* no value; bound: the last instant explored

ASSUME KeysAssumption ==
    /\ Environment \in {"sandbox", "live"}
    /\ {DEFAULT_OVERLAP_DAYS, MAX_OVERLAP_DAYS, KeyTime} \subseteq Nat
    /\ Overlaps \subseteq Int
    /\ RATE_LIMIT \in Nat \ {0} /\ RATE_WINDOW \in Nat \ {0}

VARIABLES
    account,   \* operator.merchant_account: an id's environment, or None
    key,       \* operator.merchant_api_key, or None
    bucket,    \* operator.rate_limit_bucket: <<id, window>> to its tokens, or None
    call,      \* what each request holds across its awaits
    admitted,  \* per <<key, window>>, the requests let through
    straggler, \* and of those, the ones whose window had already been swept
    granted,   \* what became of each key: "held", "revoked", or "used" since it was
    clock

keysVars == <<account, key, bucket, call, admitted, straggler, granted, clock>>

EnvironmentName == {"sandbox", "live"}

\* The rows of db/schema.ts, with the columns the code reads.
MerchantApiKey ==
    [merchantId : Accounts, environment : EnvironmentName, createdAt : Nat,
     expiresAt : Nat \cup {None}, revokedAt : Nat \cup {None},
     rotatedFrom : KeyIds \cup {None}]
MerchantAccount == EnvironmentName \cup {None}
RateLimitBucket == (0 .. RATE_LIMIT - 1) \cup {None}

\* The absence of a row, or of a column, is not one of its values.
ASSUME NoneAssumption == None \notin Nat \cup KeyIds \cup EnvironmentName \cup MerchantApiKey

Resting == [stage |-> "idle"]

WindowStartFor(now) == (now \div RATE_WINDOW) * RATE_WINDOW

Windows == {WindowStartFor(t) : t \in 0 .. KeyTime}

KeysInit ==
    /\ account = [a \in Accounts |-> None]
    /\ key = [k \in KeyIds |-> None]
    /\ bucket = [x \in (Accounts \cup KeyIds) \X Windows |-> None]
    /\ call = [c \in Calls |-> Resting]
    /\ admitted = [x \in (Accounts \cup KeyIds) \X Windows |-> 0]
    /\ straggler = [x \in (Accounts \cup KeyIds) \X Windows |-> 0]
    /\ granted = [k \in KeyIds |-> "held"]
    /\ clock = 0

Step(c, to) == call' = [call EXCEPT ![c] = to]

---------------------------------------------------------------------------
(* keys.ts *)

\* What the presented string names: parseKey's shape is the environment token
\* and the key id, and verifyKey refuses another environment before it looks.
Parses(presented) == presented.token = Environment

Revoked(row, now) == row.revokedAt # None /\ row.revokedAt <= now
Expired(row, now) == row.expiresAt # None /\ row.expiresAt <= now

\* verifyKey's answer from the row it joined, or a refusal.
Verifies(presented, now) ==
    LET row == key[presented.keyId] IN
    /\ Parses(presented)
    /\ row # None /\ account[row.merchantId] # None
    /\ presented.secret = presented.keyId          \* the hash of this key's secret
    /\ ~Revoked(row, now)
    /\ ~Expired(row, now)
    /\ row.environment = account[row.merchantId]

NewKey(merchant, environment, rotatedFrom, now) ==
    [merchantId |-> merchant, environment |-> environment, createdAt |-> now,
     expiresAt |-> None, revokedAt |-> None, rotatedFrom |-> rotatedFrom]

\* requireMerchant, then the insert of a freshly minted key.
IssueKey(k, merchant, environment, rotatedFrom, now) ==
    /\ account[merchant] = environment
    /\ key[k] = None
    /\ key' = [key EXCEPT ![k] = NewKey(merchant, environment, rotatedFrom, now)]

---------------------------------------------------------------------------
(* auth.ts: requireKey, and ratelimit.ts: consume *)

\* The bearer is verified; with a limiter the clock is read for its window.
RequireKey(c, k) ==
    LET presented == [token |-> Environment, keyId |-> k, secret |-> k] IN
    /\ call[c] = Resting
    /\ Verifies(presented, clock)
    /\ Step(c, [stage |-> "limit", id |-> k, window |-> WindowStartFor(clock),
                merchantId |-> key[k].merchantId])
    /\ granted' = IF granted[k] = "held" THEN granted ELSE [granted EXCEPT ![k] = "used"]
    /\ UNCHANGED <<account, key, bucket, admitted, straggler, clock>>

\* POST /sandbox asks the signup limiter first, under the caller's address.
BeginSignup(c, a) ==
    /\ call[c] = Resting
    /\ Step(c, [stage |-> "limit", id |-> a, window |-> WindowStartFor(clock),
                merchantId |-> a])
    /\ UNCHANGED <<account, key, bucket, admitted, straggler, granted, clock>>

\* The upsert's guard: a window that has a row has a token left in it.
HasToken(b) == b = None \/ b > 0

Spend(b) == IF b = None THEN RATE_LIMIT - 1 ELSE b - 1

\* One statement: insert the window, or decrement it if it has tokens left.
Consume(c) ==
    LET held == call[c]
        at == <<held.id, held.window>>
        late == \E w \in Windows : w > held.window /\ bucket[<<held.id, w>>] # None
    IN  /\ held.stage = "limit"
        /\ IF HasToken(bucket[at])
           THEN /\ bucket' = [bucket EXCEPT ![at] = Spend(@)]
                /\ admitted' = [admitted EXCEPT ![at] = @ + 1]
                /\ straggler' = [straggler EXCEPT ![at] = IF late THEN @ + 1 ELSE @]
                /\ Step(c, [held EXCEPT !.stage =
                              IF Spend(bucket[at]) = RATE_LIMIT - 1 THEN "sweep" ELSE "route"])
           ELSE Step(c, Resting) /\ UNCHANGED <<bucket, admitted, straggler>>
        /\ UNCHANGED <<account, key, granted, clock>>

\* A fresh window is the moment the key's dead windows are deleted.
Sweep(c) ==
    LET held == call[c] IN
    /\ held.stage = "sweep"
    /\ bucket' = [x \in DOMAIN bucket |->
                    IF x[1] = held.id /\ x[2] < held.window THEN None ELSE bucket[x]]
    /\ Step(c, [held EXCEPT !.stage = "route"])
    /\ UNCHANGED <<account, key, admitted, straggler, granted, clock>>

---------------------------------------------------------------------------
(* The routes behind it: api.ts *)

Authenticated(c) == call[c].stage = "route" /\ call[c].id \in KeyIds

\* createSandboxMerchant: select, then insert if there was none; the unique
\* address refuses the second of two racing inserts.
SelectMerchant(c) ==
    LET held == call[c] IN
    /\ held.stage = "route" /\ held.id \in Accounts
    /\ Step(c, [held EXCEPT !.stage = IF account[held.id] = None THEN "insert" ELSE "first"])
    /\ UNCHANGED <<account, key, bucket, admitted, straggler, granted, clock>>

InsertMerchant(c) ==
    LET held == call[c] IN
    /\ held.stage = "insert"
    /\ IF account[held.id] = None
       THEN /\ account' = [account EXCEPT ![held.id] = "sandbox"]
            /\ Step(c, [held EXCEPT !.stage = "first"])
       ELSE Step(c, Resting) /\ UNCHANGED account
    /\ UNCHANGED <<key, bucket, admitted, straggler, granted, clock>>

\* A live merchant is refused; a sandbox one is issued its key.
FirstKey(c, k) ==
    LET held == call[c] IN
    /\ held.stage = "first"
    /\ IF account[held.id] = "sandbox"
       THEN IssueKey(k, held.id, "sandbox", None, clock)
       ELSE UNCHANGED key
    /\ Step(c, Resting)
    /\ UNCHANGED <<account, bucket, admitted, straggler, granted, clock>>

\* POST /v1/keys: another key of the caller's environment.
PostKey(c, k) ==
    /\ Authenticated(c)
    /\ IssueKey(k, call[c].merchantId, Environment, None, clock)
    /\ Step(c, Resting)
    /\ UNCHANGED <<account, bucket, admitted, straggler, granted, clock>>

\* POST /v1/keys/:keyId/rotate: rotateKey reads the row and checks whose it is,
RotateRead(c, old, overlap) ==
    /\ Authenticated(c)
    /\ IF /\ overlap \in 0 .. MAX_OVERLAP_DAYS
          /\ key[old] # None
          /\ key[old].merchantId = call[c].merchantId
       THEN Step(c, [stage |-> "issue", old |-> old, existing |-> key[old],
                     overlap |-> overlap, now |-> clock])
       ELSE Step(c, Resting)
    /\ UNCHANGED <<account, key, bucket, admitted, straggler, granted, clock>>

\* issues the successor,
RotateIssue(c, k) ==
    LET held == call[c] IN
    /\ held.stage = "issue"
    /\ IssueKey(k, held.existing.merchantId, held.existing.environment, held.old, held.now)
    /\ Step(c, [held EXCEPT !.stage = "retire"])
    /\ UNCHANGED <<account, bucket, admitted, straggler, granted, clock>>

\* Mutant of Retire: the row as it was read is written back whole.
RetireAsRead(row, existing, expiresAt) == [existing EXCEPT !.expiresAt = expiresAt]

\* and stamps the expiry, that column alone, on whatever the row now is.
Retire(row, existing, expiresAt) == [row EXCEPT !.expiresAt = expiresAt]

RotateRetire(c) ==
    LET held == call[c] IN
    /\ held.stage = "retire"
    /\ key' = [key EXCEPT ![held.old] = Retire(@, held.existing, held.now + held.overlap)]
    /\ Step(c, Resting)
    /\ UNCHANGED <<account, bucket, admitted, straggler, granted, clock>>

\* DELETE /v1/keys/:keyId: the merchant's own key, now.
RevokeKey(c, k) ==
    LET own == key[k] # None /\ key[k].merchantId = call[c].merchantId IN
    /\ Authenticated(c)
    /\ key' = IF own THEN [key EXCEPT ![k].revokedAt = clock] ELSE key
    /\ granted' = IF own THEN [granted EXCEPT ![k] = "revoked"] ELSE granted
    /\ Step(c, Resting)
    /\ UNCHANGED <<account, bucket, admitted, straggler, clock>>

\* Any other authenticated route.
OtherRoute(c) ==
    /\ Authenticated(c)
    /\ Step(c, Resting)
    /\ UNCHANGED <<account, key, bucket, admitted, straggler, granted, clock>>

\* The operator creates a live merchant after KYB, outside this service.
AttestLive(a) ==
    /\ account[a] = None
    /\ account' = [account EXCEPT ![a] = "live"]
    /\ UNCHANGED <<key, bucket, call, admitted, straggler, granted, clock>>

CrashCalls ==
    /\ \E c \in Calls : call[c] # Resting
    /\ call' = [c \in Calls |-> Resting]
    /\ UNCHANGED <<account, key, bucket, admitted, straggler, granted, clock>>

KeysTick ==
    /\ clock < KeyTime
    /\ clock' = clock + 1
    /\ UNCHANGED <<account, key, bucket, call, admitted, straggler, granted>>

KeysNext ==
    \/ \E c \in Calls, k \in KeyIds :
            \/ RequireKey(c, k) \/ FirstKey(c, k) \/ PostKey(c, k)
            \/ RotateIssue(c, k) \/ RevokeKey(c, k)
    \/ \E c \in Calls, a \in Accounts : BeginSignup(c, a)
    \/ \E c \in Calls, k \in KeyIds, d \in Overlaps : RotateRead(c, k, d)
    \/ \E c \in Calls :
            \/ Consume(c) \/ Sweep(c) \/ SelectMerchant(c) \/ InsertMerchant(c)
            \/ RotateRetire(c) \/ OtherRoute(c)
    \/ \E a \in Accounts : AttestLive(a)
    \/ CrashCalls
    \/ KeysTick

KeysSpec == KeysInit /\ [][KeysNext]_keysVars

---------------------------------------------------------------------------
(* Properties. *)

\* A revoked key never authenticates again, whatever rotation of it was under
\* way when it was revoked, is retried after it, or lands out of order.
RevokedNeverAuthenticates == \A k \in KeyIds : granted[k] # "used"

\* However many replicas race, a window admits its limit and no more, plus the
\* requests that read the clock before a newer window's first request swept
\* the row they then recreate.
WindowsStayWithinBudget ==
    \A x \in DOMAIN admitted : admitted[x] - straggler[x] <= RATE_LIMIT

\* A key belongs to the account it was issued to and to its environment, a
\* sandbox signup never reaches a live account, and a successor is its
\* predecessor's merchant's: rotation never moves authority between merchants.
KeysStayWithTheirMerchant ==
    \A k \in KeyIds : key[k] # None =>
        /\ account[key[k].merchantId] = key[k].environment
        /\ key[k].rotatedFrom # None =>
              key[key[k].rotatedFrom].merchantId = key[k].merchantId

\* The rows are what db/schema.ts says a row is.
KeyTables ==
    /\ \A k \in KeyIds : key[k] # None =>
          key[k] \in MerchantApiKey /\ account[key[k].merchantId] \in EnvironmentName
    /\ \A a \in Accounts : account[a] \in MerchantAccount
    /\ \A x \in DOMAIN bucket : bucket[x] \in RateLimitBucket

\* What a key may do, and how often, survives every race for it.
KeysDoWhatTheyMay ==
    KeyTables /\ RevokedNeverAuthenticates /\ WindowsStayWithinBudget /\ KeysStayWithTheirMerchant
=============================================================================
