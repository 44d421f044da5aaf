--------------------------- MODULE OperatorProofs ---------------------------
(***************************************************************************)
(* The services of the operator hold their promises for any accounts, keys *)
(* and requests, any limits and windows, and any interleaving.  A service  *)
(* reads no variable of another, so each invariant is that of one service, *)
(* in the runs whose focus it is.                                          *)
(***************************************************************************)
EXTENDS Functions, MCOperator, FiniteSetTheorems, TLAPS

(***************************************************************************)
(* The merchant's keys.  The limiter is what takes an invariant: a sweep   *)
(* deletes a window's row while requests that read the clock in it are     *)
(* still to be counted, so what was let through is bounded by the row only *)
(* while no later window has one.  From then on every request let through  *)
(* is a straggler, and that a later row exists is never undone, since a    *)
(* sweep is made on behalf of a row that is not older than what it deletes.*)
(***************************************************************************)

Callers == Accounts \cup KeyIds

Limited ==
    [stage : {"limit", "sweep", "route", "insert", "first"},
     id : Callers, window : Windows, merchantId : Accounts]

Rotating ==
    [stage : {"issue", "retire"}, old : KeyIds, existing : MerchantApiKey,
     overlap : Nat, now : Nat]

CallsTyped(calls) ==
    /\ calls \in [Calls -> {Resting} \cup Limited \cup Rotating]
    /\ \A c \in Calls : calls[c].stage \in {"insert", "first"} => calls[c].id \in Accounts

KeysTyped ==
    /\ account \in [Accounts -> MerchantAccount]
    /\ key \in [KeyIds -> MerchantApiKey \cup {None}]
    /\ bucket \in [Callers \X Windows -> RateLimitBucket]
    /\ CallsTyped(call)
    /\ admitted \in [Callers \X Windows -> Nat]
    /\ straggler \in [Callers \X Windows -> Nat]
    /\ granted \in [KeyIds -> {"held", "revoked", "used"}]
    /\ clock \in 0 .. KeyTime

\* A key is its account's, and so is its successor; a rotation under way holds a
\* row of the merchant that the key still belongs to.
OfItsAccount(rows_, accounts, k) ==
    rows_[k] # None =>
        /\ accounts[rows_[k].merchantId] = rows_[k].environment
        /\ rows_[k].rotatedFrom # None =>
              /\ rows_[rows_[k].rotatedFrom] # None
              /\ rows_[rows_[k].rotatedFrom].merchantId = rows_[k].merchantId

RotatesItsOwn(rows_, held) ==
    held.stage \in {"issue", "retire"} =>
        /\ rows_[held.old] # None
        /\ rows_[held.old].merchantId = held.existing.merchantId

Owned ==
    /\ \A k \in KeyIds : OfItsAccount(key, account, k)
    /\ \A c \in Calls : RotatesItsOwn(key, call[c])

\* A key that was revoked has its stamp, and the stamp is in force.
RevokedFor(rows_, given, now, k) ==
    /\ given[k] # "used"
    /\ given[k] = "revoked" => rows_[k] # None /\ Revoked(rows_[k], now)

RevocationsHold == \A k \in KeyIds : RevokedFor(key, granted, clock, k)

LaterRow(rows_, n, w) == \E v \in Windows : v > w /\ rows_[<<n, v>>] # None

Opened(rows_, n, w) == rows_[<<n, w>>] # None \/ LaterRow(rows_, n, w)

\* What was let through in a window, less its stragglers, is what its row says is
\* spent; once a later window has a row, it is within the limit and stays.
Within(rows_, let, late, n, w) ==
    LET through == let[<<n, w>>] - late[<<n, w>>]
    IN  /\ through <= RATE_LIMIT
        /\ \/ LaterRow(rows_, n, w)
           \/ rows_[<<n, w>>] = None /\ through = 0
           \/ rows_[<<n, w>>] # None /\ through <= RATE_LIMIT - rows_[<<n, w>>]

SweepsForARow(rows_, held) ==
    held.stage = "sweep" => Opened(rows_, held.id, held.window)

Budgeted ==
    /\ \A n \in Callers, w \in Windows : Within(bucket, admitted, straggler, n, w)
    /\ \A c \in Calls : SweepsForARow(bucket, call[c])

KeysInv == KeysTyped /\ Owned /\ RevocationsHold /\ Budgeted

LEMMA WindowsAreNumbers == Windows \subseteq Int
  <1>1. ASSUME NEW t \in 0 .. KeyTime PROVE WindowStartFor(t) \in Int
    <2>1. t \in Int /\ RATE_WINDOW \in Nat \ {0}
      BY KeysAssumption
    <2>2. t \div RATE_WINDOW \in Int
      BY <2>1
    <2> QED BY <2>1, <2>2 DEF WindowStartFor
  <1> QED BY <1>1 DEF Windows

LEMMA NoneIsNoValue ==
    /\ None \notin Nat /\ None \notin KeyIds /\ None \notin EnvironmentName
    /\ None \notin MerchantApiKey /\ RATE_LIMIT \in Nat \ {0}
    /\ MAX_OVERLAP_DAYS \in Nat /\ KeyTime \in Nat /\ Environment \in EnvironmentName
  BY NoneAssumption, KeysAssumption DEF EnvironmentName

\* A window that has had a row is opened for good, by whoever counts in it.
LEMMA FillingKeepsOpened ==
    ASSUME NEW b, NEW d, NEW n, NEW w,
           \A v \in Windows : b[<<n, v>>] # None => d[<<n, v>>] # None
    PROVE  /\ LaterRow(b, n, w) => LaterRow(d, n, w)
           /\ w \in Windows /\ Opened(b, n, w) => Opened(d, n, w)
  BY DEF LaterRow, Opened

Swept(b, d, i, v) ==
    \A n \in Callers, w \in Windows :
        d[<<n, w>>] = IF n = i /\ w < v THEN None ELSE b[<<n, w>>]

\* and by whoever sweeps on behalf of a row that is not older.
LEMMA SweepingKeepsOpened ==
    ASSUME NEW i \in Callers, NEW v \in Windows,
           NEW b, Opened(b, i, v), NEW d, Swept(b, d, i, v),
           NEW n \in Callers, NEW w \in Windows
    PROVE  /\ LaterRow(b, n, w) => LaterRow(d, n, w)
           /\ Opened(b, n, w) => Opened(d, n, w)
           /\ d[<<n, w>>] # b[<<n, w>>] => LaterRow(d, n, w)
           /\ d[<<n, w>>] \in {None, b[<<n, w>>]}
  <1>0. Windows \subseteq Int
    BY WindowsAreNumbers
  <1>1. \A u \in Windows : d[<<n, u>>] = IF n = i /\ u < v THEN None ELSE b[<<n, u>>]
    BY DEF Swept
  <1>2. CASE n # i
    BY <1>1, <1>2 DEF LaterRow, Opened
  <1>3. CASE n = i
    <2>1. PICK u \in Windows : u >= v /\ b[<<i, u>>] # None
      BY <1>0 DEF Opened, LaterRow
    <2>2. d[<<n, u>>] # None
      BY <1>0, <1>1, <1>3, <2>1
    <2>3. w < v => LaterRow(d, n, w)
      BY <1>0, <2>1, <2>2 DEF LaterRow
    <2>4. ~(w < v) => d[<<n, w>>] = b[<<n, w>>] /\ (LaterRow(b, n, w) => LaterRow(d, n, w))
      BY <1>0, <1>1 DEF LaterRow
    <2> QED BY <1>1, <2>3, <2>4 DEF Opened
  <1> QED BY <1>2, <1>3

\* What the rows and the requests hold keeps its type.
LEMMA KeysTypedStep == ASSUME KeysTyped, Owned, KeysNext PROVE KeysTyped'
  <1> USE NoneIsNoValue DEF KeysTyped
  <1>w. WindowStartFor(clock) \in Windows
    BY DEF Windows
  <1>e. ASSUME NEW c \in Calls, NEW to \in {Resting} \cup Limited \cup Rotating,
               to.stage \in {"insert", "first"} => to.id \in Accounts, Step(c, to)
        PROVE  CallsTyped(call')
    BY <1>e DEF CallsTyped, Step
  <1>r. Resting \in {Resting} \cup Limited \cup Rotating /\ Resting.stage = "idle"
    BY DEF Resting
  <1>c. \A c \in Calls : call[c] \in {Resting} \cup Limited \cup Rotating
    BY DEF CallsTyped
  <1>m. ASSUME NEW c \in Calls, NEW s \in {"limit", "sweep", "route", "insert", "first"},
               call[c].stage \in {"limit", "sweep", "route", "insert", "first"},
               s \in {"insert", "first"} => call[c].id \in Accounts,
               Step(c, [call[c] EXCEPT !.stage = s])
        PROVE  CallsTyped(call')
    <2>1. call[c] \in Limited
      BY <1>m, <1>c, <1>r DEF Rotating
    <2>2. /\ [call[c] EXCEPT !.stage = s] \in Limited
          /\ [call[c] EXCEPT !.stage = s].stage = s
          /\ [call[c] EXCEPT !.stage = s].id = call[c].id
      BY <2>1 DEF Limited
    <2> QED BY <1>m, <1>e, <2>2
  <1>i. ASSUME NEW k \in KeyIds, NEW a \in Accounts, NEW e \in EnvironmentName,
               NEW f \in KeyIds \cup {None}, NEW t \in Nat, IssueKey(k, a, e, f, t)
        PROVE  key' \in [KeyIds -> MerchantApiKey \cup {None}]
    BY <1>i DEF IssueKey, NewKey, MerchantApiKey
  <1>1. ASSUME NEW c \in Calls, NEW k \in KeyIds, RequireKey(c, k) PROVE KeysTyped'
    <2>1. key[k] \in MerchantApiKey
      BY <1>1 DEF RequireKey, Verifies
    <2> DEFINE to == [stage |-> "limit", id |-> k, window |-> WindowStartFor(clock),
                      merchantId |-> key[k].merchantId]
    <2>2. to \in Limited /\ to.stage = "limit"
      BY <1>w, <2>1 DEF Limited, Callers, MerchantApiKey
    <2>3. Step(c, to)
      BY <1>1 DEF RequireKey
    <2> HIDE DEF to
    <2>4. CallsTyped(call')
      BY <1>e, <2>2, <2>3
    <2> QED BY <1>1, <2>4 DEF RequireKey
  <1>2. ASSUME NEW c \in Calls, NEW k \in KeyIds, FirstKey(c, k) PROVE KeysTyped'
    <2>1. call[c].id \in Accounts
      BY <1>2 DEF FirstKey, CallsTyped
    <2>2. key' \in [KeyIds -> MerchantApiKey \cup {None}]
      BY <1>2, <1>i, <2>1 DEF FirstKey, EnvironmentName
    <2>3. CallsTyped(call')
      BY <1>2, <1>e, <1>r DEF FirstKey
    <2> QED BY <1>2, <2>2, <2>3 DEF FirstKey
  <1>3. ASSUME NEW c \in Calls, NEW k \in KeyIds, PostKey(c, k) PROVE KeysTyped'
    <2>1. call[c].merchantId \in Accounts
      BY <1>3, <1>c, <1>r DEF PostKey, Authenticated, Limited, Rotating
    <2>2. key' \in [KeyIds -> MerchantApiKey \cup {None}]
      BY <1>3, <1>i, <2>1 DEF PostKey
    <2>3. CallsTyped(call')
      BY <1>3, <1>e, <1>r DEF PostKey
    <2> QED BY <1>3, <2>2, <2>3 DEF PostKey
  <1>4. ASSUME NEW c \in Calls, NEW k \in KeyIds, RotateIssue(c, k) PROVE KeysTyped'
    <2>1. call[c] \in Rotating
      BY <1>4, <1>c, <1>r DEF RotateIssue, Limited
    <2>2. key' \in [KeyIds -> MerchantApiKey \cup {None}]
      BY <1>4, <1>i, <2>1 DEF RotateIssue, Rotating, MerchantApiKey
    <2> DEFINE to == [call[c] EXCEPT !.stage = "retire"]
    <2>3. to \in Rotating /\ to.stage = "retire"
      BY <2>1 DEF Rotating
    <2>4. Step(c, to)
      BY <1>4 DEF RotateIssue
    <2> HIDE DEF to
    <2>5. CallsTyped(call')
      BY <1>e, <2>3, <2>4
    <2> QED BY <1>4, <2>2, <2>5 DEF RotateIssue
  <1>5. ASSUME NEW c \in Calls, NEW k \in KeyIds, RevokeKey(c, k) PROVE KeysTyped'
    <2>1. CallsTyped(call')
      BY <1>5, <1>e, <1>r DEF RevokeKey
    <2>2. key' \in [KeyIds -> MerchantApiKey \cup {None}]
      BY <1>5 DEF RevokeKey, MerchantApiKey
    <2>3. granted' \in [KeyIds -> {"held", "revoked", "used"}]
      BY <1>5 DEF RevokeKey
    <2> QED BY <1>5, <2>1, <2>2, <2>3 DEF RevokeKey
  <1>6. ASSUME NEW c \in Calls, NEW a \in Accounts, BeginSignup(c, a) PROVE KeysTyped'
    <2> DEFINE to == [stage |-> "limit", id |-> a, window |-> WindowStartFor(clock),
                      merchantId |-> a]
    <2>1. to \in Limited /\ to.stage = "limit"
      BY <1>w DEF Limited, Callers
    <2>2. Step(c, to)
      BY <1>6 DEF BeginSignup
    <2> HIDE DEF to
    <2>3. CallsTyped(call')
      BY <1>e, <2>1, <2>2
    <2> QED BY <1>6, <2>3 DEF BeginSignup
  <1>7. ASSUME NEW c \in Calls, NEW k \in KeyIds, NEW d \in Overlaps, RotateRead(c, k, d)
        PROVE  KeysTyped'
    <2> DEFINE to == [stage |-> "issue", old |-> k, existing |-> key[k], overlap |-> d,
                      now |-> clock]
    <2>1. CASE Step(c, Resting)
      BY <1>7, <1>e, <1>r, <2>1 DEF RotateRead
    <2>2. CASE d \in 0 .. MAX_OVERLAP_DAYS /\ key[k] # None /\ Step(c, to)
      <3>1. to \in Rotating /\ to.stage = "issue"
        BY <2>2 DEF Rotating
      <3> HIDE DEF to
      <3>2. CallsTyped(call')
        BY <1>e, <2>2, <3>1
      <3> QED BY <1>7, <3>2 DEF RotateRead
    <2> QED BY <1>7, <2>1, <2>2 DEF RotateRead
  <1>8. ASSUME NEW c \in Calls, Consume(c) PROVE KeysTyped'
    <2> DEFINE at == <<call[c].id, call[c].window>>
               s == IF Spend(bucket[at]) = RATE_LIMIT - 1 THEN "sweep" ELSE "route"
    <2>1. call[c] \in Limited /\ at \in Callers \X Windows
      BY <1>8, <1>c, <1>r DEF Consume, Limited, Rotating
    <2>2. CASE ~HasToken(bucket[at])
      BY <1>8, <1>e, <1>r, <2>2 DEF Consume
    <2>3. CASE HasToken(bucket[at])
      <3>1. Spend(bucket[at]) \in RateLimitBucket
        BY <2>1, <2>3 DEF Spend, HasToken, RateLimitBucket
      <3>2. Step(c, [call[c] EXCEPT !.stage = s]) /\ call[c].stage = "limit"
        BY <1>8, <2>3 DEF Consume
      <3>3. s \in {"sweep", "route"}
        OBVIOUS
      <3>4. bucket' = [bucket EXCEPT ![at] = Spend(@)]
        BY <1>8, <2>3 DEF Consume
      <3>5. /\ admitted' = [admitted EXCEPT ![at] = @ + 1]
            /\ straggler' \in {[straggler EXCEPT ![at] = @ + 1], [straggler EXCEPT ![at] = @]}
        BY <1>8, <2>3 DEF Consume
      <3> HIDE DEF s, at
      <3>8. admitted' \in [Callers \X Windows -> Nat] /\ straggler' \in [Callers \X Windows -> Nat]
        BY <2>1, <3>5
      <3>6. CallsTyped(call')
        BY <1>m, <3>2, <3>3
      <3>7. bucket' \in [Callers \X Windows -> RateLimitBucket]
        BY <2>1, <3>1, <3>4
      <3> QED BY <1>8, <3>6, <3>7, <3>8 DEF Consume
    <2> QED BY <2>2, <2>3
  <1>9. ASSUME NEW c \in Calls, Sweep(c) PROVE KeysTyped'
    <2>1. CallsTyped(call')
      BY <1>9, <1>m DEF Sweep
    <2>2. bucket' \in [Callers \X Windows -> RateLimitBucket]
      BY <1>9 DEF Sweep, RateLimitBucket
    <2> QED BY <1>9, <2>1, <2>2 DEF Sweep
  <1>10. ASSUME NEW c \in Calls, SelectMerchant(c) PROVE KeysTyped'
    <2>1. CASE account[call[c].id] = None
      BY <1>10, <1>m, <2>1 DEF SelectMerchant
    <2>2. CASE account[call[c].id] # None
      BY <1>10, <1>m, <2>2 DEF SelectMerchant
    <2> QED BY <2>1, <2>2
  <1>11. ASSUME NEW c \in Calls, InsertMerchant(c) PROVE KeysTyped'
    <2>1. call[c].id \in Accounts
      BY <1>11 DEF InsertMerchant, CallsTyped
    <2>2. CallsTyped(call')
      BY <1>11, <1>e, <1>r, <1>m, <2>1 DEF InsertMerchant
    <2>3. account' \in [Accounts -> MerchantAccount]
      BY <1>11, <2>1 DEF InsertMerchant, MerchantAccount, EnvironmentName
    <2> QED BY <1>11, <2>2, <2>3 DEF InsertMerchant
  <1>12. ASSUME NEW c \in Calls, RotateRetire(c) PROVE KeysTyped'
    <2> DEFINE t == call[c].now + call[c].overlap
               o == call[c].old
    <2>1. call[c] \in Rotating
      BY <1>12, <1>c, <1>r DEF RotateRetire, Limited
    <2>2. t \in Nat /\ o \in KeyIds /\ key[o] \in MerchantApiKey
      BY <1>12, <2>1 DEF Rotating, Owned, RotatesItsOwn, RotateRetire
    <2>3. key' = [key EXCEPT ![o] = [@ EXCEPT !.expiresAt = t]]
      BY <1>12 DEF RotateRetire, Retire
    <2> HIDE DEF t, o
    <2>4. key' \in [KeyIds -> MerchantApiKey \cup {None}]
      BY <2>2, <2>3 DEF MerchantApiKey
    <2>5. CallsTyped(call')
      BY <1>12, <1>e, <1>r DEF RotateRetire
    <2> QED BY <1>12, <2>4, <2>5 DEF RotateRetire
  <1>13. ASSUME NEW c \in Calls, OtherRoute(c) PROVE KeysTyped'
    BY <1>13, <1>e, <1>r DEF OtherRoute
  <1>14. ASSUME NEW a \in Accounts, AttestLive(a) PROVE KeysTyped'
    BY <1>14 DEF AttestLive, MerchantAccount, EnvironmentName, CallsTyped
  <1>15. ASSUME CrashCalls PROVE KeysTyped'
    BY <1>15, <1>r DEF CrashCalls, CallsTyped
  <1>16. ASSUME KeysTick PROVE KeysTyped'
    BY <1>16 DEF KeysTick
  <1> QED BY <1>1, <1>2, <1>3, <1>4, <1>5, <1>6, <1>7, <1>8, <1>9, <1>10, <1>11, <1>12,
             <1>13, <1>14, <1>15, <1>16 DEF KeysNext

\* No call moves a key between merchants, or an account once it is attested.
LEMMA OwnedStep == ASSUME KeysTyped, Owned, KeysNext PROVE Owned'
  <1> USE NoneIsNoValue
  <1>t. /\ key \in [KeyIds -> MerchantApiKey \cup {None}]
        /\ account \in [Accounts -> MerchantAccount]
    BY DEF KeysTyped
  <1>c. \A c \in Calls : call[c] \in {Resting} \cup Limited \cup Rotating
    BY DEF KeysTyped, CallsTyped
  <1>r. Resting.stage = "idle"
    BY DEF Resting
  \* Rows that keep their merchant, their environment and their origin.
  <1>k. ASSUME \A k \in KeyIds : /\ key'[k] # None <=> key[k] # None
                                 /\ key[k] # None =>
                                      /\ key'[k].merchantId = key[k].merchantId
                                      /\ key'[k].environment = key[k].environment
                                      /\ key'[k].rotatedFrom = key[k].rotatedFrom,
               \A a \in Accounts : account[a] # None => account'[a] = account[a],
               NEW k \in KeyIds
        PROVE  OfItsAccount(key', account', k)
    <2>1. CASE key[k] = None
      BY <1>k, <2>1 DEF OfItsAccount
    <2>2. CASE key[k] # None
      <3>1. key[k] \in MerchantApiKey
        BY <1>t, <2>2
      <3>2. /\ key[k].merchantId \in Accounts /\ key[k].environment \in EnvironmentName
            /\ key[k].rotatedFrom \in KeyIds \cup {None}
        BY <3>1 DEF MerchantApiKey
      <3>3. OfItsAccount(key, account, k)
        BY DEF Owned
      <3>4. account'[key[k].merchantId] = account[key[k].merchantId]
        BY <1>k, <2>2, <3>2, <3>3 DEF OfItsAccount
      <3> QED BY <1>k, <2>2, <3>2, <3>3, <3>4 DEF OfItsAccount
    <2> QED BY <2>1, <2>2
  <1>o. ASSUME \A k \in KeyIds : key[k] # None =>
                   key'[k] # None /\ key'[k].merchantId = key[k].merchantId,
               NEW c \in Calls, call'[c] = call[c]
        PROVE  RotatesItsOwn(key', call'[c])
    <2>1. CASE call[c].stage \notin {"issue", "retire"}
      BY <1>o, <2>1 DEF RotatesItsOwn
    <2>2. CASE call[c].stage \in {"issue", "retire"}
      <3>1. call[c] \in Rotating
        BY <1>c, <1>r, <2>2 DEF Limited
      <3>2. call[c].old \in KeyIds
        BY <3>1 DEF Rotating
      <3>3. RotatesItsOwn(key, call[c])
        BY DEF Owned
      <3> QED BY <1>o, <2>2, <3>2, <3>3 DEF RotatesItsOwn
    <2> QED BY <2>1, <2>2
  \* Steps that write neither a key nor an account, nor start a rotation.
  <1>q. ASSUME UNCHANGED <<key, account>>, NEW c \in Calls, NEW to, Step(c, to),
               to.stage \notin {"issue", "retire"}
        PROVE  Owned'
    <2>1. \A d \in Calls : call'[d] = IF d = c THEN to ELSE call[d]
      BY <1>q DEF Step, KeysTyped, CallsTyped
    <2>2. \A d \in Calls : RotatesItsOwn(key', call'[d])
      <3> TAKE d \in Calls
      <3>1. CASE d = c
        BY <1>q, <2>1, <3>1 DEF RotatesItsOwn
      <3>2. CASE d # c
        BY <1>q, <1>o, <2>1, <3>2
      <3> QED BY <3>1, <3>2
    <2>3. \A k \in KeyIds : OfItsAccount(key', account', k)
      BY <1>q, <1>k
    <2> QED BY <2>2, <2>3 DEF Owned
  \* A key is issued, to an account that is of its environment.
  <1>i. ASSUME NEW k \in KeyIds, NEW a \in Accounts, NEW e \in EnvironmentName,
               NEW f \in KeyIds \cup {None}, NEW t \in Nat, IssueKey(k, a, e, f, t),
               f # None => key[f] # None /\ key[f].merchantId = a,
               UNCHANGED account
        PROVE  /\ \A j \in KeyIds : OfItsAccount(key', account', j)
               /\ \A j \in KeyIds : key[j] # None =>
                      key'[j] # None /\ key'[j].merchantId = key[j].merchantId
    <2> DEFINE row == NewKey(a, e, f, t)
    <2>1. row \in MerchantApiKey /\ row.merchantId = a /\ row.environment = e /\ row.rotatedFrom = f
      BY DEF NewKey, MerchantApiKey
    <2>2. key[k] = None /\ account[a] = e /\ key' = [key EXCEPT ![k] = row]
      BY <1>i DEF IssueKey
    <2> HIDE DEF row
    <2>3. \A j \in KeyIds : key'[j] = IF j = k THEN row ELSE key[j]
      BY <1>t, <2>2
    <2>4. row # None
      BY <2>1
    <2>5. \A j \in KeyIds : key[j] # None => j # k /\ key'[j] = key[j]
      BY <2>2, <2>3
    <2>6. OfItsAccount(key', account', k)
      BY <1>i, <2>1, <2>2, <2>3, <2>5 DEF OfItsAccount
    <2>7. ASSUME NEW j \in KeyIds, j # k PROVE OfItsAccount(key', account', j)
      <3>1. CASE key[j] = None
        BY <2>3, <2>7, <3>1 DEF OfItsAccount
      <3>2. CASE key[j] # None
        <4>1. key[j].rotatedFrom \in KeyIds \cup {None}
          BY <1>t, <3>2 DEF MerchantApiKey
        <4>2. OfItsAccount(key, account, j)
          BY DEF Owned
        <4> QED BY <1>i, <2>5, <3>2, <4>1, <4>2 DEF OfItsAccount
      <3> QED BY <3>1, <3>2
    <2> QED BY <2>5, <2>6, <2>7
  \* and the request that issued it holds what it held.
  <1>j. ASSUME \A j \in KeyIds : OfItsAccount(key', account', j),
               \A j \in KeyIds : key[j] # None =>
                   key'[j] # None /\ key'[j].merchantId = key[j].merchantId,
               NEW c \in Calls, NEW to, Step(c, to), RotatesItsOwn(key', to)
        PROVE  Owned'
    <2>1. \A d \in Calls : call'[d] = IF d = c THEN to ELSE call[d]
      BY <1>j DEF Step, KeysTyped, CallsTyped
    <2>2. \A d \in Calls : RotatesItsOwn(key', call'[d])
      BY <1>j, <1>o, <2>1
    <2> QED BY <1>j, <2>2 DEF Owned
  <1>s. Resting.stage \notin {"issue", "retire"} /\ RotatesItsOwn(key', Resting)
    BY <1>r DEF RotatesItsOwn
  <1>m. ASSUME NEW c \in Calls, NEW s,
               call[c].stage \in {"limit", "sweep", "route", "insert", "first"}
        PROVE  [call[c] EXCEPT !.stage = s].stage = s
    <2>1. call[c] \in Limited
      BY <1>c, <1>r, <1>m DEF Rotating
    <2> QED BY <2>1 DEF Limited
  <1>1. ASSUME NEW c \in Calls, NEW k \in KeyIds, RequireKey(c, k) PROVE Owned'
    BY <1>1, <1>q DEF RequireKey
  <1>2. ASSUME NEW c \in Calls, NEW k \in KeyIds, FirstKey(c, k) PROVE Owned'
    <2>1. Step(c, Resting) /\ call[c].id \in Accounts
      BY <1>2 DEF FirstKey, KeysTyped, CallsTyped
    <2>2. CASE account[call[c].id] = "sandbox"
      <3>1. IssueKey(k, call[c].id, "sandbox", None, clock) /\ clock \in Nat /\ UNCHANGED account
        BY <1>2, <2>2 DEF FirstKey, KeysTyped
      <3>2. /\ \A j \in KeyIds : OfItsAccount(key', account', j)
            /\ \A j \in KeyIds : key[j] # None =>
                   key'[j] # None /\ key'[j].merchantId = key[j].merchantId
        BY <1>i, <2>1, <3>1 DEF EnvironmentName
      <3> QED BY <1>j, <1>s, <2>1, <3>2
    <2>3. CASE account[call[c].id] # "sandbox"
      BY <1>2, <1>q, <1>s, <2>1, <2>3 DEF FirstKey
    <2> QED BY <2>2, <2>3
  <1>3. ASSUME NEW c \in Calls, NEW k \in KeyIds, PostKey(c, k) PROVE Owned'
    <2>1. call[c].merchantId \in Accounts
      BY <1>3, <1>c, <1>r DEF PostKey, Authenticated, Limited, Rotating
    <2>2. IssueKey(k, call[c].merchantId, Environment, None, clock) /\ clock \in Nat
      BY <1>3 DEF PostKey, KeysTyped
    <2>3. Step(c, Resting) /\ UNCHANGED account
      BY <1>3 DEF PostKey
    <2>4. /\ \A j \in KeyIds : OfItsAccount(key', account', j)
          /\ \A j \in KeyIds : key[j] # None =>
                 key'[j] # None /\ key'[j].merchantId = key[j].merchantId
      BY <1>i, <2>1, <2>2, <2>3
    <2> QED BY <1>j, <1>s, <2>3, <2>4
  <1>4. ASSUME NEW c \in Calls, NEW k \in KeyIds, RotateIssue(c, k) PROVE Owned'
    <2> DEFINE h == call[c]
               to == [h EXCEPT !.stage = "retire"]
    <2>1. h \in Rotating /\ h.stage = "issue"
      BY <1>4, <1>c, <1>r DEF RotateIssue, Limited
    <2>2. /\ IssueKey(k, h.existing.merchantId, h.existing.environment, h.old, h.now)
          /\ Step(c, to) /\ UNCHANGED account
      BY <1>4 DEF RotateIssue
    <2>3. to.stage = "retire" /\ to.old = h.old /\ to.existing = h.existing
      BY <2>1 DEF Rotating
    <2>4. /\ h.existing.merchantId \in Accounts /\ h.existing.environment \in EnvironmentName
          /\ h.old \in KeyIds /\ h.now \in Nat
      BY <2>1 DEF Rotating, MerchantApiKey
    <2>5. key[h.old] # None /\ key[h.old].merchantId = h.existing.merchantId
      BY <2>1 DEF Owned, RotatesItsOwn
    <2> HIDE DEF to, h
    <2>6. /\ \A j \in KeyIds : OfItsAccount(key', account', j)
          /\ \A j \in KeyIds : key[j] # None =>
                 key'[j] # None /\ key'[j].merchantId = key[j].merchantId
      BY <1>i, <2>2, <2>4, <2>5
    <2>7. RotatesItsOwn(key', to)
      BY <2>3, <2>4, <2>5, <2>6 DEF RotatesItsOwn
    <2> QED BY <1>j, <2>2, <2>6, <2>7
  <1>5. ASSUME NEW c \in Calls, NEW k \in KeyIds, RevokeKey(c, k) PROVE Owned'
    <2>1. Step(c, Resting) /\ UNCHANGED account
      BY <1>5 DEF RevokeKey
    <2>2. CASE key[k] # None /\ key[k].merchantId = call[c].merchantId
      <3>1. key' = [key EXCEPT ![k] = [@ EXCEPT !.revokedAt = clock]]
        BY <1>5, <2>2 DEF RevokeKey
      <3>2. key[k] \in MerchantApiKey /\ clock \in Nat
        BY <1>t, <2>2 DEF KeysTyped
      <3>3. [key[k] EXCEPT !.revokedAt = clock] \in MerchantApiKey
        BY <3>2 DEF MerchantApiKey
      <3>4. \A j \in KeyIds : /\ key'[j] # None <=> key[j] # None
                              /\ key[j] # None =>
                                   /\ key'[j].merchantId = key[j].merchantId
                                   /\ key'[j].environment = key[j].environment
                                   /\ key'[j].rotatedFrom = key[j].rotatedFrom
        BY <1>t, <2>2, <3>1, <3>2, <3>3 DEF MerchantApiKey
      <3>5. \A j \in KeyIds : OfItsAccount(key', account', j)
        BY <1>k, <2>1, <3>4
      <3> QED BY <1>j, <1>s, <2>1, <3>4, <3>5
    <2>3. CASE ~(key[k] # None /\ key[k].merchantId = call[c].merchantId)
      BY <1>5, <1>q, <1>s, <2>1, <2>3 DEF RevokeKey
    <2> QED BY <2>2, <2>3
  <1>6. ASSUME NEW c \in Calls, NEW a \in Accounts, BeginSignup(c, a) PROVE Owned'
    BY <1>6, <1>q DEF BeginSignup
  <1>7. ASSUME NEW c \in Calls, NEW k \in KeyIds, NEW d \in Overlaps, RotateRead(c, k, d)
        PROVE  Owned'
    <2> DEFINE to == [stage |-> "issue", old |-> k, existing |-> key[k], overlap |-> d,
                      now |-> clock]
    <2>1. UNCHANGED <<key, account>>
      BY <1>7 DEF RotateRead
    <2>2. CASE Step(c, Resting)
      BY <1>q, <1>s, <2>1, <2>2
    <2>3. CASE key[k] # None /\ Step(c, to)
      <3>1. RotatesItsOwn(key', to)
        BY <2>1, <2>3 DEF RotatesItsOwn
      <3> HIDE DEF to
      <3>2. \A j \in KeyIds : OfItsAccount(key', account', j)
        BY <1>k, <2>1
      <3> QED BY <1>j, <2>1, <2>3, <3>1, <3>2
    <2> QED BY <1>7, <2>2, <2>3 DEF RotateRead
  <1>8. ASSUME NEW c \in Calls, Consume(c) PROVE Owned'
    <2> DEFINE s == IF Spend(bucket[<<call[c].id, call[c].window>>]) = RATE_LIMIT - 1
                      THEN "sweep" ELSE "route"
    <2>1. UNCHANGED <<key, account>> /\ call[c].stage = "limit"
      BY <1>8 DEF Consume
    <2>2. Step(c, Resting) \/ Step(c, [call[c] EXCEPT !.stage = s])
      BY <1>8 DEF Consume
    <2>3. s \notin {"issue", "retire"}
      OBVIOUS
    <2> HIDE DEF s
    <2>4. [call[c] EXCEPT !.stage = s].stage = s
      BY <1>m, <2>1
    <2> QED BY <1>q, <1>s, <2>1, <2>2, <2>3, <2>4
  <1>9. ASSUME NEW c \in Calls, Sweep(c) PROVE Owned'
    <2>1. [call[c] EXCEPT !.stage = "route"].stage = "route"
      BY <1>9, <1>m DEF Sweep
    <2> QED BY <1>9, <1>q, <2>1 DEF Sweep
  <1>10. ASSUME NEW c \in Calls, SelectMerchant(c) PROVE Owned'
    <2> DEFINE s == IF account[call[c].id] = None THEN "insert" ELSE "first"
    <2>1. UNCHANGED <<key, account>> /\ Step(c, [call[c] EXCEPT !.stage = s])
      BY <1>10 DEF SelectMerchant
    <2>2. s \notin {"issue", "retire"}
      OBVIOUS
    <2> HIDE DEF s
    <2>3. [call[c] EXCEPT !.stage = s].stage = s
      BY <1>10, <1>m DEF SelectMerchant
    <2> QED BY <1>q, <2>1, <2>2, <2>3
  <1>11. ASSUME NEW c \in Calls, InsertMerchant(c) PROVE Owned'
    <2>1. [call[c] EXCEPT !.stage = "first"].stage = "first" /\ UNCHANGED key
      BY <1>11, <1>m DEF InsertMerchant
    <2>2. \A a \in Accounts : account[a] # None => account'[a] = account[a]
      BY <1>11, <1>t DEF InsertMerchant
    <2>3. \A j \in KeyIds : OfItsAccount(key', account', j)
      BY <1>k, <2>1, <2>2
    <2>4. PICK to : Step(c, to) /\ to.stage \notin {"issue", "retire"}
      BY <1>11, <1>s, <2>1 DEF InsertMerchant
    <2>5. RotatesItsOwn(key', to)
      BY <2>4 DEF RotatesItsOwn
    <2> QED BY <1>j, <2>1, <2>3, <2>4, <2>5
  <1>12. ASSUME NEW c \in Calls, RotateRetire(c) PROVE Owned'
    <2> DEFINE t == call[c].now + call[c].overlap
               o == call[c].old
    <2>1. call[c] \in Rotating
      BY <1>12, <1>c, <1>r DEF RotateRetire, Limited
    <2>2. key[o] # None /\ o \in KeyIds /\ t \in Nat
      BY <1>12, <2>1 DEF Rotating, Owned, RotatesItsOwn, RotateRetire
    <2>3. key' = [key EXCEPT ![o] = [@ EXCEPT !.expiresAt = t]]
      BY <1>12 DEF RotateRetire, Retire
    <2> HIDE DEF t, o
    <2>4. key[o] \in MerchantApiKey
      BY <1>t, <2>2
    <2>5. [key[o] EXCEPT !.expiresAt = t] \in MerchantApiKey
      BY <2>2, <2>4 DEF MerchantApiKey
    <2>6. \A j \in KeyIds : /\ key'[j] # None <=> key[j] # None
                            /\ key[j] # None =>
                                 /\ key'[j].merchantId = key[j].merchantId
                                 /\ key'[j].environment = key[j].environment
                                 /\ key'[j].rotatedFrom = key[j].rotatedFrom
      BY <1>t, <2>2, <2>3, <2>4, <2>5 DEF MerchantApiKey
    <2>7. Step(c, Resting) /\ UNCHANGED account
      BY <1>12 DEF RotateRetire
    <2>8. \A j \in KeyIds : OfItsAccount(key', account', j)
      BY <1>k, <2>6, <2>7
    <2> QED BY <1>j, <1>s, <2>6, <2>7, <2>8
  <1>13. ASSUME NEW c \in Calls, OtherRoute(c) PROVE Owned'
    BY <1>13, <1>q, <1>s DEF OtherRoute
  <1>14. ASSUME NEW a \in Accounts, AttestLive(a) PROVE Owned'
    <2>1. UNCHANGED <<key, call>> /\ \A b \in Accounts : account[b] # None => account'[b] = account[b]
      BY <1>14, <1>t DEF AttestLive
    <2>2. \A j \in KeyIds : OfItsAccount(key', account', j)
      BY <1>k, <2>1
    <2> QED BY <2>1, <2>2 DEF Owned
  <1>15. ASSUME CrashCalls PROVE Owned'
    <2>1. UNCHANGED <<key, account>> /\ \A c \in Calls : call'[c] = Resting
      BY <1>15 DEF CrashCalls
    <2>2. \A j \in KeyIds : OfItsAccount(key', account', j)
      BY <1>k, <2>1
    <2> QED BY <1>s, <2>1, <2>2 DEF Owned
  <1>16. ASSUME KeysTick PROVE Owned'
    BY <1>16 DEF KeysTick, Owned
  <1> QED BY <1>1, <1>2, <1>3, <1>4, <1>5, <1>6, <1>7, <1>8, <1>9, <1>10, <1>11, <1>12,
             <1>13, <1>14, <1>15, <1>16 DEF KeysNext

\* No call takes a revocation back, and no revoked key is let in.
LEMMA RevocationsHoldStep ==
    ASSUME KeysTyped, Owned, RevocationsHold, KeysNext PROVE RevocationsHold'
  <1> USE NoneIsNoValue
  <1>t. /\ key \in [KeyIds -> MerchantApiKey \cup {None}] /\ clock \in Nat
        /\ granted \in [KeyIds -> {"held", "revoked", "used"}]
    BY DEF KeysTyped
  <1>c. \A c \in Calls : call[c] \in {Resting} \cup Limited \cup Rotating
    BY DEF KeysTyped, CallsTyped
  <1>h. \A k \in KeyIds : RevokedFor(key, granted, clock, k)
    BY DEF RevocationsHold
  <1>u. ASSUME UNCHANGED <<key, granted, clock>> PROVE RevocationsHold'
    BY <1>u DEF RevocationsHold
  \* Keys that keep their stamp.
  <1>k. ASSUME UNCHANGED <<granted, clock>>,
               \A k \in KeyIds : key[k] # None =>
                   key'[k] # None /\ key'[k].revokedAt = key[k].revokedAt
        PROVE  RevocationsHold'
    BY <1>h, <1>k DEF RevocationsHold, RevokedFor, Revoked
  <1>i. ASSUME NEW k \in KeyIds, NEW a, NEW e, NEW f, NEW n, IssueKey(k, a, e, f, n),
               UNCHANGED <<granted, clock>>
        PROVE  RevocationsHold'
    <2>1. \A j \in KeyIds : key[j] # None => key'[j] = key[j]
      BY <1>i, <1>t DEF IssueKey
    <2> QED BY <1>i, <1>k, <2>1
  <1>1. ASSUME NEW c \in Calls, NEW k \in KeyIds, RequireKey(c, k) PROVE RevocationsHold'
    <2>1. key[k] # None /\ ~Revoked(key[k], clock)
      BY <1>1 DEF RequireKey, Verifies
    <2>2. granted[k] = "held"
      BY <1>h, <1>t, <2>1 DEF RevokedFor
    <2> QED BY <1>1, <1>u, <2>2 DEF RequireKey
  <1>2. ASSUME NEW c \in Calls, NEW k \in KeyIds, FirstKey(c, k) PROVE RevocationsHold'
    <2>1. CASE account[call[c].id] = "sandbox"
      BY <1>2, <1>i, <2>1 DEF FirstKey
    <2>2. CASE account[call[c].id] # "sandbox"
      BY <1>2, <1>u, <2>2 DEF FirstKey
    <2> QED BY <2>1, <2>2
  <1>3. ASSUME NEW c \in Calls, NEW k \in KeyIds, PostKey(c, k) PROVE RevocationsHold'
    BY <1>3, <1>i DEF PostKey
  <1>4. ASSUME NEW c \in Calls, NEW k \in KeyIds, RotateIssue(c, k) PROVE RevocationsHold'
    BY <1>4, <1>i DEF RotateIssue
  <1>5. ASSUME NEW c \in Calls, NEW k \in KeyIds, RevokeKey(c, k) PROVE RevocationsHold'
    <2>1. CASE key[k] # None /\ key[k].merchantId = call[c].merchantId
      <3>1. /\ key' = [key EXCEPT ![k] = [@ EXCEPT !.revokedAt = clock]]
            /\ granted' = [granted EXCEPT ![k] = "revoked"] /\ clock' = clock
        BY <1>5, <2>1 DEF RevokeKey
      <3>2. key[k] \in MerchantApiKey
        BY <1>t, <2>1
      <3>3. /\ [key[k] EXCEPT !.revokedAt = clock] \in MerchantApiKey
            /\ [key[k] EXCEPT !.revokedAt = clock].revokedAt = clock
        BY <1>t, <3>2 DEF MerchantApiKey
      <3>4. key'[k] # None /\ key'[k].revokedAt = clock /\ granted'[k] = "revoked"
        BY <1>t, <3>1, <3>3
      <3>5. RevokedFor(key', granted', clock', k)
        BY <1>t, <3>1, <3>4 DEF RevokedFor, Revoked
      <3>6. \A j \in KeyIds : j # k => key'[j] = key[j] /\ granted'[j] = granted[j]
        BY <1>t, <3>1
      <3>7. \A j \in KeyIds : j # k => RevokedFor(key', granted', clock', j)
        BY <1>h, <3>1, <3>6 DEF RevokedFor
      <3> QED BY <3>5, <3>7 DEF RevocationsHold
    <2>2. CASE ~(key[k] # None /\ key[k].merchantId = call[c].merchantId)
      BY <1>5, <1>u, <2>2 DEF RevokeKey
    <2> QED BY <2>1, <2>2
  <1>6. ASSUME NEW c \in Calls, NEW a \in Accounts, BeginSignup(c, a) PROVE RevocationsHold'
    BY <1>6, <1>u DEF BeginSignup
  <1>7. ASSUME NEW c \in Calls, NEW k \in KeyIds, NEW d \in Overlaps, RotateRead(c, k, d)
        PROVE  RevocationsHold'
    BY <1>7, <1>u DEF RotateRead
  <1>8. ASSUME NEW c \in Calls, Consume(c) PROVE RevocationsHold'
    BY <1>8, <1>u DEF Consume
  <1>9. ASSUME NEW c \in Calls, Sweep(c) PROVE RevocationsHold'
    BY <1>9, <1>u DEF Sweep
  <1>10. ASSUME NEW c \in Calls, SelectMerchant(c) PROVE RevocationsHold'
    BY <1>10, <1>u DEF SelectMerchant
  <1>11. ASSUME NEW c \in Calls, InsertMerchant(c) PROVE RevocationsHold'
    BY <1>11, <1>u DEF InsertMerchant
  <1>12. ASSUME NEW c \in Calls, RotateRetire(c) PROVE RevocationsHold'
    <2> DEFINE t == call[c].now + call[c].overlap
               o == call[c].old
    <2>1. call[c] \in Rotating
      BY <1>12, <1>c DEF RotateRetire, Limited, Resting
    <2>2. key[o] # None /\ o \in KeyIds /\ t \in Nat
      BY <1>12, <2>1 DEF Rotating, Owned, RotatesItsOwn, RotateRetire
    <2>3. key' = [key EXCEPT ![o] = [@ EXCEPT !.expiresAt = t]] /\ UNCHANGED <<granted, clock>>
      BY <1>12 DEF RotateRetire, Retire
    <2> HIDE DEF t, o
    <2>4. key[o] \in MerchantApiKey
      BY <1>t, <2>2
    <2>5. /\ [key[o] EXCEPT !.expiresAt = t] \in MerchantApiKey
          /\ [key[o] EXCEPT !.expiresAt = t].revokedAt = key[o].revokedAt
      BY <2>2, <2>4 DEF MerchantApiKey
    <2>6. \A j \in KeyIds : key[j] # None => key'[j] # None /\ key'[j].revokedAt = key[j].revokedAt
      BY <1>t, <2>2, <2>3, <2>5
    <2> QED BY <1>k, <2>3, <2>6
  <1>13. ASSUME NEW c \in Calls, OtherRoute(c) PROVE RevocationsHold'
    BY <1>13, <1>u DEF OtherRoute
  <1>14. ASSUME NEW a \in Accounts, AttestLive(a) PROVE RevocationsHold'
    BY <1>14, <1>u DEF AttestLive
  <1>15. ASSUME CrashCalls PROVE RevocationsHold'
    BY <1>15, <1>u DEF CrashCalls
  <1>16. ASSUME KeysTick PROVE RevocationsHold'
    <2>1. clock' = clock + 1 /\ UNCHANGED <<key, granted>>
      BY <1>16 DEF KeysTick
    <2>2. \A k \in KeyIds : key[k] # None => key[k].revokedAt \in Nat \cup {None}
      BY <1>t DEF MerchantApiKey
    <2> QED BY <1>h, <1>t, <2>1, <2>2 DEF RevocationsHold, RevokedFor, Revoked
  <1> QED BY <1>1, <1>2, <1>3, <1>4, <1>5, <1>6, <1>7, <1>8, <1>9, <1>10, <1>11, <1>12,
             <1>13, <1>14, <1>15, <1>16 DEF KeysNext

\* No request is let through that its window has no room for, stragglers aside.
LEMMA BudgetedStep == ASSUME KeysTyped, Budgeted, KeysNext PROVE Budgeted'
  <1> USE NoneIsNoValue
  <1>t. /\ bucket \in [Callers \X Windows -> RateLimitBucket]
        /\ admitted \in [Callers \X Windows -> Nat] /\ straggler \in [Callers \X Windows -> Nat]
    BY DEF KeysTyped
  <1>c. \A c \in Calls : call[c] \in {Resting} \cup Limited \cup Rotating
    BY DEF KeysTyped, CallsTyped
  <1>b. /\ \A n \in Callers, w \in Windows : Within(bucket, admitted, straggler, n, w)
        /\ \A c \in Calls : SweepsForARow(bucket, call[c])
    BY DEF Budgeted
  <1>r. Resting.stage # "sweep"
    BY DEF Resting
  <1>m. ASSUME NEW c \in Calls, NEW s,
               call[c].stage \in {"limit", "sweep", "route", "insert", "first"}
        PROVE  /\ [call[c] EXCEPT !.stage = s].stage = s
               /\ [call[c] EXCEPT !.stage = s].id = call[c].id
               /\ [call[c] EXCEPT !.stage = s].window = call[c].window
    <2>1. call[c] \in Limited
      BY <1>c, <1>m DEF Rotating, Resting
    <2> QED BY <2>1 DEF Limited
  <1>q. ASSUME UNCHANGED <<bucket, admitted, straggler>>, NEW c \in Calls, NEW to, Step(c, to),
               to.stage # "sweep"
        PROVE  Budgeted'
    <2>1. \A d \in Calls : call'[d] = IF d = c THEN to ELSE call[d]
      BY <1>q DEF Step, KeysTyped, CallsTyped
    <2>2. \A d \in Calls : SweepsForARow(bucket', call'[d])
      BY <1>b, <1>q, <2>1 DEF SweepsForARow
    <2> QED BY <1>b, <1>q, <2>2 DEF Budgeted
  <1>1. ASSUME NEW c \in Calls, NEW k \in KeyIds, RequireKey(c, k) PROVE Budgeted'
    BY <1>1, <1>q DEF RequireKey
  <1>2. ASSUME NEW c \in Calls, NEW k \in KeyIds, FirstKey(c, k) PROVE Budgeted'
    BY <1>2, <1>q, <1>r DEF FirstKey
  <1>3. ASSUME NEW c \in Calls, NEW k \in KeyIds, PostKey(c, k) PROVE Budgeted'
    BY <1>3, <1>q, <1>r DEF PostKey
  <1>4. ASSUME NEW c \in Calls, NEW k \in KeyIds, RotateIssue(c, k) PROVE Budgeted'
    <2>1. [call[c] EXCEPT !.stage = "retire"].stage = "retire"
      BY <1>4, <1>c DEF RotateIssue, Limited, Rotating, Resting
    <2> QED BY <1>4, <1>q, <2>1 DEF RotateIssue
  <1>5. ASSUME NEW c \in Calls, NEW k \in KeyIds, RevokeKey(c, k) PROVE Budgeted'
    BY <1>5, <1>q, <1>r DEF RevokeKey
  <1>6. ASSUME NEW c \in Calls, NEW a \in Accounts, BeginSignup(c, a) PROVE Budgeted'
    BY <1>6, <1>q DEF BeginSignup
  <1>7. ASSUME NEW c \in Calls, NEW k \in KeyIds, NEW d \in Overlaps, RotateRead(c, k, d)
        PROVE  Budgeted'
    BY <1>7, <1>q, <1>r DEF RotateRead
  <1>9. ASSUME NEW c \in Calls, Sweep(c) PROVE Budgeted'
    <2> DEFINE i == call[c].id
               v == call[c].window
               to == [call[c] EXCEPT !.stage = "route"]
    <2>1. call[c] \in Limited /\ call[c].stage = "sweep"
      BY <1>9, <1>c DEF Sweep, Rotating, Resting
    <2>2. i \in Callers /\ v \in Windows /\ Opened(bucket, i, v)
      BY <1>b, <2>1 DEF Limited, SweepsForARow
    <2>3. /\ bucket' = [x \in Callers \X Windows |->
                          IF x[1] = i /\ x[2] < v THEN None ELSE bucket[x]]
          /\ Step(c, to) /\ UNCHANGED <<admitted, straggler>>
      BY <1>9, <1>t DEF Sweep
    <2>4. to.stage = "route"
      BY <1>m, <2>1
    <2> HIDE DEF i, v, to
    <2>8. Swept(bucket, bucket', i, v)
      BY <2>3 DEF Swept
    <2>5. ASSUME NEW n \in Callers, NEW w \in Windows
          PROVE  /\ LaterRow(bucket, n, w) => LaterRow(bucket', n, w)
                 /\ Opened(bucket, n, w) => Opened(bucket', n, w)
                 /\ bucket'[<<n, w>>] # bucket[<<n, w>>] => LaterRow(bucket', n, w)
                 /\ bucket'[<<n, w>>] \in {None, bucket[<<n, w>>]}
      BY <2>2, <2>8, SweepingKeepsOpened
    <2>6. ASSUME NEW n \in Callers, NEW w \in Windows
          PROVE  Within(bucket', admitted', straggler', n, w)
      <3>1. Within(bucket, admitted, straggler, n, w)
        BY <1>b
      <3> QED BY <2>3, <2>5, <3>1 DEF Within
    <2>7. ASSUME NEW d \in Calls PROVE SweepsForARow(bucket', call'[d])
      <3>1. call'[d] = IF d = c THEN to ELSE call[d]
        BY <2>3 DEF Step, KeysTyped, CallsTyped
      <3>2. CASE d = c
        BY <2>4, <3>1, <3>2 DEF SweepsForARow
      <3>3. CASE d # c /\ call[d].stage = "sweep"
        <4>1. call[d] \in Limited
          BY <1>c, <3>3 DEF Rotating, Resting
        <4>2. call[d].id \in Callers /\ call[d].window \in Windows
          BY <4>1 DEF Limited
        <4>3. Opened(bucket, call[d].id, call[d].window)
          BY <1>b, <3>3 DEF SweepsForARow
        <4> QED BY <2>5, <3>1, <3>3, <4>2, <4>3 DEF SweepsForARow
      <3>4. CASE d # c /\ call[d].stage # "sweep"
        BY <3>1, <3>4 DEF SweepsForARow
      <3> QED BY <3>2, <3>3, <3>4
    <2> QED BY <2>6, <2>7 DEF Budgeted
  <1>8. ASSUME NEW c \in Calls, Consume(c) PROVE Budgeted'
    <2> DEFINE i == call[c].id
               v == call[c].window
               at == <<i, v>>
               row == Spend(bucket[at])
               s == IF row = RATE_LIMIT - 1 THEN "sweep" ELSE "route"
               to == [call[c] EXCEPT !.stage = s]
    <2>1. call[c] \in Limited /\ call[c].stage = "limit"
      BY <1>8, <1>c DEF Consume, Rotating, Resting
    <2>2. i \in Callers /\ v \in Windows /\ at \in Callers \X Windows
      BY <2>1 DEF Limited
    <2>3. CASE ~HasToken(bucket[at])
      BY <1>8, <1>q, <1>r, <2>3 DEF Consume
    <2>4. CASE HasToken(bucket[at])
      <3>1. /\ bucket' = [bucket EXCEPT ![at] = row]
            /\ admitted' = [admitted EXCEPT ![at] = @ + 1]
            /\ Step(c, to)
        BY <1>8, <2>4 DEF Consume
      <3>2. straggler' = [straggler EXCEPT ![at] = IF LaterRow(bucket, i, v) THEN @ + 1 ELSE @]
        BY <1>8, <2>4 DEF Consume, LaterRow
      <3>3. /\ bucket[at] = None => row = RATE_LIMIT - 1
            /\ bucket[at] # None => bucket[at] \in Nat \ {0} /\ row = bucket[at] - 1
        BY <1>t, <2>2, <2>4 DEF Spend, HasToken, RateLimitBucket
      <3>4. row \in Nat /\ row # None
        <4>1. row \in Nat
          BY <3>3
        <4> QED BY <4>1
      <3>5. /\ to.stage = s /\ to.id = i /\ to.window = v
        BY <1>m, <2>1
      <3> HIDE DEF row, s, to
      <3>6. /\ bucket'[at] = row /\ admitted'[at] = admitted[at] + 1
            /\ straggler'[at] = IF LaterRow(bucket, i, v) THEN straggler[at] + 1 ELSE straggler[at]
        BY <1>t, <2>2, <3>1, <3>2
      <3>7. ASSUME NEW n \in Callers, NEW w \in Windows
            PROVE  /\ bucket[<<n, w>>] # None => bucket'[<<n, w>>] # None
                   /\ <<n, w>> # at => /\ bucket'[<<n, w>>] = bucket[<<n, w>>]
                                       /\ admitted'[<<n, w>>] = admitted[<<n, w>>]
                                       /\ straggler'[<<n, w>>] = straggler[<<n, w>>]
        BY <1>t, <2>2, <3>1, <3>2, <3>4
      <3>8. ASSUME NEW n \in Callers, NEW w \in Windows
            PROVE  /\ LaterRow(bucket, n, w) => LaterRow(bucket', n, w)
                   /\ Opened(bucket, n, w) => Opened(bucket', n, w)
        BY <3>7, FillingKeepsOpened
      <3>9. Within(bucket', admitted', straggler', i, v)
        <4> HIDE DEF i, v
        <4>1. Within(bucket, admitted, straggler, i, v)
          BY <1>b, <2>2
        <4>2. admitted[at] \in Nat /\ straggler[at] \in Nat
          BY <1>t, <2>2
        <4>3. CASE LaterRow(bucket, i, v)
          <5>1. LaterRow(bucket', i, v)
            BY <2>2, <3>8, <4>3
          <5>2. admitted'[at] - straggler'[at] = admitted[at] - straggler[at]
            BY <3>6, <4>2, <4>3
          <5> QED BY <4>1, <5>1, <5>2 DEF Within
        <4>4. CASE ~LaterRow(bucket, i, v)
          <5> DEFINE was == admitted[at] - straggler[at]
                     is == admitted'[at] - straggler'[at]
          <5>1. is = was + 1 /\ was \in Int
            BY <3>6, <4>2, <4>4
          <5>2. /\ was <= RATE_LIMIT
                /\ bucket[at] = None => was = 0
                /\ bucket[at] # None => was <= RATE_LIMIT - bucket[at]
            BY <4>1, <4>4 DEF Within
          <5> HIDE DEF was
          <5>3. is <= RATE_LIMIT - row
            BY <3>3, <5>1, <5>2
          <5>4. is <= RATE_LIMIT
            BY <3>4, <5>1, <5>3
          <5> QED BY <3>4, <3>6, <5>3, <5>4 DEF Within
        <4> QED BY <4>3, <4>4
      <3>10. ASSUME NEW n \in Callers, NEW w \in Windows
             PROVE  Within(bucket', admitted', straggler', n, w)
        <4>1. CASE n = i /\ w = v
          BY <3>9, <4>1
        <4>2. CASE ~(n = i /\ w = v)
          <5>1. <<n, w>> # at
            BY <4>2
          <5>2. Within(bucket, admitted, straggler, n, w)
            BY <1>b
          <5> QED BY <3>7, <3>8, <5>1, <5>2 DEF Within
        <4> QED BY <4>1, <4>2
      <3>11. ASSUME NEW d \in Calls PROVE SweepsForARow(bucket', call'[d])
        <4>1. call'[d] = IF d = c THEN to ELSE call[d]
          BY <3>1 DEF Step, KeysTyped, CallsTyped
        <4>2. CASE d = c
          BY <3>4, <3>5, <3>6, <4>1, <4>2 DEF SweepsForARow, Opened
        <4>3. CASE d # c /\ call[d].stage = "sweep"
          <5>1. call[d] \in Limited
            BY <1>c, <4>3 DEF Rotating, Resting
          <5>2. call[d].id \in Callers /\ call[d].window \in Windows
            BY <5>1 DEF Limited
          <5>3. Opened(bucket, call[d].id, call[d].window)
            BY <1>b, <4>3 DEF SweepsForARow
          <5> QED BY <3>8, <4>1, <4>3, <5>2, <5>3 DEF SweepsForARow
        <4>4. CASE d # c /\ call[d].stage # "sweep"
          BY <4>1, <4>4 DEF SweepsForARow
        <4> QED BY <4>2, <4>3, <4>4
      <3> QED BY <3>10, <3>11 DEF Budgeted
    <2> QED BY <2>3, <2>4
  <1>10. ASSUME NEW c \in Calls, SelectMerchant(c) PROVE Budgeted'
    <2> DEFINE s == IF account[call[c].id] = None THEN "insert" ELSE "first"
    <2>1. UNCHANGED <<bucket, admitted, straggler>> /\ Step(c, [call[c] EXCEPT !.stage = s])
      BY <1>10 DEF SelectMerchant
    <2>2. s # "sweep"
      OBVIOUS
    <2> HIDE DEF s
    <2>3. [call[c] EXCEPT !.stage = s].stage = s
      BY <1>10, <1>m DEF SelectMerchant
    <2> QED BY <1>q, <2>1, <2>2, <2>3
  <1>11. ASSUME NEW c \in Calls, InsertMerchant(c) PROVE Budgeted'
    <2>1. [call[c] EXCEPT !.stage = "first"].stage = "first"
      BY <1>11, <1>m DEF InsertMerchant
    <2>2. PICK to : Step(c, to) /\ to.stage # "sweep"
      BY <1>11, <1>r, <2>1 DEF InsertMerchant
    <2> QED BY <1>11, <1>q, <2>2 DEF InsertMerchant
  <1>12. ASSUME NEW c \in Calls, RotateRetire(c) PROVE Budgeted'
    BY <1>12, <1>q, <1>r DEF RotateRetire
  <1>13. ASSUME NEW c \in Calls, OtherRoute(c) PROVE Budgeted'
    BY <1>13, <1>q, <1>r DEF OtherRoute
  <1>14. ASSUME NEW a \in Accounts, AttestLive(a) PROVE Budgeted'
    BY <1>14 DEF AttestLive, Budgeted
  <1>15. ASSUME CrashCalls PROVE Budgeted'
    <2>1. UNCHANGED <<bucket, admitted, straggler>> /\ \A c \in Calls : call'[c] = Resting
      BY <1>15 DEF CrashCalls
    <2> QED BY <1>b, <1>r, <2>1 DEF Budgeted, SweepsForARow
  <1>16. ASSUME KeysTick PROVE Budgeted'
    BY <1>16 DEF KeysTick, Budgeted
  <1> QED BY <1>1, <1>2, <1>3, <1>4, <1>5, <1>6, <1>7, <1>8, <1>9, <1>10, <1>11, <1>12,
             <1>13, <1>14, <1>15, <1>16 DEF KeysNext

LEMMA KeysInvInit == KeysInit => KeysInv
  <1> SUFFICES ASSUME KeysInit PROVE KeysInv
    OBVIOUS
  <1>1. KeysTyped
    BY NoneIsNoValue DEF KeysInit, KeysTyped, CallsTyped, Resting, Callers, MerchantAccount,
                         RateLimitBucket
  <1>2. Owned
    BY DEF KeysInit, Owned, OfItsAccount, RotatesItsOwn, Resting
  <1>3. RevocationsHold
    BY DEF KeysInit, RevocationsHold, RevokedFor
  <1>4. Budgeted
    BY NoneIsNoValue DEF KeysInit, Budgeted, Within, SweepsForARow, Resting, Callers
  <1> QED BY <1>1, <1>2, <1>3, <1>4 DEF KeysInv

LEMMA KeysInvStep == KeysInv /\ [KeysNext]_keysVars => KeysInv'
  <1>1. ASSUME KeysInv, KeysNext PROVE KeysInv'
    BY <1>1, KeysTypedStep, OwnedStep, RevocationsHoldStep, BudgetedStep DEF KeysInv
  <1>2. ASSUME KeysInv, UNCHANGED keysVars PROVE KeysInv'
    BY <1>2 DEF KeysInv, keysVars, KeysTyped, Owned, RevocationsHold, Budgeted
  <1> QED BY <1>1, <1>2

LEMMA KeysInvSuffices == KeysInv => KeysDoWhatTheyMay
  <1> SUFFICES ASSUME KeysInv PROVE KeysDoWhatTheyMay
    OBVIOUS
  <1>1. KeysTyped /\ Owned /\ RevocationsHold /\ Budgeted
    BY DEF KeysInv
  <1>2. \A k \in KeyIds : key[k] # None =>
            key[k] \in MerchantApiKey /\ key[k].environment \in EnvironmentName
    BY <1>1 DEF KeysTyped, MerchantApiKey
  <1>3. KeyTables
    BY <1>1, <1>2 DEF KeyTables, KeysTyped, Owned, OfItsAccount
  <1>4. RevokedNeverAuthenticates
    BY <1>1 DEF RevokedNeverAuthenticates, RevocationsHold, RevokedFor
  <1>5. WindowsStayWithinBudget
    BY <1>1 DEF WindowsStayWithinBudget, KeysTyped, Budgeted, Within
  <1>6. KeysStayWithTheirMerchant
    BY <1>1 DEF KeysStayWithTheirMerchant, Owned, OfItsAccount
  <1> QED BY <1>3, <1>4, <1>5, <1>6 DEF KeysDoWhatTheyMay

(***************************************************************************)
(* A service in focus stays in focus, and only it moves.                   *)
(***************************************************************************)

LEMMA FocusStays == [OperatorNext]_operatorVars => focus' = focus
  BY DEF OperatorNext, Others, operatorVars

LEMMA KeysInFocus == focus = "keys" /\ [OperatorNext]_operatorVars => [KeysNext]_keysVars
  <1>1. ASSUME focus = "keys", OperatorNext PROVE KeysNext
    BY <1>1 DEF OperatorNext, Others
  <1> QED BY <1>1 DEF operatorVars

KeysInFocusHold == focus = "keys" => KeysInv

\* However requests, replicas, rotations, revocations and sweeps interleave, no revoked
\* key authenticates, no key moves between merchants, and a window lets through its
\* limit and its stragglers (services/origination/src/keys.ts, ratelimit.ts, auth.ts).
THEOREM KeysAlwaysHold == OperatorSpec => []KeysHold
  <1>1. OperatorInit => KeysInFocusHold
    BY KeysInvInit DEF OperatorInit, KeysStart, KeysInFocusHold
  <1>2. KeysInFocusHold /\ [OperatorNext]_operatorVars => KeysInFocusHold'
    BY FocusStays, KeysInFocus, KeysInvStep DEF KeysInFocusHold
  <1>3. KeysInFocusHold => KeysHold
    BY KeysInvSuffices DEF KeysInFocusHold, KeysHold
  <1> QED BY <1>1, <1>2, <1>3, PTL DEF OperatorSpec

(***************************************************************************)
(* The checkout session.  Any number of copies of a session may be under   *)
(* way, read before others were put back: so what is asked of the row is   *)
(* asked of every copy, and a step is about the one copy it writes.        *)
(***************************************************************************)

SessionFields ==
    {"sessionId", "merchant", "borrower", "state", "terms", "planId", "planAddress", "quote",
     "strip", "acceptance", "expiresAt", "createdAt", "updatedAt"}
QuoteFields ==
    {"approved", "principal", "installments", "mdr", "merchantNet", "availableLimit",
     "fallback", "declineReason"}
OfferFields == {"upfront", "financed", "installments"}

OfFields(fields, r) == r = [f \in fields |-> r[f]]
OfItsDomain(g) == g = [i \in DOMAIN g |-> g[i]]

\* What the columns of a payload must be for the store to give back what it took.
Storable(s) ==
    /\ OfFields(SessionFields, s) /\ OfItsDomain(s.terms)
    /\ OfFields(QuoteFields, s.quote) /\ OfItsDomain(s.quote.installments)
    /\ \A o \in s.quote.fallback : OfFields(OfferFields, o) /\ OfItsDomain(o.installments)

LEMMA CrossedBack == ASSUME NEW n PROVE Crossed("load", Crossed("store", n)) = n
  BY DEF Crossed, Decimal, FromDecimal

LEMMA AmountsBack ==
    ASSUME NEW parts, OfItsDomain(parts)
    PROVE  AmountsInto("load", AmountsInto("store", parts)) = parts
  BY CrossedBack DEF AmountsInto, OfItsDomain

LEMMA TermsBack ==
    ASSUME NEW terms, OfItsDomain(terms)
    PROVE  TermsInto("load", TermsInto("store", terms)) = terms
  BY CrossedBack DEF TermsInto, OfItsDomain

LEMMA OfferBack ==
    ASSUME NEW o, OfFields(OfferFields, o), OfItsDomain(o.installments)
    PROVE  OfferInto("load", OfferInto("store", o)) = o
  <1> DEFINE kept == OfferInto("store", o)
             back == OfferInto("load", kept)
  <1>1. /\ kept.upfront = Crossed("store", o.upfront)
        /\ kept.financed = Crossed("store", o.financed)
        /\ kept.installments = AmountsInto("store", o.installments)
    BY DEF OfferInto
  <1> HIDE DEF kept
  <1>2. back = [upfront |-> o.upfront, financed |-> o.financed, installments |-> o.installments]
    BY <1>1, CrossedBack, AmountsBack DEF OfferInto
  <1>3. o = [upfront |-> o.upfront, financed |-> o.financed, installments |-> o.installments]
    BY DEF OfFields, OfferFields
  <1> QED BY <1>2, <1>3 DEF kept

LEMMA QuoteBack ==
    ASSUME NEW q, OfFields(QuoteFields, q), OfItsDomain(q.installments),
           \A o \in q.fallback : OfFields(OfferFields, o) /\ OfItsDomain(o.installments)
    PROVE  QuoteInto("load", QuoteInto("store", q)) = q
  <1> DEFINE kept == QuoteInto("store", q)
             back == QuoteInto("load", kept)
  <1>1. /\ OfFields(QuoteFields, kept)
        /\ kept.approved = q.approved /\ kept.declineReason = q.declineReason
        /\ kept.principal = Crossed("store", q.principal)
        /\ kept.mdr = Crossed("store", q.mdr)
        /\ kept.merchantNet = Crossed("store", q.merchantNet)
        /\ kept.availableLimit = Crossed("store", q.availableLimit)
    BY DEF QuoteInto, OfFields, QuoteFields
  <1>2. kept.installments = AmountsInto("store", q.installments)
    BY DEF QuoteInto, OfFields, QuoteFields
  <1>3. kept.fallback = {OfferInto("store", o) : o \in q.fallback}
    BY DEF QuoteInto, OfFields, QuoteFields
  <1> HIDE DEF kept
  <1>4. /\ OfFields(QuoteFields, back)
        /\ back.approved = q.approved /\ back.declineReason = q.declineReason
        /\ back.principal = q.principal /\ back.mdr = q.mdr
        /\ back.merchantNet = q.merchantNet /\ back.availableLimit = q.availableLimit
    <2>1. /\ OfFields(QuoteFields, back)
          /\ back.approved = kept.approved /\ back.declineReason = kept.declineReason
          /\ back.principal = Crossed("load", kept.principal)
          /\ back.mdr = Crossed("load", kept.mdr)
          /\ back.merchantNet = Crossed("load", kept.merchantNet)
          /\ back.availableLimit = Crossed("load", kept.availableLimit)
      BY <1>1 DEF QuoteInto, OfFields, QuoteFields
    <2> HIDE DEF back
    <2> QED BY <1>1, <2>1, CrossedBack
  <1>5. back.installments = q.installments
    <2>1. back.installments = AmountsInto("load", kept.installments)
      BY <1>1 DEF QuoteInto, OfFields, QuoteFields
    <2> QED BY <1>2, <2>1, AmountsBack
  <1>6. back.fallback = q.fallback
    <2>1. back.fallback = {OfferInto("load", o) : o \in kept.fallback}
      BY <1>1 DEF QuoteInto, OfFields, QuoteFields
    <2>2. \A o \in q.fallback : OfferInto("load", OfferInto("store", o)) = o
      BY OfferBack
    <2> HIDE DEF back
    <2>3. \A x : x \in back.fallback <=> x \in q.fallback
      BY <1>3, <2>1, <2>2
    <2> QED BY <2>3
  <1> HIDE DEF back
  <1>7. back = q
    BY <1>4, <1>5, <1>6 DEF OfFields, QuoteFields
  <1> QED BY <1>7 DEF back, kept

\* A number crosses to the store as a string and back; nothing else changes.
LEMMA SessionBack ==
    ASSUME NEW s, Storable(s)
    PROVE  FromStoredSession(ToStoredSession(s)) = s
  <1> DEFINE kept == Converted(s, "store")
             back == Converted(kept, "load")
  <1>1. /\ OfFields(SessionFields, kept)
        /\ \A f \in SessionFields \ {"terms", "quote"} : kept[f] = s[f]
        /\ kept.terms = TermsInto("store", s.terms) /\ kept.quote = QuoteInto("store", s.quote)
    BY DEF Converted, Storable, OfFields, SessionFields
  <1> HIDE DEF kept
  <1>2. /\ OfFields(SessionFields, back)
        /\ \A f \in SessionFields \ {"terms", "quote"} : back[f] = kept[f]
        /\ back.terms = TermsInto("load", kept.terms) /\ back.quote = QuoteInto("load", kept.quote)
    BY <1>1 DEF Converted, OfFields, SessionFields
  <1>3. back.terms = s.terms
    BY <1>1, <1>2, TermsBack DEF Storable
  <1>4. back.quote = s.quote
    BY <1>1, <1>2, QuoteBack DEF Storable
  <1> HIDE DEF back
  <1>5. \A f \in SessionFields : back[f] = s[f]
    BY <1>1, <1>2, <1>3, <1>4
  <1>6. back = s
    BY <1>2, <1>5 DEF Storable, OfFields
  <1> QED BY <1>6 DEF FromStoredSession, ToStoredSession, back, kept

LEMMA SplitsAreFunctions ==
    ASSUME NEW principal, NEW count
    PROVE  OfItsDomain(SplitInstallments(principal, count))
  <1> DEFINE part(i) == (principal \div count) + (IF i = 0 THEN principal % count ELSE 0)
  <1>1. SplitInstallments(principal, count) = [i \in 0 .. (count - 1) |-> part(i)]
    BY DEF SplitInstallments
  <1> HIDE DEF part
  <1> QED BY <1>1 DEF OfItsDomain

LEMMA QuotesAreStorable ==
    ASSUME NEW cart, NEW count, NEW limit, NEW q, q = BuildQuote(cart, count, limit)
    PROVE  /\ OfFields(QuoteFields, q) /\ OfItsDomain(q.installments)
           /\ \A o \in q.fallback : OfFields(OfferFields, o) /\ OfItsDomain(o.installments)
  <1>1. ASSUME NEW approved, NEW principal, NEW offers, NEW reason,
               \A o \in offers : OfFields(OfferFields, o) /\ OfItsDomain(o.installments),
               q = Quoted(approved, Price(principal, count, ORIGINATION_DEFAULTS.mdrBps), limit,
                          offers, reason)
        PROVE  /\ OfFields(QuoteFields, q) /\ OfItsDomain(q.installments)
               /\ \A o \in q.fallback : OfFields(OfferFields, o) /\ OfItsDomain(o.installments)
    <2> DEFINE price == Price(principal, count, ORIGINATION_DEFAULTS.mdrBps)
    <2>1. price.installments = SplitInstallments(principal, count)
      BY DEF Price
    <2> HIDE DEF price
    <2>2. q = Quoted(approved, price, limit, offers, reason)
      BY <1>1 DEF price
    <2>3. OfFields(QuoteFields, q)
      BY <2>2 DEF Quoted, OfFields, QuoteFields
    <2>4. q.installments = SplitInstallments(principal, count) /\ q.fallback = offers
      BY <2>1, <2>2 DEF Quoted
    <2>5. OfItsDomain(q.installments)
      BY <2>4, SplitsAreFunctions
    <2> QED BY <1>1, <2>3, <2>4, <2>5
  <1> DEFINE capped == Min2(Min2(cart, limit), ORIGINATION_DEFAULTS.maxTicket)
             offer == [upfront |-> cart - capped, financed |-> capped,
                       installments |-> SplitInstallments(capped, count)]
  <1>2. \A o \in {offer} : OfFields(OfferFields, o) /\ OfItsDomain(o.installments)
    <2>1. offer.installments = SplitInstallments(capped, count)
      OBVIOUS
    <2>2. OfFields(OfferFields, offer)
      BY DEF OfFields, OfferFields
    <2> HIDE DEF offer, capped
    <2>3. OfItsDomain(offer.installments)
      BY <2>1, SplitsAreFunctions
    <2> QED BY <2>2, <2>3
  <1> DEFINE Is(approved, principal, offers, reason) ==
                 q = Quoted(approved, Price(principal, count, ORIGINATION_DEFAULTS.mdrBps), limit,
                            offers, reason)
  <1>3. \/ Is(FALSE, 0, {}, {"below-minimum-ticket"}) \/ Is(TRUE, cart, {}, {})
        \/ Is(FALSE, 0, {}, {IF capped = 0 THEN "no-credit-available" ELSE "below-minimum-ticket"})
        \/ Is(FALSE, capped, {offer}, {})
    BY DEF BuildQuote
  <1>4. \A approved, principal, reason : \A offers \in {{}, {offer}} :
            Is(approved, principal, offers, reason) =>
                /\ OfFields(QuoteFields, q) /\ OfItsDomain(q.installments)
                /\ \A o \in q.fallback : OfFields(OfferFields, o) /\ OfItsDomain(o.installments)
    <2> HIDE DEF offer, capped
    <2> TAKE approved, principal, reason
    <2> TAKE offers \in {{}, {offer}}
    <2> HAVE Is(approved, principal, offers, reason)
    <2>1. \A o \in offers : OfFields(OfferFields, o) /\ OfItsDomain(o.installments)
      BY <1>2
    <2> QED BY <1>1, <2>1
  <1> HIDE DEF Is, offer, capped
  <1>5. {} \in {{}, {offer}} /\ {offer} \in {{}, {offer}}
    OBVIOUS
  <1> QED BY <1>3, <1>4, <1>5, Zenon

\* The terms a host prepared for the session's merchant, and the plan they name.
TermsFor(s) ==
    \E cart \in Carts, count \in Counts :
        s.terms = Prepare(s.sessionId, s.merchant, cart, count, 0).terms

PlanOf(s) ==
    /\ s.planId = DerivePlanId(s.terms)
    /\ s.planAddress = PredictPlanAddress(s.terms.factory, s.terms.implementation, s.planId)

\* What is posted at an index is what was drawn for it or Forged, and the state says
\* how many keys there are.
StripDrawn(s) ==
    /\ IsFiniteSet(DOMAIN s.strip)
    /\ \A i \in DOMAIN s.strip : i \in Indices(s.terms) => s.strip[i] \in {Forged, Drawn(s, i)}

Agreed(s) == \A a \in s.acceptance : a # Forged => a.message.planId = s.planId

StateFits(s) ==
    /\ s.state \in {"quoted", "signing", "ready"}
    /\ s.state = "ready" <=> (Cardinality(DOMAIN s.strip) = Count(s) /\ s.acceptance # {})
    /\ s.state = "quoted" <=> (DOMAIN s.strip = {} /\ s.acceptance = {})

Dated(s) == s.expiresAt \in Nat /\ s.createdAt \in Nat /\ s.updatedAt \in Nat

SoFar(s) ==
    /\ Storable(s) /\ s.sessionId \in SessionIds /\ s.merchant \in Merchants
    /\ TermsFor(s) /\ PlanOf(s) /\ StripDrawn(s) /\ Agreed(s) /\ StateFits(s) /\ Dated(s)

LEMMA CountsAreCounts ==
    ASSUME NEW s, TermsFor(s)
    PROVE  /\ Count(s) \in Nat \ {0} /\ Indices(s.terms) = 0 .. (Count(s) - 1)
           /\ Indices(s.terms) # {} /\ IsFiniteSet(Indices(s.terms))
           /\ Cardinality(Indices(s.terms)) = Count(s)
  <1>1. Count(s) \in Nat \ {0}
    <2>1. PICK cart \in Carts, count \in Counts :
              s.terms = Prepare(s.sessionId, s.merchant, cart, count, 0).terms
      BY DEF TermsFor
    <2>2. s.terms.installmentCount = count
      BY <2>1 DEF Prepare
    <2> QED BY <2>2, SessionAssumption DEF Count
  <1>2. Indices(s.terms) = 0 .. (Count(s) - 1)
    BY DEF Indices, Count
  <1> DEFINE n == Count(s)
             z == 0
             l == n - 1
  <1>3. n \in Nat \ {0} /\ z \in Int /\ l \in Int /\ z <= l /\ l - z + 1 = n
    BY <1>1
  <1> HIDE DEF n, z, l
  <1>4. IsFiniteSet(z .. l) /\ Cardinality(z .. l) = (IF z > l THEN 0 ELSE l - z + 1)
    BY <1>3, FS_Interval
  <1>5. Cardinality(z .. l) = n /\ z \in z .. l
    BY <1>3, <1>4
  <1> QED BY <1>1, <1>2, <1>4, <1>5 DEF n, z, l

\* A strip has as many keys as the plan has installments when it has a stray key for
\* each one that is outstanding.
LEMMA StraysByCounting ==
    ASSUME NEW s, TermsFor(s), NEW D, IsFiniteSet(D)
    PROVE  LET I == Indices(s.terms)
           IN  /\ IsFiniteSet(I \ D) /\ IsFiniteSet(D \ I)
               /\ (Cardinality(D) = Count(s)) <=> (Cardinality(I \ D) = Cardinality(D \ I))
  <1> DEFINE I == Indices(s.terms)
             common == Cardinality(D \cap I)
             d == Cardinality(D)
             i == Cardinality(I)
             stray == Cardinality(D \ I)
             left == Cardinality(I \ D)
  <1>1. IsFiniteSet(I) /\ i = Count(s)
    BY CountsAreCounts
  <1> HIDE DEF I
  <1>2. IsFiniteSet(D \ I) /\ stray = d - common
    BY <1>1, FS_Difference
  <1>3. I \cap D = D \cap I
    OBVIOUS
  <1>4. IsFiniteSet(I \ D) /\ left = i - common
    BY <1>1, <1>3, FS_Difference
  <1>5. IsFiniteSet(D \cap I)
    BY <1>1, FS_Subset
  <1>6. d \in Nat /\ i \in Nat /\ common \in Nat
    BY <1>1, <1>5, FS_CardinalityType
  <1> HIDE DEF common, d, i, stray, left
  <1>7. (d = i) <=> (left = stray)
    BY <1>2, <1>4, <1>6
  <1> QED BY <1>1, <1>2, <1>4, <1>7 DEF common, d, i, stray, left, I

\* What no signature changes, so that only what it does change has to be looked at.
SignedBeyond(s, t) ==
    /\ OfFields(SessionFields, t)
    /\ \A f \in SessionFields \ {"strip", "acceptance", "state", "updatedAt"} : t[f] = s[f]

LEMMA SignedStays ==
    ASSUME NEW s, SoFar(s), NEW t, SignedBeyond(s, t),
           StripDrawn(t), Agreed(t), StateFits(t), t.updatedAt \in Nat
    PROVE  SoFar(t) /\ t.sessionId = s.sessionId /\ t.merchant = s.merchant
  <1>1. /\ t.sessionId = s.sessionId /\ t.merchant = s.merchant /\ t.terms = s.terms
        /\ t.quote = s.quote /\ t.planId = s.planId /\ t.planAddress = s.planAddress
        /\ t.expiresAt = s.expiresAt /\ t.createdAt = s.createdAt
    BY DEF SignedBeyond, SessionFields
  <1>2. Storable(t)
    BY <1>1 DEF SoFar, Storable, SignedBeyond
  <1>3. TermsFor(t)
    BY <1>1 DEF SoFar, TermsFor
  <1>4. PlanOf(t)
    BY <1>1 DEF SoFar, PlanOf
  <1>5. Dated(t)
    BY <1>1 DEF SoFar, Dated
  <1>6. t.sessionId \in SessionIds /\ t.merchant \in Merchants
    BY <1>1 DEF SoFar
  <1> QED BY <1>1, <1>2, <1>3, <1>4, <1>5, <1>6 DEF SoFar

LEMMA AuthorizationWrites ==
    ASSUME NEW s, OfFields(SessionFields, s), NEW i, NEW signature, NEW now
    PROVE  LET t == RecordAuthorization(s, i, signature, now)
               strip == [j \in DOMAIN s.strip \cup {i} |->
                            IF j = i THEN signature ELSE s.strip[j]]
           IN  /\ SignedBeyond(s, t) /\ t.acceptance = s.acceptance /\ t.updatedAt = now
               /\ t.strip = strip
               /\ t.state = IF Cardinality(DOMAIN strip) = Count(s) /\ s.acceptance # {}
                            THEN "ready" ELSE "signing"
  <1> DEFINE strip == [j \in DOMAIN s.strip \cup {i} |->
                          IF j = i THEN signature ELSE s.strip[j]]
             state == IF Cardinality(DOMAIN strip) = Count(s) /\ s.acceptance # {}
                      THEN "ready" ELSE "signing"
             t == RecordAuthorization(s, i, signature, now)
  <1>1. t = [s EXCEPT !.strip = strip, !.updatedAt = now, !.state = state]
    BY DEF RecordAuthorization
  <1> HIDE DEF strip, state, t
  <1>2. SignedBeyond(s, t) /\ t.acceptance = s.acceptance /\ t.updatedAt = now
        /\ t.strip = strip /\ t.state = state
    BY <1>1 DEF OfFields, SessionFields, SignedBeyond
  <1> QED BY <1>2 DEF strip, state, t

LEMMA AuthorizationKeeps ==
    ASSUME NEW s, SoFar(s), NEW i, i \notin DOMAIN s.strip, NEW sig,
           i \in Indices(s.terms) => sig \in {Forged, Drawn(s, i)}, NEW now \in Nat
    PROVE  LET t == RecordAuthorization(s, i, sig, now)
           IN  SoFar(t) /\ t.sessionId = s.sessionId /\ t.merchant = s.merchant
  <1> DEFINE t == RecordAuthorization(s, i, sig, now)
             strip == [j \in DOMAIN s.strip \cup {i} |-> IF j = i THEN sig ELSE s.strip[j]]
  <1>1. /\ SignedBeyond(s, t) /\ t.acceptance = s.acceptance /\ t.updatedAt = now
        /\ t.strip = strip
        /\ t.state = IF Cardinality(DOMAIN strip) = Count(s) /\ s.acceptance # {}
                     THEN "ready" ELSE "signing"
    <2>1. OfFields(SessionFields, s)
      BY DEF SoFar, Storable
    <2>2. LET u == RecordAuthorization(s, i, sig, now)
              parts == [j \in DOMAIN s.strip \cup {i} |-> IF j = i THEN sig ELSE s.strip[j]]
          IN  /\ SignedBeyond(s, u) /\ u.acceptance = s.acceptance /\ u.updatedAt = now
              /\ u.strip = parts
              /\ u.state = IF Cardinality(DOMAIN parts) = Count(s) /\ s.acceptance # {}
                           THEN "ready" ELSE "signing"
      BY <2>1, AuthorizationWrites
    <2> QED BY <2>2
  <1>2. /\ DOMAIN strip = DOMAIN s.strip \cup {i}
        /\ \A j \in DOMAIN strip : strip[j] = IF j = i THEN sig ELSE s.strip[j]
    OBVIOUS
  <1> HIDE DEF t, strip
  <1>3. t.terms = s.terms /\ t.planId = s.planId /\ Count(t) = Count(s)
    BY <1>1 DEF SignedBeyond, SessionFields, Count
  <1>4. StripDrawn(t)
    <2>1. IsFiniteSet(DOMAIN strip)
      BY <1>2, FS_AddElement DEF SoFar, StripDrawn
    <2>2. ASSUME NEW j \in DOMAIN strip, j \in Indices(s.terms)
          PROVE  strip[j] \in {Forged, Drawn(s, j)}
      BY <1>2, <2>2 DEF SoFar, StripDrawn
    <2>3. \A j \in Indices(s.terms) : Drawn(t, j) = Drawn(s, j)
      BY <1>3 DEF Drawn
    <2> QED BY <1>1, <1>3, <2>1, <2>2, <2>3 DEF StripDrawn
  <1>5. Agreed(t)
    BY <1>1, <1>3 DEF SoFar, Agreed
  <1>6. StateFits(t)
    BY <1>1, <1>2, <1>3 DEF StateFits
  <1> QED BY <1>1, <1>4, <1>5, <1>6, SignedStays DEF t

LEMMA AcceptanceWrites ==
    ASSUME NEW s, OfFields(SessionFields, s), NEW signature, NEW now
    PROVE  LET t == RecordAcceptance(s, signature, now)
           IN  /\ SignedBeyond(s, t) /\ t.acceptance = {signature} /\ t.updatedAt = now
               /\ t.strip = s.strip
               /\ t.state = IF Cardinality(DOMAIN s.strip) = Count(s) THEN "ready"
                            ELSE IF s.state = "quoted" THEN "signing" ELSE s.state
  <1> DEFINE state == IF Cardinality(DOMAIN s.strip) = Count(s) THEN "ready"
                      ELSE IF s.state = "quoted" THEN "signing" ELSE s.state
             t == RecordAcceptance(s, signature, now)
             given == {signature}
  <1>1. t = [s EXCEPT !.acceptance = given, !.updatedAt = now, !.state = state]
    BY DEF RecordAcceptance
  <1> HIDE DEF state, t, given
  <1>2. SignedBeyond(s, t) /\ t.acceptance = given /\ t.updatedAt = now
        /\ t.strip = s.strip /\ t.state = state
    BY <1>1 DEF OfFields, SessionFields, SignedBeyond
  <1> QED BY <1>2 DEF given, state, t

LEMMA AcceptanceKeeps ==
    ASSUME NEW s, SoFar(s), NEW sig \in {Forged, Consent(s)}, NEW now \in Nat
    PROVE  LET t == RecordAcceptance(s, sig, now)
           IN  SoFar(t) /\ t.sessionId = s.sessionId /\ t.merchant = s.merchant
  <1> DEFINE t == RecordAcceptance(s, sig, now)
  <1>1. sig # Forged => sig.message.planId = s.planId
    BY DEF Consent, AcceptanceTypedData, BuildAcceptance
  <1>2. /\ SignedBeyond(s, t) /\ t.acceptance = {sig} /\ t.updatedAt = now
        /\ t.strip = s.strip
        /\ t.state = IF Cardinality(DOMAIN s.strip) = Count(s) THEN "ready"
                     ELSE IF s.state = "quoted" THEN "signing" ELSE s.state
    BY AcceptanceWrites DEF SoFar, Storable
  <1> HIDE DEF t
  <1>3. t.terms = s.terms /\ t.planId = s.planId /\ Count(t) = Count(s)
    BY <1>2 DEF SignedBeyond, SessionFields, Count
  <1>4. StripDrawn(t)
    <2>1. \A j \in Indices(s.terms) : Drawn(t, j) = Drawn(s, j)
      BY <1>3 DEF Drawn
    <2> QED BY <1>2, <1>3, <2>1 DEF SoFar, StripDrawn
  <1>5. Agreed(t)
    BY <1>1, <1>2, <1>3 DEF Agreed
  <1>6. StateFits(s)
    BY DEF SoFar
  <1>7. StateFits(t)
    BY <1>2, <1>3, <1>6 DEF StateFits
  <1> QED BY <1>2, <1>4, <1>5, <1>7, SignedStays DEF t

LEMMA SessionOpens ==
    ASSUME NEW id \in SessionIds, NEW merchant \in Merchants, NEW cart \in Carts,
           NEW count \in Counts, NEW limit \in Limits, NEW now \in Nat
    PROVE  LET t == OpenSession(Prepare(id, merchant, cart, count, limit), now)
           IN  SoFar(t) /\ t.sessionId = id /\ t.merchant = merchant
  <1> DEFINE input == Prepare(id, merchant, cart, count, limit)
             t == OpenSession(input, now)
             q == BuildQuote(cart, count, limit)
             terms == Prepare(id, merchant, cart, count, 0).terms
  <1>1. /\ input.sessionId = id /\ input.terms = terms /\ input.cartTotal = cart
        /\ input.availableLimit = limit
        /\ input.planId = DerivePlanId(terms)
        /\ input.planAddress =
               PredictPlanAddress(terms.factory, terms.implementation, DerivePlanId(terms))
    BY DEF Prepare, DerivePlan
  <1>2. /\ terms.merchant = merchant /\ terms.installmentCount = count
        /\ OfItsDomain(terms)
    BY DEF Prepare, OfItsDomain
  <1>3. /\ OfFields(QuoteFields, q) /\ OfItsDomain(q.installments)
        /\ \A o \in q.fallback : OfFields(OfferFields, o) /\ OfItsDomain(o.installments)
    BY QuotesAreStorable
  <1>4. now + DEFAULT_SESSION_TTL \in Nat
    BY SessionAssumption
  <1> DEFINE due == now + DEFAULT_SESSION_TTL
  <1> HIDE DEF input, terms, q, due
  <1>5. /\ OfFields(SessionFields, t) /\ t.sessionId = id /\ t.merchant = merchant
        /\ t.state = "quoted" /\ t.terms = terms /\ t.planId = DerivePlanId(terms)
        /\ t.planAddress =
               PredictPlanAddress(terms.factory, terms.implementation, DerivePlanId(terms))
        /\ t.quote = q /\ t.strip = <<>> /\ t.acceptance = {}
        /\ t.expiresAt = due /\ t.createdAt = now /\ t.updatedAt = now
    BY <1>1, <1>2 DEF OpenSession, OfFields, SessionFields, q, due
  <1> HIDE DEF t
  <1>6. Storable(t)
    BY <1>2, <1>3, <1>5 DEF Storable
  <1>7. TermsFor(t)
    BY <1>5 DEF TermsFor, terms
  <1>8. PlanOf(t)
    BY <1>5 DEF PlanOf
  <1>9. DOMAIN t.strip = {}
    BY <1>5
  <1>10. StripDrawn(t) /\ Agreed(t)
    BY <1>5, <1>9, FS_EmptySet DEF StripDrawn, Agreed
  <1>11. StateFits(t)
    BY <1>5, <1>9 DEF StateFits
  <1>12. Dated(t)
    BY <1>4, <1>5 DEF Dated, due
  <1> QED BY <1>5, <1>6, <1>7, <1>8, <1>10, <1>11, <1>12 DEF SoFar, t, input

\* A row is a session that was put, column by column.
RowFits(row, id) ==
    LET s == FromStoredSession(row.payload)
    IN  /\ SoFar(s) /\ row.payload = ToStoredSession(s)
        /\ s.sessionId = id /\ row.sessionId = id /\ row.merchant = s.merchant
        /\ row.state = s.state /\ row.expiresAt = s.expiresAt /\ row.planId = s.planId
        /\ row.createdAt \in Nat /\ row.updatedAt \in Nat

RowsFit(held) == DOMAIN held \subseteq SessionIds /\ \A id \in DOMAIN held : RowFits(held[id], id)

\* A copy is of a session that has a row, under the merchant that row names.
IsCopy(held, s) ==
    SoFar(s) /\ s.sessionId \in DOMAIN held /\ held[s.sessionId].merchant = s.merchant

RequestFits(held, asked) ==
    /\ asked.stage = "record" => IsCopy(held, asked.session)
    /\ asked.stage = "link" =>
          asked.merchant \in Merchants /\ asked.external \in {{x} : x \in ExternalIds}

RequestsFit(held, asked) ==
    /\ asked = [r \in Requests |-> asked[r]]
    /\ \A r \in Requests : RequestFits(held, asked[r])

RefsFit(links) == \A plan \in DOMAIN links : links[plan] \in MerchantExternalRef

SessionsFit ==
    /\ RowsFit(rows) /\ RequestsFit(rows, request) /\ RefsFit(refs)
    /\ sessionNow \in Nat

\* What a session carries was answered 200, for it and at that very item.
KeptFor(acks, s) ==
    /\ \A i \in DOMAIN s.strip : <<s.sessionId, i, s.strip[i]>> \in acks
    /\ \A a \in s.acceptance : <<s.sessionId, Acceptance, a>> \in acks

RowsKept(acks, held) ==
    \A id \in DOMAIN held : KeptFor(acks, FromStoredSession(held[id].payload))

CopiesKept(acks, asked) ==
    \A r \in Requests : asked[r].stage = "record" => KeptFor(acks, asked[r].session)

SessionsInv ==
    /\ SessionsFit
    /\ RowsKept(acknowledged, rows) /\ CopiesKept(acknowledged, request)

\* What a write may do to the table: add a row, never take one or change its merchant.
RowsGrow(held, after) ==
    /\ DOMAIN held \subseteq DOMAIN after
    /\ \A id \in DOMAIN held : after[id].merchant = held[id].merchant

LEMMA RequestStays ==
    ASSUME NEW held, NEW after, RowsGrow(held, after), NEW asked, RequestFits(held, asked)
    PROVE  RequestFits(after, asked)
  BY DEF RowsGrow, RequestFits, IsCopy

LEMMA RowIsFit ==
    ASSUME NEW s, SoFar(s), NEW row, row.payload = ToStoredSession(s),
           row.sessionId = s.sessionId, row.merchant = s.merchant, row.state = s.state,
           row.expiresAt = s.expiresAt, row.planId = s.planId,
           row.createdAt \in Nat, row.updatedAt \in Nat
    PROVE  RowFits(row, s.sessionId)
  <1>1. FromStoredSession(ToStoredSession(s)) = s
    BY SessionBack DEF SoFar
  <1> QED BY <1>1 DEF RowFits

LEMMA PutKeeps ==
    ASSUME RowsFit(rows), NEW s, SoFar(s),
           Held(s.sessionId) => rows[s.sessionId].merchant = s.merchant, Put(s)
    PROVE  RowsFit(rows') /\ RowsGrow(rows, rows') /\ s.sessionId \in DOMAIN rows'
  <1> DEFINE id == s.sessionId
             row == PutRow(s)
             after == [x \in DOMAIN rows \cup {id} |-> IF x = id THEN row ELSE rows[x]]
  <1>1. rows' = after
    BY DEF Put
  <1>2. /\ row.payload = ToStoredSession(s) /\ row.sessionId = id /\ row.merchant = s.merchant
        /\ row.state = s.state /\ row.expiresAt = s.expiresAt /\ row.planId = s.planId
        /\ row.createdAt = (IF Held(id) THEN rows[id].createdAt ELSE s.createdAt)
        /\ row.updatedAt = s.updatedAt
    BY DEF PutRow, NewRow
  <1>3. s.createdAt \in Nat /\ s.updatedAt \in Nat /\ id \in SessionIds
    BY DEF SoFar, Dated
  <1>4. Held(id) => rows[id].createdAt \in Nat
    BY DEF RowsFit, RowFits, Held
  <1> HIDE DEF row
  <1>5. row.createdAt \in Nat /\ row.updatedAt \in Nat
    BY <1>2, <1>3, <1>4
  <1>6. RowFits(row, id)
    BY <1>2, <1>5, RowIsFit
  <1>7. /\ DOMAIN after = DOMAIN rows \cup {id} /\ after[id] = row
        /\ \A x \in DOMAIN rows : x # id => after[x] = rows[x]
    OBVIOUS
  <1> HIDE DEF after
  <1>8. RowsFit(after)
    BY <1>3, <1>6, <1>7 DEF RowsFit
  <1>9. RowsGrow(rows, after)
    BY <1>2, <1>7 DEF RowsGrow, Held
  <1> QED BY <1>1, <1>7, <1>8, <1>9

LEMMA RequestMoves ==
    ASSUME NEW held, NEW after, NEW asked, RequestsFit(held, asked), RowsGrow(held, after),
           NEW r \in Requests, NEW to, RequestFits(after, to)
    PROVE  RequestsFit(after, [asked EXCEPT ![r] = to])
  <1> DEFINE gone == [asked EXCEPT ![r] = to]
  <1>1. asked = [x \in Requests |-> asked[x]]
    BY DEF RequestsFit
  <1>2. gone = [x \in Requests |-> IF x = r THEN to ELSE asked[x]]
    BY <1>1
  <1> HIDE DEF gone
  <1>3. \A x \in Requests : RequestFits(after, gone[x])
    <2> TAKE x \in Requests
    <2>1. CASE x = r
      BY <1>2, <2>1
    <2>2. CASE x # r
      <3>1. RequestFits(held, asked[x])
        BY DEF RequestsFit
      <3>2. RequestFits(after, asked[x])
        BY <3>1, RequestStays
      <3> QED BY <1>2, <2>2, <3>2
    <2> QED BY <2>1, <2>2
  <1>4. gone = [x \in Requests |-> gone[x]]
    BY <1>2
  <1> QED BY <1>3, <1>4 DEF RequestsFit, gone

LEMMA RowsStay == ASSUME NEW held PROVE RowsGrow(held, held)
  BY DEF RowsGrow

LEMMA IdleFits == ASSUME NEW held PROVE RequestFits(held, Idle)
  BY DEF RequestFits, Idle

LEMMA PostSessionKeeps ==
    ASSUME SessionsFit, NEW r \in Requests, NEW merchant \in Merchants, NEW id \in SessionIds,
           NEW cart \in Carts, NEW count \in Counts, NEW limit \in Limits,
           NEW external \in {{}} \cup {{x} : x \in ExternalIds},
           PostSession(r, merchant, id, cart, count, limit, external)
    PROVE  SessionsFit'
  <1> DEFINE s == OpenSession(Prepare(id, merchant, cart, count, limit), sessionNow)
             to == IF external = {} THEN Idle
                   ELSE [stage |-> "link", merchant |-> merchant, planId |-> s.planId,
                         external |-> external]
  <1>1. SoFar(s) /\ s.sessionId = id
    BY SessionOpens DEF SessionsFit
  <1> HIDE DEF s
  <1>2. ~Held(id) /\ Put(s) /\ request' = [request EXCEPT ![r] = to]
        /\ UNCHANGED <<refs, sessionNow>>
    BY DEF PostSession, s
  <1>3. RowsFit(rows) /\ RequestsFit(rows, request)
    BY DEF SessionsFit
  <1>4. RowsFit(rows') /\ RowsGrow(rows, rows')
    BY <1>1, <1>2, <1>3, PutKeeps
  <1>5. RequestFits(rows', to)
    <2>1. CASE external = {}
      BY <2>1, IdleFits
    <2>2. CASE external # {}
      <3>1. to.stage = "link" /\ to.merchant = merchant /\ to.external = external
        BY <2>2
      <3> HIDE DEF to
      <3> QED BY <2>2, <3>1 DEF RequestFits
    <2> QED BY <2>1, <2>2
  <1> HIDE DEF to
  <1>6. RequestsFit(rows', request')
    BY <1>2, <1>3, <1>4, <1>5, RequestMoves
  <1> QED BY <1>2, <1>4, <1>6 DEF SessionsFit

LEMMA LinkExternalRefKeeps ==
    ASSUME SessionsFit, NEW r \in Requests, LinkExternalRef(r)
    PROVE  SessionsFit'
  <1> DEFINE link == request[r]
             ref == [merchantId |-> link.merchant, externalId |-> link.external]
             wider == [p \in DOMAIN refs \cup {link.planId} |->
                          IF p = link.planId THEN ref ELSE refs[p]]
  <1>1. /\ link.stage = "link" /\ request' = [request EXCEPT ![r] = Idle]
        /\ refs' = refs \/ refs' = wider
        /\ UNCHANGED <<rows, sessionNow>>
    BY DEF LinkExternalRef
  <1>2. RequestsFit(rows, request) /\ RequestFits(rows, link) /\ RefsFit(refs)
    BY DEF SessionsFit, RequestsFit
  <1> HIDE DEF link
  <1>3. ref \in MerchantExternalRef
    BY <1>1, <1>2 DEF RequestFits, MerchantExternalRef
  <1> HIDE DEF ref
  <1>4. RefsFit(wider)
    BY <1>2, <1>3 DEF RefsFit
  <1> HIDE DEF wider
  <1>5. RequestsFit(rows', request')
    BY <1>1, <1>2, RequestMoves, RowsStay, IdleFits
  <1> QED BY <1>1, <1>2, <1>4, <1>5 DEF SessionsFit

LEMMA BeginRecordKeeps ==
    ASSUME SessionsFit, NEW r \in Requests, NEW merchant, NEW id \in SessionIds,
           BeginRecord(r, merchant, id)
    PROVE  SessionsFit'
  <1> DEFINE s == Get(id)
             to == [stage |-> "record", session |-> s]
  <1>1. /\ Held(id) /\ request' = [request EXCEPT ![r] = to]
        /\ UNCHANGED <<rows, refs, sessionNow>>
    BY DEF BeginRecord, SessionFor
  <1>2. RowsFit(rows) /\ RequestsFit(rows, request)
    BY DEF SessionsFit
  <1>3. IsCopy(rows, s)
    BY <1>1, <1>2 DEF RowsFit, RowFits, Held, Get, IsCopy
  <1> HIDE DEF s
  <1>4. to.stage = "record" /\ to.session = s
    OBVIOUS
  <1> HIDE DEF to
  <1>5. RequestFits(rows, to)
    BY <1>3, <1>4 DEF RequestFits
  <1>6. RequestsFit(rows, [request EXCEPT ![r] = to])
    BY <1>2, <1>5, RequestMoves, RowsStay
  <1>7. RequestsFit(rows', request')
    BY <1>1, <1>6
  <1> QED BY <1>1, <1>7 DEF SessionsFit

LEMMA RefuseKeeps ==
    ASSUME SessionsFit, NEW r \in Requests, Refuse(r)
    PROVE  SessionsFit'
  <1>1. RequestsFit(rows, request)
    BY DEF SessionsFit
  <1>2. RequestsFit(rows, [request EXCEPT ![r] = Idle])
    BY <1>1, RequestMoves, RowsStay, IdleFits
  <1>3. RequestsFit(rows', request')
    BY <1>2 DEF Refuse
  <1> QED BY <1>3 DEF Refuse, SessionsFit

LEMMA AcceptKeeps ==
    ASSUME SessionsFit, NEW r \in Requests, NEW s, SoFar(s), NEW item, NEW signature,
           s.sessionId \in DOMAIN rows, rows[s.sessionId].merchant = s.merchant,
           Accept(r, s, item, signature)
    PROVE  SessionsFit'
  <1>1. /\ Put(s) /\ request' = [request EXCEPT ![r] = Idle]
        /\ UNCHANGED <<refs, sessionNow>>
    BY DEF Accept
  <1>2. RowsFit(rows) /\ RequestsFit(rows, request)
    BY DEF SessionsFit
  <1>3. RowsFit(rows') /\ RowsGrow(rows, rows')
    BY <1>1, <1>2, PutKeeps
  <1>4. RequestsFit(rows', [request EXCEPT ![r] = Idle])
    BY <1>2, <1>3, RequestMoves, IdleFits
  <1>5. RequestsFit(rows', request')
    BY <1>1, <1>4
  <1> QED BY <1>1, <1>3, <1>5 DEF SessionsFit

LEMMA PostedAtAnIndex ==
    ASSUME NEW s, NEW i, NEW signature \in PostedSignatures(s, i), i # Acceptance
    PROVE  i \in Indices(s.terms) => signature \in {Forged, Drawn(s, i)}
  BY DEF PostedSignatures

LEMMA FinishAuthorizationKeeps ==
    ASSUME SessionsFit, NEW r \in Requests, request[r].stage = "record",
           NEW i, NEW body \in Bodies(request[r].session, i), i # Acceptance,
           FinishAuthorization(r, i, body)
    PROVE  SessionsFit'
  <1> DEFINE s == request[r].session
             sig == body.signature
             t == RecordAuthorization(s, i, sig, sessionNow)
  <1>1. CASE Refuse(r)
    BY <1>1, RefuseKeeps
  <1>2. CASE CanRecordAuthorization(s, i, body.authorization, sessionNow) /\ Accept(r, t, i, sig)
    <2>1. RequestFits(rows, request[r]) /\ sessionNow \in Nat
      BY DEF SessionsFit, RequestsFit
    <2>2. IsCopy(rows, s)
      BY <2>1 DEF RequestFits
    <2>3. i \notin DOMAIN s.strip
      BY <1>2 DEF CanRecordAuthorization
    <2>4. sig \in PostedSignatures(s, i)
      BY DEF Bodies
    <2>5. Accept(r, t, i, sig)
      BY <1>2
    <2> HIDE DEF t, s, sig
    <2>6. i \in Indices(s.terms) => sig \in {Forged, Drawn(s, i)}
      BY <2>4, PostedAtAnIndex
    <2>7. SoFar(t) /\ t.sessionId = s.sessionId /\ t.merchant = s.merchant
      BY <2>1, <2>2, <2>3, <2>6, AuthorizationKeeps DEF IsCopy, t
    <2> QED BY <2>2, <2>5, <2>7, AcceptKeeps DEF IsCopy
  <1> QED BY <1>1, <1>2 DEF FinishAuthorization

LEMMA FinishAcceptanceKeeps ==
    ASSUME SessionsFit, NEW r \in Requests, request[r].stage = "record",
           NEW sig \in PostedSignatures(request[r].session, Acceptance), FinishAcceptance(r, sig)
    PROVE  SessionsFit'
  <1> DEFINE s == request[r].session
             t == RecordAcceptance(s, sig, sessionNow)
  <1>1. CASE Refuse(r)
    BY <1>1, RefuseKeeps
  <1>2. CASE Accept(r, t, Acceptance, sig)
    <2>1. RequestFits(rows, request[r]) /\ sessionNow \in Nat
      BY DEF SessionsFit, RequestsFit
    <2>2. IsCopy(rows, s)
      BY <2>1 DEF RequestFits
    <2>3. sig \in {Forged, Consent(s)}
      BY DEF PostedSignatures
    <2>4. Accept(r, t, Acceptance, sig)
      BY <1>2
    <2> HIDE DEF t, s
    <2>5. SoFar(t) /\ t.sessionId = s.sessionId /\ t.merchant = s.merchant
      BY <2>1, <2>2, <2>3, AcceptanceKeeps DEF IsCopy, t
    <2> QED BY <2>2, <2>4, <2>5, AcceptKeeps DEF IsCopy
  <1> QED BY <1>1, <1>2 DEF FinishAcceptance

LEMMA RestartKeeps == ASSUME SessionsFit, Restart PROVE SessionsFit'
  <1> DEFINE none == [r \in Requests |-> Idle]
  <1>1. request' = none /\ UNCHANGED <<refs, sessionNow>>
        /\ (rows' = rows \/ rows' = <<>>)
    BY DEF Restart
  <1>2. RowsFit(rows')
    <2>1. RowsFit(<<>>)
      BY DEF RowsFit
    <2> QED BY <1>1, <2>1 DEF SessionsFit
  <1>3. none = [r \in Requests |-> none[r]] /\ \A r \in Requests : none[r] = Idle
    OBVIOUS
  <1> HIDE DEF none
  <1>4. RequestsFit(rows', none)
    BY <1>3, IdleFits DEF RequestsFit
  <1> QED BY <1>1, <1>2, <1>4 DEF SessionsFit

LEMMA SessionsFitInit == SessionInit => SessionsFit
  <1> SUFFICES ASSUME SessionInit PROVE SessionsFit
    OBVIOUS
  <1> DEFINE none == [r \in Requests |-> Idle]
  <1>1. request = none /\ rows = <<>> /\ refs = <<>> /\ sessionNow = 0
    BY DEF SessionInit
  <1>2. none = [r \in Requests |-> none[r]] /\ \A r \in Requests : none[r] = Idle
    OBVIOUS
  <1> HIDE DEF none
  <1>3. RequestsFit(rows, none)
    BY <1>2, IdleFits DEF RequestsFit
  <1>4. RowsFit(<<>>) /\ RefsFit(<<>>)
    BY DEF RowsFit, RefsFit
  <1> QED BY <1>1, <1>3, <1>4 DEF SessionsFit

\* What was answered stays answered, so a copy that was kept stays kept.
LEMMA KeptGrows ==
    ASSUME NEW acks, NEW more, acks \subseteq more, NEW s, KeptFor(acks, s)
    PROVE  KeptFor(more, s)
  BY DEF KeptFor

LEMMA CopiesMove ==
    ASSUME NEW acks, NEW more, acks \subseteq more, NEW asked, CopiesKept(acks, asked),
           asked = [x \in Requests |-> asked[x]], NEW r \in Requests, NEW to,
           to.stage = "record" => KeptFor(more, to.session)
    PROVE  CopiesKept(more, [asked EXCEPT ![r] = to])
  <1> DEFINE gone == [asked EXCEPT ![r] = to]
  <1>1. gone = [x \in Requests |-> IF x = r THEN to ELSE asked[x]]
    OBVIOUS
  <1> HIDE DEF gone
  <1>2. ASSUME NEW x \in Requests, gone[x].stage = "record"
        PROVE  KeptFor(more, gone[x].session)
    <2>1. CASE x = r
      BY <1>1, <1>2, <2>1
    <2>2. CASE x # r
      <3>1. gone[x] = asked[x]
        BY <1>1, <2>2
      <3>2. KeptFor(acks, asked[x].session)
        BY <1>2, <3>1 DEF CopiesKept
      <3> QED BY <3>1, <3>2, KeptGrows
    <2> QED BY <2>1, <2>2
  <1> QED BY <1>2 DEF CopiesKept, gone

LEMMA RowsKeptPut ==
    ASSUME NEW acks, NEW more, acks \subseteq more, RowsKept(acks, rows),
           NEW s, SoFar(s), KeptFor(more, s), Put(s)
    PROVE  RowsKept(more, rows')
  <1> DEFINE id == s.sessionId
             row == PutRow(s)
             after == [x \in DOMAIN rows \cup {id} |-> IF x = id THEN row ELSE rows[x]]
  <1>1. rows' = after
    BY DEF Put
  <1>2. row.payload = ToStoredSession(s)
    BY DEF PutRow, NewRow
  <1>3. FromStoredSession(ToStoredSession(s)) = s
    BY SessionBack DEF SoFar
  <1> HIDE DEF row
  <1>4. /\ DOMAIN after = DOMAIN rows \cup {id} /\ after[id] = row
        /\ \A x \in DOMAIN rows : x # id => after[x] = rows[x]
    OBVIOUS
  <1> HIDE DEF after
  <1>5. ASSUME NEW x \in DOMAIN after
        PROVE  KeptFor(more, FromStoredSession(after[x].payload))
    <2>1. CASE x = id
      BY <1>2, <1>3, <1>4, <2>1
    <2>2. CASE x # id
      BY <1>4, <2>2, KeptGrows DEF RowsKept
    <2> QED BY <2>1, <2>2
  <1> QED BY <1>1, <1>5 DEF RowsKept

LEMMA IdleHoldsNothing == Idle.stage # "record"
  BY DEF Idle

\* Nothing but the request is written.
LEMMA OnlyTheRequest ==
    ASSUME SessionsInv, NEW r \in Requests, NEW to, request' = [request EXCEPT ![r] = to],
           to.stage = "record" => KeptFor(acknowledged, to.session),
           rows' = rows, acknowledged' = acknowledged
    PROVE  RowsKept(acknowledged, rows)' /\ CopiesKept(acknowledged, request)'
  <1>1. RequestsFit(rows, request) /\ RowsKept(acknowledged, rows)
        /\ CopiesKept(acknowledged, request)
    BY DEF SessionsInv, SessionsFit
  <1>2. CopiesKept(acknowledged, [request EXCEPT ![r] = to])
    BY <1>1, CopiesMove DEF RequestsFit
  <1> QED BY <1>1, <1>2

\* A session is put, and its handler is done.
LEMMA PutAndAnswered ==
    ASSUME SessionsInv, NEW r \in Requests, NEW s, SoFar(s), Put(s), NEW to,
           acknowledged \subseteq acknowledged', KeptFor(acknowledged', s),
           to.stage # "record", request' = [request EXCEPT ![r] = to]
    PROVE  RowsKept(acknowledged, rows)' /\ CopiesKept(acknowledged, request)'
  <1>1. RequestsFit(rows, request) /\ RowsKept(acknowledged, rows)
        /\ CopiesKept(acknowledged, request)
    BY DEF SessionsInv, SessionsFit
  <1>2. RowsKept(acknowledged', rows')
    BY <1>1, RowsKeptPut
  <1>3. CopiesKept(acknowledged', [request EXCEPT ![r] = to])
    BY <1>1, CopiesMove DEF RequestsFit
  <1> QED BY <1>2, <1>3

LEMMA PostSessionKept ==
    ASSUME SessionsInv, NEW r \in Requests, NEW merchant \in Merchants, NEW id \in SessionIds,
           NEW cart \in Carts, NEW count \in Counts, NEW limit \in Limits, NEW external,
           PostSession(r, merchant, id, cart, count, limit, external)
    PROVE  RowsKept(acknowledged, rows)' /\ CopiesKept(acknowledged, request)'
  <1> DEFINE s == OpenSession(Prepare(id, merchant, cart, count, limit), sessionNow)
             to == IF external = {} THEN Idle
                   ELSE [stage |-> "link", merchant |-> merchant, planId |-> s.planId,
                         external |-> external]
  <1>1. SoFar(s)
    BY SessionOpens DEF SessionsInv, SessionsFit
  <1>2. s.strip = <<>> /\ s.acceptance = {}
    BY DEF OpenSession
  <1> HIDE DEF s
  <1>3. KeptFor(acknowledged, s)
    BY <1>2 DEF KeptFor
  <1>4. Put(s) /\ request' = [request EXCEPT ![r] = to] /\ acknowledged' = acknowledged
    BY DEF PostSession, s
  <1>5. to.stage # "record"
    BY IdleHoldsNothing
  <1> HIDE DEF to
  <1> QED BY <1>1, <1>3, <1>4, <1>5, PutAndAnswered

LEMMA RecordedIsKept ==
    ASSUME SessionsInv, NEW r \in Requests, NEW s, SoFar(s), KeptFor(acknowledged, s),
           NEW t, SoFar(t), t.sessionId = s.sessionId, NEW item, NEW sig, Accept(r, t, item, sig),
           \/ /\ item # Acceptance /\ t.acceptance = s.acceptance
              /\ t.strip = [j \in DOMAIN s.strip \cup {item} |->
                               IF j = item THEN sig ELSE s.strip[j]]
           \/ item = Acceptance /\ t.acceptance = {sig} /\ t.strip = s.strip
    PROVE  RowsKept(acknowledged, rows)' /\ CopiesKept(acknowledged, request)'
  <1>1. /\ Put(t) /\ request' = [request EXCEPT ![r] = Idle]
        /\ acknowledged' = acknowledged \cup {<<s.sessionId, item, sig>>}
    BY DEF Accept
  <1> DEFINE more == acknowledged \cup {<<s.sessionId, item, sig>>}
  <1>2. acknowledged \subseteq more /\ <<s.sessionId, item, sig>> \in more
    OBVIOUS
  <1>3. acknowledged' = more
    BY <1>1
  <1> HIDE DEF more
  <1>4. KeptFor(more, s)
    BY <1>2, KeptGrows
  <1>5. KeptFor(more, t)
    BY <1>2, <1>4 DEF KeptFor
  <1> QED BY <1>1, <1>2, <1>3, <1>5, PutAndAnswered, IdleHoldsNothing

LEMMA FinishAuthorizationKept ==
    ASSUME SessionsInv, NEW r \in Requests, request[r].stage = "record",
           NEW i, NEW body \in Bodies(request[r].session, i), i # Acceptance,
           FinishAuthorization(r, i, body)
    PROVE  RowsKept(acknowledged, rows)' /\ CopiesKept(acknowledged, request)'
  <1> DEFINE s == request[r].session
             sig == body.signature
             t == RecordAuthorization(s, i, sig, sessionNow)
  <1>1. CASE Refuse(r)
    BY <1>1, OnlyTheRequest, IdleHoldsNothing DEF Refuse
  <1>2. CASE CanRecordAuthorization(s, i, body.authorization, sessionNow) /\ Accept(r, t, i, sig)
    <2>1. RequestFits(rows, request[r]) /\ sessionNow \in Nat /\ KeptFor(acknowledged, s)
      BY DEF SessionsInv, SessionsFit, RequestsFit, CopiesKept
    <2>2. SoFar(s)
      BY <2>1 DEF RequestFits, IsCopy
    <2>3. i \notin DOMAIN s.strip
      BY <1>2 DEF CanRecordAuthorization
    <2>4. sig \in PostedSignatures(s, i)
      BY DEF Bodies
    <2>5. Accept(r, t, i, sig)
      BY <1>2
    <2> HIDE DEF t, s, sig
    <2>6. i \in Indices(s.terms) => sig \in {Forged, Drawn(s, i)}
      BY <2>4, PostedAtAnIndex
    <2>7. SoFar(t) /\ t.sessionId = s.sessionId
      BY <2>1, <2>2, <2>3, <2>6, AuthorizationKeeps DEF t
    <2>8. /\ t.acceptance = s.acceptance
          /\ t.strip = [j \in DOMAIN s.strip \cup {i} |-> IF j = i THEN sig ELSE s.strip[j]]
      BY <2>2, AuthorizationWrites DEF SoFar, Storable, t
    <2> QED BY <2>1, <2>2, <2>5, <2>7, <2>8, RecordedIsKept
  <1> QED BY <1>1, <1>2 DEF FinishAuthorization

LEMMA FinishAcceptanceKept ==
    ASSUME SessionsInv, NEW r \in Requests, request[r].stage = "record",
           NEW sig \in PostedSignatures(request[r].session, Acceptance), FinishAcceptance(r, sig)
    PROVE  RowsKept(acknowledged, rows)' /\ CopiesKept(acknowledged, request)'
  <1> DEFINE s == request[r].session
             t == RecordAcceptance(s, sig, sessionNow)
  <1>1. CASE Refuse(r)
    BY <1>1, OnlyTheRequest, IdleHoldsNothing DEF Refuse
  <1>2. CASE Accept(r, t, Acceptance, sig)
    <2>1. RequestFits(rows, request[r]) /\ sessionNow \in Nat /\ KeptFor(acknowledged, s)
      BY DEF SessionsInv, SessionsFit, RequestsFit, CopiesKept
    <2>2. SoFar(s)
      BY <2>1 DEF RequestFits, IsCopy
    <2>3. sig \in {Forged, Consent(s)}
      BY DEF PostedSignatures
    <2>4. Accept(r, t, Acceptance, sig)
      BY <1>2
    <2> HIDE DEF t, s
    <2>5. SoFar(t) /\ t.sessionId = s.sessionId
      BY <2>1, <2>2, <2>3, AcceptanceKeeps DEF t
    <2>6. t.acceptance = {sig} /\ t.strip = s.strip
      BY <2>2, AcceptanceWrites DEF SoFar, Storable, t
    <2> QED BY <2>1, <2>2, <2>4, <2>5, <2>6, RecordedIsKept
  <1> QED BY <1>1, <1>2 DEF FinishAcceptance

LEMMA RestartKept ==
    ASSUME SessionsInv, Restart
    PROVE  RowsKept(acknowledged, rows)' /\ CopiesKept(acknowledged, request)'
  <1> DEFINE none == [r \in Requests |-> Idle]
  <1>1. request' = none /\ acknowledged' = acknowledged /\ (rows' = rows \/ rows' = <<>>)
    BY DEF Restart
  <1>2. \A r \in Requests : none[r] = Idle
    OBVIOUS
  <1> HIDE DEF none
  <1>3. CopiesKept(acknowledged, none)
    BY <1>2, IdleHoldsNothing DEF CopiesKept
  <1>4. RowsKept(acknowledged, rows) /\ RowsKept(acknowledged, <<>>)
    BY DEF SessionsInv, RowsKept
  <1> QED BY <1>1, <1>3, <1>4

LEMMA SessionsInvInit == SessionInit => SessionsInv
  <1> SUFFICES ASSUME SessionInit PROVE SessionsInv
    OBVIOUS
  <1> DEFINE none == [r \in Requests |-> Idle]
  <1>1. request = none /\ rows = <<>>
    BY DEF SessionInit
  <1>2. \A r \in Requests : none[r] = Idle
    OBVIOUS
  <1> HIDE DEF none
  <1>3. RowsKept(acknowledged, <<>>)
    BY DEF RowsKept
  <1>4. CopiesKept(acknowledged, none)
    BY <1>2, IdleHoldsNothing DEF CopiesKept
  <1> QED BY <1>1, <1>3, <1>4, SessionsFitInit DEF SessionsInv

LEMMA PathIndicesAreNotTheAcceptance == \A i \in PathIndices : i # Acceptance
  <1> SUFFICES ASSUME NEW i \in PathIndices PROVE i # Acceptance
    OBVIOUS
  <1>1. i \in NotIntegers \/ \E n \in Counts : i \in 0 .. n
    <2> DEFINE ranges == {0 .. n : n \in Counts}
    <2>1. i \in UNION ranges \/ i \in NotIntegers
      BY Zenon DEF PathIndices
    <2>2. \A range \in ranges : \E n \in Counts : range = 0 .. n
      OBVIOUS
    <2> HIDE DEF ranges
    <2>3. CASE i \in UNION ranges
      <3>1. PICK range \in ranges : i \in range
        BY <2>3
      <3> QED BY <2>2, <3>1
    <2> QED BY <2>1, <2>3
  <1>2. CASE i \in NotIntegers
    BY <1>2, SessionAssumption
  <1>3. CASE \E n \in Counts : i \in 0 .. n
    <2>1. PICK n \in Counts : i \in 0 .. n
      BY <1>3
    <2>2. n \in Int
      BY SessionAssumption
    <2>3. i \in Int
      BY <2>1, <2>2
    <2> QED BY <2>3, SessionAssumption
  <1> QED BY <1>1, <1>2, <1>3

LEMMA SessionsInvStep == SessionsInv /\ [SessionNext]_sessionVars => SessionsInv'
  <1> DEFINE Acks == RowsKept(acknowledged, rows)' /\ CopiesKept(acknowledged, request)'
  <1>1. ASSUME SessionsInv, SessionNext PROVE SessionsFit' /\ Acks
    <2> USE <1>1
    <2>1. SessionsFit
      BY DEF SessionsInv
    <2>2. ASSUME NEW r \in Requests, NEW m \in Merchants, NEW id \in SessionIds,
                 NEW cart \in Carts, NEW count \in Counts, NEW limit \in Limits,
                 NEW external \in {{}} \cup {{x} : x \in ExternalIds},
                 PostSession(r, m, id, cart, count, limit, external)
          PROVE  SessionsFit' /\ Acks
      BY <2>1, <2>2, PostSessionKeeps, PostSessionKept
    <2>3. ASSUME NEW r \in Requests, LinkExternalRef(r) PROVE SessionsFit' /\ Acks
      <3>1. request' = [request EXCEPT ![r] = Idle] /\ rows' = rows
            /\ acknowledged' = acknowledged
        BY <2>3 DEF LinkExternalRef
      <3> QED BY <2>1, <2>3, <3>1, LinkExternalRefKeeps, OnlyTheRequest, IdleHoldsNothing
    <2>4. ASSUME NEW r \in Requests, NEW m \in Merchants, NEW id \in SessionIds,
                 BeginRecord(r, m, id)
          PROVE  SessionsFit' /\ Acks
      <3> DEFINE to == [stage |-> "record", session |-> Get(id)]
      <3>1. request' = [request EXCEPT ![r] = to] /\ rows' = rows
            /\ acknowledged' = acknowledged /\ id \in DOMAIN rows
        BY <2>4 DEF BeginRecord, SessionFor, Held
      <3>2. KeptFor(acknowledged, to.session)
        BY <3>1 DEF SessionsInv, RowsKept, Get
      <3> HIDE DEF to
      <3> QED BY <2>1, <2>4, <3>1, <3>2, BeginRecordKeeps, OnlyTheRequest
    <2>5. ASSUME NEW r \in Requests, request[r].stage = "record", NEW i \in PathIndices,
                 NEW body \in Bodies(request[r].session, i), FinishAuthorization(r, i, body)
          PROVE  SessionsFit' /\ Acks
      <3>1. i # Acceptance
        BY PathIndicesAreNotTheAcceptance
      <3> QED BY <2>1, <2>5, <3>1, FinishAuthorizationKeeps, FinishAuthorizationKept
    <2>6. ASSUME NEW r \in Requests, request[r].stage = "record",
                 NEW sig \in PostedSignatures(request[r].session, Acceptance),
                 FinishAcceptance(r, sig)
          PROVE  SessionsFit' /\ Acks
      BY <2>1, <2>6, FinishAcceptanceKeeps, FinishAcceptanceKept
    <2>7. ASSUME Restart PROVE SessionsFit' /\ Acks
      BY <2>1, <2>7, RestartKeeps, RestartKept
    <2>8. ASSUME SessionTick PROVE SessionsFit' /\ Acks
      BY <2>1, <2>8 DEF SessionTick, SessionsFit, SessionsInv
    <2> QED BY <2>2, <2>3, <2>4, <2>5, <2>6, <2>7, <2>8 DEF SessionNext
  <1>2. ASSUME SessionsInv, UNCHANGED sessionVars PROVE SessionsInv'
    BY <1>2 DEF SessionsInv, SessionsFit, sessionVars
  <1> QED BY <1>1, <1>2 DEF SessionsInv

LEMMA SessionsInvSuffices == SessionsInv => SessionsAreWhatWasSigned
  <1> SUFFICES ASSUME SessionsInv PROVE SessionsAreWhatWasSigned
    OBVIOUS
  <1>1. \A id \in SessionIds : Held(id) => RowFits(rows[id], id)
    BY DEF SessionsInv, SessionsFit, RowsFit, Held
  <1>2. SessionTables
    <2>1. ASSUME NEW id \in SessionIds, Held(id)
          PROVE  rows[id].sessionId = id /\ CheckoutSessionRow(rows[id])
      <3>1. RowFits(rows[id], id)
        BY <1>1, <2>1
      <3> DEFINE row == rows[id]
                 s == FromStoredSession(row.payload)
      <3>2. Get(row.sessionId) = s /\ row.sessionId = id
        BY <3>1 DEF RowFits, Get
      <3>3. SoFar(s) /\ row.payload = ToStoredSession(s) /\ row.merchant = s.merchant
            /\ row.state = s.state /\ row.expiresAt = s.expiresAt
            /\ row.createdAt \in Nat /\ row.updatedAt \in Nat
        BY <3>1 DEF RowFits
      <3> HIDE DEF row, s
      <3>4. s.merchant \in Merchants /\ s.state \in SessionState /\ s.expiresAt \in Nat
        BY <3>3 DEF SoFar, StateFits, Dated, SessionState
      <3>5. CheckoutSessionRow(row)
        BY <3>2, <3>3, <3>4 DEF CheckoutSessionRow
      <3> QED BY <3>2, <3>5 DEF row
    <2> QED BY <2>1 DEF SessionTables, SessionsInv, SessionsFit, RefsFit
  <1>3. StateTellsTheSignatures
    <2>1. ASSUME NEW s, SoFar(s)
          PROVE  LET said == Serialise(s)
                     stray == DOMAIN s.strip \ Indices(s.terms)
                 IN  /\ said.state \in SessionState
                     /\ said.state = "ready" <=>
                           (Cardinality(said.outstanding) = Cardinality(stray)
                            /\ ~said.needsAcceptance)
                     /\ stray = {} => (said.state = "ready" <=> said.ready)
                     /\ said.state = "quoted" <=> (DOMAIN s.strip = {} /\ s.acceptance = {})
                     /\ \A i \in said.resumeAt : i \notin DOMAIN s.strip
      <3> DEFINE said == Serialise(s)
                 stray == DOMAIN s.strip \ Indices(s.terms)
                 left == Indices(s.terms) \ DOMAIN s.strip
      <3>1. said.state = s.state /\ said.ready = IsReady(s)
            /\ said.outstanding = OutstandingAuthorizations(s)
            /\ said.resumeAt = ResumeIndex(s)
            /\ said.needsAcceptance = NeedsAcceptance(s)
        BY DEF Serialise
      <3>2. IsFiniteSet(DOMAIN s.strip) /\ StateFits(s) /\ TermsFor(s)
        BY <2>1 DEF SoFar, StripDrawn
      <3>3. OutstandingAuthorizations(s) = left
        BY DEF OutstandingAuthorizations, Indices, Count
      <3>4. /\ IsFiniteSet(left)
            /\ (Cardinality(DOMAIN s.strip) = Count(s)) <=> (Cardinality(left) = Cardinality(stray))
        BY <3>2, StraysByCounting
      <3>5. NeedsAcceptance(s) <=> s.acceptance = {}
        BY DEF NeedsAcceptance
      <3>6. \A i \in ResumeIndex(s) : i \notin DOMAIN s.strip
        BY DEF ResumeIndex, OutstandingAuthorizations
      <3>7. s.state \in SessionState
        BY <3>2 DEF StateFits, SessionState
      <3>8. s.state = "quoted" <=> (DOMAIN s.strip = {} /\ s.acceptance = {})
        BY <3>2 DEF StateFits
      <3>9. IsReady(s) <=> (left = {} /\ ~NeedsAcceptance(s))
        BY <3>3 DEF IsReady
      <3> HIDE DEF said, left, stray
      <3>10. s.state = "ready" <=>
                 (Cardinality(left) = Cardinality(stray) /\ ~NeedsAcceptance(s))
        BY <3>2, <3>4, <3>5 DEF StateFits
      <3>11. stray = {} => (Cardinality(left) = Cardinality(stray) <=> left = {})
        BY <3>4, FS_EmptySet
      <3>12. stray = {} => (s.state = "ready" <=> IsReady(s))
        BY <3>9, <3>10, <3>11
      <3> QED BY <3>1, <3>3, <3>6, <3>7, <3>8, <3>10, <3>12, Zenon DEF said, stray
    <2>2. ASSUME NEW id \in SessionIds, Held(id)
          PROVE  /\ SoFar(Get(id))
                 /\ rows[id].state = Get(id).state /\ rows[id].expiresAt = Get(id).expiresAt
                 /\ rows[id].planId = Get(id).planId /\ rows[id].merchant = Get(id).merchant
      BY <1>1, <2>2 DEF RowFits, Get
    <2> QED BY <2>1, <2>2, Zenon DEF StateTellsTheSignatures
  <1>4. HandedStripsAreWhole
    <2>1. ASSUME NEW s, SoFar(s), KeptFor(acknowledged, s), IsReady(s)
          PROVE  LET answer == StripAnswer(s)
                     drawn == BuildStrip(s.terms, DerivePlanId(s.terms))
                 IN  /\ DOMAIN answer.strip = DOMAIN drawn
                     /\ \A i \in DOMAIN drawn :
                           /\ <<s.sessionId, i, answer.strip[i]>> \in acknowledged
                           /\ answer.strip[i] # Forged =>
                                 answer.strip[i] =
                                     ReceiveWithAuthorizationTypedData("USDC", drawn[i])
                     /\ answer.acceptance # {}
                     /\ \A a \in answer.acceptance :
                           /\ <<s.sessionId, Acceptance, a>> \in acknowledged
                           /\ a # Forged => a.message.planId = DerivePlanId(s.terms)
      <3> DEFINE answer == StripAnswer(s)
                 drawn == BuildStrip(s.terms, DerivePlanId(s.terms))
      <3>1. PlanOf(s) /\ StripDrawn(s) /\ Agreed(s)
        BY <2>1 DEF SoFar
      <3>2. s.planId = DerivePlanId(s.terms)
        BY <3>1 DEF PlanOf
      <3>3. Indices(s.terms) = 0 .. (Count(s) - 1)
        BY DEF Indices, Count
      <3>4. Indices(s.terms) \subseteq DOMAIN s.strip /\ s.acceptance # {}
        BY <2>1, <3>3 DEF IsReady, OutstandingAuthorizations, NeedsAcceptance
      <3>5. answer.strip = [i \in Indices(s.terms) |-> s.strip[i]]
            /\ answer.acceptance = s.acceptance
        BY <3>3 DEF StripAnswer, AssembleStrip
      <3>6. DOMAIN drawn = Indices(s.terms)
        BY DEF BuildStrip
      <3>7. \A i \in Indices(s.terms) :
                Drawn(s, i) = ReceiveWithAuthorizationTypedData("USDC", drawn[i])
        BY <3>2 DEF Drawn
      <3> HIDE DEF answer, drawn
      <3>8. DOMAIN answer.strip = Indices(s.terms)
            /\ \A i \in Indices(s.terms) : answer.strip[i] = s.strip[i]
        BY <3>5
      <3>9. ASSUME NEW i \in Indices(s.terms)
            PROVE  /\ <<s.sessionId, i, s.strip[i]>> \in acknowledged
                   /\ s.strip[i] # Forged => s.strip[i] = Drawn(s, i)
        BY <2>1, <3>1, <3>4 DEF KeptFor, StripDrawn
      <3>10. ASSUME NEW a \in s.acceptance
             PROVE  /\ <<s.sessionId, Acceptance, a>> \in acknowledged
                    /\ a # Forged => a.message.planId = DerivePlanId(s.terms)
        BY <2>1, <3>1, <3>2 DEF KeptFor, Agreed
      <3> QED BY <3>4, <3>5, <3>6, <3>7, <3>8, <3>9, <3>10, Zenon DEF answer, drawn
    <2>2. ASSUME NEW id \in DOMAIN rows
          PROVE  SoFar(Get(id)) /\ KeptFor(acknowledged, Get(id))
      BY DEF SessionsInv, SessionsFit, RowsFit, RowFits, RowsKept, Get
    <2> QED BY <2>1, <2>2, Zenon DEF HandedStripsAreWhole
  <1> QED BY <1>2, <1>3, <1>4 DEF SessionsAreWhatWasSigned

LEMMA SessionsInFocus ==
    focus = "sessions" /\ [OperatorNext]_operatorVars => [SessionNext]_sessionVars
  <1>1. ASSUME focus = "sessions", OperatorNext PROVE SessionNext
    BY <1>1 DEF OperatorNext, Others
  <1> QED BY <1>1 DEF operatorVars

SessionsInFocusHold == focus = "sessions" => SessionsInv

\* However visits, put-backs, refusals and restarts overlap, a session's state names the
\* signatures it has, the store gives back what it was given, and a strip that is handed
\* out has exactly the plan's installments, each signature taken for that very index and
\* answered 200, and as drawn where the client posted what it was asked to sign
\* (services/origination/src/session.ts, store/pg-session.ts).
THEOREM SessionsAlwaysHold == OperatorSpec => []SessionsHold
  <1>1. OperatorInit => SessionsInFocusHold
    BY SessionsInvInit DEF OperatorInit, SessionStart, SessionsInFocusHold
  <1>2. SessionsInFocusHold /\ [OperatorNext]_operatorVars => SessionsInFocusHold'
    BY FocusStays, SessionsInFocus, SessionsInvStep DEF SessionsInFocusHold
  <1>3. SessionsInFocusHold => SessionsHold
    BY SessionsInvSuffices DEF SessionsInFocusHold, SessionsHold
  <1> QED BY <1>1, <1>2, <1>3, PTL DEF OperatorSpec

(***************************************************************************)
(* The webhooks.  Nothing ties a row of the log to the receiver but the id *)
(* the message went out under, and the row is written after the post, by   *)
(* a process that may die between the two.  So the ids are what is counted:*)
(* each is drawn once, is on its way in one sender or in one row, and has  *)
(* not been seen before it is posted; those acknowledged for a destination *)
(* and a body are no more than the times its receiver acted on that body.  *)
(* What was asked for covers what was acted on and what senders still owe. *)
(***************************************************************************)

Secrets(given) == given \in Seq(Nat) /\ Len(given) \in {1, 2}

EndpointsFit(ends) ==
    /\ ends \in [Endpoints -> {Unset} \cup WebhookEndpoint]
    /\ \A e \in Endpoints : ends[e] # Unset => Secrets(ends[e].signingSecrets)

\* The endpoint is registered, and the merchant's.
OwnedBy(ends, e, m) ==
    e \in Endpoints /\ m \in HookMerchants /\ ends[e] # Unset /\ ends[e].merchantId = m

PostFields == {"stage", "event", "queue", "endpointId", "row", "merchantId", "webhookId",
               "body", "replayOf", "addresses", "status"}

Outgoing(h) == h.stage \in {"post", "connect"}
OnItsWay(h) == h.stage \in {"post", "connect", "row"}

SenderFits(ends, drawn, h) ==
    /\ h.stage = "fanout" => DOMAIN h = {"stage", "event", "queue"}
    /\ Outgoing(h) => DOMAIN h = PostFields /\ h.status = Unset
    /\ h.stage = "fanout" \/ OnItsWay(h) =>
          h.event \in Events /\ \A t \in h.queue : OwnedBy(ends, t.id, t.row.merchantId)
    /\ OnItsWay(h) =>
          /\ OwnedBy(ends, h.endpointId, h.merchantId) /\ h.webhookId \in 1 .. drawn
          /\ h.body \in Events /\ h.replayOf \in Nat \cup {Unset}
    /\ h.stage = "connect" \/ (h.stage = "row" /\ h.status # Unset) =>
          AssertDeliverable(h.addresses)
    /\ h.stage = "row" => h.status \in Nat \cup {Unset}
    /\ h.stage = "rotate" =>
          h.endpointId \in Endpoints /\ ends[h.endpointId] # Unset /\ Secrets(h.held)

SendersFit(ends, drawn, hands) ==
    /\ hands = [w \in Senders |-> hands[w]]
    /\ \A w \in Senders : SenderFits(ends, drawn, hands[w])

RowFitsLog(ends, drawn, row) ==
    /\ row \in WebhookDelivery /\ OwnedBy(ends, row.endpointId, row.merchantId)
    /\ row.webhookId \in 1 .. drawn

LogFits(ends, drawn, log) ==
    log \in Seq(WebhookDelivery) /\ \A d \in DOMAIN log : RowFitsLog(ends, drawn, log[d])

\* An id is in one place, and nobody has seen it before it is posted.
OnceInHand(hands, log) ==
    /\ \A w \in Senders : OnItsWay(hands[w]) =>
          \A d \in DOMAIN log : log[d].webhookId # hands[w].webhookId
    /\ \A w \in Senders : \A v \in Senders :
          OnItsWay(hands[w]) /\ OnItsWay(hands[v]) /\ hands[w].webhookId = hands[v].webhookId
              => w = v

OnceInLog(log) ==
    \A d \in DOMAIN log : \A c \in DOMAIN log : log[d].webhookId = log[c].webhookId => d = c

UnseenYet(hands, known, drawn) ==
    /\ \A n \in known : n[2] \in 1 .. drawn
    /\ \A w \in Senders : Outgoing(hands[w]) =>
          \A n \in known : n[2] # hands[w].webhookId

\* The ids acknowledged for a destination and a body, in a row or on the way to one.
AckedRow(row, x) ==
    <<row.endpointId, row.requestBody>> = x /\ Successful(row.responseStatus)
AckedInHand(h, x) ==
    h.stage = "row" /\ <<h.endpointId, h.body>> = x /\ Successful(h.status)

Acked(log, hands, x, i) ==
    \/ \E d \in DOMAIN log : log[d].webhookId = i /\ AckedRow(log[d], x)
    \/ \E w \in Senders : hands[w].webhookId = i /\ AckedInHand(hands[w], x)

AckedIds(log, hands, drawn, x) == {i \in 1 .. drawn : Acked(log, hands, x, i)}

Counted(log, hands, drawn, acted) ==
    /\ acted \in [Endpoints \X Events -> Nat]
    /\ \A x \in Endpoints \X Events : Cardinality(AckedIds(log, hands, drawn, x)) <= acted[x]

HooksTyped ==
    /\ EndpointsFit(endpoint) /\ messages \in Nat /\ secrets \in Nat
    /\ SendersFit(endpoint, messages, sender) /\ LogFits(endpoint, messages, delivery)
HooksOnce ==
    OnceInHand(sender, delivery) /\ OnceInLog(delivery) /\ UnseenYet(sender, seen, messages)
HooksCounted == Counted(delivery, sender, messages, processed)

HooksInv == HooksTyped /\ HooksOnce /\ HooksCounted

\* What a write may do to the endpoints: register one, never move or remove one.
EndpointsStay(ends, after) ==
    \A e \in Endpoints : ends[e] # Unset =>
        after[e] # Unset /\ after[e].merchantId = ends[e].merchantId

LEMMA OwnedStays ==
    ASSUME NEW ends, NEW after, EndpointsStay(ends, after), NEW e, NEW m, OwnedBy(ends, e, m)
    PROVE  OwnedBy(after, e, m)
  BY DEF EndpointsStay, OwnedBy

LEMMA SenderStays ==
    ASSUME NEW ends, NEW after, EndpointsStay(ends, after), NEW drawn \in Nat,
           NEW more \in Nat, drawn <= more, NEW h, SenderFits(ends, drawn, h)
    PROVE  SenderFits(after, more, h)
  <1>1. \A e, m : OwnedBy(ends, e, m) => OwnedBy(after, e, m)
    BY OwnedStays
  <1>2. \A i \in 1 .. drawn : i \in 1 .. more
    OBVIOUS
  <1>3. \A e \in Endpoints : ends[e] # Unset => after[e] # Unset
    BY DEF EndpointsStay
  <1> QED BY <1>1, <1>2, <1>3 DEF SenderFits, Outgoing, OnItsWay

LEMMA LogStays ==
    ASSUME NEW ends, NEW after, EndpointsStay(ends, after), NEW drawn \in Nat,
           NEW more \in Nat, drawn <= more, NEW log, LogFits(ends, drawn, log)
    PROVE  LogFits(after, more, log)
  <1>1. \A e, m : OwnedBy(ends, e, m) => OwnedBy(after, e, m)
    BY OwnedStays
  <1>2. \A i \in 1 .. drawn : i \in 1 .. more
    OBVIOUS
  <1> QED BY <1>1, <1>2 DEF LogFits, RowFitsLog

Rewritten(hands, after, w, to) == after = [hands EXCEPT ![w] = to]
OneMoves(hands, after, w, to) ==
    after[w] = to /\ \A v \in Senders : v # w => after[v] = hands[v]

LEMMA SendersMove ==
    ASSUME NEW ends, NEW after, EndpointsStay(ends, after), NEW drawn \in Nat,
           NEW more \in Nat, drawn <= more, NEW hands, SendersFit(ends, drawn, hands),
           NEW w \in Senders, NEW to, SenderFits(after, more, to),
           NEW later, Rewritten(hands, later, w, to)
    PROVE  SendersFit(after, more, later) /\ OneMoves(hands, later, w, to)
  <1>1. hands = [v \in Senders |-> hands[v]]
    BY DEF SendersFit
  <1>2. later = [v \in Senders |-> IF v = w THEN to ELSE hands[v]]
    BY <1>1 DEF Rewritten
  <1>3. later[w] = to /\ \A v \in Senders : v # w => later[v] = hands[v]
    BY <1>2
  <1>4. \A v \in Senders : SenderFits(after, more, later[v])
    <2> TAKE v \in Senders
    <2>1. CASE v = w
      BY <1>3, <2>1
    <2>2. CASE v # w
      <3>1. SenderFits(ends, drawn, hands[v])
        BY DEF SendersFit
      <3>2. SenderFits(after, more, hands[v])
        BY <3>1, SenderStays
      <3> QED BY <1>3, <2>2, <3>2
    <2> QED BY <2>1, <2>2
  <1>5. later = [v \in Senders |-> later[v]]
    BY <1>2
  <1> QED BY <1>3, <1>4, <1>5 DEF SendersFit, OneMoves

LEMMA EndpointsRemain == ASSUME NEW ends PROVE EndpointsStay(ends, ends)
  BY DEF EndpointsStay

\* A sender that keeps its id, or lays it down, puts none in a second place.
KeepsId(from, to) ==
    /\ OnItsWay(to) => OnItsWay(from) /\ to.webhookId = from.webhookId
    /\ Outgoing(to) => Outgoing(from)

\* Nothing acknowledged that was not.
KeepsAcks(from, to) ==
    \A x : AckedInHand(to, x) => AckedInHand(from, x) /\ to.webhookId = from.webhookId

LEMMA OnceKept ==
    ASSUME NEW hands, NEW log, NEW known, NEW drawn \in Nat, NEW more \in Nat,
           drawn <= more, OnceInHand(hands, log), UnseenYet(hands, known, drawn),
           NEW w \in Senders, NEW to, NEW after, OneMoves(hands, after, w, to),
           KeepsId(hands[w], to)
    PROVE  OnceInHand(after, log) /\ UnseenYet(after, known, more)
  <1>1. \A v \in Senders : KeepsId(hands[v], after[v])
    BY DEF OneMoves, KeepsId, Outgoing, OnItsWay
  <1>2. \A n \in known : n[2] \in 1 .. more
    BY DEF UnseenYet, Outgoing, OnItsWay
  <1>3. OnceInHand(after, log)
    BY <1>1 DEF OnceInHand, KeepsId, Outgoing, OnItsWay
  <1>4. UnseenYet(after, known, more)
    BY <1>1, <1>2 DEF UnseenYet, KeepsId, OnItsWay, Outgoing
  <1> QED BY <1>3, <1>4

LEMMA AckedIdsFinite ==
    ASSUME NEW log, NEW hands, NEW drawn \in Nat, NEW x
    PROVE  /\ IsFiniteSet(AckedIds(log, hands, drawn, x))
           /\ Cardinality(AckedIds(log, hands, drawn, x)) \in Nat
  <1> DEFINE all == 1 .. drawn
             ids == AckedIds(log, hands, drawn, x)
  <1>1. IsFiniteSet(all)
    BY FS_Interval
  <1>2. ids \in SUBSET all
    BY DEF AckedIds
  <1> HIDE DEF all, ids
  <1>3. IsFiniteSet(ids)
    BY <1>1, <1>2, FS_Subset
  <1>4. Cardinality(ids) \in Nat
    BY <1>3, FS_CardinalityType
  <1> QED BY <1>3, <1>4 DEF ids

\* What is acknowledged does not grow unless somebody acted.
LEMMA CountedStays ==
    ASSUME NEW log, NEW hands, NEW drawn \in Nat, NEW acted, Counted(log, hands, drawn, acted),
           NEW log2, NEW hands2, NEW more \in Nat,
           \A x \in Endpoints \X Events : \A i \in 1 .. more :
               Acked(log2, hands2, x, i) => i \in 1 .. drawn /\ Acked(log, hands, x, i)
    PROVE  Counted(log2, hands2, more, acted)
  <1>1. ASSUME NEW x \in Endpoints \X Events
        PROVE  Cardinality(AckedIds(log2, hands2, more, x)) <= acted[x]
    <2> DEFINE before == AckedIds(log, hands, drawn, x)
               now_ == AckedIds(log2, hands2, more, x)
    <2>1. now_ \in SUBSET before
      BY DEF AckedIds
    <2>2. IsFiniteSet(before) /\ Cardinality(before) \in Nat /\ Cardinality(now_) \in Nat
      BY AckedIdsFinite
    <2>3. Cardinality(before) <= acted[x] /\ acted[x] \in Nat
      BY DEF Counted
    <2> HIDE DEF before, now_
    <2>4. Cardinality(now_) <= Cardinality(before)
      BY <2>1, <2>2, FS_Subset
    <2>5. Cardinality(now_) <= acted[x]
      BY <2>2, <2>3, <2>4
    <2> QED BY <2>5 DEF now_
  <1> QED BY <1>1 DEF Counted

LEMMA AcksKept ==
    ASSUME NEW log, NEW hands, NEW drawn \in Nat, NEW acted, Counted(log, hands, drawn, acted),
           NEW more \in Nat, NEW w \in Senders, NEW to, NEW after,
           OneMoves(hands, after, w, to), KeepsAcks(hands[w], to),
           NEW ends, SendersFit(ends, drawn, hands), LogFits(ends, drawn, log)
    PROVE  Counted(log, after, more, acted)
  <1>1. ASSUME NEW x \in Endpoints \X Events, NEW i \in 1 .. more, Acked(log, after, x, i)
        PROVE  i \in 1 .. drawn /\ Acked(log, hands, x, i)
    <2>1. CASE \E d \in DOMAIN log : log[d].webhookId = i /\ AckedRow(log[d], x)
      BY <2>1 DEF LogFits, RowFitsLog, Acked
    <2>2. CASE \E v \in Senders : after[v].webhookId = i /\ AckedInHand(after[v], x)
      <3>1. PICK v \in Senders : after[v].webhookId = i /\ AckedInHand(after[v], x)
        BY <2>2
      <3>2. hands[v].webhookId = i /\ AckedInHand(hands[v], x)
        BY <3>1 DEF OneMoves, KeepsAcks
      <3>3. SenderFits(ends, drawn, hands[v])
        BY DEF SendersFit
      <3> QED BY <3>2, <3>3 DEF Acked, AckedInHand, SenderFits, Outgoing, OnItsWay
    <2> QED BY <1>1, <2>1, <2>2 DEF Acked
  <1> QED BY <1>1, CountedStays

LEMMA SendersStay ==
    ASSUME NEW ends, NEW after, EndpointsStay(ends, after), NEW drawn \in Nat,
           NEW more \in Nat, drawn <= more, NEW hands, SendersFit(ends, drawn, hands)
    PROVE  SendersFit(after, more, hands)
  <1>1. \A w \in Senders : SenderFits(ends, drawn, hands[w])
    BY DEF SendersFit
  <1>2. \A w \in Senders : SenderFits(after, more, hands[w])
    BY <1>1, SenderStays
  <1> QED BY <1>2 DEF SendersFit

LEMMA EndpointsMove ==
    ASSUME HooksInv, EndpointsFit(endpoint'), EndpointsStay(endpoint, endpoint'),
           secrets' \in Nat, UNCHANGED <<delivery, sender, messages, seen, processed>>
    PROVE  HooksInv'
  <1>1. messages \in Nat /\ messages <= messages
    BY DEF HooksInv, HooksTyped
  <1>2. SendersFit(endpoint', messages, sender)
    BY <1>1, SendersStay DEF HooksInv, HooksTyped
  <1>3. LogFits(endpoint', messages, delivery)
    BY <1>1, LogStays DEF HooksInv, HooksTyped
  <1>4. HooksTyped'
    BY <1>1, <1>2, <1>3 DEF HooksTyped
  <1>5. HooksOnce'
    BY DEF HooksInv, HooksOnce
  <1>6. HooksCounted'
    BY DEF HooksInv, HooksCounted
  <1> QED BY <1>4, <1>5, <1>6 DEF HooksInv

\* A sender goes on with the id it has, or with none.
LEMMA SenderGoesOn ==
    ASSUME HooksInv, NEW w \in Senders, NEW to, SenderFits(endpoint', messages, to),
           KeepsId(sender[w], to), KeepsAcks(sender[w], to), Sets(w, to),
           EndpointsFit(endpoint'), EndpointsStay(endpoint, endpoint'), secrets' \in Nat,
           UNCHANGED <<delivery, messages, seen, processed>>
    PROVE  HooksInv'
  <1>1. messages \in Nat /\ messages <= messages
    BY DEF HooksInv, HooksTyped
  <1>2. SendersFit(endpoint, messages, sender) /\ LogFits(endpoint, messages, delivery)
    BY DEF HooksInv, HooksTyped
  <1>3. SendersFit(endpoint', messages, sender') /\ OneMoves(sender, sender', w, to)
    <2>1. Rewritten(sender, sender', w, to)
      BY DEF Sets, Rewritten
    <2> QED BY <1>1, <1>2, <2>1, SendersMove
  <1>4. LogFits(endpoint', messages, delivery)
    BY <1>1, <1>2, LogStays
  <1>5. HooksTyped'
    BY <1>1, <1>3, <1>4 DEF HooksTyped
  <1>6. OnceInHand(sender', delivery) /\ UnseenYet(sender', seen, messages)
    BY <1>1, <1>3, OnceKept DEF HooksInv, HooksOnce
  <1>7. HooksOnce'
    BY <1>6 DEF HooksInv, HooksOnce
  <1>8. Counted(delivery, sender', messages, processed)
    BY <1>1, <1>2, <1>3, AcksKept DEF HooksInv, HooksCounted
  <1>9. HooksCounted'
    BY <1>8 DEF HooksCounted
  <1> QED BY <1>5, <1>7, <1>9 DEF HooksInv

LEMMA SenderMoves ==
    ASSUME HooksInv, NEW w \in Senders, NEW to, SenderFits(endpoint, messages, to),
           KeepsId(sender[w], to), KeepsAcks(sender[w], to), Sets(w, to),
           UNCHANGED <<endpoint, delivery, messages, secrets, seen, processed>>
    PROVE  HooksInv'
  <1>1. SenderFits(endpoint', messages, to)
    OBVIOUS
  <1>2. EndpointsFit(endpoint') /\ EndpointsStay(endpoint, endpoint') /\ secrets' \in Nat
    BY EndpointsRemain DEF HooksInv, HooksTyped
  <1> QED BY <1>1, <1>2, SenderGoesOn

\* A message goes out under the id just drawn.
LEMMA FreshPost ==
    ASSUME HooksInv, NEW w \in Senders, NEW to, SenderFits(endpoint, messages + 1, to),
           to.stage = "post", to.webhookId = messages + 1, Sets(w, to),
           messages' = messages + 1, UNCHANGED <<endpoint, delivery, secrets, seen, processed>>
    PROVE  HooksInv'
  <1> DEFINE drawn == messages
             more == messages + 1
  <1>1. drawn \in Nat /\ more \in Nat /\ drawn <= more /\ more \notin 1 .. drawn
    BY DEF HooksInv, HooksTyped
  <1>2. EndpointsStay(endpoint, endpoint) /\ SendersFit(endpoint, drawn, sender)
        /\ LogFits(endpoint, drawn, delivery)
    BY EndpointsRemain DEF HooksInv, HooksTyped
  <1>3. OnceInHand(sender, delivery) /\ OnceInLog(delivery) /\ UnseenYet(sender, seen, drawn)
    BY DEF HooksInv, HooksOnce
  <1>4. SenderFits(endpoint, more, to) /\ to.webhookId = more /\ messages' = more
    OBVIOUS
  <1>5. Counted(delivery, sender, drawn, processed)
    BY DEF HooksInv, HooksCounted
  <1> HIDE DEF drawn, more
  <1>6. SendersFit(endpoint, more, sender') /\ OneMoves(sender, sender', w, to)
    <2>1. Rewritten(sender, sender', w, to)
      BY DEF Sets, Rewritten
    <2> QED BY <1>1, <1>2, <1>4, <2>1, SendersMove
  <1>7. LogFits(endpoint, more, delivery)
    BY <1>1, <1>2, LogStays
  <1>8. HooksTyped'
    BY <1>1, <1>4, <1>6, <1>7 DEF HooksInv, HooksTyped
  <1>9. /\ \A d \in DOMAIN delivery : delivery[d].webhookId # more
        /\ \A n \in seen : n[2] # more /\ n[2] \in 1 .. more
    BY <1>1, <1>2, <1>3 DEF LogFits, RowFitsLog, UnseenYet, Outgoing, OnItsWay
  <1>10. \A v \in Senders : OnItsWay(sender[v]) => sender[v].webhookId # more
    <2> SUFFICES ASSUME NEW v \in Senders, OnItsWay(sender[v]) PROVE sender[v].webhookId # more
      OBVIOUS
    <2>1. SenderFits(endpoint, drawn, sender[v])
      BY <1>2 DEF SendersFit
    <2> QED BY <1>1, <2>1 DEF SenderFits, OnItsWay, Outgoing
  <1>11. OnceInHand(sender', delivery)
    BY <1>3, <1>4, <1>6, <1>9, <1>10 DEF OnceInHand, OneMoves
  <1>12. UnseenYet(sender', seen, more)
    BY <1>3, <1>4, <1>6, <1>9 DEF UnseenYet, OneMoves, Outgoing, OnItsWay
  <1>13. HooksOnce'
    BY <1>3, <1>4, <1>11, <1>12 DEF HooksOnce
  <1>14. KeepsAcks(sender[w], to)
    BY DEF KeepsAcks, AckedInHand
  <1>15. Counted(delivery, sender', more, processed)
    BY <1>1, <1>2, <1>5, <1>6, <1>14, AcksKept
  <1>16. HooksCounted'
    BY <1>4, <1>15 DEF HooksCounted
  <1> QED BY <1>8, <1>13, <1>16 DEF HooksInv

\* The receiver acts on an id nobody had seen, and the sender holds its answer.
LEMMA ReceiverActs ==
    ASSUME HooksInv, NEW w \in Senders, NEW to, SenderFits(endpoint, messages, to),
           sender[w].stage = "connect", to.stage = "row", to.webhookId = sender[w].webhookId,
           to.endpointId = sender[w].endpointId, to.body = sender[w].body, Sets(w, to),
           seen' = seen \cup {<<sender[w].endpointId, sender[w].webhookId>>},
           processed' = [processed EXCEPT ![<<sender[w].endpointId, sender[w].body>>] = @ + 1],
           UNCHANGED <<endpoint, delivery, messages, secrets>>
    PROVE  HooksInv'
  <1> DEFINE i == sender[w].webhookId
             x0 == <<sender[w].endpointId, sender[w].body>>
             acted == processed'
  <1>1. messages \in Nat /\ messages <= messages /\ EndpointsStay(endpoint, endpoint)
    BY EndpointsRemain DEF HooksInv, HooksTyped
  <1>2. SendersFit(endpoint, messages, sender) /\ LogFits(endpoint, messages, delivery)
    BY DEF HooksInv, HooksTyped
  <1>3. SendersFit(endpoint, messages, sender') /\ OneMoves(sender, sender', w, to)
    <2>1. Rewritten(sender, sender', w, to)
      BY DEF Sets, Rewritten
    <2> QED BY <1>1, <1>2, <2>1, SendersMove
  <1>4. HooksTyped'
    BY <1>3 DEF HooksInv, HooksTyped
  <1>5. /\ OnceInHand(sender, delivery) /\ OnceInLog(delivery)
        /\ UnseenYet(sender, seen, messages) /\ Counted(delivery, sender, messages, processed)
    BY DEF HooksInv, HooksOnce, HooksCounted
  <1>6. SenderFits(endpoint, messages, sender[w])
    BY <1>2 DEF SendersFit
  <1>7. i \in 1 .. messages /\ x0 \in Endpoints \X Events
    BY <1>6 DEF SenderFits, OwnedBy, Outgoing, OnItsWay
  <1>8. \A n \in seen' : n \in seen \/ n[2] = i
    OBVIOUS
  <1>9. KeepsId(sender[w], to)
    BY DEF KeepsId, OnItsWay, Outgoing
  <1>10. OnceInHand(sender', delivery)
    BY <1>1, <1>3, <1>5, <1>9, OnceKept
  <1>11. OnItsWay(sender[w])
    BY DEF OnItsWay
  <1>12. /\ \A x \in Endpoints \X Events :
                acted[x] = IF x = x0 THEN processed[x] + 1 ELSE processed[x]
         /\ acted \in [Endpoints \X Events -> Nat]
    BY <1>5, <1>7 DEF Counted
  <1>13. to.webhookId = i /\ <<to.endpointId, to.body>> = x0 /\ sender[w].webhookId = i
    OBVIOUS
  <1>14. seen' = seen' /\ processed' = acted
    OBVIOUS
  <1> HIDE DEF i, x0, acted
  <1>15. UnseenYet(sender', seen', messages)
    <2>1. \A n \in seen' : n[2] \in 1 .. messages
      BY <1>5, <1>7, <1>8 DEF UnseenYet, Outgoing, OnItsWay
    <2>2. ASSUME NEW v \in Senders, Outgoing(sender'[v]), NEW n \in seen'
          PROVE  n[2] # sender'[v].webhookId
      <3>1. v # w /\ sender'[v] = sender[v]
        BY <1>3, <2>2 DEF OneMoves, Outgoing
      <3>2. sender[v].webhookId # i
        BY <1>5, <1>11, <1>13, <2>2, <3>1 DEF OnceInHand, OnItsWay, Outgoing
      <3>3. n \in seen => n[2] # sender[v].webhookId
        BY <1>5, <2>2, <3>1 DEF UnseenYet, Outgoing, OnItsWay
      <3> QED BY <1>8, <3>1, <3>2, <3>3
    <2> QED BY <2>1, <2>2 DEF UnseenYet, Outgoing, OnItsWay
  <1>16. HooksOnce'
    BY <1>5, <1>10, <1>15 DEF HooksOnce
  <1>17. ASSUME NEW x \in Endpoints \X Events
         PROVE  Cardinality(AckedIds(delivery, sender', messages, x)) <= acted[x]
    <2> DEFINE before == AckedIds(delivery, sender, messages, x)
               now_ == AckedIds(delivery, sender', messages, x)
    <2>1. \A j \in now_ : j \in before \/ (j = i /\ x = x0)
      <3> SUFFICES ASSUME NEW j \in now_, j \notin before PROVE j = i /\ x = x0
        OBVIOUS
      <3>1. j \in 1 .. messages /\ Acked(delivery, sender', x, j) /\ ~Acked(delivery, sender, x, j)
        BY DEF AckedIds
      <3>2. PICK v \in Senders : sender'[v].webhookId = j /\ AckedInHand(sender'[v], x)
        BY <3>1 DEF Acked
      <3>3. v = w
        BY <1>3, <3>1, <3>2 DEF Acked, OneMoves
      <3>4. sender'[w] = to
        BY <1>3 DEF OneMoves
      <3> QED BY <1>13, <3>2, <3>3, <3>4 DEF AckedInHand
    <2>2. IsFiniteSet(before) /\ Cardinality(before) \in Nat /\ Cardinality(now_) \in Nat
      BY <1>1, AckedIdsFinite
    <2>3. Cardinality(before) <= processed[x] /\ processed[x] \in Nat
      BY <1>5 DEF Counted
    <2> HIDE DEF before, now_
    <2>4. CASE x # x0
      <3>1. now_ \in SUBSET before
        BY <2>1, <2>4
      <3>2. Cardinality(now_) <= Cardinality(before)
        BY <2>2, <3>1, FS_Subset
      <3>3. Cardinality(now_) <= acted[x]
        BY <1>12, <2>2, <2>3, <2>4, <3>2
      <3> QED BY <3>3 DEF now_
    <2>5. CASE x = x0
      <3> DEFINE wider == before \cup {i}
      <3>1. IsFiniteSet(wider) /\ Cardinality(wider) \in Nat
        BY <2>2, FS_AddElement, FS_CardinalityType
      <3>2. Cardinality(wider) <= Cardinality(before) + 1
        <4>1. IsFiniteSet(before)
          BY <2>2
        <4>2. Cardinality(wider) = IF i \in before THEN Cardinality(before)
                                   ELSE Cardinality(before) + 1
          BY <4>1, FS_AddElement
        <4> HIDE DEF wider
        <4> QED BY <2>2, <3>1, <4>2
      <3>3. now_ \in SUBSET wider
        BY <2>1
      <3> HIDE DEF wider
      <3>4. Cardinality(now_) <= Cardinality(wider)
        BY <3>1, <3>3, FS_Subset
      <3>5. acted[x] = processed[x] + 1
        BY <1>12, <2>5
      <3>6. Cardinality(now_) <= acted[x]
        BY <2>2, <2>3, <3>1, <3>2, <3>4, <3>5
      <3> QED BY <3>6 DEF now_
    <2> QED BY <2>4, <2>5
  <1>18. Counted(delivery, sender', messages, acted)
    BY <1>12, <1>17 DEF Counted
  <1>19. HooksCounted'
    BY <1>14, <1>18 DEF HooksCounted
  <1> QED BY <1>4, <1>16, <1>19 DEF HooksInv

(***************************************************************************)
(* One action at a time.                                                   *)
(***************************************************************************)

LEMMA EndpointWritten ==
    ASSUME NEW ends, EndpointsFit(ends), NEW e \in Endpoints, NEW row \in WebhookEndpoint,
           Secrets(row.signingSecrets),
           ends[e] # Unset => row.merchantId = ends[e].merchantId,
           NEW after, Rewritten(ends, after, e, row)
    PROVE  EndpointsFit(after) /\ EndpointsStay(ends, after)
  <1>1. row # Unset
    BY UnsetAssumption
  <1>2. \A f \in Endpoints : after[f] = IF f = e THEN row ELSE ends[f]
    BY DEF Rewritten, EndpointsFit
  <1>3. after \in [Endpoints -> {Unset} \cup WebhookEndpoint]
    BY DEF Rewritten, EndpointsFit
  <1>4. EndpointsFit(after)
    BY <1>2, <1>3 DEF EndpointsFit
  <1> QED BY <1>1, <1>2, <1>4 DEF EndpointsStay

LEMMA RegisterKeeps ==
    ASSUME HooksInv, NEW m \in HookMerchants, NEW e \in Endpoints, RegisterEndpoint(m, e)
    PROVE  HooksInv'
  <1> DEFINE row == [merchantId |-> m, signingSecrets |-> <<secrets + 1>>, status |-> "active"]
  <1>1. secrets + 1 \in Nat
    BY DEF HooksInv, HooksTyped
  <1>2. row \in WebhookEndpoint /\ Secrets(row.signingSecrets)
    BY <1>1 DEF WebhookEndpoint, Secrets
  <1>3. Rewritten(endpoint, endpoint', e, row)
    BY DEF RegisterEndpoint, Rewritten
  <1>4. endpoint[e] = Unset /\ secrets' \in Nat
        /\ UNCHANGED <<delivery, sender, messages, seen, processed>>
    BY <1>1 DEF RegisterEndpoint
  <1> HIDE DEF row
  <1>5. EndpointsFit(endpoint') /\ EndpointsStay(endpoint, endpoint')
    BY <1>2, <1>3, <1>4, EndpointWritten DEF HooksInv, HooksTyped
  <1> QED BY <1>4, <1>5, EndpointsMove

LEMMA LabelKeeps ==
    ASSUME HooksInv, NEW e \in Endpoints, endpoint[e] # Unset,
           NEW label \in {"active", "degraded", "disabled"},
           Rewritten(endpoint, endpoint', e, [endpoint[e] EXCEPT !.status = label]),
           UNCHANGED <<delivery, sender, messages, secrets, seen, processed>>
    PROVE  HooksInv'
  <1> DEFINE row == [endpoint[e] EXCEPT !.status = label]
  <1>1. endpoint[e] \in WebhookEndpoint /\ Secrets(endpoint[e].signingSecrets)
        /\ secrets \in Nat
    BY DEF HooksInv, HooksTyped, EndpointsFit
  <1>2. row \in WebhookEndpoint /\ row.signingSecrets = endpoint[e].signingSecrets
        /\ row.merchantId = endpoint[e].merchantId
    BY <1>1 DEF WebhookEndpoint
  <1>3. Rewritten(endpoint, endpoint', e, row)
    OBVIOUS
  <1> HIDE DEF row
  <1>4. EndpointsFit(endpoint') /\ EndpointsStay(endpoint, endpoint')
    BY <1>1, <1>2, <1>3, EndpointWritten DEF HooksInv, HooksTyped
  <1> QED BY <1>1, <1>4, EndpointsMove

LEMMA NotesKeep ==
    ASSUME HooksInv, NEW e \in Endpoints, NEW age \in FailureAges,
           NoteEndpointFailure(e, age) \/ NoteEndpointSuccess(e)
    PROVE  HooksInv'
  <1>1. PICK label \in {"active", "degraded", "disabled"} :
            Rewritten(endpoint, endpoint', e, [endpoint[e] EXCEPT !.status = label])
    <2>1. CASE NoteEndpointFailure(e, age)
      <3>1. CASE age >= DISABLE_AFTER
        BY <2>1, <3>1 DEF NoteEndpointFailure, Rewritten
      <3>2. CASE ~(age >= DISABLE_AFTER)
        BY <2>1, <3>2 DEF NoteEndpointFailure, Rewritten
      <3> QED BY <3>1, <3>2
    <2>2. CASE NoteEndpointSuccess(e)
      BY <2>2 DEF NoteEndpointSuccess, Rewritten
    <2> QED BY <2>1, <2>2
  <1>2. endpoint[e] # Unset
        /\ UNCHANGED <<delivery, sender, messages, secrets, seen, processed>>
    BY DEF NoteEndpointFailure, NoteEndpointSuccess
  <1> QED BY <1>1, <1>2, LabelKeeps

LEMMA FanoutKeeps ==
    ASSUME HooksInv, NEW w \in Senders, NEW m \in HookMerchants, NEW event \in Events,
           Fanout(w, m, event)
    PROVE  HooksInv'
  <1> DEFINE queue == {[id |-> e, row |-> endpoint[e]] : e \in EndpointsFor(m)}
             to == [stage |-> "fanout", event |-> event, queue |-> queue]
  <1>1. \A t \in queue : OwnedBy(endpoint, t.id, t.row.merchantId)
    BY DEF EndpointsFor, OwnedBy
  <1>2. Sets(w, to) /\ UNCHANGED <<endpoint, delivery, messages, secrets, seen, processed>>
    BY DEF Fanout
  <1> HIDE DEF queue
  <1>3. SenderFits(endpoint, messages, to)
    BY <1>1 DEF SenderFits, Outgoing, OnItsWay
  <1>4. KeepsId(sender[w], to) /\ KeepsAcks(sender[w], to)
    BY DEF KeepsId, KeepsAcks, OnItsWay, AckedInHand, Outgoing
  <1> HIDE DEF to
  <1> QED BY <1>2, <1>3, <1>4, SenderMoves

LEMMA WaitingFits ==
    ASSUME NEW ends, NEW drawn, NEW h
    PROVE  SenderFits(ends, drawn, Waiting) /\ KeepsId(h, Waiting) /\ KeepsAcks(h, Waiting)
  BY DEF Waiting, SenderFits, KeepsId, KeepsAcks, OnItsWay, AckedInHand, Outgoing

LEMMA SendersMade ==
    ASSUME HooksInv, NEW w \in Senders PROVE SenderFits(endpoint, messages, sender[w])
  BY DEF HooksInv, HooksTyped, SendersFit

LEMMA DeliverKeeps ==
    ASSUME HooksInv, NEW w \in Senders, NEW target \in sender[w].queue, Deliver(w, target)
    PROVE  HooksInv'
  <1> DEFINE held == sender[w]
             left == held.queue \ {target}
  <1>1. held.stage = "fanout" /\ SenderFits(endpoint, messages, held)
    BY SendersMade DEF Deliver
  <1>2. /\ DOMAIN held = {"stage", "event", "queue"} /\ held.event \in Events
        /\ \A t \in left : OwnedBy(endpoint, t.id, t.row.merchantId)
        /\ OwnedBy(endpoint, target.id, target.row.merchantId)
    BY <1>1 DEF SenderFits, Outgoing, OnItsWay
  <1>3. UNCHANGED <<endpoint, delivery, secrets, seen, processed>>
    BY DEF Deliver
  <1>4. CASE target.row.status = "disabled"
    <2> DEFINE to == IF left = {} THEN Waiting ELSE [held EXCEPT !.queue = left]
    <2>1. Sets(w, to) /\ messages' = messages
      BY <1>4 DEF Deliver
    <2>2. SenderFits(endpoint, messages, to) /\ KeepsId(held, to) /\ KeepsAcks(held, to)
      <3>1. CASE left = {}
        BY <3>1, WaitingFits
      <3>2. CASE left # {}
        <4> DEFINE next == [held EXCEPT !.queue = left]
        <4>1. DOMAIN next = {"stage", "event", "queue"} /\ next.stage = "fanout"
              /\ next.event = held.event /\ next.queue = left
          BY <1>1, <1>2
        <4> HIDE DEF next, left
        <4>2. SenderFits(endpoint, messages, next)
          BY <1>2, <4>1 DEF SenderFits, Outgoing, OnItsWay
        <4>3. KeepsId(held, next) /\ KeepsAcks(held, next)
          BY <4>1 DEF KeepsId, KeepsAcks, OnItsWay, AckedInHand, Outgoing
        <4>4. to = next
          BY <3>2 DEF next
        <4> HIDE DEF to
        <4> QED BY <4>2, <4>3, <4>4
      <3> QED BY <3>1, <3>2
    <2> HIDE DEF to
    <2> QED BY <1>3, <2>1, <2>2, SenderMoves
  <1>5. CASE target.row.status # "disabled"
    <2> DEFINE to == Post(held.event, left, target.id, target.row,
                          target.row.merchantId, messages + 1, held.event, Unset)
    <2>1. Sets(w, to) /\ messages' = messages + 1
      BY <1>5 DEF Deliver
    <2>2. messages + 1 \in 1 .. (messages + 1)
      BY DEF HooksInv, HooksTyped
    <2> HIDE DEF left
    <2>3. SenderFits(endpoint, messages + 1, to)
      BY <1>2, <2>2 DEF SenderFits, PostFields, Post, Outgoing, OnItsWay
    <2>4. to.stage = "post" /\ to.webhookId = messages + 1
      BY DEF Post
    <2> HIDE DEF to
    <2> QED BY <1>3, <2>1, <2>3, <2>4, FreshPost
  <1> QED BY <1>4, <1>5

LEMMA ReplayKeeps ==
    ASSUME HooksInv, NEW w \in Senders, NEW m \in HookMerchants, NEW d \in DOMAIN delivery,
           Replay(w, m, d)
    PROVE  HooksInv'
  <1> DEFINE original == delivery[d]
             to == Post(original.event, {}, original.endpointId,
                        endpoint[original.endpointId], original.merchantId,
                        ReplayId(original), original.requestBody, d)
  <1>1. Sets(w, to) /\ messages' = messages + 1
        /\ UNCHANGED <<endpoint, delivery, secrets, seen, processed>>
    BY DEF Replay
  <1>2. RowFitsLog(endpoint, messages, original) /\ d \in Nat /\ messages \in Nat
    BY DEF HooksInv, HooksTyped, LogFits
  <1>3. original.event \in Events /\ original.requestBody \in Events
        /\ OwnedBy(endpoint, original.endpointId, original.merchantId)
    BY <1>2 DEF RowFitsLog, WebhookDelivery
  <1>4. to.stage = "post" /\ to.webhookId = messages + 1
        /\ messages + 1 \in 1 .. (messages + 1)
    BY <1>2 DEF ReplayId, Post
  <1> HIDE DEF original
  <1>5. SenderFits(endpoint, messages + 1, to)
    BY <1>2, <1>3, <1>4 DEF SenderFits, PostFields, Post, Outgoing, OnItsWay
  <1> HIDE DEF to
  <1> QED BY <1>1, <1>4, <1>5, FreshPost

\* What a sender holds once its post is over.
After(h, v) == [h EXCEPT !.stage = "row", !.status = v]

LEMMA Answered ==
    ASSUME NEW ends, NEW drawn, NEW h, h.stage = "connect", SenderFits(ends, drawn, h),
           NEW v \in Nat \cup {Unset}
    PROVE  /\ SenderFits(ends, drawn, After(h, v)) /\ KeepsId(h, After(h, v))
           /\ After(h, v).stage = "row" /\ After(h, v).status = v
           /\ After(h, v).webhookId = h.webhookId /\ After(h, v).body = h.body
           /\ After(h, v).endpointId = h.endpointId
  <1> DEFINE to == After(h, v)
  <1>1. DOMAIN h = PostFields
    BY DEF SenderFits, Outgoing, OnItsWay
  <1>2. to.stage = "row" /\ to.status = v /\ to.webhookId = h.webhookId /\ to.body = h.body
        /\ to.endpointId = h.endpointId /\ to.event = h.event /\ to.queue = h.queue
        /\ to.merchantId = h.merchantId /\ to.replayOf = h.replayOf
        /\ to.addresses = h.addresses
    BY <1>1 DEF PostFields, After
  <1> HIDE DEF to
  <1>3. SenderFits(ends, drawn, to)
    BY <1>2 DEF SenderFits, Outgoing, OnItsWay
  <1>4. KeepsId(h, to)
    BY <1>2 DEF KeepsId, OnItsWay, Outgoing
  <1> QED BY <1>2, <1>3, <1>4 DEF to

LEMMA GuardKeeps ==
    ASSUME HooksInv, NEW w \in Senders, Guard(w) PROVE HooksInv'
  <1> DEFINE held == sender[w]
             found == host[held.endpointId]
             to == [held EXCEPT !.stage = "connect", !.addresses = found]
  <1>1. Sets(w, to) /\ UNCHANGED <<endpoint, delivery, messages, secrets, seen, processed>>
        /\ held.stage = "post" /\ AssertDeliverable(found)
    BY DEF Guard
  <1>2. SenderFits(endpoint, messages, held)
    BY SendersMade
  <1>3. DOMAIN held = PostFields /\ held.status = Unset
    BY <1>1, <1>2 DEF SenderFits, Outgoing
  <1> HIDE DEF found
  <1>4. to.stage = "connect" /\ to.status = Unset /\ to.webhookId = held.webhookId
        /\ to.body = held.body /\ to.endpointId = held.endpointId /\ to.event = held.event
        /\ to.queue = held.queue /\ to.merchantId = held.merchantId
        /\ to.replayOf = held.replayOf /\ to.addresses = found /\ DOMAIN to = PostFields
    BY <1>3 DEF PostFields
  <1> HIDE DEF to
  <1>5. SenderFits(endpoint, messages, to) /\ KeepsId(held, to)
    BY <1>1, <1>2, <1>4 DEF SenderFits, KeepsId, OnItsWay, Outgoing
  <1>6. KeepsAcks(held, to)
    BY <1>4 DEF KeepsAcks, AckedInHand
  <1> QED BY <1>1, <1>5, <1>6, SenderMoves

LEMMA NotReceivedKeeps ==
    ASSUME HooksInv, NEW w \in Senders, NotReceived(w) PROVE HooksInv'
  <1> DEFINE held == sender[w]
             to == [held EXCEPT !.stage = "row"]
  <1>1. Sets(w, to) /\ UNCHANGED <<endpoint, delivery, messages, secrets, seen, processed>>
        /\ Outgoing(held)
    BY DEF NotReceived, Outgoing
  <1>2. SenderFits(endpoint, messages, held)
    BY SendersMade
  <1>3. DOMAIN held = PostFields /\ held.status = Unset
    BY <1>1, <1>2 DEF SenderFits, Outgoing, OnItsWay
  <1>4. to.stage = "row" /\ to.status = Unset /\ to.webhookId = held.webhookId
        /\ to.body = held.body /\ to.endpointId = held.endpointId /\ to.event = held.event
        /\ to.queue = held.queue /\ to.merchantId = held.merchantId
        /\ to.replayOf = held.replayOf
    BY <1>3 DEF PostFields
  <1> HIDE DEF to
  <1>5. SenderFits(endpoint, messages, to) /\ KeepsId(held, to)
    BY <1>1, <1>2, <1>4 DEF SenderFits, KeepsId, OnItsWay, Outgoing
  <1>6. KeepsAcks(held, to)
    BY <1>4 DEF KeepsAcks, AckedInHand, Successful
  <1> QED BY <1>1, <1>5, <1>6, SenderMoves

LEMMA ReceivedKeeps ==
    ASSUME HooksInv, NEW w \in Senders, NEW delay \in Delays, NEW status_ \in {200, 302, 500},
           Received(w, delay, status_)
    PROVE  HooksInv'
  <1> DEFINE held == sender[w]
             verified == VerifySignature(installed[held.endpointId],
                                         Message(held.row, held.webhookId, held.body), delay)
             name == <<held.endpointId, held.webhookId>>
             acts == verified /\ status_ = 200 /\ name \notin seen
  <1>1. PICK answer \in {Unset, status_} :
            Sets(w, After(held, IF answer # Unset /\ AssertNotRedirected(answer)
                                THEN answer ELSE Unset))
    BY DEF Received, After
  <1> DEFINE v == IF answer # Unset /\ AssertNotRedirected(answer) THEN answer ELSE Unset
             to == After(held, v)
  <1>2. held.stage = "connect" /\ UNCHANGED <<endpoint, delivery, messages, secrets>>
    BY DEF Received
  <1>3. v \in Nat \cup {Unset} /\ (Successful(v) => status_ = 200)
    BY DEF Successful
  <1>4. verified \/ status_ # 200
    BY DEF Received
  <1>5. Sets(w, to)
    BY <1>1
  <1>6. acts => /\ seen' = seen \cup {name}
                /\ processed' = [processed EXCEPT ![<<held.endpointId, held.body>>] = @ + 1]
    BY DEF Received
  <1>7. ~acts => seen' = seen /\ processed' = processed
    BY DEF Received
  <1> HIDE DEF v
  <1>8. SenderFits(endpoint, messages, held)
    BY SendersMade
  <1>9. /\ SenderFits(endpoint, messages, to) /\ KeepsId(held, to) /\ to.stage = "row"
        /\ to.status = v /\ to.webhookId = held.webhookId /\ to.body = held.body
        /\ to.endpointId = held.endpointId
    BY <1>2, <1>3, <1>8, Answered
  <1>10. name \notin seen
    BY <1>2 DEF HooksInv, HooksOnce, UnseenYet, Outgoing, OnItsWay
  <1> HIDE DEF to, verified
  <1>11. CASE acts
    BY <1>2, <1>5, <1>6, <1>9, <1>11, ReceiverActs
  <1>12. CASE ~acts
    <2>1. ~Successful(to.status)
      BY <1>3, <1>4, <1>9, <1>10, <1>12
    <2>2. KeepsAcks(held, to)
      BY <2>1 DEF KeepsAcks, AckedInHand
    <2>3. UNCHANGED <<endpoint, delivery, messages, secrets, seen, processed>>
      BY <1>2, <1>7, <1>12
    <2> QED BY <1>5, <1>9, <2>2, <2>3, SenderMoves
  <1> QED BY <1>11, <1>12

\* The row of a delivery takes over the id its sender lays down.
LEMMA RowWritten ==
    ASSUME HooksInv, NEW w \in Senders, NEW row, NEW to,
           RowFitsLog(endpoint, messages, row), OnItsWay(sender[w]),
           row.webhookId = sender[w].webhookId,
           \A x : AckedRow(row, x) => AckedInHand(sender[w], x),
           SenderFits(endpoint, messages, to), ~OnItsWay(to), Sets(w, to),
           delivery' = Append(delivery, row),
           UNCHANGED <<endpoint, messages, secrets, seen, processed>>
    PROVE  HooksInv'
  <1> DEFINE longer == delivery'
             last == Len(delivery) + 1
  <1>1. messages \in Nat /\ messages <= messages /\ EndpointsStay(endpoint, endpoint)
    BY EndpointsRemain DEF HooksInv, HooksTyped
  <1>2. SendersFit(endpoint, messages, sender) /\ LogFits(endpoint, messages, delivery)
    BY DEF HooksInv, HooksTyped
  <1>3. SendersFit(endpoint, messages, sender') /\ OneMoves(sender, sender', w, to)
    <2>1. Rewritten(sender, sender', w, to)
      BY DEF Sets, Rewritten
    <2> QED BY <1>1, <1>2, <2>1, SendersMove
  <1>4. row \in WebhookDelivery /\ delivery \in Seq(WebhookDelivery)
    BY <1>2 DEF LogFits, RowFitsLog
  <1>5. /\ longer \in Seq(WebhookDelivery) /\ last \notin DOMAIN delivery
        /\ \A d : d \in DOMAIN longer <=> d \in DOMAIN delivery \/ d = last
        /\ longer[last] = row /\ \A d \in DOMAIN delivery : longer[d] = delivery[d]
    BY <1>4
  <1>6. /\ OnceInHand(sender, delivery) /\ OnceInLog(delivery)
        /\ UnseenYet(sender, seen, messages) /\ Counted(delivery, sender, messages, processed)
    BY DEF HooksInv, HooksOnce, HooksCounted
  <1>7. UNCHANGED <<endpoint, messages, secrets, seen, processed>> /\ delivery' = longer
    OBVIOUS
  <1> HIDE DEF longer, last
  <1>8. LogFits(endpoint, messages, longer)
    BY <1>2, <1>5 DEF LogFits
  <1>9. HooksTyped'
    BY <1>3, <1>7, <1>8 DEF HooksInv, HooksTyped
  <1>10. \A d \in DOMAIN delivery : delivery[d].webhookId # row.webhookId
    BY <1>6 DEF OnceInHand
  <1>11. OnceInLog(longer)
    BY <1>5, <1>6, <1>10 DEF OnceInLog
  <1>12. OnceInHand(sender', longer)
    <2>1. ASSUME NEW v \in Senders, OnItsWay(sender'[v])
          PROVE  v # w /\ sender'[v] = sender[v] /\ OnItsWay(sender[v])
      BY <1>3, <2>1 DEF OneMoves
    <2>2. ASSUME NEW v \in Senders, OnItsWay(sender'[v]), NEW d \in DOMAIN longer
          PROVE  longer[d].webhookId # sender'[v].webhookId
      <3>1. v # w /\ sender'[v] = sender[v] /\ OnItsWay(sender[v])
        BY <2>1, <2>2
      <3>2. row.webhookId # sender[v].webhookId
        BY <1>6, <3>1 DEF OnceInHand
      <3>3. d \in DOMAIN delivery => delivery[d].webhookId # sender[v].webhookId
        BY <1>6, <3>1 DEF OnceInHand
      <3> QED BY <1>5, <3>1, <3>2, <3>3
    <2> QED BY <1>6, <2>1, <2>2 DEF OnceInHand
  <1>13. UnseenYet(sender', seen, messages)
    BY <1>3, <1>6 DEF UnseenYet, OneMoves, OnItsWay, Outgoing
  <1>14. HooksOnce'
    BY <1>7, <1>11, <1>12, <1>13 DEF HooksOnce
  <1>15. ASSUME NEW x \in Endpoints \X Events, NEW i \in 1 .. messages,
                Acked(longer, sender', x, i)
         PROVE  i \in 1 .. messages /\ Acked(delivery, sender, x, i)
    <2>1. CASE \E d \in DOMAIN longer : longer[d].webhookId = i /\ AckedRow(longer[d], x)
      BY <1>5, <2>1 DEF Acked
    <2>2. CASE \E v \in Senders : sender'[v].webhookId = i /\ AckedInHand(sender'[v], x)
      <3>1. PICK v \in Senders : sender'[v].webhookId = i /\ AckedInHand(sender'[v], x)
        BY <2>2
      <3>2. v # w /\ sender'[v] = sender[v]
        BY <1>3, <3>1 DEF OneMoves, AckedInHand, OnItsWay
      <3> QED BY <3>1, <3>2 DEF Acked
    <2> QED BY <1>15, <2>1, <2>2 DEF Acked
  <1>16. Counted(longer, sender', messages, processed)
    BY <1>1, <1>6, <1>15, CountedStays
  <1>17. HooksCounted'
    BY <1>7, <1>16 DEF HooksCounted
  <1> QED BY <1>9, <1>14, <1>17 DEF HooksInv

LEMMA InsertKeeps ==
    ASSUME HooksInv, NEW w \in Senders, InsertDelivery(w) PROVE HooksInv'
  <1> DEFINE held == sender[w]
             retry == IF Successful(held.status) \/ held.replayOf # Unset THEN {}
                      ELSE NextAttempt(1)
             row == [merchantId |-> held.merchantId, endpointId |-> held.endpointId,
                     event |-> held.event, webhookId |-> held.webhookId, attempt |-> 0,
                     requestBody |-> held.body, responseStatus |-> held.status,
                     retry |-> retry, replayOf |-> held.replayOf]
             goesOn == [stage |-> "fanout", event |-> held.event, queue |-> held.queue]
             to == IF held.queue = {} THEN Waiting ELSE goesOn
  <1>1. Sets(w, to) /\ delivery' = Append(delivery, row) /\ held.stage = "row"
        /\ UNCHANGED <<endpoint, messages, secrets, seen, processed>>
    BY DEF InsertDelivery
  <1>2. SenderFits(endpoint, messages, held) /\ messages \in Nat
    BY SendersMade DEF HooksInv, HooksTyped
  <1>3. retry \subseteq 1 .. MAX_ATTEMPTS
    BY HooksAssumption DEF NextAttempt
  <1> HIDE DEF retry
  <1>4. RowFitsLog(endpoint, messages, row)
    BY <1>1, <1>2, <1>3 DEF RowFitsLog, SenderFits, OwnedBy, WebhookDelivery, Outgoing, OnItsWay
  <1>5. row.webhookId = held.webhookId /\ OnItsWay(held)
    BY <1>1 DEF OnItsWay
  <1>6. \A x : AckedRow(row, x) => AckedInHand(held, x)
    BY <1>1 DEF AckedRow, AckedInHand
  <1>7. SenderFits(endpoint, messages, goesOn) /\ ~OnItsWay(goesOn)
    BY <1>1, <1>2 DEF SenderFits, OnItsWay, Outgoing
  <1>8. SenderFits(endpoint, messages, Waiting) /\ ~OnItsWay(Waiting)
    BY WaitingFits DEF Waiting, OnItsWay
  <1> HIDE DEF row, goesOn
  <1>9. SenderFits(endpoint, messages, to) /\ ~OnItsWay(to)
    BY <1>7, <1>8
  <1> HIDE DEF to
  <1> QED BY <1>1, <1>4, <1>5, <1>6, <1>9, RowWritten

LEMMA RotateKeeps ==
    ASSUME HooksInv, NEW w \in Senders, NEW e \in Endpoints, RotateSecretRead(w, e)
    PROVE  HooksInv'
  <1> DEFINE to == [stage |-> "rotate", endpointId |-> e, held |-> endpoint[e].signingSecrets]
  <1>1. Sets(w, to) /\ UNCHANGED <<endpoint, delivery, messages, secrets, seen, processed>>
        /\ endpoint[e] # Unset
    BY DEF RotateSecretRead
  <1>2. Secrets(endpoint[e].signingSecrets)
    BY <1>1 DEF HooksInv, HooksTyped, EndpointsFit
  <1>3. SenderFits(endpoint, messages, to)
    BY <1>1, <1>2 DEF SenderFits, Outgoing, OnItsWay
  <1>4. KeepsId(sender[w], to) /\ KeepsAcks(sender[w], to)
    BY DEF KeepsId, KeepsAcks, OnItsWay, AckedInHand, Outgoing
  <1> HIDE DEF to
  <1> QED BY <1>1, <1>3, <1>4, SenderMoves

\* Whatever was read, one or two secrets are written back.
LEMMA NewestTwo ==
    ASSUME NEW given, Secrets(given), NEW n \in Nat
    PROVE  LET newest == <<n>> \o given
           IN  Secrets(IF Len(newest) > 2 THEN SubSeq(newest, 1, 2) ELSE newest)
  <1> DEFINE newest == <<n>> \o given
  <1>1. newest \in Seq(Nat) /\ Len(newest) = Len(given) + 1 /\ Len(given) \in {1, 2}
    BY DEF Secrets
  <1> HIDE DEF newest
  <1>2. CASE Len(newest) > 2
    <2>1. SubSeq(newest, 1, 2) \in Seq(Nat) /\ Len(SubSeq(newest, 1, 2)) = 2
      BY <1>1, <1>2
    <2> QED BY <1>2, <2>1 DEF Secrets, newest
  <1>3. CASE ~(Len(newest) > 2)
    <2>1. Len(newest) \in {1, 2}
      BY <1>1, <1>3
    <2> QED BY <1>1, <1>3, <2>1 DEF Secrets, newest
  <1> QED BY <1>2, <1>3

LEMMA RotateWriteKeeps ==
    ASSUME HooksInv, NEW w \in Senders, RotateSecretWrite(w) PROVE HooksInv'
  <1> DEFINE e == sender[w].endpointId
             newest == <<secrets + 1>> \o sender[w].held
             two == IF Len(newest) > 2 THEN SubSeq(newest, 1, 2) ELSE newest
             row == [endpoint[e] EXCEPT !.signingSecrets = two]
  <1>1. /\ sender[w].stage = "rotate" /\ Sets(w, Waiting) /\ secrets' = secrets + 1
        /\ UNCHANGED <<delivery, messages, seen, processed>>
        /\ Rewritten(endpoint, endpoint', e, row)
    BY DEF RotateSecretWrite, Rewritten
  <1>2. e \in Endpoints /\ endpoint[e] # Unset /\ Secrets(sender[w].held)
    BY <1>1, SendersMade DEF SenderFits, Outgoing, OnItsWay
  <1>3. secrets + 1 \in Nat /\ EndpointsFit(endpoint)
    BY DEF HooksInv, HooksTyped
  <1>4. Secrets(two)
    BY <1>2, <1>3, NewestTwo
  <1>5. endpoint[e] \in WebhookEndpoint
    BY <1>2, <1>3 DEF EndpointsFit
  <1> HIDE DEF two, e
  <1>6. row \in WebhookEndpoint /\ row.signingSecrets = two
        /\ row.merchantId = endpoint[e].merchantId
    BY <1>4, <1>5 DEF WebhookEndpoint, Secrets
  <1> HIDE DEF row
  <1>7. EndpointsFit(endpoint') /\ EndpointsStay(endpoint, endpoint')
    BY <1>1, <1>2, <1>3, <1>4, <1>6, EndpointWritten
  <1>8. SenderFits(endpoint', messages, Waiting) /\ KeepsId(sender[w], Waiting)
        /\ KeepsAcks(sender[w], Waiting)
    BY WaitingFits
  <1>9. secrets' \in Nat
    BY <1>1, <1>3
  <1> QED BY <1>1, <1>7, <1>8, <1>9, SenderGoesOn

\* A process that dies forgets what it had posted: no row tells of it.
LEMMA CrashKeeps == ASSUME HooksInv, HooksCrash PROVE HooksInv'
  <1>1. UNCHANGED <<endpoint, delivery, messages, secrets, seen, processed>>
        /\ sender' = [w \in Senders |-> Waiting]
    BY DEF HooksCrash
  <1>2. \A w \in Senders : sender'[w] = Waiting
    BY <1>1
  <1>3. SendersFit(endpoint, messages, sender')
    BY <1>1, <1>2, WaitingFits DEF SendersFit
  <1>4. HooksTyped'
    BY <1>1, <1>3 DEF HooksInv, HooksTyped
  <1>5. HooksOnce'
    BY <1>1, <1>2 DEF HooksInv, HooksOnce, OnceInHand, UnseenYet, OnItsWay, Waiting, Outgoing
  <1>6. ASSUME NEW x \in Endpoints \X Events, NEW i \in 1 .. messages,
               Acked(delivery, sender', x, i)
        PROVE  i \in 1 .. messages /\ Acked(delivery, sender, x, i)
    BY <1>2, <1>6 DEF Acked, AckedInHand, Waiting
  <1>7. Counted(delivery, sender', messages, processed)
    BY <1>6, CountedStays DEF HooksInv, HooksTyped, HooksCounted
  <1>8. HooksCounted'
    BY <1>1, <1>7 DEF HooksCounted
  <1> QED BY <1>4, <1>5, <1>8 DEF HooksInv

LEMMA OutsideKeeps ==
    ASSUME HooksInv, UNCHANGED <<endpoint, delivery, sender, messages, secrets, seen, processed>>
    PROVE  HooksInv'
  BY DEF HooksInv, HooksTyped, HooksOnce, HooksCounted

LEMMA HooksInvInit == HooksInit => HooksInv
  <1> SUFFICES ASSUME HooksInit PROVE HooksInv
    OBVIOUS
  <1>1. \A w \in Senders : sender[w] = Waiting
    BY DEF HooksInit
  <1>2. EndpointsFit(endpoint)
    BY DEF HooksInit, EndpointsFit
  <1>3. SendersFit(endpoint, messages, sender)
    BY <1>1, WaitingFits DEF HooksInit, SendersFit
  <1>4. LogFits(endpoint, messages, delivery)
    BY DEF HooksInit, LogFits
  <1>5. HooksTyped
    BY <1>2, <1>3, <1>4 DEF HooksInit, HooksTyped
  <1>6. HooksOnce
    BY <1>1 DEF HooksInit, HooksOnce, OnceInHand, OnceInLog, UnseenYet, OnItsWay, Waiting, Outgoing
  <1>7. processed \in [Endpoints \X Events -> Nat]
    BY DEF HooksInit
  <1>8. ASSUME NEW x \in Endpoints \X Events
        PROVE  Cardinality(AckedIds(delivery, sender, messages, x)) <= processed[x]
    <2>1. AckedIds(delivery, sender, messages, x) = {}
      BY <1>1 DEF HooksInit, AckedIds
    <2>2. processed[x] = 0
      BY DEF HooksInit
    <2>3. Cardinality({}) = 0
      BY FS_EmptySet
    <2> QED BY <2>1, <2>2, <2>3
  <1>9. HooksCounted
    BY <1>7, <1>8 DEF HooksCounted, Counted
  <1> QED BY <1>5, <1>6, <1>9 DEF HooksInv

LEMMA HooksInvStep == HooksInv /\ [HooksNext]_hooksVars => HooksInv'
  <1>1. ASSUME HooksInv, HooksNext PROVE HooksInv'
    <2>1. ASSUME NEW m \in HookMerchants, NEW e \in Endpoints, RegisterEndpoint(m, e)
          PROVE  HooksInv'
      BY <1>1, <2>1, RegisterKeeps
    <2>2. ASSUME NEW w \in Senders, NEW m \in HookMerchants,
                 \/ \E event \in Events : Fanout(w, m, event)
                 \/ \E d \in DOMAIN delivery : Replay(w, m, d)
          PROVE  HooksInv'
      BY <1>1, <2>2, FanoutKeeps, ReplayKeeps
    <2>3. ASSUME NEW w \in Senders,
                 \/ \E t \in sender[w].queue : Deliver(w, t)
                 \/ \E delay \in Delays, status_ \in {200, 302, 500} : Received(w, delay, status_)
          PROVE  HooksInv'
      BY <1>1, <2>3, DeliverKeeps, ReceivedKeeps
    <2>4. ASSUME NEW w \in Senders,
                 Guard(w) \/ NotReceived(w) \/ InsertDelivery(w) \/ RotateSecretWrite(w)
          PROVE  HooksInv'
      BY <1>1, <2>4, GuardKeeps, NotReceivedKeeps, InsertKeeps, RotateWriteKeeps
    <2>5. ASSUME NEW w \in Senders, NEW e \in Endpoints, RotateSecretRead(w, e)
          PROVE  HooksInv'
      BY <1>1, <2>5, RotateKeeps
    <2>6. ASSUME NEW e \in Endpoints, NEW age \in FailureAges, NoteEndpointFailure(e, age)
          PROVE  HooksInv'
      BY <1>1, <2>6, NotesKeep
    <2>7. ASSUME NEW e \in Endpoints, NoteEndpointSuccess(e) PROVE HooksInv'
      <3>1. Rewritten(endpoint, endpoint', e, [endpoint[e] EXCEPT !.status = "active"])
        BY <2>7 DEF NoteEndpointSuccess, Rewritten
      <3>2. endpoint[e] # Unset
            /\ UNCHANGED <<delivery, sender, messages, secrets, seen, processed>>
        BY <2>7 DEF NoteEndpointSuccess
      <3> QED BY <1>1, <3>1, <3>2, LabelKeeps
    <2>8. ASSUME NEW e \in Endpoints,
                 HostMoves(e) \/ \E n \in 1 .. 2 : ReceiverInstalls(e, n)
          PROVE  HooksInv'
      <3>1. UNCHANGED <<endpoint, delivery, sender, messages, secrets, seen, processed>>
        BY <2>8 DEF HostMoves, ReceiverInstalls
      <3> QED BY <1>1, <3>1, OutsideKeeps
    <2>9. ASSUME HooksCrash PROVE HooksInv'
      BY <1>1, <2>9, CrashKeeps
    <2> QED BY <1>1, <2>1, <2>2, <2>3, <2>4, <2>5, <2>6, <2>7, <2>8, <2>9 DEF HooksNext
  <1>2. ASSUME HooksInv, UNCHANGED hooksVars PROVE HooksInv'
    BY <1>2, OutsideKeeps DEF hooksVars
  <1> QED BY <1>1, <1>2

\* What a sender still owes: the rest of its emission, and the post it has out.
Owes(h, x) ==
    \/ (h.stage = "fanout" \/ OnItsWay(h)) /\ \E t \in h.queue : <<t.id, h.event>> = x
    \/ Outgoing(h) /\ <<h.endpointId, h.body>> = x
Owers(hands, x) == {w \in Senders : Owes(hands[w], x)}

\* Nothing is owed twice by one sender.
OwesOnce(h) ==
    /\ h.stage = "fanout" \/ OnItsWay(h) =>
          \A t \in h.queue : \A u \in h.queue : t.id = u.id => t = u
    /\ OnItsWay(h) => \A t \in h.queue : t.id # h.endpointId

Due_(acted, due, hands, x) == acted[x] + Cardinality(Owers(hands, x)) <= due[x]

HooksAsked ==
    /\ wanted \in [Endpoints \X Events -> Nat]
    /\ \A w \in Senders : OwesOnce(sender[w])
    /\ \A x \in Endpoints \X Events : Due_(processed, wanted, sender, x)

LEMMA OwersFinite ==
    ASSUME NEW hands, NEW x
    PROVE  IsFiniteSet(Owers(hands, x)) /\ Cardinality(Owers(hands, x)) \in Nat
  <1> DEFINE all == Owers(hands, x)
  <1>1. all \in SUBSET Senders
    BY DEF Owers
  <1> HIDE DEF all
  <1>2. IsFiniteSet(all)
    BY <1>1, HooksAssumption, FS_Subset
  <1> QED BY <1>2, FS_CardinalityType DEF all

\* One sender moves on: the debt falls, stays, or grows by the one it takes up.
LEMMA OwersMove ==
    ASSUME NEW hands, NEW after, NEW w \in Senders, NEW to, OneMoves(hands, after, w, to), NEW x
    PROVE  /\ Cardinality(Owers(after, x)) <= Cardinality(Owers(hands, x)) + 1
           /\ (Owes(to, x) => Owes(hands[w], x)) =>
                 Cardinality(Owers(after, x)) <= Cardinality(Owers(hands, x))
           /\ ~Owes(to, x) /\ Owes(hands[w], x) =>
                 Cardinality(Owers(after, x)) + 1 <= Cardinality(Owers(hands, x))
  <1> DEFINE was == Owers(hands, x)
             is == Owers(after, x)
             more == was \cup {w}
             fewer == was \ {w}
  <1>1. IsFiniteSet(was) /\ Cardinality(was) \in Nat /\ IsFiniteSet(is)
        /\ Cardinality(is) \in Nat
    BY OwersFinite
  <1>2. is \subseteq more /\ (~Owes(to, x) => is \subseteq fewer)
        /\ ((Owes(to, x) => Owes(hands[w], x)) => is \subseteq was)
        /\ (Owes(hands[w], x) => w \in was)
    BY DEF Owers, OneMoves
  <1> HIDE DEF was, is
  <1>3. IsFiniteSet(more) /\ Cardinality(more) = IF w \in was THEN Cardinality(was)
                                                 ELSE Cardinality(was) + 1
    BY <1>1, FS_AddElement
  <1>4. IsFiniteSet(fewer) /\ Cardinality(fewer) = IF w \in was THEN Cardinality(was) - 1
                                                   ELSE Cardinality(was)
    BY <1>1, FS_RemoveElement
  <1>5. Cardinality(more) \in Nat /\ Cardinality(fewer) \in Nat
    BY <1>3, <1>4, FS_CardinalityType
  <1> HIDE DEF more, fewer
  <1>6. Cardinality(is) <= Cardinality(more)
    BY <1>2, <1>3, FS_Subset
  <1>7. is \subseteq was => Cardinality(is) <= Cardinality(was)
    BY <1>1, FS_Subset
  <1>8. is \subseteq fewer => Cardinality(is) <= Cardinality(fewer)
    BY <1>4, FS_Subset
  <1>9. Cardinality(is) <= Cardinality(was) + 1
    BY <1>1, <1>3, <1>5, <1>6
  <1>10. ASSUME ~Owes(to, x), Owes(hands[w], x)
         PROVE  Cardinality(is) + 1 <= Cardinality(was)
    <2>1. w \in was /\ Cardinality(is) <= Cardinality(fewer)
      BY <1>2, <1>8, <1>10
    <2> QED BY <1>1, <1>4, <1>5, <2>1
  <1> QED BY <1>2, <1>7, <1>9, <1>10 DEF was, is

LEMMA OwesOnceMoves ==
    ASSUME NEW hands, NEW after, NEW w \in Senders, NEW to, OneMoves(hands, after, w, to),
           OwesOnce(to), \A v \in Senders : OwesOnce(hands[v])
    PROVE  \A v \in Senders : OwesOnce(after[v])
  BY DEF OneMoves

LEMMA SetsMoves ==
    ASSUME HooksInv, NEW w \in Senders, NEW to, Sets(w, to)
    PROVE  OneMoves(sender, sender', w, to)
  <1>1. sender = [v \in Senders |-> sender[v]]
    BY DEF HooksInv, HooksTyped, SendersFit
  <1>2. \A v \in Senders : sender'[v] = IF v = w THEN to ELSE sender[v]
    BY <1>1 DEF Sets
  <1> QED BY <1>2 DEF OneMoves

\* A sender that takes nothing up, and nobody acts.
LEMMA AskedKept ==
    ASSUME HooksInv, HooksAsked, NEW w \in Senders, NEW to, Sets(w, to), OwesOnce(to),
           \A x : Owes(to, x) => Owes(sender[w], x), UNCHANGED <<wanted, processed>>
    PROVE  HooksAsked'
  <1>1. OneMoves(sender, sender', w, to)
    BY SetsMoves
  <1>2. \A v \in Senders : OwesOnce(sender'[v])
    BY <1>1, OwesOnceMoves DEF HooksAsked
  <1>3. ASSUME NEW x \in Endpoints \X Events PROVE Due_(processed, wanted, sender', x)
    <2>1. Due_(processed, wanted, sender, x) /\ processed[x] \in Nat /\ wanted[x] \in Nat
      BY DEF HooksAsked, HooksInv, HooksCounted, Counted
    <2>2. Cardinality(Owers(sender', x)) <= Cardinality(Owers(sender, x))
      BY <1>1, OwersMove
    <2>3. Cardinality(Owers(sender', x)) \in Nat /\ Cardinality(Owers(sender, x)) \in Nat
      BY OwersFinite
    <2> QED BY <2>1, <2>2, <2>3 DEF Due_
  <1> QED BY <1>2, <1>3 DEF HooksAsked

\* A sender takes up what was asked for, once each.
LEMMA AskedMore ==
    ASSUME HooksInv, HooksAsked, NEW w \in Senders, NEW to, Sets(w, to), OwesOnce(to),
           NEW names, AsksFor(names), \A x : Owes(to, x) => x \in names,
           UNCHANGED processed
    PROVE  HooksAsked'
  <1>1. OneMoves(sender, sender', w, to)
    BY SetsMoves
  <1>2. \A v \in Senders : OwesOnce(sender'[v])
    BY <1>1, OwesOnceMoves DEF HooksAsked
  <1>3. /\ wanted' \in [Endpoints \X Events -> Nat]
        /\ \A x \in Endpoints \X Events :
              wanted'[x] = wanted[x] + IF x \in names THEN 1 ELSE 0
    BY DEF AsksFor, HooksAsked
  <1>4. ASSUME NEW x \in Endpoints \X Events PROVE Due_(processed', wanted', sender', x)
    <2>1. Due_(processed, wanted, sender, x) /\ processed[x] \in Nat /\ wanted[x] \in Nat
      BY DEF HooksAsked, HooksInv, HooksCounted, Counted
    <2>2. Cardinality(Owers(sender', x)) \in Nat /\ Cardinality(Owers(sender, x)) \in Nat
      BY OwersFinite
    <2>3. CASE x \in names
      <3>1. Cardinality(Owers(sender', x)) <= Cardinality(Owers(sender, x)) + 1
        BY <1>1, OwersMove
      <3>2. wanted'[x] = wanted[x] + 1
        BY <1>3, <2>3
      <3> QED BY <2>1, <2>2, <3>1, <3>2 DEF Due_
    <2>4. CASE x \notin names
      <3>1. Cardinality(Owers(sender', x)) <= Cardinality(Owers(sender, x))
        BY <1>1, <2>4, OwersMove
      <3>2. wanted'[x] = wanted[x]
        BY <1>3, <2>1, <2>4
      <3> QED BY <2>1, <2>2, <3>1, <3>2 DEF Due_
    <2> QED BY <2>3, <2>4
  <1> QED BY <1>2, <1>3, <1>4 DEF HooksAsked

\* A receiver acts on what one sender owed, and no longer does.
OneMore(before, after, x) == after = [before EXCEPT ![x] = @ + 1]

LEMMA AskedActedOn ==
    ASSUME HooksInv, HooksAsked, NEW w \in Senders, NEW to, Sets(w, to), OwesOnce(to),
           \A x : Owes(to, x) => Owes(sender[w], x),
           NEW x0 \in Endpoints \X Events, Owes(sender[w], x0), ~Owes(to, x0),
           OneMore(processed, processed', x0), UNCHANGED wanted
    PROVE  HooksAsked'
  <1>1. OneMoves(sender, sender', w, to)
    BY SetsMoves
  <1>2. \A v \in Senders : OwesOnce(sender'[v])
    BY <1>1, OwesOnceMoves DEF HooksAsked
  <1>3. \A x \in Endpoints \X Events :
           processed'[x] = IF x = x0 THEN processed[x] + 1 ELSE processed[x]
    BY DEF OneMore, HooksInv, HooksCounted, Counted
  <1>4. ASSUME NEW x \in Endpoints \X Events PROVE Due_(processed', wanted, sender', x)
    <2>1. Due_(processed, wanted, sender, x) /\ processed[x] \in Nat /\ wanted[x] \in Nat
      BY DEF HooksAsked, HooksInv, HooksCounted, Counted
    <2>2. Cardinality(Owers(sender', x)) \in Nat /\ Cardinality(Owers(sender, x)) \in Nat
      BY OwersFinite
    <2>3. CASE x = x0
      <3>1. Cardinality(Owers(sender', x)) + 1 <= Cardinality(Owers(sender, x))
        BY <1>1, <2>3, OwersMove
      <3>2. processed'[x] = processed[x] + 1
        BY <1>3, <2>3
      <3> QED BY <2>1, <2>2, <3>1, <3>2 DEF Due_
    <2>4. CASE x # x0
      <3>1. Cardinality(Owers(sender', x)) <= Cardinality(Owers(sender, x))
        BY <1>1, OwersMove
      <3>2. processed'[x] = processed[x]
        BY <1>3, <2>4
      <3> QED BY <2>1, <2>2, <3>1, <3>2 DEF Due_
    <2> QED BY <2>3, <2>4
  <1> QED BY <1>2, <1>4 DEF HooksAsked

LEMMA WaitingOwesNothing == OwesOnce(Waiting) /\ \A x : ~Owes(Waiting, x)
  BY DEF Waiting, OwesOnce, Owes, OnItsWay, Outgoing

LEMMA HooksAskedInit == HooksInit => HooksAsked
  <1> SUFFICES ASSUME HooksInit PROVE HooksAsked
    OBVIOUS
  <1>1. \A w \in Senders : sender[w] = Waiting
    BY DEF HooksInit
  <1>2. \A w \in Senders : OwesOnce(sender[w])
    BY <1>1, WaitingOwesNothing
  <1>3. wanted \in [Endpoints \X Events -> Nat]
    BY DEF HooksInit
  <1>4. ASSUME NEW x \in Endpoints \X Events PROVE Due_(processed, wanted, sender, x)
    <2>1. Owers(sender, x) = {}
      BY <1>1, WaitingOwesNothing DEF Owers
    <2>2. processed[x] = 0 /\ wanted[x] = 0
      BY DEF HooksInit
    <2> QED BY <2>1, <2>2, FS_EmptySet DEF Due_
  <1> QED BY <1>2, <1>3, <1>4 DEF HooksAsked

LEMMA FanoutAsks ==
    ASSUME HooksInv, HooksAsked, NEW w \in Senders, NEW m \in HookMerchants,
           NEW event \in Events, Fanout(w, m, event)
    PROVE  HooksAsked'
  <1> DEFINE queue == {[id |-> e, row |-> endpoint[e]] : e \in EndpointsFor(m)}
             names == {<<e, event>> : e \in EndpointsFor(m)}
             to == [stage |-> "fanout", event |-> event, queue |-> queue]
  <1>1. Sets(w, to) /\ AsksFor(names) /\ UNCHANGED processed
    BY DEF Fanout
  <1>2. \A t \in queue : <<t.id, event>> \in names
    OBVIOUS
  <1>3. \A t \in queue : \A u \in queue : t.id = u.id => t = u
    OBVIOUS
  <1>4. to.stage = "fanout" /\ to.queue = queue /\ to.event = event
    OBVIOUS
  <1> HIDE DEF queue, names, to
  <1>5. OwesOnce(to)
    BY <1>3, <1>4 DEF OwesOnce, OnItsWay
  <1>6. \A x : Owes(to, x) => x \in names
    BY <1>2, <1>4 DEF Owes, OnItsWay, Outgoing
  <1> QED BY <1>1, <1>5, <1>6, AskedMore

LEMMA ReplayAsks ==
    ASSUME HooksInv, HooksAsked, NEW w \in Senders, NEW m \in HookMerchants,
           NEW d \in DOMAIN delivery, Replay(w, m, d)
    PROVE  HooksAsked'
  <1> DEFINE original == delivery[d]
             names == {<<original.endpointId, original.requestBody>>}
             to == Post(original.event, {}, original.endpointId,
                        endpoint[original.endpointId], original.merchantId,
                        ReplayId(original), original.requestBody, d)
  <1>1. Sets(w, to) /\ AsksFor(names) /\ UNCHANGED processed
    BY DEF Replay
  <1>2. to.stage = "post" /\ to.queue = {} /\ <<to.endpointId, to.body>> \in names
    BY DEF Post
  <1>3. \A x : x \in names <=> x = <<to.endpointId, to.body>>
    BY DEF Post
  <1> HIDE DEF names, to
  <1>4. OwesOnce(to)
    BY <1>2 DEF OwesOnce
  <1>5. \A x : Owes(to, x) => x \in names
    BY <1>2, <1>3 DEF Owes
  <1> QED BY <1>1, <1>4, <1>5, AskedMore

LEMMA DeliverAsks ==
    ASSUME HooksInv, HooksAsked, NEW w \in Senders, NEW target \in sender[w].queue,
           Deliver(w, target)
    PROVE  HooksAsked'
  <1> DEFINE held == sender[w]
             left == held.queue \ {target}
             cut == [held EXCEPT !.queue = left]
             post == Post(held.event, left, target.id, target.row,
                          target.row.merchantId, messages + 1, held.event, Unset)
  <1>1. held.stage = "fanout" /\ OwesOnce(held) /\ SenderFits(endpoint, messages, held)
    BY SendersMade DEF Deliver, HooksAsked
  <1>2. UNCHANGED <<wanted, processed>> /\ (Sets(w, Waiting) \/ Sets(w, cut) \/ Sets(w, post))
    <2>1. CASE target.row.status = "disabled" /\ left = {}
      BY <2>1 DEF Deliver
    <2>2. CASE target.row.status = "disabled" /\ left # {}
      BY <2>2 DEF Deliver
    <2>3. CASE target.row.status # "disabled"
      BY <2>3 DEF Deliver
    <2> QED BY <2>1, <2>2, <2>3
  <1>3. CASE Sets(w, Waiting)
    BY <1>2, <1>3, WaitingOwesNothing, AskedKept
  <1>4. /\ \A t \in held.queue : \A u \in held.queue : t.id = u.id => t = u
        /\ left \subseteq held.queue /\ target \in held.queue /\ target \notin left
    BY <1>1 DEF OwesOnce
  <1>5. \A x : (\E t \in left : <<t.id, held.event>> = x) => Owes(held, x)
    BY <1>1, <1>4 DEF Owes
  <1>6. Owes(held, <<target.id, held.event>>)
    BY <1>1 DEF Owes
  <1>7. \A t \in left : t.id # target.id
    BY <1>4
  <1>8. DOMAIN held = {"stage", "event", "queue"}
    BY <1>1 DEF SenderFits
  <1>9. CASE Sets(w, cut)
    <2>1. cut.stage = "fanout" /\ cut.queue = left /\ cut.event = held.event
      BY <1>1, <1>8
    <2> HIDE DEF cut, left
    <2>2. OwesOnce(cut)
      BY <1>4, <2>1 DEF OwesOnce, OnItsWay
    <2>3. \A x : Owes(cut, x) => Owes(held, x)
      <3>1. ASSUME NEW x, Owes(cut, x) PROVE \E t \in left : <<t.id, held.event>> = x
        BY <2>1, <3>1 DEF Owes, Outgoing
      <3> QED BY <1>5, <3>1
    <2> QED BY <1>2, <1>9, <2>2, <2>3, AskedKept
  <1>10. CASE Sets(w, post)
    <2>1. post.stage = "post" /\ post.queue = left /\ post.event = held.event
          /\ post.endpointId = target.id /\ post.body = held.event
      BY DEF Post
    <2> HIDE DEF post, left
    <2>2. OwesOnce(post)
      BY <1>4, <1>7, <2>1 DEF OwesOnce, OnItsWay
    <2>3. \A x : Owes(post, x) => Owes(held, x)
      <3>1. ASSUME NEW x, Owes(post, x)
            PROVE  (\E t \in left : <<t.id, held.event>> = x) \/ x = <<target.id, held.event>>
        BY <2>1, <3>1 DEF Owes, Outgoing
      <3> QED BY <1>5, <1>6, <3>1
    <2> QED BY <1>2, <1>10, <2>2, <2>3, AskedKept
  <1> QED BY <1>2, <1>3, <1>9, <1>10

\* A post goes on its way, or is over, with the rest of the emission behind it.
PostGoesOn(from, to) ==
    /\ Outgoing(from) /\ OnItsWay(to)
    /\ to.queue = from.queue /\ to.event = from.event
    /\ to.endpointId = from.endpointId /\ to.body = from.body

LEMMA GoingOnOwesNoMore ==
    ASSUME NEW from, NEW to, PostGoesOn(from, to), OwesOnce(from)
    PROVE  /\ OwesOnce(to) /\ \A x : Owes(to, x) => Owes(from, x)
           /\ Owes(from, <<from.endpointId, from.body>>)
           /\ ~Outgoing(to) => ~Owes(to, <<from.endpointId, from.body>>)
  <1>1. OnItsWay(from)
    BY DEF PostGoesOn, Outgoing, OnItsWay
  <1>2. OwesOnce(to)
    BY <1>1 DEF PostGoesOn, OwesOnce
  <1>3. \A x : Owes(to, x) => Owes(from, x)
    BY <1>1 DEF PostGoesOn, Owes
  <1>4. Owes(from, <<from.endpointId, from.body>>)
    BY DEF PostGoesOn, Owes
  <1>5. \A t \in to.queue : t.id # from.endpointId
    BY <1>1 DEF PostGoesOn, OwesOnce
  <1>6. ~Outgoing(to) => ~Owes(to, <<from.endpointId, from.body>>)
    BY <1>5 DEF Owes
  <1> QED BY <1>2, <1>3, <1>4, <1>6

LEMMA GuardAsks ==
    ASSUME HooksInv, HooksAsked, NEW w \in Senders, Guard(w) \/ NotReceived(w)
    PROVE  HooksAsked'
  <1> DEFINE held == sender[w]
             checked == [held EXCEPT !.stage = "connect", !.addresses = host[held.endpointId]]
             over == [held EXCEPT !.stage = "row"]
  <1>1. Outgoing(held) /\ UNCHANGED <<wanted, processed>>
        /\ (Sets(w, checked) \/ Sets(w, over))
    BY DEF Guard, NotReceived, Outgoing
  <1>2. DOMAIN held = PostFields /\ OwesOnce(held)
    BY <1>1, SendersMade DEF SenderFits, HooksAsked
  <1>3. PostGoesOn(held, checked)
    BY <1>1, <1>2 DEF PostGoesOn, OnItsWay, PostFields
  <1>4. PostGoesOn(held, over)
    BY <1>1, <1>2 DEF PostGoesOn, OnItsWay, PostFields
  <1> HIDE DEF checked, over
  <1>5. CASE Sets(w, checked)
    BY <1>1, <1>2, <1>3, <1>5, GoingOnOwesNoMore, AskedKept
  <1>6. CASE Sets(w, over)
    BY <1>1, <1>2, <1>4, <1>6, GoingOnOwesNoMore, AskedKept
  <1> QED BY <1>1, <1>5, <1>6

LEMMA ReceivedAsks ==
    ASSUME HooksInv, HooksAsked, NEW w \in Senders, NEW delay \in Delays,
           NEW status_ \in {200, 302, 500}, Received(w, delay, status_)
    PROVE  HooksAsked'
  <1> DEFINE held == sender[w]
             x0 == <<held.endpointId, held.body>>
  <1>1. held.stage = "connect" /\ UNCHANGED wanted
        /\ (processed' = processed \/ processed' = [processed EXCEPT ![x0] = @ + 1])
    BY DEF Received
  <1>2. PICK v : Sets(w, After(held, v))
    <2>1. PICK answer \in {Unset, status_} :
             Sets(w, After(held, IF answer # Unset /\ AssertNotRedirected(answer)
                                 THEN answer ELSE Unset))
      BY DEF Received, After
    <2> QED BY <2>1
  <1> DEFINE to == After(held, v)
  <1>3. DOMAIN held = PostFields /\ OwesOnce(held) /\ Outgoing(held)
        /\ x0 \in Endpoints \X Events
    BY <1>1, SendersMade DEF SenderFits, HooksAsked, Outgoing, OnItsWay, OwnedBy
  <1>4. PostGoesOn(held, to) /\ ~Outgoing(to)
    BY <1>3 DEF PostGoesOn, OnItsWay, Outgoing, PostFields, After
  <1>5. Sets(w, to)
    BY <1>2
  <1> HIDE DEF to
  <1>6. /\ OwesOnce(to) /\ \A x : Owes(to, x) => Owes(held, x)
        /\ Owes(held, x0) /\ ~Owes(to, x0)
    BY <1>3, <1>4, GoingOnOwesNoMore
  <1> HIDE DEF x0
  <1>7. CASE processed' = processed
    BY <1>1, <1>5, <1>6, <1>7, AskedKept
  <1>8. CASE processed' = [processed EXCEPT ![x0] = @ + 1]
    <2>1. UNCHANGED wanted /\ x0 \in Endpoints \X Events
      BY <1>1, <1>3
    <2>2. OwesOnce(to) /\ Owes(held, x0) /\ ~Owes(to, x0)
      BY <1>6
    <2>3. \A x : Owes(to, x) => Owes(held, x)
      BY <1>6
    <2>4. OneMore(processed, processed', x0)
      BY <1>8 DEF OneMore
    <2> QED BY <1>5, <2>1, <2>2, <2>3, <2>4, AskedActedOn
  <1> QED BY <1>1, <1>7, <1>8

LEMMA InsertAsks ==
    ASSUME HooksInv, HooksAsked, NEW w \in Senders, InsertDelivery(w) PROVE HooksAsked'
  <1> DEFINE held == sender[w]
             goesOn == [stage |-> "fanout", event |-> held.event, queue |-> held.queue]
  <1>1. held.stage = "row" /\ UNCHANGED <<wanted, processed>>
        /\ (Sets(w, Waiting) \/ Sets(w, goesOn))
    <2>1. CASE held.queue = {}
      BY <2>1 DEF InsertDelivery
    <2>2. CASE held.queue # {}
      BY <2>2 DEF InsertDelivery
    <2> QED BY <2>1, <2>2
  <1>2. OwesOnce(held) /\ OnItsWay(held)
    BY <1>1 DEF HooksAsked, OnItsWay
  <1>3. goesOn.stage = "fanout" /\ goesOn.event = held.event /\ goesOn.queue = held.queue
    OBVIOUS
  <1> HIDE DEF goesOn
  <1>4. OwesOnce(goesOn)
    BY <1>2, <1>3 DEF OwesOnce, OnItsWay
  <1>5. \A x : Owes(goesOn, x) => Owes(held, x)
    BY <1>2, <1>3 DEF Owes, Outgoing
  <1>6. CASE Sets(w, Waiting)
    BY <1>1, <1>6, WaitingOwesNothing, AskedKept
  <1>7. CASE Sets(w, goesOn)
    BY <1>1, <1>4, <1>5, <1>7, AskedKept
  <1> QED BY <1>1, <1>6, <1>7

LEMMA RotateAsks ==
    ASSUME HooksInv, HooksAsked, NEW w \in Senders,
           (\E e \in Endpoints : RotateSecretRead(w, e)) \/ RotateSecretWrite(w)
    PROVE  HooksAsked'
  <1>1. PICK to : Sets(w, to) /\ (to = Waiting \/ to.stage = "rotate")
    <2>1. ASSUME NEW e \in Endpoints, RotateSecretRead(w, e)
          PROVE  \E to : Sets(w, to) /\ to.stage = "rotate"
      <3> DEFINE rotating == [stage |-> "rotate", endpointId |-> e,
                              held |-> endpoint[e].signingSecrets]
      <3>1. Sets(w, rotating) /\ rotating.stage = "rotate"
        BY <2>1 DEF RotateSecretRead
      <3> HIDE DEF rotating
      <3> QED BY <3>1
    <2>2. ASSUME RotateSecretWrite(w) PROVE Sets(w, Waiting)
      BY <2>2 DEF RotateSecretWrite
    <2> QED BY <2>1, <2>2
  <1>2. UNCHANGED <<wanted, processed>>
    BY DEF RotateSecretRead, RotateSecretWrite
  <1>3. OwesOnce(to) /\ \A x : ~Owes(to, x)
    BY <1>1, WaitingOwesNothing DEF OwesOnce, Owes, OnItsWay, Outgoing
  <1> QED BY <1>1, <1>2, <1>3, AskedKept

LEMMA CrashAsks == ASSUME HooksInv, HooksAsked, HooksCrash PROVE HooksAsked'
  <1>1. UNCHANGED <<wanted, processed>> /\ \A w \in Senders : sender'[w] = Waiting
    BY DEF HooksCrash
  <1>2. \A w \in Senders : OwesOnce(sender'[w])
    BY <1>1, WaitingOwesNothing
  <1>3. ASSUME NEW x \in Endpoints \X Events PROVE Due_(processed, wanted, sender', x)
    <2>1. Owers(sender', x) = {}
      BY <1>1, WaitingOwesNothing DEF Owers
    <2>2. Due_(processed, wanted, sender, x) /\ processed[x] \in Nat /\ wanted[x] \in Nat
      BY DEF HooksAsked, HooksInv, HooksCounted, Counted
    <2>3. Cardinality(Owers(sender, x)) \in Nat
      BY OwersFinite
    <2> QED BY <2>1, <2>2, <2>3, FS_EmptySet DEF Due_
  <1> QED BY <1>1, <1>2, <1>3 DEF HooksAsked

LEMMA HooksAskedStep == HooksInv /\ HooksAsked /\ [HooksNext]_hooksVars => HooksAsked'
  <1>0. ASSUME HooksAsked, UNCHANGED <<sender, wanted, processed>> PROVE HooksAsked'
    BY <1>0 DEF HooksAsked
  <1>1. ASSUME HooksInv, HooksAsked, HooksNext PROVE HooksAsked'
    <2>1. ASSUME NEW m \in HookMerchants, NEW e \in Endpoints, RegisterEndpoint(m, e)
          PROVE  HooksAsked'
      BY <1>0, <1>1, <2>1 DEF RegisterEndpoint
    <2>2. ASSUME NEW w \in Senders, NEW m \in HookMerchants,
                 \/ \E event \in Events : Fanout(w, m, event)
                 \/ \E d \in DOMAIN delivery : Replay(w, m, d)
          PROVE  HooksAsked'
      BY <1>1, <2>2, FanoutAsks, ReplayAsks
    <2>3. ASSUME NEW w \in Senders,
                 \/ \E t \in sender[w].queue : Deliver(w, t)
                 \/ \E delay \in Delays, status_ \in {200, 302, 500} : Received(w, delay, status_)
          PROVE  HooksAsked'
      BY <1>1, <2>3, DeliverAsks, ReceivedAsks
    <2>4. ASSUME NEW w \in Senders,
                 Guard(w) \/ NotReceived(w) \/ InsertDelivery(w) \/ RotateSecretWrite(w)
          PROVE  HooksAsked'
      BY <1>1, <2>4, GuardAsks, InsertAsks, RotateAsks
    <2>5. ASSUME NEW w \in Senders, NEW e \in Endpoints, RotateSecretRead(w, e)
          PROVE  HooksAsked'
      BY <1>1, <2>5, RotateAsks
    <2>6. ASSUME NEW e \in Endpoints,
                 \/ \E age \in FailureAges : NoteEndpointFailure(e, age)
                 \/ NoteEndpointSuccess(e) \/ HostMoves(e)
                 \/ \E n \in 1 .. 2 : ReceiverInstalls(e, n)
          PROVE  HooksAsked'
      BY <1>0, <1>1, <2>6
         DEF NoteEndpointFailure, NoteEndpointSuccess, HostMoves, ReceiverInstalls
    <2>7. ASSUME HooksCrash PROVE HooksAsked'
      BY <1>1, <2>7, CrashAsks
    <2> QED BY <1>1, <2>1, <2>2, <2>3, <2>4, <2>5, <2>6, <2>7 DEF HooksNext
  <1> QED BY <1>0, <1>1 DEF hooksVars

LEMMA HooksInvSuffices ==
    ASSUME HooksInv, HooksAsked
    PROVE  HookTables /\ AcceptedMeansProcessed /\ PostsWereChecked /\ MerchantsSeeTheirOwn
  <1>1. EndpointsFit(endpoint) /\ LogFits(endpoint, messages, delivery) /\ messages \in Nat
    BY DEF HooksInv, HooksTyped
  <1>2. HookTables
    BY <1>1 DEF HookTables, EndpointsFit, LogFits, RowFitsLog
  <1>3. MerchantsSeeTheirOwn
    <2>1. ASSUME NEW m \in HookMerchants, NEW d \in ListDeliveries(m)
          PROVE  \E view \in ListEndpoints(m) : view.id = delivery[d].endpointId
      <3>1. OwnedBy(endpoint, delivery[d].endpointId, m)
        BY <1>1, <2>1 DEF ListDeliveries, LogFits, RowFitsLog
      <3>2. delivery[d].endpointId \in EndpointsFor(m)
        BY <3>1 DEF OwnedBy, EndpointsFor
      <3> DEFINE e == delivery[d].endpointId
                 view == [id |-> e, status |-> endpoint[e].status,
                          signingSecretCount |-> Len(endpoint[e].signingSecrets)]
      <3>3. view \in ListEndpoints(m)
        BY <3>2 DEF ListEndpoints
      <3>4. view.id = delivery[d].endpointId
        OBVIOUS
      <3> QED BY <3>3, <3>4
    <2>2. ASSUME NEW m \in HookMerchants, NEW view \in ListEndpoints(m)
          PROVE  view.signingSecretCount \in {1, 2}
      <3>1. PICK e \in EndpointsFor(m) : view.signingSecretCount = Len(endpoint[e].signingSecrets)
        BY <2>2 DEF ListEndpoints
      <3>2. Secrets(endpoint[e].signingSecrets)
        BY <1>1 DEF EndpointsFor, EndpointsFit
      <3> QED BY <3>1, <3>2 DEF Secrets
    <2> QED BY <2>1, <2>2 DEF MerchantsSeeTheirOwn
  <1>4. ASSUME NEW x \in Endpoints \X Events
        PROVE  Cardinality(AcceptedRows(x)) <= processed[x]
    <2> DEFINE shown_ == AcceptedRows(x)
               ids == AckedIds(delivery, sender, messages, x)
               id == [d \in shown_ |-> delivery[d].webhookId]
    <2>1. \A d \in shown_ : d \in DOMAIN delivery /\ AckedRow(delivery[d], x)
      BY DEF AckedRow, AcceptedRows
    <2>2. IsFiniteSet(ids) /\ Cardinality(ids) \in Nat
      BY <1>1, AckedIdsFinite
    <2>3. Cardinality(ids) <= processed[x] /\ processed[x] \in Nat
      BY DEF HooksInv, HooksCounted, Counted
    <2> HIDE DEF shown_
    <2>4. \A d \in shown_ : delivery[d].webhookId \in ids
      BY <1>1, <2>1 DEF AckedIds, Acked, LogFits, RowFitsLog
    <2>5. \A d \in shown_ : \A c \in shown_ :
              delivery[d].webhookId = delivery[c].webhookId => d = c
      BY <2>1 DEF HooksInv, HooksOnce, OnceInLog
    <2> HIDE DEF ids
    <2>6. id \in [shown_ -> ids]
      BY <2>4
    <2>7. \A d \in shown_ : \A c \in shown_ : id[d] = id[c] => d = c
      BY <2>5
    <2> HIDE DEF id
    <2>8. IsFiniteSet(shown_) /\ Cardinality(shown_) <= Cardinality(ids)
      <3>1. id \in Injection(shown_, ids)
        BY <2>6, <2>7 DEF Injection, IsInjective
      <3> QED BY <2>2, <3>1, FS_Injection
    <2>9. Cardinality(shown_) \in Nat
      BY <2>8, FS_CardinalityType
    <2>10. Cardinality(shown_) <= processed[x]
      BY <2>2, <2>3, <2>8, <2>9
    <2> QED BY <2>10 DEF shown_
  <1>5. ASSUME NEW x \in Endpoints \X Events PROVE processed[x] <= wanted[x]
    <2>1. Due_(processed, wanted, sender, x)
      BY DEF HooksAsked
    <2>2. processed[x] \in Nat
      BY DEF HooksInv, HooksCounted, Counted
    <2>3. wanted[x] \in Nat
      BY DEF HooksAsked
    <2>4. Cardinality(Owers(sender, x)) \in Nat
      BY OwersFinite
    <2> QED BY <2>1, <2>2, <2>3, <2>4 DEF Due_
  <1>6. AcceptedMeansProcessed
    BY <1>4, <1>5 DEF AcceptedMeansProcessed
  <1>7. PostsWereChecked
    BY DEF PostsWereChecked, HooksInv, HooksTyped, SendersFit, SenderFits
  <1> QED BY <1>2, <1>3, <1>6, <1>7

LEMMA HooksInFocus ==
    focus = "webhooks" /\ [OperatorNext]_operatorVars => [HooksNext]_hooksVars
  <1>1. ASSUME focus = "webhooks", OperatorNext PROVE HooksNext
    BY <1>1 DEF OperatorNext, Others
  <1> QED BY <1>1 DEF operatorVars

HooksInFocusHold == focus = "webhooks" => HooksInv /\ HooksAsked

\* However emissions, replays, rotations, names that move and deaths of the process
\* interleave: a row that shows a delivery accepted stands for one time its receiver acted
\* on that very body; a receiver acts no more often than deliveries of that body to it were
\* asked for; whatever connects had every address of its name checked on that same attempt;
\* a merchant's log holds posts to its own destinations, each with one secret or, while
\* rotating, two (services/servicing/src/webhooks.ts, ssrf.ts).
THEOREM HooksAlwaysHold == OperatorSpec => []HooksHold
  <1>1. OperatorInit => HooksInFocusHold
    BY HooksInvInit, HooksAskedInit DEF OperatorInit, HooksStart, HooksInFocusHold
  <1>2. HooksInFocusHold /\ [OperatorNext]_operatorVars => HooksInFocusHold'
    BY FocusStays, HooksInFocus, HooksInvStep, HooksAskedStep DEF HooksInFocusHold
  <1>3. HooksInFocusHold => HooksHold
    BY HooksInvSuffices DEF HooksInFocusHold, HooksHold
  <1> QED BY <1>1, <1>2, <1>3, PTL DEF OperatorSpec

(***************************************************************************)
(* The corridor.  Three parts that meet only in the venue's rates and the  *)
(* mids: what a poll has read, what has been signed, what has been filled. *)
(***************************************************************************)

VenueFits(v) ==
    v \in [ab : Rates, ba : Rates, failure : {"none"} \cup VenueFailures]

Leg == [rate : Rates, at : Nat]
PollRecord ==
    [stage : {"idle", "ab", "ba", "judge", "confirm"}, window : {0} \cup PollWindows,
     now : Nat, legAB : SUBSET Leg, legBA : SUBSET Leg, failures : Nat,
     trips : SUBSET TripReason]

\* The failures of a poll are its own unanswered legs: it starts from none.
Missing(leg) == IF leg = {} THEN 1 ELSE 0
TalliesItsLegs(p) ==
    /\ p.stage \in {"idle", "ab"} => p.failures = 0
    /\ p.stage = "ba" => p.failures = Missing(p.legAB)
    /\ p.stage = "judge" => p.failures = Missing(p.legAB) + Missing(p.legBA)

\* A leg read since the market last moved shows the market as it is, silence too.
Silent(v, parts) == ~parts.keyed \/ v.failure # "none"
LegsShow(p, v, parts) ==
    /\ p.stage \in {"ba", "judge"} =>
          /\ \A q \in p.legAB : q.rate = v.ab /\ q.at = p.now
          /\ p.legAB = {} <=> Silent(v, parts)
    /\ p.stage = "judge" =>
          /\ \A q \in p.legBA : q.rate = v.ba /\ q.at = p.now
          /\ p.legBA = {} <=> Silent(v, parts)

SnapshotFits(served) == \A s \in served : s \in CorridorSnapshot /\ (s.healthy <=> s.trips = {})

PollInv ==
    /\ poll \in PollRecord /\ VenueFits(venue) /\ fxNow \in Nat
    /\ TalliesItsLegs(poll)
    /\ SnapshotFits(snapshot)
    /\ stillness => LegsShow(poll, venue, service)

\* Only a venue that answers is quoted, and only a process with a key has one.
AskedFit(asked) == \A s \in Sessions : asked[s].rate # {} => service.keyed
MidFits(mid, now) ==
    /\ mid \in FxMid /\ mid.validUntil <= now + mid.maxTtl /\ service.keyed

SignInv ==
    /\ requests \in [Sessions -> FxRequest] /\ AskedFit(requests)
    /\ ttlCap \in TtlCaps
    /\ \A mid \in mids : MidFits(mid, fxNow)

Promised(f) ==
    /\ f.amountOut \in Nat
    /\ f.amountOut * FX_BPS * One + FX_BPS * One + One * FX_BPS
          >= AmountIn * f.mid.rate * (FX_BPS - MAX_DEVIATION)
FillFits(f) ==
    /\ f.mid.rate \in Rates /\ service.keyed /\ f.at <= f.mid.validUntil /\ Promised(f)
OncePerSession(filled) ==
    \A f \in filled : \A g \in filled : g.mid.session = f.mid.session => g = f

\* The fills are numbered as they come, so one of them is the last.
Numbered(filled) ==
    /\ IsFiniteSet(filled)
    /\ \A f \in filled : f.order \in 1 .. Cardinality(filled)
    /\ filled # {} => \E f \in filled : f.order = Cardinality(filled)

FillInv == (\A f \in fills : FillFits(f)) /\ OncePerSession(fills) /\ Numbered(fills)

CorridorInv == PollInv /\ SignInv /\ FillInv

LEMMA IdleIsAPoll ==
    /\ IdlePoll \in PollRecord /\ TalliesItsLegs(IdlePoll)
    /\ \A v, parts : LegsShow(IdlePoll, v, parts)
  BY DEF IdlePoll, PollRecord, TalliesItsLegs, LegsShow

LEMMA VerdictTypes == Verdict \in SUBSET TripReason
  BY DEF Verdict, evaluateCorridorHealth

\* A finished poll serves what it found and hands nothing on.
LEMMA FinishKeeps ==
    ASSUME PollInv, NEW trips, trips \in SUBSET TripReason, NEW paused \in BOOLEAN,
           Finish(trips, paused), UNCHANGED <<venue, fxNow>>
    PROVE  PollInv'
  <1> DEFINE given == [healthy |-> trips = {}, trips |-> trips, pausedOnChain |-> paused]
  <1>1. snapshot' = {given} /\ poll' = IdlePoll
    BY DEF Finish
  <1>2. given \in CorridorSnapshot /\ (given.healthy <=> given.trips = {})
    BY DEF CorridorSnapshot
  <1> HIDE DEF given
  <1>3. SnapshotFits(snapshot')
    BY <1>1, <1>2 DEF SnapshotFits
  <1>4. poll' \in PollRecord /\ TalliesItsLegs(poll') /\ LegsShow(poll', venue', service')
    BY <1>1, IdleIsAPoll
  <1> QED BY <1>3, <1>4 DEF PollInv

LEMMA StartPollKeeps ==
    ASSUME PollInv, NEW window \in PollWindows, StartPoll(window) PROVE PollInv'
  <1> DEFINE p == [poll EXCEPT !.stage = "ab", !.window = window, !.now = fxNow]
  <1>1. poll' = p /\ UNCHANGED <<venue, fxNow, snapshot>> /\ poll.stage = "idle"
    BY DEF StartPoll, market
  <1>2. fxNow \in Nat /\ poll \in PollRecord /\ poll.failures = 0
    BY <1>1 DEF PollInv, TalliesItsLegs
  <1>3. p \in PollRecord /\ p.stage = "ab" /\ p.failures = 0
    BY <1>2 DEF PollRecord
  <1> HIDE DEF p
  <1>4. TalliesItsLegs(p) /\ LegsShow(p, venue', service')
    BY <1>3 DEF TalliesItsLegs, LegsShow
  <1> QED BY <1>1, <1>3, <1>4 DEF PollInv

LEMMA ObservedLegs ==
    ASSUME PollInv, NEW pair \in {<<"USD", "EUR">>, <<"EUR", "USD">>}
    PROVE  /\ observe(pair) \in SUBSET Leg
           /\ \A q \in observe(pair) : q.rate = RateOf(pair) /\ q.at = poll.now
           /\ observe(pair) = {} <=> Silent(venue, service)
  <1>1. quote(pair) = IF Silent(venue, service) THEN {} ELSE {RateOf(pair)}
    <2>1. Answers(service) <=> ~Silent(venue, service)
      BY DEF Answers, resolveFxVenue, Silent
    <2>2. isSupportedPair(pair)
      BY DEF isSupportedPair
    <2> QED BY <2>1, <2>2 DEF quote
  <1>2. RateOf(pair) \in Rates /\ poll.now \in Nat
    BY DEF PollInv, VenueFits, RateOf, PollRecord
  <1>3. CASE Silent(venue, service)
    BY <1>1, <1>3 DEF observe, Leg
  <1>4. CASE ~Silent(venue, service)
    <2> DEFINE seen_ == [rate |-> RateOf(pair), at |-> poll.now]
    <2>1. quote(pair) = {RateOf(pair)}
      BY <1>1, <1>4
    <2>2. observe(pair) = {seen_}
      BY <2>1 DEF observe
    <2>3. seen_ \in Leg /\ seen_.rate = RateOf(pair) /\ seen_.at = poll.now
      BY <1>2 DEF Leg
    <2> HIDE DEF seen_
    <2> QED BY <1>4, <2>2, <2>3
  <1> QED BY <1>3, <1>4

LEMMA ObserveKeeps == ASSUME PollInv, ObserveAB \/ ObserveBA PROVE PollInv'
  <1>1. UNCHANGED <<venue, fxNow, service, snapshot, stillness>>
    BY DEF ObserveAB, ObserveBA, Observe, market
  <1>2. poll \in PollRecord /\ poll.failures \in Nat /\ TalliesItsLegs(poll)
    BY DEF PollInv, PollRecord
  <1>3. CASE ObserveAB
    <2> DEFINE seen_ == observe(<<"USD", "EUR">>)
               n == IF seen_ = {} THEN poll.failures + 1 ELSE poll.failures
               p == [poll EXCEPT !.stage = "ba", !.legAB = seen_, !.failures = n]
    <2>1. poll' = p /\ poll.stage = "ab"
      BY <1>3 DEF ObserveAB, Observe
    <2>2. /\ seen_ \in SUBSET Leg /\ \A q \in seen_ : q.rate = venue.ab /\ q.at = poll.now
          /\ seen_ = {} <=> Silent(venue, service)
      BY ObservedLegs DEF RateOf
    <2>c. n \in Nat /\ n = Missing(seen_)
      BY <1>2, <2>1 DEF TalliesItsLegs, Missing
    <2> HIDE DEF seen_, n
    <2>3. p \in PollRecord /\ p.stage = "ba" /\ p.legAB = seen_ /\ p.now = poll.now
          /\ p.failures = n
      BY <1>2, <2>2, <2>c DEF PollRecord
    <2> HIDE DEF p
    <2>4. TalliesItsLegs(p)
      BY <2>3, <2>c DEF TalliesItsLegs
    <2>5. LegsShow(p, venue, service)
      BY <2>2, <2>3 DEF LegsShow
    <2> QED BY <1>1, <2>1, <2>3, <2>4, <2>5 DEF PollInv
  <1>4. CASE ObserveBA
    <2> DEFINE seen_ == observe(<<"EUR", "USD">>)
               n == IF seen_ = {} THEN poll.failures + 1 ELSE poll.failures
               p == [poll EXCEPT !.stage = "judge", !.legBA = seen_, !.failures = n]
    <2>1. poll' = p /\ poll.stage = "ba"
      BY <1>4 DEF ObserveBA, Observe
    <2>2. /\ seen_ \in SUBSET Leg /\ \A q \in seen_ : q.rate = venue.ba /\ q.at = poll.now
          /\ seen_ = {} <=> Silent(venue, service)
      BY ObservedLegs DEF RateOf
    <2>c. n \in Nat /\ n = Missing(poll.legAB) + Missing(seen_)
      BY <1>2, <2>1 DEF TalliesItsLegs, Missing
    <2> HIDE DEF seen_, n
    <2>3. p \in PollRecord /\ p.stage = "judge" /\ p.legBA = seen_ /\ p.now = poll.now
          /\ p.legAB = poll.legAB /\ p.failures = n
      BY <1>2, <2>2, <2>c DEF PollRecord
    <2> HIDE DEF p
    <2>4. TalliesItsLegs(p)
      BY <2>3, <2>c DEF TalliesItsLegs
    <2>5. stillness => LegsShow(p, venue, service)
      BY <2>1, <2>2, <2>3 DEF LegsShow, PollInv
    <2> QED BY <1>1, <2>1, <2>3, <2>4, <2>5 DEF PollInv
  <1> QED BY <1>3, <1>4

LEMMA PauseKeeps == ASSUME PollInv, pauseCorridor PROVE PollInv'
  <1> DEFINE p == [poll EXCEPT !.stage = "confirm", !.trips = Verdict]
  <1>1. poll' = p /\ UNCHANGED <<venue, fxNow, snapshot>>
    BY DEF pauseCorridor, market
  <1>2. poll \in PollRecord /\ Verdict \in SUBSET TripReason
    BY VerdictTypes DEF PollInv
  <1>3. p \in PollRecord /\ p.stage = "confirm"
    BY <1>2 DEF PollRecord
  <1> HIDE DEF p
  <1>4. TalliesItsLegs(p) /\ LegsShow(p, venue', service')
    BY <1>3 DEF TalliesItsLegs, LegsShow
  <1> QED BY <1>1, <1>3, <1>4 DEF PollInv

\* What moves the market also says that it moved.
LEMMA PollUnread ==
    ASSUME PollInv, UNCHANGED <<poll, service, snapshot>>, VenueFits(venue'), fxNow' \in Nat,
           stillness' => stillness /\ venue' = venue
    PROVE  PollInv'
  BY DEF PollInv

LEMMA PollInvStep == ASSUME PollInv, FxNext PROVE PollInv'
  <1>t. VenueFits(venue) /\ fxNow \in Nat
    BY DEF PollInv
  <1>1. ASSUME PollStep PROVE PollInv'
    <2>1. ASSUME NEW window \in PollWindows, enqueueCorridorPoll(window) PROVE PollInv'
      BY <1>t, <2>1, PollUnread DEF enqueueCorridorPoll, market
    <2>2. ASSUME NEW window \in PollWindows, StartPoll(window) PROVE PollInv'
      BY <2>2, StartPollKeeps
    <2>3. ASSUME Healthy PROVE PollInv'
      <3>1. Finish({}, FALSE) /\ UNCHANGED <<venue, fxNow>>
        BY <2>3 DEF Healthy, market
      <3> QED BY <3>1, FinishKeeps
    <2>4. ASSUME ConfirmPause PROVE PollInv'
      <3>1. Finish(poll.trips, TRUE) /\ UNCHANGED <<venue, fxNow>>
        BY <2>4 DEF ConfirmPause, market
      <3>2. poll.trips \in SUBSET TripReason
        BY DEF PollInv, PollRecord
      <3> QED BY <3>1, <3>2, FinishKeeps
    <2>5. ASSUME PollThrows PROVE PollInv'
      <3>1. poll' = IdlePoll /\ UNCHANGED <<venue, fxNow, snapshot>>
        BY <2>5 DEF PollThrows
      <3> QED BY <3>1, IdleIsAPoll DEF PollInv
    <2> QED BY <1>1, <2>1, <2>2, <2>3, <2>4, <2>5, ObserveKeeps, PauseKeeps DEF PollStep
  <1>2. ASSUME QuoteStep \/ \E mid \in mids : settleGuarded(mid) \/ FillOutsideGuard(mid)
        PROVE  PollInv'
    <2>1. UNCHANGED <<venue, fxNow, poll, service, snapshot>>
          /\ (stillness' = stillness \/ stillness' = FALSE)
      BY <1>2 DEF QuoteStep, PostQuote, QuoteVenue, signMid, Asking, settleGuarded,
                  FillOutsideGuard, market, polling
    <2> QED BY <1>t, <2>1, PollUnread
  <1>3. ASSUME PricesMove PROVE PollInv'
    <2>1. PICK way \in {"ab", "ba"}, rate \in Rates : venue' = [venue EXCEPT ![way] = rate]
      BY <1>3 DEF PricesMove
    <2>2. VenueFits(venue')
      BY <1>t, <2>1 DEF VenueFits
    <2>3. UNCHANGED <<fxNow, poll, service, snapshot>> /\ stillness' = FALSE
      BY <1>3 DEF PricesMove, Moves, polling
    <2> QED BY <1>t, <2>2, <2>3, PollUnread
  <1>4. ASSUME VenueFails \/ VenueRecovers PROVE PollInv'
    <2>1. VenueFits(venue')
      BY <1>4, <1>t DEF VenueFails, VenueRecovers, VenueFits
    <2>2. UNCHANGED <<fxNow, poll, service, snapshot>> /\ stillness' = FALSE
      BY <1>4 DEF VenueFails, VenueRecovers, Moves, polling
    <2> QED BY <1>t, <2>1, <2>2, PollUnread
  <1>5. ASSUME TradesMove \/ Govern \/ AdminResumes PROVE PollInv'
    <2>1. UNCHANGED <<venue, fxNow, poll, service, snapshot>> /\ stillness' = FALSE
      BY <1>5 DEF TradesMove, Govern, AdminResumes, Moves, polling
    <2> QED BY <1>t, <2>1, PollUnread
  <1>6. ASSUME FxTick PROVE PollInv'
    <2>1. UNCHANGED <<venue, poll, service, snapshot, stillness>> /\ fxNow' \in Nat
      BY <1>t, <1>6 DEF FxTick, polling
    <2> QED BY <1>t, <2>1, PollUnread
  <1> QED BY <1>1, <1>2, <1>3, <1>4, <1>5, <1>6 DEF FxNext

LEMMA QuotedFits ==
    ASSUME VenueFits(venue), NEW pair \in {<<"USD", "EUR">>, <<"EUR", "USD">>}
    PROVE  quote(pair) \in SUBSET Rates /\ (quote(pair) # {} => service.keyed)
  <1>1. RateOf(pair) \in Rates
    BY DEF VenueFits, RateOf
  <1>2. Answers(service) => service.keyed
    BY DEF Answers, resolveFxVenue
  <1> QED BY <1>1, <1>2 DEF quote

LEMMA RequestMade ==
    ASSUME SignInv, NEW s \in Sessions, NEW asked \in FxRequest,
           asked.rate # {} => service.keyed, Asking(s, asked)
    PROVE  requests' \in [Sessions -> FxRequest] /\ AskedFit(requests)'
  <1>1. requests' = [requests EXCEPT ![s] = asked] /\ service' = service
    BY DEF Asking
  <1>2. requests \in [Sessions -> FxRequest] /\ AskedFit(requests)
    BY DEF SignInv
  <1>3. \A v \in Sessions : requests'[v] = IF v = s THEN asked ELSE requests[v]
    BY <1>1, <1>2
  <1> QED BY <1>1, <1>2, <1>3 DEF AskedFit

\* Time passes and the cap moves: a mid stays what it was signed as.
LEMMA MidsStay ==
    ASSUME SignInv, fxNow \in Nat, fxNow' \in Nat, fxNow' >= fxNow,
           UNCHANGED <<mids, service>>
    PROVE  (\A mid \in mids : MidFits(mid, fxNow))'
  <1>1. ASSUME NEW mid \in mids PROVE MidFits(mid, fxNow)'
    <2>1. mid \in FxMid /\ mid.validUntil <= fxNow + mid.maxTtl /\ service.keyed
      BY <1>1 DEF SignInv, MidFits
    <2>2. mid.validUntil \in Nat /\ mid.maxTtl \in Nat
      BY <2>1, CorridorAssumption DEF FxMid
    <2> QED BY <2>1, <2>2 DEF MidFits
  <1> QED BY <1>1

LEMMA NothingAsked == NoRequest \in FxRequest /\ NoRequest.rate = {}
  BY DEF NoRequest, FxRequest

LEMMA PostQuoteKeeps ==
    ASSUME SignInv, PollInv, NEW s \in Sessions, PostQuote(s) PROVE SignInv'
  <1>1. PICK ttl \in Ttls : Asking(s, [NoRequest EXCEPT !.stage = "venue", !.ttl = ttl])
    BY DEF PostQuote
  <1> DEFINE asked == [NoRequest EXCEPT !.stage = "venue", !.ttl = ttl]
  <1>2. asked \in FxRequest /\ asked.rate = {}
    BY CorridorAssumption DEF NoRequest, FxRequest
  <1>3. UNCHANGED <<mids, service, ttlCap, fxNow>> /\ Asking(s, asked)
    BY <1>1 DEF PostQuote, Asking, market
  <1> HIDE DEF asked
  <1>4. requests' \in [Sessions -> FxRequest] /\ AskedFit(requests)'
    BY <1>2, <1>3, RequestMade
  <1>5. fxNow \in Nat
    BY DEF PollInv
  <1>6. (\A mid \in mids : MidFits(mid, fxNow))'
    BY <1>3, <1>5, MidsStay
  <1> QED BY <1>3, <1>4, <1>6 DEF SignInv

LEMMA QuoteVenueKeeps ==
    ASSUME SignInv, PollInv, NEW s \in Sessions, QuoteVenue(s) PROVE SignInv'
  <1> DEFINE quoted == quote(<<"USD", "EUR">>)
             signs == [requests[s] EXCEPT !.stage = "sign", !.rate = quoted]
             asked == IF Answers(service) /\ service.signs THEN signs ELSE NoRequest
  <1>1. UNCHANGED <<mids, service, ttlCap, fxNow>> /\ Asking(s, asked)
    BY DEF QuoteVenue, Asking, market
  <1>2. quoted \in SUBSET Rates /\ (quoted # {} => service.keyed)
    BY QuotedFits DEF PollInv
  <1>3. requests[s] \in FxRequest
    BY DEF SignInv
  <1> HIDE DEF quoted
  <1>4. signs \in FxRequest /\ signs.rate = quoted
    BY <1>2, <1>3 DEF FxRequest
  <1> HIDE DEF signs
  <1>5. asked \in FxRequest /\ (asked.rate # {} => service.keyed)
    BY <1>2, <1>4, NothingAsked
  <1> HIDE DEF asked
  <1>6. requests' \in [Sessions -> FxRequest] /\ AskedFit(requests)'
    BY <1>1, <1>5, RequestMade
  <1>7. fxNow \in Nat
    BY DEF PollInv
  <1>8. (\A mid \in mids : MidFits(mid, fxNow))'
    BY <1>1, <1>7, MidsStay
  <1> QED BY <1>1, <1>6, <1>8 DEF SignInv

LEMMA SignMidKeeps ==
    ASSUME SignInv, PollInv, NEW s \in Sessions, signMid(s) PROVE SignInv'
  <1> DEFINE made(rate) == [session |-> s, rate |-> rate,
                            validUntil |-> fxNow + grantedTtl(requests[s].ttl),
                            maxTtl |-> ttlCap]
  <1>1. UNCHANGED <<service, ttlCap, fxNow>> /\ Asking(s, NoRequest)
        /\ mids' = mids \cup {made(rate) : rate \in requests[s].rate}
    BY DEF signMid, Asking, market
  <1>2. fxNow \in Nat /\ ttlCap \in TtlCaps /\ ttlCap \in Nat
    BY CorridorAssumption DEF SignInv, PollInv
  <1>3. requests[s] \in FxRequest /\ (requests[s].rate # {} => service.keyed)
    BY DEF SignInv, AskedFit
  <1>4. grantedTtl(requests[s].ttl) \in Nat /\ grantedTtl(requests[s].ttl) <= ttlCap
    BY <1>2, <1>3 DEF grantedTtl, FxRequest
  <1>5. ASSUME NEW rate \in requests[s].rate PROVE MidFits(made(rate), fxNow)
    <2>1. rate \in Rates /\ service.keyed
      BY <1>3, <1>5 DEF FxRequest
    <2> QED BY <1>2, <1>4, <2>1 DEF MidFits, FxMid
  <1>6. ASSUME NEW mid \in mids' PROVE MidFits(mid, fxNow)'
    <2>1. CASE mid \in mids
      BY <1>1, <2>1 DEF SignInv, MidFits
    <2>2. CASE mid \in {made(rate) : rate \in requests[s].rate}
      <3>1. PICK rate \in requests[s].rate : mid = made(rate)
        BY <2>2
      <3>2. MidFits(made(rate), fxNow)
        BY <1>5
      <3> HIDE DEF made
      <3> QED BY <1>1, <3>1, <3>2 DEF MidFits
    <2> HIDE DEF made
    <2> QED BY <1>1, <1>6, <2>1, <2>2
  <1> HIDE DEF made
  <1>7. requests' \in [Sessions -> FxRequest] /\ AskedFit(requests)'
    BY <1>1, NothingAsked, RequestMade
  <1> QED BY <1>1, <1>2, <1>6, <1>7 DEF SignInv

LEMMA SignInvStep == ASSUME SignInv, PollInv, FxNext PROVE SignInv'
  <1>1. ASSUME QuoteStep PROVE SignInv'
    BY <1>1, PostQuoteKeeps, QuoteVenueKeeps, SignMidKeeps DEF QuoteStep
  <1>2. ASSUME ~QuoteStep PROVE SignInv'
    <2>1. UNCHANGED <<requests, mids, service>>
      BY <1>2 DEF FxNext, PollStep, enqueueCorridorPoll, StartPoll, ObserveAB, ObserveBA, Observe,
                  Healthy, pauseCorridor, ConfirmPause, PollThrows, settleGuarded,
                  FillOutsideGuard, PricesMove, VenueFails, VenueRecovers, TradesMove, Govern,
                  AdminResumes, FxTick, signing
    <2>2. ttlCap' \in TtlCaps
      BY <1>2 DEF FxNext, PollStep, enqueueCorridorPoll, StartPoll, ObserveAB, ObserveBA, Observe,
                  Healthy, pauseCorridor, ConfirmPause, PollThrows, settleGuarded,
                  FillOutsideGuard, PricesMove, VenueFails, VenueRecovers, TradesMove, Govern,
                  AdminResumes, FxTick, market, SignInv
    <2>3. fxNow \in Nat /\ (fxNow' = fxNow \/ fxNow' = fxNow + 1)
      BY <1>2 DEF FxNext, PollStep, enqueueCorridorPoll, StartPoll, ObserveAB, ObserveBA, Observe,
                  Healthy, pauseCorridor, ConfirmPause, PollThrows, settleGuarded,
                  FillOutsideGuard, PricesMove, VenueFails, VenueRecovers, TradesMove, Govern,
                  AdminResumes, FxTick, market, PollInv
    <2>4. fxNow' \in Nat /\ fxNow' >= fxNow
      BY <2>3
    <2>5. (\A mid \in mids : MidFits(mid, fxNow))'
      BY <2>1, <2>3, <2>4, MidsStay
    <2> QED BY <2>1, <2>2, <2>5 DEF SignInv, AskedFit
  <1> QED BY <1>1, <1>2

LEMMA TimesKeepsOrder ==
    ASSUME NEW a \in Nat, NEW b \in Nat, NEW k \in Nat, a <= b PROVE a * k <= b * k
  OBVIOUS

LEMMA QuotientBelow ==
    ASSUME NEW a \in Nat, NEW n \in Nat \ {0}
    PROVE  a \div n \in Nat /\ a <= (a \div n) * n + n
  OBVIOUS

\* Two floors lose less than two units of what they divide by.
LEMMA FloorsLoseLittle ==
    ASSUME NEW b \in Nat, NEW one \in Nat \ {0}, NEW whole \in Nat \ {0}, NEW k \in Nat,
           k <= whole, NEW out \in Nat, out >= ((b \div one) * k) \div whole
    PROVE  out * whole * one + whole * one + one * whole >= b * k
  <1> DEFINE q == b \div one
             c == q * k
             f == c \div whole
  <1>1. q \in Nat /\ b <= q * one + one
    BY QuotientBelow
  <1>2. c \in Nat
    BY <1>1
  <1>3. f \in Nat /\ c <= f * whole + whole
    BY <1>2, QuotientBelow
  <1>4. out >= f
    OBVIOUS
  <1>5. (q * one + one) * k = c * one + one * k
    BY <1>1
  <1> HIDE DEF q
  <1>6. b * k <= (q * one + one) * k
    BY <1>1, TimesKeepsOrder
  <1> HIDE DEF c, f
  <1>7. c * one <= (f * whole + whole) * one
    BY <1>2, <1>3, TimesKeepsOrder
  <1>8. f * (whole * one) <= out * (whole * one)
    BY <1>3, <1>4, TimesKeepsOrder
  <1>9. k * one <= whole * one
    BY TimesKeepsOrder
  <1>10. (f * whole + whole) * one = f * (whole * one) + whole * one
    BY <1>3
  <1>11. out * whole * one = out * (whole * one) /\ one * k = k * one /\ one * whole = whole * one
    OBVIOUS
  <1> DEFINE bk == b * k
             ck == c * one
             fw == f * (whole * one)
             ow == out * (whole * one)
             wo == whole * one
             ko == k * one
  <1>12. bk \in Nat /\ ck \in Nat /\ fw \in Nat /\ ow \in Nat /\ wo \in Nat /\ ko \in Nat
    BY <1>2, <1>3
  <1>13. bk <= ck + ko /\ ck <= fw + wo /\ fw <= ow /\ ko <= wo
    BY <1>5, <1>6, <1>7, <1>8, <1>9, <1>10, <1>11
  <1>14. (ow + wo + wo >= bk) => (out * whole * one + whole * one + one * whole >= b * k)
    BY <1>11
  <1> HIDE DEF bk, ck, fw, ow, wo, ko
  <1> QED BY <1>12, <1>13, <1>14

LEMMA FillInvStep == ASSUME FillInv, SignInv, PollInv, FxNext PROVE FillInv'
  <1>1. service' = service
    BY DEF FxNext, PollStep, enqueueCorridorPoll, StartPoll, ObserveAB, ObserveBA, Observe,
           Healthy, pauseCorridor, ConfirmPause, PollThrows, QuoteStep, PostQuote, QuoteVenue,
           signMid, Asking, settleGuarded, FillOutsideGuard, PricesMove, VenueFails,
           VenueRecovers, TradesMove, Govern, AdminResumes, FxTick
  <1>2. ASSUME NEW mid \in mids, settleGuarded(mid) PROVE FillInv'
    <2>1. PICK amountOut \in Deliverable :
             /\ amountOut >= floorFor(mid.rate)
             /\ fills' = fills \cup {[mid |-> mid, amountOut |-> amountOut,
                                      order |-> Cardinality(fills) + 1, at |-> fxNow]}
      BY <1>2 DEF settleGuarded
    <2> DEFINE filled == [mid |-> mid, amountOut |-> amountOut,
                          order |-> Cardinality(fills) + 1, at |-> fxNow]
    <2>2. MidFits(mid, fxNow)
      BY DEF SignInv
    <2>3. mid.rate \in Rates /\ mid.rate \in Nat /\ service.keyed
      BY <2>2, CorridorAssumption DEF MidFits, FxMid
    <2>4. AmountIn \in Nat /\ One \in Nat \ {0} /\ FX_BPS \in Nat \ {0}
          /\ FX_BPS - MAX_DEVIATION \in Nat /\ FX_BPS - MAX_DEVIATION <= FX_BPS
      BY CorridorAssumption
    <2>5. amountOut \in Nat
      <3>1. PICK r \in Rates : amountOut = (AmountIn * r) \div One
        BY DEF Deliverable
      <3>2. AmountIn * r \in Nat
        BY <2>4, CorridorAssumption
      <3> QED BY <2>4, <3>1, <3>2, QuotientBelow
    <2>6. amountOut * FX_BPS * One + FX_BPS * One + One * FX_BPS
             >= AmountIn * mid.rate * (FX_BPS - MAX_DEVIATION)
      <3> DEFINE b == AmountIn * mid.rate
                 k == FX_BPS - MAX_DEVIATION
      <3>1. b \in Nat
        BY <2>3, <2>4
      <3>2. k \in Nat /\ k <= FX_BPS
        BY <2>4
      <3>3. amountOut >= ((b \div One) * k) \div FX_BPS
        BY <2>1 DEF floorFor
      <3> HIDE DEF b, k
      <3>4. amountOut * FX_BPS * One + FX_BPS * One + One * FX_BPS >= b * k
        BY <2>4, <2>5, <3>1, <3>2, <3>3, FloorsLoseLittle
      <3> QED BY <3>4 DEF b, k
    <2>7. fxNow <= mid.validUntil /\ \A f \in fills : f.mid.session # mid.session
      BY <1>2 DEF settleGuarded, Presentable, midUsed
    <2>8. filled.mid = mid /\ filled.amountOut = amountOut /\ filled.at = fxNow
      OBVIOUS
    <2>9. fills' = fills \cup {filled}
      BY <2>1
    <2> HIDE DEF filled
    <2>10. Promised(filled)
      BY <2>5, <2>6, <2>8 DEF Promised
    <2>11. \A f \in fills' : FillFits(f)'
      BY <1>1, <2>3, <2>7, <2>8, <2>9, <2>10 DEF FillFits, FillInv
    <2>12. OncePerSession(fills')
      BY <2>7, <2>8, <2>9 DEF OncePerSession, FillInv
    <2>13. filled \notin fills /\ filled.order = Cardinality(fills) + 1
      BY <2>7, <2>8 DEF filled
    <2>14. IsFiniteSet(fills) /\ \A f \in fills : f.order \in 1 .. Cardinality(fills)
      BY DEF FillInv, Numbered
    <2>15. IsFiniteSet(fills') /\ Cardinality(fills') = Cardinality(fills) + 1
      BY <2>9, <2>13, <2>14, FS_AddElement
    <2>16. Cardinality(fills) \in Nat
      BY <2>14, FS_CardinalityType
    <2>17. \A f \in fills : f.order \in 1 .. Cardinality(fills) + 1
      BY <2>14, <2>16
    <2>18. Numbered(fills')
      <3> DEFINE n == Cardinality(fills)
                 all == fills'
      <3>1. all = fills \cup {filled} /\ filled.order = n + 1 /\ n \in Nat
            /\ \A f \in fills : f.order \in 1 .. n + 1
        BY <2>9, <2>13, <2>16, <2>17
      <3>2. IsFiniteSet(all) /\ Cardinality(all) = n + 1
        BY <2>15
      <3> HIDE DEF n, all
      <3>3. \A f \in all : f.order \in 1 .. n + 1
        BY <3>1
      <3>4. filled \in all
        BY <3>1
      <3>5. Numbered(all)
        BY <3>1, <3>2, <3>3, <3>4 DEF Numbered
      <3> QED BY <3>5 DEF all
    <2> QED BY <2>11, <2>12, <2>18 DEF FillInv
  <1>3. ASSUME fills' = fills PROVE FillInv'
    BY <1>1, <1>3 DEF FillInv, FillFits
  <1>4. (\E mid \in mids : settleGuarded(mid)) \/ fills' = fills
    BY DEF FxNext, PollStep, enqueueCorridorPoll, StartPoll, ObserveAB, ObserveBA, Observe,
           Healthy, pauseCorridor, ConfirmPause, PollThrows, QuoteStep, PostQuote, QuoteVenue,
           signMid, Asking, FillOutsideGuard, PricesMove, VenueFails,
           VenueRecovers, TradesMove, Govern, AdminResumes, FxTick, guard
  <1> QED BY <1>2, <1>3, <1>4

LEMMA CorridorInvInit == FxInit => CorridorInv
  <1> SUFFICES ASSUME FxInit PROVE CorridorInv
    OBVIOUS
  <1>1. One \in Rates
    BY CorridorAssumption
  <1>2. VenueFits(venue)
    BY <1>1 DEF FxInit, VenueFits
  <1>3. poll \in PollRecord /\ TalliesItsLegs(poll) /\ LegsShow(poll, venue, service)
    BY IdleIsAPoll DEF FxInit
  <1>4. SnapshotFits(snapshot) /\ fxNow \in Nat
    BY DEF FxInit, SnapshotFits
  <1>5. PollInv
    BY <1>2, <1>3, <1>4 DEF PollInv
  <1>6. requests \in [Sessions -> FxRequest] /\ AskedFit(requests)
    BY NothingAsked DEF FxInit, AskedFit
  <1>7. SignInv
    BY <1>6 DEF FxInit, SignInv
  <1>8. FillInv
    BY FS_EmptySet DEF FxInit, FillInv, OncePerSession, Numbered
  <1> QED BY <1>5, <1>7, <1>8 DEF CorridorInv

LEMMA CorridorInvStep == CorridorInv /\ [FxNext]_fxVars => CorridorInv'
  <1>1. ASSUME CorridorInv, FxNext PROVE CorridorInv'
    BY <1>1, PollInvStep, SignInvStep, FillInvStep DEF CorridorInv
  <1>2. ASSUME CorridorInv, UNCHANGED fxVars PROVE CorridorInv'
    BY <1>2 DEF CorridorInv, PollInv, SignInv, AskedFit, MidFits, FillInv, FillFits, fxVars,
                market, guard, signing, polling
  <1> QED BY <1>1, <1>2

\* What each of the six reasons to stop asks for.
LEMMA ReasonsToStop ==
    ASSUME NEW input, NEW reason \in evaluateCorridorHealth(input)
    PROVE  \/ \E q \in input.legAB : /\ input.lastAcceptedMid # 0
                                     /\ deviationBps(q.rate, input.lastAcceptedMid) > PAR_BAND
           \/ LET legs == input.legAB \cup input.legBA IN
              legs # {} /\ \A q \in legs : input.now - q.at > MAX_AGE
           \/ \E q \in input.legAB, r \in input.legBA :
                  roundTripDeviationBps(q.rate, r.rate) > ROUNDTRIP
           \/ input.tradeStatuses \cap DISTRESS_STATUSES # {}
           \/ OUTAGE_FAILURES > 0 /\ input.consecutiveFailures >= OUTAGE_FAILURES
           \/ input.guardReverts > 0
  BY DEF evaluateCorridorHealth, TripReason

LEMMA TheLastMidIsARate == ASSUME CorridorInv PROVE lastAcceptedMid \in Nat
  <1>1. CASE fills = {}
    BY <1>1 DEF lastAcceptedMid
  <1>2. CASE fills # {}
    <2>1. /\ \A f \in fills : f.order \in 1 .. Cardinality(fills)
          /\ \E f \in fills : f.order = Cardinality(fills)
      BY <1>2 DEF CorridorInv, FillInv, Numbered
    <2>2. \E f \in fills : \A g \in fills : g.order <= f.order
      BY <2>1
    <2> DEFINE last == CHOOSE f \in fills : \A g \in fills : g.order <= f.order
    <2>3. last \in fills
      BY <2>2
    <2>4. lastAcceptedMid = last.mid.rate
      BY <1>2 DEF lastAcceptedMid
    <2> HIDE DEF last
    <2>5. last.mid.rate \in Nat
      BY <2>3, CorridorAssumption DEF CorridorInv, FillInv, FillFits
    <2> QED BY <2>4, <2>5
  <1> QED BY <1>1, <1>2

LEMMA DeviationsAreNumbers ==
    ASSUME NEW a \in Nat, NEW b \in Nat PROVE deviationBps(a, b) \in Nat
  <1>1. FX_BPS \in Nat /\ Apart(a, b) \in Nat
    BY CorridorAssumption DEF Apart
  <1>2. Apart(a, b) * FX_BPS \in Nat
    BY <1>1
  <1>3. b # 0 => (Apart(a, b) * FX_BPS) \div b \in Nat
    BY <1>2, QuotientBelow
  <1> QED BY <1>3 DEF deviationBps

LEMMA QuietMarketsAreQuiet == ASSUME CorridorInv PROVE QuietMarketsStayOpen
  <1> SUFFICES ASSUME poll.stage = "judge", stillness, InBand, NEW reason \in Verdict
               PROVE  FALSE
    BY DEF QuietMarketsStayOpen
  <1>0. poll.failures = 0
    <2>1. ~Silent(venue, service)
      BY DEF InBand, Answers, resolveFxVenue, Silent
    <2>2. poll.legAB # {} /\ poll.legBA # {}
      BY <2>1 DEF CorridorInv, PollInv, LegsShow
    <2> QED BY <2>2 DEF CorridorInv, PollInv, TalliesItsLegs, Missing
  <1> DEFINE par == lastAcceptedMid
             input == [legAB |-> poll.legAB, legBA |-> poll.legBA, now |-> poll.now,
                       lastAcceptedMid |-> par, tradeStatuses |-> trades,
                       consecutiveFailures |-> poll.failures, guardReverts |-> guardReverts]
  <1>1. reason \in evaluateCorridorHealth(input)
    BY DEF Verdict
  <1>2. /\ \A q \in poll.legAB : q.rate = venue.ab /\ q.at = poll.now
        /\ \A q \in poll.legBA : q.rate = venue.ba /\ q.at = poll.now
    BY DEF CorridorInv, PollInv, LegsShow
  <1>3. poll.now \in Nat /\ MAX_AGE \in Nat /\ OUTAGE_FAILURES \in Nat
    BY CorridorAssumption DEF CorridorInv, PollInv, PollRecord
  <1>4. /\ par # 0 => ~(deviationBps(venue.ab, par) > PAR_BAND)
        /\ ~(roundTripDeviationBps(venue.ab, venue.ba) > ROUNDTRIP)
        /\ trades \cap DISTRESS_STATUSES = {} /\ guardReverts = 0
    <2>1. par \in Nat /\ venue.ab \in Nat /\ venue.ba \in Nat
          /\ PAR_BAND \in Nat /\ ROUNDTRIP \in Nat /\ One \in Nat \ {0}
      BY TheLastMidIsARate, CorridorAssumption DEF CorridorInv, PollInv, VenueFits
    <2>2. venue.ab * venue.ba \in Nat
      BY <2>1
    <2>3. (venue.ab * venue.ba) \div One \in Nat
      BY <2>1, <2>2, QuotientBelow
    <2>4. deviationBps(venue.ab, par) \in Nat
          /\ roundTripDeviationBps(venue.ab, venue.ba) \in Nat
      BY <2>1, <2>3, DeviationsAreNumbers DEF roundTripDeviationBps
    <2>5. /\ par # 0 => deviationBps(venue.ab, par) <= PAR_BAND
          /\ roundTripDeviationBps(venue.ab, venue.ba) <= ROUNDTRIP
          /\ trades \cap DISTRESS_STATUSES = {} /\ guardReverts = 0
      BY DEF InBand
    <2> HIDE DEF par
    <2> QED BY <2>1, <2>4, <2>5
  <1>5. /\ input.legAB = poll.legAB /\ input.legBA = poll.legBA /\ input.now = poll.now
        /\ input.lastAcceptedMid = par /\ input.tradeStatuses = trades
        /\ input.consecutiveFailures = 0 /\ input.guardReverts = 0
    BY <1>0, <1>4
  <1> HIDE DEF input, par
  <1>6. ~(poll.now - poll.now > MAX_AGE)
    BY <1>3
  <1> QED BY <1>1, <1>2, <1>3, <1>4, <1>5, <1>6, ReasonsToStop

\* As many legs as went unanswered, no more and no fewer.
LEMMA OutagesAreItsOwn == ASSUME CorridorInv PROVE OutagesAreThisPollsOwn
  <1> DEFINE unanswered == {leg \in {"legAB", "legBA"} : poll[leg] = {}}
  <1> SUFFICES ASSUME poll.stage = "judge"
               PROVE  /\ "Outage" \in Verdict <=> OUTAGE_FAILURES \in 1 .. Cardinality(unanswered)
                      /\ stillness /\ ~Answers(service) => Cardinality(unanswered) = 2
    BY DEF OutagesAreThisPollsOwn
  <1>1. poll.failures = Missing(poll.legAB) + Missing(poll.legBA)
    BY DEF CorridorInv, PollInv, TalliesItsLegs
  <1>2. Cardinality(unanswered) = Missing(poll.legAB) + Missing(poll.legBA)
    <2>1. CASE poll.legAB = {} /\ poll.legBA = {}
      <3>1. unanswered = {"legAB", "legBA"}
        BY <2>1
      <3>2. unanswered = {"legAB"} \cup {"legBA"}
        BY <3>1
      <3>3. IsFiniteSet({"legAB"}) /\ Cardinality({"legAB"}) = 1
        BY FS_Singleton
      <3>4. Cardinality({"legAB"} \cup {"legBA"}) = 1 + 1
        BY <3>3, FS_AddElement
      <3> HIDE DEF unanswered
      <3>5. Missing(poll.legAB) = 1 /\ Missing(poll.legBA) = 1
        BY <2>1 DEF Missing
      <3> QED BY <3>2, <3>4, <3>5
    <2>2. CASE poll.legAB = {} /\ poll.legBA # {}
      <3>1. unanswered = {"legAB"}
        BY <2>2
      <3> HIDE DEF unanswered
      <3>2. Missing(poll.legAB) = 1 /\ Missing(poll.legBA) = 0
        BY <2>2 DEF Missing
      <3>3. Cardinality({"legAB"}) = 1
        BY FS_Singleton
      <3> QED BY <3>1, <3>2, <3>3
    <2>3. CASE poll.legAB # {} /\ poll.legBA = {}
      <3>1. unanswered = {"legBA"}
        BY <2>3
      <3> HIDE DEF unanswered
      <3>2. Missing(poll.legAB) = 0 /\ Missing(poll.legBA) = 1
        BY <2>3 DEF Missing
      <3>3. Cardinality({"legBA"}) = 1
        BY FS_Singleton
      <3> QED BY <3>1, <3>2, <3>3
    <2>4. CASE poll.legAB # {} /\ poll.legBA # {}
      <3>1. unanswered = {}
        BY <2>4
      <3> HIDE DEF unanswered
      <3> QED BY <2>4, <3>1, FS_EmptySet DEF Missing
    <2> QED BY <2>1, <2>2, <2>3, <2>4
  <1> HIDE DEF unanswered
  <1>3. Cardinality(unanswered) = poll.failures /\ poll.failures \in Nat
    BY <1>1, <1>2 DEF CorridorInv, PollInv, PollRecord
  <1>4. "Outage" \in Verdict <=> OUTAGE_FAILURES > 0 /\ poll.failures >= OUTAGE_FAILURES
    BY DEF Verdict, evaluateCorridorHealth, TripReason
  <1>5. "Outage" \in Verdict <=> OUTAGE_FAILURES \in 1 .. Cardinality(unanswered)
    <2>1. OUTAGE_FAILURES \in Nat
      BY CorridorAssumption
    <2> QED BY <1>3, <1>4, <2>1
  <1>6. ASSUME stillness, ~Answers(service) PROVE Cardinality(unanswered) = 2
    <2>1. Silent(venue, service)
      BY <1>6 DEF Answers, resolveFxVenue, Silent
    <2>2. poll.legAB = {} /\ poll.legBA = {}
      BY <1>6, <2>1 DEF CorridorInv, PollInv, LegsShow
    <2> QED BY <1>2, <2>2 DEF Missing
  <1> QED BY <1>5, <1>6

LEMMA CorridorInvSuffices == CorridorInv => TripsAreWarranted /\ MidsAreHonoured
  <1> SUFFICES ASSUME CorridorInv PROVE TripsAreWarranted /\ MidsAreHonoured
    OBVIOUS
  <1>1. FxRecords
    BY DEF CorridorInv, PollInv, SignInv, MidFits, SnapshotFits, FxRecords
  <1>3. SignedMidsAreTaken
    <2> SUFFICES ASSUME NEW mid \in mids, mid.maxTtl <= ttlCap PROVE ~MidTooLong(mid)
      BY DEF SignedMidsAreTaken
    <2>1. mid.validUntil \in Nat /\ mid.maxTtl \in Nat /\ ttlCap \in Nat /\ fxNow \in Nat
          /\ mid.validUntil <= fxNow + mid.maxTtl
      BY CorridorAssumption DEF CorridorInv, SignInv, PollInv, MidFits, FxMid
    <2> QED BY <2>1 DEF MidTooLong
  <1>4. FillsKeepTheQuote
    BY DEF CorridorInv, FillInv, FillFits, Promised, OncePerSession, FillsKeepTheQuote,
           resolveFxVenue
  <1> QED BY <1>1, <1>3, <1>4, QuietMarketsAreQuiet, OutagesAreItsOwn
          DEF TripsAreWarranted, MidsAreHonoured

LEMMA CorridorInFocus == focus = "fx" /\ [OperatorNext]_operatorVars => [FxNext]_fxVars
  <1>1. ASSUME focus = "fx", OperatorNext PROVE FxNext
    BY <1>1 DEF OperatorNext, Others
  <1> QED BY <1>1 DEF operatorVars

CorridorInFocusHold == focus = "fx" => CorridorInv

\* However polls, quotes, fills, the market, the clock and governance interleave: a poll
\* over a market that answers and stands still inside every band never closes the corridor,
\* whatever failed in earlier windows; the breaker calls an outage what this very poll found
\* unanswered, as many legs as OUTAGE_FAILURES asks for; an unexpired mid signed under a cap
\* no higher than today's is not refused as too long; and a fill, once per session, pays
\* what the mid promised (services/fx/src/breaker.ts, mid.ts, FxDeviationGuard.sol).
THEOREM CorridorAlwaysHolds == OperatorSpec => []CorridorHolds
  <1>1. OperatorInit => CorridorInFocusHold
    BY CorridorInvInit DEF OperatorInit, FxStart, CorridorInFocusHold
  <1>2. CorridorInFocusHold /\ [OperatorNext]_operatorVars => CorridorInFocusHold'
    BY FocusStays, CorridorInFocus, CorridorInvStep DEF CorridorInFocusHold
  <1>3. CorridorInFocusHold => CorridorHolds
    BY CorridorInvSuffices DEF CorridorInFocusHold, CorridorHolds
  <1> QED BY <1>1, <1>2, <1>3, PTL DEF OperatorSpec

(***************************************************************************)
(* The screening list.  A run is given one status for each account, from a *)
(* feed that may move on meanwhile, and each update it was given is in one *)
(* of three places: still to be read, still to be written, or true of the  *)
(* chain.  No day passes while a run is at work, so true means since today.*)
(***************************************************************************)

Elems(s) == {s[i] : i \in DOMAIN s}

UpdateRecord == [account : Screened, status : ComplianceStatus]
RunRecord ==
    [stage : {"none", "reading", "writing"}, now : 0 .. ScreenDays,
     updates : Seq(UpdateRecord), pending : Seq(UpdateRecord), changed : SUBSET UpdateRecord,
     refreshed : SUBSET UpdateRecord, skipped : SUBSET UpdateRecord]

Calendar ==
    /\ feed \in [Screened -> ComplianceStatus]
    /\ day \in 0 .. ScreenDays /\ ranOn \in 0 .. day /\ day <= ranOn + 2

\* Screened after the last run, or not long before it.
Recent(list, today, finished) ==
    /\ list \in [Screened -> ComplianceRecord]
    /\ \A a \in Screened : /\ list[a].screenedAt <= today
                           /\ finished < list[a].screenedAt + REFRESH_AFTER

Given(r) == Elems(r.updates) \cup Elems(r.pending) \cup r.changed \cup r.refreshed \cup r.skipped
SaidBy(g, all) == \A u \in all : u.status = g[u.account]
OneWord(r) == \E g \in [Screened -> ComplianceStatus] : SaidBy(g, Given(r))

NobodyLeftOut(r) ==
    r.stage # "none" =>
        \A a \in Screened :
            \E u \in Elems(r.updates) \cup r.changed \cup r.refreshed \cup r.skipped :
                u.account = a

WrittenSince(list, u, now) ==
    list[u.account].status = u.status /\ list[u.account].screenedAt >= now
KnownRecent(list, u, now) ==
    list[u.account].status = u.status /\ now - list[u.account].screenedAt < REFRESH_AFTER

Kept(r, list) ==
    /\ \A u \in r.changed \cup r.refreshed :
          u \in Elems(r.pending) \/ WrittenSince(list, u, r.now)
    /\ \A u \in r.skipped : KnownRecent(list, u, r.now)

RunFits(r, list, today) ==
    /\ r \in RunRecord /\ (r.stage # "none" => r.now = today)
    /\ r.stage = "writing" => r.updates = <<>>
    /\ OneWord(r) /\ NobodyLeftOut(r) /\ Kept(r, list)

ScreenInv == Calendar /\ Recent(chain, day, ranOn) /\ RunFits(run, chain, day)

LEMMA ElemsEmpty == Elems(<<>>) = {}
  BY DEF Elems

LEMMA ElemsTail ==
    ASSUME NEW T, NEW s \in Seq(T), s # <<>>
    PROVE  /\ Head(s) \in T /\ Tail(s) \in Seq(T)
           /\ \A u : u \in Elems(s) <=> u = Head(s) \/ u \in Elems(Tail(s))
  <1>1. Len(s) \in Nat \ {0} /\ DOMAIN s = 1 .. Len(s) /\ Head(s) = s[1]
    OBVIOUS
  <1>2. Tail(s) \in Seq(T) /\ DOMAIN Tail(s) = 1 .. (Len(s) - 1)
        /\ \A i \in 1 .. (Len(s) - 1) : Tail(s)[i] = s[i + 1]
    BY <1>1
  <1>3. ASSUME NEW u, u \in Elems(s) PROVE u = Head(s) \/ u \in Elems(Tail(s))
    <2>1. PICK i \in 1 .. Len(s) : u = s[i]
      BY <1>1, <1>3 DEF Elems
    <2>2. CASE i = 1
      BY <1>1, <2>1, <2>2
    <2>3. CASE i # 1
      <3>1. i - 1 \in 1 .. (Len(s) - 1) /\ (i - 1) + 1 = i
        BY <1>1, <2>3
      <3>2. Tail(s)[i - 1] = u
        BY <1>2, <2>1, <3>1
      <3> QED BY <1>2, <3>1, <3>2 DEF Elems
    <2> QED BY <2>2, <2>3
  <1>4. ASSUME NEW u, u = Head(s) \/ u \in Elems(Tail(s)) PROVE u \in Elems(s)
    <2>1. CASE u = Head(s)
      BY <1>1, <2>1 DEF Elems
    <2>2. CASE u \in Elems(Tail(s))
      <3>1. PICK i \in 1 .. (Len(s) - 1) : u = Tail(s)[i]
        BY <1>2, <2>2 DEF Elems
      <3>2. i + 1 \in DOMAIN s /\ u = s[i + 1]
        BY <1>1, <1>2, <3>1
      <3> QED BY <3>2 DEF Elems
    <2> QED BY <1>4, <2>1, <2>2
  <1> QED BY <1>1, <1>2, <1>3, <1>4

LEMMA ElemsAppend ==
    ASSUME NEW T, NEW s \in Seq(T), NEW x \in T
    PROVE  /\ Append(s, x) \in Seq(T)
           /\ \A u : u \in Elems(Append(s, x)) <=> u \in Elems(s) \/ u = x
  <1> DEFINE longer == Append(s, x)
  <1>1. /\ longer \in Seq(T) /\ DOMAIN longer = 1 .. (Len(s) + 1) /\ DOMAIN s = 1 .. Len(s)
        /\ Len(s) \in Nat /\ longer[Len(s) + 1] = x /\ \A i \in 1 .. Len(s) : longer[i] = s[i]
    OBVIOUS
  <1> HIDE DEF longer
  <1>2. ASSUME NEW u, u \in Elems(longer) PROVE u \in Elems(s) \/ u = x
    <2>1. PICK i \in 1 .. (Len(s) + 1) : u = longer[i]
      BY <1>1, <1>2 DEF Elems
    <2>2. i = Len(s) + 1 \/ i \in 1 .. Len(s)
      BY <1>1
    <2> QED BY <1>1, <2>1, <2>2 DEF Elems
  <1>3. ASSUME NEW u, u \in Elems(s) \/ u = x PROVE u \in Elems(longer)
    <2>1. CASE u \in Elems(s)
      <3>1. PICK i \in 1 .. Len(s) : u = s[i]
        BY <1>1, <2>1 DEF Elems
      <3>2. i \in 1 .. (Len(s) + 1) /\ longer[i] = u
        BY <1>1, <3>1
      <3> QED BY <1>1, <3>2 DEF Elems
    <2>2. CASE u = x
      <3>1. Len(s) + 1 \in 1 .. (Len(s) + 1)
        BY <1>1
      <3> QED BY <1>1, <2>2, <3>1 DEF Elems
    <2> QED BY <1>3, <2>1, <2>2
  <1>4. \A u : u \in Elems(longer) <=> u \in Elems(s) \/ u = x
    BY <1>2, <1>3
  <1> QED BY <1>1, <1>4 DEF longer

LEMMA ElemsBatch ==
    ASSUME NEW T, NEW s \in Seq(T)
    PROVE  LET first == BatchOf(s)
               rest == SubSeq(s, Len(first) + 1, Len(s))
           IN  /\ first \in Seq(T) /\ rest \in Seq(T)
               /\ \A u \in Elems(s) : u \in Elems(first) \/ u \in Elems(rest)
               /\ \A u : u \in Elems(first) \/ u \in Elems(rest) => u \in Elems(s)
  <1> DEFINE n == IF Len(s) < BATCH_SIZE THEN Len(s) ELSE BATCH_SIZE
             first == SubSeq(s, 1, n)
             rest == SubSeq(s, n + 1, Len(s))
  <1>1. Len(s) \in Nat /\ DOMAIN s = 1 .. Len(s)
    OBVIOUS
  <1>2. n \in Nat /\ n <= Len(s)
    BY <1>1, FreshnessAssumption
  <1> HIDE DEF n
  <1>3. /\ first \in Seq(T) /\ Len(first) = n /\ DOMAIN first = 1 .. n
        /\ \A i \in 1 .. n : first[i] = s[i]
    BY <1>1, <1>2
  <1>4. /\ rest \in Seq(T) /\ DOMAIN rest = 1 .. (Len(s) - n)
        /\ \A i \in 1 .. (Len(s) - n) : rest[i] = s[i + n]
    BY <1>1, <1>2
  <1>5. BatchOf(s) = first
    BY DEF BatchOf, n
  <1> HIDE DEF first, rest
  <1>6. ASSUME NEW u \in Elems(s) PROVE u \in Elems(first) \/ u \in Elems(rest)
    <2>1. PICK i \in 1 .. Len(s) : u = s[i]
      BY <1>1 DEF Elems
    <2>2. CASE i <= n
      <3>1. i \in 1 .. n
        BY <1>2, <2>2
      <3> QED BY <1>3, <2>1, <3>1 DEF Elems
    <2>3. CASE i > n
      <3>1. i - n \in 1 .. (Len(s) - n) /\ (i - n) + n = i
        BY <1>1, <1>2, <2>3
      <3>2. rest[i - n] = u
        BY <1>4, <2>1, <3>1
      <3> QED BY <1>4, <3>1, <3>2 DEF Elems
    <2> QED BY <1>1, <1>2, <2>2, <2>3
  <1>7. ASSUME NEW u, u \in Elems(first) \/ u \in Elems(rest) PROVE u \in Elems(s)
    <2>1. CASE u \in Elems(first)
      <3>1. PICK i \in 1 .. n : u = first[i]
        BY <1>3, <2>1 DEF Elems
      <3>2. i \in DOMAIN s /\ u = s[i]
        BY <1>1, <1>2, <1>3, <3>1
      <3> QED BY <3>2 DEF Elems
    <2>2. CASE u \in Elems(rest)
      <3>1. PICK i \in 1 .. (Len(s) - n) : u = rest[i]
        BY <1>4, <2>2 DEF Elems
      <3>2. i + n \in DOMAIN s /\ u = s[i + n]
        BY <1>1, <1>2, <1>4, <3>1
      <3> QED BY <3>2 DEF Elems
    <2> QED BY <1>7, <2>1, <2>2
  <1>8. rest = SubSeq(s, Len(first) + 1, Len(s))
    BY <1>3 DEF rest
  <1> QED BY <1>3, <1>4, <1>5, <1>6, <1>7, <1>8

\* Nothing of a run that is not under way can be wrong.
LEMMA IdleRunFits ==
    ASSUME NEW list, NEW today PROVE RunFits(NoRun, list, today)
  <1>1. NoRun \in RunRecord /\ NoRun.stage = "none"
    BY FreshnessAssumption DEF NoRun, RunOf, RunRecord
  <1>2. Given(NoRun) = {}
    BY ElemsEmpty DEF Given, NoRun, RunOf
  <1>3. [a \in Screened |-> "Clear"] \in [Screened -> ComplianceStatus]
    BY DEF ComplianceStatus
  <1>4. OneWord(NoRun)
    BY <1>2, <1>3 DEF OneWord, SaidBy
  <1>5. Kept(NoRun, list)
    BY ElemsEmpty DEF Kept, NoRun, RunOf
  <1> QED BY <1>1, <1>4, <1>5 DEF RunFits, NobodyLeftOut

LEMMA BeginRunKeeps == ASSUME ScreenInv, BeginRun PROVE ScreenInv'
  <1> DEFINE given == [i \in DOMAIN FeedOrder |-> Update(FeedOrder[i], feed[FeedOrder[i]])]
             r == RunOf("reading", day, given)
  <1>1. run' = r /\ UNCHANGED <<feed, chain, day, ranOn>>
    BY DEF BeginRun
  <1>2. feed \in [Screened -> ComplianceStatus] /\ day \in 0 .. ScreenDays
    BY DEF ScreenInv, Calendar
  <1>3. /\ FeedOrder \in Seq(Screened) /\ DOMAIN FeedOrder = 1 .. Len(FeedOrder)
        /\ Len(FeedOrder) \in Nat /\ \A i \in DOMAIN FeedOrder : FeedOrder[i] \in Screened
    BY FeedAssumption
  <1>4. \A i \in DOMAIN FeedOrder : given[i] \in UpdateRecord
    BY <1>2, <1>3 DEF Update, UpdateRecord
  <1>5. given \in Seq(UpdateRecord) /\ DOMAIN given = DOMAIN FeedOrder
    BY <1>3, <1>4
  <1>6. /\ \A u \in Elems(given) : u.status = feed[u.account]
        /\ \A a \in Screened : \E u \in Elems(given) : u.account = a
    <2>1. \A i \in DOMAIN FeedOrder :
             given[i].account = FeedOrder[i] /\ given[i].status = feed[FeedOrder[i]]
      BY DEF Update
    <2> HIDE DEF given
    <2>2. \A u \in Elems(given) : u.status = feed[u.account]
      BY <1>5, <2>1 DEF Elems
    <2>3. ASSUME NEW a \in Screened PROVE \E u \in Elems(given) : u.account = a
      <3>1. PICK i \in DOMAIN FeedOrder : FeedOrder[i] = a
        BY FeedAssumption
      <3>2. given[i] \in Elems(given) /\ given[i].account = a
        BY <1>5, <2>1, <3>1 DEF Elems
      <3> QED BY <3>2
    <2> QED BY <2>2, <2>3
  <1> HIDE DEF given
  <1>7. /\ r \in RunRecord /\ r.stage = "reading" /\ r.now = day /\ r.updates = given
        /\ r.pending = <<>> /\ r.changed = {} /\ r.refreshed = {} /\ r.skipped = {}
    BY <1>2, <1>5 DEF RunOf, RunRecord
  <1> HIDE DEF r
  <1>8. OneWord(r)
    <2>1. Given(r) = Elems(given)
      BY <1>7, ElemsEmpty DEF Given
    <2> QED BY <1>2, <1>6, <2>1 DEF OneWord, SaidBy
  <1>9. NobodyLeftOut(r) /\ Kept(r, chain)
    BY <1>6, <1>7 DEF NobodyLeftOut, Kept
  <1>10. RunFits(r, chain, day)
    BY <1>7, <1>8, <1>9 DEF RunFits
  <1> QED BY <1>1, <1>10 DEF ScreenInv, Calendar

\* Reading takes the first update and puts it in one place.
LEMMA ReadAccountKeeps == ASSUME ScreenInv, ReadAccount PROVE ScreenInv'
  <1> DEFINE u0 == Head(run.updates)
             r == run'
  <1>1. /\ run.stage = "reading" /\ run.updates # <<>> /\ UNCHANGED <<feed, chain, day, ranOn>>
        /\ LET left == [run EXCEPT !.updates = Tail(@)]
               toWrite == [left EXCEPT !.pending = Append(@, u0)]
           IN  r = IF Changed(u0) THEN [toWrite EXCEPT !.changed = @ \cup {u0}]
                   ELSE IF Aged(u0, run.now) THEN [toWrite EXCEPT !.refreshed = @ \cup {u0}]
                   ELSE [left EXCEPT !.skipped = @ \cup {u0}]
    BY DEF ReadAccount
  <1>2. /\ run \in RunRecord /\ run.now = day /\ OneWord(run) /\ NobodyLeftOut(run)
        /\ Kept(run, chain)
    BY <1>1 DEF ScreenInv, RunFits
  <1>3. run.updates \in Seq(UpdateRecord) /\ run.pending \in Seq(UpdateRecord)
    BY <1>2 DEF RunRecord
  <1>4. /\ u0 \in UpdateRecord /\ Tail(run.updates) \in Seq(UpdateRecord)
        /\ \A u : u \in Elems(run.updates) <=> u = u0 \/ u \in Elems(Tail(run.updates))
    BY <1>1, <1>3, ElemsTail
  <1>5. /\ Append(run.pending, u0) \in Seq(UpdateRecord)
        /\ \A u : u \in Elems(Append(run.pending, u0)) <=> u \in Elems(run.pending) \/ u = u0
    BY <1>3, <1>4, ElemsAppend
  <1>6. Calendar /\ Recent(chain, day, ranOn)
    BY DEF ScreenInv
  <1>7. ~Changed(u0) /\ ~Aged(u0, run.now) => KnownRecent(chain, u0, run.now)
    <2> SUFFICES ASSUME ~Changed(u0), ~Aged(u0, run.now) PROVE KnownRecent(chain, u0, run.now)
      OBVIOUS
    <2>1. u0.account \in Screened
      BY <1>4 DEF UpdateRecord
    <2>2. chain[u0.account].screenedAt \in Nat /\ run.now \in Nat /\ REFRESH_AFTER \in Nat
      BY <1>2, <1>6, <2>1, FreshnessAssumption DEF Recent, ComplianceRecord, RunRecord
    <2> HIDE DEF u0
    <2> QED BY <2>2 DEF Changed, Aged, KnownRecent
  <1>8. PICK left, waiting : left = Tail(run.updates) /\ waiting = Append(run.pending, u0)
    OBVIOUS
  <1> HIDE DEF u0
  <1>9. \/ r = [run EXCEPT !.updates = left, !.changed = @ \cup {u0}, !.pending = waiting]
        \/ r = [run EXCEPT !.updates = left, !.refreshed = @ \cup {u0}, !.pending = waiting]
        \/ /\ KnownRecent(chain, u0, run.now)
           /\ r = [run EXCEPT !.updates = left, !.skipped = @ \cup {u0}]
    <2>1. CASE Changed(u0)
      BY <1>1, <1>2, <1>8, <2>1 DEF RunRecord
    <2>2. CASE ~Changed(u0) /\ Aged(u0, run.now)
      BY <1>1, <1>2, <1>8, <2>2 DEF RunRecord
    <2>3. CASE ~Changed(u0) /\ ~Aged(u0, run.now)
      BY <1>1, <1>2, <1>7, <1>8, <2>3 DEF RunRecord
    <2> QED BY <2>1, <2>2, <2>3
  <1>10. /\ left \in Seq(UpdateRecord) /\ waiting \in Seq(UpdateRecord)
         /\ \A u : u \in Elems(run.updates) <=> u = u0 \/ u \in Elems(left)
         /\ \A u : u \in Elems(waiting) <=> u \in Elems(run.pending) \/ u = u0
    BY <1>4, <1>5, <1>8
  <1> HIDE DEF r
  <1>11. /\ r \in RunRecord /\ r.stage = "reading" /\ r.now = day /\ r.updates = left
         /\ \/ /\ r.changed = run.changed \cup {u0} /\ r.refreshed = run.refreshed
               /\ r.skipped = run.skipped /\ r.pending = waiting
            \/ /\ r.changed = run.changed /\ r.refreshed = run.refreshed \cup {u0}
               /\ r.skipped = run.skipped /\ r.pending = waiting
            \/ /\ KnownRecent(chain, u0, run.now)
               /\ r.changed = run.changed /\ r.refreshed = run.refreshed
               /\ r.skipped = run.skipped \cup {u0} /\ r.pending = run.pending
    <2>0. /\ run.stage = "reading" /\ run.now = day /\ run \in RunRecord /\ {u0} \subseteq UpdateRecord
          /\ left \in Seq(UpdateRecord) /\ waiting \in Seq(UpdateRecord)
      BY <1>1, <1>2, <1>4, <1>10
    <2>1. CASE r = [run EXCEPT !.updates = left, !.changed = @ \cup {u0}, !.pending = waiting]
      BY <2>0, <2>1 DEF RunRecord
    <2>2. CASE r = [run EXCEPT !.updates = left, !.refreshed = @ \cup {u0}, !.pending = waiting]
      BY <2>0, <2>2 DEF RunRecord
    <2>3. CASE /\ KnownRecent(chain, u0, run.now)
               /\ r = [run EXCEPT !.updates = left, !.skipped = @ \cup {u0}]
      BY <2>0, <2>3 DEF RunRecord
    <2> QED BY <1>9, <2>1, <2>2, <2>3
  <1>12. OneWord(r)
    <2>1. \A u \in Given(r) : u \in Given(run)
      BY <1>10, <1>11 DEF Given
    <2> QED BY <1>2, <2>1 DEF OneWord, SaidBy
  <1>13. NobodyLeftOut(r)
    <2>1. \A u \in Elems(run.updates) \cup run.changed \cup run.refreshed \cup run.skipped :
              u \in Elems(r.updates) \cup r.changed \cup r.refreshed \cup r.skipped
      BY <1>10, <1>11
    <2> QED BY <1>1, <1>2, <2>1 DEF NobodyLeftOut
  <1>14. Kept(r, chain)
    BY <1>2, <1>10, <1>11 DEF Kept
  <1>15. RunFits(r, chain, day)
    BY <1>11, <1>12, <1>13, <1>14 DEF RunFits
  <1> QED BY <1>1, <1>6, <1>15 DEF ScreenInv, Calendar, r

LEMMA BeginWritesKeeps == ASSUME ScreenInv, BeginWrites PROVE ScreenInv'
  <1> DEFINE r == [run EXCEPT !.stage = "writing"]
  <1>1. run' = r /\ UNCHANGED <<feed, chain, day, ranOn>> /\ run.updates = <<>>
        /\ run.stage = "reading"
    BY DEF BeginWrites
  <1>2. RunFits(run, chain, day) /\ run \in RunRecord
    BY DEF ScreenInv, RunFits
  <1>3. /\ r \in RunRecord /\ r.stage = "writing" /\ r.now = run.now /\ r.updates = run.updates
        /\ r.pending = run.pending /\ r.changed = run.changed
        /\ r.refreshed = run.refreshed /\ r.skipped = run.skipped
    BY <1>2 DEF RunRecord
  <1> HIDE DEF r
  <1>4. OneWord(r) /\ NobodyLeftOut(r) /\ Kept(r, chain)
    BY <1>1, <1>2, <1>3 DEF RunFits, OneWord, Given, NobodyLeftOut, Kept
  <1>5. RunFits(r, chain, day)
    BY <1>1, <1>2, <1>3, <1>4 DEF RunFits
  <1> QED BY <1>1, <1>5 DEF ScreenInv, Calendar

\* What a batch writes is what was said, dated today; the rest it leaves alone.
LEMMA BatchWrites ==
    ASSUME NEW first \in Seq(UpdateRecord), NEW g, SaidBy(g, Elems(first)), NEW a \in Screened
    PROVE  /\ (\E u \in Elems(first) : u.account = a) =>
                  screenBatch(first)[a] = [status |-> g[a], screenedAt |-> day]
           /\ ~(\E u \in Elems(first) : u.account = a) => screenBatch(first)[a] = chain[a]
  <1> DEFINE at == {i \in DOMAIN first : first[i].account = a}
             one == CHOOSE i \in at : TRUE
  <1>1. screenBatch(first)[a] = IF at = {} THEN chain[a]
                                ELSE [status |-> first[one].status, screenedAt |-> day]
    BY DEF screenBatch
  <1>2. at # {} => one \in at
    OBVIOUS
  <1>3. at # {} <=> \E u \in Elems(first) : u.account = a
    BY DEF Elems
  <1>4. at # {} => first[one].status = g[a]
    <2> HIDE DEF one
    <2> QED BY <1>2 DEF Elems, SaidBy
  <1> HIDE DEF at, one
  <1> QED BY <1>1, <1>3, <1>4

LEMMA WriteBatchKeeps == ASSUME ScreenInv, WriteBatch PROVE ScreenInv'
  <1> DEFINE first == BatchOf(run.pending)
             rest == SubSeq(run.pending, Len(first) + 1, Len(run.pending))
             r == [run EXCEPT !.pending = rest]
             list == screenBatch(first)
  <1>1. /\ run' = r /\ chain' = list /\ UNCHANGED <<feed, day, ranOn>> /\ run.stage = "writing"
    BY DEF WriteBatch
  <1>2. /\ run \in RunRecord /\ run.now = day /\ OneWord(run) /\ NobodyLeftOut(run)
        /\ Kept(run, chain) /\ run.updates = <<>>
    BY <1>1 DEF ScreenInv, RunFits
  <1>3. run.pending \in Seq(UpdateRecord)
    BY <1>2 DEF RunRecord
  <1>4. /\ first \in Seq(UpdateRecord) /\ rest \in Seq(UpdateRecord)
        /\ \A u \in Elems(run.pending) : u \in Elems(first) \/ u \in Elems(rest)
        /\ \A u : u \in Elems(first) \/ u \in Elems(rest) => u \in Elems(run.pending)
    BY <1>3, ElemsBatch
  <1>5. PICK g \in [Screened -> ComplianceStatus] : SaidBy(g, Given(run))
    BY <1>2 DEF OneWord
  <1>6. SaidBy(g, Elems(first))
    BY <1>4, <1>5 DEF SaidBy, Given
  <1>7. \A a \in Screened :
           /\ (\E u \in Elems(first) : u.account = a) =>
                  list[a] = [status |-> g[a], screenedAt |-> day]
           /\ ~(\E u \in Elems(first) : u.account = a) => list[a] = chain[a]
    BY <1>4, <1>6, BatchWrites
  <1>0. list = [a \in Screened |-> list[a]]
    BY DEF screenBatch
  <1> HIDE DEF list
  <1>8. \A a \in Screened :
           \/ list[a] = [status |-> g[a], screenedAt |-> day]
           \/ list[a] = chain[a]
    BY <1>7
  <1>9. /\ day \in Nat /\ day <= ScreenDays /\ ranOn \in Nat /\ ranOn <= day
        /\ REFRESH_AFTER \in Nat \ {0} /\ ScreenDays \in Nat
    BY FreshnessAssumption DEF ScreenInv, Calendar
  <1>10. Recent(list, day, ranOn)
    <2>0. \A a \in Screened : chain[a] \in ComplianceRecord
      BY DEF ScreenInv, Recent
    <2>1. ASSUME NEW a \in Screened PROVE list[a] \in ComplianceRecord
      <3>1. [status |-> g[a], screenedAt |-> day] \in ComplianceRecord
        BY <1>5, <1>9 DEF ComplianceRecord
      <3> QED BY <1>8, <2>0, <3>1
    <2>2. list \in [Screened -> ComplianceRecord]
      BY <1>0, <2>1
    <2>4. ASSUME NEW a \in Screened
          PROVE  list[a].screenedAt <= day /\ ranOn < list[a].screenedAt + REFRESH_AFTER
      <3>1. chain[a].screenedAt <= day /\ ranOn < chain[a].screenedAt + REFRESH_AFTER
        BY DEF ScreenInv, Recent
      <3>2. CASE list[a] = chain[a]
        BY <3>1, <3>2
      <3>3. CASE list[a] = [status |-> g[a], screenedAt |-> day]
        <4>1. list[a].screenedAt = day
          BY <3>3
        <4> QED BY <1>9, <4>1
      <3> QED BY <1>8, <3>2, <3>3
    <2> QED BY <2>2, <2>4 DEF Recent
  <1> HIDE DEF first, rest
  <1>11. /\ r \in RunRecord /\ r.stage = "writing" /\ r.now = day /\ r.updates = <<>>
         /\ r.pending = rest /\ r.changed = run.changed /\ r.refreshed = run.refreshed
         /\ r.skipped = run.skipped
    BY <1>1, <1>2, <1>4 DEF RunRecord
  <1> HIDE DEF r
  <1>12. OneWord(r) /\ NobodyLeftOut(r)
    <2>1. \A u \in Given(r) : u \in Given(run)
      BY <1>2, <1>4, <1>11 DEF Given
    <2> QED BY <1>1, <1>2, <1>5, <1>11, <2>1 DEF OneWord, SaidBy, NobodyLeftOut
  <1>13. ASSUME NEW u \in run.changed \cup run.refreshed, u \notin Elems(rest)
         PROVE  WrittenSince(list, u, day)
    <2>1. u.account \in Screened /\ u.status = g[u.account]
      BY <1>2, <1>5, <1>13 DEF RunRecord, UpdateRecord, SaidBy, Given
    <2>2. CASE u \in Elems(run.pending)
      <3>1. u \in Elems(first)
        BY <1>4, <1>13, <2>2
      <3>2. list[u.account] = [status |-> g[u.account], screenedAt |-> day]
        BY <1>7, <2>1, <3>1
      <3> QED BY <1>9, <2>1, <3>2 DEF WrittenSince
    <2>3. CASE u \notin Elems(run.pending)
      <3>1. WrittenSince(chain, u, day)
        BY <1>2, <1>13, <2>3 DEF Kept
      <3>2. CASE list[u.account] = chain[u.account]
        BY <3>1, <3>2 DEF WrittenSince
      <3>3. CASE list[u.account] = [status |-> g[u.account], screenedAt |-> day]
        BY <1>9, <2>1, <3>3 DEF WrittenSince
      <3> QED BY <1>8, <2>1, <3>2, <3>3
    <2> QED BY <2>2, <2>3
  <1>14. ASSUME NEW u \in run.skipped PROVE KnownRecent(list, u, day)
    <2>1. u.account \in Screened /\ u.status = g[u.account]
      BY <1>2, <1>5, <1>14 DEF RunRecord, UpdateRecord, SaidBy, Given
    <2>2. KnownRecent(chain, u, day)
      BY <1>2, <1>14 DEF Kept
    <2>3. day - day < REFRESH_AFTER
      BY <1>9
    <2>4. CASE list[u.account] = chain[u.account]
      BY <2>2, <2>4 DEF KnownRecent
    <2>5. CASE list[u.account] = [status |-> g[u.account], screenedAt |-> day]
      BY <2>1, <2>3, <2>5 DEF KnownRecent
    <2> QED BY <1>8, <2>1, <2>4, <2>5
  <1>15. Kept(r, list)
    BY <1>11, <1>13, <1>14 DEF Kept
  <1>16. RunFits(r, list, day)
    BY <1>11, <1>12, <1>15 DEF RunFits
  <1> QED BY <1>1, <1>10, <1>16 DEF ScreenInv, Calendar

\* A run that ends has been round the whole list.
LEMMA EndRunKeeps == ASSUME ScreenInv, EndRun PROVE ScreenInv'
  <1>1. /\ run' = NoRun /\ ranOn' = day /\ UNCHANGED <<feed, chain, day>>
        /\ run.stage = "writing" /\ run.pending = <<>>
    BY DEF EndRun
  <1>2. /\ run.now = day /\ NobodyLeftOut(run) /\ Kept(run, chain) /\ run.updates = <<>>
        /\ run \in RunRecord
    BY <1>1 DEF ScreenInv, RunFits
  <1>3. /\ day \in Nat /\ REFRESH_AFTER \in Nat \ {0}
    BY FreshnessAssumption DEF ScreenInv, Calendar
  <1>4. ASSUME NEW a \in Screened
        PROVE  chain[a].screenedAt <= day /\ day < chain[a].screenedAt + REFRESH_AFTER
    <2>1. chain[a].screenedAt <= day /\ chain[a].screenedAt \in Nat
      BY DEF ScreenInv, Recent, ComplianceRecord
    <2>2. PICK u \in run.changed \cup run.refreshed \cup run.skipped : u.account = a
      BY <1>1, <1>2, ElemsEmpty DEF NobodyLeftOut
    <2>3. CASE u \in run.changed \cup run.refreshed
      <3>1. chain[a].screenedAt >= day
        BY <1>1, <1>2, <2>2, <2>3, ElemsEmpty DEF Kept, WrittenSince
      <3> QED BY <1>3, <2>1, <3>1
    <2>4. CASE u \in run.skipped
      <3>1. day - chain[a].screenedAt < REFRESH_AFTER
        BY <1>2, <2>2, <2>4 DEF Kept, KnownRecent
      <3> QED BY <1>3, <2>1, <3>1
    <2> QED BY <2>2, <2>3, <2>4
  <1>5. Recent(chain, day, day)
    BY <1>4 DEF ScreenInv, Recent
  <1>6. day \in 0 .. day /\ day <= day + 2
    BY <1>3
  <1> QED BY <1>1, <1>5, <1>6, IdleRunFits DEF ScreenInv, Calendar

LEMMA RunThrowsKeeps == ASSUME ScreenInv, RunThrows PROVE ScreenInv'
  <1>1. run' = NoRun /\ UNCHANGED <<feed, chain, day, ranOn>>
    BY DEF RunThrows
  <1> QED BY <1>1, IdleRunFits DEF ScreenInv, Calendar

\* What a run was given it keeps, whatever the feed says next.
LEMMA FeedDecidesKeeps == ASSUME ScreenInv, FeedDecides PROVE ScreenInv'
  <1>1. UNCHANGED <<chain, day, ranOn, run>>
    BY DEF FeedDecides
  <1>2. PICK a \in Screened, word \in ComplianceStatus : feed' = [feed EXCEPT ![a] = word]
    BY DEF FeedDecides
  <1>3. feed' \in [Screened -> ComplianceStatus]
    BY <1>2 DEF ScreenInv, Calendar
  <1> QED BY <1>1, <1>3 DEF ScreenInv, Calendar

LEMMA NextDayKeeps == ASSUME ScreenInv, NextDay PROVE ScreenInv'
  <1>1. /\ UNCHANGED <<feed, chain, ranOn, run>> /\ day' = day + 1
        /\ day < ScreenDays /\ run.stage = "none" /\ ranOn + 1 >= day
    BY DEF NextDay
  <1>2. day \in Nat /\ ranOn \in 0 .. day /\ ScreenDays \in Nat
    BY FreshnessAssumption DEF ScreenInv, Calendar
  <1>3. /\ day + 1 \in 0 .. ScreenDays /\ ranOn \in 0 .. day + 1 /\ day + 1 <= ranOn + 2
    BY <1>1, <1>2
  <1>4. Recent(chain, day + 1, ranOn)
    <2>1. Recent(chain, day, ranOn)
      BY DEF ScreenInv
    <2>2. \A a \in Screened : chain[a].screenedAt \in Nat
      BY <2>1 DEF Recent, ComplianceRecord
    <2>3. \A a \in Screened : chain[a].screenedAt <= day + 1
      BY <1>2, <2>1, <2>2 DEF Recent
    <2> QED BY <2>1, <2>3 DEF Recent
  <1>5. RunFits(run, chain, day + 1)
    BY <1>1 DEF ScreenInv, RunFits
  <1> QED BY <1>1, <1>3, <1>4, <1>5 DEF ScreenInv, Calendar

LEMMA ScreenInvInit == ScreeningInit => ScreenInv
  <1> SUFFICES ASSUME ScreeningInit PROVE ScreenInv
    OBVIOUS
  <1>1. /\ feed \in [Screened -> {"Clear", "Denied"}] /\ day = 0 /\ ranOn = 0 /\ run = NoRun
        /\ chain = [a \in Screened |-> [status |-> feed[a], screenedAt |-> 0]]
    BY DEF ScreeningInit
  <1>2. REFRESH_AFTER \in Nat \ {0} /\ ScreenDays \in Nat
    BY FreshnessAssumption
  <1>3. \A a \in Screened : feed[a] \in ComplianceStatus
    BY <1>1 DEF ComplianceStatus
  <1>4. chain \in [Screened -> ComplianceRecord] /\ \A a \in Screened : chain[a].screenedAt = 0
    BY <1>1, <1>2, <1>3 DEF ComplianceRecord
  <1>5. Recent(chain, 0, 0)
    BY <1>2, <1>4 DEF Recent
  <1>6. Calendar
    BY <1>1, <1>2, <1>3 DEF Calendar
  <1> QED BY <1>1, <1>5, <1>6, IdleRunFits DEF ScreenInv

LEMMA ScreenInvStep == ScreenInv /\ [ScreeningNext]_screenVars => ScreenInv'
  <1> SUFFICES ASSUME ScreenInv, [ScreeningNext]_screenVars PROVE ScreenInv'
    OBVIOUS
  <1>1. CASE ScreeningNext
    BY <1>1, BeginRunKeeps, ReadAccountKeeps, BeginWritesKeeps, WriteBatchKeeps, EndRunKeeps,
       RunThrowsKeeps, FeedDecidesKeeps, NextDayKeeps DEF ScreeningNext
  <1>2. CASE UNCHANGED screenVars
    BY <1>2 DEF screenVars, ScreenInv, Calendar
  <1> QED BY <1>1, <1>2

LEMMA ScreenInvSuffices == ScreenInv => TheListIsKept
  <1> SUFFICES ASSUME ScreenInv PROVE TheListIsKept
    OBVIOUS
  <1>1. ASSUME NEW a \in Screened PROVE ~ScreenStale(a)
    <2>1. /\ day \in Nat /\ ranOn \in Nat /\ day <= ranOn + 2 /\ REFRESH_AFTER \in Nat
          /\ SCREEN_FRESHNESS \in Nat /\ REFRESH_AFTER + 1 < SCREEN_FRESHNESS
      BY FreshnessAssumption DEF ScreenInv, Calendar
    <2>2. chain[a].screenedAt \in Nat /\ ranOn < chain[a].screenedAt + REFRESH_AFTER
      BY DEF ScreenInv, Recent, ComplianceRecord
    <2> QED BY <2>1, <2>2 DEF ScreenStale
  <1>2. ASSUME run.stage = "writing", run.pending = <<>> PROVE Kept(run, chain) /\ run \in RunRecord
    BY <1>2 DEF ScreenInv, RunFits
  <1>3. ASSUME run.stage = "writing", run.pending = <<>>
        PROVE  /\ \A u \in run.changed \cup run.refreshed \cup run.skipped :
                    chain[u.account].status = u.status
               /\ \A u \in run.changed \cup run.refreshed : chain[u.account].screenedAt >= run.now
               /\ \A u \in run.skipped : run.now - chain[u.account].screenedAt < REFRESH_AFTER
    BY <1>2, <1>3, ElemsEmpty DEF Kept, WrittenSince, KnownRecent
  <1>4. ASSUME NEW u \in run.changed, u.status = "Denied", LivePlans[u.account] # {}
        PROVE  \E d \in midStripDenials(run.changed) : d.borrower = u.account
    <2>1. [borrower |-> u.account, plans |-> LivePlans[u.account]] \in midStripDenials(run.changed)
      BY <1>4 DEF midStripDenials
    <2> QED BY <2>1
  <1>5. AFinishedRunIsTheList
    BY <1>3, <1>4 DEF AFinishedRunIsTheList
  <1>6. AMissedRunIsAbsorbed
    BY <1>1 DEF AMissedRunIsAbsorbed
  <1> QED BY <1>5, <1>6 DEF ScreenInv, Recent, TheListIsKept

LEMMA ScreeningInFocus ==
    focus = "screening" /\ [OperatorNext]_operatorVars => [ScreeningNext]_screenVars
  <1>1. ASSUME focus = "screening", OperatorNext PROVE ScreeningNext
    BY <1>1 DEF OperatorNext, Others
  <1> QED BY <1>1 DEF operatorVars

ScreeningInFocusHold == focus = "screening" => ScreenInv

\* However the feed moves under a run and wherever one dies, if no two days in a row go
\* by without a finished run, the checkout never refuses an account for the age of its
\* screen, and a run that has written its batches leaves the chain as it was told
\* (services/origination/src/compliance.ts, reconcile()).
THEOREM ScreeningAlwaysHolds == OperatorSpec => []ScreeningHolds
  <1>1. OperatorInit => ScreeningInFocusHold
    BY ScreenInvInit DEF OperatorInit, ScreeningStart, ScreeningInFocusHold
  <1>2. ScreeningInFocusHold /\ [OperatorNext]_operatorVars => ScreeningInFocusHold'
    BY FocusStays, ScreeningInFocus, ScreenInvStep DEF ScreeningInFocusHold
  <1>3. ScreeningInFocusHold => ScreeningHolds
    BY ScreenInvSuffices DEF ScreeningInFocusHold, ScreeningHolds
  <1> QED BY <1>1, <1>2, <1>3, PTL DEF OperatorSpec

(***************************************************************************)
(* The drop-in.  Messages outlive the documents that posted them, so what  *)
(* a message says is held against the furthest step its frame has spoken   *)
(* of, which only grows, and no call is ever opened twice.  While a frame  *)
(* has not been reloaded, an open is left for its first words: only its    *)
(* one load can have used any before.                                      *)
(***************************************************************************)

PageSteps == {"quote", "identity", "signing", "settling", "done"}
HostedPage ==
    [generation : 0 .. ReloadBound, mounted : BOOLEAN, loaded : BOOLEAN, step : PageSteps,
     signed : Nat]

OwnWords(furthest, data) ==
    \/ data.type = "plazo:state" /\ data.body \in 1 .. furthest
    \/ data.type = "plazo:resize" /\ furthest > 0

FirstWordsFit(was, page, heard) ==
    /\ heard = {} => was.opened <= 1 /\ (~page.loaded => was.opened = 0)
    /\ heard # {} => 0 \in was.answered

CallFits(was, page, heard) ==
    /\ was \in Handle /\ page \in HostedPage /\ FALSE \notin heard
    /\ (was.listening <=> was.mounted) /\ (was.mounted => was.called)
    /\ ~was.mounted => page = FreshPage(0)
    /\ ~was.called => was = Unopened /\ heard = {}
    /\ was.mounted /\ page.generation = 0 => FirstWordsFit(was, page, heard)

SaidInFrame(post, furthest, was, page) ==
    /\ was.called
    /\ was.mounted => post.of <= page.generation
    /\ isOutbound(post.data) => OwnWords(furthest, post.data)

PostsFit ==
    \A post \in outbox :
        /\ post.of \in 0 .. ReloadBound
        /\ post.source \in Frames =>
              SaidInFrame(post, uttered[post.source], instance[post.source], document[post.source])

LiveOnes == /\ active \in SUBSET Frames /\ \A c \in active : \A d \in active : c = d
            /\ \A c \in Frames : c \in active <=> instance[c].mounted

EmbedInv ==
    /\ instance \in [Frames -> Handle] /\ document \in [Frames -> HostedPage]
    /\ uttered \in [Frames -> Nat] /\ LiveOnes /\ PostsFit
    /\ \A c \in Frames : CallFits(instance[c], document[c], told[c])

LEMMA StepsInOrder ==
    /\ DOMAIN STEPS = 1 .. 5 /\ \A k \in 1 .. 5 : STEPS[k] \in PageSteps
    /\ \A step \in PageSteps : IndexOf(step) \in 1 .. 5 /\ STEPS[IndexOf(step)] = step
    /\ STEPS[5] = "done"
  <1>1. DOMAIN STEPS = 1 .. 5 /\ STEPS[5] = "done"
    BY DEF STEPS
  <1>2. STEPS[1] = "quote" /\ STEPS[2] = "identity" /\ STEPS[3] = "signing" /\ STEPS[4] = "settling"
    BY DEF STEPS
  <1>3. \A k \in 1 .. 5 : STEPS[k] \in PageSteps
    <2>1. \A k \in 1 .. 5 : k = 1 \/ k = 2 \/ k = 3 \/ k = 4 \/ k = 5
      OBVIOUS
    <2> QED BY <1>1, <1>2, <2>1 DEF PageSteps
  <1>4. ASSUME NEW step \in PageSteps
        PROVE  IndexOf(step) \in 1 .. 5 /\ STEPS[IndexOf(step)] = step
    <2>1. \E i \in DOMAIN STEPS : STEPS[i] = step
      <3>1. 1 \in DOMAIN STEPS /\ 2 \in DOMAIN STEPS /\ 3 \in DOMAIN STEPS /\ 4 \in DOMAIN STEPS
            /\ 5 \in DOMAIN STEPS
        BY <1>1
      <3> QED BY <1>1, <1>2, <3>1 DEF PageSteps
    <2>2. IndexOf(step) \in DOMAIN STEPS /\ STEPS[IndexOf(step)] = step
      BY <2>1 DEF IndexOf
    <2> QED BY <1>1, <2>2
  <1> QED BY <1>1, <1>3, <1>4

LEMMA FreshPageFits == FreshPage(0) \in HostedPage /\ Unopened \in Handle
  BY EmbedAssumption DEF FreshPage, HostedPage, PageSteps, Unopened, Handle

LEMMA TornDownFits ==
    ASSUME NEW was, NEW page, NEW heard, CallFits(was, page, heard), was.called
    PROVE  /\ CallFits(TornDown(was), FreshPage(0), heard)
           /\ ~TornDown(was).mounted /\ TornDown(was).called
  <1>1. was \in Handle /\ FALSE \notin heard
    BY DEF CallFits
  <1>2. /\ TornDown(was) \in Handle /\ TornDown(was).called
        /\ TornDown(was).mounted = FALSE /\ TornDown(was).listening = FALSE
    BY <1>1 DEF TornDown, Handle
  <1> QED BY <1>1, <1>2, FreshPageFits DEF CallFits

LEMMA OpenFits ==
    ASSUME NEW was \in Handle, NEW of \in SUBSET (0 .. ReloadBound)
    PROVE  /\ Open(was, of) \in Handle /\ Open(was, of).called = was.called
           /\ Open(was, of).mounted = was.mounted /\ Open(was, of).listening = was.listening
           /\ was.answered \subseteq Open(was, of).answered
           /\ was.opened <= 1 => of \subseteq Open(was, of).answered
                                 /\ Open(was, of).opened = was.opened + 1
  <1>1. CASE was.opened >= 2
    BY <1>1 DEF Open, Handle
  <1>2. CASE ~(was.opened >= 2)
    <2>1. Open(was, of) = [was EXCEPT !.opened = was.opened + 1, !.answered = was.answered \cup of]
      BY <1>2 DEF Open
    <2>2. was.opened \in 0 .. 2 /\ was.answered \in SUBSET (0 .. ReloadBound)
      BY DEF Handle
    <2>3. was.opened + 1 \in 0 .. 2
      BY <1>2, <2>2
    <2>4. was.answered \cup of \in SUBSET (0 .. ReloadBound)
      BY <2>2
    <2> QED BY <2>1, <2>3, <2>4 DEF Handle
  <1> QED BY <1>1, <1>2

\* A call replaces the live one, and its own frame has never been seen.
LEMMA CheckoutKeeps == ASSUME EmbedInv, NEW c \in Frames, Checkout(c) PROVE EmbedInv'
  <1> DEFINE fresh == [Unopened EXCEPT !.called = TRUE, !.listening = TRUE, !.mounted = TRUE]
  <1>1. /\ ~instance[c].called /\ active' = {c} /\ UNCHANGED <<outbox, uttered, told>>
        /\ instance' = [i \in Frames |-> IF i = c THEN fresh
                                         ELSE IF i \in active THEN TornDown(instance[i])
                                         ELSE instance[i]]
        /\ document' = [i \in Frames |-> IF i \in active THEN FreshPage(0) ELSE document[i]]
    BY DEF Checkout, Without
  <1>2. /\ fresh \in Handle /\ fresh.called = TRUE /\ fresh.listening = TRUE /\ fresh.mounted = TRUE
        /\ fresh.opened = 0
    <2>1. Unopened \in Handle /\ Unopened.opened = 0
      BY FreshPageFits DEF Unopened
    <2> QED BY <2>1 DEF Handle
  <1> HIDE DEF fresh
  <1>3. \A i \in Frames : /\ CallFits(instance[i], document[i], told[i])
                          /\ i \in active <=> instance[i].mounted
    BY DEF EmbedInv, LiveOnes
  <1>4. c \notin active /\ document[c] = FreshPage(0) /\ told[c] = {}
    BY <1>1, <1>3 DEF CallFits
  <1>5. /\ instance'[c] = fresh /\ document'[c] = FreshPage(0)
        /\ CallFits(fresh, FreshPage(0), told[c])
    <2>1. CallFits(fresh, FreshPage(0), {})
      BY <1>2, FreshPageFits DEF CallFits, FirstWordsFit
    <2> QED BY <1>1, <1>4, <2>1
  <1>6. ASSUME NEW i \in Frames, i # c
        PROVE  /\ CallFits(instance'[i], document'[i], told[i])
               /\ ~instance'[i].mounted /\ (instance[i].called => instance'[i].called)
    <2>1. CASE i \in active
      <3>1. instance'[i] = TornDown(instance[i]) /\ document'[i] = FreshPage(0)
        BY <1>1, <1>6, <2>1
      <3>2. instance[i].called
        BY <1>3, <2>1 DEF CallFits
      <3> QED BY <1>3, <3>1, <3>2, TornDownFits
    <2>2. CASE i \notin active
      <3>1. instance'[i] = instance[i] /\ document'[i] = document[i]
        BY <1>1, <1>6, <2>2
      <3> QED BY <1>3, <2>2, <3>1
    <2> QED BY <2>1, <2>2
  <1>7. \A i \in Frames : CallFits(instance'[i], document'[i], told'[i])
    BY <1>1, <1>5, <1>6
  <1>8. instance' \in [Frames -> Handle] /\ document' \in [Frames -> HostedPage]
    <2>1. \A i \in Frames : instance'[i] \in Handle /\ document'[i] \in HostedPage
      BY <1>7 DEF CallFits
    <2>2. instance' = [i \in Frames |-> instance'[i]] /\ document' = [i \in Frames |-> document'[i]]
      BY <1>1
    <2> QED BY <2>1, <2>2
  <1>9. LiveOnes'
    <2>1. \A i \in Frames : i \in active' <=> instance'[i].mounted
      BY <1>1, <1>2, <1>5, <1>6
    <2> QED BY <1>1, <2>1 DEF LiveOnes
  <1>10. PostsFit'
    <2> SUFFICES ASSUME NEW post \in outbox
                 PROVE  /\ post.of \in 0 .. ReloadBound
                        /\ post.source \in Frames =>
                              SaidInFrame(post, uttered[post.source], instance'[post.source],
                                          document'[post.source])
      BY <1>1 DEF PostsFit
    <2>1. /\ post.of \in 0 .. ReloadBound
          /\ post.source \in Frames =>
                SaidInFrame(post, uttered[post.source], instance[post.source], document[post.source])
      BY DEF EmbedInv, PostsFit
    <2>2. CASE post.source \in Frames /\ post.source # c
      BY <1>6, <2>1, <2>2 DEF SaidInFrame
    <2>3. CASE post.source = c
      BY <1>1, <2>1, <2>3 DEF SaidInFrame
    <2> QED BY <2>1, <2>2, <2>3
  <1> QED BY <1>1, <1>7, <1>8, <1>9, <1>10 DEF EmbedInv

LEMMA CloseHandleKeeps == ASSUME EmbedInv, NEW c \in Frames, CloseHandle(c) PROVE EmbedInv'
  <1>1. /\ instance[c].called /\ active' = active \ {c} /\ UNCHANGED <<outbox, uttered, told>>
        /\ instance' = [instance EXCEPT ![c] = TornDown(instance[c])]
        /\ document' = [i \in Frames |-> IF i \in {c} THEN FreshPage(0) ELSE document[i]]
    BY DEF CloseHandle, Without, Released
  <1>2. /\ instance \in [Frames -> Handle] /\ document \in [Frames -> HostedPage] /\ LiveOnes
        /\ \A i \in Frames : CallFits(instance[i], document[i], told[i])
    BY DEF EmbedInv
  <1>3. /\ instance'[c] = TornDown(instance[c]) /\ document'[c] = FreshPage(0)
        /\ \A i \in Frames : i # c => instance'[i] = instance[i] /\ document'[i] = document[i]
    BY <1>1, <1>2
  <1>4. /\ CallFits(instance'[c], document'[c], told[c])
        /\ ~instance'[c].mounted /\ instance'[c].called
    BY <1>1, <1>2, <1>3, TornDownFits
  <1>5. \A i \in Frames : CallFits(instance'[i], document'[i], told'[i])
    BY <1>1, <1>2, <1>3, <1>4
  <1>6. instance' \in [Frames -> Handle] /\ document' \in [Frames -> HostedPage]
    <2>1. \A i \in Frames : instance'[i] \in Handle /\ document'[i] \in HostedPage
      BY <1>5 DEF CallFits
    <2>2. DOMAIN instance' = Frames /\ document' = [i \in Frames |-> document'[i]]
          /\ instance' = [i \in DOMAIN instance' |-> instance'[i]]
      BY <1>1, <1>2
    <2> QED BY <2>1, <2>2
  <1>7. LiveOnes'
    BY <1>1, <1>2, <1>3, <1>4 DEF LiveOnes
  <1>8. PostsFit'
    <2> SUFFICES ASSUME NEW post \in outbox
                 PROVE  /\ post.of \in 0 .. ReloadBound
                        /\ post.source \in Frames =>
                              SaidInFrame(post, uttered[post.source], instance'[post.source],
                                          document'[post.source])
      BY <1>1 DEF PostsFit
    <2>1. /\ post.of \in 0 .. ReloadBound
          /\ post.source \in Frames =>
                SaidInFrame(post, uttered[post.source], instance[post.source], document[post.source])
      BY DEF EmbedInv, PostsFit
    <2>2. CASE post.source \in Frames /\ post.source # c
      BY <1>3, <2>1, <2>2
    <2>3. CASE post.source = c
      BY <1>4, <2>1, <2>3 DEF SaidInFrame
    <2> QED BY <2>1, <2>2, <2>3
  <1> QED BY <1>1, <1>5, <1>6, <1>7, <1>8 DEF EmbedInv

\* Only the frame of a live call moves, and only its own page.
LEMMA FrameLoadsKeeps == ASSUME EmbedInv, NEW c \in Frames, FrameLoads(c) PROVE EmbedInv'
  <1> DEFINE now1 == Open(instance[c], {})
             doc1 == [document[c] EXCEPT !.loaded = TRUE]
  <1>1. /\ instance[c].mounted /\ ~document[c].loaded
        /\ UNCHANGED <<active, outbox, uttered, told>>
        /\ document' = [document EXCEPT ![c] = doc1] /\ instance' = [instance EXCEPT ![c] = now1]
    BY DEF FrameLoads
  <1>2. /\ instance \in [Frames -> Handle] /\ document \in [Frames -> HostedPage] /\ LiveOnes
        /\ \A i \in Frames : CallFits(instance[i], document[i], told[i])
    BY DEF EmbedInv
  <1>3. instance[c] \in Handle /\ document[c] \in HostedPage /\ {} \in SUBSET (0 .. ReloadBound)
    BY <1>2
  <1>4. /\ now1 \in Handle /\ now1.called = instance[c].called
        /\ now1.mounted = instance[c].mounted /\ now1.listening = instance[c].listening
        /\ instance[c].answered \subseteq now1.answered
        /\ instance[c].opened <= 1 => now1.opened = instance[c].opened + 1
    BY <1>3, OpenFits
  <1>5. /\ doc1 \in HostedPage /\ doc1.loaded = TRUE /\ doc1.generation = document[c].generation
    BY <1>3 DEF HostedPage
  <1> HIDE DEF now1, doc1
  <1>6. /\ instance'[c] = now1 /\ document'[c] = doc1
        /\ \A i \in Frames : i # c => instance'[i] = instance[i] /\ document'[i] = document[i]
    BY <1>1, <1>2
  <1>7. CallFits(now1, doc1, told[c])
    <2>1. CallFits(instance[c], document[c], told[c])
      BY <1>2
    <2>2. ASSUME doc1.generation = 0 PROVE FirstWordsFit(now1, doc1, told[c])
      <3>1. FirstWordsFit(instance[c], document[c], told[c])
        BY <1>1, <1>5, <2>1, <2>2 DEF CallFits
      <3>2. told[c] = {} => instance[c].opened = 0
        BY <1>1, <3>1 DEF FirstWordsFit
      <3> QED BY <1>4, <1>5, <3>1, <3>2 DEF FirstWordsFit
    <2> QED BY <1>1, <1>4, <1>5, <2>1, <2>2 DEF CallFits
  <1>8. \A i \in Frames : CallFits(instance'[i], document'[i], told'[i])
    BY <1>1, <1>2, <1>6, <1>7
  <1>9. instance' \in [Frames -> Handle] /\ document' \in [Frames -> HostedPage]
    BY <1>1, <1>2, <1>4, <1>5
  <1>10. LiveOnes'
    BY <1>1, <1>2, <1>4, <1>6 DEF LiveOnes
  <1>11. PostsFit'
    <2> SUFFICES ASSUME NEW post \in outbox
                 PROVE  /\ post.of \in 0 .. ReloadBound
                        /\ post.source \in Frames =>
                              SaidInFrame(post, uttered[post.source], instance'[post.source],
                                          document'[post.source])
      BY <1>1 DEF PostsFit
    <2>1. /\ post.of \in 0 .. ReloadBound
          /\ post.source \in Frames =>
                SaidInFrame(post, uttered[post.source], instance[post.source], document[post.source])
      BY DEF EmbedInv, PostsFit
    <2>2. CASE post.source \in Frames /\ post.source # c
      BY <1>6, <2>1, <2>2
    <2>3. CASE post.source = c
      BY <1>4, <1>5, <1>6, <2>1, <2>3 DEF SaidInFrame
    <2> QED BY <2>1, <2>2, <2>3
  <1> QED BY <1>1, <1>8, <1>9, <1>10, <1>11 DEF EmbedInv

\* What a page says is as far as it has come, and it is said of this document.
LEMMA SpokenFits ==
    ASSUME EmbedInv, NEW c \in Frames, NEW step \in PageSteps, Says(c, step),
           instance[c].mounted, UNCHANGED instance,
           \A i \in Frames : document'[i].generation = document[i].generation
    PROVE  /\ uttered' \in [Frames -> Nat]
           /\ \A post \in outbox' :
                 /\ post.of \in 0 .. ReloadBound
                 /\ post.source \in Frames =>
                       SaidInFrame(post, uttered'[post.source], instance[post.source],
                                   document'[post.source])
  <1> DEFINE at == IndexOf(step)
  <1>1. /\ outbox' = outbox \cup Spoken(c, step)
        /\ uttered' = IF Spoken(c, step) # {} /\ at > uttered[c]
                      THEN [uttered EXCEPT ![c] = at] ELSE uttered
    BY DEF Says
  <1>2. at \in 1 .. 5
    BY StepsInOrder
  <1> HIDE DEF at
  <1>3. /\ uttered \in [Frames -> Nat] /\ document \in [Frames -> HostedPage] /\ PostsFit
        /\ instance \in [Frames -> Handle] /\ CallFits(instance[c], document[c], told[c])
    BY DEF EmbedInv
  <1>4. /\ uttered' \in [Frames -> Nat]
        /\ \A i \in Frames : uttered[i] \in Nat /\ uttered'[i] \in Nat /\ uttered'[i] >= uttered[i]
        /\ Spoken(c, step) # {} => uttered'[c] >= at
    BY <1>1, <1>2, <1>3
  <1>5. ASSUME NEW post \in outbox, post.source \in Frames
        PROVE  SaidInFrame(post, uttered'[post.source], instance[post.source],
                           document'[post.source])
    <2>1. SaidInFrame(post, uttered[post.source], instance[post.source], document[post.source])
      BY <1>3, <1>5 DEF PostsFit
    <2>3. OwnWords(uttered[post.source], post.data) => OwnWords(uttered'[post.source], post.data)
      <3>1. /\ uttered[post.source] \in Nat /\ uttered'[post.source] \in Nat
            /\ uttered'[post.source] >= uttered[post.source]
        BY <1>4, <1>5
      <3>2. ASSUME post.data.body \in 1 .. uttered[post.source]
            PROVE  post.data.body \in 1 .. uttered'[post.source]
        BY <3>1, <3>2
      <3>3. uttered[post.source] > 0 => uttered'[post.source] > 0
        BY <3>1
      <3> QED BY <3>2, <3>3 DEF OwnWords
    <2> QED BY <1>5, <2>1, <2>3 DEF SaidInFrame
  <1>6. ASSUME NEW post \in Spoken(c, step)
        PROVE  /\ post.of \in 0 .. ReloadBound /\ post.source = c
               /\ SaidInFrame(post, uttered'[c], instance[c], document'[c])
    <2>1. /\ post.source = c /\ post.of = document[c].generation
          /\ \/ post.data = [type |-> "plazo:state", body |-> at]
             \/ post.data = [type |-> "plazo:resize", body |-> 1]
      BY DEF Spoken, at
    <2>2. document[c].generation \in 0 .. ReloadBound
      BY <1>3 DEF HostedPage
    <2>3. uttered'[c] >= at /\ uttered'[c] \in Nat
      BY <1>4
    <2>4. OwnWords(uttered'[c], post.data)
      <3>1. CASE post.data = [type |-> "plazo:state", body |-> at]
        <4>1. post.data.type = "plazo:state" /\ post.data.body \in 1 .. uttered'[c]
          BY <1>2, <2>3, <3>1
        <4> QED BY <4>1 DEF OwnWords
      <3>2. CASE post.data = [type |-> "plazo:resize", body |-> 1]
        <4>1. post.data.type = "plazo:resize" /\ uttered'[c] > 0
          BY <1>2, <2>3, <3>2
        <4> QED BY <4>1 DEF OwnWords
      <3> QED BY <2>1, <3>1, <3>2
    <2>5. instance[c].called /\ document[c].generation <= document'[c].generation
      BY <1>3, <2>2 DEF CallFits
    <2> QED BY <2>1, <2>2, <2>4, <2>5 DEF SaidInFrame
  <1>7. \A post \in outbox : post.of \in 0 .. ReloadBound
    BY <1>3 DEF PostsFit
  <1> QED BY <1>1, <1>4, <1>5, <1>6, <1>7

\* A page that moves on, or speaks, is no less fit while its generation stays.
LEMMA PageMoves ==
    ASSUME EmbedInv, NEW c \in Frames, instance[c].mounted, NEW page \in HostedPage,
           page.generation = document[c].generation, page.loaded = document[c].loaded,
           UNCHANGED <<active, instance, told>>, document' = [document EXCEPT ![c] = page]
    PROVE  /\ document' \in [Frames -> HostedPage] /\ document'[c] = page
           /\ \A i \in Frames : i # c => document'[i] = document[i]
           /\ LiveOnes' /\ instance' \in [Frames -> Handle]
           /\ \A i \in Frames : CallFits(instance'[i], document'[i], told'[i])
  <1>1. /\ instance \in [Frames -> Handle] /\ document \in [Frames -> HostedPage] /\ LiveOnes
        /\ \A i \in Frames : CallFits(instance[i], document[i], told[i])
    BY DEF EmbedInv
  <1>2. /\ document' \in [Frames -> HostedPage] /\ document'[c] = page
        /\ \A i \in Frames : i # c => document'[i] = document[i]
    BY <1>1
  <1>3. CallFits(instance[c], page, told[c])
    <2>1. CallFits(instance[c], document[c], told[c])
      BY <1>1
    <2> QED BY <2>1 DEF CallFits, FirstWordsFit
  <1>4. \A i \in Frames : CallFits(instance'[i], document'[i], told'[i])
    BY <1>1, <1>2, <1>3
  <1> QED BY <1>1, <1>2, <1>4 DEF LiveOnes

LEMMA PageMountsKeeps == ASSUME EmbedInv, NEW c \in Frames, PageMounts(c) PROVE EmbedInv'
  <1> DEFINE page == [document[c] EXCEPT !.mounted = TRUE]
  <1>1. /\ instance[c].mounted /\ document' = [document EXCEPT ![c] = page]
        /\ Says(c, "quote") /\ UNCHANGED <<active, instance, told>>
    BY DEF PageMounts
  <1>2. document[c] \in HostedPage
    BY DEF EmbedInv
  <1>3. /\ page \in HostedPage /\ page.generation = document[c].generation
        /\ page.loaded = document[c].loaded
    BY <1>2 DEF HostedPage
  <1> HIDE DEF page
  <1>4. /\ document' \in [Frames -> HostedPage] /\ document'[c] = page
        /\ \A i \in Frames : i # c => document'[i] = document[i]
        /\ LiveOnes' /\ instance' \in [Frames -> Handle]
        /\ \A i \in Frames : CallFits(instance'[i], document'[i], told'[i])
    BY <1>1, <1>3, PageMoves
  <1>5. "quote" \in PageSteps
    BY DEF PageSteps
  <1>6. /\ uttered' \in [Frames -> Nat]
        /\ \A post \in outbox' :
              /\ post.of \in 0 .. ReloadBound
              /\ post.source \in Frames =>
                    SaidInFrame(post, uttered'[post.source], instance[post.source],
                                document'[post.source])
    <2>1. \A i \in Frames : document'[i].generation = document[i].generation
      BY <1>3, <1>4
    <2> QED BY <1>1, <1>5, <2>1, SpokenFits
  <1> QED BY <1>1, <1>4, <1>6 DEF EmbedInv, PostsFit

LEMMA PageStepKeeps == ASSUME EmbedInv, NEW c \in Frames, PageStep(c) PROVE EmbedInv'
  <1> DEFINE was == document[c]
             midway == was.step = "signing" /\ was.signed < Signatures - 1
             next == STEPS[IndexOf(was.step) + 1]
             given == IF was.step = "signing" THEN was.signed + 1 ELSE was.signed
             reached == IF midway THEN was.step ELSE next
             page == [was EXCEPT !.signed = given, !.step = reached]
  <1>1. /\ instance[c].mounted /\ document' = [document EXCEPT ![c] = page]
        /\ IF midway THEN UNCHANGED <<outbox, uttered>> ELSE Says(c, next)
        /\ UNCHANGED <<active, instance, told>> /\ was.step # "done"
    BY DEF PageStep
  <1>2. was \in HostedPage
    BY DEF EmbedInv
  <1>3. next \in PageSteps
    <2>1. was.step \in PageSteps
      BY <1>2 DEF HostedPage
    <2>2. IndexOf(was.step) \in 1 .. 5 /\ STEPS[IndexOf(was.step)] = was.step
      BY <2>1, StepsInOrder
    <2>3. IndexOf(was.step) # 5
      BY <1>1, <2>2, StepsInOrder
    <2>4. IndexOf(was.step) + 1 \in 1 .. 5
      BY <2>2, <2>3
    <2> QED BY <2>4, StepsInOrder
  <1>4. given \in Nat /\ reached \in PageSteps
    BY <1>2, <1>3 DEF HostedPage
  <1> HIDE DEF given, reached, next, midway
  <1>5. /\ page \in HostedPage /\ page.generation = document[c].generation
        /\ page.loaded = document[c].loaded
    BY <1>2, <1>4 DEF HostedPage
  <1> HIDE DEF page, was
  <1>6. /\ document' \in [Frames -> HostedPage] /\ document'[c] = page
        /\ \A i \in Frames : i # c => document'[i] = document[i]
        /\ LiveOnes' /\ instance' \in [Frames -> Handle]
        /\ \A i \in Frames : CallFits(instance'[i], document'[i], told'[i])
    BY <1>1, <1>5, PageMoves
  <1>7. /\ uttered' \in [Frames -> Nat]
        /\ \A post \in outbox' :
              /\ post.of \in 0 .. ReloadBound
              /\ post.source \in Frames =>
                    SaidInFrame(post, uttered'[post.source], instance[post.source],
                                document'[post.source])
    <2>1. \A i \in Frames : document'[i].generation = document[i].generation
      BY <1>5, <1>6
    <2>2. CASE midway
      BY <1>1, <2>1, <2>2 DEF EmbedInv, PostsFit, SaidInFrame
    <2>3. CASE ~midway
      BY <1>1, <1>3, <2>1, <2>3, SpokenFits
    <2> QED BY <2>2, <2>3
  <1> QED BY <1>1, <1>6, <1>7 DEF EmbedInv, PostsFit

\* A reloaded page is a later document: what is promised of the first is void.
LEMMA PageReloadKeeps == ASSUME EmbedInv, NEW c \in Frames, PageReload(c) PROVE EmbedInv'
  <1> DEFINE page == FreshPage(document[c].generation + 1)
  <1>1. /\ instance[c].mounted /\ document[c].generation < ReloadBound
        /\ document' = [document EXCEPT ![c] = page]
        /\ UNCHANGED <<active, instance, outbox, uttered, told>>
    BY DEF PageReload
  <1>2. /\ instance \in [Frames -> Handle] /\ document \in [Frames -> HostedPage] /\ LiveOnes
        /\ \A i \in Frames : CallFits(instance[i], document[i], told[i])
    BY DEF EmbedInv
  <1>3. document[c].generation \in Nat /\ document[c].generation + 1 \in 0 .. ReloadBound
        /\ document[c].generation + 1 # 0
    BY <1>1, <1>2, EmbedAssumption DEF HostedPage
  <1>4. page \in HostedPage /\ page.generation = document[c].generation + 1
    BY <1>3 DEF FreshPage, HostedPage, PageSteps
  <1> HIDE DEF page
  <1>5. /\ document' \in [Frames -> HostedPage] /\ document'[c] = page
        /\ \A i \in Frames : i # c => document'[i] = document[i]
    BY <1>1, <1>2, <1>4
  <1>6. CallFits(instance[c], page, told[c])
    BY <1>1, <1>2, <1>3, <1>4 DEF CallFits
  <1>7. \A i \in Frames : CallFits(instance'[i], document'[i], told'[i])
    BY <1>1, <1>2, <1>5, <1>6
  <1>8. PostsFit'
    <2> SUFFICES ASSUME NEW post \in outbox
                 PROVE  /\ post.of \in 0 .. ReloadBound
                        /\ post.source \in Frames =>
                              SaidInFrame(post, uttered[post.source], instance[post.source],
                                          document'[post.source])
      BY <1>1 DEF PostsFit
    <2>1. /\ post.of \in 0 .. ReloadBound
          /\ post.source \in Frames =>
                SaidInFrame(post, uttered[post.source], instance[post.source], document[post.source])
      BY DEF EmbedInv, PostsFit
    <2>2. CASE post.source \in Frames /\ post.source # c
      BY <1>5, <2>1, <2>2
    <2>3. CASE post.source = c
      <3>1. post.of <= document[c].generation => post.of <= page.generation
        BY <1>3, <1>4, <2>1
      <3> QED BY <1>5, <2>1, <2>3, <3>1 DEF SaidInFrame
    <2> QED BY <2>1, <2>2, <2>3
  <1> QED BY <1>1, <1>2, <1>5, <1>7, <1>8 DEF EmbedInv, LiveOnes

\* A message is taken by the frame that posted it and no other.
LEMMA HostHearsKeeps == ASSUME EmbedInv, NEW post \in outbox, HostHears(post) PROVE EmbedInv'
  <1> DEFINE takes(i) == Listens(i, post) /\ isOutbound(post.data)
  <1>1. /\ outbox' = outbox \ {post} /\ UNCHANGED <<active, document, uttered>>
        /\ instance' = [i \in Frames |-> IF takes(i) THEN Open(instance[i], {post.of})
                                         ELSE instance[i]]
        /\ told' = [i \in Frames |-> IF takes(i) THEN told[i] \cup {ItsOwn(i, post.data)}
                                     ELSE told[i]]
    BY DEF HostHears
  <1>2. /\ instance \in [Frames -> Handle] /\ document \in [Frames -> HostedPage] /\ LiveOnes
        /\ \A i \in Frames : CallFits(instance[i], document[i], told[i])
    BY DEF EmbedInv
  <1>3. /\ post.of \in 0 .. ReloadBound
        /\ post.source \in Frames =>
              SaidInFrame(post, uttered[post.source], instance[post.source], document[post.source])
    BY DEF EmbedInv, PostsFit
  <1>4. ASSUME NEW i \in Frames
        PROVE  /\ CallFits(instance'[i], document[i], told'[i])
               /\ instance'[i].called = instance[i].called
               /\ instance'[i].mounted = instance[i].mounted
    <2>1. CASE takes(i)
      <3>1. /\ instance'[i] = Open(instance[i], {post.of})
            /\ told'[i] = told[i] \cup {ItsOwn(i, post.data)}
        BY <1>1, <2>1
      <3>2. post.source = i /\ instance[i].mounted /\ isOutbound(post.data)
        BY <2>1 DEF Listens
      <3>3. OwnWords(uttered[i], post.data) /\ post.of <= document[i].generation
        BY <1>3, <3>2 DEF SaidInFrame
      <3>4. FALSE \notin {ItsOwn(i, post.data)}
        <4>1. ItsOwn(i, post.data)
          BY <3>3 DEF OwnWords, ItsOwn
        <4> HIDE DEF ItsOwn
        <4> QED BY <4>1, Zenon
      <3>5. instance[i] \in Handle /\ {post.of} \in SUBSET (0 .. ReloadBound)
        BY <1>2, <1>3
      <3>6. /\ instance'[i] \in Handle /\ instance'[i].called = instance[i].called
            /\ instance'[i].mounted = instance[i].mounted
            /\ instance'[i].listening = instance[i].listening
            /\ instance[i].answered \subseteq instance'[i].answered
            /\ instance[i].opened <= 1 => {post.of} \subseteq instance'[i].answered
        BY <3>1, <3>5, OpenFits
      <3>7. CallFits(instance[i], document[i], told[i])
        BY <1>2
      <3>8. FALSE \notin told'[i] /\ told'[i] # {}
        BY <3>1, <3>4, <3>7 DEF CallFits
      <3>9. ASSUME document[i].generation = 0 PROVE 0 \in instance'[i].answered
        <4>1. post.of = 0
          BY <1>3, <3>3, <3>9
        <4>2. FirstWordsFit(instance[i], document[i], told[i])
          BY <3>2, <3>7, <3>9 DEF CallFits
        <4> QED BY <3>6, <4>1, <4>2 DEF FirstWordsFit
      <3>10. FirstWordsFit(instance'[i], document[i], told'[i]) \/ document[i].generation # 0
        BY <3>8, <3>9 DEF FirstWordsFit
      <3> QED BY <3>2, <3>6, <3>7, <3>8, <3>10 DEF CallFits
    <2>2. CASE ~takes(i)
      <3>1. instance'[i] = instance[i] /\ told'[i] = told[i]
        BY <1>1, <2>2
      <3> QED BY <1>2, <3>1
    <2> QED BY <2>1, <2>2
  <1>5. instance' \in [Frames -> Handle]
    <2>1. \A i \in Frames : instance'[i] \in Handle
      BY <1>4 DEF CallFits
    <2>2. instance' = [i \in Frames |-> instance'[i]]
      BY <1>1
    <2> QED BY <2>1, <2>2
  <1>6. LiveOnes'
    BY <1>1, <1>2, <1>4 DEF LiveOnes
  <1>7. PostsFit'
    <2> SUFFICES ASSUME NEW other \in outbox
                 PROVE  /\ other.of \in 0 .. ReloadBound
                        /\ other.source \in Frames =>
                              SaidInFrame(other, uttered[other.source], instance'[other.source],
                                          document[other.source])
      BY <1>1 DEF PostsFit
    <2>1. /\ other.of \in 0 .. ReloadBound
          /\ other.source \in Frames =>
                SaidInFrame(other, uttered[other.source], instance[other.source],
                            document[other.source])
      BY DEF EmbedInv, PostsFit
    <2> QED BY <1>4, <2>1 DEF SaidInFrame
  <1> QED BY <1>1, <1>2, <1>4, <1>5, <1>6, <1>7 DEF EmbedInv

LEMMA StrayPostKeeps == ASSUME EmbedInv, StrayPost PROVE EmbedInv'
  <1>1. UNCHANGED <<active, instance, document, uttered, told>>
    BY DEF StrayPost
  <1>2. PICK post :
            /\ outbox' = outbox \cup {post} /\ post.of = 0
            /\ \/ post.source = "sibling"
               \/ post.source \in active /\ post.data = [type |-> "plazo:state", body |-> 0]
    BY DEF StrayPost
  <1>3. 0 \in 0 .. ReloadBound
    BY EmbedAssumption
  <1>4. ASSUME post.source \in Frames
        PROVE  SaidInFrame(post, uttered[post.source], instance[post.source], document[post.source])
    <2>1. post.source \in active /\ post.data.type = "plazo:state" /\ post.data.body = 0
      BY <1>2, <1>4, EmbedAssumption
    <2>2. ~isOutbound(post.data)
      <3>1. 0 \notin DOMAIN STEPS
        BY StepsInOrder
      <3> QED BY <2>1, <3>1 DEF isOutbound
    <2>3. /\ CallFits(instance[post.source], document[post.source], told[post.source])
          /\ instance[post.source].mounted
      BY <1>4, <2>1 DEF EmbedInv, LiveOnes
    <2>4. document[post.source].generation \in Nat
      BY <2>3, EmbedAssumption DEF CallFits, HostedPage
    <2> QED BY <1>2, <2>2, <2>3, <2>4 DEF CallFits, SaidInFrame
  <1> QED BY <1>1, <1>2, <1>3, <1>4 DEF EmbedInv, PostsFit, LiveOnes

LEMMA EmbedInvInit == EmbedInit => EmbedInv
  <1> SUFFICES ASSUME EmbedInit PROVE EmbedInv
    OBVIOUS
  <1>1. /\ active = {} /\ outbox = {} /\ instance = [c \in Frames |-> Unopened]
        /\ document = [c \in Frames |-> FreshPage(0)] /\ uttered = [c \in Frames |-> 0]
        /\ told = [c \in Frames |-> {}]
    BY DEF EmbedInit
  <1>2. /\ Unopened \in Handle /\ FreshPage(0) \in HostedPage /\ Unopened.mounted = FALSE
        /\ Unopened.listening = FALSE
    BY FreshPageFits DEF Unopened
  <1>3. CallFits(Unopened, FreshPage(0), {})
    BY <1>2 DEF CallFits
  <1> QED BY <1>1, <1>2, <1>3 DEF EmbedInv, LiveOnes, PostsFit

LEMMA EmbedInvStep == EmbedInv /\ [EmbedNext]_embedVars => EmbedInv'
  <1> SUFFICES ASSUME EmbedInv, [EmbedNext]_embedVars PROVE EmbedInv'
    OBVIOUS
  <1>1. ASSUME NEW c \in Frames,
               \/ Checkout(c) \/ CloseHandle(c) \/ FrameLoads(c)
               \/ PageMounts(c) \/ PageStep(c) \/ PageReload(c)
        PROVE  EmbedInv'
    BY <1>1, CheckoutKeeps, CloseHandleKeeps, FrameLoadsKeeps, PageMountsKeeps, PageStepKeeps,
       PageReloadKeeps
  <1>2. CASE UNCHANGED embedVars
    BY <1>2 DEF embedVars, EmbedInv, LiveOnes, PostsFit
  <1> QED BY <1>1, <1>2, HostHearsKeeps, StrayPostKeeps DEF EmbedNext

LEMMA EmbedInvSuffices == EmbedInv => EmbedIsHonest
  <1> SUFFICES ASSUME EmbedInv PROVE EmbedIsHonest
    OBVIOUS
  <1>1. \A c \in Frames : CallFits(instance[c], document[c], told[c])
    BY DEF EmbedInv
  <1>2. LiveOnes /\ instance \in [Frames -> Handle]
    BY DEF EmbedInv
  <1>3. Cardinality(active) <= 1
    <2>1. CASE active = {}
      BY <2>1, FS_EmptySet
    <2>2. CASE active # {}
      <3>1. PICK c : active = {c}
        BY <1>2, <2>2 DEF LiveOnes
      <3>2. Cardinality(active) = 1
        BY <3>1, FS_Singleton
      <3> QED BY <3>2
    <2> QED BY <2>1, <2>2
  <1>4. OneFrame
    BY <1>1, <1>2, <1>3 DEF OneFrame, LiveOnes, CallFits
  <1>5. CallbacksAreTheFrames
    BY <1>1 DEF CallbacksAreTheFrames, CallFits
  <1>6. FirstWordsAreAnswered
    <2> SUFFICES ASSUME NEW c \in active, told[c] # {}, document[c].generation = 0
                 PROVE  0 \in instance[c].answered
      BY DEF FirstWordsAreAnswered
    <2>1. c \in Frames /\ instance[c].mounted
      BY <1>2 DEF LiveOnes
    <2> QED BY <1>1, <2>1 DEF CallFits, FirstWordsFit
  <1> QED BY <1>2, <1>4, <1>5, <1>6 DEF EmbedIsHonest

(***************************************************************************)
(* The product page: a line is filled by the read made for it, with what   *)
(* the router answered then, and a new render is a new line.               *)
(***************************************************************************)

LineFits(line) ==
    \A limit \in line.detail : limit > 0 /\ \E w \in line.wallet : limit \in answered[w]

MessageInv ==
    /\ headroom \in [Wallets -> Figures] /\ answered \in [Wallets -> SUBSET Figures]
    /\ \A w \in Wallets : headroom[w] \in answered[w]
    /\ render \in [Renders -> Rendering] /\ shown \in SUBSET Renders
    /\ \A r \in Renders : LineFits(render[r])

LEMMA MessageInvInit == MessageInit => MessageInv
  <1> SUFFICES ASSUME MessageInit PROVE MessageInv
    OBVIOUS
  <1>1. Unrendered \in Rendering /\ Unrendered.detail = {}
    BY DEF Unrendered, Rendering, AVAILABILITY
  <1>2. /\ shown = {} /\ render = [r \in Renders |-> Unrendered]
        /\ headroom \in [Wallets -> Figures] /\ answered = [w \in Wallets |-> {headroom[w]}]
    BY DEF MessageInit
  <1> QED BY <1>1, <1>2 DEF MessageInv, LineFits

LEMMA MessagingKeeps ==
    ASSUME MessageInv, NEW r \in Renders, NEW wallet \in {{}} \cup {{w} : w \in Wallets},
           Messaging(r, wallet)
    PROVE  MessageInv'
  <1> DEFINE line == [render[r] EXCEPT !.wallet = wallet, !.reading = wallet # {}]
  <1>1. /\ render[r] = Unrendered /\ shown' = {r} /\ UNCHANGED <<headroom, answered>>
        /\ render' = [render EXCEPT ![r].wallet = wallet, ![r].reading = wallet # {}]
    BY DEF Messaging
  <1>2. render \in [Renders -> Rendering]
    BY DEF MessageInv
  <1>3. render' = [render EXCEPT ![r] = line]
    BY <1>1, <1>2
  <1>4. line \in Rendering
    BY <1>2 DEF Rendering
  <1>5. line.detail = {}
    <2>1. line.detail = render[r].detail
      BY <1>2 DEF Rendering
    <2> QED BY <1>1, <2>1 DEF Unrendered, AVAILABILITY
  <1> HIDE DEF line
  <1>6. \A q \in Renders : LineFits(render'[q])
    <2>1. LineFits(line)
      BY <1>5 DEF LineFits
    <2>2. ASSUME NEW q \in Renders, q # r PROVE LineFits(render'[q])
      BY <1>2, <1>3, <2>2 DEF MessageInv
    <2> QED BY <1>2, <1>3, <2>1, <2>2
  <1>7. \A q \in Renders : LineFits(render[q])' <=> LineFits(render'[q])
    BY <1>1 DEF LineFits
  <1> QED BY <1>1, <1>2, <1>3, <1>4, <1>6, <1>7 DEF MessageInv

LEMMA LimitArrivesKeeps ==
    ASSUME MessageInv, NEW r \in Renders, LimitArrives(r) PROVE MessageInv'
  <1>1. /\ UNCHANGED <<shown, headroom, answered>>
        /\ render \in [Renders -> Rendering] /\ \A q \in Renders : LineFits(render[q])
    BY DEF LimitArrives, MessageInv
  <1>2. PICK limit \in limitFor(render[r].wallet) :
            \/ limit > 0 /\ render' = [[render EXCEPT ![r].detail = {limit}] EXCEPT ![r].reading = FALSE]
            \/ ~(limit > 0) /\ render' = [render EXCEPT ![r].reading = FALSE]
    BY DEF LimitArrives, Filled
  <1>3. render[r] \in Rendering /\ LineFits(render[r])
    BY <1>1
  <1>4. PICK line \in Rendering : LineFits(line) /\ render' = [render EXCEPT ![r] = line]
    <2>1. CASE limit > 0
      <3> DEFINE line == [render[r] EXCEPT !.detail = {limit}, !.reading = FALSE]
      <3>1. \E w \in render[r].wallet : limit = headroom[w]
        BY <1>2, <2>1 DEF limitFor
      <3>2. PICK w \in render[r].wallet : limit = headroom[w]
        BY <3>1
      <3>3. w \in Wallets
        BY <1>3, <3>2 DEF Rendering
      <3>4. limit \in Figures /\ limit \in answered[w]
        BY <3>2, <3>3 DEF MessageInv
      <3>5. /\ line \in Rendering /\ line.detail = {limit} /\ line.wallet = render[r].wallet
        BY <1>3, <3>4 DEF Rendering
      <3>6. render' = [render EXCEPT ![r] = line]
        BY <1>1, <1>2, <2>1
      <3> HIDE DEF line
      <3>7. LineFits(line)
        BY <2>1, <3>2, <3>4, <3>5 DEF LineFits
      <3> QED BY <3>5, <3>6, <3>7
    <2>2. CASE ~(limit > 0)
      <3> DEFINE line == [render[r] EXCEPT !.reading = FALSE]
      <3>1. /\ line \in Rendering /\ line.detail = render[r].detail /\ line.wallet = render[r].wallet
        BY <1>3 DEF Rendering
      <3>2. render' = [render EXCEPT ![r] = line]
        BY <1>1, <1>2, <2>2
      <3> HIDE DEF line
      <3>3. LineFits(line)
        BY <1>3, <3>1 DEF LineFits
      <3> QED BY <3>1, <3>2, <3>3
    <2> QED BY <2>1, <2>2
  <1>5. render' \in [Renders -> Rendering] /\ \A q \in Renders : LineFits(render'[q])
    BY <1>1, <1>4
  <1>6. \A q \in Renders : LineFits(render[q])' <=> LineFits(render'[q])
    BY <1>1 DEF LineFits
  <1> QED BY <1>1, <1>5, <1>6 DEF MessageInv

\* An answer that was given stays given.
LEMMA HeadroomMovesKeeps == ASSUME MessageInv, HeadroomMoves PROVE MessageInv'
  <1>1. PICK w \in Wallets, figure \in Figures :
            /\ headroom' = [headroom EXCEPT ![w] = figure]
            /\ answered' = [answered EXCEPT ![w] = answered[w] \cup {figure}]
            /\ UNCHANGED <<shown, render>>
    BY DEF HeadroomMoves
  <1>2. headroom \in [Wallets -> Figures] /\ answered \in [Wallets -> SUBSET Figures]
    BY DEF MessageInv
  <1>3. answered[w] \cup {figure} \in SUBSET Figures
    BY <1>2
  <1>4. headroom' \in [Wallets -> Figures] /\ answered' \in [Wallets -> SUBSET Figures]
    BY <1>1, <1>2, <1>3
  <1>5. \A v \in Wallets : headroom'[v] \in answered'[v] /\ answered[v] \subseteq answered'[v]
    BY <1>1, <1>2 DEF MessageInv
  <1>6. ASSUME NEW r \in Renders PROVE LineFits(render[r])'
    <2>1. render[r] \in Rendering /\ LineFits(render[r])
      BY DEF MessageInv
    <2>2. render[r].wallet \subseteq Wallets
      BY <2>1 DEF Rendering
    <2> QED BY <1>1, <1>5, <2>1, <2>2 DEF LineFits
  <1> QED BY <1>1, <1>4, <1>5, <1>6 DEF MessageInv

LEMMA MessageInvStep == MessageInv /\ [MessageNext]_messageVars => MessageInv'
  <1> SUFFICES ASSUME MessageInv, [MessageNext]_messageVars PROVE MessageInv'
    OBVIOUS
  <1>1. CASE MessageNext
    BY <1>1, MessagingKeeps, LimitArrivesKeeps, HeadroomMovesKeeps DEF MessageNext
  <1>2. CASE UNCHANGED messageVars
    BY <1>2 DEF messageVars, MessageInv, LineFits
  <1> QED BY <1>1, <1>2

LEMMA ScheduleAgrees == ScheduleIsThePlans
  <1> SUFFICES ASSUME NEW total \in Figures, NEW count \in 1 .. 4
               PROVE  SplitInstallments(total, count)
                        = [i \in 0 .. count - 1 |-> IF i = 0 THEN splitOf(total, count).first
                                                    ELSE splitOf(total, count).base]
    BY DEF ScheduleIsThePlans
  <1>1. total \in Nat /\ count \in Nat \ {0}
    BY MessageAssumption
  <1>2. total \div count \in Nat /\ total % count \in Nat
    BY <1>1
  <1>3. PICK each, extra : each = total \div count /\ extra = total % count
    OBVIOUS
  <1>4. /\ each \in Nat /\ extra \in Nat /\ splitOf(total, count).first = each + extra
        /\ splitOf(total, count).base = each
    BY <1>2, <1>3 DEF splitOf
  <1>5. SplitInstallments(total, count)
          = [i \in 0 .. (count - 1) |-> each + (IF i = 0 THEN extra ELSE 0)]
    BY <1>3 DEF SplitInstallments
  <1>6. \A i \in 0 .. (count - 1) :
            each + (IF i = 0 THEN extra ELSE 0) = IF i = 0 THEN each + extra ELSE each
    BY <1>4
  <1> QED BY <1>4, <1>5, <1>6

LEMMA MessageInvSuffices == MessageInv => MessageIsHonest
  BY ScheduleAgrees DEF MessageInv, MessageIsHonest, FigureIsTheBuyers, LineFits

LEMMA PagesInFocus ==
    /\ focus = "embed" /\ [OperatorNext]_operatorVars => [EmbedNext]_embedVars
    /\ focus = "message" /\ [OperatorNext]_operatorVars => [MessageNext]_messageVars
  <1>1. ASSUME focus = "embed", OperatorNext PROVE EmbedNext
    BY <1>1 DEF OperatorNext, Others
  <1>2. ASSUME focus = "message", OperatorNext PROVE MessageNext
    BY <1>2 DEF OperatorNext, Others
  <1> QED BY <1>1, <1>2 DEF operatorVars

PagesInFocusHold == (focus = "embed" => EmbedInv) /\ (focus = "message" => MessageInv)

\* However calls, late closes, loads, reloads and messages interleave, the drop-in keeps one
\* frame, its callbacks are given what that frame's own page said, and its first words are
\* answered; the line on a product page is the connected buyer's, whichever read came
\* back last (packages/checkout-embed/src/checkout.ts, messaging.ts).
THEOREM PagesAlwaysHold == OperatorSpec => []PagesHold
  <1>1. OperatorInit => PagesInFocusHold
    BY EmbedInvInit, MessageInvInit DEF OperatorInit, EmbedStart, MessageStart, PagesInFocusHold
  <1>2. PagesInFocusHold /\ [OperatorNext]_operatorVars => PagesInFocusHold'
    BY FocusStays, PagesInFocus, EmbedInvStep, MessageInvStep DEF PagesInFocusHold
  <1>3. PagesInFocusHold => PagesHold
    BY EmbedInvSuffices, MessageInvSuffices DEF PagesInFocusHold, PagesHold
  <1> QED BY <1>1, <1>2, <1>3, PTL DEF OperatorSpec

(***************************************************************************)
(* The relayer.  The gate answers for the floor, so an invariant of the    *)
(* book of collections is enough: a check in it is resolved, and was open  *)
(* when it came in.  Of a pass: what it has answered for, with what it has *)
(* still to send, is what it set out to crank.                             *)
(***************************************************************************)

ItemFits(x) ==
    /\ x = [plan |-> x.plan, indices |-> x.indices]
    /\ \A i \in x.indices : <<x.plan, i>> \in Refs
AnswersFor(results) == {[plan |-> r.plan, indices |-> r.indices] : r \in results}

PassFits(p) ==
    /\ DOMAIN p = {"running", "work", "results", "asked"}
    /\ p.work \in Seq(p.asked) /\ \A x \in p.asked : ItemFits(x)
    /\ AnswersFor(p.results) \cup Elems(p.work) = p.asked

CollectionFits(c) ==
    /\ c.ref \in Refs /\ c.keeper \in {"gate", "market"}
    /\ c.keeper = "gate" => c.at >= dueAt(c.ref) + c.floor

BooksFit ==
    /\ status \in [Refs -> {"open", "resolved"}] /\ floor \in Nat /\ seconds \in Nat
    /\ \A c \in collections : CollectionFits(c) /\ status[c.ref] = "resolved"
    /\ \A c \in collections : \A d \in collections : c.ref = d.ref => c = d

RelayerInv == BooksFit /\ PassFits(pass)

LEMMA RefsArePairs ==
    ASSUME NEW r \in Refs PROVE r = <<r[1], r[2]>> /\ dueAt(r) \in Nat
  BY RelayerAssumption DEF Refs, dueAt

LEMMA ChosenFits ==
    ASSUME NEW config, config.batchSize \in Nat, NEW now,
           NEW chosen \in eligible({DueInstallment(r) : r \in Refs}, config, now)
    PROVE  /\ chosen \in Seq({DueInstallment(r) : r \in Refs})
  <1> DEFINE due == {DueInstallment(r) : r \in Refs}
             late == {d \in due : Qualifies(d, config, now)}
  <1>1. IsFiniteSet(due)
    <2>1. PICK f : f = [r \in Refs |-> DueInstallment(r)]
      OBVIOUS
    <2>2. f \in Surjection(Refs, due)
      BY <2>1 DEF Surjection
    <2> QED BY <2>2, RefsAssumption, FS_Surjection
  <1>2. IsFiniteSet(late)
    BY <1>1, FS_Subset
  <1>3. Cardinality(late) \in Nat
    BY <1>2, FS_CardinalityType
  <1>4. PICK s \in OldestFirst(late) :
            chosen = SubSeq(s, 1, IF Len(s) < config.batchSize THEN Len(s) ELSE config.batchSize)
    BY DEF eligible
  <1> HIDE DEF late
  <1>5. s \in Seq(late) /\ Len(s) = Cardinality(late)
    BY <1>3, <1>4 DEF OldestFirst
  <1>6. PICK n : n = IF Len(s) < config.batchSize THEN Len(s) ELSE config.batchSize
    OBVIOUS
  <1>7. n \in Nat /\ n <= Len(s)
    BY <1>3, <1>5, <1>6
  <1>8. SubSeq(s, 1, n) \in Seq(late)
    BY <1>5, <1>7
  <1>9. late \subseteq due
    BY DEF late
  <1> HIDE DEF due
  <1>10. Seq(late) \subseteq Seq(due)
    BY <1>9
  <1> QED BY <1>4, <1>6, <1>8, <1>10 DEF due

LEMMA BatchFits ==
    ASSUME NEW D, \A d \in D : d.ref \in Refs, NEW chosen \in Seq(D)
    PROVE  LET work == batch(chosen)
           IN  /\ work \in Seq({work[k] : k \in DOMAIN work})
               /\ \A k \in DOMAIN work : ItemFits(work[k])
  <1> DEFINE planOf(n) == chosen[n].ref[1]
             firsts == {n \in DOMAIN chosen : \A m \in 1 .. (n - 1) : planOf(m) # planOf(n)}
             nth(k) == CHOOSE n \in firsts : Cardinality({m \in firsts : m < n}) = k - 1
             item(k) == [plan |-> planOf(nth(k)),
                         indices |-> {chosen[n].ref[2] : n \in {m \in DOMAIN chosen :
                                                             planOf(m) = planOf(nth(k))}}]
             size == Cardinality(firsts)
             work == batch(chosen)
  <1>1. IsFiniteSet(firsts)
    <2>1. firsts \subseteq 1 .. Len(chosen) /\ Len(chosen) \in Nat
      OBVIOUS
    <2>2. PICK len \in Nat : len = Len(chosen)
      BY <2>1
    <2>3. 1 \in Int /\ len \in Int
      BY <2>2
    <2>4. IsFiniteSet(1 .. len)
      BY <2>3, FS_Interval
    <2> QED BY <2>1, <2>2, <2>4, FS_Subset
  <1>2. size \in Nat
    BY <1>1, FS_CardinalityType
  <1>3. work = [k \in 1 .. size |-> item(k)]
    BY DEF batch
  <1>4. \A n \in DOMAIN chosen : chosen[n].ref \in Refs /\ chosen[n].ref = <<planOf(n), chosen[n].ref[2]>>
    <2>1. ASSUME NEW n \in DOMAIN chosen PROVE chosen[n].ref \in Refs
      OBVIOUS
    <2> QED BY <2>1, RefsArePairs
  <1> HIDE DEF size, firsts
  <1>5. ASSUME NEW k \in 1 .. size PROVE ItemFits(item(k))
    <2>1. PICK p : p = planOf(nth(k))
      OBVIOUS
    <2>2. \A n \in DOMAIN chosen : planOf(n) = p => <<p, chosen[n].ref[2]>> \in Refs
      BY <1>4
    <2>3. item(k) = [plan |-> p, indices |-> {chosen[n].ref[2] : n \in {m \in DOMAIN chosen :
                                                                     planOf(m) = p}}]
      BY <2>1
    <2> HIDE DEF nth, item
    <2>4. item(k).plan = p
      BY <2>3
    <2>5. \A i \in item(k).indices : \E n \in DOMAIN chosen : planOf(n) = p /\ i = chosen[n].ref[2]
      BY <2>3
    <2>6. item(k) = [plan |-> item(k).plan, indices |-> item(k).indices]
      BY <2>3
    <2> QED BY <2>2, <2>4, <2>5, <2>6 DEF ItemFits
  <1> HIDE DEF item, work
  <1>6. DOMAIN work = 1 .. size /\ \A k \in 1 .. size : work[k] = item(k)
    BY <1>3
  <1>7. work = [k \in 1 .. size |-> work[k]]
    BY <1>3, <1>6
  <1>8. work \in Seq({work[k] : k \in DOMAIN work})
    BY <1>2, <1>6, <1>7
  <1> QED BY <1>5, <1>6, <1>8 DEF work

LEMMA BeginPassKeeps == ASSUME RelayerInv, BeginPass PROVE RelayerInv'
  <1> DEFINE due == {DueInstallment(r) : r \in Refs}
  <1>1. PICK size \in BatchSizes :
            \E chosen \in eligible(due, [delayFloor |-> floor, batchSize |-> size], seconds) :
                pass' = [running |-> TRUE, work |-> batch(chosen), results |-> {},
                         asked |-> {batch(chosen)[k] : k \in DOMAIN batch(chosen)}]
    BY DEF BeginPass
  <1>2. PICK chosen \in eligible(due, [delayFloor |-> floor, batchSize |-> size], seconds) :
                pass' = [running |-> TRUE, work |-> batch(chosen), results |-> {},
                         asked |-> {batch(chosen)[k] : k \in DOMAIN batch(chosen)}]
    BY <1>1
  <1>3. size \in Nat /\ [delayFloor |-> floor, batchSize |-> size].batchSize = size
    BY RelayerAssumption
  <1>4. chosen \in Seq(due)
    BY <1>2, <1>3, ChosenFits
  <1>5. \A d \in due : d.ref \in Refs
    BY DEF DueInstallment
  <1> HIDE DEF due
  <1>6. PICK work : work = batch(chosen)
    OBVIOUS
  <1>7. /\ work \in Seq({work[k] : k \in DOMAIN work})
        /\ \A k \in DOMAIN work : ItemFits(work[k])
    BY <1>4, <1>5, <1>6, BatchFits
  <1>8. PICK items : items = {work[k] : k \in DOMAIN work}
    OBVIOUS
  <1>9. pass' = [running |-> TRUE, work |-> work, results |-> {}, asked |-> items]
    BY <1>2, <1>6, <1>8
  <1>10. /\ pass'.work = work /\ pass'.results = {} /\ pass'.asked = items
         /\ DOMAIN pass' = {"running", "work", "results", "asked"}
    BY <1>9
  <1>11. AnswersFor({}) = {}
    BY DEF AnswersFor
  <1>12. Elems(work) = items
    BY <1>8 DEF Elems
  <1>13. PassFits(pass')
    BY <1>7, <1>8, <1>10, <1>11, <1>12 DEF PassFits
  <1>14. UNCHANGED <<status, floor, seconds, collections>>
    BY DEF BeginPass, chainVars
  <1> QED BY <1>13, <1>14 DEF RelayerInv, BooksFit

\* A check comes in once, because whoever collects it found it open.
LEMMA CollectedKeeps ==
    ASSUME BooksFit, NEW checks \in SUBSET Refs, NEW keeper \in {"gate", "market"},
           \A r \in checks : status[r] = "open" /\ (keeper = "gate" => requireLate(r)),
           Collected(checks, keeper), UNCHANGED <<floor, seconds>>
    PROVE  BooksFit'
  <1> DEFINE entry(r) == [ref |-> r, keeper |-> keeper, at |-> seconds, floor |-> floor]
  <1>1. /\ status' = [r \in Refs |-> IF r \in checks THEN "resolved" ELSE status[r]]
        /\ collections' = collections \cup {entry(r) : r \in checks}
    BY DEF Collected
  <1>2. /\ status \in [Refs -> {"open", "resolved"}] /\ floor \in Nat /\ seconds \in Nat
        /\ \A c \in collections : CollectionFits(c) /\ status[c.ref] = "resolved"
        /\ \A c \in collections : \A d \in collections : c.ref = d.ref => c = d
    BY DEF BooksFit
  <1>3. \A r \in checks : /\ entry(r).ref = r /\ entry(r).keeper = keeper
                        /\ entry(r).at = seconds /\ entry(r).floor = floor
    OBVIOUS
  <1>4. \A r \in checks : keeper = "gate" => seconds >= dueAt(r) + floor
    BY DEF requireLate, earliestFor
  <1> HIDE DEF entry
  <1>5. \A r \in checks : CollectionFits(entry(r))
    BY <1>3, <1>4 DEF CollectionFits
  <1>6. /\ status' \in [Refs -> {"open", "resolved"}]
        /\ \A r \in checks : status'[r] = "resolved"
        /\ \A r \in Refs : status[r] = "resolved" => status'[r] = "resolved"
    BY <1>1, <1>2
  <1>7. ASSUME NEW c \in collections' PROVE CollectionFits(c) /\ status'[c.ref] = "resolved"
    <2>1. CASE c \in collections
      <3>1. CollectionFits(c) /\ status[c.ref] = "resolved" /\ c.ref \in Refs
        BY <1>2, <2>1 DEF CollectionFits
      <3> QED BY <1>6, <3>1
    <2>2. CASE c \notin collections
      <3>1. PICK r \in checks : c = entry(r)
        BY <1>1, <1>7, <2>2
      <3> QED BY <1>3, <1>5, <1>6, <3>1
    <2> QED BY <2>1, <2>2
  <1>8. ASSUME NEW c \in collections', NEW d \in collections', c.ref = d.ref PROVE c = d
    <2>1. \A e \in collections' : e \in collections \/ \E r \in checks : e = entry(r)
      BY <1>1
    <2>2. \A e \in collections : status[e.ref] = "resolved"
      BY <1>2
    <2>3. \A r \in checks : status[r] # "resolved"
      OBVIOUS
    <2>4. CASE c \in collections /\ d \in collections
      BY <1>2, <1>8, <2>4
    <2>5. CASE c \notin collections /\ d \notin collections
      BY <1>3, <1>8, <2>1, <2>5
    <2>6. CASE c \in collections /\ d \notin collections
      BY <1>3, <1>8, <2>1, <2>2, <2>3, <2>6
    <2>7. CASE c \notin collections /\ d \in collections
      BY <1>3, <1>8, <2>1, <2>2, <2>3, <2>7
    <2> QED BY <2>4, <2>5, <2>6, <2>7
  <1>9. \A c \in collections' : CollectionFits(c)' <=> CollectionFits(c)
    BY DEF CollectionFits, dueAt, Refs
  <1> QED BY <1>2, <1>6, <1>7, <1>8, <1>9 DEF BooksFit

LEMMA CrankKeeps == ASSUME RelayerInv, Crank PROVE RelayerInv'
  <1> DEFINE item == Head(pass.work)
             checks == {<<item.plan, i>> : i \in item.indices}
             ok == Takes(item)
             result == [plan |-> item.plan, indices |-> item.indices, ok |-> ok]
             in == IF ok /\ item.plan \in funded THEN checks ELSE {}
  <1>1. /\ pass.work # <<>> /\ Collected(in, "gate") /\ UNCHANGED <<floor, seconds>>
        /\ pass' = [pass EXCEPT !.work = Tail(pass.work), !.results = pass.results \cup {result}]
    BY DEF Crank
  <1>2. /\ BooksFit /\ pass.work \in Seq(pass.asked) /\ \A x \in pass.asked : ItemFits(x)
        /\ AnswersFor(pass.results) \cup Elems(pass.work) = pass.asked
        /\ DOMAIN pass = {"running", "work", "results", "asked"}
    BY DEF RelayerInv, PassFits
  <1>3. /\ item \in pass.asked /\ Tail(pass.work) \in Seq(pass.asked)
        /\ \A u : u \in Elems(pass.work) <=> u = item \/ u \in Elems(Tail(pass.work))
    BY <1>1, <1>2, ElemsTail
  <1>4. ItemFits(item)
    BY <1>2, <1>3
  <1>5. [plan |-> result.plan, indices |-> result.indices] = item
    BY <1>4 DEF ItemFits
  <1>6. in \in SUBSET Refs /\ \A r \in in : status[r] = "open" /\ requireLate(r)
    <2>1. checks \subseteq Refs
      BY <1>4 DEF ItemFits
    <2>2. ok => \A r \in checks : status[r] = "open" /\ requireLate(r)
      BY DEF Takes
    <2> QED BY <2>1, <2>2
  <1> HIDE DEF in, checks, ok, result, item
  <1>7. BooksFit'
    BY <1>1, <1>2, <1>6, CollectedKeeps
  <1>8. PICK rest : rest = Tail(pass.work)
    OBVIOUS
  <1>9. /\ pass'.work = rest /\ pass'.results = pass.results \cup {result}
        /\ pass'.asked = pass.asked /\ DOMAIN pass' = {"running", "work", "results", "asked"}
    BY <1>1, <1>2, <1>8
  <1>10. AnswersFor(pass.results \cup {result}) = AnswersFor(pass.results) \cup {item}
    BY <1>5 DEF AnswersFor
  <1>11. AnswersFor(pass.results \cup {result}) \cup Elems(rest) = pass.asked
    BY <1>2, <1>3, <1>8, <1>10
  <1>12. PassFits(pass')
    BY <1>2, <1>3, <1>8, <1>9, <1>11 DEF PassFits
  <1>13. PassFits(pass)' <=> PassFits(pass')
    BY DEF PassFits, ItemFits, Refs, AnswersFor, Elems
  <1> QED BY <1>7, <1>12, <1>13 DEF RelayerInv

LEMMA EndPassKeeps == ASSUME RelayerInv, EndPass PROVE RelayerInv'
  <1>1. pass' = NoPass /\ UNCHANGED <<status, floor, seconds, collections>>
    BY DEF EndPass, chainVars
  <1>2. NoPass.work = <<>> /\ NoPass.results = {} /\ NoPass.asked = {}
        /\ DOMAIN NoPass = {"running", "work", "results", "asked"}
    BY DEF NoPass
  <1>3. AnswersFor({}) = {}
    BY DEF AnswersFor
  <1>4. PassFits(NoPass)
    BY <1>2, <1>3, ElemsEmpty DEF PassFits
  <1>5. PassFits(pass)' <=> PassFits(pass')
    BY DEF PassFits, ItemFits, Refs, AnswersFor, Elems
  <1> QED BY <1>1, <1>4, <1>5 DEF RelayerInv, BooksFit

LEMMA ThirdPartyCollectsKeeps == ASSUME RelayerInv, ThirdPartyCollects PROVE RelayerInv'
  <1>1. PICK r \in Refs : status[r] = "open" /\ Collected({r}, "market")
    BY DEF ThirdPartyCollects
  <1>2. UNCHANGED <<floor, seconds, pass>>
    BY DEF ThirdPartyCollects
  <1>3. {r} \in SUBSET Refs /\ \A q \in {r} : status[q] = "open"
    BY <1>1
  <1>4. BooksFit'
    BY <1>1, <1>2, <1>3, CollectedKeeps DEF RelayerInv
  <1> QED BY <1>2, <1>4 DEF RelayerInv

LEMMA RelayerInvStep == RelayerInv /\ [RelayerNext]_relayerVars => RelayerInv'
  <1>1. ASSUME RelayerInv, WorldMoves PROVE RelayerInv'
    <2>1. UNCHANGED <<status, seconds, pass, collections>>
      BY <1>1 DEF WorldMoves
    <2>2. floor' \in Floors \/ floor' = floor
      BY <1>1 DEF WorldMoves
    <2>3. floor' \in Nat
      BY <1>1, <2>2, RelayerAssumption DEF RelayerInv, BooksFit
    <2> QED BY <1>1, <2>1, <2>3 DEF RelayerInv, BooksFit
  <1>2. ASSUME RelayerInv, GateTick PROVE RelayerInv'
    <2>1. UNCHANGED <<status, floor, pass, collections>> /\ seconds' = seconds + 1
      BY <1>2 DEF GateTick
    <2> QED BY <1>2, <2>1 DEF RelayerInv, BooksFit
  <1>3. ASSUME RelayerInv, UNCHANGED relayerVars PROVE RelayerInv'
    BY <1>3 DEF RelayerInv, BooksFit, relayerVars, chainVars
  <1> QED BY <1>1, <1>2, <1>3, BeginPassKeeps, CrankKeeps, EndPassKeeps, ThirdPartyCollectsKeeps
      DEF RelayerNext

LEMMA RelayerInvInit == RelayerInit => RelayerInv
  <1> SUFFICES ASSUME RelayerInit PROVE RelayerInv
    OBVIOUS
  <1>1. status \in [Refs -> {"open", "resolved"}]
    BY DEF RelayerInit
  <1>2. floor \in Nat /\ seconds \in Nat /\ collections = {} /\ pass = NoPass
    BY RelayerAssumption DEF RelayerInit
  <1>3. NoPass.work = <<>> /\ NoPass.results = {} /\ NoPass.asked = {}
        /\ DOMAIN NoPass = {"running", "work", "results", "asked"}
    BY DEF NoPass
  <1>4. AnswersFor({}) = {}
    BY DEF AnswersFor
  <1>5. PassFits(NoPass)
    BY <1>3, <1>4, ElemsEmpty DEF PassFits
  <1> QED BY <1>1, <1>2, <1>5 DEF RelayerInv, BooksFit

\* Math.round's share: exactly all of them only if the operator did none, as long as
\* one check is more than half of a basis point of the total.
LEMMA ShareOfAll ==
    ASSUME NEW n \in Nat \ {0}, n < 20000, NEW b \in Nat, b <= n
    PROVE  ((n - b) * 20000 + n) \div (2 * n) = 10000 <=> b = 0
  <1>1. CASE b = 0
    <2>1. (n - b) * 20000 + n = 10000 * (2 * n) + n /\ n < 2 * n /\ 2 * n \in Nat \ {0}
      BY <1>1
    <2>2. (10000 * (2 * n) + n) \div (2 * n) = 10000
      BY <2>1
    <2> QED BY <1>1, <2>1, <2>2
  <1>2. CASE b # 0
    <2>1. (n - b) * 20000 + n < 10000 * (2 * n)
      BY <1>2
    <2>2. PICK x \in Int : x = (n - b) * 20000 + n
      OBVIOUS
    <2>3. PICK y \in Nat : y = 2 * n /\ y > 0
      OBVIOUS
    <2>4. x \div y < 10000
      BY <2>1, <2>2, <2>3
    <2>5. x \div y # 10000
      BY <2>4
    <2> QED BY <1>2, <2>2, <2>3, <2>5
  <1> QED BY <1>1, <1>2

LEMMA FewCollections ==
    ASSUME BooksFit
    PROVE  IsFiniteSet(collections) /\ Cardinality(collections) <= Cardinality(Refs)
  <1> DEFINE check == [c \in collections |-> c.ref]
  <1>1. check \in [collections -> Refs]
    BY DEF BooksFit, CollectionFits
  <1>2. \A c \in collections : \A d \in collections : check[c] = check[d] => c = d
    BY DEF BooksFit
  <1> HIDE DEF check
  <1>3. check \in Injection(collections, Refs)
    BY <1>1, <1>2 DEF Injection, IsInjective
  <1> QED BY <1>3, RefsAssumption, FS_Injection

LEMMA ShareMeansAll ==
    ASSUME BooksFit, Cardinality(Refs) < 20000
    PROVE  keeperShare.thirdPartyBps = 10000 <=>
               collections # {} /\ \A c \in collections : c.keeper = "market"
  <1> DEFINE mine == {c \in collections : c.keeper = "gate"}
  <1>1. PICK n : n = Cardinality(collections)
    OBVIOUS
  <1>2. PICK b : b = Cardinality(mine)
    OBVIOUS
  <1>3. keeperShare.thirdPartyBps = IF n = 0 THEN 0 ELSE ((n - b) * 20000 + n) \div (2 * n)
    BY <1>1, <1>2 DEF keeperShare
  <1>4. mine \subseteq collections /\ (mine = {} <=> \A c \in collections : c.keeper # "gate")
    OBVIOUS
  <1>5. \A c \in collections : c.keeper # "gate" <=> c.keeper = "market"
    BY DEF BooksFit, CollectionFits
  <1> HIDE DEF mine
  <1>6. IsFiniteSet(collections) /\ Cardinality(collections) <= Cardinality(Refs)
    BY FewCollections
  <1>7. IsFiniteSet(mine) /\ Cardinality(mine) <= Cardinality(collections)
    BY <1>4, <1>6, FS_Subset
  <1>8. n \in Nat /\ b \in Nat /\ b <= n /\ (n = 0 <=> collections = {}) /\ (b = 0 <=> mine = {})
    BY <1>1, <1>2, <1>6, <1>7, FS_CardinalityType, FS_EmptySet
  <1>9. n < 20000
    <2>1. Cardinality(Refs) \in Nat
      BY RefsAssumption, FS_CardinalityType
    <2> QED BY <1>1, <1>6, <1>8, <2>1
  <1>10. CASE n = 0
    BY <1>3, <1>8, <1>10
  <1>11. CASE n # 0
    <2>1. keeperShare.thirdPartyBps = 10000 <=> b = 0
      BY <1>3, <1>8, <1>9, <1>11, ShareOfAll
    <2> QED BY <1>4, <1>5, <1>8, <1>11, <2>1
  <1> QED BY <1>10, <1>11

LEMMA RelayerInvSuffices ==
    ASSUME RelayerInv, Cardinality(Refs) < 20000 PROVE TheRelayerOnlyBacksUp
  <1>1. BooksFit /\ PassFits(pass)
    BY DEF RelayerInv
  <1>2. OperatorCollectsLate
    BY <1>1, ShareMeansAll DEF OperatorCollectsLate, BooksFit, CollectionFits
  <1>3. APassAnswersForEveryPlan
    <2>1. ASSUME pass.work = <<>> PROVE AnswersFor(pass.results) = pass.asked
      <3>1. Elems(pass.work) = {}
        BY <2>1, ElemsEmpty
      <3>2. AnswersFor(pass.results) \cup Elems(pass.work) = pass.asked
        BY <1>1 DEF PassFits
      <3> QED BY <3>1, <3>2
    <2> QED BY <2>1 DEF APassAnswersForEveryPlan, AnswersFor
  <1> QED BY <1>2, <1>3 DEF TheRelayerOnlyBacksUp

LEMMA RelayerInFocus ==
    focus = "relayer" /\ [OperatorNext]_operatorVars => [RelayerNext]_relayerVars
  <1>1. ASSUME focus = "relayer", OperatorNext PROVE RelayerNext
    BY <1>1 DEF OperatorNext, Others
  <1> QED BY <1>1 DEF operatorVars

RelayerInFocusHolds == focus = "relayer" => RelayerInv

\* Whatever the market collects, governance sets or a borrower spends between its reads
\* and its calls, the operator's keeper lands nothing before the floor in force, no check is
\* counted twice, and a pass answers for every plan it set out to crank (services/servicing/
\* src/relayer.ts, RelayerGate.sol).  With 20000 checks or more Math.round may show
\* 10000 bps when the operator did collect one: hence the hypothesis.
THEOREM RelayerAlwaysHolds ==
    ASSUME Cardinality(Refs) < 20000 PROVE OperatorSpec => []RelayerHolds
  <1>1. OperatorInit => RelayerInFocusHolds
    BY RelayerInvInit DEF OperatorInit, RelayerStart, RelayerInFocusHolds
  <1>2. RelayerInFocusHolds /\ [OperatorNext]_operatorVars => RelayerInFocusHolds'
    BY FocusStays, RelayerInFocus, RelayerInvStep DEF RelayerInFocusHolds
  <1>3. RelayerInFocusHolds => RelayerHolds
    BY RelayerInvSuffices DEF RelayerInFocusHolds, RelayerHolds
  <1> QED BY <1>1, <1>2, <1>3, PTL DEF OperatorSpec
=============================================================================
