----------------------------- MODULE MCOperator -----------------------------
(***************************************************************************)
(* The operator's services and the drop-in of the merchant's page, one at  *)
(* a time: each keeps its own state and none reads another's, so one is    *)
(* chosen in the initial state and the others' variables hold Out.         *)
(***************************************************************************)
EXTENDS MerchantKeys, Notices, AuditConsole, Screening, Relayer, Underwriting, PlanFigures,
        CheckoutEmbed, ProductMessage, CorridorBreaker, Webhooks, CheckoutSession

CONSTANTS a1, Services, Out

VARIABLE focus

SessionStart ==
    IF focus = "sessions" THEN SessionInit
    ELSE   rows = Out /\ refs = Out /\ request = Out /\ acknowledged = Out
           /\ sessionNow = Out

KeysStart ==
    IF focus = "keys" THEN KeysInit
    ELSE   account = Out /\ key = Out /\ bucket = Out /\ call = Out /\ admitted = Out /\
           straggler = Out /\ granted = Out /\ clock = Out

HooksStart ==
    IF focus = "webhooks" THEN HooksInit
    ELSE   endpoint = Out /\ host = Out /\ delivery = Out /\ sender = Out /\ messages = Out
           /\ wanted = Out /\ secrets = Out /\ installed = Out /\ seen = Out /\ processed = Out

NoticeStart ==
    IF focus = "notices" THEN NoticesInit
    ELSE   noticeLog = Out /\ accepted = Out /\ dispatcher = Out /\ disturbed = Out /\ noticeNow = Out

AuditStart ==
    IF focus = "audit" THEN AuditInit
    ELSE   audit = Out /\ command = Out /\ done = Out /\ refused = Out /\ commands = Out

FxStart ==
    IF focus = "fx" THEN FxInit
    ELSE   service = Out /\ venue = Out /\ trades = Out /\ corridorPaused = Out /\
           guardReverts = Out /\ ttlCap = Out /\ fxNow = Out /\ moves = Out /\ requests =
           Out /\ mids = Out /\ fills = Out /\ jobs = Out /\ poll = Out /\ snapshot = Out
           /\ stillness = Out

ScreeningStart ==
    IF focus = "screening" THEN ScreeningInit
    ELSE   feed = Out /\ chain = Out /\ day = Out /\ ranOn = Out /\ run = Out /\ changes =
           Out

RelayerStart ==
    IF focus = "relayer" THEN RelayerInit
    ELSE   status = Out /\ funded = Out /\ defaulted = Out /\ floor = Out /\ role = Out /\
           seconds = Out /\ moved = Out /\ pass = Out /\ collections = Out

UnderwritingStart ==
    IF focus = "underwriting" THEN UwInit
    ELSE   evidence = Out /\ sentTo = Out /\ decision = Out /\ signed = Out

EmbedStart ==
    IF focus = "embed" THEN EmbedInit
    ELSE   active = Out /\ instance = Out /\ document = Out /\ outbox = Out /\ uttered = Out
           /\ told = Out /\ strays = Out

MessageStart ==
    IF focus = "message" THEN MessageInit
    ELSE   shown = Out /\ render = Out /\ headroom = Out /\ answered = Out

OperatorInit ==
    /\ focus \in Services
    /\ SessionStart
    /\ KeysStart
    /\ HooksStart
    /\ NoticeStart
    /\ AuditStart
    /\ FxStart
    /\ ScreeningStart
    /\ RelayerStart
    /\ UnderwritingStart
    /\ EmbedStart
    /\ MessageStart

\* Only the service in focus moves.
Others(mine) ==
    /\ focus = mine
    /\ UNCHANGED focus
    /\ mine # "sessions" => UNCHANGED sessionVars
    /\ mine # "keys" => UNCHANGED keysVars
    /\ mine # "webhooks" => UNCHANGED hooksVars
    /\ mine # "notices" => UNCHANGED noticeVars
    /\ mine # "audit" => UNCHANGED auditVars
    /\ mine # "fx" => UNCHANGED fxVars
    /\ mine # "screening" => UNCHANGED screenVars
    /\ mine # "relayer" => UNCHANGED relayerVars
    /\ mine # "underwriting" => UNCHANGED uwVars
    /\ mine # "embed" => UNCHANGED embedVars
    /\ mine # "message" => UNCHANGED messageVars

OperatorNext ==
    \/ Others("sessions") /\ SessionNext
    \/ Others("keys") /\ KeysNext
    \/ Others("webhooks") /\ HooksNext
    \/ Others("notices") /\ NoticesNext
    \/ Others("audit") /\ AuditNext
    \/ Others("fx") /\ FxNext
    \/ Others("screening") /\ ScreeningNext
    \/ Others("relayer") /\ RelayerNext
    \/ Others("underwriting") /\ UwNext
    \/ Others("embed") /\ EmbedNext
    \/ Others("message") /\ MessageNext

operatorVars == <<focus, sessionVars, keysVars, hooksVars, noticeVars, auditVars, fxVars,
                  screenVars, relayerVars, uwVars, embedVars, messageVars>>
OperatorSpec == OperatorInit /\ [][OperatorNext]_operatorVars

-----------------------------------------------------------------------------
\* A session says what was posted to it and hands out only that: each signature where it
\* was posted and answered 200, a whole strip, and the one its terms draw if the client
\* posted what it was asked to; whatever requests, expiries and put-backs interleave
\* (services/origination/src/session.ts).
SessionsHold == focus = "sessions" => SessionsAreWhatWasSigned

\* No key authenticates after it is revoked, no rotation revives one, and the
\* rate limit holds at the gate (services/origination/src/keys.ts, ratelimit.ts).
KeysHold == focus = "keys" => KeysDoWhatTheyMay

\* A delivery the log calls accepted was processed, once for each such row, and no event
\* is processed more often than deliveries of it were asked for, however emissions,
\* replays, rotations and crashes interleave; each post had its name checked on that very
\* attempt; a merchant's log holds posts to its own endpoints only
\* (services/servicing/src/webhooks.ts, ssrf.ts).
HooksHold ==
    focus = "webhooks" =>
        /\ HookTables /\ AcceptedMeansProcessed
        /\ PostsWereChecked /\ MerchantsSeeTheirOwn

\* A borrower is never logged as told of what no transport took, what was not sent is
\* shown missed, and a contact is told once however often the scheduler fires and whatever
\* fails or dies, unless two dispatches were at that notice together or a send lost its
\* row; the top-up offered is exactly what is short
\* (services/servicing/src/ladder.ts, balance.ts).
NoticesHold == focus = "notices" => BorrowersAreTold

\* The log is one chain in which every act of an operator has its line, but for
\* the one whose append failed (services/servicing/src/console.ts).
AuditHolds == focus = "audit" => LogIsEvidence

\* A poll of a market that answers and keeps inside every band never closes the corridor,
\* whatever failed in earlier windows; one it closes as an outage found this window's own
\* legs unanswered; an unexpired mid signed under a cap no higher than today's is not
\* refused as too long, and a fill pays what its mid promised
\* (services/fx/src/breaker.ts, mid.ts, FxDeviationGuard.sol).
CorridorHolds == focus = "fx" => TripsAreWarranted /\ MidsAreHonoured

\* A finished run leaves the chain's list as the feed has it, and one missed day
\* denies nobody who is clear (services/origination/src/compliance.ts).
ScreeningHolds == focus = "screening" => TheListIsKept

\* The operator's relayer collects only what the market left, and a pass answers
\* for every plan it was given (services/servicing/src/relayer.ts).
RelayerHolds == focus = "relayer" => TheRelayerOnlyBacksUp

\* The proposal beside an attestation is earned by the rows that decision read, the limit
\* in it is what the chain answered for that person, class and signer, and the scores, the
\* quote, the plan and the explanation computed beside them are about the same money
\* (services/origination/src/tier1.ts, underwriting.ts, packages/plan-core).
\* (Scores and figures depend on no variable: they are compared before the first step.)
LimitsHold ==
    focus = "underwriting" =>
        /\ UnderwritingHolds
        /\ UwInit => EveryScoreIsEarned /\ FiguresAgree

\* The drop-in keeps one frame and reports what was said in it; the product page's
\* figure is the buyer's own (packages/checkout-embed/src/checkout.ts, messaging.ts).
PagesHold ==
    /\ focus = "embed" => EmbedIsHonest
    /\ focus = "message" => MessageIsHonest

-----------------------------------------------------------------------------
MCServices == {"sessions", "keys", "webhooks", "notices", "audit", "fx", "screening",
               "relayer", "underwriting", "embed", "message"}
MCIdNumber(id) == id[2].principal
MCDefaults == [minTicket |-> 2, maxTicket |-> 5, mdrBps |-> 1, tier0InitialLimit |-> 2,
               tier0GrowthBps |-> 5, tier0IdentifiedCap |-> 6, tier0PseudonymousCap |-> 4,
               contractSignerCapBps |-> 2]
MCBandEdges == <<1, 2, 3, 4, 5, 6>>
MCHosts == {{<<8, 8, 8, 8>>}, {<<8, 8, 8, 8>>, <<10, 0, 0, 1>>}}
MCDueAt == [i \in 0..1 |-> 2 + i]
MCDue == [i \in 0..1 |-> 1 + i]
MCRoles == [o \in {"o1", "o2"} |-> IF o = "o1" THEN {"support"} ELSE {"admin"}]
MCFeedOrder == <<"ann", "bo", "cy">>
MCLivePlans == [a \in Screened |-> IF a = "ann" THEN {"plan"} ELSE {}]
MCAncestors == <<"shop", "other">>
MCPlansOf == ("p" :> <<0, 2>>) @@ ("q" :> <<1>>)
=============================================================================
