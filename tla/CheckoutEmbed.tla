--------------------------- MODULE CheckoutEmbed ---------------------------
(***************************************************************************)
(* packages/checkout-embed in the merchant's page, and the hosted page of  *)
(* apps/checkout it frames.  The two talk through postMessage: a message   *)
(* is delivered some time after it was posted, to a window whose document  *)
(* may have been replaced or removed since, among messages other windows   *)
(* post.  A frame's load event and its page's first words come in either   *)
(* order, and the buyer can reload the frame.                              *)
(***************************************************************************)
EXTENDS Naturals, Sequences, FiniteSets

CONSTANTS
    Frames,        \* calls of checkout(), each with a session of its own
    Signatures,    \* authorizations the ceremony asks for, four in the code
    Ancestors,     \* NEXT_PUBLIC_PLAZO_FRAME_ANCESTORS, in order
    MerchantOrigin, CheckoutOrigin, OtherOrigin,
    ReloadBound, StrayBound, PostBound

\* A sibling window is none of the drop-in's frames.
ASSUME EmbedAssumption ==
    "sibling" \notin Frames /\ ReloadBound \in Nat /\ Signatures \in Nat \ {0}

VARIABLES
    active,        \* checkout.ts: the one live instance, a set of at most one
    instance,      \* per call: its listener, its frame, how often it posted open
    document,      \* per frame: the hosted page's own state
    outbox,        \* posted to the merchant's page, not yet delivered
    uttered,       \* the furthest step each frame's page has spoken of, from 1
    told,          \* whether what each call's callbacks were given was so spoken
    strays         \* messages posted by something other than the hosted page

embedVars == <<active, instance, document, outbox, uttered, told, strays>>

-----------------------------------------------------------------------------
(* bridge.ts and _bridge.ts: the protocol. *)

STEPS == <<"quote", "identity", "signing", "settling", "done">>
CANCEL_REASONS == {"declined", "abandoned", "expired", "unavailable"}
IndexOf(step) == CHOOSE i \in DOMAIN STEPS : STEPS[i] = step

\* A structural check: the members a message of its type must have.
isOutbound(data) ==
    CASE data.type = "plazo:resize" -> data.body \in Nat
      [] data.type = "plazo:state" -> data.body \in DOMAIN STEPS
      [] data.type = "plazo:complete" -> data.body = <<"planId">>
      [] data.type = "plazo:cancelled" -> data.body \in CANCEL_REASONS
      [] OTHER -> FALSE

\* listen: one origin, and one window.
Listens(c, post) ==
    /\ instance[c].listening
    /\ post.origin = CheckoutOrigin
    /\ post.source = c /\ instance[c].mounted

-----------------------------------------------------------------------------
(* apps/checkout/app/page.tsx: the hosted page. *)

\* The page speaks to the first origin of the list, the only one it ever names.
Spoken(c, step) ==
    IF Ancestors = <<>> \/ Ancestors[1] # MerchantOrigin THEN {}
    ELSE {[source |-> c, origin |-> CheckoutOrigin, of |-> document[c].generation,
           data |-> data] :
              data \in {[type |-> "plazo:state", body |-> IndexOf(step)],
                        [type |-> "plazo:resize", body |-> 1]}}

Says(c, step) ==
    /\ Cardinality(outbox) < PostBound
    /\ outbox' = outbox \cup Spoken(c, step)
    /\ uttered' = IF Spoken(c, step) # {} /\ IndexOf(step) > uttered[c]
                  THEN [uttered EXCEPT ![c] = IndexOf(step)] ELSE uttered

FreshPage(generation) ==
    [generation |-> generation, mounted |-> FALSE, loaded |-> FALSE, step |-> "quote", signed |-> 0]

\* The effect of the first render, before or after the frame's load event.
PageMounts(c) ==
    /\ instance[c].mounted /\ ~document[c].mounted
    /\ document' = [document EXCEPT ![c].mounted = TRUE]
    /\ Says(c, "quote")
    /\ UNCHANGED <<active, instance, told, strays>>

\* The buyer's next click: every signature on the third step, one elsewhere.
PageStep(c) ==
    LET page == document[c]
        signing == page.step = "signing" /\ page.signed < Signatures - 1
        next == STEPS[IndexOf(page.step) + 1]
        given == IF page.step = "signing" THEN page.signed + 1 ELSE page.signed
        reached == IF signing THEN page.step ELSE next
    IN  /\ instance[c].mounted /\ page.mounted
        /\ page.step # "done"
        /\ document' = [document EXCEPT ![c] = [page EXCEPT !.signed = given, !.step = reached]]
        /\ IF signing THEN UNCHANGED <<outbox, uttered>> ELSE Says(c, next)
        /\ UNCHANGED <<active, instance, told, strays>>

\* A reload keeps nothing: the page's state is in the component alone.
PageReload(c) ==
    /\ instance[c].mounted
    /\ document[c].generation < ReloadBound
    /\ document' = [document EXCEPT ![c] = FreshPage(@.generation + 1)]
    /\ UNCHANGED <<active, instance, outbox, uttered, told, strays>>

-----------------------------------------------------------------------------
(* checkout.ts: the merchant's page. *)

Unopened == [called |-> FALSE, listening |-> FALSE, mounted |-> FALSE, opened |-> 0,
             answered |-> {}]

Handle ==
    [called : BOOLEAN, listening : BOOLEAN, mounted : BOOLEAN, opened : 0 .. 2,
     answered : SUBSET (0 .. ReloadBound)]

\* Mutant of Released: whatever was active is forgotten.
ReleasedWhateverItWas(c) == {}

\* A call that tears itself down is no longer the live one; another stays.
Released(c) == active \ {c}

TornDown(was) == [was EXCEPT !.listening = FALSE, !.mounted = FALSE]

\* frame.remove(): the page goes with it.
Without(gone) == [c \in Frames |-> IF c \in gone THEN FreshPage(0) ELSE document[c]]

\* checkout(): the live instance is replaced, never stacked.
Checkout(c) ==
    /\ ~instance[c].called
    /\ instance' = [i \in Frames |->
          IF i = c THEN [Unopened EXCEPT !.called = TRUE, !.listening = TRUE, !.mounted = TRUE]
          ELSE IF i \in active THEN TornDown(instance[i]) ELSE instance[i]]
    /\ document' = Without(active)
    /\ active' = {c}
    /\ UNCHANGED <<outbox, uttered, told, strays>>

\* handle.close(), which the merchant may call late and more than once.
CloseHandle(c) ==
    /\ instance[c].called
    /\ instance' = [instance EXCEPT ![c] = TornDown(@)]
    /\ document' = Without({c})
    /\ active' = Released(c)
    /\ UNCHANGED <<outbox, uttered, told, strays>>

\* plazo:open, at most twice, with the documents it was an answer to.
Open(was, generation) ==
    IF was.opened >= 2 THEN was
    ELSE [was EXCEPT !.opened = @ + 1, !.answered = @ \cup generation]

FrameLoads(c) ==
    /\ instance[c].mounted /\ ~document[c].loaded
    /\ document' = [document EXCEPT ![c].loaded = TRUE]
    /\ instance' = [instance EXCEPT ![c] = Open(@, {})]
    /\ UNCHANGED <<active, outbox, uttered, told, strays>>

\* What the page in that frame has said, of its progress or of its height.
ItsOwn(c, data) ==
    \/ data.type = "plazo:state" /\ data.body \in 1 .. uttered[c]
    \/ data.type = "plazo:resize" /\ uttered[c] > 0

\* One message event: every listener on the page sees it.
HostHears(post) ==
    LET takes(c) == Listens(c, post) /\ isOutbound(post.data)
    IN  /\ post \in outbox
        /\ outbox' = outbox \ {post}
        /\ instance' = [c \in Frames |-> IF takes(c) THEN Open(instance[c], {post.of})
                                         ELSE instance[c]]
        /\ told' = [c \in Frames |-> IF takes(c) THEN told[c] \cup {ItsOwn(c, post.data)} ELSE told[c]]
        /\ UNCHANGED <<active, document, uttered, strays>>

\* What else posts to the page: another window, of the checkout's origin or not,
\* in the protocol's words, or a script in the frame, in words that are not.
StrayPost ==
    /\ strays < StrayBound
    /\ strays' = strays + 1
    /\ \E post \in
            [source : {"sibling"}, origin : {CheckoutOrigin, OtherOrigin}, of : {0},
             data : {[type |-> "plazo:complete", body |-> <<"planId">>]}]
            \cup [source : active, origin : {CheckoutOrigin}, of : {0},
                  data : {[type |-> "plazo:state", body |-> 0]}] :
         outbox' = outbox \cup {post}
    /\ UNCHANGED <<active, instance, document, uttered, told>>

-----------------------------------------------------------------------------
EmbedInit ==
    /\ active = {} /\ outbox = {} /\ strays = 0
    /\ instance = [c \in Frames |-> Unopened]
    /\ document = [c \in Frames |-> FreshPage(0)]
    /\ uttered = [c \in Frames |-> 0]
    /\ told = [c \in Frames |-> {}]

EmbedNext ==
    \/ \E c \in Frames :
          \/ Checkout(c) \/ CloseHandle(c) \/ FrameLoads(c)
          \/ PageMounts(c) \/ PageStep(c) \/ PageReload(c)
    \/ \E post \in outbox : HostHears(post)
    \/ StrayPost

EmbedSpec == EmbedInit /\ [][EmbedNext]_embedVars

-----------------------------------------------------------------------------
\* checkout.ts: two frames would be two sessions racing for one order.  However
\* calls and late closes interleave, the frame on the page is the live one's.
OneFrame ==
    /\ Cardinality(active) <= 1
    /\ \A c \in Frames : c \in active <=> instance[c].mounted /\ instance[c].listening

\* Whatever is posted to the merchant's page, a callback of the merchant's is
\* given what the page in that very frame said, in the words of the protocol.
CallbacksAreTheFrames == \A c \in Frames : FALSE \notin told[c]

\* checkout.ts posts open on load and on the first message, for neither alone is
\* reliable: a frame that was never reloaded has one posted after it was heard.
FirstWordsAreAnswered ==
    \A c \in active : told[c] # {} /\ document[c].generation = 0 => 0 \in instance[c].answered

\* The drop-in opens one frame and reports what happens in it.
EmbedIsHonest ==
    instance \in [Frames -> Handle] /\ OneFrame /\ CallbacksAreTheFrames /\ FirstWordsAreAnswered

-----------------------------------------------------------------------------
(* What the documentation says and the code does not do. *)

\* checkout.ts: "Neither event alone is reliable; both together are": a page that
\* was heard has an open posted after it, a reloaded one too.
EveryPageIsOpened ==
    \A c \in Frames :
        /\ instance[c].mounted /\ document[c].mounted /\ document[c].loaded
        /\ \A post \in outbox : post.source # c
        => document[c].generation \in instance[c].answered

\* page.tsx: "Leaving now loses nothing. Come back and you resume at the payment
\* you stopped on".
LeavingLosesNothing ==
    [][ \A c \in Frames : document'[c].signed >= document[c].signed ]_embedVars

\* _bridge.ts: "a merchant cannot be allowed to frame the page and then refused a
\* message, or the reverse".
FramersAreTold ==
    (\E k \in DOMAIN Ancestors : Ancestors[k] = MerchantOrigin) =>
        \A c \in Frames : document[c].mounted => uttered[c] > 0
=============================================================================
