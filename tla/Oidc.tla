-------------------------------- MODULE Oidc --------------------------------
(***************************************************************************)
(* Signing in through an OpenID provider: the start, callback and logout   *)
(* routes of createOidcAuth in packages/auth/src/oidc.ts.                  *)
(*                                                                         *)
(* A browser starts an attempt and leaves with a cookie; the pending login *)
(* waits in KV under the attempt's state.  Whoever opens the provider's    *)
(* page comes back with a code or an error, and any browser may load any   *)
(* callback address any number of times, two at once.  The account the     *)
(* sign-in ends in is Accounts' oidcSignIn; here it is only what the       *)
(* handler answers.                                                        *)
(***************************************************************************)
EXTENDS Integers, FiniteSets

CONSTANTS
  Browsers, Attempts, Calls,
  MaxCodes,            \* bound on what the provider answers
  MaxLoads,            \* bound on callbacks loaded
  Client,              \* "public", "pinned" or "guessed"
  Registered,          \* the method the provider has the client registered for
  Guess                \* tokenEndpointAuthMethodFor(what discovery advertises)

OidcAssumption ==
  /\ Client \in {"public", "pinned", "guessed"}
  /\ {Registered, Guess} \subseteq {"basic", "post"}
  /\ 0 \notin Browsers     \* nobody's

VARIABLES
  started,             \* attempt -> who started it and how
  kv,                  \* attempts whose pending login is in KV
  cookies,             \* binder cookies, pairs of a browser and an attempt
  answers,             \* what the provider sent back: code or error, and for which attempt
  redeemed,            \* codes the provider has exchanged
  learned,             \* learnedMethods for this issuer and client
  calls,               \* callbacks in flight
  outcomes,            \* what browsers got to see
  atProvider,          \* browsers with a session at the provider
  told,                \* browsers the logout route told they are signed out
  loads
vars == <<started, kv, cookies, answers, redeemed, learned, calls, outcomes, atProvider, told, loads>>

Unlearned == "unlearned"
NotStarted == [browser |-> 0, silent |-> FALSE]
Idle == [pc |-> "idle"]
NoError == "none"
Code(n, s, b) == [id |-> n, state |-> s, person |-> b, error |-> NoError]
Error(n, s, e) == [id |-> n, state |-> s, person |-> 0, error |-> e]
Loaded(pc, n, b, s, a, passed, late) ==
  [pc |-> pc, load |-> n, state |-> s, browser |-> b, answer |-> a, passed |-> passed,
   first |-> Unlearned, late |-> late]
(* An outcome is that of one load of a callback address, numbered.         *)
Outcome(c, kind) ==
  [load |-> calls[c].load, state |-> calls[c].state, browser |-> calls[c].browser, kind |-> kind,
   answer |-> calls[c].answer.id, passed |-> calls[c].passed, late |-> calls[c].late,
   person |-> calls[c].answer.person, account |-> 0]

-----------------------------------------------------------------------------
(* start: the verifier stays in KV, the binder goes with the browser.      *)

start(b, s, silent) ==
  /\ started[s] = NotStarted
  /\ \A t \in Attempts : t < s => started[t] # NotStarted
  /\ started' = [started EXCEPT ![s] = [browser |-> b, silent |-> silent]]
  /\ kv' = kv \cup {s}
  /\ cookies' = cookies \cup {<<b, s>>}
  /\ UNCHANGED <<answers, redeemed, learned, calls, outcomes, atProvider, told, loads>>

(* The provider's page, opened in any browser.  A silent attempt without a *)
(* session there comes back as login_required.                             *)
ProviderAnswers(b, s) ==
  LET n == Cardinality(answers) + 1 IN
  /\ started[s] # NotStarted
  /\ n <= MaxCodes
  /\ \/ /\ started[s].silent => b \in atProvider
        /\ answers' = answers \cup {Code(n, s, b)}
        /\ atProvider' = atProvider \cup {b}
        /\ told' = told \ {b}
     \/ /\ answers' = answers \cup {Error(n, s, IF started[s].silent THEN "login_required"
                                                 ELSE "access_denied")}
        /\ UNCHANGED <<atProvider, told>>
  /\ UNCHANGED <<started, kv, cookies, redeemed, learned, calls, outcomes, loads>>

(* stateTtlSeconds passed, in KV and for the cookie.                       *)
Expires(s) ==
  /\ s \in kv
  /\ kv' = kv \ {s}
  /\ cookies' = {k \in cookies : k[2] # s}
  /\ UNCHANGED <<started, answers, redeemed, learned, calls, outcomes, atProvider, told, loads>>

-----------------------------------------------------------------------------
(* callback.                                                               *)

Goes(c, next) == calls' = [calls EXCEPT ![c] = next]
At(c, pc) == calls[c].pc = pc
Replies(c, kind) ==
  /\ outcomes' = outcomes \cup {Outcome(c, kind)}
  /\ cookies' = IF calls[c].passed THEN cookies \ {<<calls[c].browser, calls[c].state>>} ELSE cookies
  /\ Goes(c, Idle)

failOnPage(c) == "page"
fail(c) == IF started[calls[c].state].silent THEN "error" ELSE "page"

bindsAny(b, s) == TRUE
binds(b, s) == <<b, s>> \in cookies

(* The state of the address and its answer may not belong together.  The   *)
(* cookie is looked at before KV.                                          *)
callback(c, b, s, a) ==
  /\ calls[c] = Idle
  /\ loads < MaxLoads
  /\ loads' = loads + 1
  /\ IF binds(b, s)
     THEN Goes(c, Loaded("get", loads', b, s, a, FALSE, FALSE)) /\ UNCHANGED outcomes
     ELSE /\ outcomes' = outcomes \cup
               {[load |-> loads', state |-> s, browser |-> b, kind |-> "page", answer |-> a.id,
                 passed |-> FALSE, late |-> FALSE, person |-> a.person, account |-> 0]}
          /\ UNCHANGED calls
  /\ UNCHANGED <<started, kv, cookies, answers, redeemed, learned, atProvider, told>>

gets(c) ==
  /\ At(c, "get")
  /\ Goes(c, Loaded("delete", calls[c].load, calls[c].browser, calls[c].state, calls[c].answer,
                    calls[c].state \in kv,
                    \E o \in outcomes : o.state = calls[c].state /\ o.passed))
  /\ UNCHANGED <<started, kv, cookies, answers, redeemed, learned, outcomes, atProvider, told, loads>>

kept(s) == kv
spent(s) == kv \ {s}

deletes(c) ==
  /\ At(c, "delete")
  /\ kv' = spent(calls[c].state)
  /\ IF calls[c].passed /\ calls[c].answer.error = NoError
     THEN /\ Goes(c, [calls[c] EXCEPT !.pc = "exchange"])
          /\ UNCHANGED <<outcomes, cookies>>
     ELSE Replies(c, IF calls[c].passed THEN fail(c) ELSE "page")
  /\ UNCHANGED <<started, answers, redeemed, learned, atProvider, told, loads>>

(* The token endpoint: one authentication method a request.  A refused     *)
(* client leaves the code alone; an accepted one redeems it, once.         *)
otherMethod(m) == IF m = "basic" THEN "post" ELSE "basic"
method(c) ==
  IF calls[c].first # Unlearned THEN otherMethod(calls[c].first)
  ELSE CASE Client = "public" -> Registered
         [] Client = "pinned" -> Registered
         [] Client = "guessed" -> IF learned # Unlearned THEN learned ELSE Guess
mayRetry(c) == Client = "guessed" /\ calls[c].first = Unlearned

learnedFirst(c) == calls[c].first
learns(c) == method(c)

exchangeAccepted(c) ==
  LET code == calls[c].answer.id IN
  /\ At(c, "exchange")
  /\ method(c) = Registered
  /\ code \notin redeemed
  /\ redeemed' = redeemed \cup {code}
  /\ learned' = IF calls[c].first # Unlearned THEN learns(c) ELSE learned
  /\ Goes(c, [calls[c] EXCEPT !.pc = "verify"])
  /\ UNCHANGED <<started, kv, cookies, answers, outcomes, atProvider, told, loads>>

exchangeRefused(c) ==
  /\ At(c, "exchange")
  /\ method(c) # Registered
  /\ IF mayRetry(c)
     THEN Goes(c, [calls[c] EXCEPT !.first = method(c)]) /\ UNCHANGED <<outcomes, cookies>>
     ELSE Replies(c, fail(c))
  /\ UNCHANGED <<started, kv, answers, redeemed, learned, atProvider, told, loads>>

(* A redeemed code, a gateway's answer, a lost one: the code may be gone.  *)
exchangeFails(c) ==
  /\ At(c, "exchange")
  /\ \/ UNCHANGED redeemed
     \/ method(c) = Registered /\ redeemed' = redeemed \cup {calls[c].answer.id}
  /\ Replies(c, fail(c))
  /\ UNCHANGED <<started, kv, answers, learned, atProvider, told, loads>>

(* The nonce is of the attempt the code was issued for.                    *)
nonceAny(c) == TRUE
nonceMatches(c) == calls[c].answer.state = calls[c].state

verifies(c) ==
  /\ At(c, "verify")
  /\ IF nonceMatches(c)
     THEN Goes(c, [calls[c] EXCEPT !.pc = "upsert"]) /\ UNCHANGED <<outcomes, cookies>>
     ELSE Replies(c, fail(c))
  /\ UNCHANGED <<started, kv, answers, redeemed, learned, atProvider, told, loads>>

(* refused: account_unverified; inactive: deactivated; failed: a thrown    *)
(* error, no address the provider verified, no AUTH_SECRET.                *)
Upserted == {"ok", "refused", "inactive", "failed"}
mintsUnlessRefused(result) == result \notin {"refused", "failed"}
mintsFor(result) == result = "ok"

upserts(c, result) ==
  /\ At(c, "upsert")
  /\ IF mintsFor(result)
     THEN /\ outcomes' = outcomes \cup
               {[Outcome(c, "token") EXCEPT !.account = IF result = "ok" THEN calls[c].answer.person ELSE 0]}
          /\ cookies' = cookies \ {<<calls[c].browser, calls[c].state>>}
          /\ Goes(c, Idle)
     ELSE Replies(c, fail(c))
  /\ UNCHANGED <<started, kv, answers, redeemed, learned, atProvider, told, loads>>

-----------------------------------------------------------------------------
(* logout, with the ID token of a sign-in.  Only a 2xx or 3xx of the       *)
(* provider is told as signed out; a timeout may hide that it worked.      *)

SignedIn(b) == \E o \in outcomes : o.browser = b /\ o.kind = "token"
toldOnAny(status) == TRUE
signedOut(status) == status = "ended"

logout(b, status) ==
  /\ SignedIn(b) /\ b \in atProvider
  /\ atProvider' = IF status \in {"ended", "timedOutButEnded"} THEN atProvider \ {b} ELSE atProvider
  /\ told' = IF signedOut(status) THEN told \cup {b} ELSE told
  /\ UNCHANGED <<started, kv, cookies, answers, redeemed, learned, calls, outcomes, loads>>

Init ==
  /\ started = [s \in Attempts |-> NotStarted]
  /\ kv = {} /\ cookies = {} /\ answers = {} /\ redeemed = {} /\ outcomes = {}
  /\ learned = Unlearned
  /\ calls = [c \in Calls |-> Idle]
  /\ atProvider = {} /\ told = {}
  /\ loads = 0

Next ==
  \/ \E b \in Browsers, s \in Attempts :
       \/ \E silent \in BOOLEAN : start(b, s, silent)
       \/ ProviderAnswers(b, s)
       \/ loads < MaxLoads /\ \E c \in Calls, a \in answers : callback(c, b, s, a)
  \/ \E s \in Attempts : Expires(s)
  \/ \E c \in Calls :
       \/ gets(c) \/ deletes(c)
       \/ exchangeAccepted(c) \/ exchangeRefused(c) \/ exchangeFails(c)
       \/ verifies(c)
       \/ \E result \in Upserted : upserts(c, result)
  \/ \E b \in Browsers, status \in {"ended", "refused", "timedOutButEnded"} : logout(b, status)

Spec == Init /\ [][Next]_vars

-----------------------------------------------------------------------------
(* Properties.                                                             *)

Tokens == {o \in outcomes : o.kind = "token"}

(* A session reaches only the browser that started the attempt, for the    *)
(* person the provider answered that attempt about: nobody is signed in by *)
(* a callback address somebody else prepared.                              *)
SignInIsOwn ==
  \A o \in Tokens :
    /\ started[o.state].browser = o.browser
    /\ \E a \in answers : a.id = o.answer /\ a.state = o.state

(* What was answered once is not answered again: a replay ends on a page.  *)
ReplaysEndOnAPage == \A o \in outcomes : o.late => o.kind = "page"

(* A code never signs in twice, though two tabs may race with one state:   *)
(* of the loads that carry it one at most ends in a session.               *)
CodesSignInOnce ==
  \A o, p \in Tokens : o.answer = p.answer => o.load = p.load

(* A silent attempt in its own browser comes back to the application,      *)
(* whichever step refuses it.                                              *)
SilentComesBack == \A o \in outcomes : o.passed /\ started[o.state].silent => o.kind # "page"

(* The method an isolate learned is one the provider accepts.              *)
LearnedIsAccepted == learned \in {Unlearned, Registered}

(* A session is minted for nobody the accounts refused.                    *)
RefusedStaysOut == \A o \in Tokens : o.account # 0

(* Nobody is told to be signed out while the provider would sign them in.  *)
ToldTheTruth == told \cap atProvider = {}
=============================================================================
