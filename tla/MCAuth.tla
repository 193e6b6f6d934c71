------------------------------- MODULE MCAuth -------------------------------
(***************************************************************************)
(* The components of the auth package side by side: a behaviour picks one, *)
(* and the variables of the others stay as they are.                       *)
(*   links     two calls and one task runner, on both stores               *)
(*   sessions  one account, six instants, two session lifetimes            *)
(*   accounts  two people, an account named after an address, a handle and *)
(*             a provider's subject; six handlers                          *)
(*   oidc      two browsers, two attempts, two callbacks in flight, a      *)
(*             provider that refuses the method discovery suggests         *)
(***************************************************************************)
EXTENDS AuthSessions, TLC

CONSTANTS
  c1, c2, b1, b2, NoTok,
  Addrs, Username, LinkCalls, Runners, MaxMints,   \* of AuthLinks
  DoRequests, D1Requests,          \* its MaxRequests
  People, Handles, Usernames,      \* of Accounts
  Issuer, MaxOps,                  \* subjects are numbered from the issuer's on
  Browsers, Attempts, Callbacks,   \* of Oidc
  MaxCodes, MaxLoads, Client, Registered, Guess

VARIABLES
  part,
  store, link, asks, toks, queue, runs, minted, mails, linkCalls, before, proved,
  rows, inboxes, held, proofs, entered, ops,
  started, kept, cookies, answers, redeemed, learned, callbacks, outcomes, atProvider, told, loads

linkVars == <<store, link, asks, toks, queue, runs, minted, mails, linkCalls, before, proved>>
accountVars == <<rows, inboxes, held, proofs, entered, ops>>
oidcVars == <<started, kept, cookies, answers, redeemed, learned, callbacks, outcomes, atProvider,
              told, loads>>
authVars == <<part, linkVars, vars, accountVars, oidcVars>>

Links == INSTANCE AuthLinks WITH
  NoAddr <- 0, Calls <- LinkCalls, MaxRequests <- [do |-> DoRequests, d1 |-> D1Requests],
  row <- link, calls <- linkCalls, saved <- before
Subject(p) == Issuer + p
Accounts == INSTANCE Accounts WITH
  Sub <- Subject, Nobody <- 0, mails <- inboxes, sessions <- held, proved <- proofs
Oidc == INSTANCE Oidc WITH
  Calls <- Callbacks, calls <- callbacks, kv <- kept

ASSUME MCAuthAssumption ==
  /\ Links!AuthLinksAssumption
  /\ Accounts!AccountsAssumption
  /\ Oidc!OidcAssumption

Symmetry == Permutations({c1, c2}) \union Permutations({b1, b2})

----------------------------------------------------------------------------

AuthInit ==
  /\ part \in {"links", "sessions", "accounts", "oidc"}
  /\ Links!Init
  /\ Init
  /\ Accounts!Init
  /\ Oidc!Init
  /\ part # "links" => store = "do"

AuthNext ==
  \/ /\ part = "links"
     /\ UNCHANGED <<part, vars, accountVars, oidcVars>>
     /\ Links!Next
  \/ /\ part = "sessions"
     /\ UNCHANGED <<part, linkVars, accountVars, oidcVars>>
     /\ Next
  \/ /\ part = "accounts"
     /\ UNCHANGED <<part, linkVars, vars, oidcVars>>
     /\ Accounts!Next
  \/ /\ part = "oidc"
     /\ UNCHANGED <<part, linkVars, vars, accountVars>>
     /\ Oidc!Next

AuthSpec == AuthInit /\ [][AuthNext]_authVars

(* What TLC explores of the sign-ins: of two attempts the later one may be  *)
(* silent, which finds a session only after another; a load without its     *)
(* cookie, which ends on a page at once and leaves nothing that another     *)
(* load finds, comes last, when the others are over; and once all loads are *)
(* made, nothing starts, and nothing expires that none is about to look at. *)
NobodyCalls == \A c \in Callbacks : callbacks[c] = Oidc!Idle
LoadsLeft == loads < MaxLoads
Looks(s) == \E c \in Callbacks : callbacks[c].pc = "get" /\ callbacks[c].state = s
StepsOfInterest ==
  /\ ~started'[1].silent
  /\ outcomes' # outcomes /\ loads' # loads => NobodyCalls /\ loads' = MaxLoads
  /\ started' # started => LoadsLeft
  /\ \A s \in kept \ kept' : callbacks' # callbacks \/ LoadsLeft \/ Looks(s)

----------------------------------------------------------------------------
(* A link is redeemed once; only the latest works; a token marked as sent  *)
(* was delivered; in transactions an address is verified only by a proof.  *)
LinksAreSound ==
  part = "links" =>
    /\ Links!VerifiedInTransactions
    /\ Links!OnlyTheLatestWorks
    /\ Links!SentMeansDelivered
    /\ Links!RedeemedOnce

(* One person to an account named after an address, verified marks that    *)
(* were earned, and addresses that no other account's fate takes away.     *)
AccountsAreOwn ==
  /\ [](part = "accounts" =>
          /\ Accounts!NoSharedAccount
          /\ Accounts!MarksAreEarned
          /\ Accounts!AddressesAreDistinct)
  /\ [][part = "accounts" => Accounts!Keeps]_rows

(* A provider sign-in ends in the browser that started it, once, and never *)
(* for an account that was refused; a silent one comes back.               *)
SignInsAreSound ==
  part = "oidc" =>
    /\ Oidc!SignInIsOwn
    /\ Oidc!ReplaysEndOnAPage
    /\ Oidc!CodesSignInOnce
    /\ Oidc!SilentComesBack
    /\ Oidc!LearnedIsAccepted
    /\ Oidc!RefusedStaysOut
    /\ Oidc!ToldTheTruth
=============================================================================
