------------------------------ MODULE AuthLinks ------------------------------
(***************************************************************************)
(* One-time links of @pramen/auth (packages/auth/src/index.ts): the magic  *)
(* link, the password reset and the email verification of ONE account,     *)
(* together with changeEmail, which moves the address under them.          *)
(*                                                                         *)
(* A request replaces the rows of its purpose by a pending one and queues  *)
(* a task; the task mints a token over its own row, mails it and marks the *)
(* row sent; a redemption consumes the row with one conditional UPDATE and *)
(* then acts on the account.  An action is one SQL statement.  On the      *)
(* Durable Object a mutation is a transaction nothing interleaves with; on *)
(* D1 each statement commits by itself, and a throw undoes nothing.  Tasks *)
(* run outside a transaction on both, and may run again.                   *)
(*                                                                         *)
(* Abstracted: the resend cooldown (a request comes when it has passed),   *)
(* expiry (a link that expired is one nobody redeems),                     *)
(* deactivation (AuthSessions), password contents, the legacy payloads.    *)
(***************************************************************************)
EXTENDS Naturals, FiniteSets

CONSTANTS Addrs,        \* email addresses
          Username,     \* the account's name, an address (magic-link convention)
          NoAddr,       \* a row without an email
          NoTok,        \* a token row that does not exist
          Calls,        \* mutations in flight at once
          Runners,      \* drains that may run a send task at once
          MaxRequests,  \* bound: requests, by store
          MaxMints      \* bound: tokens minted

AuthLinksAssumption ==
    /\ Username \in Addrs /\ NoAddr \notin Addrs
    /\ MaxRequests.do \in Nat /\ MaxRequests.d1 \in Nat /\ MaxMints \in Nat
    /\ 0 \notin Calls     \* a task

VARIABLES store,    \* "do" or "d1": which store the app runs on
          row,      \* the auth_users row
          asks,     \* payload of the send task of each request made so far
          toks,     \* token rows, by request
          queue,    \* requests whose send task is not done
          runs,     \* what each runner is doing
          minted,   \* tokens minted so far; a token is its number
          mails,    \* mails that reached an inbox
          calls,    \* what each call is doing
          saved,    \* the transaction's snapshot, for its rollback
          proved    \* history: addresses whose reader redeemed a link

vars == <<store, row, asks, toks, queue, runs, minted, mails, calls, saved, proved>>

Requests == 1 .. MaxRequests[store]
Purposes == {"reset", "verify", "login"}
Idle == [op |-> "idle"]
Pending == 0

(* The requests of one purpose; the account is the only one in the model.   *)
Of(purpose) == {r \in DOMAIN asks : asks[r].purpose = purpose}
Without(rs) == [r \in Requests |-> IF r \in rs THEN NoTok ELSE toks[r]]

Redeemable(r) == /\ toks[r] # NoTok
                 /\ toks[r].hash # Pending
                 /\ ~toks[r].consumed

-----------------------------------------------------------------------------
(* Transactions.                                                           *)

(* A statement of call c, or of a task (c = 0), may run now.                *)
MayRun(c) == store = "do" => \A d \in Calls \ {c} : calls[d] = Idle

Snapshot == IF store = "do" THEN [row |-> row, toks |-> toks] ELSE NoTok
Starts(c, next) == /\ calls[c] = Idle
                   /\ MayRun(c)
                   /\ saved' = Snapshot
                   /\ calls' = [calls EXCEPT ![c] = next]
Goes(c, next) == calls' = [calls EXCEPT ![c] = next] /\ UNCHANGED saved
Ends(c) == calls' = [calls EXCEPT ![c] = Idle] /\ saved' = NoTok

(* The handler throws, or its isolate dies: only the object rolls back.     *)
undone(c) == /\ Ends(c)
             /\ IF store = "do"
                THEN row' = saved.row /\ toks' = saved.toks
                ELSE UNCHANGED <<row, toks>>
             /\ UNCHANGED <<store, asks, queue, runs, minted, mails, proved>>

Dies(c) == calls[c] # Idle /\ undone(c)

-----------------------------------------------------------------------------
(* changeEmail: the flag is cleared first, then the address is written.     *)

changeEmail(c, a) ==
    /\ a # row.email
    /\ Starts(c, [op |-> "change", email |-> a, pc |-> "write"])
    /\ row' = [row EXCEPT !.verified = FALSE]
    /\ UNCHANGED <<store, asks, toks, queue, runs, minted, mails, proved>>

changeWrites(c) ==
    /\ calls[c].op = "change"
    /\ MayRun(c)
    /\ row' = [row EXCEPT !.email = calls[c].email]
    /\ Ends(c)
    /\ UNCHANGED <<store, asks, toks, queue, runs, minted, mails, proved>>

-----------------------------------------------------------------------------
(* The three requests.  What the handler read decides the address.          *)

Asking(c, purpose, a) == Starts(c, [op |-> "ask", purpose |-> purpose, email |-> a, pc |-> "delete"])

requestEmailVerification(c) == /\ row.email # NoAddr
                               /\ ~row.verified
                               /\ Asking(c, "verify", row.email)
requestPasswordReset(c) == /\ row.email # NoAddr
                           /\ Asking(c, "reset", row.email)
requestMagicLink(c) == Asking(c, "login", Username)

Request(c) ==
    /\ \/ requestEmailVerification(c)
       \/ requestPasswordReset(c)
       \/ requestMagicLink(c)
    /\ UNCHANGED <<store, row, asks, toks, queue, runs, minted, mails, proved>>

supersededNone(purpose) == toks
superseded(purpose) == Without(Of(purpose))

revokes(c) ==
    /\ calls[c].op = "ask" /\ calls[c].pc = "delete"
    /\ MayRun(c)
    /\ toks' = superseded(calls[c].purpose)
    /\ Goes(c, [calls[c] EXCEPT !.pc = "insert"])
    /\ UNCHANGED <<store, row, asks, queue, runs, minted, mails, proved>>

inserts(c) ==
    /\ calls[c].op = "ask" /\ calls[c].pc = "insert"
    /\ MayRun(c)
    /\ Cardinality(DOMAIN asks) < MaxRequests[store]
    /\ LET r == Cardinality(DOMAIN asks) + 1 IN
         /\ asks' = [q \in 1 .. r |-> IF q = r
                        THEN [purpose |-> calls[c].purpose, email |-> calls[c].email]
                        ELSE asks[q]]
         /\ toks' = [toks EXCEPT ![r] = [hash |-> Pending, sent |-> FALSE, consumed |-> FALSE]]
         /\ Goes(c, [op |-> "enqueue", req |-> r])
    /\ UNCHANGED <<store, row, queue, runs, minted, mails, proved>>

enqueues(c) ==
    /\ calls[c].op = "enqueue"
    /\ MayRun(c)
    /\ queue' = queue \cup {calls[c].req}
    /\ Ends(c)
    /\ UNCHANGED <<store, row, asks, toks, runs, minted, mails, proved>>

-----------------------------------------------------------------------------
(* The send task.                                                          *)

Runs(d, next) == runs' = [runs EXCEPT ![d] = next]
Settles(d) == queue' = queue \ {runs[d].req} /\ Runs(d, Idle)
At(d, pc) == runs[d] # Idle /\ runs[d].op = pc /\ MayRun(0)

(* eligible: the account still holds the address, and still lacks the flag. *)
wanted(r) == \/ asks[r].purpose = "login"
             \/ asks[r].purpose = "reset" /\ row.email = asks[r].email
             \/ asks[r].purpose = "verify" /\ row.email = asks[r].email /\ ~row.verified

taskStarts(d, r) ==
    /\ runs[d] = Idle /\ r \in queue /\ MayRun(0)
    /\ IF wanted(r)
       THEN Runs(d, [op |-> "select", req |-> r]) /\ UNCHANGED <<toks, queue>>
       ELSE queue' = queue \ {r} /\ toks' = Without({r}) /\ UNCHANGED runs
    /\ UNCHANGED <<store, row, asks, minted, mails, calls, saved, proved>>

(* mintForRequest reads the row, then claims it by the hash it read.        *)
mintReads(d) ==
    /\ At(d, "select")
    /\ LET t == toks[runs[d].req] IN
         IF t = NoTok \/ t.sent
         THEN Settles(d)
         ELSE Runs(d, [op |-> "mint", req |-> runs[d].req, seen |-> t.hash]) /\ UNCHANGED queue
    /\ UNCHANGED <<store, row, asks, toks, minted, mails, calls, saved, proved>>

claimable(r, seen) == toks[r] # NoTok /\ toks[r].hash = seen /\ ~toks[r].sent
claimedAsSent(r) == [toks EXCEPT ![r].hash = minted + 1, ![r].sent = TRUE]
claimed(r) == [toks EXCEPT ![r].hash = minted + 1]

mints(d) ==
    /\ At(d, "mint")
    /\ LET r == runs[d].req IN
         IF claimable(r, runs[d].seen)
         THEN /\ minted < MaxMints
              /\ minted' = minted + 1
              /\ toks' = claimed(r)
              /\ Runs(d, [op |-> "send", req |-> r, token |-> minted + 1])
              /\ UNCHANGED queue
         ELSE Settles(d) /\ UNCHANGED <<minted, toks>>
    /\ UNCHANGED <<store, row, asks, mails, calls, saved, proved>>

sends(d) ==
    /\ At(d, "send")
    /\ mails' = mails \cup {[req |-> runs[d].req, token |-> runs[d].token]}
    /\ Runs(d, [op |-> "mark", req |-> runs[d].req])
    /\ UNCHANGED <<store, row, asks, toks, queue, minted, calls, saved, proved>>

markSent(d) ==
    /\ At(d, "mark")
    /\ LET r == runs[d].req IN
         /\ toks' = IF toks[r] = NoTok THEN toks ELSE [toks EXCEPT ![r].sent = TRUE]
         /\ Runs(d, [op |-> "settle", req |-> r])
    /\ UNCHANGED <<store, row, asks, queue, minted, mails, calls, saved, proved>>

settles(d) ==
    /\ At(d, "settle")
    /\ Settles(d)
    /\ UNCHANGED <<store, row, asks, toks, minted, mails, calls, saved, proved>>

(* The provider refuses the mail, or the drain dies: the task is retried.   *)
taskFails(d) ==
    /\ runs[d] # Idle
    /\ Runs(d, Idle)
    /\ UNCHANGED <<store, row, asks, toks, queue, minted, mails, calls, saved, proved>>

-----------------------------------------------------------------------------
(* Redemptions.                                                            *)

consumableTwice(m) == toks[m.req] # NoTok /\ toks[m.req].hash = m.token
consumable(m) == Redeemable(m.req) /\ toks[m.req].hash = m.token

redeemEmailToken(c, m) ==
    /\ m \in mails /\ consumable(m)
    /\ Starts(c, [op |-> "redeemed", purpose |-> asks[m.req].purpose,
                  email |-> asks[m.req].email, token |-> m.token, pc |-> "read"])
    /\ toks' = [toks EXCEPT ![m.req].consumed = TRUE]
    /\ proved' = proved \cup {asks[m.req].email}
    /\ UNCHANGED <<store, row, asks, queue, runs, minted, mails>>

InRedemption(c, purpose, pc) == /\ calls[c].op = "redeemed"
                                /\ calls[c].purpose = purpose
                                /\ calls[c].pc = pc
                                /\ MayRun(c)

stillHeldUnread(email) == row.email # NoAddr
stillHeld(email) == row.email = email

(* resetPassword reads the row, then writes under the same condition.       *)
resetReads(c) ==
    /\ InRedemption(c, "reset", "read")
    /\ row.email = calls[c].email
    /\ Goes(c, [calls[c] EXCEPT !.pc = "write"])
    /\ UNCHANGED <<store, row, asks, toks, queue, runs, minted, mails, proved>>

resetWrites(c) ==
    /\ InRedemption(c, "reset", "write")
    /\ stillHeld(calls[c].email)
    /\ row' = [row EXCEPT !.verified = TRUE, !.password = TRUE]
    /\ Goes(c, [calls[c] EXCEPT !.pc = "clean"])
    /\ UNCHANGED <<store, asks, toks, queue, runs, minted, mails, proved>>

verifyEmail(c) ==
    /\ InRedemption(c, "verify", "read")
    /\ stillHeld(calls[c].email)
    /\ row' = [row EXCEPT !.verified = TRUE]
    /\ Goes(c, [calls[c] EXCEPT !.pc = "clean"])
    /\ UNCHANGED <<store, asks, toks, queue, runs, minted, mails, proved>>

(* A redemption whose address the row no longer holds throws.               *)
refused(c) ==
    /\ \/ InRedemption(c, "reset", "read")
       \/ InRedemption(c, "reset", "write")
       \/ InRedemption(c, "verify", "read")
    /\ ~stillHeld(calls[c].email)
    /\ undone(c)

cleans(c) ==
    /\ calls[c].op = "redeemed" /\ calls[c].pc = "clean" /\ MayRun(c)
    /\ toks' = Without(Of(calls[c].purpose))
    /\ Ends(c)
    /\ UNCHANGED <<store, row, asks, queue, runs, minted, mails, proved>>

(* loginWithMagicLink: the row is named after the address the link proved.  *)
adoptable == ~row.password \/ (row.email = Username /\ row.verified)

loginReads(c) ==
    /\ InRedemption(c, "login", "read")
    /\ IF adoptable
       THEN /\ Goes(c, [calls[c] EXCEPT !.pc = "record"])
            /\ UNCHANGED <<store, row, asks, toks, queue, runs, minted, mails, proved>>
       ELSE undone(c)

recordable == row.email = NoAddr \/ (row.email = Username /\ ~row.verified)

loginRecords(c) ==
    /\ InRedemption(c, "login", "record")
    /\ row' = IF recordable
              THEN [row EXCEPT !.email = Username, !.verified = TRUE]
              ELSE row
    /\ Ends(c)
    /\ UNCHANGED <<store, asks, toks, queue, runs, minted, mails, proved>>

-----------------------------------------------------------------------------
Init ==
    /\ store \in {"do", "d1"}
    /\ row \in {[email |-> NoAddr, verified |-> FALSE, password |-> FALSE],   \* inviteUser
                [email |-> Username, verified |-> FALSE, password |-> TRUE]}  \* signup
    /\ asks = << >>
    /\ toks = [r \in Requests |-> NoTok]
    /\ queue = {}
    /\ runs = [d \in Runners |-> Idle]
    /\ minted = 0
    /\ mails = {}
    /\ calls = [c \in Calls |-> Idle]
    /\ saved = NoTok
    /\ proved = {}

Next ==
    \/ \E c \in Calls, a \in Addrs : changeEmail(c, a)
    \/ \E c \in Calls : \/ changeWrites(c)
                        \/ Request(c)
                        \/ revokes(c)
                        \/ inserts(c)
                        \/ enqueues(c)
                        \/ resetReads(c)
                        \/ resetWrites(c)
                        \/ verifyEmail(c)
                        \/ refused(c)
                        \/ cleans(c)
                        \/ loginReads(c)
                        \/ loginRecords(c)
                        \/ Dies(c)
    \/ \E c \in Calls, m \in mails : redeemEmailToken(c, m)
    \/ \E d \in Runners, r \in DOMAIN asks : taskStarts(d, r)
    \/ \E d \in Runners : \/ mintReads(d)
                          \/ mints(d)
                          \/ sends(d)
                          \/ markSent(d)
                          \/ settles(d)
                          \/ taskFails(d)

Spec == Init /\ [][Next]_vars

-----------------------------------------------------------------------------
(* An address is called verified only when a reader of that inbox redeemed  *)
(* a link sent to it: changeEmail, verifyEmail, resetPassword and the magic *)
(* link keep the flag and the address together.                             *)
VerifiedAddressWasProved == row.verified => row.email \in proved

(* On the Durable Object, where a mutation is a transaction.                *)
VerifiedInTransactions == store = "do" => VerifiedAddressWasProved

(* Only the latest request of a purpose works: never two live links.        *)
OnlyTheLatestWorks ==
    store = "do" => \A p \in Purposes : Cardinality({r \in Of(p) : Redeemable(r)}) <= 1

(* A row marked sent holds the token that was mailed: a retry that finds    *)
(* it sends nothing, so the link in the inbox is the live one.              *)
SentMeansDelivered ==
    \A r \in DOMAIN asks : toks[r] # NoTok /\ toks[r].sent
        => [req |-> r, token |-> toks[r].hash] \in mails

(* Two calls racing with one link: only one of them gets through.           *)
Redeeming(c) == calls[c].op = "redeemed"
RedeemedOnce ==
    \A c, d \in Calls : c # d /\ Redeeming(c) /\ Redeeming(d) => calls[c].token # calls[d].token
=============================================================================
