------------------------------ MODULE Accounts ------------------------------
(***************************************************************************)
(* Every door into an account of packages/auth: sign-up and password,      *)
(* magic link and invitation, password reset, a provider's sign-in         *)
(* (__oidcUpsertUser in oidc.ts), and what an administrator does to a row. *)
(* A username is free to take by whoever signs up first, an e-mail address *)
(* has one owner, and an account named after an address is its owner's.    *)
(*                                                                         *)
(* Each handler is one transaction, as on the Durable Object store.  The   *)
(* interleavings of single handlers on D1 are AuthLinks and AuthSessions.  *)
(* An owner follows a verification link only after asking for it, and puts *)
(* only an address of theirs on the account named after their address.     *)
(***************************************************************************)
EXTENDS Integers, FiniteSets

CONSTANTS
  People,              \* person p owns the address p
  Handles,             \* usernames that are no address
  Sub(_),              \* Sub(p): the username "issuer#sub" of p at the provider
  Usernames,           \* usernames in play
  Nobody,              \* no person, no address
  MaxOps               \* bound on the handlers that run

AccountsAssumption ==
  /\ Nobody \notin People
  /\ People \cap Handles = {}
  /\ \A p \in People : Sub(p) \notin People   \* nobody reads mail at "issuer#sub"
  /\ MaxOps \in Nat

VARIABLES
  rows,                \* auth_users: username to row or NoRow
  mails,               \* links in inboxes that still work
  sessions,            \* sessions not retired: which person holds one of which account
  proved,              \* history: accounts with the address their holder proved
  entered,             \* history: accounts their address's owner got into by proof
  ops
vars == <<rows, mails, sessions, proved, entered, ops>>

Row(pw, email, verified) ==
  [exists |-> TRUE, pw |-> pw, email |-> email, verified |-> verified, active |-> TRUE]
NoRow ==
  [exists |-> FALSE, pw |-> Nobody, email |-> Nobody, verified |-> FALSE, active |-> FALSE]

Exists(u) == rows[u].exists
Holds(p, u) == [user |-> u, person |-> p]
Mail(kind, u, a) == [kind |-> kind, user |-> u, address |-> a]
heldByAnother(a, u) == \E v \in Usernames \ {u} : rows[v].email = a
Runs == ops < MaxOps /\ ops' = ops + 1

Put(u, row) == rows' = [rows EXCEPT ![u] = row]
mint(p, u) == sessions' = sessions \cup {Holds(p, u)}
(* A session of an inactive user is denied by the Worker until the user is *)
(* active again.                                                           *)
mayCall(p, u) == Holds(p, u) \in sessions /\ rows[u].active
Others(u) == {s \in sessions : s.user # u}
Proves(u, a) == proved' = proved \cup {<<u, a>>}

(* adoptableBy: may a proof of the address take this row?                  *)
adoptableVerified(u) == rows[u].pw = Nobody \/ rows[u].verified
adoptableBy(u) == rows[u].pw = Nobody \/ (rows[u].email = u /\ rows[u].verified)

-----------------------------------------------------------------------------
(* Passwords.  A person knows the password that person set.                *)

signup(p, u, a) ==
  /\ Runs
  /\ ~Exists(u)
  /\ a # Nobody => ~heldByAnother(a, u)
  /\ u = p => a \in {p, Nobody}
  /\ Put(u, Row(p, a, FALSE))
  /\ mint(p, u)
  /\ UNCHANGED <<mails, proved, entered>>

login(p, u) ==
  /\ Runs
  /\ Exists(u) /\ rows[u].pw = p /\ rows[u].active
  /\ mint(p, u)
  /\ UNCHANGED <<rows, mails, proved, entered>>

(* An empty slot is filled by the session, a filled one by its password.   *)
knowsOrEmpty(p, u) == rows[u].pw \in {Nobody, p}

(* Retires every earlier session, the caller's too, and mints a new one.   *)
changePassword(p, u) ==
  /\ Runs
  /\ mayCall(p, u)
  /\ Exists(u)
  /\ knowsOrEmpty(p, u)
  /\ Put(u, [rows[u] EXCEPT !.pw = p])
  /\ sessions' = Others(u) \cup {Holds(p, u)}
  /\ UNCHANGED <<mails, proved, entered>>

changeEmail(p, u, a) ==
  /\ Runs
  /\ mayCall(p, u)
  /\ knowsOrEmpty(p, u)
  /\ u = p => a = p
  /\ ~heldByAnother(a, u)
  /\ Put(u, [rows[u] EXCEPT !.email = a, !.verified = FALSE])
  /\ proved' = {x \in proved : x[1] # u}
  /\ UNCHANGED <<mails, sessions, entered>>

-----------------------------------------------------------------------------
(* Links.  A mail reaches the owner of its address; redeeming uses it up   *)
(* unless the handler throws.                                              *)

requestLink(kind, u, a) == mails' = mails \cup {Mail(kind, u, a)}

requestMagicLink(a) ==
  /\ Runs
  /\ a \in Usernames
  /\ requestLink("magic", a, a)
  /\ UNCHANGED <<rows, sessions, proved, entered>>

inviteUser(a) ==
  /\ Runs
  /\ a \in Usernames
  /\ Exists(a) => adoptableBy(a)
  /\ IF Exists(a) THEN UNCHANGED rows ELSE Put(a, Row(Nobody, Nobody, FALSE))
  /\ requestLink("magic", a, a)
  /\ UNCHANGED <<sessions, proved, entered>>

(* The address is recorded when no other row holds it.                     *)
recorded(row, a) ==
  IF /\ row.email = Nobody \/ (row.email = a /\ ~row.verified)
     /\ ~heldByAnother(a, a)
  THEN [row EXCEPT !.email = a, !.verified = TRUE]
  ELSE row

loginWithMagicLink(a) ==
  /\ Runs
  /\ Mail("magic", a, a) \in mails
  /\ Exists(a) => adoptableBy(a) /\ rows[a].active
  /\ mails' = mails \ {Mail("magic", a, a)}
  /\ Put(a, recorded(IF Exists(a) THEN rows[a] ELSE Row(Nobody, Nobody, FALSE), a))
  /\ mint(a, a)
  /\ Proves(a, a)
  /\ entered' = entered \cup {a}

requestPasswordReset(u, a) ==
  /\ Runs
  /\ rows[u].email = a /\ rows[u].active
  /\ requestLink("reset", u, a)
  /\ UNCHANGED <<rows, sessions, proved, entered>>

resetPassword(u, a) ==
  /\ Runs
  /\ Mail("reset", u, a) \in mails
  /\ rows[u].email = a /\ rows[u].active
  /\ Put(u, [rows[u] EXCEPT !.pw = a, !.verified = TRUE])
  /\ mails' = {l \in mails : ~(l.kind = "reset" /\ l.user = u)}
  /\ sessions' = Others(u)
  /\ Proves(u, a)
  /\ entered' = IF u = a THEN entered \cup {u} ELSE entered

requestEmailVerification(p, u) ==
  /\ Runs
  /\ mayCall(p, u)
  /\ rows[u].email = p /\ ~rows[u].verified
  /\ requestLink("verify", u, p)
  /\ UNCHANGED <<rows, sessions, proved, entered>>

verifyEmail(u, a) ==
  /\ Runs
  /\ Mail("verify", u, a) \in mails
  /\ rows[u].email = a
  /\ Put(u, [rows[u] EXCEPT !.verified = TRUE])
  /\ mails' = {l \in mails : ~(l.kind = "verify" /\ l.user = u)}
  /\ Proves(u, a)
  /\ UNCHANGED <<sessions, entered>>

-----------------------------------------------------------------------------
(* __oidcUpsertUser, and the session the callback mints for what it says.  *)
(* address: the one the provider verified, if any.                         *)

allClaimsCleared(address, u) ==
  [v \in Usernames |->
     IF v # u /\ rows[v].email = address
     THEN [rows[v] EXCEPT !.email = Nobody, !.verified = FALSE] ELSE rows[v]]
claimsCleared(address, u) ==
  [v \in Usernames |->
     IF v # u /\ rows[v].email = address /\ ~rows[v].verified
     THEN [rows[v] EXCEPT !.email = Nobody] ELSE rows[v]]

firstSignIn(u, address) ==
  LET freed == IF address = Nobody THEN rows ELSE claimsCleared(address, u)
      held == \E v \in Usernames : freed[v].email = address
      email == IF held THEN Nobody ELSE address
  IN rows' = [freed EXCEPT ![u] = Row(Nobody, email, email # Nobody)]

oidcSignIn(p, emailKeyed, emailVerified) ==
  LET u == IF emailKeyed THEN p ELSE Sub(p)
      address == IF emailVerified THEN p ELSE Nobody
  IN /\ Runs
     /\ u \in Usernames
     /\ emailKeyed => emailVerified
     /\ IF Exists(u)
        THEN /\ emailKeyed => adoptableBy(u)
             /\ rows[u].active
             /\ UNCHANGED <<rows, proved>>
        ELSE /\ firstSignIn(u, address)
             /\ IF emailVerified THEN Proves(u, p) ELSE UNCHANGED proved
     /\ mint(p, u)
     /\ entered' = IF emailKeyed THEN entered \cup {u} ELSE entered
     /\ UNCHANGED mails

-----------------------------------------------------------------------------
(* Administration.                                                         *)

(* Sessions are denied, not retired: a reactivation lets them work again.  *)
setUserActive(u, active) ==
  /\ Runs
  /\ Exists(u)
  /\ Put(u, [rows[u] EXCEPT !.active = active])
  /\ UNCHANGED <<mails, sessions, proved, entered>>

(* A tombstone: the name stays taken, whatever was proved for it is gone,  *)
(* and its sessions are retired for good.                                  *)
deleteUser(u) ==
  /\ Runs
  /\ Exists(u)
  /\ Put(u, [Row(Nobody, Nobody, FALSE) EXCEPT !.active = FALSE])
  /\ sessions' = Others(u)
  /\ proved' = {x \in proved : x[1] # u}
  /\ UNCHANGED <<mails, entered>>

Init ==
  /\ rows = [u \in Usernames |-> NoRow]
  /\ mails = {}
  /\ sessions = {}
  /\ proved = {}
  /\ entered = {}
  /\ ops = 0

Next ==
  \/ \E p \in People, u \in Usernames :
       \/ \E a \in People \cup {Nobody} : signup(p, u, a)
       \/ login(p, u)
       \/ changePassword(p, u)
       \/ \E a \in People : changeEmail(p, u, a)
       \/ requestEmailVerification(p, u)
  \/ \E a \in People : requestMagicLink(a) \/ inviteUser(a) \/ loginWithMagicLink(a)
  \/ \E u \in Usernames, a \in People :
       requestPasswordReset(u, a) \/ resetPassword(u, a) \/ verifyEmail(u, a)
  \/ \E p \in People, keyed, verified \in BOOLEAN : oidcSignIn(p, keyed, verified)
  \/ \E u \in Usernames : deleteUser(u) \/ \E active \in BOOLEAN : setUserActive(u, active)

Spec == Init /\ [][Next]_vars

-----------------------------------------------------------------------------
(* Properties.                                                             *)

(* Once the owner of an address got into the account named after it by     *)
(* proving the address, nobody else knows its password or holds a session  *)
(* of it, a denied one that a reactivation would revive included: whoever  *)
(* signed up under that name first keeps nothing (adoptableBy in           *)
(* users-table.ts).                                                        *)
NoSharedAccount ==
  \A u \in entered :
    /\ rows[u].pw \in {Nobody, u}
    /\ \A s \in sessions : s.user = u => s.person = u

(* A verified mark was earned for the address it stands on.                *)
MarksAreEarned ==
  \A u \in Usernames : rows[u].verified => <<u, rows[u].email>> \in proved

(* No sequence of handlers drives two rows onto one address, which the     *)
(* unique column would answer with a failed sign-in of the second.         *)
AddressesAreDistinct ==
  \A u, v \in Usernames : u # v /\ rows[u].email = rows[v].email => rows[u].email = Nobody

(* A verified address is never lost to what happens to another account.    *)
Keeps == \A u \in Usernames :
  rows[u].verified /\ rows'[u].email # rows[u].email
    => \A v \in Usernames \ {u} : rows'[v] = rows[v]
VerifiedStays == [][Keeps]_vars
=============================================================================
