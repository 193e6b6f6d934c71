---------------------------- MODULE AuthSessions ----------------------------
(***************************************************************************)
(* Who a session token still lets in (packages/auth/src/index.ts, its      *)
(* session-ttl.ts, runtime/kv.ts and worker.ts of @pramen/server).         *)
(*                                                                         *)
(* A token is signed once and never stored: it dies by its TTL, or because *)
(* the Worker finds its user on the KV denylist, or its iat before the     *)
(* user's notBefore instant.  refreshSession looks at the users row        *)
(* instead.  Deactivation, deletion and a credential change therefore      *)
(* write both, one after the other, and KV is in no transaction: a call    *)
(* that dies half way rolls the row back on the Durable Object, nothing on *)
(* D1.  One account; an action is one await.  The clock counts seconds.    *)
(*                                                                         *)
(* Abstracted: password contents (a call whose check fails changes         *)
(* nothing), createdAt (a username's row is never replaced: deleteUser     *)
(* keeps a tombstone), the 60 s floor of a KV entry (only lengthens it),   *)
(* the propagation delay of KV (refresh is tried with any unexpired token).*)
(***************************************************************************)
EXTENDS Integers, FiniteSets

CONSTANTS Store,     \* "do" or "d1"
          Calls,     \* mutations in flight at once
          EnvTtl,    \* AUTH_SESSION_TTL_SECONDS
          LinkTtl,   \* sessionTtlSeconds of a factory (the magic link)
          Never,     \* no instant
          MaxTime    \* bound: the last second

(* A lifetime is at least a second, and no instant lies before them all.    *)
ASSUME AuthSessionsAssumption ==
    /\ Store \in {"do", "d1"}
    /\ EnvTtl \in Nat \ {0} /\ LinkTtl \in Nat \ {0}
    /\ Never \in Int /\ Never < 1

VARIABLES now, row, denied, notBefore, sessions, calls, saved, lastChange, laundered, halted, lifted

vars == <<now, row, denied, notBefore, sessions, calls, saved, lastChange, laundered, halted, lifted>>
kv == <<denied, notBefore>>
history == <<lastChange, laundered, halted, lifted>>

(* lastChange: when the latest answered credential change took its instant; *)
(* laundered: a token older than that was refreshed; halted: a call died;   *)
(* lifted: a reactivation did, after it lifted the entry of the denylist.   *)

Ttls == {EnvTtl, LinkTtl}
Idle == [op |-> "idle"]
Live(s) == now < s.exp

(* session-ttl.ts: an entry outlives every token any factory mints.         *)
maxSessionTtlEnv == EnvTtl
maxSessionTtl == IF EnvTtl > LinkTtl THEN EnvTtl ELSE LinkTtl

(* isIdentityRevoked, asked by the Worker on every request.                 *)
isSessionDenied == now < denied
isIssuedBeforeNotBefore(s) == now < notBefore.until /\ s.iat < notBefore.at
isIdentityRevoked(s) == isSessionDenied \/ isIssuedBeforeNotBefore(s)

(* issuedBeforeAccountState: what refreshSession reads on the row.          *)
neverBefore(s) == FALSE
issuedBeforeAccountState(s) == row.changedAt # Never /\ s.iat < row.changedAt

-----------------------------------------------------------------------------
MayRun(c) == Store = "do" => \A d \in Calls \ {c} : calls[d] = Idle
At(c, op, pc) == calls[c].op = op /\ calls[c].pc = pc /\ MayRun(c)
Starts(c, next) == /\ calls[c] = Idle
                   /\ MayRun(c)
                   /\ saved' = row
                   /\ calls' = [calls EXCEPT ![c] = next]
Goes(c, next) == calls' = [calls EXCEPT ![c] = next] /\ UNCHANGED saved
Ends(c) == calls' = [calls EXCEPT ![c] = Idle] /\ saved' = row'

Signed(ttl) == sessions' = sessions \cup {[iat |-> now, exp |-> now + ttl]}

(* The call dies, or its KV write throws.                                   *)
Dies(c) ==
    /\ calls[c] # Idle
    /\ row' = IF Store = "do" THEN saved ELSE row
    /\ Ends(c)
    /\ halted' = TRUE
    /\ UNCHANGED <<now, kv, sessions, lastChange, laundered, lifted>>

-----------------------------------------------------------------------------
(* login, loginWithMagicLink: read the row, then sign.                      *)
login(c) ==
    /\ row.active
    /\ \E ttl \in Ttls : Starts(c, [op |-> "sign", pc |-> "sign", ttl |-> ttl, from |-> now])
    /\ UNCHANGED <<now, row, kv, sessions, history>>

refreshSession(c, s) ==
    /\ Live(s)
    /\ row.active
    /\ ~issuedBeforeAccountState(s)
    /\ \E ttl \in Ttls : Starts(c, [op |-> "sign", pc |-> "sign", ttl |-> ttl, from |-> s.iat])
    /\ UNCHANGED <<now, row, kv, sessions, history>>

signs(c) ==
    /\ At(c, "sign", "sign")
    /\ Signed(calls[c].ttl)
    /\ laundered' = (laundered \/ calls[c].from < lastChange)
    /\ UNCHANGED row
    /\ Ends(c)
    /\ UNCHANGED <<now, kv, lastChange, halted, lifted>>

-----------------------------------------------------------------------------
(* setUserActive: the row, then the denylist.                               *)
setUserActive(c, active) ==
    /\ Starts(c, [op |-> "active", pc |-> "kv", active |-> active])
    /\ row' = [row EXCEPT !.active = active]
    /\ UNCHANGED <<now, kv, sessions, history>>

allowedLate == denied
allowed == Never

(* denySession or allowSession.                                             *)
denylisted(c) == IF calls[c].active THEN allowed ELSE now + maxSessionTtl
setsDenylist(c) ==
    /\ At(c, "active", "kv")
    /\ denied' = denylisted(c)
    /\ UNCHANGED row
    /\ Ends(c)
    /\ lifted' = FALSE
    /\ UNCHANGED <<now, notBefore, sessions, lastChange, laundered, halted>>

(* deleteUser keeps the row as a tombstone: inactive, denied at once, then  *)
(* cleared (nothing here reads what that clears) and retired for good.      *)
deleteUser(c) ==
    /\ Starts(c, [op |-> "delete", pc |-> "deny"])
    /\ row' = [row EXCEPT !.active = FALSE]
    /\ UNCHANGED <<now, kv, sessions, history>>

deletionDenies(c) ==
    /\ At(c, "delete", "deny")
    /\ denied' = now + maxSessionTtl
    /\ Goes(c, [op |-> "delete", pc |-> "retire"])
    /\ lifted' = FALSE
    /\ UNCHANGED <<now, row, notBefore, sessions, lastChange, laundered, halted>>

-----------------------------------------------------------------------------
(* retireEarlierSessions: changePassword, resetPassword and deleteUser take *)
(* an instant, write it to the row, then to KV.                             *)
resetPassword(c) ==
    /\ row.active
    /\ Starts(c, [op |-> "reset", pc |-> "retire"])
    /\ UNCHANGED <<now, row, kv, sessions, history>>

changePassword(c, s) ==
    /\ Live(s)
    /\ row.active
    /\ ~issuedBeforeAccountState(s)
    /\ Starts(c, [op |-> "change", pc |-> "retire"])
    /\ UNCHANGED <<now, row, kv, sessions, history>>

retiresInRow(c) ==
    /\ calls[c] # Idle /\ calls[c].pc = "retire" /\ MayRun(c)
    /\ row' = [row EXCEPT !.changedAt = now]
    /\ Goes(c, [op |-> calls[c].op, pc |-> "notBefore", at |-> now])
    /\ UNCHANGED <<now, kv, sessions, history>>

retiredAtOnce(at) == [at |-> at, until |-> now + EnvTtl]
retired(at) == [at |-> at, until |-> now + maxSessionTtl]

(* setSessionNotBefore; changePassword then signs the caller a new token.   *)
retiresInKv(c) ==
    /\ calls[c] # Idle /\ calls[c].pc = "notBefore" /\ MayRun(c)
    /\ notBefore' = retired(calls[c].at)
    /\ lastChange' = IF calls[c].at > lastChange THEN calls[c].at ELSE lastChange
    /\ IF calls[c].op = "change" THEN Signed(EnvTtl) ELSE UNCHANGED sessions
    /\ UNCHANGED row
    /\ Ends(c)
    /\ UNCHANGED <<now, denied, laundered, halted, lifted>>

(* KV is not part of the transaction: its last write took effect, and the   *)
(* call died before its row was committed.                                  *)
DiesLate(c) ==
    /\ Store = "do"
    /\ \/ /\ At(c, "active", "kv")
          /\ denied' = denylisted(c)
          /\ lifted' = (calls[c].active /\ ~saved.active)
          /\ UNCHANGED notBefore
       \/ /\ calls[c] # Idle /\ calls[c].pc = "notBefore"
          /\ notBefore' = retired(calls[c].at)
          /\ UNCHANGED <<denied, lifted>>
    /\ row' = saved
    /\ Ends(c)
    /\ halted' = TRUE
    /\ UNCHANGED <<now, sessions, lastChange, laundered>>

-----------------------------------------------------------------------------
(* An expired token, a lapsed entry: forgotten, as the signature check and  *)
(* KV forget them.                                                          *)
Tick ==
    /\ now < MaxTime
    /\ now' = now + 1
    /\ sessions' = {s \in sessions : s.exp > now + 1}
    /\ UNCHANGED <<row, kv, calls, saved, history>>

Init ==
    /\ now = 1
    /\ row = [active |-> TRUE, changedAt |-> Never]
    /\ denied = Never
    /\ notBefore = [at |-> Never, until |-> Never]
    /\ sessions = {}
    /\ calls = [c \in Calls |-> Idle]
    /\ saved = row
    /\ lastChange = Never
    /\ laundered = FALSE
    /\ halted = FALSE
    /\ lifted = FALSE

Next ==
    \/ \E c \in Calls : \/ login(c)
                        \/ signs(c)
                        \/ setsDenylist(c)
                        \/ deleteUser(c)
                        \/ deletionDenies(c)
                        \/ resetPassword(c)
                        \/ retiresInRow(c)
                        \/ retiresInKv(c)
                        \/ Dies(c) \/ DiesLate(c)
    \/ \E c \in Calls, active \in BOOLEAN : setUserActive(c, active)
    \/ \E c \in Calls, s \in sessions : refreshSession(c, s) \/ changePassword(c, s)
    \/ Tick

Spec == Init /\ [][Next]_vars

-----------------------------------------------------------------------------
Quiet == \A c \in Calls : calls[c] = Idle

(* Once a change of credentials, a reset or a deletion is answered, every   *)
(* session issued in an earlier second is refused by the Worker for as long *)
(* as it lives, through any later reactivation.                             *)
EarlierSessionsDie ==
    \A s \in sessions : Live(s) /\ s.iat < lastChange => isIdentityRevoked(s)

(* refreshSession and login turn no session, and no sign-in, from before a  *)
(* change into a newer one.                                                 *)
NothingIsLaundered == ~laundered

(* Between calls that all finished, an inactive account's sessions are all  *)
(* refused, however long they still have to live.                           *)
InactiveIsLockedOut ==
    Quiet /\ ~halted /\ ~row.active => \A s \in sessions : Live(s) => isIdentityRevoked(s)

(* ... and a reactivated account may sign in: no entry of the deactivation  *)
(* is left to refuse it.                                                    *)
ActiveIsLetIn == Quiet /\ ~halted /\ row.active => ~isSessionDenied

(* On the object a call that died half way, its row written and KV not or   *)
(* both, leaves nothing behind: whom the row turns away, the Worker turns   *)
(* away.  But for one: a reactivation that died after it lifted the entry.  *)
DeadCallsAreUndone ==
    Store = "do" /\ Quiet =>
      \A s \in sessions :
        Live(s) /\ (issuedBeforeAccountState(s) \/ (~row.active /\ ~lifted)) => isIdentityRevoked(s)

(* Together: sessions that an account change retired are dead once it is    *)
(* done, no renewal launders one, and activity alone decides who is let in. *)
SessionsAreSound ==
    /\ EarlierSessionsDie
    /\ NothingIsLaundered
    /\ InactiveIsLockedOut
    /\ ActiveIsLetIn
    /\ DeadCallsAreUndone
=============================================================================
