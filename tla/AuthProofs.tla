----------------------------- MODULE AuthProofs -----------------------------
(***************************************************************************)
(* What the auth package promises, for every value of the constants: who a *)
(* session token still lets in (AuthSessions), where a provider's sign-in  *)
(* ends (Oidc), what a mailed link is good for (AuthLinks), and whose an   *)
(* account is (Accounts).                                                  *)
(***************************************************************************)
EXTENDS MCAuth, FiniteSetTheorems, TLAPS

(***************************************************************************)
(* Sessions, for every number of concurrent mutations and every lifetime,  *)
(* as long as the mutations of one account do not overlap: on the Durable  *)
(* Object, whose transactions are serial, and on D1 one at a time.         *)
(***************************************************************************)
OneAtATime == Store = "do" \/ \A c, d \in Calls : c = d

-----------------------------------------------------------------------------
(* Types.  A token's lifetime never exceeds that of the entries which      *)
(* outlive it.                                                             *)
Row == [active : BOOLEAN, changedAt : Int]
Session == [iat : Int, exp : Int]
SignCall == [op : {"sign"}, pc : {"sign"}, ttl : Ttls, from : Int]
ActiveCall == [op : {"active"}, pc : {"kv"}, active : BOOLEAN]
DenyCall == [op : {"delete"}, pc : {"deny"}]
RetireCall == [op : {"delete", "reset", "change"}, pc : {"retire"}]
NotBeforeCall == [op : {"delete", "reset", "change"}, pc : {"notBefore"}, at : Int]
Call == {Idle} \cup SignCall \cup ActiveCall \cup DenyCall \cup RetireCall \cup NotBeforeCall

Typed ==
  /\ now \in Int /\ now >= 1
  /\ row \in Row /\ saved \in Row
  /\ denied \in Int
  /\ notBefore \in [at : Int, until : Int]
  /\ sessions \subseteq Session
  /\ \A s \in sessions : s.iat >= 1 /\ s.iat <= now /\ s.exp <= s.iat + maxSessionTtl
  /\ calls \in [Calls -> Call]
  /\ lastChange \in Int /\ laundered \in BOOLEAN /\ halted \in BOOLEAN
  /\ lifted \in BOOLEAN

(* No two mutations are under way.                                         *)
Alone == \A c, d \in Calls : c = d \/ calls[c] = Idle \/ calls[d] = Idle

(* The row knows the latest answered change, also when a dying call puts   *)
(* it back; KV knows it, or a later one that was never answered, for as    *)
(* long as an earlier token can live.                                      *)
Known ==
  /\ lastChange <= now
  /\ lastChange <= row.changedAt /\ lastChange <= saved.changedAt
  /\ lastChange >= 1 =>
       /\ notBefore.at >= lastChange
       /\ notBefore.until >= lastChange + maxSessionTtl
  /\ lastChange < 1 => lastChange = Never

(* What the call under way took its decision from still stands.            *)
Steady(c) ==
  /\ calls[c].op = "sign" => calls[c].from >= lastChange
  /\ calls[c] \in NotBeforeCall =>
       /\ calls[c].at = row.changedAt
       /\ 1 <= calls[c].at /\ calls[c].at <= now

(* The denylist follows the row, but for the call that moves it: whoever   *)
(* is inactive has no session that outlives the entry, whoever is active   *)
(* has no entry.                                                           *)
Listed == \A s \in sessions : s.exp <= denied
Follows ==
  IF row.active THEN denied = Never ELSE Listed
Moving(c) ==
  \/ calls[c].op \in {"sign", "reset", "change"} /\ row.active /\ denied = Never
  \/ calls[c] \in ActiveCall /\ row.active = calls[c].active
  \/ calls[c] \in DenyCall /\ ~row.active
  \/ calls[c].op = "delete" /\ calls[c].pc # "deny" /\ ~row.active /\ Listed

(* On the object, calls that died included: what a call that dies puts     *)
(* back agrees with KV, and so does the row while no call is under way.    *)
Agree(r) == (r.active \/ lifted \/ Listed) /\ r.changedAt = lastChange
Undoable(c) ==
  /\ Agree(saved)
  /\ calls[c] \in NotBeforeCall \/ row.changedAt = lastChange
  /\ \/ calls[c].op \in {"sign", "reset", "change"} /\ row.active
     \/ calls[c] \in ActiveCall /\ row.active = calls[c].active
     \/ calls[c] \in DenyCall /\ ~row.active
     \/ calls[c].op = "delete" /\ calls[c].pc # "deny" /\ ~row.active /\ Listed
Agreed ==
  Store = "do" => /\ Quiet => Agree(row)
                  /\ \A c \in Calls : calls[c] = Idle \/ Undoable(c)

SessInv ==
  /\ Typed /\ Alone /\ Known /\ ~laundered /\ Agreed
  /\ \A c \in Calls : Steady(c)
  /\ ~halted => /\ Quiet => Follows
                /\ \A c \in Calls : calls[c] = Idle \/ Moving(c)

-----------------------------------------------------------------------------
(* What a call's step says of it, and of the sessions it leaves.           *)

LEMMA TtlBounds ==
  /\ maxSessionTtl \in Nat /\ EnvTtl \in Ttls
  /\ \A ttl \in Ttls : ttl \in Nat /\ ttl <= maxSessionTtl
BY AuthSessionsAssumption DEF AuthSessionsAssumption, Ttls, maxSessionTtl

(* The kind of a call is told by its op and its pc.                        *)
LEMMA CallKinds ==
  ASSUME NEW k \in Call
  PROVE  /\ k.op = "sign" => k \in SignCall
         /\ k.op = "active" => k \in ActiveCall
         /\ k.op = "delete" /\ k.pc = "deny" => k \in DenyCall
         /\ k # Idle /\ k.pc = "retire" => k \in RetireCall
         /\ k # Idle /\ k.pc = "notBefore" => k \in NotBeforeCall
         /\ k.op = "idle" <=> k = Idle
<1>1. CASE k = Idle  BY <1>1 DEF Idle
<1>2. CASE k \in SignCall  BY <1>2 DEF SignCall, Idle
<1>3. CASE k \in ActiveCall  BY <1>3 DEF ActiveCall, Idle
<1>4. CASE k \in DenyCall  BY <1>4 DEF DenyCall, Idle
<1>5. CASE k \in RetireCall  BY <1>5 DEF RetireCall, Idle
<1>6. CASE k \in NotBeforeCall  BY <1>6 DEF NotBeforeCall, Idle
<1> QED  BY <1>1, <1>2, <1>3, <1>4, <1>5, <1>6 DEF Call

LEMMA OthersAreIdle ==
  ASSUME SessInv, NEW c \in Calls, OneAtATime, MayRun(c) \/ calls[c] # Idle
  PROVE  \A d \in Calls : d = c \/ calls[d] = Idle
BY DEF SessInv, Alone, OneAtATime, MayRun

(* A step of call c, to be checked for c alone.                            *)
LEMMA CallStep ==
  ASSUME SessInv, OneAtATime, NEW c \in Calls, MayRun(c) \/ calls[c] # Idle,
         NEW k \in Call, calls' = [calls EXCEPT ![c] = k],
         UNCHANGED now,
         row' \in Row, saved' \in Row, denied' \in Int, notBefore' \in [at : Int, until : Int],
         sessions' \subseteq Session, lastChange' \in Int, halted' \in BOOLEAN, lifted' \in BOOLEAN,
         \A s \in sessions' : s.iat >= 1 /\ s.iat <= now /\ s.exp <= s.iat + maxSessionTtl,
         Known', laundered' = FALSE, Steady(c)',
         ~halted' => IF k = Idle THEN Follows' ELSE Moving(c)',
         Store = "do" => IF k = Idle THEN Agree(row)' ELSE Undoable(c)'
  PROVE  SessInv'
<1>1. \A d \in Calls : d = c \/ (calls[d] = Idle /\ calls'[d] = Idle)
  BY OthersAreIdle DEF SessInv, Typed
<1>2. calls'[c] = k /\ calls' \in [Calls -> Call]
  BY DEF SessInv, Typed
<1>3. Typed'
  BY <1>2 DEF SessInv, Typed, maxSessionTtl
<1>4. Alone'
  BY <1>1 DEF Alone
<1>5. ASSUME NEW d \in Calls PROVE Steady(d)'
  <2>1. CASE calls'[d] = Idle
    BY <2>1 DEF Steady, Idle, NotBeforeCall
  <2> QED  BY <1>1, <2>1
<1>6. ASSUME ~halted' PROVE (Quiet => Follows)' /\ \A d \in Calls : calls'[d] = Idle \/ Moving(d)'
  BY <1>1, <1>2, <1>6 DEF Quiet
<1>7. ASSUME Store = "do" PROVE (Quiet => Agree(row))' /\ \A d \in Calls : calls'[d] = Idle \/ Undoable(d)'
  BY <1>1, <1>2, <1>7 DEF Quiet
<1>8. Agreed'  BY <1>7 DEF Agreed
<1> QED  BY <1>3, <1>4, <1>5, <1>6, <1>8 DEF SessInv

-----------------------------------------------------------------------------

LEMMA SessionsInit == Init => SessInv
<1> SUFFICES ASSUME Init PROVE SessInv
  OBVIOUS
<1>1. Never \in Int /\ Never < 1 /\ now = 1
  BY AuthSessionsAssumption DEF AuthSessionsAssumption, Init
<1>2. Typed
  <2>1. calls \in [Calls -> Call]  BY DEF Init, Call
  <2>2. row \in Row /\ saved \in Row  BY <1>1 DEF Init, Row
  <2>3. notBefore \in [at : Int, until : Int] /\ denied \in Int  BY <1>1 DEF Init
  <2>4. /\ sessions = {} /\ lastChange \in Int /\ laundered \in BOOLEAN
        /\ halted \in BOOLEAN /\ lifted \in BOOLEAN
    BY <1>1 DEF Init
  <2> QED  BY <1>1, <2>1, <2>2, <2>3, <2>4 DEF Typed
<1>3. Known
  BY <1>1 DEF Init, Known
<1>4. \A c \in Calls : calls[c] = Idle
  BY DEF Init
<1>5. \A c \in Calls : Steady(c)
  BY <1>4 DEF Steady, Idle, NotBeforeCall
<1>6. Agreed  BY <1>1, <1>4 DEF Init, Agreed, Agree
<1> QED  BY <1>2, <1>3, <1>4, <1>5, <1>6 DEF Init, SessInv, Alone, Follows

(* Facts of the state every action below starts from.                      *)
LEMMA Start ==
  ASSUME SessInv
  PROVE  /\ Typed /\ Known /\ laundered = FALSE
         /\ now \in Int /\ now >= 1
         /\ row.active \in BOOLEAN /\ row.changedAt \in Int
         /\ row = [active |-> row.active, changedAt |-> row.changedAt]
         /\ lastChange \in Int
         /\ \A s \in sessions : s \in Session /\ s.iat \in Int /\ s.exp \in Int
                                /\ s.iat >= 1 /\ s.iat <= now /\ s.exp <= s.iat + maxSessionTtl
BY DEF SessInv, Typed, Row, Session

(* A call that starts leaves everything but itself and the row.            *)
LEMMA StartsStep ==
  ASSUME SessInv, OneAtATime, NEW c \in Calls, NEW k \in Call, k # Idle,
         k \notin NotBeforeCall, Starts(c, k),
         row' \in Row, row'.changedAt = row.changedAt,
         UNCHANGED <<now, kv, sessions, history>>,
         k.op = "sign" => k.from >= lastChange,
         ~halted => Moving(c)', \/ k.op \in {"sign", "reset", "change"} /\ row'.active
                                \/ k \in ActiveCall /\ row'.active = k.active
                                \/ k \in DenyCall /\ ~row'.active
  PROVE  SessInv'
<1>1. Known'
  BY Start DEF Known, Starts, kv, history, maxSessionTtl
<1>2. MayRun(c) /\ calls' = [calls EXCEPT ![c] = k] /\ saved' \in Row /\ calls'[c] = k
  BY DEF Starts, SessInv, Typed
<1>3. Steady(c)'
  BY <1>2 DEF Steady, history
<1>4. ASSUME Store = "do" PROVE Undoable(c)'
  <2>1. Quiet  BY <1>4 DEF Starts, MayRun, Quiet
  <2>2. Agree(row)  BY <1>4, <2>1 DEF SessInv, Agreed
  <2>3. Agree(saved)' /\ row'.changedAt = lastChange'
    BY <2>2 DEF Agree, Listed, Starts, kv, history
  <2> QED  BY <1>2, <2>3 DEF Undoable
<1> QED
  BY <1>1, <1>2, <1>3, <1>4, CallStep DEF SessInv, Typed, kv, history

LEMMA StartsQuiet ==
  ASSUME SessInv, OneAtATime, NEW c \in Calls, NEW k, Starts(c, k), ~halted
  PROVE  Follows
BY DEF SessInv, Starts, Quiet, MayRun, OneAtATime

LEMMA LoginKeeps ==
  ASSUME SessInv, OneAtATime, NEW c \in Calls, login(c)
  PROVE  SessInv'
<1>1. PICK ttl \in Ttls : Starts(c, [op |-> "sign", pc |-> "sign", ttl |-> ttl, from |-> now])
  BY DEF login
<1> DEFINE k == [op |-> "sign", pc |-> "sign", ttl |-> ttl, from |-> now]
<1>2. k \in SignCall /\ k # Idle /\ k \notin NotBeforeCall /\ k \in Call /\ k.from = now /\ k.op = "sign"
  BY Start DEF SignCall, NotBeforeCall, Call, Idle
<1>3. Starts(c, k)  BY <1>1
<1> HIDE DEF k
<1>4. ~halted => Follows
  BY <1>3, StartsQuiet
<1>5. ~halted => Moving(c)'
  BY <1>2, <1>3, <1>4 DEF login, Starts, Moving, Follows, SessInv, Typed, kv
<1> QED
  BY <1>2, <1>3, <1>5, Start, StartsStep DEF login, Known, SessInv, Typed

(* The row takes no sign-in from before its latest change.                 *)
LEMMA RowRefusesEarlier ==
  ASSUME SessInv, NEW s \in sessions, ~issuedBeforeAccountState(s)
  PROVE  s.iat >= lastChange
BY Start, AuthSessionsAssumption
DEF AuthSessionsAssumption, issuedBeforeAccountState, Known

LEMMA RefreshKeeps ==
  ASSUME SessInv, OneAtATime, NEW c \in Calls, NEW s \in sessions, refreshSession(c, s)
  PROVE  SessInv'
<1>1. PICK ttl \in Ttls : Starts(c, [op |-> "sign", pc |-> "sign", ttl |-> ttl, from |-> s.iat])
  BY DEF refreshSession
<1> DEFINE k == [op |-> "sign", pc |-> "sign", ttl |-> ttl, from |-> s.iat]
<1>2. k \in SignCall /\ k # Idle /\ k \notin NotBeforeCall /\ k \in Call /\ k.from = s.iat /\ k.op = "sign"
  BY Start DEF SignCall, NotBeforeCall, Call, Idle
<1>3. Starts(c, k)  BY <1>1
<1> HIDE DEF k
<1>4. ~halted => Follows  BY <1>3, StartsQuiet
<1>5. ~halted => Moving(c)'
  BY <1>2, <1>3, <1>4 DEF refreshSession, Starts, Moving, Follows, SessInv, Typed, kv
<1>6. s.iat >= lastChange  BY RowRefusesEarlier DEF refreshSession
<1> QED
  BY <1>2, <1>3, <1>5, <1>6, Start, StartsStep DEF refreshSession, SessInv, Typed

LEMMA ResetKeeps ==
  ASSUME SessInv, OneAtATime, NEW c \in Calls,
         resetPassword(c) \/ \E s \in sessions : changePassword(c, s)
  PROVE  SessInv'
<1>1. PICK op \in {"reset", "change"} : Starts(c, [op |-> op, pc |-> "retire"])
  BY DEF resetPassword, changePassword
<1> DEFINE k == [op |-> op, pc |-> "retire"]
<1>2. /\ k \in RetireCall /\ k # Idle /\ k \notin NotBeforeCall /\ k \in Call
      /\ k.op \in {"reset", "change"}
  BY DEF RetireCall, NotBeforeCall, Call, Idle
<1>3. Starts(c, k)  BY <1>1
<1> HIDE DEF k
<1>4. row.active /\ UNCHANGED <<now, row, kv, sessions, history>>
  BY DEF resetPassword, changePassword
<1>5. ~halted => Follows  BY <1>3, StartsQuiet
<1>6. ~halted => Moving(c)'
  BY <1>2, <1>3, <1>4, <1>5 DEF Starts, Moving, Follows, SessInv, Typed, kv
<1> QED
  BY <1>2, <1>3, <1>4, <1>6, StartsStep DEF SessInv, Typed

LEMMA SetUserActiveKeeps ==
  ASSUME SessInv, OneAtATime, NEW c \in Calls, NEW active \in BOOLEAN, setUserActive(c, active)
  PROVE  SessInv'
<1> DEFINE k == [op |-> "active", pc |-> "kv", active |-> active]
<1>1. k \in ActiveCall /\ k # Idle /\ k \notin NotBeforeCall /\ k \in Call /\ k.op = "active" /\ k.active = active
  BY DEF ActiveCall, NotBeforeCall, Call, Idle
<1>2. Starts(c, k)  BY DEF setUserActive
<1> HIDE DEF k
<1>3. row' \in Row /\ row'.active = active /\ row'.changedAt = row.changedAt
  BY DEF setUserActive, SessInv, Typed, Row
<1>4. Moving(c)'
  BY <1>1, <1>2, <1>3 DEF Starts, Moving, SessInv, Typed
<1> QED
  BY <1>1, <1>2, <1>3, <1>4, StartsStep DEF setUserActive

LEMMA DeleteUserKeeps ==
  ASSUME SessInv, OneAtATime, NEW c \in Calls, deleteUser(c)
  PROVE  SessInv'
<1> DEFINE k == [op |-> "delete", pc |-> "deny"]
<1>1. k \in DenyCall /\ k # Idle /\ k \notin NotBeforeCall /\ k \in Call /\ k.op = "delete"
  BY DEF DenyCall, NotBeforeCall, Call, Idle
<1>2. Starts(c, k)  BY DEF deleteUser
<1> HIDE DEF k
<1>3. row' \in Row /\ row'.active = FALSE /\ row'.changedAt = row.changedAt
  BY DEF deleteUser, SessInv, Typed, Row
<1>4. Moving(c)'
  BY <1>1, <1>2, <1>3 DEF Starts, Moving, SessInv, Typed
<1> QED
  BY <1>1, <1>2, <1>3, <1>4, StartsStep DEF deleteUser

-----------------------------------------------------------------------------
(* The steps of calls under way.                                           *)

LEMMA IdleIsSteady ==
  ASSUME NEW c \in Calls, calls'[c] = Idle
  PROVE  Steady(c)'
BY DEF Steady, Idle, NotBeforeCall

LEMMA SignsKeeps ==
  ASSUME SessInv, OneAtATime, NEW c \in Calls, signs(c)
  PROVE  SessInv'
<1>1. calls[c] \in SignCall /\ calls[c] # Idle
  BY CallKinds DEF signs, At, SessInv, Typed, SignCall, Idle
<1>2. calls[c].ttl \in Ttls /\ calls[c].from \in Int /\ calls[c].op = "sign"
  BY <1>1 DEF SignCall
<1>3. calls[c].from >= lastChange
  BY <1>2 DEF SessInv, Steady
<1>4. laundered' = FALSE
  <2>1. ~(calls[c].from < lastChange)  BY <1>2, <1>3, Start
  <2>2. laundered' = (laundered \/ calls[c].from < lastChange)  BY DEF signs
  <2>3. laundered = FALSE  BY Start
  <2> QED  BY <2>1, <2>2, <2>3, Zenon
<1> DEFINE new == [iat |-> now, exp |-> now + calls[c].ttl]
<1>5. /\ new \in Session /\ new.iat >= 1 /\ new.iat <= now /\ new.exp <= new.iat + maxSessionTtl
  BY <1>2, Start, TtlBounds DEF Session
<1>6. sessions' = sessions \cup {new}
  BY DEF signs, Signed
<1> HIDE DEF new
<1>7. sessions' \subseteq Session /\
      \A s \in sessions' : s.iat >= 1 /\ s.iat <= now /\ s.exp <= s.iat + maxSessionTtl
  BY <1>5, <1>6 DEF SessInv, Typed
<1>8. /\ calls' = [calls EXCEPT ![c] = Idle] /\ saved' = row
      /\ UNCHANGED <<now, row, kv, lastChange, halted, lifted>>
  BY DEF signs, Ends
<1>9. Known' /\ saved' \in Row
  BY <1>8, Start DEF Known, kv, maxSessionTtl, Typed
<1>10. calls'[c] = Idle /\ Idle \in Call /\ Steady(c)'
  BY <1>8, IdleIsSteady DEF SessInv, Typed, Call
<1>11. ~halted => Follows'
  <2>1. ~halted => row.active /\ denied = Never
    BY <1>1, <1>2 DEF SessInv, Moving, ActiveCall, DenyCall
  <2> QED  BY <2>1, <1>8 DEF Follows, kv
<1>12. Store = "do" => Agree(row)'
  <2>1. Store = "do" => row.active /\ row.changedAt = lastChange
    BY <1>1, <1>2 DEF SessInv, Agreed, Undoable, SignCall, ActiveCall, DenyCall, NotBeforeCall
  <2> QED  BY <1>8, <2>1 DEF Agree
<1> QED
  BY <1>1, <1>4, <1>7, <1>8, <1>9, <1>10, <1>11, <1>12, CallStep DEF SessInv, Typed, kv

LEMMA DenylistKeeps ==
  ASSUME SessInv, OneAtATime, NEW c \in Calls, setsDenylist(c)
  PROVE  SessInv'
<1>1. calls[c] \in ActiveCall /\ calls[c] # Idle
  BY CallKinds DEF setsDenylist, At, SessInv, Typed, ActiveCall, Idle
<1>2. calls[c].active \in BOOLEAN /\ calls[c].op = "active"
  BY <1>1 DEF ActiveCall
<1>3. /\ calls' = [calls EXCEPT ![c] = Idle] /\ saved' = row /\ lifted' = FALSE
      /\ UNCHANGED <<now, row, notBefore, sessions, lastChange, laundered, halted>>
  BY DEF setsDenylist, Ends
<1>4. Known' /\ saved' \in Row
  BY <1>3, Start DEF Known, maxSessionTtl, Typed
<1>5. calls'[c] = Idle /\ Idle \in Call /\ Steady(c)'
  BY <1>3, IdleIsSteady DEF SessInv, Typed, Call
<1>6. /\ calls[c].active => denied' = Never
      /\ ~calls[c].active => denied' = now + maxSessionTtl
  BY DEF setsDenylist, denylisted, allowed
<1>7. denied' \in Int
  BY <1>2, <1>6, Start, TtlBounds, AuthSessionsAssumption DEF AuthSessionsAssumption
<1>8. ~calls[c].active => Listed'
  BY <1>3, <1>6, Start, TtlBounds DEF Listed
<1>9. ~halted => row.active = calls[c].active
  BY <1>1, <1>2 DEF SessInv, Moving, DenyCall
<1>10. ~halted => Follows'
  BY <1>3, <1>6, <1>8, <1>9 DEF Follows
<1>11. Store = "do" => Agree(row)'
  <2>1. Store = "do" => row.active = calls[c].active /\ row.changedAt = lastChange
    BY <1>1, <1>2 DEF SessInv, Agreed, Undoable, ActiveCall, DenyCall, NotBeforeCall
  <2> QED  BY <1>3, <1>8, <2>1 DEF Agree
<1> QED
  BY <1>1, <1>3, <1>4, <1>5, <1>7, <1>10, <1>11, CallStep DEF SessInv, Typed

LEMMA DeletionDeniesKeeps ==
  ASSUME SessInv, OneAtATime, NEW c \in Calls, deletionDenies(c)
  PROVE  SessInv'
<1> DEFINE k == [op |-> "delete", pc |-> "retire"]
<1>1. calls[c] \in DenyCall /\ calls[c] # Idle
  BY CallKinds DEF deletionDenies, At, SessInv, Typed, DenyCall, Idle
<1>2. k \in Call /\ k # Idle /\ k.op = "delete" /\ k.pc # "deny" /\ k \notin NotBeforeCall
  BY DEF Call, RetireCall, NotBeforeCall, Idle
<1>3. /\ calls' = [calls EXCEPT ![c] = k] /\ denied' = now + maxSessionTtl /\ lifted' = FALSE
      /\ UNCHANGED <<now, row, notBefore, sessions, lastChange, laundered, halted, saved>>
  BY DEF deletionDenies, Goes
<1> HIDE DEF k
<1>4. calls'[c] = k  BY <1>3 DEF SessInv, Typed
<1>5. Known'
  BY <1>3, Start DEF Known, maxSessionTtl
<1>6. Steady(c)'
  BY <1>2, <1>4 DEF Steady
<1>7. Listed' /\ denied' \in Int
  BY <1>3, Start, TtlBounds DEF Listed
<1>8. ~halted => ~row.active
  BY <1>1 DEF SessInv, Moving, ActiveCall, DenyCall
<1>9. ~halted => Moving(c)'
  BY <1>2, <1>3, <1>4, <1>7, <1>8 DEF Moving
<1>10. Store = "do" => Undoable(c)'
  <2>1. Store = "do" => Agree(saved) /\ ~row.active /\ row.changedAt = lastChange
    BY <1>1 DEF SessInv, Agreed, Undoable, ActiveCall, DenyCall, NotBeforeCall
  <2> QED  BY <1>2, <1>3, <1>4, <1>7, <2>1 DEF Undoable, Agree
<1> QED
  BY <1>1, <1>2, <1>3, <1>5, <1>6, <1>7, <1>9, <1>10, CallStep DEF SessInv, Typed

LEMMA RetiresInRowKeeps ==
  ASSUME SessInv, OneAtATime, NEW c \in Calls, retiresInRow(c)
  PROVE  SessInv'
<1>1. calls[c] \in RetireCall /\ calls[c] # Idle
  BY CallKinds DEF retiresInRow, SessInv, Typed
<1>2. calls[c].op \in {"delete", "reset", "change"} /\ calls[c].pc = "retire"
  BY <1>1 DEF RetireCall
<1> DEFINE k == [op |-> calls[c].op, pc |-> "notBefore", at |-> now]
<1>3. /\ k \in NotBeforeCall /\ k \in Call /\ k # Idle
      /\ k.op = calls[c].op /\ k.pc = "notBefore" /\ k.at = now
  BY <1>2, Start DEF Call, NotBeforeCall, Idle
<1>4. /\ calls' = [calls EXCEPT ![c] = k]
      /\ row' = [row EXCEPT !.changedAt = now]
      /\ UNCHANGED <<now, kv, sessions, history, saved>>
  BY DEF retiresInRow, Goes
<1> HIDE DEF k
<1>5. calls'[c] = k  BY <1>4 DEF SessInv, Typed
<1>6. row' \in Row /\ row'.changedAt = now /\ row'.active = row.active
  BY <1>4, Start DEF SessInv, Typed, Row
<1>7. Known'
  BY <1>4, <1>6, Start DEF Known, history, kv, maxSessionTtl
<1>8. Steady(c)'
  BY <1>2, <1>3, <1>4, <1>5, <1>6, Start DEF Steady
<1>9. ~halted => Moving(c)'
  <2>1. ~halted => Moving(c)  BY <1>1 DEF SessInv
  <2>2. Listed => Listed'  BY <1>4 DEF Listed, kv
  <2> QED
    BY <1>1, <1>2, <1>3, <1>4, <1>5, <1>6, <2>1, <2>2 DEF Moving, ActiveCall, DenyCall, kv
<1>10. Store = "do" => Undoable(c)'
  <2>1. Store = "do" => Undoable(c)  BY <1>1 DEF SessInv, Agreed
  <2>2. (Listed => Listed') /\ (Agree(saved) => Agree(saved)')
    BY <1>4 DEF Agree, Listed, kv, history
  <2> QED
    BY <1>1, <1>2, <1>3, <1>5, <1>6, <2>1, <2>2 DEF Undoable, ActiveCall, DenyCall
<1> QED
  BY <1>1, <1>3, <1>4, <1>6, <1>7, <1>8, <1>9, <1>10, CallStep DEF SessInv, Typed, history, kv

LEMMA RetiresInKvKeeps ==
  ASSUME SessInv, OneAtATime, NEW c \in Calls, retiresInKv(c)
  PROVE  SessInv'
<1>1. calls[c] \in NotBeforeCall /\ calls[c] # Idle
  BY CallKinds DEF retiresInKv, SessInv, Typed
<1>2. /\ calls[c].op \in {"delete", "reset", "change"} /\ calls[c].pc = "notBefore"
      /\ calls[c].at \in Int
  BY <1>1 DEF NotBeforeCall
<1>3. calls[c].at = row.changedAt /\ 1 <= calls[c].at /\ calls[c].at <= now
  BY <1>1 DEF SessInv, Steady
<1>4. /\ calls' = [calls EXCEPT ![c] = Idle] /\ saved' = row /\ row' = row
      /\ UNCHANGED <<now, denied, laundered, halted, lifted>>
  BY DEF retiresInKv, Ends
<1>5. notBefore' = [at |-> calls[c].at, until |-> now + maxSessionTtl]
  BY DEF retiresInKv, retired
<1>6. lastChange' = calls[c].at
  BY <1>2, <1>3, Start DEF retiresInKv, Known
<1>7. notBefore' \in [at : Int, until : Int] /\ notBefore'.at = calls[c].at
      /\ notBefore'.until = now + maxSessionTtl
  BY <1>2, <1>5, Start, TtlBounds
<1>8. Known' /\ saved' \in Row
  BY <1>2, <1>3, <1>4, <1>6, <1>7, Start, TtlBounds DEF Known, maxSessionTtl, Typed
<1>9. calls'[c] = Idle /\ Idle \in Call /\ Steady(c)'
  BY <1>4, IdleIsSteady DEF SessInv, Typed, Call
<1> DEFINE new == [iat |-> now, exp |-> now + EnvTtl]
<1>10. new \in Session /\ new.iat >= 1 /\ new.iat <= now /\ new.exp <= new.iat + maxSessionTtl
  BY Start, TtlBounds DEF Session
<1>11. IF calls[c].op = "change" THEN sessions' = sessions \cup {new} ELSE sessions' = sessions
  BY DEF retiresInKv, Signed
<1> HIDE DEF new
<1>12. sessions' \subseteq Session /\
       \A s \in sessions' : s.iat >= 1 /\ s.iat <= now /\ s.exp <= s.iat + maxSessionTtl
  BY <1>10, <1>11 DEF SessInv, Typed
<1>13. ~halted => Follows'
  <2>1. ~halted => Moving(c)  BY <1>1 DEF SessInv
  <2>2. CASE calls[c].op = "delete"
    BY <1>1, <1>2, <1>4, <1>11, <2>1, <2>2 DEF Moving, ActiveCall, DenyCall, Follows, Listed
  <2>3. CASE calls[c].op \in {"reset", "change"}
    BY <1>1, <1>2, <1>4, <2>1, <2>3 DEF Moving, ActiveCall, DenyCall, Follows
  <2> QED  BY <1>2, <2>2, <2>3
<1>14. Store = "do" => Agree(row)'
  <2>1. Store = "do" => Undoable(c)  BY <1>1 DEF SessInv, Agreed
  <2>2. CASE calls[c].op = "delete"
    BY <1>1, <1>2, <1>3, <1>4, <1>6, <1>11, <2>1, <2>2
    DEF Undoable, ActiveCall, DenyCall, Agree, Listed
  <2>3. CASE calls[c].op \in {"reset", "change"}
    BY <1>1, <1>2, <1>3, <1>4, <1>6, <2>1, <2>3 DEF Undoable, ActiveCall, DenyCall, Agree
  <2> QED  BY <1>2, <2>2, <2>3
<1> QED
  BY <1>1, <1>2, <1>4, <1>6, <1>7, <1>8, <1>9, <1>12, <1>13, <1>14, CallStep DEF SessInv, Typed

(* A call that dies: the Durable Object puts the row back.                 *)
LEMMA DiesKeeps ==
  ASSUME SessInv, OneAtATime, NEW c \in Calls, Dies(c)
  PROVE  SessInv'
<1>1. /\ calls[c] # Idle /\ calls' = [calls EXCEPT ![c] = Idle] /\ saved' = row'
      /\ halted' = TRUE /\ UNCHANGED <<now, kv, sessions, lastChange, laundered, lifted>>
      /\ row' = row \/ row' = saved
  BY DEF Dies, Ends
<1>2. row' \in Row /\ saved' \in Row /\ Known'
  BY <1>1, Start DEF Known, kv, maxSessionTtl, Typed
<1>3. calls'[c] = Idle /\ Idle \in Call /\ Steady(c)'
  BY <1>1, IdleIsSteady DEF SessInv, Typed, Call
<1>4. Store = "do" => Agree(row)'
  <2>1. Store = "do" => Agree(saved) /\ row' = saved
    BY <1>1 DEF SessInv, Agreed, Undoable, Dies
  <2> QED  BY <1>1, <2>1 DEF Agree, Listed, kv
<1> QED
  BY <1>1, <1>2, <1>3, <1>4, CallStep DEF SessInv, Typed, kv

(* After its KV write: the entry or the mark is there, the row is not.     *)
LEMMA DiesLateKeeps ==
  ASSUME SessInv, OneAtATime, NEW c \in Calls, DiesLate(c)
  PROVE  SessInv'
<1>1. /\ calls' = [calls EXCEPT ![c] = Idle] /\ row' = saved /\ saved' = saved /\ Store = "do"
      /\ halted' = TRUE /\ UNCHANGED <<now, sessions, lastChange, laundered>>
  BY DEF DiesLate, Ends
<1>2. calls[c] # Idle /\ calls'[c] = Idle /\ Idle \in Call /\ Steady(c)'
  BY <1>1, IdleIsSteady DEF DiesLate, At, Idle, SessInv, Typed, Call
<1>3. Agree(saved) /\ saved \in Row
  BY <1>1, <1>2 DEF SessInv, Agreed, Undoable, Typed
<1>4. CASE calls[c].op = "active" /\ denied' = denylisted(c) /\ notBefore' = notBefore
           /\ lifted' = (calls[c].active /\ ~saved.active)
  <2>1. calls[c].active \in BOOLEAN
    BY <1>4, CallKinds DEF SessInv, Typed, ActiveCall
  <2>2. denied' \in Int /\ (~calls[c].active => denied' = now + maxSessionTtl)
    BY <1>4, <2>1, Start, TtlBounds, AuthSessionsAssumption
    DEF denylisted, allowed, AuthSessionsAssumption
  <2>3. ~calls[c].active => Listed'
    BY <1>1, <2>2, Start, TtlBounds DEF Listed
  <2>4. Known'
    BY <1>1, <1>4, Start DEF Known, maxSessionTtl
  <2>5. Agree(row)'
    BY <1>1, <1>3, <1>4, <2>1, <2>3 DEF Agree
  <2>6. lifted' \in BOOLEAN
    BY <1>4
  <2> QED
    BY <1>1, <1>2, <1>3, <1>4, <2>2, <2>4, <2>5, <2>6, CallStep DEF SessInv, Typed
<1>5. CASE calls[c].pc = "notBefore" /\ notBefore' = retired(calls[c].at) /\ UNCHANGED <<denied, lifted>>
  <2>1. calls[c] \in NotBeforeCall
    BY <1>2, <1>5, CallKinds DEF SessInv, Typed
  <2>2. calls[c].at \in Int /\ calls[c].at = row.changedAt /\ calls[c].at <= now
    BY <2>1 DEF NotBeforeCall, SessInv, Steady
  <2>3. /\ notBefore' \in [at : Int, until : Int] /\ notBefore'.at = calls[c].at
        /\ notBefore'.until = now + maxSessionTtl
    BY <1>5, <2>2, Start, TtlBounds DEF retired
  <2>4. Known'
    BY <1>1, <2>2, <2>3, Start, TtlBounds DEF Known, maxSessionTtl
  <2>5. Agree(row)'
    BY <1>1, <1>3, <1>5 DEF Agree, Listed
  <2> QED
    BY <1>1, <1>2, <1>3, <1>5, <2>3, <2>4, <2>5, CallStep DEF SessInv, Typed
<1> QED  BY <1>4, <1>5 DEF DiesLate, At

LEMMA TickKeeps ==
  ASSUME SessInv, Tick
  PROVE  SessInv'
<1>1. now' = now + 1 /\ sessions' \subseteq sessions
      /\ UNCHANGED <<row, kv, calls, saved, history>>
  BY DEF Tick
<1>2. Typed'
  BY <1>1, Start DEF Typed, kv, history, maxSessionTtl
<1>3. Known'
  BY <1>1, Start DEF Known, kv, history, maxSessionTtl
<1>4. \A c \in Calls : Steady(c) => Steady(c)'
  BY <1>1, Start DEF Steady, history, NotBeforeCall
<1>5. (Follows => Follows') /\ \A c \in Calls : Moving(c) => Moving(c)'
  BY <1>1 DEF Follows, Moving, Listed, kv, history
<1>6. (Quiet' => Quiet) /\ (Alone => Alone') /\ laundered' = laundered /\ halted' = halted
  BY <1>1 DEF Quiet, Alone, history
<1>7. Agreed => Agreed'
  BY <1>1 DEF Agreed, Agree, Undoable, Listed, Quiet, kv, history
<1> QED
  BY <1>1, <1>2, <1>3, <1>4, <1>5, <1>6, <1>7 DEF SessInv

LEMMA SessionsStep == OneAtATime /\ SessInv /\ [Next]_vars => SessInv'
<1> SUFFICES ASSUME OneAtATime, SessInv, [Next]_vars PROVE SessInv'
  OBVIOUS
<1>1. CASE UNCHANGED vars
  BY <1>1
  DEF vars, SessInv, Typed, Alone, Known, Steady, Follows, Listed, Moving, Quiet, maxSessionTtl,
      Agreed, Agree, Undoable
<1>2. ASSUME NEW c \in Calls, login(c) PROVE SessInv'
  BY <1>2, LoginKeeps
<1>3. ASSUME NEW c \in Calls, signs(c) PROVE SessInv'
  BY <1>3, SignsKeeps
<1>4. ASSUME NEW c \in Calls, setsDenylist(c) PROVE SessInv'
  BY <1>4, DenylistKeeps
<1>5. ASSUME NEW c \in Calls, deleteUser(c) PROVE SessInv'
  BY <1>5, DeleteUserKeeps
<1>6. ASSUME NEW c \in Calls, deletionDenies(c) PROVE SessInv'
  BY <1>6, DeletionDeniesKeeps
<1>7. ASSUME NEW c \in Calls, resetPassword(c) \/ \E s \in sessions : changePassword(c, s)
      PROVE SessInv'
  BY <1>7, ResetKeeps
<1>8. ASSUME NEW c \in Calls, retiresInRow(c) PROVE SessInv'
  BY <1>8, RetiresInRowKeeps
<1>9. ASSUME NEW c \in Calls, retiresInKv(c) PROVE SessInv'
  BY <1>9, RetiresInKvKeeps
<1>10. ASSUME NEW c \in Calls, Dies(c) \/ DiesLate(c) PROVE SessInv'
  BY <1>10, DiesKeeps, DiesLateKeeps
<1>11. ASSUME NEW c \in Calls, NEW active \in BOOLEAN, setUserActive(c, active) PROVE SessInv'
  BY <1>11, SetUserActiveKeeps
<1>12. ASSUME NEW c \in Calls, NEW s \in sessions, refreshSession(c, s) PROVE SessInv'
  BY <1>12, RefreshKeeps
<1>13. CASE Tick  BY <1>13, TickKeeps
<1> QED
  BY <1>1, <1>2, <1>3, <1>4, <1>5, <1>6, <1>7, <1>8, <1>9, <1>10, <1>11, <1>12, <1>13 DEF Next

-----------------------------------------------------------------------------

LEMMA EarlierRefused == SessInv => EarlierSessionsDie
<1> SUFFICES ASSUME SessInv, NEW s \in sessions, Live(s), s.iat < lastChange
             PROVE  isIdentityRevoked(s)
  BY DEF EarlierSessionsDie
<1>1. s.iat >= 1 /\ s.iat \in Int /\ s.exp \in Int /\ s.exp <= s.iat + maxSessionTtl /\ now < s.exp
  BY Start DEF Live
<1>2. notBefore.at >= lastChange /\ notBefore.until >= lastChange + maxSessionTtl
      /\ notBefore.until \in Int /\ notBefore.at \in Int
  BY <1>1, Start DEF Known, Typed
<1>3. now < notBefore.until /\ s.iat < notBefore.at
  BY <1>1, <1>2, Start, TtlBounds
<1> QED  BY <1>3 DEF isIdentityRevoked, isIssuedBeforeNotBefore

LEMMA InactiveRefused == SessInv => InactiveIsLockedOut
<1> SUFFICES ASSUME SessInv, Quiet, ~halted, ~row.active, NEW s \in sessions, Live(s)
             PROVE  isIdentityRevoked(s)
  BY DEF InactiveIsLockedOut
<1>1. s.exp <= denied /\ denied \in Int
  BY DEF SessInv, Follows, Listed, Typed
<1>2. now < denied  BY <1>1, Start DEF Live
<1> QED  BY <1>2 DEF isIdentityRevoked, isSessionDenied

LEMMA ActiveAllowed == SessInv => ActiveIsLetIn
<1> SUFFICES ASSUME SessInv, Quiet, ~halted, row.active PROVE ~isSessionDenied
  BY DEF ActiveIsLetIn
<1>1. denied = Never  BY DEF SessInv, Follows
<1> QED
  BY <1>1, Start, AuthSessionsAssumption DEF AuthSessionsAssumption, isSessionDenied

LEMMA DeadUndone == SessInv => DeadCallsAreUndone
<1> SUFFICES ASSUME SessInv, Store = "do", Quiet, NEW s \in sessions, Live(s),
                    issuedBeforeAccountState(s) \/ (~row.active /\ ~lifted)
             PROVE  isIdentityRevoked(s)
  BY DEF DeadCallsAreUndone
<1>1. Agree(row)  BY DEF SessInv, Agreed
<1>2. CASE ~row.active /\ ~lifted
  <2>1. s.exp <= denied /\ denied \in Int  BY <1>1, <1>2, Start DEF Agree, Listed, Typed
  <2> QED  BY <2>1, Start DEF Live, isIdentityRevoked, isSessionDenied
<1>3. CASE issuedBeforeAccountState(s)
  <2>1. s.iat < lastChange  BY <1>1, <1>3 DEF Agree, issuedBeforeAccountState
  <2> QED  BY <2>1, EarlierRefused DEF EarlierSessionsDie
<1> QED  BY <1>2, <1>3

(***************************************************************************)
(* Where the mutations of an account do not overlap, an answered change of *)
(* credentials ends every earlier session, and no renewal or sign-in       *)
(* launders one.  If no call died, an account that was switched off is     *)
(* locked out for as long as any of its tokens lives, and one that was     *)
(* switched on again is let in; on the object dead calls are undone, and   *)
(* whom the row turns away the Worker turns away, but where a reactivation *)
(* died after it lifted the entry.                                         *)
(***************************************************************************)
THEOREM SessionsEndWithTheAccount ==
  ASSUME OneAtATime
  PROVE  Spec => []SessionsAreSound
<1>1. SessInv => SessionsAreSound
  BY EarlierRefused, InactiveRefused, ActiveAllowed, DeadUndone
  DEF SessionsAreSound, NothingIsLaundered, SessInv
<1>2. SessInv /\ [Next]_vars => SessInv'
  BY SessionsStep
<1> QED  BY SessionsInit, <1>1, <1>2, PTL DEF Spec

(***************************************************************************)
(* Signing in through a provider: what a callback in flight holds.         *)
(***************************************************************************)
(* A started attempt is somebody's; a pending login, a cookie, a callback  *)
(* under way and everything answered belong to one.                        *)
OfBrowser(b, s) == b \in Browsers /\ s \in Attempts /\ started[s].browser = b

Attempt == [browser : Browsers \cup {0}, silent : BOOLEAN]
Answer == [id : Int, state : Attempts, person : Browsers \cup {0}, 
           error : {"none", "login_required", "access_denied"}]
Method == {"basic", "post"}
Callback == [pc : {"get", "delete", "exchange", "verify", "upsert"}, load : Nat, state : Attempts,
             browser : Browsers, answer : Answer, passed : BOOLEAN,
             first : Method \cup {"unlearned"}, late : BOOLEAN]
Outcome == [load : Nat, state : Attempts, browser : Browsers, kind : {"page", "error", "token"},
            answer : Int, passed : BOOLEAN, late : BOOLEAN, person : Browsers \cup {0}, account : Browsers \cup {0}]

OidcTyped ==
  /\ started \in [Attempts -> Attempt]
  /\ kept \subseteq Attempts
  /\ answers \subseteq Answer /\ IsFiniteSet(answers)
  /\ callbacks \in [Callbacks -> {Oidc!Idle} \cup Callback]
  /\ outcomes \subseteq Outcome
  /\ loads \in Nat

(* What each is bound to: the browser that started the attempt; whoever is *)
(* past the pending login took it out of KV.                               *)
Bound ==
  /\ \A s \in kept : \E b \in Browsers : OfBrowser(b, s)
  /\ \A b \in Browsers, s \in Attempts : <<b, s>> \in cookies => OfBrowser(b, s)
  /\ \A a \in answers : a.error = "none" => a.person # 0
  /\ \A o \in outcomes : o.passed => o.state \notin kept /\ OfBrowser(started[o.state].browser, o.state)

(* A callback in flight: past the pending login it is on time and alone    *)
(* has an answer that is no error; past the nonce the answer is its own.   *)
Holds(k) ==
  /\ OfBrowser(k.browser, k.state)
  /\ k.answer \in answers
  /\ k.passed /\ k.pc # "get" => ~k.late
  /\ k.pc \in {"exchange", "verify", "upsert"} =>
       k.passed /\ k.state \notin kept /\ k.answer.error = "none"
  /\ k.pc = "upsert" => k.answer.state = k.state

(* A code the provider has exchanged is in one hand, or in one session.    *)
Exchanged(c) == callbacks[c] # Oidc!Idle /\ callbacks[c].pc \in {"verify", "upsert"}
CodeOf(c) == callbacks[c].answer.id
OneHand ==
  /\ \A c \in Callbacks : Exchanged(c) => CodeOf(c) \in redeemed
  /\ \A c, d \in Callbacks : Exchanged(c) /\ Exchanged(d) /\ CodeOf(c) = CodeOf(d) => c = d
  /\ \A o \in outcomes : o.kind = "token" => o.answer \in redeemed
  /\ \A o \in outcomes, c \in Callbacks : o.kind = "token" /\ Exchanged(c) => o.answer # CodeOf(c)

OidcInv ==
  /\ OidcTyped
  /\ Bound
  /\ \A c \in Callbacks : callbacks[c] # Oidc!Idle => Holds(callbacks[c])
  /\ OneHand
  /\ Oidc!SignInIsOwn
  /\ Oidc!ReplaysEndOnAPage
  /\ Oidc!CodesSignInOnce
  /\ Oidc!SilentComesBack
  /\ Oidc!LearnedIsAccepted
  /\ Oidc!RefusedStaysOut
  /\ Oidc!ToldTheTruth
-----------------------------------------------------------------------------

(* What an outcome says of itself.                                         *)
Fair(o) ==
  /\ o \in Outcome
  /\ o.passed => o.state \notin kept /\ OfBrowser(started[o.state].browser, o.state)
  /\ o.kind = "token" =>
       /\ started[o.state].browser = o.browser /\ o.account # 0
       /\ \E a \in answers : a.id = o.answer /\ a.state = o.state
  /\ o.late => o.kind = "page"
  /\ o.passed /\ started[o.state].silent => o.kind # "page"

LEMMA OutcomesAreFair == OidcInv => \A o \in outcomes : Fair(o)
BY DEF OidcInv, OidcTyped, Bound, Fair, Oidc!SignInIsOwn, Oidc!ReplaysEndOnAPage,
  Oidc!SilentComesBack, Oidc!RefusedStaysOut, Oidc!Tokens

(* A step of one callback, that may show its browser an outcome o.         *)
CallsOnly == UNCHANGED <<started, answers, atProvider, told>> /\ loads' \in Nat

LEMMA CallbackStep ==
  ASSUME OidcInv, CallsOnly, NEW c \in Callbacks,
         NEW k \in {Oidc!Idle} \cup Callback, callbacks' = [callbacks EXCEPT ![c] = k],
         k # Oidc!Idle => Holds(k)',
         kept' \subseteq kept, cookies' \subseteq cookies, redeemed \subseteq redeemed',
         learned' \in {"unlearned", Registered},
         \A o \in outcomes' : o \in outcomes \/ Fair(o)',
         \A o \in outcomes' : o.kind = "token" =>
            o \in outcomes \/ (k = Oidc!Idle /\ Exchanged(c) /\ o.answer = CodeOf(c)),
         \A o, p \in outcomes' : o \in outcomes \/ p \in outcomes \/ o = p,
         k # Oidc!Idle /\ k.pc \in {"verify", "upsert"} =>
            \/ Exchanged(c) /\ k.answer.id = CodeOf(c)
            \/ k.answer.id \notin redeemed /\ k.answer.id \in redeemed'
  PROVE  OidcInv'
<1>1. callbacks \in [Callbacks -> {Oidc!Idle} \cup Callback]
  BY DEF OidcInv, OidcTyped
<1>2. \A d \in Callbacks : callbacks'[d] = IF d = c THEN k ELSE callbacks[d]
  BY <1>1
<1>4. \A o \in outcomes' : Fair(o)'
  <2>1. \A o \in outcomes : Fair(o)'
    BY OutcomesAreFair DEF Fair, CallsOnly, OfBrowser
  <2> QED  BY <2>1
<1>3. OidcTyped'
  BY <1>1, <1>4 DEF OidcInv, OidcTyped, CallsOnly, Fair
<1>5. Bound'
  <2>1. \A s \in kept' : \E b \in Browsers : OfBrowser(b, s)'
    BY DEF OidcInv, Bound, CallsOnly, OfBrowser
  <2>2. \A b \in Browsers, s \in Attempts : <<b, s>> \in cookies' => OfBrowser(b, s)'
    BY DEF OidcInv, Bound, CallsOnly, OfBrowser
  <2>3. \A a \in answers' : a.error = "none" => a.person # 0
    BY DEF OidcInv, Bound, CallsOnly
  <2> QED  BY <1>4, <2>1, <2>2, <2>3 DEF Bound, Fair
<1>6. \A d \in Callbacks : (callbacks[d] # Oidc!Idle => Holds(callbacks[d]))'
  <2>1. \A h \in Callback : Holds(h) => Holds(h)'
    BY DEF OidcInv, Holds, CallsOnly, OfBrowser
  <2> SUFFICES ASSUME NEW d \in Callbacks, callbacks'[d] # Oidc!Idle
               PROVE  Holds(callbacks[d])'
    OBVIOUS
  <2>2. CASE d = c
    BY <2>2, <1>2 DEF Holds, OfBrowser
  <2>3. CASE d # c
    <3>1. /\ callbacks'[d] = callbacks[d] /\ callbacks[d] \in Callback
          /\ Holds(callbacks[d])
      BY <2>3, <1>1, <1>2 DEF OidcInv
    <3>2. PICK h \in Callback : h = callbacks[d] /\ h = callbacks'[d]
      BY <3>1
    <3>3. Holds(h)  BY <3>1, <3>2
    <3>4. Holds(h)'  BY <3>3, <2>1
    <3> QED  BY <3>2, <3>4 DEF Holds, OfBrowser
  <2> QED  BY <2>2, <2>3
<1>7. OneHand'
  <2>1. \A d \in Callbacks : Exchanged(d)' =>
          IF d = c THEN \/ Exchanged(c) /\ CodeOf(c)' = CodeOf(c)
                        \/ CodeOf(c)' \notin redeemed /\ CodeOf(c)' \in redeemed'
                   ELSE Exchanged(d) /\ CodeOf(d)' = CodeOf(d)
    BY <1>2 DEF Exchanged, CodeOf
  <2>2. OneHand  BY DEF OidcInv
  <2>3. \A d \in Callbacks : Exchanged(d)' => CodeOf(d)' \in redeemed'
    BY <2>1, <2>2 DEF OneHand
  <2>4. \A d, e \in Callbacks : Exchanged(d)' /\ Exchanged(e)' /\ CodeOf(d)' = CodeOf(e)' => d = e
    BY <2>1, <2>2 DEF OneHand
  <2>5. \A o \in outcomes' : o.kind = "token" => o.answer \in redeemed'
    BY <2>2 DEF OneHand
  <2>6. \A o \in outcomes', d \in Callbacks : o.kind = "token" /\ Exchanged(d)' => o.answer # CodeOf(d)'
    <3> SUFFICES ASSUME NEW o \in outcomes', NEW d \in Callbacks, o.kind = "token", Exchanged(d)'
                 PROVE  o.answer # CodeOf(d)'
      OBVIOUS
    <3>1. CASE o \in outcomes  BY <3>1, <2>1, <2>2 DEF OneHand
    <3>2. CASE o \notin outcomes
      <4>1. d # c  BY <3>2, <1>2 DEF Exchanged
      <4> QED  BY <4>1, <3>2, <2>1, <2>2 DEF OneHand
    <3> QED  BY <3>1, <3>2
  <2> QED  BY <2>3, <2>4, <2>5, <2>6 DEF OneHand
<1>8. Oidc!CodesSignInOnce'
  BY DEF OidcInv, OneHand, Oidc!CodesSignInOnce, Oidc!Tokens
<1>9. /\ Oidc!SignInIsOwn' /\ Oidc!ReplaysEndOnAPage' /\ Oidc!SilentComesBack'
      /\ Oidc!RefusedStaysOut'
  BY <1>4 DEF Fair, Oidc!SignInIsOwn, Oidc!ReplaysEndOnAPage,
    Oidc!SilentComesBack, Oidc!RefusedStaysOut, Oidc!Tokens
<1>10. Oidc!LearnedIsAccepted' /\ Oidc!ToldTheTruth'
  BY DEF OidcInv, Oidc!LearnedIsAccepted, Oidc!Unlearned, Oidc!ToldTheTruth, CallsOnly
<1> QED
  BY <1>3, <1>5, <1>6, <1>7, <1>8, <1>9, <1>10 DEF OidcInv
-----------------------------------------------------------------------------

LEMMA InFlight ==
  ASSUME OidcInv, NEW c \in Callbacks, callbacks[c] # Oidc!Idle
  PROVE  callbacks[c] \in Callback /\ Holds(callbacks[c])
BY DEF OidcInv, OidcTyped

LEMMA Learned == OidcInv => learned \in {"unlearned", Registered}
BY DEF OidcInv, Oidc!LearnedIsAccepted, Oidc!Unlearned

LEMMA IdleIsNoCall == \A k \in Callback : k # Oidc!Idle
BY DEF Callback, Oidc!Idle

(* A callback that ends on a page, or back in the application.             *)
LEMMA ReplyKeeps ==
  ASSUME OidcInv, CallsOnly, NEW c \in Callbacks, callbacks[c] # Oidc!Idle,
         NEW kind \in {"page", "error"}, Oidc!Replies(c, kind),
         kept' \subseteq kept, redeemed \subseteq redeemed', learned' = learned,
         callbacks[c].passed => callbacks[c].state \notin kept',
         callbacks[c].late => kind = "page",
         callbacks[c].passed /\ started[callbacks[c].state].silent => kind # "page"
  PROVE  OidcInv'
<1> PICK o : o = Oidc!Outcome(c, kind)
  OBVIOUS
<1>1. callbacks[c] \in Callback /\ Holds(callbacks[c])
  BY InFlight
<1>2. /\ callbacks[c].state \in Attempts /\ callbacks[c].browser \in Browsers
      /\ callbacks[c].answer \in Answer /\ callbacks[c].passed \in BOOLEAN
      /\ callbacks[c].late \in BOOLEAN /\ callbacks[c].load \in Nat
  BY <1>1 DEF Callback
<1>3. /\ o \in Outcome /\ o.state = callbacks[c].state /\ o.browser = callbacks[c].browser
      /\ o.passed = callbacks[c].passed /\ o.late = callbacks[c].late /\ o.kind = kind
  BY <1>2 DEF Outcome, Answer, Oidc!Outcome
<1>4. /\ outcomes' = outcomes \cup {o} /\ cookies' \subseteq cookies
      /\ callbacks' = [callbacks EXCEPT ![c] = Oidc!Idle]
  BY DEF Oidc!Replies, Oidc!Goes
<1>5. Fair(o)'
  BY <1>1, <1>3 DEF Fair, CallsOnly, OfBrowser, Holds
<1>6. o.kind # "token" /\ \A p \in outcomes' : p \in outcomes \/ p = o
  BY <1>3, <1>4
<1> QED
  BY <1>4, <1>5, <1>6, CallbackStep, Learned

LEMMA GetsKeeps ==
  ASSUME OidcInv, NEW c \in Callbacks, Oidc!gets(c)
  PROVE  OidcInv'
<1> PICK passed \in BOOLEAN : passed = (callbacks[c].state \in kept)
  <2>1. (callbacks[c].state \in kept) \in BOOLEAN  OBVIOUS
  <2> QED  BY <2>1, Zenon
<1> PICK late \in BOOLEAN :
      late = \E o \in outcomes : o.state = callbacks[c].state /\ o.passed
  OBVIOUS
<1> PICK k : k = Oidc!Loaded("delete", callbacks[c].load, callbacks[c].browser,
                             callbacks[c].state, callbacks[c].answer, passed, late)
  OBVIOUS
<1>1. callbacks[c].pc = "get"  BY DEF Oidc!gets, Oidc!At
<1>2. /\ callbacks' = [callbacks EXCEPT ![c] = k]
      /\ UNCHANGED <<started, kept, cookies, answers, redeemed, learned, outcomes, atProvider, told,
                     loads>>
  BY DEF Oidc!gets, Oidc!Goes
<1>3. callbacks[c] # Oidc!Idle
  BY <1>1 DEF Oidc!gets, Oidc!At, Oidc!Idle
<1>4. callbacks[c] \in Callback /\ Holds(callbacks[c])
  BY <1>3, InFlight
<1>5. late => ~passed
  BY DEF OidcInv, Bound
<1>6. /\ k \in Callback /\ k.pc = "delete" /\ k.state = callbacks[c].state
      /\ k.browser = callbacks[c].browser /\ k.answer = callbacks[c].answer
      /\ k.passed => ~k.late
  BY <1>4, <1>5 DEF Callback, Oidc!Loaded, Oidc!Unlearned
<1>7. Holds(k)'
  BY <1>2, <1>4, <1>6 DEF Holds, OfBrowser
<1>8. outcomes' = outcomes /\ CallsOnly
  BY <1>2 DEF CallsOnly, OidcInv, OidcTyped
<1> QED
  BY <1>2, <1>6, <1>7, <1>8, CallbackStep, Learned, IdleIsNoCall

(* The callback goes on as it was, at its next step.                       *)
LEMMA Onwards ==
  ASSUME OidcInv, CallsOnly, NEW c \in Callbacks, callbacks[c] # Oidc!Idle,
         NEW k \in Callback, callbacks' = [callbacks EXCEPT ![c] = k],
         k.state = callbacks[c].state, k.browser = callbacks[c].browser,
         k.answer = callbacks[c].answer, k.late = callbacks[c].late,
         k.passed, callbacks[c].passed, callbacks[c].pc # "get",
         k.pc \in {"exchange", "verify", "upsert"}, k.answer.error = "none",
         k.state \notin kept',
         k.pc = "upsert" => k.answer.state = k.state,
         k.pc \in {"verify", "upsert"} =>
           Exchanged(c) \/ (CodeOf(c) \notin redeemed /\ CodeOf(c) \in redeemed'),
         kept' \subseteq kept, cookies' = cookies, redeemed \subseteq redeemed',
         learned' \in {"unlearned", Registered}, outcomes' = outcomes
  PROVE  OidcInv'
<1>1. Holds(callbacks[c])
  BY InFlight
<1>2. Holds(k)'
  BY <1>1 DEF Holds, OfBrowser, CallsOnly
<1>4. k.answer.id = CodeOf(c)
  BY DEF CodeOf
<1> QED
  BY <1>2, <1>4, CallbackStep

LEMMA DeletesKeeps ==
  ASSUME OidcInv, NEW c \in Callbacks, Oidc!deletes(c)
  PROVE  OidcInv'
<1>1. callbacks[c].pc = "delete"  BY DEF Oidc!deletes, Oidc!At
<1>2. callbacks[c] # Oidc!Idle  BY <1>1 DEF Oidc!Idle
<1>3. callbacks[c] \in Callback /\ Holds(callbacks[c])
  BY <1>2, InFlight
<1>4. /\ kept' = kept \ {callbacks[c].state}
      /\ UNCHANGED <<started, answers, redeemed, learned, atProvider, told, loads>> /\ CallsOnly
  BY DEF Oidc!deletes, Oidc!spent, CallsOnly, OidcInv, OidcTyped
<1>5. CASE callbacks[c].passed /\ callbacks[c].answer.error = "none"
  <2> PICK k : k = [callbacks[c] EXCEPT !.pc = "exchange"]
    OBVIOUS
  <2>1. /\ k \in Callback /\ k.pc = "exchange" /\ k.state = callbacks[c].state
        /\ k.browser = callbacks[c].browser /\ k.answer = callbacks[c].answer
        /\ k.late = callbacks[c].late /\ k.passed = callbacks[c].passed
    BY <1>3 DEF Callback
  <2>2. callbacks' = [callbacks EXCEPT ![c] = k] /\ UNCHANGED <<outcomes, cookies>>
    BY <1>5 DEF Oidc!deletes, Oidc!NoError, Oidc!Goes
  <2>3. k.state \notin kept' /\ kept' \subseteq kept /\ k.answer.error = "none"
    BY <1>4, <1>5, <2>1
  <2>4. /\ k.passed /\ callbacks[c].passed /\ callbacks[c].pc # "get"
        /\ k.pc \in {"exchange", "verify", "upsert"}
        /\ ~(k.pc \in {"verify", "upsert"}) /\ k.pc # "upsert"
    BY <1>1, <1>5, <2>1
  <2>5. cookies' = cookies /\ redeemed \subseteq redeemed' /\ outcomes' = outcomes
        /\ learned' \in {"unlearned", Registered}
    BY <1>4, <2>2, Learned
  <2> QED
    BY <1>2, <1>4, <2>1, <2>2, <2>3, <2>4, <2>5, Onwards
<1>6. CASE ~(callbacks[c].passed /\ callbacks[c].answer.error = "none")
  <2> PICK kind : kind = IF callbacks[c].passed THEN Oidc!fail(c) ELSE "page"
    OBVIOUS
  <2>1. Oidc!Replies(c, kind)
    BY <1>6 DEF Oidc!deletes, Oidc!NoError
  <2>2. /\ kind \in {"page", "error"}
        /\ callbacks[c].late => kind = "page"
        /\ callbacks[c].passed /\ started[callbacks[c].state].silent => kind # "page"
    BY <1>1, <1>3 DEF Oidc!fail, Holds
  <2> QED
    BY <1>2, <1>4, <2>1, <2>2, ReplyKeeps
<1> QED  BY <1>5, <1>6

LEMMA AcceptedKeeps ==
  ASSUME OidcInv, NEW c \in Callbacks, Oidc!exchangeAccepted(c)
  PROVE  OidcInv'
<1>1. callbacks[c].pc = "exchange"  BY DEF Oidc!exchangeAccepted, Oidc!At
<1>2. callbacks[c] # Oidc!Idle  BY <1>1 DEF Oidc!Idle
<1>3. callbacks[c] \in Callback /\ Holds(callbacks[c])
  BY <1>2, InFlight
<1> PICK k : k = [callbacks[c] EXCEPT !.pc = "verify"]
  OBVIOUS
<1>4. /\ k \in Callback /\ k.pc = "verify" /\ k.state = callbacks[c].state
      /\ k.browser = callbacks[c].browser /\ k.answer = callbacks[c].answer
      /\ k.late = callbacks[c].late /\ k.passed = callbacks[c].passed
  BY <1>3 DEF Callback
<1>5. /\ callbacks' = [callbacks EXCEPT ![c] = k] /\ CodeOf(c) \notin redeemed
      /\ redeemed' = redeemed \cup {CodeOf(c)}
      /\ UNCHANGED <<started, kept, cookies, answers, outcomes, atProvider, told, loads>>
  BY DEF Oidc!exchangeAccepted, Oidc!Goes, CodeOf
<1>6. learned' \in {"unlearned", Registered}
  BY Learned DEF Oidc!exchangeAccepted, Oidc!learns
<1>7. k.passed /\ callbacks[c].passed /\ k.answer.error = "none" /\ k.state \notin kept'
  BY <1>1, <1>3, <1>4, <1>5 DEF Holds
<1>8. CallsOnly  BY <1>5 DEF CallsOnly, OidcInv, OidcTyped
<1> QED
  BY <1>1, <1>2, <1>4, <1>5, <1>6, <1>7, <1>8, Onwards

(* A callback past the pending login that is refused, by whichever step.   *)
LEMMA RefusedKeeps ==
  ASSUME OidcInv, CallsOnly, NEW c \in Callbacks,
         callbacks[c].pc \in {"exchange", "verify", "upsert"},
         Oidc!Replies(c, Oidc!fail(c)), kept' = kept, redeemed \subseteq redeemed',
         learned' = learned
  PROVE  OidcInv'
<1>1. callbacks[c] # Oidc!Idle  BY DEF Oidc!Idle
<1>2. callbacks[c] \in Callback /\ Holds(callbacks[c])
  BY <1>1, InFlight
<1> PICK kind : kind = Oidc!fail(c)
  OBVIOUS
<1>3. /\ kind \in {"page", "error"}
      /\ ~callbacks[c].late /\ callbacks[c].state \notin kept'
      /\ started[callbacks[c].state].silent => kind # "page"
  BY <1>2 DEF Oidc!fail, Holds
<1> QED  BY <1>1, <1>3, ReplyKeeps

LEMMA ExchangeRefusedKeeps ==
  ASSUME OidcInv, NEW c \in Callbacks, Oidc!exchangeRefused(c)
  PROVE  OidcInv'
<1>1. callbacks[c].pc = "exchange"  BY DEF Oidc!exchangeRefused, Oidc!At
<1>2. callbacks[c] # Oidc!Idle  BY <1>1 DEF Oidc!Idle
<1>3. callbacks[c] \in Callback /\ Holds(callbacks[c])
  BY <1>2, InFlight
<1>4. /\ UNCHANGED <<started, kept, answers, redeemed, learned, atProvider, told, loads>>
      /\ CallsOnly
  BY DEF Oidc!exchangeRefused, CallsOnly, OidcInv, OidcTyped
<1>5. CASE Oidc!mayRetry(c)
  <2> PICK k : k = [callbacks[c] EXCEPT !.first = Oidc!method(c)]
    OBVIOUS
  <2>1. Oidc!method(c) \in {"unlearned", "basic", "post"}
    BY <1>5, Learned, MCAuthAssumption
    DEF Oidc!method, Oidc!mayRetry, Oidc!OidcAssumption, Oidc!Unlearned
  <2>2. /\ k \in Callback /\ k.pc = "exchange" /\ k.state = callbacks[c].state
        /\ k.browser = callbacks[c].browser /\ k.answer = callbacks[c].answer
        /\ k.late = callbacks[c].late /\ k.passed = callbacks[c].passed
    BY <1>1, <1>3, <2>1 DEF Callback, Method
  <2>3. callbacks' = [callbacks EXCEPT ![c] = k] /\ UNCHANGED <<outcomes, cookies>>
    BY <1>5 DEF Oidc!exchangeRefused, Oidc!Goes
  <2>4. k.passed /\ callbacks[c].passed /\ k.answer.error = "none" /\ k.state \notin kept'
    BY <1>1, <1>3, <1>4, <2>2 DEF Holds
  <2> QED
    BY <1>1, <1>2, <1>4, <2>2, <2>3, <2>4, Onwards, Learned
<1>6. CASE ~Oidc!mayRetry(c)
  BY <1>1, <1>4, <1>6, RefusedKeeps DEF Oidc!exchangeRefused
<1> QED  BY <1>5, <1>6

LEMMA ExchangeFailsKeeps ==
  ASSUME OidcInv, NEW c \in Callbacks, Oidc!exchangeFails(c)
  PROVE  OidcInv'
<1>1. callbacks[c].pc = "exchange" /\ CallsOnly
  BY DEF Oidc!exchangeFails, Oidc!At, CallsOnly, OidcInv, OidcTyped
<1>2. Oidc!Replies(c, Oidc!fail(c)) /\ kept' = kept /\ redeemed \subseteq redeemed'
      /\ learned' = learned
  BY DEF Oidc!exchangeFails
<1> QED  BY <1>1, <1>2, RefusedKeeps

LEMMA VerifiesKeeps ==
  ASSUME OidcInv, NEW c \in Callbacks, Oidc!verifies(c)
  PROVE  OidcInv'
<1>1. callbacks[c].pc = "verify"  BY DEF Oidc!verifies, Oidc!At
<1>2. callbacks[c] # Oidc!Idle  BY <1>1 DEF Oidc!Idle
<1>3. callbacks[c] \in Callback /\ Holds(callbacks[c])
  BY <1>2, InFlight
<1>4. /\ UNCHANGED <<started, kept, answers, redeemed, learned, atProvider, told, loads>>
      /\ CallsOnly
  BY DEF Oidc!verifies, CallsOnly, OidcInv, OidcTyped
<1>5. CASE callbacks[c].answer.state = callbacks[c].state
  <2> PICK k : k = [callbacks[c] EXCEPT !.pc = "upsert"]
    OBVIOUS
  <2>1. /\ k \in Callback /\ k.pc = "upsert" /\ k.state = callbacks[c].state
        /\ k.browser = callbacks[c].browser /\ k.answer = callbacks[c].answer
        /\ k.late = callbacks[c].late /\ k.passed = callbacks[c].passed
    BY <1>3 DEF Callback
  <2>2. callbacks' = [callbacks EXCEPT ![c] = k] /\ UNCHANGED <<outcomes, cookies>>
    BY <1>5 DEF Oidc!verifies, Oidc!nonceMatches, Oidc!Goes
  <2>3. k.passed /\ callbacks[c].passed /\ k.answer.error = "none" /\ k.state \notin kept'
    BY <1>1, <1>3, <1>4, <2>1 DEF Holds
  <2>4. Exchanged(c)  BY <1>1, <1>2 DEF Exchanged
  <2> QED
    BY <1>1, <1>2, <1>4, <1>5, <2>1, <2>2, <2>3, <2>4, Onwards, Learned
<1>6. CASE callbacks[c].answer.state # callbacks[c].state
  BY <1>1, <1>4, <1>6, RefusedKeeps DEF Oidc!verifies, Oidc!nonceMatches
<1> QED  BY <1>5, <1>6

(* The session itself.                                                     *)
LEMMA UpsertsKeeps ==
  ASSUME OidcInv, NEW c \in Callbacks, NEW result \in Oidc!Upserted, Oidc!upserts(c, result)
  PROVE  OidcInv'
<1>1. callbacks[c].pc = "upsert"  BY DEF Oidc!upserts, Oidc!At
<1>2. callbacks[c] # Oidc!Idle  BY <1>1 DEF Oidc!Idle
<1>3. callbacks[c] \in Callback /\ Holds(callbacks[c])
  BY <1>2, InFlight
<1>4. /\ UNCHANGED <<started, kept, answers, redeemed, learned, atProvider, told, loads>>
      /\ CallsOnly
  BY DEF Oidc!upserts, CallsOnly, OidcInv, OidcTyped
<1>5. CASE result = "ok"
  <2> PICK o : o = [Oidc!Outcome(c, "token") EXCEPT !.account =
                      IF result = "ok" THEN callbacks[c].answer.person ELSE 0]
    OBVIOUS
  <2>1. /\ outcomes' = outcomes \cup {o} /\ cookies' \subseteq cookies
        /\ callbacks' = [callbacks EXCEPT ![c] = Oidc!Idle]
    BY <1>5 DEF Oidc!upserts, Oidc!mintsFor, Oidc!Goes
  <2>2. /\ callbacks[c].state \in Attempts /\ callbacks[c].browser \in Browsers
        /\ callbacks[c].answer \in Answer /\ callbacks[c].passed \in BOOLEAN
        /\ callbacks[c].late \in BOOLEAN /\ callbacks[c].load \in Nat
    BY <1>3 DEF Callback
  <2>3. /\ o \in Outcome /\ o.state = callbacks[c].state /\ o.browser = callbacks[c].browser
        /\ o.passed = callbacks[c].passed /\ o.late = callbacks[c].late /\ o.kind = "token"
        /\ o.account = callbacks[c].answer.person /\ o.answer = callbacks[c].answer.id
    BY <1>5, <2>2 DEF Outcome, Answer, Oidc!Outcome
  <2>4. /\ callbacks[c].answer \in answers /\ callbacks[c].answer.state = callbacks[c].state
        /\ callbacks[c].answer.person # 0 /\ ~callbacks[c].late
        /\ callbacks[c].state \notin kept /\ OfBrowser(callbacks[c].browser, callbacks[c].state)
    BY <1>1, <1>3 DEF Holds, OidcInv, Bound
  <2>5. Fair(o)'
    BY <1>4, <2>3, <2>4 DEF Fair, CallsOnly, OfBrowser
  <2>6. Exchanged(c) /\ o.answer = CodeOf(c)
    BY <1>1, <1>2, <2>3 DEF Exchanged, CodeOf
  <2>7. learned' \in {"unlearned", Registered}
    BY <1>4, Learned
  <2> QED
    BY <1>4, <2>1, <2>5, <2>6, <2>7, CallbackStep
<1>6. CASE result # "ok"
  BY <1>1, <1>4, <1>6, RefusedKeeps DEF Oidc!upserts, Oidc!mintsFor
<1> QED  BY <1>5, <1>6

LEMMA CallbackKeeps ==
  ASSUME OidcInv, NEW c \in Callbacks, NEW b \in Browsers, NEW s \in Attempts, NEW a \in answers,
         Oidc!callback(c, b, s, a)
  PROVE  OidcInv'
<1>1. /\ callbacks[c] = Oidc!Idle /\ a \in Answer
      /\ UNCHANGED <<started, kept, cookies, answers, redeemed, learned, atProvider, told>>
      /\ CallsOnly /\ loads' = loads + 1 /\ loads' \in Nat
  BY DEF Oidc!callback, CallsOnly, OidcInv, OidcTyped
<1>2. learned' \in {"unlearned", Registered}
  BY <1>1, Learned
<1>3. CASE <<b, s>> \in cookies
  <2> PICK k : k = Oidc!Loaded("get", loads', b, s, a, FALSE, FALSE)
    OBVIOUS
  <2>1. /\ k \in Callback /\ k.pc = "get" /\ k.state = s /\ k.browser = b /\ k.answer = a
        /\ ~k.passed
    BY <1>1 DEF Callback, Oidc!Loaded, Oidc!Unlearned
  <2>2. callbacks' = [callbacks EXCEPT ![c] = k] /\ outcomes' = outcomes
    BY <1>3 DEF Oidc!callback, Oidc!binds, Oidc!Goes
  <2>3. Holds(k)'
    BY <1>1, <1>3, <2>1 DEF Holds, OidcInv, Bound, OfBrowser
  <2> QED
    BY <1>1, <1>2, <2>1, <2>2, <2>3, CallbackStep
<1>4. CASE <<b, s>> \notin cookies
  <2> PICK o : o = [load |-> loads', state |-> s, browser |-> b, kind |-> "page",
                    answer |-> a.id, passed |-> FALSE, late |-> FALSE, person |-> a.person,
                    account |-> 0]
    OBVIOUS
  <2>1. /\ o \in Outcome /\ ~o.passed /\ o.kind = "page"
    BY <1>1 DEF Outcome, Answer
  <2>2. callbacks' = callbacks /\ outcomes' = outcomes \cup {o}
    BY <1>4 DEF Oidc!callback, Oidc!binds
  <2>3. callbacks' = [callbacks EXCEPT ![c] = Oidc!Idle]
    BY <1>1, <2>2 DEF OidcInv, OidcTyped
  <2>4. Fair(o)'
    BY <2>1 DEF Fair
  <2>5. \A p \in outcomes' : p \in outcomes \/ p = o
    BY <2>2
  <2> QED
    BY <1>1, <1>2, <2>1, <2>3, <2>4, <2>5, CallbackStep
<1> QED  BY <1>3, <1>4

(* An attempt that starts is new: nothing so far belongs to it.            *)
LEMMA StartKeeps ==
  ASSUME OidcInv, NEW b \in Browsers, NEW s \in Attempts, NEW silent \in BOOLEAN,
         Oidc!start(b, s, silent)
  PROVE  OidcInv'
<1>1. /\ started[s] = [browser |-> 0, silent |-> FALSE]
      /\ started' = [started EXCEPT ![s] = [browser |-> b, silent |-> silent]]
      /\ kept' = kept \cup {s} /\ cookies' = cookies \cup {<<b, s>>}
      /\ UNCHANGED <<answers, redeemed, learned, callbacks, outcomes, atProvider, told, loads>>
  BY DEF Oidc!start, Oidc!NotStarted
<1>2. started \in [Attempts -> Attempt] /\ 0 \notin Browsers
  BY MCAuthAssumption DEF OidcInv, OidcTyped, Oidc!OidcAssumption
<1>3. /\ started[s].browser = 0 /\ started'[s].browser = b
      /\ started'[s] = [browser |-> b, silent |-> silent]
      /\ \A t \in Attempts \ {s} : started'[t] = started[t]
  BY <1>1, <1>2
<1>4. OidcTyped'
  BY <1>1, <1>2 DEF OidcInv, OidcTyped, Attempt
<1>5. \A d \in Browsers, t \in Attempts : OfBrowser(d, t) => OfBrowser(d, t)' /\ t # s
  BY <1>2, <1>3 DEF OfBrowser
<1>6. OfBrowser(b, s)'
  BY <1>3 DEF OfBrowser
<1>7. \A o \in outcomes : Fair(o) => Fair(o)'
  <2> SUFFICES ASSUME NEW o \in outcomes, Fair(o) PROVE Fair(o)'
    OBVIOUS
  <2>1. o \in Outcome /\ o.state \in Attempts /\ o.browser \in Browsers
    BY DEF Fair, Outcome
  <2>2. (o.passed \/ o.kind = "token") => o.state # s
    BY <1>2, <1>3, <2>1 DEF Fair, OfBrowser
  <2>3. o.state # s => started'[o.state] = started[o.state]
    BY <1>3, <2>1
  <2> QED
    BY <1>1, <1>5, <2>1, <2>2, <2>3 DEF Fair, OfBrowser
<1>8. \A o \in outcomes' : Fair(o)'
  BY <1>1, <1>7, OutcomesAreFair
<1>9. Bound'
  <2>1. \A t \in kept' : (\E d \in Browsers : OfBrowser(d, t))'
    BY <1>1, <1>5, <1>6 DEF OidcInv, OidcTyped, Bound
  <2>2. \A d \in Browsers, t \in Attempts : <<d, t>> \in cookies' => OfBrowser(d, t)'
    BY <1>1, <1>5, <1>6 DEF OidcInv, Bound
  <2>3. \A a \in answers' : a.error = "none" => a.person # 0
    BY <1>1 DEF OidcInv, Bound
  <2> QED  BY <1>8, <2>1, <2>2, <2>3 DEF Bound, Fair
<1>10. \A c \in Callbacks : (callbacks[c] # Oidc!Idle => Holds(callbacks[c]))'
  <2> SUFFICES ASSUME NEW c \in Callbacks, callbacks[c] # Oidc!Idle, callbacks' = callbacks
               PROVE  Holds(callbacks[c])'
    BY <1>1
  <2>1. callbacks[c] \in Callback /\ Holds(callbacks[c])
    BY InFlight
  <2>2. callbacks[c].browser \in Browsers /\ callbacks[c].state \in Attempts
    BY <2>1 DEF Callback
  <2>3. /\ OfBrowser(callbacks[c].browser, callbacks[c].state)'
        /\ callbacks[c].state # s
    BY <1>5, <2>1, <2>2 DEF Holds, OfBrowser
  <2> QED
    BY <1>1, <2>1, <2>3 DEF Holds
<1>11. OneHand' /\ Oidc!CodesSignInOnce' /\ Oidc!LearnedIsAccepted' /\ Oidc!ToldTheTruth'
  BY <1>1 DEF OidcInv, OneHand, Exchanged, CodeOf, Oidc!CodesSignInOnce, Oidc!Tokens,
    Oidc!LearnedIsAccepted, Oidc!ToldTheTruth
<1>12. /\ Oidc!SignInIsOwn' /\ Oidc!ReplaysEndOnAPage' /\ Oidc!SilentComesBack'
       /\ Oidc!RefusedStaysOut'
  BY <1>8 DEF Fair, Oidc!SignInIsOwn, Oidc!ReplaysEndOnAPage,
    Oidc!SilentComesBack, Oidc!RefusedStaysOut, Oidc!Tokens
<1> QED
  BY <1>4, <1>9, <1>10, <1>11, <1>12 DEF OidcInv

(* The provider, the clock and the logout route touch no callback.         *)
LEMMA AroundKeeps ==
  ASSUME OidcInv, UNCHANGED <<started, redeemed, learned, callbacks, outcomes, loads>>,
         kept' \subseteq kept, cookies' \subseteq cookies,
         answers \subseteq answers', answers' \subseteq Answer, IsFiniteSet(answers'),
         \A a \in answers' : a.error = "none" => a.person # 0,
         told' \cap atProvider' = {}
  PROVE  OidcInv'
<1>1. OidcTyped'
  BY DEF OidcInv, OidcTyped
<1>2. Bound'
  <2>1. \A t \in kept' : (\E d \in Browsers : OfBrowser(d, t))'
    BY DEF OidcInv, Bound, OfBrowser
  <2>2. \A d \in Browsers, t \in Attempts : <<d, t>> \in cookies' => OfBrowser(d, t)'
    BY DEF OidcInv, Bound, OfBrowser
  <2>3. \A o \in outcomes' : (o.passed => o.state \notin kept
                                 /\ OfBrowser(started[o.state].browser, o.state))'
    BY DEF OidcInv, Bound, OfBrowser
  <2> QED  BY <2>1, <2>2, <2>3 DEF Bound
<1>3. \A c \in Callbacks : (callbacks[c] # Oidc!Idle => Holds(callbacks[c]))'
  BY DEF OidcInv, Holds, OfBrowser
<1>4. OneHand' /\ Oidc!CodesSignInOnce' /\ Oidc!LearnedIsAccepted' /\ Oidc!ToldTheTruth'
  BY DEF OidcInv, OneHand, Exchanged, CodeOf, Oidc!CodesSignInOnce, Oidc!Tokens,
    Oidc!LearnedIsAccepted, Oidc!ToldTheTruth
<1>5. /\ Oidc!SignInIsOwn' /\ Oidc!ReplaysEndOnAPage' /\ Oidc!SilentComesBack'
      /\ Oidc!RefusedStaysOut'
  BY DEF OidcInv, Oidc!SignInIsOwn, Oidc!ReplaysEndOnAPage,
    Oidc!SilentComesBack, Oidc!RefusedStaysOut, Oidc!Tokens
<1> QED
  BY <1>1, <1>2, <1>3, <1>4, <1>5 DEF OidcInv

LEMMA ProviderKeeps ==
  ASSUME OidcInv, NEW b \in Browsers, NEW s \in Attempts, Oidc!ProviderAnswers(b, s)
  PROVE  OidcInv'
<1>1. UNCHANGED <<started, redeemed, learned, callbacks, outcomes, loads, kept, cookies>>
  BY DEF Oidc!ProviderAnswers
<1>2. IsFiniteSet(answers) /\ answers \subseteq Answer
      /\ \A a \in answers : a.error = "none" => a.person # 0
  BY DEF OidcInv, OidcTyped, Bound
<1> PICK n \in Int : n = Cardinality(answers) + 1
  BY <1>2, FS_CardinalityType
<1> PICK error \in {"login_required", "access_denied"} :
      error = IF started[s].silent THEN "login_required" ELSE "access_denied"
  OBVIOUS
<1>0. Oidc!Cardinality(answers) = Cardinality(answers)
  BY DEF Oidc!Cardinality, Cardinality
<1>3. /\ Oidc!Code(n, s, b) \in Answer /\ Oidc!Code(n, s, b).person # 0
      /\ Oidc!Error(n, s, error) \in Answer /\ Oidc!Error(n, s, error).error # "none"
  <2>2. b # 0  BY MCAuthAssumption DEF Oidc!OidcAssumption
  <2>3. Oidc!Code(n, s, b) = [id |-> n, state |-> s, person |-> b, error |-> "none"]
    BY DEF Oidc!Code, Oidc!NoError
  <2>4. Oidc!Error(n, s, error) = [id |-> n, state |-> s, person |-> 0, error |-> error]
    BY DEF Oidc!Error
  <2> QED  BY <2>2, <2>3, <2>4 DEF Answer
<1>4. \/ answers' = answers \cup {Oidc!Code(n, s, b)}
      \/ answers' = answers \cup {Oidc!Error(n, s, error)}
  BY <1>0 DEF Oidc!ProviderAnswers
<1>5. /\ answers \subseteq answers' /\ answers' \subseteq Answer /\ IsFiniteSet(answers')
      /\ \A a \in answers' : a.error = "none" => a.person # 0
  <2>1. PICK a \in Answer : answers' = answers \cup {a} /\ (a.error = "none" => a.person # 0)
    BY <1>3, <1>4
  <2> QED  BY <1>2, <2>1, FS_AddElement
<1>6. told' \cap atProvider' = {}
  BY DEF Oidc!ProviderAnswers, OidcInv, Oidc!ToldTheTruth
<1> QED
  BY <1>1, <1>5, <1>6, AroundKeeps

LEMMA ExpiresKeeps ==
  ASSUME OidcInv, NEW s \in Attempts, Oidc!Expires(s)
  PROVE  OidcInv'
<1>1. kept' \subseteq kept /\ cookies' \subseteq cookies
      /\ UNCHANGED <<started, answers, redeemed, learned, callbacks, outcomes, atProvider, told, loads>>
  BY DEF Oidc!Expires
<1>2. answers' \subseteq Answer /\ IsFiniteSet(answers') /\ told' \cap atProvider' = {}
      /\ \A a \in answers' : a.error = "none" => a.person # 0
  BY <1>1 DEF OidcInv, OidcTyped, Bound, Oidc!ToldTheTruth
<1> QED  BY <1>1, <1>2, AroundKeeps

LEMMA LogoutKeeps ==
  ASSUME OidcInv, NEW b \in Browsers, NEW status, Oidc!logout(b, status)
  PROVE  OidcInv'
<1>1. UNCHANGED <<started, kept, cookies, answers, redeemed, learned, callbacks, outcomes, loads>>
  BY DEF Oidc!logout
<1>2. told' \cap atProvider' = {}
  BY DEF Oidc!logout, Oidc!signedOut, OidcInv, Oidc!ToldTheTruth
<1>3. answers' \subseteq Answer /\ IsFiniteSet(answers')
      /\ \A a \in answers' : a.error = "none" => a.person # 0
  BY <1>1 DEF OidcInv, OidcTyped, Bound
<1> QED  BY <1>1, <1>2, <1>3, AroundKeeps
-----------------------------------------------------------------------------

LEMMA OidcInit == Oidc!Init => OidcInv
<1> SUFFICES ASSUME Oidc!Init PROVE OidcInv
  OBVIOUS
<1>1. OidcTyped
  BY FS_EmptySet DEF Oidc!Init, OidcTyped, Attempt, Oidc!NotStarted
<1>2. Bound /\ OneHand
  BY DEF Oidc!Init, Bound, OneHand, Exchanged
<1> QED
  BY <1>1, <1>2 DEF Oidc!Init, OidcInv, Oidc!SignInIsOwn, Oidc!ReplaysEndOnAPage,
    Oidc!CodesSignInOnce, Oidc!SilentComesBack, Oidc!LearnedIsAccepted, Oidc!RefusedStaysOut,
    Oidc!ToldTheTruth, Oidc!Tokens, Oidc!Unlearned

LEMMA OidcStep == OidcInv /\ [AuthNext]_authVars => OidcInv'
<1> SUFFICES ASSUME OidcInv, [AuthNext]_authVars PROVE OidcInv'
  OBVIOUS
<1>1. CASE UNCHANGED oidcVars
  <2>1. UNCHANGED <<started, redeemed, learned, callbacks, outcomes, kept, cookies, answers,
                    told, atProvider, loads>>
    BY <1>1 DEF oidcVars
  <2> QED
    BY <2>1, AroundKeeps DEF OidcInv, OidcTyped, Bound, Oidc!ToldTheTruth
<1>2. CASE Oidc!Next
  <2>1. ASSUME NEW b \in Browsers, NEW s \in Attempts, NEW silent \in BOOLEAN,
               Oidc!start(b, s, silent)
        PROVE  OidcInv'
    BY <2>1, StartKeeps
  <2>2. ASSUME NEW b \in Browsers, NEW s \in Attempts, Oidc!ProviderAnswers(b, s)
        PROVE  OidcInv'
    BY <2>2, ProviderKeeps
  <2>3. ASSUME NEW b \in Browsers, NEW s \in Attempts, NEW c \in Callbacks, NEW a \in answers,
               Oidc!callback(c, b, s, a)
        PROVE  OidcInv'
    BY <2>3, CallbackKeeps
  <2>4. ASSUME NEW s \in Attempts, Oidc!Expires(s) PROVE OidcInv'
    BY <2>4, ExpiresKeeps
  <2>5. ASSUME NEW c \in Callbacks, Oidc!gets(c) PROVE OidcInv'
    BY <2>5, GetsKeeps
  <2>6. ASSUME NEW c \in Callbacks, Oidc!deletes(c) PROVE OidcInv'
    BY <2>6, DeletesKeeps
  <2>7. ASSUME NEW c \in Callbacks, Oidc!exchangeAccepted(c) PROVE OidcInv'
    BY <2>7, AcceptedKeeps
  <2>8. ASSUME NEW c \in Callbacks, Oidc!exchangeRefused(c) PROVE OidcInv'
    BY <2>8, ExchangeRefusedKeeps
  <2>9. ASSUME NEW c \in Callbacks, Oidc!exchangeFails(c) PROVE OidcInv'
    BY <2>9, ExchangeFailsKeeps
  <2>10. ASSUME NEW c \in Callbacks, Oidc!verifies(c) PROVE OidcInv'
    BY <2>10, VerifiesKeeps
  <2>11. ASSUME NEW c \in Callbacks, NEW result \in Oidc!Upserted, Oidc!upserts(c, result)
         PROVE  OidcInv'
    BY <2>11, UpsertsKeeps
  <2>12. ASSUME NEW b \in Browsers, NEW status \in {"ended", "refused", "timedOutButEnded"},
                Oidc!logout(b, status)
         PROVE  OidcInv'
    BY <2>12, LogoutKeeps
  <2> QED
    BY <1>2, <2>1, <2>2, <2>3, <2>4, <2>5, <2>6, <2>7, <2>8, <2>9, <2>10, <2>11, <2>12
    DEF Oidc!Next
<1> QED  BY <1>1, <1>2 DEF AuthNext, authVars, oidcVars

(***************************************************************************)
(* However many browsers, attempts and callbacks there are, in whatever    *)
(* order callback addresses are loaded, answers come in and methods are    *)
(* refused: a provider's sign-in ends in the browser that started it, for  *)
(* the person the provider answered this attempt about, once; a replay     *)
(* ends on a page, a silent attempt in the application, a refused account  *)
(* without a session, and nobody is told a logout that did not happen.     *)
(***************************************************************************)
THEOREM SignInsEndWhereTheyBegan == AuthSpec => []SignInsAreSound
<1>1. AuthInit => OidcInv
  BY OidcInit DEF AuthInit
<1>2. OidcInv => SignInsAreSound
  BY DEF OidcInv, SignInsAreSound
<1> QED  BY <1>1, <1>2, OidcStep, PTL DEF AuthSpec

-----------------------------------------------------------------------------
(***************************************************************************)
(* One-time links.  Rows and calls as they may be.                         *)
(***************************************************************************)
LinkRow == [email : Addrs \cup {0}, verified : BOOLEAN, password : BOOLEAN]
Tok == [hash : Nat, sent : BOOLEAN, consumed : BOOLEAN]
Ask == [purpose : Links!Purposes, email : Addrs \cup {0}]
Run == [op : {"select", "mark", "settle"}, req : Nat] \cup [op : {"mint"}, req : Nat, seen : Nat]
         \cup [op : {"send"}, req : Nat, token : Nat]
LinkCall ==
  [op : {"change"}, email : Addrs, pc : {"write"}]
    \cup [op : {"ask"}, purpose : Links!Purposes, email : Addrs \cup {0}, pc : {"delete", "insert"}]
    \cup [op : {"enqueue"}, req : Nat]
    \cup [op : {"redeemed"}, purpose : Links!Purposes, email : Addrs \cup {0}, token : Nat,
          pc : {"read", "write", "clean", "record"}]
Mail(r, t) == [req |-> r, token |-> t]

MaxAsks == [do |-> DoRequests, d1 |-> D1Requests][store]
Numbered == \E n \in 0 .. MaxAsks : DOMAIN asks = 1 .. n
LinkTyped ==
  /\ store \in {"do", "d1"}
  /\ link \in LinkRow
  /\ Numbered /\ asks \in [DOMAIN asks -> Ask]
  /\ \A r \in DOMAIN asks : asks[r].purpose = "login" => asks[r].email = Username
  /\ queue \subseteq DOMAIN asks
  /\ runs \in [Runners -> {Links!Idle} \cup Run]
  /\ \A d \in Runners : runs[d] # Links!Idle => runs[d].req \in DOMAIN asks
  /\ \A d \in Runners : runs[d].op = "send" => runs[d].token \in 1 .. minted
  /\ minted \in Nat
  /\ mails \subseteq [req : Nat, token : Nat]
  /\ \A m \in mails : m.req \in DOMAIN asks /\ m.token \in 1 .. minted
  /\ linkCalls \in [LinkCalls -> {Links!Idle} \cup LinkCall]

(* The token rows T: of a request each, with a hash of its own; what is    *)
(* marked as sent was mailed, and so is what a runner is about to mark; in *)
(* transactions, one row to a purpose.                                     *)
Sound(T) ==
  /\ T \in [Links!Requests -> {NoTok} \cup Tok]
  /\ \A r \in Links!Requests : T[r] # NoTok =>
       /\ r \in DOMAIN asks
       /\ T[r].hash <= minted
       /\ T[r].sent => Mail(r, T[r].hash) \in mails
  /\ \A r, q \in Links!Requests :
       T[r] # NoTok /\ T[q] # NoTok /\ T[r].hash = T[q].hash /\ T[r].hash # 0 => r = q
  /\ \A d \in Runners : runs[d].op = "send" /\ T[runs[d].req] # NoTok =>
       T[runs[d].req].hash = runs[d].token
  /\ \A d \in Runners : runs[d].op = "mark" /\ T[runs[d].req] # NoTok =>
       Mail(runs[d].req, T[runs[d].req].hash) \in mails
  /\ store = "do" => \A r, q \in Links!Requests :
       T[r] # NoTok /\ T[q] # NoTok /\ asks[r].purpose = asks[q].purpose => r = q

(* The account's row R, in transactions.                                   *)
Proved(R) == R \in LinkRow /\ (R.verified => R.email \in proved)

(* A token nobody can redeem any more.                                     *)
Spent(t) == \A r \in Links!Requests : toks[r] # NoTok /\ toks[r].hash = t => toks[r].consumed

(* What a call k holds on to.                                              *)
Keeps(k) ==
  /\ k.op = "change" /\ store = "do" => ~link.verified
  /\ k.op \in {"ask", "redeemed"} /\ k.purpose = "login" => k.email = Username
  /\ k.op = "ask" /\ k.pc = "insert" /\ store = "do" =>
       \A r \in DOMAIN asks : asks[r].purpose = k.purpose => toks[r] = NoTok
  /\ k.op = "enqueue" => k.req \in DOMAIN asks
  /\ k.op = "redeemed" => k.email \in proved /\ k.token \in 1 .. minted /\ Spent(k.token)

InCall(c) == linkCalls[c] # Links!Idle
LinkInv ==
  /\ LinkTyped
  /\ Sound(toks)
  /\ store = "do" => Proved(link)
  /\ store = "do" => \A c, d \in LinkCalls : InCall(c) /\ InCall(d) => c = d
  /\ store = "do" /\ (\E c \in LinkCalls : InCall(c)) =>
       /\ before = [row |-> before.row, toks |-> before.toks]
       /\ Sound(before.toks) /\ Proved(before.row)
  /\ \A c \in LinkCalls : InCall(c) => Keeps(linkCalls[c])
  /\ Links!RedeemedOnce
-----------------------------------------------------------------------------

LEMMA MayRunAlone ==
  ASSUME NEW c, Links!MayRun(c), store = "do"
  PROVE  \A d \in LinkCalls \ {c} : ~InCall(d)
BY DEF Links!MayRun, InCall

(* New requests, mails and tokens take nothing from the rows.              *)
AsksGrow ==
  /\ DOMAIN asks \subseteq DOMAIN asks'
  /\ \A r \in DOMAIN asks : asks'[r] = asks[r]

LEMMA SoundStays ==
  ASSUME LinkTyped, NEW T, Sound(T), AsksGrow, UNCHANGED <<store, runs>>,
         minted' \in Nat, minted <= minted', mails \subseteq mails'
  PROVE  Sound(T)'
<1>1. Links!Requests' = Links!Requests
  BY DEF Links!Requests
<1>2. T \in [Links!Requests -> {NoTok} \cup Tok]
  BY DEF Sound
<1>3. (T \in [Links!Requests -> {NoTok} \cup Tok])'
  BY <1>1, <1>2
<1>4. \A r \in Links!Requests : T[r] # NoTok =>
        /\ r \in DOMAIN asks'
        /\ T[r].hash <= minted'
        /\ T[r].sent => Mail(r, T[r].hash) \in mails'
  <2> SUFFICES ASSUME NEW r \in Links!Requests, T[r] # NoTok
               PROVE  /\ r \in DOMAIN asks'
                      /\ T[r].hash <= minted'
                      /\ T[r].sent => Mail(r, T[r].hash) \in mails'
    OBVIOUS
  <2>1. T[r].hash \in Nat  BY <1>2 DEF Tok
  <2>2. r \in DOMAIN asks /\ T[r].hash <= minted /\ (T[r].sent => Mail(r, T[r].hash) \in mails)
    BY DEF Sound
  <2> QED  BY <2>1, <2>2 DEF AsksGrow, LinkTyped
<1>5. \A d \in Runners : runs[d].op = "mark" /\ T[runs[d].req] # NoTok =>
        Mail(runs[d].req, T[runs[d].req].hash) \in mails'
  BY DEF Sound
<1>6. store = "do" => \A r, q \in Links!Requests :
       T[r] # NoTok /\ T[q] # NoTok /\ asks'[r].purpose = asks'[q].purpose => r = q
  BY DEF Sound, AsksGrow
<1> QED
  BY <1>1, <1>3, <1>4, <1>5, <1>6 DEF Sound, Mail
(* Rows that are deleted, or consumed.                                     *)
LEMMA SoundShrinks ==
  ASSUME NEW T, Sound(T), NEW U, U \in [Links!Requests -> {NoTok} \cup Tok],
         \A r \in Links!Requests : U[r] # NoTok =>
           T[r] # NoTok /\ U[r].hash = T[r].hash /\ (U[r].sent => T[r].sent),
         \A r \in DOMAIN asks : r \in Links!Requests,
         \A d \in Runners : runs[d].op \in {"send", "mark"} => runs[d].req \in DOMAIN asks
  PROVE  Sound(U)
<1>1. \A r \in Links!Requests : U[r] # NoTok =>
        /\ r \in DOMAIN asks
        /\ U[r].hash <= minted
        /\ U[r].sent => Mail(r, U[r].hash) \in mails
  BY DEF Sound
<1>2. \A r, q \in Links!Requests :
       U[r] # NoTok /\ U[q] # NoTok /\ U[r].hash = U[q].hash /\ U[r].hash # 0 => r = q
  BY DEF Sound
<1>3. \A d \in Runners : runs[d].op = "send" /\ U[runs[d].req] # NoTok =>
       U[runs[d].req].hash = runs[d].token
  BY DEF Sound
<1>4. \A d \in Runners : runs[d].op = "mark" /\ U[runs[d].req] # NoTok =>
       Mail(runs[d].req, U[runs[d].req].hash) \in mails
  BY DEF Sound
<1>5. store = "do" => \A r, q \in Links!Requests :
       U[r] # NoTok /\ U[q] # NoTok /\ asks[r].purpose = asks[q].purpose => r = q
  BY DEF Sound
<1> QED  BY <1>1, <1>2, <1>3, <1>4, <1>5 DEF Sound

LEMMA AskedIsRequest == LinkTyped => \A r \in DOMAIN asks : r \in Links!Requests /\ r \in Nat
<1> SUFFICES ASSUME LinkTyped PROVE \A r \in DOMAIN asks : r \in Links!Requests /\ r \in Nat
  OBVIOUS
<1>1. MaxAsks \in Nat
  BY MCAuthAssumption DEF LinkTyped, MaxAsks, Links!AuthLinksAssumption
<1> QED  BY <1>1 DEF LinkTyped, Numbered, MaxAsks, Links!Requests

(* A statement of one call.                                                *)
LEMMA LinkCallStep ==
  ASSUME LinkInv, NEW c \in LinkCalls,
         store = "do" => \A d \in LinkCalls \ {c} : ~InCall(d),
         NEW k \in {Links!Idle} \cup LinkCall, linkCalls' = [linkCalls EXCEPT ![c] = k],
         UNCHANGED <<store, runs, minted, mails>>, proved \subseteq proved',
         AsksGrow, Numbered', asks' \in [DOMAIN asks' -> Ask],
         \A r \in DOMAIN asks' : asks'[r].purpose = "login" => asks'[r].email = Username,
         queue' \subseteq DOMAIN asks', link' \in LinkRow,
         Sound(toks)',
         store = "do" => Proved(link)',
         k # Links!Idle /\ store = "do" =>
           \/ InCall(c) /\ before' = before
           \/ before' = [row |-> link, toks |-> toks],
         k # Links!Idle => Keeps(k)',
         store = "d1" => \A t \in 1 .. minted : Spent(t) => Spent(t)',
         k # Links!Idle /\ k.op = "redeemed" =>
           \/ InCall(c) /\ linkCalls[c].op = "redeemed" /\ linkCalls[c].token = k.token
           \/ ~Spent(k.token)
  PROVE  LinkInv'
<1>1. linkCalls \in [LinkCalls -> {Links!Idle} \cup LinkCall]
  BY DEF LinkInv, LinkTyped
<1>2. \A d \in LinkCalls : linkCalls'[d] = IF d = c THEN k ELSE linkCalls[d]
  BY <1>1
<1>3. LinkTyped'
  <2>1. linkCalls' \in [LinkCalls -> {Links!Idle} \cup LinkCall]
    BY <1>1
  <2>2. \A d \in Runners : runs'[d] # Links!Idle => runs'[d].req \in DOMAIN asks'
    BY DEF LinkInv, LinkTyped, AsksGrow
  <2>3. \A m \in mails' : m.req \in DOMAIN asks' /\ m.token \in 1 .. minted'
    BY DEF LinkInv, LinkTyped, AsksGrow
  <2> QED
    BY <2>1, <2>2, <2>3 DEF LinkInv, LinkTyped
<1>4. store = "do" => \A d \in LinkCalls : InCall(d)' => d = c /\ k # Links!Idle
  BY <1>2 DEF InCall
<1>5. (store = "do" /\ (\E d \in LinkCalls : InCall(d)) =>
        /\ before = [row |-> before.row, toks |-> before.toks]
        /\ Sound(before.toks) /\ Proved(before.row))'
  <2> SUFFICES ASSUME store = "do", k # Links!Idle
               PROVE  (/\ before = [row |-> before.row, toks |-> before.toks]
                       /\ Sound(before.toks) /\ Proved(before.row))'
    BY <1>4
  <2>1. PICK R, T : before' = [row |-> R, toks |-> T] /\ Sound(T) /\ Proved(R)
    <3>1. CASE InCall(c) /\ before' = before
      BY <3>1 DEF LinkInv
    <3>2. CASE before' = [row |-> link, toks |-> toks]
      BY <3>2 DEF LinkInv
    <3> QED  BY <3>1, <3>2
  <2>2. Sound(T)'
    BY <2>1, SoundStays DEF LinkInv, LinkTyped
  <2>3. Proved(R)'
    BY <2>1 DEF Proved
  <2>4. before'.toks = T /\ before'.row = R
    BY <2>1
  <2> QED
    BY <2>1, <2>2, <2>3, <2>4 DEF Sound, Proved
<1>6. \A d \in LinkCalls : (InCall(d) => Keeps(linkCalls[d]))'
  <2> SUFFICES ASSUME NEW d \in LinkCalls, InCall(d)'
               PROVE  Keeps(linkCalls[d])'
    OBVIOUS
  <2>1. CASE d = c
    <3>1. linkCalls'[d] = k /\ k # Links!Idle  BY <1>2, <2>1 DEF InCall
    <3> QED  BY <3>1 DEF Keeps, Spent, Links!Requests
  <2>2. CASE d # c
    <3>1. /\ linkCalls'[d] = linkCalls[d] /\ InCall(d) /\ store = "d1"
          /\ Keeps(linkCalls[d])
      BY <1>2, <1>4, <2>2 DEF InCall, LinkInv, LinkTyped
    <3>2. PICK h : h = linkCalls[d] /\ h = linkCalls'[d]
      BY <3>1
    <3>3. Keeps(h)  BY <3>1, <3>2
    <3>4. Keeps(h)'
      BY <3>1, <3>3 DEF Keeps, AsksGrow
    <3> QED  BY <3>2, <3>4 DEF Keeps, Spent, Links!Requests
  <2> QED  BY <2>1, <2>2
<1>7. Links!RedeemedOnce'
  <2> SUFFICES ASSUME NEW d \in LinkCalls, NEW e \in LinkCalls, d # e,
                      linkCalls'[d].op = "redeemed", linkCalls'[e].op = "redeemed"
               PROVE  linkCalls'[d].token # linkCalls'[e].token
    BY DEF Links!RedeemedOnce, Links!Redeeming
  <2>1. Links!Idle.op # "redeemed"  BY DEF Links!Idle
  <2>2. \A h \in LinkCalls : linkCalls[h].op = "redeemed" => InCall(h) /\ Spent(linkCalls[h].token)
    BY <2>1 DEF LinkInv, InCall, Keeps
  <2>3. Links!RedeemedOnce  BY DEF LinkInv
  <2>4. CASE d = c
    BY <1>2, <2>1, <2>2, <2>3, <2>4 DEF Links!RedeemedOnce, Links!Redeeming
  <2>5. CASE e = c
    BY <1>2, <2>1, <2>2, <2>3, <2>5 DEF Links!RedeemedOnce, Links!Redeeming
  <2>6. CASE d # c /\ e # c
    BY <1>2, <2>3, <2>6 DEF Links!RedeemedOnce, Links!Redeeming
  <2> QED  BY <2>4, <2>5, <2>6
<1>8. (store = "do" => \A d, e \in LinkCalls : InCall(d) /\ InCall(e) => d = e)'
  BY <1>4
<1> QED
  BY <1>3, <1>5, <1>6, <1>7, <1>8 DEF LinkInv
-----------------------------------------------------------------------------

LEMMA LinkCallTyped ==
  ASSUME LinkInv, NEW c \in LinkCalls, InCall(c)
  PROVE  linkCalls[c] \in LinkCall /\ Keeps(linkCalls[c])
BY DEF LinkInv, LinkTyped, InCall

(* What an op says of the call.                                            *)
LEMMA LinkCallKinds ==
  ASSUME NEW k \in LinkCall
  PROVE  /\ k # Links!Idle
         /\ k.op = "change" => k.email \in Addrs
         /\ k.op = "ask" => k.purpose \in Links!Purposes /\ k.email \in Addrs \cup {0}
                             /\ k.pc \in {"delete", "insert"}
         /\ k.op = "enqueue" => k.req \in Nat
         /\ k.op = "redeemed" => k.purpose \in Links!Purposes /\ k.email \in Addrs \cup {0}
                                  /\ k.token \in Nat
                                  /\ k.pc \in {"read", "write", "clean", "record"}
BY DEF LinkCall, Links!Idle

LEMMA InCallByOp ==
  ASSUME NEW c, linkCalls[c].op \in {"change", "ask", "enqueue", "redeemed"}
  PROVE  InCall(c)
BY DEF InCall, Links!Idle

(* A statement that leaves the requests alone: the account's row and the   *)
(* token rows may change.                                                  *)
LEMMA LinkStatement ==
  ASSUME LinkInv, NEW c \in LinkCalls, Links!MayRun(c) \/ InCall(c),
         NEW k \in {Links!Idle} \cup LinkCall, linkCalls' = [linkCalls EXCEPT ![c] = k],
         UNCHANGED <<store, asks, runs, minted, mails>>, proved \subseteq proved',
         queue' \subseteq DOMAIN asks, link' \in LinkRow,
         Sound(toks)',
         store = "do" /\ link'.verified => link'.email \in proved',
         k # Links!Idle /\ store = "do" =>
           \/ InCall(c) /\ before' = before
           \/ before' = [row |-> link, toks |-> toks],
         k # Links!Idle => Keeps(k)',
         store = "d1" => \A t \in 1 .. minted : Spent(t) => Spent(t)',
         k # Links!Idle /\ k.op = "redeemed" =>
           \/ InCall(c) /\ linkCalls[c].op = "redeemed" /\ linkCalls[c].token = k.token
           \/ ~Spent(k.token)
  PROVE  LinkInv'
<1>1. store = "do" => \A d \in LinkCalls \ {c} : ~InCall(d)
  BY MayRunAlone DEF LinkInv
<1>2. AsksGrow  BY DEF AsksGrow
<1>3. /\ Numbered' /\ asks' \in [DOMAIN asks' -> Ask] /\ queue' \subseteq DOMAIN asks'
      /\ \A r \in DOMAIN asks' : asks'[r].purpose = "login" => asks'[r].email = Username
  BY DEF LinkInv, LinkTyped, Numbered, MaxAsks
<1>4. store = "do" => Proved(link)'
  BY DEF Proved
<1> QED
  BY <1>1, <1>2, <1>3, <1>4, LinkCallStep

(* Token rows that nobody touches, or only deletes or consumes.            *)
TokensShrink ==
  /\ toks' \in [Links!Requests -> {NoTok} \cup Tok]
  /\ \A r \in Links!Requests : toks'[r] # NoTok =>
       /\ toks[r] # NoTok /\ toks'[r].hash = toks[r].hash
       /\ toks'[r].sent => toks[r].sent
       /\ toks[r].consumed => toks'[r].consumed

LEMMA ShrinkKeeps ==
  ASSUME LinkInv, TokensShrink, UNCHANGED <<store, asks, runs, minted, mails>>
  PROVE  Sound(toks)' /\ \A t \in 1 .. minted : Spent(t) => Spent(t)'
<1> PICK U : U = toks' /\ U \in [Links!Requests -> {NoTok} \cup Tok]
  BY DEF TokensShrink
<1>1. Sound(U)
  BY SoundShrinks, AskedIsRequest DEF LinkInv, LinkTyped, TokensShrink, Links!Idle
<1>2. Sound(U)'
  BY <1>1, SoundStays DEF LinkInv, LinkTyped, AsksGrow
<1>3. Links!Requests' = Links!Requests  BY DEF Links!Requests
<1>4. \A t \in 1 .. minted : Spent(t) => Spent(t)'
  BY <1>3 DEF Spent, TokensShrink
<1> QED  BY <1>2, <1>4 DEF Sound

LEMMA SameTokens == LinkInv /\ UNCHANGED <<store, toks>> => TokensShrink
BY DEF LinkInv, Sound, TokensShrink

LEMMA WithoutShrinks ==
  ASSUME LinkInv, NEW rs, toks' = Links!Without(rs)
  PROVE  /\ TokensShrink
         /\ \A r \in Links!Requests : r \in rs => toks'[r] = NoTok
BY DEF LinkInv, Sound, TokensShrink, Links!Without
-----------------------------------------------------------------------------

LEMMA LinkFacts ==
  ASSUME LinkInv
  PROVE  /\ store \in {"do", "d1"} /\ link \in LinkRow /\ queue \subseteq DOMAIN asks
         /\ store = "do" /\ link.verified => link.email \in proved
         /\ asks \in [DOMAIN asks -> Ask] /\ minted \in Nat
         /\ Username \in Addrs /\ 0 \notin Addrs /\ 0 \notin LinkCalls
BY MCAuthAssumption DEF LinkInv, LinkTyped, Proved, Links!AuthLinksAssumption

LEMMA Opens ==
  ASSUME NEW c, NEW k, Links!Starts(c, k)
  PROVE  /\ Links!MayRun(c) /\ linkCalls[c] = Links!Idle
         /\ linkCalls' = [linkCalls EXCEPT ![c] = k]
         /\ store = "do" => before' = [row |-> link, toks |-> toks]
BY DEF Links!Starts, Links!Snapshot

LEMMA RequestKeeps ==
  ASSUME LinkInv, NEW c \in LinkCalls, Links!Request(c)
  PROVE  LinkInv'
<1>1. PICK purpose \in Links!Purposes, email \in Addrs \cup {0} :
        /\ Links!Asking(c, purpose, email)
        /\ purpose = "login" => email = Username
  BY LinkFacts DEF Links!Request, Links!requestEmailVerification, Links!requestPasswordReset,
    Links!requestMagicLink, Links!Purposes, LinkRow
<1> PICK k : k = [op |-> "ask", purpose |-> purpose, email |-> email, pc |-> "delete"]
  OBVIOUS
<1>2. /\ k \in LinkCall /\ k.op = "ask" /\ k.pc = "delete" /\ k.purpose = purpose
      /\ k.email = email
  BY DEF LinkCall
<1>3. /\ Links!MayRun(c) /\ linkCalls' = [linkCalls EXCEPT ![c] = k]
      /\ store = "do" => before' = [row |-> link, toks |-> toks]
  BY <1>1, Opens DEF Links!Asking
<1>4. UNCHANGED <<store, link, asks, toks, queue, runs, minted, mails, proved>>
  BY DEF Links!Request
<1>5. Keeps(k)'
  BY <1>1, <1>2 DEF Keeps
<1>6. Sound(toks)' /\ \A t \in 1 .. minted : Spent(t) => Spent(t)'
  BY <1>4, SameTokens, ShrinkKeeps
<1> QED
  BY <1>2, <1>3, <1>4, <1>5, <1>6, LinkFacts, LinkStatement

LEMMA ChangeEmailKeeps ==
  ASSUME LinkInv, NEW c \in LinkCalls, NEW a \in Addrs, Links!changeEmail(c, a)
  PROVE  LinkInv'
<1> PICK k : k = [op |-> "change", email |-> a, pc |-> "write"]
  OBVIOUS
<1>1. k \in LinkCall /\ k.op = "change"
  BY DEF LinkCall
<1>2. /\ Links!MayRun(c) /\ linkCalls' = [linkCalls EXCEPT ![c] = k]
      /\ link' = [link EXCEPT !.verified = FALSE]
      /\ store = "do" => before' = [row |-> link, toks |-> toks]
      /\ UNCHANGED <<store, asks, toks, queue, runs, minted, mails, proved>>
  BY Opens DEF Links!changeEmail
<1>3. link' \in LinkRow /\ ~link'.verified
  BY <1>2, LinkFacts DEF LinkRow
<1>4. Keeps(k)'
  BY <1>1, <1>3 DEF Keeps
<1>5. Sound(toks)' /\ \A t \in 1 .. minted : Spent(t) => Spent(t)'
  BY <1>2, SameTokens, ShrinkKeeps
<1> QED
  BY <1>1, <1>2, <1>3, <1>4, <1>5, LinkFacts, LinkStatement

(* The calls that end as they change the row.                              *)
LEMMA ChangeWritesKeeps ==
  ASSUME LinkInv, NEW c \in LinkCalls, Links!changeWrites(c)
  PROVE  LinkInv'
<1>1. /\ linkCalls[c].op = "change" /\ linkCalls' = [linkCalls EXCEPT ![c] = Links!Idle]
      /\ link' = [link EXCEPT !.email = linkCalls[c].email]
      /\ UNCHANGED <<store, asks, toks, queue, runs, minted, mails, proved>>
  BY DEF Links!changeWrites, Links!Ends
<1>2. InCall(c)  BY <1>1, InCallByOp
<1>3. linkCalls[c].email \in Addrs /\ (store = "do" => ~link.verified)
  BY <1>1, <1>2, LinkCallTyped, LinkCallKinds DEF Keeps
<1>4. link' \in LinkRow /\ (store = "do" => ~link'.verified)
  BY <1>1, <1>3, LinkFacts DEF LinkRow
<1>5. Sound(toks)' /\ \A t \in 1 .. minted : Spent(t) => Spent(t)'
  BY <1>1, SameTokens, ShrinkKeeps
<1> QED
  BY <1>1, <1>2, <1>4, <1>5, LinkFacts, LinkStatement

LEMMA EnqueuesKeeps ==
  ASSUME LinkInv, NEW c \in LinkCalls, Links!enqueues(c)
  PROVE  LinkInv'
<1>1. /\ linkCalls[c].op = "enqueue" /\ linkCalls' = [linkCalls EXCEPT ![c] = Links!Idle]
      /\ queue' = queue \cup {linkCalls[c].req}
      /\ UNCHANGED <<store, link, asks, toks, runs, minted, mails, proved>>
  BY DEF Links!enqueues, Links!Ends
<1>2. InCall(c)  BY <1>1, InCallByOp
<1>3. linkCalls[c].req \in DOMAIN asks
  BY <1>1, <1>2, LinkCallTyped DEF Keeps
<1>4. Sound(toks)' /\ \A t \in 1 .. minted : Spent(t) => Spent(t)'
  BY <1>1, SameTokens, ShrinkKeeps
<1> QED
  BY <1>1, <1>2, <1>3, <1>4, LinkFacts, LinkStatement

LEMMA CleansKeeps ==
  ASSUME LinkInv, NEW c \in LinkCalls, Links!cleans(c)
  PROVE  LinkInv'
<1>1. /\ linkCalls[c].op = "redeemed" /\ linkCalls' = [linkCalls EXCEPT ![c] = Links!Idle]
      /\ UNCHANGED <<store, link, asks, queue, runs, minted, mails, proved>>
  BY DEF Links!cleans, Links!Ends
<1>2. InCall(c)  BY <1>1, InCallByOp
<1>3. TokensShrink
  BY WithoutShrinks DEF Links!cleans
<1>4. Sound(toks)' /\ \A t \in 1 .. minted : Spent(t) => Spent(t)'
  BY <1>1, <1>3, ShrinkKeeps
<1> QED
  BY <1>1, <1>2, <1>4, LinkFacts, LinkStatement

LEMMA LoginRecordsKeeps ==
  ASSUME LinkInv, NEW c \in LinkCalls, Links!loginRecords(c)
  PROVE  LinkInv'
<1>1. /\ linkCalls[c].op = "redeemed" /\ linkCalls[c].purpose = "login"
      /\ linkCalls' = [linkCalls EXCEPT ![c] = Links!Idle]
      /\ link' = link \/ link' = [link EXCEPT !.email = Username, !.verified = TRUE]
      /\ UNCHANGED <<store, asks, toks, queue, runs, minted, mails, proved>>
  BY DEF Links!loginRecords, Links!Ends, Links!InRedemption
<1>2. InCall(c)  BY <1>1, InCallByOp
<1>3. Username \in proved
  BY <1>1, <1>2, LinkCallTyped DEF Keeps
<1>4. link' \in LinkRow /\ (store = "do" /\ link'.verified => link'.email \in proved)
  <2>1. CASE link' = link  BY <2>1, LinkFacts
  <2>2. CASE link' = [link EXCEPT !.email = Username, !.verified = TRUE]
    <3>1. link' = [email |-> Username, verified |-> TRUE, password |-> link.password]
      BY <2>2, LinkFacts DEF LinkRow
    <3> QED  BY <1>3, <3>1, LinkFacts DEF LinkRow
  <2> QED  BY <1>1, <2>1, <2>2
<1>5. Sound(toks)' /\ \A t \in 1 .. minted : Spent(t) => Spent(t)'
  BY <1>1, SameTokens, ShrinkKeeps
<1> QED
  BY <1>1, <1>2, <1>4, <1>5, LinkFacts, LinkStatement

(* The calls that go on.                                                   *)
LEMMA RevokesKeeps ==
  ASSUME LinkInv, NEW c \in LinkCalls, Links!revokes(c)
  PROVE  LinkInv'
<1>1. /\ linkCalls[c].op = "ask" /\ linkCalls[c].pc = "delete"
      /\ toks' = Links!Without(Links!Of(linkCalls[c].purpose))
      /\ before' = before
      /\ UNCHANGED <<store, link, asks, queue, runs, minted, mails, proved>>
  BY DEF Links!revokes, Links!superseded, Links!Goes
<1>2. InCall(c)  BY <1>1, InCallByOp
<1>3. linkCalls[c] \in LinkCall /\ Keeps(linkCalls[c])
  BY <1>2, LinkCallTyped
<1> PICK k : k = [linkCalls[c] EXCEPT !.pc = "insert"]
  OBVIOUS
<1>4. /\ k \in LinkCall /\ k.op = "ask" /\ k.purpose = linkCalls[c].purpose
      /\ k.email = linkCalls[c].email
  BY <1>1, <1>3 DEF LinkCall
<1>5. linkCalls' = [linkCalls EXCEPT ![c] = k]
  BY DEF Links!revokes, Links!Goes
<1>6. /\ TokensShrink
      /\ \A r \in Links!Requests : r \in Links!Of(k.purpose) => toks'[r] = NoTok
  BY <1>1, <1>4, WithoutShrinks
<1>7. Keeps(k)'
  <2>1. \A r \in DOMAIN asks : asks[r].purpose = k.purpose => toks'[r] = NoTok
    BY <1>6, AskedIsRequest DEF Links!Of, LinkInv
  <2>2. k.purpose = "login" => k.email = Username
    BY <1>1, <1>3, <1>4 DEF Keeps
  <2> QED  BY <1>1, <1>4, <2>1, <2>2 DEF Keeps
<1>8. Sound(toks)' /\ \A t \in 1 .. minted : Spent(t) => Spent(t)'
  BY <1>1, <1>6, ShrinkKeeps
<1> QED
  BY <1>1, <1>2, <1>4, <1>5, <1>7, <1>8, LinkFacts, LinkStatement
(* A redemption that reads, and one that verifies the address.             *)
LEMMA RedemptionGoesOn ==
  ASSUME LinkInv, NEW c \in LinkCalls, InCall(c), linkCalls[c].op = "redeemed",
         NEW pc \in {"read", "write", "clean", "record"},
         Links!Goes(c, [linkCalls[c] EXCEPT !.pc = pc]),
         UNCHANGED <<store, asks, toks, queue, runs, minted, mails, proved>>,
         link' \in LinkRow, link'.email = link.email,
         link'.verified => link.verified \/ link.email = linkCalls[c].email
  PROVE  LinkInv'
<1>1. linkCalls[c] \in LinkCall /\ Keeps(linkCalls[c])
  BY LinkCallTyped
<1> PICK k : k = [linkCalls[c] EXCEPT !.pc = pc]
  OBVIOUS
<1>2. /\ k \in LinkCall /\ k.op = "redeemed" /\ k.purpose = linkCalls[c].purpose
      /\ k.email = linkCalls[c].email /\ k.token = linkCalls[c].token
  BY <1>1 DEF LinkCall
<1>3. linkCalls' = [linkCalls EXCEPT ![c] = k] /\ before' = before
  BY DEF Links!Goes
<1>4. Sound(toks)' /\ \A t \in 1 .. minted : Spent(t) => Spent(t)'
  BY SameTokens, ShrinkKeeps
<1>5. Keeps(k)'
  BY <1>1, <1>2, <1>4 DEF Keeps
<1>6. store = "do" /\ link'.verified => link'.email \in proved'
  BY <1>1, LinkFacts DEF Keeps
<1> QED
  BY <1>2, <1>3, <1>4, <1>5, <1>6, LinkFacts, LinkStatement

LEMMA ReadsAndWritesKeep ==
  ASSUME LinkInv, NEW c \in LinkCalls,
         Links!resetReads(c) \/ Links!resetWrites(c) \/ Links!verifyEmail(c)
  PROVE  LinkInv'
<1>1. InCall(c) /\ linkCalls[c].op = "redeemed"
  BY InCallByOp DEF Links!resetReads, Links!resetWrites, Links!verifyEmail, Links!InRedemption
<1>2. UNCHANGED <<store, asks, toks, queue, runs, minted, mails, proved>>
  BY DEF Links!resetReads, Links!resetWrites, Links!verifyEmail
<1>3. CASE Links!resetReads(c)
  BY <1>1, <1>2, <1>3, LinkFacts, RedemptionGoesOn DEF Links!resetReads
<1>4. CASE Links!resetWrites(c)
  <2>1. link' = [email |-> link.email, verified |-> TRUE, password |-> TRUE]
        /\ link.email = linkCalls[c].email
    BY <1>4, LinkFacts DEF Links!resetWrites, Links!stillHeld, LinkRow
  <2>2. link' \in LinkRow /\ link'.email = link.email
    BY <2>1, LinkFacts DEF LinkRow
  <2> QED
    BY <1>1, <1>2, <1>4, <2>1, <2>2, RedemptionGoesOn DEF Links!resetWrites
<1>5. CASE Links!verifyEmail(c)
  <2>1. link' = [link EXCEPT !.verified = TRUE] /\ link.email = linkCalls[c].email
    BY <1>5 DEF Links!verifyEmail, Links!stillHeld
  <2>2. link' \in LinkRow /\ link'.email = link.email
    BY <2>1, LinkFacts DEF LinkRow
  <2> QED
    BY <1>1, <1>2, <1>5, <2>1, <2>2, RedemptionGoesOn DEF Links!verifyEmail
<1> QED  BY <1>3, <1>4, <1>5

(* A transaction that is undone, and a statement that stays.               *)
LEMMA UndoneKeeps ==
  ASSUME LinkInv, NEW c \in LinkCalls, InCall(c), Links!undone(c)
  PROVE  LinkInv'
<1>1. /\ linkCalls' = [linkCalls EXCEPT ![c] = Links!Idle]
      /\ UNCHANGED <<store, asks, queue, runs, minted, mails, proved>>
  BY DEF Links!undone, Links!Ends
<1>2. CASE store = "do"
  <2>1. link' = before.row /\ toks' = before.toks
    BY <1>2 DEF Links!undone
  <2>2. Sound(before.toks) /\ Proved(before.row)
    BY <1>2 DEF LinkInv
  <2> PICK T : T = before.toks
    OBVIOUS
  <2>3. Sound(T)'
    BY <1>1, <2>2, SoundStays DEF LinkInv, LinkTyped, AsksGrow
  <2>4. Sound(toks)'
    BY <2>1, <2>3 DEF Sound
  <2>5. link' \in LinkRow /\ (link'.verified => link'.email \in proved)
    BY <2>1, <2>2 DEF Proved
  <2> QED
    BY <1>1, <1>2, <2>4, <2>5, LinkFacts, LinkStatement
<1>3. CASE store = "d1"
  <2>1. link' = link /\ toks' = toks
    BY <1>3 DEF Links!undone
  <2>2. Sound(toks)' /\ \A t \in 1 .. minted : Spent(t) => Spent(t)'
    BY <1>1, <2>1, SameTokens, ShrinkKeeps
  <2> QED
    BY <1>1, <2>1, <2>2, LinkFacts, LinkStatement
<1> QED  BY <1>2, <1>3, LinkFacts

LEMMA DyingKeeps ==
  ASSUME LinkInv, NEW c \in LinkCalls, Links!Dies(c) \/ Links!refused(c)
  PROVE  LinkInv'
<1>1. InCall(c) /\ Links!undone(c)
  BY InCallByOp DEF Links!Dies, Links!refused, Links!InRedemption, InCall
<1> QED  BY <1>1, UndoneKeeps

LEMMA LoginReadsKeeps ==
  ASSUME LinkInv, NEW c \in LinkCalls, Links!loginReads(c)
  PROVE  LinkInv'
<1>1. InCall(c) /\ linkCalls[c].op = "redeemed"
  BY InCallByOp DEF Links!loginReads, Links!InRedemption
<1>2. CASE Links!adoptable
  BY <1>1, <1>2, LinkFacts, RedemptionGoesOn DEF Links!loginReads
<1>3. CASE ~Links!adoptable
  BY <1>1, <1>3, UndoneKeeps DEF Links!loginReads
<1> QED  BY <1>2, <1>3
(* A token is redeemed: a row nobody consumed, the only one with its hash. *)
LEMMA RedeemKeeps ==
  ASSUME LinkInv, NEW c \in LinkCalls, NEW m \in mails, Links!redeemEmailToken(c, m)
  PROVE  LinkInv'
<1> PICK r, t : r = m.req /\ t = m.token
  OBVIOUS
<1>1. /\ r \in DOMAIN asks /\ r \in Links!Requests /\ t \in 1 .. minted /\ t \in Nat /\ t # 0
      /\ toks[r] # NoTok /\ toks[r].hash = t /\ ~toks[r].consumed /\ toks[r] \in Tok
  BY AskedIsRequest DEF LinkInv, LinkTyped, Sound, Links!redeemEmailToken, Links!consumable,
    Links!Redeemable
<1> PICK k : k = [op |-> "redeemed", purpose |-> asks[r].purpose, email |-> asks[r].email,
                  token |-> t, pc |-> "read"]
  OBVIOUS
<1>2. /\ k \in LinkCall /\ k.op = "redeemed" /\ k.purpose = asks[r].purpose
      /\ k.email = asks[r].email /\ k.token = t
  BY <1>1, LinkFacts DEF LinkCall, Ask
<1>3. /\ Links!MayRun(c) /\ linkCalls' = [linkCalls EXCEPT ![c] = k]
      /\ store = "do" => before' = [row |-> link, toks |-> toks]
      /\ toks' = [toks EXCEPT ![r].consumed = TRUE]
      /\ proved' = proved \cup {k.email}
      /\ UNCHANGED <<store, link, asks, queue, runs, minted, mails>>
  BY <1>2, Opens DEF Links!redeemEmailToken
<1>4. /\ \A q \in Links!Requests \ {r} : toks'[q] = toks[q]
      /\ toks'[r] = [toks[r] EXCEPT !.consumed = TRUE]
      /\ DOMAIN toks' = Links!Requests /\ toks' = [q \in Links!Requests |-> toks'[q]]
  BY <1>1, <1>3 DEF LinkInv, Sound
<1>5. /\ toks'[r] \in Tok /\ toks'[r].hash = t /\ toks'[r].consumed
      /\ toks'[r].sent = toks[r].sent
  BY <1>1, <1>4 DEF Tok
<1>6. TokensShrink
  <2>1. \A q \in Links!Requests : toks'[q] \in {NoTok} \cup Tok
    BY <1>4, <1>5 DEF LinkInv, Sound
  <2> QED
    BY <1>1, <1>4, <1>5, <2>1 DEF TokensShrink
<1>7. Sound(toks)' /\ \A u \in 1 .. minted : Spent(u) => Spent(u)'
  BY <1>3, <1>6, ShrinkKeeps
<1>8. Spent(t)'
  <2> SUFFICES ASSUME NEW q \in Links!Requests, toks'[q] # NoTok, toks'[q].hash = t
               PROVE  toks'[q].consumed
    BY <1>3 DEF Spent, Links!Requests
  <2>1. CASE q = r  BY <1>5, <2>1
  <2>2. CASE q # r  BY <1>1, <1>4, <2>2 DEF LinkInv, Sound
  <2> QED  BY <2>1, <2>2
<1>9. Keeps(k)'
  <2>1. k.purpose = "login" => k.email = Username
    BY <1>1, <1>2 DEF LinkInv, LinkTyped
  <2> QED  BY <1>1, <1>2, <1>3, <1>8, <2>1 DEF Keeps
<1>10. ~Spent(t)  BY <1>1 DEF Spent
<1> QED
  BY <1>2, <1>3, <1>7, <1>9, <1>10, LinkFacts, LinkStatement

LEMMA InsertsKeeps ==
  ASSUME LinkInv, NEW c \in LinkCalls, Links!inserts(c)
  PROVE  LinkInv'
<1>1. linkCalls[c].op = "ask" /\ linkCalls[c].pc = "insert"
  BY DEF Links!inserts
<1>2. InCall(c)  BY <1>1, InCallByOp
<1>3. linkCalls[c] \in LinkCall /\ Keeps(linkCalls[c])
  BY <1>2, LinkCallTyped
<1>4. PICK n \in Nat : DOMAIN asks = 1 .. n /\ n <= MaxAsks /\ Links!Cardinality(DOMAIN asks) = n
  <2>1. MaxAsks \in Nat
    BY MCAuthAssumption, LinkFacts DEF MaxAsks, Links!AuthLinksAssumption
  <2>2. PICK n \in 0 .. MaxAsks : DOMAIN asks = 1 .. n
    BY DEF LinkInv, LinkTyped, Numbered
  <2>3. Cardinality(1 .. n) = n
    BY <2>1, FS_Interval
  <2>4. Links!Cardinality(1 .. n) = Cardinality(1 .. n)
    BY DEF Links!Cardinality, Cardinality
  <2> QED  BY <2>1, <2>2, <2>3, <2>4
<1> PICK r \in Nat : r = n + 1
  OBVIOUS
<1> PICK k : k = [op |-> "enqueue", req |-> r]
  OBVIOUS
<1> PICK ask : ask = [purpose |-> linkCalls[c].purpose, email |-> linkCalls[c].email]
  OBVIOUS
<1>5. /\ ask \in Ask /\ ask.purpose = linkCalls[c].purpose
      /\ ask.purpose = "login" => ask.email = Username
  BY <1>1, <1>3, LinkCallKinds DEF Ask, Keeps
<1>6. k \in LinkCall /\ k.op = "enqueue" /\ k.req = r
  BY DEF LinkCall
<1>7. /\ r <= MaxAsks /\ linkCalls' = [linkCalls EXCEPT ![c] = k] /\ before' = before
      /\ asks' = [q \in 1 .. r |-> IF q = r THEN ask ELSE asks[q]]
      /\ toks' = [toks EXCEPT ![r] = [hash |-> 0, sent |-> FALSE, consumed |-> FALSE]]
      /\ UNCHANGED <<store, link, queue, runs, minted, mails, proved>>
  <2>1. Links!Cardinality(DOMAIN asks) + 1 = r /\ n < MaxAsks
    BY <1>4 DEF Links!inserts, MaxAsks
  <2>2. MaxAsks \in Nat
    BY MCAuthAssumption, LinkFacts DEF MaxAsks, Links!AuthLinksAssumption
  <2>3. asks' = [q \in 1 .. r |-> IF q = r THEN [purpose |-> linkCalls[c].purpose,
                                                email |-> linkCalls[c].email]
                                  ELSE asks[q]]
    BY <2>1, Zenon DEF Links!inserts
  <2>4. asks' = [q \in 1 .. r |-> IF q = r THEN ask ELSE asks[q]]
    BY <2>3, Zenon
  <2>5. toks' = [toks EXCEPT ![r] = [hash |-> 0, sent |-> FALSE, consumed |-> FALSE]]
    BY <2>1, Zenon DEF Links!inserts, Links!Pending
  <2>6. /\ linkCalls' = [linkCalls EXCEPT ![c] = k] /\ before' = before
        /\ UNCHANGED <<store, link, queue, runs, minted, mails, proved>>
    BY <2>1 DEF Links!inserts, Links!Goes
  <2> QED  BY <2>1, <2>2, <2>4, <2>5, <2>6
<1>8. /\ AsksGrow /\ DOMAIN asks' = DOMAIN asks \cup {r} /\ r \notin DOMAIN asks
      /\ asks'[r] = ask /\ r \in Links!Requests /\ Links!Requests' = Links!Requests
  <2>1. MaxAsks \in Nat
    BY MCAuthAssumption, LinkFacts DEF MaxAsks, Links!AuthLinksAssumption
  <2> QED  BY <1>4, <1>7, <2>1 DEF AsksGrow, Links!Requests, MaxAsks
<1>9. /\ Numbered' /\ asks' \in [DOMAIN asks' -> Ask] /\ queue' \subseteq DOMAIN asks'
      /\ \A q \in DOMAIN asks' : asks'[q].purpose = "login" => asks'[q].email = Username
  <2>1. Numbered'
    BY <1>4, <1>7, <1>8 DEF Numbered, MaxAsks
  <2>2. asks' \in [DOMAIN asks' -> Ask]
    BY <1>5, <1>7, <1>8, LinkFacts
  <2> QED
    BY <1>5, <1>7, <1>8, <2>1, <2>2 DEF AsksGrow, LinkInv, LinkTyped
<1> PICK U : U = toks'
  OBVIOUS
<1>10. /\ U \in [Links!Requests -> {NoTok} \cup Tok] /\ U[r].hash = 0 /\ ~U[r].sent
       /\ \A q \in Links!Requests \ {r} : U[q] = toks[q]
  BY <1>7, <1>8 DEF LinkInv, Sound, Tok
<1>11. Sound(U)'
  <2>1. \A q \in Links!Requests : U[q] # NoTok =>
          /\ q \in DOMAIN asks'
          /\ U[q].hash <= minted
          /\ U[q].sent => Mail(q, U[q].hash) \in mails
    BY <1>8, <1>10, LinkFacts DEF LinkInv, Sound, AsksGrow
  <2>2. \A p, q \in Links!Requests :
          U[p] # NoTok /\ U[q] # NoTok /\ U[p].hash = U[q].hash /\ U[p].hash # 0 => p = q
    BY <1>10 DEF LinkInv, Sound
  <2>3. \A d \in Runners : runs[d].op \in {"send", "mark"} =>
          /\ runs[d].req \in DOMAIN asks /\ runs[d].req \in Links!Requests \ {r}
          /\ U[runs[d].req] = toks[runs[d].req]
    BY <1>8, <1>10, AskedIsRequest DEF LinkInv, LinkTyped, Links!Idle
  <2>4. \A d \in Runners : runs[d].op = "send" /\ U[runs[d].req] # NoTok =>
          U[runs[d].req].hash = runs[d].token
    BY <2>3 DEF LinkInv, Sound
  <2>5. \A d \in Runners : runs[d].op = "mark" /\ U[runs[d].req] # NoTok =>
          Mail(runs[d].req, U[runs[d].req].hash) \in mails
    BY <2>3 DEF LinkInv, Sound
  <2>6. store = "do" => \A p, q \in Links!Requests :
          U[p] # NoTok /\ U[q] # NoTok /\ asks'[p].purpose = asks'[q].purpose => p = q
    <3> SUFFICES ASSUME store = "do", NEW p \in Links!Requests, NEW q \in Links!Requests,
                        U[p] # NoTok, U[q] # NoTok, asks'[p].purpose = asks'[q].purpose
                 PROVE  p = q
      OBVIOUS
    <3>1. \A x \in DOMAIN asks : asks[x].purpose = ask.purpose => toks[x] = NoTok
      BY <1>1, <1>3, <1>5 DEF Keeps
    <3>2. p \in DOMAIN asks' /\ q \in DOMAIN asks'
      BY <2>1
    <3>3. CASE p = r /\ q # r
      BY <1>8, <1>10, <3>1, <3>2, <3>3 DEF AsksGrow
    <3>4. CASE p # r /\ q = r
      BY <1>8, <1>10, <3>1, <3>2, <3>4 DEF AsksGrow
    <3>5. CASE p # r /\ q # r
      BY <1>8, <1>10, <3>2, <3>5 DEF AsksGrow, LinkInv, Sound
    <3> QED  BY <3>3, <3>4, <3>5
  <2>7. (U \in [Links!Requests -> {NoTok} \cup Tok])' /\ Links!Requests' = Links!Requests
        /\ UNCHANGED <<store, runs, minted, mails>>
    BY <1>7, <1>8, <1>10
  <2> QED
    BY <2>1, <2>2, <2>4, <2>5, <2>6, <2>7 DEF Sound, Mail
<1>12. Sound(toks)'
  BY <1>11 DEF Sound
<1>13. \A t \in 1 .. minted : Spent(t) => Spent(t)'
  BY <1>8, <1>10 DEF Spent
<1>14. Keeps(k)'
  BY <1>6, <1>8 DEF Keeps
<1>15. store = "do" => \A d \in LinkCalls \ {c} : ~InCall(d)
  BY <1>2 DEF LinkInv
<1>16. store = "do" => Proved(link)'
  BY <1>7 DEF LinkInv, Proved
<1> QED
  BY <1>2, <1>6, <1>7, <1>8, <1>9, <1>12, <1>13, <1>14, <1>15, <1>16, LinkFacts, LinkCallStep
-----------------------------------------------------------------------------
(* The send task.                                                          *)

LEMMA TaskStep ==
  ASSUME LinkInv, UNCHANGED <<store, link, asks, linkCalls, before, proved>>,
         NEW d \in Runners, NEW k \in {Links!Idle} \cup Run, runs' = [runs EXCEPT ![d] = k],
         k # Links!Idle => k.req \in DOMAIN asks,
         k.op = "send" => k.token \in 1 .. minted',
         queue' \subseteq queue, minted' \in Nat, minted <= minted',
         mails' \subseteq [req : Nat, token : Nat],
         \A m \in mails' : m.req \in DOMAIN asks /\ m.token \in 1 .. minted',
         Sound(toks)',
         \A t \in 1 .. minted : Spent(t) => Spent(t)',
         Links!MayRun(0) \/ (UNCHANGED <<toks, minted, mails>> /\ k = Links!Idle)
  PROVE  LinkInv'
<1>1. LinkTyped'
  <2>1. \A e \in Runners : runs'[e] = IF e = d THEN k ELSE runs[e]
    BY DEF LinkInv, LinkTyped
  <2>2. /\ runs' \in [Runners -> {Links!Idle} \cup Run]
        /\ \A e \in Runners : runs'[e] # Links!Idle => runs'[e].req \in DOMAIN asks
        /\ \A e \in Runners : runs'[e].op = "send" => runs'[e].token \in 1 .. minted'
    BY <2>1 DEF LinkInv, LinkTyped
  <2>3. Numbered'
    BY DEF LinkInv, LinkTyped, Numbered, MaxAsks
  <2> QED  BY <2>2, <2>3 DEF LinkInv, LinkTyped
<1>2. store = "do" /\ Links!MayRun(0) => \A c \in LinkCalls : ~InCall(c)
  BY MayRunAlone, LinkFacts
<1>3. \A c \in LinkCalls : InCall(c)' <=> InCall(c)
  BY DEF InCall
<1>4. (store = "do" /\ (\E c \in LinkCalls : InCall(c)) =>
        /\ before = [row |-> before.row, toks |-> before.toks]
        /\ Sound(before.toks) /\ Proved(before.row))'
  <2> SUFFICES ASSUME store = "do", NEW c \in LinkCalls, InCall(c)
               PROVE  (/\ before = [row |-> before.row, toks |-> before.toks]
                       /\ Sound(before.toks) /\ Proved(before.row))'
    BY <1>3
  <2>1. k = Links!Idle /\ UNCHANGED <<toks, minted, mails>>
    BY <1>2
  <2>2. /\ before = [row |-> before.row, toks |-> before.toks]
        /\ Sound(before.toks) /\ Proved(before.row)
    BY DEF LinkInv
  <2>3. \A e \in Runners : runs'[e].op \in {"send", "mark"} => runs'[e] = runs[e]
    BY <2>1 DEF LinkInv, LinkTyped, Links!Idle
  <2>4. Links!Requests' = Links!Requests  BY DEF Links!Requests
  <2>5. Sound(before.toks)'
    BY <2>1, <2>2, <2>3, <2>4 DEF Sound, Mail
  <2> QED  BY <2>2, <2>5 DEF Proved
<1>5. \A c \in LinkCalls : (InCall(c) => Keeps(linkCalls[c]))'
  <2> SUFFICES ASSUME NEW c \in LinkCalls, InCall(c)
               PROVE  Keeps(linkCalls[c])'
    BY <1>3
  <2>1. Keeps(linkCalls[c])  BY DEF LinkInv
  <2> PICK h : h = linkCalls[c] /\ h = linkCalls'[c]
    OBVIOUS
  <2>2. h.op = "redeemed" => h.token \in 1 .. minted /\ Spent(h.token)
    BY <2>1 DEF Keeps
  <2>3. h.op = "redeemed" => h.token \in 1 .. minted' /\ Spent(h.token)'
    BY <2>2, LinkFacts
  <2>4. store = "do" => toks' = toks
    BY <1>2
  <2>5. Keeps(h)'
    BY <2>1, <2>3, <2>4 DEF Keeps
  <2> QED  BY <2>5 DEF Keeps, Spent, Links!Requests
<1>6. Links!RedeemedOnce'
  BY DEF LinkInv, Links!RedeemedOnce, Links!Redeeming
<1>7. (store = "do" => Proved(link)) /\
      (store = "do" => \A c, e \in LinkCalls : InCall(c) /\ InCall(e) => c = e)
  BY DEF LinkInv
<1>8. (store = "do" => Proved(link))' /\
      (store = "do" => \A c, e \in LinkCalls : InCall(c) /\ InCall(e) => c = e)'
  BY <1>3, <1>7 DEF Proved
<1> QED
  BY <1>1, <1>4, <1>5, <1>6, <1>8 DEF LinkInv

(* A runner that settles, or only looks.                                   *)
LEMMA QuietTaskStep ==
  ASSUME LinkInv, UNCHANGED <<store, link, asks, linkCalls, before, proved, minted, mails>>,
         NEW d \in Runners, NEW k \in {Links!Idle} \cup Run, runs' = [runs EXCEPT ![d] = k],
         k # Links!Idle => k.req \in DOMAIN asks, k.op \notin {"send", "mark"},
         queue' \subseteq queue, TokensShrink,
         Links!MayRun(0) \/ (UNCHANGED toks /\ k = Links!Idle)
  PROVE  LinkInv'
<1> PICK U : U = toks' /\ U \in [Links!Requests -> {NoTok} \cup Tok]
  BY DEF TokensShrink
<1>1. Sound(U)
  BY SoundShrinks, AskedIsRequest DEF LinkInv, LinkTyped, TokensShrink, Links!Idle
<1>2. Links!Requests' = Links!Requests  BY DEF Links!Requests
<1>3. \A e \in Runners : runs'[e].op \in {"send", "mark"} => runs'[e] = runs[e]
  BY DEF LinkInv, LinkTyped
<1>4. Sound(U)'
  BY <1>1, <1>2, <1>3 DEF Sound, Mail
<1>5. Sound(toks)'
  BY <1>4 DEF Sound
<1>6. \A t \in 1 .. minted : Spent(t) => Spent(t)'
  BY <1>2 DEF Spent, TokensShrink
<1>7. /\ minted' \in Nat /\ minted <= minted' /\ mails' \subseteq [req : Nat, token : Nat]
      /\ \A m \in mails' : m.req \in DOMAIN asks /\ m.token \in 1 .. minted'
  BY DEF LinkInv, LinkTyped
<1> QED
  BY <1>5, <1>6, <1>7, TaskStep

LEMMA RunFacts ==
  ASSUME LinkInv, NEW d \in Runners
  PROVE  /\ runs[d] # Links!Idle => /\ runs[d] \in Run
                                    /\ runs[d].req \in DOMAIN asks
                                    /\ runs[d].req \in Nat /\ runs[d].req \in Links!Requests
         /\ runs[d].op = "send" => runs[d].token \in 1 .. minted
         /\ runs \in [Runners -> {Links!Idle} \cup Run]
         /\ queue \subseteq Nat
BY AskedIsRequest DEF LinkInv, LinkTyped

LEMMA IdleOrRun ==
  ASSUME NEW r \in Nat
  PROVE  /\ Links!Idle.op \notin {"send", "mark"}
         /\ [op |-> "select", req |-> r] \in Run /\ [op |-> "settle", req |-> r] \in Run
         /\ [op |-> "mark", req |-> r] \in Run
         /\ \A h \in Nat : [op |-> "mint", req |-> r, seen |-> h] \in Run
         /\ \A t \in Nat : [op |-> "send", req |-> r, token |-> t] \in Run
BY DEF Links!Idle, Run

LEMMA SettlingKeeps ==
  ASSUME LinkInv, NEW d \in Runners,
         Links!settles(d) \/ Links!taskFails(d)
  PROVE  LinkInv'
<1>1. /\ runs' = [runs EXCEPT ![d] = Links!Idle] /\ queue' \subseteq queue
      /\ UNCHANGED <<store, link, asks, toks, minted, mails, linkCalls, before, proved>>
  BY DEF Links!settles, Links!taskFails, Links!Settles, Links!Runs
<1>2. TokensShrink  BY <1>1, SameTokens
<1>3. Links!Idle.op \notin {"send", "mark"}  BY DEF Links!Idle
<1> QED  BY <1>1, <1>2, <1>3, QuietTaskStep

LEMMA TaskStartsKeeps ==
  ASSUME LinkInv, NEW d \in Runners, NEW r \in DOMAIN asks, Links!taskStarts(d, r)
  PROVE  LinkInv'
<1>1. /\ Links!MayRun(0) /\ runs[d] = Links!Idle /\ r \in Nat
      /\ UNCHANGED <<store, link, asks, minted, mails, linkCalls, before, proved>>
  BY AskedIsRequest DEF Links!taskStarts, LinkInv
<1>2. CASE Links!wanted(r)
  <2> PICK k : k = [op |-> "select", req |-> r]
    OBVIOUS
  <2>1. /\ runs' = [runs EXCEPT ![d] = k] /\ UNCHANGED <<toks, queue>>
    BY <1>2 DEF Links!taskStarts, Links!Runs
  <2>2. k \in Run /\ k.req = r /\ k.op = "select"
    BY <1>1 DEF Run
  <2>3. TokensShrink  BY <1>1, <2>1, SameTokens
  <2> QED  BY <1>1, <2>1, <2>2, <2>3, QuietTaskStep
<1>3. CASE ~Links!wanted(r)
  <2>1. queue' \subseteq queue /\ toks' = Links!Without({r}) /\ runs' = runs
    BY <1>3 DEF Links!taskStarts
  <2>2. TokensShrink  BY <2>1, WithoutShrinks
  <2>3. runs' = [runs EXCEPT ![d] = Links!Idle]
    BY <1>1, <2>1, RunFacts
  <2>4. Links!Idle.op \notin {"send", "mark"}  BY DEF Links!Idle
  <2> QED  BY <1>1, <2>1, <2>2, <2>3, <2>4, QuietTaskStep
<1> QED  BY <1>2, <1>3

LEMMA MintReadsKeeps ==
  ASSUME LinkInv, NEW d \in Runners, Links!mintReads(d)
  PROVE  LinkInv'
<1>1. /\ Links!MayRun(0) /\ runs[d] # Links!Idle
      /\ UNCHANGED <<store, link, asks, toks, minted, mails, linkCalls, before, proved>>
  BY DEF Links!mintReads, Links!At
<1>2. TokensShrink  BY <1>1, SameTokens
<1> PICK t : t = toks[runs[d].req]
  OBVIOUS
<1>3. t \in {NoTok} \cup Tok
  BY <1>1, RunFacts DEF LinkInv, Sound
<1>4. CASE t = NoTok \/ t.sent
  <2>1. runs' = [runs EXCEPT ![d] = Links!Idle] /\ queue' \subseteq queue
    BY <1>4 DEF Links!mintReads, Links!Settles, Links!Runs
  <2>2. Links!Idle.op \notin {"send", "mark"}  BY DEF Links!Idle
  <2> QED  BY <1>1, <1>2, <2>1, <2>2, QuietTaskStep
<1>5. CASE ~(t = NoTok \/ t.sent)
  <2> PICK k : k = [op |-> "mint", req |-> runs[d].req, seen |-> t.hash]
    OBVIOUS
  <2>1. runs' = [runs EXCEPT ![d] = k] /\ queue' = queue
    BY <1>5 DEF Links!mintReads, Links!Runs
  <2>2. t.hash \in Nat  BY <1>3, <1>5 DEF Tok
  <2>3. k \in Run /\ k.req \in DOMAIN asks /\ k.op = "mint"
    BY <1>1, <2>2, RunFacts DEF Run
  <2> QED  BY <1>1, <1>2, <2>1, <2>3, QuietTaskStep
<1> QED  BY <1>4, <1>5

OneRunner == \A d, e \in Runners : d = e

(* The row of r takes a hash that no row, mail or call had.                *)
LEMMA ClaimedIsSound ==
  ASSUME LinkInv, NEW r \in DOMAIN asks, minted' = minted + 1,
         \A e \in Runners : runs'[e].op = "send" /\ runs'[e].req = r /\ runs'[e].token = minted',
         UNCHANGED <<store, asks, mails>>,
         toks' \in [Links!Requests -> {NoTok} \cup Tok],
         \A q \in Links!Requests \ {r} : toks'[q] = toks[q],
         toks[r] # NoTok, toks'[r].hash = minted', ~toks'[r].sent,
         toks'[r].consumed = toks[r].consumed
  PROVE  Sound(toks)' /\ \A v \in 1 .. minted : Spent(v) => Spent(v)'
<1> PICK t \in Nat : t = minted + 1
  BY LinkFacts
<1> PICK U \in [Links!Requests -> {NoTok} \cup Tok] : U = toks'
  OBVIOUS
<1>1. /\ minted \in Nat /\ r \in Links!Requests /\ Links!Requests' = Links!Requests
      /\ minted < t
  BY LinkFacts, AskedIsRequest DEF LinkInv, Links!Requests
<1>2. \A q \in Links!Requests : toks[q] # NoTok =>
        toks[q].hash \in Nat /\ toks[q].hash <= minted /\ toks[q].hash # t
  BY <1>1 DEF LinkInv, Sound, Tok
<1>3. \A q \in Links!Requests : U[q] # NoTok =>
        /\ q \in DOMAIN asks
        /\ U[q].hash <= t
        /\ U[q].sent => Mail(q, U[q].hash) \in mails
  <2> SUFFICES ASSUME NEW q \in Links!Requests, U[q] # NoTok
               PROVE  /\ q \in DOMAIN asks
                      /\ U[q].hash <= t
                      /\ U[q].sent => Mail(q, U[q].hash) \in mails
    OBVIOUS
  <2>1. CASE q = r  BY <2>1
  <2>2. CASE q # r
    <3>1. U[q] = toks[q] /\ toks[q].hash <= t  BY <1>1, <1>2, <2>2
    <3> QED  BY <3>1 DEF LinkInv, Sound
  <2> QED  BY <2>1, <2>2
<1>4. \A p, q \in Links!Requests :
        U[p] # NoTok /\ U[q] # NoTok /\ U[p].hash = U[q].hash /\ U[p].hash # 0 => p = q
  <2> SUFFICES ASSUME NEW p \in Links!Requests, NEW q \in Links!Requests, p # q,
                      U[p] # NoTok, U[q] # NoTok, U[p].hash = U[q].hash
               PROVE  U[p].hash = 0
    OBVIOUS
  <2>1. p # r /\ q # r  BY <1>2
  <2>2. U[p] = toks[p] /\ U[q] = toks[q]  BY <2>1
  <2> QED  BY <2>2 DEF LinkInv, Sound
<1>5. \A e \in Runners : runs'[e].op = "send" /\ runs'[e].req = r /\ runs'[e].token = t
  OBVIOUS
<1>6. store = "do" => \A p, q \in Links!Requests :
        U[p] # NoTok /\ U[q] # NoTok /\ asks[p].purpose = asks[q].purpose => p = q
  <2>1. \A q \in Links!Requests : U[q] # NoTok => toks[q] # NoTok
    OBVIOUS
  <2> QED  BY <2>1 DEF LinkInv, Sound
<1>7. (U \in [Links!Requests -> {NoTok} \cup Tok])'
  BY <1>1
<1>8. Sound(U)'
  BY <1>1, <1>3, <1>4, <1>5, <1>6, <1>7 DEF Sound, Mail
<1>9. \A u \in 1 .. minted : Spent(u) => \A q \in Links!Requests :
        U[q] # NoTok /\ U[q].hash = u => U[q].consumed
  <2> SUFFICES ASSUME NEW u \in 1 .. minted, Spent(u), NEW q \in Links!Requests,
                      U[q] # NoTok, U[q].hash = u
               PROVE  U[q].consumed
    OBVIOUS
  <2>1. q # r  BY <1>1
  <2> QED  BY <2>1 DEF Spent
<1>10. Sound(toks)'
  BY <1>8 DEF Sound
<1> QED  BY <1>1, <1>9, <1>10 DEF Spent

(* A token of its own: no row has it, no mail, no call.                    *)
LEMMA MintsKeeps ==
  ASSUME LinkInv, OneRunner, NEW d \in Runners, Links!mints(d)
  PROVE  LinkInv'
<1>1. /\ Links!MayRun(0) /\ runs[d] # Links!Idle
      /\ UNCHANGED <<store, link, asks, mails, linkCalls, before, proved>>
  BY DEF Links!mints, Links!At
<1> PICK r : r = runs[d].req
  OBVIOUS
<1>2. r \in DOMAIN asks /\ r \in Nat /\ r \in Links!Requests
  BY <1>1, RunFacts
<1>3. CASE ~Links!claimable(r, runs[d].seen)
  <2>1. runs' = [runs EXCEPT ![d] = Links!Idle] /\ queue' \subseteq queue /\ UNCHANGED <<minted, toks>>
    BY <1>3 DEF Links!mints, Links!Settles, Links!Runs
  <2>2. TokensShrink  BY <1>1, <2>1, SameTokens
  <2>3. Links!Idle.op \notin {"send", "mark"}  BY DEF Links!Idle
  <2> QED  BY <1>1, <2>1, <2>2, <2>3, QuietTaskStep
<1>4. CASE Links!claimable(r, runs[d].seen)
  <2> PICK t \in Nat : t = minted + 1
    BY LinkFacts
  <2> PICK k : k = [op |-> "send", req |-> r, token |-> t]
    OBVIOUS
  <2>1. /\ minted' = t /\ toks' = [toks EXCEPT ![r].hash = t] /\ queue' = queue
        /\ runs' = [runs EXCEPT ![d] = k] /\ toks[r] # NoTok /\ ~toks[r].sent
    BY <1>4 DEF Links!mints, Links!claimed, Links!claimable, Links!Runs
  <2>2. k \in Run /\ k.op = "send" /\ k.req = r /\ k.token = t
    BY <1>2 DEF Run
  <2>3. toks \in [Links!Requests -> {NoTok} \cup Tok] /\ toks[r] \in Tok
    BY <1>2, <2>1 DEF LinkInv, Sound
  <2>4. PICK u : u = [toks[r] EXCEPT !.hash = t]
    OBVIOUS
  <2>5. u \in Tok /\ u.hash = t /\ ~u.sent /\ u.consumed = toks[r].consumed
    BY <2>1, <2>3, <2>4 DEF Tok
  <2>6. toks' = [toks EXCEPT ![r] = u]
    BY <2>1, <2>4
  <2>7. /\ toks' \in [Links!Requests -> {NoTok} \cup Tok] /\ toks'[r] = u
        /\ \A q \in Links!Requests \ {r} : toks'[q] = toks[q]
    BY <1>2, <2>3, <2>5, <2>6
  <2>8. /\ toks'[r].hash = minted' /\ ~toks'[r].sent /\ toks'[r].consumed = toks[r].consumed
        /\ toks[r] # NoTok /\ minted' = minted + 1 /\ UNCHANGED <<store, asks, mails>>
    BY <1>1, <2>1, <2>5, <2>7
  <2>9. \A e \in Runners : runs'[e].op = "send" /\ runs'[e].req = r /\ runs'[e].token = minted'
    BY <2>1, <2>2, RunFacts DEF OneRunner
  <2>10. Sound(toks)' /\ \A v \in 1 .. minted : Spent(v) => Spent(v)'
    BY <1>2, <2>7, <2>8, <2>9, ClaimedIsSound
  <2>12. minted \in Nat /\ minted <= minted'
    BY <2>1, LinkFacts
  <2>13. /\ mails' \subseteq [req : Nat, token : Nat]
         /\ \A m \in mails' : m.req \in DOMAIN asks /\ m.token \in 1 .. minted'
    <3>1. /\ mails \subseteq [req : Nat, token : Nat]
          /\ \A m \in mails : m.req \in DOMAIN asks /\ m.token \in 1 .. minted
      BY DEF LinkInv, LinkTyped
    <3>2. 1 .. minted \subseteq 1 .. minted'
      BY <2>1, <2>12
    <3> QED  BY <1>1, <3>1, <3>2
  <2>14. k.token \in 1 .. minted'
    BY <2>1, <2>2, LinkFacts
  <2> QED
    BY <1>1, <1>2, <2>1, <2>2, <2>10, <2>12, <2>13, <2>14, TaskStep
<1> QED  BY <1>3, <1>4

LEMMA SendsKeeps ==
  ASSUME LinkInv, OneRunner, NEW d \in Runners, Links!sends(d)
  PROVE  LinkInv'
<1> PICK r, t : r = runs[d].req /\ t = runs[d].token
  OBVIOUS
<1> PICK k : k = [op |-> "mark", req |-> r]
  OBVIOUS
<1>1. /\ Links!MayRun(0) /\ runs[d] # Links!Idle /\ runs[d].op = "send"
      /\ mails' = mails \cup {Mail(r, t)} /\ runs' = [runs EXCEPT ![d] = k]
      /\ UNCHANGED <<store, link, asks, toks, queue, minted, linkCalls, before, proved>>
  BY DEF Links!sends, Links!At, Links!Runs, Mail
<1>2. /\ r \in DOMAIN asks /\ r \in Nat /\ r \in Links!Requests /\ t \in 1 .. minted /\ t \in Nat
      /\ minted \in Nat
  BY <1>1, RunFacts, LinkFacts
<1>3. k \in Run /\ k.req = r /\ k.op = "mark"
  BY <1>2 DEF Run
<1>4. \A e \in Runners : runs'[e] = k
  BY <1>1, RunFacts DEF OneRunner
<1>5. toks[r] # NoTok => toks[r].hash = t
  BY <1>1 DEF LinkInv, Sound
<1> PICK U : U = toks
  OBVIOUS
<1>6. Sound(U)'
  <2>1. Links!Requests' = Links!Requests /\ mails \subseteq mails'
        /\ Mail(r, t) \in mails' /\ UNCHANGED <<store, asks, minted>>
    BY <1>1 DEF Links!Requests
  <2>2. Sound(U)  BY DEF LinkInv
  <2>3. \A q \in Links!Requests : U[q] # NoTok =>
          /\ q \in DOMAIN asks
          /\ U[q].hash <= minted
          /\ U[q].sent => Mail(q, U[q].hash) \in mails'
    BY <2>1, <2>2 DEF Sound
  <2>4. \A e \in Runners : /\ runs'[e].op # "send"
                           /\ runs'[e].op = "mark" /\ U[runs'[e].req] # NoTok =>
                                Mail(runs'[e].req, U[runs'[e].req].hash) \in mails'
    BY <1>3, <1>4, <1>5, <2>1
  <2> QED
    BY <2>1, <2>2, <2>3, <2>4 DEF Sound, Mail
<1>7. Sound(toks)'
  BY <1>1, <1>6 DEF Sound
<1>8. \A v \in 1 .. minted : Spent(v) => Spent(v)'
  BY <1>1 DEF Spent, Links!Requests
<1>9. /\ mails' \subseteq [req : Nat, token : Nat]
      /\ \A m \in mails' : m.req \in DOMAIN asks /\ m.token \in 1 .. minted'
  <2>1. Mail(r, t) \in [req : Nat, token : Nat] /\ Mail(r, t).req = r /\ Mail(r, t).token = t
    BY <1>2 DEF Mail
  <2> QED  BY <1>1, <1>2, <2>1 DEF LinkInv, LinkTyped
<1>10. /\ UNCHANGED <<store, link, asks, linkCalls, before, proved>>
       /\ runs' = [runs EXCEPT ![d] = k]
       /\ k \in {Links!Idle} \cup Run
       /\ k # Links!Idle => k.req \in DOMAIN asks
       /\ k.op = "send" => k.token \in 1 .. minted'
       /\ queue' \subseteq queue /\ minted' \in Nat /\ minted <= minted'
       /\ Links!MayRun(0)
  BY <1>1, <1>2, <1>3
<1> QED
  BY <1>7, <1>8, <1>9, <1>10, TaskStep

LEMMA MarkSentKeeps ==
  ASSUME LinkInv, OneRunner, NEW d \in Runners, Links!markSent(d)
  PROVE  LinkInv'
<1> PICK r : r = runs[d].req
  OBVIOUS
<1> PICK k : k = [op |-> "settle", req |-> r]
  OBVIOUS
<1>1. /\ Links!MayRun(0) /\ runs[d] # Links!Idle /\ runs[d].op = "mark"
      /\ runs' = [runs EXCEPT ![d] = k]
      /\ UNCHANGED <<store, link, asks, queue, minted, mails, linkCalls, before, proved>>
  BY DEF Links!markSent, Links!At, Links!Runs
<1>2. r \in DOMAIN asks /\ r \in Nat /\ r \in Links!Requests /\ minted \in Nat
  BY <1>1, RunFacts, LinkFacts
<1>3. k \in Run /\ k.req = r /\ k.op = "settle"
  BY <1>2 DEF Run
<1>4. \A e \in Runners : runs'[e] = k
  BY <1>1, RunFacts DEF OneRunner
<1>5. toks[r] # NoTok => Mail(r, toks[r].hash) \in mails
  BY <1>1 DEF LinkInv, Sound
<1>6. toks \in [Links!Requests -> {NoTok} \cup Tok]
  BY DEF LinkInv, Sound
<1>7. /\ toks' \in [Links!Requests -> {NoTok} \cup Tok]
      /\ \A q \in Links!Requests \ {r} : toks'[q] = toks[q]
      /\ toks[r] = NoTok => toks'[r] = NoTok
      /\ toks[r] # NoTok => toks'[r].hash = toks[r].hash /\ toks'[r].consumed = toks[r].consumed
  <2>1. CASE toks[r] = NoTok
    BY <1>6, <2>1 DEF Links!markSent
  <2>2. CASE toks[r] # NoTok
    <3>1. toks' = [toks EXCEPT ![r].sent = TRUE]
      BY <2>2 DEF Links!markSent
    <3>2. toks[r] \in Tok  BY <1>2, <1>6, <2>2
    <3>3. toks'[r] = [hash |-> toks[r].hash, sent |-> TRUE, consumed |-> toks[r].consumed]
      BY <1>2, <1>6, <3>1, <3>2 DEF Tok
    <3>4. toks'[r] \in Tok /\ toks'[r].hash = toks[r].hash /\ toks'[r].consumed = toks[r].consumed
      BY <3>2, <3>3 DEF Tok
    <3>5. toks' = [toks EXCEPT ![r] = [toks[r] EXCEPT !.sent = TRUE]]
      BY <3>1
    <3>6. \A q \in Links!Requests \ {r} : toks'[q] = toks[q]
      BY <1>6, <3>5
    <3>7. DOMAIN toks' = Links!Requests /\ toks' = [q \in Links!Requests |-> toks'[q]]
      BY <1>6, <3>5
    <3>8. \A q \in Links!Requests : toks'[q] \in {NoTok} \cup Tok
      BY <1>6, <3>4, <3>6
    <3> QED  BY <2>2, <3>4, <3>6, <3>7, <3>8
  <2> QED  BY <2>1, <2>2
<1> PICK U : U = toks'
  OBVIOUS
<1>8. Sound(U)'
  <2>1. Links!Requests' = Links!Requests /\ UNCHANGED <<store, asks, minted, mails>>
    BY <1>1 DEF Links!Requests
  <2>2. Sound(toks)  BY DEF LinkInv
  <2>3. \A q \in Links!Requests : U[q] # NoTok => toks[q] # NoTok /\ U[q].hash = toks[q].hash
    BY <1>7
  <2>4. \A q \in Links!Requests : U[q] # NoTok =>
          /\ q \in DOMAIN asks
          /\ U[q].hash <= minted
          /\ U[q].sent => Mail(q, U[q].hash) \in mails
    BY <1>5, <1>7, <2>2, <2>3 DEF Sound
  <2>5. \A p, q \in Links!Requests :
          U[p] # NoTok /\ U[q] # NoTok /\ U[p].hash = U[q].hash /\ U[p].hash # 0 => p = q
    BY <2>2, <2>3 DEF Sound
  <2>6. \A e \in Runners : runs'[e].op \notin {"send", "mark"}
    BY <1>3, <1>4
  <2>7. store = "do" => \A p, q \in Links!Requests :
          U[p] # NoTok /\ U[q] # NoTok /\ asks[p].purpose = asks[q].purpose => p = q
    BY <2>2, <2>3 DEF Sound
  <2>8. (U \in [Links!Requests -> {NoTok} \cup Tok])'
    BY <1>7, <2>1
  <2> QED
    BY <2>1, <2>4, <2>5, <2>6, <2>7, <2>8 DEF Sound, Mail
<1>9. Sound(toks)'
  BY <1>8 DEF Sound
<1>10. \A v \in 1 .. minted : Spent(v) => Spent(v)'
  BY <1>1, <1>7 DEF Spent, Links!Requests
<1>11. /\ mails' \subseteq [req : Nat, token : Nat]
       /\ \A m \in mails' : m.req \in DOMAIN asks /\ m.token \in 1 .. minted'
  BY <1>1 DEF LinkInv, LinkTyped
<1>12. /\ UNCHANGED <<store, link, asks, linkCalls, before, proved>>
       /\ runs' = [runs EXCEPT ![d] = k]
       /\ k \in {Links!Idle} \cup Run
       /\ k # Links!Idle => k.req \in DOMAIN asks
       /\ k.op = "send" => k.token \in 1 .. minted'
       /\ queue' \subseteq queue /\ minted' \in Nat /\ minted <= minted'
       /\ Links!MayRun(0)
  BY <1>1, <1>2, <1>3
<1> QED
  BY <1>9, <1>10, <1>11, <1>12, TaskStep

-----------------------------------------------------------------------------

LEMMA LinkInit == Links!Init => LinkInv
<1> SUFFICES ASSUME Links!Init PROVE LinkInv
  OBVIOUS
<1>1. MaxAsks \in Nat
  BY MCAuthAssumption DEF Links!Init, MaxAsks, Links!AuthLinksAssumption
<1>2. DOMAIN asks = 1 .. 0 /\ asks \in [DOMAIN asks -> Ask] /\ DOMAIN asks = {}
  BY DEF Links!Init
<1>3. Numbered  BY <1>1, <1>2 DEF Numbered
<1>4. link \in LinkRow /\ ~link.verified
  <2>1. Username \in Addrs
    BY MCAuthAssumption DEF Links!AuthLinksAssumption
  <2>2. CASE link = [email |-> 0, verified |-> FALSE, password |-> FALSE]
    BY <2>2 DEF LinkRow
  <2>3. CASE link = [email |-> Username, verified |-> FALSE, password |-> TRUE]
    BY <2>1, <2>3 DEF LinkRow
  <2> QED  BY <2>2, <2>3 DEF Links!Init
<1>5. LinkTyped
  BY <1>2, <1>3, <1>4 DEF Links!Init, LinkTyped, Links!Idle
<1>6. Sound(toks)
  BY DEF Links!Init, Sound, Links!Idle
<1>7. /\ \A c \in LinkCalls : ~InCall(c)
      /\ Links!RedeemedOnce
  BY DEF Links!Init, InCall, Links!RedeemedOnce, Links!Redeeming, Links!Idle
<1> QED
  BY <1>4, <1>5, <1>6, <1>7 DEF LinkInv, Proved

LEMMA LinkStep == OneRunner /\ LinkInv /\ [AuthNext]_authVars => LinkInv'
<1> SUFFICES ASSUME OneRunner, LinkInv, [AuthNext]_authVars PROVE LinkInv'
  OBVIOUS
<1>1. CASE UNCHANGED linkVars
  <2>1. UNCHANGED <<store, link, asks, toks, queue, runs, minted, mails, linkCalls, before, proved>>
    BY <1>1 DEF linkVars
  <2>2. LinkTyped'
    BY <2>1 DEF LinkInv, LinkTyped, Numbered, MaxAsks
  <2>3. Sound(toks)' /\ Links!Requests' = Links!Requests
    BY <2>1 DEF LinkInv, Sound, Mail, Links!Requests
  <2>4. (store = "do" /\ (\E c \in LinkCalls : InCall(c)) =>
          /\ before = [row |-> before.row, toks |-> before.toks]
          /\ Sound(before.toks) /\ Proved(before.row))'
    BY <2>1, <2>3 DEF LinkInv, Sound, Mail, Proved, InCall
  <2>5. (\A c \in LinkCalls : InCall(c) => Keeps(linkCalls[c]))'
    BY <2>1, <2>3 DEF LinkInv, Keeps, InCall, Spent
  <2> QED
    BY <2>1, <2>2, <2>3, <2>4, <2>5
    DEF LinkInv, Proved, InCall, Links!RedeemedOnce, Links!Redeeming
<1>2. CASE Links!Next
  <2>1. ASSUME NEW c \in LinkCalls, NEW a \in Addrs, Links!changeEmail(c, a) PROVE LinkInv'
    BY <2>1, ChangeEmailKeeps
  <2>2. ASSUME NEW c \in LinkCalls, Links!changeWrites(c) PROVE LinkInv'
    BY <2>2, ChangeWritesKeeps
  <2>3. ASSUME NEW c \in LinkCalls, Links!Request(c) PROVE LinkInv'
    BY <2>3, RequestKeeps
  <2>4. ASSUME NEW c \in LinkCalls, Links!revokes(c) PROVE LinkInv'
    BY <2>4, RevokesKeeps
  <2>5. ASSUME NEW c \in LinkCalls, Links!inserts(c) PROVE LinkInv'
    BY <2>5, InsertsKeeps
  <2>6. ASSUME NEW c \in LinkCalls, Links!enqueues(c) PROVE LinkInv'
    BY <2>6, EnqueuesKeeps
  <2>7. ASSUME NEW c \in LinkCalls,
               Links!resetReads(c) \/ Links!resetWrites(c) \/ Links!verifyEmail(c)
        PROVE  LinkInv'
    BY <2>7, ReadsAndWritesKeep
  <2>8. ASSUME NEW c \in LinkCalls, Links!Dies(c) \/ Links!refused(c) PROVE LinkInv'
    BY <2>8, DyingKeeps
  <2>9. ASSUME NEW c \in LinkCalls, Links!cleans(c) PROVE LinkInv'
    BY <2>9, CleansKeeps
  <2>10. ASSUME NEW c \in LinkCalls, Links!loginReads(c) PROVE LinkInv'
    BY <2>10, LoginReadsKeeps
  <2>11. ASSUME NEW c \in LinkCalls, Links!loginRecords(c) PROVE LinkInv'
    BY <2>11, LoginRecordsKeeps
  <2>12. ASSUME NEW c \in LinkCalls, NEW m \in mails, Links!redeemEmailToken(c, m)
         PROVE  LinkInv'
    BY <2>12, RedeemKeeps
  <2>13. ASSUME NEW d \in Runners, NEW r \in DOMAIN asks, Links!taskStarts(d, r) PROVE LinkInv'
    BY <2>13, TaskStartsKeeps
  <2>14. ASSUME NEW d \in Runners, Links!mintReads(d) PROVE LinkInv'
    BY <2>14, MintReadsKeeps
  <2>15. ASSUME NEW d \in Runners, Links!mints(d) PROVE LinkInv'
    BY <2>15, MintsKeeps
  <2>16. ASSUME NEW d \in Runners, Links!sends(d) PROVE LinkInv'
    BY <2>16, SendsKeeps
  <2>17. ASSUME NEW d \in Runners, Links!markSent(d) PROVE LinkInv'
    BY <2>17, MarkSentKeeps
  <2>18. ASSUME NEW d \in Runners, Links!settles(d) \/ Links!taskFails(d) PROVE LinkInv'
    BY <2>18, SettlingKeeps
  <2> QED
    BY <1>2, <2>1, <2>2, <2>3, <2>4, <2>5, <2>6, <2>7, <2>8, <2>9, <2>10, <2>11, <2>12, <2>13,
      <2>14, <2>15, <2>16, <2>17, <2>18
    DEF Links!Next
<1> QED  BY <1>1, <1>2 DEF AuthNext, authVars, linkVars

(* A set without two members has at most one.                              *)
LEMMA AtMostOne ==
  ASSUME NEW S, \A x, y \in S : x = y
  PROVE  Links!Cardinality(S) <= 1
<1>1. CASE S = {}
  <2>1. Cardinality(S) = 0  BY <1>1, FS_EmptySet
  <2> QED  BY <2>1 DEF Links!Cardinality, Cardinality
<1>2. CASE S # {}
  <2>1. PICK x : S = {x}  BY <1>2
  <2>2. Cardinality(S) = 1  BY <2>1, FS_Singleton
  <2>3. Links!Cardinality(S) = Cardinality(S)  BY DEF Links!Cardinality, Cardinality
  <2> QED  BY <2>2, <2>3
<1> QED  BY <1>1, <1>2

LEMMA LinksSound == LinkInv => LinksAreSound
<1> SUFFICES ASSUME LinkInv PROVE LinksAreSound
  OBVIOUS
<1>1. Links!VerifiedInTransactions
  BY DEF LinkInv, Proved, Links!VerifiedInTransactions, Links!VerifiedAddressWasProved
<1>2. Links!OnlyTheLatestWorks
  <2> SUFFICES ASSUME store = "do", NEW p \in Links!Purposes
               PROVE  Links!Cardinality({r \in Links!Of(p) : Links!Redeemable(r)}) <= 1
    BY DEF Links!OnlyTheLatestWorks
  <2>1. \A x, y \in {r \in Links!Of(p) : Links!Redeemable(r)} : x = y
    BY AskedIsRequest DEF LinkInv, Sound, Links!Of, Links!Redeemable
  <2> QED  BY <2>1, AtMostOne
<1>3. Links!SentMeansDelivered
  BY AskedIsRequest DEF LinkInv, Sound, Mail, Links!SentMeansDelivered
<1> QED
  BY <1>1, <1>2, <1>3 DEF LinkInv, LinksAreSound

(***************************************************************************)
(* For every number of accounts' calls, requests and mails, on both stores *)
(* and whatever dies half way, as long as one drain at a time runs a send  *)
(* task: in transactions an address is verified only by whoever read a     *)
(* link sent there and only the latest link of a purpose works; a row      *)
(* marked as sent holds the token that was mailed; and no two calls get    *)
(* through with one link.                                                  *)
(***************************************************************************)
THEOREM LinksHold ==
  ASSUME OneRunner
  PROVE  AuthSpec => []LinksAreSound
<1>1. AuthInit => LinkInv
  BY LinkInit DEF AuthInit
<1> QED  BY <1>1, LinksSound, LinkStep, PTL DEF AuthSpec

-----------------------------------------------------------------------------
(***************************************************************************)
(* Accounts.  Rows, links and sessions as they may be.                     *)
(***************************************************************************)
AccountRow == [exists : BOOLEAN, pw : People \cup {0}, email : People \cup {0},
               verified : BOOLEAN, active : BOOLEAN]
MailedLink == [kind : {"magic", "reset", "verify"}, user : Usernames, address : People]
AccountsTyped ==
  /\ rows \in [Usernames -> AccountRow]
  /\ inboxes \subseteq MailedLink
  /\ held \subseteq [user : Usernames, person : People]
  /\ entered \subseteq Usernames \cap People

(* The account named after u's address is in u's hands, and in no others.  *)
OnlyBy(u) == \A s \in held : s.user = u => s.person = u
Owned(u) ==
  /\ rows[u].exists
  /\ rows[u].pw \in {0, u}
  /\ rows[u].email \in {0, u}
  /\ OnlyBy(u)

(* Whatever lets the owner of the address in for good: a proof, a session, *)
(* the password, a link to verify the address with, a verified address.    *)
WithinReach(u) ==
  \/ u \in entered
  \/ Accounts!Holds(u, u) \in held
  \/ rows[u].pw = u
  \/ Accounts!Mail("verify", u, u) \in inboxes
  \/ rows[u].verified /\ rows[u].email = u

(* An account: one nobody made, one that was made.                         *)
Kept(u) ==
  /\ ~rows[u].exists => /\ rows[u].pw = 0 /\ rows[u].email = 0 /\ ~rows[u].verified
                        /\ \A s \in held : s.user # u
  /\ rows[u].verified => <<u, rows[u].email>> \in proofs
  /\ u \in People /\ rows[u].pw = 0 => rows[u].email \in {0, u} /\ OnlyBy(u)
  /\ u \in People /\ WithinReach(u) => Owned(u)
AccountInv ==
  /\ AccountsTyped
  /\ \A u \in Usernames : Kept(u)
  /\ Accounts!AddressesAreDistinct

-----------------------------------------------------------------------------
(* A step about account u: the others keep what they have, save for an     *)
(* address that was only claimed.                                          *)
OthersKeep(u) ==
  \A v \in Usernames \ {u} :
    /\ rows'[v].exists = rows[v].exists
    /\ rows'[v].pw = rows[v].pw
    /\ rows'[v].verified = rows[v].verified
    /\ rows'[v].email = rows[v].email \/ (rows'[v].email = 0 /\ ~rows[v].verified)
NothingNewBut(u) ==
  /\ \A s \in held' : s.user # u => s \in held
  /\ \A m \in inboxes' : m.user # u => m \in inboxes
  /\ entered' \subseteq entered \cup {u}
  /\ \A v \in Usernames \ {u} : \A e \in People \cup {0} : <<v, e>> \in proofs => <<v, e>> \in proofs'

LEMMA AccountStep ==
  ASSUME AccountInv, NEW u \in Usernames, AccountsTyped', Kept(u)', OthersKeep(u), NothingNewBut(u),
         rows'[u].email # 0 => \A v \in Usernames \ {u} : rows'[v].email # rows'[u].email
  PROVE  AccountInv'
<1>1. \A v \in Usernames : Kept(v)'
  <2> SUFFICES ASSUME NEW v \in Usernames \ {u} PROVE Kept(v)'
    OBVIOUS
  <2>1. Kept(v)  BY DEF AccountInv
  <2>2. /\ rows[v] \in AccountRow /\ rows'[v] \in AccountRow
        /\ \A s \in held' : s.user = v => s \in held
        /\ \A m \in inboxes' : m.user = v => m \in inboxes
        /\ v \in entered' => v \in entered
    BY DEF AccountInv, AccountsTyped, NothingNewBut
  <2>3. ~rows'[v].exists => /\ rows'[v].pw = 0 /\ rows'[v].email = 0 /\ ~rows'[v].verified
                            /\ \A s \in held' : s.user # v
    BY <2>1, <2>2 DEF Kept, OthersKeep
  <2>4. rows'[v].verified => <<v, rows'[v].email>> \in proofs'
    <3>1. rows[v].email \in People \cup {0}  BY <2>2 DEF AccountRow
    <3> QED  BY <2>1, <3>1 DEF Kept, OthersKeep, NothingNewBut
  <2>5. OnlyBy(v) => OnlyBy(v)'
    BY <2>2 DEF OnlyBy
  <2>6. v \in People /\ rows'[v].pw = 0 => rows'[v].email \in {0, v} /\ OnlyBy(v)'
    BY <2>1, <2>5 DEF Kept, OthersKeep
  <2>7. WithinReach(v)' => WithinReach(v)
    <3>1. Accounts!Holds(v, v).user = v /\ Accounts!Mail("verify", v, v).user = v
      BY DEF Accounts!Holds, Accounts!Mail
    <3>2. Accounts!Holds(v, v) \in held' => Accounts!Holds(v, v) \in held
      BY <2>2, <3>1
    <3>3. Accounts!Mail("verify", v, v) \in inboxes' => Accounts!Mail("verify", v, v) \in inboxes
      BY <2>2, <3>1
    <3>4. rows'[v].verified /\ rows'[v].email = v => rows[v].verified /\ rows[v].email = v
      BY DEF OthersKeep
    <3>5. rows'[v].pw = v => rows[v].pw = v
      BY DEF OthersKeep
    <3> QED  BY <2>2, <3>2, <3>3, <3>4, <3>5 DEF WithinReach, Accounts!Holds, Accounts!Mail
  <2>8. Owned(v) => Owned(v)'
    BY <2>5 DEF Owned, OthersKeep
  <2> QED  BY <2>1, <2>3, <2>4, <2>6, <2>7, <2>8 DEF Kept
<1>2. Accounts!AddressesAreDistinct'
  <2> SUFFICES ASSUME NEW v \in Usernames, NEW w \in Usernames, v # w,
                      rows'[v].email = rows'[w].email, rows'[v].email # 0
               PROVE  FALSE
    BY DEF Accounts!AddressesAreDistinct
  <2>1. v # u /\ w # u
    OBVIOUS
  <2>2. rows[v].email = rows'[v].email /\ rows[w].email = rows'[w].email
    BY <2>1 DEF OthersKeep
  <2> QED  BY <2>2 DEF AccountInv, Accounts!AddressesAreDistinct
<1> QED  BY <1>1, <1>2 DEF AccountInv

LEMMA AccountFacts ==
  ASSUME AccountInv, NEW u \in Usernames
  PROVE  /\ rows \in [Usernames -> AccountRow] /\ rows[u] \in AccountRow
         /\ Kept(u)
         /\ 0 \notin People
         /\ \A p \in People : Subject(p) \notin People
BY MCAuthAssumption DEF AccountInv, AccountsTyped, Accounts!AccountsAssumption

(* A step that writes the row of u alone, or none.                         *)
LEMMA PutStep ==
  ASSUME AccountInv, NEW u \in Usernames, NEW R \in AccountRow, rows' = [rows EXCEPT ![u] = R],
         inboxes' \subseteq MailedLink, held' \subseteq [user : Usernames, person : People],
         entered' \subseteq Usernames \cap People, NothingNewBut(u),
         R.email # 0 /\ R.email # rows[u].email =>
            \A v \in Usernames \ {u} : rows[v].email # R.email,
         R.verified => <<u, R.email>> \in proofs',
         ~R.exists => R = rows[u] /\ \A s \in held' : s.user # u,
         u \in People /\ R.pw = 0 => R.email \in {0, u} /\ OnlyBy(u)',
         u \in People /\ (\/ u \in entered' \/ Accounts!Holds(u, u) \in held' \/ R.pw = u
                          \/ Accounts!Mail("verify", u, u) \in inboxes'
                          \/ R.verified /\ R.email = u) =>
            R.exists /\ R.pw \in {0, u} /\ R.email \in {0, u} /\ OnlyBy(u)'
  PROVE  AccountInv'
<1>1. /\ rows' \in [Usernames -> AccountRow] /\ rows'[u] = R
      /\ \A v \in Usernames \ {u} : rows'[v] = rows[v]
  BY AccountFacts
<1>2. AccountsTyped'  BY <1>1 DEF AccountsTyped
<1>3. OthersKeep(u)  BY <1>1 DEF OthersKeep
<1>4. Kept(u)'
  <2>1. ~R.exists => R.pw = 0 /\ R.email = 0 /\ ~R.verified
    BY AccountFacts DEF Kept
  <2>2. WithinReach(u)' => \/ u \in entered' \/ Accounts!Holds(u, u) \in held' \/ R.pw = u
                           \/ Accounts!Mail("verify", u, u) \in inboxes'
                           \/ R.verified /\ R.email = u
    BY <1>1 DEF WithinReach, Accounts!Holds, Accounts!Mail
  <2>3. R.exists /\ R.pw \in {0, u} /\ R.email \in {0, u} /\ OnlyBy(u)' => Owned(u)'
    BY <1>1 DEF Owned
  <2> QED  BY <1>1, <2>1, <2>2, <2>3 DEF Kept
<1>5. rows'[u].email # 0 => \A v \in Usernames \ {u} : rows'[v].email # rows'[u].email
  BY <1>1 DEF AccountInv, Accounts!AddressesAreDistinct
<1> QED  BY <1>2, <1>3, <1>4, <1>5, AccountStep

-----------------------------------------------------------------------------
(* Passwords and addresses.                                                *)

(* What is within the reach of an address's owner is in no other hands.    *)
LEMMA Reached ==
  ASSUME AccountInv, NEW u \in Usernames, u \in People, WithinReach(u)
  PROVE  Owned(u)
BY AccountFacts DEF Kept

LEMMA HeldExists ==
  ASSUME AccountInv, NEW u \in Usernames, NEW p, Accounts!Holds(p, u) \in held
  PROVE  rows[u].exists /\ (OnlyBy(u) => p = u)
<1>1. Accounts!Holds(p, u).user = u /\ Accounts!Holds(p, u).person = p
  BY DEF Accounts!Holds
<1> QED  BY <1>1, AccountFacts DEF Kept, OnlyBy

LEMMA SignupKeeps ==
  ASSUME AccountInv, NEW p \in People, NEW u \in Usernames, NEW a \in People \cup {0},
         Accounts!signup(p, u, a)
  PROVE  AccountInv'
<1> PICK R : R = [exists |-> TRUE, pw |-> p, email |-> a, verified |-> FALSE, active |-> TRUE]
  OBVIOUS
<1> PICK s : s = Accounts!Holds(p, u)
  OBVIOUS
<1>1. /\ ~rows[u].exists
      /\ a # 0 => \A v \in Usernames \ {u} : rows[v].email # a
      /\ u = p => a \in {p, 0}
      /\ rows' = [rows EXCEPT ![u] = R]
      /\ held' = held \cup {s}
      /\ UNCHANGED <<inboxes, proofs, entered>>
  BY DEF Accounts!signup, Accounts!Exists, Accounts!heldByAnother, Accounts!Put, Accounts!Row,
    Accounts!mint
<1>2. R \in AccountRow  BY DEF AccountRow
<1>3. s \in [user : Usernames, person : People] /\ s.user = u /\ s.person = p
  BY DEF Accounts!Holds
<1>4. inboxes' \subseteq MailedLink /\ held' \subseteq [user : Usernames, person : People]
      /\ entered' \subseteq Usernames \cap People /\ NothingNewBut(u)
  BY <1>1, <1>3 DEF AccountInv, AccountsTyped, NothingNewBut
<1>5. /\ 0 \notin People /\ \A t \in held : t.user # u
  BY <1>1, AccountFacts DEF Kept
<1>6. u \in People => ~WithinReach(u)
  BY <1>1, Reached DEF Owned
<1>7. p = u => OnlyBy(u)'
  BY <1>1, <1>3, <1>5 DEF OnlyBy
<1>8. Accounts!Holds(u, u) \in held' => Accounts!Holds(u, u) \in held \/ p = u
  BY <1>1 DEF Accounts!Holds
<1>9. u \in People /\ (\/ u \in entered' \/ Accounts!Holds(u, u) \in held' \/ R.pw = u
                       \/ Accounts!Mail("verify", u, u) \in inboxes'
                       \/ R.verified /\ R.email = u) => p = u
  BY <1>1, <1>6, <1>8 DEF WithinReach
<1> QED  BY <1>1, <1>2, <1>4, <1>5, <1>7, <1>9, PutStep

LEMMA LoginKeepsAccounts ==
  ASSUME AccountInv, NEW p \in People, NEW u \in Usernames, Accounts!login(p, u)
  PROVE  AccountInv'
<1> PICK R : R = rows[u]
  OBVIOUS
<1> PICK s : s = Accounts!Holds(p, u)
  OBVIOUS
<1>1. /\ R.exists /\ R.pw = p
      /\ held' = held \cup {s}
      /\ UNCHANGED <<rows, inboxes, proofs, entered>>
  BY DEF Accounts!login, Accounts!Exists, Accounts!mint
<1>2. R \in AccountRow /\ rows' = [rows EXCEPT ![u] = R]
  BY <1>1, AccountFacts
<1>3. s \in [user : Usernames, person : People] /\ s.user = u /\ s.person = p
  BY DEF Accounts!Holds
<1>4. inboxes' \subseteq MailedLink /\ held' \subseteq [user : Usernames, person : People]
      /\ entered' \subseteq Usernames \cap People /\ NothingNewBut(u)
  BY <1>1, <1>3 DEF AccountInv, AccountsTyped, NothingNewBut
<1>5. 0 \notin People /\ (R.verified => <<u, R.email>> \in proofs')
  BY <1>1, AccountFacts DEF Kept
<1>6. Accounts!Holds(u, u) \in held' => Accounts!Holds(u, u) \in held \/ p = u
  BY <1>1 DEF Accounts!Holds
<1>7. u \in People /\ (\/ u \in entered' \/ Accounts!Holds(u, u) \in held' \/ R.pw = u
                       \/ Accounts!Mail("verify", u, u) \in inboxes'
                       \/ R.verified /\ R.email = u) => Owned(u)
  BY <1>1, <1>6, Reached DEF WithinReach
<1>8. Owned(u) => p = u /\ OnlyBy(u)'
  BY <1>1, <1>3, <1>5 DEF Owned, OnlyBy
<1>9. Owned(u) => R.exists /\ R.pw \in {0, u} /\ R.email \in {0, u} /\ OnlyBy(u)'
  BY <1>8 DEF Owned
<1> QED  BY <1>1, <1>2, <1>4, <1>5, <1>7, <1>9, PutStep

LEMMA ChangePasswordKeeps ==
  ASSUME AccountInv, NEW p \in People, NEW u \in Usernames, Accounts!changePassword(p, u)
  PROVE  AccountInv'
<1> PICK R : R = [rows[u] EXCEPT !.pw = p]
  OBVIOUS
<1> PICK s : s = Accounts!Holds(p, u)
  OBVIOUS
<1>1. /\ s \in held
      /\ rows' = [rows EXCEPT ![u] = R]
      /\ held' = {t \in held : t.user # u} \cup {s}
      /\ UNCHANGED <<inboxes, proofs, entered>>
  BY DEF Accounts!mayCall, Accounts!changePassword, Accounts!Put, Accounts!Others
<1>2. /\ R \in AccountRow /\ R.pw = p /\ R.email = rows[u].email /\ R.exists
      /\ R.verified = rows[u].verified
  BY <1>1, AccountFacts, HeldExists DEF AccountRow
<1>3. s \in [user : Usernames, person : People] /\ s.user = u /\ s.person = p
  BY DEF Accounts!Holds
<1>4. inboxes' \subseteq MailedLink /\ held' \subseteq [user : Usernames, person : People]
      /\ entered' \subseteq Usernames \cap People /\ NothingNewBut(u)
  BY <1>1, <1>3 DEF AccountInv, AccountsTyped, NothingNewBut
<1>5. 0 \notin People /\ (R.verified => <<u, R.email>> \in proofs')
  BY <1>1, <1>2, AccountFacts DEF Kept
<1>6. Accounts!Holds(u, u) \in held' => Accounts!Holds(u, u) \in held
  BY <1>1, <1>3
<1>7. p = u => Accounts!Holds(u, u) \in held
  BY <1>1
<1>8. u \in People /\ (\/ u \in entered' \/ Accounts!Holds(u, u) \in held' \/ R.pw = u
                       \/ Accounts!Mail("verify", u, u) \in inboxes'
                       \/ R.verified /\ R.email = u) => Owned(u)
  BY <1>1, <1>2, <1>6, <1>7, Reached DEF WithinReach
<1>9. Owned(u) => p = u
  BY <1>1, HeldExists DEF Owned
<1>10. p = u => OnlyBy(u)'
  BY <1>1, <1>3 DEF OnlyBy
<1>11. Owned(u) => R.exists /\ R.pw \in {0, u} /\ R.email \in {0, u} /\ OnlyBy(u)'
  BY <1>2, <1>9, <1>10 DEF Owned
<1> QED  BY <1>1, <1>2, <1>4, <1>5, <1>8, <1>11, PutStep

LEMMA AddressChangeKeeps ==
  ASSUME AccountInv, NEW p \in People, NEW u \in Usernames, NEW a \in People,
         Accounts!changeEmail(p, u, a)
  PROVE  AccountInv'
<1> PICK R : R = [rows[u] EXCEPT !.email = a, !.verified = FALSE]
  OBVIOUS
<1>1. /\ Accounts!Holds(p, u) \in held
      /\ rows[u].pw \in {0, p}
      /\ u = p => a = p
      /\ \A v \in Usernames \ {u} : rows[v].email # a
      /\ rows' = [rows EXCEPT ![u] = R]
      /\ proofs' = {x \in proofs : x[1] # u}
      /\ UNCHANGED <<inboxes, held, entered>>
  BY DEF Accounts!mayCall, Accounts!changeEmail, Accounts!Put, Accounts!knowsOrEmpty, Accounts!heldByAnother
<1>2. /\ R \in AccountRow /\ R.pw = rows[u].pw /\ R.email = a /\ R.exists /\ ~R.verified
  BY <1>1, AccountFacts, HeldExists DEF AccountRow
<1>3. inboxes' \subseteq MailedLink /\ held' \subseteq [user : Usernames, person : People]
      /\ entered' \subseteq Usernames \cap People /\ NothingNewBut(u)
  BY <1>1 DEF AccountInv, AccountsTyped, NothingNewBut
<1>4. OnlyBy(u) => p = u /\ OnlyBy(u)'
  BY <1>1, HeldExists DEF OnlyBy
<1>5. u \in People /\ R.pw = 0 => R.email \in {0, u} /\ OnlyBy(u)'
  BY <1>1, <1>2, <1>4, AccountFacts DEF Kept
<1>6. u \in People /\ (\/ u \in entered' \/ Accounts!Holds(u, u) \in held' \/ R.pw = u
                       \/ Accounts!Mail("verify", u, u) \in inboxes'
                       \/ R.verified /\ R.email = u) => Owned(u)
  BY <1>1, <1>2, Reached DEF WithinReach, Accounts!Holds
<1>7. Owned(u) => R.exists /\ R.pw \in {0, u} /\ R.email \in {0, u} /\ OnlyBy(u)'
  BY <1>1, <1>2, <1>4 DEF Owned
<1> QED  BY <1>1, <1>2, <1>3, <1>5, <1>6, <1>7, PutStep

-----------------------------------------------------------------------------
(* Links.                                                                  *)

(* A mail m to the holder of u, who is the owner if it verifies their own. *)
LEMMA MailKeeps ==
  ASSUME AccountInv, NEW u \in Usernames, NEW m \in MailedLink, m.user = u,
         m.kind = "verify" /\ m.address = u => Accounts!Holds(u, u) \in held,
         inboxes' = inboxes \cup {m}, UNCHANGED <<rows, held, proofs, entered>>
  PROVE  AccountInv'
<1>1. rows[u] \in AccountRow /\ rows' = [rows EXCEPT ![u] = rows[u]] /\ Kept(u)
  BY AccountFacts
<1>2. inboxes' \subseteq MailedLink /\ held' \subseteq [user : Usernames, person : People]
      /\ entered' \subseteq Usernames \cap People /\ NothingNewBut(u)
  BY DEF AccountInv, AccountsTyped, NothingNewBut
<1>3. OnlyBy(u) => OnlyBy(u)'
  BY DEF OnlyBy
<1>4. Accounts!Mail("verify", u, u) \in inboxes' =>
        Accounts!Mail("verify", u, u) \in inboxes \/ Accounts!Holds(u, u) \in held
  BY DEF Accounts!Mail
<1>5. Accounts!Holds(u, u) \in held' => Accounts!Holds(u, u) \in held
  BY DEF Accounts!Holds
<1>6. u \in People /\ (\/ u \in entered' \/ Accounts!Holds(u, u) \in held' \/ rows[u].pw = u
                       \/ Accounts!Mail("verify", u, u) \in inboxes'
                       \/ rows[u].verified /\ rows[u].email = u) => Owned(u)
  BY <1>4, <1>5, Reached DEF WithinReach
<1>7. Owned(u) =>
        rows[u].exists /\ rows[u].pw \in {0, u} /\ rows[u].email \in {0, u} /\ OnlyBy(u)'
  BY <1>3 DEF Owned
<1> QED  BY <1>1, <1>2, <1>3, <1>6, <1>7, PutStep DEF Kept

LEMMA RequestMagicLinkKeeps ==
  ASSUME AccountInv, NEW a \in People, Accounts!requestMagicLink(a)
  PROVE  AccountInv'
<1> PICK m : m = Accounts!Mail("magic", a, a)
  OBVIOUS
<1>1. a \in Usernames /\ inboxes' = inboxes \cup {m} /\ UNCHANGED <<rows, held, proofs, entered>>
  BY DEF Accounts!requestMagicLink, Accounts!requestLink
<1>2. m \in MailedLink /\ m.user = a /\ m.kind # "verify"
  BY <1>1 DEF Accounts!Mail, MailedLink
<1> QED  BY <1>1, <1>2, MailKeeps

LEMMA RequestPasswordResetKeeps ==
  ASSUME AccountInv, NEW u \in Usernames, NEW a \in People, Accounts!requestPasswordReset(u, a)
  PROVE  AccountInv'
<1> PICK m : m = Accounts!Mail("reset", u, a)
  OBVIOUS
<1>1. inboxes' = inboxes \cup {m} /\ UNCHANGED <<rows, held, proofs, entered>>
  BY DEF Accounts!requestPasswordReset, Accounts!requestLink
<1>2. m \in MailedLink /\ m.user = u /\ m.kind # "verify"
  BY DEF Accounts!Mail, MailedLink
<1> QED  BY <1>1, <1>2, MailKeeps

LEMMA RequestEmailVerificationKeeps ==
  ASSUME AccountInv, NEW p \in People, NEW u \in Usernames,
         Accounts!requestEmailVerification(p, u)
  PROVE  AccountInv'
<1> PICK m : m = Accounts!Mail("verify", u, p)
  OBVIOUS
<1>1. /\ inboxes' = inboxes \cup {m} /\ UNCHANGED <<rows, held, proofs, entered>>
      /\ Accounts!Holds(p, u) \in held
  BY DEF Accounts!mayCall, Accounts!requestEmailVerification, Accounts!requestLink
<1>2. m \in MailedLink /\ m.user = u /\ m.address = p
  BY DEF Accounts!Mail, MailedLink
<1> QED  BY <1>1, <1>2, MailKeeps

(* What a proof of the address may take is nobody else's.                  *)
LEMMA Adoptable ==
  ASSUME AccountInv, NEW u \in Usernames, u \in People, Accounts!adoptableBy(u)
  PROVE  rows[u].pw \in {0, u} /\ rows[u].email \in {0, u} /\ OnlyBy(u)
<1>1. CASE rows[u].pw = 0
  BY <1>1, AccountFacts DEF Kept
<1>2. CASE rows[u].email = u /\ rows[u].verified
  BY <1>2, Reached DEF WithinReach, Owned
<1> QED  BY <1>1, <1>2 DEF Accounts!adoptableBy

LEMMA InviteKeeps ==
  ASSUME AccountInv, NEW a \in People, Accounts!inviteUser(a)
  PROVE  AccountInv'
<1> PICK m : m = Accounts!Mail("magic", a, a)
  OBVIOUS
<1> PICK R : R = [exists |-> TRUE, pw |-> 0, email |-> 0, verified |-> FALSE, active |-> TRUE]
  OBVIOUS
<1>1. /\ a \in Usernames /\ inboxes' = inboxes \cup {m} /\ UNCHANGED <<held, proofs, entered>>
      /\ rows[a].exists => UNCHANGED rows
      /\ ~rows[a].exists => rows' = [rows EXCEPT ![a] = R]
  BY DEF Accounts!inviteUser, Accounts!requestLink, Accounts!Exists, Accounts!Put, Accounts!Row
<1>2. m \in MailedLink /\ m.user = a /\ m.kind = "magic"
  BY <1>1 DEF Accounts!Mail, MailedLink
<1>3. CASE rows[a].exists
  BY <1>1, <1>2, <1>3, MailKeeps
<1>4. CASE ~rows[a].exists
  <2>1. R \in AccountRow  BY DEF AccountRow
  <2>2. inboxes' \subseteq MailedLink /\ held' \subseteq [user : Usernames, person : People]
        /\ entered' \subseteq Usernames \cap People /\ NothingNewBut(a)
    BY <1>1, <1>2 DEF AccountInv, AccountsTyped, NothingNewBut
  <2>3. OnlyBy(a)'
    BY <1>1, <1>4, AccountFacts DEF Kept, OnlyBy
  <2>4. R.exists /\ R.pw = 0 /\ R.email = 0 /\ ~R.verified
    OBVIOUS
  <2> QED  BY <1>1, <1>4, <2>1, <2>2, <2>3, <2>4, PutStep
<1> QED  BY <1>3, <1>4

LEMMA LoginWithMagicLinkKeeps ==
  ASSUME AccountInv, NEW a \in People, Accounts!loginWithMagicLink(a)
  PROVE  AccountInv'
<1> PICK B : B = IF rows[a].exists THEN rows[a]
                 ELSE [exists |-> TRUE, pw |-> 0, email |-> 0, verified |-> FALSE, active |-> TRUE]
  OBVIOUS
<1> PICK R : R = IF (B.email = 0 \/ (B.email = a /\ ~B.verified))
                      /\ ~Accounts!heldByAnother(a, a)
                 THEN [B EXCEPT !.email = a, !.verified = TRUE] ELSE B
  OBVIOUS
<1> PICK s : s = Accounts!Holds(a, a)
  OBVIOUS
<1>1. /\ Accounts!Mail("magic", a, a) \in inboxes
      /\ rows[a].exists => Accounts!adoptableBy(a)
      /\ inboxes' \subseteq inboxes
      /\ rows' = [rows EXCEPT ![a] = R]
      /\ held' = held \cup {s}
      /\ proofs' = proofs \cup {<<a, a>>}
      /\ entered' = entered \cup {a}
  BY DEF Accounts!loginWithMagicLink, Accounts!Exists, Accounts!Put, Accounts!Row,
    Accounts!recorded, Accounts!mint, Accounts!Proves
<1>2. a \in Usernames
  BY <1>1 DEF AccountInv, AccountsTyped, MailedLink, Accounts!Mail
<1>3. OnlyBy(a) /\ rows[a].pw \in {0, a} /\ rows[a].email \in {0, a}
  <2>1. CASE rows[a].exists
    BY <1>1, <1>2, <2>1, Adoptable
  <2>2. CASE ~rows[a].exists
    BY <1>2, <2>2, AccountFacts DEF Kept, OnlyBy
  <2> QED  BY <2>1, <2>2
<1>4. /\ B \in AccountRow /\ B.exists /\ B.pw \in {0, a} /\ B.email \in {0, a}
      /\ B.verified => <<a, B.email>> \in proofs
      /\ B.email = rows[a].email
  <2>1. CASE rows[a].exists
    BY <1>2, <1>3, <2>1, AccountFacts DEF Kept
  <2>2. CASE ~rows[a].exists
    BY <1>2, <2>2, AccountFacts DEF Kept, AccountRow
  <2> QED  BY <2>1, <2>2
<1>5. /\ R \in AccountRow /\ R.exists /\ R.pw \in {0, a} /\ R.email \in {0, a}
      /\ R.verified => <<a, R.email>> \in proofs'
      /\ R.email # 0 /\ R.email # rows[a].email =>
           \A v \in Usernames \ {a} : rows[v].email # R.email
  <2>1. CASE R = B
    BY <1>1, <1>4, <2>1
  <2>2. CASE R = [B EXCEPT !.email = a, !.verified = TRUE] /\ ~Accounts!heldByAnother(a, a)
    <3>1. R \in AccountRow /\ R.exists /\ R.pw = B.pw /\ R.email = a
      BY <1>4, <2>2 DEF AccountRow
    <3>2. \A v \in Usernames \ {a} : rows[v].email # a
      BY <2>2 DEF Accounts!heldByAnother
    <3> QED  BY <1>1, <1>4, <3>1, <3>2
  <2> QED  BY <2>1, <2>2
<1>6. s \in [user : Usernames, person : People] /\ s.user = a /\ s.person = a
  BY <1>2 DEF Accounts!Holds
<1>7. inboxes' \subseteq MailedLink /\ held' \subseteq [user : Usernames, person : People]
      /\ entered' \subseteq Usernames \cap People /\ NothingNewBut(a)
  BY <1>1, <1>2, <1>6 DEF AccountInv, AccountsTyped, NothingNewBut
<1>8. OnlyBy(a)'
  BY <1>1, <1>3, <1>6 DEF OnlyBy
<1> QED  BY <1>1, <1>2, <1>5, <1>7, <1>8, PutStep

LEMMA ResetPasswordKeeps ==
  ASSUME AccountInv, NEW u \in Usernames, NEW a \in People, Accounts!resetPassword(u, a)
  PROVE  AccountInv'
<1> PICK R : R = [rows[u] EXCEPT !.pw = a, !.verified = TRUE]
  OBVIOUS
<1>1. /\ rows[u].email = a
      /\ rows' = [rows EXCEPT ![u] = R]
      /\ inboxes' \subseteq inboxes
      /\ held' = {t \in held : t.user # u}
      /\ proofs' = proofs \cup {<<u, a>>}
      /\ entered' = IF u = a THEN entered \cup {u} ELSE entered
  BY DEF Accounts!resetPassword, Accounts!Put, Accounts!Others, Accounts!Proves
<1>2. /\ R \in AccountRow /\ R.pw = a /\ R.email = a /\ R.exists /\ a # 0
  BY <1>1, AccountFacts DEF AccountRow, Kept
<1>3. inboxes' \subseteq MailedLink /\ held' \subseteq [user : Usernames, person : People]
      /\ entered' \subseteq Usernames \cap People /\ NothingNewBut(u)
  BY <1>1 DEF AccountInv, AccountsTyped, NothingNewBut
<1>4. OnlyBy(u)'  BY <1>1 DEF OnlyBy
<1>5. Accounts!Holds(u, u) \notin held'
  BY <1>1 DEF Accounts!Holds
<1>6. u \in People /\ (\/ u \in entered' \/ Accounts!Holds(u, u) \in held' \/ R.pw = u
                       \/ Accounts!Mail("verify", u, u) \in inboxes'
                       \/ R.verified /\ R.email = u) => u = a \/ Owned(u)
  BY <1>1, <1>2, <1>5, Reached DEF WithinReach
<1>7. Owned(u) => u = a
  BY <1>1, <1>2 DEF Owned
<1>8. /\ <<u, R.email>> \in proofs' /\ R.email = rows[u].email /\ R.pw # 0
      /\ u = a => R.pw \in {0, u} /\ R.email \in {0, u}
  BY <1>1, <1>2
<1> QED  BY <1>1, <1>2, <1>3, <1>4, <1>6, <1>7, <1>8, PutStep

LEMMA VerifyEmailKeeps ==
  ASSUME AccountInv, NEW u \in Usernames, NEW a \in People, Accounts!verifyEmail(u, a)
  PROVE  AccountInv'
<1> PICK R : R = [rows[u] EXCEPT !.verified = TRUE]
  OBVIOUS
<1>1. /\ rows[u].email = a
      /\ Accounts!Mail("verify", u, a) \in inboxes
      /\ rows' = [rows EXCEPT ![u] = R]
      /\ inboxes' \subseteq inboxes
      /\ proofs' = proofs \cup {<<u, a>>}
      /\ UNCHANGED <<held, entered>>
  BY DEF Accounts!verifyEmail, Accounts!Put, Accounts!Proves
<1>2. /\ R \in AccountRow /\ R.pw = rows[u].pw /\ R.email = a /\ R.exists
  BY <1>1, AccountFacts DEF AccountRow, Kept
<1>3. inboxes' \subseteq MailedLink /\ held' \subseteq [user : Usernames, person : People]
      /\ entered' \subseteq Usernames \cap People /\ NothingNewBut(u)
  BY <1>1 DEF AccountInv, AccountsTyped, NothingNewBut
<1>4. OnlyBy(u) => OnlyBy(u)'  BY <1>1 DEF OnlyBy
<1>5. u \in People /\ R.pw = 0 => R.email \in {0, u} /\ OnlyBy(u)'
  BY <1>1, <1>2, <1>4, AccountFacts DEF Kept
<1>6. u \in People /\ (\/ u \in entered' \/ Accounts!Holds(u, u) \in held' \/ R.pw = u
                       \/ Accounts!Mail("verify", u, u) \in inboxes'
                       \/ R.verified /\ R.email = u) => Owned(u)
  BY <1>1, <1>2, Reached DEF WithinReach, Accounts!Holds
<1>7. Owned(u) => R.exists /\ R.pw \in {0, u} /\ R.email \in {0, u} /\ OnlyBy(u)'
  BY <1>1, <1>2, <1>4 DEF Owned
<1>8. <<u, R.email>> \in proofs' /\ R.email = rows[u].email
  BY <1>1, <1>2
<1> QED  BY <1>1, <1>2, <1>3, <1>5, <1>6, <1>7, <1>8, PutStep

-----------------------------------------------------------------------------
(* The provider's sign-in, for a row that is there and for a first one.    *)

LEMMA SignInAgainKeeps ==
  ASSUME AccountInv, NEW p \in People, NEW u \in Usernames,
         rows[u].exists, u \in People => u = p /\ Accounts!adoptableBy(u),
         held' = held \cup {Accounts!Holds(p, u)},
         entered' \subseteq entered \cup {u}, u \in entered' => u \in People \/ u \in entered,
         UNCHANGED <<rows, inboxes, proofs>>
  PROVE  AccountInv'
<1> PICK s : s = Accounts!Holds(p, u)
  OBVIOUS
<1>1. s \in [user : Usernames, person : People] /\ s.user = u /\ s.person = p
  BY DEF Accounts!Holds
<1>2. rows[u] \in AccountRow /\ rows' = [rows EXCEPT ![u] = rows[u]] /\ Kept(u)
  BY AccountFacts
<1>3. held' = held \cup {s}
  OBVIOUS
<1>4. inboxes' \subseteq MailedLink /\ held' \subseteq [user : Usernames, person : People]
      /\ entered' \subseteq Usernames \cap People /\ NothingNewBut(u)
  BY <1>1, <1>3 DEF AccountInv, AccountsTyped, NothingNewBut
<1>5. u \in People => rows[u].pw \in {0, u} /\ rows[u].email \in {0, u} /\ OnlyBy(u)'
  BY <1>1, <1>3, Adoptable DEF OnlyBy
<1> QED  BY <1>2, <1>4, <1>5, PutStep DEF Kept

LEMMA FirstRow ==
  ASSUME NEW email \in People \cup {0}, NEW e \in BOOLEAN
  PROVE  [exists |-> TRUE, pw |-> 0, email |-> email, verified |-> e, active |-> TRUE] \in AccountRow
BY DEF AccountRow

LEMMA FirstSignInKeeps ==
  ASSUME AccountInv, NEW p \in People, NEW u \in Usernames, NEW address \in {0, p},
         ~rows[u].exists, u \in People => u = p,
         Accounts!firstSignIn(u, address),
         held' = held \cup {Accounts!Holds(p, u)},
         entered' \subseteq entered \cup {u}, u \in entered' => u \in People \/ u \in entered,
         proofs \subseteq proofs', address # 0 => <<u, p>> \in proofs', UNCHANGED inboxes
  PROVE  AccountInv' /\ Accounts!Keeps
<1> PICK s : s = Accounts!Holds(p, u)
  OBVIOUS
<1> PICK F : F = IF address = 0 THEN rows ELSE Accounts!claimsCleared(address, u)
  OBVIOUS
<1> PICK email : email = IF \E v \in Usernames : F[v].email = address THEN 0 ELSE address
  OBVIOUS
<1> PICK e \in BOOLEAN : e = (email # 0)
  BY Zenon
<1> PICK R : R = Accounts!Row(0, email, email # 0)
  OBVIOUS
<1>1. rows' = [F EXCEPT ![u] = R]
  BY DEF Accounts!firstSignIn
<1>2. /\ F \in [Usernames -> AccountRow]
      /\ \A v \in Usernames \ {u} :
           /\ F[v].exists = rows[v].exists /\ F[v].pw = rows[v].pw /\ F[v].verified = rows[v].verified
           /\ F[v].email = rows[v].email \/ (F[v].email = 0 /\ ~rows[v].verified)
           /\ rows[v].verified => F[v].email = rows[v].email
  <2>0. rows \in [Usernames -> AccountRow]
    BY AccountFacts
  <2>1. CASE address = 0
    BY <2>0, <2>1
  <2>2. CASE address # 0
    <3>1. F = [v \in Usernames |-> IF v # u /\ rows[v].email = address /\ ~rows[v].verified
                                   THEN [rows[v] EXCEPT !.email = 0] ELSE rows[v]]
      BY <2>2 DEF Accounts!claimsCleared
    <3>2. \A v \in Usernames : [rows[v] EXCEPT !.email = 0] \in AccountRow
      BY <2>0 DEF AccountRow
    <3>3. F \in [Usernames -> AccountRow]
      BY <2>0, <3>1, <3>2
    <3>4. \A v \in Usernames \ {u} : F[v] = rows[v] \/ (F[v] = [rows[v] EXCEPT !.email = 0] /\ ~rows[v].verified)
      BY <3>1
    <3>5. ASSUME NEW v \in Usernames \ {u}
          PROVE  /\ F[v].exists = rows[v].exists /\ F[v].pw = rows[v].pw
                 /\ F[v].verified = rows[v].verified
                 /\ F[v].email = rows[v].email \/ (F[v].email = 0 /\ ~rows[v].verified)
                 /\ rows[v].verified => F[v].email = rows[v].email
      <4>1. rows[v] \in AccountRow  BY <2>0
      <4>2. CASE F[v] = rows[v]  BY <4>2
      <4>3. CASE F[v] = [rows[v] EXCEPT !.email = 0] /\ ~rows[v].verified
        BY <4>1, <4>3 DEF AccountRow
      <4> QED  BY <3>4, <4>2, <4>3
    <3> QED  BY <3>3, <3>5
  <2> QED  BY <2>1, <2>2
<1>3. R = [exists |-> TRUE, pw |-> 0, email |-> email, verified |-> e, active |-> TRUE]
  BY DEF Accounts!Row
<1>4. R \in AccountRow /\ email \in {0, p} /\ (e => email = p /\ address # 0)
  <2>1. email \in {0, p} /\ (email # 0 => email = p /\ address # 0)
    OBVIOUS
  <2>2. e => email # 0
    BY Zenon
  <2>3. email \in People \cup {0}
    BY <2>1
  <2>4. R \in AccountRow
    BY <1>3, <2>3, FirstRow, Zenon
  <2> QED  BY <2>1, <2>2, <2>4
<1>5. /\ rows' \in [Usernames -> AccountRow] /\ rows'[u] = R
      /\ \A v \in Usernames \ {u} : rows'[v] = F[v]
  BY <1>1, <1>2, <1>4
<1>6. s \in [user : Usernames, person : People] /\ s.user = u /\ s.person = p
  BY DEF Accounts!Holds
<1>7. inboxes' \subseteq MailedLink /\ held' \subseteq [user : Usernames, person : People]
      /\ entered' \subseteq Usernames \cap People /\ NothingNewBut(u)
  BY <1>6 DEF AccountInv, AccountsTyped, NothingNewBut
<1>8. AccountsTyped'
  BY <1>5, <1>7 DEF AccountsTyped
<1>9. OthersKeep(u)
  BY <1>2, <1>5 DEF OthersKeep
<1>10. u \in People => OnlyBy(u)'
  BY <1>6, AccountFacts DEF Kept, OnlyBy
<1>11. Kept(u)'
  <2>1. rows'[u].exists /\ rows'[u].pw = 0 /\ rows'[u].email \in {0, p}
        /\ (rows'[u].verified => rows'[u].email = p /\ address # 0)
    BY <1>3, <1>4, <1>5
  <2>2. u \in People => rows'[u].email \in {0, u}
    BY <2>1
  <2>3. u \in People => Owned(u)'
    BY <1>10, <2>1, <2>2 DEF Owned
  <2> QED  BY <1>10, <2>1, <2>2, <2>3 DEF Kept
<1>12. rows'[u].email # 0 => \A v \in Usernames \ {u} : rows'[v].email # rows'[u].email
  BY <1>3, <1>5
<1>13. AccountInv'
  BY <1>8, <1>9, <1>11, <1>12, <1>7, AccountStep
<1>14. Accounts!Keeps
  <2>1. ~rows[u].verified
    BY AccountFacts DEF Kept
  <2> QED  BY <1>2, <1>5, <2>1 DEF Accounts!Keeps
<1> QED  BY <1>13, <1>14

-----------------------------------------------------------------------------
(* Administration.                                                         *)

LEMMA SetUserActiveKeepsAccounts ==
  ASSUME AccountInv, NEW u \in Usernames, NEW active \in BOOLEAN, Accounts!setUserActive(u, active)
  PROVE  AccountInv'
<1> PICK R : R = [rows[u] EXCEPT !.active = active]
  OBVIOUS
<1>1. /\ rows[u].exists
      /\ rows' = [rows EXCEPT ![u] = R]
      /\ held' \subseteq held
      /\ UNCHANGED <<inboxes, proofs, entered>>
  BY DEF Accounts!setUserActive, Accounts!Put, Accounts!Others, Accounts!Exists
<1>2. /\ R \in AccountRow /\ R.pw = rows[u].pw /\ R.email = rows[u].email /\ R.exists
      /\ R.verified = rows[u].verified
  BY <1>1, AccountFacts DEF AccountRow
<1>3. inboxes' \subseteq MailedLink /\ held' \subseteq [user : Usernames, person : People]
      /\ entered' \subseteq Usernames \cap People /\ NothingNewBut(u)
  BY <1>1 DEF AccountInv, AccountsTyped, NothingNewBut
<1>4. OnlyBy(u) => OnlyBy(u)'  BY <1>1 DEF OnlyBy
<1>5. (u \in People /\ R.pw = 0 => R.email \in {0, u} /\ OnlyBy(u)')
      /\ (R.verified => <<u, R.email>> \in proofs')
  BY <1>1, <1>2, <1>4, AccountFacts DEF Kept
<1>6. u \in People /\ (\/ u \in entered' \/ Accounts!Holds(u, u) \in held' \/ R.pw = u
                       \/ Accounts!Mail("verify", u, u) \in inboxes'
                       \/ R.verified /\ R.email = u) => Owned(u)
  BY <1>1, <1>2, Reached DEF WithinReach, Accounts!Holds
<1>7. Owned(u) => R.exists /\ R.pw \in {0, u} /\ R.email \in {0, u} /\ OnlyBy(u)'
  BY <1>1, <1>2, <1>4 DEF Owned
<1> QED  BY <1>1, <1>2, <1>3, <1>5, <1>6, <1>7, PutStep

LEMMA DeleteUserKeepsAccounts ==
  ASSUME AccountInv, NEW u \in Usernames, Accounts!deleteUser(u)
  PROVE  AccountInv'
<1> PICK R : R = [Accounts!Row(0, 0, FALSE) EXCEPT !.active = FALSE]
  OBVIOUS
<1>1. /\ rows' = [rows EXCEPT ![u] = R]
      /\ held' = {t \in held : t.user # u}
      /\ proofs' = {x \in proofs : x[1] # u}
      /\ UNCHANGED <<inboxes, entered>>
  BY DEF Accounts!deleteUser, Accounts!Put, Accounts!Others
<1>2. /\ R \in AccountRow /\ R.pw = 0 /\ R.email = 0 /\ R.exists /\ ~R.verified
  BY DEF AccountRow, Accounts!Row
<1>3. inboxes' \subseteq MailedLink /\ held' \subseteq [user : Usernames, person : People]
      /\ entered' \subseteq Usernames \cap People /\ NothingNewBut(u)
  BY <1>1 DEF AccountInv, AccountsTyped, NothingNewBut
<1>4. OnlyBy(u)'  BY <1>1 DEF OnlyBy
<1> QED  BY <1>1, <1>2, <1>3, <1>4, PutStep

LEMMA OidcSignInKeeps ==
  ASSUME AccountInv, NEW p \in People, NEW keyed \in BOOLEAN, NEW verified \in BOOLEAN,
         Accounts!oidcSignIn(p, keyed, verified)
  PROVE  AccountInv' /\ Accounts!Keeps
<1> PICK u : u = IF keyed THEN p ELSE Subject(p)
  OBVIOUS
<1> PICK address : address = IF verified THEN p ELSE 0
  OBVIOUS
<1>1. /\ u \in Usernames
      /\ keyed => verified
      /\ held' = held \cup {Accounts!Holds(p, u)}
      /\ entered' = IF keyed THEN entered \cup {u} ELSE entered
      /\ UNCHANGED inboxes
  BY DEF Accounts!oidcSignIn, Accounts!mint
<1>2. u \in People => keyed /\ u = p
  BY <1>1, AccountFacts
<1>3. entered' \subseteq entered \cup {u} /\ (u \in entered' => u \in People \/ u \in entered)
  BY <1>1
<1>4. CASE rows[u].exists
  <2>1. UNCHANGED <<rows, proofs>> /\ (keyed => Accounts!adoptableBy(u))
    BY <1>4 DEF Accounts!oidcSignIn, Accounts!Exists
  <2>2. AccountInv'
    BY <1>1, <1>2, <1>3, <1>4, <2>1, SignInAgainKeeps
  <2> QED  BY <2>1, <2>2 DEF Accounts!Keeps
<1>5. CASE ~rows[u].exists
  <2>1. /\ Accounts!firstSignIn(u, address)
        /\ IF verified THEN proofs' = proofs \cup {<<u, p>>} ELSE UNCHANGED proofs
    BY <1>5 DEF Accounts!oidcSignIn, Accounts!Exists, Accounts!Proves
  <2>2. proofs \subseteq proofs' /\ (address # 0 => <<u, p>> \in proofs') /\ address \in {0, p}
    BY <2>1
  <2> QED  BY <1>1, <1>2, <1>3, <1>5, <2>1, <2>2, FirstSignInKeeps
<1> QED  BY <1>4, <1>5

(* A write of one row takes no address away from another.                  *)
LEMMA PutTakesNothing ==
  ASSUME AccountInv, NEW u, NEW R, Accounts!Put(u, R)
  PROVE  Accounts!Keeps
BY DEF AccountInv, AccountsTyped, Accounts!Put, Accounts!Keeps

LEMMA SameRowsTakeNothing == UNCHANGED rows => Accounts!Keeps
BY DEF Accounts!Keeps

-----------------------------------------------------------------------------
LEMMA AccountsInit == Accounts!Init => AccountInv
<1> SUFFICES ASSUME Accounts!Init PROVE AccountInv
  OBVIOUS
<1>1. /\ rows = [u \in Usernames |-> Accounts!NoRow]
      /\ inboxes = {} /\ held = {} /\ proofs = {} /\ entered = {}
  BY DEF Accounts!Init
<1>2. Accounts!NoRow \in AccountRow
  BY DEF Accounts!NoRow, AccountRow
<1>3. \A u \in Usernames : /\ rows[u] = Accounts!NoRow /\ rows[u].pw = 0 /\ rows[u].email = 0
                           /\ ~rows[u].exists /\ ~rows[u].verified
  BY <1>1 DEF Accounts!NoRow
<1>4. AccountsTyped
  BY <1>1, <1>2 DEF AccountsTyped
<1>5. \A u \in Usernames : Kept(u)
  <2> SUFFICES ASSUME NEW u \in Usernames PROVE Kept(u)
    OBVIOUS
  <2>1. OnlyBy(u)  BY <1>1 DEF OnlyBy
  <2>2. u \in People => ~WithinReach(u)
    BY <1>1, <1>3, MCAuthAssumption DEF WithinReach, Accounts!AccountsAssumption
  <2> QED  BY <1>1, <1>3, <2>1, <2>2 DEF Kept
<1> QED  BY <1>3, <1>4, <1>5 DEF AccountInv, Accounts!AddressesAreDistinct

LEMMA AccountsNext ==
  ASSUME AccountInv, Accounts!Next
  PROVE  AccountInv' /\ Accounts!Keeps
<1>1. ASSUME NEW p \in People, NEW u \in Usernames, NEW a \in People \cup {0},
             Accounts!signup(p, u, a)
      PROVE  AccountInv' /\ Accounts!Keeps
  <2>1. Accounts!Keeps
    BY <1>1, PutTakesNothing DEF Accounts!signup
  <2> QED  BY <1>1, <2>1, SignupKeeps
<1>2. ASSUME NEW p \in People, NEW u \in Usernames, Accounts!login(p, u)
      PROVE  AccountInv' /\ Accounts!Keeps
  <2>1. Accounts!Keeps
    BY <1>2, SameRowsTakeNothing DEF Accounts!login
  <2> QED  BY <1>2, <2>1, LoginKeepsAccounts
<1>3. ASSUME NEW p \in People, NEW u \in Usernames, Accounts!changePassword(p, u)
      PROVE  AccountInv' /\ Accounts!Keeps
  <2>1. Accounts!Keeps
    BY <1>3, PutTakesNothing DEF Accounts!changePassword
  <2> QED  BY <1>3, <2>1, ChangePasswordKeeps
<1>4. ASSUME NEW p \in People, NEW u \in Usernames, NEW a \in People, Accounts!changeEmail(p, u, a)
      PROVE  AccountInv' /\ Accounts!Keeps
  <2>1. Accounts!Keeps
    BY <1>4, PutTakesNothing DEF Accounts!changeEmail
  <2> QED  BY <1>4, <2>1, AddressChangeKeeps
<1>5. ASSUME NEW p \in People, NEW u \in Usernames, Accounts!requestEmailVerification(p, u)
      PROVE  AccountInv' /\ Accounts!Keeps
  <2>1. Accounts!Keeps
    BY <1>5, SameRowsTakeNothing DEF Accounts!requestEmailVerification
  <2> QED  BY <1>5, <2>1, RequestEmailVerificationKeeps
<1>6. ASSUME NEW a \in People,
             Accounts!requestMagicLink(a) \/ Accounts!inviteUser(a) \/ Accounts!loginWithMagicLink(a)
      PROVE  AccountInv' /\ Accounts!Keeps
  <2>1. Accounts!requestMagicLink(a) => Accounts!Keeps
    BY SameRowsTakeNothing DEF Accounts!requestMagicLink
  <2>2. Accounts!inviteUser(a) => Accounts!Keeps
    BY SameRowsTakeNothing, PutTakesNothing DEF Accounts!inviteUser
  <2>3. Accounts!loginWithMagicLink(a) => Accounts!Keeps
    BY PutTakesNothing DEF Accounts!loginWithMagicLink
  <2> QED
    BY <1>6, <2>1, <2>2, <2>3, RequestMagicLinkKeeps, InviteKeeps, LoginWithMagicLinkKeeps
<1>7. ASSUME NEW u \in Usernames, NEW a \in People,
             \/ Accounts!requestPasswordReset(u, a)
             \/ Accounts!resetPassword(u, a)
             \/ Accounts!verifyEmail(u, a)
      PROVE  AccountInv' /\ Accounts!Keeps
  <2>1. Accounts!requestPasswordReset(u, a) => Accounts!Keeps
    BY SameRowsTakeNothing DEF Accounts!requestPasswordReset
  <2>2. Accounts!resetPassword(u, a) => Accounts!Keeps
    BY PutTakesNothing DEF Accounts!resetPassword
  <2>3. Accounts!verifyEmail(u, a) => Accounts!Keeps
    BY PutTakesNothing DEF Accounts!verifyEmail
  <2> QED
    BY <1>7, <2>1, <2>2, <2>3, RequestPasswordResetKeeps, ResetPasswordKeeps, VerifyEmailKeeps
<1>8. ASSUME NEW u \in Usernames,
             Accounts!deleteUser(u) \/ \E active \in BOOLEAN : Accounts!setUserActive(u, active)
      PROVE  AccountInv' /\ Accounts!Keeps
  <2>1. CASE Accounts!deleteUser(u)
    <3>1. Accounts!Keeps  BY <2>1, PutTakesNothing DEF Accounts!deleteUser
    <3> QED  BY <2>1, <3>1, DeleteUserKeepsAccounts
  <2>2. ASSUME NEW active \in BOOLEAN, Accounts!setUserActive(u, active)
        PROVE  AccountInv' /\ Accounts!Keeps
    <3>1. Accounts!Keeps  BY <2>2, PutTakesNothing DEF Accounts!setUserActive
    <3> QED  BY <2>2, <3>1, SetUserActiveKeepsAccounts
  <2> QED  BY <1>8, <2>1, <2>2
<1> QED
  BY <1>1, <1>2, <1>3, <1>4, <1>5, <1>6, <1>7, <1>8, OidcSignInKeeps DEF Accounts!Next

LEMMA AccountsStep ==
  AccountInv /\ [AuthNext]_authVars => AccountInv' /\ [part = "accounts" => Accounts!Keeps]_rows
<1> SUFFICES ASSUME AccountInv, [AuthNext]_authVars
             PROVE  AccountInv' /\ [part = "accounts" => Accounts!Keeps]_rows
  OBVIOUS
<1>1. CASE UNCHANGED accountVars
  <2>1. UNCHANGED <<rows, inboxes, held, proofs, entered>>
    BY <1>1 DEF accountVars
  <2>2. AccountsTyped' = AccountsTyped
    BY <2>1 DEF AccountsTyped
  <2>3. \A u \in Usernames : Kept(u)' = Kept(u)
    BY <2>1 DEF Kept, WithinReach, Owned, OnlyBy, Accounts!Holds, Accounts!Mail
  <2> QED  BY <2>1, <2>2, <2>3 DEF AccountInv, Accounts!AddressesAreDistinct
<1>2. CASE part = "accounts" /\ Accounts!Next
  BY <1>2, AccountsNext
<1> QED  BY <1>1, <1>2 DEF AuthNext, authVars, accountVars

LEMMA AccountsSound ==
  AccountInv => /\ Accounts!NoSharedAccount
                /\ Accounts!MarksAreEarned
                /\ Accounts!AddressesAreDistinct
<1> SUFFICES ASSUME AccountInv
             PROVE  Accounts!NoSharedAccount /\ Accounts!MarksAreEarned
  BY DEF AccountInv
<1>1. Accounts!MarksAreEarned
  BY AccountFacts DEF Accounts!MarksAreEarned, Kept
<1>2. \A u \in entered : u \in Usernames /\ Owned(u)
  BY Reached DEF AccountInv, AccountsTyped, WithinReach
<1> QED  BY <1>1, <1>2 DEF Accounts!NoSharedAccount, Owned, OnlyBy

(***************************************************************************)
(* However many people, names and addresses there are, and whatever they   *)
(* sign up, ask for and prove in which order: an account named after an    *)
(* address is its owner's alone once the owner proved the address; a mark  *)
(* as verified was earned for the address it stands on; no two accounts    *)
(* have one address; and what becomes of another account takes a verified  *)
(* address from nobody.                                                    *)
(***************************************************************************)
THEOREM AccountsStayTheirOwners == AuthSpec => AccountsAreOwn
<1>1. AuthInit => AccountInv
  BY AccountsInit DEF AuthInit
<1> QED  BY <1>1, AccountsSound, AccountsStep, PTL DEF AuthSpec, AccountsAreOwn
=============================================================================
