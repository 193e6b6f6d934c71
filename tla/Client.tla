------------------------------- MODULE Client -------------------------------
(***************************************************************************)
(* The live half of pramen's client (packages/client/src/index.ts): one    *)
(* socket, the subscriptions to replay on it, the two timers and the       *)
(* token, whose refusal may be learnt on a call or on the socket.          *)
(*                                                                         *)
(* JavaScript runs one event at a time: an API call, a socket event, a     *)
(* timer and an HTTP answer are one action each.  A socket that close() or *)
(* an error has touched is still to deliver its close event.  Timers fire  *)
(* at any time after they are set.                                         *)
(***************************************************************************)
EXTENDS Integers, FiniteSets

CONSTANTS
  Ids,         \* subscription ids; the client never reuses one
  Tokens,
  NoToken,     \* anonymous
  Sockets,     \* bound: socket objects alive at once, reused once closed
  NoSocket,
  MaxAttempts, \* maxReconnectAttempts: 8
  MaxSets      \* bound: calls of setToken

ClientAssumption ==
  /\ NoToken \notin Tokens
  /\ NoSocket \notin Sockets
  /\ MaxAttempts \in Nat
  /\ MaxSets \in Nat

VARIABLES
  me,       \* the variables of createClient
  socket,   \* every socket object
  calls,    \* tokens of HTTP calls under way
  used,     \* ids given out
  bad,      \* tokens the server refuses
  told,     \* history: who was told that the connection is down, since it is
  down,     \* history: refused with 4401, and setToken not called since
  chosen,   \* history: the token the app set last
  sets

vars == <<me, socket, calls, used, bad, told, down, chosen, sets>>

AnyToken == Tokens \cup {NoToken}
AnySocket == Sockets \cup {NoSocket}

(* retry, stable: reconnectTimer is set; the socket stableTimer is for. *)
Me == [token: AnyToken, subs: SUBSET Ids, ws: AnySocket, attempts: 0..MaxAttempts,
       retry: BOOLEAN, stable: AnySocket, closed: BOOLEAN]

(* held: the subscriptions the frames sent on it leave at the server. *)
Socket == [st: {"closed", "connecting", "open", "closing"}, sent: AnyToken, held: SUBSET Ids]

TypeOK ==
  /\ me \in Me
  /\ socket \in [Sockets -> Socket]
  /\ calls \in SUBSET Tokens
  /\ used \in SUBSET Ids
  /\ bad \in SUBSET Tokens
  /\ told \in SUBSET Ids
  /\ down \in BOOLEAN
  /\ chosen \in AnyToken
  /\ sets \in 0..MaxSets

noSocket == [st |-> "closed", sent |-> NoToken, held |-> {}]
connecting(token) == [st |-> "connecting", sent |-> token, held |-> {}]

Init ==
  /\ \E t \in AnyToken :
       /\ me = [token |-> t, subs |-> {}, ws |-> NoSocket, attempts |-> 0,
                retry |-> FALSE, stable |-> NoSocket, closed |-> FALSE]
       /\ chosen = t
  /\ socket = [w \in Sockets |-> noSocket]
  /\ calls = {}
  /\ used = {}
  /\ bad = {}
  /\ told = {}
  /\ down = FALSE
  /\ sets = 0

isOpen(w) == w # NoSocket /\ socket[w].st = "open"

(* ws.close() on the current socket, if any. *)
closing(s, w) == IF w = NoSocket THEN s ELSE [s EXCEPT ![w].st = "closing"]

-----------------------------------------------------------------------------
(***************************************************************************)
(* Each of these says how a handler ends, from the variables c and the     *)
(* sockets s it has come to; toldNow is who has been told so far.          *)
(***************************************************************************)
mayConnectTwice(c) == ~c.closed /\ c.subs # {}                \* mutant
mayConnect(c) == ~c.closed /\ c.ws = NoSocket /\ c.subs # {}

ensureSocket(c, s, toldNow) ==
  IF mayConnect(c)
    THEN \E w \in {v \in Sockets : s[v].st = "closed"} :
           /\ me' = [c EXCEPT !.ws = w]
           /\ socket' = [s EXCEPT ![w] = connecting(c.token)]
           /\ told' = {}
    ELSE me' = c /\ socket' = s /\ told' = toldNow

scheduleSilent(c, s) ==                  \* mutant: gives up and tells nobody
  /\ socket' = s
  /\ told' = told
  /\ me' = IF c.closed \/ c.retry \/ c.subs = {} \/ c.attempts >= MaxAttempts THEN c
           ELSE [c EXCEPT !.retry = TRUE, !.attempts = @ + 1]
scheduleOneMore(c, s) ==                 \* mutant: one attempt too many
  /\ socket' = s
  /\ told' = told
  /\ me' = IF c.closed \/ c.retry \/ c.subs = {} \/ c.attempts > MaxAttempts THEN c
           ELSE [c EXCEPT !.retry = TRUE, !.attempts = @ + 1]
scheduleReconnect(c, s) ==
  LET idle == c.closed \/ c.retry \/ c.subs = {}
      over == c.attempts >= MaxAttempts
  IN  /\ socket' = s
      /\ told' = IF ~idle /\ over THEN c.subs ELSE told
      /\ me' = IF idle \/ over THEN c ELSE [c EXCEPT !.retry = TRUE, !.attempts = @ + 1]

refusedAny(token, sent) == NoToken       \* mutant: whatever was set since is dropped
refused(token, sent) == IF token = sent THEN NoToken ELSE token

(* A frame on the current socket, if it is open. *)
withFrameNever(held) == socket           \* mutant: frames wait for the next open
withFrame(held) ==
  IF isOpen(me.ws) THEN [socket EXCEPT ![me.ws].held = held] ELSE socket

-----------------------------------------------------------------------------
(***************************************************************************)
(* The app.                                                                *)
(***************************************************************************)
subscribe(i) ==
  /\ i \notin used
  /\ used' = used \cup {i}
  /\ LET c == [me EXCEPT !.subs = @ \cup {i}]
     IN  IF isOpen(me.ws)
           THEN me' = c /\ socket' = withFrame(socket[me.ws].held \cup {i}) /\ UNCHANGED told
           ELSE ensureSocket(c, socket, told)
  /\ UNCHANGED <<calls, bad, down, chosen, sets>>

unsubscribe(i) ==
  /\ i \in me.subs
  /\ me' = [me EXCEPT !.subs = @ \ {i}]
  /\ socket' = IF isOpen(me.ws) THEN withFrame(socket[me.ws].held \ {i}) ELSE socket
  /\ told' = told \ {i}
  /\ UNCHANGED <<calls, used, bad, down, chosen, sets>>

setToken(t) ==
  /\ sets < MaxSets
  /\ sets' = sets + 1
  /\ chosen' = t
  /\ down' = FALSE
  /\ ensureSocket([me EXCEPT !.token = t, !.ws = NoSocket, !.retry = FALSE,
                             !.stable = NoSocket, !.attempts = 0],
                  closing(socket, me.ws), told)
  /\ UNCHANGED <<calls, used, bad>>

close ==
  /\ ~me.closed
  /\ me' = [me EXCEPT !.closed = TRUE, !.subs = {}, !.retry = FALSE,
                      !.stable = NoSocket, !.ws = NoSocket]
  /\ socket' = closing(socket, me.ws)
  /\ told' = {}
  /\ UNCHANGED <<calls, used, bad, down, chosen, sets>>

(* An HTTP call, and its answer. *)
call ==
  /\ me.token # NoToken
  /\ calls' = calls \cup {me.token}
  /\ UNCHANGED <<me, socket, used, bad, told, down, chosen, sets>>

callEnds(t) ==
  /\ t \in calls
  /\ calls' = calls \ {t}
  /\ \/ UNCHANGED me
     \/ t \in bad /\ me' = [me EXCEPT !.token = refused(@, t)]
  /\ UNCHANGED <<socket, used, bad, told, down, chosen, sets>>

-----------------------------------------------------------------------------
(***************************************************************************)
(* Socket events and timers.                                               *)
(***************************************************************************)
onOpen(w) ==
  /\ socket[w].st = "connecting"
  /\ socket' = [socket EXCEPT ![w].st = "open", ![w].held = me.subs]
  /\ me' = [me EXCEPT !.stable = w]
  /\ UNCHANGED <<calls, used, bad, told, down, chosen, sets>>

onError(w) ==
  /\ socket[w].st \in {"connecting", "open"}
  /\ socket' = [socket EXCEPT ![w].st = "closing"]
  /\ UNCHANGED <<me, calls, used, bad, told, down, chosen, sets>>

forgets(w) ==
  [me EXCEPT !.stable = NoSocket, !.ws = IF @ = w THEN NoSocket ELSE @]

(* Any close but a refusal of the current socket. *)
onClose(w) ==
  /\ socket[w].st # "closed"
  /\ scheduleReconnect(forgets(w), [socket EXCEPT ![w] = noSocket])
  /\ UNCHANGED <<calls, used, bad, down, chosen, sets>>

(* 4401: the server accepts a socket before it closes it this way. *)
onRefused(w) ==
  LET c == forgets(w)
  IN  /\ me.ws = w
      /\ socket[w].st = "open"
      /\ socket[w].sent \in bad
      /\ me' = [c EXCEPT !.token = refused(@, socket[w].sent)]
      /\ socket' = [socket EXCEPT ![w] = noSocket]
      /\ told' = me.subs
      /\ down' = TRUE
      /\ UNCHANGED <<calls, used, bad, chosen, sets>>

retryLost == FALSE                       \* mutant: the timer is set and never runs
retryFires ==
  /\ me.retry
  /\ ensureSocket([me EXCEPT !.retry = FALSE], socket, told)
  /\ UNCHANGED <<calls, used, bad, down, chosen, sets>>

stableFires ==
  /\ me.stable # NoSocket
  /\ me' = [me EXCEPT !.stable = NoSocket,
                      !.attempts = IF me.ws = me.stable THEN 0 ELSE @]
  /\ UNCHANGED <<socket, calls, used, bad, told, down, chosen, sets>>

(* The server revokes a token, or it expires. *)
revoke(t) ==
  /\ bad' = bad \cup {t}
  /\ UNCHANGED <<me, socket, calls, used, told, down, chosen, sets>>

Next ==
  \/ \E i \in Ids : subscribe(i) \/ unsubscribe(i)
  \/ \E t \in AnyToken : setToken(t)
  \/ close
  \/ call
  \/ \E t \in Tokens : callEnds(t) \/ revoke(t)
  \/ \E w \in Sockets : onOpen(w) \/ onError(w) \/ onClose(w) \/ onRefused(w)
  \/ retryFires
  \/ stableFires

settles(w) ==
  /\ socket[w].st \in {"connecting", "closing"}
  /\ onOpen(w) \/ onClose(w) \/ onRefused(w)

(* A socket that connects or closes gets there, and a retry timer fires.   *)
Fairness ==
  /\ WF_vars(retryFires)
  /\ \A w \in Sockets :
       WF_vars(settles(w))

Spec == Init /\ [][Next]_vars
FairSpec == Spec /\ Fairness

-----------------------------------------------------------------------------
(* What the server holds for the open socket is what the app is subscribed *)
(* to: nothing subscribed while it connected is missing, nothing cancelled *)
(* meanwhile is asked for.                                                 *)
WireMatches == isOpen(me.ws) => socket[me.ws].held = me.subs

(* No socket but the current one connects or is open: whatever stray close *)
(* events and timers come, results never arrive twice.                     *)
OneSocket == \A w \in Sockets : socket[w].st \in {"connecting", "open"} => w = me.ws

(* With no socket and no retry under way every subscriber has been told.   *)
NobodyStranded ==
  ~me.closed /\ me.ws = NoSocket /\ ~me.retry => me.subs \subseteq told

(* The client drops no token but the one that was refused: a late 401 of a *)
(* call, or a late 4401 of a socket, that was sent with an older token     *)
(* does not sign the new one out.                                          *)
TokenIsChosen ==
  \/ me.token = chosen
  \/ me.token = NoToken /\ chosen \in bad

(* Whoever subscribes is connected or told, unless it unsubscribes: also   *)
(* when sockets keep failing, and when the client closes.                  *)
EverySubscriberHears ==
  \A i \in Ids : (i \in me.subs) ~>
    \/ i \notin me.subs
    \/ me.closed
    \/ i \in told
    \/ isOpen(me.ws) /\ i \in socket[me.ws].held

(* ClientOptions: after a refusal "the live socket stays down until        *)
(* setToken".                                                              *)
StaysDown == down => me.ws = NoSocket
=============================================================================
