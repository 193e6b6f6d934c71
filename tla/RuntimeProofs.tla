--------------------------- MODULE RuntimeProofs ----------------------------
(***************************************************************************)
(* What keeps a running app going, for every value of the constants: the   *)
(* boot that invocations share (SharedBoot), the client's socket and its   *)
(* subscriptions (Client), the editor's canvas and forms (PageCanvas,      *)
(* PageScreen), the reconciliation of a deploy's schema (SchemaMigration), *)
(* the wake-up of the Durable Object (DoAlarm) and its live queries        *)
(* (LiveQueries).  Each has an inductive invariant of its own; the last    *)
(* section carries them to AppSpec, where the components stand side by     *)
(* side.                                                                   *)
(***************************************************************************)
EXTENDS MCRuntime, SequenceTheorems, FiniteSetTheorems, WellFoundedInduction, TLAPS

-----------------------------------------------------------------------------
(***************************************************************************)
(* The shared boot, for every set of invocations, every staleMs and every  *)
(* length of a boot.                                                       *)
(***************************************************************************)

(* An invocation that has not started a boot has none: ensure starts one   *)
(* only for a caller that is away or watches somebody else's, so starting  *)
(* never throws away a boot that has completed.                            *)
Unstarted == \A i \in Invocations : caller[i].pc \in {"away", "watch"} => boot[i].st = "none"

(* Whoever is served, a boot has completed, and it keeps being so because  *)
(* Unstarted protects completed boots.                                     *)
BootInv == TypeOK /\ Unstarted /\ ServedMeansBooted

-----------------------------------------------------------------------------
(* The pieces of ensure: what they do to the three variables.              *)

LEMMA StartKeeps ==
  ASSUME NEW i \in Invocations, BootInv, start(i), caller[i].pc \in {"away", "watch"}
  PROVE  BootInv'
<1>1. boot[i].st = "none"  BY DEF BootInv, Unstarted
<1>2. TypeOK'
  BY SharedBootAssumption DEF BootInv, TypeOK, start, Boot, Pc, at, SharedBootAssumption
<1>3. Unstarted'
  BY DEF BootInv, TypeOK, Unstarted, start, at, Boot, Pc
<1>4. ServedMeansBooted'
  <2> SUFFICES ASSUME NEW j \in Invocations, caller'[j].pc = "served"
               PROVE  \E b \in Invocations : boot'[b].st = "done"
    BY DEF ServedMeansBooted
  <2>1. caller[j].pc = "served"
    BY DEF BootInv, TypeOK, start, at
  <2>2. PICK b \in Invocations : boot[b].st = "done"
    BY <2>1 DEF BootInv, ServedMeansBooted
  <2>3. boot'[b] = boot[b]
    BY <1>1, <2>2 DEF BootInv, TypeOK, start
  <2> QED  BY <2>2, <2>3
<1> QED  BY <1>2, <1>3, <1>4 DEF BootInv

LEMMA JoinKeeps ==
  ASSUME NEW i \in Invocations, NEW b \in Invocations, BootInv, join(i, b),
         caller[i].pc \in {"away", "watch"}
  PROVE  BootInv'
<1>1. TypeOK'
  BY DEF BootInv, TypeOK, join, Pc, at, watching
<1>2. Unstarted'
  BY DEF BootInv, TypeOK, Unstarted, join, at, watching
<1>3. ServedMeansBooted'
  BY DEF BootInv, TypeOK, ServedMeansBooted, join, at, watching
<1> QED  BY <1>1, <1>2, <1>3 DEF BootInv

(* Whoever awaited boot i hears of it; nobody else moves but i itself.     *)
LEMMA AnswerMoves ==
  ASSUME NEW i \in Invocations, TypeOK, NEW p \in {"served", "failed"}, answer(i, p)
  PROVE  /\ caller' \in [Invocations -> [pc: Pc, on: Invocations \cup {None}]]
         /\ \A j \in Invocations :
              \/ caller'[j] = caller[j] /\ j # i
              \/ caller'[j].pc = p
              \/ caller'[j].pc = "gone"
BY DEF TypeOK, answer, at, watching, Pc

-----------------------------------------------------------------------------

(* A boot's record changes its state, its clock or what it has left.       *)
LEMMA BootFields ==
  ASSUME NEW b \in Boot
  PROVE  /\ \A st \in {"done", "failed"} : [b EXCEPT !.st = st, !.idle = 0] \in Boot
         /\ b.left > 0 => [b EXCEPT !.left = @ - 1, !.idle = 0] \in Boot
<1> USE SharedBootAssumption DEF SharedBootAssumption
<1>1. ASSUME NEW c \in Boot PROVE [c EXCEPT !.idle = 0] \in Boot
  <2>1. 0 \in 0..STALE  OBVIOUS
  <2> QED  BY <2>1 DEF Boot
<1>2. ASSUME NEW st \in {"done", "failed"} PROVE [b EXCEPT !.st = st, !.idle = 0] \in Boot
  <2>1. [b EXCEPT !.st = st] \in Boot  BY DEF Boot
  <2> QED  BY <1>1, <2>1
<1>3. ASSUME b.left > 0 PROVE [b EXCEPT !.left = @ - 1, !.idle = 0] \in Boot
  <2>1. b.left - 1 \in 0..WORK  BY <1>3 DEF Boot
  <2>2. [b EXCEPT !.left = b.left - 1] \in Boot  BY <2>1 DEF Boot
  <2> QED  BY <1>1, <2>2
<1> QED  BY <1>2, <1>3

LEMMA BootInit == Init => BootInv
BY SharedBootAssumption
DEF Init, BootInv, TypeOK, Unstarted, ServedMeansBooted, Boot, Pc, at, SharedBootAssumption

LEMMA BootStep == BootInv /\ [Next]_vars => BootInv'
<1> SUFFICES ASSUME BootInv, [Next]_vars PROVE BootInv'
  OBVIOUS
<1> USE SharedBootAssumption DEF SharedBootAssumption
<1>1. ASSUME NEW i \in Invocations, ensure(i) PROVE BootInv'
  <2>1. CASE start(i)  BY <1>1, <2>1, StartKeeps DEF ensure
  <2>2. CASE join(i, current) /\ current \in Invocations
    BY <1>1, <2>2, JoinKeeps DEF ensure
  <2> QED  BY <1>1, <2>1, <2>2 DEF ensure, BootInv, TypeOK
<1>2. ASSUME NEW i \in Invocations, watchTimesOut(i) PROVE BootInv'
  <2>1. CASE start(i)  BY <1>2, <2>1, StartKeeps DEF watchTimesOut
  <2>2. CASE join(i, current) /\ current \in Invocations
    BY <1>2, <2>2, JoinKeeps DEF watchTimesOut
  <2> QED  BY <1>2, <2>1, <2>2 DEF watchTimesOut, BootInv, TypeOK
<1>3. ASSUME NEW i \in Invocations, statement(i) PROVE BootInv'
  <2>1. TypeOK'
    <3>1. boot[i] \in Boot  BY DEF BootInv, TypeOK
    <3>2. [boot[i] EXCEPT !.left = @ - 1, !.idle = 0] \in Boot
      BY <1>3, <3>1, BootFields DEF statement
    <3>3. boot' = [boot EXCEPT ![i] = [boot[i] EXCEPT !.left = @ - 1, !.idle = 0]]
      BY <1>3 DEF statement
    <3> QED  BY <1>3, <3>2, <3>3 DEF BootInv, TypeOK, statement
  <2>2. \A j \in Invocations : boot'[j].st = boot[j].st
    BY <1>3 DEF BootInv, TypeOK, statement, Boot
  <2> QED  BY <1>3, <2>1, <2>2 DEF BootInv, Unstarted, ServedMeansBooted, statement
<1>4. ASSUME NEW i \in Invocations, succeed(i) PROVE BootInv'
  <2>1. TypeOK'
    <3>1. boot[i] \in Boot  BY DEF BootInv, TypeOK
    <3>2. [boot[i] EXCEPT !.st = "done", !.idle = 0] \in Boot
      BY <3>1, BootFields
    <3>3. boot' = [boot EXCEPT ![i] = [boot[i] EXCEPT !.st = "done", !.idle = 0]]
      BY <1>4 DEF succeed
    <3>4. boot' \in [Invocations -> Boot]  BY <3>2, <3>3 DEF BootInv, TypeOK
    <3>5. caller' \in [Invocations -> [pc: Pc, on: Invocations \cup {None}]]
      BY <1>4, AnswerMoves DEF BootInv, succeed
    <3> QED  BY <1>4, <3>4, <3>5 DEF BootInv, TypeOK, succeed
  <2>2. /\ boot'[i].st = "done"
        /\ \A j \in Invocations \ {i} : boot'[j] = boot[j]
    BY <1>4 DEF BootInv, TypeOK, succeed, Boot
  <2>3. Unstarted'
    BY <1>4, <2>2, AnswerMoves DEF BootInv, Unstarted, succeed
  <2> QED  BY <2>1, <2>2, <2>3 DEF BootInv, ServedMeansBooted
<1>5. ASSUME NEW i \in Invocations, fail(i) PROVE BootInv'
  <2>1. TypeOK'
    <3>1. boot[i] \in Boot  BY DEF BootInv, TypeOK
    <3>2. [boot[i] EXCEPT !.st = "failed", !.idle = 0] \in Boot
      BY <3>1, BootFields
    <3>3. boot' = [boot EXCEPT ![i] = [boot[i] EXCEPT !.st = "failed", !.idle = 0]]
      BY <1>5 DEF fail
    <3>4. boot' \in [Invocations -> Boot]  BY <3>2, <3>3 DEF BootInv, TypeOK
    <3>5. caller' \in [Invocations -> [pc: Pc, on: Invocations \cup {None}]]
      BY <1>5, AnswerMoves DEF BootInv, fail
    <3> QED  BY <1>5, <3>4, <3>5 DEF BootInv, TypeOK, fail, forget
  <2>2. /\ boot[i].st = "running"
        /\ \A j \in Invocations \ {i} : boot'[j] = boot[j]
    BY <1>5 DEF BootInv, TypeOK, fail, runs, Boot
  <2>3. Unstarted'
    BY <1>5, <2>2, AnswerMoves DEF BootInv, Unstarted, fail
  <2>4. ServedMeansBooted'
    <3> SUFFICES ASSUME NEW j \in Invocations, caller'[j].pc = "served"
                 PROVE  \E b \in Invocations : boot'[b].st = "done"
      BY DEF ServedMeansBooted
    <3>1. caller[j].pc = "served"  BY <1>5, AnswerMoves DEF BootInv, fail
    <3> QED  BY <2>2, <3>1 DEF BootInv, ServedMeansBooted
  <2> QED  BY <2>1, <2>3, <2>4 DEF BootInv
<1>6. ASSUME NEW i \in Invocations, disconnect(i) \/ cutOff(i) PROVE BootInv'
  <2>1. TypeOK'  BY <1>6 DEF BootInv, TypeOK, disconnect, cutOff, at, Pc
  <2>2. /\ boot' = boot
        /\ \A j \in Invocations : \/ caller'[j] = caller[j]
                                  \/ caller'[j].pc \in {"detached", "gone"}
    BY <1>6 DEF BootInv, TypeOK, disconnect, cutOff, at
  <2> QED  BY <2>1, <2>2 DEF BootInv, Unstarted, ServedMeansBooted
<1>7. ASSUME tick PROVE BootInv'
  <2>1. TypeOK'  BY <1>7 DEF BootInv, TypeOK, tick, Boot
  <2>2. caller' = caller /\ \A j \in Invocations : boot'[j].st = boot[j].st
    BY <1>7 DEF BootInv, TypeOK, tick, Boot
  <2> QED  BY <2>1, <2>2 DEF BootInv, Unstarted, ServedMeansBooted
<1>8. CASE UNCHANGED vars
  BY <1>8 DEF BootInv, TypeOK, Unstarted, ServedMeansBooted, vars
<1> QED
  BY <1>1, <1>2, <1>3, <1>4, <1>5, <1>6, <1>7, <1>8 DEF Next, proceeds, bootStep

(***************************************************************************)
(* The memo, the boots and the callers keep their types.                   *)
(***************************************************************************)
THEOREM BootIsTyped == Spec => []TypeOK
<1>1. BootInv => TypeOK  BY DEF BootInv
<1> QED  BY BootInit, BootStep, <1>1, PTL DEF Spec

(***************************************************************************)
(* No request goes on before a boot of its isolate has completed.          *)
(***************************************************************************)
THEOREM NobodyIsServedUnbooted == Spec => []ServedMeansBooted
<1>1. BootInv => ServedMeansBooted  BY DEF BootInv
<1> QED  BY BootInit, BootStep, <1>1, PTL DEF Spec

(***************************************************************************)
(* The memo is given up only by a boot that failed or stood still.         *)
(***************************************************************************)
LEMMA MemoStep ==
  ASSUME TypeOK, [Next]_vars, current' # current
  PROVE  \/ current = None
         \/ isStale(current)
         \/ boot'[current].st = "failed"
<1> SUFFICES ASSUME current # None, ~isStale(current) PROVE boot'[current].st = "failed"
  OBVIOUS
<1>1. current \in Invocations  BY DEF TypeOK
<1>2. ASSUME NEW i \in Invocations, ensure(i) PROVE FALSE
  BY <1>2 DEF ensure, join
<1>3. ASSUME NEW i \in Invocations, watchTimesOut(i) PROVE FALSE
  BY <1>1, <1>3 DEF watchTimesOut, join
<1>4. ASSUME NEW i \in Invocations, fail(i) PROVE boot'[current].st = "failed"
  BY <1>1, <1>4 DEF fail, forget, TypeOK, Boot
<1>5. ASSUME NEW i \in Invocations,
             statement(i) \/ succeed(i) \/ disconnect(i) \/ cutOff(i) \/ tick
      PROVE  FALSE
  BY <1>5 DEF statement, succeed, disconnect, cutOff, tick
<1> QED
  BY <1>2, <1>3, <1>4, <1>5, <1>1 DEF Next, proceeds, bootStep, vars

THEOREM TheMemoIsKept == Spec => MemoKept
<1>1. TypeOK /\ [Next]_vars =>
        [current' # current =>
           current = None \/ isStale(current) \/ boot'[current].st = "failed"]_vars
  BY MemoStep
<1> QED  BY BootIsTyped, <1>1, PTL DEF Spec, MemoKept

-----------------------------------------------------------------------------
(***************************************************************************)
(* The client.                                                             *)
(***************************************************************************)
TwoSockets == {x1, x2}

LEMMA NoSocketIsNoSocket == NoSocket \notin TwoSockets
BY ComponentAssumptions DEF ComponentAssumptions, Wire!ClientAssumption, TwoSockets

WireTyped ==
  /\ me \in [token: Wire!AnyToken, subs: SUBSET Subs, ws: TwoSockets \cup {NoSocket},
             attempts: 0..2, retry: BOOLEAN, stable: TwoSockets \cup {NoSocket},
             closed: BOOLEAN]
  /\ socket \in [TwoSockets -> Wire!Socket]
  /\ bad \subseteq Tokens

WireInv == WireTyped /\ Wire!WireMatches /\ Wire!NobodyStranded

(* The tail of a handler which may open a socket: from a state of the      *)
(* variables in which the invariant holds but for a missing socket, it     *)
(* holds again.                                                            *)
LEMMA EnsureSocketKeeps ==
  ASSUME NEW c \in [token: Wire!AnyToken, subs: SUBSET Subs, ws: TwoSockets \cup {NoSocket},
                    attempts: 0..2, retry: BOOLEAN, stable: TwoSockets \cup {NoSocket},
                    closed: BOOLEAN],
         NEW s \in [TwoSockets -> Wire!Socket], NEW now,
         c.ws # NoSocket /\ s[c.ws].st = "open" => s[c.ws].held = c.subs,
         Wire!ensureSocket(c, s, now)
  PROVE  /\ me' \in [token: Wire!AnyToken, subs: SUBSET Subs, ws: TwoSockets \cup {NoSocket},
                     attempts: 0..2, retry: BOOLEAN, stable: TwoSockets \cup {NoSocket},
                     closed: BOOLEAN]
         /\ socket' \in [TwoSockets -> Wire!Socket]
         /\ Wire!WireMatches'
         /\ Wire!NobodyStranded'
<1>1. CASE Wire!mayConnect(c)
  <2>1. PICK w \in TwoSockets : /\ me' = [c EXCEPT !.ws = w]
                                /\ socket' = [s EXCEPT ![w] = Wire!connecting(c.token)]
    BY <1>1 DEF Wire!ensureSocket, TwoSockets
  <2>2. Wire!connecting(c.token) \in Wire!Socket
    BY DEF Wire!connecting, Wire!Socket, Wire!AnyToken
  <2>3. me'.ws = w /\ socket'[w].st = "connecting"
    BY <2>1 DEF Wire!connecting
  <2> QED
    BY <2>1, <2>2, <2>3, NoSocketIsNoSocket
    DEF Wire!WireMatches, Wire!NobodyStranded, Wire!isOpen
<1>2. CASE ~Wire!mayConnect(c)
  <2>1. me' = c /\ socket' = s  BY <1>2 DEF Wire!ensureSocket
  <2>2. Wire!WireMatches'  BY <2>1 DEF Wire!WireMatches, Wire!isOpen
  <2>3. Wire!NobodyStranded'  BY <1>2, <2>1 DEF Wire!NobodyStranded, Wire!mayConnect
  <2> QED  BY <2>1, <2>2, <2>3
<1> QED  BY <1>1, <1>2

LEMMA WireInit == Wire!Init => WireInv
BY NoSocketIsNoSocket
DEF Wire!Init, WireInv, WireTyped, Wire!WireMatches, Wire!NobodyStranded, Wire!isOpen,
    Wire!noSocket, Wire!Socket, Wire!AnyToken, TwoSockets

LEMMA WireStep == WireInv /\ [Wire!Next]_wireVars => WireInv'
<1> SUFFICES ASSUME WireInv, [Wire!Next]_wireVars PROVE WireInv'
  OBVIOUS
<1> DEFINE M == [token: Wire!AnyToken, subs: SUBSET Subs, ws: TwoSockets \cup {NoSocket},
                 attempts: 0..2, retry: BOOLEAN, stable: TwoSockets \cup {NoSocket},
                 closed: BOOLEAN]
<1>0. /\ me \in M /\ socket \in [TwoSockets -> Wire!Socket] /\ bad \subseteq Tokens
      /\ Wire!WireMatches /\ Wire!NobodyStranded
  BY DEF WireInv, WireTyped
<1>1. ASSUME NEW i \in Subs, Wire!subscribe(i) PROVE WireInv'
  <2> DEFINE c == [me EXCEPT !.subs = @ \cup {i}]
  <2>1. c \in M /\ c.ws = me.ws /\ c.subs = me.subs \cup {i}  BY <1>0
  <2>2. CASE Wire!isOpen(me.ws)
    <3>1. /\ me.ws \in TwoSockets /\ me.ws # NoSocket
          /\ me' = c
          /\ socket' = [socket EXCEPT ![me.ws].held = socket[me.ws].held \cup {i}]
      BY <1>0, <1>1, <2>2 DEF Wire!subscribe, Wire!isOpen, Wire!withFrame
    <3>2. socket[me.ws].held = me.subs  BY <1>0, <2>2 DEF Wire!WireMatches
    <3>3. /\ socket' \in [TwoSockets -> Wire!Socket]
          /\ socket'[me.ws].held = me.subs \cup {i}
      BY <1>0, <3>1, <3>2 DEF Wire!Socket
    <3> QED
      BY <1>0, <1>1, <2>1, <3>1, <3>3
      DEF WireInv, WireTyped, Wire!WireMatches, Wire!NobodyStranded, Wire!isOpen, Wire!subscribe
  <2>3. CASE ~Wire!isOpen(me.ws)
    <3>1. Wire!ensureSocket(c, socket, told)  BY <1>1, <2>3 DEF Wire!subscribe
    <3>2. ~(c.ws # NoSocket /\ socket[c.ws].st = "open")  BY <2>1, <2>3 DEF Wire!isOpen
    <3> HIDE DEF c
    <3> QED
      BY <1>0, <1>1, <2>1, <3>1, <3>2, EnsureSocketKeeps DEF WireInv, WireTyped, Wire!subscribe
  <2> QED  BY <2>2, <2>3
<1>2. ASSUME NEW i \in Subs, Wire!unsubscribe(i) PROVE WireInv'
  <2> DEFINE c == [me EXCEPT !.subs = @ \ {i}]
  <2>1. /\ c \in M /\ c.ws = me.ws /\ c.subs = me.subs \ {i} /\ me' = c
        /\ c.closed = me.closed /\ c.retry = me.retry
        /\ told' = told \ {i}
    BY <1>0, <1>2 DEF Wire!unsubscribe
  <2>2. Wire!NobodyStranded'  BY <1>0, <2>1 DEF Wire!NobodyStranded
  <2>3. CASE Wire!isOpen(me.ws)
    <3>1. /\ me.ws \in TwoSockets /\ me.ws # NoSocket
          /\ socket' = [socket EXCEPT ![me.ws].held = socket[me.ws].held \ {i}]
      BY <1>0, <1>2, <2>3 DEF Wire!unsubscribe, Wire!isOpen, Wire!withFrame
    <3>2. socket[me.ws].held = me.subs  BY <1>0, <2>3 DEF Wire!WireMatches
    <3>3. /\ socket' \in [TwoSockets -> Wire!Socket]
          /\ socket'[me.ws].held = me.subs \ {i}
      BY <1>0, <3>1, <3>2 DEF Wire!Socket
    <3> QED
      BY <1>0, <1>2, <2>1, <2>2, <3>3
      DEF WireInv, WireTyped, Wire!WireMatches, Wire!isOpen, Wire!unsubscribe
  <2>4. CASE ~Wire!isOpen(me.ws)
    <3>1. socket' = socket  BY <1>2, <2>4 DEF Wire!unsubscribe
    <3> QED
      BY <1>0, <1>2, <2>1, <2>2, <2>4, <3>1
      DEF WireInv, WireTyped, Wire!WireMatches, Wire!isOpen, Wire!unsubscribe
  <2> QED  BY <2>3, <2>4
<1>3. ASSUME NEW t \in Wire!AnyToken, Wire!setToken(t) PROVE WireInv'
  <2> DEFINE c == [me EXCEPT !.token = t, !.ws = NoSocket, !.retry = FALSE,
                             !.stable = NoSocket, !.attempts = 0]
             s == Wire!closing(socket, me.ws)
  <2>1. c \in M /\ c.ws = NoSocket
    <3>1. PICK d : d = [me EXCEPT !.token = t, !.ws = NoSocket, !.retry = FALSE]  OBVIOUS
    <3>2. d \in M /\ d.ws = NoSocket  BY <1>0, <1>3, <3>1
    <3>3. c = [d EXCEPT !.stable = NoSocket, !.attempts = 0]  BY <3>1
    <3>4. 0 \in 0..2  OBVIOUS
    <3> HIDE DEF c
    <3> QED  BY <3>2, <3>3, <3>4
  <2>2. s \in [TwoSockets -> Wire!Socket]  BY <1>0 DEF Wire!closing, Wire!Socket
  <2>3. Wire!ensureSocket(c, s, told) /\ bad' = bad  BY <1>3 DEF Wire!setToken
  <2> HIDE DEF c, s
  <2> QED  BY <1>0, <2>1, <2>2, <2>3, EnsureSocketKeeps DEF WireInv, WireTyped
<1>4. ASSUME Wire!close PROVE WireInv'
  <2>1. me' \in M /\ me'.ws = NoSocket /\ me'.closed /\ bad' = bad  BY <1>0, <1>4 DEF Wire!close
  <2>2. socket' \in [TwoSockets -> Wire!Socket]
    BY <1>0, <1>4 DEF Wire!close, Wire!closing, Wire!Socket
  <2> QED
    BY <1>0, <2>1, <2>2 DEF WireInv, WireTyped, Wire!WireMatches, Wire!NobodyStranded, Wire!isOpen
<1>5. ASSUME NEW t \in Tokens, Wire!callEnds(t) PROVE WireInv'
  <2>1. /\ me' \in M /\ me'.ws = me.ws /\ me'.subs = me.subs /\ me'.closed = me.closed
        /\ me'.retry = me.retry
    BY <1>0, <1>5 DEF Wire!callEnds, Wire!refused, Wire!AnyToken
  <2>2. socket' = socket /\ bad' = bad /\ told' = told  BY <1>5 DEF Wire!callEnds
  <2> QED
    BY <1>0, <2>1, <2>2 DEF WireInv, WireTyped, Wire!WireMatches, Wire!NobodyStranded, Wire!isOpen
<1>6. ASSUME NEW t \in Tokens, Wire!revoke(t) PROVE WireInv'
  BY <1>0, <1>6
  DEF Wire!revoke, WireInv, WireTyped, Wire!WireMatches, Wire!NobodyStranded, Wire!isOpen
<1>7. ASSUME NEW w \in TwoSockets, Wire!onOpen(w) PROVE WireInv'
  <2>1. /\ me' = [me EXCEPT !.stable = w]
        /\ socket' = [socket EXCEPT ![w] = [socket[w] EXCEPT !.st = "open", !.held = me.subs]]
        /\ bad' = bad /\ told' = told
    BY <1>0, <1>7 DEF Wire!onOpen
  <2>2. [socket[w] EXCEPT !.st = "open", !.held = me.subs] \in Wire!Socket
    <3>1. me.subs \in SUBSET Subs  BY <1>0
    <3>2. socket[w] \in Wire!Socket  BY <1>0
    <3> QED  BY <3>1, <3>2 DEF Wire!Socket
  <2>3. socket' \in [TwoSockets -> Wire!Socket]  BY <1>0, <2>1, <2>2
  <2>4. /\ me' \in M /\ me'.ws = me.ws /\ me'.subs = me.subs /\ me'.closed = me.closed
        /\ me'.retry = me.retry
    BY <1>0, <2>1
  <2>5. socket'[w].held = me.subs /\ \A v \in TwoSockets \ {w} : socket'[v] = socket[v]
    <3>1. socket[w] \in Wire!Socket  BY <1>0
    <3> QED  BY <1>0, <2>1, <3>1 DEF Wire!Socket
  <2> QED
    BY <1>0, <2>1, <2>3, <2>4, <2>5
    DEF WireInv, WireTyped, Wire!WireMatches, Wire!NobodyStranded, Wire!isOpen
<1>8. ASSUME NEW w \in TwoSockets, Wire!onError(w) PROVE WireInv'
  <2>1. /\ me' = me /\ socket' = [socket EXCEPT ![w].st = "closing"]
        /\ bad' = bad /\ told' = told
    BY <1>8 DEF Wire!onError
  <2>2. /\ socket' \in [TwoSockets -> Wire!Socket]
        /\ socket'[w].st # "open" /\ \A v \in TwoSockets \ {w} : socket'[v] = socket[v]
    BY <1>0, <2>1 DEF Wire!Socket
  <2> QED
    BY <1>0, <2>1, <2>2
    DEF WireInv, WireTyped, Wire!WireMatches, Wire!NobodyStranded, Wire!isOpen
<1>9. ASSUME NEW w \in TwoSockets PROVE
        /\ Wire!forgets(w) \in M
        /\ Wire!forgets(w).ws \in {NoSocket, me.ws} \ {w}
        /\ Wire!forgets(w).subs = me.subs /\ Wire!forgets(w).closed = me.closed
        /\ Wire!forgets(w).retry = me.retry
  BY <1>0, NoSocketIsNoSocket DEF Wire!forgets
<1>10. ASSUME NEW w \in TwoSockets PROVE
        /\ [socket EXCEPT ![w] = Wire!noSocket] \in [TwoSockets -> Wire!Socket]
        /\ \A v \in TwoSockets \ {w} : [socket EXCEPT ![w] = Wire!noSocket][v] = socket[v]
  <2>1. Wire!noSocket \in Wire!Socket  BY DEF Wire!noSocket, Wire!Socket, Wire!AnyToken
  <2> QED  BY <1>0, <2>1
<1>11. ASSUME NEW w \in TwoSockets, Wire!onClose(w) PROVE WireInv'
  <2>1. PICK c : c = Wire!forgets(w)  OBVIOUS
  <2>2. PICK s : s = [socket EXCEPT ![w] = Wire!noSocket]  OBVIOUS
  <2>3. Wire!scheduleReconnect(c, s) /\ bad' = bad  BY <1>11, <2>1, <2>2 DEF Wire!onClose
  <2>4. /\ c \in M /\ c.ws \in {NoSocket, me.ws} \ {w}
        /\ c.subs = me.subs /\ c.closed = me.closed /\ c.retry = me.retry
    BY <1>9, <2>1
  <2>5. s \in [TwoSockets -> Wire!Socket] /\ \A v \in TwoSockets \ {w} : s[v] = socket[v]
    BY <1>10, <2>2
  <2>6. /\ me' \in M /\ me'.ws = c.ws /\ me'.subs = me.subs /\ me'.closed = me.closed
    <3>1. CASE me' = c  BY <2>4, <3>1
    <3>2. CASE c.attempts < 2 /\ me' = [c EXCEPT !.retry = TRUE, !.attempts = @ + 1]
      <4>1. c.attempts \in 0..2  BY <2>4
      <4>2. c.attempts + 1 \in 0..2  BY <3>2, <4>1
      <4>3. [c EXCEPT !.retry = TRUE, !.attempts = c.attempts + 1] \in M  BY <2>4, <4>2
      <4> QED  BY <2>4, <3>2, <4>3
    <3>3. c.attempts \in 0..2  BY <2>4
    <3> QED  BY <2>3, <3>1, <3>2, <3>3 DEF Wire!scheduleReconnect
  <2>7. socket' = s  BY <2>3 DEF Wire!scheduleReconnect
  <2>8. Wire!WireMatches'
    BY <1>0, <2>4, <2>5, <2>6, <2>7 DEF Wire!WireMatches, Wire!isOpen
  <2>9. Wire!NobodyStranded'
    <3>1. CASE c.closed \/ c.subs = {}  BY <2>4, <2>6, <3>1 DEF Wire!NobodyStranded
    <3>2. CASE ~(c.closed \/ c.subs = {}) /\ c.retry
      <4>1. me' = c  BY <2>3, <3>2 DEF Wire!scheduleReconnect
      <4> QED  BY <3>2, <4>1 DEF Wire!NobodyStranded
    <3>3. CASE ~(c.closed \/ c.subs = {} \/ c.retry)
      <4>1. CASE c.attempts >= 2
        BY <2>3, <2>4, <2>6, <3>3, <4>1 DEF Wire!scheduleReconnect, Wire!NobodyStranded
      <4>2. CASE ~(c.attempts >= 2)
        <5>1. me' = [c EXCEPT !.retry = TRUE, !.attempts = @ + 1]
          BY <2>3, <3>3, <4>2 DEF Wire!scheduleReconnect
        <5>2. me'.retry  BY <2>4, <5>1
        <5> QED  BY <5>2 DEF Wire!NobodyStranded
      <4> QED  BY <4>1, <4>2
    <3> QED  BY <3>1, <3>2, <3>3
  <2> QED  BY <1>0, <2>3, <2>5, <2>6, <2>7, <2>8, <2>9 DEF WireInv, WireTyped
<1>12. ASSUME NEW w \in TwoSockets, Wire!onRefused(w) PROVE WireInv'
  <2>1. PICK c : c = Wire!forgets(w)  OBVIOUS
  <2>2. /\ c \in M /\ c.ws \in {NoSocket, me.ws} \ {w}
        /\ c.subs = me.subs /\ c.closed = me.closed /\ c.retry = me.retry
    BY <1>9, <2>1
  <2>3. socket[w].sent \in Tokens  BY <1>0, <1>12 DEF Wire!onRefused
  <2>4. /\ me' = [c EXCEPT !.token = Wire!refused(@, socket[w].sent)]
        /\ socket' = [socket EXCEPT ![w] = Wire!noSocket]
        /\ told' = me.subs /\ bad' = bad /\ me.ws = w
    BY <1>12, <2>1 DEF Wire!onRefused
  <2>5. /\ me' \in M /\ me'.ws = NoSocket /\ me'.subs = me.subs
    BY <2>2, <2>3, <2>4 DEF Wire!refused, Wire!AnyToken
  <2>6. socket' \in [TwoSockets -> Wire!Socket]  BY <1>10, <2>4
  <2> QED
    BY <1>0, <2>4, <2>5, <2>6
    DEF WireInv, WireTyped, Wire!WireMatches, Wire!NobodyStranded, Wire!isOpen
<1>13. ASSUME Wire!retryFires PROVE WireInv'
  <2>1. PICK c : c = [me EXCEPT !.retry = FALSE]  OBVIOUS
  <2>2. c \in M /\ c.ws = me.ws /\ c.subs = me.subs  BY <1>0, <2>1
  <2>3. Wire!ensureSocket(c, socket, told) /\ bad' = bad  BY <1>13, <2>1 DEF Wire!retryFires
  <2>4. c.ws # NoSocket /\ socket[c.ws].st = "open" => socket[c.ws].held = c.subs
    BY <1>0, <2>2 DEF Wire!WireMatches, Wire!isOpen
  <2> QED  BY <1>0, <2>2, <2>3, <2>4, EnsureSocketKeeps DEF WireInv, WireTyped
<1>14. ASSUME Wire!stableFires PROVE WireInv'
  <2>1. /\ me' \in M /\ me'.ws = me.ws /\ me'.subs = me.subs /\ me'.closed = me.closed
        /\ me'.retry = me.retry
    <3>1. PICK n : n = IF me.ws = me.stable THEN 0 ELSE me.attempts  OBVIOUS
    <3>2. n \in 0..2
      <4>1. me.attempts \in 0..2  BY <1>0
      <4> QED  BY <3>1, <4>1
    <3>3. me' = [me EXCEPT !.stable = NoSocket, !.attempts = n]
      BY <1>0, <1>14, <3>1 DEF Wire!stableFires
    <3> QED  BY <1>0, <3>2, <3>3
  <2>2. socket' = socket /\ bad' = bad /\ told' = told  BY <1>14 DEF Wire!stableFires
  <2> QED
    BY <1>0, <2>1, <2>2 DEF WireInv, WireTyped, Wire!WireMatches, Wire!NobodyStranded, Wire!isOpen
<1>15. CASE Wire!call \/ UNCHANGED wireVars
  BY <1>0, <1>15
  DEF Wire!call, wireVars, WireInv, WireTyped, Wire!WireMatches, Wire!NobodyStranded, Wire!isOpen
<1> QED
  BY <1>1, <1>2, <1>3, <1>4, <1>5, <1>6, <1>7, <1>8, <1>11, <1>12, <1>13, <1>14, <1>15
  DEF Wire!Next, TwoSockets

-----------------------------------------------------------------------------
(***************************************************************************)
(* The canvas.  Requests and answers arrive in any order.                  *)
(***************************************************************************)
LEMMA RemoveOne ==
  ASSUME NEW S, NEW s \in Seq(S), NEW i \in 1..Len(s)
  PROVE  /\ Canvas!RemoveAt(s, i) \in Seq(S)
         /\ Len(Canvas!RemoveAt(s, i)) = Len(s) - 1
         /\ i < Len(s) => Canvas!RemoveAt(s, i)[Len(s) - 1] = s[Len(s)]
<1>1. PICK n \in Nat : n = Len(s)  OBVIOUS
<1>2. PICK l : l = SubSeq(s, 1, i - 1)  OBVIOUS
<1>3. PICK r : r = SubSeq(s, i + 1, n)  OBVIOUS
<1>4. Canvas!RemoveAt(s, i) = l \o r
  BY <1>1, <1>2, <1>3 DEF Canvas!RemoveAt
<1>5. i \in 1..n  BY <1>1
<1>6. l \in Seq(S) /\ Len(l) = i - 1
  BY <1>1, <1>2, <1>5, SubSeqProperties
<1>7. r \in Seq(S) /\ Len(r) = n - i /\ (i < n => r[n - i] = s[n])
  <2>1. \A j \in (i + 1)..n : s[j] \in S  BY <1>1, <1>5, ElementOfSeq
  <2>2. r \in Seq(S) /\ Len(r) = n - i /\ \A k \in 1..(n - i) : r[k] = s[i + k]
    <3>1. PICK m \in Int : m = i + 1  BY <1>5
    <3>2. /\ r \in Seq(S)
          /\ Len(r) = IF m <= n THEN n - m + 1 ELSE 0
          /\ \A k \in 1..(n - m + 1) : r[k] = s[m + k - 1]
      BY <1>3, <2>1, <3>1, SubSeqProperties
    <3>3. \A k \in 1..(n - i) : k \in 1..(n - m + 1) /\ m + k - 1 = i + k  BY <1>5, <3>1
    <3>4. Len(r) = n - i  BY <1>5, <3>1, <3>2
    <3>5. \A k \in 1..(n - i) : r[k] = s[i + k]  BY <3>2, <3>3
    <3> QED  BY <3>2, <3>4, <3>5
  <2>3. ASSUME i < n PROVE r[n - i] = s[n]
    <3>1. n - i \in 1..(n - i) /\ i + (n - i) = n  BY <1>5, <2>3
    <3> QED  BY <2>2, <3>1
  <2> QED  BY <2>2, <2>3
<1>8. /\ l \o r \in Seq(S) /\ Len(l \o r) = Len(l) + Len(r)
      /\ \A k \in 1..(Len(l) + Len(r)) :
           (l \o r)[k] = IF k <= Len(l) THEN l[k] ELSE r[k - Len(l)]
  BY <1>6, <1>7, ConcatProperties
<1>9. Len(l) + Len(r) = n - 1  BY <1>5, <1>6, <1>7
<1>10. ASSUME i < n  PROVE (l \o r)[n - 1] = s[n]
  <2>1. n - 1 \in 1..(n - 1) /\ ~(n - 1 <= i - 1) /\ n - 1 - (i - 1) = n - i
    BY <1>5, <1>10
  <2>2. (l \o r)[n - 1] = r[n - i]  BY <1>6, <1>8, <1>9, <2>1
  <2> QED  BY <1>7, <1>10, <2>2
<1> QED  BY <1>1, <1>4, <1>8, <1>9, <1>10

Answer == [value: {1, 2}, ok: BOOLEAN]

(* The last answer on its way says what the server holds, when nothing     *)
(* else is; and with no answer on its way the form's baseline does: as     *)
(* long as that last answer is not shown before an earlier one.            *)
Unsaved ==
  requests = <<>> /\ ~unsure /\ ~reordered =>
    IF answers = <<>> THEN stored = saved
    ELSE answers[Len(answers)].ok /\ answers[Len(answers)].value = stored

ShownIsSent == approval.at = "sent" => approval.value = approval.shown

CanvasTyped ==
  /\ stored \in {1, 2}
  /\ requests \in Seq({1, 2})
  /\ answers \in Seq(Answer)
  /\ fields \in {1, 2}
  /\ unsure \in BOOLEAN
  /\ reordered \in BOOLEAN

CanvasInv == CanvasTyped /\ Unsaved /\ ShownIsSent /\ Canvas!ApprovesWhatWasShown

LEMMA CanvasIsQuiet == CanvasInv => Canvas!QuietIsStored
<1> SUFFICES ASSUME CanvasInv, ~Canvas!dirty, Canvas!InFlight = 0, ~unsure, ~reordered
             PROVE  stored = fields
  BY DEF Canvas!QuietIsStored
<1>1. requests \in Seq({1, 2}) /\ answers \in Seq(Answer)
  BY DEF CanvasInv, CanvasTyped
<1>2. Len(requests) \in Nat /\ Len(answers) \in Nat  BY <1>1
<1>3. Len(requests) + Len(answers) = 0  BY DEF Canvas!InFlight
<1>4. Len(requests) = 0 /\ Len(answers) = 0  BY <1>2, <1>3
<1>5. requests = <<>> /\ answers = <<>>  BY <1>1, <1>4, EmptySeq
<1> QED  BY <1>5 DEF CanvasInv, Unsaved, Canvas!dirty

LEMMA CanvasInit == Canvas!Init => CanvasInv
<1> SUFFICES ASSUME Canvas!Init PROVE CanvasInv
  OBVIOUS
<1>1. CanvasTyped
  <2>1. requests \in Seq({1, 2}) /\ answers \in Seq(Answer)  BY EmptySeq DEF Canvas!Init
  <2> QED  BY <2>1 DEF Canvas!Init, CanvasTyped
<1>2. Unsaved  BY DEF Canvas!Init, Unsaved
<1>3. ShownIsSent /\ Canvas!ApprovesWhatWasShown
  BY DEF Canvas!Init, Canvas!None, ShownIsSent, Canvas!ApprovesWhatWasShown
<1> QED  BY <1>1, <1>2, <1>3 DEF CanvasInv

(* A save is on its way. *)
LEMMA SaveKeeps ==
  ASSUME CanvasInv, Canvas!save,
         UNCHANGED <<stored, fields, saved, answers, reordered, refused, unsure,
                     assembled, approval, published>>
  PROVE  CanvasInv'
<1>1. CASE Canvas!dirty
  <2>1. requests' = Append(requests, fields)  BY <1>1 DEF Canvas!save
  <2>2. requests \in Seq({1, 2}) /\ fields \in {1, 2}  BY DEF CanvasInv, CanvasTyped
  <2>3. requests' \in Seq({1, 2}) /\ Len(requests') = Len(requests) + 1
    BY <2>1, <2>2, AppendProperties
  <2>4. requests' # <<>>  BY <2>1, <2>2, AppendProperties
  <2> QED
    BY <2>3, <2>4
    DEF CanvasInv, CanvasTyped, Unsaved, ShownIsSent, Canvas!ApprovesWhatWasShown
<1>2. CASE ~Canvas!dirty
  <2>1. requests' = requests  BY <1>2 DEF Canvas!save
  <2> QED
    BY <2>1 DEF CanvasInv, CanvasTyped, Unsaved, ShownIsSent, Canvas!ApprovesWhatWasShown
<1> QED  BY <1>1, <1>2

LEMMA CanvasStep == CanvasInv /\ [Canvas!Next]_canvasVars => CanvasInv'
<1> SUFFICES ASSUME CanvasInv, [Canvas!Next]_canvasVars PROVE CanvasInv'
  OBVIOUS
<1>0. /\ stored \in {1, 2} /\ requests \in Seq({1, 2}) /\ answers \in Seq(Answer)
      /\ fields \in {1, 2} /\ unsure \in BOOLEAN /\ reordered \in BOOLEAN
      /\ Unsaved /\ ShownIsSent /\ Canvas!ApprovesWhatWasShown
  BY DEF CanvasInv, CanvasTyped
<1>1. ASSUME Canvas!change PROVE CanvasInv'
  BY <1>0, <1>1
  DEF Canvas!change, CanvasInv, CanvasTyped, Unsaved, ShownIsSent, Canvas!ApprovesWhatWasShown
<1>2. ASSUME Canvas!fire \/ Canvas!saveNow PROVE CanvasInv'
  BY <1>2, SaveKeeps DEF Canvas!fire, Canvas!saveNow
<1>3. ASSUME NEW i \in 1..Len(requests), NEW ok \in BOOLEAN,
             stored' \in {stored, requests[i]}, ok => stored' = requests[i],
             requests' = Canvas!RemoveAt(requests, i),
             answers' = Append(answers, [value |-> requests[i], ok |-> ok]),
             unsure' = ~ok, reordered' = FALSE,
             UNCHANGED <<fields, saved, timer, saving, assembled, approval, published>>
      PROVE  CanvasInv'
  <2>2. requests[i] \in {1, 2}  BY <1>0, <1>3, ElementOfSeq
  <2>3. requests' \in Seq({1, 2})  BY <1>0, <1>3, RemoveOne
  <2>4. PICK a : a = [value |-> requests[i], ok |-> ok]  OBVIOUS
  <2>5. a \in Answer /\ a.value = requests[i] /\ a.ok = ok  BY <1>3, <2>2, <2>4 DEF Answer
  <2>6. answers' = Append(answers, a)  BY <1>3, <2>4
  <2>7. /\ answers' \in Seq(Answer) /\ Len(answers') = Len(answers) + 1
        /\ answers'[Len(answers) + 1] = a
    BY <1>0, <2>5, <2>6, AppendProperties
  <2>8. answers' # <<>> /\ answers'[Len(answers')] = a
    BY <1>0, <2>5, <2>6, <2>7, AppendProperties
  <2>9. ~unsure' => a.ok /\ a.value = stored'  BY <1>3, <2>5
  <2>10. Unsaved'  BY <2>8, <2>9 DEF Unsaved
  <2>11. stored' \in {1, 2} /\ unsure' \in BOOLEAN /\ reordered' \in BOOLEAN
    BY <1>0, <1>3, <2>2
  <2> QED
    BY <1>0, <1>3, <2>3, <2>7, <2>10, <2>11
    DEF CanvasInv, CanvasTyped, ShownIsSent, Canvas!ApprovesWhatWasShown
<1>4. ASSUME Canvas!serve PROVE CanvasInv'
  <2>1. PICK i \in 1..Len(requests) :
          /\ stored' = requests[i]
          /\ requests' = Canvas!RemoveAt(requests, i)
          /\ answers' = Append(answers, [value |-> requests[i], ok |-> TRUE])
          /\ unsure' = FALSE /\ reordered' = FALSE
          /\ UNCHANGED <<fields, saved, timer, saving, refused, assembled, approval, published>>
    BY <1>0, <1>4, LenProperties DEF Canvas!serve
  <2> QED  BY <1>3, <2>1
<1>5. ASSUME Canvas!fail PROVE CanvasInv'
  <2>1. PICK i \in 1..Len(requests) :
          /\ stored' \in {stored, requests[i]}
          /\ requests' = Canvas!RemoveAt(requests, i)
          /\ answers' = Append(answers, [value |-> requests[i], ok |-> FALSE])
          /\ unsure' = TRUE /\ refused' = TRUE /\ reordered' = FALSE
          /\ UNCHANGED <<fields, saved, timer, saving, assembled, approval, published>>
    BY <1>0, <1>5, LenProperties DEF Canvas!fail
  <2> QED  BY <1>3, <2>1
<1>6. ASSUME Canvas!otherEditor PROVE CanvasInv'
  BY <1>0, <1>6
  DEF Canvas!otherEditor, CanvasInv, CanvasTyped, Unsaved, ShownIsSent, Canvas!ApprovesWhatWasShown
<1>7. ASSUME Canvas!answered PROVE CanvasInv'
  <2>1. PICK i \in 1..Len(answers) :
          /\ answers' = Canvas!RemoveAt(answers, i)
          /\ saved' = IF answers[i].ok THEN Canvas!snapshot(answers[i].value) ELSE saved
          /\ reordered' = (reordered \/ (i = Len(answers) /\ i > 1))
          /\ UNCHANGED <<stored, fields, requests, refused, unsure, approval, published>>
    BY <1>0, <1>7, LenProperties DEF Canvas!answered
  <2>2. PICK n \in Nat : n = Len(answers)  BY <1>0
  <2>3. i \in 1..n  BY <2>1, <2>2
  <2>4. /\ answers' \in Seq(Answer) /\ Len(answers') = n - 1
        /\ i < n => answers'[n - 1] = answers[n]
    BY <1>0, <2>1, <2>2, RemoveOne
  <2>5. answers # <<>>  BY <1>0, <2>2, <2>3, EmptySeq
  <2>6. Unsaved'
    <3> SUFFICES ASSUME requests' = <<>>, ~unsure', ~reordered'
                 PROVE  IF answers' = <<>> THEN stored' = saved'
                        ELSE answers'[Len(answers')].ok /\ answers'[Len(answers')].value = stored'
      BY DEF Unsaved
    <3>1. answers[n].ok /\ answers[n].value = stored  BY <1>0, <2>1, <2>2, <2>5 DEF Unsaved
    <3>2. ~(i = n /\ i > 1)  BY <1>0, <2>1, <2>2
    <3>3. CASE n = 1
      <4>1. answers' = <<>>  BY <2>4, <3>3, EmptySeq
      <4>2. saved' = answers[1].value  BY <2>1, <2>3, <3>1, <3>3 DEF Canvas!snapshot
      <4> QED  BY <2>1, <3>1, <3>3, <4>1, <4>2
    <3>4. CASE n > 1
      <4>1. i < n  BY <2>3, <3>2, <3>4
      <4>2. answers' # <<>> /\ answers'[n - 1] = answers[n]
        BY <2>4, <3>4, <4>1, EmptySeq
      <4> QED  BY <2>1, <2>4, <3>1, <4>2
    <3> QED  BY <2>3, <3>3, <3>4
  <2> QED
    BY <1>0, <2>1, <2>4, <2>6
    DEF CanvasInv, CanvasTyped, ShownIsSent, Canvas!ApprovesWhatWasShown
<1>8. ASSUME Canvas!press \/ Canvas!getPagePreview PROVE CanvasInv'
  BY <1>0, <1>8
  DEF Canvas!press, Canvas!getPagePreview, Canvas!form, CanvasInv, CanvasTyped, Unsaved,
      ShownIsSent, Canvas!ApprovesWhatWasShown
<1>9. ASSUME Canvas!decide PROVE CanvasInv'
  BY <1>0, <1>9
  DEF Canvas!decide, Canvas!matchesScreen, Canvas!form, Canvas!None, CanvasInv, CanvasTyped,
      Unsaved, ShownIsSent, Canvas!ApprovesWhatWasShown
<1>10. ASSUME Canvas!approve PROVE CanvasInv'
  BY <1>0, <1>10
  DEF Canvas!approve, Canvas!sameHash, Canvas!form, Canvas!None, CanvasInv, CanvasTyped,
      Unsaved, ShownIsSent, Canvas!ApprovesWhatWasShown
<1>11. CASE UNCHANGED canvasVars
  BY <1>0, <1>11
  DEF canvasVars, CanvasInv, CanvasTyped, Unsaved, ShownIsSent, Canvas!ApprovesWhatWasShown
<1> QED
  BY <1>1, <1>2, <1>4, <1>5, <1>6, <1>7, <1>8, <1>9, <1>10, <1>11 DEF Canvas!Next

-----------------------------------------------------------------------------
(***************************************************************************)
(* The editor's screen.                                                    *)
(***************************************************************************)
TwoPages == {x1, x2}

LEMMA NoRowIsNone == NoPage \notin Screen!Rows
BY ComponentAssumptions DEF ComponentAssumptions, Screen!PageScreenAssumption

Form == [on: BOOLEAN, shows: Screen!Contents, saved: Screen!Contents,
         seededFor: TwoPages \cup {NoPage}]
Terms == [load: {"none", "taxa", "assigned"}, taxa: BOOLEAN]
Write == [kind: {"fields", "settings", "seo", "terms", "act"}, on: TwoPages,
          value: Screen!Contents, done: BOOLEAN, heard: BOOLEAN]

(* The server and what is on its way to it: the settings are always their  *)
(* own page's, and so are the fields and the SEO until a screen is moved.  *)
WriteOwned(c) ==
  /\ c.kind = "settings" => c.value.of = c.on
  /\ ~crossed /\ c.kind \in {"fields", "seo"} => c.value.of = c.on

ServerOwned ==
  /\ store \in [TwoPages -> [Screen!Forms -> Screen!Contents]]
  /\ writes \subseteq Write
  /\ inputs \in Nat
  /\ Screen!FormsStayOnTheirPage
  /\ \A c \in writes : WriteOwned(c)

(* The screen: what its row, its panel and its form hold. *)
PanelOwned ==
  page # NoPage =>
    /\ page.settings.of = page.id
    /\ tab = "settings" => panel.of = page.id
    /\ ~crossed =>
         /\ page.seo.of = page.id
         /\ tab = "seo" => panel.of = page.id
         /\ form.on => form.shows.of = page.id
         /\ reloads \subseteq {page.id}

ScreenTyped ==
  /\ url \in TwoPages \cup {NoPage}
  /\ getting => url \in TwoPages
  /\ page \in Screen!Rows \cup {NoPage}
  /\ reloads \subseteq TwoPages
  /\ page = NoPage => reloads = {} /\ ~form.on
  /\ form \in Form
  /\ form.on => seen \in Screen!Contents
  /\ tab \in Screen!Tabs
  /\ panel \in Screen!Contents
  /\ terms \in Terms
  /\ terms.load # "none" => tab = "terms" /\ page # NoPage
  /\ crossed \in BOOLEAN

ScreenInv == ServerOwned /\ ScreenTyped /\ PanelOwned

LEMMA NothingIsContent == Screen!Nothing \in Screen!Contents
BY DEF Screen!Nothing, Screen!Content, Screen!Contents

LEMMA ScreenInit == Screen!Init => ScreenInv
<1> SUFFICES ASSUME Screen!Init PROVE ScreenInv
  OBVIOUS
<1>1. \A p \in TwoPages : /\ Screen!Content(p, 0) \in Screen!Contents
                          /\ Screen!Content(p, 0).of = p
  BY DEF Screen!Content, Screen!Contents, TwoPages
<1>2. /\ store \in [TwoPages -> [Screen!Forms -> Screen!Contents]]
      /\ \A p \in TwoPages, f \in Screen!Forms : store[p][f].of = p
  BY <1>1 DEF Screen!Init, TwoPages
<1>3. Screen!FormsStayOnTheirPage
  BY <1>2 DEF Screen!FormsStayOnTheirPage, Screen!Forms, TwoPages
<1>4. Screen!Unmounted \in Form /\ ~Screen!Unmounted.on
  BY NothingIsContent DEF Screen!Unmounted, Form
<1> QED
  BY <1>2, <1>3, <1>4, NothingIsContent
  DEF Screen!Init, Screen!Idle, Screen!Tabs, ScreenInv, ServerOwned, ScreenTyped, PanelOwned, Terms

(* A row that is shown, whether the screen mounts, moves or stays. *)
LEMMA ShowKeeps ==
  ASSUME ScreenTyped, PanelOwned, NEW row \in Screen!Rows,
         row.settings.of = row.id, ~crossed => row.seo.of = row.id,
         Screen!show(row), UNCHANGED <<url, tab, seen>>,
         getting' = FALSE \/ UNCHANGED getting
  PROVE  ScreenTyped' /\ PanelOwned' /\ (~crossed' => ~crossed)
<1>0. /\ page' = row /\ row # NoPage /\ row.id \in TwoPages
      /\ row.settings \in Screen!Contents /\ row.seo \in Screen!Contents
  BY NoRowIsNone DEF Screen!show, Screen!Rows, TwoPages
<1>a. terms \in Terms /\ form \in Form  BY DEF ScreenTyped
<1>1. CASE page = NoPage
  <2>1. /\ panel' = Screen!Mounted(tab, row)
        /\ terms' = IF tab = "terms" THEN [Screen!Idle EXCEPT !.load = "taxa"] ELSE Screen!Idle
        /\ reloads' = {row.id}
        /\ form' = form /\ crossed' = crossed /\ ~form.on
    BY <1>1 DEF Screen!show, ScreenTyped
  <2>2. terms' \in Terms /\ (terms'.load # "none" => tab = "terms")
    BY <2>1 DEF Screen!Idle, Terms
  <2>3. /\ panel' \in Screen!Contents
        /\ tab = "settings" => panel' = row.settings
        /\ tab = "seo" => panel' = row.seo
    BY <1>0, <2>1, NothingIsContent DEF ScreenTyped, Screen!Mounted, Screen!Tabs
  <2> QED  BY <1>0, <2>1, <2>2, <2>3 DEF ScreenTyped, PanelOwned
<1>2. CASE page # NoPage /\ page.id # row.id
  <2>1. /\ panel' = Screen!seededAgain(tab, row)
        /\ terms' = IF tab = "terms" THEN [terms EXCEPT !.load = "taxa"] ELSE terms
        /\ reloads' = reloads \cup {row.id}
        /\ form' = Screen!seeded(row.id) /\ crossed' = TRUE
    BY <1>2 DEF Screen!show
  <2>2. terms' \in Terms /\ (terms'.load # "none" => tab = "terms")
    BY <1>a, <2>1 DEF ScreenTyped, Terms
  <2>3. panel' \in Screen!Contents /\ (tab = "settings" => panel' = row.settings)
    BY <1>0, <2>1 DEF ScreenTyped, Screen!seededAgain
  <2>4. form' \in Form /\ form'.on = form.on
    <3>1. CASE form' = form  BY <1>a, <3>1
    <3>2. CASE form.on /\ form' = [form EXCEPT !.seededFor = row.id, !.shows = seen, !.saved = seen]
      <4>1. seen \in Screen!Contents  BY <3>2 DEF ScreenTyped
      <4> QED  BY <1>0, <1>a, <3>2, <4>1 DEF Form
    <3> QED  BY <2>1, <3>1, <3>2 DEF Screen!seeded
  <2> QED  BY <1>0, <2>1, <2>2, <2>3, <2>4 DEF ScreenTyped, PanelOwned
<1>3. CASE page # NoPage /\ page.id = row.id
  <2>1. /\ panel' = IF tab = "settings" /\ page.settings # row.settings THEN row.settings ELSE panel
        /\ terms' = terms /\ reloads' = reloads /\ form' = form /\ crossed' = crossed
    BY <1>3 DEF Screen!show
  <2>2. /\ panel' \in Screen!Contents
        /\ tab = "settings" => panel'.of = row.id
        /\ tab # "settings" => panel' = panel
    BY <1>0, <1>3, <2>1 DEF ScreenTyped, PanelOwned
  <2> QED  BY <1>0, <1>3, <2>1, <2>2 DEF ScreenTyped, PanelOwned
<1> QED  BY <1>1, <1>2, <1>3

(* The row that a read hands out. *)
LEMMA RowIsOwned ==
  ASSUME ServerOwned, NEW p \in TwoPages
  PROVE  /\ Screen!Row(p) \in Screen!Rows
         /\ Screen!Row(p).settings.of = Screen!Row(p).id
         /\ ~crossed => Screen!Row(p).seo.of = Screen!Row(p).id
<1>1. store[p] \in [Screen!Forms -> Screen!Contents]  BY DEF ServerOwned
<1>2. store[p]["settings"] \in Screen!Contents /\ store[p]["seo"] \in Screen!Contents
  BY <1>1 DEF Screen!Forms
<1>3. store[p]["settings"].of = p /\ (~crossed => store[p]["seo"].of = p)
  BY DEF ServerOwned, Screen!FormsStayOnTheirPage, TwoPages
<1> QED  BY <1>2, <1>3 DEF Screen!Row, Screen!Rows, TwoPages

(* A write is sent. *)
LEMMA CallKeeps ==
  ASSUME ServerOwned, ScreenTyped, PanelOwned,
         NEW kind \in {"fields", "settings", "seo", "terms", "act"},
         NEW value \in Screen!Contents,
         kind = "settings" => value.of = page.id,
         ~crossed /\ kind \in {"fields", "seo"} => value.of = page.id,
         Screen!call(kind, value)
  PROVE  ServerOwned'
<1>1. page.id \in TwoPages  BY DEF ScreenTyped, Screen!call, Screen!Rows, TwoPages
<1>2. PICK c : c = [kind |-> kind, on |-> page.id, value |-> value, done |-> FALSE, heard |-> TRUE]
  OBVIOUS
<1>3. c \in Write /\ c.kind = kind /\ c.on = page.id /\ c.value = value
  BY <1>1, <1>2 DEF Write
<1>4. writes' = writes \cup {c} /\ store' = store /\ crossed' = crossed /\ inputs' = inputs + 1
  BY <1>2 DEF Screen!call
<1>5. WriteOwned(c)  BY <1>3 DEF WriteOwned
<1>6. \A d \in writes' : WriteOwned(d)'  BY <1>4, <1>5 DEF ServerOwned, WriteOwned
<1> QED  BY <1>3, <1>4, <1>6 DEF ServerOwned, Screen!FormsStayOnTheirPage

LEMMA ScreenStep == ScreenInv /\ [Screen!Next]_screenVars => ScreenInv'
<1> SUFFICES ASSUME ScreenInv, [Screen!Next]_screenVars PROVE ScreenInv'
  OBVIOUS
<1>0. ServerOwned /\ ScreenTyped /\ PanelOwned  BY DEF ScreenInv
<1>a. form \in Form /\ terms \in Terms /\ panel \in Screen!Contents /\ inputs \in Nat
      /\ writes \subseteq Write
  BY <1>0 DEF ScreenTyped, ServerOwned
(* Nothing on the server or on its way changes. *)
<1>b. ASSUME UNCHANGED <<store, writes, crossed>>, inputs' \in Nat PROVE ServerOwned'
  BY <1>0, <1>b DEF ServerOwned, WriteOwned, Screen!FormsStayOnTheirPage
(* Nothing on the screen changes. *)
<1>c. ASSUME UNCHANGED <<url, getting, page, reloads, seen, form, tab, panel, terms, crossed>>
      PROVE  ScreenTyped' /\ PanelOwned'
  BY <1>0, <1>c DEF ScreenTyped, PanelOwned
<1>1. ASSUME NEW p \in TwoPages, Screen!open(p) \/ Screen!traverse(p) PROVE ScreenInv'
  <2>1. ServerOwned'  BY <1>a, <1>b, <1>1 DEF Screen!open, Screen!traverse
  <2> QED
    BY <1>0, <1>1, <2>1 DEF Screen!open, Screen!traverse, ScreenInv, ScreenTyped, PanelOwned
<1>2. ASSUME NEW p \in TwoPages, Screen!reload(p) PROVE ScreenInv'
  <2>1. ServerOwned'  BY <1>a, <1>b, <1>2 DEF Screen!reload
  <2>2. page # NoPage /\ page.id \in TwoPages
    BY <1>0, <1>2 DEF Screen!reload, ScreenTyped, Screen!Rows, TwoPages
  <2>3. PICK v : v = store[p]["fields"]  OBVIOUS
  <2>4. v \in Screen!Contents /\ (~crossed => v.of = p)
    BY <1>0, <2>3 DEF ServerOwned, Screen!FormsStayOnTheirPage, Screen!Forms, TwoPages
  <2>5. PICK f : f = Screen!seeds(p)  OBVIOUS
  <2>6. f \in Form /\ f.on /\ f.shows = v
    BY <2>2, <2>3, <2>4, <2>5 DEF Screen!seeds, Form
  <2>7. /\ seen' = v /\ reloads' = reloads \ {p} /\ p \in reloads
        /\ form' = IF form.on THEN form ELSE f
        /\ UNCHANGED <<url, getting, page, tab, panel, terms, crossed>>
    BY <1>2, <2>3, <2>5 DEF Screen!reload
  <2>8. ~crossed => v.of = page.id  BY <1>0, <2>2, <2>4, <2>7 DEF PanelOwned
  <2>9. form' \in Form /\ (~crossed /\ form'.on => form'.shows.of = page.id)
    BY <1>0, <1>a, <2>2, <2>6, <2>7, <2>8 DEF PanelOwned
  <2> QED
    BY <1>0, <2>1, <2>2, <2>4, <2>7, <2>9 DEF ScreenInv, ScreenTyped, PanelOwned
<1>3. ASSUME Screen!leave PROVE ScreenInv'
  <2>1. Screen!Unmounted \in Form /\ ~Screen!Unmounted.on
    BY NothingIsContent DEF Screen!Unmounted, Form
  <2>2. Screen!Idle \in Terms /\ Screen!Idle.load = "none"  BY DEF Screen!Idle, Terms
  <2>3. ScreenTyped' /\ PanelOwned'
    BY <1>0, <1>3, <2>1, <2>2, NothingIsContent
    DEF Screen!leave, ScreenTyped, PanelOwned, Screen!Tabs
  <2>4. \A c \in writes' : \E d \in writes : c = [d EXCEPT !.heard = FALSE]
    BY <1>3 DEF Screen!leave
  <2>5. ASSUME NEW c \in writes' PROVE c \in Write /\ WriteOwned(c)'
    <3>1. PICK d \in writes : c = [d EXCEPT !.heard = FALSE]  BY <2>4, <2>5
    <3>2. d \in Write /\ WriteOwned(d)  BY <1>0 DEF ServerOwned
    <3>3. c \in Write /\ c.kind = d.kind /\ c.on = d.on /\ c.value = d.value
      BY <3>1, <3>2 DEF Write
    <3> QED  BY <1>3, <3>2, <3>3 DEF WriteOwned, Screen!leave
  <2>6. ServerOwned'
    BY <1>0, <1>3, <2>5 DEF ServerOwned, Screen!leave, Screen!FormsStayOnTheirPage
  <2> QED  BY <2>3, <2>6 DEF ScreenInv
(* The server and the writes do not change, though the screen may move. *)
<1>d. ASSUME store' = store, writes' \subseteq writes, inputs' = inputs, ~crossed' => ~crossed
      PROVE  ServerOwned'
  BY <1>0, <1>d DEF ServerOwned, WriteOwned, Screen!FormsStayOnTheirPage
<1>4. ASSUME Screen!getPageById PROVE ScreenInv'
  <2>1. url \in TwoPages  BY <1>0, <1>4 DEF Screen!getPageById, ScreenTyped
  <2>2. PICK row : row = Screen!Row(url)  OBVIOUS
  <2>3. row \in Screen!Rows /\ row.settings.of = row.id /\ (~crossed => row.seo.of = row.id)
    BY <1>0, <2>1, <2>2, RowIsOwned
  <2>4. Screen!show(row) /\ getting' = FALSE /\ UNCHANGED <<store, url, seen, tab, writes, inputs>>
    BY <1>4, <2>2 DEF Screen!getPageById
  <2>5. ScreenTyped' /\ PanelOwned' /\ (~crossed' => ~crossed)
    BY <1>0, <2>3, <2>4, ShowKeeps
  <2> QED  BY <1>d, <2>4, <2>5 DEF ScreenInv
<1>5. ASSUME Screen!type PROVE ScreenInv'
  <2>1. ServerOwned'  BY <1>a, <1>b, <1>5 DEF Screen!type
  <2>2. PICK v : v = [form.shows EXCEPT !.n = inputs + 1]  OBVIOUS
  <2>3. form.shows \in Screen!Contents  BY <1>a DEF Form
  <2>4. v \in Screen!Contents /\ v.of = form.shows.of
    BY <1>a, <2>2, <2>3 DEF Screen!Contents
  <2>5. form' = [form EXCEPT !.shows = v]  BY <1>5, <2>2 DEF Screen!type
  <2>6. form' \in Form /\ form'.on = form.on /\ form'.shows.of = form.shows.of
    BY <1>a, <2>4, <2>5 DEF Form
  <2> QED
    BY <1>0, <1>5, <2>1, <2>6 DEF Screen!type, ScreenInv, ScreenTyped, PanelOwned
<1>6. ASSUME Screen!autosave PROVE ScreenInv'
  <2>1. Screen!call("fields", form.shows) /\ form.on /\ page # NoPage
    BY <1>6 DEF Screen!autosave, Screen!dirty, Screen!call
  <2>2. form.shows \in Screen!Contents /\ (~crossed => form.shows.of = page.id)
    BY <1>0, <1>a, <2>1 DEF Form, PanelOwned
  <2>3. ServerOwned'  BY <1>0, <2>1, <2>2, CallKeeps
  <2> QED  BY <1>c, <1>6, <2>3 DEF Screen!autosave, Screen!call, ScreenInv
<1>7. ASSUME Screen!saveSettings PROVE ScreenInv'
  <2>1. Screen!call("settings", panel) /\ panel.of = page.id
    BY <1>0, <1>7 DEF Screen!saveSettings, Screen!call, PanelOwned
  <2>2. ServerOwned'  BY <1>0, <1>a, <2>1, CallKeeps
  <2> QED  BY <1>c, <1>7, <2>2 DEF Screen!saveSettings, Screen!call, ScreenInv
<1>8. ASSUME Screen!saveTerms PROVE ScreenInv'
  <2>1. Screen!call("terms", panel)  BY <1>8 DEF Screen!saveTerms
  <2>2. ServerOwned'  BY <1>0, <1>a, <2>1, CallKeeps
  <2> QED  BY <1>c, <1>8, <2>2 DEF Screen!saveTerms, Screen!call, ScreenInv
<1>9. ASSUME Screen!act PROVE ScreenInv'
  <2>1. Screen!call("act", Screen!Nothing)  BY <1>9 DEF Screen!act
  <2>2. ServerOwned'  BY <1>0, <2>1, NothingIsContent, CallKeeps
  <2> QED  BY <1>c, <1>9, <2>2 DEF Screen!act, Screen!call, ScreenInv
<1>10. ASSUME Screen!saveSeo PROVE ScreenInv'
  <2>1. PICK v : v = panel'  OBVIOUS
  <2>2. v \in Screen!Contents /\ v.of = panel.of
    BY <1>a, <1>10, <2>1 DEF Screen!saveSeo, Screen!Contents
  <2>3. Screen!call("seo", v) /\ tab = "seo" /\ page # NoPage
    BY <1>10, <2>1 DEF Screen!saveSeo, Screen!call
  <2>4. ~crossed => v.of = page.id  BY <1>0, <2>2, <2>3 DEF PanelOwned
  <2>5. ServerOwned'  BY <1>0, <2>2, <2>3, <2>4, CallKeeps
  <2>6. UNCHANGED <<url, getting, page, reloads, seen, form, tab, terms, crossed>>
    BY <2>3 DEF Screen!call
  <2>7. ScreenTyped' /\ PanelOwned'
    BY <1>0, <2>1, <2>2, <2>3, <2>6 DEF ScreenTyped, PanelOwned
  <2> QED  BY <2>5, <2>7 DEF ScreenInv
<1>11. ASSUME NEW t \in Screen!Tabs, Screen!onTab(t) PROVE ScreenInv'
  <2>1. ServerOwned'  BY <1>a, <1>b, <1>11 DEF Screen!onTab
  <2>2. terms' \in Terms /\ (terms'.load # "none" => t = "terms")
    BY <1>11 DEF Screen!onTab, Screen!Idle, Terms
  <2>3. page # NoPage /\ page \in Screen!Rows  BY <1>0, <1>11 DEF Screen!onTab, ScreenTyped
  <2>4. /\ panel' \in Screen!Contents
        /\ t = "settings" => panel' = page.settings
        /\ t = "seo" => panel' = page.seo
    BY <1>11, <2>3, NothingIsContent DEF Screen!onTab, Screen!Mounted, Screen!Tabs, Screen!Rows
  <2> QED
    BY <1>0, <1>11, <2>1, <2>2, <2>3, <2>4
    DEF Screen!onTab, ScreenInv, ScreenTyped, PanelOwned
<1>12. ASSUME Screen!listTaxonomies PROVE ScreenInv'
  <2>1. ServerOwned'  BY <1>a, <1>b, <1>12 DEF Screen!listTaxonomies
  <2>2. terms' \in Terms /\ terms.load # "none"  BY <1>12 DEF Screen!listTaxonomies, Terms
  <2> QED
    BY <1>0, <1>12, <2>1, <2>2
    DEF Screen!listTaxonomies, ScreenInv, ScreenTyped, PanelOwned
<1>13. ASSUME Screen!listPageTerms PROVE ScreenInv'
  <2>1. ServerOwned'  BY <1>a, <1>b, <1>13 DEF Screen!listPageTerms
  <2>2. tab = "terms" /\ page # NoPage  BY <1>0, <1>13 DEF Screen!listPageTerms, ScreenTyped
  <2>3. page.id \in TwoPages  BY <1>0, <2>2 DEF ScreenTyped, Screen!Rows, TwoPages
  <2>4. panel' \in Screen!Contents
    BY <1>0, <1>13, <2>3 DEF Screen!listPageTerms, ServerOwned, Screen!Forms
  <2>5. terms' \in Terms /\ terms'.load = "none"
    BY <1>a, <1>13 DEF Screen!listPageTerms, Terms
  <2> QED
    BY <1>0, <1>13, <2>1, <2>2, <2>4, <2>5
    DEF Screen!listPageTerms, ScreenInv, ScreenTyped, PanelOwned
<1>14. ASSUME NEW c \in writes, Screen!serve(c) PROVE ScreenInv'
  <2>1. ScreenTyped' /\ PanelOwned'  BY <1>c, <1>14 DEF Screen!serve
  <2>2. c \in Write /\ WriteOwned(c)  BY <1>0, <1>a DEF ServerOwned
  <2>3. PICK d : d = [c EXCEPT !.done = TRUE]  OBVIOUS
  <2>4. d \in Write /\ d.kind = c.kind /\ d.value = c.value /\ d.on = c.on
    BY <2>2, <2>3 DEF Write
  <2>5. writes' \subseteq writes \cup {d} /\ crossed' = crossed /\ inputs' = inputs
    BY <1>14, <2>3 DEF Screen!serve
  <2>6. /\ writes' \subseteq Write
        /\ \A e \in writes' : WriteOwned(e)'
    BY <1>0, <2>2, <2>4, <2>5 DEF ServerOwned, WriteOwned
  <2>7. CASE c.kind = "act"
    <3>1. store' = store  BY <1>14, <2>7 DEF Screen!serve
    <3> QED
      BY <1>0, <2>1, <2>5, <2>6, <3>1 DEF ScreenInv, ServerOwned, Screen!FormsStayOnTheirPage
  <2>8. CASE c.kind # "act"
    <3>1. c.kind \in Screen!Forms /\ c.on \in TwoPages /\ c.value \in Screen!Contents
      BY <2>2, <2>8 DEF Write, Screen!Forms
    <3>2. store' = [store EXCEPT ![c.on][c.kind] = c.value]
      BY <1>14, <2>8 DEF Screen!serve
    <3>3. store \in [TwoPages -> [Screen!Forms -> Screen!Contents]]  BY <1>0 DEF ServerOwned
    <3>4. store' \in [TwoPages -> [Screen!Forms -> Screen!Contents]]  BY <3>1, <3>2, <3>3
    <3>5. \A p \in TwoPages, f \in Screen!Forms :
            store'[p][f] = IF p = c.on /\ f = c.kind THEN c.value ELSE store[p][f]
      BY <3>1, <3>2, <3>3
    <3>6. \A p \in TwoPages :
            /\ store[p]["settings"].of = p
            /\ ~crossed => store[p]["fields"].of = p /\ store[p]["seo"].of = p
      BY <1>0 DEF ServerOwned, Screen!FormsStayOnTheirPage, TwoPages
    <3>7. /\ c.kind = "settings" => c.value.of = c.on
          /\ ~crossed /\ c.kind \in {"fields", "seo"} => c.value.of = c.on
      BY <2>2 DEF WriteOwned
    <3>8. "settings" \in Screen!Forms /\ "fields" \in Screen!Forms /\ "seo" \in Screen!Forms
      BY DEF Screen!Forms
    <3>9. \A p \in TwoPages :
            /\ store'[p]["settings"].of = p
            /\ ~crossed => store'[p]["fields"].of = p /\ store'[p]["seo"].of = p
      BY <3>5, <3>6, <3>7, <3>8
    <3>10. Screen!FormsStayOnTheirPage'
      BY <2>5, <3>9 DEF Screen!FormsStayOnTheirPage, TwoPages
    <3> QED  BY <1>0, <2>1, <2>5, <2>6, <3>4, <3>10 DEF ScreenInv, ServerOwned
  <2> QED  BY <2>7, <2>8
<1>15. ASSUME NEW c \in writes, Screen!fail(c) PROVE ScreenInv'
  <2>1. ScreenTyped' /\ PanelOwned'  BY <1>c, <1>15 DEF Screen!fail
  <2>2. ServerOwned'  BY <1>d, <1>15 DEF Screen!fail
  <2> QED  BY <2>1, <2>2 DEF ScreenInv
<1>16. ASSUME NEW c \in writes, Screen!answered(c) PROVE ScreenInv'
  <2>1. c \in Write  BY <1>a
  <2>2. /\ writes' \subseteq writes
        /\ UNCHANGED <<store, url, getting, seen, tab, inputs>>
    BY <1>16 DEF Screen!answered
  <2>3. CASE c.kind \in {"settings", "act"}
    <3>1. PICK row : row = Screen!Row(c.on)  OBVIOUS
    <3>2. c.on \in TwoPages  BY <2>1 DEF Write
    <3>3. row \in Screen!Rows /\ row.settings.of = row.id /\ (~crossed => row.seo.of = row.id)
      BY <1>0, <3>1, <3>2, RowIsOwned
    <3>4. Screen!show(row)  BY <1>16, <2>3, <3>1 DEF Screen!answered
    <3>5. ScreenTyped' /\ PanelOwned' /\ (~crossed' => ~crossed)
      BY <1>0, <2>2, <3>3, <3>4, ShowKeeps
    <3> QED  BY <1>d, <2>2, <3>5 DEF ScreenInv
  <2>4. CASE c.kind \notin {"settings", "act"}
    <3>1. /\ form' = IF c.kind = "fields" THEN [form EXCEPT !.saved = c.value] ELSE form
          /\ UNCHANGED <<page, panel, terms, reloads, crossed>>
      BY <1>16, <2>4 DEF Screen!answered
    <3>2. form' \in Form /\ form'.on = form.on /\ form'.shows = form.shows
      BY <1>a, <2>1, <3>1 DEF Form, Write
    <3>3. ScreenTyped' /\ PanelOwned'  BY <1>0, <2>2, <3>1, <3>2 DEF ScreenTyped, PanelOwned
    <3> QED  BY <1>d, <2>2, <3>1, <3>3 DEF ScreenInv
  <2> QED  BY <2>3, <2>4
<1>17. CASE UNCHANGED screenVars
  BY <1>a, <1>b, <1>c, <1>17 DEF screenVars, ScreenInv
<1> QED
  BY <1>1, <1>2, <1>3, <1>4, <1>5, <1>6, <1>7, <1>8, <1>9, <1>10, <1>11, <1>12, <1>13,
     <1>14, <1>15, <1>16, <1>17
  DEF Screen!Next, TwoPages

-----------------------------------------------------------------------------
(***************************************************************************)
(* Schema migration.                                                       *)
(***************************************************************************)
TwoRows == {x1, x2}
OneKid == {1}
SomeColumn == [type: {"text", "int", "none"}, notNull: BOOLEAN, default: {"none", "literal", "expr"}]
SomeColumns == [{"a", "b"} -> SomeColumn]
Fks == {"none", "cascade", "setNull", "restrict"}
Cells == {0, 1, 2, 8, 9}
SomeRow == [{"a", "b"} -> Cells]
Deployed(s) ==
  /\ s.cols \in SomeColumns
  /\ s.uniq \subseteq SUBSET {"a", "b"}
  /\ s.child \in BOOLEAN
  /\ s.fk \in Fks
  /\ ~s.child => s.fk = "none"

LEMMA TableIsDeployed ==
  ASSUME NEW a \in SomeColumn, NEW b \in SomeColumn, NEW from,
         NEW uniq \in SUBSET SUBSET {"a", "b"},
         NEW fk \in Fks \cup {"absent"}
  PROVE  Deployed(Table(a, b, from, uniq, fk))
<1>1. PICK t : t = Table(a, b, from, uniq, fk)  OBVIOUS
<1>2. /\ t.cols = [a |-> a, b |-> b]
      /\ t.uniq = uniq
      /\ t.child = (fk # "absent")
      /\ t.fk = IF fk = "absent" THEN "none" ELSE fk
  BY <1>1 DEF Table
<1>3. [a |-> a, b |-> b] \in SomeColumns  BY DEF SomeColumns
<1> QED  BY <1>1, <1>2, <1>3 DEF Deployed, Fks

(* The schemas that may be deployed are given with the instance. *)
LEMMA EverySchemaIsDeployed ==
  ASSUME NEW s \in MCSchemas
  PROVE  Deployed(s)
<1>1. ASSUME NEW type \in {"text", "int", "none"}, NEW notNull \in BOOLEAN,
             NEW default \in {"none", "literal", "expr"}
      PROVE  Column(type, notNull, default) \in SomeColumn
  BY DEF Column, SomeColumn
<1>2. Text \in SomeColumn /\ NoColumn \in SomeColumn
  BY <1>1 DEF Text, NoColumn
<1>3. /\ Column("text", TRUE, "literal") \in SomeColumn
      /\ Column("int", FALSE, "none") \in SomeColumn
      /\ Column("text", FALSE, "expr") \in SomeColumn
      /\ Column("text", TRUE, "none") \in SomeColumn
  BY <1>1
<1>4. "none" \in Fks \cup {"absent"} /\ "cascade" \in Fks \cup {"absent"}
      /\ "setNull" \in Fks \cup {"absent"} /\ "restrict" \in Fks \cup {"absent"}
      /\ "absent" \in Fks \cup {"absent"}
  BY DEF Fks
<1>5. /\ {} \in SUBSET SUBSET {"a", "b"} /\ {{"a"}} \in SUBSET SUBSET {"a", "b"}
      /\ {{"b"}} \in SUBSET SUBSET {"a", "b"} /\ {{"a", "b"}} \in SUBSET SUBSET {"a", "b"}
  OBVIOUS
<1> QED  BY <1>2, <1>3, <1>4, <1>5, TableIsDeployed DEF MCSchemas

Store == [cols: SomeColumns, uniq: SUBSET SUBSET {"a", "b"},
          rows: [TwoRows -> SomeRow \cup {Schema!Gone}],
          child: BOOLEAN, fk: Fks, kids: [OneKid -> TwoRows \cup {0, 7}]]

SoundStore(d) == d \in Store /\ (~d.child => d.fk = "none")

SchemaTyped ==
  /\ Deployed(schema) /\ gate \in BOOLEAN
  /\ SoundStore(db) /\ SoundStore(before)
  /\ skipped \in BOOLEAN

(* What a migration that has skipped nothing has got done at each step. *)
After(steps) == pc \in steps /\ ~skipped
Reconciled ==
  /\ After({"composite", "child", "index", "drop", "record"}) =>
       db.cols = schema.cols /\ db.uniq \subseteq schema.uniq /\ skip = {}
  /\ After({"index", "drop", "record"}) /\ schema.child => db.child /\ db.fk = schema.fk
  /\ After({"drop", "record"}) => db.uniq = schema.uniq
  /\ After({"record"}) => db.child = schema.child /\ db.fk = schema.fk

SchemaInv == SchemaTyped /\ Reconciled

LEMMA GoneIsNoRow ==
  ASSUME NEW row \in SomeRow
  PROVE  row # Schema!Gone
<1>1. row["a"] \in Cells  BY DEF SomeRow
<1>2. Schema!Gone["a"] = 7  BY DEF Schema!Gone, Schema!Cols
<1> QED  BY <1>1, <1>2 DEF Cells

LEMMA SchemaInit == Schema!Init => SchemaInv
<1> SUFFICES ASSUME Schema!Init PROVE SchemaInv
  OBVIOUS
<1>1. Deployed(schema)  BY EverySchemaIsDeployed DEF Schema!Init
<1>2. Schema!NoSchema.cols \in SomeColumns
  BY DEF Schema!NoSchema, Schema!NoCol, Schema!Cols, SomeColumns, SomeColumn
<1>3. SoundStore(db)
  BY <1>2 DEF Schema!Init, SoundStore, Store, TwoRows, OneKid, Schema!NoKid, Fks
<1> QED
  BY <1>1, <1>3 DEF Schema!Init, SchemaInv, SchemaTyped, Reconciled, After

-----------------------------------------------------------------------------
(* The rebuild of the table.                                               *)
LEMMA CopiesAreCells ==
  ASSUME NEW s, Deployed(s), NEW d, SoundStore(d), NEW row \in SomeRow, NEW c \in {"a", "b"}
  PROVE  Schema!copied(s, d, row, c) \in Cells
<1>1. PICK src : src = Schema!Source(s, Schema!Live(d.cols), c)  OBVIOUS
<1>2. src = "none" \/ src \in {"a", "b"}
  BY <1>1 DEF Schema!Source, Schema!Live, Schema!Cols
<1>3. src \in {"a", "b"} => row[src] \in Cells  BY DEF SomeRow
<1>4. 0 \in Cells /\ 8 \in Cells /\ 9 \in Cells  BY DEF Cells
<1> QED
  BY <1>1, <1>2, <1>3, <1>4
  DEF Schema!copied, Schema!Null, Schema!Default, Schema!Cast

LEMMA RebuiltIsSound ==
  ASSUME NEW s, Deployed(s), NEW d, SoundStore(d)
  PROVE  /\ SoundStore(Schema!rebuilt(s, d))
         /\ Schema!rebuilt(s, d).cols = s.cols
         /\ Schema!rebuilt(s, d).uniq = {}
         /\ Schema!rebuilt(s, d).child = d.child
         /\ Schema!rebuilt(s, d).fk = d.fk
         /\ Schema!rebuilt(s, d).kids = d.kids
         /\ \A r \in TwoRows :
              Schema!rebuilt(s, d).rows[r] =
                IF d.rows[r] = Schema!Gone THEN Schema!Gone
                ELSE [c \in {"a", "b"} |-> Schema!copied(s, d, d.rows[r], c)]
<1>1. PICK e : e = Schema!quarantined(d)  OBVIOUS
<1>0. d \in Store  BY DEF SoundStore
<1>2. e \in Store /\ e.fk = "none" /\ e.kids = d.kids
  BY <1>0, <1>1 DEF Schema!quarantined, Store, Fks
<1>3. PICK g : g = Schema!Dropped(e)  OBVIOUS
<1>4. PICK kids : kids = [k \in {1} |->
                    IF e.kids[k] \in {7, 0} THEN e.kids[k]
                    ELSE CASE e.fk = "cascade" -> 7 [] e.fk = "setNull" -> 0 [] OTHER -> e.kids[k]]
  OBVIOUS
<1>5. kids = d.kids
  <2>1. \A k \in {1} : kids[k] = d.kids[k]  BY <1>2, <1>4
  <2>2. d.kids \in [{1} -> TwoRows \cup {0, 7}]  BY <1>0 DEF Store, OneKid
  <2> QED  BY <1>4, <2>1, <2>2
<1>6. g = [e EXCEPT !.rows = [r \in {x1, x2} |-> Schema!Gone], !.uniq = {},
                    !.cols = Schema!NoSchema.cols, !.kids = kids]
  BY <1>3, <1>4 DEF Schema!Dropped, Schema!NoKid, Schema!Null
<1>7. PICK rows : rows = [r \in {x1, x2} |-> IF d.rows[r] = Schema!Gone THEN Schema!Gone
                            ELSE [c \in {"a", "b"} |-> Schema!copied(s, d, d.rows[r], c)]]
  OBVIOUS
<1>8. Schema!rebuilt(s, d) = [g EXCEPT !.cols = s.cols, !.child = d.child, !.fk = d.fk, !.rows = rows]
  BY <1>1, <1>3, <1>7 DEF Schema!rebuilt, Schema!Cols
<1>9. rows \in [TwoRows -> SomeRow \cup {Schema!Gone}]
  <2>1. ASSUME NEW r \in TwoRows PROVE rows[r] \in SomeRow \cup {Schema!Gone}
    <3>1. d.rows[r] \in SomeRow \cup {Schema!Gone}  BY <1>0, <2>1 DEF Store
    <3>2. CASE d.rows[r] = Schema!Gone  BY <1>7, <2>1, <3>2 DEF TwoRows
    <3>3. CASE d.rows[r] # Schema!Gone
      <4>1. d.rows[r] \in SomeRow  BY <3>1, <3>3
      <4>2. [c \in {"a", "b"} |-> Schema!copied(s, d, d.rows[r], c)] \in SomeRow
        BY <4>1, CopiesAreCells DEF SomeRow
      <4> QED  BY <1>7, <2>1, <3>3, <4>2 DEF TwoRows
    <3> QED  BY <3>2, <3>3
  <2> QED  BY <1>7, <2>1 DEF TwoRows
<1>10. PICK h : h = Schema!rebuilt(s, d)  OBVIOUS
<1>11. /\ h.cols = s.cols /\ h.uniq = {} /\ h.child = d.child /\ h.fk = d.fk
       /\ h.kids = d.kids /\ h.rows = rows
       /\ h = [cols |-> s.cols, uniq |-> {}, rows |-> rows, child |-> d.child, fk |-> d.fk, kids |-> d.kids]
  BY <1>2, <1>5, <1>6, <1>8, <1>10 DEF Store
<1>12. h \in Store  BY <1>0, <1>9, <1>11 DEF Deployed, Store
<1> QED  BY <1>7, <1>10, <1>11, <1>12 DEF SoundStore, TwoRows

(* A rebuild keeps the rows, and what it keeps of them without the opt-in. *)
LEMMA RebuiltKeepsRows ==
  ASSUME NEW s, Deployed(s), NEW d, SoundStore(d), NEW r \in TwoRows
  PROVE  /\ Schema!rebuilt(s, d).rows[r] = Schema!Gone <=> d.rows[r] = Schema!Gone
         /\ ~Schema!destructive(s, d) /\ d.rows[r] # Schema!Gone =>
              \A c \in Schema!Live(d.cols) :
                d.rows[r][c] # 0 => Schema!rebuilt(s, d).rows[r][c] = d.rows[r][c]
<1>1. d.rows[r] \in SomeRow \cup {Schema!Gone}  BY DEF SoundStore, Store
<1>2. CASE d.rows[r] = Schema!Gone  BY <1>2, RebuiltIsSound
<1>3. CASE d.rows[r] # Schema!Gone
  <2>1. d.rows[r] \in SomeRow  BY <1>1, <1>3
  <2>2. PICK new : new = [c \in {"a", "b"} |-> Schema!copied(s, d, d.rows[r], c)]  OBVIOUS
  <2>3. new \in SomeRow  BY <2>1, <2>2, CopiesAreCells DEF SomeRow
  <2>4. Schema!rebuilt(s, d).rows[r] = new  BY <1>3, <2>2, RebuiltIsSound
  <2>5. new # Schema!Gone  BY <2>3, GoneIsNoRow
  <2>6. ASSUME ~Schema!destructive(s, d), NEW c \in Schema!Live(d.cols), d.rows[r][c] # 0
        PROVE  new[c] = d.rows[r][c]
    <3>1. /\ Schema!renames(s, d) = {} /\ Schema!drops(s, d) = {} /\ Schema!retyped(s, d) = {}
      BY <2>6 DEF Schema!destructive
    <3>2. c \in {"a", "b"}  BY DEF Schema!Live, Schema!Cols
    <3>3. c \in Schema!Live(s.cols)  BY <3>1 DEF Schema!drops
    <3>4. s.from[c] \notin Schema!Live(d.cols)  BY <3>1, <3>3 DEF Schema!renames
    <3>5. s.cols[c].type = d.cols[c].type  BY <3>1, <3>3 DEF Schema!retyped
    <3>6. Schema!Source(s, Schema!Live(d.cols), c) = c  BY <3>4 DEF Schema!Source
    <3>7. s.cols[c] # Schema!NoCol /\ c # "none"  BY <3>2, <3>3 DEF Schema!Live
    <3>8. Schema!copied(s, d, d.rows[r], c) = d.rows[r][c]
      BY <2>6, <3>5, <3>6, <3>7 DEF Schema!copied, Schema!Null
    <3> QED  BY <2>2, <3>2, <3>8
  <2> QED  BY <1>3, <2>4, <2>5, <2>6
<1> QED  BY <1>2, <1>3

(* Nothing that differs and nothing that is destructive: the table is the  *)
(* schema's already.                                                       *)
LEMMA NoDifference ==
  ASSUME NEW s, Deployed(s), NEW d, SoundStore(d),
         ~Schema!destructive(s, d), ~Schema!differs(s, d)
  PROVE  d.cols = s.cols
<1>1. Schema!renames(s, d) = {} /\ Schema!drops(s, d) = {}  BY DEF Schema!destructive
<1>2. ASSUME NEW c \in {"a", "b"} PROVE d.cols[c] = s.cols[c]
  <2>1. CASE c \in Schema!Live(s.cols)  BY <2>1 DEF Schema!differs
  <2>2. CASE c \notin Schema!Live(s.cols)
    <3>1. c \notin Schema!Live(d.cols)  BY <1>1, <2>2 DEF Schema!drops
    <3> QED  BY <2>2, <3>1 DEF Schema!Live, Schema!Cols
  <2> QED  BY <2>1, <2>2
<1>3. d.cols \in SomeColumns /\ s.cols \in SomeColumns  BY DEF SoundStore, Store, Deployed
<1> QED  BY <1>2, <1>3 DEF SomeColumns

(* ADD COLUMN, or CREATE TABLE. *)
LEMMA AddKeeps ==
  ASSUME SchemaTyped, Schema!add
  PROVE  /\ SoundStore(db')
         /\ db'.kids = db.kids
         /\ \A r \in TwoRows :
              /\ db'.rows[r] = Schema!Gone <=> db.rows[r] = Schema!Gone
              /\ db.rows[r] # Schema!Gone =>
                   \A c \in Schema!Live(db.cols) : db'.rows[r][c] = db.rows[r][c]
<1>0. Deployed(schema) /\ SoundStore(db) /\ db \in Store  BY DEF SchemaTyped, SoundStore
<1>1. PICK new : new = Schema!addable(schema, db)  OBVIOUS
<1>2. new \subseteq {"a", "b"} /\ \A c \in Schema!Live(db.cols) : c \notin new
  BY <1>1 DEF Schema!addable, Schema!Live, Schema!Cols
<1>3. PICK cols : cols = [c \in {"a", "b"} |-> IF c \in new THEN Schema!shaped(schema, db, c) ELSE db.cols[c]]
  OBVIOUS
<1>4. cols \in SomeColumns
  <2>1. ASSUME NEW c \in {"a", "b"} PROVE cols[c] \in SomeColumn
    <3>1. db.cols[c] \in SomeColumn /\ schema.cols[c] \in SomeColumn
      BY <1>0 DEF Deployed, Store, SomeColumns
    <3>2. [schema.cols[c] EXCEPT !.notNull = FALSE] \in SomeColumn
      BY <3>1 DEF SomeColumn
    <3> QED  BY <1>3, <3>1, <3>2 DEF Schema!shaped
  <2> QED  BY <1>3, <2>1 DEF SomeColumns
<1>5. PICK rows : rows = [r \in {x1, x2} |-> IF db.rows[r] = Schema!Gone THEN Schema!Gone
                     ELSE [c \in {"a", "b"} |->
                        IF c \in new /\ schema.cols[c].default = "literal" THEN 9 ELSE db.rows[r][c]]]
  OBVIOUS
<1>6. ASSUME NEW r \in TwoRows
      PROVE  /\ rows[r] \in SomeRow \cup {Schema!Gone}
             /\ rows[r] = Schema!Gone <=> db.rows[r] = Schema!Gone
             /\ db.rows[r] # Schema!Gone =>
                  \A c \in Schema!Live(db.cols) : rows[r][c] = db.rows[r][c]
  <2>1. db.rows[r] \in SomeRow \cup {Schema!Gone}  BY <1>0 DEF Store
  <2>2. CASE db.rows[r] = Schema!Gone  BY <1>5, <2>2 DEF TwoRows
  <2>3. CASE db.rows[r] # Schema!Gone
    <3>1. db.rows[r] \in SomeRow  BY <2>1, <2>3
    <3>2. rows[r] = [c \in {"a", "b"} |->
            IF c \in new /\ schema.cols[c].default = "literal" THEN 9 ELSE db.rows[r][c]]
      BY <1>5, <2>3 DEF TwoRows
    <3>3. 9 \in Cells  BY DEF Cells
    <3>4. rows[r] \in SomeRow  BY <3>1, <3>2, <3>3 DEF SomeRow
    <3>5. rows[r] # Schema!Gone  BY <3>4, GoneIsNoRow
    <3>6. \A c \in Schema!Live(db.cols) : rows[r][c] = db.rows[r][c]
      BY <1>2, <3>2 DEF Schema!Live, Schema!Cols
    <3> QED  BY <2>3, <3>4, <3>5, <3>6
  <2> QED  BY <2>2, <2>3
<1>7. db' = [db EXCEPT !.cols = cols, !.rows = rows]
  BY <1>1, <1>3, <1>5 DEF Schema!add, Schema!Cols, Schema!Default
<1>8. /\ db'.rows = rows /\ db'.kids = db.kids /\ db'.child = db.child /\ db'.fk = db.fk
      /\ db' = [cols |-> cols, uniq |-> db.uniq, rows |-> rows, child |-> db.child,
                fk |-> db.fk, kids |-> db.kids]
  BY <1>0, <1>7 DEF Store
<1>9. rows \in [TwoRows -> SomeRow \cup {Schema!Gone}]  BY <1>5, <1>6 DEF TwoRows
<1>10. db' \in Store  BY <1>0, <1>4, <1>8, <1>9 DEF Store
<1> QED  BY <1>0, <1>6, <1>8, <1>10 DEF SoundStore

(* The second pass: held back, left alone, or rebuilt. *)
LEMMA ReconcileKeeps ==
  ASSUME SchemaTyped, Schema!reconcile, pc' # "threw"
  PROVE  /\ SoundStore(db')
         /\ db'.kids = db.kids
         /\ db'.uniq \subseteq schema.uniq
         /\ ~skipped' => db'.cols = schema.cols /\ skip' = {}
         /\ \A r \in TwoRows :
              /\ db'.rows[r] = Schema!Gone <=> db.rows[r] = Schema!Gone
              /\ ~gate /\ db.rows[r] # Schema!Gone =>
                   \A c \in Schema!Live(db.cols) :
                     db.rows[r][c] # 0 => db'.rows[r][c] = db.rows[r][c]
<1>0. Deployed(schema) /\ SoundStore(db) /\ db \in Store  BY DEF SchemaTyped, SoundStore
<1>1. PICK held \in BOOLEAN : held <=> Schema!destructive(schema, db) /\ ~gate  OBVIOUS
<1>2. PICK changed \in BOOLEAN :
        changed <=> Schema!destructive(schema, db) \/ Schema!differs(schema, db)
  OBVIOUS
<1>3. PICK d : d = IF changed /\ ~held THEN Schema!rebuilt(schema, db) ELSE db  OBVIOUS
<1>4. PICK dups : dups = Schema!unindexable(schema, db)  OBVIOUS
<1>5. /\ db' = [d EXCEPT !.uniq = @ \intersect schema.uniq]
      /\ skipped' <=> held \/ dups # {}
      /\ skip' = dups
  BY <1>1, <1>2, <1>3, <1>4 DEF Schema!reconcile, Schema!throw, Schema!to
<1>6. SoundStore(d) /\ d.kids = db.kids  BY <1>0, <1>3, RebuiltIsSound
<1>7. /\ db'.cols = d.cols /\ db'.rows = d.rows /\ db'.kids = d.kids /\ db'.child = d.child
      /\ db'.fk = d.fk /\ db'.uniq = d.uniq \intersect schema.uniq
      /\ db' \in Store
  BY <1>5, <1>6 DEF SoundStore, Store
<1>8. ASSUME ~skipped' PROVE d.cols = schema.cols /\ skip' = {}
  <2>1. ~held /\ dups = {}  BY <1>5, <1>8
  <2>2. CASE changed  BY <1>0, <1>3, <1>5, <2>1, <2>2, RebuiltIsSound
  <2>3. CASE ~changed  BY <1>0, <1>2, <1>3, <1>5, <2>1, <2>3, NoDifference
  <2> QED  BY <2>2, <2>3
<1>9. ASSUME NEW r \in TwoRows
      PROVE  /\ d.rows[r] = Schema!Gone <=> db.rows[r] = Schema!Gone
             /\ ~gate /\ db.rows[r] # Schema!Gone =>
                  \A c \in Schema!Live(db.cols) :
                    db.rows[r][c] # 0 => d.rows[r][c] = db.rows[r][c]
  <2>1. CASE d = db  BY <2>1
  <2>2. CASE ~held /\ d = Schema!rebuilt(schema, db)
    BY <1>0, <1>1, <2>2, RebuiltKeepsRows
  <2> QED  BY <1>3, <2>1, <2>2
<1> QED  BY <1>6, <1>7, <1>8, <1>9 DEF SoundStore

LEMMA SchemaStep ==
  ASSUME SchemaInv, [Schema!Next]_schemaVars
  PROVE  SchemaInv' /\ [Schema!LosesAllowed /\ Schema!Records]_schemaVars
<1>0. /\ SchemaTyped /\ Reconciled /\ Deployed(schema) /\ SoundStore(db) /\ SoundStore(before)
      /\ db \in Store /\ skipped \in BOOLEAN
  BY DEF SchemaInv, SchemaTyped, SoundStore
(* The rows and their children stay. *)
<1>a. ASSUME UNCHANGED db PROVE Schema!LosesAllowed
  BY <1>a DEF Schema!LosesAllowed, Schema!Present
<1>b. ASSUME UNCHANGED hash PROVE Schema!Records
  BY <1>b DEF Schema!Records
<1>1. ASSUME NEW s \in MCSchemas, NEW g \in BOOLEAN, Schema!deploy(s, g)
      PROVE  SchemaInv' /\ Schema!LosesAllowed /\ Schema!Records
  <2>1. Deployed(s)  BY EverySchemaIsDeployed
  <2>2. /\ schema' = s /\ gate' = g /\ pc' = "check"
        /\ UNCHANGED <<hash, db, before, skipped, skip>>
    BY <1>1 DEF Schema!deploy
  <2> QED
    BY <1>0, <1>a, <1>b, <2>1, <2>2 DEF SchemaInv, SchemaTyped, Reconciled, After
<1>2. ASSUME Schema!check PROVE SchemaInv' /\ Schema!LosesAllowed /\ Schema!Records
  <2>1. /\ pc' \in {"idle", "add"} /\ skipped' = FALSE /\ before' \in {db, before}
        /\ UNCHANGED <<schema, gate, hash, db>>
    BY <1>2 DEF Schema!check, Schema!to
  <2> QED  BY <1>0, <1>a, <1>b, <2>1 DEF SchemaInv, SchemaTyped, Reconciled, After
<1>3. ASSUME Schema!throw PROVE SchemaInv' /\ Schema!LosesAllowed /\ Schema!Records
  <2>1. /\ pc' = "threw" /\ db' \in {db, before}
        /\ UNCHANGED <<schema, gate, hash, before, skipped, skip>>
    BY <1>3 DEF Schema!throw, Schema!to
  <2> QED
    BY <1>0, <1>b, <2>1
    DEF SchemaInv, SchemaTyped, Reconciled, After, Schema!LosesAllowed, Schema!Migrates
<1>4. ASSUME Schema!add PROVE SchemaInv' /\ Schema!LosesAllowed /\ Schema!Records
  <2>1. /\ pc' = "reconcile" /\ UNCHANGED <<schema, gate, hash, before, skipped, skip>>
    BY <1>4 DEF Schema!add, Schema!to
  <2>2. SchemaInv'
    BY <1>0, <1>4, <2>1, AddKeeps DEF SchemaInv, SchemaTyped, Reconciled, After
  <2>3. Schema!LosesAllowed
    BY <1>0, <1>4, AddKeeps DEF Schema!LosesAllowed, Schema!Present, TwoRows
  <2> QED  BY <1>b, <2>1, <2>2, <2>3
<1>5. ASSUME Schema!reconcile PROVE SchemaInv' /\ Schema!LosesAllowed /\ Schema!Records
  <2>1. CASE Schema!throw  BY <1>3, <2>1
  <2>2. CASE ~Schema!throw
    <3>1. /\ pc' = "composite" /\ UNCHANGED <<schema, gate, hash, before>>
          /\ skipped' \in BOOLEAN
      BY <1>5, <2>2 DEF Schema!reconcile, Schema!to
    <3>2. SchemaInv'
      BY <1>0, <1>5, <3>1, ReconcileKeeps DEF SchemaInv, SchemaTyped, Reconciled, After
    <3>3. Schema!LosesAllowed
      BY <1>0, <1>5, <3>1, ReconcileKeeps
      DEF Schema!LosesAllowed, Schema!Present, Schema!Null, TwoRows
    <3> QED  BY <1>b, <3>1, <3>2, <3>3
  <2> QED  BY <2>1, <2>2
<1>6. ASSUME Schema!composite PROVE SchemaInv' /\ Schema!LosesAllowed /\ Schema!Records
  <2>2. PICK dups :
        /\ pc = "composite" /\ pc' = "child"
        /\ skip' = skip \union dups /\ skipped' = (skipped \/ dups # {})
        /\ UNCHANGED <<schema, gate, hash, before, db>>
    BY <1>6 DEF Schema!composite, Schema!to
  <2>3. skipped' \in BOOLEAN /\ (~skipped' => ~skipped /\ dups = {})  BY <1>0, <2>2
  <2> QED
    BY <1>0, <1>a, <1>b, <2>2, <2>3 DEF SchemaInv, SchemaTyped, Reconciled, After
<1>7. ASSUME Schema!child PROVE SchemaInv' /\ Schema!LosesAllowed /\ Schema!Records
  <2>1. PICK orphaned \in BOOLEAN :
          orphaned <=> schema.fk # "none" /\ db.fk = "none" /\ Schema!HasOrphans(db)
    OBVIOUS
  <2>2. PICK fk : fk = IF db.child /\ orphaned THEN "none" ELSE schema.fk  OBVIOUS
  <2>3. /\ pc = "child" /\ pc' = "index"
        /\ db' = IF ~schema.child THEN db ELSE [db EXCEPT !.child = TRUE, !.fk = fk]
        /\ skipped' = (skipped \/ (schema.child /\ db.child /\ orphaned))
        /\ UNCHANGED <<schema, gate, hash, before, skip>>
    BY <1>7, <2>1, <2>2 DEF Schema!child, Schema!to
  <2>4. fk \in Fks  BY <1>0, <2>2 DEF Deployed, Fks
  <2>5. /\ SoundStore(db') /\ db'.cols = db.cols /\ db'.uniq = db.uniq /\ db'.rows = db.rows
        /\ db'.kids = db.kids
        /\ schema.child => db'.child /\ db'.fk = fk
    BY <1>0, <2>3, <2>4 DEF SoundStore, Store
  <2>6. /\ skipped' \in BOOLEAN
        /\ ~skipped' => ~skipped /\ ~(schema.child /\ db.child /\ orphaned)
    BY <1>0, <2>3
  <2>7. SchemaInv'
    BY <1>0, <2>2, <2>3, <2>5, <2>6 DEF SchemaInv, SchemaTyped, Reconciled, After
  <2>8. Schema!LosesAllowed  BY <2>5 DEF Schema!LosesAllowed, Schema!Present
  <2> QED  BY <1>b, <2>3, <2>7, <2>8
<1>8. ASSUME Schema!index PROVE SchemaInv' /\ Schema!LosesAllowed /\ Schema!Records
  <2>1. CASE Schema!throw  BY <1>3, <2>1
  <2>2. CASE ~Schema!throw
    <3>1. /\ pc = "index" /\ pc' = "drop"
          /\ db' = [db EXCEPT !.uniq = @ \union (schema.uniq \ skip)]
          /\ UNCHANGED <<schema, gate, hash, before, skipped, skip>>
      BY <1>8, <2>2 DEF Schema!index, Schema!to
    <3>2. /\ db'.uniq = db.uniq \union (schema.uniq \ skip) /\ db'.cols = db.cols
          /\ db'.rows = db.rows /\ db'.kids = db.kids /\ db'.child = db.child /\ db'.fk = db.fk
      BY <1>0, <3>1 DEF Store
    <3>3. Schema!LosesAllowed  BY <3>2 DEF Schema!LosesAllowed, Schema!Present
    <3>4. Reconciled'  BY <1>0, <3>1, <3>2 DEF Reconciled, After
    <3>5. db'.uniq \subseteq SUBSET {"a", "b"}  BY <1>0, <3>2 DEF Deployed, Store
    <3>6. db' = [cols |-> db.cols, uniq |-> db'.uniq, rows |-> db.rows, child |-> db.child,
                 fk |-> db.fk, kids |-> db.kids]
      BY <1>0, <3>1, <3>2 DEF Store
    <3>7. SoundStore(db')  BY <1>0, <3>2, <3>5, <3>6 DEF SoundStore, Store
    <3> QED  BY <1>0, <1>b, <3>1, <3>3, <3>4, <3>7 DEF SchemaInv, SchemaTyped
  <2> QED  BY <2>1, <2>2
<1>9. ASSUME Schema!dropTables PROVE SchemaInv' /\ Schema!LosesAllowed /\ Schema!Records
  <2>1. PICK obsolete \in BOOLEAN : obsolete <=> db.child /\ ~schema.child  OBVIOUS
  <2>2. PICK none : none = [k \in {1} |-> 7]  OBVIOUS
  <2>3. none \in [OneKid -> TwoRows \cup {0, 7}]  BY <2>2 DEF OneKid
  <2>4. /\ pc = "drop" /\ pc' = "record"
        /\ db' = IF obsolete /\ gate THEN [db EXCEPT !.child = FALSE, !.fk = "none", !.kids = none]
                 ELSE db
        /\ skipped' = (skipped \/ (obsolete /\ ~gate))
        /\ UNCHANGED <<schema, gate, hash, before, skip>>
    BY <1>9, <2>1, <2>2 DEF Schema!dropTables, Schema!to, Schema!NoKid
  <2>5. /\ SoundStore(db') /\ db'.cols = db.cols /\ db'.uniq = db.uniq /\ db'.rows = db.rows
        /\ ~obsolete => db' = db
        /\ obsolete /\ gate => db'.child = FALSE /\ db'.fk = "none"
    BY <1>0, <2>3, <2>4 DEF SoundStore, Store, Fks
  <2>6. /\ skipped' \in BOOLEAN
        /\ ~skipped' => ~skipped /\ ~(obsolete /\ ~gate)
    BY <1>0, <2>4
  <2>7. SchemaInv'
    <3>1. SchemaTyped'  BY <1>0, <2>4, <2>5, <2>6 DEF SchemaTyped
    <3>2. ASSUME ~skipped' PROVE db'.child = schema.child /\ db'.fk = schema.fk
      <4>1. After({"drop", "record"}) /\ After({"index", "drop", "record"})
        BY <2>4, <2>6, <3>2 DEF After
      <4>2. schema.child => db.child /\ db.fk = schema.fk  BY <1>0, <4>1 DEF Reconciled
      <4>3. CASE schema.child  BY <1>0, <2>1, <2>5, <4>2, <4>3 DEF Deployed, SoundStore, Store
      <4>4. CASE ~schema.child
        <5>1. schema.child = FALSE /\ schema.fk = "none"  BY <1>0, <4>4 DEF Deployed
        <5>2. CASE obsolete  BY <2>5, <2>6, <3>2, <5>1, <5>2
        <5>3. CASE ~obsolete
          <6>1. ~db.child /\ db.child \in BOOLEAN  BY <1>0, <2>1, <4>4, <5>3 DEF Store
          <6> QED  BY <1>0, <2>5, <5>1, <5>3, <6>1 DEF SoundStore
        <5> QED  BY <5>2, <5>3
      <4> QED  BY <4>3, <4>4
    <3>3. Reconciled'
      BY <1>0, <2>4, <2>5, <2>6, <3>2 DEF Reconciled, After
    <3> QED  BY <3>1, <3>3 DEF SchemaInv
  <2>8. Schema!LosesAllowed
    BY <1>0, <2>1, <2>4, <2>5 DEF Schema!LosesAllowed, Schema!Present
  <2> QED  BY <1>b, <2>4, <2>7, <2>8
<1>10. ASSUME Schema!record PROVE SchemaInv' /\ Schema!LosesAllowed /\ Schema!Records
  <2>1. /\ pc = "record" /\ pc' = "idle" /\ hash' = IF skipped THEN hash ELSE schema
        /\ UNCHANGED <<schema, gate, db, before, skipped, skip>>
    BY <1>10 DEF Schema!record, Schema!recorded, Schema!to
  <2>2. Schema!Records
    BY <1>0, <2>1 DEF Schema!Records, Schema!Matches, Reconciled, After
  <2> QED  BY <1>0, <1>a, <2>1, <2>2 DEF SchemaInv, SchemaTyped, Reconciled, After
<1>11. ASSUME Schema!retry PROVE SchemaInv' /\ Schema!LosesAllowed /\ Schema!Records
  <2>1. pc' = "check" /\ UNCHANGED <<schema, gate, hash, db, before, skipped, skip>>
    BY <1>11 DEF Schema!retry, Schema!to
  <2> QED  BY <1>0, <1>a, <1>b, <2>1 DEF SchemaInv, SchemaTyped, Reconciled, After
<1>12. ASSUME NEW d, Schema!wrote(d), SoundStore(d),
              d.cols = db.cols, d.uniq = db.uniq, d.child = db.child, d.fk = db.fk
       PROVE  SchemaInv' /\ Schema!LosesAllowed /\ Schema!Records
  <2>1. db' = d /\ UNCHANGED <<schema, gate, hash, before, pc, skipped, skip, deploys>>
    BY <1>12 DEF Schema!wrote
  <2> QED
    BY <1>0, <1>b, <1>12, <2>1
    DEF SchemaInv, SchemaTyped, Reconciled, After, Schema!LosesAllowed, Schema!Migrates
<1>13. ASSUME NEW r \in TwoRows, NEW row \in [{"a", "b"} -> {1, 2} \union {0}],
              Schema!insert(r, row)
       PROVE  SchemaInv' /\ Schema!LosesAllowed /\ Schema!Records
  <2>1. PICK d : d = [db EXCEPT !.rows[r] = row]  OBVIOUS
  <2>2. row \in SomeRow  BY <1>13 DEF SomeRow, Cells
  <2>3. /\ SoundStore(d) /\ d.cols = db.cols /\ d.uniq = db.uniq /\ d.child = db.child
        /\ d.fk = db.fk
    BY <1>0, <2>1, <2>2 DEF SoundStore, Store
  <2> QED  BY <1>12, <1>13, <2>1, <2>3 DEF Schema!insert
<1>14. ASSUME NEW k \in {1}, NEW r \in TwoRows, Schema!attach(k, r)
       PROVE  SchemaInv' /\ Schema!LosesAllowed /\ Schema!Records
  <2>1. PICK d : d = [db EXCEPT !.kids[k] = r]  OBVIOUS
  <2>2. /\ SoundStore(d) /\ d.cols = db.cols /\ d.uniq = db.uniq /\ d.child = db.child
        /\ d.fk = db.fk
    BY <1>0, <2>1 DEF SoundStore, Store, OneKid
  <2> QED  BY <1>12, <1>14, <2>1, <2>2 DEF Schema!attach
<1>15. CASE UNCHANGED schemaVars
  BY <1>0, <1>15 DEF schemaVars, SchemaInv, SchemaTyped, Reconciled, After
<1> QED
  BY <1>1, <1>2, <1>3, <1>4, <1>5, <1>6, <1>7, <1>8, <1>9, <1>10, <1>11, <1>13, <1>14, <1>15
  DEF Schema!Next, Schema!die, TwoRows, Schema!Cols, Schema!Null

-----------------------------------------------------------------------------
(* A set of naturals has a least element: of the intervals from 0 to its   *)
(* elements one is smallest under strict inclusion.                        *)
LEMMA LeastNatural ==
  ASSUME NEW S, S \subseteq Nat, S # {}
  PROVE  \E n \in S : \A o \in S : n <= o
<1>1. PICK T : T = {0..n : n \in S}  OBVIOUS
<1>2. T \subseteq FiniteSubsetsOf(Nat)
  <2>1. ASSUME NEW n \in S PROVE 0..n \in FiniteSubsetsOf(Nat)
    <3>1. n \in Int /\ 0 \in Int /\ n \in Nat  OBVIOUS
    <3>2. IsFiniteSet(0..n)  BY <3>1, FS_Interval
    <3>3. 0..n \subseteq Nat  BY <3>1
    <3> QED  BY <3>2, <3>3 DEF FiniteSubsetsOf
  <2> QED  BY <1>1, <2>1
<1>3. T # {}  BY <1>1
<1>4. PICK x \in T : \A y \in T : ~(<<y, x>> \in StrictSubsetOrdering(Nat))
  BY <1>2, <1>3, FS_StrictSubsetOrderingWellFounded, WFMin
<1>5. PICK n \in S : x = 0..n  BY <1>1
<1>6. ASSUME NEW o \in S, o < n PROVE FALSE
  <2>1. o \in Nat /\ n \in Nat  OBVIOUS
  <2>2. 0..o \in T  BY <1>1
  <2>3. 0..o \subseteq 0..n  BY <1>6, <2>1
  <2>4. n \in 0..n /\ n \notin 0..o  BY <1>6, <2>1
  <2>5. 0..o # 0..n  BY <2>4
  <2>6. 0..o \in SUBSET Nat /\ 0..n \in SUBSET Nat  BY <2>1
  <2>7. <<0..o, 0..n>> \in StrictSubsetOrdering(Nat)
    BY <2>3, <2>5, <2>6 DEF StrictSubsetOrdering
  <2> QED  BY <1>4, <1>5, <2>2, <2>7
<1>7. \A o \in S : n <= o
  <2> SUFFICES ASSUME NEW o \in S PROVE n <= o
    OBVIOUS
  <2>1. o \in Nat /\ n \in Nat  OBVIOUS
  <2>2. ~(o < n)  BY <1>6
  <2> QED  BY <2>1, <2>2
<1> QED  BY <1>7

(***************************************************************************)
(* The wake-up of the Durable Object.                                      *)
(***************************************************************************)
Waker == {"alarm", "route"}
Moment == Nat \cup {-1}
TaskRow == [status: Alarm!Status, wait: Nat, attempts: Int, age: 0..2]
TaskTable == [Tasks -> TaskRow]
DrainPass == [pc: {"idle", "running", "pushing"}, batch: SUBSET Tasks, cur: Tasks \cup {NoTask},
              seen: [Tasks -> Int], age: Int, next: Moment]

(* The rows a pass still runs were enqueued. *)
Holds(p, t) ==
  p.pc = "running" =>
    /\ p.cur \in Tasks /\ t[p.cur].status # "none"
    /\ \A i \in p.batch : t[i].status # "none"

AlarmTyped ==
  /\ task \in TaskTable
  /\ alarm \in Moment
  /\ drain \in [Waker -> DrainPass]
  /\ unarmed \in BOOLEAN /\ late \in BOOLEAN /\ overtaken \in BOOLEAN
  /\ crashes \in Nat
  /\ \A w \in Waker : Holds(drain[w], task)

(* The time a pass will arm comes before every row it read needs a drain.  *)
Foresees(next, t) ==
  \A i \in Tasks : Alarm!live(t[i]) =>
    /\ next # -1
    /\ t[i].status = "pending" => next <= t[i].wait
    /\ t[i].status = "processing" => next <= 2 - t[i].age

AlarmInv ==
  /\ AlarmTyped
  /\ \A w \in Waker : drain[w].pc = "pushing" /\ ~overtaken => Foresees(drain[w].next, task)
  /\ Alarm!WakeCovered

LEMMA DelaysAreNaturals == Delays \subseteq Nat
BY ComponentAssumptions DEF ComponentAssumptions, Alarm!DoAlarmAssumption

LEMMA EarliestIsFirst ==
  ASSUME NEW S, S \subseteq Nat
  PROVE  /\ Alarm!earliest(S) \in Moment
         /\ \A o \in S : Alarm!earliest(S) # -1 /\ Alarm!earliest(S) <= o
<1>1. CASE S = {}  BY <1>1 DEF Alarm!earliest, Alarm!None, Moment
<1>2. CASE S # {}
  <2>1. \E n \in S : \A o \in S : n <= o  BY <1>2, LeastNatural
  <2>2. PICK e : e = CHOOSE n \in S : \A o \in S : n <= o  OBVIOUS
  <2>3. e \in S /\ \A o \in S : e <= o  BY <2>1, <2>2
  <2>4. Alarm!earliest(S) = e  BY <1>2, <2>2 DEF Alarm!earliest
  <2>5. e \in Nat  BY <2>3
  <2> QED  BY <2>3, <2>4, <2>5 DEF Moment
<1> QED  BY <1>1, <1>2

LEMMA NextRunAtForesees ==
  ASSUME NEW t \in TaskTable
  PROVE  Alarm!nextRunAt(t) \in Moment /\ Foresees(Alarm!nextRunAt(t), t)
<1>1. PICK S : S = Alarm!pendingWaits(t) \cup Alarm!staleWaits(t)  OBVIOUS
<1>2. S \subseteq Nat
  <2>1. \A i \in Tasks : t[i].wait \in Nat /\ 2 - t[i].age \in Nat
    BY DEF TaskTable, TaskRow
  <2> QED  BY <1>1, <2>1 DEF Alarm!pendingWaits, Alarm!staleWaits
<1>3. PICK n : n = Alarm!nextRunAt(t)  OBVIOUS
<1>4. n \in Moment /\ \A o \in S : n # -1 /\ n <= o
  BY <1>1, <1>2, <1>3, EarliestIsFirst DEF Alarm!nextRunAt
<1>5. ASSUME NEW i \in Tasks, Alarm!live(t[i])
      PROVE  /\ n # -1
             /\ t[i].status = "pending" => n <= t[i].wait
             /\ t[i].status = "processing" => n <= 2 - t[i].age
  <2>1. CASE t[i].status = "pending"
    <3>1. t[i].wait \in S  BY <1>1, <2>1 DEF Alarm!pendingWaits
    <3> QED  BY <1>4, <2>1, <3>1
  <2>2. CASE t[i].status = "processing"
    <3>1. 2 - t[i].age \in S  BY <1>1, <2>2 DEF Alarm!staleWaits
    <3> QED  BY <1>4, <2>2, <3>1
  <2> QED  BY <1>5, <2>1, <2>2 DEF Alarm!live
<1> QED  BY <1>3, <1>4, <1>5 DEF Foresees

(* An alarm set from such a time covers the work. *)
LEMMA RearmedCovers ==
  ASSUME NEW t \in TaskTable, NEW next \in Moment, Foresees(next, t), NEW a \in Moment
  PROVE  /\ Alarm!rearmed(a, next) \in Moment
         /\ \A i \in Tasks : Alarm!live(t[i]) => Alarm!covers(Alarm!rearmed(a, next), t[i])
<1>1. Alarm!rearmed(a, next) \in Moment
  BY DEF Alarm!rearmed, Alarm!larger, Alarm!None, Moment
<1>2. ASSUME NEW i \in Tasks, Alarm!live(t[i])
      PROVE  Alarm!covers(Alarm!rearmed(a, next), t[i])
  <2>1. /\ next # -1
        /\ t[i].status = "pending" => next <= t[i].wait
        /\ t[i].status = "processing" => next <= 2 - t[i].age
    BY <1>2 DEF Foresees
  <2>2. next \in Nat /\ Alarm!rearmed(a, next) = IF next >= 2 THEN next ELSE 2
    BY <2>1 DEF Alarm!rearmed, Alarm!larger, Alarm!None, Moment
  <2>3. t[i].wait \in Nat /\ t[i].age \in 0..2 /\ t[i].status \in {"pending", "processing"}
    BY <1>2 DEF TaskTable, TaskRow, Alarm!live
  <2>4. PICK m : m = Alarm!wakeIn(t[i])  OBVIOUS
  <2>5. m \in Int /\ next <= m
    BY <2>1, <2>2, <2>3, <2>4 DEF Alarm!wakeIn, Alarm!larger
  <2> QED  BY <2>2, <2>4, <2>5 DEF Alarm!covers, Alarm!larger, Alarm!None
<1> QED  BY <1>1, <1>2

(* What the end of a stretch without awaits leaves: every other pass that  *)
(* is pushing is overtaken, and a pass that ends arms what it has read.    *)
LEMMA CarryOnKeeps ==
  ASSUME NEW w \in Waker, NEW p \in DrainPass, NEW t \in TaskTable, NEW a \in Moment,
         NEW b \in SUBSET Tasks, NEW touched \in BOOLEAN,
         AlarmTyped, \A i \in b : t[i].status # "none",
         \A i \in Tasks : task[i].status = "none" <=> t[i].status = "none",
         Alarm!carryOn(w, p, t, a, b, touched), Alarm!overtakes, UNCHANGED crashes
  PROVE  AlarmInv' /\ ~Alarm!enqueues
<1> USE DEF Waker
<1>1. /\ drain \in [Waker -> DrainPass] /\ overtaken' \in BOOLEAN /\ crashes' \in Nat
      /\ \A v \in Waker : drain[v].pc = "pushing" => overtaken'
  BY DEF AlarmTyped, Alarm!overtakes, Alarm!Wakers
<1>2. PICK q : q = drain'[w]  OBVIOUS
<1>3. ASSUME q \in DrainPass, drain' = [drain EXCEPT ![w] = q],
             task' \in TaskTable, alarm' \in Moment, unarmed' \in BOOLEAN, late' \in BOOLEAN,
             \A i \in Tasks : task'[i].status = t[i].status,
             Holds(q, task'), q.pc = "pushing" => Foresees(q.next, task'),
             q.pc = "idle" => \A i \in Tasks : Alarm!live(task'[i]) => Alarm!covers(alarm', task'[i])
      PROVE  AlarmInv' /\ ~Alarm!enqueues
  <2>1. drain' \in [Waker -> DrainPass] /\ drain'[w] = q
    BY <1>1, <1>3
  <2>2. ASSUME NEW v \in Waker, v # w
        PROVE  drain'[v] = drain[v] /\ Holds(drain'[v], task')
    <3>1. drain'[v] = drain[v]  BY <1>1, <1>3, <2>2
    <3>2. Holds(drain[v], task) /\ drain[v] \in DrainPass  BY <1>1 DEF AlarmTyped
    <3> QED  BY <1>3, <3>1, <3>2 DEF Holds, DrainPass
  <2>3. AlarmTyped'
    BY <1>1, <1>3, <2>1, <2>2 DEF AlarmTyped
  <2>4. ASSUME NEW v \in Waker, drain'[v].pc = "pushing", ~overtaken'
        PROVE  Foresees(drain'[v].next, task')
    BY <1>1, <1>3, <2>1, <2>2, <2>4
  <2>5. Alarm!WakeCovered'
    BY <1>3, <2>1 DEF Alarm!WakeCovered, Alarm!quiet, Alarm!idle, Alarm!Wakers
  <2>6. ~Alarm!enqueues
    BY <1>3 DEF Alarm!enqueues
  <2> QED  BY <2>3, <2>4, <2>5, <2>6 DEF AlarmInv
<1>4. CASE \E i \in b :
             /\ task' = [t EXCEPT ![i].age = 0]
             /\ drain' = [drain EXCEPT ![w] =
                  [p EXCEPT !.pc = "running", !.batch = b \ {i}, !.cur = i]]
             /\ alarm' = a
             /\ UNCHANGED <<unarmed, late>>
  <2>1. PICK i \in b :
             /\ task' = [t EXCEPT ![i].age = 0]
             /\ drain' = [drain EXCEPT ![w] =
                  [p EXCEPT !.pc = "running", !.batch = b \ {i}, !.cur = i]]
             /\ alarm' = a
             /\ UNCHANGED <<unarmed, late>>
    BY <1>4
  <2>2. PICK r : r = [t[i] EXCEPT !.age = 0]  OBVIOUS
  <2>3. r \in TaskRow /\ r.status = t[i].status
    BY <2>2 DEF TaskTable, TaskRow
  <2>4. task' = [t EXCEPT ![i] = r]  BY <2>1, <2>2
  <2>5. task' \in TaskTable /\ \A j \in Tasks : task'[j].status = t[j].status
    BY <2>3, <2>4 DEF TaskTable
  <2>6. PICK e : e = [p EXCEPT !.pc = "running", !.batch = b \ {i}, !.cur = i]  OBVIOUS
  <2>7. /\ e.pc = "running" /\ e.batch = b \ {i} /\ e.cur = i
        /\ e \in DrainPass
    BY <2>6 DEF DrainPass
  <2>8. q = e /\ drain' = [drain EXCEPT ![w] = q]
    BY <1>1, <1>2, <2>1, <2>6
  <2>9. Holds(q, task')
    BY <2>5, <2>7, <2>8 DEF Holds
  <2>10. unarmed' \in BOOLEAN /\ late' \in BOOLEAN  BY <2>1 DEF AlarmTyped
  <2> QED  BY <1>3, <2>1, <2>5, <2>7, <2>8, <2>9, <2>10
<1>5. Alarm!idlePass \in DrainPass /\ Alarm!idlePass.pc = "idle"
  BY DEF Alarm!idlePass, Alarm!noneSeen, Alarm!None, DrainPass, Moment
<1>6. PICK n : n = Alarm!nextRunAt(t)  OBVIOUS
<1>7. n \in Moment /\ Foresees(n, t)  BY <1>6, NextRunAtForesees
<1>8. CASE /\ task' = t
           /\ drain' = [drain EXCEPT ![w] = Alarm!idlePass]
           /\ alarm' = Alarm!rearmed(a, Alarm!nextRunAt(t))
           /\ unarmed' = FALSE
           /\ late' = FALSE
  <2>1. q = Alarm!idlePass /\ drain' = [drain EXCEPT ![w] = q]
    BY <1>1, <1>2, <1>8
  <2>2. alarm' \in Moment /\ \A i \in Tasks : Alarm!live(t[i]) => Alarm!covers(alarm', t[i])
    BY <1>6, <1>7, <1>8, RearmedCovers
  <2>3. Holds(q, task')  BY <1>5, <2>1 DEF Holds
  <2> QED  BY <1>3, <1>5, <1>8, <2>1, <2>2, <2>3
<1>9. CASE /\ task' = t
           /\ drain' = [drain EXCEPT ![w] =
                [Alarm!idlePass EXCEPT !.pc = "pushing", !.next = Alarm!nextRunAt(t)]]
           /\ alarm' = a
           /\ UNCHANGED <<unarmed, late>>
  <2>1. PICK e : e = [Alarm!idlePass EXCEPT !.pc = "pushing", !.next = n]  OBVIOUS
  <2>2. e \in DrainPass /\ e.pc = "pushing" /\ e.next = n
    BY <1>5, <1>7, <2>1 DEF DrainPass
  <2>3. q = e /\ drain' = [drain EXCEPT ![w] = q]
    BY <1>1, <1>2, <1>6, <1>9, <2>1
  <2>4. Holds(q, task')  BY <2>2, <2>3 DEF Holds
  <2>5. unarmed' \in BOOLEAN /\ late' \in BOOLEAN  BY <1>9 DEF AlarmTyped
  <2> QED  BY <1>3, <1>7, <1>9, <2>2, <2>3, <2>4, <2>5
<1> QED  BY <1>4, <1>8, <1>9 DEF Alarm!carryOn

LEMMA AlarmInit ==
  ASSUME Alarm!Init
  PROVE  AlarmInv
<1>1. Alarm!idlePass \in DrainPass /\ Alarm!idlePass.pc = "idle"
  BY DEF Alarm!idlePass, Alarm!noneSeen, Alarm!None, DrainPass, Moment
<1>2. Alarm!absent \in TaskRow /\ Alarm!absent.status = "none"
  BY DEF Alarm!absent, Alarm!Status, TaskRow
<1>3. task \in TaskTable /\ \A i \in Tasks : task[i] = Alarm!absent
  BY <1>2 DEF Alarm!Init, TaskTable
<1>4. drain \in [Waker -> DrainPass] /\ \A w \in Waker : drain[w] = Alarm!idlePass
  BY <1>1 DEF Alarm!Init, Alarm!Wakers, Waker
<1>5. alarm \in Moment /\ unarmed = FALSE /\ late = FALSE /\ overtaken = FALSE /\ crashes = 0
  BY DEF Alarm!Init, Alarm!None, Moment
<1>6. AlarmTyped
  BY <1>1, <1>3, <1>4, <1>5 DEF AlarmTyped, Holds
<1>7. Alarm!WakeCovered
  BY <1>2, <1>3 DEF Alarm!WakeCovered, Alarm!live
<1> QED  BY <1>1, <1>4, <1>6, <1>7 DEF AlarmInv

(* A row was enqueued, and the alarm is armed or the loss is on record.    *)
LEMMA InsertKeeps ==
  ASSUME NEW i \in Tasks, NEW delay \in Delays, AlarmTyped, Alarm!insertRow(i, delay),
         UNCHANGED <<drain, crashes>>,
         \/ Alarm!armDrain
         \/ unarmed' = TRUE /\ UNCHANGED <<alarm, late>>
  PROVE  AlarmInv' /\ (alarm # -1 => alarm' # -1 /\ alarm' <= alarm)
<1>1. PICK r : r = [status |-> "pending", wait |-> delay, attempts |-> 0, age |-> 0]
  OBVIOUS
<1>2. r \in TaskRow /\ r.status = "pending"
  BY <1>1, DelaysAreNaturals DEF TaskRow, Alarm!Status
<1>3. task' = [task EXCEPT ![i] = r]
  BY <1>1 DEF Alarm!insertRow, Alarm!inserted
<1>4. /\ task' \in TaskTable
      /\ \A j \in Tasks : task[j].status # "none" => task'[j].status # "none"
  BY <1>2, <1>3 DEF AlarmTyped, TaskTable
<1>5. /\ overtaken' \in BOOLEAN
      /\ \A w \in Waker : drain[w].pc = "pushing" => overtaken'
  BY DEF AlarmTyped, Alarm!insertRow, Alarm!overtakes, Alarm!Wakers, Waker
<1>6. alarm \in Moment /\ unarmed \in BOOLEAN /\ late \in BOOLEAN  BY DEF AlarmTyped
<1>7. /\ alarm' \in Moment /\ unarmed' \in BOOLEAN /\ late' \in BOOLEAN
      /\ unarmed' = TRUE \/ alarm' \in {0, 1}
      /\ alarm # -1 => alarm' # -1 /\ alarm' <= alarm
  <2>1. CASE Alarm!armDrain
    <3>1. unarmed' = FALSE /\ late' = FALSE  BY <2>1 DEF Alarm!armDrain
    <3>2. alarm' = IF alarm # -1 /\ alarm <= 1 THEN alarm ELSE 1
      BY <2>1 DEF Alarm!armDrain, Alarm!armed, Alarm!None
    <3>3. alarm' \in Moment /\ alarm' \in {0, 1} /\ (alarm # -1 => alarm' # -1 /\ alarm' <= alarm)
      <4>1. alarm \in Moment  BY <1>6
      <4> QED  BY <3>2, <4>1 DEF Moment
    <3> QED  BY <3>1, <3>3
  <2>2. CASE unarmed' = TRUE /\ UNCHANGED <<alarm, late>>
    BY <1>6, <2>2 DEF Moment
  <2> QED  BY <2>1, <2>2
<1>8. ASSUME NEW w \in Waker  PROVE  Holds(drain'[w], task')
  <2>1. Holds(drain[w], task) /\ drain[w] \in DrainPass  BY DEF AlarmTyped
  <2> QED  BY <1>4, <2>1 DEF Holds, DrainPass
<1>9. AlarmTyped'
  BY <1>4, <1>5, <1>7, <1>8 DEF AlarmTyped
<1>10. ASSUME ~unarmed', NEW j \in Tasks  PROVE  Alarm!covers(alarm', task'[j])
  <2>1. alarm' \in {0, 1}  BY <1>7, <1>10
  <2>2. task'[j] \in TaskRow  BY <1>4 DEF TaskTable
  <2>3. PICK m : m = Alarm!wakeIn(task'[j])  OBVIOUS
  <2>4. m \in Int  BY <2>2, <2>3 DEF Alarm!wakeIn, Alarm!larger, TaskRow
  <2> QED  BY <2>1, <2>3, <2>4 DEF Alarm!covers, Alarm!larger, Alarm!None
<1> QED  BY <1>5, <1>7, <1>9, <1>10 DEF AlarmInv, Alarm!WakeCovered

(* The object dies: nobody is at work, and the alarm is what it was when   *)
(* no pass of its own was cut off, or due at once.                         *)
LEMMA DeathKeeps ==
  ASSUME AlarmInv, Alarm!die, task' \in TaskTable, unarmed' \in BOOLEAN,
         \/ unarmed' = TRUE
         \/ /\ task' = task /\ ~unarmed /\ Alarm!idle("route")
            /\ Alarm!idle("alarm") \/ alarm' = 0
  PROVE  AlarmInv' /\ crashes' # crashes
<1>1. Alarm!idlePass \in DrainPass /\ Alarm!idlePass.pc = "idle"
  BY DEF Alarm!idlePass, Alarm!noneSeen, Alarm!None, DrainPass, Moment
<1>2. drain' \in [Waker -> DrainPass] /\ \A w \in Waker : drain'[w].pc = "idle"
  BY <1>1 DEF Alarm!die, Alarm!Wakers, Waker
<1>3. alarm \in Moment /\ crashes \in Nat /\ late \in BOOLEAN  BY DEF AlarmInv, AlarmTyped
<1>4. /\ alarm' \in Moment /\ crashes' \in Nat /\ crashes' # crashes /\ late' = late
      /\ overtaken' = FALSE
      /\ Alarm!idle("alarm") => alarm' = alarm
  BY <1>3 DEF Alarm!die, Alarm!alarmsAfterDeath, Alarm!None, Moment
<1>5. AlarmTyped'
  BY <1>2, <1>3, <1>4 DEF AlarmTyped, Holds
<1>6. ASSUME ~unarmed', ~late', NEW i \in Tasks, Alarm!live(task'[i])
      PROVE  Alarm!covers(alarm', task'[i])
  <2>1. CASE Alarm!idle("alarm")
    <3>1. Alarm!quiet  BY <1>6, <2>1 DEF Alarm!quiet, Alarm!Wakers
    <3> QED  BY <1>4, <1>6, <2>1, <3>1 DEF AlarmInv, Alarm!WakeCovered
  <2>2. CASE alarm' = 0
    <3>1. task'[i] \in TaskRow  BY DEF TaskTable
    <3>2. PICK m : m = Alarm!wakeIn(task'[i])  OBVIOUS
    <3>3. m \in Int  BY <3>1, <3>2 DEF Alarm!wakeIn, Alarm!larger, TaskRow
    <3> QED  BY <2>2, <3>2, <3>3 DEF Alarm!covers, Alarm!larger, Alarm!None
  <2> QED  BY <1>6, <2>1, <2>2
<1> QED  BY <1>2, <1>4, <1>5, <1>6 DEF AlarmInv, Alarm!WakeCovered

(* Time passes for rows, alarm and readings alike.                         *)
LEMMA TickKeeps ==
  ASSUME AlarmInv, Alarm!tick
  PROVE  AlarmInv' /\ ~Alarm!enqueues
<1>1. /\ AlarmTyped /\ alarm' = Alarm!down(alarm)
      /\ UNCHANGED <<unarmed, late, overtaken, crashes>>
  BY DEF AlarmInv, Alarm!tick
<1>2. ASSUME NEW i \in Tasks
      PROVE  /\ task[i] \in TaskRow /\ task'[i] \in TaskRow
             /\ task'[i].status = task[i].status
             /\ Alarm!live(task[i]) => task'[i].wait = Alarm!down(task[i].wait)
             /\ task[i].status = "processing" =>
                  task'[i].age = IF task[i].age < 2 THEN task[i].age + 1 ELSE task[i].age
  <2>1. PICK r : r = task[i]  OBVIOUS
  <2>2. r \in TaskRow  BY <1>1, <2>1 DEF AlarmTyped, TaskTable
  <2>3. PICK x, y : /\ x = IF Alarm!live(r) THEN Alarm!down(r.wait) ELSE r.wait
                    /\ y = IF r.status = "processing" /\ r.age < 2 THEN r.age + 1 ELSE r.age
    OBVIOUS
  <2>4. x \in Nat /\ y \in 0..2  BY <2>2, <2>3 DEF TaskRow, Alarm!down
  <2>5. task'[i] = [r EXCEPT !.wait = x, !.age = y]
    BY <2>1, <2>3 DEF Alarm!tick
  <2>6. /\ task'[i] \in TaskRow /\ task'[i].status = r.status
        /\ task'[i].wait = x /\ task'[i].age = y
    BY <2>2, <2>4, <2>5 DEF TaskRow
  <2> QED  BY <2>1, <2>2, <2>3, <2>6
<1>3. task' \in TaskTable
  <2>1. DOMAIN task' = Tasks /\ task' = [i \in Tasks |-> task'[i]]  BY DEF Alarm!tick
  <2> QED  BY <1>2, <2>1 DEF TaskTable
<1>4. ASSUME NEW w \in Waker
      PROVE  /\ drain[w] \in DrainPass /\ drain'[w] \in DrainPass
             /\ drain'[w].pc = drain[w].pc /\ drain'[w].next = Alarm!down(drain[w].next)
             /\ Holds(drain'[w], task')
  <2>1. PICK p : p = drain[w]  OBVIOUS
  <2>2. p \in DrainPass /\ Holds(p, task)  BY <1>1, <2>1 DEF AlarmTyped
  <2>3. PICK x, y : /\ x = IF p.pc = "running" /\ p.age < 1 THEN p.age + 1 ELSE p.age
                    /\ y = Alarm!down(p.next)
    OBVIOUS
  <2>4. x \in Int /\ y \in Moment  BY <2>2, <2>3 DEF DrainPass, Alarm!down, Moment
  <2>5. drain'[w] = [p EXCEPT !.age = x, !.next = y]
    BY <2>1, <2>3 DEF Alarm!tick, Alarm!Wakers, Waker
  <2>6. /\ drain'[w] \in DrainPass /\ drain'[w].pc = p.pc /\ drain'[w].next = y
        /\ drain'[w].cur = p.cur /\ drain'[w].batch = p.batch /\ p.batch \subseteq Tasks
    BY <2>2, <2>4, <2>5 DEF DrainPass
  <2>7. Holds(drain'[w], task')  BY <1>2, <2>2, <2>6 DEF Holds
  <2> QED  BY <2>1, <2>2, <2>3, <2>6, <2>7
<1>5. drain' \in [Waker -> DrainPass]
  <2>1. drain' = [w \in Waker |-> drain'[w]]  BY DEF Alarm!tick, Alarm!Wakers, Waker
  <2> QED  BY <1>4, <2>1
<1>6. alarm' \in Moment  BY <1>1 DEF AlarmTyped, Alarm!down, Moment
<1>7. AlarmTyped'  BY <1>1, <1>3, <1>4, <1>5, <1>6 DEF AlarmTyped
<1>8. ASSUME NEW w \in Waker, drain'[w].pc = "pushing", ~overtaken'
      PROVE  Foresees(drain'[w].next, task')
  <2>1. Foresees(drain[w].next, task)  BY <1>1, <1>4, <1>8 DEF AlarmInv
  <2>2. PICK n : n = drain[w].next  OBVIOUS
  <2>3. n \in Moment /\ drain'[w].next = Alarm!down(n)  BY <1>4, <2>2 DEF DrainPass
  <2>4. ASSUME NEW i \in Tasks, Alarm!live(task'[i])
        PROVE  /\ Alarm!down(n) # -1
               /\ task'[i].status = "pending" => Alarm!down(n) <= task'[i].wait
               /\ task'[i].status = "processing" => Alarm!down(n) <= 2 - task'[i].age
    <3>1. Alarm!live(task[i])  BY <1>2, <2>4 DEF Alarm!live
    <3>2. /\ n # -1
          /\ task[i].status = "pending" => n <= task[i].wait
          /\ task[i].status = "processing" => n <= 2 - task[i].age
      BY <2>1, <2>2, <3>1 DEF Foresees
    <3>3. task[i].wait \in Nat /\ task[i].age \in 0..2  BY <1>2 DEF TaskRow
    <3> QED  BY <1>2, <2>3, <3>1, <3>2, <3>3 DEF Alarm!down, Moment
  <2> QED  BY <2>3, <2>4 DEF Foresees
<1>9. ASSUME Alarm!quiet', ~unarmed', ~late', NEW i \in Tasks, Alarm!live(task'[i])
      PROVE  Alarm!covers(alarm', task'[i])
  <2>1. Alarm!quiet  BY <1>4, <1>9 DEF Alarm!quiet, Alarm!idle, Alarm!Wakers, Waker
  <2>2. Alarm!live(task[i])  BY <1>2, <1>9 DEF Alarm!live
  <2>3. Alarm!covers(alarm, task[i])
    BY <1>1, <1>9, <2>1, <2>2 DEF AlarmInv, Alarm!WakeCovered
  <2>4. task[i].wait \in Nat /\ task[i].age \in 0..2  BY <1>2 DEF TaskRow
  <2>5. alarm \in Moment  BY <1>1 DEF AlarmTyped
  <2>6. CASE task[i].status = "pending"
    BY <1>1, <1>2, <2>2, <2>3, <2>4, <2>5, <2>6
    DEF Alarm!covers, Alarm!wakeIn, Alarm!larger, Alarm!down, Alarm!None, Moment
  <2>7. CASE task[i].status = "processing"
    BY <1>1, <1>2, <2>2, <2>3, <2>4, <2>5, <2>7
    DEF Alarm!covers, Alarm!wakeIn, Alarm!larger, Alarm!down, Alarm!None, Moment
  <2> QED  BY <2>2, <2>6, <2>7 DEF Alarm!live
<1>10. ~Alarm!enqueues  BY <1>2 DEF Alarm!enqueues
<1> QED  BY <1>7, <1>8, <1>9, <1>10 DEF AlarmInv, Alarm!WakeCovered

(* A request does not delay a pending alarm.                               *)
EnqueueKeepsAlarm ==
  Alarm!enqueues /\ crashes' = crashes /\ alarm # -1 => alarm' # -1 /\ alarm' <= alarm

LEMMA PassStarts ==
  ASSUME NEW w \in Waker, NEW a \in Moment, AlarmTyped, Alarm!startPass(w, a)
  PROVE  AlarmInv' /\ ~Alarm!enqueues
<1>1. PICK b \in Alarm!batches :
        Alarm!carryOn(w, [Alarm!idlePass EXCEPT !.seen =
                            [i \in Tasks |-> IF i \in b THEN task[i].attempts ELSE 0]],
                      Alarm!claimed(b), a, b, FALSE)
  BY DEF Alarm!startPass
<1>2. Alarm!overtakes /\ UNCHANGED crashes  BY DEF Alarm!startPass
<1>3. task \in TaskTable  BY DEF AlarmTyped
<1>4. b \in SUBSET Tasks /\ \A i \in b : task[i].status # "none"
  BY <1>1 DEF Alarm!batches, Alarm!claimable
<1>5. PICK s : s = [i \in Tasks |-> IF i \in b THEN task[i].attempts ELSE 0]  OBVIOUS
<1>6. s \in [Tasks -> Int]
  <2>1. \A i \in Tasks : task[i].attempts \in Int  BY <1>3 DEF TaskTable, TaskRow
  <2> QED  BY <1>5, <2>1
<1>7. PICK p : p = [Alarm!idlePass EXCEPT !.seen = s]  OBVIOUS
<1>8. p \in DrainPass
  <2>1. Alarm!idlePass \in DrainPass
    BY DEF Alarm!idlePass, Alarm!noneSeen, Alarm!None, DrainPass, Moment
  <2> QED  BY <1>6, <1>7, <2>1 DEF DrainPass
<1>9. PICK t : t = Alarm!claimed(b)  OBVIOUS
<1>10. ASSUME NEW i \in Tasks
       PROVE  t[i] \in TaskRow /\ (task[i].status = "none" <=> t[i].status = "none")
  <2>1. task[i] \in TaskRow  BY <1>3 DEF TaskTable
  <2>2. t[i] = IF i \in b THEN [task[i] EXCEPT !.status = "processing", !.age = 0] ELSE task[i]
    BY <1>9 DEF Alarm!claimed
  <2>3. CASE i \in b
    <3>1. PICK x : x = [task[i] EXCEPT !.status = "processing"]  OBVIOUS
    <3>2. x \in TaskRow /\ x.status = "processing"
      BY <2>1, <3>1 DEF TaskRow, Alarm!Status
    <3>3. PICK r : r = [x EXCEPT !.age = 0]  OBVIOUS
    <3>4. r \in TaskRow /\ r.status = "processing"
      BY <3>2, <3>3 DEF TaskRow
    <3>5. r = [task[i] EXCEPT !.status = "processing", !.age = 0]  BY <2>1, <3>1, <3>3 DEF TaskRow
    <3> QED  BY <1>4, <2>2, <2>3, <3>4, <3>5
  <2>4. CASE i \notin b  BY <2>1, <2>2, <2>4
  <2> QED  BY <2>3, <2>4
<1>11. t \in TaskTable
  <2>1. t = [i \in Tasks |-> t[i]]  BY <1>9 DEF Alarm!claimed
  <2> QED  BY <1>10, <2>1 DEF TaskTable
<1>12. \A i \in b : t[i].status # "none"  BY <1>4, <1>10
<1>13. Alarm!carryOn(w, p, t, a, b, FALSE)  BY <1>1, <1>5, <1>7, <1>9
<1> QED  BY <1>2, <1>4, <1>8, <1>10, <1>11, <1>12, <1>13, CarryOnKeeps

LEMMA HandlerReturns ==
  ASSUME NEW w \in Waker, AlarmTyped, Alarm!handlerEnds(w)
  PROVE  AlarmInv' /\ ~Alarm!enqueues
<1>1. PICK p : p = drain[w]  OBVIOUS
<1>2. PICK ok \in BOOLEAN :
        Alarm!carryOn(w, p, Alarm!recorded(p, ok), alarm, p.batch, TRUE)
  BY <1>1 DEF Alarm!handlerEnds
<1>3. p.pc = "running" /\ Alarm!overtakes /\ UNCHANGED crashes
  BY <1>1 DEF Alarm!handlerEnds
<1>4. task \in TaskTable /\ alarm \in Moment /\ p \in DrainPass /\ Holds(p, task)
  BY <1>1 DEF AlarmTyped
<1>5. p.cur \in Tasks /\ task[p.cur].status # "none" /\ p.batch \in SUBSET Tasks
  BY <1>3, <1>4 DEF Holds, DrainPass
<1>6. PICK n, l, e :
        /\ n = Alarm!attemptOf(p)
        /\ l = Alarm!larger(Alarm!backoffMs(n) - p.age, 0)
        /\ e = Alarm!outcomeOfFailure(n)
  OBVIOUS
<1>7. n \in Int  BY <1>4, <1>5, <1>6 DEF Alarm!attemptOf, DrainPass
<1>8. l \in Nat
  <2>1. PICK k : k = (2 ^ n) * 1  OBVIOUS
  <2>2. PICK m : m = Alarm!backoffMs(n)  OBVIOUS
  <2>3. m = IF k \in 0..1 THEN k ELSE 1  BY <2>1, <2>2 DEF Alarm!backoffMs
  <2>4. m \in Int  BY <2>3
  <2>5. p.age \in Int  BY <1>4 DEF DrainPass
  <2> QED  BY <1>6, <2>2, <2>4, <2>5 DEF Alarm!larger
<1>9. e \in {"failed", "pending"}  BY <1>6 DEF Alarm!outcomeOfFailure
<1>10. PICK r : r = IF ok THEN [status |-> "done", wait |-> 0, attempts |-> n, age |-> 0]
                    ELSE [status |-> e, wait |-> l, attempts |-> n, age |-> 0]
  OBVIOUS
<1>11. r \in TaskRow /\ r.status # "none"
  BY <1>7, <1>8, <1>9, <1>10 DEF TaskRow, Alarm!Status
<1>12. PICK t : t = Alarm!recorded(p, ok)  OBVIOUS
<1>13. t = [task EXCEPT ![p.cur] = r]
  BY <1>6, <1>10, <1>12 DEF Alarm!recorded
<1>14. /\ t \in TaskTable
       /\ \A i \in Tasks : task[i].status = "none" <=> t[i].status = "none"
  BY <1>4, <1>5, <1>11, <1>13 DEF TaskTable
<1>15. \A i \in p.batch : t[i].status # "none"
  BY <1>3, <1>4, <1>5, <1>14 DEF Holds
<1> QED  BY <1>2, <1>3, <1>4, <1>5, <1>12, <1>14, <1>15, CarryOnKeeps

(* A broadcast ends.  What is armed covers the work unless something       *)
(* overtook the reading, and then the alarm is late.                       *)
LEMMA PushedKeeps ==
  ASSUME NEW w \in Waker, AlarmInv, Alarm!pushed(w)
  PROVE  AlarmInv' /\ ~Alarm!enqueues
<1>1. /\ drain[w].pc = "pushing"
      /\ alarm' = Alarm!rearmed(alarm, drain[w].next)
      /\ drain' = [drain EXCEPT ![w] = Alarm!idlePass]
      /\ unarmed' = (unarmed /\ overtaken)
      /\ late' = overtaken
      /\ overtaken' = (\E v \in Waker \ {w} : drain[v].pc = "pushing")
      /\ task' = task /\ crashes' = crashes
  BY DEF Alarm!pushed, Alarm!Wakers, Waker
<1>2. AlarmTyped  BY DEF AlarmInv
<1>3. Alarm!idlePass \in DrainPass /\ Alarm!idlePass.pc = "idle"
  BY DEF Alarm!idlePass, Alarm!noneSeen, Alarm!None, DrainPass, Moment
<1>4. /\ drain' \in [Waker -> DrainPass] /\ drain'[w].pc = "idle"
      /\ \A v \in Waker \ {w} : drain'[v] = drain[v]
  BY <1>1, <1>2, <1>3 DEF AlarmTyped
<1>5. PICK n : n = drain[w].next  OBVIOUS
<1>6. n \in Moment /\ alarm \in Moment /\ task \in TaskTable
  BY <1>2, <1>5 DEF AlarmTyped, DrainPass
<1>7. alarm' \in Moment
  BY <1>1, <1>5, <1>6 DEF Alarm!rearmed, Alarm!larger, Alarm!None, Moment
<1>8. unarmed' \in BOOLEAN /\ late' \in BOOLEAN /\ overtaken' \in BOOLEAN
  BY <1>1, <1>2 DEF AlarmTyped
<1>9. ASSUME NEW v \in Waker  PROVE  Holds(drain'[v], task')
  BY <1>1, <1>2, <1>4, <1>9 DEF AlarmTyped, Holds
<1>10. AlarmTyped'
  BY <1>1, <1>2, <1>4, <1>7, <1>8, <1>9 DEF AlarmTyped
<1>11. ASSUME NEW v \in Waker, drain'[v].pc = "pushing", ~overtaken'  PROVE FALSE
  BY <1>1, <1>4, <1>11
<1>12. ASSUME ~late', NEW i \in Tasks, Alarm!live(task'[i])
       PROVE  Alarm!covers(alarm', task'[i])
  <2>1. ~overtaken  BY <1>1, <1>12
  <2>2. Foresees(n, task)  BY <1>1, <1>5, <2>1 DEF AlarmInv
  <2> QED  BY <1>1, <1>5, <1>6, <1>12, <2>2, RearmedCovers
<1>13. ~Alarm!enqueues
  BY <1>1 DEF Alarm!enqueues
<1> QED  BY <1>10, <1>11, <1>12, <1>13 DEF AlarmInv, Alarm!WakeCovered

LEMMA AlarmStep ==
  ASSUME AlarmInv, [Alarm!Next]_alarmVars
  PROVE  AlarmInv' /\ [EnqueueKeepsAlarm]_alarmVars
<1>1. AlarmTyped /\ crashes \in Nat /\ alarm \in Moment  BY DEF AlarmInv, AlarmTyped
<1>2. CASE UNCHANGED alarmVars
  <2>1. AlarmInv'
    BY <1>2 DEF AlarmInv, AlarmTyped, alarmVars, Alarm!WakeCovered, Alarm!quiet, Alarm!idle
  <2> QED  BY <1>2, <2>1
<1>3. ASSUME NEW i \in Tasks, NEW delay \in Delays,
             \/ Alarm!fetchRpc(i, delay)
             \/ Alarm!onCall(i, delay)
             \/ Alarm!onSubscribe(i, delay)
             \/ \E w \in Alarm!Wakers : Alarm!handlerEnqueues(w, i, delay)
      PROVE  AlarmInv' /\ EnqueueKeepsAlarm
  <2>1. /\ Alarm!insertRow(i, delay)
        /\ UNCHANGED <<drain, crashes>>
        /\ \/ Alarm!armDrain
           \/ unarmed' = TRUE /\ UNCHANGED <<alarm, late>>
    BY <1>3 DEF Alarm!fetchRpc, Alarm!onCall, Alarm!onSubscribe, Alarm!handlerEnqueues
  <2> QED  BY <1>1, <2>1, InsertKeeps DEF EnqueueKeepsAlarm
<1>4. ASSUME NEW i \in Tasks, NEW delay \in Delays, Alarm!crashBeforeArm(i, delay)
      PROVE  AlarmInv' /\ EnqueueKeepsAlarm
  <2>1. Alarm!die /\ unarmed' = TRUE /\ task' = Alarm!inserted(i, delay)
    BY <1>4 DEF Alarm!crashBeforeArm
  <2>2. PICK r : r = [status |-> "pending", wait |-> delay, attempts |-> 0, age |-> 0]
    OBVIOUS
  <2>3. r \in TaskRow  BY <2>2, DelaysAreNaturals DEF TaskRow, Alarm!Status
  <2>4. task' \in TaskTable
    BY <1>1, <2>1, <2>2, <2>3 DEF Alarm!inserted, AlarmTyped, TaskTable
  <2>5. AlarmInv' /\ crashes' # crashes  BY <2>1, <2>4, DeathKeeps
  <2> QED  BY <2>5 DEF EnqueueKeepsAlarm
<1>5. CASE Alarm!fireAlarm
  <2>1. Alarm!startPass("alarm", -1)  BY <1>5 DEF Alarm!fireAlarm, Alarm!None
  <2>2. AlarmInv' /\ ~Alarm!enqueues  BY <1>1, <2>1, PassStarts DEF Waker, Moment
  <2> QED  BY <2>2 DEF EnqueueKeepsAlarm
<1>6. CASE Alarm!handleDrain
  <2>1. AlarmInv' /\ ~Alarm!enqueues  BY <1>1, <1>6, PassStarts DEF Alarm!handleDrain, Waker
  <2> QED  BY <2>1 DEF EnqueueKeepsAlarm
<1>7. ASSUME NEW w \in Alarm!Wakers, Alarm!proceeds(w)
      PROVE  AlarmInv' /\ EnqueueKeepsAlarm
  <2>1. w \in Waker  BY DEF Alarm!Wakers, Waker
  <2>2. AlarmInv' /\ ~Alarm!enqueues
    BY <1>1, <1>7, <2>1, HandlerReturns, PushedKeeps DEF Alarm!proceeds
  <2> QED  BY <2>2 DEF EnqueueKeepsAlarm
<1>8. CASE Alarm!crash
  <2> PICK r, s : /\ r = Alarm!idle("route") /\ s = Alarm!idle("alarm")
    OBVIOUS
  <2>1. Alarm!die /\ task' = task /\ unarmed' = (unarmed \/ ~r \/ (~s /\ alarm' # 0))
    BY <1>8 DEF Alarm!crash
  <2>2. task' \in TaskTable /\ unarmed' \in BOOLEAN  BY <1>1, <2>1 DEF AlarmTyped
  <2>3. \/ unarmed' = TRUE
        \/ task' = task /\ ~unarmed /\ r /\ (s \/ alarm' = 0)
    <3>1. CASE unarmed'  BY <2>2, <3>1
    <3>2. CASE ~unarmed'  BY <2>1, <3>2
    <3> QED  BY <3>1, <3>2
  <2>4. AlarmInv' /\ crashes' # crashes  BY <2>1, <2>2, <2>3, DeathKeeps
  <2> QED  BY <2>4 DEF EnqueueKeepsAlarm
<1>9. CASE Alarm!tick
  BY <1>9, TickKeeps DEF EnqueueKeepsAlarm
<1> QED  BY <1>2, <1>3, <1>4, <1>5, <1>6, <1>7, <1>8, <1>9 DEF Alarm!Next

-----------------------------------------------------------------------------
(***************************************************************************)
(* Live queries: behind the input gate (Gate) and with the gate open       *)
(* (Awaits).                                                               *)
(***************************************************************************)
TwoIds == {y1, y2}
ThreeIds == {y1, y2, y3}
SocketOrNone == TwoSockets \cup {NoListener}
Results == {<<>>} \cup {<<v>> : v \in Nat}
Subscription == [tables: SUBSET {"a"}, digest: Results]
Ask == [st: {"unasked", "waiting", "live", "refused", "gone"}, val: Results]
Peer(I) == [state: {"new", "open", "closed"}, subscribed: BOOLEAN, known: BOOLEAN, ids: SUBSET I]
LiveJob(I) ==
  [kind: {"none", "subscribe", "unsubscribe", "call", "write"},
   ws: SocketOrNone, id: I \cup {NoQuery}, table: {"a"},
   pc: {"none", "queued", "lookup", "query", "castLookup", "run", "rerun", "done"},
   base: SUBSET I, got: Subscription, barred: SUBSET TwoSockets, late: SUBSET TwoSockets,
   targets: SUBSET TwoSockets, captured: [TwoSockets -> SUBSET I],
   at: SocketOrNone, rest: SUBSET I, dirty: BOOLEAN]

LiveTyped(I) ==
  /\ data \in [{"a"} -> Nat]
  /\ peer \in [TwoSockets -> Peer(I)]
  /\ sub \in [TwoSockets -> [I -> Subscription]]
  /\ client \in [TwoSockets -> [I -> Ask]]
  /\ lapsed \in [TwoSockets -> {"no", "expired", "revoked"}]

Casting == {"castLookup", "run", "rerun"}

(* What a job knows: a frame has a socket, a subscription an id, and of    *)
(* the sockets that had lapsed when it came in those it may still meet are *)
(* the ones its lookup has barred.                                         *)
JobSound(j) ==
  /\ j.kind \in {"subscribe", "unsubscribe"} =>
       j.ws # NoListener /\ j.id # NoQuery /\ j.pc \in {"queued", "lookup", "query"}
  /\ j.kind = "call" \/ j.pc = "lookup" => j.ws # NoListener
  /\ j.pc = "query" => j.kind = "subscribe" /\ j.ws \notin j.late
  /\ j.pc = "rerun" => j.at # NoListener /\ j.id # NoQuery
  /\ j.pc = "lookup" /\ j.ws \in j.late => j.ws \in j.barred
  /\ j.pc \in Casting => j.targets \cap j.late \subseteq j.barred
  /\ j.at \notin j.late

JobsSound(I, J) ==
  /\ job \in [J -> LiveJob(I)]
  /\ \A n \in J : JobSound(job[n]) /\ \A w \in job[n].late : lapsed[w] # "no"

NewIsUnasked(I) ==
  \A w \in TwoSockets, i \in I : peer[w].state = "new" => client[w][i].st # "live"
DigestIsLast(I) ==
  \A w \in TwoSockets, i \in I :
    peer[w].state = "open" /\ client[w][i].st = "live" => sub[w][i].digest = client[w][i].val

LEMMA NoListenerIsNoSocket == NoListener \notin TwoSockets /\ NoQuery \notin ThreeIds
BY ComponentAssumptions
DEF ComponentAssumptions, Gate!LiveQueriesAssumption, TwoSockets, ThreeIds

LEMMA IdleIsSound ==
  ASSUME NEW I, NEW j,
         j = [kind |-> "none", ws |-> NoListener, id |-> NoQuery, table |-> "a", pc |-> "none",
              base |-> {}, got |-> [tables |-> {}, digest |-> <<>>], barred |-> {}, late |-> {},
              targets |-> {}, captured |-> [w \in TwoSockets |-> {}],
              at |-> NoListener, rest |-> {}, dirty |-> FALSE]
  PROVE  /\ j \in LiveJob(I) /\ JobSound(j)
         /\ [j EXCEPT !.pc = "done"] \in LiveJob(I) /\ JobSound([j EXCEPT !.pc = "done"])
         /\ [j EXCEPT !.pc = "done"].late = {} /\ [j EXCEPT !.pc = "done"].pc = "done"
<1>1. j.got \in Subscription  BY DEF Subscription, Results
<1>2. j.captured \in [TwoSockets -> SUBSET I]  OBVIOUS
<1>3. j \in LiveJob(I)  BY <1>1, <1>2 DEF LiveJob, SocketOrNone
<1>4. JobSound(j)  BY DEF JobSound, Casting
<1>5. PICK k : k = [j EXCEPT !.pc = "done"]  OBVIOUS
<1>6. k \in LiveJob(I)  BY <1>3, <1>5 DEF LiveJob
<1>7. /\ k.kind = j.kind /\ k.ws = j.ws /\ k.id = j.id /\ k.late = j.late /\ k.at = j.at
      /\ k.pc = "done"
  BY <1>3, <1>5 DEF LiveJob
<1>8. JobSound(k)  BY <1>7 DEF JobSound, Casting
<1> QED  BY <1>3, <1>4, <1>5, <1>6, <1>7, <1>8

(* One job moves and no session comes back.                                *)
LEMMA JobMoves ==
  ASSUME NEW I, NEW J, NEW n \in J, NEW k \in LiveJob(I), JobsSound(I, J),
         JobSound(k), k.late \subseteq job[n].late,
         UNCHANGED lapsed, job' = [job EXCEPT ![n] = k]
  PROVE  JobsSound(I, J)' /\ \A m \in J : m # n => job'[m] = job[m]
BY DEF JobsSound

(* Sockets open and close; nothing is sent.                                *)
LEMMA PeersMove ==
  ASSUME NEW I, NewIsUnasked(I), DigestIsLast(I), UNCHANGED <<sub, client>>,
         \A w \in TwoSockets :
           /\ peer'[w].state = "new" => peer[w].state = "new"
           /\ peer'[w].state = "open" => peer[w].state \in {"new", "open"}
  PROVE  NewIsUnasked(I)' /\ DigestIsLast(I)'
BY DEF NewIsUnasked, DigestIsLast

(* A result is installed or pushed to one subscription.                    *)
LEMMA ResultSent ==
  ASSUME NEW I, NEW w \in TwoSockets, NEW i \in I, NEW q \in Subscription,
         LiveTyped(I), NewIsUnasked(I), DigestIsLast(I),
         sub' = [sub EXCEPT ![w][i] = q],
         client' = IF peer[w].state = "open" /\ client[w][i].st \in {"waiting", "live"}
                     THEN [client EXCEPT ![w][i] = [st |-> "live", val |-> q.digest]]
                     ELSE client,
         \A v \in TwoSockets : peer'[v].state = peer[v].state
  PROVE  /\ sub' \in [TwoSockets -> [I -> Subscription]]
         /\ client' \in [TwoSockets -> [I -> Ask]]
         /\ NewIsUnasked(I)' /\ DigestIsLast(I)'
         /\ \A v \in TwoSockets : v # w => client'[v] = client[v]
<1>1. sub \in [TwoSockets -> [I -> Subscription]] /\ client \in [TwoSockets -> [I -> Ask]]
  BY DEF LiveTyped
<1>2. PICK a : a = [st |-> "live", val |-> q.digest]  OBVIOUS
<1>3. a \in Ask /\ a.st = "live" /\ a.val = q.digest  BY <1>2 DEF Ask, Subscription
<1>4. /\ sub' \in [TwoSockets -> [I -> Subscription]]
      /\ sub'[w][i] = q
      /\ \A v \in TwoSockets, j \in I : v # w \/ j # i => sub'[v][j] = sub[v][j]
  BY <1>1
<1>5. CASE peer[w].state = "open" /\ client[w][i].st \in {"waiting", "live"}
  <2>1. client' = [client EXCEPT ![w][i] = a]  BY <1>2, <1>5
  <2>2. /\ client' \in [TwoSockets -> [I -> Ask]]
        /\ client'[w][i] = a
        /\ \A v \in TwoSockets, j \in I : v # w \/ j # i => client'[v][j] = client[v][j]
        /\ \A v \in TwoSockets : v # w => client'[v] = client[v]
    BY <1>1, <1>3, <2>1
  <2> QED  BY <1>3, <1>4, <1>5, <2>2 DEF NewIsUnasked, DigestIsLast
<1>6. CASE ~(peer[w].state = "open" /\ client[w][i].st \in {"waiting", "live"})
  <2>1. client' = client  BY <1>6
  <2> QED  BY <1>1, <1>4, <1>6, <2>1 DEF NewIsUnasked, DigestIsLast
<1> QED  BY <1>5, <1>6

-----------------------------------------------------------------------------
(* With the gate open.                                                     *)
AwaitsInv ==
  /\ LiveTyped(TwoIds) /\ JobsSound(TwoIds, Awaits!Jobs)
  /\ NewIsUnasked(TwoIds) /\ DigestIsLast(TwoIds)

LEMMA SentInTime ==
  ASSUME NEW n \in Awaits!Jobs, NEW w, w \notin job[n].late,
         \A m \in Awaits!Jobs : m # n => job'[m] = job[m],
         \A v \in TwoSockets : v # w => client'[v] = client[v]
  PROVE  ~Awaits!DataAfterLapse
BY DEF Awaits!DataAfterLapse, TwoSockets

LEMMA NothingSent ==
  ASSUME client' = client  PROVE ~Awaits!DataAfterLapse
BY DEF Awaits!DataAfterLapse

LEMMA AwaitsFinishes ==
  ASSUME NEW n \in Awaits!Jobs, JobsSound(TwoIds, Awaits!Jobs), Awaits!finished(n), UNCHANGED lapsed
  PROVE  JobsSound(TwoIds, Awaits!Jobs)' /\ \A m \in Awaits!Jobs : m # n => job'[m] = job[m]
<1>1. PICK j : j = [Awaits!idleJob EXCEPT !.pc = "done"]  OBVIOUS
<1>2. j \in LiveJob(TwoIds) /\ JobSound(j) /\ j.late = {}
  BY <1>1, IdleIsSound DEF Awaits!idleJob, Awaits!noSub, TwoSockets
<1>3. job' = [job EXCEPT ![n] = j]  BY <1>1 DEF Awaits!finished
<1> QED  BY <1>2, <1>3, JobMoves

LEMMA AwaitsEvaluates ==
  ASSUME LiveTyped(TwoIds), NEW i \in TwoIds
  PROVE  Awaits!evaluate(i) \in Subscription /\ Awaits!result(i) \in Results
<1>1. data["a"] \in Nat  BY DEF LiveTyped
<1>2. Awaits!result(i) = <<data["a"]>> /\ Awaits!readSet(i) = {"a"}
  BY DEF Awaits!result, Awaits!readSet, Awaits!branches
<1> QED  BY <1>1, <1>2 DEF Awaits!evaluate, Subscription, Results

(* A result is installed: the frame's session was good.                    *)
LEMMA AwaitsInstalls ==
  ASSUME NEW n \in Awaits!Jobs, NEW base \in SUBSET TwoIds, NEW q \in Subscription, AwaitsInv,
         job[n].ws \in TwoSockets, job[n].id \in TwoIds, job[n].ws \notin job[n].late,
         Awaits!installSub(n, base, q), UNCHANGED lapsed
  PROVE  AwaitsInv' /\ ~Awaits!DataAfterLapse
<1>1. PICK w, i : w = job[n].ws /\ i = job[n].id  OBVIOUS
<1>2. w \in TwoSockets /\ i \in TwoIds /\ w \notin job[n].late  BY <1>1
<1> PICK u : u = base \cup {i}  OBVIOUS
<1> PICK b \in BOOLEAN : b = (u # {})  OBVIOUS
<1>3. /\ peer' = [peer EXCEPT ![w] = [peer[w] EXCEPT !.known = TRUE, !.ids = u, !.subscribed = b]]
      /\ sub' = [sub EXCEPT ![w][i] = q]
      /\ client' = IF peer[w].state = "open" /\ client[w][i].st \in {"waiting", "live"}
                     THEN [client EXCEPT ![w][i] = [st |-> "live", val |-> q.digest]]
                     ELSE client
      /\ Awaits!finished(n) /\ UNCHANGED data
  BY <1>1 DEF Awaits!installSub, Awaits!setSubs, Awaits!received, Awaits!open
<1>4. JobsSound(TwoIds, Awaits!Jobs)' /\ \A m \in Awaits!Jobs : m # n => job'[m] = job[m]
  BY <1>3, AwaitsFinishes DEF AwaitsInv
<1>5. peer' \in [TwoSockets -> Peer(TwoIds)] /\ \A v \in TwoSockets : peer'[v].state = peer[v].state
  <2>1. u \in SUBSET TwoIds /\ peer \in [TwoSockets -> Peer(TwoIds)]
    BY <1>2 DEF AwaitsInv, LiveTyped
  <2>2. PICK r : r = [peer[w] EXCEPT !.known = TRUE, !.ids = u, !.subscribed = b]  OBVIOUS
  <2>3. r \in Peer(TwoIds) /\ r.state = peer[w].state
    <3>1. peer[w] \in Peer(TwoIds) /\ u \subseteq TwoIds  BY <1>2, <2>1
    <3> QED  BY <2>2, <3>1 DEF Peer
  <2>4. peer' = [peer EXCEPT ![w] = r]  BY <1>3, <2>2
  <2> QED  BY <1>2, <2>1, <2>3, <2>4
<1>6. /\ sub' \in [TwoSockets -> [TwoIds -> Subscription]]
      /\ client' \in [TwoSockets -> [TwoIds -> Ask]]
      /\ NewIsUnasked(TwoIds)' /\ DigestIsLast(TwoIds)'
      /\ \A v \in TwoSockets : v # w => client'[v] = client[v]
  BY <1>2, <1>3, <1>5, ResultSent DEF AwaitsInv
<1>7. LiveTyped(TwoIds)'
  BY <1>3, <1>5, <1>6 DEF AwaitsInv, LiveTyped
<1>8. ~Awaits!DataAfterLapse  BY <1>2, <1>4, <1>6, SentInTime
<1> QED  BY <1>4, <1>6, <1>7, <1>8 DEF AwaitsInv

(* A re-run's result is pushed, or skipped because nothing changed.        *)
LEMMA AwaitsPushes ==
  ASSUME NEW n \in Awaits!Jobs, NEW i \in TwoIds, NEW val \in Results, NEW j \in LiveJob(TwoIds),
         AwaitsInv, JobSound(j), j.late = job[n].late, j.pc \in Casting,
         job[n].at # NoListener,
         Awaits!push(n, i, val, j), UNCHANGED <<data, peer, lapsed>>
  PROVE  AwaitsInv' /\ ~Awaits!DataAfterLapse
<1>1. PICK w : w = job[n].at  OBVIOUS
<1>2. w \in TwoSockets /\ w \notin job[n].late
  BY <1>1 DEF AwaitsInv, JobsSound, JobSound, LiveJob, SocketOrNone
<1>3. CASE val = sub[w][i].digest
  <2>1. job' = [job EXCEPT ![n] = j] /\ UNCHANGED <<sub, client>>
    BY <1>1, <1>3 DEF Awaits!push
  <2>2. JobsSound(TwoIds, Awaits!Jobs)'  BY <2>1, JobMoves DEF AwaitsInv
  <2> QED
    BY <2>1, <2>2, NothingSent DEF AwaitsInv, LiveTyped, NewIsUnasked, DigestIsLast
<1>4. CASE val # sub[w][i].digest
  <2>1. PICK k : k = [j EXCEPT !.dirty = TRUE]  OBVIOUS
  <2>2. /\ k \in LiveJob(TwoIds) /\ k.kind = j.kind /\ k.ws = j.ws /\ k.id = j.id /\ k.pc = j.pc
        /\ k.late = j.late /\ k.barred = j.barred /\ k.targets = j.targets /\ k.at = j.at
    BY <2>1 DEF LiveJob
  <2>3. JobSound(k)  BY <2>2 DEF JobSound
  <2>4. PICK q : q = [sub[w][i] EXCEPT !.digest = val]  OBVIOUS
  <2>5. q \in Subscription /\ q.digest = val
    <3>1. sub[w][i] \in Subscription  BY <1>2 DEF AwaitsInv, LiveTyped
    <3> QED  BY <2>4, <3>1 DEF Subscription
  <2>6. /\ job' = [job EXCEPT ![n] = k]
        /\ sub' = [sub EXCEPT ![w][i] = q]
        /\ client' = IF peer[w].state = "open" /\ client[w][i].st \in {"waiting", "live"}
                       THEN [client EXCEPT ![w][i] = [st |-> "live", val |-> q.digest]]
                       ELSE client
    <3>1. /\ job' = [job EXCEPT ![n] = k]
          /\ sub' = [sub EXCEPT ![w][i].digest = val]
          /\ client' = Awaits!received(w, i, val)
      BY <1>1, <1>4, <2>1 DEF Awaits!push
    <3>2. [sub EXCEPT ![w][i].digest = val] = [sub EXCEPT ![w][i] = q]  BY <2>4
    <3> QED  BY <2>5, <3>1, <3>2 DEF Awaits!received, Awaits!open
  <2>7. JobsSound(TwoIds, Awaits!Jobs)' /\ \A m \in Awaits!Jobs : m # n => job'[m] = job[m]
    <3>1. k \in LiveJob(TwoIds) /\ k.late \subseteq job[n].late  BY <2>2
    <3>2. job' = [job EXCEPT ![n] = k]  BY <2>6
    <3>3. JobsSound(TwoIds, Awaits!Jobs) /\ lapsed' = lapsed  BY DEF AwaitsInv
    <3> QED  BY <2>3, <3>1, <3>2, <3>3 DEF JobsSound
  <2>8. /\ sub' \in [TwoSockets -> [TwoIds -> Subscription]]
        /\ client' \in [TwoSockets -> [TwoIds -> Ask]]
        /\ NewIsUnasked(TwoIds)' /\ DigestIsLast(TwoIds)'
        /\ \A v \in TwoSockets : v # w => client'[v] = client[v]
    BY <1>2, <2>5, <2>6, ResultSent DEF AwaitsInv
  <2>9. ~Awaits!DataAfterLapse  BY <1>2, <2>7, <2>8, SentInTime
  <2> QED  BY <2>7, <2>8, <2>9 DEF AwaitsInv, LiveTyped
<1> QED  BY <1>3, <1>4

(* Sockets that are closed were not opened by it.                          *)
LEMMA AwaitsCloses ==
  ASSUME LiveTyped(TwoIds), NEW gone, peer' = Awaits!closeAll(peer, gone)
  PROVE  /\ peer' \in [TwoSockets -> Peer(TwoIds)]
         /\ \A w \in TwoSockets : peer'[w].state = peer[w].state \/ peer'[w].state = "closed"
<1>1. /\ peer \in [TwoSockets -> Peer(TwoIds)]
      /\ peer' = [w \in TwoSockets |->
                    IF w \in gone THEN [peer[w] EXCEPT !.state = "closed", !.known = FALSE, !.ids = {}]
                                  ELSE peer[w]]
  BY DEF LiveTyped, Awaits!closeAll, TwoSockets
<1>2. ASSUME NEW w \in TwoSockets
      PROVE  /\ peer'[w] \in Peer(TwoIds)
             /\ peer'[w].state = peer[w].state \/ peer'[w].state = "closed"
  <2>1. peer[w] \in Peer(TwoIds)  BY <1>1
  <2>2. CASE w \in gone
    <3>1. PICK r : r = [peer[w] EXCEPT !.state = "closed", !.known = FALSE, !.ids = {}]  OBVIOUS
    <3>2. r \in Peer(TwoIds) /\ r.state = "closed"  BY <2>1, <3>1 DEF Peer
    <3> QED  BY <1>1, <2>2, <3>1, <3>2
  <2>3. CASE w \notin gone  BY <1>1, <2>1, <2>3
  <2> QED  BY <2>2, <2>3
<1> QED  BY <1>1, <1>2

(* The sockets a broadcast will meet: of those that had lapsed before its  *)
(* job came in, the expired ones are closed and the revoked ones barred.   *)
LEMMA AwaitsBeginsCast ==
  ASSUME NEW n \in Awaits!Jobs, AwaitsInv, job[n].kind \notin {"subscribe", "unsubscribe"},
         Awaits!beginCast(n, job[n], peer), UNCHANGED lapsed
  PROVE  /\ JobsSound(TwoIds, Awaits!Jobs)'
         /\ peer' \in [TwoSockets -> Peer(TwoIds)]
         /\ \A w \in TwoSockets : peer'[w].state = peer[w].state \/ peer'[w].state = "closed"
<1> PICK j : j = job[n]  OBVIOUS
<1> PICK alive : alive = {w \in TwoSockets : peer[w].state = "open"}  OBVIOUS
<1> PICK gone : gone = {w \in alive : lapsed[w] = "expired" \/ Awaits!orphaned(peer, w)}  OBVIOUS
<1> PICK t : t = {w \in alive \ gone : Awaits!reads(peer[w].ids, w, j.table) # {}}  OBVIOUS
<1> PICK c : c = [w \in TwoSockets |-> IF w \in t THEN peer[w].ids ELSE {}]  OBVIOUS
<1>1. /\ peer' = Awaits!closeAll(peer, gone)
      /\ job' = [job EXCEPT ![n] =
           IF t = {} THEN [Awaits!idleJob EXCEPT !.pc = "done"]
           ELSE [j EXCEPT !.pc = "castLookup", !.targets = t, !.captured = c,
                          !.barred = Awaits!revoked \cap t]]
  BY DEF Awaits!beginCast, TwoSockets
<1>2. LiveTyped(TwoIds) /\ JobsSound(TwoIds, Awaits!Jobs)  BY DEF AwaitsInv
<1>3. j \in LiveJob(TwoIds) /\ JobSound(j) /\ \A w \in j.late : lapsed[w] # "no"
  BY <1>2 DEF JobsSound
<1>4. t \subseteq TwoSockets /\ \A w \in t : lapsed[w] # "expired"  OBVIOUS
<1>5. CASE t = {}
  <2>1. Awaits!finished(n)  BY <1>1, <1>5 DEF Awaits!finished
  <2> QED  BY <1>1, <1>2, <2>1, AwaitsFinishes, AwaitsCloses
<1>6. CASE t # {}
  <2>1. c \in [TwoSockets -> SUBSET TwoIds]
    <3>1. \A w \in TwoSockets : peer[w].ids \subseteq TwoIds  BY <1>2 DEF LiveTyped, Peer
    <3> QED  BY <3>1
  <2>2. PICK b : b = Awaits!revoked \cap t  OBVIOUS
  <2>3. b \subseteq TwoSockets /\ t \cap j.late \subseteq b
    BY <1>2, <1>3, <1>4, <2>2 DEF Awaits!revoked, LiveTyped, TwoSockets
  <2>4. PICK h : h = [j EXCEPT !.pc = "castLookup", !.targets = t]  OBVIOUS
  <2>5. /\ h \in LiveJob(TwoIds) /\ h.kind = j.kind /\ h.ws = j.ws /\ h.pc = "castLookup"
        /\ h.late = j.late /\ h.targets = t /\ h.at = j.at
    BY <1>3, <1>4, <2>4 DEF LiveJob
  <2>6. PICK k : k = [h EXCEPT !.captured = c, !.barred = b]  OBVIOUS
  <2>7. k \in LiveJob(TwoIds)  BY <2>1, <2>3, <2>5, <2>6 DEF LiveJob
  <2>8. /\ k.kind = j.kind /\ k.ws = j.ws /\ k.pc = "castLookup" /\ k.late = j.late
        /\ k.barred = b /\ k.targets = t /\ k.at = j.at
    BY <2>5, <2>6 DEF LiveJob
  <2>9. JobSound(k)  BY <1>3, <2>3, <2>8 DEF JobSound, Casting
  <2>10. job' = [job EXCEPT ![n] = k]
    <3>1. [j EXCEPT !.pc = "castLookup", !.targets = t, !.captured = c, !.barred = b] = k
      BY <1>3, <2>4, <2>6 DEF LiveJob
    <3> QED  BY <1>1, <1>6, <2>2, <3>1
  <2>11. JobsSound(TwoIds, Awaits!Jobs)'
    BY <1>2, <1>3, <2>7, <2>8, <2>9, <2>10 DEF JobsSound
  <2> QED  BY <1>1, <1>2, <2>11, AwaitsCloses
<1> QED  BY <1>5, <1>6

(* What leaves the subscriptions alone: a socket may close, a job moves.   *)
LEMMA AwaitsKeeps ==
  ASSUME AwaitsInv, UNCHANGED <<sub, client, lapsed>>,
         data' \in [{"a"} -> Nat],
         peer' \in [TwoSockets -> Peer(TwoIds)],
         \A w \in TwoSockets :
           /\ peer'[w].state = "new" => peer[w].state = "new"
           /\ peer'[w].state = "open" => peer[w].state \in {"new", "open"},
         JobsSound(TwoIds, Awaits!Jobs)'
  PROVE  AwaitsInv' /\ ~Awaits!DataAfterLapse
<1>1. NewIsUnasked(TwoIds)' /\ DigestIsLast(TwoIds)'
  BY DEF AwaitsInv, NewIsUnasked, DigestIsLast
<1>2. LiveTyped(TwoIds)'  BY DEF AwaitsInv, LiveTyped
<1> QED  BY <1>1, <1>2, NothingSent DEF AwaitsInv

LEMMA AwaitsWrites ==
  ASSUME LiveTyped(TwoIds), Awaits!write("a")  PROVE data' \in [{"a"} -> Nat]
BY DEF LiveTyped, Awaits!write

(* A frame is rejected: its socket closes. *)
LEMMA AwaitsRejects ==
  ASSUME NEW n \in Awaits!Jobs, AwaitsInv, Awaits!reject(n), UNCHANGED lapsed
  PROVE  AwaitsInv' /\ ~Awaits!DataAfterLapse
<1>1. LiveTyped(TwoIds) /\ JobsSound(TwoIds, Awaits!Jobs)  BY DEF AwaitsInv
<1>2. /\ Awaits!finished(n) /\ UNCHANGED <<data, sub, client>>
      /\ peer' = Awaits!closeAll(peer, {job[n].ws}) \/ peer' = peer
  BY DEF Awaits!reject
<1>3. JobsSound(TwoIds, Awaits!Jobs)'  BY <1>1, <1>2, AwaitsFinishes
<1>4. /\ peer' \in [TwoSockets -> Peer(TwoIds)]
      /\ \A w \in TwoSockets : peer'[w].state = peer[w].state \/ peer'[w].state = "closed"
  <2>1. CASE peer' = Awaits!closeAll(peer, {job[n].ws})  BY <1>1, <2>1, AwaitsCloses
  <2>2. CASE peer' = peer  BY <1>1, <2>2 DEF LiveTyped
  <2> QED  BY <1>2, <2>1, <2>2
<1>5. data' \in [{"a"} -> Nat]  BY <1>1, <1>2 DEF LiveTyped
<1>6. \A w \in TwoSockets :
         /\ peer'[w].state = "new" => peer[w].state = "new"
         /\ peer'[w].state = "open" => peer[w].state \in {"new", "open"}
  BY <1>4
<1> QED  BY <1>2, <1>3, <1>4, <1>5, <1>6, AwaitsKeeps

(* Nobody is sent a result: a frame, a write or a refusal.                 *)
LEMMA AwaitsAnswersNothing ==
  ASSUME NEW w \in TwoSockets, NEW i \in TwoIds, NEW a \in Ask, a.st # "live", AwaitsInv,
         client' = [client EXCEPT ![w][i] = a], peer[w].state # "new",
         UNCHANGED <<data, peer, sub, lapsed>>, JobsSound(TwoIds, Awaits!Jobs)'
  PROVE  AwaitsInv' /\ ~Awaits!DataAfterLapse
<1>1. client \in [TwoSockets -> [TwoIds -> Ask]]  BY DEF AwaitsInv, LiveTyped
<1>2. /\ client' \in [TwoSockets -> [TwoIds -> Ask]]
      /\ client'[w][i] = a
      /\ \A v \in TwoSockets, j \in TwoIds : v # w \/ j # i => client'[v][j] = client[v][j]
  BY <1>1
<1>3. NewIsUnasked(TwoIds)' /\ DigestIsLast(TwoIds)'
  BY <1>2 DEF AwaitsInv, NewIsUnasked, DigestIsLast
<1>4. ~Awaits!DataAfterLapse
  BY <1>2 DEF Awaits!DataAfterLapse, TwoSockets, TwoIds
<1> QED  BY <1>2, <1>3, <1>4 DEF AwaitsInv, LiveTyped

(* A frame or a write comes in. *)
LEMMA AwaitsArrives ==
  ASSUME NEW h \in LiveJob(TwoIds), AwaitsInv, Awaits!arrive(h),
         h.targets = {}, h.at = NoListener,
         h.kind \in {"subscribe", "unsubscribe", "call"} => h.ws # NoListener,
         h.kind \in {"subscribe", "unsubscribe"} => h.id # NoQuery
  PROVE  JobsSound(TwoIds, Awaits!Jobs)' /\ UNCHANGED <<data, peer, sub, lapsed>>
<1> PICK l : l = {w \in TwoSockets : lapsed[w] # "no"}  OBVIOUS
<1> PICK k : k = [h EXCEPT !.pc = "queued", !.late = l]  OBVIOUS
<1> PICK n : n = arrived + 1  OBVIOUS
<1>1. job' = [job EXCEPT ![n] = k] /\ UNCHANGED <<data, peer, sub, lapsed>>
  BY DEF Awaits!arrive, TwoSockets
<1>2. /\ k \in LiveJob(TwoIds) /\ k.pc = "queued" /\ k.late = l
      /\ k.kind = h.kind /\ k.ws = h.ws /\ k.id = h.id /\ k.at = h.at
  BY DEF LiveJob
<1>3. JobSound(k)
  BY <1>2, NoListenerIsNoSocket DEF JobSound, Casting
<1> QED  BY <1>1, <1>2, <1>3 DEF AwaitsInv, JobsSound

LEMMA IdleFields ==
  ASSUME NEW j \in LiveJob(TwoIds), j = Awaits!idleJob
  PROVE  j.targets = {} /\ j.at = NoListener /\ j.kind = "none"
BY DEF Awaits!idleJob

LEMMA AwaitsIdles == Awaits!idleJob \in LiveJob(TwoIds)
BY IdleIsSound DEF Awaits!idleJob, Awaits!noSub, TwoSockets

LEMMA AwaitsSendsSubscribe ==
  ASSUME NEW w \in TwoSockets, NEW i \in TwoIds, AwaitsInv, Awaits!sendSubscribe(w, i)
  PROVE  AwaitsInv' /\ ~Awaits!DataAfterLapse
<1> PICK g : g = Awaits!idleJob  OBVIOUS
<1> PICK h : h = [g EXCEPT !.kind = "subscribe", !.ws = w, !.id = i]  OBVIOUS
<1> PICK a : a = [st |-> "waiting", val |-> <<>>]  OBVIOUS
<1>1. /\ peer[w].state = "open"
      /\ client' = [client EXCEPT ![w][i] = a]
      /\ Awaits!arrive(h)
  BY DEF Awaits!sendSubscribe, Awaits!open
<1>2. g \in LiveJob(TwoIds) /\ g.targets = {} /\ g.at = NoListener
  BY AwaitsIdles, IdleFields
<1>3. /\ h \in LiveJob(TwoIds) /\ h.targets = {} /\ h.at = NoListener
      /\ h.kind = "subscribe" /\ h.ws = w /\ h.id = i
  <2>1. w \in SocketOrNone /\ i \in TwoIds \cup {NoQuery}  BY DEF SocketOrNone
  <2>2. h \in LiveJob(TwoIds)  BY <1>2, <2>1 DEF LiveJob
  <2> QED  BY <1>2, <2>2 DEF LiveJob
<1>4. w # NoListener /\ i # NoQuery
  BY NoListenerIsNoSocket DEF TwoIds, ThreeIds
<1>5. JobsSound(TwoIds, Awaits!Jobs)' /\ UNCHANGED <<data, peer, sub, lapsed>>
  BY <1>1, <1>3, <1>4, AwaitsArrives
<1>6. a \in Ask /\ a.st # "live"  BY DEF Ask, Results
<1> QED  BY <1>1, <1>5, <1>6, AwaitsAnswersNothing

LEMMA AwaitsSendsUnsubscribe ==
  ASSUME NEW w \in TwoSockets, NEW i \in TwoIds, AwaitsInv, Awaits!sendUnsubscribe(w, i)
  PROVE  AwaitsInv' /\ ~Awaits!DataAfterLapse
<1> PICK g : g = Awaits!idleJob  OBVIOUS
<1> PICK h : h = [g EXCEPT !.kind = "unsubscribe", !.ws = w, !.id = i]  OBVIOUS
<1> PICK a : a = [st |-> "gone", val |-> <<>>]  OBVIOUS
<1>1. /\ peer[w].state = "open"
      /\ client' = [client EXCEPT ![w][i] = a]
      /\ Awaits!arrive(h)
  BY DEF Awaits!sendUnsubscribe, Awaits!open
<1>2. g \in LiveJob(TwoIds) /\ g.targets = {} /\ g.at = NoListener
  BY AwaitsIdles, IdleFields
<1>3. /\ h \in LiveJob(TwoIds) /\ h.targets = {} /\ h.at = NoListener
      /\ h.kind = "unsubscribe" /\ h.ws = w /\ h.id = i
  <2>1. w \in SocketOrNone /\ i \in TwoIds \cup {NoQuery}  BY DEF SocketOrNone
  <2>2. h \in LiveJob(TwoIds)  BY <1>2, <2>1 DEF LiveJob
  <2> QED  BY <1>2, <2>2 DEF LiveJob
<1>4. w # NoListener /\ i # NoQuery
  BY NoListenerIsNoSocket DEF TwoIds, ThreeIds
<1>5. JobsSound(TwoIds, Awaits!Jobs)' /\ UNCHANGED <<data, peer, sub, lapsed>>
  BY <1>1, <1>3, <1>4, AwaitsArrives
<1>6. a \in Ask /\ a.st # "live"  BY DEF Ask, Results
<1> QED  BY <1>1, <1>5, <1>6, AwaitsAnswersNothing

(* A call of a socket, or a write from elsewhere.                          *)
LEMMA AwaitsTakesWrite ==
  ASSUME AwaitsInv, UNCHANGED client,
         NEW w \in TwoSockets,
         \/ Awaits!sendCall(w, "a")
         \/ Awaits!writeElsewhere("a")
  PROVE  AwaitsInv' /\ ~Awaits!DataAfterLapse
<1> PICK g : g = Awaits!idleJob  OBVIOUS
<1>1. g \in LiveJob(TwoIds) /\ g.targets = {} /\ g.at = NoListener
  BY AwaitsIdles, IdleFields
<1>2. w # NoListener  BY NoListenerIsNoSocket
<1>3. JobsSound(TwoIds, Awaits!Jobs)' /\ UNCHANGED <<data, peer, sub, lapsed>>
  <2>1. CASE Awaits!sendCall(w, "a")
    <3>1. PICK h : h = [g EXCEPT !.kind = "call", !.ws = w, !.table = "a"]  OBVIOUS
    <3>2. /\ h \in LiveJob(TwoIds) /\ h.targets = {} /\ h.at = NoListener
          /\ h.kind = "call" /\ h.ws = w
      <4>1. w \in SocketOrNone  BY DEF SocketOrNone
      <4>2. h \in LiveJob(TwoIds)  BY <1>1, <3>1, <4>1 DEF LiveJob
      <4> QED  BY <1>1, <3>1, <4>2 DEF LiveJob
    <3>3. Awaits!arrive(h)  BY <2>1, <3>1 DEF Awaits!sendCall
    <3> QED  BY <1>2, <3>2, <3>3, AwaitsArrives
  <2>2. CASE Awaits!writeElsewhere("a")
    <3>1. PICK h : h = [g EXCEPT !.kind = "write", !.table = "a"]  OBVIOUS
    <3>2. h \in LiveJob(TwoIds) /\ h.targets = {} /\ h.at = NoListener /\ h.kind = "write"
      BY <1>1, <3>1 DEF LiveJob
    <3>3. Awaits!arrive(h)  BY <2>2, <3>1 DEF Awaits!writeElsewhere
    <3> QED  BY <3>2, <3>3, AwaitsArrives
  <2> QED  BY <2>1, <2>2
<1> QED  BY <1>3, NothingSent DEF AwaitsInv, LiveTyped, NewIsUnasked, DigestIsLast

(* One job moves, sockets may close.                                       *)
LEMMA AwaitsMoves ==
  ASSUME NEW n \in Awaits!Jobs, NEW k \in LiveJob(TwoIds), AwaitsInv, JobSound(k),
         k.late \subseteq job[n].late, job' = [job EXCEPT ![n] = k],
         UNCHANGED <<data, sub, client, lapsed>>,
         peer' \in [TwoSockets -> Peer(TwoIds)],
         \A w \in TwoSockets : peer'[w].state = peer[w].state \/ peer'[w].state = "closed"
  PROVE  AwaitsInv' /\ ~Awaits!DataAfterLapse
<1>1. JobsSound(TwoIds, Awaits!Jobs)'  BY DEF AwaitsInv, JobsSound
<1>2. data' \in [{"a"} -> Nat]  BY DEF AwaitsInv, LiveTyped
<1>3. \A w \in TwoSockets :
        /\ peer'[w].state = "new" => peer[w].state = "new"
        /\ peer'[w].state = "open" => peer[w].state \in {"new", "open"}
  OBVIOUS
<1> QED  BY <1>1, <1>2, <1>3, AwaitsKeeps

LEMMA AwaitsStays ==
  ASSUME NEW n \in Awaits!Jobs, NEW k \in LiveJob(TwoIds), AwaitsInv, JobSound(k),
         k.late \subseteq job[n].late, job' = [job EXCEPT ![n] = k],
         UNCHANGED <<data, peer, sub, client, lapsed>>
  PROVE  AwaitsInv' /\ ~Awaits!DataAfterLapse
<1>1. peer' \in [TwoSockets -> Peer(TwoIds)]  BY DEF AwaitsInv, LiveTyped
<1> QED  BY <1>1, AwaitsMoves

LEMMA AwaitsEnds ==
  ASSUME NEW n \in Awaits!Jobs, AwaitsInv, Awaits!finished(n),
         UNCHANGED <<data, sub, client, lapsed>>,
         peer' \in [TwoSockets -> Peer(TwoIds)],
         \A w \in TwoSockets : peer'[w].state = peer[w].state \/ peer'[w].state = "closed"
  PROVE  AwaitsInv' /\ ~Awaits!DataAfterLapse
<1>1. JobsSound(TwoIds, Awaits!Jobs)'  BY AwaitsFinishes DEF AwaitsInv
<1>2. data' \in [{"a"} -> Nat]  BY DEF AwaitsInv, LiveTyped
<1>3. \A w \in TwoSockets :
        /\ peer'[w].state = "new" => peer[w].state = "new"
        /\ peer'[w].state = "open" => peer[w].state \in {"new", "open"}
  OBVIOUS
<1> QED  BY <1>1, <1>2, <1>3, AwaitsKeeps

(* A list is put back on its socket.                                       *)
LEMMA AwaitsSetsSubs ==
  ASSUME AwaitsInv, NEW w \in TwoSockets, NEW u \in SUBSET TwoIds,
         peer' = Awaits!setSubs(peer, w, u)
  PROVE  /\ peer' \in [TwoSockets -> Peer(TwoIds)]
         /\ \A v \in TwoSockets : peer'[v].state = peer[v].state
<1> PICK b \in BOOLEAN : b = (u # {})  OBVIOUS
<1> PICK r : r = [peer[w] EXCEPT !.known = TRUE, !.ids = u, !.subscribed = b]  OBVIOUS
<1>1. peer' = [peer EXCEPT ![w] = r]  BY DEF Awaits!setSubs
<1>2. peer \in [TwoSockets -> Peer(TwoIds)]  BY DEF AwaitsInv, LiveTyped
<1>3. r \in Peer(TwoIds) /\ r.state = peer[w].state
  <2>1. peer[w] \in Peer(TwoIds)  BY <1>2
  <2> QED  BY <2>1 DEF Peer
<1> QED  BY <1>1, <1>2, <1>3

(* A frame whose session was found good when it was looked up.             *)
LEMMA AwaitsServes ==
  ASSUME NEW n \in Awaits!Jobs, AwaitsInv, job[n].ws \in TwoSockets,
         job[n].ws \notin job[n].late, Awaits!serve(n), UNCHANGED lapsed
  PROVE  AwaitsInv' /\ ~Awaits!DataAfterLapse
<1> PICK j : j = job[n]  OBVIOUS
<1>1. /\ j \in LiveJob(TwoIds) /\ JobSound(j) /\ j.ws \in TwoSockets /\ j.ws \notin j.late
      /\ peer \in [TwoSockets -> Peer(TwoIds)]
  BY DEF AwaitsInv, JobsSound, LiveTyped
<1>2. CASE Awaits!reject(n)  BY <1>2, AwaitsRejects
<1>3. CASE j.kind = "subscribe" /\ Awaits!onSubscribe(n)
  <2>1. j.id \in TwoIds  BY <1>1, <1>3 DEF JobSound, LiveJob
  <2>2. CASE Awaits!refuse(n)
    <3>1. JobsSound(TwoIds, Awaits!Jobs)'
      BY <2>2, AwaitsFinishes DEF Awaits!refuse, AwaitsInv
    <3>2. UNCHANGED <<data, peer, sub, lapsed>>  BY <2>2 DEF Awaits!refuse
    <3>3. PICK w, i : w = j.ws /\ i = j.id  OBVIOUS
    <3>4. PICK a : a = [client[w][i] EXCEPT !.st = "refused"]  OBVIOUS
    <3>5. CASE peer[w].state = "open" /\ client' = [client EXCEPT ![w][i].st = "refused"]
      <4>1. client[w][i] \in Ask  BY <1>1, <2>1, <3>3 DEF AwaitsInv, LiveTyped
      <4>2. a \in Ask /\ a.st # "live"  BY <3>4, <4>1 DEF Ask
      <4>3. client' = [client EXCEPT ![w][i] = a]  BY <3>4, <3>5
      <4>4. w \in TwoSockets /\ i \in TwoIds /\ peer[w].state # "new"
        BY <1>1, <2>1, <3>3, <3>5
      <4> QED  BY <3>1, <3>2, <4>2, <4>3, <4>4, AwaitsAnswersNothing
    <3>6. CASE client' = client
      BY <3>1, <3>2, <3>6, NothingSent DEF AwaitsInv, LiveTyped, NewIsUnasked, DigestIsLast
    <3> QED  BY <2>2, <3>3, <3>5, <3>6 DEF Awaits!refuse, Awaits!open
  <2>3. CASE ~Awaits!refuse(n)
    <3>1. PICK b, q : b = peer[j.ws].ids /\ q = Awaits!evaluate(j.id)  OBVIOUS
    <3>2. b \subseteq TwoIds /\ q \in Subscription
      BY <1>1, <2>1, <3>1, AwaitsEvaluates DEF AwaitsInv, Peer
    <3>3. PICK k : k = [j EXCEPT !.pc = "query", !.base = b, !.got = q]  OBVIOUS
    <3>4. job' = [job EXCEPT ![n] = k] /\ UNCHANGED <<data, peer, sub, client>>
      BY <1>3, <2>3, <3>1, <3>3 DEF Awaits!onSubscribe
    <3>5. /\ k \in LiveJob(TwoIds) /\ k.kind = j.kind /\ k.ws = j.ws /\ k.id = j.id
          /\ k.pc = "query" /\ k.late = j.late /\ k.at = j.at
      BY <1>1, <3>2, <3>3 DEF LiveJob
    <3>6. JobSound(k)  BY <1>1, <1>3, <3>5 DEF JobSound, Casting
    <3> QED  BY <3>4, <3>5, <3>6, AwaitsStays
  <2> QED  BY <2>2, <2>3
<1>4. CASE j.kind = "unsubscribe" /\ Awaits!onUnsubscribe(n)
  <2>1. PICK u : u = peer[j.ws].ids \ {j.id}  OBVIOUS
  <2>2. u \in SUBSET TwoIds  BY <1>1, <2>1 DEF Peer
  <2>3. /\ peer' = Awaits!setSubs(peer, j.ws, u) /\ Awaits!finished(n)
        /\ UNCHANGED <<data, sub, client>>
    BY <1>4, <2>1 DEF Awaits!onUnsubscribe
  <2>4. /\ peer' \in [TwoSockets -> Peer(TwoIds)]
        /\ \A v \in TwoSockets : peer'[v].state = peer[v].state
    BY <1>1, <2>2, <2>3, AwaitsSetsSubs
  <2> QED  BY <2>3, <2>4, AwaitsEnds
<1>5. CASE j.kind = "call" /\ Awaits!onCall(n)
  <2>1. Awaits!write("a") /\ UNCHANGED <<sub, client>>
    BY <1>1, <1>5 DEF Awaits!onCall, LiveJob
  <2>2. data' \in [{"a"} -> Nat]  BY <2>1, AwaitsWrites DEF AwaitsInv
  <2>3. CASE Awaits!beginCast(n, job[n], peer)
    <3>1. /\ JobsSound(TwoIds, Awaits!Jobs)'
          /\ peer' \in [TwoSockets -> Peer(TwoIds)]
          /\ \A w \in TwoSockets : peer'[w].state = peer[w].state \/ peer'[w].state = "closed"
      BY <1>5, <2>3, AwaitsBeginsCast
    <3>2. \A w \in TwoSockets :
            /\ peer'[w].state = "new" => peer[w].state = "new"
            /\ peer'[w].state = "open" => peer[w].state \in {"new", "open"}
      BY <3>1
    <3> QED  BY <2>1, <2>2, <3>1, <3>2, AwaitsKeeps
  <2>4. CASE Awaits!finished(n) /\ UNCHANGED peer
    <3>1. JobsSound(TwoIds, Awaits!Jobs)'  BY <2>4, AwaitsFinishes DEF AwaitsInv
    <3> QED  BY <1>1, <2>1, <2>2, <2>4, <3>1, AwaitsKeeps
  <2> QED  BY <1>5, <2>3, <2>4 DEF Awaits!onCall
<1> QED  BY <1>2, <1>3, <1>4, <1>5 DEF Awaits!serve

LEMMA AwaitsFrames ==
  ASSUME NEW n \in Awaits!Jobs, AwaitsInv, Awaits!frameStep(n)
  PROVE  AwaitsInv' /\ ~Awaits!DataAfterLapse
<1> PICK j : j = job[n]  OBVIOUS
<1>1. /\ j \in LiveJob(TwoIds) /\ JobSound(j) /\ \A w \in j.late : lapsed[w] # "no"
      /\ peer \in [TwoSockets -> Peer(TwoIds)] /\ lapsed \in [TwoSockets -> {"no", "expired", "revoked"}]
  BY DEF AwaitsInv, JobsSound, LiveTyped
<1>2. UNCHANGED lapsed
  BY DEF Awaits!frameStep, Awaits!startFrame, Awaits!frameLooked, Awaits!frameLookupFails,
         Awaits!queryAnswered
<1>3. CASE Awaits!startFrame(n)
  <2>1. j.ws \in TwoSockets /\ j.pc = "queued"
    BY <1>1, <1>3 DEF Awaits!startFrame, Awaits!canStart, LiveJob, SocketOrNone
  <2>2. CASE lapsed[j.ws] = "expired"
    BY <1>2, <1>3, <2>2, AwaitsRejects DEF Awaits!startFrame
  <2>3. CASE lapsed[j.ws] # "expired"
    <3>1. PICK b : b = Awaits!revoked \cap {j.ws}  OBVIOUS
    <3>2. b \subseteq TwoSockets /\ (j.ws \in j.late => j.ws \in b)
      BY <1>1, <2>1, <2>3, <3>1 DEF Awaits!revoked, TwoSockets
    <3>3. PICK k : k = [j EXCEPT !.pc = "lookup", !.barred = b]  OBVIOUS
    <3>4. job' = [job EXCEPT ![n] = k] /\ UNCHANGED <<data, peer, sub, client>>
      <4>1. /\ job' = [job EXCEPT ![n].pc = "lookup", ![n].barred = b]
            /\ UNCHANGED <<data, peer, sub, client>>
        BY <1>3, <2>3, <3>1 DEF Awaits!startFrame
      <4> QED  BY <1>1, <3>3, <4>1 DEF AwaitsInv, JobsSound, LiveJob
    <3>5. /\ k \in LiveJob(TwoIds) /\ k.kind = j.kind /\ k.ws = j.ws /\ k.id = j.id
          /\ k.pc = "lookup" /\ k.late = j.late /\ k.at = j.at /\ k.barred = b
      BY <1>1, <3>2, <3>3 DEF LiveJob
    <3>6. JobSound(k)
      BY <1>1, <2>1, <3>2, <3>5, NoListenerIsNoSocket DEF JobSound, Casting
    <3> QED  BY <1>2, <3>4, <3>5, <3>6, AwaitsStays
  <2> QED  BY <2>2, <2>3
<1>4. CASE Awaits!frameLooked(n)
  <2>1. j.pc = "lookup" /\ j.ws \in TwoSockets
    BY <1>1, <1>4 DEF Awaits!frameLooked, JobSound, LiveJob, SocketOrNone
  <2>2. CASE j.ws \in j.barred
    BY <1>2, <1>4, <2>2, AwaitsRejects DEF Awaits!frameLooked, Awaits!isBarred
  <2>3. CASE j.ws \notin j.barred
    <3>1. Awaits!serve(n) /\ j.ws \notin j.late
      BY <1>1, <1>4, <2>1, <2>3 DEF Awaits!frameLooked, Awaits!isBarred, JobSound
    <3> QED  BY <1>2, <2>1, <3>1, AwaitsServes
  <2> QED  BY <2>2, <2>3
<1>5. CASE Awaits!frameLookupFails(n)
  BY <1>1, <1>5, AwaitsEnds DEF Awaits!frameLookupFails
<1>6. CASE Awaits!queryAnswered(n)
  <2>1. /\ Awaits!installSub(n, j.base, j.got)
        /\ j.ws \in TwoSockets /\ j.id \in TwoIds /\ j.ws \notin j.late
        /\ j.base \in SUBSET TwoIds /\ j.got \in Subscription
    BY <1>1, <1>6 DEF Awaits!queryAnswered, JobSound, LiveJob, SocketOrNone
  <2> QED  BY <1>2, <2>1, AwaitsInstalls
<1> QED  BY <1>3, <1>4, <1>5, <1>6 DEF Awaits!frameStep

LEMMA AwaitsCasts ==
  ASSUME NEW n \in Awaits!Jobs, AwaitsInv, Awaits!castStep(n)
  PROVE  AwaitsInv' /\ ~Awaits!DataAfterLapse
<1> PICK j : j = job[n]  OBVIOUS
<1>1. /\ j \in LiveJob(TwoIds) /\ JobSound(j)
      /\ peer \in [TwoSockets -> Peer(TwoIds)]
      /\ job \in [Awaits!Jobs -> LiveJob(TwoIds)]
  BY DEF AwaitsInv, JobsSound, LiveTyped
<1>2. CASE Awaits!castLooked(n)
  <2>1. PICK f : /\ j.pc = "castLookup"
                 /\ job' = [job EXCEPT ![n].pc = "run", ![n].targets = @ \ f]
                 /\ UNCHANGED <<data, peer, sub, client, lapsed>>
    BY <1>2 DEF Awaits!castLooked
  <2>2. PICK t : t = j.targets \ f  OBVIOUS
  <2>3. PICK k : k = [j EXCEPT !.pc = "run", !.targets = t]  OBVIOUS
  <2>4. job' = [job EXCEPT ![n] = k]  BY <1>1, <2>1, <2>2, <2>3 DEF LiveJob
  <2>5. /\ k \in LiveJob(TwoIds) /\ k.kind = j.kind /\ k.ws = j.ws /\ k.pc = "run"
        /\ k.late = j.late /\ k.barred = j.barred /\ k.targets = t /\ k.at = j.at
    BY <1>1, <2>2, <2>3 DEF LiveJob
  <2>6. JobSound(k)  BY <1>1, <2>1, <2>2, <2>5 DEF JobSound, Casting
  <2> QED  BY <2>1, <2>4, <2>5, <2>6, AwaitsStays
<1>3. ASSUME NEW w \in TwoSockets, Awaits!castSocket(n, w)
      PROVE  AwaitsInv' /\ ~Awaits!DataAfterLapse
  <2>1. /\ j.pc = "run" /\ j.at = NoListener /\ w \in j.targets
        /\ UNCHANGED <<data, sub, client, lapsed>>
    BY <1>3 DEF Awaits!castSocket, Awaits!betweenSockets
  <2>2. PICK t : t = j.targets \ {w}  OBVIOUS
  <2>3. CASE w \in j.barred
    <3>1. PICK k : k = [j EXCEPT !.targets = t]  OBVIOUS
    <3>2. job' = [job EXCEPT ![n] = k] /\ peer' = Awaits!closeAll(peer, {w})
      BY <1>1, <1>3, <2>2, <2>3, <3>1 DEF Awaits!castSocket, Awaits!isBarred, LiveJob
    <3>3. /\ k \in LiveJob(TwoIds) /\ k.kind = j.kind /\ k.ws = j.ws /\ k.pc = "run"
          /\ k.late = j.late /\ k.barred = j.barred /\ k.targets = t /\ k.at = j.at
      BY <1>1, <2>1, <2>2, <3>1 DEF LiveJob
    <3>4. JobSound(k)  BY <1>1, <2>1, <2>2, <3>3 DEF JobSound, Casting
    <3>5. /\ peer' \in [TwoSockets -> Peer(TwoIds)]
          /\ \A v \in TwoSockets : peer'[v].state = peer[v].state \/ peer'[v].state = "closed"
      BY <3>2, AwaitsCloses DEF AwaitsInv
    <3> QED  BY <2>1, <3>2, <3>3, <3>4, <3>5, AwaitsMoves
  <2>4. CASE w \notin j.barred
    <3>1. PICK r : r = Awaits!reads(j.captured[w], w, j.table)  OBVIOUS
    <3>2. r \subseteq TwoIds
      <4>1. j.captured[w] \subseteq TwoIds  BY <1>1 DEF LiveJob
      <4> QED  BY <3>1, <4>1 DEF Awaits!reads
    <3>3. PICK h : h = [j EXCEPT !.targets = t, !.at = w]  OBVIOUS
    <3>4. PICK k : k = [h EXCEPT !.dirty = FALSE, !.rest = r]  OBVIOUS
    <3>5. h \in LiveJob(TwoIds)  BY <1>1, <2>2, <3>3 DEF LiveJob, SocketOrNone
    <3>6. k \in LiveJob(TwoIds)  BY <3>2, <3>4, <3>5 DEF LiveJob
    <3>7. /\ k.kind = j.kind /\ k.ws = j.ws /\ k.pc = "run" /\ k.late = j.late
          /\ k.barred = j.barred /\ k.targets = t /\ k.at = w
      BY <1>1, <2>1, <3>3, <3>4, <3>5 DEF LiveJob
    <3>8. JobSound(k)  BY <1>1, <2>1, <2>2, <2>4, <3>7 DEF JobSound, Casting
    <3>9. job' = [job EXCEPT ![n] = k] /\ UNCHANGED peer
      <4>0. /\ job' = [job EXCEPT ![n] = [job[n] EXCEPT
                         !.targets = job[n].targets \ {w}, !.at = w, !.dirty = FALSE,
                         !.rest = Awaits!reads(job[n].captured[w], w, job[n].table)]]
            /\ UNCHANGED peer
        BY <1>3, <2>4 DEF Awaits!castSocket, Awaits!isBarred
      <4>1. /\ job' = [job EXCEPT ![n] = [j EXCEPT !.targets = t, !.at = w, !.dirty = FALSE, !.rest = r]]
            /\ UNCHANGED peer
        BY <2>2, <3>1, <4>0
      <4>2. [j EXCEPT !.targets = t, !.at = w, !.dirty = FALSE, !.rest = r] = k
        BY <1>1, <3>3, <3>4 DEF LiveJob
      <4> QED  BY <4>1, <4>2
    <3> QED  BY <2>1, <3>6, <3>7, <3>8, <3>9, AwaitsStays
  <2> QED  BY <2>3, <2>4
<1>4. ASSUME NEW i \in TwoIds, Awaits!rerun(n, i)
      PROVE  AwaitsInv' /\ ~Awaits!DataAfterLapse
  <2>1. PICK q, r : q = Awaits!evaluate(i) /\ r = j.rest \ {i}  OBVIOUS
  <2>2. q \in Subscription  BY <2>1, AwaitsEvaluates DEF AwaitsInv
  <2>3. PICK h : h = [j EXCEPT !.rest = r]  OBVIOUS
  <2>4. PICK k : k = [h EXCEPT !.pc = "rerun", !.id = i, !.got = q]  OBVIOUS
  <2>5. /\ j.pc = "run" /\ j.at # NoListener /\ job' = [job EXCEPT ![n] = k]
        /\ UNCHANGED <<data, peer, sub, client, lapsed>>
    BY <1>4, <2>1, <2>3, <2>4 DEF Awaits!rerun, Awaits!atSocket
  <2>6. /\ h \in LiveJob(TwoIds) /\ h.kind = j.kind /\ h.ws = j.ws /\ h.late = j.late
        /\ h.barred = j.barred /\ h.targets = j.targets /\ h.at = j.at
    BY <1>1, <2>1, <2>3 DEF LiveJob
  <2>7. /\ k \in LiveJob(TwoIds) /\ k.kind = j.kind /\ k.ws = j.ws /\ k.pc = "rerun"
        /\ k.late = j.late /\ k.barred = j.barred /\ k.targets = j.targets /\ k.at = j.at
        /\ k.id = i
    BY <2>2, <2>4, <2>6 DEF LiveJob
  <2>8. JobSound(k)
    BY <1>1, <2>5, <2>7, NoListenerIsNoSocket DEF JobSound, Casting, TwoIds, ThreeIds
  <2> QED  BY <2>5, <2>7, <2>8, AwaitsStays
<1>5. CASE Awaits!reran(n)
  <2>1. PICK i, val, g : i = j.id /\ val = j.got.digest /\ g = Awaits!noSub  OBVIOUS
  <2>2. PICK k : k = [j EXCEPT !.pc = "run", !.id = NoQuery, !.got = g]  OBVIOUS
  <2>3. /\ j.pc = "rerun" /\ Awaits!push(n, i, val, k) /\ UNCHANGED <<data, peer, lapsed>>
    BY <1>5, <2>1, <2>2 DEF Awaits!reran
  <2>4. i \in TwoIds /\ val \in Results /\ j.at # NoListener
    BY <1>1, <2>1, <2>3 DEF JobSound, LiveJob, Subscription
  <2>5. g \in Subscription  BY <2>1 DEF Awaits!noSub, Subscription, Results
  <2>6. /\ k \in LiveJob(TwoIds) /\ k.kind = j.kind /\ k.ws = j.ws /\ k.pc = "run"
        /\ k.late = j.late /\ k.barred = j.barred /\ k.targets = j.targets /\ k.at = j.at
    BY <1>1, <2>2, <2>5 DEF LiveJob
  <2>7. JobSound(k) /\ k.pc \in Casting  BY <1>1, <2>3, <2>6 DEF JobSound, Casting
  <2> QED  BY <2>3, <2>4, <2>6, <2>7, AwaitsPushes
<1>6. CASE Awaits!socketDone(n)
  <2>1. j.pc = "run" /\ j.at \in TwoSockets /\ UNCHANGED <<data, sub, client, lapsed>>
    BY <1>1, <1>6 DEF Awaits!socketDone, Awaits!atSocket, LiveJob, SocketOrNone
  <2>2. /\ peer' \in [TwoSockets -> Peer(TwoIds)]
        /\ \A v \in TwoSockets : peer'[v].state = peer[v].state
    <3>1. PICK w, u : w = j.at /\ u = j.captured[w]  OBVIOUS
    <3>2. w \in TwoSockets /\ u \in SUBSET TwoIds  BY <1>1, <2>1, <3>1 DEF LiveJob
    <3>3. peer' = Awaits!setSubs(peer, w, u) \/ peer' = peer
      BY <1>6, <3>1 DEF Awaits!socketDone
    <3>4. CASE peer' = Awaits!setSubs(peer, w, u)  BY <3>2, <3>4, AwaitsSetsSubs
    <3> QED  BY <1>1, <3>3, <3>4
  <2>3. PICK k : k = [j EXCEPT !.at = NoListener, !.dirty = FALSE]  OBVIOUS
  <2>4. job' = [job EXCEPT ![n] = k]
    BY <1>1, <1>6, <2>3 DEF Awaits!socketDone, LiveJob
  <2>5. /\ k \in LiveJob(TwoIds) /\ k.kind = j.kind /\ k.ws = j.ws /\ k.pc = "run"
        /\ k.late = j.late /\ k.barred = j.barred /\ k.targets = j.targets /\ k.at = NoListener
    BY <1>1, <2>1, <2>3 DEF LiveJob, SocketOrNone
  <2>6. JobSound(k)
    <3>1. k.late \subseteq TwoSockets  BY <2>5 DEF LiveJob
    <3> QED  BY <1>1, <2>1, <2>5, <3>1, NoListenerIsNoSocket DEF JobSound, Casting
  <2> QED  BY <2>1, <2>2, <2>4, <2>5, <2>6, AwaitsMoves
<1>7. CASE Awaits!castOver(n)
  BY <1>1, <1>7, AwaitsEnds DEF Awaits!castOver, Awaits!finished
<1> QED
  BY <1>2, <1>3, <1>4, <1>5, <1>6, <1>7 DEF Awaits!castStep, TwoSockets, TwoIds

(* Sockets open and close, sessions lapse.                                 *)
LEMMA AwaitsConnects ==
  ASSUME NEW w \in TwoSockets, AwaitsInv, Awaits!upgrade(w) \/ Awaits!webSocketClose(w)
  PROVE  AwaitsInv' /\ ~Awaits!DataAfterLapse
<1>1. peer \in [TwoSockets -> Peer(TwoIds)] /\ peer[w] \in Peer(TwoIds)
  BY DEF AwaitsInv, LiveTyped
<1>2. UNCHANGED <<data, sub, client, lapsed, job>>
  BY DEF Awaits!upgrade, Awaits!webSocketClose
<1>3. PICK r \in Peer(TwoIds) :
        /\ peer' = [peer EXCEPT ![w] = r]
        /\ (r.state = "open" /\ peer[w].state = "new") \/ r.state = "closed"
  <2>1. CASE Awaits!upgrade(w)
    <3>1. PICK r : r = [peer[w] EXCEPT !.state = "open", !.known = TRUE]  OBVIOUS
    <3>2. r \in Peer(TwoIds) /\ r.state = "open"  BY <1>1, <3>1 DEF Peer
    <3>3. peer' = [peer EXCEPT ![w] = r] /\ peer[w].state = "new"
      BY <1>1, <2>1, <3>1 DEF Awaits!upgrade, Peer
    <3> QED  BY <3>2, <3>3
  <2>2. CASE Awaits!webSocketClose(w)
    <3>1. PICK r : r = [peer[w] EXCEPT !.known = FALSE, !.ids = {}, !.state = "closed"]  OBVIOUS
    <3>2. r \in Peer(TwoIds) /\ r.state = "closed"  BY <1>1, <3>1 DEF Peer
    <3>3. peer' = [peer EXCEPT ![w] = r]
      BY <1>1, <2>2, <3>1 DEF Awaits!webSocketClose, Awaits!forget, Peer
    <3> QED  BY <3>2, <3>3
  <2> QED  BY <2>1, <2>2
<1>4. /\ peer' \in [TwoSockets -> Peer(TwoIds)]
      /\ \A v \in TwoSockets :
           /\ peer'[v].state = "new" => peer[v].state = "new"
           /\ peer'[v].state = "open" => peer[v].state \in {"new", "open"}
  BY <1>1, <1>3
<1>5. JobsSound(TwoIds, Awaits!Jobs)' /\ data' \in [{"a"} -> Nat]
  BY <1>2 DEF AwaitsInv, JobsSound, LiveTyped
<1> QED  BY <1>2, <1>4, <1>5, AwaitsKeeps

LEMMA AwaitsLapses ==
  ASSUME NEW w \in TwoSockets, AwaitsInv, Awaits!lapse(w)
  PROVE  AwaitsInv' /\ ~Awaits!DataAfterLapse
<1>1. PICK how \in {"expired", "revoked"} : lapsed' = [lapsed EXCEPT ![w] = how]
  BY DEF Awaits!lapse
<1>2. lapsed \in [TwoSockets -> {"no", "expired", "revoked"}]  BY DEF AwaitsInv, LiveTyped
<1>3. /\ lapsed' \in [TwoSockets -> {"no", "expired", "revoked"}]
      /\ \A v \in TwoSockets : lapsed[v] # "no" => lapsed'[v] # "no"
  BY <1>1, <1>2
<1>4. UNCHANGED <<data, peer, sub, client, job>>  BY DEF Awaits!lapse
<1>5. JobsSound(TwoIds, Awaits!Jobs)'
  BY <1>3, <1>4 DEF AwaitsInv, JobsSound, LiveJob
<1> QED
  BY <1>3, <1>4, <1>5, NothingSent DEF AwaitsInv, LiveTyped, NewIsUnasked, DigestIsLast

LEMMA AwaitsElsewhere ==
  ASSUME NEW n \in Awaits!Jobs, AwaitsInv, Awaits!fetchRpc(n)
  PROVE  AwaitsInv' /\ ~Awaits!DataAfterLapse
<1>1. /\ job[n].kind = "write" /\ Awaits!write(job[n].table)
      /\ Awaits!beginCast(n, job[n], peer) /\ UNCHANGED <<sub, client, lapsed>>
  BY DEF Awaits!fetchRpc
<1>2. job[n].table = "a"  BY DEF AwaitsInv, JobsSound, LiveJob
<1>3. data' \in [{"a"} -> Nat]  BY <1>1, <1>2, AwaitsWrites DEF AwaitsInv
<1>4. /\ JobsSound(TwoIds, Awaits!Jobs)'
      /\ peer' \in [TwoSockets -> Peer(TwoIds)]
      /\ \A w \in TwoSockets : peer'[w].state = peer[w].state \/ peer'[w].state = "closed"
  BY <1>1, AwaitsBeginsCast
<1>5. \A w \in TwoSockets :
        /\ peer'[w].state = "new" => peer[w].state = "new"
        /\ peer'[w].state = "open" => peer[w].state \in {"new", "open"}
  BY <1>4
<1> QED  BY <1>1, <1>3, <1>4, <1>5, AwaitsKeeps

LEMMA AwaitsStep == AwaitsInv /\ Awaits!Next => AwaitsInv' /\ ~Awaits!DataAfterLapse
<1> SUFFICES ASSUME AwaitsInv, Awaits!Next  PROVE AwaitsInv' /\ ~Awaits!DataAfterLapse
  OBVIOUS
<1>1. CASE \E w \in TwoSockets : Awaits!upgrade(w) \/ Awaits!webSocketClose(w)
  BY <1>1, AwaitsConnects
<1>2. CASE \E w \in TwoSockets : Awaits!lapse(w)  BY <1>2, AwaitsLapses
<1>3. CASE \E w \in TwoSockets : Awaits!sendCall(w, "a") \/ Awaits!writeElsewhere("a")
  BY <1>3, AwaitsTakesWrite DEF Awaits!sendCall, Awaits!writeElsewhere
<1>4. CASE \E w \in TwoSockets, i \in TwoIds : Awaits!sendSubscribe(w, i)
  BY <1>4, AwaitsSendsSubscribe
<1>5. CASE \E w \in TwoSockets, i \in TwoIds : Awaits!sendUnsubscribe(w, i)
  BY <1>5, AwaitsSendsUnsubscribe
<1>6. CASE \E n \in Awaits!Jobs : Awaits!fetchRpc(n)  BY <1>6, AwaitsElsewhere
<1>7. CASE \E n \in Awaits!Jobs : Awaits!frameStep(n)  BY <1>7, AwaitsFrames
<1>8. CASE \E n \in Awaits!Jobs : Awaits!castStep(n)  BY <1>8, AwaitsCasts
<1>9. CASE Awaits!hibernate  BY <1>9 DEF Awaits!hibernate
<1> QED
  BY <1>1, <1>2, <1>3, <1>4, <1>5, <1>6, <1>7, <1>8, <1>9
  DEF Awaits!Next, TwoSockets, TwoIds

-----------------------------------------------------------------------------
(* Behind the input gate.  One job at most is under way; the rest of the   *)
(* invariant is what that job j still owes each subscription.              *)
Frames == {"subscribe", "unsubscribe"}
Asks(j, kind, w, i) == j.pc = "queued" /\ j.kind = kind /\ j.ws = w /\ j.id = i
Due(j, w, i) == j.pc = "run" /\ (w \in j.targets \/ (j.at = w /\ i \in j.rest))

JobInTurn(j) ==
  /\ j.pc \in {"none", "queued", "run", "done"}
  /\ j.pc = "queued" =>
       /\ j.at = NoListener
       /\ j.ws # NoListener => peer[j.ws].state = "open"
       /\ j.kind \in Frames => j.ws # NoListener /\ j.id # NoQuery
  /\ j.pc = "run" =>
       /\ j.barred = {}
       /\ \A w \in TwoSockets :
            w \in j.targets \/ w = j.at => j.captured[w] = peer[w].ids /\ peer[w].known

ListInStep(w) ==
  /\ peer[w].state = "new" => peer[w].ids = {} /\ ~peer[w].subscribed
  /\ peer[w].state = "open" =>
       /\ peer[w].known => (peer[w].subscribed <=> peer[w].ids # {})
       /\ ~peer[w].known => peer[w].ids = {}

Listed(j, w, i) == client[w][i].st = "live" \/ Asks(j, "unsubscribe", w, i)

InStep(j, w, i) ==
  /\ peer[w].state = "new" => client[w][i].st = "unasked"
  /\ peer[w].state = "open" =>
       /\ client[w][i].st = "waiting" <=> Asks(j, "subscribe", w, i)
       /\ Asks(j, "unsubscribe", w, i) => client[w][i].st = "gone"
       /\ peer[w].known => (i \in peer[w].ids <=> Listed(j, w, i))
       /\ ~peer[w].known /\ Listed(j, w, i) => peer[w].subscribed
       /\ client[w][i].st = "live" =>
            /\ sub[w][i].tables = {"a"} /\ sub[w][i].digest = client[w][i].val
            /\ client[w][i].val = <<data["a"]>> \/ Due(j, w, i)

GateState(j) ==
  /\ JobInTurn(j)
  /\ \A w \in TwoSockets : ListInStep(w)
  /\ \A w \in TwoSockets, i \in ThreeIds : InStep(j, w, i)

Resting(j) == j.pc \in {"none", "done"}

OneAtATime == 
  \E n \in Gate!Jobs : (\A m \in Gate!Jobs \ {n} : Resting(job[m])) /\ GateState(job[n])

GateInv ==
  /\ LiveTyped(ThreeIds) /\ job \in [Gate!Jobs -> LiveJob(ThreeIds)] /\ arrived \in Nat
  /\ OneAtATime

(* Nothing comes in until the job under way is over.                       *)
LEMMA GateIsQuiet ==
  ASSUME GateInv, Gate!gateOpen
  PROVE  \E n \in Gate!Jobs : (\A m \in Gate!Jobs : Resting(job[m])) /\ GateState(job[n])
<1>1. PICK n \in Gate!Jobs : (\A m \in Gate!Jobs \ {n} : Resting(job[m])) /\ GateState(job[n])
  BY DEF GateInv, OneAtATime
<1>2. job[n].pc # "run"  BY DEF Gate!gateOpen, Gate!free
<1>3. ~Gate!canStart(n)  BY DEF Gate!gateOpen
<1>4. job[n].pc # "queued"
  BY <1>1, <1>3 DEF Gate!canStart, Gate!inTurn, Gate!over, Resting, Gate!Jobs
<1> QED  BY <1>1, <1>2, <1>4 DEF Resting, GateState, JobInTurn

LEMMA GateHasOne ==
  ASSUME NEW n \in Gate!Jobs, GateInv, ~Resting(job[n])
  PROVE  GateState(job[n]) /\ \A m \in Gate!Jobs \ {n} : Resting(job[m])
BY DEF GateInv, OneAtATime

LEMMA RestingIsAny ==
  ASSUME NEW j, NEW k, Resting(j), Resting(k), GateState(j)
  PROVE  GateState(k)
BY DEF Resting, GateState, JobInTurn, InStep, Listed, Asks, Due

(* The job under way, or the one that comes in, moves to k.                *)
LEMMA GateMoves ==
  ASSUME NEW n \in Gate!Jobs, NEW k \in LiveJob(ThreeIds), GateInv,
         \A m \in Gate!Jobs \ {n} : Resting(job[m]),
         job' = [job EXCEPT ![n] = k],
         data' \in [{"a"} -> Nat],
         peer' \in [TwoSockets -> Peer(ThreeIds)],
         sub' \in [TwoSockets -> [ThreeIds -> Subscription]],
         client' \in [TwoSockets -> [ThreeIds -> Ask]],
         UNCHANGED lapsed, arrived' \in Nat,
         GateState(k)'
  PROVE  GateInv'
<1>1. /\ job' \in [Gate!Jobs -> LiveJob(ThreeIds)] /\ job'[n] = k
      /\ \A m \in Gate!Jobs \ {n} : Resting(job'[m])
  BY DEF GateInv
<1>2. LiveTyped(ThreeIds)'  BY DEF GateInv, LiveTyped
<1>3. JobInTurn(job[n])'  BY <1>1 DEF GateState, JobInTurn
<1>4. \A w \in TwoSockets, i \in ThreeIds : InStep(job[n], w, i)'
  BY <1>1 DEF GateState, InStep, Listed, Asks, Due
<1>5. GateState(job[n])'  BY <1>3, <1>4 DEF GateState
<1>6. \A m \in Gate!Jobs \ {n} : Resting(job[m])'  BY <1>1 DEF Resting
<1>7. OneAtATime'  BY <1>5, <1>6 DEF OneAtATime
<1> QED  BY <1>1, <1>2, <1>7 DEF GateInv

LEMMA GateIdles ==
  ASSUME NEW j, j = Gate!idleJob
  PROVE  /\ j \in LiveJob(ThreeIds) /\ j.at = NoListener /\ j.kind = "none"
         /\ [j EXCEPT !.pc = "done"] \in LiveJob(ThreeIds)
         /\ [j EXCEPT !.pc = "done"].pc = "done"
<1>1. j \in LiveJob(ThreeIds) /\ [j EXCEPT !.pc = "done"] \in LiveJob(ThreeIds)
  BY IdleIsSound DEF Gate!idleJob, Gate!noSub, TwoSockets
<1> QED  BY <1>1 DEF Gate!idleJob, LiveJob

(* The job under way is over, and owes nothing.                            *)
LEMMA GateFinishes ==
  ASSUME NEW n \in Gate!Jobs, GateInv, ~Resting(job[n]), Gate!finished(n),
         data' \in [{"a"} -> Nat],
         peer' \in [TwoSockets -> Peer(ThreeIds)],
         sub' \in [TwoSockets -> [ThreeIds -> Subscription]],
         client' \in [TwoSockets -> [ThreeIds -> Ask]],
         UNCHANGED <<lapsed, arrived>>,
         NEW k, Resting(k), GateState(k)'
  PROVE  GateInv'
<1> PICK d : d = [Gate!idleJob EXCEPT !.pc = "done"]  OBVIOUS
<1>1. d \in LiveJob(ThreeIds) /\ d.pc = "done"  BY GateIdles
<1>2. job' = [job EXCEPT ![n] = d]  BY DEF Gate!finished
<1>3. \A m \in Gate!Jobs \ {n} : Resting(job[m])  BY GateHasOne
<1>4. GateState(d)'
  <2>1. JobInTurn(d)'  BY <1>1 DEF JobInTurn
  <2>2. \A w \in TwoSockets, i \in ThreeIds : InStep(d, w, i)'
    BY <1>1 DEF GateState, Resting, InStep, Listed, Asks, Due
  <2> QED  BY <2>1, <2>2 DEF GateState
<1>5. arrived' \in Nat  BY DEF GateInv
<1> QED  BY <1>1, <1>2, <1>3, <1>4, <1>5, GateMoves

LEMMA GateCloses ==
  ASSUME peer \in [TwoSockets -> Peer(ThreeIds)], NEW gone, peer' = Gate!closeAll(peer, gone)
  PROVE  /\ peer' \in [TwoSockets -> Peer(ThreeIds)]
         /\ \A w \in TwoSockets :
              IF w \in gone THEN peer'[w].state = "closed" ELSE peer'[w] = peer[w]
<1>1. peer' = [w \in TwoSockets |->
                 IF w \in gone THEN [peer[w] EXCEPT !.state = "closed", !.known = FALSE, !.ids = {}]
                               ELSE peer[w]]
  BY DEF Gate!closeAll, TwoSockets
<1>2. ASSUME NEW w \in TwoSockets
      PROVE  /\ peer'[w] \in Peer(ThreeIds)
             /\ IF w \in gone THEN peer'[w].state = "closed" ELSE peer'[w] = peer[w]
  <2>1. peer[w] \in Peer(ThreeIds)  OBVIOUS
  <2>2. CASE w \in gone
    <3>1. PICK r : r = [peer[w] EXCEPT !.state = "closed", !.known = FALSE, !.ids = {}]  OBVIOUS
    <3>2. r \in Peer(ThreeIds) /\ r.state = "closed"  BY <2>1, <3>1 DEF Peer
    <3> QED  BY <1>1, <2>2, <3>1, <3>2
  <2>3. CASE w \notin gone  BY <1>1, <2>1, <2>3
  <2> QED  BY <2>2, <2>3
<1> QED  BY <1>1, <1>2

(* A frame is rejected: its socket closes.                                 *)
LEMMA GateRejects ==
  ASSUME NEW n \in Gate!Jobs, GateInv, job[n].pc = "queued", job[n].ws \in TwoSockets,
         Gate!reject(n), UNCHANGED <<lapsed, arrived>>
  PROVE  GateInv'
<1> PICK j, s : j = job[n] /\ s = job[n].ws  OBVIOUS
<1> PICK k : k = [Gate!idleJob EXCEPT !.pc = "done"]  OBVIOUS
<1>1. GateState(j) /\ ~Resting(j)  BY GateHasOne DEF Resting
<1>2. Resting(k) /\ k.pc = "done"  BY GateIdles DEF Resting
<1>3. LiveTyped(ThreeIds)  BY DEF GateInv
<1>4. /\ Gate!finished(n) /\ UNCHANGED <<data, sub, client>>
      /\ peer' = Gate!closeAll(peer, {s})
  <2>1. peer[s].state = "open"
    BY <1>1, NoListenerIsNoSocket DEF GateState, JobInTurn
  <2> QED  BY <2>1 DEF Gate!reject, Gate!open
<1>5. /\ peer' \in [TwoSockets -> Peer(ThreeIds)]
      /\ \A w \in TwoSockets :
           IF w \in {s} THEN peer'[w].state = "closed" ELSE peer'[w] = peer[w]
  BY <1>3, <1>4, GateCloses DEF LiveTyped
<1>6. ASSUME NEW w \in TwoSockets  PROVE ListInStep(w)'
  BY <1>1, <1>5 DEF GateState, ListInStep
<1>7. ASSUME NEW w \in TwoSockets, NEW i \in ThreeIds  PROVE InStep(k, w, i)'
  <2>1. CASE w = s  BY <1>5, <2>1 DEF InStep
  <2>2. CASE w # s
    <3>1. InStep(j, w, i)  BY <1>1 DEF GateState
    <3>2. peer'[w] = peer[w]  BY <1>5, <2>2
    <3> QED  BY <1>1, <1>2, <1>4, <2>2, <3>1, <3>2 DEF InStep, Listed, Asks, Due, GateState, JobInTurn
  <2> QED  BY <2>1, <2>2
<1>8. GateState(k)'  BY <1>2, <1>6, <1>7 DEF GateState, JobInTurn
<1> QED  BY <1>1, <1>2, <1>3, <1>4, <1>5, <1>8, GateFinishes DEF LiveTyped

(* A frame or a write comes in: nothing else is under way.                 *)
LEMMA GateArrives ==
  ASSUME NEW h \in LiveJob(ThreeIds), GateInv, Gate!arrive(h), h.at = NoListener,
         h.kind \in Frames => h.ws # NoListener /\ h.id # NoQuery,
         h.ws # NoListener => peer[h.ws].state = "open"
  PROVE  \E n \in Gate!Jobs, k \in LiveJob(ThreeIds), j \in LiveJob(ThreeIds) :
           /\ GateState(j) /\ Resting(j) /\ \A m \in Gate!Jobs : Resting(job[m])
           /\ job' = [job EXCEPT ![n] = k] /\ arrived' \in Nat
           /\ UNCHANGED <<data, peer, sub, lapsed>>
           /\ k.pc = "queued" /\ k.kind = h.kind /\ k.ws = h.ws /\ k.id = h.id
           /\ JobInTurn(k)'
<1> PICK l : l = {w \in TwoSockets : lapsed[w] # "no"}  OBVIOUS
<1> PICK k : k = [h EXCEPT !.pc = "queued", !.late = l]  OBVIOUS
<1> PICK n : n = arrived + 1  OBVIOUS
<1>1. /\ job' = [job EXCEPT ![n] = k] /\ arrived' = n
      /\ UNCHANGED <<data, peer, sub, lapsed>>
  BY DEF Gate!arrive, TwoSockets
<1>2. n \in Gate!Jobs /\ n \in Nat  BY DEF Gate!arrive, Gate!Jobs, GateInv
<1>3. /\ k \in LiveJob(ThreeIds) /\ k.pc = "queued"
      /\ k.kind = h.kind /\ k.ws = h.ws /\ k.id = h.id /\ k.at = h.at
  BY DEF LiveJob
<1>4. JobInTurn(k)'  BY <1>1, <1>3 DEF JobInTurn, Frames
<1>5. PICK m \in Gate!Jobs : (\A o \in Gate!Jobs : Resting(job[o])) /\ GateState(job[m])
  BY GateIsQuiet DEF Gate!arrive
<1>6. job[m] \in LiveJob(ThreeIds)  BY DEF GateInv, LiveTyped
<1> QED  BY <1>1, <1>2, <1>3, <1>4, <1>5, <1>6

LEMMA GateAsks ==
  ASSUME NEW w \in TwoSockets, NEW i \in ThreeIds, GateInv,
         Gate!sendSubscribe(w, i) \/ Gate!sendUnsubscribe(w, i)
  PROVE  GateInv'
<1> PICK g : g = Gate!idleJob  OBVIOUS
<1> PICK kind, st : \/ Gate!sendSubscribe(w, i) /\ kind = "subscribe" /\ st = "waiting"
                    \/ Gate!sendUnsubscribe(w, i) /\ kind = "unsubscribe" /\ st = "gone"
  OBVIOUS
<1> PICK h : h = [g EXCEPT !.kind = kind, !.ws = w, !.id = i]  OBVIOUS
<1> PICK a : a = [st |-> st, val |-> <<>>]  OBVIOUS
<1>1. /\ peer[w].state = "open"
      /\ client' = [client EXCEPT ![w][i] = a]
      /\ Gate!arrive(h)
      /\ kind = "subscribe" => client[w][i].st = "unasked"
      /\ kind = "unsubscribe" => client[w][i].st \in {"waiting", "live"}
  BY DEF Gate!sendSubscribe, Gate!sendUnsubscribe, Gate!open
<1>2. g \in LiveJob(ThreeIds) /\ g.at = NoListener  BY GateIdles
<1>3. /\ h \in LiveJob(ThreeIds) /\ h.at = NoListener
      /\ h.kind = kind /\ h.ws = w /\ h.id = i
  <2>1. /\ w \in SocketOrNone /\ i \in ThreeIds \cup {NoQuery}
        /\ kind \in {"none", "subscribe", "unsubscribe", "call", "write"}
    BY DEF SocketOrNone
  <2>2. h \in LiveJob(ThreeIds)  BY <1>2, <2>1 DEF LiveJob
  <2> QED  BY <1>2, <2>2 DEF LiveJob
<1>4. w # NoListener /\ i # NoQuery  BY NoListenerIsNoSocket
<1>5. PICK n \in Gate!Jobs, k \in LiveJob(ThreeIds), j \in LiveJob(ThreeIds) :
        /\ GateState(j) /\ Resting(j) /\ \A m \in Gate!Jobs : Resting(job[m])
        /\ job' = [job EXCEPT ![n] = k] /\ arrived' \in Nat
        /\ UNCHANGED <<data, peer, sub, lapsed>>
        /\ k.pc = "queued" /\ k.kind = h.kind /\ k.ws = h.ws /\ k.id = h.id
        /\ JobInTurn(k)'
  BY <1>1, <1>3, <1>4, GateArrives
<1>6. LiveTyped(ThreeIds)  BY DEF GateInv
<1>7. a \in Ask /\ a.st = st  BY DEF Ask, Results
<1>8. /\ client' \in [TwoSockets -> [ThreeIds -> Ask]]
      /\ client'[w][i] = a
      /\ \A v \in TwoSockets, o \in ThreeIds : v # w \/ o # i => client'[v][o] = client[v][o]
  BY <1>1, <1>6, <1>7 DEF LiveTyped
<1>9. ASSUME NEW v \in TwoSockets  PROVE ListInStep(v)'
  BY <1>5 DEF GateState, ListInStep
<1>10. ASSUME NEW v \in TwoSockets, NEW o \in ThreeIds  PROVE InStep(k, v, o)'
  <2>1. InStep(j, v, o)  BY <1>5 DEF GateState
  <2>2. CASE v = w /\ o = i
    BY <1>1, <1>3, <1>5, <1>7, <1>8, <2>1, <2>2 DEF Resting, InStep, Listed, Asks, Due
  <2>3. CASE v # w \/ o # i
    BY <1>1, <1>3, <1>5, <1>7, <1>8, <2>1, <2>3 DEF Resting, InStep, Listed, Asks, Due
  <2> QED  BY <2>2, <2>3
<1>11. GateState(k)'  BY <1>5, <1>9, <1>10 DEF GateState
<1>12. /\ data' \in [{"a"} -> Nat] /\ peer' \in [TwoSockets -> Peer(ThreeIds)]
       /\ sub' \in [TwoSockets -> [ThreeIds -> Subscription]] /\ UNCHANGED lapsed
  BY <1>5, <1>6 DEF LiveTyped
<1>13. \A m \in Gate!Jobs \ {n} : Resting(job[m])  BY <1>5
<1> QED  BY <1>5, <1>8, <1>11, <1>12, <1>13, GateMoves

(* A call of a socket, or a write from elsewhere.                          *)
LEMMA GateTakesWrite ==
  ASSUME NEW w \in TwoSockets, GateInv, Gate!sendCall(w, "a") \/ Gate!writeElsewhere("a")
  PROVE  GateInv'
<1> PICK g : g = Gate!idleJob  OBVIOUS
<1>1. g \in LiveJob(ThreeIds) /\ g.at = NoListener /\ g.ws = NoListener
  BY GateIdles DEF Gate!idleJob
<1>2. PICK h \in LiveJob(ThreeIds) :
        /\ Gate!arrive(h) /\ h.at = NoListener /\ h.kind \in {"call", "write"}
        /\ h.ws # NoListener => peer[h.ws].state = "open"
  <2>1. CASE Gate!sendCall(w, "a")
    <3>1. PICK h : h = [g EXCEPT !.kind = "call", !.ws = w, !.table = "a"]  OBVIOUS
    <3>2. h \in LiveJob(ThreeIds) /\ h.at = NoListener /\ h.kind = "call" /\ h.ws = w
      BY <1>1, <3>1 DEF LiveJob, SocketOrNone
    <3>3. Gate!arrive(h) /\ peer[w].state = "open"
      BY <2>1, <3>1 DEF Gate!sendCall, Gate!open
    <3> QED  BY <3>2, <3>3
  <2>2. CASE Gate!writeElsewhere("a")
    <3>1. PICK h : h = [g EXCEPT !.kind = "write", !.table = "a"]  OBVIOUS
    <3>2. h \in LiveJob(ThreeIds) /\ h.at = NoListener /\ h.kind = "write" /\ h.ws = NoListener
      BY <1>1, <3>1 DEF LiveJob
    <3>3. Gate!arrive(h)  BY <2>2, <3>1 DEF Gate!writeElsewhere
    <3> QED  BY <3>2, <3>3
  <2> QED  BY <2>1, <2>2
<1>3. UNCHANGED client  BY DEF Gate!sendCall, Gate!writeElsewhere
<1>4. PICK n \in Gate!Jobs, k \in LiveJob(ThreeIds), j \in LiveJob(ThreeIds) :
        /\ GateState(j) /\ Resting(j) /\ \A m \in Gate!Jobs : Resting(job[m])
        /\ job' = [job EXCEPT ![n] = k] /\ arrived' \in Nat
        /\ UNCHANGED <<data, peer, sub, lapsed>>
        /\ k.pc = "queued" /\ k.kind = h.kind /\ k.ws = h.ws /\ k.id = h.id
        /\ JobInTurn(k)'
  <2>1. h.kind \notin Frames  BY <1>2 DEF Frames
  <2> QED  BY <1>2, <2>1, GateArrives
<1>5. ASSUME NEW v \in TwoSockets  PROVE ListInStep(v)'
  BY <1>4 DEF GateState, ListInStep
<1>6. ASSUME NEW v \in TwoSockets, NEW o \in ThreeIds  PROVE InStep(k, v, o)'
  <2>1. InStep(j, v, o)  BY <1>4 DEF GateState
  <2> QED  BY <1>2, <1>3, <1>4, <2>1 DEF Resting, InStep, Listed, Asks, Due
<1>7. GateState(k)'  BY <1>4, <1>5, <1>6 DEF GateState
<1>8. /\ data' \in [{"a"} -> Nat] /\ peer' \in [TwoSockets -> Peer(ThreeIds)]
      /\ sub' \in [TwoSockets -> [ThreeIds -> Subscription]]
      /\ client' \in [TwoSockets -> [ThreeIds -> Ask]] /\ UNCHANGED lapsed
  BY <1>3, <1>4 DEF LiveTyped, GateInv
<1>9. \A m \in Gate!Jobs \ {n} : Resting(job[m])  BY <1>4
<1> QED  BY <1>4, <1>7, <1>8, <1>9, GateMoves

LEMMA GateEvaluates ==
  ASSUME LiveTyped(ThreeIds), NEW i \in ThreeIds
  PROVE  /\ Gate!result(i) = <<data["a"]>> /\ Gate!result(i) \in Results
         /\ Gate!evaluate(i) \in Subscription
         /\ Gate!evaluate(i).tables = {"a"} /\ Gate!evaluate(i).digest = <<data["a"]>>
<1>1. data["a"] \in Nat  BY DEF LiveTyped
<1>2. Gate!result(i) = <<data["a"]>> /\ Gate!readSet(i) = {"a"}
  BY DEF Gate!result, Gate!readSet, Gate!branches
<1> QED  BY <1>1, <1>2 DEF Gate!evaluate, Subscription, Results

(* A list is put on its socket, with the attachment's bit.                 *)
LEMMA GateSetsSubs ==
  ASSUME peer \in [TwoSockets -> Peer(ThreeIds)], NEW w \in TwoSockets, NEW u \in SUBSET ThreeIds,
         peer' = Gate!setSubs(peer, w, u)
  PROVE  /\ peer' \in [TwoSockets -> Peer(ThreeIds)]
         /\ peer'[w].state = peer[w].state /\ peer'[w].known /\ peer'[w].ids = u
         /\ peer'[w].subscribed <=> u # {}
         /\ \A v \in TwoSockets : v # w => peer'[v] = peer[v]
<1> PICK b \in BOOLEAN : b <=> (u # {})  OBVIOUS
<1> PICK r : r = [peer[w] EXCEPT !.known = TRUE, !.ids = u, !.subscribed = b]  OBVIOUS
<1>1. peer' = [peer EXCEPT ![w] = r]
  <2>1. b = (u # {})  OBVIOUS
  <2> QED  BY <2>1 DEF Gate!setSubs
<1>2. /\ r \in Peer(ThreeIds) /\ r.state = peer[w].state /\ r.known /\ r.ids = u
      /\ r.subscribed <=> b
  <2>1. peer[w] \in Peer(ThreeIds)  OBVIOUS
  <2> QED  BY <2>1 DEF Peer
<1> QED  BY <1>1, <1>2

(* A result is sent to one subscription.                                   *)
GateSends(w, i, q) ==
  /\ sub' = [sub EXCEPT ![w][i] = q]
  /\ client' = Gate!received(w, i, q.digest)

LEMMA GateSent ==
  ASSUME NEW w \in TwoSockets, NEW i \in ThreeIds, NEW q \in Subscription, LiveTyped(ThreeIds),
         GateSends(w, i, q)
  PROVE  /\ sub' \in [TwoSockets -> [ThreeIds -> Subscription]] /\ sub'[w][i] = q
         /\ client' \in [TwoSockets -> [ThreeIds -> Ask]]
         /\ IF peer[w].state = "open" /\ client[w][i].st \in {"waiting", "live"}
              THEN client'[w][i].st = "live" /\ client'[w][i].val = q.digest
              ELSE client'[w][i] = client[w][i]
         /\ \A v \in TwoSockets, o \in ThreeIds :
              v # w \/ o # i => sub'[v][o] = sub[v][o] /\ client'[v][o] = client[v][o]
<1>1. sub \in [TwoSockets -> [ThreeIds -> Subscription]] /\ client \in [TwoSockets -> [ThreeIds -> Ask]]
  BY DEF LiveTyped
<1>2. PICK a : a = [st |-> "live", val |-> q.digest]  OBVIOUS
<1>3. a \in Ask /\ a.st = "live" /\ a.val = q.digest  BY <1>2 DEF Ask, Subscription
<1>4. /\ sub' \in [TwoSockets -> [ThreeIds -> Subscription]] /\ sub'[w][i] = q
      /\ \A v \in TwoSockets, o \in ThreeIds : v # w \/ o # i => sub'[v][o] = sub[v][o]
  BY <1>1 DEF GateSends
<1>5. CASE peer[w].state = "open" /\ client[w][i].st \in {"waiting", "live"}
  <2>1. client' = [client EXCEPT ![w][i] = a]  BY <1>2, <1>5 DEF GateSends, Gate!received, Gate!open
  <2>2. /\ client' \in [TwoSockets -> [ThreeIds -> Ask]]
        /\ client'[w][i] = a
        /\ \A v \in TwoSockets, o \in ThreeIds : v # w \/ o # i => client'[v][o] = client[v][o]
    BY <1>1, <1>3, <2>1
  <2> QED  BY <1>3, <1>4, <1>5, <2>2
<1>6. CASE ~(peer[w].state = "open" /\ client[w][i].st \in {"waiting", "live"})
  BY <1>1, <1>4, <1>6 DEF GateSends, Gate!received, Gate!open
<1> QED  BY <1>5, <1>6

(* A subscribe frame is served.                                            *)
LEMMA GateSubscribes ==
  ASSUME NEW n \in Gate!Jobs, GateInv, job[n].pc = "queued", job[n].kind = "subscribe",
         ~Gate!orphaned(peer, job[n].ws), Gate!onSubscribe(n), UNCHANGED <<lapsed, arrived>>
  PROVE  GateInv'
<1> PICK j, s, i : j = job[n] /\ s = job[n].ws /\ i = job[n].id  OBVIOUS
<1> PICK k : k = [Gate!idleJob EXCEPT !.pc = "done"]  OBVIOUS
<1>1. GateState(j) /\ ~Resting(j)  BY GateHasOne DEF Resting
<1>2. Resting(k) /\ k.pc = "done"  BY GateIdles DEF Resting
<1>3. LiveTyped(ThreeIds) /\ j \in LiveJob(ThreeIds)  BY DEF GateInv
<1>4. s \in TwoSockets /\ i \in ThreeIds /\ peer[s].state = "open"
  BY <1>1, <1>3 DEF GateState, JobInTurn, Frames, LiveJob, SocketOrNone
<1>5. client[s][i].st = "waiting"
  BY <1>1, <1>4 DEF GateState, InStep, Asks
<1>6. ASSUME NEW w \in TwoSockets, NEW o \in ThreeIds
      PROVE  InStep(j, w, o) /\ ListInStep(w)
  BY <1>1 DEF GateState
<1>7. CASE Gate!refuse(n)
  <2>1. PICK a : a = [client[s][i] EXCEPT !.st = "refused"]  OBVIOUS
  <2>2. /\ client' = [client EXCEPT ![s][i] = a]
        /\ Gate!finished(n) /\ UNCHANGED <<data, peer, sub>>
    BY <1>4, <1>5, <1>7, <2>1 DEF Gate!refuse, Gate!open
  <2>3. a \in Ask /\ a.st = "refused"
    <3>1. client[s][i] \in Ask  BY <1>3, <1>4 DEF LiveTyped
    <3> QED  BY <2>1, <3>1 DEF Ask
  <2>4. /\ client' \in [TwoSockets -> [ThreeIds -> Ask]] /\ client'[s][i] = a
        /\ \A v \in TwoSockets, o \in ThreeIds : v # s \/ o # i => client'[v][o] = client[v][o]
    BY <1>3, <1>4, <2>2, <2>3 DEF LiveTyped
  <2>5. ASSUME NEW w \in TwoSockets, NEW o \in ThreeIds  PROVE InStep(k, w, o)'
    <3>1. CASE w = s /\ o = i
      BY <1>2, <1>4, <1>5, <1>6, <2>2, <2>3, <2>4, <3>1 DEF InStep, Listed, Asks, Due
    <3>2. CASE w # s \/ o # i
      BY <1>1, <1>2, <1>6, <2>2, <2>4, <3>2 DEF InStep, Listed, Asks, Due
    <3> QED  BY <3>1, <3>2
  <2>6. ASSUME NEW w \in TwoSockets  PROVE ListInStep(w)'
    BY <1>1, <2>2 DEF GateState, ListInStep
  <2>7. GateState(k)'  BY <1>2, <2>5, <2>6 DEF GateState, JobInTurn
  <2> QED  BY <1>1, <1>2, <1>3, <2>2, <2>4, <2>7, GateFinishes DEF LiveTyped
<1>8. CASE Gate!installSub(n, peer[s].ids, Gate!evaluate(i))
  <2>1. PICK q, u : q = Gate!evaluate(i) /\ u = peer[s].ids \cup {i}  OBVIOUS
  <2>2. q \in Subscription /\ q.tables = {"a"} /\ q.digest = <<data["a"]>>
    BY <1>3, <1>4, <2>1, GateEvaluates
  <2>3. u \in SUBSET ThreeIds /\ u # {}
    <3>1. peer[s].ids \subseteq ThreeIds  BY <1>3, <1>4 DEF LiveTyped, Peer
    <3> QED  BY <1>4, <2>1, <3>1
  <2>4. /\ peer' = Gate!setSubs(peer, s, u)
        /\ GateSends(s, i, q)
        /\ Gate!finished(n) /\ UNCHANGED data
    BY <1>8, <2>1 DEF Gate!installSub, GateSends
  <2>5. /\ peer' \in [TwoSockets -> Peer(ThreeIds)]
        /\ peer'[s].state = peer[s].state /\ peer'[s].known /\ peer'[s].ids = u
        /\ peer'[s].subscribed <=> u # {}
        /\ \A v \in TwoSockets : v # s => peer'[v] = peer[v]
    BY <1>3, <1>4, <2>3, <2>4, GateSetsSubs DEF LiveTyped
  <2>6. /\ sub' \in [TwoSockets -> [ThreeIds -> Subscription]] /\ sub'[s][i] = q
        /\ client' \in [TwoSockets -> [ThreeIds -> Ask]]
        /\ IF peer[s].state = "open" /\ client[s][i].st \in {"waiting", "live"}
             THEN client'[s][i].st = "live" /\ client'[s][i].val = q.digest
             ELSE client'[s][i] = client[s][i]
        /\ \A v \in TwoSockets, o \in ThreeIds :
             v # s \/ o # i => sub'[v][o] = sub[v][o] /\ client'[v][o] = client[v][o]
    BY <1>3, <1>4, <2>2, <2>4, GateSent
  <2>7. ASSUME NEW w \in TwoSockets, NEW o \in ThreeIds  PROVE InStep(k, w, o)'
    <3>1. UNCHANGED data  BY <2>4
    <3>2. CASE w = s /\ o = i
      <4>1. client'[s][i].st = "live" /\ client'[s][i].val = <<data["a"]>>
        BY <1>4, <1>5, <2>2, <2>6
      <4>2. sub'[s][i].tables = {"a"} /\ sub'[s][i].digest = <<data["a"]>> /\ i \in u
        BY <2>1, <2>2, <2>6
      <4>3. peer'[s].state = "open" /\ peer'[s].known /\ peer'[s].ids = u
        BY <1>4, <2>5
      <4> QED  BY <1>2, <3>1, <3>2, <4>1, <4>2, <4>3 DEF InStep, Listed, Asks, Due
    <3>3. CASE w = s /\ o # i
      <4>1. InStep(j, s, o) /\ ListInStep(s)  BY <1>4, <1>6
      <4>2. ~peer[s].known => peer[s].ids = {} /\ client[s][o].st # "live"
        BY <1>4, <4>1 DEF ListInStep, InStep, Listed, Gate!orphaned
      <4>3. client'[s][o] = client[s][o] /\ sub'[s][o] = sub[s][o]  BY <1>4, <2>6, <3>3
      <4>4. /\ peer'[s].state = "open" /\ peer'[s].known
            /\ o \in peer'[s].ids <=> o \in peer[s].ids
        BY <1>4, <2>1, <2>5, <3>3
      <4> QED
        BY <1>2, <1>4, <3>1, <3>3, <4>1, <4>2, <4>3, <4>4 DEF InStep, Listed, Asks, Due
    <3>4. CASE w # s
      <4>1. InStep(j, w, o)  BY <1>6
      <4>2. client'[w][o] = client[w][o] /\ sub'[w][o] = sub[w][o] /\ peer'[w] = peer[w]
        BY <2>5, <2>6, <3>4
      <4> QED  BY <1>2, <3>1, <3>4, <4>1, <4>2 DEF InStep, Listed, Asks, Due
    <3> QED  BY <3>2, <3>3, <3>4
  <2>8. ASSUME NEW w \in TwoSockets  PROVE ListInStep(w)'
    BY <1>1, <1>4, <2>3, <2>5 DEF GateState, ListInStep
  <2>9. GateState(k)'  BY <1>2, <2>7, <2>8 DEF GateState, JobInTurn
  <2>10. data' \in [{"a"} -> Nat]  BY <1>3, <2>4 DEF LiveTyped
  <2> QED  BY <1>1, <1>2, <2>4, <2>5, <2>6, <2>9, <2>10, GateFinishes
<1> QED  BY <1>7, <1>8 DEF Gate!onSubscribe

(* An unsubscribe frame is served.                                         *)
LEMMA GateUnsubscribes ==
  ASSUME NEW n \in Gate!Jobs, GateInv, job[n].pc = "queued", job[n].kind = "unsubscribe",
         ~Gate!orphaned(peer, job[n].ws), Gate!onUnsubscribe(n), UNCHANGED <<lapsed, arrived>>
  PROVE  GateInv'
<1> PICK j, s, i : j = job[n] /\ s = job[n].ws /\ i = job[n].id  OBVIOUS
<1> PICK k : k = [Gate!idleJob EXCEPT !.pc = "done"]  OBVIOUS
<1>1. GateState(j) /\ ~Resting(j)  BY GateHasOne DEF Resting
<1>2. Resting(k) /\ k.pc = "done"  BY GateIdles DEF Resting
<1>3. LiveTyped(ThreeIds) /\ j \in LiveJob(ThreeIds)  BY DEF GateInv
<1>4. s \in TwoSockets /\ i \in ThreeIds /\ peer[s].state = "open"
  BY <1>1, <1>3 DEF GateState, JobInTurn, Frames, LiveJob, SocketOrNone
<1>5. ASSUME NEW w \in TwoSockets, NEW o \in ThreeIds
      PROVE  InStep(j, w, o) /\ ListInStep(w)
  BY <1>1 DEF GateState
<1>6. client[s][i].st = "gone" /\ peer[s].known
  BY <1>4, <1>5 DEF InStep, Listed, Asks, Gate!orphaned
<1>7. PICK u : u = peer[s].ids \ {i}  OBVIOUS
<1>8. u \in SUBSET ThreeIds
  <2>1. peer[s].ids \subseteq ThreeIds  BY <1>3, <1>4 DEF LiveTyped, Peer
  <2> QED  BY <1>7, <2>1
<1>9. peer' = Gate!setSubs(peer, s, u) /\ Gate!finished(n) /\ UNCHANGED <<data, sub, client>>
  BY <1>7 DEF Gate!onUnsubscribe
<1>10. /\ peer' \in [TwoSockets -> Peer(ThreeIds)]
       /\ peer'[s].state = peer[s].state /\ peer'[s].known /\ peer'[s].ids = u
       /\ peer'[s].subscribed <=> u # {}
       /\ \A v \in TwoSockets : v # s => peer'[v] = peer[v]
  BY <1>3, <1>4, <1>8, <1>9, GateSetsSubs DEF LiveTyped
<1>11. ASSUME NEW w \in TwoSockets, NEW o \in ThreeIds  PROVE InStep(k, w, o)'
  <2>1. CASE w = s /\ o = i
    BY <1>2, <1>4, <1>6, <1>7, <1>9, <1>10, <2>1 DEF InStep, Listed, Asks, Due
  <2>2. CASE w = s /\ o # i
    <3>1. InStep(j, s, o)  BY <1>4, <1>5
    <3>2. UNCHANGED <<data, sub, client>>  BY <1>9
    <3>3. /\ peer'[s].state = peer[s].state /\ peer'[s].known
          /\ o \in peer'[s].ids <=> o \in peer[s].ids
      BY <1>7, <1>10, <2>2
    <3> QED  BY <1>2, <1>6, <2>2, <3>1, <3>2, <3>3 DEF InStep, Listed, Asks, Due
  <2>3. CASE w # s
    BY <1>1, <1>2, <1>5, <1>9, <1>10, <2>3 DEF InStep, Listed, Asks, Due
  <2> QED  BY <2>1, <2>2, <2>3
<1>12. ASSUME NEW w \in TwoSockets  PROVE ListInStep(w)'
  BY <1>1, <1>4, <1>10 DEF GateState, ListInStep
<1>13. GateState(k)'  BY <1>2, <1>11, <1>12 DEF GateState, JobInTurn
<1> QED  BY <1>1, <1>2, <1>3, <1>9, <1>10, <1>13, GateFinishes DEF LiveTyped

(* A write and the broadcast that follows it.  Whoever holds a result now  *)
(* stale is among the targets, or its socket is closed.                    *)
LEMMA GateBeginsCast ==
  ASSUME NEW n \in Gate!Jobs, GateInv, job[n].pc = "queued", job[n].kind \notin Frames,
         Gate!write(job[n].table), Gate!beginCast(n, job[n], peer),
         UNCHANGED <<sub, client, lapsed, arrived>>
  PROVE  GateInv'
<1> PICK j : j = job[n]  OBVIOUS
<1> PICK alive : alive = {w \in TwoSockets : peer[w].state = "open"}  OBVIOUS
<1> PICK gone : gone = {w \in alive : lapsed[w] = "expired" \/ Gate!orphaned(peer, w)}  OBVIOUS
<1> PICK t : t = {w \in alive \ gone : Gate!reads(peer[w].ids, w, j.table) # {}}  OBVIOUS
<1> PICK c : c = [w \in TwoSockets |-> IF w \in t THEN peer[w].ids ELSE {}]  OBVIOUS
<1>1. /\ peer' = Gate!closeAll(peer, gone)
      /\ job' = [job EXCEPT ![n] =
           IF t = {} THEN [Gate!idleJob EXCEPT !.pc = "done"]
           ELSE [j EXCEPT !.pc = "run", !.targets = t, !.captured = c, !.barred = {}]]
  BY DEF Gate!beginCast, TwoSockets
<1>2. LiveTyped(ThreeIds) /\ j \in LiveJob(ThreeIds)  BY DEF GateInv
<1>3. GateState(j) /\ ~Resting(j) /\ \A m \in Gate!Jobs \ {n} : Resting(job[m])
  BY GateHasOne DEF Resting
<1>4. j.table = "a" /\ j.at = NoListener  BY <1>2, <1>3 DEF LiveJob, GateState, JobInTurn
<1>5. ASSUME NEW w \in TwoSockets, NEW o \in ThreeIds
      PROVE  InStep(j, w, o) /\ ListInStep(w)
  BY <1>3 DEF GateState
<1>6. /\ peer' \in [TwoSockets -> Peer(ThreeIds)]
      /\ \A w \in TwoSockets :
           IF w \in gone THEN peer'[w].state = "closed" ELSE peer'[w] = peer[w]
  BY <1>1, <1>2, GateCloses DEF LiveTyped
<1>7. data' \in [{"a"} -> Nat]  BY <1>2, <1>4 DEF LiveTyped, Gate!write
<1>8. ASSUME NEW w \in TwoSockets, NEW o \in ThreeIds, peer[w].state = "open", w \notin gone,
             client[w][o].st = "live"
      PROVE  w \in t
  <2>1. Listed(j, w, o)  BY <1>8 DEF Listed
  <2>2. peer[w].known  BY <1>5, <1>8, <2>1 DEF InStep, Gate!orphaned
  <2>3. o \in peer[w].ids /\ "a" \in sub[w][o].tables  BY <1>5, <1>8, <2>1, <2>2 DEF InStep
  <2>4. o \in Gate!reads(peer[w].ids, w, j.table)  BY <1>4, <2>3 DEF Gate!reads
  <2> QED  BY <1>8, <2>4
<1>9. ASSUME NEW w \in t  PROVE w \in TwoSockets /\ w \notin gone /\ peer[w].known
  <2>1. peer[w].state = "open" /\ w \in TwoSockets /\ w \notin gone  OBVIOUS
  <2>2. peer[w].ids # {}  BY DEF Gate!reads
  <2> QED  BY <1>3, <2>1, <2>2 DEF GateState, ListInStep
<1>10. ASSUME NEW w \in TwoSockets  PROVE ListInStep(w)'
  BY <1>3, <1>6 DEF GateState, ListInStep
<1>11. UNCHANGED <<sub, client>>  OBVIOUS
<1>12. CASE t = {}
  <2>1. PICK k : k = [Gate!idleJob EXCEPT !.pc = "done"]  OBVIOUS
  <2>2. Resting(k) /\ k.pc = "done"  BY <2>1, GateIdles DEF Resting
  <2>3. Gate!finished(n)  BY <1>1, <1>12 DEF Gate!finished
  <2>4. ASSUME NEW w \in TwoSockets, NEW o \in ThreeIds  PROVE InStep(k, w, o)'
    <3>1. CASE w \in gone  BY <1>6, <3>1 DEF InStep
    <3>2. CASE w \notin gone
      <4>1. peer'[w] = peer[w] /\ (peer[w].state = "open" => client[w][o].st # "live")
        BY <1>6, <1>8, <1>12, <3>2
      <4> QED  BY <1>5, <1>11, <2>2, <4>1 DEF InStep, Listed, Asks, Due, Frames
    <3> QED  BY <3>1, <3>2
  <2>5. GateState(k)'  BY <1>10, <2>2, <2>4 DEF GateState, JobInTurn
  <2> QED  BY <1>2, <1>3, <1>6, <1>7, <2>2, <2>3, <2>5, GateFinishes DEF LiveTyped
<1>13. CASE t # {}
  <2>1. c \in [TwoSockets -> SUBSET ThreeIds]
    <3>1. \A w \in TwoSockets : peer[w].ids \subseteq ThreeIds  BY <1>2 DEF LiveTyped, Peer
    <3> QED  BY <3>1
  <2>2. PICK h : h = [j EXCEPT !.pc = "run", !.targets = t]  OBVIOUS
  <2>3. h \in LiveJob(ThreeIds) /\ h.pc = "run" /\ h.targets = t /\ h.at = j.at
    BY <1>2, <2>2 DEF LiveJob
  <2>4. PICK k : k = [h EXCEPT !.captured = c, !.barred = {}]  OBVIOUS
  <2>5. k \in LiveJob(ThreeIds)  BY <2>1, <2>3, <2>4 DEF LiveJob
  <2>6. /\ k.pc = "run" /\ k.barred = {} /\ k.targets = t /\ k.captured = c /\ k.at = NoListener
    <3>1. k.pc = h.pc /\ k.barred = {} /\ k.targets = h.targets /\ k.captured = c /\ k.at = h.at
      BY <2>3, <2>4 DEF LiveJob
    <3> QED  BY <1>4, <2>3, <3>1
  <2>7. job' = [job EXCEPT ![n] = k]
    <3>1. [j EXCEPT !.pc = "run", !.targets = t, !.captured = c, !.barred = {}] = k
      BY <1>2, <2>2, <2>4 DEF LiveJob
    <3> QED  BY <1>1, <1>13, <3>1
  <2>8. ASSUME NEW w \in TwoSockets, NEW o \in ThreeIds  PROVE InStep(k, w, o)'
    <3>1. CASE w \in gone  BY <1>6, <3>1 DEF InStep
    <3>2. CASE w \notin gone
      <4>1. peer'[w] = peer[w] /\ (peer[w].state = "open" /\ client[w][o].st = "live" => w \in t)
        BY <1>6, <1>8, <3>2
      <4> QED  BY <1>5, <1>11, <2>6, <4>1 DEF InStep, Listed, Asks, Due, Frames
    <3> QED  BY <3>1, <3>2
  <2>9. JobInTurn(k)'
    <3>1. ASSUME NEW w \in TwoSockets, w \in k.targets \/ w = k.at
          PROVE  k.captured[w] = peer'[w].ids /\ peer'[w].known
      <4>1. w \in t  BY <2>6, <3>1, NoListenerIsNoSocket
      <4>2. peer'[w] = peer[w] /\ peer[w].known  BY <1>6, <1>9, <4>1
      <4> QED  BY <2>6, <4>1, <4>2
    <3> QED  BY <2>6, <3>1 DEF JobInTurn
  <2>10. GateState(k)'  BY <1>10, <2>8, <2>9 DEF GateState
  <2>11. arrived' \in Nat  BY DEF GateInv
  <2> QED  BY <1>2, <1>3, <1>6, <1>7, <2>5, <2>7, <2>10, <2>11, GateMoves DEF LiveTyped
<1> QED  BY <1>12, <1>13

LEMMA GateFrames ==
  ASSUME NEW n \in Gate!Jobs, GateInv, Gate!frameStep(n)
  PROVE  GateInv'
<1>1. job[n].pc \in {"none", "queued", "run", "done"}
  BY GateHasOne DEF GateState, JobInTurn, Resting
<1>2. Gate!startFrame(n)
  BY <1>1 DEF Gate!frameStep, Gate!frameLooked, Gate!frameLookupFails, Gate!queryAnswered
<1>3. /\ job[n].pc = "queued" /\ job[n].ws # NoListener /\ UNCHANGED <<lapsed, arrived>>
      /\ Gate!reject(n) \/ Gate!serve(n)
  BY <1>2 DEF Gate!startFrame, Gate!canStart
<1>4. GateState(job[n]) /\ job[n] \in LiveJob(ThreeIds) /\ ~Resting(job[n])
  BY <1>3, GateHasOne DEF GateInv, Resting
<1>5. job[n].ws \in TwoSockets /\ peer[job[n].ws].state = "open"
  BY <1>3, <1>4 DEF GateState, JobInTurn, LiveJob, SocketOrNone
<1>6. CASE Gate!reject(n)  BY <1>3, <1>5, <1>6, GateRejects
<1>7. CASE ~Gate!reject(n)
  <2>1. ~Gate!mustResubscribe(n) /\ Gate!serve(n)  BY <1>3, <1>7 DEF Gate!serve
  <2>2. CASE job[n].kind = "subscribe" /\ Gate!onSubscribe(n)
    <3>1. ~Gate!orphaned(peer, job[n].ws)  BY <2>1, <2>2 DEF Gate!mustResubscribe
    <3> QED  BY <1>3, <2>2, <3>1, GateSubscribes
  <2>3. CASE job[n].kind = "unsubscribe" /\ Gate!onUnsubscribe(n)
    <3>1. ~Gate!orphaned(peer, job[n].ws)  BY <2>1, <2>3 DEF Gate!mustResubscribe
    <3> QED  BY <1>3, <2>3, <3>1, GateUnsubscribes
  <2>4. CASE job[n].kind = "call" /\ Gate!onCall(n)
    <3>1. /\ Gate!write(job[n].table) /\ Gate!beginCast(n, job[n], peer)
          /\ UNCHANGED <<sub, client>>
      BY <1>5, <2>4 DEF Gate!onCall, Gate!open
    <3>2. job[n].kind \notin Frames  BY <2>4 DEF Frames
    <3> QED  BY <1>3, <3>1, <3>2, GateBeginsCast
  <2> QED  BY <2>1, <2>2, <2>3, <2>4 DEF Gate!serve
<1> QED  BY <1>6, <1>7

LEMMA GateElsewhere ==
  ASSUME NEW n \in Gate!Jobs, GateInv, Gate!fetchRpc(n)
  PROVE  GateInv'
<1>1. /\ job[n].kind \notin Frames /\ job[n].pc = "queued"
      /\ Gate!write(job[n].table) /\ Gate!beginCast(n, job[n], peer)
      /\ UNCHANGED <<sub, client, lapsed, arrived>>
  BY DEF Gate!fetchRpc, Gate!canStart, Frames
<1> QED  BY <1>1, GateBeginsCast

(* The broadcast reaches a socket: all it may owe is left to re-run.       *)
LEMMA GateReaches ==
  ASSUME NEW n \in Gate!Jobs, GateInv, NEW w \in TwoSockets, Gate!castSocket(n, w)
  PROVE  GateInv'
<1> PICK j : j = job[n]  OBVIOUS
<1>1. /\ j.pc = "run" /\ j.at = NoListener /\ w \in j.targets
      /\ UNCHANGED <<data, sub, client, lapsed, arrived>>
  BY DEF Gate!castSocket, Gate!betweenSockets
<1>2. /\ LiveTyped(ThreeIds) /\ j \in LiveJob(ThreeIds) /\ job \in [Gate!Jobs -> LiveJob(ThreeIds)]
      /\ arrived \in Nat
  BY DEF GateInv
<1>3. GateState(j) /\ \A m \in Gate!Jobs \ {n} : Resting(job[m])
  BY <1>1, GateHasOne DEF Resting
<1>4. j.table = "a" /\ j.barred = {} /\ j.captured[w] = peer[w].ids /\ peer[w].known
  BY <1>1, <1>2, <1>3 DEF LiveJob, GateState, JobInTurn
<1>5. PICK t, r : t = j.targets \ {w} /\ r = Gate!reads(j.captured[w], w, j.table)  OBVIOUS
<1>6. t \subseteq TwoSockets /\ r \subseteq ThreeIds
  <2>1. j.captured[w] \subseteq ThreeIds /\ j.targets \subseteq TwoSockets  BY <1>2 DEF LiveJob
  <2> QED  BY <1>5, <2>1 DEF Gate!reads
<1>7. PICK h : h = [j EXCEPT !.targets = t, !.at = w]  OBVIOUS
<1>8. PICK k : k = [h EXCEPT !.dirty = FALSE, !.rest = r]  OBVIOUS
<1>9. h \in LiveJob(ThreeIds)  BY <1>2, <1>6, <1>7 DEF LiveJob, SocketOrNone
<1>10. k \in LiveJob(ThreeIds)  BY <1>6, <1>8, <1>9 DEF LiveJob
<1>11. /\ k.pc = "run" /\ k.barred = {} /\ k.targets = t /\ k.captured = j.captured /\ k.at = w
       /\ k.rest = r
  BY <1>1, <1>2, <1>4, <1>7, <1>8, <1>9 DEF LiveJob
<1>12. job' = [job EXCEPT ![n] = k] /\ UNCHANGED peer
  <2>1. /\ job' = [job EXCEPT ![n] = [j EXCEPT !.targets = t, !.at = w, !.dirty = FALSE, !.rest = r]]
        /\ UNCHANGED peer
    BY <1>2, <1>4, <1>5 DEF Gate!castSocket, Gate!isBarred
  <2>2. [j EXCEPT !.targets = t, !.at = w, !.dirty = FALSE, !.rest = r] = k
    BY <1>2, <1>7, <1>8 DEF LiveJob
  <2> QED  BY <2>1, <2>2
<1>13. ASSUME NEW v \in TwoSockets  PROVE ListInStep(v)'
  BY <1>3, <1>12 DEF GateState, ListInStep
<1>14. ASSUME NEW v \in TwoSockets, NEW o \in ThreeIds  PROVE InStep(k, v, o)'
  <2>1. InStep(j, v, o)  BY <1>3 DEF GateState
  <2>2. CASE v = w
    <3>1. peer[w].state = "open" /\ client[w][o].st = "live" => o \in r
      BY <1>4, <1>5, <2>1, <2>2 DEF InStep, Listed, Gate!reads
    <3> QED  BY <1>1, <1>11, <1>12, <2>1, <2>2, <3>1 DEF InStep, Listed, Asks, Due
  <2>3. CASE v # w
    <3>1. v # j.at  BY <1>1, NoListenerIsNoSocket
    <3> QED  BY <1>1, <1>5, <1>11, <1>12, <2>1, <2>3, <3>1 DEF InStep, Listed, Asks, Due
  <2> QED  BY <2>2, <2>3
<1>15. JobInTurn(k)'  BY <1>1, <1>3, <1>4, <1>5, <1>11, <1>12 DEF GateState, JobInTurn
<1>16. GateState(k)'  BY <1>13, <1>14, <1>15 DEF GateState
<1>17. /\ data' \in [{"a"} -> Nat] /\ peer' \in [TwoSockets -> Peer(ThreeIds)]
       /\ sub' \in [TwoSockets -> [ThreeIds -> Subscription]]
       /\ client' \in [TwoSockets -> [ThreeIds -> Ask]] /\ arrived' \in Nat
  BY <1>1, <1>2, <1>12 DEF LiveTyped
<1> QED  BY <1>1, <1>3, <1>10, <1>12, <1>16, <1>17, GateMoves

(* A subscription is re-run: its result is pushed, or has not changed.     *)
LEMMA GateReruns ==
  ASSUME NEW n \in Gate!Jobs, GateInv, NEW i \in ThreeIds, Gate!rerun(n, i)
  PROVE  GateInv'
<1> PICK j, w : j = job[n] /\ w = job[n].at  OBVIOUS
<1> PICK val : val = Gate!result(i)  OBVIOUS
<1> PICK r : r = j.rest \ {i}  OBVIOUS
<1> PICK h : h = [j EXCEPT !.rest = r]  OBVIOUS
<1>1. /\ j.pc = "run" /\ w # NoListener /\ i \in j.rest
      /\ Gate!push(n, i, val, h) /\ UNCHANGED <<data, peer, lapsed, arrived>>
  BY DEF Gate!rerun, Gate!atSocket
<1>2. LiveTyped(ThreeIds) /\ j \in LiveJob(ThreeIds) /\ arrived \in Nat  BY DEF GateInv
<1>3. GateState(j) /\ \A m \in Gate!Jobs \ {n} : Resting(job[m])
  BY <1>1, GateHasOne DEF Resting
<1>4. w \in TwoSockets /\ val = <<data["a"]>> /\ val \in Results
  BY <1>1, <1>2, GateEvaluates DEF LiveJob, SocketOrNone
<1>5. /\ h \in LiveJob(ThreeIds) /\ h.pc = "run" /\ h.barred = j.barred /\ h.targets = j.targets
      /\ h.captured = j.captured /\ h.at = j.at /\ h.rest = r
  BY <1>1, <1>2 DEF LiveJob
<1>6. ASSUME NEW v \in TwoSockets, NEW o \in ThreeIds  PROVE InStep(j, v, o)
  BY <1>3 DEF GateState
<1>7. ASSUME NEW v \in TwoSockets  PROVE ListInStep(v)'
  BY <1>1, <1>3 DEF GateState, ListInStep
<1>8. /\ data' \in [{"a"} -> Nat] /\ peer' \in [TwoSockets -> Peer(ThreeIds)] /\ arrived' \in Nat
  BY <1>1, <1>2 DEF LiveTyped
<1>9. CASE val = sub[w][i].digest
  <2>1. job' = [job EXCEPT ![n] = h] /\ UNCHANGED <<sub, client>>  BY <1>1, <1>9 DEF Gate!push
  <2>2. ASSUME NEW v \in TwoSockets, NEW o \in ThreeIds  PROVE InStep(h, v, o)'
    BY <1>1, <1>4, <1>5, <1>6, <1>9, <2>1 DEF InStep, Listed, Asks, Due
  <2>3. JobInTurn(h)'  BY <1>1, <1>3, <1>5 DEF GateState, JobInTurn
  <2>4. GateState(h)'  BY <1>7, <2>2, <2>3 DEF GateState
  <2>5. /\ sub' \in [TwoSockets -> [ThreeIds -> Subscription]]
        /\ client' \in [TwoSockets -> [ThreeIds -> Ask]]
    BY <1>2, <2>1 DEF LiveTyped
  <2> QED  BY <1>1, <1>3, <1>5, <1>8, <2>1, <2>4, <2>5, GateMoves
<1>10. CASE val # sub[w][i].digest
  <2>1. PICK k : k = [h EXCEPT !.dirty = TRUE]  OBVIOUS
  <2>2. /\ k \in LiveJob(ThreeIds) /\ k.pc = "run" /\ k.barred = j.barred /\ k.targets = j.targets
        /\ k.captured = j.captured /\ k.at = j.at /\ k.rest = r
    <3>1. /\ k \in LiveJob(ThreeIds) /\ k.pc = h.pc /\ k.barred = h.barred
          /\ k.targets = h.targets /\ k.captured = h.captured /\ k.at = h.at /\ k.rest = h.rest
      <4>1. h \in LiveJob(ThreeIds)  BY <1>5
      <4> QED  BY <2>1, <4>1 DEF LiveJob
    <3> QED  BY <1>5, <3>1
  <2>3. PICK q : q = [sub[w][i] EXCEPT !.digest = val]  OBVIOUS
  <2>4. q \in Subscription /\ q.digest = val /\ q.tables = sub[w][i].tables
    <3>1. sub[w][i] \in Subscription  BY <1>2, <1>4 DEF LiveTyped
    <3> QED  BY <1>4, <2>3, <3>1 DEF Subscription
  <2>5. job' = [job EXCEPT ![n] = k] /\ GateSends(w, i, q)
    <3>1. /\ job' = [job EXCEPT ![n] = k]
          /\ sub' = [sub EXCEPT ![w][i].digest = val]
          /\ client' = Gate!received(w, i, val)
      BY <1>1, <1>10, <2>1 DEF Gate!push
    <3>2. [sub EXCEPT ![w][i].digest = val] = [sub EXCEPT ![w][i] = q]  BY <2>3
    <3> QED  BY <2>4, <3>1, <3>2 DEF GateSends
  <2>6. /\ sub' \in [TwoSockets -> [ThreeIds -> Subscription]] /\ sub'[w][i] = q
        /\ client' \in [TwoSockets -> [ThreeIds -> Ask]]
        /\ IF peer[w].state = "open" /\ client[w][i].st \in {"waiting", "live"}
             THEN client'[w][i].st = "live" /\ client'[w][i].val = q.digest
             ELSE client'[w][i] = client[w][i]
        /\ \A v \in TwoSockets, o \in ThreeIds :
             v # w \/ o # i => sub'[v][o] = sub[v][o] /\ client'[v][o] = client[v][o]
    BY <1>2, <1>4, <2>4, <2>5, GateSent
  <2>7. ASSUME NEW v \in TwoSockets, NEW o \in ThreeIds  PROVE InStep(k, v, o)'
    <3>1. CASE v = w /\ o = i
      <4>1. peer[w].state = "open" => client[w][i].st # "waiting"
        BY <1>1, <1>4, <1>6 DEF InStep, Asks
      <4>2. InStep(j, w, i)  BY <1>4, <1>6
      <4>3. /\ client'[w][i].st = client[w][i].st
            /\ client'[w][i].st = "live" /\ peer[w].state = "open" =>
                 client'[w][i].val = <<data["a"]>> /\ q.digest = <<data["a"]>>
        BY <1>4, <2>4, <2>6, <4>1
      <4>4. sub'[w][i] = q /\ UNCHANGED <<data, peer>>  BY <1>1, <2>6
      <4>5. ~Asks(j, "subscribe", w, i) /\ ~Asks(j, "unsubscribe", w, i)
            /\ ~Asks(k, "subscribe", w, i) /\ ~Asks(k, "unsubscribe", w, i)
        BY <1>1, <2>2 DEF Asks
      <4> QED
        BY <2>4, <3>1, <4>2, <4>3, <4>4, <4>5 DEF InStep, Listed
    <3>2. CASE v # w \/ o # i
      BY <1>1, <1>6, <2>2, <2>6, <3>2 DEF InStep, Listed, Asks, Due
    <3> QED  BY <3>1, <3>2
  <2>8. JobInTurn(k)'  BY <1>1, <1>3, <2>2 DEF GateState, JobInTurn
  <2>9. GateState(k)'  BY <1>7, <2>7, <2>8 DEF GateState
  <2> QED  BY <1>1, <1>3, <1>8, <2>2, <2>5, <2>6, <2>9, GateMoves
<1> QED  BY <1>9, <1>10

(* A socket's broadcast is done: the list put back is the one it has.      *)
LEMMA GateLeavesSocket ==
  ASSUME NEW n \in Gate!Jobs, GateInv, Gate!socketDone(n)
  PROVE  GateInv'
<1> PICK j, w : j = job[n] /\ w = job[n].at  OBVIOUS
<1>1. /\ j.pc = "run" /\ w # NoListener /\ j.rest = {}
      /\ UNCHANGED <<data, sub, client, lapsed, arrived>>
  BY DEF Gate!socketDone, Gate!atSocket
<1>2. /\ LiveTyped(ThreeIds) /\ j \in LiveJob(ThreeIds) /\ job \in [Gate!Jobs -> LiveJob(ThreeIds)]
      /\ arrived \in Nat
  BY DEF GateInv
<1>3. GateState(j) /\ \A m \in Gate!Jobs \ {n} : Resting(job[m])
  BY <1>1, GateHasOne DEF Resting
<1>4. w \in TwoSockets /\ j.captured[w] = peer[w].ids /\ peer[w].known /\ j.barred = {}
  BY <1>1, <1>2, <1>3 DEF LiveJob, SocketOrNone, GateState, JobInTurn
<1>5. PICK u : u = peer[w].ids  OBVIOUS
<1>6. u \in SUBSET ThreeIds  BY <1>2, <1>4, <1>5 DEF LiveTyped, Peer
<1>7. /\ peer' \in [TwoSockets -> Peer(ThreeIds)]
      /\ \A v \in TwoSockets :
           peer'[v].state = peer[v].state /\ peer'[v].known = peer[v].known
           /\ peer'[v].ids = peer[v].ids
      /\ \A v \in TwoSockets : v # w => peer'[v] = peer[v]
      /\ peer'[w].subscribed = peer[w].subscribed \/ (peer'[w].subscribed <=> u # {})
  <2>1. CASE j.dirty
    <3>1. peer' = Gate!setSubs(peer, w, u)  BY <1>4, <1>5, <2>1 DEF Gate!socketDone
    <3>2. /\ peer' \in [TwoSockets -> Peer(ThreeIds)]
          /\ peer'[w].state = peer[w].state /\ peer'[w].known /\ peer'[w].ids = u
          /\ peer'[w].subscribed <=> u # {}
          /\ \A v \in TwoSockets : v # w => peer'[v] = peer[v]
      BY <1>2, <1>4, <1>6, <3>1, GateSetsSubs DEF LiveTyped
    <3>3. peer'[w].known = peer[w].known
      <4>1. peer'[w].known \in BOOLEAN /\ peer[w].known \in BOOLEAN
        BY <1>2, <1>4, <3>2 DEF LiveTyped, Peer
      <4> QED  BY <1>4, <3>2, <4>1
    <3> QED  BY <1>5, <3>2, <3>3
  <2>2. CASE ~j.dirty  BY <1>2, <2>2 DEF Gate!socketDone, LiveTyped
  <2> QED  BY <2>1, <2>2
<1>8. PICK k : k = [j EXCEPT !.at = NoListener, !.dirty = FALSE]  OBVIOUS
<1>9. job' = [job EXCEPT ![n] = k]  BY <1>2, <1>8 DEF Gate!socketDone, LiveJob
<1>10. /\ k \in LiveJob(ThreeIds) /\ k.pc = "run" /\ k.barred = {} /\ k.targets = j.targets
       /\ k.captured = j.captured /\ k.at = NoListener
  BY <1>1, <1>2, <1>4, <1>8 DEF LiveJob, SocketOrNone
<1>11. ASSUME NEW v \in TwoSockets  PROVE ListInStep(v)'
  <2>1. ListInStep(v)  BY <1>3 DEF GateState
  <2>2. CASE v = w  BY <1>4, <1>5, <1>7, <2>1, <2>2 DEF ListInStep
  <2>3. CASE v # w  BY <1>7, <2>1, <2>3 DEF ListInStep
  <2> QED  BY <2>2, <2>3
<1>12. ASSUME NEW v \in TwoSockets, NEW o \in ThreeIds  PROVE InStep(k, v, o)'
  <2>1. InStep(j, v, o)  BY <1>3 DEF GateState
  <2>2. CASE v = w
    BY <1>1, <1>4, <1>7, <1>10, <2>1, <2>2 DEF InStep, Listed, Asks, Due
  <2>3. CASE v # w
    BY <1>1, <1>7, <1>10, <2>1, <2>3 DEF InStep, Listed, Asks, Due
  <2> QED  BY <2>2, <2>3
<1>13. JobInTurn(k)'
  <2>1. ASSUME NEW v \in TwoSockets, v \in k.targets \/ v = k.at
        PROVE  k.captured[v] = peer'[v].ids /\ peer'[v].known
    <3>1. v \in j.targets  BY <1>10, <2>1, NoListenerIsNoSocket
    <3>2. j.captured[v] = peer[v].ids /\ peer[v].known
      BY <1>1, <1>3, <3>1 DEF GateState, JobInTurn
    <3> QED  BY <1>7, <1>10, <3>2
  <2> QED  BY <1>10, <2>1 DEF JobInTurn
<1>14. GateState(k)'  BY <1>11, <1>12, <1>13 DEF GateState
<1>15. /\ data' \in [{"a"} -> Nat] /\ arrived' \in Nat
       /\ sub' \in [TwoSockets -> [ThreeIds -> Subscription]]
       /\ client' \in [TwoSockets -> [ThreeIds -> Ask]]
  BY <1>1, <1>2 DEF LiveTyped
<1> QED  BY <1>1, <1>3, <1>7, <1>9, <1>10, <1>14, <1>15, GateMoves

LEMMA GateEndsCast ==
  ASSUME NEW n \in Gate!Jobs, GateInv, Gate!castOver(n)
  PROVE  GateInv'
<1> PICK j : j = job[n]  OBVIOUS
<1> PICK k : k = [Gate!idleJob EXCEPT !.pc = "done"]  OBVIOUS
<1>1. /\ j.pc = "run" /\ j.at = NoListener /\ j.targets = {} /\ Gate!finished(n)
      /\ UNCHANGED <<data, peer, sub, client, lapsed, arrived>>
  BY DEF Gate!castOver, Gate!betweenSockets, Gate!finished
<1>2. GateState(j) /\ ~Resting(j)  BY <1>1, GateHasOne DEF Resting
<1>3. Resting(k) /\ k.pc = "done"  BY GateIdles DEF Resting
<1>4. ASSUME NEW w \in TwoSockets, NEW o \in ThreeIds  PROVE InStep(k, w, o)'
  <2>1. InStep(j, w, o) /\ w # j.at  BY <1>1, <1>2, NoListenerIsNoSocket DEF GateState
  <2> QED  BY <1>1, <1>3, <2>1 DEF InStep, Listed, Asks, Due
<1>5. ASSUME NEW w \in TwoSockets  PROVE ListInStep(w)'
  BY <1>1, <1>2 DEF GateState, ListInStep
<1>6. GateState(k)'  BY <1>3, <1>4, <1>5 DEF GateState, JobInTurn
<1>7. LiveTyped(ThreeIds)  BY DEF GateInv
<1> QED  BY <1>1, <1>2, <1>3, <1>6, <1>7, GateFinishes DEF LiveTyped

LEMMA GateCasts ==
  ASSUME NEW n \in Gate!Jobs, GateInv, Gate!castStep(n)
  PROVE  GateInv'
<1>1. job[n].pc \in {"none", "queued", "run", "done"}
  BY GateHasOne DEF GateState, JobInTurn, Resting
<1>2. \/ \E w \in TwoSockets : Gate!castSocket(n, w)
      \/ \E i \in ThreeIds : Gate!rerun(n, i)
      \/ Gate!socketDone(n)
      \/ Gate!castOver(n)
  BY <1>1 DEF Gate!castStep, Gate!castLooked, Gate!reran, TwoSockets, ThreeIds
<1> QED  BY <1>2, GateReaches, GateReruns, GateLeavesSocket, GateEndsCast

(* Sockets open and close, the object sleeps, while nothing is under way.  *)
LEMMA GateConnects ==
  ASSUME GateInv, Gate!gateOpen, UNCHANGED <<data, sub, client, job, arrived>>,
         lapsed' \in [TwoSockets -> {"no", "expired", "revoked"}],
         peer' \in [TwoSockets -> Peer(ThreeIds)],
         \A w \in TwoSockets :
           \/ peer'[w] = peer[w]
           \/ peer'[w].state = "closed"
           \/ /\ peer[w].state = "new" /\ peer'[w].state = "open"
              /\ peer'[w].known /\ peer'[w].ids = peer[w].ids
              /\ peer'[w].subscribed = peer[w].subscribed
           \/ /\ peer'[w].state = peer[w].state /\ ~peer'[w].known /\ peer'[w].ids = {}
              /\ peer'[w].subscribed = peer[w].subscribed
  PROVE  GateInv'
<1>1. PICK n \in Gate!Jobs : (\A m \in Gate!Jobs : Resting(job[m])) /\ GateState(job[n])
  BY GateIsQuiet
<1>2. PICK j : j = job[n]  OBVIOUS
<1>3. Resting(j) /\ GateState(j)  BY <1>1, <1>2
<1>4. ASSUME NEW w \in TwoSockets  PROVE ListInStep(w)'
  <2>1. ListInStep(w)  BY <1>3 DEF GateState
  <2> QED  BY <2>1 DEF ListInStep
<1>5. ASSUME NEW w \in TwoSockets, NEW i \in ThreeIds  PROVE InStep(j, w, i)'
  <2>1. InStep(j, w, i) /\ ListInStep(w)  BY <1>3 DEF GateState
  <2>2. CASE peer'[w] = peer[w]  BY <1>3, <2>1, <2>2 DEF Resting, InStep, Listed, Asks, Due
  <2>3. CASE peer'[w].state = "closed"  BY <2>3 DEF InStep
  <2>4. CASE /\ peer[w].state = "new" /\ peer'[w].state = "open"
             /\ peer'[w].known /\ peer'[w].ids = peer[w].ids
    BY <1>3, <2>1, <2>4 DEF ListInStep, Resting, InStep, Listed, Asks, Due
  <2>5. CASE /\ peer'[w].state = peer[w].state /\ ~peer'[w].known /\ peer'[w].ids = {}
             /\ peer'[w].subscribed = peer[w].subscribed
    BY <1>3, <2>1, <2>5 DEF ListInStep, Resting, InStep, Listed, Asks, Due
  <2> QED  BY <2>2, <2>3, <2>4, <2>5
<1>6. GateState(j)'  BY <1>3, <1>4, <1>5 DEF GateState, JobInTurn, Resting
<1>7. job'[n] = j /\ job' = job  BY <1>2
<1>8. JobInTurn(job[n])'  BY <1>3, <1>7 DEF JobInTurn, Resting
<1>9. \A w \in TwoSockets, i \in ThreeIds : InStep(job[n], w, i)'
  BY <1>5, <1>7 DEF InStep, Listed, Asks, Due
<1>10. GateState(job[n])'  BY <1>4, <1>8, <1>9 DEF GateState
<1>11. \A m \in Gate!Jobs \ {n} : Resting(job[m])'  BY <1>1, <1>7 DEF Resting
<1>12. OneAtATime'  BY <1>10, <1>11 DEF OneAtATime
<1>13. LiveTyped(ThreeIds)'  BY DEF GateInv, LiveTyped
<1> QED  BY <1>7, <1>12, <1>13 DEF GateInv

LEMMA GateOutside ==
  ASSUME GateInv, NEW w \in TwoSockets,
         Gate!upgrade(w) \/ Gate!webSocketClose(w) \/ Gate!lapse(w) \/ Gate!hibernate
  PROVE  GateInv'
<1>1. /\ peer \in [TwoSockets -> Peer(ThreeIds)] /\ peer[w] \in Peer(ThreeIds)
      /\ lapsed \in [TwoSockets -> {"no", "expired", "revoked"}]
  BY DEF GateInv, LiveTyped
<1>2. UNCHANGED <<data, sub, client, job, arrived>>
  BY DEF Gate!upgrade, Gate!webSocketClose, Gate!lapse, Gate!hibernate
<1>3. CASE Gate!upgrade(w)
  <2>1. PICK r : r = [peer[w] EXCEPT !.state = "open", !.known = TRUE]  OBVIOUS
  <2>2. /\ r \in Peer(ThreeIds) /\ r.state = "open" /\ r.known
        /\ r.ids = peer[w].ids /\ r.subscribed = peer[w].subscribed
    BY <1>1, <2>1 DEF Peer
  <2>3. peer' = [peer EXCEPT ![w] = r] /\ peer[w].state = "new" /\ UNCHANGED lapsed
    BY <1>1, <1>3, <2>1 DEF Gate!upgrade, Peer
  <2>4. /\ peer' \in [TwoSockets -> Peer(ThreeIds)] /\ peer'[w] = r
        /\ \A v \in TwoSockets : v # w => peer'[v] = peer[v]
    BY <1>1, <2>2, <2>3
  <2>5. Gate!gateOpen /\ lapsed' \in [TwoSockets -> {"no", "expired", "revoked"}]
    BY <1>1, <1>3, <2>3 DEF Gate!upgrade
  <2> QED  BY <1>2, <2>2, <2>3, <2>4, <2>5, GateConnects
<1>4. CASE Gate!webSocketClose(w)
  <2>1. PICK r : r = [peer[w] EXCEPT !.known = FALSE, !.ids = {}, !.state = "closed"]  OBVIOUS
  <2>2. r \in Peer(ThreeIds) /\ r.state = "closed"  BY <1>1, <2>1 DEF Peer
  <2>3. peer' = [peer EXCEPT ![w] = r] /\ UNCHANGED lapsed
    BY <1>1, <1>4, <2>1 DEF Gate!webSocketClose, Gate!forget, Peer
  <2>4. /\ peer' \in [TwoSockets -> Peer(ThreeIds)] /\ peer'[w] = r
        /\ \A v \in TwoSockets : v # w => peer'[v] = peer[v]
    BY <1>1, <2>2, <2>3
  <2>5. Gate!gateOpen /\ lapsed' \in [TwoSockets -> {"no", "expired", "revoked"}]
    BY <1>1, <1>4, <2>3 DEF Gate!webSocketClose
  <2> QED  BY <1>2, <2>2, <2>4, <2>5, GateConnects
<1>5. CASE Gate!lapse(w)
  <2>1. Gate!gateOpen /\ UNCHANGED peer  BY <1>5 DEF Gate!lapse
  <2>2. lapsed' \in [TwoSockets -> {"no", "expired", "revoked"}]
    BY <1>1, <1>5 DEF Gate!lapse
  <2> QED  BY <1>1, <1>2, <2>1, <2>2, GateConnects
<1>6. CASE Gate!hibernate
  <2>1. Gate!gateOpen
    BY <1>6 DEF Gate!hibernate, Gate!quiet, Gate!over, Gate!gateOpen, Gate!free, Gate!canStart
  <2>2. /\ peer' = [v \in TwoSockets |-> [peer[v] EXCEPT !.known = FALSE, !.ids = {}]]
        /\ UNCHANGED lapsed
    BY <1>6 DEF Gate!hibernate, TwoSockets
  <2>3. ASSUME NEW v \in TwoSockets
        PROVE  /\ peer'[v] \in Peer(ThreeIds) /\ peer'[v].state = peer[v].state
               /\ ~peer'[v].known /\ peer'[v].ids = {}
               /\ peer'[v].subscribed = peer[v].subscribed
    <3>1. PICK r : r = [peer[v] EXCEPT !.known = FALSE, !.ids = {}]  OBVIOUS
    <3>2. peer[v] \in Peer(ThreeIds) /\ peer'[v] = r  BY <1>1, <2>2, <3>1
    <3> QED  BY <3>1, <3>2 DEF Peer
  <2>4. peer' \in [TwoSockets -> Peer(ThreeIds)]  BY <2>2, <2>3
  <2>5. lapsed' \in [TwoSockets -> {"no", "expired", "revoked"}]  BY <1>1, <2>2
  <2> QED  BY <1>2, <2>1, <2>3, <2>4, <2>5, GateConnects
<1> QED  BY <1>3, <1>4, <1>5, <1>6

LEMMA GateStep == GateInv /\ Gate!Next => GateInv'
<1> SUFFICES ASSUME GateInv, Gate!Next  PROVE GateInv'
  OBVIOUS
<1>1. CASE \E w \in TwoSockets :
             Gate!upgrade(w) \/ Gate!webSocketClose(w) \/ Gate!lapse(w) \/ Gate!hibernate
  BY <1>1, GateOutside
<1>2. CASE \E w \in TwoSockets : Gate!sendCall(w, "a") \/ Gate!writeElsewhere("a")
  BY <1>2, GateTakesWrite
<1>3. CASE \E w \in TwoSockets, i \in ThreeIds : Gate!sendSubscribe(w, i) \/ Gate!sendUnsubscribe(w, i)
  BY <1>3, GateAsks
<1>4. CASE \E n \in Gate!Jobs : Gate!fetchRpc(n)  BY <1>4, GateElsewhere
<1>5. CASE \E n \in Gate!Jobs : Gate!frameStep(n)  BY <1>5, GateFrames
<1>6. CASE \E n \in Gate!Jobs : Gate!castStep(n)  BY <1>6, GateCasts
<1> QED
  BY <1>1, <1>2, <1>3, <1>4, <1>5, <1>6 DEF Gate!Next, TwoSockets, ThreeIds

(* With nothing under way, the lists are what the clients hold and what    *)
(* they hold is current.                                                   *)
LEMMA GateServes == ASSUME GateInv PROVE Gate!HeldIsKnown /\ Gate!FreshWhenQuiet
<1> SUFFICES ASSUME Gate!quiet  PROVE Gate!HeldIsKnown /\ Gate!FreshWhenQuiet
  BY DEF Gate!HeldIsKnown, Gate!FreshWhenQuiet
<1>1. Gate!gateOpen
  BY DEF Gate!quiet, Gate!over, Gate!gateOpen, Gate!free, Gate!canStart
<1>2. PICK n \in Gate!Jobs : Resting(job[n]) /\ GateState(job[n])  BY <1>1, GateIsQuiet
<1>3. ASSUME NEW w \in TwoSockets, NEW i \in ThreeIds, peer[w].state = "open"
      PROVE  /\ peer[w].known => (i \in peer[w].ids <=> client[w][i].st \in {"waiting", "live"})
             /\ ~peer[w].known /\ client[w][i].st \in {"waiting", "live"} => peer[w].subscribed
             /\ client[w][i].st = "live" => client[w][i].val = <<data["a"]>>
  <2>1. InStep(job[n], w, i)  BY <1>2 DEF GateState
  <2> QED  BY <1>2, <1>3, <2>1 DEF Resting, InStep, Listed, Asks, Due
<1>4. LiveTyped(ThreeIds)  BY DEF GateInv
<1>5. Gate!FreshWhenQuiet
  <2>1. \A i \in ThreeIds : Gate!result(i) = <<data["a"]>>  BY <1>4, GateEvaluates
  <2> QED  BY <1>3, <2>1 DEF Gate!FreshWhenQuiet, Gate!open, TwoSockets, ThreeIds
<1>6. Gate!HeldIsKnown
  <2>1. ASSUME NEW w \in TwoSockets, peer[w].state = "open", peer[w].known
        PROVE  peer[w].ids = Gate!held(w)
    <3>1. peer[w].ids \subseteq ThreeIds  BY <1>4 DEF LiveTyped, Peer
    <3>2. Gate!held(w) = {i \in ThreeIds : client[w][i].st \in {"waiting", "live"}}
      BY DEF Gate!held, ThreeIds
    <3> QED  BY <1>3, <2>1, <3>1, <3>2
  <2>2. ASSUME NEW w \in TwoSockets, peer[w].state = "open", ~peer[w].known, Gate!held(w) # {}
        PROVE  peer[w].subscribed
    BY <1>3, <2>2 DEF Gate!held, ThreeIds
  <2> QED  BY <2>1, <2>2 DEF Gate!HeldIsKnown, Gate!open, TwoSockets
<1> QED  BY <1>5, <1>6

LEMMA GateInit == Gate!Init => GateInv
<1> SUFFICES ASSUME Gate!Init  PROVE GateInv
  OBVIOUS
<1> PICK j : j = Gate!idleJob  OBVIOUS
<1> PICK p : p = [state |-> "new", subscribed |-> FALSE, known |-> FALSE, ids |-> {}]  OBVIOUS
<1> PICK q : q = [tables |-> {}, digest |-> <<>>]  OBVIOUS
<1> PICK a : a = [st |-> "unasked", val |-> <<>>]  OBVIOUS
<1>1. j \in LiveJob(ThreeIds) /\ j.pc = "none"  BY GateIdles DEF Gate!idleJob
<1>2. /\ p \in Peer(ThreeIds) /\ p.state = "new" /\ p.ids = {} /\ ~p.subscribed  BY DEF Peer
<1>3. q \in Subscription /\ a \in Ask /\ a.st = "unasked"  BY DEF Subscription, Ask, Results
<1>4. /\ data = [t \in {"a"} |-> 0]
      /\ peer = [w \in TwoSockets |-> p]
      /\ sub = [w \in TwoSockets |-> [i \in ThreeIds |-> q]]
      /\ client = [w \in TwoSockets |-> [i \in ThreeIds |-> a]]
      /\ lapsed = [w \in TwoSockets |-> "no"]
      /\ job = [n \in Gate!Jobs |-> j]
      /\ arrived = 0
  BY DEF Gate!Init, Gate!newSocket, Gate!noSub, Gate!unasked, TwoSockets, ThreeIds
<1>5. LiveTyped(ThreeIds)  BY <1>2, <1>3, <1>4 DEF LiveTyped
<1>6. job \in [Gate!Jobs -> LiveJob(ThreeIds)] /\ arrived \in Nat  BY <1>1, <1>4
<1>7. \A n \in Gate!Jobs : Resting(job[n]) /\ JobInTurn(job[n])
  BY <1>1, <1>4 DEF Resting, JobInTurn
<1>8. \A w \in TwoSockets : ListInStep(w)  BY <1>2, <1>4 DEF ListInStep
<1>9. \A n \in Gate!Jobs, w \in TwoSockets, i \in ThreeIds : InStep(job[n], w, i)
  BY <1>2, <1>3, <1>4 DEF InStep
<1>10. 1 \in Gate!Jobs  BY DEF Gate!Jobs
<1>11. GateState(job[1])  BY <1>7, <1>8, <1>9, <1>10 DEF GateState
<1>12. OneAtATime  BY <1>7, <1>10, <1>11 DEF OneAtATime
<1> QED  BY <1>5, <1>6, <1>12 DEF GateInv

LEMMA AwaitsInit == Awaits!Init => AwaitsInv
<1> SUFFICES ASSUME Awaits!Init  PROVE AwaitsInv
  OBVIOUS
<1> PICK j : j = Awaits!idleJob  OBVIOUS
<1> PICK p : p = [state |-> "new", subscribed |-> FALSE, known |-> FALSE, ids |-> {}]  OBVIOUS
<1> PICK q : q = [tables |-> {}, digest |-> <<>>]  OBVIOUS
<1> PICK a : a = [st |-> "unasked", val |-> <<>>]  OBVIOUS
<1>1. j \in LiveJob(TwoIds) /\ JobSound(j) /\ j.late = {}
  BY IdleIsSound DEF Awaits!idleJob, Awaits!noSub, TwoSockets
<1>2. p \in Peer(TwoIds) /\ p.state = "new"  BY DEF Peer
<1>3. q \in Subscription /\ a \in Ask /\ a.st = "unasked"  BY DEF Subscription, Ask, Results
<1>4. /\ data = [t \in {"a"} |-> 0]
      /\ peer = [w \in TwoSockets |-> p]
      /\ sub = [w \in TwoSockets |-> [i \in TwoIds |-> q]]
      /\ client = [w \in TwoSockets |-> [i \in TwoIds |-> a]]
      /\ lapsed = [w \in TwoSockets |-> "no"]
      /\ job = [n \in Awaits!Jobs |-> j]
  BY DEF Awaits!Init, Awaits!newSocket, Awaits!noSub, Awaits!unasked, TwoSockets, TwoIds
<1>5. LiveTyped(TwoIds)  BY <1>2, <1>3, <1>4 DEF LiveTyped
<1>6. JobsSound(TwoIds, Awaits!Jobs)  BY <1>1, <1>4 DEF JobsSound
<1>7. NewIsUnasked(TwoIds) /\ DigestIsLast(TwoIds)
  BY <1>2, <1>3, <1>4 DEF NewIsUnasked, DigestIsLast
<1> QED  BY <1>5, <1>6, <1>7 DEF AwaitsInv

LEMMA LiveStays ==
  /\ GateInv /\ UNCHANGED liveVars => GateInv'
  /\ AwaitsInv /\ UNCHANGED liveVars => AwaitsInv' /\ ~Awaits!DataAfterLapse
<1>1. ASSUME GateInv, UNCHANGED liveVars  PROVE GateInv'
  BY <1>1
  DEF liveVars, GateInv, LiveTyped, OneAtATime, GateState, JobInTurn, ListInStep, InStep,
      Listed, Asks, Due, Resting
<1>2. ASSUME AwaitsInv, UNCHANGED liveVars  PROVE AwaitsInv' /\ ~Awaits!DataAfterLapse
  BY <1>2, NothingSent
  DEF liveVars, AwaitsInv, LiveTyped, JobsSound, NewIsUnasked, DigestIsLast
<1> QED  BY <1>1, <1>2

LEMMA AwaitsDigests == ASSUME AwaitsInv PROVE Awaits!DigestIsLastSent
BY DEF AwaitsInv, DigestIsLast, Awaits!DigestIsLastSent, Awaits!open, TwoSockets, TwoIds

----------------------------------------------------------------------------
(***************************************************************************)
(* The components side by side.                                            *)
(***************************************************************************)

(* A step of the app is a step of one component, or of none.               *)
LEMMA AppStep ==
  ASSUME [AppNext]_appVars
  PROVE  /\ part' = part
         /\ [Alarm!Next]_alarmVars
         /\ [Next]_vars
         /\ [Wire!Next]_wireVars
         /\ [Canvas!Next]_canvasVars
         /\ [Screen!Next]_screenVars
         /\ [part = "schema" /\ Schema!Next]_schemaVars
         /\ [(part = "gate" /\ Gate!Next) \/ (part = "awaits" /\ Awaits!Next)]_liveVars
<1>1. CASE inAlarm /\ Alarm!Next
  BY <1>1 DEF inAlarm
<1>2. CASE inBoot /\ Next
  BY <1>2 DEF inBoot
<1>3. CASE inWire /\ Wire!Next
  BY <1>3 DEF inWire
<1>4. CASE inLive /\ ((part = "gate" /\ Gate!Next) \/ (part = "awaits" /\ Awaits!Next))
  BY <1>4 DEF inLive
<1>5. CASE inCanvas /\ Canvas!Next
  BY <1>5 DEF inCanvas
<1>6. CASE inScreen /\ Screen!Next
  BY <1>6 DEF inScreen
<1>7. CASE inSchema /\ Schema!Next
  BY <1>7 DEF inSchema
<1>8. CASE UNCHANGED appVars
  BY <1>8 DEF appVars
<1> QED  BY <1>1, <1>2, <1>3, <1>4, <1>5, <1>6, <1>7, <1>8 DEF AppNext

(***************************************************************************)
(* No request goes on before a boot of its isolate has completed, whatever *)
(* else the app does.                                                      *)
(***************************************************************************)
THEOREM RequestsWaitForABoot == AppSpec => []ServedMeansBooted
<1>1. AppInit => BootInv  BY BootInit DEF AppInit
<1>2. BootInv /\ [AppNext]_appVars => BootInv'  BY AppStep, BootStep
<1>3. BootInv => ServedMeansBooted  BY DEF BootInv
<1> QED  BY <1>1, <1>2, <1>3, PTL DEF AppSpec

(***************************************************************************)
(* The frames a socket carried are the subscriptions its holder has, and   *)
(* whoever has a subscription is connected, connecting, waiting for a      *)
(* retry or told: client.ts, over every order of answers, drops, retries,  *)
(* token changes and calls.                                                *)
(***************************************************************************)
THEOREM ClientsHoldTheirConnection == AppSpec => []ConnectionIsHeld
<1>1. AppInit => WireInv  BY WireInit DEF AppInit
<1>2. WireInv /\ [AppNext]_appVars => WireInv'  BY AppStep, WireStep
<1>3. WireInv => ConnectionIsHeld  BY DEF WireInv, ConnectionIsHeld
<1> QED  BY <1>1, <1>2, <1>3, PTL DEF AppSpec

(***************************************************************************)
(* A canvas at rest shows what is stored, an approval is of what its       *)
(* approver was shown, and no form saves one page's content onto another.  *)
(***************************************************************************)
THEOREM EditorsSeeWhatIsStored == AppSpec => []CanvasIsTrue
<1>1. AppInit => CanvasInv /\ ScreenInv  BY CanvasInit, ScreenInit DEF AppInit
<1>2. CanvasInv /\ ScreenInv /\ [AppNext]_appVars => CanvasInv' /\ ScreenInv'
  BY AppStep, CanvasStep, ScreenStep
<1>3. CanvasInv /\ ScreenInv => CanvasIsTrue
  BY CanvasIsQuiet DEF CanvasIsTrue, CanvasInv, ScreenInv, ServerOwned
<1> QED  BY <1>1, <1>2, <1>3, PTL DEF AppSpec

(***************************************************************************)
(* A migration loses no stored value that its deploy did not allow, in     *)
(* whichever statement it stops, and records a schema only when nothing of *)
(* it was skipped.                                                         *)
(***************************************************************************)
THEOREM MigrationsLoseNothing == AppSpec => MigrationIsSafe
<1> DEFINE SI == part = "schema" => SchemaInv
<1>1. AppInit => SI  BY SchemaInit DEF AppInit
<1>2. SI /\ [AppNext]_appVars =>
        SI' /\ [part = "schema" => Schema!LosesAllowed /\ Schema!Records]_schemaVars
  <2> SUFFICES ASSUME SI, [AppNext]_appVars
               PROVE  SI' /\ [part = "schema" => Schema!LosesAllowed /\ Schema!Records]_schemaVars
    OBVIOUS
  <2>1. part' = part /\ [part = "schema" /\ Schema!Next]_schemaVars  BY AppStep
  <2>2. CASE part = "schema"
    <3>1. SchemaInv /\ [Schema!Next]_schemaVars  BY <2>1, <2>2
    <3>2. SchemaInv' /\ [Schema!LosesAllowed /\ Schema!Records]_schemaVars  BY <3>1, SchemaStep
    <3> QED  BY <3>2
  <2>3. CASE part # "schema"  BY <2>1, <2>3
  <2> QED  BY <2>2, <2>3
<1> HIDE DEF SI
<1> QED  BY <1>1, <1>2, PTL DEF AppSpec, MigrationIsSafe

(***************************************************************************)
(* The object's alarm comes no later than the first moment one of its      *)
(* tasks needs a drain, but for the losses WakeCovered names, and an       *)
(* enqueue never moves a pending alarm back.                               *)
(***************************************************************************)
THEOREM AlarmsCoverTheWork == AppSpec => AlarmCoversWork
<1>1. AppInit => AlarmInv  BY AlarmInit DEF AppInit
<1>2. AlarmInv /\ [AppNext]_appVars =>
        AlarmInv' /\ [Alarm!enqueues /\ crashes' = crashes /\ alarm # Alarm!None =>
                        alarm' # Alarm!None /\ alarm' <= alarm]_alarmVars
  BY AppStep, AlarmStep DEF EnqueueKeepsAlarm, Alarm!None
<1>3. AlarmInv => Alarm!WakeCovered  BY DEF AlarmInv
<1> QED
  BY <1>1, <1>2, <1>3, PTL
  DEF AppSpec, AlarmCoversWork, Alarm!EnqueueNeverDelays, Alarm!vars, alarmVars

(* The live queries of the part that is running; the other's do not exist. *)
LiveInv ==
  /\ part = "gate" => GateInv
  /\ part = "awaits" => AwaitsInv

LEMMA LiveInit == AppInit => LiveInv
BY GateInit, AwaitsInit DEF AppInit, LiveInv

LEMMA LiveStep ==
  LiveInv /\ [AppNext]_appVars => LiveInv' /\ (part = "awaits" => ~Awaits!DataAfterLapse)
<1> SUFFICES ASSUME LiveInv, [AppNext]_appVars
             PROVE  LiveInv' /\ (part = "awaits" => ~Awaits!DataAfterLapse)
  OBVIOUS
<1>1. /\ part' = part
      /\ [(part = "gate" /\ Gate!Next) \/ (part = "awaits" /\ Awaits!Next)]_liveVars
  BY AppStep
<1>2. CASE part = "gate" /\ Gate!Next  BY <1>1, <1>2, GateStep DEF LiveInv
<1>3. CASE part = "awaits" /\ Awaits!Next  BY <1>1, <1>3, AwaitsStep DEF LiveInv
<1>4. CASE UNCHANGED liveVars  BY <1>1, <1>4, LiveStays DEF LiveInv
<1> QED  BY <1>1, <1>2, <1>3, <1>4

(***************************************************************************)
(* Behind the input gate the lists of a Durable Object are what its        *)
(* clients hold, through hibernation, expiry and the limit, and whoever    *)
(* waits for nothing has the current result; with the gate open, whatever  *)
(* jobs overlap, the digest a broadcast compares with is that of the last  *)
(* result its subscriber was sent.                                         *)
(***************************************************************************)
THEOREM SubscribersAreServed == AppSpec => []SubscriptionsAreServed
<1>1. AppInit => LiveInv  BY LiveInit
<1>2. LiveInv /\ [AppNext]_appVars => LiveInv'  BY LiveStep
<1>3. LiveInv => SubscriptionsAreServed
  BY GateServes, AwaitsDigests DEF LiveInv, SubscriptionsAreServed
<1> QED  BY <1>1, <1>2, <1>3, PTL DEF AppSpec

(***************************************************************************)
(* A job that came in after a socket's session had lapsed never hands that *)
(* socket data, however late its lookups and its queries answer.           *)
(***************************************************************************)
THEOREM LapsedSessionsGetNothing == AppSpec => NoDataAfterLapse
<1>1. AppInit => LiveInv  BY LiveInit
<1>2. LiveInv /\ [AppNext]_appVars =>
        LiveInv' /\ [part = "awaits" => ~Awaits!DataAfterLapse]_appVars
  BY LiveStep
<1> QED  BY <1>1, <1>2, PTL DEF AppSpec, NoDataAfterLapse
=============================================================================
