------------------------------ MODULE DoAlarm -------------------------------
(***************************************************************************)
(* How a tenant's Durable Object wakes itself for its outbox               *)
(* (packages/server/src/durable-object.ts): a request that enqueued a task *)
(* arms the storage alarm after its commit; the alarm handler and the      *)
(* admin drain route run one drain pass each and then re-arm the alarm     *)
(* from the statistics the pass ended with.                                *)
(*                                                                         *)
(* SQLite inside the object is synchronous and its input gate lets nothing *)
(* else in while storage is awaited, so the statements of a pass between   *)
(* two awaits on the outside world are one action here (module Outbox has  *)
(* them one by one, for D1).  Other events come in while a task handler    *)
(* runs and while a broadcast looks up revocations in KV.                  *)
(*                                                                         *)
(* Every time is relative to now: how long until a row is due, how old a   *)
(* claim is, how long until the alarm.  tick moves them all, so nothing    *)
(* grows and no bound on the clock is needed.                              *)
(***************************************************************************)
EXTENDS Integers, FiniteSets

CONSTANTS
  Ids,           \* task ids
  NoId,          \* a pass that runs no row
  MAX_ATTEMPTS,  \* outbox.ts: 5
  STALE_MS,      \* outbox.ts: 60 s
  BackoffUnit,   \* the 1000 ms of backoffMs
  BackoffCap,    \* its 5 min cap
  Limit,         \* rows per claim, 50
  ARM_DELAY,     \* armDrain: 50 ms
  REARM_FLOOR,   \* alarm, handleDrain: 250 ms
  Delays,        \* the delayMs values of the enqueues
  Losses,        \* ways a committed enqueue may miss its armDrain
  MaxCrash       \* bound: the object dies at most this often

DoAlarmAssumption ==
  /\ NoId \notin Ids
  /\ MAX_ATTEMPTS \in Nat \ {0}
  /\ STALE_MS \in Nat \ {0}
  /\ BackoffUnit \in Nat
  /\ BackoffCap \in Nat
  /\ Limit \in Nat \ {0}
  /\ ARM_DELAY \in Nat
  /\ REARM_FLOOR \in Nat
  /\ ARM_DELAY <= REARM_FLOOR
  /\ Delays \subseteq Nat
  /\ Losses \subseteq {"crash", "socket", "subscribe"}
  /\ MaxCrash \in Nat

None == -1        \* no alarm is set; nextRunAt is null

VARIABLES
  task,      \* the outbox of this tenant, one row per id
  alarm,     \* time until the storage alarm fires, or None
  drain,     \* the pass of the alarm handler and that of the admin route
  unarmed,   \* history: an enqueue did not arm the alarm or a pass died
             \* before it could, and nothing has armed it or read the
             \* table since
  late,      \* history: a pass armed it from a reading that was no longer
             \* the last, and nothing has armed it since
  overtaken, \* history: the table or the alarm changed during a push
  crashes    \* how often the object died

vars == <<task, alarm, drain, unarmed, late, overtaken, crashes>>

Wakers == {"alarm", "route"}

Status == {"none", "pending", "processing", "done", "failed"}

(* wait: until runAt, 0 once it is due.  age: since claimedAt, and no      *)
(* further than STALE_MS, where it stops making a difference.              *)
Row == [status: Status, wait: Nat, attempts: 0..MAX_ATTEMPTS, age: 0..STALE_MS]

absent == [status |-> "none", wait |-> 0, attempts |-> 0, age |-> 0]

(* "running": the handler of cur has been called.  "pushing": the pass is  *)
(* over and the broadcast of what it touched is under way; next is the     *)
(* nextRunAt it will arm, age the time since the pass read Date.now().     *)
Pass == [pc: {"idle", "running", "pushing"}, batch: SUBSET Ids, cur: Ids \cup {NoId},
         seen: [Ids -> 0..(MAX_ATTEMPTS - 1)], age: 0..BackoffCap, next: Nat \cup {None}]

noneSeen == [i \in Ids |-> 0]

idlePass == [pc |-> "idle", batch |-> {}, cur |-> NoId,
             seen |-> noneSeen, age |-> 0, next |-> None]

TypeOK ==
  /\ task \in [Ids -> Row]
  /\ alarm \in Nat \cup {None}
  /\ drain \in [Wakers -> Pass]
  /\ unarmed \in BOOLEAN
  /\ late \in BOOLEAN
  /\ overtaken \in BOOLEAN
  /\ crashes \in 0..MaxCrash

Init ==
  /\ task = [i \in Ids |-> absent]
  /\ alarm = None
  /\ drain = [w \in Wakers |-> idlePass]
  /\ unarmed = FALSE
  /\ late = FALSE
  /\ overtaken = FALSE
  /\ crashes = 0

idle(w) == drain[w].pc = "idle"

live(row) == row.status \in {"pending", "processing"}

(* Bookkeeping for the properties: part of every step that writes the      *)
(* table or the alarm.                                                     *)
overtakes == overtaken' = (overtaken \/ \E w \in Wakers : drain[w].pc = "pushing")

-----------------------------------------------------------------------------
(***************************************************************************)
(* Requests: dispatch commits the enqueue, then the alarm is armed.  Both  *)
(* are one action: nothing else runs in the object between them.           *)
(***************************************************************************)
inserted(i, delay) ==
  [task EXCEPT ![i] = [status |-> "pending", wait |-> delay, attempts |-> 0, age |-> 0]]

insertRow(i, delay) ==
  /\ task[i].status = "none"
  /\ task' = inserted(i, delay)
  /\ overtakes

armedAlways(a) == ARM_DELAY     \* mutant: a trailing debounce
armedIfNone(a) == IF a # None THEN a ELSE ARM_DELAY      \* mutant: a later alarm is not pulled in
armed(a) == IF a # None /\ a <= ARM_DELAY THEN a ELSE ARM_DELAY

armDrain == alarm' = armed(alarm) /\ unarmed' = FALSE /\ late' = FALSE

(* An HTTP call or an admin write. *)
fetchRpc(i, delay) ==
  /\ insertRow(i, delay)
  /\ armDrain
  /\ UNCHANGED <<drain, crashes>>

(* A call frame.  Its result is sent before the alarm is armed, and a send *)
(* on a socket that closed while the handler awaited throws.               *)
onCall(i, delay) ==
  /\ insertRow(i, delay)
  /\ \/ armDrain
     \/ "socket" \in Losses /\ unarmed' = TRUE /\ UNCHANGED <<alarm, late>>
  /\ UNCHANGED <<drain, crashes>>

(* A subscribe frame that names a mutation: dispatch has run and committed *)
(* it before its kind is looked at.                                        *)
onSubscribe(i, delay) ==
  /\ "subscribe" \in Losses
  /\ insertRow(i, delay)
  /\ unarmed' = TRUE
  /\ UNCHANGED <<alarm, drain, late, crashes>>

-----------------------------------------------------------------------------
(***************************************************************************)
(* The drain pass.                                                         *)
(***************************************************************************)
larger(a, b) == IF a >= b THEN a ELSE b
down(n) == IF n > 0 THEN n - 1 ELSE n       \* None stays None

backoffMs(attempts) ==
  LET raw == (2 ^ attempts) * BackoffUnit
  IN  IF raw \in 0..BackoffCap THEN raw ELSE BackoffCap

claimable(row) ==
  /\ \/ row.status = "pending"
     \/ row.status = "processing" /\ row.age = STALE_MS
  /\ row.wait = 0

(* At most Limit due rows, the oldest first; which ones those are is left  *)
(* open, since the table keeps no creation time here.                      *)
batches ==
  LET due == {i \in Ids : claimable(task[i])}
  IN  {b \in SUBSET due : Cardinality(b) <= Limit /\ (b = due \/ Cardinality(b) = Limit)}

claimed(b) ==
  [i \in Ids |-> IF i \in b THEN [task[i] EXCEPT !.status = "processing", !.age = 0]
                            ELSE task[i]]

pendingWaits(t)  == {t[i].wait : i \in {j \in Ids : t[j].status = "pending"}}
staleWaits(t) == {STALE_MS - t[i].age : i \in {j \in Ids : t[j].status = "processing"}}

earliest(waits) == IF waits = {} THEN None ELSE CHOOSE n \in waits : \A o \in waits : n <= o

nextPending(t) == earliest(pendingWaits(t))         \* mutant: stranded claims left out
nextDue(t) == earliest(pendingWaits(t) \cap {0})    \* mutant: only what is already due
nextRunAt(t) == earliest(pendingWaits(t) \cup staleWaits(t))

rearmed(a, next) == IF next = None THEN a ELSE larger(next, REARM_FLOOR)

(* What a pass does between two awaits, once its table is t and the rows   *)
(* of b are still to run: stamp and call the next one, or end.  With       *)
(* nothing touched the broadcast awaits nothing and the alarm is set here. *)
carryOn(w, p, t, a, b, touched) ==
  \/ \E i \in b :
       /\ task' = [t EXCEPT ![i].age = 0]
       /\ drain' = [drain EXCEPT ![w] =
            [p EXCEPT !.pc = "running", !.batch = b \ {i}, !.cur = i]]
       /\ alarm' = a
       /\ UNCHANGED <<unarmed, late>>
  \/ /\ b = {}
     /\ task' = t
     /\ drain' = [drain EXCEPT ![w] = idlePass]
     /\ alarm' = rearmed(a, nextRunAt(t))
     /\ unarmed' = FALSE
     /\ late' = FALSE
  \/ /\ b = {}
     /\ touched
     /\ task' = t
     /\ drain' = [drain EXCEPT ![w] =
          [idlePass EXCEPT !.pc = "pushing", !.next = nextRunAt(t)]]
     /\ alarm' = a
     /\ UNCHANGED <<unarmed, late>>

(* The pass begins: prune, claim, and whatever follows without an await.   *)
startPass(w, a) ==
  /\ idle(w)
  /\ \E b \in batches :
       carryOn(w, [idlePass EXCEPT !.seen = [i \in Ids |-> IF i \in b THEN task[i].attempts ELSE 0]],
               claimed(b), a, b, FALSE)
  /\ overtakes
  /\ UNCHANGED crashes

(* The platform takes the alarm away before it calls the handler, and      *)
(* never runs two at a time.                                               *)
fireAlarm ==
  /\ alarm = 0
  /\ startPass("alarm", None)

handleDrain == startPass("route", alarm)

(* A handler's ctx.tasks.enqueue: no armDrain, the end of the pass sees it *)
(* unless the object dies before.                                          *)
handlerEnqueues(w, i, delay) ==
  /\ drain[w].pc = "running"
  /\ insertRow(i, delay)
  /\ unarmed' = TRUE
  /\ UNCHANGED <<alarm, drain, late, crashes>>

attemptOf(p) == p.seen[p.cur] + 1

outcomeOneLate(n)   == IF n > MAX_ATTEMPTS THEN "failed" ELSE "pending"    \* mutant
outcomeOfFailure(n) == IF n >= MAX_ATTEMPTS THEN "failed" ELSE "pending"

recorded(p, ok) ==
  LET i == p.cur
      n == attemptOf(p)
      left == backoffMs(n) - p.age
  IN  [task EXCEPT ![i] =
        IF ok THEN [status |-> "done", wait |-> 0, attempts |-> n, age |-> 0]
        ELSE [status |-> outcomeOfFailure(n), wait |-> larger(left, 0),
              attempts |-> n, age |-> 0]]

(* The handler returned or threw: record it and carry on. *)
handlerEnds(w) ==
  LET p == drain[w]
  IN  /\ p.pc = "running"
      /\ \E ok \in BOOLEAN : carryOn(w, p, recorded(p, ok), alarm, p.batch, TRUE)
      /\ overtakes
      /\ UNCHANGED crashes

(* The broadcast is over: the alarm is replaced by the one computed before it. *)
pushed(w) ==
  /\ drain[w].pc = "pushing"
  /\ alarm' = rearmed(alarm, drain[w].next)
  /\ drain' = [drain EXCEPT ![w] = idlePass]
  /\ unarmed' = (unarmed /\ overtaken)
  /\ late' = overtaken
  /\ overtaken' = (\E v \in Wakers \ {w} : drain[v].pc = "pushing")
  /\ UNCHANGED <<task, crashes>>

-----------------------------------------------------------------------------
(***************************************************************************)
(* The platform.                                                           *)
(***************************************************************************)

(* Alarm handlers that did not finish are run again; if the handler or a   *)
(* request had set a new alarm meanwhile, that one may be what is left.    *)
alarmsAfterDeath ==
  IF idle("alarm") THEN {alarm} ELSE {0} \cup ({alarm} \ {None})

die ==
  /\ crashes < MaxCrash
  /\ crashes' = crashes + 1
  /\ drain' = [w \in Wakers |-> idlePass]
  /\ alarm' \in alarmsAfterDeath
  /\ UNCHANGED late
  /\ overtaken' = FALSE

(* A pass that dies has not armed; only the alarm's own is run again. *)
crash ==
  /\ die
  /\ unarmed' = \/ unarmed
                \/ ~idle("route")
                \/ ~idle("alarm") /\ alarm' # 0
  /\ UNCHANGED task

(* The object dies between the commit of an enqueue and its armDrain. *)
crashBeforeArm(i, delay) ==
  /\ "crash" \in Losses
  /\ task[i].status = "none"
  /\ task' = inserted(i, delay)
  /\ unarmed' = TRUE
  /\ die

tick ==
  /\ task' = [i \in Ids |-> [task[i] EXCEPT
       !.wait = IF live(task[i]) THEN down(@) ELSE @,
       !.age = IF task[i].status = "processing" /\ @ < STALE_MS THEN @ + 1 ELSE @]]
  /\ alarm' = down(alarm)
  /\ drain' = [w \in Wakers |-> [drain[w] EXCEPT
       !.age = IF drain[w].pc = "running" /\ @ < BackoffCap THEN @ + 1 ELSE @,
       !.next = down(@)]]
  /\ UNCHANGED <<unarmed, late, overtaken, crashes>>

proceeds(w) == handlerEnds(w) \/ pushed(w)

Next ==
  \/ \E i \in Ids, delay \in Delays :
       \/ fetchRpc(i, delay)
       \/ onCall(i, delay)
       \/ onSubscribe(i, delay)
       \/ crashBeforeArm(i, delay)
       \/ \E w \in Wakers : handlerEnqueues(w, i, delay)
  \/ fireAlarm
  \/ handleDrain
  \/ \E w \in Wakers : proceeds(w)
  \/ crash
  \/ tick

(* Time passes, a due alarm is delivered, a task handler ends and a        *)
(* broadcast ends.  Nobody has to call the admin route or send a request.  *)
Fairness ==
  /\ WF_vars(tick)
  /\ WF_vars(fireAlarm)
  /\ \A w \in Wakers : WF_vars(proceeds(w))

Spec == Init /\ [][Next]_vars
FairSpec == Spec /\ Fairness

-----------------------------------------------------------------------------
quiet == \A w \in Wakers : idle(w)

(* The earliest time a drain could do something for a live row. *)
wakeIn(row) == IF row.status = "pending" THEN row.wait ELSE larger(STALE_MS - row.age, row.wait)

covers(a, row) == a # None /\ a <= larger(wakeIn(row), REARM_FLOOR)

(* While no pass is under way, the alarm comes no later than the first     *)
(* moment any live row needs a drain (or the re-arm floor), also after     *)
(* crashes, failed attempts, full batches and claims stranded by a death.  *)
(* Excused, until something arms the alarm or reads the table again: an    *)
(* enqueue that missed its armDrain, an alarm set after a push from what   *)
(* was read before it, and a pass that died and is not run again.          *)
WakeCovered ==
  quiet /\ ~unarmed /\ ~late => \A i \in Ids : live(task[i]) => covers(alarm, task[i])

(* However stale the time a pass arms after its broadcast, some alarm is   *)
(* set as long as there is work and nobody is doing it.                    *)
NeverAsleepWithWork ==
  quiet /\ ~unarmed /\ (\E i \in Ids : live(task[i])) => alarm # None

(* A request may pull the alarm in, never push a pending one back or drop  *)
(* it: a steady stream of enqueues cannot postpone the drain.              *)
enqueues == \E i \in Ids : task[i].status = "none" /\ task'[i].status = "pending"
EnqueueNeverDelays ==
  [][enqueues /\ crashes' = crashes /\ alarm # None => alarm' # None /\ alarm' <= alarm]_vars

(* Every task that was enqueued is delivered or dead-lettered, by alarms   *)
(* alone: no further request and no admin drain is needed, unless from     *)
(* some moment on an enqueue or a dead pass has missed its arming for good. *)
EverythingSettles ==
  []<>~unarmed => \A i \in Ids : live(task[i]) ~> task[i].status \in {"done", "failed"}
=============================================================================
