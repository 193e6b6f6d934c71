---------------------------- MODULE SharedBoot -----------------------------
(***************************************************************************)
(* The boot one isolate's invocations share                                *)
(* (packages/server/src/runtime/boot.ts, as worker.ts uses it for D1).     *)
(*                                                                         *)
(* A boot runs inside the invocation that started it and dies with it: its *)
(* promise then never settles.  An invocation starts at most one boot, so  *)
(* a boot is named by its starter.                                         *)
(***************************************************************************)
EXTENDS Integers

CONSTANTS
  Invocations,
  STALE,       \* staleMs
  WORK,        \* bound: statements a boot runs
  WaitUntil    \* which invocations hand over ctx.waitUntil

ASSUME SharedBootAssumption ==
  /\ STALE \in Nat \ {0}
  /\ WORK \in Nat
  /\ WaitUntil \subseteq Invocations

None == "none"
ASSUME NoneAssumption == None \notin Invocations

VARIABLES
  current,   \* the memo: the boot it holds, or None
  boot,      \* the boot each invocation started
  caller     \* where each invocation is in ensure

vars == <<current, boot, caller>>

(* idle: time since lastProgressAt, no longer counted at STALE. *)
Boot == [st: {"none", "running", "done", "failed"}, idle: 0..STALE, left: 0..WORK]

(* "own", "watch": awaits the boot it started, or watches on.  "detached": *)
(* its caller has left and waitUntil holds it.  "gone": cancelled.         *)
Pc == {"away", "own", "watch", "served", "failed", "detached", "gone"}

TypeOK ==
  /\ current \in Invocations \cup {None}
  /\ boot \in [Invocations -> Boot]
  /\ caller \in [Invocations -> [pc: Pc, on: Invocations \cup {None}]]

at(p) == [pc |-> p, on |-> None]
watching(b) == [pc |-> "watch", on |-> b]

Init ==
  /\ current = None
  /\ boot = [i \in Invocations |-> [st |-> "none", idle |-> 0, left |-> 0]]
  /\ caller = [i \in Invocations |-> at("away")]

isStale(b) == boot[b].st = "running" /\ boot[b].idle = STALE

startOver(i) ==                            \* mutant: the clock of the old boot is kept
  /\ current' = i
  /\ boot' = [boot EXCEPT ![i] = [st |-> "running", left |-> WORK,
                                  idle |-> IF current = None THEN 0 ELSE boot[current].idle + 1]]
  /\ caller' = [caller EXCEPT ![i] = at("own")]
start(i) ==
  /\ current' = i
  /\ boot' = [boot EXCEPT ![i] = [st |-> "running", idle |-> 0, left |-> WORK]]
  /\ caller' = [caller EXCEPT ![i] = at("own")]

(* The rest of ensure's loop for a boot that is not stale. *)
join(i, b) ==
  /\ caller' = [caller EXCEPT ![i] = IF boot[b].st = "done" THEN at("served") ELSE watching(b)]
  /\ UNCHANGED <<current, boot>>

ensure(i) ==
  /\ caller[i].pc = "away"
  /\ IF current = None THEN start(i)
     ELSE IF isStale(current) THEN start(i) ELSE join(i, current)

(* The timer of settledBeforeStale finds the boot it watches stale. *)
timeoutServes(i) ==                        \* mutant: the timer resolves true
  /\ caller[i].pc = "watch"
  /\ isStale(caller[i].on)
  /\ caller' = [caller EXCEPT ![i] = at("served")]
  /\ UNCHANGED <<current, boot>>
timeoutNever(i) == FALSE                   \* mutant: a bare memoized promise
watchTimesOut(i) ==
  /\ caller[i].pc = "watch"
  /\ isStale(caller[i].on)
  /\ IF current \in Invocations \ {caller[i].on}
       THEN IF isStale(current) THEN start(i) ELSE join(i, current)
       ELSE start(i)

-----------------------------------------------------------------------------
(* The boot of i runs as long as i does. *)
runs(i) == boot[i].st = "running" /\ caller[i].pc \in {"own", "detached"}

statement(i) ==
  /\ runs(i)
  /\ boot[i].left > 0
  /\ boot' = [boot EXCEPT ![i].left = @ - 1, ![i].idle = 0]
  /\ UNCHANGED <<current, caller>>

(* Everyone who awaits the boot of i hears of it. *)
answer(i, p) ==
  caller' = [j \in Invocations |->
    IF (j = i /\ caller[i].pc = "own") \/ caller[j] = watching(i) THEN at(p)
    ELSE IF j = i THEN at("gone")
    ELSE caller[j]]

succeed(i) ==
  /\ runs(i)
  /\ boot[i].left = 0
  /\ boot' = [boot EXCEPT ![i].st = "done", ![i].idle = 0]
  /\ answer(i, "served")
  /\ UNCHANGED current

forgetAny(i) == None                       \* mutant: whichever boot the memo holds
forget(i) == IF current = i THEN None ELSE current

fail(i) ==
  /\ runs(i)
  /\ boot' = [boot EXCEPT ![i].st = "failed", ![i].idle = 0]
  /\ current' = forget(i)
  /\ answer(i, "failed")

(* The caller disconnects: its invocation ends, unless it started a boot   *)
(* that waitUntil holds it for.                                            *)
disconnect(i) ==
  /\ caller[i].pc \in {"own", "watch"}
  /\ caller' = [caller EXCEPT ![i] =
       at(IF i \in WaitUntil /\ caller[i].pc = "own" THEN "detached" ELSE "gone")]
  /\ UNCHANGED <<current, boot>>

(* waitUntil is capped. *)
cutOff(i) ==
  /\ caller[i].pc = "detached"
  /\ caller' = [caller EXCEPT ![i] = at("gone")]
  /\ UNCHANGED <<current, boot>>

tick ==
  /\ boot' = [i \in Invocations |->
       IF boot[i].st = "running" /\ boot[i].idle < STALE
         THEN [boot[i] EXCEPT !.idle = @ + 1] ELSE boot[i]]
  /\ UNCHANGED <<current, caller>>

bootStep(i) == statement(i) \/ succeed(i)

proceeds(i) == watchTimesOut(i) \/ bootStep(i)

Next ==
  \/ \E i \in Invocations :
       \/ ensure(i) \/ proceeds(i) \/ fail(i)
       \/ disconnect(i) \/ cutOff(i)
  \/ tick

(* Time passes, timers fire, and a boot whose invocation lives goes on. *)
Fairness ==
  /\ WF_vars(tick)
  /\ \A i \in Invocations : WF_vars(proceeds(i))

Spec == Init /\ [][Next]_vars
FairSpec == Spec /\ Fairness

-----------------------------------------------------------------------------
(* A request goes on only when some boot of this isolate has completed:    *)
(* neither a timer nor a failure nor a replacement lets one through.       *)
ServedMeansBooted ==
  \A i \in Invocations : caller[i].pc = "served" => \E b \in Invocations : boot[b].st = "done"

(* The boot in the memo is given up only if it failed or stood still for   *)
(* STALE: a predecessor that fails late, or several watchers timing out    *)
(* together, neither discard a live boot nor start one beside it, and a    *)
(* completed boot is kept.                                                 *)
MemoKept ==
  [][current' # current =>
       \/ current = None
       \/ isStale(current)
       \/ boot'[current].st = "failed"]_vars

(* No request is tied to a boot that nobody runs any more: whoever waits   *)
(* is answered, or leaves, also when the invocation it relied on was cut   *)
(* off in the middle of the boot.                                          *)
NobodyWedged ==
  \A i \in Invocations :
    (caller[i].pc \in {"own", "watch"}) ~> (caller[i].pc \in {"served", "failed", "detached", "gone"})
=============================================================================
