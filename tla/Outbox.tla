------------------------------- MODULE Outbox -------------------------------
(***************************************************************************)
(* The transactional outbox of pramen's server                             *)
(* (packages/server/src/runtime/outbox.ts): the table _pramen_outbox, the  *)
(* enqueue statement, and the drain pass that any number of drainers (a    *)
(* D1 request tail, the cron trigger, POST /admin/tasks/drain, a Durable   *)
(* Object alarm) run against the same table.                               *)
(*                                                                         *)
(* Each SQL statement of drainOutbox is one action, because on D1 every    *)
(* statement commits on its own and other drainers, enqueues and the clock *)
(* run in between.  A crash of the isolate forgets a drainer between any   *)
(* two statements; a failing statement outside the try block ends the pass *)
(* the same way.  Time is one wall clock in abstract ticks.                *)
(***************************************************************************)
EXTENDS Integers, FiniteSets, TLC

CONSTANTS
  Ids,                \* task ids; crypto.randomUUID never repeats one
  NoId,               \* a drainer that is running no row
  Keys,               \* (kind, key) pairs, the encoded dedupKey values
  NoKey,              \* dedupKey IS NULL
  Drainers,           \* invocations of drainOutbox, reused after they end
  MAX_ATTEMPTS,       \* outbox.ts: 5
  STALE_MS,           \* outbox.ts: 60 s
  DONE_RETENTION_MS,  \* outbox.ts: 1 h
  BackoffUnit,        \* the 1000 ms of backoffMs
  BackoffCap,         \* its 5 min cap
  Limit,              \* rows per claim, 50 unless the caller says otherwise
  Delays,             \* the delayMs values of the enqueues
  MaxClock,           \* bound: the clock stops here
  HoldMax,            \* environment: longest a live pass may last
  RunMax,             \* environment: longest a single handler run may last
  SlowDb,             \* environment: may time pass between two statements?
  Faulty              \* environment: may isolates die and statements fail?

ASSUME OutboxAssumption ==
  /\ NoId \notin Ids
  /\ NoKey \notin Keys
  /\ MAX_ATTEMPTS \in Nat \ {0}
  /\ STALE_MS \in Nat \ {0}
  /\ DONE_RETENTION_MS \in Nat
  /\ BackoffUnit \in Nat
  /\ BackoffCap \in Nat
  /\ Limit \in Nat \ {0}
  /\ Delays \subseteq Nat
  /\ MaxClock \in Nat
  /\ HoldMax \in Nat
  /\ RunMax \in Nat
  /\ SlowDb \in BOOLEAN
  /\ Faulty \in BOOLEAN

Null == -1            \* SQL NULL in the claimedAt column

VARIABLES
  clock,       \* Date.now()
  outbox,      \* the table: one row per id, status "none" when absent
  drainer,     \* the local variables of each pass
  minted,      \* ids already given to a row
  ran,         \* history: how often the handler of an id returned or threw
  delivered,   \* history: how often it returned without throwing
  disturbed    \* history: ids whose run lost its record to a crash or a
               \* failed write

tableVars   == <<outbox, minted>>
historyVars == <<ran, delivered, disturbed>>
vars == <<clock, outbox, drainer, minted, ran, delivered, disturbed>>

Status == {"none", "pending", "processing", "done", "failed"}

Row == [status: Status, key: Keys \cup {NoKey}, attempts: 0..MAX_ATTEMPTS,
        runAt: Nat, createdAt: Nat, claimedAt: Nat \cup {Null}]

absent == [status |-> "none", key |-> NoKey, attempts |-> 0,
           runAt |-> 0, createdAt |-> 0, claimedAt |-> Null]

(* "begun": `now` is read.  "pruned": the DELETE is done.  "loop": between *)
(* two rows of the batch.  "running": a row is stamped and its handler     *)
(* runs.  "returned"/"threw": the handler is over, its result unrecorded.  *)
PassState == {"idle", "begun", "pruned", "loop", "running", "returned", "threw"}

Pass == [pc: PassState, now: Nat, batch: SUBSET Ids,
         seen: [Ids -> 0..(MAX_ATTEMPTS - 1)], cur: Ids \cup {NoId}, stampAt: Nat]

idlePass == [pc |-> "idle", now |-> 0, batch |-> {},
             seen |-> [i \in Ids |-> 0], cur |-> NoId, stampAt |-> 0]

TypeOK ==
  /\ clock \in Nat
  /\ outbox \in [Ids -> Row]
  /\ drainer \in [Drainers -> Pass]
  /\ minted \in SUBSET Ids
  /\ ran \in [Ids -> Nat]
  /\ delivered \in [Ids -> Nat]
  /\ disturbed \in SUBSET Ids

Init ==
  /\ clock = 0
  /\ outbox = [i \in Ids |-> absent]
  /\ drainer = [d \in Drainers |-> idlePass]
  /\ minted = {}
  /\ ran = [i \in Ids |-> 0]
  /\ delivered = [i \in Ids |-> 0]
  /\ disturbed = {}

backoffMs(attempts) ==
  LET raw == (2 ^ attempts) * BackoffUnit
  IN  IF raw \in 0..BackoffCap THEN raw ELSE BackoffCap

present(i) == outbox[i].status # "none"

(***************************************************************************)
(* Enqueue.  An unkeyed task is a new row.  A keyed one is inserted only   *)
(* if no row carries its key; a dead-lettered holder of the key is         *)
(* replaced, under a new id; any other holder makes it a no-op.            *)
(***************************************************************************)
newRow(key, delay) ==
  [status |-> "pending", key |-> key, attempts |-> 0,
   runAt |-> clock + delay, createdAt |-> clock, claimedAt |-> Null]

liveHolders(key) ==     \* mutant: a done row does not hold its key
  {i \in Ids : outbox[i].status \in {"pending", "processing", "failed"} /\ outbox[i].key = key}
holders(key) == {i \in Ids : present(i) /\ outbox[i].key = key}

enqueueUnkeyed(id, delay) ==
  /\ outbox' = [outbox EXCEPT ![id] = newRow(NoKey, delay)]
  /\ minted' = minted \cup {id}

enqueueNewKey(id, key, delay) ==
  /\ holders(key) = {}
  /\ outbox' = [outbox EXCEPT ![id] = newRow(key, delay)]
  /\ minted' = minted \cup {id}

replaceAny(id, key, delay) ==       \* mutant: WHERE status = 'failed' dropped
  \E old \in holders(key) :
    /\ outbox' = [outbox EXCEPT ![old] = absent, ![id] = newRow(key, delay)]
    /\ minted' = minted \cup {id}

replaceFailed(id, key, delay) ==
  \E old \in holders(key) :
    /\ outbox[old].status = "failed"
    /\ outbox' = [outbox EXCEPT ![old] = absent, ![id] = newRow(key, delay)]
    /\ minted' = minted \cup {id}

enqueueTask(id, delay) ==
  /\ id \in Ids \ minted
  /\ \/ enqueueUnkeyed(id, delay)
     \/ \E key \in Keys : \/ enqueueNewKey(id, key, delay)
                          \/ replaceFailed(id, key, delay)
  /\ UNCHANGED <<clock, drainer, ran, delivered, disturbed>>

(***************************************************************************)
(* The drain pass.                                                         *)
(***************************************************************************)
pass(d, from) == drainer[d].pc = from

become(d, p) == drainer' = [drainer EXCEPT ![d] = p]

(* The rows a pass is responsible for: those still to run and the current one. *)
rowsOf(p) == p.batch \cup ({p.cur} \ {NoId})

holds(d) == rowsOf(drainer[d])

(* The caller reads Date.now() once and passes it down as `now`. *)
begin(d) ==
  /\ pass(d, "idle")
  /\ become(d, [drainer[d] EXCEPT !.pc = "begun", !.now = clock])
  /\ UNCHANGED <<clock, outbox, minted, ran, delivered, disturbed>>

doneAt(row) == IF row.claimedAt = Null THEN row.createdAt ELSE row.claimedAt

expiredAny(row) == doneAt(row) < clock - DONE_RETENTION_MS    \* mutant: any status
expired(row) ==
  /\ row.status = "done"
  /\ doneAt(row) < clock - DONE_RETENTION_MS

prune(d) ==
  /\ pass(d, "begun")
  /\ outbox' = [i \in Ids |-> IF expired(outbox[i]) THEN absent ELSE outbox[i]]
  /\ become(d, [drainer[d] EXCEPT !.pc = "pruned"])
  /\ UNCHANGED <<clock, minted, ran, delivered, disturbed>>

claimableHeld(row, now) ==      \* mutant: a claim is never fresh
  row.status \in {"pending", "processing"} /\ row.runAt <= now
claimableDone(row, now) ==      \* mutant: finished rows are not excluded
  row.status \in {"pending", "done"} /\ row.runAt <= now
claimable(row, now) ==
  /\ \/ row.status = "pending"
     \/ row.status = "processing" /\ row.claimedAt <= now - STALE_MS
  /\ row.runAt <= now

(* ORDER BY createdAt LIMIT: the oldest Limit due rows, ties in any order. *)
batches(now) ==
  LET due == {i \in Ids : claimable(outbox[i], now)}
  IN  {b \in SUBSET due :
         /\ \/ b = due
            \/ Cardinality(b) = Limit
         /\ Cardinality(b) <= Limit
         /\ \A i \in b, j \in due \ b : outbox[i].createdAt <= outbox[j].createdAt}

claim(d) ==
  /\ pass(d, "pruned")
  /\ \E b \in batches(drainer[d].now) :
       /\ outbox' = [i \in Ids |->
            IF i \in b
              THEN [outbox[i] EXCEPT !.status = "processing",
                                     !.claimedAt = drainer[d].now]
              ELSE outbox[i]]
       /\ become(d, [drainer[d] EXCEPT
            !.pc = "loop", !.batch = b,
            !.seen = [i \in Ids |-> IF i \in b THEN outbox[i].attempts ELSE 0]])
  /\ UNCHANGED <<clock, minted, ran, delivered, disturbed>>

(* UPDATE ... WHERE id = ?: no status test and no test of who claimed it; *)
(* it touches nothing when the row is gone.                               *)
update(i, row) == IF present(i) THEN [outbox EXCEPT ![i] = row] ELSE outbox

(* Re-stamp claimedAt with the wall clock, then call the handler. *)
stamp(d, i) ==
  /\ pass(d, "loop")
  /\ i \in drainer[d].batch
  /\ outbox' = update(i, [outbox[i] EXCEPT !.claimedAt = clock])
  /\ become(d, [drainer[d] EXCEPT
       !.pc = "running", !.cur = i, !.stampAt = clock, !.batch = @ \ {i}])
  /\ UNCHANGED <<clock, minted, ran, delivered, disturbed>>

handlerReturns(d) ==
  /\ pass(d, "running")
  /\ become(d, [drainer[d] EXCEPT !.pc = "returned", !.stampAt = 0])
  /\ ran' = [ran EXCEPT ![drainer[d].cur] = @ + 1]
  /\ delivered' = [delivered EXCEPT ![drainer[d].cur] = @ + 1]
  /\ UNCHANGED <<clock, outbox, minted, disturbed>>

(* Also a kind with no registered handler, and a payload that is not JSON. *)
handlerThrows(d) ==
  /\ pass(d, "running")
  /\ become(d, [drainer[d] EXCEPT !.pc = "threw", !.stampAt = 0])
  /\ ran' = [ran EXCEPT ![drainer[d].cur] = @ + 1]
  /\ UNCHANGED <<clock, outbox, minted, delivered, disturbed>>

rowOver(d) ==
  become(d, [drainer[d] EXCEPT !.pc = "loop", !.cur = NoId,
                               !.seen = [@ EXCEPT ![drainer[d].cur] = 0]])

attemptTwice(d) == drainer[d].seen[drainer[d].cur] + 2   \* mutant: counted at the claim too
attemptOf(d) == drainer[d].seen[drainer[d].cur] + 1

recordDone(d) ==
  LET i == drainer[d].cur
  IN  /\ pass(d, "returned")
      /\ outbox' = update(i, [outbox[i] EXCEPT
           !.status = "done", !.attempts = attemptOf(d), !.claimedAt = clock])
      /\ rowOver(d)
      /\ UNCHANGED <<clock, minted, ran, delivered, disturbed>>

(* The 'done' UPDATE is inside the try block: when it fails, the catch    *)
(* block records a failure for a task whose handler has succeeded.        *)
doneWriteFails(d) ==
  /\ Faulty
  /\ pass(d, "returned")
  /\ become(d, [drainer[d] EXCEPT !.pc = "threw"])
  /\ disturbed' = disturbed \cup {drainer[d].cur}
  /\ UNCHANGED <<clock, outbox, minted, ran, delivered>>

outcomeOneLate(n)     == IF n > MAX_ATTEMPTS THEN "failed" ELSE "pending"   \* mutant
outcomeDeadIsDone(n)  == IF n >= MAX_ATTEMPTS THEN "done" ELSE "pending"    \* mutant
outcomeOfFailure(n)   == IF n >= MAX_ATTEMPTS THEN "failed" ELSE "pending"

recordFailure(d) ==
  LET i == drainer[d].cur
  IN  /\ pass(d, "threw")
      /\ outbox' = update(i, [outbox[i] EXCEPT
           !.status = outcomeOfFailure(attemptOf(d)),
           !.attempts = attemptOf(d),
           !.runAt = drainer[d].now + backoffMs(attemptOf(d)),
           !.claimedAt = Null])
      /\ rowOver(d)
      /\ UNCHANGED <<clock, minted, ran, delivered, disturbed>>

(* The batch is over: the stats are read and the pass returns. *)
finish(d) ==
  /\ pass(d, "loop")
  /\ drainer[d].batch = {}
  /\ become(d, idlePass)
  /\ UNCHANGED <<clock, outbox, minted, ran, delivered, disturbed>>

(* The isolate dies, or a statement outside the try block fails: the pass *)
(* ends and its claims stay in the table.                                 *)
crash(d) ==
  /\ Faulty
  /\ drainer[d].pc # "idle"
  /\ disturbed' = disturbed \cup holds(d)
  /\ become(d, idlePass)
  /\ UNCHANGED <<clock, outbox, minted, ran, delivered>>

drainStep(d) ==
  \/ begin(d)
  \/ prune(d)
  \/ claim(d)
  \/ \E i \in Ids : stamp(d, i)
  \/ handlerReturns(d)
  \/ handlerThrows(d)
  \/ recordDone(d)
  \/ doneWriteFails(d)
  \/ recordFailure(d)
  \/ finish(d)
  \/ crash(d)

(* Time passes, within what the environment promises about live passes. *)
tick ==
  /\ clock < MaxClock
  /\ \A d \in Drainers : drainer[d].pc # "idle" =>
       /\ clock < drainer[d].now + HoldMax
       /\ drainer[d].pc = "running" => clock < drainer[d].stampAt + RunMax
       /\ drainer[d].pc = "running" \/ SlowDb
  /\ clock' = clock + 1
  /\ UNCHANGED <<outbox, drainer, minted, ran, delivered, disturbed>>

Next ==
  \/ \E i \in Ids, delay \in Delays : enqueueTask(i, delay)
  \/ \E d \in Drainers : drainStep(d)
  \/ tick

Spec == Init /\ [][Next]_vars

-----------------------------------------------------------------------------
(***************************************************************************)
(* What must hold however slow a pass is.                                  *)
(***************************************************************************)

(* An idempotency key names at most one row, whatever mix of keyed        *)
(* enqueues, replacements of dead letters and late writes of slow passes  *)
(* has happened (enqueueTask's ON CONFLICT clause, the unique index).     *)
OneRowPerKey ==
  \A i, j \in Ids :
    (present(i) /\ present(j) /\ outbox[i].key = outbox[j].key
       /\ outbox[i].key # NoKey) => i = j

(* An accepted task leaves the table only after its handler has returned  *)
(* at least once, or after all its attempts, when a keyed enqueue         *)
(* replaces the dead letter: no prune, claim or late write loses it.      *)
NoLostTask ==
  \A i \in minted :
    ~present(i) => delivered[i] > 0 \/ ran[i] >= MAX_ATTEMPTS

(* A row is dead-lettered only when its handler has really been run       *)
(* MAX_ATTEMPTS times, even if several passes hold the same row and each  *)
(* writes the attempt number it saw (attempts = row.attempts + 1).        *)
NotGivenUpEarly ==
  \A i \in Ids : outbox[i].status = "failed" => ran[i] >= MAX_ATTEMPTS

(* The inductive strengthening of NotGivenUpEarly: no counter of attempts, *)
(* in the table or in a pass, is ahead of the runs that really happened,  *)
(* and a row that can still be claimed has an attempt left.               *)
rowCounts(row, runs) ==
  /\ row.attempts <= runs
  /\ row.status \in {"pending", "processing"} => row.attempts < MAX_ATTEMPTS
  /\ row.status = "failed" => row.attempts = MAX_ATTEMPTS

passCounts(p, runs) ==
  /\ \A i \in Ids : p.seen[i] <= runs[i]
  /\ p.pc \in {"running", "returned", "threw"} => p.cur \in Ids
  /\ p.pc \in {"returned", "threw"} => p.seen[p.cur] < runs[p.cur]

AttemptInv ==
  /\ \A i \in Ids : rowCounts(outbox[i], ran[i])
  /\ \A d \in Drainers : passCounts(drainer[d], ran)

(* While a done row is in the table it was really delivered, however many *)
(* passes wrote to it.                                                    *)
DoneMeansDelivered ==
  \A i \in Ids : outbox[i].status = "done" => delivered[i] > 0

-----------------------------------------------------------------------------
(***************************************************************************)
(* What holds when every pass ends within STALE_MS of reading its clock    *)
(* (HoldMax < STALE_MS).                                                   *)
(***************************************************************************)

(* Two live passes never hold the same row: "concurrent drainers never    *)
(* process the same row twice".                                           *)
ExclusiveClaims ==
  \A d, e \in Drainers : d # e => holds(d) \cap holds(e) = {}

(* A task's handler returns without throwing at most once, unless a crash *)
(* or a failed write lost the record of a run: the "rare retry" that the  *)
(* handler's idempotency key is for.                                      *)
OnceUnlessDisturbed ==
  \A i \in Ids \ disturbed : delivered[i] <= 1

(* Without a crash a handler runs at most MAX_ATTEMPTS times.             *)
RunsBounded ==
  \A i \in Ids \ disturbed : ran[i] <= MAX_ATTEMPTS

(* The inductive strengthening of ExclusiveClaims: the rows of a live pass *)
(* are processing, under a claim no older than the pass itself, so no      *)
(* other pass finds them stale.                                            *)
freshPass(p, table, t) ==
  /\ p.pc # "idle" => p.now <= t /\ t <= p.now + HoldMax
  /\ p.pc \in {"idle", "begun", "pruned"} => p.batch = {}
  /\ p.pc \in {"idle", "begun", "pruned", "loop"} => p.cur = NoId
  /\ p.cur \notin p.batch
  /\ \A i \in rowsOf(p) : /\ table[i].status = "processing"
                          /\ table[i].claimedAt >= p.now

ClaimInv ==
  /\ \A i \in Ids : present(i) => i \in minted
  /\ \A d \in Drainers : freshPass(drainer[d], outbox, clock)
  /\ ExclusiveClaims

-----------------------------------------------------------------------------
(***************************************************************************)
(* Refinement: the abstract at-least-once contract.                        *)
(***************************************************************************)
fate(i) ==
  CASE outbox[i].status \in {"pending", "processing"} -> "owed"
    [] outbox[i].status = "done"   -> "delivered"
    [] outbox[i].status = "failed" -> "dead"
    [] outbox[i].status = "none"   -> IF i \in minted THEN "gone" ELSE "none"

abstractState == [i \in Ids |-> fate(i)]

(* A done row counts the run that succeeded, too.                         *)
recordedFailures ==
  [i \in Ids |-> IF outbox[i].status = "done" THEN outbox[i].attempts - 1
                 ELSE outbox[i].attempts]

Delivery == INSTANCE TaskDelivery WITH
  Task <- Ids, Attempts <- MAX_ATTEMPTS,
  state <- abstractState,
  failures <- recordedFailures,
  effects <- delivered

(* The outbox implements the at-least-once contract of TaskDelivery.      *)
ImplementsDelivery == Delivery!Spec

(* Neither tasks nor drainers differ but by their names.                   *)
Symmetry == Permutations(Ids) \cup Permutations(Drainers)
=============================================================================
