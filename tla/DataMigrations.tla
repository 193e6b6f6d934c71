--------------------------- MODULE DataMigrations --------------------------
(***************************************************************************)
(* The recorded data migrations of pramen's server                         *)
(* (packages/server/src/runtime/data-migrations.ts): an ordered list of    *)
(* one-shot backfills and the ledger _pramen_migrations, whose rows are    *)
(* taken under a lease before the work and cleared of it after.            *)
(*                                                                         *)
(* On D1 any number of cold isolates run the list at once and every        *)
(* statement commits on its own: one statement is one action.  A Durable   *)
(* Object runs it alone (blockConcurrencyWhile), each migration in a       *)
(* transaction that a throw or a crash undoes.                             *)
(*                                                                         *)
(* Times are relative to now: what is left of a lease, of a waiter's       *)
(* budget, of a nap.                                                       *)
(***************************************************************************)
EXTENDS Integers, FiniteSets

CONSTANTS
  Runners,        \* isolates booting the store
  N,              \* app.migrations has entries 1..N, in this order
  TTL,            \* DEFAULT_LEASE.ttlMs
  WAIT,           \* DEFAULT_LEASE.waitMs
  POLL,           \* DEFAULT_LEASE.pollMs
  Stores,         \* the stores checked, out of "d1" and "do"
  MaxFaults       \* bound: throws, failed statements and crashes

ASSUME DataMigrationsAssumption ==
  /\ N \in Nat
  /\ TTL \in Nat \ {0}
  /\ WAIT \in Nat
  /\ POLL \in Nat
  /\ Stores \subseteq {"d1", "do"}
  /\ MaxFaults \in Nat

VARIABLES
  store,      \* where the data is; never changes
  ledger,     \* per migration: its row, and what is left of its lease
  effect,     \* how often its work was done, at least in part
  runner,     \* the local state of each run
  disturbed,  \* history: migrations some attempt at which threw, or ended
              \* between its work and its record
  overrun,    \* history: migrations whose lease ran out under a live holder
  faults

vars == <<store, ledger, effect, runner, disturbed, overrun, faults>>

transactional == store = "do"

Migs == 1..N

absent    == [st |-> "absent", left |-> 0]
applied   == [st |-> "applied", left |-> 0]
inFlightNull == [st |-> "applied", left |-> 0]   \* mutant: claimed with no lease
inFlight  == [st |-> "inflight", left |-> TTL]

RowType == [st: {"absent", "inflight", "applied"}, left: 0..TTL]

(* "loop": between two entries.  "claim", "look": the two statements of    *)
(* tryClaim.  "up": the migration runs.  "worked": it returned.  "undo":   *)
(* it threw, or its record did.  "serving": the boot is over.              *)
Pc == {"idle", "loop", "claim", "look", "sleep", "up", "worked", "undo", "serving"}

Run == [pc: Pc, at: 1..(N + 1), done: SUBSET Migs, wait: 0..WAIT, nap: 0..POLL,
        row: RowType, was: Nat]

idleRun == [pc |-> "idle", at |-> 1, done |-> {}, wait |-> 0, nap |-> 0,
            row |-> absent, was |-> 0]

TypeOK ==
  /\ store \in Stores
  /\ ledger \in [Migs -> RowType]
  /\ effect \in [Migs -> Nat]
  /\ runner \in [Runners -> Run]
  /\ disturbed \in SUBSET Migs
  /\ overrun \in SUBSET Migs
  /\ faults \in 0..MaxFaults

Init ==
  /\ store \in Stores
  /\ ledger = [m \in Migs |-> absent]
  /\ effect = [m \in Migs |-> 0]
  /\ runner = [r \in Runners |-> idleRun]
  /\ disturbed = {}
  /\ overrun = {}
  /\ faults = 0

at(r) == runner[r].at
pc(r, s) == runner[r].pc = s
become(r, v) == runner' = [runner EXCEPT ![r] = v]
jump(r, s) == become(r, [runner[r] EXCEPT !.pc = s])
nextEntry(r) ==
  become(r, [idleRun EXCEPT !.pc = "loop", !.at = at(r) + 1, !.done = runner[r].done])

isApplied(m) == ledger[m].st = "applied"

(* A runner that believes it holds the row of the entry it is at. *)
holding(r) == runner[r].pc \in {"up", "worked", "undo"}

-----------------------------------------------------------------------------
(***************************************************************************)
(* The loop of runDataMigrations.                                          *)
(***************************************************************************)
(* A Durable Object boots once at a time. *)
begin(r) ==
  /\ pc(r, "idle")
  /\ transactional => \A s \in Runners : pc(s, "idle") \/ pc(s, "serving")
  /\ become(r, [idleRun EXCEPT !.pc = "loop", !.done = {m \in Migs : isApplied(m)}])
  /\ UNCHANGED <<store, ledger, effect, disturbed, overrun, faults>>

skip(r) ==
  /\ pc(r, "loop")
  /\ at(r) \in runner[r].done
  /\ nextEntry(r)
  /\ UNCHANGED <<ledger, effect, disturbed, faults>>

(* The transaction opens, and acquire sets its deadline. *)
acquire(r) ==
  /\ pc(r, "loop")
  /\ at(r) \in Migs \ runner[r].done
  /\ become(r, [runner[r] EXCEPT !.pc = "claim", !.wait = WAIT,
                                 !.row = ledger[at(r)], !.was = effect[at(r)]])
  /\ UNCHANGED <<ledger, effect, disturbed, faults>>

serve(r) ==
  /\ pc(r, "loop")
  /\ at(r) = N + 1
  /\ jump(r, "serving")
  /\ UNCHANGED <<ledger, effect, disturbed, faults>>

(* The upsert: insert, or steal an expired lease, or write nothing. *)
takeableAlways(row) == row.st # "applied"       \* mutant: a live lease is stolen
takeableOnce(row) == row.st = "absent"          \* mutant: no lease is stolen
takeable(row) ==
  \/ row.st = "absent"
  \/ row.st = "inflight" /\ row.left = 0

tryClaim(r) ==
  /\ pc(r, "claim")
  /\ IF takeable(ledger[at(r)])
       THEN /\ ledger' = [ledger EXCEPT ![at(r)] = inFlight]
            /\ become(r, [runner[r] EXCEPT !.pc = "up", !.wait = 0])
       ELSE /\ jump(r, "look")
            /\ UNCHANGED ledger
  /\ UNCHANGED <<effect, disturbed, faults>>

(* Nothing was written: is the entry applied?  A row that has gone in the  *)
(* meantime counts as held.  A held row is waited for within the budget,   *)
(* and then the boot fails.                                                *)
lookHeldIsDone(r) == pc(r, "look") /\ ledger[at(r)].st # "absent"     \* mutant
lookApplied(r)    == pc(r, "look") /\ isApplied(at(r))

seeApplied(r) ==
  /\ lookApplied(r)
  /\ nextEntry(r)
  /\ UNCHANGED <<ledger, effect, disturbed, faults>>

seeHeldLonger(r) ==                             \* mutant: the poll interval grows
  /\ pc(r, "look")
  /\ ~isApplied(at(r))
  /\ become(r, IF runner[r].wait = 0 THEN idleRun
               ELSE [runner[r] EXCEPT !.pc = "sleep", !.nap = POLL + runner[r].wait])
  /\ UNCHANGED <<ledger, effect, disturbed, faults>>
seeHeld(r) ==
  /\ pc(r, "look")
  /\ ~isApplied(at(r))
  /\ become(r, IF runner[r].wait = 0 THEN idleRun
               ELSE [runner[r] EXCEPT !.pc = "sleep", !.nap = POLL])
  /\ UNCHANGED <<ledger, effect, disturbed, faults>>

wake(r) ==
  /\ pc(r, "sleep")
  /\ runner[r].nap = 0
  /\ jump(r, "claim")
  /\ UNCHANGED <<ledger, effect, disturbed, faults>>

upReturns(r) ==
  /\ pc(r, "up")
  /\ effect' = [effect EXCEPT ![at(r)] = @ + 1]
  /\ jump(r, "worked")
  /\ UNCHANGED <<ledger, disturbed, faults>>

(* UPDATE ... WHERE id and partition: no test of who holds the row. *)
complete(r) ==
  /\ pc(r, "worked")
  /\ ledger' = IF ledger[at(r)].st = "absent" THEN ledger
               ELSE [ledger EXCEPT ![at(r)] = applied]
  /\ nextEntry(r)
  /\ UNCHANGED <<effect, disturbed, faults>>

(* DELETE ... WHERE leaseUntil IS NOT NULL, whoever holds it. *)
releasedAny(m) == [ledger EXCEPT ![m] = absent]     \* mutant: the guard dropped
released(m) ==
  IF ledger[m].st = "inflight" THEN [ledger EXCEPT ![m] = absent] ELSE ledger

-----------------------------------------------------------------------------
(***************************************************************************)
(* What goes wrong.                                                        *)
(***************************************************************************)
fault == faults < MaxFaults /\ faults' = faults + 1

(* What a failed attempt leaves in the tables: all of it on D1, nothing    *)
(* in a real transaction.                                                  *)
leaveWork(r, rows, work) ==                     \* mutant: only the ledger is undone
  /\ ledger' = [ledger EXCEPT ![at(r)] = IF transactional THEN runner[r].row ELSE rows[at(r)]]
  /\ effect' = [effect EXCEPT ![at(r)] = work]
  /\ disturbed' = IF transactional THEN disturbed ELSE disturbed \cup {at(r)}
leave(r, rows, work) ==
  LET m == at(r)
  IN  IF transactional
        THEN /\ ledger' = [ledger EXCEPT ![m] = runner[r].row]
             /\ effect' = [effect EXCEPT ![m] = runner[r].was]
             /\ UNCHANGED disturbed
        ELSE /\ ledger' = rows
             /\ effect' = [effect EXCEPT ![m] = work]
             /\ disturbed' = disturbed \cup {m}

(* up() throws, having written nothing yet or part of its work. *)
upThrows(r) ==
  /\ fault
  /\ pc(r, "up")
  /\ \E part \in {0, 1} : effect' = [effect EXCEPT ![at(r)] = @ + part]
  /\ disturbed' = IF transactional THEN disturbed ELSE disturbed \cup {at(r)}
  /\ jump(r, "undo")
  /\ UNCHANGED ledger

completeFails(r) ==
  /\ fault
  /\ pc(r, "worked")
  /\ disturbed' = IF transactional THEN disturbed ELSE disturbed \cup {at(r)}
  /\ jump(r, "undo")
  /\ UNCHANGED <<ledger, effect>>

release(r) ==
  /\ pc(r, "undo")
  /\ leave(r, released(at(r)), effect[at(r)])
  /\ become(r, idleRun)
  /\ UNCHANGED faults

releaseFails(r) ==
  /\ fault
  /\ pc(r, "undo")
  /\ leave(r, ledger, effect[at(r)])
  /\ become(r, idleRun)

(* The isolate dies with a row in hand, or without one. *)
dieHolding(r) ==
  /\ fault
  /\ holding(r)
  /\ \E part \in (IF pc(r, "up") THEN {0, 1} ELSE {0}) :
       leave(r, ledger, effect[at(r)] + part)
  /\ become(r, idleRun)

die(r) ==
  /\ fault
  /\ ~holding(r) /\ ~pc(r, "idle")
  /\ become(r, idleRun)
  /\ UNCHANGED <<ledger, effect, disturbed>>

runStep(r) ==
  /\ UNCHANGED <<store, overrun>>
  /\ \/ skip(r) \/ acquire(r) \/ serve(r)
     \/ tryClaim(r) \/ seeApplied(r) \/ seeHeld(r) \/ wake(r)
     \/ upReturns(r) \/ complete(r) \/ release(r)

mishap(r) ==
  /\ UNCHANGED <<store, overrun>>
  /\ \/ upThrows(r) \/ completeFails(r) \/ releaseFails(r)
     \/ dieHolding(r) \/ die(r)

down(n) == IF n > 0 THEN n - 1 ELSE 0

tick ==
  /\ ledger' = [m \in Migs |-> [ledger[m] EXCEPT !.left = down(@)]]
  /\ runner' = [r \in Runners |-> [runner[r] EXCEPT !.wait = down(@), !.nap = down(@)]]
  /\ overrun' = overrun \cup
       {m \in Migs : ledger[m].left = 1 /\ \E r \in Runners : holding(r) /\ at(r) = m}
  /\ UNCHANGED <<store, effect, disturbed, faults>>

Next ==
  \/ \E r \in Runners : begin(r) \/ runStep(r) \/ mishap(r)
  \/ tick

(* Isolates keep running, time passes, and requests keep coming, each of   *)
(* which boots an isolate that has not yet.                                *)
Fairness ==
  /\ WF_vars(tick)
  /\ \A r \in Runners : WF_vars(begin(r)) /\ WF_vars(runStep(r))

Spec == Init /\ [][Next]_vars
FairSpec == Spec /\ Fairness

-----------------------------------------------------------------------------
(***************************************************************************)
(* What holds however slow a holder is.                                    *)
(***************************************************************************)

(* A ledger row without a lease means the work was done: nothing that      *)
(* failed, died, was stolen or released makes an entry read as applied.    *)
AppliedMeansDone == \A m \in Migs : isApplied(m) => effect[m] > 0

(* Once applied an entry stays applied: neither a late release nor a late  *)
(* claim of a runner that lost its lease takes the record away.            *)
AppliedIsForever == [][\A m \in Migs : isApplied(m) => ledger'[m].st = "applied"]_vars

(* As long as requests come every entry is applied in the end, also after  *)
(* throws, crashes, stolen leases and waiters that gave up.                *)
EverythingApplied == <>[](\A m \in Migs : isApplied(m))

(***************************************************************************)
(* What holds of an entry as long as no lease on it has run out under a    *)
(* live holder, which ttlMs is meant to exclude.                           *)
(***************************************************************************)

(* No two runners ever run the same entry, and a runner that does has the  *)
(* row in flight.                                                          *)
Exclusive ==
  \A r \in Runners : holding(r) /\ at(r) \notin overrun =>
    /\ ledger[at(r)].st = "inflight"
    /\ \A s \in Runners \ {r} : holding(s) => at(s) # at(r)

(* An entry's work is done once, unless an attempt at it threw or died     *)
(* between its work and its record, which on D1 leaves its writes behind;  *)
(* in a real transaction there is no such exception.                       *)
OnceUnlessDisturbed == \A m \in Migs \ (disturbed \cup overrun) : effect[m] <= 1

(* An entry is run only when every earlier one is applied, and requests    *)
(* are served only when all are.                                           *)
OrderKept ==
  \A r \in Runners :
    /\ holding(r) => \A m \in Migs \ overrun : m < at(r) => isApplied(m)
    /\ pc(r, "serving") => \A m \in Migs \ overrun : isApplied(m)
=============================================================================
