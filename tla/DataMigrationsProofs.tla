------------------------ MODULE DataMigrationsProofs -------------------------
(***************************************************************************)
(* What holds of the ledger of data migrations for any number of isolates, *)
(* entries and faults, and any lease, budget and poll interval.            *)
(***************************************************************************)
EXTENDS DataMigrations, TLAPS

(* The disjuncts of Next, one per operation, with what they leave alone.   *)
Step(r) ==
  \/ begin(r)
  \/ /\ UNCHANGED <<store, overrun>>
     /\ \/ skip(r) \/ acquire(r) \/ serve(r) \/ tryClaim(r) \/ seeApplied(r)
        \/ seeHeld(r) \/ wake(r) \/ upReturns(r) \/ complete(r) \/ release(r)
        \/ upThrows(r) \/ completeFails(r) \/ releaseFails(r)
        \/ dieHolding(r) \/ die(r)

(* A run that is in the middle of an entry, or anywhere but idle or over.  *)
engaged(r) == runner[r].pc \in {"claim", "look", "sleep", "up", "worked", "undo"}
busy(r) == engaged(r) \/ pc(r, "loop")

InEntry == \A r \in Runners : engaged(r) => at(r) \in Migs

LEMMA NextIsAStep == Next => tick \/ \E r \in Runners : Step(r)
  BY DEF Next, Step, runStep, mishap

LEMMA Rows == absent \in RowType /\ applied \in RowType /\ inFlight \in RowType
  BY DataMigrationsAssumption DEF RowType, absent, applied, inFlight

LEMMA IdleRunType == idleRun \in Run
  BY DataMigrationsAssumption, Rows DEF Run, Pc, idleRun, Migs

LEMMA TypeInit == Init => TypeOK
  BY DataMigrationsAssumption, Rows, IdleRunType DEF Init, TypeOK

LEMMA DownType == ASSUME NEW k \in Nat, NEW n \in 0..k PROVE down(n) \in 0..k
  BY DEF down

(* The records a step may leave a run with. *)
LEMMA RunShapes ==
  ASSUME NEW q \in Run
  PROVE  /\ \A s \in Pc : [q EXCEPT !.pc = s] \in Run
         /\ \A k \in 1..(N + 1), d \in SUBSET Migs :
              [idleRun EXCEPT !.pc = "loop", !.at = k, !.done = d] \in Run
         /\ \A d \in SUBSET Migs : [q EXCEPT !.pc = "loop", !.done = d] \in Run
         /\ \A row \in RowType, w \in Nat :
              [q EXCEPT !.pc = "claim", !.wait = WAIT, !.row = row, !.was = w] \in Run
         /\ [q EXCEPT !.pc = "up", !.wait = 0] \in Run
         /\ [q EXCEPT !.pc = "sleep", !.nap = POLL] \in Run
         /\ [q EXCEPT !.wait = down(@), !.nap = down(@)] \in Run
<1>z. /\ 0 \in 0..WAIT /\ WAIT \in 0..WAIT /\ POLL \in 0..POLL
      /\ {"loop", "claim", "up", "sleep"} \subseteq Pc
  BY DataMigrationsAssumption DEF Pc
<1>1. \A s \in Pc : [q EXCEPT !.pc = s] \in Run
  BY DEF Run
<1>2. \A k \in 1..(N + 1), d \in SUBSET Migs :
        [idleRun EXCEPT !.pc = "loop", !.at = k, !.done = d] \in Run
  BY <1>z, IdleRunType DEF Run
<1>3. \A row \in RowType, w \in Nat :
        [q EXCEPT !.pc = "claim", !.wait = WAIT, !.row = row, !.was = w] \in Run
  BY <1>z DEF Run
<1>4. [q EXCEPT !.pc = "up", !.wait = 0] \in Run
  BY <1>z DEF Run
<1>5. [q EXCEPT !.pc = "sleep", !.nap = POLL] \in Run
  BY <1>z DEF Run
<1>6. [q EXCEPT !.wait = down(@), !.nap = down(@)] \in Run
  <2>1. down(q.wait) \in 0..WAIT /\ down(q.nap) \in 0..POLL
    BY DownType, DataMigrationsAssumption DEF Run
  <2> QED
    BY <2>1 DEF Run
<1>7. \A d \in SUBSET Migs : [q EXCEPT !.pc = "loop", !.done = d] \in Run
  BY <1>z DEF Run
<1> QED
  BY <1>1, <1>2, <1>3, <1>4, <1>5, <1>6, <1>7

(***************************************************************************)
(* A step of one isolate touches its own run only, and keeps the types.    *)
(***************************************************************************)
LEMMA TypeStep == ASSUME TypeOK, InEntry, NEW r \in Runners, Step(r) PROVE TypeOK'
<1> DEFINE q == runner[r]
<1>t. q \in Run /\ q.done \in SUBSET Migs /\ q.at \in 1..(N + 1) /\ q.row \in RowType /\ q.was \in Nat
  BY DEF TypeOK, Run
<1>o. /\ store \in Stores /\ overrun \in SUBSET Migs /\ disturbed \in SUBSET Migs
      /\ ledger \in [Migs -> RowType] /\ effect \in [Migs -> Nat]
      /\ runner \in [Runners -> Run] /\ faults \in 0..MaxFaults
  BY DEF TypeOK
<1>b. ASSUME NEW v \in Run, become(r, v) PROVE runner' \in [Runners -> Run]
  BY <1>b, <1>o DEF become
<1>j. ASSUME NEW s \in Pc, jump(r, s) PROVE runner' \in [Runners -> Run]
  BY <1>j, <1>b, <1>t, RunShapes DEF jump
<1>n. ASSUME at(r) \in Migs, nextEntry(r) PROVE runner' \in [Runners -> Run]
  <2>1. at(r) + 1 \in 1..(N + 1)
    BY <1>n, DataMigrationsAssumption DEF Migs
  <2> QED
    BY <2>1, <1>n, <1>b, <1>t, RunShapes DEF nextEntry
<1>f. fault => faults' \in 0..MaxFaults
  BY <1>o, DataMigrationsAssumption DEF fault
<1>p. /\ "idle" \in Pc /\ "loop" \in Pc /\ "claim" \in Pc /\ "look" \in Pc /\ "sleep" \in Pc
      /\ "up" \in Pc /\ "worked" \in Pc /\ "undo" \in Pc /\ "serving" \in Pc
  BY DEF Pc
<1>l. ASSUME NEW rows \in [Migs -> RowType], NEW work \in Nat, leave(r, rows, work), at(r) \in Migs
      PROVE  ledger' \in [Migs -> RowType] /\ effect' \in [Migs -> Nat] /\ disturbed' \in SUBSET Migs
  BY <1>l, <1>o, <1>t DEF leave, at
<1>1. CASE begin(r)
  BY <1>1, <1>o, <1>b, <1>t, IdleRunType, RunShapes, DataMigrationsAssumption DEF begin, TypeOK, idleRun
<1>2. CASE skip(r) /\ UNCHANGED <<store, overrun>>
  BY <1>2, <1>o, <1>t, <1>n DEF skip, TypeOK, at
<1>3. CASE acquire(r) /\ UNCHANGED <<store, overrun>>
  <2>1. ledger[at(r)] \in RowType /\ effect[at(r)] \in Nat
    BY <1>3, <1>o DEF acquire
  <2> QED
    BY <1>3, <2>1, <1>o, <1>t, <1>b, RunShapes DEF acquire, TypeOK
<1>4. CASE serve(r) /\ UNCHANGED <<store, overrun>>
  BY <1>4, <1>o, <1>j, <1>p DEF serve, TypeOK
<1>5. CASE tryClaim(r) /\ UNCHANGED <<store, overrun>>
  <2>1. CASE takeable(ledger[at(r)])
    BY <1>5, <2>1, <1>o, <1>t, <1>b, Rows, RunShapes DEF tryClaim, TypeOK
  <2>2. CASE ~takeable(ledger[at(r)])
    BY <1>5, <2>2, <1>o, <1>j, <1>p DEF tryClaim, TypeOK
  <2> QED
    BY <2>1, <2>2
<1>e. engaged(r) => at(r) \in Migs
  BY DEF InEntry
<1>6. CASE seeApplied(r) /\ UNCHANGED <<store, overrun>>
  BY <1>6, <1>o, <1>n, <1>e DEF seeApplied, lookApplied, TypeOK, engaged, pc
<1>7. CASE seeHeld(r) /\ UNCHANGED <<store, overrun>>
  BY <1>7, <1>o, <1>b, <1>t, IdleRunType, RunShapes DEF seeHeld, TypeOK
<1>8. CASE wake(r) /\ UNCHANGED <<store, overrun>>
  BY <1>8, <1>o, <1>j, <1>p DEF wake, TypeOK
<1>9. CASE upReturns(r) /\ UNCHANGED <<store, overrun>>
  <2>1. at(r) \in Migs
    BY <1>9, <1>e DEF upReturns, engaged, pc
  <2>2. effect' \in [Migs -> Nat]
    BY <1>9, <2>1, <1>o DEF upReturns
  <2> QED
    BY <1>9, <2>2, <1>o, <1>j, <1>p DEF upReturns, TypeOK
<1>10. CASE complete(r) /\ UNCHANGED <<store, overrun>>
  <2>1. at(r) \in Migs
    BY <1>10, <1>e DEF complete, engaged, pc
  <2>2. ledger' \in [Migs -> RowType]
    BY <1>10, <2>1, <1>o, Rows DEF complete
  <2> QED
    BY <1>10, <2>1, <2>2, <1>o, <1>n DEF complete, TypeOK
<1>11. CASE release(r) /\ UNCHANGED <<store, overrun>>
  <2>1. released(at(r)) \in [Migs -> RowType] /\ effect[at(r)] \in Nat /\ at(r) \in Migs
    BY <1>11, <1>o, <1>e, Rows DEF released, release, engaged, pc
  <2> QED
    BY <1>11, <2>1, <1>o, <1>b, <1>l, IdleRunType DEF release, TypeOK
<1>12. CASE upThrows(r) /\ UNCHANGED <<store, overrun>>
  <2>1. at(r) \in Migs
    BY <1>12, <1>e DEF upThrows, engaged, pc
  <2>2. effect' \in [Migs -> Nat] /\ disturbed' \in SUBSET Migs
    BY <1>12, <2>1, <1>o DEF upThrows
  <2> QED
    BY <1>12, <2>2, <1>o, <1>j, <1>p, <1>f DEF upThrows, TypeOK
<1>13. CASE completeFails(r) /\ UNCHANGED <<store, overrun>>
  <2>1. at(r) \in Migs
    BY <1>13, <1>e DEF completeFails, engaged, pc
  <2>2. disturbed' \in SUBSET Migs
    BY <1>13, <2>1, <1>o DEF completeFails
  <2> QED
    BY <1>13, <2>2, <1>o, <1>j, <1>p, <1>f DEF completeFails, TypeOK
<1>14. CASE releaseFails(r) /\ UNCHANGED <<store, overrun>>
  <2>1. effect[at(r)] \in Nat /\ at(r) \in Migs
    BY <1>14, <1>o, <1>e DEF releaseFails, engaged, pc
  <2> QED
    BY <1>14, <2>1, <1>o, <1>b, <1>l, <1>f, IdleRunType DEF releaseFails, TypeOK
<1>15. CASE dieHolding(r) /\ UNCHANGED <<store, overrun>>
  <2>1. effect[at(r)] \in Nat /\ at(r) \in Migs
    BY <1>15, <1>o, <1>e DEF dieHolding, engaged, holding
  <2>2. PICK part \in {0, 1} : leave(r, ledger, effect[at(r)] + part)
    BY <1>15 DEF dieHolding
  <2> QED
    BY <1>15, <2>1, <2>2, <1>o, <1>b, <1>l, <1>f, IdleRunType DEF dieHolding, TypeOK
<1>16. CASE die(r) /\ UNCHANGED <<store, overrun>>
  BY <1>16, <1>o, <1>b, <1>f, IdleRunType DEF die, TypeOK
<1> QED
  BY <1>1, <1>2, <1>3, <1>4, <1>5, <1>6, <1>7, <1>8, <1>9, <1>10, <1>11, <1>12,
     <1>13, <1>14, <1>15, <1>16 DEF Step

(* Time passes for rows and runs alike: what is left of a lease, a budget  *)
(* and a nap shrinks, and nothing else changes.                            *)
LEMMA TypeTick == ASSUME TypeOK, tick PROVE TypeOK'
<1>1. \A m \in Migs : [ledger[m] EXCEPT !.left = down(@)] \in RowType
  <2> SUFFICES ASSUME NEW m \in Migs PROVE [ledger[m] EXCEPT !.left = down(@)] \in RowType
    OBVIOUS
  <2>1. ledger[m] \in RowType /\ down(ledger[m].left) \in 0..TTL
    BY DownType, DataMigrationsAssumption DEF TypeOK, RowType
  <2> QED
    BY <2>1 DEF RowType
<1>2. \A r \in Runners : [runner[r] EXCEPT !.wait = down(@), !.nap = down(@)] \in Run
  BY RunShapes DEF TypeOK
<1>3. ledger' \in [Migs -> RowType] /\ runner' \in [Runners -> Run] /\ overrun' \in SUBSET Migs
  BY <1>1, <1>2 DEF tick, TypeOK
<1> QED
  BY <1>3 DEF tick, TypeOK

-----------------------------------------------------------------------------
(***************************************************************************)
(* The kinds of step, by what they do to the tables and to the run of r.   *)
(***************************************************************************)
sets(r, s, k, d, row, w) ==
  /\ runner'[r].pc = s
  /\ runner'[r].at = k
  /\ runner'[r].done = d
  /\ runner'[r].row = row
  /\ runner'[r].was = w
  /\ \A o \in Runners \ {r} : runner'[o] = runner[o]

keeps(r, s) == sets(r, s, at(r), runner[r].done, runner[r].row, runner[r].was)
stops(r)    == sets(r, "idle", 1, {}, absent, 0)
advances(r) == sets(r, "loop", at(r) + 1, runner[r].done, absent, 0)

Tables == <<store, ledger, effect, disturbed, overrun>>

Begins(r) ==
  /\ UNCHANGED Tables
  /\ pc(r, "idle")
  /\ transactional => \A s \in Runners : ~busy(s)
  /\ sets(r, "loop", 1, {m \in Migs : isApplied(m)}, absent, 0)

Passes(r) ==
  /\ UNCHANGED Tables
  /\ busy(r) /\ ~holding(r) /\ at(r) \in Migs
  /\ at(r) \in runner[r].done \/ isApplied(at(r))
  /\ advances(r)

Opens(r) ==
  /\ UNCHANGED Tables
  /\ busy(r) /\ ~holding(r) /\ at(r) \in Migs
  /\ sets(r, "claim", at(r), runner[r].done, ledger[at(r)], effect[at(r)])

Serves(r) ==
  /\ UNCHANGED Tables
  /\ busy(r) /\ ~holding(r) /\ at(r) = N + 1
  /\ keeps(r, "serving")

Waits(r) ==
  /\ UNCHANGED Tables
  /\ engaged(r) /\ ~holding(r)
  /\ \E s \in {"claim", "look", "sleep"} : keeps(r, s)

GivesUp(r) ==
  /\ UNCHANGED Tables
  /\ ~holding(r)
  /\ stops(r)

Claims(r) ==
  /\ pc(r, "claim") /\ takeable(ledger[at(r)])
  /\ ledger' = [ledger EXCEPT ![at(r)] = inFlight]
  /\ UNCHANGED <<store, effect, disturbed, overrun>>
  /\ keeps(r, "up")

Works(r) ==
  /\ pc(r, "up")
  /\ effect' = [effect EXCEPT ![at(r)] = @ + 1]
  /\ UNCHANGED <<store, ledger, disturbed, overrun>>
  /\ keeps(r, "worked")

Completes(r) ==
  /\ pc(r, "worked")
  /\ ledger' = IF ledger[at(r)].st = "absent" THEN ledger
               ELSE [ledger EXCEPT ![at(r)] = applied]
  /\ UNCHANGED <<store, effect, disturbed, overrun>>
  /\ advances(r)

Fails(r) ==
  /\ \E part \in {0, 1} :
       /\ pc(r, "up") \/ (pc(r, "worked") /\ part = 0)
       /\ effect' = [effect EXCEPT ![at(r)] = @ + part]
  /\ disturbed' = IF transactional THEN disturbed ELSE disturbed \cup {at(r)}
  /\ UNCHANGED <<store, ledger, overrun>>
  /\ keeps(r, "undo")

Leaves(r) ==
  /\ holding(r)
  /\ \E rows \in {ledger, released(at(r))}, part \in {0, 1} :
       leave(r, rows, effect[at(r)] + part)
  /\ UNCHANGED <<store, overrun>>
  /\ stops(r)

Kinds(r) ==
  \/ Begins(r) \/ Passes(r) \/ Opens(r) \/ Serves(r) \/ Waits(r) \/ GivesUp(r)
  \/ Claims(r) \/ Works(r) \/ Completes(r) \/ Fails(r) \/ Leaves(r)

LEMMA StepKinds == ASSUME TypeOK, InEntry, NEW r \in Runners, Step(r) PROVE Kinds(r)
<1>t. /\ runner \in [Runners -> Run] /\ runner[r] \in Run
      /\ effect \in [Migs -> Nat]
      /\ engaged(r) => at(r) \in Migs /\ effect[at(r)] \in Nat
  BY DEF TypeOK, InEntry
<1>b. ASSUME NEW v, become(r, v)
      PROVE  runner'[r] = v /\ \A o \in Runners \ {r} : runner'[o] = runner[o]
  BY <1>b, <1>t DEF become
<1>j. ASSUME NEW s, jump(r, s) PROVE keeps(r, s)
  BY <1>j, <1>b, <1>t DEF jump, keeps, sets, at, Run
<1>i. ASSUME become(r, idleRun) PROVE stops(r)
  BY <1>i, <1>b DEF stops, sets, idleRun
<1>n. ASSUME nextEntry(r) PROVE advances(r)
  <2>1. become(r, [idleRun EXCEPT !.pc = "loop", !.at = at(r) + 1, !.done = runner[r].done])
    BY <1>n DEF nextEntry
  <2> DEFINE v == [idleRun EXCEPT !.pc = "loop", !.at = at(r) + 1, !.done = runner[r].done]
  <2>2. /\ v.pc = "loop" /\ v.at = at(r) + 1 /\ v.done = runner[r].done
        /\ v.row = absent /\ v.was = 0
    BY DEF idleRun
  <2> HIDE DEF v
  <2> QED
    BY <2>1, <1>b, <2>2 DEF advances, sets, v
<1> USE DEF Kinds
<1>1. CASE begin(r)
  <2> DEFINE d == {m \in Migs : isApplied(m)}
  <2>1. become(r, [idleRun EXCEPT !.pc = "loop", !.done = d])
    BY <1>1 DEF begin
  <2> DEFINE v == [idleRun EXCEPT !.pc = "loop", !.done = d]
  <2> HIDE DEF d
  <2>4. v.pc = "loop" /\ v.at = 1 /\ v.done = d /\ v.row = absent /\ v.was = 0
    BY DEF idleRun
  <2> HIDE DEF v
  <2>2. sets(r, "loop", 1, d, absent, 0)
    BY <2>1, <1>b, <2>4 DEF sets, v
  <2>3. Begins(r)
    BY <1>1, <2>2 DEF begin, Begins, Tables, busy, engaged, pc, d
  <2> QED BY <2>3
<1>2. CASE skip(r) /\ UNCHANGED <<store, overrun>>
  <2>1. Passes(r)
    BY <1>2, <1>n, <1>t DEF skip, Passes, Tables, busy, holding, pc, at, Run
  <2> QED BY <2>1
<1>3. CASE acquire(r) /\ UNCHANGED <<store, overrun>>
  <2>1. become(r, [runner[r] EXCEPT !.pc = "claim", !.wait = WAIT,
                                    !.row = ledger[at(r)], !.was = effect[at(r)]])
    BY <1>3 DEF acquire
  <2> DEFINE v == [runner[r] EXCEPT !.pc = "claim", !.wait = WAIT,
                                    !.row = ledger[at(r)], !.was = effect[at(r)]]
  <2>4. /\ v.pc = "claim" /\ v.at = runner[r].at /\ v.done = runner[r].done
        /\ v.row = ledger[at(r)] /\ v.was = effect[at(r)]
    BY <1>t DEF Run
  <2> HIDE DEF v
  <2>2. sets(r, "claim", at(r), runner[r].done, ledger[at(r)], effect[at(r)])
    BY <2>1, <1>b, <2>4 DEF sets, at, v
  <2>3. Opens(r)
    BY <1>3, <2>2 DEF acquire, Opens, Tables, busy, holding, pc
  <2> QED BY <2>3
<1>4. CASE serve(r) /\ UNCHANGED <<store, overrun>>
  <2>1. Serves(r)
    BY <1>4, <1>j DEF serve, Serves, Tables, busy, holding, pc
  <2> QED BY <2>1
<1>5. CASE tryClaim(r) /\ UNCHANGED <<store, overrun>>
  <2>1. CASE takeable(ledger[at(r)])
    <3>1. become(r, [runner[r] EXCEPT !.pc = "up", !.wait = 0])
      BY <1>5, <2>1 DEF tryClaim
    <3> DEFINE v == [runner[r] EXCEPT !.pc = "up", !.wait = 0]
    <3>4. /\ v.pc = "up" /\ v.at = runner[r].at /\ v.done = runner[r].done
          /\ v.row = runner[r].row /\ v.was = runner[r].was
      BY <1>t DEF Run
    <3> HIDE DEF v
    <3>2. keeps(r, "up")
      BY <3>1, <1>b, <3>4 DEF keeps, sets, at, v
    <3>3. Claims(r)
      BY <1>5, <2>1, <3>2 DEF tryClaim, Claims
    <3> QED BY <3>3
  <2>2. CASE ~takeable(ledger[at(r)])
    <3>1. Waits(r)
      BY <1>5, <2>2, <1>j DEF tryClaim, Waits, Tables, engaged, holding, pc
    <3> QED BY <3>1
  <2> QED BY <2>1, <2>2
<1>6. CASE seeApplied(r) /\ UNCHANGED <<store, overrun>>
  <2>1. Passes(r)
    BY <1>6, <1>n, <1>t DEF seeApplied, lookApplied, Passes, Tables, busy, engaged, holding, pc
  <2> QED BY <2>1
<1>7. CASE seeHeld(r) /\ UNCHANGED <<store, overrun>>
  <2>1. CASE runner[r].wait = 0
    <3>1. GivesUp(r)
      BY <1>7, <2>1, <1>i DEF seeHeld, GivesUp, Tables, holding, pc
    <3> QED BY <3>1
  <2>2. CASE runner[r].wait # 0
    <3>1. become(r, [runner[r] EXCEPT !.pc = "sleep", !.nap = POLL])
      BY <1>7, <2>2 DEF seeHeld
    <3> DEFINE v == [runner[r] EXCEPT !.pc = "sleep", !.nap = POLL]
    <3>4. /\ v.pc = "sleep" /\ v.at = runner[r].at /\ v.done = runner[r].done
          /\ v.row = runner[r].row /\ v.was = runner[r].was
      BY <1>t DEF Run
    <3> HIDE DEF v
    <3>2. keeps(r, "sleep")
      BY <3>1, <1>b, <3>4 DEF keeps, sets, at, v
    <3>3. Waits(r)
      BY <1>7, <3>2 DEF seeHeld, Waits, Tables, engaged, holding, pc
    <3> QED BY <3>3
  <2> QED BY <2>1, <2>2
<1>8. CASE wake(r) /\ UNCHANGED <<store, overrun>>
  <2>1. Waits(r)
    BY <1>8, <1>j DEF wake, Waits, Tables, engaged, holding, pc
  <2> QED BY <2>1
<1>9. CASE upReturns(r) /\ UNCHANGED <<store, overrun>>
  <2>1. Works(r)
    BY <1>9, <1>j DEF upReturns, Works
  <2> QED BY <2>1
<1>10. CASE complete(r) /\ UNCHANGED <<store, overrun>>
  <2>1. Completes(r)
    BY <1>10, <1>n DEF complete, Completes
  <2> QED BY <2>1
<1>11. CASE release(r) /\ UNCHANGED <<store, overrun>>
  <2>1. Leaves(r)
    BY <1>11, <1>i, <1>t DEF release, Leaves, holding, engaged, pc
  <2> QED BY <2>1
<1>12. CASE upThrows(r) /\ UNCHANGED <<store, overrun>>
  <2>1. Fails(r)
    BY <1>12, <1>j DEF upThrows, Fails
  <2> QED BY <2>1
<1>13. CASE completeFails(r) /\ UNCHANGED <<store, overrun>>
  <2>1. effect = [effect EXCEPT ![at(r)] = @ + 0]
    BY <1>13, <1>t DEF completeFails, engaged, pc
  <2>2. Fails(r)
    BY <1>13, <2>1, <1>j DEF completeFails, Fails
  <2> QED BY <2>2
<1>14. CASE releaseFails(r) /\ UNCHANGED <<store, overrun>>
  <2>1. Leaves(r)
    BY <1>14, <1>i, <1>t DEF releaseFails, Leaves, holding, engaged, pc
  <2> QED BY <2>1
<1>15. CASE dieHolding(r) /\ UNCHANGED <<store, overrun>>
  <2>1. Leaves(r)
    BY <1>15, <1>i, <1>t DEF dieHolding, Leaves
  <2> QED BY <2>1
<1>16. CASE die(r) /\ UNCHANGED <<store, overrun>>
  <2>1. GivesUp(r)
    BY <1>16, <1>i DEF die, GivesUp, Tables
  <2> QED BY <2>1
<1> QED
  BY <1>1, <1>2, <1>3, <1>4, <1>5, <1>6, <1>7, <1>8, <1>9, <1>10, <1>11, <1>12,
     <1>13, <1>14, <1>15, <1>16 DEF Step

LEMMA RowFields ==
  /\ absent.st = "absent" /\ applied.st = "applied"
  /\ inFlight.st = "inflight" /\ inFlight.left = TTL
  BY DEF absent, applied, inFlight

LEMMA TickFields ==
  ASSUME TypeOK, tick
  PROVE  /\ \A m \in Migs : /\ ledger'[m].st = ledger[m].st
                            /\ ledger'[m].left = down(ledger[m].left)
         /\ \A r \in Runners :
              /\ runner'[r].pc = runner[r].pc /\ runner'[r].at = runner[r].at
              /\ runner'[r].done = runner[r].done
              /\ runner'[r].row = runner[r].row /\ runner'[r].was = runner[r].was
         /\ UNCHANGED <<store, effect, disturbed>>
<1>1. \A m \in Migs : ledger[m] \in RowType
  BY DEF TypeOK
<1>2. \A r \in Runners : runner[r] \in Run
  BY DEF TypeOK
<1>3. ASSUME NEW m \in Migs
      PROVE  ledger'[m].st = ledger[m].st /\ ledger'[m].left = down(ledger[m].left)
  BY <1>1 DEF tick, RowType
<1>4. ASSUME NEW r \in Runners
      PROVE  /\ runner'[r].pc = runner[r].pc /\ runner'[r].at = runner[r].at
             /\ runner'[r].done = runner[r].done
             /\ runner'[r].row = runner[r].row /\ runner'[r].was = runner[r].was
  BY <1>2 DEF tick, Run
<1> QED
  BY <1>3, <1>4 DEF tick

-----------------------------------------------------------------------------
(***************************************************************************)
(* The inductive invariant, first half: what the records mean.             *)
(*                                                                         *)
(* AppliedMeansDone needs the runs as well as the ledger: one that is      *)
(* about to complete its entry has done the work, and the row a            *)
(* transaction would restore told the truth when it was read.  On a        *)
(* Durable Object only one run is under way, and the row in its hand is    *)
(* in flight: that is why undoing its transaction takes no record away.    *)
(***************************************************************************)
RunsHonest ==
  \A r \in Runners :
    /\ pc(r, "worked") => effect[at(r)] > 0
    /\ runner[r].row.st = "applied" => runner[r].was > 0

RunsAlone ==
  transactional =>
    \A r \in Runners :
      /\ busy(r) => \A s \in Runners \ {r} : ~busy(s)
      /\ holding(r) => ledger[at(r)].st = "inflight"

RecordInv == TypeOK /\ InEntry /\ AppliedMeansDone /\ RunsHonest /\ RunsAlone

LEMMA RecordInit == Init => RecordInv
<1> SUFFICES ASSUME Init PROVE RecordInv
  OBVIOUS
<1>1. \A r \in Runners : runner[r].pc = "idle" /\ runner[r].row.st = "absent"
  BY RowFields DEF Init, idleRun
<1>2. \A m \in Migs : ledger[m].st = "absent"
  BY RowFields DEF Init
<1> QED
  BY <1>1, <1>2, TypeInit
     DEF RecordInv, InEntry, AppliedMeansDone, isApplied, RunsHonest, RunsAlone, engaged, busy, holding, pc

LEMMA InEntryStep == ASSUME TypeOK, InEntry, NEW r \in Runners, Kinds(r) PROVE InEntry'
<1> SUFFICES ASSUME NEW s \in Runners, engaged(s)' PROVE at(s)' \in Migs
  BY DEF InEntry
<1>1. CASE s # r
  BY <1>1 DEF InEntry, engaged, at, Kinds, sets, keeps, stops, advances, Begins, Passes, Opens,
     Serves, Waits, GivesUp, Claims, Works, Completes, Fails, Leaves
<1>2. CASE s = r
  BY <1>2 DEF InEntry, engaged, at, pc, holding, Kinds, sets, keeps, stops, advances, Begins, Passes, Opens,
     Serves, Waits, GivesUp, Claims, Works, Completes, Fails, Leaves
<1> QED
  BY <1>1, <1>2

(* The fields of what a failed attempt leaves behind. *)
LEMMA LeaveFields ==
  ASSUME RecordInv, NEW r \in Runners, Leaves(r)
  PROVE  LET m == at(r)
         IN  /\ m \in Migs
             /\ \A k \in Migs \ {m} : ledger'[k] = ledger[k] /\ effect'[k] = effect[k]
             /\ transactional =>
                  /\ ledger'[m] = runner[r].row /\ effect'[m] = runner[r].was
                  /\ disturbed' = disturbed
                  /\ ledger[m].st = "inflight"
             /\ ~transactional =>
                  /\ ledger'[m] = ledger[m] \/ (ledger'[m] = absent /\ ledger[m].st = "inflight")
                  /\ effect'[m] >= effect[m]
                  /\ disturbed' = disturbed \cup {m}
<1> DEFINE m == at(r)
<1>1. m \in Migs /\ effect[m] \in Nat /\ effect \in [Migs -> Nat] /\ ledger \in [Migs -> RowType]
  BY DEF Leaves, RecordInv, InEntry, TypeOK, holding, engaged
<1>2. PICK rows \in {ledger, released(m)}, part \in {0, 1} : leave(r, rows, effect[m] + part)
  BY DEF Leaves
<1>3. CASE transactional
  <2>1. ledger' = [ledger EXCEPT ![m] = runner[r].row] /\ effect' = [effect EXCEPT ![m] = runner[r].was]
        /\ disturbed' = disturbed
    BY <1>2, <1>3 DEF leave
  <2>2. ledger[m].st = "inflight"
    BY <1>3 DEF Leaves, RecordInv, RunsAlone
  <2> QED
    BY <1>1, <1>3, <2>1, <2>2
<1>4. CASE ~transactional
  <2>1. ledger' = rows /\ effect' = [effect EXCEPT ![m] = effect[m] + part]
        /\ disturbed' = disturbed \cup {m}
    BY <1>2, <1>4 DEF leave
  <2>2. \/ rows = ledger
        \/ ledger[m].st = "inflight" /\ rows = [ledger EXCEPT ![m] = absent]
    BY <1>2 DEF released
  <2> QED
    BY <1>1, <1>4, <2>1, <2>2
<1> QED
  BY <1>3, <1>4

(* No step takes an applied record away. *)
LEMMA AppliedStays ==
  ASSUME RecordInv, NEW r \in Runners, Kinds(r), NEW k \in Migs, isApplied(k)
  PROVE  isApplied(k)'
<1>t. /\ ledger \in [Migs -> RowType] /\ (engaged(r) => at(r) \in Migs)
  BY DEF RecordInv, TypeOK, InEntry
<1>1. CASE Begins(r) \/ Passes(r) \/ Opens(r) \/ Serves(r) \/ Waits(r) \/ GivesUp(r) \/ Works(r) \/ Fails(r)
  BY <1>1 DEF isApplied, Begins, Passes, Opens, Serves, Waits, GivesUp, Works, Fails, Tables
<1>2. CASE Claims(r)
  BY <1>2, <1>t DEF isApplied, Claims, takeable, engaged, pc
<1>3. CASE Completes(r)
  BY <1>3, <1>t, RowFields DEF isApplied, Completes, engaged, pc
<1>4. CASE Leaves(r)
  <2>1. ledger[at(r)].st # "inflight" => ledger'[at(r)] = ledger[at(r)]
    BY <1>4, LeaveFields
  <2> QED
    BY <1>4, <2>1, LeaveFields DEF isApplied
<1> QED
  BY <1>1, <1>2, <1>3, <1>4 DEF Kinds

LEMMA EffectType ==
  ASSUME RecordInv, NEW r \in Runners, Leaves(r), NEW k \in Migs
  PROVE  effect[k] \in Nat /\ effect'[k] \in Nat
<1>1. /\ effect \in [Migs -> Nat] /\ runner[r].was \in Nat /\ at(r) \in Migs
  BY LeaveFields DEF RecordInv, TypeOK, Run
<1>2. PICK rows \in {ledger, released(at(r))}, part \in {0, 1} : leave(r, rows, effect[at(r)] + part)
  BY DEF Leaves
<1> QED
  BY <1>1, <1>2 DEF leave

LEMMA AppliedDoneStep ==
  ASSUME RecordInv, NEW r \in Runners, Kinds(r)
  PROVE  AppliedMeansDone'
<1> SUFFICES ASSUME NEW k \in Migs, ledger'[k].st = "applied" PROVE effect'[k] > 0
  BY DEF AppliedMeansDone, isApplied
<1>t. /\ ledger \in [Migs -> RowType] /\ effect \in [Migs -> Nat]
      /\ engaged(r) => at(r) \in Migs
      /\ ledger[k].st = "applied" => effect[k] > 0
  BY DEF RecordInv, TypeOK, InEntry, AppliedMeansDone, isApplied
<1>1. CASE Begins(r) \/ Passes(r) \/ Opens(r) \/ Serves(r) \/ Waits(r) \/ GivesUp(r)
  BY <1>1, <1>t DEF Begins, Passes, Opens, Serves, Waits, GivesUp, Tables
<1>2. CASE Claims(r)
  BY <1>2, <1>t, RowFields DEF Claims, engaged, pc
<1>3. CASE Works(r)
  BY <1>3, <1>t DEF Works, engaged, pc
<1>4. CASE Completes(r)
  <2>1. effect[at(r)] > 0
    BY <1>4 DEF Completes, RecordInv, RunsHonest
  <2> QED
    BY <1>4, <2>1, <1>t, RowFields DEF Completes, engaged, pc
<1>5. CASE Fails(r)
  <2>1. PICK part \in {0, 1} : effect' = [effect EXCEPT ![at(r)] = @ + part]
    BY <1>5 DEF Fails
  <2>2. ledger' = ledger
    BY <1>5 DEF Fails
  <2> QED
    BY <2>1, <2>2, <1>t
<1>6. CASE Leaves(r)
  <2>1. CASE k # at(r)
    BY <1>6, <2>1, <1>t, LeaveFields
  <2>2. CASE k = at(r) /\ transactional
    <3>1. ledger'[k] = runner[r].row /\ effect'[k] = runner[r].was
      BY <1>6, <2>2, LeaveFields
    <3> QED
      BY <3>1 DEF RecordInv, RunsHonest
  <2>3. CASE k = at(r) /\ ~transactional
    <3>1. (ledger'[k] = ledger[k] \/ ledger'[k] = absent) /\ effect'[k] >= effect[k]
      BY <1>6, <2>3, LeaveFields
    <3>2. ledger[k].st = "applied" /\ effect[k] \in Nat /\ effect'[k] \in Nat
      BY <3>1, <1>t, <1>6, EffectType, RowFields
    <3> QED
      BY <3>1, <3>2, <1>t
  <2> QED
    BY <2>1, <2>2, <2>3
<1> QED
  BY <1>1, <1>2, <1>3, <1>4, <1>5, <1>6 DEF Kinds

LEMMA RunsHonestStep ==
  ASSUME RecordInv, NEW r \in Runners, Kinds(r)
  PROVE  RunsHonest'
<1> SUFFICES ASSUME NEW s \in Runners
             PROVE  /\ runner'[s].pc = "worked" => effect'[runner'[s].at] > 0
                    /\ runner'[s].row.st = "applied" => runner'[s].was > 0
  BY DEF RunsHonest, pc, at
<1>t. /\ ledger \in [Migs -> RowType] /\ effect \in [Migs -> Nat]
      /\ engaged(r) => at(r) \in Migs
      /\ engaged(s) => at(s) \in Migs
      /\ pc(s, "worked") => effect[at(s)] > 0
      /\ runner[s].row.st = "applied" => runner[s].was > 0
  BY DEF RecordInv, TypeOK, InEntry, RunsHonest
<1>1. CASE Begins(r) \/ Passes(r) \/ Serves(r) \/ Waits(r) \/ GivesUp(r) \/ Claims(r) \/ Completes(r)
  BY <1>1, <1>t, RowFields DEF Begins, Passes, Serves, Waits, GivesUp, Claims, Completes, Tables,
     sets, keeps, stops, advances, pc, at
<1>2. CASE Opens(r)
  BY <1>2, <1>t DEF Opens, Tables, sets, pc, at, RecordInv, AppliedMeansDone, isApplied
<1>3. CASE Works(r)
  BY <1>3, <1>t DEF Works, sets, keeps, engaged, pc, at
<1>4. CASE Fails(r)
  <2>1. PICK part \in {0, 1} : effect' = [effect EXCEPT ![at(r)] = @ + part]
    BY <1>4 DEF Fails
  <2> QED
    BY <1>4, <2>1, <1>t DEF Fails, sets, keeps, engaged, pc, at
<1>5. CASE Leaves(r)
  <2>1. CASE s = r
    BY <1>5, <2>1, RowFields DEF Leaves, stops, sets
  <2>2. CASE s # r
    <3>1. runner'[s] = runner[s]
      BY <1>5, <2>2 DEF Leaves, stops, sets
    <3>2. ASSUME pc(s, "worked") PROVE effect'[at(s)] > 0
      <4>1. ~transactional
        BY <1>5, <2>2, <3>2 DEF Leaves, RecordInv, RunsAlone, busy, engaged, holding, pc
      <4>2. at(s) # at(r) => effect'[at(s)] = effect[at(s)]
        BY <1>5, <3>2, <1>t, LeaveFields DEF engaged, pc
      <4>3. at(s) = at(r) => effect'[at(s)] >= effect[at(s)]
        BY <1>5, <4>1, LeaveFields
      <4>4. effect[at(s)] \in Nat /\ effect'[at(s)] \in Nat
        BY <3>2, <1>t, <1>5, EffectType DEF engaged, pc
      <4> QED
        BY <4>2, <4>3, <4>4, <3>2, <1>t
    <3> QED
      BY <3>1, <3>2, <1>t DEF pc, at
  <2> QED
    BY <2>1, <2>2
<1> QED
  BY <1>1, <1>2, <1>3, <1>4, <1>5 DEF Kinds

(* Only a run that begins becomes busy. *)
LEMMA BusyStep ==
  ASSUME NEW r \in Runners, Kinds(r)
  PROVE  /\ \A o \in Runners \ {r} : runner'[o] = runner[o]
         /\ busy(r)' => busy(r) \/ Begins(r)
         /\ UNCHANGED store
         /\ Begins(r) \/ GivesUp(r) \/ busy(r)
  BY DEF Kinds, Begins, Passes, Opens, Serves, Waits, GivesUp, Claims, Works, Completes, Fails, Leaves,
     Tables, sets, keeps, stops, advances, busy, engaged, holding, pc

LEMMA RunsAloneStep ==
  ASSUME RecordInv, NEW r \in Runners, Kinds(r)
  PROVE  RunsAlone'
<1> SUFFICES ASSUME transactional, NEW s \in Runners
             PROVE  /\ busy(s)' => \A o \in Runners \ {s} : ~busy(o)'
                    /\ holding(s)' => ledger'[runner'[s].at].st = "inflight"
  BY BusyStep DEF RunsAlone, transactional, at
<1>t. /\ ledger \in [Migs -> RowType]
      /\ engaged(r) => at(r) \in Migs
      /\ \A p \in Runners : busy(p) => \A o \in Runners \ {p} : ~busy(o)
      /\ \A p \in Runners : holding(p) => ledger[at(p)].st = "inflight"
  BY DEF RecordInv, TypeOK, InEntry, RunsAlone
<1>1. ASSUME busy(s)', NEW o \in Runners \ {s} PROVE ~busy(o)'
  <2>1. CASE Begins(r)
    <3>1. \A p \in Runners : ~busy(p)
      BY <2>1 DEF Begins
    <3> QED
      BY <1>1, <3>1, BusyStep DEF busy, engaged, pc
  <2>2. CASE ~Begins(r)
    BY <1>1, <2>2, <1>t, BusyStep DEF busy, engaged, pc
  <2> QED
    BY <2>1, <2>2
<1>2. ASSUME holding(s)' PROVE ledger'[runner'[s].at].st = "inflight"
  <2>1. CASE s # r
    <3>1. runner'[s] = runner[s]
      BY <2>1, BusyStep
    <3>2. holding(s) /\ busy(s)
      BY <1>2, <3>1 DEF holding, busy, engaged
    <3>3. Begins(r) \/ GivesUp(r)
      BY <2>1, <3>2, <1>t, BusyStep
    <3> QED
      BY <3>1, <3>2, <3>3, <1>t DEF Begins, GivesUp, Tables, at
  <2>2. CASE s = r
    <3>1. Claims(r) \/ Works(r) \/ Fails(r)
      BY <1>2, <2>2 DEF Kinds, Begins, Passes, Opens, Serves, Waits, GivesUp, Completes, Leaves,
         sets, keeps, stops, advances, holding
    <3>2. runner'[r].at = at(r) /\ engaged(r)
      BY <3>1 DEF Claims, Works, Fails, keeps, sets, engaged, pc
    <3>3. CASE Claims(r)
      BY <3>2, <3>3, <2>2, <1>t, RowFields DEF Claims
    <3>4. CASE Works(r) \/ Fails(r)
      BY <3>2, <3>4, <2>2, <1>t DEF Works, Fails, holding, pc
    <3> QED
      BY <3>1, <3>3, <3>4
  <2> QED
    BY <2>1, <2>2
<1> QED
  BY <1>1, <1>2

LEMMA RecordTick == ASSUME RecordInv, tick PROVE RecordInv'
<1>1. TypeOK'
  BY TypeTick DEF RecordInv
<1>2. InEntry' /\ RunsHonest'
  BY TickFields DEF RecordInv, InEntry, RunsHonest, engaged, pc, at
<1>3. AppliedMeansDone'
  BY TickFields DEF RecordInv, AppliedMeansDone, isApplied
<1>4. RunsAlone'
  <2>1. \A r \in Runners : holding(r) => at(r) \in Migs
    BY DEF RecordInv, InEntry, holding, engaged
  <2> QED
    BY <2>1, TickFields DEF RecordInv, RunsAlone, transactional, busy, engaged, holding, pc, at
<1> QED
  BY <1>1, <1>2, <1>3, <1>4 DEF RecordInv

LEMMA RecordStep == RecordInv /\ [Next]_vars => RecordInv'
<1> SUFFICES ASSUME RecordInv, [Next]_vars PROVE RecordInv'
  OBVIOUS
<1>1. CASE tick
  BY <1>1, RecordTick
<1>2. ASSUME NEW r \in Runners, Step(r) PROVE RecordInv'
  <2>1. Kinds(r) /\ TypeOK'
    BY <1>2, StepKinds, TypeStep DEF RecordInv
  <2> QED
    BY <2>1, InEntryStep, AppliedDoneStep, RunsHonestStep, RunsAloneStep DEF RecordInv
<1>3. CASE UNCHANGED vars
  BY <1>3 DEF vars, RecordInv, TypeOK, InEntry, AppliedMeansDone, RunsHonest, RunsAlone, isApplied,
     transactional, busy, engaged, holding, pc, at
<1> QED
  BY <1>1, <1>2, <1>3, NextIsAStep

(* The types of the ledger, the runs and the history variables. *)
THEOREM TypeCorrect == Spec => []TypeOK
<1>1. RecordInv => TypeOK
  BY DEF RecordInv
<1> QED
  BY <1>1, RecordInit, RecordStep, PTL DEF Spec

(* An entry that reads as applied was done: nothing that failed, died, was *)
(* stolen, released or rolled back makes a record.                         *)
THEOREM RecordsAreTrue == Spec => []AppliedMeansDone
<1>1. RecordInv => AppliedMeansDone
  BY DEF RecordInv
<1> QED
  BY <1>1, RecordInit, RecordStep, PTL DEF Spec

(* A record is never taken away, neither by a late release nor by a late   *)
(* claim nor by a transaction that is undone.                              *)
THEOREM RecordsAreForever == Spec => AppliedIsForever
<1>1. RecordInv /\ [Next]_vars => [\A m \in Migs : isApplied(m) => ledger'[m].st = "applied"]_vars
  <2> SUFFICES ASSUME RecordInv, Next, NEW m \in Migs, isApplied(m)
               PROVE  ledger'[m].st = "applied"
    OBVIOUS
  <2>1. CASE tick
    BY <2>1, TickFields DEF RecordInv, isApplied
  <2>2. ASSUME NEW r \in Runners, Step(r) PROVE ledger'[m].st = "applied"
    <3>1. Kinds(r)
      BY <2>2, StepKinds DEF RecordInv
    <3> QED
      BY <3>1, AppliedStays DEF isApplied
  <2> QED
    BY <2>1, <2>2, NextIsAStep
<1> QED
  BY <1>1, RecordInit, RecordStep, PTL DEF Spec, AppliedIsForever

-----------------------------------------------------------------------------
(***************************************************************************)
(* The inductive invariant, second half: what a lease that has not run out *)
(* under its holder guarantees.  Exclusive must also say that the lease is *)
(* live, or the next claim could take the row.                             *)
(***************************************************************************)
Leased ==
  \A r \in Runners : holding(r) /\ at(r) \notin overrun =>
    /\ ledger[at(r)].st = "inflight" /\ ledger[at(r)].left > 0
    /\ \A s \in Runners \ {r} : holding(s) => at(s) # at(r)

LEMMA LeasedStep ==
  ASSUME RecordInv, Leased, NEW r \in Runners, Kinds(r)
  PROVE  Leased'
<1> SUFFICES ASSUME NEW s \in Runners, holding(s)', at(s)' \notin overrun'
             PROVE  /\ ledger'[runner'[s].at].st = "inflight" /\ ledger'[runner'[s].at].left > 0
                    /\ \A o \in Runners \ {s} : holding(o)' => runner'[o].at # runner'[s].at
  BY DEF Leased, at
<1>t. /\ ledger \in [Migs -> RowType] /\ overrun' = overrun
      /\ engaged(r) => at(r) \in Migs
      /\ engaged(s) => at(s) \in Migs
      /\ \A o \in Runners \ {r} : runner'[o] = runner[o]
  BY BusyStep DEF RecordInv, TypeOK, InEntry, Kinds, Begins, Passes, Opens, Serves, Waits, GivesUp,
     Claims, Works, Completes, Fails, Leaves, Tables
<1>l. ASSUME NEW p \in Runners, holding(p), at(p) \notin overrun
      PROVE  /\ ledger[at(p)].st = "inflight" /\ ledger[at(p)].left > 0
             /\ \A o \in Runners \ {p} : holding(o) => at(o) # at(p)
  BY <1>l DEF Leased
<1>h. \/ Claims(r)
      \/ Works(r) \/ Fails(r)
      \/ ~holding(r)'
  BY DEF Kinds, Begins, Passes, Opens, Serves, Waits, GivesUp, Completes, Leaves,
     sets, keeps, stops, advances, holding
<1>1. CASE Claims(r)
  <2>1. /\ ledger' = [ledger EXCEPT ![at(r)] = inFlight] /\ at(r) \in Migs
        /\ runner'[r].at = at(r) /\ ~holding(r)
        /\ takeable(ledger[at(r)])
    BY <1>1, <1>t DEF Claims, keeps, sets, engaged, holding, pc
  <2>2. \A p \in Runners : holding(p) /\ at(p) \notin overrun => at(p) # at(r)
    BY <2>1, <1>l DEF takeable
  <2>3. ledger'[at(r)].st = "inflight" /\ ledger'[at(r)].left > 0
    BY <2>1, <1>t, RowFields, DataMigrationsAssumption
  <2>4. CASE s = r
    BY <2>1, <2>2, <2>3, <2>4, <1>t DEF holding, at
  <2>5. CASE s # r
    <3>1. holding(s) /\ at(s) \notin overrun /\ runner'[s].at = at(s)
      BY <2>5, <1>t DEF holding, at
    <3>2. at(s) # at(r) /\ at(s) \in Migs
      BY <3>1, <2>2, <1>t DEF holding, engaged
    <3> QED
      BY <3>1, <3>2, <2>1, <1>l, <1>t DEF holding, at
  <2> QED
    BY <2>4, <2>5
<1>2. CASE Works(r) \/ Fails(r)
  <2>1. ledger' = ledger /\ holding(r) /\ runner'[r].at = at(r)
    BY <1>2 DEF Works, Fails, keeps, sets, holding, pc
  <2> QED
    BY <2>1, <1>t, <1>l DEF holding, at
<1>3. CASE ~holding(r)'
  <2>1. s # r /\ holding(s) /\ at(s) \notin overrun /\ runner'[s].at = at(s)
    BY <1>3, <1>t DEF holding, at
  <2>2. at(s) \in Migs
    BY <2>1, <1>t DEF holding, engaged
  <2>3. ledger'[at(s)] = ledger[at(s)]
    <3>1. CASE Begins(r) \/ Passes(r) \/ Opens(r) \/ Serves(r) \/ Waits(r) \/ GivesUp(r)
      BY <3>1 DEF Begins, Passes, Opens, Serves, Waits, GivesUp, Tables
    <3>2. CASE Completes(r) \/ Leaves(r)
      <4>1. holding(r) /\ at(r) # at(s)
        BY <3>2, <2>1, <1>l DEF Completes, Leaves, holding, pc
      <4> QED
        BY <3>2, <4>1, <2>2, <1>t, LeaveFields DEF Completes
    <3> QED
      BY <3>1, <3>2, <1>h, <1>3 DEF Kinds, Claims, Works, Fails, keeps, sets, holding
  <2> QED
    BY <2>1, <2>3, <1>3, <1>l, <1>t DEF holding, at
<1> QED
  BY <1>h, <1>1, <1>2, <1>3

LEMMA LeasedTick == ASSUME RecordInv, Leased, tick PROVE Leased'
<1> SUFFICES ASSUME NEW s \in Runners, holding(s)', at(s)' \notin overrun'
             PROVE  /\ ledger'[runner'[s].at].st = "inflight" /\ ledger'[runner'[s].at].left > 0
                    /\ \A o \in Runners \ {s} : holding(o)' => runner'[o].at # runner'[s].at
  BY DEF Leased, at
<1>1. /\ holding(s) /\ runner'[s].at = at(s) /\ at(s) \in Migs
      /\ \A o \in Runners : (holding(o)' <=> holding(o)) /\ runner'[o].at = runner[o].at
  <2>1. \A o \in Runners : runner'[o].pc = runner[o].pc /\ runner'[o].at = runner[o].at
    BY TickFields DEF RecordInv
  <2>2. holding(s)
    BY <2>1 DEF holding
  <2>3. at(s) \in Migs
    BY <2>2 DEF RecordInv, InEntry, holding, engaged
  <2> QED
    BY <2>1, <2>2, <2>3 DEF holding, at
<1>2. at(s) \notin overrun /\ ledger[at(s)].left # 1
  <2>1. overrun' = overrun \cup
          {m \in Migs : ledger[m].left = 1 /\ \E r \in Runners : holding(r) /\ at(r) = m}
    BY DEF tick
  <2>2. at(s) \notin overrun'
    BY <1>1 DEF at
  <2> QED
    BY <2>1, <2>2, <1>1
<1>3. ledger[at(s)].left \in Nat
  BY <1>1, DataMigrationsAssumption DEF RecordInv, TypeOK, RowType
<1>4. ledger'[at(s)].left > 0
  BY <1>1, <1>2, <1>3, TickFields DEF RecordInv, Leased, down
<1> QED
  BY <1>1, <1>2, <1>4, TickFields DEF RecordInv, Leased, at

LeaseInv == RecordInv /\ Leased

LEMMA LeaseInit == Init => LeaseInv
<1>1. Init => \A r \in Runners : ~holding(r)
  BY DEF Init, idleRun, holding
<1> QED
  BY <1>1, RecordInit DEF LeaseInv, Leased

LEMMA LeaseStep == LeaseInv /\ [Next]_vars => LeaseInv'
<1> SUFFICES ASSUME LeaseInv, [Next]_vars PROVE Leased'
  BY RecordStep DEF LeaseInv
<1>1. CASE tick
  BY <1>1, LeasedTick DEF LeaseInv
<1>2. ASSUME NEW r \in Runners, Step(r) PROVE Leased'
  BY <1>2, StepKinds, LeasedStep DEF LeaseInv, RecordInv
<1>3. CASE UNCHANGED vars
  BY <1>3 DEF vars, LeaseInv, Leased, holding, at
<1> QED
  BY <1>1, <1>2, <1>3, NextIsAStep

(* Two isolates never run the same entry while no lease on it has run out  *)
(* under its holder, however many boot at once and wherever they die.      *)
THEOREM EntriesRunAlone == Spec => []Exclusive
<1>1. LeaseInv => Exclusive
  BY DEF LeaseInv, Leased, Exclusive
<1> QED
  BY <1>1, LeaseInit, LeaseStep, PTL DEF Spec

(***************************************************************************)
(* Order: an isolate has walked past applied entries only, and what it     *)
(* read as applied when it began still is.                                 *)
(***************************************************************************)
Walked ==
  \A r \in Runners :
    /\ ~pc(r, "idle") => \A m \in Migs \ overrun : m < at(r) => isApplied(m)
    /\ \A m \in runner[r].done : isApplied(m)
    /\ pc(r, "serving") => at(r) = N + 1

LEMMA WalkedStep ==
  ASSUME LeaseInv, Walked, NEW r \in Runners, Kinds(r)
  PROVE  Walked'
<1> SUFFICES ASSUME NEW s \in Runners
             PROVE  /\ runner'[s].pc # "idle" => \A m \in Migs \ overrun : m < runner'[s].at => ledger'[m].st = "applied"
                    /\ \A m \in runner'[s].done : ledger'[m].st = "applied"
                    /\ runner'[s].pc = "serving" => runner'[s].at = N + 1
  <2>1. overrun' = overrun
    BY DEF Kinds, Begins, Passes, Opens, Serves, Waits, GivesUp, Claims, Works, Completes, Fails, Leaves, Tables
  <2> QED
    BY <2>1 DEF Walked, pc, at, isApplied
<1>t. /\ \A m \in Migs : isApplied(m) => ledger'[m].st = "applied"
      /\ \A o \in Runners \ {r} : runner'[o] = runner[o]
      /\ \A p \in Runners : runner[p].done \subseteq Migs /\ runner[p].at \in 1..(N + 1)
  BY AppliedStays, BusyStep DEF LeaseInv, RecordInv, TypeOK, Run, isApplied
<1>w. ASSUME NEW p \in Runners
      PROVE  /\ runner[p].pc # "idle" => \A m \in Migs \ overrun : m < runner[p].at => isApplied(m)
             /\ \A m \in runner[p].done : isApplied(m)
             /\ runner[p].pc = "serving" => runner[p].at = N + 1
  BY DEF Walked, pc, at
<1>1. CASE s # r
  BY <1>1, <1>t, <1>w
<1>2. CASE s = r /\ Begins(r)
  <2>1. /\ runner'[r].pc = "loop" /\ runner'[r].at = 1 /\ runner'[r].done = {m \in Migs : isApplied(m)}
    BY <1>2 DEF Begins, sets
  <2> QED
    BY <2>1, <1>2, <1>t DEF Migs
<1>3. CASE s = r /\ Passes(r)
  <2>1. /\ runner'[r].pc = "loop" /\ runner'[r].at = at(r) + 1 /\ runner'[r].done = runner[r].done
        /\ runner[r].pc # "idle" /\ at(r) \in Migs /\ isApplied(at(r))
    BY <1>3, <1>w DEF Passes, advances, sets, busy, engaged, pc
  <2> QED
    BY <2>1, <1>3, <1>t, <1>w DEF Migs, at
<1>4. CASE s = r /\ (Opens(r) \/ Serves(r) \/ Waits(r) \/ Claims(r) \/ Works(r) \/ Fails(r))
  <2>1. /\ runner[r].pc # "idle" /\ runner'[r].at = runner[r].at /\ runner'[r].done = runner[r].done
        /\ runner'[r].pc = "serving" => runner[r].at = N + 1
    BY <1>4 DEF Opens, Serves, Waits, Claims, Works, Fails, keeps, sets, busy, engaged, pc, at
  <2> QED
    BY <2>1, <1>4, <1>t, <1>w
<1>5. CASE s = r /\ (GivesUp(r) \/ Leaves(r))
  BY <1>5 DEF GivesUp, Leaves, stops, sets
<1>6. CASE s = r /\ Completes(r)
  <2>1. /\ runner'[r].pc = "loop" /\ runner'[r].at = at(r) + 1 /\ runner'[r].done = runner[r].done
        /\ runner[r].pc # "idle" /\ holding(r)
    BY <1>6 DEF Completes, advances, sets, holding, pc
  <2>2. at(r) \in Migs /\ ledger \in [Migs -> RowType]
    BY <2>1 DEF LeaseInv, RecordInv, TypeOK, InEntry, holding, engaged
  <2>3. at(r) \notin overrun => ledger'[at(r)].st = "applied"
    <3>1. at(r) \notin overrun => ledger[at(r)].st = "inflight"
      BY <2>1 DEF LeaseInv, Leased
    <3> DEFINE k == at(r)
    <3>2. ledger' = IF ledger[k].st = "absent" THEN ledger ELSE [ledger EXCEPT ![k] = applied]
      BY <1>6 DEF Completes
    <3>3. k \notin overrun => ledger'[k] = applied
      BY <3>1, <3>2, <2>2
    <3> QED
      BY <3>3, RowFields
  <2> QED
    BY <2>1, <2>2, <2>3, <1>6, <1>t, <1>w DEF Migs, at
<1> QED
  BY <1>1, <1>2, <1>3, <1>4, <1>5, <1>6 DEF Kinds

(***************************************************************************)
(* Work: until somebody has worked on an entry and recorded it, or is      *)
(* about to, nothing of it is done; and what a transaction would restore   *)
(* is that nothing.                                                        *)
(***************************************************************************)
worked(r, m) == runner[r].pc \in {"worked", "undo"} /\ runner[r].at = m

Once ==
  \A m \in Migs \ (disturbed \cup overrun) :
    /\ effect[m] <= 1
    /\ (~isApplied(m) /\ \A r \in Runners : ~worked(r, m)) => effect[m] = 0

Memory ==
  transactional =>
    \A r \in Runners :
      /\ runner[r].pc \in {"claim", "look", "sleep", "up"} => runner[r].was = effect[at(r)]
      /\ holding(r) /\ at(r) \notin disturbed \cup overrun => runner[r].was = 0

WorkInv == LeaseInv /\ Once /\ Memory

(* Whoever is about to work on an undisturbed entry starts from nothing. *)
LEMMA StartsFromNothing ==
  ASSUME WorkInv, NEW r \in Runners, pc(r, "up") \/ (pc(r, "claim") /\ takeable(ledger[at(r)])),
         at(r) \notin disturbed \cup overrun,
         transactional \/ pc(r, "up")
  PROVE  effect[at(r)] = 0
<1>1. at(r) \in Migs
  BY DEF WorkInv, LeaseInv, RecordInv, InEntry, engaged, pc
<1>2. ~isApplied(at(r))
  BY DEF WorkInv, LeaseInv, Leased, holding, pc, isApplied, takeable
<1>3. \A s \in Runners : ~worked(s, at(r))
  <2> SUFFICES ASSUME NEW s \in Runners, worked(s, at(r)) PROVE FALSE
    OBVIOUS
  <2>1. s # r /\ holding(s) /\ at(s) = at(r) /\ busy(s) /\ busy(r)
    BY DEF worked, holding, busy, engaged, pc, at
  <2>2. CASE pc(r, "up")
    BY <2>1, <2>2 DEF WorkInv, LeaseInv, Leased, holding, pc
  <2>3. CASE transactional
    BY <2>1, <2>3 DEF WorkInv, LeaseInv, RecordInv, RunsAlone
  <2> QED
    BY <2>2, <2>3
<1> QED
  BY <1>1, <1>2, <1>3 DEF WorkInv, Once

LEMMA MemoryStep ==
  ASSUME WorkInv, NEW r \in Runners, Kinds(r)
  PROVE  Memory'
<1> SUFFICES ASSUME transactional, NEW s \in Runners
             PROVE  /\ runner'[s].pc \in {"claim", "look", "sleep", "up"}
                         => runner'[s].was = effect'[runner'[s].at]
                    /\ runner'[s].pc \in {"up", "worked", "undo"} /\ runner'[s].at \notin disturbed' \cup overrun'
                         => runner'[s].was = 0
  BY BusyStep DEF Memory, holding, at, transactional
<1>m. ASSUME NEW p \in Runners
      PROVE  /\ runner[p].pc \in {"claim", "look", "sleep", "up"} => runner[p].was = effect[runner[p].at]
             /\ runner[p].pc \in {"up", "worked", "undo"} /\ runner[p].at \notin disturbed \cup overrun
                  => runner[p].was = 0
  BY DEF WorkInv, Memory, holding, at
<1>1. CASE s # r
  <2>1. runner'[s] = runner[s]
    BY <1>1, BusyStep
  <2>2. CASE busy(s)
    <3>1. ~busy(r)
      BY <1>1, <2>2 DEF WorkInv, LeaseInv, RecordInv, RunsAlone
    <3>2. UNCHANGED Tables
      BY <3>1, BusyStep DEF Begins, GivesUp
    <3> QED
      BY <2>1, <3>2, <1>m DEF Tables
  <2>3. CASE ~busy(s)
    BY <2>1, <2>3 DEF busy, engaged, pc
  <2> QED
    BY <2>2, <2>3
<1>2. CASE s = r /\ (Begins(r) \/ Passes(r) \/ Serves(r) \/ GivesUp(r) \/ Completes(r) \/ Leaves(r))
  BY <1>2 DEF Begins, Passes, Serves, GivesUp, Completes, Leaves, stops, advances, keeps, sets
<1>3. CASE s = r /\ (Opens(r) \/ Waits(r))
  <2>1. CASE Opens(r)
    BY <1>3, <2>1 DEF Opens, Tables, sets, at
  <2>2. CASE Waits(r)
    BY <1>3, <2>2, <1>m DEF Waits, Tables, sets, keeps, at, engaged, holding
  <2> QED
    BY <1>3, <2>1, <2>2
<1>4. CASE s = r /\ Claims(r)
  <2>1. /\ runner'[r].pc = "up" /\ runner'[r].at = at(r) /\ runner'[r].was = runner[r].was
        /\ effect' = effect /\ disturbed' = disturbed /\ overrun' = overrun
        /\ runner[r].was = effect[at(r)]
    BY <1>4, <1>m DEF Claims, keeps, sets, pc, at
  <2>2. at(r) \notin disturbed \cup overrun => effect[at(r)] = 0
    BY <1>4, StartsFromNothing DEF Claims
  <2> QED
    BY <1>4, <2>1, <2>2
<1>5. CASE s = r /\ (Works(r) \/ Fails(r))
  <2>1. /\ runner'[r].pc \in {"worked", "undo"} /\ runner'[r].at = runner[r].at
        /\ runner'[r].was = runner[r].was
        /\ disturbed' = disturbed /\ overrun' = overrun
        /\ runner[r].pc \in {"up", "worked"}
    BY <1>5 DEF Works, Fails, keeps, sets, pc, at
  <2> QED
    BY <1>5, <2>1, <1>m
<1> QED
  BY <1>1, <1>2, <1>3, <1>4, <1>5 DEF Kinds

LEMMA OnceStep ==
  ASSUME WorkInv, NEW r \in Runners, Kinds(r)
  PROVE  Once'
<1> SUFFICES ASSUME NEW m \in Migs, m \notin disturbed', m \notin overrun'
             PROVE  /\ effect'[m] <= 1
                    /\ (ledger'[m].st # "applied" /\ \A s \in Runners : ~worked(s, m)')
                         => effect'[m] = 0
  BY DEF Once, isApplied
<1>t. /\ ledger \in [Migs -> RowType] /\ effect \in [Migs -> Nat] /\ effect[m] \in Nat
      /\ engaged(r) => at(r) \in Migs
      /\ \A o \in Runners \ {r} : runner'[o] = runner[o]
  BY BusyStep DEF WorkInv, LeaseInv, RecordInv, TypeOK, InEntry
<1>d. overrun' = overrun /\ m \notin disturbed /\ m \notin overrun
  <2>1. overrun' = overrun
    BY DEF Kinds, Begins, Passes, Opens, Serves, Waits, GivesUp, Claims, Works, Completes, Fails, Leaves, Tables
  <2>2. disturbed \subseteq disturbed'
    <3>1. CASE Leaves(r)
      BY <3>1, LeaveFields DEF WorkInv, LeaseInv
    <3>2. CASE ~Leaves(r)
      BY <3>2 DEF Kinds, Begins, Passes, Opens, Serves, Waits, GivesUp, Claims, Works, Completes, Fails, Tables
    <3> QED
      BY <3>1, <3>2
  <2> QED
    BY <2>1, <2>2
<1>o. /\ effect[m] <= 1
      /\ (ledger[m].st # "applied" /\ \A s \in Runners : ~worked(s, m)) => effect[m] = 0
  BY <1>d DEF WorkInv, Once, isApplied
<1>w. (worked(r, m) => worked(r, m)') =>
        ((\A s \in Runners : ~worked(s, m)') => \A s \in Runners : ~worked(s, m))
  BY <1>t DEF worked
<1>1. CASE Begins(r) \/ Passes(r) \/ Opens(r) \/ Serves(r) \/ Waits(r) \/ GivesUp(r)
  <2>1. ~worked(r, m) /\ effect' = effect /\ ledger' = ledger
    BY <1>1 DEF Begins, Passes, Opens, Serves, Waits, GivesUp, Tables, worked, holding, pc
  <2> QED
    BY <2>1, <1>o, <1>w
<1>2. CASE Claims(r)
  <2>1. /\ ~worked(r, m) /\ effect' = effect /\ at(r) \in Migs
        /\ ledger' = [ledger EXCEPT ![at(r)] = inFlight] /\ ledger[at(r)].st # "applied"
    BY <1>2, <1>t DEF Claims, worked, engaged, pc, takeable
  <2>2. ledger'[m].st # "applied" => ledger[m].st # "applied"
    BY <2>1, <1>t
  <2> QED
    BY <2>1, <2>2, <1>o, <1>w
<1>3. CASE Works(r) \/ Fails(r)
  <2>1. PICK part \in {0, 1} :
          /\ effect' = [effect EXCEPT ![at(r)] = @ + part]
          /\ pc(r, "up") \/ (pc(r, "worked") /\ part = 0)
    BY <1>3 DEF Works, Fails
  <2>2. ledger' = ledger /\ at(r) \in Migs /\ runner'[r].at = at(r) /\ runner'[r].pc \in {"worked", "undo"}
    BY <1>3, <1>t DEF Works, Fails, keeps, sets, engaged, pc
  <2>3. CASE m # at(r)
    <3>1. effect'[m] = effect[m] /\ ~worked(r, m)
      BY <2>1, <2>3, <1>t DEF worked, at
    <3> QED
      BY <3>1, <2>2, <1>o, <1>w
  <2>4. CASE m = at(r)
    <3>1. worked(r, m)'
      BY <2>2, <2>4 DEF worked
    <3>2. pc(r, "up") => effect[m] = 0
      BY <2>4, <1>d, StartsFromNothing
    <3>3. effect'[m] = effect[m] + part
      BY <2>1, <2>2, <2>4, <1>t
    <3> QED
      BY <3>1, <3>2, <3>3, <2>1, <1>o, <1>t
  <2> QED
    BY <2>3, <2>4
<1>4. CASE Completes(r)
  <2>1. /\ effect' = effect /\ at(r) \in Migs /\ holding(r)
        /\ ledger' = IF ledger[at(r)].st = "absent" THEN ledger ELSE [ledger EXCEPT ![at(r)] = applied]
    BY <1>4, <1>t DEF Completes, holding, engaged, pc
  <2>2. CASE m = at(r)
    <3>1. ledger[m].st = "inflight"
      BY <2>1, <2>2, <1>d DEF WorkInv, LeaseInv, Leased
    <3>2. ledger'[m] = applied
      BY <2>1, <2>2, <3>1, <1>t
    <3> QED
      BY <3>2, <2>1, <1>o, RowFields
  <2>3. CASE m # at(r)
    <3>1. ledger'[m] = ledger[m] /\ ~worked(r, m)
      BY <2>1, <2>3, <1>t DEF worked, at
    <3> QED
      BY <3>1, <2>1, <1>o, <1>w
  <2> QED
    BY <2>2, <2>3
<1>5. CASE Leaves(r)
  <2>1. CASE m # at(r)
    <3>1. ledger'[m] = ledger[m] /\ effect'[m] = effect[m] /\ ~worked(r, m)
      BY <1>5, <2>1, LeaveFields DEF WorkInv, LeaseInv, worked, at
    <3> QED
      BY <3>1, <1>o, <1>w
  <2>2. CASE m = at(r)
    <3>1. transactional
      BY <1>5, <2>2, LeaveFields DEF WorkInv, LeaseInv
    <3>2. effect'[m] = runner[r].was
      BY <1>5, <2>2, <3>1, LeaveFields DEF WorkInv, LeaseInv
    <3>3. runner[r].was = 0
      BY <1>5, <2>2, <3>1, <1>d DEF WorkInv, Memory, Leaves
    <3> QED
      BY <3>2, <3>3
  <2> QED
    BY <2>1, <2>2
<1> QED
  BY <1>1, <1>2, <1>3, <1>4, <1>5 DEF Kinds

-----------------------------------------------------------------------------
(* The whole inductive invariant, and what follows from it. *)
MigrationInv == WorkInv /\ Walked

LEMMA MigrationInit == Init => MigrationInv
<1> SUFFICES ASSUME Init PROVE MigrationInv
  OBVIOUS
<1>1. \A r \in Runners : runner[r].pc = "idle" /\ runner[r].done = {}
  BY DEF Init, idleRun
<1>2. \A m \in Migs : effect[m] = 0
  BY DEF Init
<1>3. Once
  BY <1>2 DEF Once
<1>4. Memory /\ Walked
  BY <1>1 DEF Memory, Walked, holding, pc
<1> QED
  BY <1>3, <1>4, LeaseInit DEF MigrationInv, WorkInv

LEMMA MigrationTick ==
  ASSUME MigrationInv, tick
  PROVE  Once' /\ Memory' /\ Walked'
<1>t. /\ \A m \in Migs : ledger'[m].st = ledger[m].st
      /\ \A r \in Runners : /\ runner'[r].pc = runner[r].pc /\ runner'[r].at = runner[r].at
                            /\ runner'[r].done = runner[r].done /\ runner'[r].was = runner[r].was
                            /\ runner[r].done \subseteq Migs
      /\ store' = store /\ effect' = effect /\ disturbed' = disturbed
  BY TickFields DEF MigrationInv, WorkInv, LeaseInv, RecordInv, TypeOK, Run
<1>o. overrun \subseteq overrun'
  BY DEF tick
<1>1. Once'
  BY <1>t, <1>o DEF MigrationInv, WorkInv, Once, worked, isApplied
<1>2. Memory'
  BY <1>t, <1>o DEF MigrationInv, WorkInv, Memory, transactional, holding, at
<1>3. Walked'
  BY <1>t, <1>o DEF MigrationInv, Walked, isApplied, pc, at
<1> QED
  BY <1>1, <1>2, <1>3

LEMMA MigrationStep == MigrationInv /\ [Next]_vars => MigrationInv'
<1> SUFFICES ASSUME MigrationInv, [Next]_vars PROVE Once' /\ Memory' /\ Walked'
  BY LeaseStep DEF MigrationInv, WorkInv
<1>1. CASE tick
  BY <1>1, MigrationTick
<1>2. ASSUME NEW r \in Runners, Step(r) PROVE Once' /\ Memory' /\ Walked'
  <2>1. Kinds(r)
    BY <1>2, StepKinds DEF MigrationInv, WorkInv, LeaseInv, RecordInv
  <2> QED
    BY <2>1, OnceStep, MemoryStep, WalkedStep DEF MigrationInv, WorkInv
<1>3. CASE UNCHANGED vars
  BY <1>3 DEF vars, MigrationInv, WorkInv, Once, Memory, Walked, worked, transactional,
     isApplied, holding, pc, at
<1> QED
  BY <1>1, <1>2, <1>3, NextIsAStep

(* The work of an entry is done at most once, unless an attempt at it      *)
(* threw or died on D1, or its lease ran out under its holder.             *)
THEOREM WorkedOnce == Spec => []OnceUnlessDisturbed
<1>1. MigrationInv => OnceUnlessDisturbed
  BY DEF MigrationInv, WorkInv, Once, OnceUnlessDisturbed
<1> QED
  BY <1>1, MigrationInit, MigrationStep, PTL DEF Spec

(* Entries run in the order of the list, and no isolate serves a request   *)
(* before the whole list is applied.                                       *)
THEOREM ListInOrder == Spec => []OrderKept
<1>1. MigrationInv => OrderKept
  <2> SUFFICES ASSUME MigrationInv, NEW r \in Runners
               PROVE  /\ holding(r) => \A m \in Migs \ overrun : m < at(r) => isApplied(m)
                      /\ pc(r, "serving") => \A m \in Migs \ overrun : isApplied(m)
    BY DEF OrderKept
  <2>1. ~pc(r, "idle") => \A m \in Migs \ overrun : m < at(r) => isApplied(m)
    BY DEF MigrationInv, Walked
  <2>2. pc(r, "serving") => at(r) = N + 1
    BY DEF MigrationInv, Walked
  <2> QED
    BY <2>1, <2>2, DataMigrationsAssumption DEF holding, pc, Migs
<1> QED
  BY <1>1, MigrationInit, MigrationStep, PTL DEF Spec
=============================================================================
