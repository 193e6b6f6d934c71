---------------------------- MODULE OutboxProofs ----------------------------
(***************************************************************************)
(* Machine-checked facts about the outbox, for every set of tasks, keys    *)
(* and drainers and every value of the limits.                             *)
(***************************************************************************)
EXTENDS Outbox, TLAPS

(* The waiting time after a failed attempt is a natural number: the cap   *)
(* bounds it whatever 2 ** attempts is.                                   *)
LEMMA BackoffIsNat == \A a : backoffMs(a) \in Nat
  BY OutboxAssumption DEF backoffMs

(* A pass that moves leaves the other passes where they are. *)
LEMMA BecomeMoves ==
  ASSUME drainer \in [Drainers -> Pass], NEW d \in Drainers, NEW p \in Pass, become(d, p)
  PROVE  /\ drainer' \in [Drainers -> Pass]
         /\ drainer'[d] = p
         /\ \A e \in Drainers \ {d} : drainer'[e] = drainer[e]
  BY DEF become

(* An UPDATE of one row leaves the other rows as they are. *)
LEMMA UpdateOneRow ==
  ASSUME outbox \in [Ids -> Row], NEW i \in Ids, NEW r \in Row, outbox' = update(i, r)
  PROVE  /\ outbox' \in [Ids -> Row]
         /\ outbox'[i] \in {r, outbox[i]}
         /\ \A j \in Ids \ {i} : outbox'[j] = outbox[j]
  BY DEF update

LEMMA IdlePassIsPass == idlePass \in Pass /\ \A r \in [Ids -> Nat] : passCounts(idlePass, r)
  BY OutboxAssumption DEF idlePass, Pass, PassState, passCounts

LEMMA AbsentIsRow == absent \in Row /\ \A n \in Nat : rowCounts(absent, n)
  BY OutboxAssumption DEF absent, Row, Status, Null, rowCounts

-----------------------------------------------------------------------------
(* The attempt counters of the table and of the passes. *)
TableInv == TypeOK /\ AttemptInv

(* What a step has to establish about the table and about the passes: the *)
(* pass d moves to p, and the runs of a task are never forgotten.         *)
LEMMA PassStep ==
  ASSUME TableInv, NEW d \in Drainers, NEW p \in Pass, become(d, p),
         ran' \in [Ids -> Nat], \A i \in Ids : ran[i] <= ran'[i],
         passCounts(p, ran')
  PROVE  /\ drainer' \in [Drainers -> Pass]
         /\ \A e \in Drainers : passCounts(drainer'[e], ran')
<1>1. drainer \in [Drainers -> Pass] /\ ran \in [Ids -> Nat]
  BY DEF TableInv, TypeOK
<1>2. ASSUME NEW e \in Drainers \ {d} PROVE passCounts(drainer'[e], ran')
  <2>1. drainer'[e] = drainer[e] /\ drainer[e] \in Pass /\ passCounts(drainer[e], ran)
    BY <1>1, BecomeMoves DEF TableInv, AttemptInv
  <2>2. \A i \in Ids : drainer[e].seen[i] \in Int /\ ran[i] \in Int /\ ran'[i] \in Int
    BY <1>1, <2>1, OutboxAssumption DEF Pass
  <2>3. QED
    BY <2>1, <2>2 DEF passCounts
<1>3. QED
  BY <1>1, <1>2, BecomeMoves

LEMMA TableStep ==
  ASSUME TableInv, outbox' \in [Ids -> Row], ran' \in [Ids -> Nat],
         \A i \in Ids : ran[i] <= ran'[i],
         \A i \in Ids : outbox'[i] # outbox[i] => rowCounts(outbox'[i], ran'[i])
  PROVE  \A i \in Ids : rowCounts(outbox'[i], ran'[i])
<1>1. outbox \in [Ids -> Row] /\ ran \in [Ids -> Nat]
  BY DEF TableInv, TypeOK
<1>2. QED
  BY <1>1 DEF TableInv, AttemptInv, rowCounts, Row

LEMMA TableInvInit == Init => TableInv
<1> SUFFICES ASSUME Init PROVE TableInv
  OBVIOUS
<1>1. TypeOK
  BY IdlePassIsPass, AbsentIsRow DEF Init, TypeOK
<1>2. \A i \in Ids : rowCounts(outbox[i], ran[i])
  BY AbsentIsRow DEF Init
<1>3. \A d \in Drainers : passCounts(drainer[d], ran)
  BY <1>1, IdlePassIsPass DEF Init, TypeOK
<1>4. QED
  BY <1>1, <1>2, <1>3 DEF TableInv, AttemptInv

LEMMA NewRowIsRow ==
  ASSUME TypeOK, NEW key \in Keys \cup {NoKey}, NEW delay \in Delays
  PROVE  newRow(key, delay) \in Row /\ \A n \in Nat : rowCounts(newRow(key, delay), n)
  BY OutboxAssumption DEF TypeOK, newRow, Row, Status, Null, rowCounts

LEMMA EnqueueStep ==
  ASSUME TableInv, NEW i \in Ids, NEW delay \in Delays, enqueueTask(i, delay)
  PROVE  TableInv'
<1>1. PICK key \in Keys \cup {NoKey} :
        /\ \A j \in Ids : outbox'[j] \in {outbox[j], newRow(key, delay), absent}
        /\ outbox' \in [Ids -> Row]
        /\ minted' \in SUBSET Ids
  <2> DEFINE Changed(key) ==
               /\ \A j \in Ids : outbox'[j] \in {outbox[j], newRow(key, delay), absent}
               /\ outbox' \in [Ids -> Row]
               /\ minted' \in SUBSET Ids
  <2>0. outbox \in [Ids -> Row] /\ minted \in SUBSET Ids /\ TypeOK
    BY DEF TableInv, TypeOK
  <2>1. CASE enqueueUnkeyed(i, delay)
    <3>1. Changed(NoKey)
      BY <2>0, <2>1, NewRowIsRow DEF enqueueUnkeyed
    <3>2. QED
      BY <3>1
  <2>2. ASSUME NEW k \in Keys, enqueueNewKey(i, k, delay) \/ replaceFailed(i, k, delay)
        PROVE  Changed(k)
    BY <2>0, <2>2, NewRowIsRow, AbsentIsRow DEF enqueueNewKey, replaceFailed, holders
  <2>3. QED
    BY <2>1, <2>2 DEF enqueueTask
<1>2. \A j \in Ids : rowCounts(outbox'[j], ran'[j])
  BY <1>1, NewRowIsRow, AbsentIsRow DEF TableInv, AttemptInv, TypeOK, enqueueTask
<1>3. TypeOK'
  BY <1>1 DEF TableInv, TypeOK, enqueueTask
<1>4. QED
  BY <1>2, <1>3 DEF TableInv, AttemptInv, enqueueTask

LEMMA BeginStep ==
  ASSUME TableInv, NEW d \in Drainers, begin(d)
  PROVE  TableInv'
<1> DEFINE p == [drainer[d] EXCEPT !.pc = "begun", !.now = clock]
<1>1. p \in Pass /\ passCounts(p, ran)
  BY DEF TableInv, TypeOK, AttemptInv, passCounts, Pass, PassState
<1>2. \A i \in Ids : ran[i] <= ran'[i] /\ ran' = ran
  BY DEF begin, TableInv, TypeOK
<1>3. drainer' \in [Drainers -> Pass] /\ \A e \in Drainers : passCounts(drainer'[e], ran')
  BY <1>1, <1>2, PassStep DEF begin, TableInv, TypeOK
<1>4. QED
  BY <1>3 DEF begin, TableInv, TypeOK, AttemptInv

LEMMA PruneStep ==
  ASSUME TableInv, NEW d \in Drainers, prune(d)
  PROVE  TableInv'
<1> DEFINE p == [drainer[d] EXCEPT !.pc = "pruned"]
<1>1. p \in Pass /\ passCounts(p, ran)
  BY DEF TableInv, TypeOK, AttemptInv, passCounts, Pass, PassState
<1>2. \A i \in Ids : ran[i] <= ran'[i] /\ ran' = ran
  BY DEF prune, TableInv, TypeOK
<1>3. drainer' \in [Drainers -> Pass] /\ \A e \in Drainers : passCounts(drainer'[e], ran')
  BY <1>1, <1>2, PassStep DEF prune, TableInv, TypeOK
<1>4. outbox' \in [Ids -> Row] /\ \A i \in Ids : outbox'[i] \in {outbox[i], absent}
  BY AbsentIsRow DEF prune, TableInv, TypeOK
<1>5. \A i \in Ids : rowCounts(outbox'[i], ran'[i])
  BY <1>2, <1>4, AbsentIsRow DEF TableInv, TypeOK, AttemptInv
<1>6. QED
  BY <1>3, <1>4, <1>5 DEF prune, TableInv, TypeOK, AttemptInv

LEMMA ClaimStep ==
  ASSUME TableInv, NEW d \in Drainers, claim(d)
  PROVE  TableInv'
<1>1. PICK b \in batches(drainer[d].now) :
        /\ outbox' = [i \in Ids |->
             IF i \in b
               THEN [outbox[i] EXCEPT !.status = "processing", !.claimedAt = drainer[d].now]
               ELSE outbox[i]]
        /\ become(d, [drainer[d] EXCEPT
             !.pc = "loop", !.batch = b,
             !.seen = [i \in Ids |-> IF i \in b THEN outbox[i].attempts ELSE 0]])
  BY DEF claim
<1> DEFINE seen == [i \in Ids |-> IF i \in b THEN outbox[i].attempts ELSE 0]
           p == [drainer[d] EXCEPT !.pc = "loop", !.batch = b, !.seen = seen]
<1>2. b \in SUBSET Ids /\ \A i \in b : outbox[i].status \in {"pending", "processing"}
  BY DEF batches, claimable
<1>3. \A i \in Ids : outbox[i] \in Row /\ rowCounts(outbox[i], ran[i]) /\ ran[i] \in Nat
  BY DEF TableInv, TypeOK, AttemptInv
<1>4. drainer[d] \in Pass /\ passCounts(drainer[d], ran)
  BY DEF TableInv, TypeOK, AttemptInv
<1>5. seen \in [Ids -> 0..(MAX_ATTEMPTS - 1)] /\ \A i \in Ids : seen[i] <= ran[i]
  BY <1>2, <1>3, OutboxAssumption DEF Row, rowCounts
<1>6. p \in Pass /\ passCounts(p, ran)
  <2> HIDE DEF seen
  <2>1. p \in Pass /\ p.seen = seen /\ p.pc = "loop"
    BY <1>2, <1>4, <1>5 DEF Pass, PassState
  <2> HIDE DEF p
  <2>2. QED
    BY <1>5, <2>1 DEF passCounts
<1>7. ran' = ran
  BY DEF claim
<1>8. drainer' \in [Drainers -> Pass] /\ \A e \in Drainers : passCounts(drainer'[e], ran')
  <2>1. become(d, p)
    BY <1>1
  <2>2. ran \in [Ids -> Nat]
    BY DEF TableInv, TypeOK
  <2> HIDE DEF p
  <2>3. ran' \in [Ids -> Nat] /\ \A i \in Ids : ran[i] <= ran'[i]
    BY <1>7, <2>2
  <2>4. p \in Pass
    BY <1>6
  <2>5. QED
    BY <1>6, <1>7, <2>1, <2>3, <2>4, PassStep
<1>9. ASSUME NEW i \in Ids PROVE outbox'[i] \in Row /\ rowCounts(outbox'[i], ran'[i])
  <2>1. CASE i \in b
    <3>1. outbox'[i] = [outbox[i] EXCEPT !.status = "processing", !.claimedAt = drainer[d].now]
      BY <1>1, <2>1
    <3>2. drainer[d].now \in Nat
      BY <1>4 DEF Pass
    <3>3. QED
      BY <1>2, <1>3, <1>7, <2>1, <3>1, <3>2 DEF Row, Status, rowCounts
  <2>2. CASE i \notin b
    BY <1>1, <1>3, <1>7, <2>2
  <2>3. QED
    BY <2>1, <2>2
<1>10. outbox' \in [Ids -> Row]
  <2>1. DOMAIN outbox' = Ids /\ outbox' = [i \in Ids |-> outbox'[i]]
    BY <1>1
  <2>2. QED
    BY <1>9, <2>1
<1>11. QED
  BY <1>7, <1>8, <1>9, <1>10 DEF claim, TableInv, TypeOK, AttemptInv

LEMMA StampStep ==
  ASSUME TableInv, NEW d \in Drainers, NEW i \in Ids, stamp(d, i)
  PROVE  TableInv'
<1> DEFINE p == [drainer[d] EXCEPT !.pc = "running", !.cur = i, !.stampAt = clock,
                                   !.batch = @ \ {i}]
           r == [outbox[i] EXCEPT !.claimedAt = clock]
<1>0. /\ drainer[d] \in Pass /\ passCounts(drainer[d], ran) /\ clock \in Nat
      /\ outbox[i] \in Row /\ rowCounts(outbox[i], ran[i])
      /\ outbox \in [Ids -> Row]
  BY DEF TableInv, TypeOK, AttemptInv
<1>1. p \in Pass /\ passCounts(p, ran)
  BY <1>0 DEF passCounts, Pass, PassState
<1>2. r \in Row /\ rowCounts(r, ran[i])
  BY <1>0 DEF Row, rowCounts
<1>3. \A j \in Ids : ran[j] <= ran'[j] /\ ran' = ran
  BY DEF stamp, TableInv, TypeOK
<1>4. drainer' \in [Drainers -> Pass] /\ \A e \in Drainers : passCounts(drainer'[e], ran')
  BY <1>1, <1>3, PassStep DEF stamp, TableInv, TypeOK
<1>5. outbox' \in [Ids -> Row] /\ \A j \in Ids : rowCounts(outbox'[j], ran'[j])
  BY <1>0, <1>2, <1>3, UpdateOneRow DEF stamp, TableInv, AttemptInv
<1>6. QED
  BY <1>3, <1>4, <1>5 DEF stamp, TableInv, TypeOK, AttemptInv

(* Steps that only change the pass: its rows and the table stay. *)
LEMMA HandlerStep ==
  ASSUME TableInv, NEW d \in Drainers, handlerReturns(d) \/ handlerThrows(d)
  PROVE  TableInv'
<1>0. /\ drainer[d] \in Pass /\ passCounts(drainer[d], ran)
      /\ ran \in [Ids -> Nat] /\ delivered \in [Ids -> Nat] /\ outbox \in [Ids -> Row]
  BY DEF TableInv, TypeOK, AttemptInv
<1>1. drainer[d].pc = "running" /\ drainer[d].cur \in Ids
  BY <1>0 DEF handlerReturns, handlerThrows, pass, passCounts
<1>2. PICK pc \in {"returned", "threw"} :
        become(d, [drainer[d] EXCEPT !.pc = pc, !.stampAt = 0])
  BY DEF handlerReturns, handlerThrows
<1> DEFINE p == [drainer[d] EXCEPT !.pc = pc, !.stampAt = 0]
<1>3. /\ ran' = [ran EXCEPT ![drainer[d].cur] = @ + 1]
      /\ ran' \in [Ids -> Nat]
      /\ \A i \in Ids : ran[i] <= ran'[i]
  BY <1>0, <1>1 DEF handlerReturns, handlerThrows
<1>4. p \in Pass /\ passCounts(p, ran')
  <2>1. p \in Pass
    BY <1>0 DEF Pass, PassState
  <2>2. p.seen = drainer[d].seen /\ p.cur = drainer[d].cur
    BY <1>0 DEF Pass
  <2>3. \A i \in Ids : p.seen[i] \in Int /\ p.seen[i] <= ran[i] /\ ran[i] \in Int /\ ran'[i] \in Int
    BY <1>0, <1>3, <2>2, OutboxAssumption DEF Pass, passCounts
  <2>4. QED
    BY <1>0, <1>1, <1>3, <2>1, <2>2, <2>3 DEF passCounts
<1>5. drainer' \in [Drainers -> Pass] /\ \A e \in Drainers : passCounts(drainer'[e], ran')
  <2>1. become(d, p)
    BY <1>2
  <2> HIDE DEF p
  <2>2. QED
    BY <1>3, <1>4, <2>1, PassStep
<1>6. outbox' = outbox /\ delivered' \in [Ids -> Nat]
  BY <1>0, <1>1 DEF handlerReturns, handlerThrows
<1>7. \A i \in Ids : rowCounts(outbox'[i], ran'[i])
  BY <1>0, <1>3, <1>6, TableStep
<1>8. QED
  BY <1>3, <1>5, <1>6, <1>7 DEF handlerReturns, handlerThrows, TableInv, TypeOK, AttemptInv

(* The two rows a run can be recorded as, and the pass that goes on. *)
LEMMA DoneRow ==
  ASSUME NEW row \in Row, NEW n \in 1..MAX_ATTEMPTS, NEW t \in Nat, NEW runs \in Nat, n <= runs
  PROVE  LET done == [row EXCEPT !.status = "done", !.attempts = n, !.claimedAt = t]
         IN  done \in Row /\ rowCounts(done, runs)
<1> DEFINE done == [row EXCEPT !.status = "done", !.attempts = n, !.claimedAt = t]
<1>1. n \in 0..MAX_ATTEMPTS
  BY OutboxAssumption
<1>2. done \in Row /\ done.status = "done" /\ done.attempts = n
  BY <1>1 DEF Row, Status
<1>3. rowCounts(done, runs)
  BY <1>2 DEF rowCounts
<1>4. QED
  BY <1>2, <1>3

LEMMA FailedRow ==
  ASSUME NEW row \in Row, NEW n \in 1..MAX_ATTEMPTS, NEW t \in Nat, NEW runs \in Nat, n <= runs
  PROVE  LET fail == [row EXCEPT !.status = outcomeOfFailure(n),
                                 !.attempts = n, !.runAt = t, !.claimedAt = Null]
         IN  fail \in Row /\ rowCounts(fail, runs)
<1> DEFINE status == outcomeOfFailure(n)
           fail == [row EXCEPT !.status = status, !.attempts = n, !.runAt = t,
                               !.claimedAt = Null]
<1>1. n \in 0..MAX_ATTEMPTS
  BY OutboxAssumption
<1>2. /\ status \in {"pending", "processing"} => n < MAX_ATTEMPTS
      /\ status = "failed" => n = MAX_ATTEMPTS
      /\ status \in {"failed", "pending"}
  BY OutboxAssumption DEF outcomeOfFailure
<1>3. fail \in Row /\ fail.status = status /\ fail.attempts = n
  <2> HIDE DEF status
  <2>1. QED
    BY <1>1, <1>2 DEF Row, Status
<1>4. rowCounts(fail, runs)
  <2> HIDE DEF fail, status
  <2>1. QED
    BY <1>2, <1>3 DEF rowCounts
<1>5. QED
  BY <1>3, <1>4

LEMMA RowOverPass ==
  ASSUME NEW p \in Pass, NEW runs \in [Ids -> Nat], passCounts(p, runs), NEW i \in Ids
  PROVE  LET over == [p EXCEPT !.pc = "loop", !.cur = NoId, !.seen = [@ EXCEPT ![i] = 0]]
         IN  over \in Pass /\ passCounts(over, runs)
<1> DEFINE zeroed == [p.seen EXCEPT ![i] = 0]
           over == [p EXCEPT !.pc = "loop", !.cur = NoId, !.seen = zeroed]
<1>1. /\ zeroed \in [Ids -> 0..(MAX_ATTEMPTS - 1)]
      /\ \A j \in Ids : zeroed[j] <= runs[j]
  BY OutboxAssumption DEF Pass, passCounts
<1>2. over \in Pass /\ over.seen = zeroed /\ over.pc = "loop"
  <2> HIDE DEF zeroed
  <2>1. QED
    BY <1>1 DEF Pass, PassState
<1>3. passCounts(over, runs)
  <2> HIDE DEF over, zeroed
  <2>1. QED
    BY <1>1, <1>2 DEF passCounts
<1>4. QED
  BY <1>2, <1>3

(* Recording the outcome of a run writes seen + 1, which the run covers. *)
LEMMA RecordStep ==
  ASSUME TableInv, NEW d \in Drainers, recordDone(d) \/ recordFailure(d)
  PROVE  TableInv'
<1> DEFINE i == drainer[d].cur
           p == [drainer[d] EXCEPT !.pc = "loop", !.cur = NoId, !.seen = [@ EXCEPT ![i] = 0]]
           done == [outbox[i] EXCEPT !.status = "done", !.attempts = attemptOf(d),
                                     !.claimedAt = clock]
           fail == [outbox[i] EXCEPT !.status = outcomeOfFailure(attemptOf(d)),
                                     !.attempts = attemptOf(d),
                                     !.runAt = drainer[d].now + backoffMs(attemptOf(d)),
                                     !.claimedAt = Null]
<1>0. /\ drainer[d] \in Pass /\ passCounts(drainer[d], ran) /\ clock \in Nat
      /\ ran \in [Ids -> Nat] /\ outbox \in [Ids -> Row]
  BY DEF TableInv, TypeOK, AttemptInv
<1>1. i \in Ids /\ drainer[d].seen[i] < ran[i]
  BY <1>0 DEF recordDone, recordFailure, pass, passCounts
<1>2. /\ drainer[d].seen[i] \in 0..(MAX_ATTEMPTS - 1)
      /\ drainer[d].seen \in [Ids -> 0..(MAX_ATTEMPTS - 1)]
      /\ drainer[d].now \in Nat
      /\ ran[i] \in Nat /\ outbox[i] \in Row
  BY <1>0, <1>1 DEF Pass
<1>3. attemptOf(d) \in 1..MAX_ATTEMPTS /\ attemptOf(d) <= ran[i]
  BY <1>1, <1>2, OutboxAssumption DEF attemptOf
<1>4. done \in Row /\ rowCounts(done, ran[i])
  BY <1>0, <1>2, <1>3, DoneRow
<1>5. fail \in Row /\ rowCounts(fail, ran[i])
  <2>1. drainer[d].now + backoffMs(attemptOf(d)) \in Nat
    BY <1>2, BackoffIsNat
  <2>2. QED
    BY <1>2, <1>3, <2>1, FailedRow
<1>6. p \in Pass /\ passCounts(p, ran)
  BY <1>0, <1>1, <1>2, RowOverPass
<1>7. become(d, p) /\ ran' = ran /\ \A j \in Ids : ran[j] <= ran'[j]
  BY <1>0 DEF recordDone, recordFailure, rowOver
<1>8. drainer' \in [Drainers -> Pass] /\ \A e \in Drainers : passCounts(drainer'[e], ran')
  <2> HIDE DEF p
  <2>1. QED
    BY <1>0, <1>6, <1>7, PassStep
<1>9. PICK r \in {done, fail} : outbox' = update(i, r)
  BY DEF recordDone, recordFailure
<1>10. outbox' \in [Ids -> Row] /\ \A j \in Ids : rowCounts(outbox'[j], ran'[j])
  <2>1. r \in Row /\ rowCounts(r, ran[i])
    BY <1>4, <1>5, <1>9
  <2>2. outbox' \in [Ids -> Row] /\ outbox'[i] \in {r, outbox[i]}
        /\ \A j \in Ids \ {i} : outbox'[j] = outbox[j]
    BY <1>0, <1>1, <1>9, <2>1, UpdateOneRow
  <2>3. QED
    BY <1>7, <2>1, <2>2 DEF TableInv, AttemptInv
<1>11. QED
  BY <1>7, <1>8, <1>10 DEF recordDone, recordFailure, TableInv, TypeOK, AttemptInv

(* A pass that ends, or goes from a failed write to its catch block. *)
LEMMA EndStep ==
  ASSUME TableInv, NEW d \in Drainers, finish(d) \/ crash(d) \/ doneWriteFails(d)
  PROVE  TableInv'
<1> DEFINE threw == [drainer[d] EXCEPT !.pc = "threw"]
<1>0. /\ drainer[d] \in Pass /\ passCounts(drainer[d], ran)
      /\ ran \in [Ids -> Nat] /\ disturbed \in SUBSET Ids
  BY DEF TableInv, TypeOK, AttemptInv
<1>1. PICK p \in Pass : become(d, p) /\ passCounts(p, ran)
  <2>1. CASE doneWriteFails(d)
    <3>1. threw \in Pass /\ passCounts(threw, ran) /\ become(d, threw)
      BY <1>0, <2>1 DEF Pass, PassState, passCounts, doneWriteFails, pass
    <3>2. QED
      BY <3>1
  <2>2. CASE finish(d) \/ crash(d)
    BY <1>0, <2>2, IdlePassIsPass DEF finish, crash
  <2>3. QED
    BY <2>1, <2>2
<1>2. ran' = ran /\ outbox' = outbox /\ \A i \in Ids : ran[i] <= ran'[i]
  BY <1>0 DEF finish, crash, doneWriteFails
<1>3. drainer' \in [Drainers -> Pass] /\ \A e \in Drainers : passCounts(drainer'[e], ran')
  BY <1>0, <1>1, <1>2, PassStep
<1>4. disturbed' \in SUBSET Ids
  <2>1. CASE doneWriteFails(d)
    BY <1>0, <2>1 DEF doneWriteFails, pass, passCounts
  <2>2. CASE finish(d) \/ crash(d)
    BY <1>0, <2>2 DEF finish, crash, holds, rowsOf, Pass
  <2>3. QED
    BY <2>1, <2>2
<1>5. QED
  BY <1>2, <1>3, <1>4 DEF finish, crash, doneWriteFails, TableInv, TypeOK, AttemptInv

LEMMA TableInvNext == TableInv /\ [Next]_vars => TableInv'
<1> SUFFICES ASSUME TableInv, [Next]_vars PROVE TableInv'
  OBVIOUS
<1>1. CASE \E i \in Ids, delay \in Delays : enqueueTask(i, delay)
  BY <1>1, EnqueueStep
<1>2. ASSUME NEW d \in Drainers, drainStep(d) PROVE TableInv'
  BY <1>2, BeginStep, PruneStep, ClaimStep, StampStep, HandlerStep, RecordStep, EndStep
     DEF drainStep
<1>3. CASE tick
  BY <1>3 DEF tick, TableInv, TypeOK, AttemptInv
<1>4. CASE UNCHANGED vars
  BY <1>4 DEF vars, TableInv, TypeOK, AttemptInv
<1>5. QED
  BY <1>1, <1>2, <1>3, <1>4 DEF Next

(* Every reachable state of the outbox is well typed. *)
THEOREM TypeCorrect == Spec => []TypeOK
<1>1. Spec => []TableInv
  BY TableInvInit, TableInvNext, PTL DEF Spec
<1>2. TableInv => TypeOK
  BY DEF TableInv
<1>3. QED
  BY <1>1, <1>2, PTL

(* A task is dead-lettered only after its handler has really been run     *)
(* MAX_ATTEMPTS times, however slow the passes, however many run at once  *)
(* and wherever they crash.                                               *)
THEOREM DeadLettersWereTried == Spec => []NotGivenUpEarly
<1>1. Spec => []TableInv
  BY TableInvInit, TableInvNext, PTL DEF Spec
<1>2. TableInv => NotGivenUpEarly
  BY OutboxAssumption DEF TableInv, TypeOK, AttemptInv, rowCounts, NotGivenUpEarly, Row
<1>3. QED
  BY <1>1, <1>2, PTL

-----------------------------------------------------------------------------
(* Only an enqueue gives a row a key: every other step of the table keeps *)
(* the keys of the rows that stay.                                        *)
KeysKept == \A i \in Ids : outbox'[i].status # "none" =>
                             present(i) /\ outbox'[i].key = outbox[i].key

LEMMA DrainKeepsKeys ==
  ASSUME TableInv, NEW d \in Drainers, drainStep(d)
  PROVE  KeysKept
<1>0. outbox \in [Ids -> Row]
  BY DEF TableInv, TypeOK
<1>1. CASE prune(d)
  BY <1>0, <1>1 DEF prune, KeysKept, present, absent
<1>2. CASE claim(d)
  <2>1. PICK b \in batches(drainer[d].now) :
          outbox' = [i \in Ids |->
             IF i \in b
               THEN [outbox[i] EXCEPT !.status = "processing", !.claimedAt = drainer[d].now]
               ELSE outbox[i]]
    BY <1>2 DEF claim
  <2>2. \A i \in b : outbox[i].status # "none"
    BY DEF batches, claimable
  <2>3. QED
    BY <1>0, <2>1, <2>2 DEF KeysKept, present, Row
<1>3. ASSUME NEW i \in Ids, stamp(d, i) PROVE KeysKept
  BY <1>0, <1>3 DEF stamp, update, KeysKept, present, Row
<1>4. CASE recordDone(d) \/ recordFailure(d)
  <2> DEFINE i == drainer[d].cur
             done == [outbox[i] EXCEPT !.status = "done", !.attempts = attemptOf(d),
                                       !.claimedAt = clock]
             fail == [outbox[i] EXCEPT
                        !.status = outcomeOfFailure(attemptOf(d)),
                        !.attempts = attemptOf(d),
                        !.runAt = drainer[d].now + backoffMs(attemptOf(d)),
                        !.claimedAt = Null]
  <2>1. i \in Ids /\ outbox[i] \in Row
    BY <1>0, <1>4 DEF recordDone, recordFailure, pass, passCounts, TableInv, AttemptInv
  <2>2. done.key = outbox[i].key /\ fail.key = outbox[i].key
    BY <2>1 DEF Row
  <2>3. PICK r \in {done, fail} : outbox' = update(i, r)
    BY <1>4 DEF recordDone, recordFailure
  <2>4. r.key = outbox[i].key
    BY <2>2, <2>3
  <2> HIDE DEF done, fail
  <2>5. QED
    BY <1>0, <2>1, <2>3, <2>4 DEF update, KeysKept, present
<1>5. CASE outbox' = outbox
  BY <1>5 DEF KeysKept, present
<1>6. QED
  BY <1>1, <1>2, <1>3, <1>4, <1>5 DEF drainStep, begin, handlerReturns, handlerThrows,
     doneWriteFails, finish, crash

LEMMA EnqueueOneRowPerKey ==
  ASSUME TypeOK, OneRowPerKey, NEW i \in Ids, NEW delay \in Delays, enqueueTask(i, delay)
  PROVE  OneRowPerKey'
<1>0. outbox \in [Ids -> Row]
  BY DEF TypeOK
<1>1. CASE enqueueUnkeyed(i, delay)
  BY <1>0, <1>1 DEF enqueueUnkeyed, newRow, OneRowPerKey, present
<1>2. ASSUME NEW k \in Keys, enqueueNewKey(i, k, delay) PROVE OneRowPerKey'
  BY <1>0, <1>2 DEF enqueueNewKey, newRow, holders, OneRowPerKey, present
<1>3. ASSUME NEW k \in Keys, replaceFailed(i, k, delay) PROVE OneRowPerKey'
  <2>1. PICK old \in holders(k) :
          outbox' = [outbox EXCEPT ![old] = absent, ![i] = newRow(k, delay)]
    BY <1>3 DEF replaceFailed
  <2>2. \A j \in Ids : present(j) /\ outbox[j].key = k => j = old
    BY <2>1, OutboxAssumption DEF OneRowPerKey, holders
  <2>3. QED
    BY <1>0, <2>1, <2>2 DEF newRow, absent, holders, OneRowPerKey, present
<1>4. QED
  BY <1>1, <1>2, <1>3 DEF enqueueTask

(* An idempotency key names at most one row in every reachable state.     *)
THEOREM KeysAreUnique == Spec => []OneRowPerKey
<1>1. Init => OneRowPerKey
  BY DEF Init, OneRowPerKey, present, absent
<1>2. TableInv /\ OneRowPerKey /\ [Next]_vars => OneRowPerKey'
  <2> SUFFICES ASSUME TableInv, OneRowPerKey, [Next]_vars PROVE OneRowPerKey'
    OBVIOUS
  <2>1. CASE \E i \in Ids, delay \in Delays : enqueueTask(i, delay)
    BY <2>1, EnqueueOneRowPerKey DEF TableInv
  <2>2. CASE \E d \in Drainers : drainStep(d)
    BY <2>2, DrainKeepsKeys DEF KeysKept, OneRowPerKey, present
  <2>3. CASE tick \/ UNCHANGED vars
    BY <2>3 DEF tick, vars, OneRowPerKey, present
  <2>4. QED
    BY <2>1, <2>2, <2>3 DEF Next
<1>3. QED
  BY <1>1, <1>2, TableInvInit, TableInvNext, PTL DEF Spec

-----------------------------------------------------------------------------
(* Exclusive claims.  A step of pass d leaves the other passes alone, so   *)
(* it is enough that it leaves their rows alone, that d's own rows are     *)
(* fresh afterwards, and that d takes no row another pass holds.           *)
ClaimStrong == TableInv /\ ClaimInv

othersRows(d) == UNION {holds(e) : e \in Drainers \ {d}}

LEMMA OwnStep ==
  ASSUME ClaimStrong, NEW d \in Drainers, NEW p \in Pass, become(d, p),
         clock' = clock,
         \A i \in othersRows(d) : outbox'[i] = outbox[i],
         \A i \in Ids : outbox'[i].status # "none" => i \in minted',
         freshPass(p, outbox', clock),
         rowsOf(p) \cap othersRows(d) = {}
  PROVE  ClaimInv'
<1>1. drainer \in [Drainers -> Pass]
  BY DEF ClaimStrong, TableInv, TypeOK
<1>2. drainer'[d] = p /\ \A e \in Drainers \ {d} : drainer'[e] = drainer[e]
  BY <1>1, BecomeMoves
<1>3. ASSUME NEW e \in Drainers \ {d} PROVE freshPass(drainer'[e], outbox', clock')
  <2>1. freshPass(drainer[e], outbox, clock) /\ drainer'[e] = drainer[e]
    BY <1>2 DEF ClaimStrong, ClaimInv
  <2>2. \A i \in rowsOf(drainer[e]) : outbox'[i] = outbox[i]
    BY DEF othersRows, holds
  <2>3. QED
    BY <2>1, <2>2 DEF freshPass
<1>4. \A e \in Drainers : freshPass(drainer'[e], outbox', clock')
  BY <1>2, <1>3
<1>5. ExclusiveClaims'
  <2> SUFFICES ASSUME NEW a \in Drainers, NEW b \in Drainers, a # b
               PROVE  rowsOf(drainer'[a]) \cap rowsOf(drainer'[b]) = {}
    BY DEF ExclusiveClaims, holds
  <2>1. CASE a # d /\ b # d
    BY <1>2, <2>1 DEF ClaimStrong, ClaimInv, ExclusiveClaims, holds
  <2>2. CASE a = d
    BY <1>2, <2>2 DEF othersRows, holds
  <2>3. CASE b = d
    BY <1>2, <2>3 DEF othersRows, holds
  <2>4. QED
    BY <2>1, <2>2, <2>3
<1>6. QED
  BY <1>4, <1>5 DEF ClaimInv, present

(* The rows other passes hold are processing and no older than HoldMax. *)
LEMMA OthersRowsAreFresh ==
  ASSUME ClaimStrong, NEW d \in Drainers, NEW i \in othersRows(d)
  PROVE  /\ i \in Ids /\ i \notin holds(d)
         /\ outbox[i].status = "processing"
         /\ outbox[i].claimedAt + HoldMax >= clock
<1>1. PICK e \in Drainers \ {d} : i \in holds(e)
  BY DEF othersRows
<1>2. drainer[e] \in Pass /\ freshPass(drainer[e], outbox, clock)
      /\ outbox \in [Ids -> Row] /\ clock \in Nat
  BY DEF ClaimStrong, ClaimInv, TableInv, TypeOK
<1>3. i \in Ids /\ drainer[e].pc # "idle"
  BY <1>1, <1>2 DEF holds, rowsOf, freshPass, Pass
<1>4. /\ outbox[i].status = "processing" /\ outbox[i].claimedAt >= drainer[e].now
      /\ clock <= drainer[e].now + HoldMax
  BY <1>1, <1>2, <1>3 DEF freshPass, holds
<1>5. outbox[i].claimedAt \in Int /\ drainer[e].now \in Int /\ HoldMax \in Int
  BY <1>2, <1>3, OutboxAssumption DEF Row, Pass, Null
<1>6. i \notin holds(d)
  BY <1>1 DEF ClaimStrong, ClaimInv, ExclusiveClaims
<1>7. QED
  BY <1>2, <1>3, <1>4, <1>5, <1>6

LEMMA ClaimInvInit == Init => ClaimInv
<1> SUFFICES ASSUME Init PROVE ClaimInv
  OBVIOUS
<1>1. \A d \in Drainers : drainer[d] = idlePass /\ rowsOf(idlePass) = {}
  BY DEF Init, rowsOf, idlePass
<1>2. QED
  BY <1>1, OutboxAssumption DEF Init, ClaimInv, ExclusiveClaims, holds, freshPass, idlePass,
     present, absent

LEMMA EnqueueClaim ==
  ASSUME ClaimStrong, NEW i \in Ids, NEW delay \in Delays, enqueueTask(i, delay)
  PROVE  ClaimInv'
<1>0. outbox \in [Ids -> Row] /\ minted \subseteq Ids
  BY DEF ClaimStrong, TableInv, TypeOK
<1>1. /\ drainer' = drainer /\ clock' = clock /\ minted' = minted \cup {i}
      /\ i \in Ids \ minted
  BY DEF enqueueTask, enqueueUnkeyed, enqueueNewKey, replaceFailed
<1>2. \A j \in Ids \ {i} : \/ outbox'[j] = outbox[j]
                           \/ outbox[j].status = "failed" /\ outbox'[j].status = "none"
  BY <1>0 DEF enqueueTask, enqueueUnkeyed, enqueueNewKey, replaceFailed, holders, absent
<1>3. ASSUME NEW e \in Drainers PROVE freshPass(drainer'[e], outbox', clock')
  <2>1. freshPass(drainer[e], outbox, clock) /\ drainer[e] \in Pass
    BY DEF ClaimStrong, ClaimInv, TableInv, TypeOK
  <2>2. \A j \in rowsOf(drainer[e]) : j \in Ids /\ outbox[j].status = "processing"
    BY <2>1 DEF freshPass, rowsOf, Pass
  <2>3. \A j \in rowsOf(drainer[e]) : j \in minted
    BY <2>2 DEF ClaimStrong, ClaimInv, present
  <2>4. \A j \in rowsOf(drainer[e]) : outbox'[j] = outbox[j]
    BY <1>1, <1>2, <2>2, <2>3
  <2>5. QED
    BY <1>1, <2>1, <2>4 DEF freshPass
<1>4. \A j \in Ids : outbox'[j].status # "none" => j \in minted'
  BY <1>1, <1>2 DEF ClaimStrong, ClaimInv, present
<1>5. QED
  BY <1>1, <1>3, <1>4 DEF ClaimStrong, ClaimInv, ExclusiveClaims, holds, present

(* Moves of a pass that change neither the table nor the set of its rows, *)
(* and moves that give rows up.                                           *)
LEMMA QuietClaim ==
  ASSUME ClaimStrong, NEW d \in Drainers,
         begin(d) \/ handlerReturns(d) \/ handlerThrows(d) \/ doneWriteFails(d)
           \/ finish(d) \/ crash(d)
  PROVE  ClaimInv'
<1>0. drainer[d] \in Pass /\ clock \in Nat /\ freshPass(drainer[d], outbox, clock)
  BY DEF ClaimStrong, ClaimInv, TableInv, TypeOK
<1>1. outbox' = outbox /\ clock' = clock /\ minted' = minted
  BY DEF begin, handlerReturns, handlerThrows, doneWriteFails, finish, crash
<1>2. PICK p \in Pass : /\ become(d, p) /\ rowsOf(p) \subseteq holds(d)
                        /\ freshPass(p, outbox, clock)
  <2>1. CASE begin(d)
    <3> DEFINE p == [drainer[d] EXCEPT !.pc = "begun", !.now = clock]
    <3>1. p \in Pass /\ become(d, p)
      BY <1>0, <2>1 DEF begin, Pass, PassState
    <3>2. drainer[d].batch = {} /\ drainer[d].cur = NoId
      BY <1>0, <2>1 DEF begin, pass, freshPass
    <3>3. p.pc = "begun" /\ p.now = clock /\ p.batch = {} /\ p.cur = NoId
      BY <1>0, <3>2 DEF Pass
    <3> HIDE DEF p
    <3>4. rowsOf(p) = {}
      BY <3>3 DEF rowsOf
    <3>5. freshPass(p, outbox, clock)
      BY <1>0, <3>3, <3>4, OutboxAssumption DEF freshPass
    <3>6. QED
      BY <3>1, <3>4, <3>5
  <2>2. CASE handlerReturns(d) \/ handlerThrows(d) \/ doneWriteFails(d)
    <3>1. PICK pc \in {"returned", "threw"}, stampAt \in Nat :
            become(d, [drainer[d] EXCEPT !.pc = pc, !.stampAt = stampAt])
      <4>1. CASE doneWriteFails(d)
        <5>1. [drainer[d] EXCEPT !.pc = "threw"]
                = [drainer[d] EXCEPT !.pc = "threw", !.stampAt = drainer[d].stampAt]
          BY <1>0 DEF Pass
        <5>2. drainer[d].stampAt \in Nat
          BY <1>0 DEF Pass
        <5>3. QED
          BY <4>1, <5>1, <5>2 DEF doneWriteFails
      <4>2. QED
        BY <2>2, <4>1 DEF handlerReturns, handlerThrows
    <3> DEFINE p == [drainer[d] EXCEPT !.pc = pc, !.stampAt = stampAt]
    <3>2. p \in Pass
      BY <1>0 DEF Pass, PassState
    <3>3. /\ p.pc = pc /\ p.now = drainer[d].now /\ p.batch = drainer[d].batch
          /\ p.cur = drainer[d].cur
      BY <1>0 DEF Pass
    <3>4. drainer[d].pc \in {"running", "returned"}
      BY <2>2 DEF handlerReturns, handlerThrows, doneWriteFails, pass
    <3> HIDE DEF p
    <3>5. rowsOf(p) = holds(d) /\ freshPass(p, outbox, clock)
      BY <1>0, <3>3, <3>4 DEF freshPass, rowsOf, holds
    <3>6. QED
      BY <3>1, <3>2, <3>5 DEF p
  <2>3. CASE finish(d) \/ crash(d)
    <3>1. rowsOf(idlePass) = {} /\ freshPass(idlePass, outbox, clock)
      BY <1>0, OutboxAssumption DEF rowsOf, idlePass, freshPass
    <3>2. QED
      BY <2>3, <3>1, IdlePassIsPass DEF finish, crash
  <2>4. QED
    BY <2>1, <2>2, <2>3
<1>3. rowsOf(p) \cap othersRows(d) = {}
  BY <1>2, OthersRowsAreFresh
<1>4. \A i \in Ids : outbox'[i].status # "none" => i \in minted'
  BY <1>1 DEF ClaimStrong, ClaimInv, present
<1>5. QED
  BY <1>1, <1>2, <1>3, <1>4, OwnStep

LEMMA PruneClaim ==
  ASSUME ClaimStrong, NEW d \in Drainers, prune(d)
  PROVE  ClaimInv'
<1> DEFINE p == [drainer[d] EXCEPT !.pc = "pruned"]
<1>0. drainer[d] \in Pass /\ freshPass(drainer[d], outbox, clock) /\ clock \in Nat
      /\ outbox \in [Ids -> Row]
  BY DEF ClaimStrong, ClaimInv, TableInv, TypeOK
<1>1. p \in Pass /\ p.pc = "pruned" /\ p.now = drainer[d].now
      /\ p.batch = {} /\ p.cur = NoId
  BY <1>0 DEF Pass, PassState, freshPass, prune, pass
<1>2. become(d, p) /\ clock' = clock /\ minted' = minted
  BY DEF prune
<1> HIDE DEF p
<1>3. rowsOf(p) = {}
  BY <1>1 DEF rowsOf
<1>4. freshPass(p, outbox', clock)
  <2>1. p.now <= clock /\ clock <= p.now + HoldMax
    BY <1>0, <1>1 DEF freshPass, prune, pass
  <2>2. QED
    BY <1>1, <1>3, <2>1, OutboxAssumption DEF freshPass
<1>5. \A i \in Ids : \/ outbox'[i] = outbox[i]
                     \/ outbox[i].status = "done" /\ outbox'[i].status = "none"
  BY <1>0 DEF prune, expired, absent
<1>6. \A i \in othersRows(d) : outbox'[i] = outbox[i]
  BY <1>5, OthersRowsAreFresh
<1>7. \A i \in Ids : outbox'[i].status # "none" => i \in minted'
  BY <1>2, <1>5 DEF ClaimStrong, ClaimInv, present
<1>8. QED
  BY <1>1, <1>2, <1>3, <1>4, <1>6, <1>7, OwnStep

(* Where STALE_MS earns its keep: what another pass holds is too fresh to *)
(* be claimed again.                                                      *)
LEMMA ClaimClaim ==
  ASSUME HoldMax < STALE_MS, ClaimStrong, NEW d \in Drainers, claim(d)
  PROVE  ClaimInv'
<1>1. PICK b \in batches(drainer[d].now) :
        /\ outbox' = [i \in Ids |->
             IF i \in b
               THEN [outbox[i] EXCEPT !.status = "processing", !.claimedAt = drainer[d].now]
               ELSE outbox[i]]
        /\ become(d, [drainer[d] EXCEPT
             !.pc = "loop", !.batch = b,
             !.seen = [i \in Ids |-> IF i \in b THEN outbox[i].attempts ELSE 0]])
  BY DEF claim
<1> DEFINE seen == [i \in Ids |-> IF i \in b THEN outbox[i].attempts ELSE 0]
           p == [drainer[d] EXCEPT !.pc = "loop", !.batch = b, !.seen = seen]
<1>0. /\ drainer[d] \in Pass /\ freshPass(drainer[d], outbox, clock) /\ clock \in Nat
      /\ outbox \in [Ids -> Row]
      /\ \A i \in Ids : rowCounts(outbox[i], ran[i])
  BY DEF ClaimStrong, ClaimInv, TableInv, TypeOK, AttemptInv
<1>2. drainer[d].now \in Nat /\ drainer[d].now <= clock /\ clock <= drainer[d].now + HoldMax
      /\ drainer[d].cur = NoId
  BY <1>0 DEF claim, pass, freshPass, Pass
<1>3. /\ b \in SUBSET Ids
      /\ \A i \in b : \/ outbox[i].status = "pending"
                      \/ /\ outbox[i].status = "processing"
                         /\ outbox[i].claimedAt <= drainer[d].now - STALE_MS
  BY DEF batches, claimable
<1>4. b \cap othersRows(d) = {}
  <2> SUFFICES ASSUME NEW i \in b, i \in othersRows(d) PROVE FALSE
    OBVIOUS
  <2>1. outbox[i].status = "processing" /\ outbox[i].claimedAt + HoldMax >= clock
    BY OthersRowsAreFresh
  <2>2. outbox[i].claimedAt <= drainer[d].now - STALE_MS
    BY <1>3, <2>1
  <2>3. outbox[i].claimedAt \in Int
    BY <1>0, <1>3 DEF Row, Null
  <2>4. QED
    BY <1>0, <1>2, <2>1, <2>2, <2>3, OutboxAssumption
<1>5. seen \in [Ids -> 0..(MAX_ATTEMPTS - 1)]
  BY <1>0, <1>3, OutboxAssumption DEF Row, rowCounts
<1>6. /\ p \in Pass /\ p.pc = "loop" /\ p.batch = b /\ p.cur = NoId
      /\ p.now = drainer[d].now
  <2> HIDE DEF seen
  <2>1. QED
    BY <1>0, <1>2, <1>3, <1>5 DEF Pass, PassState
<1>7. become(d, p) /\ clock' = clock /\ minted' = minted
  BY <1>1 DEF claim
<1> HIDE DEF p, seen
<1>8. rowsOf(p) = b
  BY <1>6 DEF rowsOf
<1>9. \A i \in b : outbox'[i].status = "processing" /\ outbox'[i].claimedAt = drainer[d].now
  BY <1>0, <1>1, <1>3 DEF Row
<1>10. freshPass(p, outbox', clock)
  BY <1>2, <1>3, <1>6, <1>8, <1>9, OutboxAssumption DEF freshPass
<1>11. \A i \in othersRows(d) : outbox'[i] = outbox[i]
  BY <1>1, <1>4, OthersRowsAreFresh
<1>12. \A i \in Ids : outbox'[i].status # "none" => i \in minted'
  BY <1>1, <1>3, <1>7 DEF ClaimStrong, ClaimInv, present
<1>13. QED
  BY <1>4, <1>6, <1>7, <1>8, <1>10, <1>11, <1>12, OwnStep

LEMMA StampClaim ==
  ASSUME ClaimStrong, NEW d \in Drainers, NEW i \in Ids, stamp(d, i)
  PROVE  ClaimInv'
<1> DEFINE p == [drainer[d] EXCEPT !.pc = "running", !.cur = i, !.stampAt = clock,
                                   !.batch = @ \ {i}]
           r == [outbox[i] EXCEPT !.claimedAt = clock]
<1>0. /\ drainer[d] \in Pass /\ freshPass(drainer[d], outbox, clock) /\ clock \in Nat
      /\ outbox \in [Ids -> Row] /\ drainer[d].pc = "loop" /\ i \in drainer[d].batch
  BY DEF ClaimStrong, ClaimInv, TableInv, TypeOK, stamp, pass
<1>1. /\ p \in Pass /\ p.pc = "running" /\ p.batch = drainer[d].batch \ {i} /\ p.cur = i
      /\ p.now = drainer[d].now
  BY <1>0 DEF Pass, PassState
<1>2. become(d, p) /\ clock' = clock /\ minted' = minted /\ outbox' = update(i, r)
  BY DEF stamp
<1>3. r \in Row /\ r.status = outbox[i].status /\ r.claimedAt = clock
  BY <1>0 DEF Row
<1> HIDE DEF p, r
<1>4. rowsOf(p) = holds(d) /\ i \in holds(d)
  BY <1>0, <1>1, OutboxAssumption DEF rowsOf, holds, freshPass
<1>5. /\ outbox'[i] = r /\ r.status = "processing"
      /\ \A j \in Ids \ {i} : outbox'[j] = outbox[j]
  BY <1>0, <1>2, <1>3, <1>4 DEF update, present, freshPass, holds
<1>6. freshPass(p, outbox', clock)
  BY <1>0, <1>1, <1>3, <1>4, <1>5, OutboxAssumption DEF freshPass, holds, rowsOf, Pass
<1>7. \A j \in othersRows(d) : outbox'[j] = outbox[j]
  BY <1>4, <1>5, OthersRowsAreFresh
<1>8. \A j \in Ids : outbox'[j].status # "none" => j \in minted'
  BY <1>2, <1>3, <1>5 DEF ClaimStrong, ClaimInv, present
<1>9. rowsOf(p) \cap othersRows(d) = {}
  BY <1>4, OthersRowsAreFresh
<1>10. QED
  BY <1>1, <1>2, <1>6, <1>7, <1>8, <1>9, OwnStep

LEMMA RecordClaim ==
  ASSUME ClaimStrong, NEW d \in Drainers, recordDone(d) \/ recordFailure(d)
  PROVE  ClaimInv'
<1> DEFINE i == drainer[d].cur
           p == [drainer[d] EXCEPT !.pc = "loop", !.cur = NoId, !.seen = [@ EXCEPT ![i] = 0]]
<1>0. /\ drainer[d] \in Pass /\ passCounts(drainer[d], ran)
      /\ freshPass(drainer[d], outbox, clock) /\ clock \in Nat
      /\ outbox \in [Ids -> Row] /\ ran \in [Ids -> Nat]
      /\ drainer[d].pc \in {"returned", "threw"}
  BY DEF ClaimStrong, ClaimInv, TableInv, TypeOK, AttemptInv, recordDone, recordFailure, pass
<1>1. i \in Ids /\ i \notin drainer[d].batch /\ i \in holds(d)
  BY <1>0, OutboxAssumption DEF passCounts, freshPass, holds, rowsOf
<1>2. /\ p \in Pass /\ p.pc = "loop" /\ p.cur = NoId
      /\ p.batch = drainer[d].batch /\ p.now = drainer[d].now
  <2>1. p \in Pass
    BY <1>0, <1>1, RowOverPass
  <2>2. QED
    BY <1>0, <2>1 DEF Pass
<1>3. become(d, p) /\ clock' = clock /\ minted' = minted
  BY DEF recordDone, recordFailure, rowOver
<1> HIDE DEF p
<1>4. rowsOf(p) = holds(d) \ {i}
  BY <1>0, <1>1, <1>2, OutboxAssumption DEF rowsOf, holds, Pass
<1>5. \A j \in Ids \ {i} : outbox'[j] = outbox[j]
  BY <1>0 DEF recordDone, recordFailure, update
<1>6. freshPass(p, outbox', clock)
  BY <1>0, <1>2, <1>4, <1>5, OutboxAssumption DEF freshPass, holds, rowsOf, Pass
<1>7. i \in minted
  BY <1>0, <1>1 DEF ClaimStrong, ClaimInv, present, freshPass, holds
<1>8. \A j \in Ids : outbox'[j].status # "none" => j \in minted'
  BY <1>3, <1>5, <1>7 DEF ClaimStrong, ClaimInv, present
<1>9. \A j \in othersRows(d) : outbox'[j] = outbox[j]
  BY <1>1, <1>5, OthersRowsAreFresh
<1>10. rowsOf(p) \cap othersRows(d) = {}
  BY <1>4, OthersRowsAreFresh
<1>11. QED
  BY <1>2, <1>3, <1>6, <1>8, <1>9, <1>10, OwnStep

LEMMA TickClaim ==
  ASSUME ClaimStrong, tick
  PROVE  ClaimInv'
<1>1. ASSUME NEW d \in Drainers PROVE freshPass(drainer'[d], outbox', clock')
  <2>1. /\ drainer[d] \in Pass /\ freshPass(drainer[d], outbox, clock) /\ clock \in Nat
        /\ drainer' = drainer /\ outbox' = outbox /\ clock' = clock + 1
        /\ drainer[d].pc # "idle" => clock < drainer[d].now + HoldMax
    BY DEF ClaimStrong, ClaimInv, TableInv, TypeOK, tick
  <2>2. drainer[d].now \in Nat
    BY <2>1 DEF Pass
  <2>3. QED
    BY <2>1, <2>2, OutboxAssumption DEF freshPass
<1>2. QED
  BY <1>1 DEF tick, ClaimStrong, ClaimInv, ExclusiveClaims, holds, present

LEMMA ClaimNext ==
  ASSUME HoldMax < STALE_MS
  PROVE  ClaimStrong /\ [Next]_vars => ClaimStrong'
<1> SUFFICES ASSUME ClaimStrong, [Next]_vars PROVE ClaimInv'
  BY TableInvNext DEF ClaimStrong
<1>1. CASE \E i \in Ids, delay \in Delays : enqueueTask(i, delay)
  BY <1>1, EnqueueClaim
<1>2. ASSUME NEW d \in Drainers, drainStep(d) PROVE ClaimInv'
  BY <1>2, QuietClaim, PruneClaim, ClaimClaim, StampClaim, RecordClaim DEF drainStep
<1>3. CASE tick
  BY <1>3, TickClaim
<1>4. CASE UNCHANGED vars
  BY <1>4 DEF vars, ClaimStrong, ClaimInv, ExclusiveClaims, holds, present
<1>5. QED
  BY <1>1, <1>2, <1>3, <1>4 DEF Next

(* When every pass ends within STALE_MS, concurrent drainers never hold   *)
(* the same row, whatever crashes.                                        *)
THEOREM PromptPassesExclude ==
  ASSUME HoldMax < STALE_MS
  PROVE  Spec => []ExclusiveClaims
<1>1. Init => ClaimStrong
  BY TableInvInit, ClaimInvInit DEF ClaimStrong
<1>2. ClaimStrong /\ [Next]_vars => ClaimStrong'
  BY ClaimNext
<1>3. ClaimStrong => ExclusiveClaims
  BY DEF ClaimStrong, ClaimInv
<1>4. QED
  BY <1>1, <1>2, <1>3, PTL DEF Spec

-----------------------------------------------------------------------------
(***************************************************************************)
(* Nothing accepted is lost, however slow the passes.  A row is in the     *)
(* table under an id that was minted; a minted id that is not there, and   *)
(* one whose row is done, has been delivered or has used up its attempts;  *)
(* and a pass that is about to write 'done' has seen the handler return.   *)
(***************************************************************************)
settled(i) == delivered[i] > 0 \/ ran[i] >= MAX_ATTEMPTS

LossInv ==
  /\ \A i \in Ids : present(i) => i \in minted
  /\ \A i \in minted : ~present(i) => settled(i)
  /\ DoneMeansDelivered
  /\ \A d \in Drainers : drainer[d].pc = "returned" => delivered[drainer[d].cur] > 0

LossStrong == TableInv /\ LossInv

(* Any step that leaves the ids and the table where they are.              *)
LEMMA QuietLoss ==
  ASSUME LossStrong, outbox' = outbox, minted' = minted,
         delivered' \in [Ids -> Nat], ran' \in [Ids -> Nat],
         \A i \in Ids : delivered[i] <= delivered'[i] /\ ran[i] <= ran'[i],
         \A d \in Drainers : drainer'[d].pc = "returned" =>
                               delivered'[drainer'[d].cur] > 0
  PROVE  LossInv'
  BY OutboxAssumption DEF LossStrong, TableInv, TypeOK, LossInv, present, settled,
     DoneMeansDelivered

(* A pass that moves between two statements. *)
LEMMA PassLoss ==
  ASSUME LossStrong, NEW d \in Drainers, drainStep(d), delivered' = delivered,
         drainer'[d].pc # "returned"
  PROVE  \A e \in Drainers : drainer'[e].pc = "returned" =>
                               delivered'[drainer'[e].cur] > 0
<1>1. \A e \in Drainers \ {d} : drainer'[e] = drainer[e]
  BY DEF LossStrong, TableInv, TypeOK, drainStep, begin, prune, claim, stamp, handlerReturns,
     handlerThrows, recordDone, recordFailure, rowOver, doneWriteFails, finish, crash, become
<1>2. QED
  BY <1>1 DEF LossStrong, LossInv

LEMMA EnqueueLoss ==
  ASSUME LossStrong, NEW i \in Ids, NEW delay \in Delays, enqueueTask(i, delay)
  PROVE  LossInv'
<1>0. /\ outbox \in [Ids -> Row] /\ minted \in SUBSET Ids /\ ran \in [Ids -> Nat]
      /\ drainer' = drainer /\ ran' = ran /\ delivered' = delivered
      /\ minted' = minted \cup {i} /\ i \in Ids \ minted
  BY DEF LossStrong, TableInv, TypeOK, enqueueTask, enqueueUnkeyed, enqueueNewKey,
     replaceFailed
<1>1. \A d \in Drainers : drainer'[d].pc = "returned" => delivered'[drainer'[d].cur] > 0
  BY <1>0 DEF LossStrong, LossInv
<1>2. outbox'[i].status = "pending"
  BY <1>0 DEF enqueueTask, enqueueUnkeyed, enqueueNewKey, replaceFailed, newRow, absent,
     holders, present, LossStrong, LossInv
<1>3. ASSUME NEW j \in Ids \ {i}
      PROVE  \/ outbox'[j] = outbox[j]
             \/ outbox[j].status = "failed" /\ outbox'[j] = absent
  BY <1>0 DEF enqueueTask, enqueueUnkeyed, enqueueNewKey, replaceFailed, holders
<1>4. \A j \in Ids : outbox[j].status = "failed" => j \in minted /\ ran[j] >= MAX_ATTEMPTS
  <2>1. \A j \in Ids : outbox[j].status = "failed" => ran[j] >= MAX_ATTEMPTS
    BY <1>0, OutboxAssumption DEF LossStrong, TableInv, AttemptInv, rowCounts, Row
  <2>2. QED
    BY <2>1 DEF LossStrong, LossInv, present
<1>5. \A j \in Ids : outbox'[j].status # "none" => j \in minted'
  BY <1>0, <1>2, <1>3 DEF LossStrong, LossInv, present, absent
<1>6. \A j \in minted' : outbox'[j].status = "none" => delivered'[j] > 0 \/ ran'[j] >= MAX_ATTEMPTS
  BY <1>0, <1>2, <1>3, <1>4 DEF LossStrong, LossInv, present, settled
<1>7. \A j \in Ids : outbox'[j].status = "done" => delivered'[j] > 0
  BY <1>0, <1>2, <1>3 DEF LossStrong, LossInv, DoneMeansDelivered, absent
<1>8. QED
  BY <1>1, <1>5, <1>6, <1>7 DEF LossInv, DoneMeansDelivered, present, settled

(* Rows only leave the table by pruning, and only done ones do. *)
LEMMA PruneLoss ==
  ASSUME LossStrong, NEW d \in Drainers, prune(d)
  PROVE  LossInv'
<1>0. /\ outbox \in [Ids -> Row] /\ minted \in SUBSET Ids /\ drainer \in [Drainers -> Pass]
      /\ minted' = minted /\ delivered' = delivered /\ ran' = ran
  BY DEF LossStrong, TableInv, TypeOK, prune
<1>1. \A i \in Ids : \/ outbox'[i] = outbox[i]
                     \/ outbox[i].status = "done" /\ outbox'[i].status = "none"
  BY DEF prune, expired, absent
<1>2. \A e \in Drainers : drainer'[e].pc = "returned" => delivered'[drainer'[e].cur] > 0
  <2>1. drainer'[d].pc = "pruned"
    BY <1>0 DEF prune, become, Pass
  <2>2. QED
    BY <1>0, <2>1, PassLoss DEF drainStep
<1>3. QED
  BY <1>0, <1>1, <1>2 DEF LossStrong, LossInv, present, settled, DoneMeansDelivered

(* A row a pass rewrites was there before and is there afterwards. *)
LEMMA RewriteLoss ==
  ASSUME LossStrong, NEW d \in Drainers, drainStep(d),
         minted' = minted, delivered' = delivered, ran' = ran,
         drainer'[d].pc # "returned",
         \A i \in Ids : \/ outbox'[i] = outbox[i]
                        \/ /\ present(i) /\ outbox'[i].status # "none"
                           /\ outbox'[i].status = "done" => delivered[i] > 0
  PROVE  LossInv'
<1>1. \A e \in Drainers : drainer'[e].pc = "returned" => delivered'[drainer'[e].cur] > 0
  BY PassLoss
<1>2. minted \in SUBSET Ids
  BY DEF LossStrong, TableInv, TypeOK
<1>3. QED
  BY <1>1, <1>2 DEF LossStrong, LossInv, present, settled, DoneMeansDelivered

LEMMA ClaimLoss ==
  ASSUME LossStrong, NEW d \in Drainers, claim(d)
  PROVE  LossInv'
<1>0. outbox \in [Ids -> Row] /\ drainer \in [Drainers -> Pass]
  BY DEF LossStrong, TableInv, TypeOK
<1>1. PICK b \in batches(drainer[d].now) :
        /\ outbox' = [i \in Ids |->
             IF i \in b
               THEN [outbox[i] EXCEPT !.status = "processing", !.claimedAt = drainer[d].now]
               ELSE outbox[i]]
        /\ become(d, [drainer[d] EXCEPT
             !.pc = "loop", !.batch = b,
             !.seen = [i \in Ids |-> IF i \in b THEN outbox[i].attempts ELSE 0]])
  BY DEF claim
<1>2. \A i \in b : i \in Ids /\ present(i)
  BY DEF batches, claimable, present
<1>3. \A i \in Ids : \/ outbox'[i] = outbox[i]
                     \/ present(i) /\ outbox'[i].status = "processing"
  BY <1>0, <1>1, <1>2 DEF Row
<1>4. drainer'[d].pc = "loop"
  BY <1>0, <1>1 DEF become, Pass
<1>5. drainStep(d) /\ minted' = minted /\ delivered' = delivered /\ ran' = ran
  BY DEF drainStep, claim
<1>6. QED
  BY <1>3, <1>4, <1>5, RewriteLoss

LEMMA StampLoss ==
  ASSUME LossStrong, NEW d \in Drainers, NEW i \in Ids, stamp(d, i)
  PROVE  LossInv'
<1>0. outbox \in [Ids -> Row] /\ drainer \in [Drainers -> Pass]
  BY DEF LossStrong, TableInv, TypeOK
<1>1. \A j \in Ids : \/ outbox'[j] = outbox[j]
                     \/ present(j) /\ outbox'[j].status = outbox[j].status
  BY <1>0 DEF stamp, update, Row
<1>2. \A j \in Ids : outbox[j].status = "done" => delivered[j] > 0
  BY DEF LossStrong, LossInv, DoneMeansDelivered
<1>3. drainer'[d].pc = "running"
  BY <1>0 DEF stamp, become, Pass
<1>4. drainStep(d) /\ minted' = minted /\ delivered' = delivered /\ ran' = ran
  BY DEF drainStep, stamp
<1>5. QED
  BY <1>1, <1>2, <1>3, <1>4, RewriteLoss DEF present

LEMMA RecordLoss ==
  ASSUME LossStrong, NEW d \in Drainers, recordDone(d) \/ recordFailure(d)
  PROVE  LossInv'
<1> DEFINE i == drainer[d].cur
           done == [outbox[i] EXCEPT !.status = "done", !.attempts = attemptOf(d),
                                     !.claimedAt = clock]
           fail == [outbox[i] EXCEPT !.status = outcomeOfFailure(attemptOf(d)),
                                     !.attempts = attemptOf(d),
                                     !.runAt = drainer[d].now + backoffMs(attemptOf(d)),
                                     !.claimedAt = Null]
<1>0. /\ outbox \in [Ids -> Row] /\ drainer \in [Drainers -> Pass]
      /\ drainer[d].pc \in {"returned", "threw"} /\ i \in Ids
  BY DEF LossStrong, TableInv, TypeOK, AttemptInv, passCounts, recordDone, recordFailure, pass
<1>1. CASE recordDone(d)
  <2>1. done.status = "done" /\ outbox' = update(i, done) /\ delivered[i] > 0
    BY <1>0, <1>1 DEF recordDone, pass, LossStrong, LossInv, Row
  <2> HIDE DEF done
  <2>2. QED
    <3>1. \A j \in Ids : \/ outbox'[j] = outbox[j]
                         \/ present(j) /\ outbox'[j].status = "done" /\ delivered[j] > 0
      BY <1>0, <2>1 DEF update
    <3>2. drainer'[d].pc = "loop"
      BY <1>0, <1>1 DEF recordDone, rowOver, become, Pass
    <3>3. drainStep(d) /\ minted' = minted /\ delivered' = delivered /\ ran' = ran
      BY <1>1 DEF drainStep, recordDone
    <3>4. QED
      BY <3>1, <3>2, <3>3, RewriteLoss
<1>2. CASE recordFailure(d)
  <2>1. fail.status \in {"pending", "failed"} /\ outbox' = update(i, fail)
    BY <1>0, <1>2 DEF recordFailure, Row, outcomeOfFailure
  <2> HIDE DEF fail
  <2>2. QED
    <3>1. \A j \in Ids : \/ outbox'[j] = outbox[j]
                         \/ present(j) /\ outbox'[j].status \in {"pending", "failed"}
      BY <1>0, <2>1 DEF update
    <3>2. drainer'[d].pc = "loop"
      BY <1>0, <1>2 DEF recordFailure, rowOver, become, Pass
    <3>3. drainStep(d) /\ minted' = minted /\ delivered' = delivered /\ ran' = ran
      BY <1>2 DEF drainStep, recordFailure
    <3>4. QED
      BY <3>1, <3>2, <3>3, RewriteLoss
<1>3. QED
  BY <1>1, <1>2

(* The steps of a pass that leave the table alone. *)
LEMMA WaitLoss ==
  ASSUME LossStrong, NEW d \in Drainers,
         begin(d) \/ handlerReturns(d) \/ handlerThrows(d) \/ doneWriteFails(d)
           \/ finish(d) \/ crash(d)
  PROVE  LossInv'
<1>0. /\ drainer \in [Drainers -> Pass] /\ delivered \in [Ids -> Nat] /\ ran \in [Ids -> Nat]
      /\ outbox' = outbox /\ minted' = minted
  BY DEF LossStrong, TableInv, TypeOK, begin, handlerReturns, handlerThrows, doneWriteFails,
     finish, crash
<1>1. CASE handlerReturns(d) \/ handlerThrows(d)
  <2> DEFINE i == drainer[d].cur
  <2>1. i \in Ids
    BY <1>0, <1>1 DEF LossStrong, TableInv, AttemptInv, passCounts, handlerReturns,
       handlerThrows, pass
  <2>2. /\ delivered' \in [Ids -> Nat] /\ ran' \in [Ids -> Nat]
        /\ \A j \in Ids : delivered[j] <= delivered'[j] /\ ran[j] <= ran'[j]
    BY <1>0, <1>1, <2>1 DEF handlerReturns, handlerThrows
  <2>3. /\ \A e \in Drainers \ {d} : drainer'[e] = drainer[e]
        /\ drainer'[d].pc = "returned" => handlerReturns(d) /\ drainer'[d].cur = i
    <3>1. drainer[d] \in Pass
      BY <1>0
    <3>2. CASE handlerReturns(d)
      BY <1>0, <3>1, <3>2 DEF handlerReturns, become, Pass
    <3>3. CASE handlerThrows(d)
      BY <1>0, <3>1, <3>3 DEF handlerThrows, become, Pass
    <3>4. QED
      BY <1>1, <3>2, <3>3
  <2>4. handlerReturns(d) => delivered'[i] > 0
    BY <1>0, <2>1 DEF handlerReturns
  <2>5. \A e \in Drainers \ {d} : drainer[e].pc = "returned" =>
          drainer[e].cur \in Ids /\ delivered[drainer[e].cur] > 0
    BY DEF LossStrong, LossInv, TableInv, AttemptInv, passCounts
  <2>6. \A e \in Drainers : drainer'[e].pc = "returned" => delivered'[drainer'[e].cur] > 0
    <3>1. ASSUME NEW e \in Drainers \ {d}, drainer'[e].pc = "returned"
          PROVE  delivered'[drainer'[e].cur] > 0
      <4>1. drainer[e].cur \in Ids /\ delivered[drainer[e].cur] > 0
        BY <2>3, <2>5, <3>1
      <4>2. delivered[drainer[e].cur] \in Nat /\ delivered'[drainer[e].cur] \in Nat
        BY <1>0, <2>2, <4>1
      <4>3. QED
        BY <2>2, <2>3, <4>1, <4>2
    <3>2. QED
      BY <2>3, <2>4, <3>1
  <2>7. QED
    BY <1>0, <2>2, <2>6, QuietLoss
<1>2. CASE begin(d) \/ doneWriteFails(d) \/ finish(d) \/ crash(d)
  <2>1. drainer'[d].pc # "returned" /\ delivered' = delivered /\ ran' = ran /\ drainStep(d)
    <3>1. drainer[d] \in Pass
      BY <1>0
    <3>2. drainer'[d].pc # "returned"
      <4>1. CASE begin(d)
        BY <1>0, <3>1, <4>1 DEF begin, become, Pass
      <4>2. CASE doneWriteFails(d)
        BY <1>0, <3>1, <4>2 DEF doneWriteFails, become, Pass
      <4>3. CASE finish(d) \/ crash(d)
        BY <1>0, <4>3 DEF finish, crash, become, idlePass
      <4>4. QED
        BY <1>2, <4>1, <4>2, <4>3
    <3>3. QED
      BY <1>2, <3>2 DEF begin, doneWriteFails, finish, crash, drainStep
  <2>2. \A e \in Drainers : drainer'[e].pc = "returned" => delivered'[drainer'[e].cur] > 0
    BY <2>1, PassLoss
  <2>3. QED
    BY <1>0, <2>1, <2>2, QuietLoss
<1>3. QED
  BY <1>1, <1>2

LEMMA LossNext == LossStrong /\ [Next]_vars => LossStrong'
<1> SUFFICES ASSUME LossStrong, [Next]_vars PROVE LossInv'
  BY TableInvNext DEF LossStrong
<1>1. CASE \E i \in Ids, delay \in Delays : enqueueTask(i, delay)
  BY <1>1, EnqueueLoss
<1>2. ASSUME NEW d \in Drainers, drainStep(d) PROVE LossInv'
  BY <1>2, PruneLoss, ClaimLoss, StampLoss, RecordLoss, WaitLoss DEF drainStep
<1>3. CASE tick \/ UNCHANGED vars
  BY <1>3 DEF tick, vars, LossStrong, LossInv, present, settled, DoneMeansDelivered
<1>4. QED
  BY <1>1, <1>2, <1>3 DEF Next

(* An accepted task leaves the table only after its handler has returned  *)
(* or after all its attempts, for any number of passes, however slow and  *)
(* wherever they crash.                                                   *)
THEOREM NothingIsLost == Spec => []NoLostTask
<1>1. Init => LossStrong
  BY TableInvInit DEF LossStrong, LossInv, Init, present, absent, settled,
     DoneMeansDelivered, idlePass
<1>2. LossStrong => NoLostTask
  BY DEF LossStrong, LossInv, settled, NoLostTask
<1>3. QED
  BY <1>1, <1>2, LossNext, PTL DEF Spec

(* A row that is done was delivered, however many passes wrote to it.     *)
THEOREM DoneRowsWereDelivered == Spec => []DoneMeansDelivered
<1>1. Init => LossStrong
  BY TableInvInit DEF LossStrong, LossInv, Init, present, absent, settled,
     DoneMeansDelivered, idlePass
<1>2. LossStrong => DoneMeansDelivered
  BY DEF LossStrong, LossInv
<1>3. QED
  BY <1>1, <1>2, LossNext, PTL DEF Spec

-----------------------------------------------------------------------------
(***************************************************************************)
(* At most once.  Under exclusive claims a task whose handler returned is  *)
(* either still in the hands of the pass that ran it, or done, or pruned;  *)
(* only a crash or a failed write, which disturb it, lead elsewhere.       *)
(***************************************************************************)
inHand(i)  == \E d \in Drainers : drainer[d].pc = "returned" /\ drainer[d].cur = i
overFor(i) == outbox[i].status \in {"done", "none"}

OnceInv ==
  /\ \A i \in Ids \ minted : delivered[i] = 0
  /\ \A i \in Ids \ disturbed :
       delivered[i] = 0 \/ (delivered[i] = 1 /\ (inHand(i) \/ overFor(i)))

OnceStrong == ClaimStrong /\ OnceInv

(* What a pass holds is minted and not over. *)
LEMMA HeldIsLive ==
  ASSUME ClaimStrong, NEW d \in Drainers, NEW i \in holds(d)
  PROVE  i \in Ids /\ i \in minted /\ outbox[i].status = "processing"
<1>1. drainer[d] \in Pass /\ freshPass(drainer[d], outbox, clock)
  BY DEF ClaimStrong, ClaimInv, TableInv, TypeOK
<1>2. i \in Ids /\ outbox[i].status = "processing"
  BY <1>1 DEF holds, rowsOf, freshPass, Pass
<1>3. QED
  BY <1>2 DEF ClaimStrong, ClaimInv, present

(* The row a pass is running or has run is one it holds. *)
LEMMA CurrentIsHeld ==
  ASSUME ClaimStrong, NEW d \in Drainers, drainer[d].pc \in {"running", "returned", "threw"}
  PROVE  drainer[d].cur \in Ids /\ drainer[d].cur \in holds(d)
<1>1. passCounts(drainer[d], ran)
  BY DEF ClaimStrong, TableInv, AttemptInv
<1>2. QED
  BY <1>1, OutboxAssumption DEF passCounts, holds, rowsOf

(* A step that delivers nothing, leaves no returned run behind and puts no *)
(* row that is over back to work keeps the invariant.                      *)
LEMMA KeepOnce ==
  ASSUME OnceStrong, minted \subseteq minted', disturbed \subseteq disturbed',
         delivered' = delivered,
         \A i \in Ids \ disturbed' : inHand(i) => inHand(i)' \/ overFor(i)',
         \A i \in Ids \ disturbed' : overFor(i) /\ delivered[i] = 1 => overFor(i)'
  PROVE  OnceInv'
  BY DEF OnceStrong, OnceInv

LEMMA EnqueueOnce ==
  ASSUME OnceStrong, NEW i \in Ids, NEW delay \in Delays, enqueueTask(i, delay)
  PROVE  OnceInv'
<1>0. /\ outbox \in [Ids -> Row] /\ minted \in SUBSET Ids
      /\ drainer' = drainer /\ delivered' = delivered /\ disturbed' = disturbed
      /\ minted' = minted \cup {i} /\ i \in Ids \ minted
  BY DEF OnceStrong, ClaimStrong, TableInv, TypeOK, enqueueTask, enqueueUnkeyed,
     enqueueNewKey, replaceFailed
<1>1. \A j \in Ids \ {i} : outbox'[j] = outbox[j] \/ outbox'[j] = absent
  BY <1>0 DEF enqueueTask, enqueueUnkeyed, enqueueNewKey, replaceFailed, holders
<1>2. delivered[i] = 0
  BY <1>0 DEF OnceStrong, OnceInv
<1>3. \A j \in Ids : overFor(j) /\ delivered[j] = 1 => overFor(j)'
  BY <1>1, <1>2 DEF overFor, absent
<1>4. \A j \in Ids : inHand(j) => inHand(j)'
  BY <1>0 DEF inHand
<1>5. QED
  BY <1>0, <1>3, <1>4, KeepOnce

LEMMA TableOnce ==
  ASSUME OnceStrong, NEW d \in Drainers, prune(d) \/ claim(d) \/ \E i \in Ids : stamp(d, i)
  PROVE  OnceInv'
<1>0. /\ outbox \in [Ids -> Row] /\ drainer \in [Drainers -> Pass]
      /\ minted' = minted /\ disturbed' = disturbed /\ delivered' = delivered
  BY DEF OnceStrong, ClaimStrong, TableInv, TypeOK, prune, claim, stamp
<1>1. \A j \in Ids : overFor(j) => overFor(j)'
  <2>1. CASE prune(d)
    BY <1>0, <2>1 DEF prune, overFor, absent
  <2>2. CASE claim(d)
    BY <1>0, <2>2 DEF claim, batches, claimable, overFor
  <2>3. ASSUME NEW i \in Ids, stamp(d, i) PROVE \A j \in Ids : overFor(j) => overFor(j)'
    <3>1. i \in holds(d)
      BY <2>3 DEF stamp, holds, rowsOf
    <3>2. outbox[i].status = "processing"
      BY <3>1, HeldIsLive DEF OnceStrong
    <3>3. \A j \in Ids \ {i} : outbox'[j] = outbox[j]
      BY <1>0, <2>3 DEF stamp, update
    <3>4. QED
      BY <3>2, <3>3 DEF overFor
  <2>4. QED
    BY <2>1, <2>2, <2>3
<1>2. drainer[d].pc # "returned"
  BY DEF prune, claim, stamp, pass
<1>3. \A e \in Drainers \ {d} : drainer'[e] = drainer[e]
  BY <1>0 DEF prune, claim, stamp, become
<1>4. \A j \in Ids : inHand(j) => inHand(j)'
  BY <1>2, <1>3 DEF inHand
<1>5. QED
  BY <1>0, <1>1, <1>4, KeepOnce

(* The handler runs once more only for a row nobody has delivered.        *)
LEMMA RunOnce ==
  ASSUME OnceStrong, NEW d \in Drainers, handlerReturns(d) \/ handlerThrows(d)
  PROVE  OnceInv'
<1>0. /\ drainer \in [Drainers -> Pass] /\ delivered \in [Ids -> Nat]
      /\ minted' = minted /\ disturbed' = disturbed /\ outbox' = outbox
      /\ drainer[d].pc = "running"
  BY DEF OnceStrong, ClaimStrong, TableInv, TypeOK, handlerReturns, handlerThrows, pass
<1>1. PICK i \in Ids : /\ i = drainer[d].cur /\ i \in holds(d) /\ i \in minted
                       /\ outbox[i].status = "processing"
  BY <1>0, CurrentIsHeld, HeldIsLive DEF OnceStrong
<1>2. ~inHand(i) /\ ~overFor(i)
  <2>1. ASSUME NEW e \in Drainers, drainer[e].pc = "returned", drainer[e].cur = i
        PROVE  FALSE
    <3>1. e # d /\ i \in holds(e)
      BY <1>0, <2>1, CurrentIsHeld DEF OnceStrong
    <3>2. QED
      BY <1>1, <3>1 DEF OnceStrong, ClaimStrong, ClaimInv, ExclusiveClaims
  <2>2. QED
    BY <1>1, <2>1 DEF inHand, overFor
<1>3. \A e \in Drainers \ {d} : drainer'[e] = drainer[e]
  BY <1>0 DEF handlerReturns, handlerThrows, become
<1>4. \A j \in Ids : inHand(j) => inHand(j)'
  BY <1>0, <1>3 DEF inHand
<1>5. \A j \in Ids : overFor(j) => overFor(j)'
  BY <1>0 DEF overFor
<1>6. CASE handlerThrows(d)
  BY <1>0, <1>4, <1>5, <1>6, KeepOnce DEF handlerThrows
<1>7. CASE handlerReturns(d)
  <2>1. drainer'[d].pc = "returned" /\ drainer'[d].cur = i
    <3>1. drainer[d] \in Pass
      BY <1>0
    <3>2. QED
      BY <1>0, <1>1, <1>7, <3>1 DEF handlerReturns, become, Pass
  <2>2. inHand(i)'
    BY <2>1 DEF inHand
  <2>3. delivered' = [delivered EXCEPT ![i] = @ + 1]
    BY <1>1, <1>7 DEF handlerReturns
  <2>4. i \notin disturbed => delivered[i] = 0
    BY <1>1, <1>2 DEF OnceStrong, OnceInv
  <2>5. \A j \in Ids \ {i} : delivered'[j] = delivered[j]
    BY <1>0, <2>3
  <2>6. i \notin disturbed => delivered'[i] = 1
    BY <1>0, <1>1, <2>3, <2>4
  <2>7. QED
    BY <1>0, <1>1, <1>4, <1>5, <2>2, <2>5, <2>6 DEF OnceStrong, OnceInv
<1>8. QED
  BY <1>6, <1>7

(* Recording settles the run of the row; no other pass has run it.        *)
LEMMA RecordOnce ==
  ASSUME OnceStrong, NEW d \in Drainers, recordDone(d) \/ recordFailure(d)
  PROVE  OnceInv'
<1>0. /\ drainer \in [Drainers -> Pass] /\ outbox \in [Ids -> Row]
      /\ minted' = minted /\ disturbed' = disturbed /\ delivered' = delivered
      /\ drainer[d].pc \in {"returned", "threw"}
  BY DEF OnceStrong, ClaimStrong, TableInv, TypeOK, recordDone, recordFailure, pass
<1>1. PICK i \in Ids : /\ i = drainer[d].cur /\ i \in holds(d) /\ i \in minted
                       /\ outbox[i].status = "processing"
  BY <1>0, CurrentIsHeld, HeldIsLive DEF OnceStrong
<1>2. /\ \A e \in Drainers \ {d} : drainer'[e] = drainer[e]
      /\ \A j \in Ids \ {i} : outbox'[j] = outbox[j]
  BY <1>0, <1>1 DEF recordDone, recordFailure, rowOver, become, update
<1>3. \A j \in Ids : overFor(j) => overFor(j)'
  BY <1>1, <1>2 DEF overFor
<1>4. \A j \in Ids \ {i} : inHand(j) => inHand(j)'
  BY <1>0, <1>1, <1>2 DEF inHand
<1>5. CASE recordDone(d)
  <2>1. outbox'[i].status = "done"
    <3>1. outbox[i] \in Row /\ present(i)
      BY <1>0, <1>1 DEF present
    <3>2. QED
      BY <1>0, <1>1, <1>5, <3>1 DEF recordDone, update, Row
  <2>2. overFor(i)'
    BY <2>1 DEF overFor
  <2>3. QED
    BY <1>0, <1>3, <1>4, <2>2, KeepOnce
<1>6. CASE recordFailure(d)
  <2>1. drainer[d].pc = "threw"
    BY <1>6 DEF recordFailure, pass
  <2>2. ~inHand(i)
    <3>1. ASSUME NEW e \in Drainers, drainer[e].pc = "returned", drainer[e].cur = i
          PROVE  FALSE
      <4>1. e # d /\ i \in holds(e)
        BY <2>1, <3>1, CurrentIsHeld DEF OnceStrong
      <4>2. QED
        BY <1>1, <4>1 DEF OnceStrong, ClaimStrong, ClaimInv, ExclusiveClaims
    <3>2. QED
      BY <3>1 DEF inHand
  <2>3. QED
    BY <1>0, <1>3, <1>4, <2>2, KeepOnce
<1>7. QED
  BY <1>5, <1>6

(* A pass that is cut off disturbs what it held. *)
LEMMA EndOnce ==
  ASSUME OnceStrong, NEW d \in Drainers,
         begin(d) \/ doneWriteFails(d) \/ finish(d) \/ crash(d)
  PROVE  OnceInv'
<1>0. /\ drainer \in [Drainers -> Pass] /\ disturbed \in SUBSET Ids
      /\ outbox' = outbox /\ minted' = minted /\ delivered' = delivered
  BY DEF OnceStrong, ClaimStrong, TableInv, TypeOK, begin, doneWriteFails, finish, crash
<1>1. \A e \in Drainers \ {d} : drainer'[e] = drainer[e]
  BY <1>0 DEF begin, doneWriteFails, finish, crash, become
<1>2. disturbed \subseteq disturbed'
  BY DEF begin, doneWriteFails, finish, crash
<1>3. drainer[d].pc = "returned" => drainer[d].cur \in disturbed'
  <2>1. drainer[d].pc = "returned" => drainer[d].cur \in holds(d)
    BY CurrentIsHeld DEF OnceStrong
  <2>2. QED
    BY <2>1 DEF begin, doneWriteFails, finish, crash, pass
<1>4. \A j \in Ids \ disturbed' : inHand(j) => inHand(j)'
  BY <1>1, <1>3 DEF inHand
<1>5. \A j \in Ids : overFor(j) => overFor(j)'
  BY <1>0 DEF overFor
<1>6. QED
  BY <1>0, <1>2, <1>4, <1>5, KeepOnce

LEMMA OnceNext ==
  ASSUME HoldMax < STALE_MS
  PROVE  OnceStrong /\ [Next]_vars => OnceStrong'
<1> SUFFICES ASSUME OnceStrong, [Next]_vars PROVE OnceInv'
  BY ClaimNext DEF OnceStrong
<1>1. CASE \E i \in Ids, delay \in Delays : enqueueTask(i, delay)
  BY <1>1, EnqueueOnce
<1>2. ASSUME NEW d \in Drainers, drainStep(d) PROVE OnceInv'
  BY <1>2, TableOnce, RunOnce, RecordOnce, EndOnce DEF drainStep
<1>3. CASE tick \/ UNCHANGED vars
  BY <1>3 DEF tick, vars, OnceStrong, OnceInv, inHand, overFor
<1>4. QED
  BY <1>1, <1>2, <1>3 DEF Next

LEMMA OnceInit == Init => OnceStrong
  BY TableInvInit, ClaimInvInit, OutboxAssumption
     DEF OnceStrong, ClaimStrong, OnceInv, Init, absent, overFor

(* When every pass ends within STALE_MS of reading its clock, a handler   *)
(* returns at most once for a task that no crash and no failed write has  *)
(* disturbed.                                                             *)
THEOREM DeliveredOnce ==
  ASSUME HoldMax < STALE_MS
  PROVE  Spec => []OnceUnlessDisturbed
<1>1. OnceStrong => OnceUnlessDisturbed
  BY DEF OnceStrong, OnceInv, OnceUnlessDisturbed
<1>2. OnceStrong /\ [Next]_vars => OnceStrong'
  BY OnceNext
<1>3. QED
  BY <1>1, <1>2, OnceInit, PTL DEF Spec

-----------------------------------------------------------------------------
(***************************************************************************)
(* The refinement.  A pass sees the attempts its rows have, so the counter *)
(* it writes is one more than the recorded failures; an absent row has     *)
(* none.                                                                   *)
(***************************************************************************)
SeenInv ==
  /\ \A i \in Ids : ~present(i) => outbox[i].attempts = 0
  /\ \A d \in Drainers : \A i \in holds(d) : drainer[d].seen[i] = outbox[i].attempts

RefineStrong == ClaimStrong /\ LossInv /\ SeenInv

(* A pass that moves without rewriting a row another pass holds.          *)
LEMMA KeepSeen ==
  ASSUME RefineStrong, NEW d \in Drainers, NEW p \in Pass, become(d, p),
         \A i \in othersRows(d) : outbox'[i] = outbox[i],
         \A i \in Ids : outbox'[i].status = "none" => outbox'[i].attempts = 0,
         \A i \in rowsOf(p) : p.seen[i] = outbox'[i].attempts
  PROVE  SeenInv'
<1>1. drainer \in [Drainers -> Pass]
  BY DEF RefineStrong, ClaimStrong, TableInv, TypeOK
<1>2. drainer'[d] = p /\ \A e \in Drainers \ {d} : drainer'[e] = drainer[e]
  BY <1>1, BecomeMoves
<1>3. ASSUME NEW e \in Drainers \ {d}, NEW i \in rowsOf(drainer[e])
      PROVE  drainer[e].seen[i] = outbox'[i].attempts
  <2>1. i \in othersRows(d)
    BY <1>3 DEF othersRows, holds
  <2>2. QED
    BY <2>1 DEF RefineStrong, SeenInv, holds
<1>4. QED
  BY <1>2, <1>3 DEF SeenInv, holds, present

LEMMA EnqueueSeen ==
  ASSUME RefineStrong, NEW i \in Ids, NEW delay \in Delays, enqueueTask(i, delay)
  PROVE  SeenInv'
<1>0. /\ outbox \in [Ids -> Row] /\ drainer' = drainer /\ i \in Ids \ minted
  BY DEF RefineStrong, ClaimStrong, TableInv, TypeOK, enqueueTask
<1>1. /\ outbox'[i].attempts = 0
      /\ \A j \in Ids \ {i} : \/ outbox'[j] = outbox[j]
                              \/ outbox[j].status = "failed" /\ outbox'[j] = absent
  BY <1>0 DEF enqueueTask, enqueueUnkeyed, enqueueNewKey, replaceFailed, holders, newRow, absent
<1>2. \A j \in Ids : outbox'[j].status = "none" => outbox'[j].attempts = 0
  BY <1>1 DEF RefineStrong, SeenInv, present, absent
<1>3. ASSUME NEW d \in Drainers, NEW j \in holds(d) PROVE outbox'[j] = outbox[j]
  BY <1>0, <1>1, <1>3, HeldIsLive DEF RefineStrong
<1>4. QED
  BY <1>0, <1>2, <1>3 DEF RefineStrong, SeenInv, holds, present

LEMMA QuietSeen ==
  ASSUME RefineStrong, NEW d \in Drainers,
         begin(d) \/ handlerReturns(d) \/ handlerThrows(d) \/ doneWriteFails(d)
           \/ finish(d) \/ crash(d)
  PROVE  SeenInv'
<1>0. /\ drainer \in [Drainers -> Pass] /\ drainer[d] \in Pass /\ outbox' = outbox
      /\ freshPass(drainer[d], outbox, clock)
  BY DEF RefineStrong, ClaimStrong, ClaimInv, TableInv, TypeOK, begin, handlerReturns,
     handlerThrows, doneWriteFails, finish, crash
<1>1. \A e \in Drainers \ {d} : drainer'[e] = drainer[e]
  BY <1>0 DEF begin, handlerReturns, handlerThrows, doneWriteFails, finish, crash, become
<1>2. /\ rowsOf(drainer'[d]) \subseteq rowsOf(drainer[d])
      /\ \A i \in rowsOf(drainer'[d]) : drainer'[d].seen[i] = drainer[d].seen[i]
  <2>1. CASE begin(d)
    BY <1>0, <2>1 DEF begin, become, Pass, rowsOf
  <2>2. CASE handlerReturns(d)
    BY <1>0, <2>2 DEF handlerReturns, become, Pass, rowsOf
  <2>3. CASE handlerThrows(d)
    BY <1>0, <2>3 DEF handlerThrows, become, Pass, rowsOf
  <2>4. CASE doneWriteFails(d)
    BY <1>0, <2>4 DEF doneWriteFails, become, Pass, rowsOf
  <2>5. CASE finish(d) \/ crash(d)
    BY <1>0, <2>5 DEF finish, crash, become, idlePass, rowsOf
  <2>6. QED
    BY <2>1, <2>2, <2>3, <2>4, <2>5
<1>3. QED
  BY <1>0, <1>1, <1>2 DEF RefineStrong, SeenInv, holds, present

LEMMA PruneSeen ==
  ASSUME RefineStrong, NEW d \in Drainers, prune(d)
  PROVE  SeenInv'
<1> DEFINE p == [drainer[d] EXCEPT !.pc = "pruned"]
<1>0. /\ drainer[d] \in Pass /\ freshPass(drainer[d], outbox, clock)
      /\ outbox \in [Ids -> Row]
  BY DEF RefineStrong, ClaimStrong, ClaimInv, TableInv, TypeOK
<1>1. p \in Pass /\ p.batch = {} /\ p.cur = NoId
  BY <1>0 DEF Pass, PassState, freshPass, prune, pass
<1>2. become(d, p)
  BY DEF prune
<1> HIDE DEF p
<1>3. rowsOf(p) = {}
  BY <1>1 DEF rowsOf
<1>4. \A i \in Ids : \/ outbox'[i] = outbox[i]
                     \/ outbox[i].status = "done" /\ outbox'[i] = absent
  BY DEF prune, expired
<1>5. \A i \in Ids : outbox'[i].status = "none" => outbox'[i].attempts = 0
  BY <1>4 DEF RefineStrong, SeenInv, present, absent
<1>6. \A i \in othersRows(d) : outbox'[i] = outbox[i]
  BY <1>4, OthersRowsAreFresh DEF RefineStrong
<1>7. QED
  BY <1>1, <1>2, <1>3, <1>5, <1>6, KeepSeen

LEMMA ClaimSeen ==
  ASSUME HoldMax < STALE_MS, RefineStrong, NEW d \in Drainers, claim(d)
  PROVE  SeenInv'
<1>1. PICK b \in batches(drainer[d].now) :
        /\ outbox' = [i \in Ids |->
             IF i \in b
               THEN [outbox[i] EXCEPT !.status = "processing", !.claimedAt = drainer[d].now]
               ELSE outbox[i]]
        /\ become(d, [drainer[d] EXCEPT
             !.pc = "loop", !.batch = b,
             !.seen = [i \in Ids |-> IF i \in b THEN outbox[i].attempts ELSE 0]])
  BY DEF claim
<1>2. ClaimInv' /\ TableInv'
  BY ClaimClaim, ClaimStep DEF RefineStrong, ClaimStrong
<1>3. /\ drainer \in [Drainers -> Pass] /\ drainer[d] \in Pass /\ outbox \in [Ids -> Row]
      /\ freshPass(drainer[d], outbox, clock) /\ drainer[d].pc = "pruned"
  BY DEF RefineStrong, ClaimStrong, ClaimInv, TableInv, TypeOK, claim, pass
<1>4. b \subseteq Ids
  BY DEF batches
<1>5. drainer[d].cur = NoId
  BY <1>3 DEF freshPass
<1>6. /\ rowsOf(drainer'[d]) = b
      /\ \A i \in b : drainer'[d].seen[i] = outbox[i].attempts
  BY <1>1, <1>3, <1>4, <1>5 DEF become, Pass, rowsOf
<1>7. \A e \in Drainers \ {d} : drainer'[e] = drainer[e]
  BY <1>1, <1>3 DEF become
<1>8. \A i \in Ids : outbox'[i].attempts = outbox[i].attempts
  BY <1>1, <1>3 DEF Row
<1>9. \A i \in Ids : outbox'[i].status = "none" => outbox[i].status = "none"
  BY <1>1, <1>3 DEF Row
<1>10. \A e \in Drainers : rowsOf(drainer[e]) \subseteq Ids
  BY <1>3, OutboxAssumption DEF rowsOf, Pass
<1>11. QED
  BY <1>4, <1>6, <1>7, <1>8, <1>9, <1>10 DEF RefineStrong, SeenInv, holds, present

LEMMA StampSeen ==
  ASSUME RefineStrong, NEW d \in Drainers, NEW i \in Ids, stamp(d, i)
  PROVE  SeenInv'
<1>0. /\ drainer \in [Drainers -> Pass] /\ drainer[d] \in Pass /\ outbox \in [Ids -> Row]
      /\ i \in drainer[d].batch /\ drainer[d].cur = NoId
  BY DEF RefineStrong, ClaimStrong, ClaimInv, TableInv, TypeOK, stamp, pass, freshPass
<1>1. /\ rowsOf(drainer'[d]) = rowsOf(drainer[d])
      /\ drainer'[d].seen = drainer[d].seen
  BY <1>0, OutboxAssumption DEF stamp, become, Pass, rowsOf
<1>2. \A e \in Drainers \ {d} : drainer'[e] = drainer[e]
  BY <1>0 DEF stamp, become
<1>3. \A j \in Ids : /\ outbox'[j].attempts = outbox[j].attempts
                     /\ outbox'[j].status = outbox[j].status
  BY <1>0 DEF stamp, update, Row
<1>4. \A e \in Drainers : rowsOf(drainer[e]) \subseteq Ids
  BY <1>0, OutboxAssumption DEF rowsOf, Pass
<1>5. QED
  BY <1>1, <1>2, <1>3, <1>4 DEF RefineStrong, SeenInv, holds, present

LEMMA RecordSeen ==
  ASSUME RefineStrong, NEW d \in Drainers, recordDone(d) \/ recordFailure(d)
  PROVE  SeenInv'
<1>0. /\ drainer \in [Drainers -> Pass] /\ drainer[d] \in Pass /\ outbox \in [Ids -> Row]
      /\ drainer[d].pc \in {"returned", "threw"} /\ freshPass(drainer[d], outbox, clock)
  BY DEF RefineStrong, ClaimStrong, ClaimInv, TableInv, TypeOK, recordDone, recordFailure, pass
<1>1. PICK i \in Ids : /\ i = drainer[d].cur /\ i \in holds(d) /\ present(i)
                       /\ i \notin drainer[d].batch
  BY <1>0, CurrentIsHeld, HeldIsLive DEF RefineStrong, present, freshPass
<1>2. /\ \A e \in Drainers \ {d} : drainer'[e] = drainer[e]
      /\ \A j \in Ids \ {i} : outbox'[j] = outbox[j]
  BY <1>0, <1>1 DEF recordDone, recordFailure, rowOver, become, update
<1>3. /\ rowsOf(drainer'[d]) = rowsOf(drainer[d]) \ {i}
      /\ \A j \in rowsOf(drainer'[d]) : drainer'[d].seen[j] = drainer[d].seen[j]
  <2>1. rowOver(d)
    BY DEF recordDone, recordFailure
  <2>2. /\ drainer'[d].batch = drainer[d].batch /\ drainer'[d].cur = NoId
        /\ drainer'[d].seen = [drainer[d].seen EXCEPT ![i] = 0]
    BY <1>0, <1>1, <2>1 DEF rowOver, become, Pass
  <2>3. drainer[d].seen \in [Ids -> 0..(MAX_ATTEMPTS - 1)] /\ rowsOf(drainer[d]) \subseteq Ids
    BY <1>0, OutboxAssumption DEF Pass, rowsOf
  <2>4. rowsOf(drainer'[d]) = rowsOf(drainer[d]) \ {i}
    BY <1>1, <2>2, OutboxAssumption DEF rowsOf
  <2>5. QED
    BY <2>2, <2>3, <2>4
<1>4. outbox'[i].status # "none"
  <2>1. outbox[i] \in Row
    BY <1>0
  <2>2. CASE recordDone(d)
    BY <1>0, <1>1, <2>1, <2>2 DEF recordDone, update, Row
  <2>3. CASE recordFailure(d)
    BY <1>0, <1>1, <2>1, <2>3 DEF recordFailure, update, outcomeOfFailure, Row
  <2>4. QED
    BY <2>2, <2>3
<1>5. \A e \in Drainers : rowsOf(drainer[e]) \subseteq Ids
  BY <1>0, OutboxAssumption DEF rowsOf, Pass
<1>6. \A e \in Drainers \ {d} : i \notin rowsOf(drainer[e])
  BY <1>1 DEF RefineStrong, ClaimStrong, ClaimInv, ExclusiveClaims, holds
<1>7. QED
  BY <1>1, <1>2, <1>3, <1>4, <1>5, <1>6 DEF RefineStrong, SeenInv, holds, present

LEMMA RefineNext ==
  ASSUME HoldMax < STALE_MS
  PROVE  RefineStrong /\ [Next]_vars => RefineStrong'
<1> SUFFICES ASSUME RefineStrong, [Next]_vars PROVE SeenInv'
  BY ClaimNext, LossNext DEF RefineStrong, ClaimStrong, LossStrong
<1>1. CASE \E i \in Ids, delay \in Delays : enqueueTask(i, delay)
  BY <1>1, EnqueueSeen
<1>2. ASSUME NEW d \in Drainers, drainStep(d) PROVE SeenInv'
  BY <1>2, QuietSeen, PruneSeen, ClaimSeen, StampSeen, RecordSeen DEF drainStep
<1>3. CASE tick \/ UNCHANGED vars
  BY <1>3 DEF tick, vars, RefineStrong, SeenInv, holds, present
<1>4. QED
  BY <1>1, <1>2, <1>3 DEF Next

(* A step that leaves the tasks' fates alone leaves the contract alone.    *)
LEMMA StutterStep ==
  ASSUME RefineStrong, delivered' = delivered,
         \A i \in Ids :
           /\ (i \in minted') = (i \in minted)
           /\ \/ outbox'[i] = outbox[i]
              \/ /\ outbox[i].status \in {"pending", "processing"}
                 /\ outbox'[i].status \in {"pending", "processing"}
                 /\ outbox'[i].attempts = outbox[i].attempts
  PROVE  UNCHANGED Delivery!vars
<1>1. abstractState' = abstractState
  <2>1. ASSUME NEW i \in Ids PROVE fate(i)' = fate(i)
    BY DEF fate
  <2>2. QED
    BY <2>1 DEF abstractState
<1>2. recordedFailures' = recordedFailures
  BY DEF recordedFailures
<1>3. QED
  BY <1>1, <1>2 DEF Delivery!vars

LEMMA EnqueueRefines ==
  ASSUME RefineStrong, NEW i \in Ids, NEW delay \in Delays, enqueueTask(i, delay)
  PROVE  Delivery!Next
<1>0. /\ outbox \in [Ids -> Row] /\ delivered' = delivered
      /\ minted' = minted \cup {i} /\ i \in Ids \ minted
  BY DEF RefineStrong, ClaimStrong, TableInv, TypeOK, enqueueTask, enqueueUnkeyed,
     enqueueNewKey, replaceFailed
<1>1. outbox[i].status = "none" /\ outbox[i].attempts = 0
  BY <1>0 DEF RefineStrong, LossInv, SeenInv, present
<1>2. abstractState[i] = "none"
  BY <1>0, <1>1 DEF abstractState, fate
<1>3. CASE \E key \in Keys \cup {NoKey} : outbox' = [outbox EXCEPT ![i] = newRow(key, delay)]
  <2>1. /\ outbox'[i].status = "pending" /\ outbox'[i].attempts = 0
        /\ \A j \in Ids \ {i} : outbox'[j] = outbox[j]
    BY <1>0, <1>3 DEF newRow
  <2>2. abstractState' = [abstractState EXCEPT ![i] = "owed"]
    <3>1. fate(i)' = "owed" /\ \A j \in Ids \ {i} : fate(j)' = fate(j)
      BY <1>0, <2>1 DEF fate
    <3>2. QED
      BY <3>1 DEF abstractState
  <2>3. recordedFailures' = recordedFailures
    BY <1>1, <2>1 DEF recordedFailures
  <2>4. Delivery!Accept(i)
    BY <1>0, <1>2, <2>2, <2>3 DEF Delivery!Accept
  <2>5. QED
    BY <2>4 DEF Delivery!Next
<1>4. CASE \E key \in Keys : replaceFailed(i, key, delay)
  <2>1. PICK key \in Keys, old \in Ids :
          /\ outbox[old].status = "failed"
          /\ outbox' = [outbox EXCEPT ![old] = absent, ![i] = newRow(key, delay)]
    BY <1>4 DEF replaceFailed, holders
  <2>2. /\ old # i /\ old \in minted
        /\ outbox'[old].status = "none" /\ outbox'[old].attempts = 0
        /\ outbox'[i].status = "pending" /\ outbox'[i].attempts = 0
        /\ \A j \in Ids \ {i, old} : outbox'[j] = outbox[j]
    BY <1>0, <1>1, <2>1 DEF newRow, absent, RefineStrong, LossInv, present
  <2>3. abstractState[old] = "dead"
    BY <2>1 DEF abstractState, fate
  <2>4. abstractState' = [abstractState EXCEPT ![old] = "gone", ![i] = "owed"]
    <3>1. /\ fate(i)' = "owed" /\ fate(old)' = "gone"
          /\ \A j \in Ids \ {i, old} : fate(j)' = fate(j)
      BY <1>0, <2>2 DEF fate
    <3>2. QED
      BY <2>2, <3>1 DEF abstractState
  <2>5. recordedFailures' = [recordedFailures EXCEPT ![old] = 0]
    BY <1>1, <2>2 DEF recordedFailures
  <2>6. Delivery!AcceptInPlaceOf(old, i)
    BY <1>0, <1>2, <2>3, <2>4, <2>5 DEF Delivery!AcceptInPlaceOf
  <2>7. QED
    BY <2>6 DEF Delivery!Next
<1>5. QED
  BY <1>3, <1>4 DEF enqueueTask, enqueueUnkeyed, enqueueNewKey

LEMMA PruneRefines ==
  ASSUME RefineStrong, NEW d \in Drainers, prune(d)
  PROVE  Delivery!Next
<1> DEFINE S == {i \in Ids : expired(outbox[i])}
<1>0. minted' = minted /\ delivered' = delivered
  BY DEF prune
<1>1. \A i \in S : i \in Ids /\ outbox[i].status = "done" /\ i \in minted
  BY DEF expired, RefineStrong, LossInv, present
<1>2. \A i \in Ids : outbox'[i] = IF i \in S THEN absent ELSE outbox[i]
  BY DEF prune
<1> HIDE DEF S
<1>3. \A i \in S : abstractState[i] = "delivered"
  BY <1>1 DEF abstractState, fate
<1>4. abstractState' = [i \in Ids |-> IF i \in S THEN "gone" ELSE abstractState[i]]
  <2>1. \A i \in Ids : fate(i)' = IF i \in S THEN "gone" ELSE fate(i)
    <3>1. ASSUME NEW i \in S PROVE fate(i)' = "gone"
      <4>1. outbox'[i].status = "none" /\ i \in minted'
        BY <1>0, <1>1, <1>2 DEF absent
      <4>2. QED
        BY <4>1 DEF fate
    <3>2. ASSUME NEW i \in Ids \ S PROVE fate(i)' = fate(i)
      BY <1>0, <1>2 DEF fate
    <3>3. QED
      BY <1>1, <3>1, <3>2
  <2>2. QED
    BY <2>1 DEF abstractState
<1>5. recordedFailures' = [i \in Ids |-> IF i \in S THEN 0 ELSE recordedFailures[i]]
  BY <1>2 DEF recordedFailures, absent
<1>6. Delivery!Forget(S)
  BY <1>0, <1>3, <1>4, <1>5 DEF Delivery!Forget
<1>7. S \in SUBSET Ids
  BY <1>1
<1>8. QED
  BY <1>6, <1>7 DEF Delivery!Next

LEMMA MoveRefines ==
  ASSUME RefineStrong, NEW d \in Drainers,
         begin(d) \/ claim(d) \/ (\E i \in Ids : stamp(d, i)) \/ handlerThrows(d)
           \/ doneWriteFails(d) \/ finish(d) \/ crash(d)
  PROVE  UNCHANGED Delivery!vars
<1>0. minted' = minted /\ delivered' = delivered /\ outbox \in [Ids -> Row]
  BY DEF RefineStrong, ClaimStrong, TableInv, TypeOK, begin, claim, stamp, handlerThrows,
     doneWriteFails, finish, crash
<1>1. CASE outbox' = outbox
  BY <1>0, <1>1, StutterStep
<1>2. CASE claim(d)
  <2>1. PICK b \in batches(drainer[d].now) :
          outbox' = [i \in Ids |->
             IF i \in b
               THEN [outbox[i] EXCEPT !.status = "processing", !.claimedAt = drainer[d].now]
               ELSE outbox[i]]
    BY <1>2 DEF claim
  <2>2. \A i \in b : outbox[i].status \in {"pending", "processing"}
    BY DEF batches, claimable
  <2>3. \A i \in Ids : \/ outbox'[i] = outbox[i]
                       \/ /\ outbox[i].status \in {"pending", "processing"}
                          /\ outbox'[i].status = "processing"
                          /\ outbox'[i].attempts = outbox[i].attempts
    BY <1>0, <2>1, <2>2 DEF Row
  <2>4. QED
    BY <1>0, <2>3, StutterStep
<1>3. ASSUME NEW i \in Ids, stamp(d, i) PROVE UNCHANGED Delivery!vars
  <2>1. outbox[i].status = "processing"
    BY <1>3, HeldIsLive DEF RefineStrong, stamp, holds, rowsOf
  <2>2. /\ outbox'[i].status = "processing" /\ outbox'[i].attempts = outbox[i].attempts
        /\ \A j \in Ids \ {i} : outbox'[j] = outbox[j]
    BY <1>0, <1>3, <2>1 DEF stamp, update, Row
  <2>3. QED
    BY <1>0, <2>1, <2>2, StutterStep
<1>4. QED
  BY <1>1, <1>2, <1>3 DEF begin, handlerThrows, doneWriteFails, finish, crash

LEMMA EffectRefines ==
  ASSUME RefineStrong, NEW d \in Drainers, handlerReturns(d)
  PROVE  Delivery!Next
<1>1. PICK i \in Ids : i = drainer[d].cur /\ outbox[i].status = "processing"
  BY CurrentIsHeld, HeldIsLive DEF RefineStrong, handlerReturns, pass
<1>2. abstractState[i] = "owed"
  BY <1>1 DEF abstractState, fate
<1>3. abstractState' = abstractState /\ recordedFailures' = recordedFailures
  <2>1. outbox' = outbox /\ minted' = minted
    BY DEF handlerReturns
  <2>2. \A j \in Ids : fate(j)' = fate(j)
    BY <2>1 DEF fate
  <2>3. QED
    BY <2>1, <2>2 DEF abstractState, recordedFailures
<1>4. Delivery!TakeEffect(i)
  BY <1>1, <1>2, <1>3 DEF Delivery!TakeEffect, handlerReturns
<1>5. QED
  BY <1>4 DEF Delivery!Next

LEMMA RecordRefines ==
  ASSUME RefineStrong, NEW d \in Drainers, recordDone(d) \/ recordFailure(d)
  PROVE  Delivery!Next
<1>0. /\ drainer[d] \in Pass /\ outbox \in [Ids -> Row]
      /\ minted' = minted /\ delivered' = delivered
      /\ drainer[d].pc \in {"returned", "threw"}
  BY DEF RefineStrong, ClaimStrong, TableInv, TypeOK, recordDone, recordFailure, pass
<1>1. PICK i \in Ids : /\ i = drainer[d].cur /\ i \in holds(d)
                       /\ outbox[i].status = "processing" /\ i \in minted
  BY <1>0, CurrentIsHeld, HeldIsLive DEF RefineStrong
<1>2. attemptOf(d) = outbox[i].attempts + 1 /\ outbox[i] \in Row
  BY <1>0, <1>1 DEF attemptOf, RefineStrong, SeenInv
<1>3. outbox[i].attempts \in Nat /\ outbox[i].attempts < MAX_ATTEMPTS
  BY <1>1, <1>2, OutboxAssumption DEF RefineStrong, ClaimStrong, TableInv, AttemptInv,
     rowCounts, Row
<1>4. abstractState[i] = "owed" /\ recordedFailures[i] = outbox[i].attempts
  BY <1>1 DEF abstractState, fate, recordedFailures
<1>5. \A j \in Ids \ {i} : outbox'[j] = outbox[j]
  BY <1>0, <1>1 DEF recordDone, recordFailure, update
<1>6. CASE recordDone(d)
  <2>1. outbox'[i].status = "done" /\ outbox'[i].attempts = outbox[i].attempts + 1
    BY <1>0, <1>1, <1>2, <1>6 DEF recordDone, update, present, Row
  <2>2. abstractState' = [abstractState EXCEPT ![i] = "delivered"]
    <3>1. fate(i)' = "delivered" /\ \A j \in Ids \ {i} : fate(j)' = fate(j)
      BY <1>0, <1>5, <2>1 DEF fate
    <3>2. QED
      BY <3>1 DEF abstractState
  <2>3. recordedFailures' = recordedFailures
    BY <1>1, <1>3, <1>5, <2>1 DEF recordedFailures
  <2>4. delivered[i] > 0
    BY <1>1, <1>6 DEF recordDone, pass, RefineStrong, LossInv
  <2>5. Delivery!Deliver(i)
    BY <1>0, <1>4, <2>2, <2>3, <2>4 DEF Delivery!Deliver
  <2>6. QED
    BY <2>5 DEF Delivery!Next
<1>7. CASE recordFailure(d)
  <2>1. /\ outbox'[i].status = outcomeOfFailure(outbox[i].attempts + 1)
        /\ outbox'[i].attempts = outbox[i].attempts + 1
    BY <1>0, <1>1, <1>2, <1>7 DEF recordFailure, update, present, Row
  <2>2. outbox'[i].status = IF outbox[i].attempts + 1 = MAX_ATTEMPTS THEN "failed" ELSE "pending"
    BY <1>3, <2>1, OutboxAssumption DEF outcomeOfFailure
  <2>3. abstractState' = [abstractState EXCEPT ![i] =
                            IF recordedFailures[i] + 1 = MAX_ATTEMPTS THEN "dead" ELSE "owed"]
    <3>1. \A j \in Ids \ {i} : fate(j)' = fate(j)
      BY <1>0, <1>5 DEF fate
    <3>2. fate(i)' = IF recordedFailures[i] + 1 = MAX_ATTEMPTS THEN "dead" ELSE "owed"
      BY <1>0, <1>4, <2>2 DEF fate
    <3>3. QED
      BY <3>1, <3>2 DEF abstractState
  <2>4. recordedFailures' = [recordedFailures EXCEPT ![i] = @ + 1]
    BY <1>1, <1>4, <1>5, <2>1, <2>2 DEF recordedFailures
  <2>5. Delivery!Fail(i)
    BY <1>0, <1>3, <1>4, <2>3, <2>4 DEF Delivery!Fail
  <2>6. QED
    BY <2>5 DEF Delivery!Next
<1>8. QED
  BY <1>6, <1>7

LEMMA StepRefines == RefineStrong /\ [Next]_vars => [Delivery!Next]_Delivery!vars
<1> SUFFICES ASSUME RefineStrong, [Next]_vars PROVE [Delivery!Next]_Delivery!vars
  OBVIOUS
<1>1. CASE \E i \in Ids, delay \in Delays : enqueueTask(i, delay)
  BY <1>1, EnqueueRefines
<1>2. ASSUME NEW d \in Drainers, drainStep(d) PROVE [Delivery!Next]_Delivery!vars
  BY <1>2, PruneRefines, MoveRefines, EffectRefines, RecordRefines DEF drainStep
<1>3. CASE tick \/ UNCHANGED vars
  <2>1. outbox' = outbox /\ minted' = minted /\ delivered' = delivered
    BY <1>3 DEF tick, vars
  <2>2. QED
    BY <2>1, StutterStep
<1>4. QED
  BY <1>1, <1>2, <1>3 DEF Next

(* When every pass ends within STALE_MS of reading its clock, the table,  *)
(* its drainers and their clocks implement the at-least-once contract of  *)
(* TaskDelivery.                                                          *)
THEOREM OutboxDelivers ==
  ASSUME HoldMax < STALE_MS
  PROVE  Spec => ImplementsDelivery
<1>1. Init => RefineStrong
  BY TableInvInit, ClaimInvInit
     DEF RefineStrong, ClaimStrong, LossInv, SeenInv, Init, present, absent, settled,
         DoneMeansDelivered, idlePass, holds, rowsOf
<1>2. Init => Delivery!Init
  BY DEF Init, absent, Delivery!Init, abstractState, fate, recordedFailures
<1>3. RefineStrong /\ [Next]_vars => RefineStrong'
  BY RefineNext
<1>4. QED
  BY <1>1, <1>2, <1>3, StepRefines, PTL DEF Spec, ImplementsDelivery, Delivery!Spec
=============================================================================
