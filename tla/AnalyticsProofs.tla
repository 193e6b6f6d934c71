-------------------------- MODULE AnalyticsProofs --------------------------
(***************************************************************************)
(* The dashboard's counts, for every number of days, events and concurrent *)
(* ingest calls: on the Durable Object, and on D1 as long as rollups come  *)
(* one at a time, none rolls the unfinished day and raw events are kept.   *)
(***************************************************************************)
EXTENDS Analytics, TLAPS

RollsInTurn ==
  "d1" \in Stores =>
    "d1" \notin Pruned /\ "d1" \notin RolledEarly /\ \A r, s \in Rollers : r = s

-----------------------------------------------------------------------------
Counts == [Days -> Nat]
DayRow == [there : BOOLEAN, dirty : BOOLEAN, token : Nat, n : Nat]
IngestCall == [at : {"free", "again", "rolled", "admitted", "stored"}, day : Days, owes : BOOLEAN]
Rolling == {"tokens", "compute", "next", "paths", "write"}
Rollup == [at : {"still"} \cup Rolling, days : SUBSET Days, seen : Counts, m : Counts,
           day : Days, n : Nat]

Typed ==
  /\ store \in Stores /\ today \in Days
  /\ raw \in Counts /\ accepted \in Counts
  /\ daily \in [Days -> DayRow] /\ pages \in [Days -> Nat \cup {None}]
  /\ ingest \in [Calls -> IngestCall] /\ roll \in [Rollers -> Rollup]
  /\ prune \in [at : {"idle", "delete"}, days : SUBSET Days]
  /\ torn \subseteq Days

(* The raw rows of a day are all of its events, or they were pruned when   *)
(* its aggregate counted them all.                                         *)
Whole(d) == raw[d] = accepted[d]
PrunedWhole(d) ==
  store = "do" /\ raw[d] = 0 /\ Clean(d) /\ daily[d].n = accepted[d] /\ d < today
RawInv(d) == Whole(d) \/ PrunedWhole(d)

(* A clean row counts every event of its day that is not still to flag it. *)
DailyInv(d) == Clean(d) /\ Landed(d) => daily[d].n = accepted[d]

(* So do its paths, but while a rollup writes them or after one died there. *)
Settled(d) ==
  d \notin torn /\ \A r \in Rollers : roll[r].at \in {"paths", "write"} => roll[r].day # d
PagesInv(d) ==
  /\ pages[d] # None => daily[d].there
  /\ Settled(d) /\ Clean(d) => pages[d] # None
  /\ Settled(d) /\ pages[d] # None /\ ~daily[d].dirty /\ Landed(d) => pages[d] = accepted[d]

(* A call that may still insert does so next to all the events there were. *)
CallInv(c) ==
  /\ ingest[c].at \in {"stored", "again"} => ingest[c].owes
  /\ ingest[c].at = "free" => ~ingest[c].owes
  /\ ingest[c].at \in {"admitted", "stored"} => Whole(ingest[c].day)
  /\ ingest[c].owes => raw[ingest[c].day] > 0 /\ Whole(ingest[c].day)
  /\ ingest[c].at = "again" => store = "d1"

(* A rollup under way: its days keep their rows; a flag raised since it    *)
(* read the tokens shows in them, and without one its count is still that  *)
(* of every event that landed.                                             *)
Flaggable(d) == store = "d1" => d < today
RollInv(r) ==
  LET p == roll[r] IN
  /\ p.at \in Rolling => \A d \in p.days : raw[d] > 0 /\ Whole(d) /\ Flaggable(d)
  /\ p.at \in {"compute", "next", "paths", "write"} =>
       \A d \in p.days : p.seen[d] <= daily[d].token /\ (p.seen[d] # daily[d].token => daily[d].dirty)
  /\ p.at \in {"next", "paths", "write"} =>
       \A d \in p.days : p.seen[d] = daily[d].token /\ Landed(d) => p.m[d] = accepted[d]
  /\ p.at \in {"paths", "write"} =>
       raw[p.day] > 0 /\ Whole(p.day) /\ daily[p.day].there /\ Flaggable(p.day)
  /\ p.at = "write" =>
       p.n > 0 /\ (~daily[p.day].dirty /\ Landed(p.day) => p.n = accepted[p.day])

(* On the Durable Object a rollup or a prune is alone.                     *)
SerialInv ==
  /\ \A r, s \in Rollers : r = s \/ roll[r].at = "still" \/ roll[s].at = "still"
  /\ store = "do" =>
       /\ \A r \in Rollers : roll[r].at # "still" =>
            prune.at = "idle" /\ \A c \in Calls : ingest[c].at = "free"
       /\ prune.at # "idle" =>
            /\ \A c \in Calls : ingest[c].at = "free"
            /\ \A d \in prune.days : Clean(d) /\ d < today
  /\ store = "d1" => prune.at = "idle"

CountInv ==
  /\ Typed /\ SerialInv
  /\ \A d \in Days : RawInv(d) /\ DailyInv(d) /\ PagesInv(d)
  /\ \A c \in Calls : CallInv(c)
  /\ \A r \in Rollers : RollInv(r)

-----------------------------------------------------------------------------
(* The assumptions the steps need, unfolded once.                          *)

LEMMA OnD1 ==
  ASSUME RollsInTurn, Typed, store = "d1"
  PROVE  store \notin Pruned /\ store \notin RolledEarly /\ \A r, s \in Rollers : r = s
BY DEF RollsInTurn, Typed

LEMMA StoresAre ==
  ASSUME Typed
  PROVE  store = "do" \/ store = "d1"
BY AnalyticsAssumption DEF Typed, AnalyticsAssumption

LEMMA AloneMeans ==
  ASSUME CountInv, Alone, store = "do"
  PROVE  /\ \A c \in Calls : ingest[c].at = "free" /\ ~ingest[c].owes
         /\ \A r \in Rollers : roll[r].at = "still"
         /\ prune.at = "idle"
         /\ \A d \in Days : Landed(d)
<1>1. \A c \in Calls : ingest[c].at = "free" /\ ~ingest[c].owes
  BY DEF CountInv, Alone, CallInv
<1> QED  BY <1>1 DEF Alone, Landed

LEMMA InitCounts ==
  ASSUME Init
  PROVE  CountInv
<1>1. Typed
  BY AnalyticsAssumption
  DEF Init, Typed, AnalyticsAssumption, Counts, DayRow, IngestCall, Rollup, Rolling, NoRow, Free,
      Still, Awake, None, Days
<1>2. SerialInv
  BY AnalyticsAssumption DEF Init, SerialInv, Still, Awake, Free, AnalyticsAssumption
<1>3. \A d \in Days : RawInv(d) /\ DailyInv(d) /\ PagesInv(d)
  BY DEF Init, RawInv, Whole, DailyInv, PagesInv, Clean, NoRow, None
<1>4. \A c \in Calls : CallInv(c)
  BY DEF Init, CallInv, Free
<1>5. \A r \in Rollers : RollInv(r)
  BY DEF Init, RollInv, Still, Rolling
<1> QED  BY <1>1, <1>2, <1>3, <1>4, <1>5 DEF CountInv

(* A rollup's facts survive what leaves the aggregates alone and removes   *)
(* no row of its days.                                                     *)
LEMMA RollHolds ==
  ASSUME NEW r \in Rollers, roll[r] \in Rollup, RollInv(r), roll'[r] = roll[r],
         UNCHANGED <<store, daily>>,
         \A e \in Days : Flaggable(e) => Flaggable(e)',
         \A e \in Days : Whole(e) => Whole(e)',
         \A e \in Days : raw[e] > 0 => raw'[e] > 0,
         \A e \in Days : Landed(e)' => Landed(e) /\ accepted'[e] = accepted[e]
  PROVE  RollInv(r)'
BY DEF RollInv, Rollup, Rolling

(* What leaves the tables alone keeps the facts about each day.            *)
LEMMA DaysHold ==
  ASSUME CountInv, UNCHANGED <<store, today, raw, daily, pages, roll, accepted, torn>>,
         \A e \in Days : Landed(e)' => Landed(e)
  PROVE  \A e \in Days : (RawInv(e) /\ DailyInv(e) /\ PagesInv(e))'
BY DEF CountInv, RawInv, Whole, PrunedWhole, DailyInv, PagesInv, Settled, Clean

-----------------------------------------------------------------------------
(* Ingest.                                                                 *)

LEMMA ReceiveKeeps ==
  ASSUME NEW c \in Calls, NEW d \in Days, CountInv, receive(c, d)
  PROVE  CountInv'
<1> DEFINE there == IF d < today /\ Clean(d) THEN "rolled" ELSE "admitted"
<1>0. /\ Typed /\ SerialInv /\ \A e \in Days : RawInv(e) /\ DailyInv(e) /\ PagesInv(e)
      /\ \A b \in Calls : CallInv(b)
      /\ \A r \in Rollers : RollInv(r)
  BY DEF CountInv
<1>1. /\ ingest'[c] = [at |-> there, day |-> d, owes |-> ingest[c].owes]
      /\ \A b \in Calls : b # c => ingest'[b] = ingest[b]
      /\ ingest' \in [Calls -> IngestCall]
      /\ UNCHANGED <<store, today, raw, daily, pages, roll, prune, accepted, torn>>
  BY <1>0 DEF receive, Typed, IngestCall
<1>2. ingest[c].owes => ingest[c].day = d
  BY <1>0 DEF receive, CallInv
<1>3. \A e \in Days : Landed(e)' <=> Landed(e)
  BY <1>1, <1>2 DEF Landed
<1>4. Typed'
  BY <1>0, <1>1 DEF Typed
<1>5. SerialInv'
  BY <1>0, <1>1 DEF SerialInv, receive, Alone, Clean
<1>6. \A e \in Days : (RawInv(e) /\ DailyInv(e) /\ PagesInv(e))'
  BY <1>1, <1>3, DaysHold
<1>7. CallInv(c)'
  <2>1. there = "admitted" => Whole(d)
    BY <1>0 DEF RawInv, PrunedWhole
  <2> QED  BY <1>0, <1>1, <1>2, <2>1 DEF CallInv, Whole
<1>8. \A b \in Calls : CallInv(b)'
  BY <1>0, <1>1, <1>7 DEF CallInv, Whole
<1>9. \A r \in Rollers : RollInv(r)'
  BY <1>0, <1>1, <1>3, RollHolds DEF Typed, Whole, Flaggable
<1> QED  BY <1>4, <1>5, <1>6, <1>8, <1>9 DEF CountInv

LEMMA DropKeeps ==
  ASSUME NEW c \in Calls, CountInv, dropPrunedDays(c)
  PROVE  CountInv'
<1> PICK d \in Days : d = ingest[c].day
  BY DEF CountInv, Typed, IngestCall
<1>0. /\ Typed /\ SerialInv /\ \A e \in Days : RawInv(e) /\ DailyInv(e) /\ PagesInv(e)
      /\ \A b \in Calls : CallInv(b)
      /\ \A r \in Rollers : RollInv(r)
  BY DEF CountInv
<1>1. /\ ingest'[c] = IF raw[d] > 0 THEN [ingest[c] EXCEPT !.at = "admitted"] ELSE Free
      /\ \A b \in Calls : b # c => ingest'[b] = ingest[b]
      /\ ingest' \in [Calls -> IngestCall]
      /\ UNCHANGED <<store, today, raw, daily, pages, roll, prune, accepted, torn>>
  <2>1. Free \in IngestCall
    BY AnalyticsAssumption DEF Free, IngestCall, Days, AnalyticsAssumption
  <2>2. ingest[c] \in IngestCall /\ [ingest[c] EXCEPT !.at = "admitted"] \in IngestCall
    BY <1>0 DEF Typed, IngestCall
  <2> QED  BY <1>0, <2>1, <2>2 DEF dropPrunedDays, stillRaw, Typed
<1>2. d \in Days /\ ingest[c] \in IngestCall /\ raw[d] \in Nat
  BY <1>0 DEF Typed, IngestCall, Counts
<1>3. \A e \in Days : Landed(e)' <=> Landed(e)
  BY <1>0, <1>1, <1>2 DEF Landed, CallInv, Free, IngestCall
<1>4. Typed'
  BY <1>0, <1>1 DEF Typed
<1>5. SerialInv'
  BY <1>0, <1>1 DEF SerialInv, dropPrunedDays, Clean
<1>6. \A e \in Days : (RawInv(e) /\ DailyInv(e) /\ PagesInv(e))'
  BY <1>1, <1>3, DaysHold
<1>7. CallInv(c)'
  <2>1. raw[d] > 0 => Whole(d)
    BY <1>0, <1>2 DEF RawInv, PrunedWhole
  <2> QED  BY <1>0, <1>1, <1>2, <2>1 DEF CallInv, Whole, IngestCall, Free
<1>8. \A b \in Calls : CallInv(b)'
  BY <1>0, <1>1, <1>7 DEF CallInv, Whole
<1>9. \A r \in Rollers : RollInv(r)'
  BY <1>0, <1>1, <1>3, RollHolds DEF Typed, Whole, Flaggable
<1> QED  BY <1>4, <1>5, <1>6, <1>8, <1>9 DEF CountInv

LEMMA InsertKeeps ==
  ASSUME NEW c \in Calls, CountInv, insert(c)
  PROVE  CountInv'
<1> PICK d \in Days : d = ingest[c].day
  BY DEF CountInv, Typed, IngestCall
<1>0. /\ Typed /\ SerialInv /\ \A e \in Days : RawInv(e) /\ DailyInv(e) /\ PagesInv(e)
      /\ \A b \in Calls : CallInv(b)
      /\ \A r \in Rollers : RollInv(r)
  BY DEF CountInv
<1>1. d \in Days /\ ingest[c] \in IngestCall /\ raw \in Counts /\ accepted \in Counts
  BY <1>0 DEF Typed, IngestCall
<1>2. /\ ingest'[c] = [at |-> "stored", day |-> d, owes |-> TRUE]
      /\ \A b \in Calls : b # c => ingest'[b] = ingest[b]
      /\ ingest' \in [Calls -> IngestCall]
      /\ raw' \in Counts /\ accepted' \in Counts
      /\ raw'[d] = raw[d] + 1 /\ accepted'[d] = accepted[d] + 1
      /\ \A e \in Days : e # d => raw'[e] = raw[e] /\ accepted'[e] = accepted[e]
      /\ UNCHANGED <<store, today, daily, pages, roll, prune, torn>>
  <2>3. ingest' = [ingest EXCEPT ![c] = [at |-> "stored", day |-> d, owes |-> TRUE]]
    BY DEF insert
  <2>4. raw' = [raw EXCEPT ![d] = @ + 1] /\ accepted' = [accepted EXCEPT ![d] = @ + 1]
    BY DEF insert
  <2> QED  BY <1>0, <1>1, <2>3, <2>4 DEF insert, Counts, Typed, IngestCall
<1>3. /\ ~Landed(d)' /\ Whole(d) /\ Whole(d)'
      /\ \A e \in Days : Whole(e) => Whole(e)'
      /\ \A e \in Days : e # d => (Landed(e)' => Landed(e))
  BY <1>0, <1>1, <1>2 DEF Landed, Whole, CallInv, insert, IngestCall
<1>4. Typed'
  BY <1>0, <1>2 DEF Typed
<1>5. SerialInv'
  BY <1>0, <1>1, <1>2 DEF SerialInv, insert, Clean
<1>6. \A e \in Days : (RawInv(e) /\ DailyInv(e) /\ PagesInv(e))'
  BY <1>0, <1>2, <1>3 DEF RawInv, PrunedWhole, DailyInv, PagesInv, Settled, Clean
<1>7. CallInv(c)'
  BY <1>0, <1>1, <1>2, <1>3 DEF CallInv, Counts
<1>8. \A b \in Calls : CallInv(b)'
  <2> SUFFICES ASSUME NEW b \in Calls, b # c  PROVE CallInv(b)'
    BY <1>7
  <2>1. ingest[b].day \in Days /\ ingest'[b] = ingest[b] /\ CallInv(b)
    BY <1>0, <1>2 DEF Typed, IngestCall
  <2>2. raw[ingest[b].day] > 0 => raw'[ingest[b].day] > 0
    BY <1>1, <1>2, <2>1 DEF Counts
  <2> QED  BY <1>2, <1>3, <2>1, <2>2 DEF CallInv
<1>9. \A r \in Rollers : RollInv(r)'
  <2> SUFFICES ASSUME NEW r \in Rollers  PROVE RollInv(r)'
    OBVIOUS
  <2>1. RollInv(r) /\ roll[r] \in Rollup /\ roll'[r] = roll[r]
    BY <1>0, <1>2 DEF Typed
  <2>2. \A e \in Days : raw[e] > 0 => raw'[e] > 0
    BY <1>1, <1>2 DEF Counts
  <2>3. \A e \in Days : Landed(e)' => Landed(e) /\ accepted'[e] = accepted[e]
    BY <1>2, <1>3
  <2> QED  BY <1>2, <1>3, <2>1, <2>2, <2>3, RollHolds DEF Flaggable
<1> QED  BY <1>4, <1>5, <1>6, <1>8, <1>9 DEF CountInv

LEMMA MarkKeeps ==
  ASSUME RollsInTurn, NEW c \in Calls, CountInv, markLateDays(c)
  PROVE  CountInv'
<1> PICK d \in Days : d = ingest[c].day
  BY DEF CountInv, Typed, IngestCall
<1>0. /\ Typed /\ SerialInv /\ \A e \in Days : RawInv(e) /\ DailyInv(e) /\ PagesInv(e)
      /\ \A b \in Calls : CallInv(b)
      /\ \A r \in Rollers : RollInv(r)
  BY DEF CountInv
<1>1. /\ ingest'[c] = Free
      /\ \A b \in Calls : b # c => ingest'[b] = ingest[b]
      /\ ingest' \in [Calls -> IngestCall]
      /\ UNCHANGED <<store, today, raw, pages, roll, prune, accepted, torn>>
  <2>1. Free \in IngestCall
    BY AnalyticsAssumption DEF Free, IngestCall, Days, AnalyticsAssumption
  <2> QED  BY <1>0, <2>1 DEF markLateDays, Typed
<1>2. \A e \in Days : e # d => (Landed(e)' => Landed(e))
  BY <1>0, <1>1 DEF Landed
<1>3. daily[d] \in DayRow /\ flagged(d) \in DayRow
  BY <1>0 DEF Typed, DayRow, flagged
<1>4. /\ daily'[d] = flagged(d) /\ \A e \in Days : e # d => daily'[e] = daily[e]
      /\ daily' \in [Days -> DayRow]
  BY <1>0, <1>3 DEF markLateDays, Typed
<1>5. ~Clean(d)' /\ (daily[d].there => daily'[d].there)
  BY <1>3, <1>4 DEF Clean, flagged, DayRow
<1>6. Typed'
  BY <1>0, <1>1, <1>4 DEF Typed
<1>7. SerialInv'
  BY <1>0, <1>1 DEF SerialInv, markLateDays, Clean, Free
<1>8. \A e \in Days : (RawInv(e) /\ DailyInv(e) /\ PagesInv(e))'
  <2>1. Whole(d)
    BY <1>0 DEF CallInv, markLateDays
  <2>2. (RawInv(d) /\ DailyInv(d))'
    BY <1>1, <1>5, <2>1 DEF RawInv, Whole, DailyInv
  <2>3. PagesInv(d)'
    BY <1>0, <1>1, <1>5 DEF PagesInv, Clean
  <2>4. ASSUME NEW e \in Days, e # d  PROVE (RawInv(e) /\ DailyInv(e) /\ PagesInv(e))'
    BY <1>0, <1>1, <1>2, <1>4, <2>4
    DEF RawInv, Whole, PrunedWhole, DailyInv, PagesInv, Settled, Clean
  <2> QED  BY <2>2, <2>3, <2>4
<1>9. \A b \in Calls : CallInv(b)'
  BY <1>0, <1>1 DEF CallInv, Whole, Free
<1>10. \A r \in Rollers : RollInv(r)'
  <2> SUFFICES ASSUME NEW r \in Rollers, roll[r].at \in Rolling  PROVE RollInv(r)'
    BY <1>1 DEF RollInv, Rolling
  <2>1. store = "d1"
    BY <1>0, StoresAre DEF SerialInv, markLateDays, Rolling
  <2>2. RollInv(r) /\ roll[r] \in Rollup /\ roll'[r] = roll[r]
    BY <1>0, <1>1 DEF Typed
  <2>3. Flaggable(d) => daily'[d].dirty /\ daily'[d].there /\ daily'[d].token = daily[d].token + 1
    BY <1>3, <1>4, <2>1 DEF Flaggable, flagged
  <2>4. daily[d].token \in Nat
    BY <1>3 DEF DayRow
  <2> DEFINE p == roll[r]
  <2>5. p.days \subseteq Days /\ p.day \in Days /\ p.seen \in Counts
    BY <2>2 DEF Rollup
  <2>6. \A e \in p.days : raw[e] > 0 /\ Whole(e) /\ Flaggable(e)
    BY <2>2 DEF RollInv
  <2>7. p.at \in {"compute", "next", "paths", "write"} =>
          \A e \in p.days : p.seen[e] <= daily'[e].token /\ (p.seen[e] # daily'[e].token => daily'[e].dirty)
    BY <1>4, <2>2, <2>3, <2>4, <2>5, <2>6 DEF RollInv, Counts
  <2>8. p.at \in {"next", "paths", "write"} =>
          \A e \in p.days : p.seen[e] = daily'[e].token /\ Landed(e)' => p.m[e] = accepted[e]
    <3> SUFFICES ASSUME p.at \in {"next", "paths", "write"}, NEW e \in p.days,
                        p.seen[e] = daily'[e].token, Landed(e)'
                 PROVE  p.m[e] = accepted[e]
      OBVIOUS
    <3>1. p.seen[e] <= daily[e].token /\ p.seen[e] \in Nat /\ e \in Days
      BY <2>2, <2>5 DEF RollInv, Counts
    <3>2. e # d
      BY <2>3, <2>4, <2>6, <3>1
    <3> QED  BY <1>2, <1>4, <2>2, <3>1, <3>2 DEF RollInv
  <2>9. p.at \in {"paths", "write"} =>
          raw[p.day] > 0 /\ Whole(p.day) /\ daily'[p.day].there /\ Flaggable(p.day)
    BY <1>4, <1>5, <2>2, <2>5 DEF RollInv
  <2>10. p.at = "write" => p.n > 0 /\ (~daily'[p.day].dirty /\ Landed(p.day)' => p.n = accepted[p.day])
    <3> SUFFICES ASSUME p.at = "write"
                 PROVE  p.n > 0 /\ (~daily'[p.day].dirty /\ Landed(p.day)' => p.n = accepted[p.day])
      OBVIOUS
    <3>1. p.n > 0 /\ (~daily[p.day].dirty /\ Landed(p.day) => p.n = accepted[p.day]) /\ Flaggable(p.day)
      BY <2>2 DEF RollInv
    <3>2. CASE p.day = d
      BY <2>3, <3>1, <3>2
    <3>3. CASE p.day # d
      <4>1. Landed(p.day)' => Landed(p.day)
        BY <1>1, <2>5, <3>3 DEF Landed
      <4> QED  BY <1>4, <2>5, <3>1, <3>3, <4>1
    <3> QED  BY <3>2, <3>3
  <2> QED  BY <1>1, <2>6, <2>7, <2>8, <2>9, <2>10 DEF RollInv, Whole, Flaggable
<1> QED  BY <1>6, <1>7, <1>8, <1>9, <1>10 DEF CountInv

LEMMA RedeliverKeeps ==
  ASSUME NEW c \in Calls, CountInv, redeliver(c)
  PROVE  CountInv'
<1>0. /\ Typed /\ SerialInv /\ \A e \in Days : RawInv(e) /\ DailyInv(e) /\ PagesInv(e)
      /\ \A b \in Calls : CallInv(b)
      /\ \A r \in Rollers : RollInv(r)
  BY DEF CountInv
<1>1. /\ ingest'[c].at = "again" /\ ingest'[c].day = ingest[c].day /\ ingest'[c].owes = ingest[c].owes
      /\ \A b \in Calls : b # c => ingest'[b] = ingest[b]
      /\ ingest' \in [Calls -> IngestCall]
      /\ UNCHANGED <<store, today, raw, daily, pages, roll, prune, accepted, torn>>
  BY <1>0 DEF redeliver, Typed, IngestCall
<1>2. \A e \in Days : Landed(e)' <=> Landed(e)
  BY <1>1 DEF Landed
<1>3. Typed'
  BY <1>0, <1>1 DEF Typed
<1>4. SerialInv'
  BY <1>0, <1>1 DEF SerialInv, redeliver, Clean
<1>5. \A e \in Days : (RawInv(e) /\ DailyInv(e) /\ PagesInv(e))'
  BY <1>1, <1>2, DaysHold
<1>6. \A b \in Calls : CallInv(b)'
  BY <1>0, <1>1 DEF CallInv, Whole, redeliver
<1>7. \A r \in Rollers : RollInv(r)'
  BY <1>0, <1>1, <1>2, RollHolds DEF Typed, Whole, Flaggable
<1> QED  BY <1>3, <1>4, <1>5, <1>6, <1>7 DEF CountInv

-----------------------------------------------------------------------------
(* The rollup.                                                             *)

(* While a rollup is under way no other is, and on the Durable Object      *)
(* nothing else is.                                                        *)
LEMMA OneRollup ==
  ASSUME CountInv, NEW r \in Rollers, roll[r].at \in Rolling
  PROVE  /\ \A s \in Rollers : s # r => roll[s].at = "still"
         /\ store = "do" => prune.at = "idle" /\ \A c \in Calls : ingest[c].at = "free"
         /\ prune.at = "idle"
<1>1. \A s \in Rollers : s # r => roll[s].at = "still"
  BY DEF CountInv, SerialInv, Rolling
<1>2. store = "do" => prune.at = "idle" /\ \A c \in Calls : ingest[c].at = "free"
  BY DEF CountInv, SerialInv, Rolling
<1>3. store = "do" \/ store = "d1"
  BY StoresAre DEF CountInv
<1> QED  BY <1>1, <1>2, <1>3 DEF CountInv, SerialInv

(* A step of rollup r touches neither calls nor raw rows: what is left to  *)
(* show is its own record, the types and the days it writes.               *)
LEMMA RollStep ==
  ASSUME CountInv, NEW r \in Rollers, NEW q \in Rollup, roll' = [roll EXCEPT ![r] = q],
         roll[r].at \in Rolling, UNCHANGED <<store, today, raw, ingest, prune, accepted>>
  PROVE  /\ \A s \in Rollers : s # r => roll'[s] = roll[s] /\ RollInv(s)'
         /\ roll'[r] = q /\ roll' \in [Rollers -> Rollup]
         /\ SerialInv' /\ \A c \in Calls : CallInv(c)'
         /\ \A d \in Days : Landed(d)' <=> Landed(d)
<1>1. roll \in [Rollers -> Rollup]
  BY DEF CountInv, Typed
<1>2. roll'[r] = q /\ roll' \in [Rollers -> Rollup] /\ \A s \in Rollers : s # r => roll'[s] = roll[s]
  BY <1>1
<1>3. \A s \in Rollers : s # r => RollInv(s)'
  BY <1>2, OneRollup DEF RollInv, Rolling
<1>4. SerialInv'
  <2>1. \A s, t \in Rollers : s = t \/ roll'[s].at = "still" \/ roll'[t].at = "still"
    BY <1>2, OneRollup
  <2> QED  BY <2>1, OneRollup DEF SerialInv, CountInv
<1>5. \A c \in Calls : CallInv(c)'
  BY DEF CountInv, CallInv, Whole
<1>6. \A d \in Days : Landed(d)' <=> Landed(d)
  BY DEF Landed
<1> QED  BY <1>2, <1>3, <1>4, <1>5, <1>6

LEMMA SetField ==
  ASSUME NEW p \in Rollup
  PROVE  /\ \A x \in Rolling :
              LET q == [p EXCEPT !.at = x] IN
              /\ q \in Rollup /\ q.at = x /\ q.days = p.days /\ q.seen = p.seen
              /\ q.m = p.m /\ q.day = p.day /\ q.n = p.n
         /\ \A s \in Counts :
              LET q == [p EXCEPT !.seen = s] IN
              /\ q \in Rollup /\ q.at = p.at /\ q.days = p.days /\ q.seen = s
              /\ q.m = p.m /\ q.day = p.day /\ q.n = p.n
         /\ \A m \in Counts :
              LET q == [p EXCEPT !.m = m] IN
              /\ q \in Rollup /\ q.at = p.at /\ q.days = p.days /\ q.seen = p.seen
              /\ q.m = m /\ q.day = p.day /\ q.n = p.n
         /\ \A n \in Nat :
              LET q == [p EXCEPT !.n = n] IN
              /\ q \in Rollup /\ q.at = p.at /\ q.days = p.days /\ q.seen = p.seen
              /\ q.m = p.m /\ q.day = p.day /\ q.n = n
         /\ \A ds \in SUBSET Days :
              LET q == [p EXCEPT !.days = ds] IN
              /\ q \in Rollup /\ q.at = p.at /\ q.days = ds /\ q.seen = p.seen
              /\ q.m = p.m /\ q.day = p.day /\ q.n = p.n
         /\ \A d \in Days :
              LET q == [p EXCEPT !.day = d] IN
              /\ q \in Rollup /\ q.at = p.at /\ q.days = p.days /\ q.seen = p.seen
              /\ q.m = p.m /\ q.day = d /\ q.n = p.n
BY DEF Rollup, Rolling

LEMMA StartKeeps ==
  ASSUME RollsInTurn, NEW r \in Rollers, NEW through \in Days, CountInv, rollupPending(r, through)
  PROVE  CountInv'
<1>0. /\ Typed /\ SerialInv /\ \A e \in Days : RawInv(e) /\ DailyInv(e) /\ PagesInv(e)
      /\ \A b \in Calls : CallInv(b)
      /\ \A s \in Rollers : RollInv(s)
  BY DEF CountInv
<1> DEFINE q == [Still EXCEPT !.at = "tokens", !.days = pendingDays(through)]
<1>1. Still \in Rollup /\ pendingDays(through) \in SUBSET Days
  BY AnalyticsAssumption DEF Still, Rollup, Days, Counts, pendingDays, AnalyticsAssumption
<1>2. q \in Rollup /\ q.at = "tokens" /\ q.days = pendingDays(through)
  <2>1. [Still EXCEPT !.at = "tokens"] \in Rollup /\ [Still EXCEPT !.at = "tokens"].at = "tokens"
    BY <1>1, SetField DEF Rolling
  <2> QED  BY <1>1, <2>1, SetField
<1>3. roll' = [roll EXCEPT ![r] = q] /\ UNCHANGED <<store, today, raw, daily, pages, ingest, prune, accepted, torn>>
  BY DEF rollupPending
<1> HIDE DEF q
<1>4. /\ roll'[r] = q /\ \A s \in Rollers : s # r => roll'[s] = roll[s]
      /\ roll' \in [Rollers -> Rollup]
  BY <1>0, <1>2, <1>3 DEF Typed
<1>5. \A s \in Rollers : s # r => roll[s].at = "still"
  <2>1. CASE store = "do"
    BY <2>1, AloneMeans DEF rollupPending
  <2>2. CASE store = "d1"
    BY <1>0, <2>2, OnD1
  <2> QED  BY <1>0, <2>1, <2>2, StoresAre
<1>6. Typed'
  BY <1>0, <1>3, <1>4 DEF Typed
<1>7. SerialInv'
  <2>1. store = "do" => prune.at = "idle" /\ \A c \in Calls : ingest[c].at = "free"
    BY AloneMeans DEF rollupPending
  <2>2. store = "d1" => prune.at = "idle"
    BY <1>0 DEF SerialInv
  <2> QED  BY <1>3, <1>4, <1>5, <2>1, <2>2 DEF SerialInv
<1>8. \A d \in Days : Landed(d)' <=> Landed(d)
  BY <1>3 DEF Landed
<1>9. \A e \in Days : (RawInv(e) /\ DailyInv(e) /\ PagesInv(e))'
  <2>1. \A e \in Days : Settled(e)' => Settled(e)
    BY <1>3, <1>4, <1>5 DEF Settled, rollupPending
  <2> QED  BY <1>0, <1>3, <1>8, <2>1 DEF RawInv, Whole, PrunedWhole, DailyInv, PagesInv, Clean
<1>10. \A c \in Calls : CallInv(c)'
  BY <1>0, <1>3 DEF CallInv, Whole
<1>11. \A s \in Rollers : RollInv(s)'
  <2>1. \A d \in pendingDays(through) : raw[d] > 0 /\ Whole(d)
    BY <1>0, <1>1 DEF pendingDays, RawInv, PrunedWhole
  <2>2. \A d \in pendingDays(through) : Flaggable(d)
    <3> SUFFICES ASSUME store = "d1", NEW d \in pendingDays(through)  PROVE d < today
      BY DEF Flaggable
    <3>1. through = today - 1 /\ d <= through /\ d \in Int
      BY <1>0, OnD1 DEF rollupPending, pendingDays
    <3> QED  BY <1>0, <3>1 DEF Typed, Days
  <2>3. RollInv(r)'
    BY <1>2, <1>3, <1>4, <2>1, <2>2 DEF RollInv, Whole, Flaggable
  <2>4. ASSUME NEW s \in Rollers, s # r  PROVE RollInv(s)'
    BY <1>4, <1>5, <2>4 DEF RollInv, Rolling
  <2> QED  BY <2>3, <2>4
<1> QED  BY <1>6, <1>7, <1>9, <1>10, <1>11 DEF CountInv

LEMMA TokensKeep ==
  ASSUME NEW r \in Rollers, CountInv, readTokens(r)
  PROVE  CountInv'
<1>0. /\ Typed /\ SerialInv /\ \A e \in Days : RawInv(e) /\ DailyInv(e) /\ PagesInv(e)
      /\ roll[r] \in Rollup /\ RollInv(r) /\ roll[r].at \in Rolling
  BY DEF CountInv, Typed, readTokens, Rolling
<1> DEFINE seen == [d \in Days |-> IF d \in roll[r].days THEN daily[d].token ELSE 0]
           q == [roll[r] EXCEPT !.at = "compute", !.seen = seen]
<1>1. seen \in Counts
  BY <1>0 DEF Typed, DayRow, Counts
<1>2. q \in Rollup /\ q.at = "compute" /\ q.days = roll[r].days /\ q.seen = seen
  <2> HIDE DEF seen
  <2> DEFINE p == [roll[r] EXCEPT !.at = "compute"]
  <2>1. /\ p \in Rollup /\ p.at = "compute" /\ p.days = roll[r].days /\ p.seen = roll[r].seen
    BY <1>0, SetField DEF Rolling
  <2>2. q = [p EXCEPT !.seen = seen]
    OBVIOUS
  <2> HIDE DEF p, q
  <2> QED  BY <1>1, <2>1, <2>2, SetField
<1>3. roll' = [roll EXCEPT ![r] = q] /\ UNCHANGED <<store, today, raw, daily, pages, ingest, prune, accepted, torn>>
  BY DEF readTokens
<1> HIDE DEF q
<1>4. /\ \A s \in Rollers : s # r => roll'[s] = roll[s] /\ RollInv(s)'
      /\ roll'[r] = q /\ roll' \in [Rollers -> Rollup]
      /\ SerialInv' /\ \A c \in Calls : CallInv(c)'
      /\ \A d \in Days : Landed(d)' <=> Landed(d)
  BY <1>0, <1>2, <1>3, RollStep
<1>5. Typed'
  BY <1>0, <1>3, <1>4 DEF Typed
<1>6. \A e \in Days : (RawInv(e) /\ DailyInv(e) /\ PagesInv(e))'
  <2>1. \A e \in Days : Settled(e)' => Settled(e)
    BY <1>3, <1>4 DEF Settled, readTokens
  <2> QED  BY <1>0, <1>3, <1>4, <2>1 DEF RawInv, Whole, PrunedWhole, DailyInv, PagesInv, Clean
<1>7. RollInv(r)'
  <2>1. roll[r].days \subseteq Days
    BY <1>0 DEF Rollup
  <2>2. \A d \in roll[r].days : seen[d] = daily[d].token /\ daily[d].token \in Nat
    BY <1>0, <2>1 DEF Typed, DayRow
  <2> HIDE DEF seen
  <2> QED  BY <1>0, <1>2, <1>3, <1>4, <2>2 DEF RollInv, Whole, Flaggable
<1> QED  BY <1>4, <1>5, <1>6, <1>7 DEF CountInv

LEMMA ComputeKeeps ==
  ASSUME NEW r \in Rollers, CountInv, computeDays(r)
  PROVE  CountInv'
<1>0. /\ Typed /\ SerialInv /\ \A e \in Days : RawInv(e) /\ DailyInv(e) /\ PagesInv(e)
      /\ roll[r] \in Rollup /\ RollInv(r) /\ roll[r].at \in Rolling
  BY DEF CountInv, Typed, computeDays, Rolling
<1> DEFINE m == [d \in Days |-> IF d \in roll[r].days THEN raw[d] ELSE 0]
           q == [roll[r] EXCEPT !.at = "next", !.m = m]
<1>1. m \in Counts
  BY <1>0 DEF Typed, Counts
<1>2. q \in Rollup /\ q.at = "next" /\ q.days = roll[r].days /\ q.seen = roll[r].seen /\ q.m = m
  <2> HIDE DEF m
  <2> DEFINE p == [roll[r] EXCEPT !.at = "next"]
  <2>1. /\ p \in Rollup /\ p.at = "next" /\ p.days = roll[r].days /\ p.seen = roll[r].seen
    BY <1>0, SetField DEF Rolling
  <2>2. q = [p EXCEPT !.m = m]
    OBVIOUS
  <2> HIDE DEF p, q
  <2> QED  BY <1>1, <2>1, <2>2, SetField
<1>3. roll' = [roll EXCEPT ![r] = q] /\ UNCHANGED <<store, today, raw, daily, pages, ingest, prune, accepted, torn>>
  BY DEF computeDays
<1> HIDE DEF q
<1>4. /\ \A s \in Rollers : s # r => roll'[s] = roll[s] /\ RollInv(s)'
      /\ roll'[r] = q /\ roll' \in [Rollers -> Rollup]
      /\ SerialInv' /\ \A c \in Calls : CallInv(c)'
      /\ \A d \in Days : Landed(d)' <=> Landed(d)
  BY <1>0, <1>2, <1>3, RollStep
<1>5. Typed'
  BY <1>0, <1>3, <1>4 DEF Typed
<1>6. \A e \in Days : (RawInv(e) /\ DailyInv(e) /\ PagesInv(e))'
  <2>1. \A e \in Days : Settled(e)' => Settled(e)
    BY <1>3, <1>4 DEF Settled, computeDays
  <2> QED  BY <1>0, <1>3, <1>4, <2>1 DEF RawInv, Whole, PrunedWhole, DailyInv, PagesInv, Clean
<1>7. RollInv(r)'
  <2>1. roll[r].days \subseteq Days
    BY <1>0 DEF Rollup
  <2>2. \A d \in roll[r].days : m[d] = raw[d] /\ raw[d] = accepted[d]
    BY <1>0, <2>1 DEF RollInv, Whole
  <2>3. roll[r].at = "compute"
    BY DEF computeDays
  <2>4. \A d \in q.days : raw[d] > 0 /\ Whole(d) /\ Flaggable(d)
    BY <1>0, <1>2 DEF RollInv
  <2>5. \A d \in q.days : q.seen[d] <= daily[d].token /\ (q.seen[d] # daily[d].token => daily[d].dirty)
    BY <1>0, <1>2, <2>3 DEF RollInv
  <2>6. \A d \in q.days : q.m[d] = accepted[d]
    BY <1>2, <2>2
  <2> HIDE DEF m
  <2> QED  BY <1>2, <1>3, <1>4, <2>4, <2>5, <2>6 DEF RollInv, Whole, Flaggable
<1> QED  BY <1>4, <1>5, <1>6, <1>7 DEF CountInv

LEMMA WriteDailyKeeps ==
  ASSUME NEW r \in Rollers, CountInv, writeDaily(r)
  PROVE  CountInv'
<1>0. /\ Typed /\ SerialInv /\ \A e \in Days : RawInv(e) /\ DailyInv(e) /\ PagesInv(e)
      /\ roll[r] \in Rollup /\ RollInv(r) /\ roll[r].at = "next" /\ roll[r].at \in Rolling
  BY DEF CountInv, Typed, writeDaily, Rolling
<1> PICK d \in roll[r].days :
         /\ daily' = [daily EXCEPT ![d] = upserted(d, roll[r].seen[d], roll[r].m[d])]
         /\ roll' = [roll EXCEPT ![r] = [at |-> "paths", day |-> d, days |-> roll[r].days \ {d}, n |-> roll[r].n,
                        seen |-> [roll[r].seen EXCEPT ![d] = 0], m |-> [roll[r].m EXCEPT ![d] = 0]]]
  BY DEF writeDaily, Oldest
<1>1. d \in Days /\ UNCHANGED <<store, today, raw, pages, ingest, prune, accepted, torn>>
  BY <1>0 DEF writeDaily, Rollup
<1> DEFINE p == roll[r]
           days == p.days \ {d}
           seen == [p.seen EXCEPT ![d] = 0]
           m == [p.m EXCEPT ![d] = 0]
           q == [at |-> "paths", day |-> d, days |-> days, n |-> p.n, seen |-> seen, m |-> m]
<1>2. /\ days \subseteq Days /\ seen \in Counts /\ m \in Counts
      /\ \A e \in Days : e # d => seen[e] = p.seen[e] /\ m[e] = p.m[e]
  BY <1>0, <1>1 DEF Rollup, Counts
<1>3. /\ q \in Rollup /\ q.at = "paths" /\ q.day = d /\ q.days = days /\ q.seen = seen /\ q.m = m
  <2> HIDE DEF days, seen, m
  <2> QED  BY <1>0, <1>1, <1>2 DEF Rollup, Rolling
<1>4. roll' = [roll EXCEPT ![r] = q]
  OBVIOUS
<1> HIDE DEF q, seen, m
<1>5. /\ raw[d] > 0 /\ Whole(d) /\ Flaggable(d) /\ daily[d] \in DayRow
      /\ p.seen[d] <= daily[d].token /\ (p.seen[d] # daily[d].token => daily[d].dirty)
      /\ p.seen[d] = daily[d].token /\ Landed(d) => p.m[d] = accepted[d]
      /\ p.m[d] \in Nat
  BY <1>0, <1>1 DEF RollInv, Rolling, Typed, Rollup, Counts
<1>6. /\ daily' \in [Days -> DayRow] /\ \A e \in Days : e # d => daily'[e] = daily[e]
      /\ daily'[d].there /\ daily'[d].token = daily[d].token /\ daily'[d].n = p.m[d]
      /\ daily'[d].dirty = IF daily[d].token = p.seen[d] THEN FALSE ELSE daily[d].dirty
  <2> DEFINE a == [daily[d] EXCEPT !.there = TRUE]
             b == [a EXCEPT !.n = p.m[d]]
             x == IF daily[d].token = p.seen[d] THEN FALSE ELSE daily[d].dirty
             c == [b EXCEPT !.dirty = x]
  <2>1. a \in DayRow /\ a.there /\ a.token = daily[d].token /\ a.dirty = daily[d].dirty
    BY <1>5 DEF DayRow
  <2>2. b \in DayRow /\ b.there /\ b.token = daily[d].token /\ b.dirty = daily[d].dirty /\ b.n = p.m[d]
    <3> HIDE DEF a
    <3> QED  BY <1>5, <2>1 DEF DayRow
  <2>3. x \in BOOLEAN
    BY <1>5 DEF DayRow
  <2>4. c \in DayRow /\ c.there /\ c.token = daily[d].token /\ c.n = p.m[d] /\ c.dirty = x
    <3> HIDE DEF b, x
    <3> QED  BY <2>2, <2>3 DEF DayRow
  <2>5. upserted(d, p.seen[d], p.m[d]) = c
    BY <2>1, <2>2 DEF upserted
  <2> HIDE DEF c
  <2> QED  BY <1>0, <1>1, <2>4, <2>5 DEF Typed
<1>7. Clean(d)' => p.seen[d] = daily[d].token
  BY <1>5, <1>6 DEF Clean
<1>8. /\ \A s \in Rollers : s # r => roll'[s] = roll[s] /\ RollInv(s)'
      /\ roll'[r] = q /\ roll' \in [Rollers -> Rollup]
      /\ SerialInv' /\ \A c \in Calls : CallInv(c)'
      /\ \A e \in Days : Landed(e)' <=> Landed(e)
  BY <1>0, <1>1, <1>3, <1>4, RollStep
<1>9. Typed'
  BY <1>0, <1>1, <1>6, <1>8 DEF Typed
<1>10. \A e \in Days : (RawInv(e) /\ DailyInv(e) /\ PagesInv(e))'
  <2>1. ASSUME NEW e \in Days, e # d  PROVE (RawInv(e) /\ DailyInv(e) /\ PagesInv(e))'
    <3>1. Settled(e)' => Settled(e)
      BY <1>0, <1>1, <1>8 DEF Settled
    <3> QED  BY <1>0, <1>1, <1>6, <1>8, <2>1, <3>1 DEF RawInv, Whole, PrunedWhole, DailyInv, PagesInv, Clean
  <2>2. RawInv(d)'
    BY <1>1, <1>5 DEF RawInv, Whole
  <2>3. DailyInv(d)'
    BY <1>1, <1>5, <1>6, <1>7, <1>8 DEF DailyInv
  <2>4. PagesInv(d)'
    <3>1. ~Settled(d)'
      BY <1>3, <1>8 DEF Settled
    <3> QED  BY <1>6, <3>1 DEF PagesInv
  <2> QED  BY <2>1, <2>2, <2>3, <2>4
<1>11. RollInv(r)'
  <2>1. \A e \in days : e \in Days /\ e # d /\ e \in p.days
    BY <1>2
  <2>2. \A e \in days : raw[e] > 0 /\ Whole(e) /\ Flaggable(e)
    BY <1>0, <2>1 DEF RollInv
  <2>3. \A e \in days : seen[e] <= daily'[e].token /\ (seen[e] # daily'[e].token => daily'[e].dirty)
    BY <1>0, <1>2, <1>6, <2>1 DEF RollInv
  <2>4. \A e \in days : seen[e] = daily'[e].token /\ Landed(e)' => m[e] = accepted[e]
    BY <1>0, <1>2, <1>6, <1>8, <2>1 DEF RollInv
  <2>5. /\ roll'[r].at = "paths" /\ roll'[r].days = days /\ roll'[r].seen = seen
        /\ roll'[r].m = m /\ roll'[r].day = d
    BY <1>3, <1>8
  <2> HIDE DEF days, p
  <2>6. (\A e \in roll[r].days : raw[e] > 0 /\ Whole(e) /\ Flaggable(e))'
    BY <1>1, <2>2, <2>5 DEF Whole, Flaggable
  <2>7. (\A e \in roll[r].days : roll[r].seen[e] <= daily[e].token /\ (roll[r].seen[e] # daily[e].token => daily[e].dirty))'
    BY <2>3, <2>5
  <2>8. (\A e \in roll[r].days : roll[r].seen[e] = daily[e].token /\ Landed(e) => roll[r].m[e] = accepted[e])'
    BY <1>1, <2>4, <2>5
  <2>9. (raw[roll[r].day] > 0 /\ Whole(roll[r].day) /\ daily[roll[r].day].there /\ Flaggable(roll[r].day))'
    BY <1>1, <1>5, <1>6, <2>5 DEF Whole, Flaggable
  <2> QED  BY <2>5, <2>6, <2>7, <2>8, <2>9 DEF RollInv
<1> QED  BY <1>8, <1>9, <1>10, <1>11 DEF CountInv

LEMMA ReadPathsKeeps ==
  ASSUME NEW r \in Rollers, CountInv, readPaths(r)
  PROVE  CountInv'
<1>0. /\ Typed /\ SerialInv /\ \A e \in Days : RawInv(e) /\ DailyInv(e) /\ PagesInv(e)
      /\ roll[r] \in Rollup /\ RollInv(r) /\ roll[r].at = "paths" /\ roll[r].at \in Rolling
  BY DEF CountInv, Typed, readPaths, Rolling
<1> DEFINE p == roll[r]
           q == [p EXCEPT !.at = "write", !.n = perPath(r)]
<1>1. perPath(r) = raw[p.day] /\ raw[p.day] \in Nat /\ p.day \in Days
  BY <1>0 DEF perPath, Typed, Counts, Rollup
<1>2. /\ q \in Rollup /\ q.at = "write" /\ q.days = p.days /\ q.seen = p.seen /\ q.m = p.m
      /\ q.day = p.day /\ q.n = raw[p.day]
  <2> DEFINE a == [p EXCEPT !.at = "write"]
  <2>1. /\ a \in Rollup /\ a.at = "write" /\ a.days = p.days /\ a.seen = p.seen /\ a.m = p.m
        /\ a.day = p.day
    BY <1>0, SetField DEF Rolling
  <2>2. q = [a EXCEPT !.n = raw[p.day]]
    BY <1>1
  <2> HIDE DEF a, p, q
  <2> QED  BY <1>1, <2>1, <2>2, SetField
<1>3. roll' = [roll EXCEPT ![r] = q] /\ UNCHANGED <<store, today, raw, daily, pages, ingest, prune, accepted, torn>>
  BY DEF readPaths
<1> HIDE DEF q
<1>4. /\ \A s \in Rollers : s # r => roll'[s] = roll[s] /\ RollInv(s)'
      /\ roll'[r] = q /\ roll' \in [Rollers -> Rollup]
      /\ SerialInv' /\ \A c \in Calls : CallInv(c)'
      /\ \A d \in Days : Landed(d)' <=> Landed(d)
  BY <1>0, <1>2, <1>3, RollStep
<1>5. Typed'
  BY <1>0, <1>3, <1>4 DEF Typed
<1>6. \A e \in Days : (RawInv(e) /\ DailyInv(e) /\ PagesInv(e))'
  <2>1. \A e \in Days : Settled(e)' => Settled(e)
    BY <1>0, <1>2, <1>3, <1>4 DEF Settled
  <2> QED  BY <1>0, <1>3, <1>4, <2>1 DEF RawInv, Whole, PrunedWhole, DailyInv, PagesInv, Clean
<1>7. RollInv(r)'
  <2>1. p.days \subseteq Days
    BY <1>0 DEF Rollup
  <2>2. /\ \A e \in p.days : raw[e] > 0 /\ Whole(e) /\ Flaggable(e)
        /\ \A e \in p.days : p.seen[e] <= daily[e].token /\ (p.seen[e] # daily[e].token => daily[e].dirty)
        /\ \A e \in p.days : p.seen[e] = daily[e].token /\ Landed(e) => p.m[e] = accepted[e]
        /\ raw[p.day] > 0 /\ Whole(p.day) /\ daily[p.day].there /\ Flaggable(p.day)
    BY <1>0 DEF RollInv
  <2>3. \A e \in p.days : p.seen[e] = daily[e].token /\ Landed(e)' => p.m[e] = accepted[e]
    BY <1>4, <2>1, <2>2
  <2>4. raw[p.day] = accepted[p.day]
    BY <2>2 DEF Whole
  <2>5. /\ roll'[r].at = "write" /\ roll'[r].days = p.days /\ roll'[r].seen = p.seen
        /\ roll'[r].m = p.m /\ roll'[r].day = p.day /\ roll'[r].n = raw[p.day]
    BY <1>2, <1>4
  <2> HIDE DEF p
  <2>6. (\A e \in roll[r].days : raw[e] > 0 /\ Whole(e) /\ Flaggable(e))'
    BY <1>3, <2>2, <2>5 DEF Whole, Flaggable
  <2>7. (\A e \in roll[r].days : roll[r].seen[e] <= daily[e].token /\ (roll[r].seen[e] # daily[e].token => daily[e].dirty))'
    BY <1>3, <2>2, <2>5
  <2>8. (\A e \in roll[r].days : roll[r].seen[e] = daily[e].token /\ Landed(e) => roll[r].m[e] = accepted[e])'
    BY <1>3, <2>3, <2>5
  <2>9. (raw[roll[r].day] > 0 /\ Whole(roll[r].day) /\ daily[roll[r].day].there /\ Flaggable(roll[r].day))'
    BY <1>3, <2>2, <2>5 DEF Whole, Flaggable
  <2>10. (roll[r].n > 0 /\ roll[r].n = accepted[roll[r].day])'
    BY <1>3, <2>2, <2>4, <2>5
  <2> QED  BY <2>6, <2>7, <2>8, <2>9, <2>10 DEF RollInv
<1> QED  BY <1>4, <1>5, <1>6, <1>7 DEF CountInv

LEMMA WritePagesKeeps ==
  ASSUME NEW r \in Rollers, CountInv, writePages(r)
  PROVE  CountInv'
<1>0. /\ Typed /\ SerialInv /\ \A e \in Days : RawInv(e) /\ DailyInv(e) /\ PagesInv(e)
      /\ roll[r] \in Rollup /\ RollInv(r) /\ roll[r].at = "write" /\ roll[r].at \in Rolling
  BY DEF CountInv, Typed, writePages, Rolling
<1> DEFINE p == roll[r]
           left == [p EXCEPT !.at = "next"]
           q == IF left.days = {} THEN Still ELSE left
<1>1. p.day \in Days /\ p.n \in Nat
  BY <1>0 DEF Rollup
<1>2. /\ left \in Rollup /\ left.at = "next" /\ left.days = p.days /\ left.seen = p.seen /\ left.m = p.m
  BY <1>0, SetField DEF Rolling
<1>3. Still \in Rollup /\ Still.at = "still"
  BY AnalyticsAssumption DEF Still, Rollup, Days, Counts, AnalyticsAssumption
<1>4. /\ roll' = [roll EXCEPT ![r] = q]
      /\ pages' = IF p.n = 0 THEN pages ELSE [pages EXCEPT ![p.day] = p.n]
      /\ torn' = torn \ {p.day}
      /\ UNCHANGED <<store, today, raw, daily, ingest, prune, accepted>>
  BY DEF writePages
<1>5. q \in Rollup /\ (q = Still \/ q = left)
  BY <1>2, <1>3
<1> HIDE DEF q
<1>6. /\ \A s \in Rollers : s # r => roll'[s] = roll[s] /\ RollInv(s)'
      /\ roll'[r] = q /\ roll' \in [Rollers -> Rollup]
      /\ SerialInv' /\ \A c \in Calls : CallInv(c)'
      /\ \A d \in Days : Landed(d)' <=> Landed(d)
  BY <1>0, <1>4, <1>5, RollStep
<1>7. /\ raw[p.day] > 0 /\ Whole(p.day) /\ daily[p.day].there
      /\ p.n > 0 /\ (~daily[p.day].dirty /\ Landed(p.day) => p.n = accepted[p.day])
  BY <1>0 DEF RollInv
<1>8. /\ pages' = [pages EXCEPT ![p.day] = p.n]
      /\ pages'[p.day] = p.n /\ \A e \in Days : e # p.day => pages'[e] = pages[e]
      /\ pages' \in [Days -> Nat \cup {None}]
  BY <1>0, <1>1, <1>4, <1>7 DEF Typed
<1>9. Typed'
  BY <1>0, <1>4, <1>6, <1>8 DEF Typed
<1>10. \A e \in Days : (RawInv(e) /\ DailyInv(e) /\ PagesInv(e))'
  <2> SUFFICES ASSUME NEW e \in Days  PROVE (RawInv(e) /\ DailyInv(e) /\ PagesInv(e))'
    OBVIOUS
  <2>1. (RawInv(e) /\ DailyInv(e))'
    BY <1>0, <1>4, <1>6 DEF RawInv, Whole, PrunedWhole, DailyInv, Clean
  <2>2. CASE e = p.day
    BY <1>1, <1>4, <1>6, <1>7, <1>8, <2>1, <2>2 DEF PagesInv, None
  <2>3. CASE e # p.day
    <3>1. Settled(e)' => Settled(e)
      BY <1>0, <1>4, <1>6, <2>3 DEF Settled
    <3> QED  BY <1>0, <1>4, <1>6, <1>8, <2>1, <2>3, <3>1 DEF PagesInv, Clean
  <2> QED  BY <2>2, <2>3
<1>11. RollInv(r)'
  <2>1. CASE q = Still
    BY <1>3, <1>6, <2>1 DEF RollInv, Rolling
  <2>2. CASE q = left
    <3>1. /\ roll'[r].at = "next" /\ roll'[r].days = p.days /\ roll'[r].seen = p.seen
          /\ roll'[r].m = p.m /\ p.days \subseteq Days
      BY <1>0, <1>2, <1>6, <2>2 DEF Rollup
    <3>2. /\ \A e \in p.days : raw[e] > 0 /\ Whole(e) /\ Flaggable(e)
          /\ \A e \in p.days : p.seen[e] <= daily[e].token /\ (p.seen[e] # daily[e].token => daily[e].dirty)
          /\ \A e \in p.days : p.seen[e] = daily[e].token /\ Landed(e) => p.m[e] = accepted[e]
      BY <1>0 DEF RollInv
    <3> HIDE DEF p, left
    <3>3. (\A e \in roll[r].days : raw[e] > 0 /\ Whole(e) /\ Flaggable(e))'
      BY <1>4, <3>1, <3>2 DEF Whole, Flaggable
    <3>4. (\A e \in roll[r].days : roll[r].seen[e] <= daily[e].token /\ (roll[r].seen[e] # daily[e].token => daily[e].dirty))'
      BY <1>4, <3>1, <3>2
    <3>5. (\A e \in roll[r].days : roll[r].seen[e] = daily[e].token /\ Landed(e) => roll[r].m[e] = accepted[e])'
      BY <1>4, <1>6, <3>1, <3>2
    <3> QED  BY <3>1, <3>3, <3>4, <3>5 DEF RollInv
  <2> QED  BY <1>5, <2>1, <2>2
<1> QED  BY <1>6, <1>9, <1>10, <1>11 DEF CountInv

LEMMA RollDiesKeeps ==
  ASSUME NEW r \in Rollers, CountInv, rollDies(r)
  PROVE  CountInv'
<1>0. /\ Typed /\ SerialInv /\ \A e \in Days : RawInv(e) /\ DailyInv(e) /\ PagesInv(e)
      /\ roll[r] \in Rollup /\ RollInv(r) /\ roll[r].at \in Rolling
  BY DEF CountInv, Typed, rollDies, Rolling, Rollup
<1>1. Still \in Rollup /\ Still.at = "still"
  BY AnalyticsAssumption DEF Still, Rollup, Days, Counts, AnalyticsAssumption
<1>2. roll' = [roll EXCEPT ![r] = Still] /\ UNCHANGED <<store, today, raw, daily, pages, ingest, prune, accepted>>
  BY DEF rollDies
<1>3. /\ \A s \in Rollers : s # r => roll'[s] = roll[s] /\ RollInv(s)'
      /\ roll'[r] = Still /\ roll' \in [Rollers -> Rollup]
      /\ SerialInv' /\ \A c \in Calls : CallInv(c)'
      /\ \A d \in Days : Landed(d)' <=> Landed(d)
  BY <1>0, <1>1, <1>2, RollStep
<1>4. torn' \subseteq Days
  BY <1>0 DEF rollDies, Typed, Rollup
<1>5. Typed'
  BY <1>0, <1>2, <1>3, <1>4 DEF Typed
<1>6. \A e \in Days : (RawInv(e) /\ DailyInv(e) /\ PagesInv(e))'
  <2>1. \A e \in Days : Settled(e)' => Settled(e)
    BY <1>3 DEF Settled, rollDies
  <2> QED  BY <1>0, <1>2, <1>3, <2>1 DEF RawInv, Whole, PrunedWhole, DailyInv, PagesInv, Clean
<1>7. RollInv(r)'
  BY <1>1, <1>3 DEF RollInv, Rolling
<1> QED  BY <1>3, <1>5, <1>6, <1>7 DEF CountInv

-----------------------------------------------------------------------------
(* The prune and the clock.                                                *)

LEMMA PruneKeeps ==
  ASSUME RollsInTurn, CountInv, pruneRawEvents
  PROVE  CountInv'
<1>0. /\ Typed /\ SerialInv /\ \A e \in Days : RawInv(e) /\ DailyInv(e) /\ PagesInv(e)
      /\ \A b \in Calls : CallInv(b)
      /\ \A r \in Rollers : RollInv(r)
  BY DEF CountInv
<1>1. prune' = [at |-> "delete", days |-> deletable]
      /\ UNCHANGED <<store, today, raw, daily, pages, ingest, roll, accepted, torn>>
  BY DEF pruneRawEvents
<1>2. store = "do"
  BY <1>0, OnD1, StoresAre DEF pruneRawEvents
<1>3. /\ \A c \in Calls : ingest[c].at = "free"
      /\ \A r \in Rollers : roll[r].at = "still"
  BY <1>2, AloneMeans DEF pruneRawEvents
<1>4. \A d \in deletable : Clean(d) /\ d < today
  <2> SUFFICES ASSUME NEW d \in deletable  PROVE d < today
    BY DEF deletable
  <2>1. d \in Int /\ d + KeepDays < today /\ today \in Int
    BY <1>0 DEF deletable, Days, Typed
  <2> QED  BY <2>1, AnalyticsAssumption DEF AnalyticsAssumption
<1>5. Typed'
  <2>1. prune' \in [at : {"idle", "delete"}, days : SUBSET Days]
    BY <1>1 DEF deletable
  <2> QED  BY <1>0, <1>1, <2>1 DEF Typed
<1>6. SerialInv'
  BY <1>1, <1>2, <1>3, <1>4 DEF SerialInv, Clean
<1>7. \A d \in Days : Landed(d)' <=> Landed(d)
  BY <1>1 DEF Landed
<1>8. \A e \in Days : (RawInv(e) /\ DailyInv(e) /\ PagesInv(e))'
  BY <1>1, <1>7, DaysHold
<1>9. \A c \in Calls : CallInv(c)'
  BY <1>0, <1>1 DEF CallInv, Whole
<1>10. \A r \in Rollers : RollInv(r)'
  BY <1>1, <1>3 DEF RollInv, Rolling
<1> QED  BY <1>5, <1>6, <1>8, <1>9, <1>10 DEF CountInv

LEMMA DeleteKeeps ==
  ASSUME CountInv, delete
  PROVE  CountInv'
<1>0. /\ Typed /\ SerialInv /\ \A e \in Days : RawInv(e) /\ DailyInv(e) /\ PagesInv(e)
      /\ \A b \in Calls : CallInv(b)
      /\ \A r \in Rollers : RollInv(r)
  BY DEF CountInv
<1>1. /\ raw' \in Counts /\ prune' = Awake
      /\ \A d \in Days : raw'[d] = IF d \in prune.days THEN 0 ELSE raw[d]
      /\ UNCHANGED <<store, today, daily, pages, ingest, roll, accepted, torn>>
  BY <1>0 DEF delete, Typed, Counts
<1>2. store = "do" /\ prune.at = "delete"
  BY <1>0, StoresAre DEF SerialInv, delete
<1>3. /\ \A c \in Calls : ingest[c].at = "free" /\ ~ingest[c].owes
      /\ \A d \in prune.days : Clean(d) /\ d < today
      /\ \A r \in Rollers : roll[r].at = "still"
  BY <1>0, <1>2 DEF SerialInv, CallInv
<1>4. \A d \in Days : Landed(d) /\ Landed(d)'
  BY <1>1, <1>3 DEF Landed
<1>5. Typed'
  BY <1>0, <1>1 DEF Typed, Awake
<1>6. SerialInv'
  BY <1>0, <1>1, <1>2, <1>3 DEF SerialInv, Awake
<1>7. \A e \in Days : RawInv(e)'
  <2> SUFFICES ASSUME NEW e \in Days  PROVE RawInv(e)'
    OBVIOUS
  <2>1. CASE e \in prune.days
    BY <1>0, <1>1, <1>2, <1>3, <1>4, <2>1 DEF RawInv, PrunedWhole, DailyInv, Clean
  <2>2. CASE e \notin prune.days
    BY <1>0, <1>1, <2>2 DEF RawInv, Whole, PrunedWhole, Clean
  <2> QED  BY <2>1, <2>2
<1>8. \A e \in Days : (DailyInv(e) /\ PagesInv(e))'
  BY <1>0, <1>1, <1>4 DEF DailyInv, PagesInv, Settled, Clean
<1>9. \A c \in Calls : CallInv(c)'
  BY <1>1, <1>3 DEF CallInv
<1>10. \A r \in Rollers : RollInv(r)'
  BY <1>1, <1>3 DEF RollInv, Rolling
<1> QED  BY <1>5, <1>6, <1>7, <1>8, <1>9, <1>10 DEF CountInv

LEMMA MidnightKeeps ==
  ASSUME CountInv, midnight
  PROVE  CountInv'
<1>0. /\ Typed /\ SerialInv /\ \A e \in Days : RawInv(e) /\ DailyInv(e) /\ PagesInv(e)
      /\ \A b \in Calls : CallInv(b)
      /\ \A r \in Rollers : RollInv(r)
  BY DEF CountInv
<1>1. /\ today' = today + 1 /\ today \in Nat /\ today' \in Days
      /\ UNCHANGED <<store, raw, daily, pages, ingest, roll, prune, accepted, torn>>
  BY <1>0, AnalyticsAssumption DEF midnight, Typed, Days, AnalyticsAssumption
<1>2. \A d \in Days : d < today => d < today'
  BY <1>1 DEF Days
<1>3. \A d \in Days : Landed(d)' <=> Landed(d)
  BY <1>1 DEF Landed
<1>4. Typed'
  BY <1>0, <1>1 DEF Typed
<1>5. SerialInv'
  <2>1. prune.days \subseteq Days
    BY <1>0 DEF Typed
  <2> QED  BY <1>0, <1>1, <1>2, <2>1 DEF SerialInv, Clean
<1>6. \A e \in Days : (RawInv(e) /\ DailyInv(e) /\ PagesInv(e))'
  BY <1>0, <1>1, <1>2, <1>3 DEF RawInv, Whole, PrunedWhole, DailyInv, PagesInv, Settled, Clean
<1>7. \A c \in Calls : CallInv(c)'
  BY <1>0, <1>1 DEF CallInv, Whole
<1>8. \A r \in Rollers : RollInv(r)'
  <2>1. \A e \in Days : Flaggable(e) => Flaggable(e)'
    BY <1>1, <1>2 DEF Flaggable
  <2>2. \A e \in Days : (Whole(e) => Whole(e)') /\ (raw[e] > 0 => raw'[e] > 0)
    BY <1>1 DEF Whole
  <2>3. \A e \in Days : Landed(e)' => Landed(e) /\ accepted'[e] = accepted[e]
    BY <1>1, <1>3
  <2>4. UNCHANGED <<store, daily, roll>>
    BY <1>1
  <2>5. \A r \in Rollers : roll[r] \in Rollup
    BY <1>0 DEF Typed
  <2> SUFFICES ASSUME NEW r \in Rollers  PROVE RollInv(r)'
    OBVIOUS
  <2>6. RollInv(r) /\ roll[r] \in Rollup /\ roll'[r] = roll[r]
    BY <1>0, <2>4, <2>5
  <2> QED  BY <2>1, <2>2, <2>3, <2>4, <2>6, RollHolds
<1> QED  BY <1>4, <1>5, <1>6, <1>7, <1>8 DEF CountInv

-----------------------------------------------------------------------------

LEMMA CountStep ==
  ASSUME RollsInTurn, CountInv, [Next]_vars
  PROVE  CountInv'
<1>1. ASSUME NEW c \in Calls, NEW d \in Days, receive(c, d)  PROVE CountInv'
  BY <1>1, ReceiveKeeps
<1>2. ASSUME NEW c \in Calls, dropPrunedDays(c) \/ insert(c) \/ markLateDays(c) \/ redeliver(c)
      PROVE  CountInv'
  BY <1>2, DropKeeps, InsertKeeps, MarkKeeps, RedeliverKeeps
<1>3. ASSUME NEW r \in Rollers, NEW through \in Days, rollupPending(r, through)  PROVE CountInv'
  BY <1>3, StartKeeps
<1>4. ASSUME NEW r \in Rollers, \/ readTokens(r) \/ computeDays(r) \/ writeDaily(r)
                                \/ readPaths(r) \/ writePages(r) \/ rollDies(r)
      PROVE  CountInv'
  BY <1>4, TokensKeep, ComputeKeeps, WriteDailyKeeps, ReadPathsKeeps, WritePagesKeeps, RollDiesKeeps
<1>5. CASE pruneRawEvents \/ delete \/ midnight
  BY <1>5, PruneKeeps, DeleteKeeps, MidnightKeeps
<1>6. CASE UNCHANGED vars
  BY <1>6
  DEF vars, CountInv, Typed, SerialInv, RawInv, Whole, PrunedWhole, DailyInv, PagesInv, CallInv,
      RollInv, Flaggable, Settled, Clean, Landed
<1> QED  BY <1>1, <1>2, <1>3, <1>4, <1>5, <1>6 DEF Next

LEMMA CountsTellTheTruth ==
  ASSUME CountInv
  PROVE  DashboardIsTrue
<1>1. CountsAreTrue
  BY DEF CountInv, CountsAreTrue, RawInv, Whole, PrunedWhole, DailyInv, Counted
<1>2. TopPagesAreTrue
  <2> SUFFICES ASSUME \A r \in Rollers : roll[r].at = "still", NEW d \in Days \ torn, Landed(d)
               PROVE  TopPages(d) = accepted[d]
    BY DEF TopPagesAreTrue
  <2>1. Settled(d) /\ RawInv(d) /\ PagesInv(d)
    BY DEF CountInv, Settled
  <2> QED  BY <2>1 DEF RawInv, Whole, PrunedWhole, PagesInv, TopPages, Clean
<1> QED  BY <1>1, <1>2 DEF DashboardIsTrue

(* The dashboard's numbers are the events stored (metricsForRange,         *)
(* topPages): whatever arrives late, arrives while its day is rolled or is *)
(* delivered twice, and whatever the prune deletes. On D1 the deployment   *)
(* must keep its raw events, roll finished days only and one rollup at a   *)
(* time; a Durable Object serialises its handlers and needs none of that.  *)
THEOREM CountsSurvive ==
  ASSUME RollsInTurn
  PROVE  Spec => []DashboardIsTrue
<1>1. Init => CountInv
  BY InitCounts
<1>2. CountInv /\ [Next]_vars => CountInv'
  BY CountStep
<1>3. CountInv => DashboardIsTrue
  BY CountsTellTheTruth
<1> QED  BY <1>1, <1>2, <1>3, PTL DEF Spec
=============================================================================
