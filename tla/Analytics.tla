----------------------------- MODULE Analytics -----------------------------
(* The analytics store (packages/analytics/src): raw events, one aggregate  *)
(* row per day, one row per day and path, and the three jobs that touch     *)
(* them: ingest, the rollup and the prune. On a Durable Object each runs    *)
(* alone; on D1 every statement may interleave with another isolate's. One  *)
(* path stands for all, and an aggregate is its number of pageviews.        *)
EXTENDS Integers, FiniteSets, FiniteSetsExt

CONSTANTS MaxDay,      \* the last day, counted from 0
          MaxEvents,   \* most events ever stored (bound)
          Calls,       \* ingest calls that may be in flight together
          Rollers,     \* rollups that may be in flight together
          Stores,      \* where the tables may live: subset of {"do", "d1"}
          Pruned,      \* the stores whose deployment sets keepDays
          RolledEarly, \* the stores whose admins roll the unfinished day
          KeepDays,    \* days a raw event is kept, scaled down
          Deaths       \* who may die between two statements on D1

VARIABLES
    store,
    today,
    raw,       \* day -> rows of analytics_events
    daily,     \* day -> the row of analytics_daily
    pages,     \* day -> pageviews in analytics_pages, None when no row
    ingest,    \* call -> where runIngest stands, and whether it owes a flag
    roll,      \* roller -> where rollupPending stands
    prune,     \* where pruneRawEvents stands
    accepted,  \* history: day -> events ever stored
    torn       \* history: days whose last rollup died before their paths

ASSUME AnalyticsAssumption ==
    /\ MaxDay \in Nat /\ MaxEvents \in Nat /\ KeepDays \in Nat
    /\ Stores \subseteq {"do", "d1"}

vars == <<store, today, raw, daily, pages, ingest, roll, prune, accepted, torn>>

Days == 0 .. MaxDay
None == -1
NoRow == [there |-> FALSE, dirty |-> FALSE, token |-> 0, n |-> 0]
Free == [at |-> "free", day |-> 0, owes |-> FALSE]

Still == [at |-> "still", days |-> {}, seen |-> [d \in Days |-> 0],
          m |-> [d \in Days |-> 0], day |-> 0, n |-> 0]

Awake == [at |-> "idle", days |-> {}]

Stored == MapThenSumSet(LAMBDA d : accepted[d], Days)
Clean(d) == daily[d].there /\ ~daily[d].dirty

Newest == IF \E d \in Days : Clean(d)
          THEN CHOOSE d \in Days : Clean(d) /\ \A e \in Days : Clean(e) => e <= d
          ELSE None

Init ==
    /\ store \in Stores /\ today = 0
    /\ raw = [d \in Days |-> 0] /\ accepted = [d \in Days |-> 0]
    /\ daily = [d \in Days |-> NoRow] /\ pages = [d \in Days |-> None]
    /\ ingest = [c \in Calls |-> Free] /\ roll = [r \in Rollers |-> Still]
    /\ prune = Awake /\ torn = {}

\* A handler starts: on a Durable Object only while no other one runs.
Alone == store = "do" => /\ \A c \in Calls : ingest[c].at \in {"free", "again"}
                         /\ \A r \in Rollers : roll[r].at = "still"
                         /\ prune.at = "idle"

-----------------------------------------------------------------------------
(* ingestEvents: dropPrunedDays' two reads, the insert, markLateDays. *)

receive(c, d) ==
    /\ Alone /\ d <= today /\ Stored < MaxEvents
    /\ \/ ingest[c].at = "free"
       \/ ingest[c].at = "again" /\ ingest[c].day = d
    /\ ingest' = [ingest EXCEPT ![c].day = d,
           ![c].at = IF d < today /\ Clean(d) THEN "rolled" ELSE "admitted"]
    /\ UNCHANGED <<store, today, raw, daily, pages, roll, prune, accepted, torn>>

admitAll(d) == TRUE
stillRaw(d) == raw[d] > 0

dropPrunedDays(c) ==
    /\ ingest[c].at = "rolled"
    /\ ingest' = [ingest EXCEPT ![c] = IF stillRaw(@.day) THEN [@ EXCEPT !.at = "admitted"] ELSE Free]
    /\ UNCHANGED <<store, today, raw, daily, pages, roll, prune, accepted, torn>>

insert(c) ==
    LET d == ingest[c].day IN
    /\ ingest[c].at = "admitted"
    /\ Stored < MaxEvents
    /\ raw' = [raw EXCEPT ![d] = @ + 1]
    /\ accepted' = [accepted EXCEPT ![d] = @ + 1]
    /\ ingest' = [ingest EXCEPT ![c] = [at |-> "stored", day |-> d, owes |-> TRUE]]
    /\ UNCHANGED <<store, today, daily, pages, roll, prune, torn>>

\* The row markLateDays leaves: today's only when it exists, a past day's always.
flaggedPastOnly(d) ==
    IF d < today THEN [there |-> TRUE, dirty |-> TRUE, token |-> daily[d].token + 1, n |-> daily[d].n]
    ELSE daily[d]

flagged(d) ==
    IF d < today \/ daily[d].there
    THEN [there |-> TRUE, dirty |-> TRUE, token |-> daily[d].token + 1, n |-> daily[d].n]
    ELSE daily[d]

markLateDays(c) ==
    LET d == ingest[c].day IN
    /\ ingest[c].at = "stored"
    /\ daily' = [daily EXCEPT ![d] = flagged(d)]
    /\ ingest' = [ingest EXCEPT ![c] = Free]
    /\ UNCHANGED <<store, today, raw, pages, roll, prune, accepted, torn>>

\* The isolate dies after the insert; the queue delivers the batch again.
redeliver(c) ==
    /\ "ingest" \in Deaths /\ store = "d1"
    /\ ingest[c].at = "stored" /\ Stored < MaxEvents
    /\ ingest' = [ingest EXCEPT ![c].at = "again"]
    /\ UNCHANGED <<store, today, raw, daily, pages, roll, prune, accepted, torn>>

-----------------------------------------------------------------------------
(* rollupPending: pendingDays, the tokens, computeDays, then day by day.    *)

\* The unrolled tail, and the flagged days that still have their rows.
pendingDays(through) ==
    {d \in 0 .. through : raw[d] > 0 /\ (Newest = None \/ d > Newest \/ daily[d].dirty)}

rollupPending(r, through) ==
    /\ Alone /\ roll[r].at = "still"
    /\ \/ through = today /\ store \in RolledEarly
       \/ through = today - 1 /\ today > 0
    /\ pendingDays(through) # {}
    /\ roll' = [roll EXCEPT ![r] = [Still EXCEPT !.at = "tokens", !.days = pendingDays(through)]]
    /\ UNCHANGED <<store, today, raw, daily, pages, ingest, prune, accepted, torn>>

readTokens(r) ==
    /\ roll[r].at = "tokens"
    /\ roll' = [roll EXCEPT ![r] = [@ EXCEPT !.at = "compute",
                    !.seen = [d \in Days |-> IF d \in roll[r].days THEN daily[d].token ELSE 0]]]
    /\ UNCHANGED <<store, today, raw, daily, pages, ingest, prune, accepted, torn>>

computeDays(r) ==
    /\ roll[r].at = "compute"
    /\ roll' = [roll EXCEPT ![r] = [@ EXCEPT !.at = "next",
                    !.m = [d \in Days |-> IF d \in roll[r].days THEN raw[d] ELSE 0]]]
    /\ UNCHANGED <<store, today, raw, daily, pages, ingest, prune, accepted, torn>>

Oldest(S) == {d \in S : \A e \in S : d <= e}

\* The upsert of a day's row: unflagged only while its token is the one seen.
upsertedBlind(d, seen, m) == [daily[d] EXCEPT !.there = TRUE, !.dirty = FALSE, !.n = m]

upserted(d, seen, m) ==
    [daily[d] EXCEPT !.there = TRUE, !.n = m,
                     !.dirty = IF daily[d].token = seen THEN FALSE ELSE @]

writeDaily(r) ==
    /\ roll[r].at = "next"
    /\ \E d \in Oldest(roll[r].days) :
         /\ daily' = [daily EXCEPT ![d] = upserted(d, roll[r].seen[d], roll[r].m[d])]
         /\ roll' = [roll EXCEPT ![r] = [at |-> "paths", day |-> d, days |-> @.days \ {d}, n |-> @.n,
                        seen |-> [@.seen EXCEPT ![d] = 0], m |-> [@.m EXCEPT ![d] = 0]]]
    /\ UNCHANGED <<store, today, raw, pages, ingest, prune, accepted, torn>>

perPath(r) == raw[roll[r].day]

readPaths(r) ==
    /\ roll[r].at = "paths"
    /\ roll' = [roll EXCEPT ![r] = [@ EXCEPT !.at = "write", !.n = perPath(r)]]
    /\ UNCHANGED <<store, today, raw, daily, pages, ingest, prune, accepted, torn>>

writePages(r) ==
    LET left == [roll[r] EXCEPT !.at = "next"] IN
    /\ roll[r].at = "write"
    /\ pages' = IF roll[r].n = 0 THEN pages ELSE [pages EXCEPT ![roll[r].day] = roll[r].n]
    /\ roll' = [roll EXCEPT ![r] = IF left.days = {} THEN Still ELSE left]
    /\ torn' = torn \ {roll[r].day}
    /\ UNCHANGED <<store, today, raw, daily, ingest, prune, accepted>>

rollDies(r) ==
    /\ "roll" \in Deaths /\ store = "d1" /\ roll[r].at # "still"
    /\ roll' = [roll EXCEPT ![r] = Still]
    /\ torn' = IF roll[r].at \in {"paths", "write"} THEN torn \union {roll[r].day} ELSE torn
    /\ UNCHANGED <<store, today, raw, daily, pages, ingest, prune, accepted>>

-----------------------------------------------------------------------------
(* pruneRawEvents: the stale days that are rolled and clean, then the delete. *)

deletableAll == {d \in Days : d + KeepDays < today /\ raw[d] > 0}
deletable == {d \in Days : d + KeepDays < today /\ raw[d] > 0 /\ Clean(d)}

pruneRawEvents ==
    /\ Alone /\ store \in Pruned /\ prune.at = "idle" /\ deletable # {}
    /\ prune' = [at |-> "delete", days |-> deletable]
    /\ UNCHANGED <<store, today, raw, daily, pages, ingest, roll, accepted, torn>>

delete ==
    /\ prune.at = "delete"
    /\ raw' = [d \in Days |-> IF d \in prune.days THEN 0 ELSE raw[d]]
    /\ prune' = Awake
    /\ UNCHANGED <<store, today, daily, pages, ingest, roll, accepted, torn>>

midnight ==
    /\ today < MaxDay
    /\ today' = today + 1
    /\ UNCHANGED <<store, raw, daily, pages, ingest, roll, prune, accepted, torn>>

Next ==
    \/ \E c \in Calls, d \in Days : receive(c, d)
    \/ \E c \in Calls : dropPrunedDays(c) \/ insert(c) \/ markLateDays(c) \/ redeliver(c)
    \/ \E r \in Rollers, through \in Days : rollupPending(r, through)
    \/ \E r \in Rollers : \/ readTokens(r) \/ computeDays(r) \/ writeDaily(r)
                          \/ readPaths(r) \/ writePages(r) \/ rollDies(r)
    \/ pruneRawEvents \/ delete \/ midnight

Spec == Init /\ [][Next]_vars

-----------------------------------------------------------------------------
\* What metricsForRange and topPages answer for a day.
Counted(d) == IF Clean(d) THEN daily[d].n ELSE raw[d]
TopPages(d) == IF pages[d] # None /\ ~daily[d].dirty THEN pages[d] ELSE raw[d]
Landed(d) == \A c \in Calls : ~(ingest[c].day = d /\ ingest[c].owes)

\* The dashboard's count of a day is the number of events ever stored for it
\* (queries.ts), whichever of the aggregate and the raw rows answers, once no
\* ingest is between its insert and its flag: late events, events that land
\* while the day is rolled, and pruned days included.
CountsAreTrue == \A d \in Days : Landed(d) => Counted(d) = accepted[d]

\* The same for the top pages, between two rollups (queries.ts, topPages). A
\* rollup that dies between a day's aggregate and its paths leaves the day
\* clean with last time's paths, and nothing rolls it again: such days are
\* excepted until an event flags them.
TopPagesAreTrue ==
    (\A r \in Rollers : roll[r].at = "still") =>
        \A d \in Days \ torn : Landed(d) => TopPages(d) = accepted[d]

DashboardIsTrue == CountsAreTrue /\ TopPagesAreTrue
=============================================================================
