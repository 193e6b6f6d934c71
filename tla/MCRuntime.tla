----------------------------- MODULE MCRuntime ------------------------------
(***************************************************************************)
(* The components that keep a running app going, side by side: a behaviour *)
(* picks one, and the variables of the others stay as they are.            *)
(*   alarm   the wake-up of the Durable Object, for two tasks              *)
(*   boot    the boot that concurrent invocations share                    *)
(*   wire    the client, with two subscriptions, tokens and sockets        *)
(*   gate    live queries behind the input gate: the object hibernates and *)
(*           sessions lapse                                                *)
(*   awaits  live queries whose handlers and lookups leave the gate open:  *)
(*           lookups fail and sockets close in the middle of a frame       *)
(*   canvas  the editor's canvas                                           *)
(*   screen  the editor's route and forms, moved between two pages         *)
(*   schema  three deploys drawn from six schemas, two rows and a child    *)
(***************************************************************************)
EXTENDS SharedBoot, TLC

CONSTANTS
  Parts,                                        \* the components to pick from
  Tasks, NoTask, Delays, Losses, MaxCrash,      \* of DoAlarm
  x1, x2, x3,       \* names for the interchangeable: invocations, sockets, pages, rows
  y1, y2, y3,       \* and for subscriptions and queries
  Subs, Tokens, NoToken, NoSocket,              \* of Client
  NoListener, NoQuery,                          \* of LiveQueries
  CanvasInFlight,                               \* of PageCanvas
  NoPage,                                       \* of PageScreen
  SchemaStore, Off                              \* of SchemaMigration

VARIABLES
  part,
  task, alarm, drain, unarmed, late, overtaken, crashes,
  me, socket, calls, used, bad, told, down, chosen, sets,
  data, peer, sub, client, lapsed, job, arrived,
  stored, fields, saved, timer, saving, requests, answers, reordered, refused, unsure,
  assembled, approval, published,
  store, url, getting, page, reloads, seen, form, tab, panel, terms, writes,
  inputs, crossed,
  schema, gate, hash, db, before, pc, skipped, skip, deploys

alarmVars == <<task, alarm, drain, unarmed, late, overtaken, crashes>>
wireVars == <<me, socket, calls, used, bad, told, down, chosen, sets>>
canvasVars == <<stored, fields, saved, timer, saving, requests, answers, reordered,
                refused, unsure, assembled, approval, published>>
liveVars == <<data, peer, sub, client, lapsed, job, arrived>>
screenVars == <<store, url, getting, page, reloads, seen, form, tab, panel, terms,
                writes, inputs, crossed>>
schemaVars == <<schema, gate, hash, db, before, pc, skipped, skip, deploys>>
appVars == <<part, alarmVars, vars, wireVars, liveVars, canvasVars, screenVars,
             schemaVars>>

Alarm == INSTANCE DoAlarm WITH
  Ids <- Tasks, NoId <- NoTask, MAX_ATTEMPTS <- 2, STALE_MS <- 2,
  BackoffUnit <- 1, BackoffCap <- 1, Limit <- 1, ARM_DELAY <- 1, REARM_FLOOR <- 2
Wire == INSTANCE Client WITH Ids <- Subs, Sockets <- {x1, x2}, MaxAttempts <- 2, MaxSets <- 1
Gate == INSTANCE LiveQueries WITH
  socket <- peer, NoSocket <- NoListener, NoId <- NoQuery,
  Tables <- {"a"}, Sockets <- {x1, x2}, Ids <- {y1, y2, y3}, Branching <- {},
  MAX_SUBSCRIPTIONS <- 2, Lookups <- FALSE, SlowQueries <- FALSE,
  LookupsFail <- FALSE, Drops <- FALSE, Lapses <- {"expired", "revoked"},
  Hibernates <- TRUE, MaxJobs <- 5
Awaits == INSTANCE LiveQueries WITH
  socket <- peer, NoSocket <- NoListener, NoId <- NoQuery,
  Tables <- {"a"}, Sockets <- {x1, x2}, Ids <- {y1, y2}, Branching <- {},
  MAX_SUBSCRIPTIONS <- 1, Lookups <- TRUE, SlowQueries <- TRUE,
  LookupsFail <- TRUE, Drops <- TRUE, Lapses <- {"expired", "revoked"},
  Hibernates <- FALSE, MaxJobs <- 3
Canvas == INSTANCE PageCanvas WITH
  Values <- {1, 2}, Kind <- "page", MaxInFlight <- CanvasInFlight
Screen == INSTANCE PageScreen WITH
  assembled <- seen, calls <- writes, Pages <- {x1, x2}, None <- NoPage, MaxInputs <- 4

Column(type, notNull, default) == [type |-> type, notNull |-> notNull, default |-> default]
Text == Column("text", FALSE, "none")
NoColumn == Column("none", FALSE, "none")
Table(a, b, from, uniq, fk) ==
  [cols |-> [a |-> a, b |-> b], from |-> [a |-> "none", b |-> from],
   uniq |-> uniq, child |-> fk # "absent", fk |-> IF fk = "absent" THEN "none" ELSE fk]
MCSchemas ==
  { Table(Text, NoColumn, "none", {}, "none"),
    Table(Text, Column("text", TRUE, "literal"), "none", {{"a"}}, "cascade"),
    Table(NoColumn, Text, "a", {{"b"}}, "setNull"),
    Table(Column("int", FALSE, "none"), Column("text", FALSE, "expr"), "none", {{"a", "b"}}, "restrict"),
    Table(Column("text", TRUE, "literal"), NoColumn, "none", {{"a"}}, "absent"),
    Table(Column("text", TRUE, "none"), NoColumn, "none", {}, "cascade") }
Schema == INSTANCE SchemaMigration WITH
  Store <- SchemaStore, Schemas <- MCSchemas,
  Rows <- {x1, x2}, Kids <- {1}, Values <- {1, 2}, MaxDeploys <- 2

ASSUME ComponentAssumptions ==
  /\ Alarm!DoAlarmAssumption
  /\ Wire!ClientAssumption
  /\ Screen!PageScreenAssumption
  /\ Gate!LiveQueriesAssumption
  /\ Awaits!LiveQueriesAssumption

MCDelays == {0, 3}    \* due now, and well after a re-arm
MCLosses == {"crash", "socket", "subscribe"}

----------------------------------------------------------------------------

schemaOff == /\ schema = Off /\ gate = Off /\ hash = Off /\ db = Off /\ before = Off /\ pc = Off
             /\ skipped = Off /\ skip = Off /\ deploys = Off

AppInit ==
  /\ part \in Parts
  /\ Alarm!Init
  /\ Init
  /\ Wire!Init
  /\ IF part = "awaits" THEN Awaits!Init ELSE Gate!Init
  /\ Canvas!Init
  /\ Screen!Init
  /\ part # "wire" => me.token = NoToken
  /\ part # "canvas" => stored = 1
  /\ IF part = "schema" THEN Schema!Init ELSE schemaOff

inAlarm ==
  part = "alarm" /\ UNCHANGED <<part, vars, wireVars, liveVars, canvasVars, screenVars, schemaVars>>
inBoot ==
  part = "boot" /\ UNCHANGED <<part, alarmVars, wireVars, liveVars, canvasVars, screenVars, schemaVars>>
inWire ==
  part = "wire" /\ UNCHANGED <<part, alarmVars, vars, liveVars, canvasVars, screenVars, schemaVars>>
inLive ==
  part \in {"gate", "awaits"} /\ UNCHANGED <<part, alarmVars, vars, wireVars, canvasVars, screenVars, schemaVars>>
inCanvas ==
  part = "canvas" /\ UNCHANGED <<part, alarmVars, vars, wireVars, liveVars, screenVars, schemaVars>>
inScreen ==
  part = "screen" /\ UNCHANGED <<part, alarmVars, vars, wireVars, liveVars, canvasVars, schemaVars>>
inSchema ==
  part = "schema" /\ UNCHANGED <<part, alarmVars, vars, wireVars, liveVars, canvasVars, screenVars>>

AppNext ==
  \/ inAlarm /\ Alarm!Next
  \/ inBoot /\ Next
  \/ inWire /\ Wire!Next
  \/ inLive /\ part = "gate" /\ Gate!Next
  \/ inLive /\ part = "awaits" /\ Awaits!Next
  \/ inCanvas /\ Canvas!Next
  \/ inScreen /\ Screen!Next
  \/ inSchema /\ Schema!Next

(* One name may stand for a row in one part and for a socket in another:   *)
(* no behaviour has both.                                                  *)
Symmetry == Permutations({x1, x2}) \union Permutations({y1, y2})

AppSpec == AppInit /\ [][AppNext]_appVars

(***************************************************************************)
(* What the components' own Fairness states.  A behaviour stays in its     *)
(* part, so one condition may speak for an action of each.                 *)
(***************************************************************************)
fair1 ==
  \/ inAlarm /\ Alarm!tick
  \/ inBoot /\ tick
  \/ inWire /\ Wire!retryFires
  \/ inCanvas /\ Canvas!fire
fair2 ==
  \/ inAlarm /\ Alarm!fireAlarm
  \/ inBoot /\ proceeds(x1)
  \/ inWire /\ Wire!settles(x1)
  \/ inCanvas /\ (Canvas!serve \/ Canvas!fail)
fair3 ==
  \/ inAlarm /\ Alarm!proceeds("alarm")
  \/ inBoot /\ proceeds(x2)
  \/ inWire /\ Wire!settles(x2)
  \/ inCanvas /\ Canvas!answered
fair4 ==
  \/ inAlarm /\ Alarm!proceeds("route")
  \/ inBoot /\ x3 \in Invocations /\ proceeds(x3)

AppFairness ==
  /\ WF_appVars(fair1) /\ WF_appVars(fair2)
  /\ WF_appVars(fair3) /\ WF_appVars(fair4)
FairAppSpec == AppSpec /\ AppFairness

----------------------------------------------------------------------------
(* An alarm covers the first moment a task needs a drain, apart from the   *)
(* named exceptions, and a request never pushes it back.                   *)
AlarmCoversWork == []Alarm!WakeCovered /\ Alarm!EnqueueNeverDelays

(* The frames a socket carried are the subscriptions its holder has, and   *)
(* whoever has one is connected, connecting, waiting for a retry or told.  *)
ConnectionIsHeld == Wire!WireMatches /\ Wire!NobodyStranded

(* Behind the input gate the object's lists are what the clients hold, and *)
(* quiet clients have the current results; with the gate open the digests  *)
(* are those of the last results sent, so no push that is due is skipped.  *)
SubscriptionsAreServed ==
  /\ part = "gate" => Gate!HeldIsKnown /\ Gate!FreshWhenQuiet
  /\ part = "awaits" => Awaits!DigestIsLastSent

(* No job that came in after a session lapsed hands it data.               *)
NoDataAfterLapse == [][part = "awaits" => ~Awaits!DataAfterLapse]_appVars

(* A canvas at rest shows what is stored, unless an older save's answer    *)
(* was the last it was shown; what is approved is what the approver was    *)
(* shown; and no form saves one page's content onto another before its     *)
(* screen was moved between the two.                                       *)
CanvasIsTrue ==
  /\ Canvas!QuietIsStored /\ Canvas!ApprovesWhatWasShown
  /\ Screen!FormsStayOnTheirPage

(* A migration takes no stored value away that the deploy did not allow,   *)
(* in whichever statement it stops, and records a schema only when nothing *)
(* of it was skipped.                                                      *)
MigrationIsSafe ==
  [][part = "schema" => Schema!LosesAllowed /\ Schema!Records]_schemaVars

(* Every task settles by alarms alone, and no invocation waits for a boot  *)
(* that is dead.                                                           *)
WorkGetsDone == Alarm!EverythingSettles /\ NobodyWedged

(* Every subscriber is connected or told in the end, and every edit made   *)
(* in the canvas is stored in the end or refused.                          *)
UsersAreHeard == Wire!EverySubscriberHears /\ Canvas!EditsAreSaved
=============================================================================
