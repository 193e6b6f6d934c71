# Pramen in TLA+

Pramen is a reactive backend for Cloudflare Workers: an app declares a schema, an
access policy and handlers; the server keeps the data in one SQLite-backed Durable
Object per tenant and partition (or in D1), runs the handlers, pushes live query
results over WebSockets and runs deferred tasks from a transactional outbox. A CMS
with its editor, an auth package and an analytics package are built on it. This
directory holds TLA+ modules of that system, the TLC configurations that check them on
small instances, and theorems that TLAPS checks for every instance.

Paths below are relative to `src/packages/`. `PROJECT.json` gives, for every main
definition, the lines it models (`map`), every hazard with the properties about it, and
for every property of a run a plausible bug that breaks it (`mutants`).

- [Inventory](#inventory) — [Modules](#modules) — [Runs](#runs) — [Bounds](#bounds) —
  [Fairness](#fairness) — [Proofs](#proofs) — [Findings](#findings) —
  [Observations](#observations) — [Not modelled](#not-modelled) — [Plan](#plan)

## Inventory

| component | state it keeps | what is hard | what makes it correct |
|---|---|---|---|
| **Outbox** `server/src/runtime/outbox.ts` | table `_pramen_outbox` | on D1 any number of drainers interleave statement by statement; crashes between an effect and its record; a claim that goes stale under a live drainer | at-least-once delivery, one row per key, no early dead letter |
| **Durable Object wake-up** `server/src/durable-object.ts` | the storage alarm, the tenant's outbox | the alarm is no part of the transaction; a drain re-arms from what it read before it awaited | every due task eventually runs |
| **Live queries** `server/src/durable-object.ts` | subscriptions per socket, attachments | lookups and handlers await, so frames, writes and broadcasts interleave; hibernation loses the lists | clients hold current results, and none after their session |
| **Data migrations** `server/src/runtime/data-migrations.ts` | ledger with leases | leases expire under a live holder; isolates die | applied once, in order, after it was done |
| **Shared boot** `server/src/runtime/boot.ts` | the boot an isolate's invocations share | an invocation that is cut off leaves a promise that never settles | nobody is served before a boot completed, nobody waits on a dead one |
| **Client** `client/src/index.ts` | socket, subscriptions, timers, token, bookmark | events of an old socket arrive after a new one is open | one socket carries every subscription |
| **Worker and dispatch** `server/src/worker.ts`, `auth.ts`, `runtime/dispatch.ts`, `registry.ts` | bookmarks, tenant registry | D1 replicas lag; answers overtake one another; a DO trusts headers of the Worker | a request acts in its tenant, as its caller, on what it has seen |
| **Schema migration** `server/src/runtime/migrate.ts`, `schema-diff.ts`, `ddl.ts` | table layout, recorded hash | a rebuild that stops half way; cascades | no stored value is lost that the deploy did not allow |
| **Data access** `server/src/runtime/db.ts`, `acl.ts`, `read-engine.ts` | rows | merged policies, statements of others in between, cursors while rows change | a caller sees and writes what its policies grant |
| **Storage and signed urls** `server/src/runtime/storage.ts`, `token.ts` | objects (external) | objects replaced between head and body | one version, the right range |
| **CMS** `cms/src/index.ts` | pages, revisions, blocks, types, terms, menus, media, collections | tasks late, twice, out of order; concurrent editors; boots of two deployments | what is shown is what was let out |
| **Auth** `auth/src/index.ts`, `oidc.ts` | users, one-time tokens, KV marks | two stores written one after the other; mail delivered twice; two browsers | links work once, sessions end with what they rest on, accounts are their owners' |
| **Analytics** `analytics/src/` | events, daily and page aggregates | late events against roll-up and prune | a closed day counts what was stored |
| **Editor** `cms-editor/src/` | forms of a browser | saves under way, answers late, screens moved | what is stored is what was typed, where it was typed |

A request enters the Worker, which authenticates it and sends it to the tenant's object
or to D1. `dispatch` runs the handler with a `Db` bound to the caller's policies; a
mutation may enqueue tasks through the same driver. After the commit the object arms its
alarm and broadcasts the touched tables to its sockets. The alarm, the cron trigger,
request tails on D1 and the admin route run `drainOutbox`, whose handlers write again:
the CMS publishes and takes down by delayed tasks, auth mails its links, analytics rolls
up. Account changes reach the Worker and the sockets through KV.

## Modules

An operator has the name of the function or method it models where there is one; one
marked "a mutant" is a plausible wrong version of the definition after it and is used
nowhere in the specification. Handlers of a Durable Object are atomic where the code
awaits nothing outside of it; on D1 every statement is an action.

**Server**

- `Outbox`: the table, `enqueueTask` (new row, new key, replaced dead letter or nothing)
  and a pass of `drainOutbox`: `begin`, `prune`, `claim`, per row `stamp`,
  `handlerReturns` or `handlerThrows`, `recordDone` or `recordFailure`, `finish`;
  `doneWriteFails`, `crash`. `ran`, `delivered`, `disturbed` are history. Environment:
  `HoldMax` bounds how long a live pass lasts, `RunMax` one handler; `SlowDb`, `Faulty`.
- `TaskDelivery`: what the outbox promises of one task — owed until delivered or dead,
  effects only while owed. `Outbox` implements it (`ImplementsDelivery`).
- `DoAlarm`: arming by requests, frames and admin writes, the alarm handler and the drain
  route with their awaits, the death of the object; all times relative to now.
- `LiveQueries`: sockets, frames in per-socket order, subscriptions, broadcasts, lookups,
  hibernation. A result is the table versions it read.
- `DataMigrations`: the ledger and each isolate's run, one action per statement.
- `SharedBoot`: the memo, each invocation's boot, waiters and their timer, invocations
  cut off with or without `waitUntil`.
- `Client`: the variables of `createClient`, socket objects, timers, late close events.
- `Requests`: the fetch handler's choice of store, tenant, partition and caller, tokens,
  what the object or D1 makes of it, sessions with D1 and their bookmarks, the tenant
  registry.
- `SchemaMigration`: `migrate()` over one table, its child and its unique indexes.
- `RowWrites`: policies compiled to predicates, reads and writes of one row under them
  with other writers in between. `DbReads`: keyset walks while rows change, and reads
  across relations.
- `Files`: signed urls, uploads, downloads, ranges of an object that is replaced.

**CMS and its editor**

- `PageWorkflow`: a page, its revisions, schedules and the `cms:publish`/`cms:unpublish`
  tasks, which arrive late, twice, in any order and die half way.
- `PageContent` (slugs, locales, groups and versions under concurrent editors),
  `PageBlocks` (blocks and placements), `BlockFields` (schemas and values of fields, old
  formats included), `PageReads` (what each read hands to whom), `PreviewLinks`.
- `TypeRegistry`: reconciling code-declared block types at boot, on isolates of several
  deployments, beside editors.
- `Collections` (the publish workflow of a row) and `CollectionRegistry` (what boot
  accepts of a registry, and every handler of an accepted one).
- `MediaLibrary`, `Taxonomies`, `SiteFurniture` (menus, widget areas and the screens that
  edit them), `Redirects`.
- `PageCanvas` (one autosaved form and the approval of what is shown) and `PageScreen`
  (the route and the forms it keeps mounted, moved between pages).

**Auth and analytics**

- `AuthLinks` (magic link, reset, verification: request, task, mail, redemption),
  `AuthSessions` (account changes, the KV denylist and marks, sessions), `Accounts`
  (every door into an account), `Oidc` (the sign-in of two browsers).
- `Analytics`: ingest, late days, roll-up, prune and the dashboard's reads.

**Composition for TLC.** `MCRuntime`, `MCCms`, `MCSite`, `MCAuth`, `MCData` and `MCEdges`
put components side by side: a behaviour picks one in `part`, and the variables of the
others stay as they are, so a run's states are the sum and not the product of its parts'.
Each EXTENDS one component and takes the others with `INSTANCE … WITH`, which gives them
their small constants; its properties are the components' for the part they belong to.
Nothing couples the parts of a run. Where components do interact, the interaction is in a
module: tasks in `PageWorkflow`, `Collections`, `AuthLinks` and `DoAlarm` are delivered as
`TaskDelivery` promises (at least once, late, in any order); revocation marks are in
`AuthSessions`, `PreviewLinks` and `LiveQueries`; the editor's modules hold both ends.

**Proof modules.** `OutboxProofs`, `DataMigrationsProofs` and `AnalyticsProofs` extend
their component; `SiteProofs` extends `MCSite`, and speaks of `TypeRegistry` and of its
instances `Moved` (`Redirects`), `Terms` (`Taxonomies`), `Furniture` (`SiteFurniture`) and
`Reads` (`DbReads`); `AuthProofs` extends `MCAuth`, and speaks of
`AuthSessions` and of its instances `Oidc`, `Links` and `Accounts`, whose parameters are
`MCAuth`'s CONSTANTS; in the same way `CmsProofs` extends `MCCms` (`PageWorkflow` and the
instances `Coll`, `Content` and `Blocks`), `EdgesProofs` extends `MCEdges` (`Requests` and
the instances `Files`, `Media`, `Reads`, `Previews` and `Registry`) and `RuntimeProofs` extends
`MCRuntime` (`SharedBoot` and the instances `Alarm`, `Gate`, `Awaits`, `Wire`, `Canvas`,
`Screen` and `Schema`). What an instance fixes, a theorem about it fixes too; the sections
below say where that is more than a name.

## Runs

| run | asks | distinct states |
|---|---|---|
| `outbox_prompt` | passes shorter than `STALE_MS`, with crashes, failed writes and slow statements: no row in two hands, success once unless disturbed, `TaskDelivery` implemented | 405,450 |
| `outbox_slow` | passes that outlive their claims: keys name one row, no task is lost, none dead-lettered without its attempts | 787,090 |
| `migrate` | two isolates on D1 or one object: records true and final, entries in order and once, all applied in the end | 837,956 |
| `runtime` | the alarm covers the work; nobody is served unbooted; subscriptions, sockets and pushes agree and end with the session; canvas and forms are true; a migration loses nothing | 1,347,600 |
| `progress` | with fairness: every task settles, no waiter is wedged, every subscriber hears, every edit is saved or refused | 46,552 |
| `cms` | licensed publication, schedules, collection rows, page identity, blocks and placements | 1,229,168 |
| `site` | terms, menus and areas, redirects, reconciled types; keyset walks and reads across relations | 1,411,602 |
| `auth` | links, sessions, sign-ins, accounts | 2,405,853 |
| `data` | policies, dashboard, field schemas and values | 268,178 |
| `edges` | requests, files and media, reads and previews, collection registries | 1,318,021 |
| `outbox_tail` | violated: `OnceUnlessDisturbed` when a batch outlasts its claims | – |
| `screen` | violated: `FieldsStayOnTheirPage` | – |

`CHECK_DEADLOCK FALSE` is set where behaviours end by a bound: clocks, ids, jobs, edits.
The environment assumptions of the parts are named at their constants and in the header of
their modules (an owner follows only verification links they asked for; signatures are not
forged; a client uses a subscription id once).

## Bounds

- Outbox: two drainers and two ids are the smallest instance in which a claim is stolen
  and a key contended; two attempts reach the retry and the dead letter; the clock passes
  `STALE_MS`. `outbox_tail` needs a third id, as the stolen row is behind another.
- DoAlarm: `Limit` 1 with two tasks makes batches overflow; delays 0 and 3 are before and
  after the floor 2; one death. LiveQueries: two sockets, five jobs behind the input gate
  and three with awaits — a frame, a broadcast and a second write inside each other's
  awaits; the cap of subscriptions is met. SharedBoot: a starter and two watchers, one
  without `waitUntil`. Client: a current socket and one that closes, one `setToken`, two
  retries. Schema: three deploys out of six schemas, so that a rebuild meets an unfinished
  one. Canvas: two saves under way that overtake one another, in both directions.
- DataMigrations: two runners, two entries, a lease that can end at any statement, a wait
  shorter than it, two faults: a fault and a failed release.
- CMS: two schedules over three instants let an older task meet a newer plan; three
  revisions hold a published, a scheduled and a draft one; two contents and one that may
  not be published. Three pages over two slugs and locales contend for one slug.
- Site: two isolates of two deployments, the second changing one definition and dropping
  another; two redirects over every way to type two paths; trees of depth two. Reads: three
  rows with NULL among their values, six orders, two edits during a walk; two parents and a
  target, one column of one row changing at a time.
- Auth: six instants cover expiry of a link, of a session and of a mark. `Store = "do"`
  with one call, as the object runs them, whose commit may fail after its KV write; on D1
  see the observations. Of the sign-ins the action constraint `StepsOfInterest` leaves out
  orders that reach nothing new: a first attempt that is silent, a load without its cookie
  before the other loads are over, and what starts or expires when no load is left to see
  it. The theorem speaks of all of `AuthSpec`.
- Data: every pair of write policies of the pool, and each with one that checks values,
  under a read policy each; three events over three days with a prune that keeps one; two
  values and one old format per kind of field.
- Edges: five deployments and eight tokens are one per kind of store, key and claim; three
  writes and two calls in flight let bookmarks cross; an object of three bytes, stored
  three times, the last time between the two reads of a range that was refused.
  Registries: twelve that boot accepts, six of them over a NOT NULL column of the app's own,
  and 31 that it refuses.

The theorems below do without these bounds.

## Fairness

Only `migrate` and `progress` use it. `DataMigrations`: an isolate's run goes on, time
passes and requests keep coming. In `progress` one condition speaks for an action of each
part (`fair1` to `fair4`; a behaviour stays in its part): time passes, a due alarm is
delivered (the platform retries it) and a handler ends; a boot goes on while its
invocation lives and timers fire; a socket that opens or closes gets there; the browser's
debounce fires and a request is answered or fails. Requests, users, failures, deaths,
servers that accept, and the admin route are not fair.
`EverythingSettles` supposes that the object is again and again in a state with no enqueue
whose arming was lost: the code has no wake-up for such a row but the next request.

## Proofs

TLAPS proves these for all constants that the modules' `ASSUME`s allow: any number of
drainers, isolates, pages, users, slugs, rows and so on, any lengths of leases and
schedules. Hypotheses beyond those are named.

### OutboxProofs

- `TableInv`: no attempt counter, in a row or in the hands of a pass, is ahead of the runs
  that really happened, and a claimable row has an attempt left. `NotGivenUpEarly` alone
  is not inductive, since a pass writes `seen + 1`, read long before. Gives `TypeCorrect`,
  `DeadLettersWereTried`, `KeysAreUnique`.
- `ClaimStrong`: the rows of a live pass are `processing`, under a claim no older than the
  pass's own `now`, and no two passes share one. With **`HoldMax < STALE_MS`** a claim
  never looks stale to another pass: `PromptPassesExclude`. `outbox_tail` shows what
  happens without that hypothesis.
- `LossStrong`: what has been handed out is in the table until it is settled, and what is
  'done' was delivered, also in the hands of a pass that is about to write it. No
  hypothesis on speed. Gives `NothingIsLost` and `DoneRowsWereDelivered`.
- `OnceStrong` (with `HoldMax < STALE_MS`): an undisturbed task that was delivered and
  whose row is not yet 'done' is in the hands of exactly one pass, which is about to say
  so. Gives `DeliveredOnce`.
- `RefineStrong` (with `HoldMax < STALE_MS`): what a pass saw of a row still stands when it
  writes the outcome, so every step of the outbox — pruning, re-claims and crashes
  included — is a step of `TaskDelivery` or a stutter: `OutboxDelivers`
  (`Spec => ImplementsDelivery`).

### DataMigrationsProofs

Steps are first sorted by what they do to the ledger and the runs (`Kinds`).
`RecordInv` (a run that says it worked did, and a rollback restores no record without its
work) gives `TypeCorrect`, `RecordsAreTrue`, `RecordsAreForever`; `LeaseInv` (a holder
whose lease never ran out has the row in flight, and nobody else does) gives
`EntriesRunAlone`; `WorkInv` gives `WorkedOnce`; `MigrationInv` (the entries behind a run
are applied) gives `ListInOrder`.

### CmsProofs

- `PagesInv` relates a page's pointer, its revisions, the licence the reviewer or the
  frozen schedule gave (history), the live plan and the tasks under way: a task whose token
  is the page's schedule carries the revision the plan froze, a stale token can never come
  to match again, and a published revision's content is what the licence names. It gives
  `PagesAreTyped`, `OnlyLicensedIsServed` (`ServedIsLicensed`) and `SchedulesStand`
  (`SchedulesAreKept`), for any pages, contents and times.
- `EntriesInv` (collections): a row's columns are what its editors asked for as far as the
  clock and its tasks have come (`EntryIsWanted`), and a row with `scheduledAt` has the
  task of that token still in the outbox. `ShownAsWanted` speaks of rows without overdue
  tasks only, and says nothing of the columns a late task compares its token with.
  `RowsStayKept` (`RowsAreKept`), any rows, values, plans and edits.
- `ContentInv` (page identity): rows share no slug and locale; a form was opened on a
  version no newer than the row's, and on its content where the versions agree; a row in a
  group descends from the page the group is named after (`Descends`), and a page without a
  group has no translations (`Alone`). The last two are what `createTranslation` needs: it
  writes the group on the source after the fact. `BlocksInv` (blocks): a block that is not
  reusable has a placement, a placement's block and page are stored, and placements nobody
  asked a position for are apart, with all positions under a bound, so that the next one is
  above them. Both in `PagesStayWhole` (`PagesAreWhole`), any editors, slugs, locales, ids,
  types and regions.

### RuntimeProofs

The shared boot by itself (`BootIsTyped`, `TheMemoIsKept`, for any number of invocations),
then one invariant to a part and a theorem about the composition that the run checks.

- `BootInv`: an invocation that has not started a boot has none, and whoever is served has a
  completed one behind it. `RequestsWaitForABoot` (`ServedMeansBooted`).
- `WireInv` (client): the two properties are inductive once the client's state is typed;
  `EnsureSocketKeeps` is the tail that most handlers share. `ClientsHoldTheirConnection`
  (`ConnectionIsHeld`), any subscriptions and tokens, two sockets.
- `CanvasInv`: the last answer on its way says what the server holds once nothing else is
  under way; with none on its way the form's baseline does, unless that answer was shown
  before an earlier one (`reordered`); an approval is sent for what was shown
  (`ShownIsSent`).
  `ScreenInv`: what a form holds came from the page it will save to (`ServerOwned`,
  `PanelOwned`). Both in `EditorsSeeWhatIsStored` (`CanvasIsTrue`), for any number of saves
  under way, served and answered in any order.
- `SchemaInv`: between two statements the store is one a deploy may have left, and a
  migration past its last statement that skipped nothing has left no difference to its
  schema (`Reconciled`). A rebuild keeps every row (`RebuiltKeepsRows`) and every value
  whose column stays. `MigrationsLoseNothing` (`MigrationIsSafe`), over the six schemas of
  the instance, with the store as a parameter.
- `AlarmInv`: a pass that is pushing its broadcast holds a time before the first need of
  every row (`Foresees`), or something overtook it; a pass at work holds rows that were
  enqueued. `WakeCovered` alone says nothing of a pass under way, and that is where an
  alarm comes from. `AlarmsCoverTheWork` (`AlarmCoversWork`), any tasks, delays, losses and
  deaths, with two attempts and the small delays of the instance. `LeastNatural` gives the
  CHOOSE of `earliest` its meaning.
- `AwaitsInv` (live queries, any interleaving of lookups): the digest of a live
  subscription is that of the last result sent on it, a new socket holds none, and a job
  knows which lapsed sockets it may still meet: those it has barred. It gives
  `LapsedSessionsGetNothing` (`NoDataAfterLapse`).
- `GateInv` (live queries, behind the input gate): at most one job is under way, and
  `GateState` says of each subscription what that job still owes it. A waiting id is a
  subscribe in the job's hands, an id on the list is live at the client or being dropped by
  its unsubscribe, a stale result is due in the broadcast under way, and a list lost to
  hibernation is kept in the attachment. With `AwaitsInv` it gives `SubscribersAreServed`
  (`SubscriptionsAreServed`), over the sockets, ids and jobs of the instance.

### AuthProofs

- `SessInv` follows a call from the row it wrote to the KV entries it still has to write,
  with the session that each phase must keep out. While no call has died, KV says what the
  row says (`Follows`). In an object the row of a call that died goes back to what it was,
  and KV may keep that call's mark, which is no older than the row's; so the Worker still
  turns away whom the row turns away (`DeadCallsAreUndone`), but for a reactivation that
  died after it lifted the denylist entry (`lifted`). Hypothesis **`OneAtATime`**: the store
  is a Durable Object, or at most one call is under way. On D1 with two calls TLC violates
  the property (see the observations), so the hypothesis is needed.
  `SessionsEndWithTheAccount` (`SessionsAreSound`).
- `OidcInv`: cookies, pending entries and callbacks in flight belong to the browser that
  started their attempt; a callback past the pending entry took it out of KV, past the
  nonce it holds this attempt's answer; a code the provider exchanged is in one callback's
  hands, in one load of it, or in one session. An outcome bears the number of the load that
  ended in it: two loads that sign in with one code are two outcomes, which
  `CodesSignInOnce` forbids. `SignInsEndWhereTheyBegan` (`SignInsAreSound`), no hypothesis.
- `LinkInv`: token rows have a hash each; a row is about to be marked sent only after its
  own token was mailed; in transactions there is one row to a purpose, a snapshot is as
  sound as the state, and nobody else is under way (so a rollback undoes its own call
  only); a call that redeemed holds a token that nobody can redeem again. Hypothesis
  **`OneRunner`**: at most one drain runs send tasks. The outbox allows a second one when
  a handler outlasts its claim (`outbox_slow`), and with two, `SentMeansDelivered` fails
  (see the observations). `LinksHold` (`LinksAreSound`).
- `AccountInv`: whatever lets the owner of an address in for good — a proof, a session of
  theirs, their password, a link they asked for to verify the address, the address
  verified on the row — implies that nobody else has the password or a session of the
  account (`NoSharedAccount` speaks of the first of these only and is not inductive); an
  empty password slot means that nobody else is in. Deactivation takes no session away: the
  Worker refuses it (`mayCall`) until the user is let in again. `AccountsStayTheirOwners`
  (`AccountsAreOwn`: three invariants and an action property), assuming that nobody reads
  mail at a name of the form `issuer#sub` (`oidc.ts` 592).

### EdgesProofs

One invariant to a part, proved for the part alone with all its steps (`FilesAreServedTrue`,
`MediaIsAccountedFor`, `PagesAreReadAsPublished`, `LinksEndWithTheirMinter`), and for the
composition that the run checks (`RequestsStayInBounds`, `EdgesKeepBytes`,
`EdgesLicenseReads`, `CollectionsDoAsTold`).

- `BoundInv` (requests): versions only grow, a client's bookmark is no older than what it
  was shown, a call on its way took along one no older than what the client had seen when
  it left, what is reached was let in by the deployment's rules, in the partition its
  handler was put in (only an administrator reaches one that the schema lacks), and a store
  that serves has entered itself in the registry. `RequestsAreBound`.
- `FileInv` (files) says what each phase of a request knows: what was parsed from its
  header; a range it was given is exactly what the header asks of the size it was resolved
  against (`ResolvedIsAsked`), a second one begins there (`RetryOk`); and where the bucket
  refused, that nothing was asked for, with the object seen then still in place if it is
  the version the client named. The sizes of objects are bounded by `MaxBytes`, the largest
  integer the code reads exactly.
- `MediaInv` (media library): a purge past its first write has taken the bytes, so what is
  under its key now was put again; a registration has its id for itself; and in a Durable
  Object (where the properties about rows hold) there is one call under way, which knows
  that nobody names its key.
- `ReadInv` (reads): what the history of a running request says was public or out of the
  trash covers what is so now, and what it has read so far was so. Any pages, both stores.
- `PreviewInv` (preview links): while `maxPreviewTtlSeconds` is not raised and the mint
  was not overtaken, a link ends before the KV entries of its minter's revocation do, and
  a retired link was signed before the mark. The defaults decide here: a cap longer than a
  session (`raised`) leaves links that outlive the entries.
- `RegistryInv` (the collections' registry): under an accepted registry each stored row is
  found under its own key, holds cells of its columns' types, reads back as the content of
  its history (`Holds`), and its managed columns say what its editors last asked for
  (`Stands`); the revisions are the contents that were replaced. `AcceptedIs` is what the
  check at boot leaves standing, and every handler's step rests on it; `PublicIs` turns the
  columns into what the public sees. `CollectionsKeepTheirWord`, any schemas and
  collections: a well-formed call ends in no error of the registry's making but at a gap,
  a NOT NULL column that the call leaves NULL (`Gaps`), and then changes nothing
  (`StopsAtGap`). Two hypotheses, as boot checks neither: **`KeysAreNotFields`** (no field
  or feature is the entity's primary key, so the theorem does not cover the keys that
  clients choose, `cms/src/index.ts` 6457-6459) and **`TakedownsAreRead`** (who may act on
  a row reads `unpublishAt`); see the observations. Values a client sends fill their field
  as its type asks or are NULL (`Fills`, in the module's assumption).

### AnalyticsProofs

`CountInv` says per day where its count is: in the raw rows, in the daily row, or in the
hands of a roll-up whose token still stands, and of pages likewise, with the calls that
still owe a day its flag. Hypothesis **`RollsInTurn`**: on D1 there is at most one roller,
and neither pruning nor the roll-up of an unfinished day is set up there; what D1 does
without it is in the observations. `CountsSurvive` (`DashboardIsTrue`).

### SiteProofs

- `TypesInv`: ids name one row; a row chosen for deletion never becomes a reconciler's; a
  reconciler about to update holds the id of the row it read, or of one that is gone; what
  it has been through is reconciled but where somebody else wrote meanwhile. `BootConverges`
  alone says nothing of a pass half way. `BootsKeepTypes` (`TypesAreKept`, an invariant and
  an action property).
- `RedirectsInv`: no stored row's target is its source as the guard compares. With
  `ParsedFirstOrLast` — stripping the slash before or after the URL parser makes no
  difference but for a dot segment — it gives `RedirectsLeadAway` (`NoRedirectReturns`).
- `TermsInv`: some assignment of depths (`Deep`) puts every root at 1, every other term one
  below its parent, and none below the cap: where there are depths there is no cycle, which
  the parent pointers alone do not say one step at a time. The way up counts what is above a
  new parent (`AncestorsAre`), the way down what moves with a term (`SubIs`), and their sum
  under the cap gives the moved tree its depths (`MovedIsDeep`); the levels a listing builds
  are then the depths (`LevelIs`). The recursive functions in the model are shown to exist
  (`Iterates`) and followed by induction on their levels (`Upwards`). `TermsStayTrees`
  (`TermsAreSound`), any finite set of terms and any cap.
- `FurnitureInv`: a tree is a list of items with depths, and `Fits` says where a piece of one
  may stand: each edit of a screen is pieces cut apart and put together where they fit
  (`Joined`), so edits keep trees trees (`EditsAreTrees`). A screen open on the menu that is
  there is behind it, or calls saved what is stored (`ScreenAt`); without that a save with the
  current version could replace a tree nobody on the screen saw. `FurnitureStaysTrue`
  (`FurnitureIsTrue`, an invariant and an action property), any screens, pages and bounds.
- `ReadsInv`: what `keysetAfter` lets past a cursor is what the query orders behind its row,
  NULLs included (`AfterIsLex`, `SortsIsLex`), and that order is strict and total as the
  primary key is in it (`LexTransitive`, `LexTotal`), so a page is the first of what is
  ahead (`SelectIs`, `PageIs`). Of the rows nobody touched a walk has seen those not ahead of
  it (`WalkInv`). Reads across a relation need no invariant but types: in two states in which
  the caller may read the same of each table (`Alike`), every filter and every loaded
  relation comes out the same (`FindAlike`). `ReadsStayWhole` (`ReadsAreWhole`), any finite
  table, orders and page sizes, any rows.

### What is only model-checked, and why

- Liveness (`EverythingApplied`, `WorkGetsDone`, `UsersAreHeard`): out of this prover's
  reach.
- Definitions over data of any depth: field values and schemas (`BlockFields`), predicates
  (`RowWrites`) are RECURSIVE.

## Findings

Each is a run that expects a violation; the sentence it is against is quoted in
`PROJECT.json`.

- `outbox_tail`: the re-stamp before each handler protects the row about to run, not the
  rows of the batch behind it. When a batch lasts `STALE_MS`, a second drainer claims its
  tail, and both run it (`outbox.ts:213` against 205-209).
- `screen`: an editor moved by history between two pages of a type gets a fields form
  seeded from the previous page's preview, and the next keystroke saves it there.

## Observations

Met while modelling; the models do what the code does, and the definitions named here are
in the modules for whoever wants to run them.

- Client: a late close of a replaced socket arms a retry that survives a 4401 (`StaysDown`,
  against `client/src/index.ts` 48-49, 222-224).
- Live queries: a broadcast writes back lists it took before its lookups (`HeldIsKnown`
  with lookups, against `durable-object.ts` 396-401); a re-run keeps the tables of the
  first run (`FreshWhenQuiet` with a branching query, against README.md:180).
- PageWorkflow: a publish that died between its two writes does not complete when its task
  returns (`DiedPublishCompletes`, against 6955-6962; 7036 asks for 'scheduled'); a takedown
  delivered before its late publish leaves the page up (`TakedownHolds`, against 2391-2393,
  5299-5312). PageContent: a group may hold one locale twice (`OneLocalePerGroup`, against
  4828-4836). Redirects: a target that ends in a dot segment leads back
  (`NoRedirectSendsBack`, against 2807-2829), and two redirects may point at each other:
  the guard looks at one row. Line numbers of `cms/src/index.ts`.
- Editor: `ScreensBuildWhatIsAccepted` (furniture.tsx 307-309), `AllSavedIsTrue`
  (components.tsx 938-940) and `SeoBuildsOnWhatIsStored` do not hold; saves are fetches that
  nothing orders (1401-1416, 1732-1757), so when one overtakes another on the way to the
  server and back, the form takes for saved what is not stored, and the edit is lost
  (`QuietIsStored` without `~reordered`); the terms' save
  button is there before the page's terms are; a late answer shows the old page under the
  new url; history moves bypass the unsaved-changes guard. Two editors' whole-bag saves of
  a collection row overwrite each other.
- Auth on D1: all parts of `SessionsAreSound` fail with two calls. On the object a
  reactivation whose commit fails after the KV delete leaves the inactive row undenied, and
  its unexpired sessions work (`DiesLate`; `DeadCallsAreUndone` without `~lifted`).
  `VerifiedAddressWasProved` fails on D1 (auth/index.ts 1090-1098), `SentMeansDelivered`
  with two runners (614-617). Two tabs may both pass the "single use" check of a pending
  sign-in (KV get, then delete); the provider's one-time code stops the second.
- Analytics on D1: `CountsAreTrue` fails with two rollers (rollup.ts 9-15), with an early
  roll-up, and a late event is lost to pruning; a roll-up that dies between its upserts
  leaves stale top pages (`torn`).
- SchemaMigration: `HashMeansMatch` (migrate.ts 22-28) and `IndexesAreBuildable` (19-20,
  620-623) do not hold; a gated rename adds an empty column.
- DbReads: a negated filter over a hasMany relation (`NOT (pk IN (SELECT fk …))`,
  acl.ts 389-414, read-engine.ts 194-206) drops every parent as soon as one matching target
  has no parent, as its NULL key leaves the IN neither true nor false (`relationIs`).
- RowWrites: `LandsLicensed` (db.ts 1000-1012), `FiresOnChange` (686-690) and
  `EvaluatorsAgree` (read-engine.ts) do not hold; an unresolved marker under NOT matches
  every row.
- BlockFields: removing an earlier item of a repeater moves the later ones away from the
  old values they may keep; a retyped field makes untouched stored values refuse the save.
- Requests: a D1 mutation that throws after a write returns no bookmark; admin routes pick
  D1 by the header alone. Files: an object that grows before the retry of a refused range
  is answered with its beginning only; a suffix range of an object replaced twice meanwhile
  is answered from where the last bytes of the version in between began (`storage.ts`
  114-118). MediaLibrary: on D1 two registrations of one blob
  race (4304-4312); a purge that stops between bytes and row leaves a row that can be
  restored without them. PreviewLinks: a mint past the Worker's check when its user is
  revoked (`late`), and links keep the roles of mint time. CollectionRegistry: an editor
  whose read policy lacks `unpublishAt` publishes a row whose spent takedown stays; boot
  accepts a field over the entity's primary key (`validateCollections`, 5979-6166), and a
  save of that field moves the row to another id. It also accepts an entity with a NOT NULL
  column of the app's own that no field fills, or only an optional one (it looks at the
  managed columns only, 6050-6120): every create, or every one that leaves the field out,
  ends in a driver error (`NothingIsMissing`, against 5967-5981).

## Not modelled

React bindings, site integration and theme, the admin page, command lines and dev tools,
examples: presentation and tooling without shared state. JWKS caching, password hashing,
throttling, the audit trail, mail providers, the type editors of the CMS editor, CORS,
DDL and SQL text, aggregates, rendering. Each component's note in `PROJECT.json` says what
of it is left out. On D1, login's upgrade of a foreign hash and a change of password
(`auth/src/index.ts`) write without a guard; handlers of `Accounts` are transactions, as
on the object.

`map` lists the main definitions; small helpers and history are left out of it.

## Plan

1. The D1 side of `Accounts`; a JWKS cache; the type editors and entry screens of the
   editor.
2. The refinement of `Collections`' and `PageWorkflow`'s tasks to `TaskDelivery`.
