------------------------- MODULE CollectionRegistry -------------------------
(***************************************************************************)
(* A registry of collections and the schema it is checked against at boot  *)
(* (packages/cms/src/index.ts: validateCollections,                        *)
(* createCollectionHandlers, collectionPublicPolicies).                    *)
(*                                                                         *)
(* A collection is column-mapped: its handlers turn declared fields into   *)
(* columns of the app's own entity, and most misfits between the two do    *)
(* not fail where they are made.  An unknown column in ORDER BY is a       *)
(* constant to SQLite, a status in a JSON column never equals 'published', *)
(* a second collection over an entity widens the first one's public scope. *)
(* This module runs an accepted registry on a database that behaves so and *)
(* asks whether its rows are served as editors were told.  Boot is the one *)
(* place where a misfit may stop anything, but for one that it lets pass:  *)
(* a column of the app's own that must be given a value and is given none. *)
(*                                                                         *)
(* Schedules keep their instants here and what those do to the public      *)
(* scope; their tasks, late and repeated, are the subject of Collections.  *)
(* Handlers run as on the Durable Object, one transaction each.            *)
(***************************************************************************)
EXTENDS Integers, Sequences, FiniteSets

CONSTANTS
  Configs,      \* the registries a deployment may boot, each with its schema
  Callers,      \* editors, as the columns their read policies leave them
  OptionSources,\* the field sources the deployment declared
  Ids,
  Sendable,     \* for each collection the values a client may send: fields
                \* filled as their type asks, and other columns beside them
  Words,        \* the words and documents among those values
  Limits,       \* limits callers ask for
  MAX_COLLECTION_LIST_LIMIT,
  MAX_SCHEDULE, \* the last instant that is written with four digits of year
  MAX_DATE,     \* the last instant a Date can hold
  MaxTime,      \* bound: the clock runs over 0..MaxTime
  MaxEdits      \* bound: writes

VARIABLES
  conf,    \* [registry, schema]
  phase,   \* "new", then "up" or "refused"
  now,
  rows,    \* the entity's rows by id: NoRow or a function on its columns
  revs,    \* cms_collection_revisions of each row: snapshots, oldest first
  answer,  \* what the last read said, to whom, or a gap that stopped a write
  failed,  \* a handler ended in an error that is not the caller's
  trail,   \* history: the content each row was given, and what it replaced
  want,    \* history: what editors asked of the row's publication
  edits

vars == <<conf, phase, now, rows, revs, answer, failed, trail, want, edits>>

(* Cells: a word, an instant or a document, and whether the stored text    *)
(* carries JSON's quotes.                                                  *)
Cell(kind, word, at) == [kind |-> kind, word |-> word, at |-> at, quoted |-> FALSE]
Null == Cell("null", "", -1)
Default == Cell("word", "", 0)   \* what a column falls back on, if it does
Draft == Cell("word", "draft", 0)
Published == Cell("word", "published", 0)
Instant(t) == Cell("instant", "", t)
Cells ==
  [kind : {"null", "word", "instant", "document", "id"},
   word : Words \cup {"", "draft", "published"}, at : Int, quoted : BOOLEAN]
NoRow == << >>
Stored(i) == rows[i] # NoRow

(* toISOString: from year 10000 on a string starts with "+", which sorts   *)
(* before every digit.                                                     *)
Before(s, t) ==
  IF (s > MAX_SCHEDULE) = (t > MAX_SCHEDULE) THEN s < t ELSE s > MAX_SCHEDULE

----------------------------------------------------------------------------
(* What a registry must be.                                                *)

FEATURES == {"drafts", "scheduling", "revisions", "preview"}
FEATURE_REQUIRES(feature) == IF feature \in {"scheduling", "preview"} THEN {"drafts"} ELSE {}
FEATURE_COLUMNS(feature) ==
  CASE feature = "drafts" -> {"status"}
    [] feature = "scheduling" -> {"publishedAt", "scheduledAt", "unpublishAt"}
    [] OTHER -> {}

fieldColumnTypes(f) ==
  CASE f.type = "reference" /\ f.multiple -> {"json"}
    [] f.type \in {"text", "reference", "media"} -> {"text", "uuid"}
    [] f.type \in {"richtext", "repeater", "group"} -> {"json"}
    [] f.type = "number" -> {"integer", "real"}
    [] f.type = "boolean" -> {"boolean", "integer"}
    [] OTHER -> {"text"}

Revisions == "cms_collection_revisions"
Columns(c, schema) == schema[c.entity].columns
Managed(c) == UNION {FEATURE_COLUMNS(feature) : feature \in c.supports}
Declared(c) == {f.name : f \in c.fields}
PrimaryKey(columns) ==
  IF \E n \in DOMAIN columns : columns[n].primaryKey
  THEN CHOOSE n \in DOMAIN columns : columns[n].primaryKey ELSE "id"

ownSlug(collections) ==
  \A i, j \in DOMAIN collections : collections[i].slug = collections[j].slug => i = j
sharesEntity(collections) == TRUE   \* a mutant
ownEntity(collections) ==
  \A i, j \in DOMAIN collections : collections[i].entity = collections[j].entity => i = j

featuresStand(c) ==
  /\ c.supports \subseteq FEATURES
  /\ \A feature \in c.supports : FEATURE_REQUIRES(feature) \subseteq c.supports

anyKey(c, columns) == c.idField \in DOMAIN columns   \* a mutant
keyed(c, columns) == c.idField \in DOMAIN columns /\ c.idField = PrimaryKey(columns)

fieldsOfAnyType(c, columns) ==   \* a mutant
  \A f \in c.fields : f.name \in DOMAIN columns /\ ~columns[f.name].hidden
fieldsFit(c, columns) ==
  \A f \in c.fields :
    /\ f.name \in DOMAIN columns
    /\ columns[f.name].type \in fieldColumnTypes(f)
    /\ ~columns[f.name].hidden

anyOrder(c, columns) == TRUE   \* a mutant
ordered(c, columns) == c.orderBy = "" \/ c.orderBy \in DOMAIN columns

managedByName(c, columns) ==   \* a mutant
  \A n \in Managed(c) : n \in DOMAIN columns /\ n \notin Declared(c)
managedFit(c, columns) ==
  \A n \in Managed(c) :
    /\ n \in DOMAIN columns
    /\ columns[n].type = "text"
    /\ ~columns[n].notNull
    /\ ~columns[n].hidden
    /\ n \notin Declared(c)

revisionsStand(c, schema) ==
  "revisions" \in c.supports =>
    Revisions \in DOMAIN schema /\ schema[Revisions].partition = schema[c.entity].partition

validateCollections(collections, schema) ==
  /\ ownSlug(collections)
  /\ ownEntity(collections)
  /\ \A i \in DOMAIN collections : LET c == collections[i] IN
       /\ featuresStand(c)
       /\ c.entity \in DOMAIN schema
       /\ schema[c.entity].partition = "default"
       /\ keyed(c, Columns(c, schema))
       /\ fieldsFit(c, Columns(c, schema))
       /\ ordered(c, Columns(c, schema))
       /\ managedFit(c, Columns(c, schema))
       /\ revisionsStand(c, schema)

sourcesDeclared(collections) ==
  \A i \in DOMAIN collections : \A f \in collections[i].fields : f.source \in OptionSources \cup {""}

(* A client's value fills its field as the type asks, or is null.          *)
Fills(v, f) ==
  /\ v \in Cells /\ ~v.quoted
  /\ v.kind = "null" => v = Null
  /\ v.kind = "document" => fieldColumnTypes(f) = {"json"}

RegistryAssumption ==
  /\ {MAX_SCHEDULE, MAX_DATE, MaxTime, MaxEdits} \subseteq Nat
  /\ MaxTime <= MAX_SCHEDULE /\ MAX_SCHEDULE < MAX_DATE
  /\ MAX_COLLECTION_LIST_LIMIT \in Nat \ {0} /\ Limits \subseteq Int
  /\ IsFiniteSet(Ids) /\ Ids \subseteq Int
  /\ \A k \in Configs :
       /\ 1 \in DOMAIN k.registry
       /\ \A bag \in Sendable[k.registry[1]], f \in k.registry[1].fields :
            f.name \in DOMAIN bag => Fills(bag[f.name], f)

----------------------------------------------------------------------------
(* The database under it.                                                  *)

(* One collection stands for each of a registry; the others matter where   *)
(* they share its entity.                                                  *)
c0 == conf.registry[1]
columns0 == Columns(c0, conf.schema)
has(c, feature) == feature \in c.supports
Reachable == conf.schema[c0.entity].partition = "default"

encode(n, v) ==
  IF columns0[n].type = "json" /\ v # Null THEN [v EXCEPT !.quoted = TRUE] ELSE v
decode(n, v) == IF columns0[n].type = "json" THEN [v EXCEPT !.quoted = FALSE] ELSE v
binds(n, v) ==
  /\ n \in DOMAIN columns0
  /\ v.kind = "document" => columns0[n].type = "json"
  /\ v = Null => ~columns0[n].notNull
Fits(patch) == \A n \in DOMAIN patch : binds(n, patch[n])

(* Columns of the app's own that a write leaves without a value they need. *)
Gaps(written) ==
  {n \in DOMAIN written \cap DOMAIN columns0 :
     /\ n \notin Managed(c0) \cup {PrimaryKey(columns0)}
     /\ columns0[n].notNull /\ written[n] = Null}
Encoded(patch) == [n \in DOMAIN patch |-> encode(n, patch[n])]

(* find: the columns a caller reads, the hidden ones stripped.             *)
Readable(caller) == {n \in DOMAIN columns0 \cap caller : ~columns0[n].hidden}
Read(i, caller) == [n \in Readable(caller) |-> decode(n, rows[i][n])]

(* Reads find a row by idField, writes by the primary key.                 *)
idOf(i) == rows[i][c0.idField]
Written(i) == {j \in Ids : Stored(j) /\ rows[j][PrimaryKey(columns0)] = idOf(i)}
mayWrite(i, patch) == Reachable /\ Written(i) # {} /\ Fits(patch)

Merge(f, g) == [n \in DOMAIN f \cup DOMAIN g |-> IF n \in DOMAIN f THEN f[n] ELSE g[n]]
Put(i, patch) == [rows EXCEPT ![i] = Merge(Encoded(patch), @)]

----------------------------------------------------------------------------

NoAnswer == [kind |-> "none", listed |-> << >>, to |-> {}, shown |-> {}]
NoWant == [up |-> FALSE, until |-> -1]
NoTrail == [content |-> << >>, past |-> << >>]

Init ==
  /\ conf \in Configs
  /\ phase = "new"
  /\ now = 0
  /\ rows = [i \in Ids |-> NoRow]
  /\ revs = [i \in Ids |-> << >>]
  /\ answer = NoAnswer
  /\ failed = FALSE
  /\ trail = [i \in Ids |-> NoTrail]
  /\ want = [i \in Ids |-> NoWant]
  /\ edits = 0

createCollectionHandlers ==
  /\ phase = "new"
  /\ phase' = IF validateCollections(conf.registry, conf.schema) /\ sourcesDeclared(conf.registry)
              THEN "up" ELSE "refused"
  /\ UNCHANGED <<conf, now, rows, revs, answer, failed, trail, want, edits>>

tick ==
  /\ phase = "up" /\ now < MaxTime
  /\ now' = now + 1
  /\ UNCHANGED <<conf, phase, rows, revs, answer, failed, trail, want, edits>>

Serves == phase = "up" /\ answer = NoAnswer /\ ~failed
Edit == Serves /\ edits < MaxEdits /\ edits' = edits + 1

(* The driver refuses the statement, the object the call, or a write finds *)
(* no row where a read just did.                                           *)
Breaks == failed' = TRUE /\ UNCHANGED <<rows, revs, answer, trail, want>>

(* The driver refuses a gap, whichever row it is in.                       *)
StopsAtGap ==
  /\ answer' = [NoAnswer EXCEPT !.kind = "gap"]
  /\ UNCHANGED <<rows, revs, failed, trail, want>>

(* toColumns: the declared fields of what was sent, and nothing else.      *)
toColumns(bag) == [n \in DOMAIN bag \cap Declared(c0) |-> bag[n]]

Bags == Sendable[c0]

(* collectionCreate: a draft, whatever the columns' defaults say; what was *)
(* not sent is for the schema to fill.                                     *)
managedSeed == [n \in Managed(c0) |-> IF n = "status" THEN Draft ELSE Null]
unwritten(i) ==
  [n \in DOMAIN columns0 |->
     CASE n = PrimaryKey(columns0) -> Cell("id", "", i)
       [] n # PrimaryKey(columns0) /\ ~columns0[n].default -> Null
       [] OTHER -> IF n = "createdAt" THEN Instant(now) ELSE encode(n, Default)]
Given(bag, n) == n \in DOMAIN bag /\ bag[n] # Null
collectionCreate(i, bag) ==
  /\ Edit
  /\ ~Stored(i)
  /\ \A f \in c0.fields : f.required => Given(bag, f.name)
  /\ LET values == Merge(managedSeed, toColumns(bag))
         gaps == Gaps(Merge(values, unwritten(i)))
         fits == Reachable /\ Fits(values)
     IN \/ /\ gaps = {} /\ fits
           /\ rows' = [rows EXCEPT ![i] = Merge(Encoded(values), unwritten(i))]
           /\ trail' = [trail EXCEPT ![i].content =
                [n \in Declared(c0) |->
                   IF n \in DOMAIN bag THEN bag[n] ELSE decode(n, unwritten(i)[n])]]
           /\ UNCHANGED <<revs, answer, failed, want>>
        \/ gaps # {} /\ StopsAtGap
        \/ gaps = {} /\ ~fits /\ Breaks
  /\ UNCHANGED <<conf, phase, now>>

(* rawFieldValues: every declared column, past the caller's read policies. *)
projectedValues(i, caller) ==   \* a mutant
  [n \in Declared(c0) \cap Readable(caller) |-> decode(n, rows[i][n])]
rawFieldValues(i, caller) == [n \in Declared(c0) |-> decode(n, rows[i][n])]
snapshotRow(i, caller) ==
  IF has(c0, "revisions") THEN [revs EXCEPT ![i] = Append(@, rawFieldValues(i, caller))] ELSE revs

(* The trail after a write: its content, and under it the one before.      *)
Onward(i, content, kept) ==
  [trail EXCEPT ![i] =
     [content |-> content, past |-> IF kept THEN Append(@.past, @.content) ELSE @.past]]

(* collectionUpdate: a caller who may not read the row leaves no revision, *)
(* and a field may be cleared, required or not.                            *)
collectionUpdate(i, bag, caller) ==
  /\ Edit
  /\ Stored(i)
  /\ LET patch == toColumns(bag)
         readable == caller # {}
     IN \/ /\ mayWrite(i, patch)
           /\ \E j \in Written(i) : rows' = Put(j, patch)
           /\ revs' = IF readable THEN snapshotRow(i, caller) ELSE revs
           /\ trail' = Onward(i, [n \in Declared(c0) |->
                IF n \in DOMAIN bag THEN bag[n] ELSE trail[i].content[n]],
                readable /\ has(c0, "revisions"))
           /\ UNCHANGED <<answer, failed, want>>
        \/ Gaps(patch) # {} /\ StopsAtGap
        \/ Gaps(patch) = {} /\ ~mayWrite(i, patch) /\ Breaks
  /\ UNCHANGED <<conf, phase, now>>

(* collectionDelete: an id may come back, its history may not.             *)
collectionDelete(i) ==
  /\ Edit
  /\ Stored(i)
  /\ \/ /\ mayWrite(i, << >>)
        /\ \E j \in Written(i) : rows' = [rows EXCEPT ![j] = NoRow]
        /\ revs' = IF has(c0, "revisions") THEN [revs EXCEPT ![i] = << >>] ELSE revs
        /\ trail' = [trail EXCEPT ![i] = NoTrail]
        /\ want' = [want EXCEPT ![i] = NoWant]
        /\ UNCHANGED <<answer, failed>>
     \/ ~mayWrite(i, << >>) /\ Breaks
  /\ UNCHANGED <<conf, phase, now>>

----------------------------------------------------------------------------
(* Drafts and schedules.                                                   *)

(* The write of a workflow handler and what it means.                      *)
Moves(i, patch, wish) ==
  /\ \/ /\ mayWrite(i, patch)
        /\ \E j \in Written(i) : rows' = Put(j, patch)
        /\ want' = [want EXCEPT ![i] = wish]
        /\ UNCHANGED <<revs, answer, failed, trail>>
     \/ ~mayWrite(i, patch) /\ Breaks
  /\ UNCHANGED <<conf, phase, now>>

spent(i, caller) ==
  /\ "unpublishAt" \in Readable(caller)
  /\ LET cell == Read(i, caller).unpublishAt
     IN cell.kind = "instant" /\ ~Before(now, cell.at)

collectionPublish(i, caller) ==
  /\ Edit
  /\ Stored(i) /\ caller # {} /\ has(c0, "drafts")
  /\ Moves(i,
       [n \in {"status"} \cup (IF has(c0, "scheduling") THEN {"publishedAt", "scheduledAt"} ELSE {})
                         \cup (IF has(c0, "scheduling") /\ spent(i, caller) THEN {"unpublishAt"} ELSE {})
          |-> CASE n = "status" -> Published [] n = "publishedAt" -> Instant(now) [] OTHER -> Null],
       [up |-> TRUE, until |-> IF want[i].until <= now THEN -1 ELSE want[i].until])

collectionUnpublish(i, caller) ==
  /\ Edit
  /\ Stored(i) /\ caller # {} /\ has(c0, "drafts")
  /\ Moves(i,
       [n \in {"status"} \cup (IF has(c0, "scheduling") THEN FEATURE_COLUMNS("scheduling") ELSE {})
          |-> IF n = "status" THEN Draft ELSE Null],
       NoWant)

epochInputFinite(n) == TRUE   \* a mutant
epochInput(n) == 0 <= n /\ n <= MAX_SCHEDULE

(* collectionSchedule: takedown -1 leaves a planned one, -2 cancels it.    *)
collectionSchedule(i, publishAt, takedown, caller) ==
  /\ Edit
  /\ Stored(i) /\ caller # {} /\ has(c0, "scheduling")
  /\ epochInput(publishAt)
  /\ takedown >= 0 => epochInput(takedown) /\ takedown > publishAt
  /\ LET standing == IF "unpublishAt" \in Readable(caller) THEN Read(i, caller).unpublishAt ELSE Null
         effective == CASE takedown = -1 -> standing [] takedown = -2 -> Null [] OTHER -> Instant(takedown)
     IN /\ effective # Null => Before(publishAt, effective.at)
        /\ \/ /\ publishAt <= MAX_DATE /\ takedown <= MAX_DATE
              /\ Moves(i,
                   [n \in {"scheduledAt"} \cup (IF takedown = -1 THEN {} ELSE {"unpublishAt"})
                      |-> IF n = "scheduledAt" THEN Instant(publishAt) ELSE effective],
                   [want[i] EXCEPT !.until = CASE takedown = -1 -> @ [] takedown = -2 -> -1 [] OTHER -> takedown])
           \/ /\ publishAt > MAX_DATE \/ takedown > MAX_DATE
              /\ Breaks
              /\ UNCHANGED <<conf, phase, now>>

(* collectionPublicPolicies: the grants of all collections, or-merged.     *)
MayHaveBegun(cell) == cell = Null \/ cell.quoted \/ ~Before(now, cell.at)
IsNotOver(cell) == cell = Null \/ (~cell.quoted /\ Before(now, cell.at))
grants(c, cells) ==
  /\ c.entity = c0.entity
  /\ has(c, "drafts")
  /\ cells.status = Published
  /\ has(c, "scheduling") => MayHaveBegun(cells.publishedAt) /\ IsNotOver(cells.unpublishAt)
PublicSees(i) == Stored(i) /\ \E k \in DOMAIN conf.registry : grants(conf.registry[k], rows[i])

----------------------------------------------------------------------------
(* Revisions.                                                              *)

projectSnapshotWhole(snapshot, caller) == snapshot   \* a mutant
projectSnapshot(snapshot, caller) ==
  [n \in DOMAIN snapshot \cap Readable(caller) |-> snapshot[n]]

collectionListRevisions(i, caller) ==
  /\ Serves
  /\ Stored(i) /\ caller # {} /\ has(c0, "revisions")
  /\ revs[i] # << >>
  /\ answer' = [NoAnswer EXCEPT !.kind = "history", !.to = caller,
       !.shown = UNION {DOMAIN projectSnapshot(revs[i][k], caller) : k \in DOMAIN revs[i]}]
  /\ UNCHANGED <<conf, phase, now, rows, revs, failed, trail, want, edits>>

collectionRestoreRevision(i, k, caller) ==
  /\ Edit
  /\ Stored(i) /\ caller # {} /\ has(c0, "revisions")
  /\ LET restore == toColumns(projectSnapshot(revs[i][k], caller))
     IN /\ DOMAIN restore # {}
        /\ \/ /\ mayWrite(i, restore)
              /\ \E j \in Written(i) : rows' = Put(j, restore)
              /\ revs' = snapshotRow(i, caller)
              /\ trail' = Onward(i, [n \in Declared(c0) |->
                   IF n \in caller THEN trail[i].past[k][n] ELSE trail[i].content[n]], TRUE)
              /\ UNCHANGED <<answer, failed, want>>
           \/ ~mayWrite(i, restore) /\ Breaks
  /\ UNCHANGED <<conf, phase, now>>

----------------------------------------------------------------------------
(* The list.                                                               *)

orderByOf ==
  IF c0.orderBy # "" THEN c0.orderBy
  ELSE IF "createdAt" \in DOMAIN columns0 THEN "createdAt" ELSE c0.idField

(* ORDER BY a name that is no column compares constants.                   *)
Above(i, j, column) == column \in DOMAIN columns0 /\ rows[i][column].at > rows[j][column].at
PagesOf(n, column) ==
  LET stored == {i \in Ids : Stored(i)}
      size == IF n < Cardinality(stored) THEN n ELSE Cardinality(stored)
  IN {s \in [1..size -> stored] :
        /\ \A a, b \in 1..size : a < b => s[a] # s[b] /\ ~Above(s[b], s[a], column)
        /\ \A i \in stored : (\E a \in 1..size : Above(i, s[a], column)) => \E a \in 1..size : s[a] = i}

clamped(limit) ==
  IF limit < 1 THEN 1
  ELSE IF limit > MAX_COLLECTION_LIST_LIMIT THEN MAX_COLLECTION_LIST_LIMIT ELSE limit

collectionList(limit, caller) ==
  /\ Serves
  /\ orderByOf \in DOMAIN columns0 => orderByOf \in Readable(caller)
  /\ \/ /\ Reachable
        /\ \E s \in PagesOf(clamped(limit), orderByOf) :
             answer' = [NoAnswer EXCEPT !.kind = "list", !.to = caller, !.listed = s]
        /\ UNCHANGED failed
     \/ ~Reachable /\ failed' = TRUE /\ UNCHANGED answer
  /\ UNCHANGED <<conf, phase, now, rows, revs, trail, want, edits>>

heard ==
  /\ answer # NoAnswer
  /\ answer' = NoAnswer
  /\ UNCHANGED <<conf, phase, now, rows, revs, failed, trail, want, edits>>

Next ==
  \/ createCollectionHandlers \/ tick \/ heard
  \/ \E limit \in Limits, caller \in Callers : collectionList(limit, caller)
  \/ \E i \in Ids, caller \in Callers : collectionListRevisions(i, caller)
  \/ /\ Serves /\ edits < MaxEdits
     /\ \E i \in Ids :
          \/ ~Stored(i) /\ \E bag \in Bags : collectionCreate(i, bag)
          \/ collectionDelete(i)
          \/ /\ Stored(i)
             /\ \E caller \in Callers :
                  \/ \E bag \in Bags : collectionUpdate(i, bag, caller)
                  \/ collectionPublish(i, caller) \/ collectionUnpublish(i, caller)
                  \/ \E at \in -1..MAX_DATE + 1, until \in -2..MAX_DATE + 1 :
                       collectionSchedule(i, at, until, caller)
                  \/ \E k \in DOMAIN revs[i] : collectionRestoreRevision(i, k, caller)

Spec == Init /\ [][Next]_vars

----------------------------------------------------------------------------
(* A registry that booted ends no well-formed call in an error of its own, *)
(* gaps apart: every write binds, finds its row and stays in reach.        *)
AcceptedWorks == ~failed

(* Nor does a gap stop one.  It does: boot looks for NOT NULL in the       *)
(* managed columns only, so a collection over a column of the app's that   *)
(* no field fills, or an optional one does, boots and cannot be written.   *)
NothingIsMissing == answer.kind # "gap"

(* The public sees exactly the rows whose last publish was not undone and  *)
(* whose takedown has not come, whatever fields were sent and whichever    *)
(* collections share the database.                                         *)
PublicSeesPublished ==
  phase = "up" => \A i \in Ids :
    PublicSees(i) <=>
      /\ Stored(i) /\ has(c0, "drafts") /\ want[i].up
      /\ want[i].until = -1 \/ want[i].until > now

(* A row holds what was last written or restored, where a restore brings   *)
(* back the columns the caller sees, as they were, whoever made the edits  *)
(* in between; and the history shows nobody a column the row would not.    *)
HistoryIsWhole ==
  /\ \A i \in Ids : Stored(i) =>
       \A n \in Declared(c0) : decode(n, rows[i][n]) = trail[i].content[n]
  /\ answer.kind = "history" => answer.shown \subseteq answer.to

(* A list starts at the top of the order its collection declares, and no   *)
(* limit a caller names makes it longer than the maximum.                  *)
ListsAreOrdered ==
  LET Over(i, j) ==
        IF c0.orderBy # "" THEN rows[i][c0.orderBy].at > rows[j][c0.orderBy].at
        ELSE "createdAt" \in DOMAIN columns0 /\ rows[i].createdAt.at > rows[j].createdAt.at
  IN answer.kind = "list" =>
       /\ c0.orderBy \in DOMAIN columns0 \cup {""}
       /\ Len(answer.listed) <= MAX_COLLECTION_LIST_LIMIT
       /\ \A i \in Ids, a \in DOMAIN answer.listed :
            Stored(i) /\ Over(i, answer.listed[a]) => \E b \in 1..(a - 1) : answer.listed[b] = i
=============================================================================
