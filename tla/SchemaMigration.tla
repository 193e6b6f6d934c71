-------------------------- MODULE SchemaMigration --------------------------
(* migrate() (packages/server/src/runtime/migrate.ts): reconciling a live   *)
(* SQLite store with the schema of each deploy. A table with two columns    *)
(* beside its key, and a child table whose rows may reference it; rows are  *)
(* written between the migrations and, on D1, during them. On a Durable     *)
(* Object a migration is one transaction, on D1 each table rebuild is one   *)
(* batch and everything else a statement of its own.                        *)
EXTENDS Naturals, FiniteSets

CONSTANTS Store,       \* "do" or "d1"
          Schemas,     \* the schemas that may be deployed
          Rows, Kids,  \* rows of the table, rows of its child
          Values,      \* what an app writes
          MaxDeploys   \* deploys after the first (bound)

VARIABLES
    schema,   \* the schema of the running deploy
    gate,     \* its PRAMEN_ALLOW_DESTRUCTIVE
    hash,     \* the schema recorded as applied
    db,       \* the live store
    before,   \* what a Durable Object's transaction rolls back to
    pc,       \* where migrate() stands
    skipped,  \* it left something undone
    skip,     \* the unique indexes it will not build
    deploys

vars == <<schema, gate, hash, db, before, pc, skipped, skip, deploys>>

Cols == {"a", "b"}
Null == 0
Cast == 8       \* what CAST makes of a value the new type cannot hold
Default == 9    \* the value of a column's default
NoCol == [type |-> "none", notNull |-> FALSE, default |-> "none"]
Gone == [c \in Cols |-> 7]
NoKid == 7
NoSchema == [cols |-> [c \in Cols |-> NoCol], from |-> [c \in Cols |-> "none"],
             uniq |-> {}, child |-> FALSE, fk |-> "none"]

Live(cols) == {c \in Cols : cols[c] # NoCol}
Present(d) == {r \in Rows : d.rows[r] # Gone}

\* Two rows agree on every column of the tuple, and none of them is NULL there.
HasDuplicates(d, key) ==
    \E r, q \in Present(d) : r # q /\ \A c \in key : d.rows[r][c] = d.rows[q][c] /\ d.rows[r][c] # Null
HasNulls(d, c) == \E r \in Present(d) : d.rows[r][c] = Null
HasOrphans(d) == \E k \in Kids : d.kids[k] \notin {NoKid, Null} /\ d.kids[k] \notin Present(d)

Matches(d, s) == /\ d.cols = s.cols /\ d.uniq = s.uniq
                 /\ d.child = s.child /\ d.fk = s.fk

Init ==
    /\ schema \in Schemas /\ gate = FALSE /\ hash = NoSchema /\ deploys = 0
    /\ db = [cols |-> NoSchema.cols, uniq |-> {}, rows |-> [r \in Rows |-> Gone],
             child |-> FALSE, fk |-> "none", kids |-> [k \in Kids |-> NoKid]]
    /\ before = db /\ pc = "check" /\ skipped = FALSE /\ skip = {}

-----------------------------------------------------------------------------
(* The statements. *)

\* DROP TABLE deletes the rows first, and the live foreign keys act on that.
Dropped(d) ==
    [d EXCEPT !.rows = [r \in Rows |-> Gone], !.uniq = {}, !.cols = NoSchema.cols,
              !.kids = [k \in Kids |->
                  IF @[k] \in {NoKid, Null} THEN @[k]
                  ELSE CASE d.fk = "cascade" -> NoKid [] d.fk = "setNull" -> Null [] OTHER -> @[k]]]

Source(s, live, c) == IF s.from[c] \in live THEN s.from[c] ELSE IF c \in live THEN c ELSE "none"

\* rebuildTable's copy of one cell.
copied(s, d, row, c) ==
    LET src == Source(s, Live(d.cols), c)
        dflt == IF s.cols[c].default = "none" THEN Null ELSE Default
        cell == IF s.cols[c].type = "int" /\ d.cols[src].type = "text" /\ row[src] = 2 THEN Cast ELSE row[src]
    IN  IF s.cols[c] = NoCol THEN Null
        ELSE IF src = "none" THEN dflt
        ELSE IF cell = Null /\ s.cols[c].notNull THEN dflt ELSE cell

\* The holders of a live foreign key are copied out before the drop.
inPlace(d) == d
quarantined(d) == [d EXCEPT !.child = FALSE, !.fk = "none"]

rebuilt(s, d) ==
    [Dropped(quarantined(d)) EXCEPT
        !.cols = s.cols, !.child = d.child, !.fk = d.fk,
        !.rows = [r \in Rows |-> IF d.rows[r] = Gone THEN Gone
                                 ELSE [c \in Cols |-> copied(s, d, d.rows[r], c)]]]

\* The copy into the new shape meets its NOT NULLs, and a RESTRICT its referrers.
Refused(s, d) ==
    \/ \E r \in Present(d), c \in Live(s.cols) : s.cols[c].notNull /\ copied(s, d, d.rows[r], c) = Null
    \/ quarantined(d).fk = "restrict" /\ \E k \in Kids : d.kids[k] \notin {NoKid, Null}

-----------------------------------------------------------------------------
(* migrate(), a step at a time. *)

to(at) == pc' = at /\ UNCHANGED <<schema, gate, deploys>>

deploy(s, g) ==
    /\ pc = "idle" /\ deploys < MaxDeploys
    /\ schema' = s /\ gate' = g /\ deploys' = deploys + 1 /\ pc' = "check"
    /\ UNCHANGED <<hash, db, before, skipped, skip>>

check ==
    /\ pc = "check"
    /\ to(IF hash = schema THEN "idle" ELSE "add")
    /\ skipped' = FALSE /\ skip' = {}
    /\ before' = IF Store = "do" THEN db ELSE before
    /\ UNCHANGED <<hash, db>>

\* A statement fails: on a Durable Object the transaction rolls back.
throw ==
    /\ to("threw") /\ db' = IF Store = "do" THEN before ELSE db
    /\ UNCHANGED <<hash, before, skipped, skip>>

\* Pass 1: CREATE TABLE, or ADD COLUMN for each missing column whose default
\* is not an expression. NOT NULL comes only with a default.
addable(s, d) ==
    IF Live(d.cols) = {} THEN Live(s.cols)
    ELSE {c \in Live(s.cols) \ Live(d.cols) : s.cols[c].default # "expr"}
shaped(s, d, c) ==
    IF Live(d.cols) = {} \/ s.cols[c].default = "literal" THEN s.cols[c]
    ELSE [s.cols[c] EXCEPT !.notNull = FALSE]

add ==
    LET new == addable(schema, db) IN
    /\ pc = "add" /\ to("reconcile")
    /\ db' = [db EXCEPT
           !.cols = [c \in Cols |-> IF c \in new THEN shaped(schema, db, c) ELSE @[c]],
           !.rows = [r \in Rows |-> IF @[r] = Gone THEN Gone ELSE [c \in Cols |->
               IF c \in new /\ schema.cols[c].default = "literal" THEN Default ELSE @[r][c]]]]
    /\ UNCHANGED <<hash, before, skipped, skip>>

\* Pass 2: what of the difference loses data, and what does not.
renames(s, d) == {c \in Live(s.cols) : s.from[c] \in Live(d.cols)}
drops(s, d) == Live(d.cols) \ (Live(s.cols) \union {s.from[c] : c \in renames(s, d)})
retyped(s, d) == {c \in Live(s.cols) \intersect Live(d.cols) : s.cols[c].type # d.cols[c].type}
tightened(s, d) == {c \in Live(s.cols) \intersect Live(d.cols) :
                        s.cols[c].notNull /\ ~d.cols[c].notNull /\ s.cols[c].default = "none" /\ HasNulls(d, c)}
destructiveNoRetype(s, d) == renames(s, d) # {} \/ drops(s, d) # {} \/ tightened(s, d) # {}
destructive(s, d) == \/ renames(s, d) # {} \/ drops(s, d) # {}
                     \/ retyped(s, d) # {} \/ tightened(s, d) # {}
differs(s, d) == \E c \in Live(s.cols) : d.cols[c] # s.cols[c]

\* A newly unique column is looked at before the rebuild.
unindexable(s, d) == {key \in s.uniq \ d.uniq : Cardinality(key) = 1 /\ HasDuplicates(d, key)
                                                /\ key \subseteq Live(d.cols)}
unindexableNone(s, d) == {}

reconcile ==
    LET held == destructive(schema, db) /\ ~gate
        changed == destructive(schema, db) \/ differs(schema, db)
        dups == unindexable(schema, db)
        d == IF changed /\ ~held THEN rebuilt(schema, db) ELSE db
    IN  /\ pc = "reconcile"
        /\ IF changed /\ ~held /\ Refused(schema, db) THEN throw
           ELSE /\ db' = [d EXCEPT !.uniq = @ \intersect schema.uniq]
                /\ skipped' = (held \/ dups # {})
                /\ skip' = dups
                /\ to("composite") /\ UNCHANGED <<hash, before>>

\* A new composite unique is looked at after it.
composite ==
    LET dups == {key \in schema.uniq \ db.uniq : Cardinality(key) > 1 /\ HasDuplicates(db, key)}
    IN  /\ pc = "composite" /\ to("child")
        /\ skip' = skip \union dups /\ skipped' = (skipped \/ dups # {})
        /\ UNCHANGED <<hash, before, db>>

\* The child table: created with its foreign key, or rebuilt when the key changed
\* and no row of it is orphaned.
child ==
    LET orphaned == schema.fk # "none" /\ db.fk = "none" /\ HasOrphans(db)
    IN  /\ pc = "child" /\ to("index")
        /\ db' = IF ~schema.child THEN db
                 ELSE [db EXCEPT !.child = TRUE,
                                 !.fk = IF db.child /\ orphaned THEN "none" ELSE schema.fk]
        /\ skipped' = (skipped \/ (schema.child /\ db.child /\ orphaned))
        /\ UNCHANGED <<hash, before, skip>>

index ==
    /\ pc = "index"
    /\ IF \E key \in schema.uniq \ skip : ~(key \subseteq Live(db.cols)) \/ HasDuplicates(db, key)
       THEN throw
       ELSE /\ db' = [db EXCEPT !.uniq = @ \union (schema.uniq \ skip)]
            /\ to("drop") /\ UNCHANGED <<hash, before, skipped, skip>>

dropTables ==
    LET obsolete == db.child /\ ~schema.child IN
    /\ pc = "drop" /\ to("record")
    /\ db' = IF obsolete /\ gate
             THEN [db EXCEPT !.child = FALSE, !.fk = "none", !.kids = [k \in Kids |-> NoKid]] ELSE db
    /\ skipped' = (skipped \/ (obsolete /\ ~gate))
    /\ UNCHANGED <<hash, before, skip>>

recordAlways == schema
recorded == IF skipped THEN hash ELSE schema

record ==
    /\ pc = "record" /\ to("idle")
    /\ hash' = recorded
    /\ UNCHANGED <<db, before, skipped, skip>>

\* The isolate dies, or the object is evicted; the next request boots again.
die == pc \notin {"idle", "check", "threw"} /\ throw
retry == /\ pc = "threw" /\ to("check") /\ UNCHANGED <<hash, db, before, skipped, skip>>

-----------------------------------------------------------------------------
(* The apps' writes, bound by what the store enforces at that moment. *)

Writable == pc = "idle" \/ (Store = "d1" /\ pc # "check" /\ Live(db.cols) # {})
wrote(d) == db' = d /\ UNCHANGED <<schema, gate, hash, before, pc, skipped, skip, deploys>>

insert(r, row) ==
    LET d == [db EXCEPT !.rows[r] = row] IN
    /\ Writable /\ db.rows[r] = Gone
    /\ \A c \in Cols : IF c \in Live(db.cols) THEN row[c] # Null \/ ~db.cols[c].notNull ELSE row[c] = Null
    /\ \A key \in db.uniq : ~HasDuplicates(d, key)
    /\ wrote(d)

attach(k, r) ==
    /\ Writable /\ db.child /\ db.kids[k] = NoKid
    /\ db.fk # "none" => r \in Present(db)
    /\ wrote([db EXCEPT !.kids[k] = r])

Next ==
    \/ \E s \in Schemas, g \in BOOLEAN : deploy(s, g)
    \/ check \/ add \/ reconcile \/ composite \/ child \/ index \/ dropTables \/ record
    \/ die \/ retry
    \/ \E r \in Rows, row \in [Cols -> Values \union {Null}] : insert(r, row)
    \/ \E k \in Kids, r \in Rows : attach(k, r)

Spec == Init /\ [][Next]_vars

-----------------------------------------------------------------------------
\* A step of the migration that is not a rollback.
Migrates == pc' # pc /\ pc' # "threw"

LosesAllowed ==
    Migrates =>
        /\ Present(db) = {r \in Rows : db'.rows[r] # Gone}
        /\ schema.child => db'.kids = db.kids
        /\ ~gate => \A r \in Present(db), c \in Live(db.cols) :
                        db.rows[r][c] # Null => db'.rows[r][c] = db.rows[r][c]
\* Whatever a rebuild drops and copies, the table keeps its rows and the child
\* its references; without the destructive opt-in every value stays in its
\* column, whichever schemas follow each other (migrate.ts, rebuildTable).
LosesOnlyWhatIsAllowed == [][LosesAllowed]_vars

Records ==
    hash' # hash => Matches(db, schema)
\* A schema is recorded only at the moment the store matches it in full: every
\* column, modifier, index and foreign key, after any death or failed boot.
RecordedInFull == [][Records]_vars

\* "The schema hash is recorded ONLY when the store fully matches the schema":
\* a store whose boot finds its schema recorded matches it.
HashMeansMatch == pc = "idle" /\ hash = schema => Matches(db, schema)

\* "Adding UNIQUE over duplicate values is always SKIPPED", "so this doesn't
\* throw": on a Durable Object, where nothing writes meanwhile, the index pass
\* never meets a duplicate.
IndexesAreBuildable ==
    Store = "do" /\ pc = "index" => \A key \in schema.uniq \ skip : ~HasDuplicates(db, key)
=============================================================================
