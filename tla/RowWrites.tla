---- MODULE RowWrites ----
\* Db (runtime/db.ts) over one row: what the caller's policies let it read, insert, update and delete
\* (runtime/acl.ts), statement by statement, beside other writers. On a Durable Object nobody comes between
\* the statements of a handler; on D1 every statement commits alone.
EXTENDS Naturals, FiniteSets

CONSTANTS Stores,     \* subset of {"do", "d1"}
          PolicySets, \* what an app may declare: functions from actions to sets of policies
          Caller,     \* the caller's value for the identity marker
          Rows, Teams, Patches, \* rows of doc, contents of the teams, columns an update writes
          Watched,    \* the columns the update trigger watches
          MaxWrites   \* bound on what the other writers do

Cols == {"owner", "state", "body", "key", "team"}
Hidden == {"key"}
All == {"*"}
NoRow == [t |-> "absent"]
UPDATE_ATTEMPTS == 3

\* The predicates rows are filtered and authorized by (runtime/acl.ts compileScopedWhere,
\* runtime/read-engine.ts): a where-rule becomes an expression, which SQLite evaluates on stored rows
\* (Holds) and evalExpr on rows in memory. Ordering and text operators are left to "=" and "!=".
\* The data are one entity "doc" with a relation "team" through its column team; teams[t] is team t's row.
Null == "null"
None == "none"
Unresolved == "unresolved"

true_ == [t |-> "true"]
false_ == [t |-> "false"]
cmp(op, col, value) == [t |-> "cmp", op |-> op, col |-> col, value |-> value]
isNull(col, negate) == [t |-> "null", col |-> col, negate |-> negate]
inList(col, values, negate) == [t |-> "in", col |-> col, values |-> values, negate |-> negate]
and(parts) == [t |-> "and", parts |-> parts]
or(parts) == [t |-> "or", parts |-> parts]
not(expr) == [t |-> "not", expr |-> expr]
sub(where) == [t |-> "sub", where |-> where]
eq(col, value) == IF value = Null THEN isNull(col, FALSE) ELSE cmp("=", col, value)

RECURSIVE hasSub(_)

hasSub(e) ==
    \/ e.t = "sub"
    \/ e.t \in {"and", "or"} /\ \E p \in e.parts : hasSub(p)
    \/ e.t = "not" /\ hasSub(e.expr)

RECURSIVE columnsInExpr(_)

columnsInExpr(e) ==
    CASE e.t \in {"cmp", "in", "null"} -> {e.col}
      [] e.t \in {"and", "or"} -> UNION {columnsInExpr(p) : p \in e.parts}
      [] e.t = "not" -> columnsInExpr(e.expr)
      [] e.t = "sub" -> {"team"}
      [] OTHER -> {}

Compares(op, a, b) == (op = "=") <=> (a = b)

\* SQL is three-valued: Is(e, row, teams, v) says that e's value is v; on a NULL it may be neither.
RECURSIVE Is(_, _, _, _)

Is(e, row, teams, v) ==
    CASE e.t = "true" -> v
      [] e.t = "false" -> ~v
      [] e.t = "cmp" /\ e.value = Null -> ~v
      [] e.t = "cmp" /\ e.value # Null -> row[e.col] # Null /\ (Compares(e.op, row[e.col], e.value) <=> v)
      [] e.t = "null" -> ((row[e.col] = Null) # e.negate) <=> v
      [] e.t = "in" /\ e.values = {} -> e.negate <=> v
      [] e.t = "in" /\ e.values # {} -> row[e.col] # Null /\ (((row[e.col] \in e.values) # e.negate) <=> v)
      [] e.t = "and" -> IF v THEN \A p \in e.parts : Is(p, row, teams, v) ELSE \E p \in e.parts : Is(p, row, teams, v)
      [] e.t = "or" -> IF v THEN \E p \in e.parts : Is(p, row, teams, v) ELSE \A p \in e.parts : Is(p, row, teams, v)
      [] e.t = "not" -> Is(e.expr, row, teams, ~v)
      [] e.t = "sub" -> LET found == {t \in DOMAIN teams : Is(e.where, teams[t], teams, TRUE)}
                        IN  IF found = {} THEN ~v ELSE row.team # Null /\ ((row.team \in found) <=> v)

Holds(e, row, teams) == Is(e, row, teams, TRUE)

RECURSIVE evalExpr(_, _)

evalExpr(e, row) ==
    CASE e.t = "true" -> TRUE
      [] e.t = "false" -> FALSE
      [] e.t = "cmp" -> e.value # Null /\ row[e.col] # Null /\ Compares(e.op, row[e.col], e.value)
      [] e.t = "null" -> (row[e.col] = Null) # e.negate
      [] e.t = "in" -> row[e.col] # Null /\ (IF e.values = {} THEN e.negate ELSE (row[e.col] \in e.values) # e.negate)
      [] e.t = "and" -> \A p \in e.parts : evalExpr(p, row)
      [] e.t = "or" -> \E p \in e.parts : evalExpr(p, row)
      [] e.t = "not" -> ~evalExpr(e.expr, row)

\* Where-rules: a set of entries, each a column with an operator and an operand, a group, or a relation.
\* A marker stands for a value of the caller's identity; null or absent there, it is unresolved.
Marker == "$identity"
resolveValue(v, identity) == IF v # Marker THEN v ELSE IF identity = Null THEN Unresolved ELSE identity

columnPredicate(r, identity) ==
    LET v == resolveValue(r.value, identity) IN
    CASE r.op = "eq" -> eq(r.col, v)
      [] r.op = "ne" -> IF v = Null THEN isNull(r.col, TRUE) ELSE cmp("!=", r.col, v)
      [] r.op = "in" -> inList(r.col, {resolveValue(x, identity) : x \in r.values}, FALSE)
      [] r.op = "notIn" -> inList(r.col, {resolveValue(x, identity) : x \in r.values}, TRUE)
      [] r.op = "isNull" -> isNull(r.col, FALSE)

resolveMarkers(plain, identity) ==
    IF \E r \in plain : Unresolved \in {resolveValue(x, identity) : x \in r.values \union {r.value}} THEN false_
    ELSE and({columnPredicate(r, identity) : r \in plain})

\* ctx.identity: the caller's value; ctx.reads(entity): the rules of the policies that let it read that entity.
RECURSIVE compileScopedWhere(_, _)
readWhere(ctx) == or({compileScopedWhere(r, ctx) : r \in ctx.teamReads})

relationPredicate(nested, ctx) ==
    sub(IF ctx.teamReads = {} THEN false_ ELSE and({compileScopedWhere(nested, ctx), readWhere(ctx)}))

compileScopedWhere(rule, ctx) ==
    LET plain == {r \in rule : r.k = "col"}
        parts ==
            {and({compileScopedWhere(g, ctx) : g \in r.groups}) : r \in {x \in rule : x.k = "AND"}} \union
            {or({compileScopedWhere(g, ctx) : g \in r.groups}) : r \in {x \in rule : x.k = "OR"}} \union
            {not(compileScopedWhere(r.nested, ctx)) : r \in {x \in rule : x.k = "NOT"}} \union
            {relationPredicate(r.nested, ctx) : r \in {x \in rule : x.k = "rel"}} \union
            (IF plain = {} THEN {} ELSE {resolveMarkers(plain, ctx.identity)})
    IN  IF parts = {} THEN true_ ELSE IF Cardinality(parts) = 1 THEN CHOOSE p \in parts : TRUE ELSE and(parts)

\* Grants and writes.
VARIABLES store, doc, teams, policies, op, others
vars == <<store, doc, teams, policies, op, others>>

ctx == [identity |-> Caller, teamReads |-> policies.team]

\* A grant of one policy; `check` is a set of at most one predicate, on create part of `where`.
grantOf(p, action) ==
    LET where == compileScopedWhere(p.where, ctx)
        check == {compileScopedWhere(c, ctx) : c \in p.check}
    IN  [where |-> IF action = "create" /\ check # {} THEN and({where} \union check) ELSE where,
         fields |-> p.fields, check |-> IF action = "update" THEN check ELSE {},
         conditional |-> {[when |-> compileScopedWhere(c.when, ctx), fields |-> c.fields] : c \in p.conditional}]

collectGrants(action) == {grantOf(p, action) : p \in policies[action]}
isRowWide(g) == g.where.t = "true"

everyField(grants) == {c \in Cols : \A g \in grants : c \in g.fields \/ g.fields = All}
wideFields(grants) == UNION {g.fields : g \in {x \in grants : isRowWide(x) /\ x.check = {}}}
allFields(grants) == All \subseteq wideFields(grants) \/ \A g \in grants : g.fields = All
baseUnbound(grants) == UNION {g.fields : g \in grants}

baseUnchecked(grants) ==
    IF allFields(grants) THEN All ELSE everyField(grants) \union UNION {g.fields : g \in {x \in grants : isRowWide(x)}}

baseFields(grants) == IF allFields(grants) THEN All ELSE everyField(grants) \union wideFields(grants)

mergeGrants(grants) ==
    LET base == baseFields(grants)
        checked == \E g \in grants : g.check # {}
        extra(g) == IF base = All THEN {} ELSE IF g.fields = All THEN All ELSE g.fields \ base
        bound == {[admit |-> IF Cardinality(grants) = 1 \/ isRowWide(g) THEN {} ELSE {g.where}, check |-> g.check,
                   fields |-> extra(g), conditional |-> g.conditional] : g \in grants}
    IN  [allowed |-> grants # {}, fields |-> base,
         where |-> IF \E g \in grants : isRowWide(g) THEN true_ ELSE or({g.where : g \in grants}),
         grants |-> IF checked THEN bound
                    ELSE IF base = All THEN {} ELSE {g \in bound : g.fields # {} \/ g.conditional # {}}]

scopeFor(action) == mergeGrants(collectGrants(action))
hasCheck(scope) == \E g \in scope.grants : g.check # {}

\* Row predicates that traverse a relation are computed by SQLite beside a row and carried as flags.
flagColumns(scope, row) == {e \in UNION {g.admit : g \in scope.grants} : hasSub(e) /\ Holds(e, row, teams)}
checkFlags(scope, row) == {e \in UNION {g.check : g \in scope.grants} : hasSub(e) /\ Holds(e, row, teams)}
predicateHolds(p, row, flags) == \A e \in p : IF hasSub(e) THEN e \in flags ELSE evalExpr(e, row)

appliesToPostImage(g, row, flags, stored, storedFlags) ==
    predicateHolds(g.admit, row, storedFlags) /\ predicateHolds(g.check, row, flags)

grantApplies(g, row, flags, stored, storedFlags) ==
    predicateHolds(g.admit, stored, storedFlags) /\ predicateHolds(g.check, row, flags)

applying(scope, row, flags, stored, storedFlags) == {g \in scope.grants : grantApplies(g, row, flags, stored, storedFlags)}

effectiveFields(scope, row, flags, stored, storedFlags) ==
    LET gs == applying(scope, row, flags, stored, storedFlags)
        fields == scope.fields \union UNION {g.fields : g \in gs} \union
                  UNION {c.fields : c \in {x \in UNION {g.conditional : g \in gs} : evalExpr(x.when, row)}}
    IN  IF All \subseteq fields THEN Cols ELSE fields

mayWrite(scope, cols, row, flags, stored, storedFlags) ==
    /\ cols \subseteq effectiveFields(scope, row, flags, stored, storedFlags)
    /\ hasCheck(scope) => applying(scope, row, flags, stored, storedFlags) # {}

\* find on the stored row, and what it shows of it.
found == doc # NoRow /\ scopeFor("read").allowed /\ Holds(scopeFor("read").where, doc, teams)
shown == LET scope == scopeFor("read") IN effectiveFields(scope, doc, {}, doc, flagColumns(scope, doc)) \ Hidden

Idle == [pc |-> "idle"]

Init ==
    /\ doc \in Rows \union {NoRow} /\ teams \in Teams /\ policies \in PolicySets
    /\ store \in Stores /\ op = Idle /\ others = 0

\* update: from here `op` holds the call's locals.
needCellEval(scope) == hasCheck(scope) \/ (scope.fields # All /\ scope.grants # {})

update(patch) ==
    LET scope == scopeFor("update") IN
    /\ op = Idle /\ scope.allowed
    /\ op' = [pc |-> "fetch", patch |-> patch, attempt |-> 1]
    /\ UNCHANGED <<store, doc, teams, policies, others>>

fetchOne ==
    LET scope == scopeFor("update") IN
    /\ op.pc = "fetch"
    /\ op' = IF doc = NoRow THEN Idle ELSE IF ~Holds(scope.where, doc, teams) THEN Idle
             ELSE [pc |-> "decide", patch |-> op.patch, attempt |-> op.attempt, raw |-> doc, flags |-> flagColumns(scope, doc)]
    /\ UNCHANGED <<store, doc, teams, policies, others>>

overlaid(patch, row) == [c \in Cols |-> IF c \in DOMAIN patch THEN patch[c] ELSE row[c]]

decide ==
    LET scope == scopeFor("update")
        row == overlaid(op.patch, op.raw)
    IN  /\ op.pc = "decide"
        /\ op' = IF mayWrite(scope, DOMAIN op.patch, row, checkFlags(scope, row), op.raw, op.flags)
                 THEN [op EXCEPT !.pc = "write"] ELSE Idle
        /\ UNCHANGED <<store, doc, teams, policies, others>>

reassertsNothing(scope, raw, flags) == TRUE

reassertsColumns(scope, raw, flags) ==
    LET read == UNION {columnsInExpr(e) : e \in UNION {g.admit \union g.check \union {c.when : c \in g.conditional} : g \in scope.grants}}
    IN  \A c \in read : doc[c] = raw[c]

preimageGuard(scope, raw, flags) ==
    /\ reassertsColumns(scope, raw, flags)
    /\ \A g \in scope.grants : predicateHolds(g.admit, raw, flags) => \A e \in g.admit : hasSub(e) => Holds(e, doc, teams)

triggerAlways(before, row, cols) == cols \intersect Watched # {}
triggerFires(before, row, cols) == cols \intersect Watched # {} /\ \E c \in cols \intersect Watched : before[c] # row[c]

write ==
    LET scope == scopeFor("update")
        row == overlaid(op.patch, doc)
        matches == /\ doc # NoRow
                   /\ Holds(scope.where, doc, teams)
                   /\ needCellEval(scope) => preimageGuard(scope, op.raw, op.flags)
    IN  /\ op.pc = "write"
        /\ \/ /\ matches
              /\ doc' = row
              /\ op' = [pc |-> "echo", row |-> row, cols |-> DOMAIN op.patch, fired |-> triggerFires(op.raw, row, DOMAIN op.patch)]
           \/ /\ ~matches
              /\ op' = IF needCellEval(scope) /\ op.attempt < UPDATE_ATTEMPTS
                       THEN [pc |-> "fetch", patch |-> op.patch, attempt |-> op.attempt + 1] ELSE Idle
              /\ doc' = doc
        /\ UNCHANGED <<store, teams, policies, others>>

\* insert: the policy is judged on the candidate, a statement before the INSERT.
holdsOnAny(where, row) == TRUE
holdsOn(where, row) == IF hasSub(where) THEN Holds(where, row, teams) ELSE evalExpr(where, row)

insert(row) ==
    LET scope == scopeFor("create")
        flags == flagColumns(scope, row)
    IN  /\ op = Idle /\ doc = NoRow
        /\ scope.allowed /\ holdsOn(scope.where, row) /\ mayWrite(scope, Cols, row, flags, row, flags)
        /\ op' = [pc |-> "insert", row |-> row]
        /\ UNCHANGED <<store, doc, teams, policies, others>>

inserted ==
    /\ op.pc = "insert"
    /\ doc' = op.row
    /\ op' = [pc |-> "echo", row |-> op.row, cols |-> Cols, fired |-> FALSE]
    /\ UNCHANGED <<store, teams, policies, others>>

\* projectWrite: what the answer to a write shows of the row.
readableAlways(row) ==
    LET scope == scopeFor("read")
        flags == flagColumns(scope, row)
    IN  effectiveFields(scope, row, flags, row, flags)

readable(row) ==
    LET scope == scopeFor("read") IN
    IF ~scope.allowed \/ ~holdsOn(scope.where, row) THEN {}
    ELSE LET flags == flagColumns(scope, row) IN effectiveFields(scope, row, flags, row, flags)

projectWrite ==
    /\ op.pc = "echo"
    /\ op' = [pc |-> "answer", echo |-> (op.cols \union readable(op.row)) \ Hidden]
    /\ UNCHANGED <<store, doc, teams, policies, others>>

answer == op.pc = "answer" /\ op' = Idle /\ UNCHANGED <<store, doc, teams, policies, others>>

delete ==
    LET scope == scopeFor("delete") IN
    /\ op = Idle /\ doc # NoRow /\ scope.allowed /\ Holds(scope.where, doc, teams)
    /\ doc' = NoRow
    /\ UNCHANGED <<store, teams, policies, op, others>>

\* What other requests do, on D1 between any two of the caller's statements.
Between == (store = "do" => op = Idle) /\ others < MaxWrites /\ others' = others + 1 /\ UNCHANGED <<store, policies, op>>
otherWrites == Between /\ doc # NoRow /\ doc' \in Rows \union {NoRow} /\ doc' # doc /\ UNCHANGED teams
teamChanges == Between /\ teams' \in Teams /\ teams' # teams /\ UNCHANGED doc

Next ==
    \/ \E patch \in Patches : update(patch)
    \/ \E row \in Rows : insert(row)
    \/ fetchOne \/ decide \/ write \/ inserted \/ projectWrite \/ answer \/ delete
    \/ otherWrites \/ teamChanges

Spec == Init /\ [][Next]_vars

\* The reading of the policies the code is judged by: one policy at a time, on what SQLite says.
Admits(p, row) == Holds(compileScopedWhere(p.where, ctx), row, teams)
Checks(p, row) == \A c \in p.check : Holds(compileScopedWhere(c, ctx), row, teams)

Lists(p, c, row) ==
    \/ c \in p.fields \/ p.fields = All
    \/ \E x \in p.conditional : c \in x.fields /\ Holds(compileScopedWhere(x.when, ctx), row, teams)

MayRead(row) == {c \in Cols : \E p \in policies.read : Admits(p, row) /\ Lists(p, c, row)}

Licensed(cols, pre, post) ==
    /\ \E p \in policies.update : Admits(p, pre) /\ Checks(p, post)
    /\ \A c \in cols : \E p \in policies.update : Admits(p, pre) /\ Checks(p, post) /\ Lists(p, c, post)

Traverses(rules) == \E r \in rules : \E x \in r : x.k = "rel"

\* A read returns the row when one policy admits it, and shows exactly the columns that some policy
\* admitting that very row lists: never a column of one policy on a row only another admits.
ReadsAreGranted ==
    /\ doc # NoRow => (found <=> \E p \in policies.read : Admits(p, doc))
    /\ found => shown = MayRead(doc) \ Hidden

Landing == op.pc = "write" /\ op'.pc = "echo"

LicensedLanding ==
    Landing => Licensed(DOMAIN op.patch, doc, doc')

\* An update lands only on a row that, as it is at that moment, the policies let this caller write so.
LandsLicensed == [][LicensedLanding]_vars

SoundStep ==
    /\ Landing => \/ store = "d1" /\ \E p \in policies.update : Traverses(p.check)
                  \/ Licensed(DOMAIN op.patch, doc, doc')
    /\ op = Idle /\ op'.pc = "insert" => \E p \in policies.create : Admits(p, op'.row) /\ Checks(p, op'.row)
    /\ op.pc = "echo" /\ op'.pc = "answer" =>
           op'.echo \subseteq op.cols \union (IF \E p \in policies.read : Admits(p, op.row) THEN MayRead(op.row) ELSE {})
    /\ Landing /\ store = "do" => (op'.fired <=> \E c \in Watched \intersect DOMAIN op.patch : doc[c] # doc'[c])

\* An update lands only where it is licensed (but for D1 and a check that traverses a relation, which the
\* code does not re-assert); an insert only after one policy admits the row. The answer shows nothing of the
\* row that a read would withhold, but what was written. In a Durable Object the trigger of a watched column
\* fires exactly when an update changed one.
WritesAreSound == [][SoundStep]_vars

FiresRight ==
    Landing => (op'.fired <=> \E c \in Watched \intersect DOMAIN op.patch : doc[c] # doc'[c])

\* The trigger fires exactly on a change of a watched column, on either store.
FiresOnChange == [][FiresRight]_vars

\* evalExpr agrees with SQLite on the predicates of the policies.
EvaluatorsAgree ==
    \A a \in {"create", "read", "update"} : \A g \in collectGrants(a) :
        doc # NoRow /\ ~hasSub(g.where) => (evalExpr(g.where, doc) <=> Holds(g.where, doc, teams))
====
