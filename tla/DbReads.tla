---- MODULE DbReads ----
\* What reads of the Db promise (runtime/db.ts): page, for a client that walks a table with a cursor, and
\* find with loadRelation, for one that reads across a relation. The two share no state: MCSite runs
\* one or the other.
EXTENDS Integers, Sequences, FiniteSets

----
\* Db.page (runtime/db.ts): a client walks a table page by page with a cursor, while other requests insert,
\* delete and edit rows. Every page is its own request; between two of them anything may happen.
CONSTANTS Ids,      \* primary keys, numbers
          Keys,     \* values of the ordered column, numbers and NullKey
          NullKey, Orders, \* what clients order by: sequences of columns with a direction
          Limits,   \* page sizes
          MaxEdits  \* bound on what happens to the table during a walk

Absent == -2

WalkAssumption ==
    /\ Ids \subseteq Int /\ IsFiniteSet(Ids) /\ Keys \subseteq Int \ {Absent} /\ NullKey \in Int
    /\ Orders \subseteq Seq([column : {"id", "key"}, dir : {"asc", "desc"}]) /\ Limits \subseteq Nat /\ MaxEdits \in Nat

VARIABLES rows, order, limit, cursor, hasMore, items, seen, settled, edits
walkVars == <<rows, order, limit, cursor, hasMore, items, seen, settled, edits>>
Start == [values |-> <<>>]

Asc(c) == [column |-> c, dir |-> "asc"]

\* orderWithPk: the primary key ends every order, in the direction of the column before it.
withoutPk(o) == o

orderWithPk(o) ==
    IF \E i \in DOMAIN o : o[i].column = "id" THEN o
    ELSE Append(o, [column |-> "id", dir |-> IF o = <<>> THEN "asc" ELSE o[Len(o)].dir])

rowOf(i) == [id |-> i, key |-> rows[i]]
Live == {i \in Ids : rows[i] # Absent}

\* SQLite: NULL sorts before every value.
Less(a, b) == IF a = NullKey THEN b # NullKey ELSE b # NullKey /\ a < b

\* `col > v` in SQL: never of a NULL.
Above(a, b) == a # NullKey /\ b # NullKey /\ a > b
naiveCmp(o, v, i) == IF o.dir = "desc" THEN Above(v, rowOf(i)[o.column]) ELSE Above(rowOf(i)[o.column], v)

keysetCmp(o, v, i) ==
    LET a == rowOf(i)[o.column] IN
    IF v = NullKey THEN o.dir = "asc" /\ a # NullKey
    ELSE IF o.dir = "desc" THEN Above(v, a) \/ a = NullKey ELSE Above(a, v)

keysetAfter(o, values, i) ==
    \E k \in DOMAIN o : (\A j \in 1..(k - 1) : rowOf(i)[o[j].column] = values[j]) /\ keysetCmp(o[k], values[k], i)

\* ORDER BY
Before(o, a, b) ==
    \E k \in DOMAIN o :
        /\ \A j \in 1..(k - 1) : rowOf(a)[o[j].column] = rowOf(b)[o[j].column]
        /\ IF o[k].dir = "desc" THEN Less(rowOf(b)[o[k].column], rowOf(a)[o[k].column])
           ELSE Less(rowOf(a)[o[k].column], rowOf(b)[o[k].column])

\* compileSelect: rows that compare equal come in an order of SQLite's choosing; TLC takes one.
Sorts(o, a, b) == Before(o, a, b) \/ (~Before(o, b, a) /\ a < b)

selectRaw(o, ids) ==
    [n \in 1..Cardinality(ids) |-> CHOOSE i \in ids : Cardinality({j \in ids : Sorts(o, j, i)}) = n - 1]

Items(q) == {q[i] : i \in DOMAIN q}
encodeCursor(o, i) == [values |-> [k \in DOMAIN o |-> rowOf(i)[o[k].column]]]

WalkInit ==
    /\ rows \in [Ids -> Keys \union {Absent}] /\ order \in Orders /\ limit \in Limits
    /\ cursor = Start /\ hasMore = TRUE /\ items = <<>> /\ seen = {} /\ settled = Live /\ edits = 0

first(raw, n) == SubSeq(raw, 1, IF Len(raw) < n THEN Len(raw) ELSE n)
moreIfFull(raw) == Len(raw) > limit + 1
more(raw) == Len(raw) > limit

page ==
    LET o == orderWithPk(order)
        raw == selectRaw(o, {i \in Live : cursor = Start \/ keysetAfter(o, cursor.values, i)})
    IN  /\ hasMore
        /\ items' = first(raw, limit)
        /\ hasMore' = more(first(raw, limit + 1))
        /\ cursor' = IF first(raw, limit) = <<>> THEN cursor ELSE encodeCursor(o, first(raw, limit)[Len(first(raw, limit))])
        /\ seen' = seen \union Items(first(raw, limit))
        /\ UNCHANGED <<rows, order, limit, settled, edits>>

\* Other requests. `settled`: the rows nobody touched since the walk began.
edit(i, v) ==
    /\ hasMore /\ edits < MaxEdits /\ v # rows[i]
    /\ rows' = [rows EXCEPT ![i] = v]
    /\ settled' = settled \ {i} /\ edits' = edits + 1
    /\ UNCHANGED <<order, limit, cursor, hasMore, items, seen>>

WalkNext == page \/ \E i \in Ids, v \in Keys \union {Absent} : edit(i, v)
WalkSpec == WalkInit /\ [][WalkNext]_walkVars

SettledOnce ==
    page => /\ Items(items') \intersect seen \intersect settled = {}
            /\ ~hasMore' => settled \subseteq seen'

\* A row nobody touches during the walk is on exactly one of its pages: never on a second one, and on one
\* by the time the walk says there is no more.
SettledRowsOnce == [][SettledOnce]_walkVars

----
\* Reads across a relation (runtime/db.ts find and loadRelation, runtime/acl.ts relationPredicate): a caller
\* filters parents by what their targets hold, or has the targets loaded with them, under the read policies
\* of both entities and, many to many, of the junction.
CONSTANTS Parents, Targets, Kinds, \* subset of {"belongsTo", "hasMany", "manyToMany"}
          Null,
          ParentPolicies, TargetPolicies, LinkPolicies, \* of the policies scopeOf tells apart
          ParentRows, TargetRows, LinkRows \* what the rows may hold; a link's two keys are never NULL

RelationAssumption ==
    /\ ParentRows \subseteq [open : BOOLEAN, fk : Targets \union {Null}]
    /\ TargetRows # {} /\ TargetRows \subseteq [open : BOOLEAN, fk : Parents \union {Null}, x : {r.x : r \in TargetRows}]
    /\ LinkRows \subseteq [open : BOOLEAN, there : BOOLEAN]

VARIABLES kind, policy, direct, parent, target, link
relationVars == <<kind, policy, direct, parent, target, link>>
AnX == CHOOSE v \in {r.x : r \in TargetRows} : TRUE
NoLink == [open |-> FALSE, there |-> FALSE]

\* A policy names the rows it admits and the columns it lists: fk is the column a relation joins on.
Admitted(name, row) == name # "none" /\ (name = "openRows" => row.open)
baseOf(name) == IF name \in {"noFk", "fkWhenOpen"} THEN {"id", "x"} ELSE {"id", "x", "fk"}
fieldsOn(name, row) == baseOf(name) \union IF name = "fkWhenOpen" /\ row.open THEN {"fk"} ELSE {}
there == {pt \in Parents \X Targets : link[pt].there}

Joined(p, t) ==
    CASE kind = "belongsTo" -> parent[p].fk = t
      [] kind = "hasMany" -> target[t].fk = p
      [] kind = "manyToMany" -> <<p, t>> \in there

\* assertReadableWhereKeys, relationPredicate: a filter may name only columns readable on every row in
\* scope, the ones the join goes by included. A relation over an unreadable entity matches nothing.
filterableByName(f) == f.on = "fk" => "fk" \in baseOf(policy.parent)

filterable(f) ==
    CASE f.on = "none" -> TRUE
      [] f.on = "fk" -> "fk" \in baseOf(policy.parent)
      [] f.on = "rel" /\ kind = "belongsTo" -> "fk" \in baseOf(policy.parent)
      [] f.on = "rel" /\ kind = "hasMany" -> policy.target = "none" \/ "fk" \in baseOf(policy.target)
      [] f.on = "rel" /\ kind = "manyToMany" -> policy.link = "none" \/ "fk" \in baseOf(policy.link)

matchingAll(v) == {t \in Targets : target[t].x = v /\ policy.target # "none"}
matching(v) == {t \in Targets : target[t].x = v /\ Admitted(policy.target, target[t])}
anyLink(pt) == link[pt].there
traversable(pt) == link[pt].there /\ Admitted(policy.link, link[pt])

\* Whether "parent IN (SELECT … the targets …)", or its NOT, holds. SQL has a third value, of which both do
\* not: for a NULL key looked for, and for a key not found where a matching target's is NULL.
relationIs(p, v, truth) ==
    CASE kind = "belongsTo" -> IF matching(v) = {} THEN ~truth
                               ELSE parent[p].fk # Null /\ ((parent[p].fk \in matching(v)) <=> truth)
      [] kind = "hasMany" -> IF truth THEN \E t \in matching(v) : target[t].fk = p
                             ELSE \A t \in matching(v) : target[t].fk \notin {p, Null}
      [] kind = "manyToMany" -> (\E t \in matching(v) : traversable(<<p, t>>)) <=> truth

Passes(f, p) ==
    CASE f.on = "none" -> TRUE
      [] f.on = "fk" -> parent[p].fk = f.value
      [] f.on = "rel" -> relationIs(p, f.value, ~f.negate)

\* resolveRelationScope: the target's own policy, or a parent policy that lends its targets (direct), to
\* the parents it admits: here, the open ones.
lentByAll(t) == direct /\ \E p \in Parents : Joined(p, t)
lent(t) == direct /\ \E p \in Parents : parent[p].open /\ Joined(p, t)
inScope(t) == Admitted(policy.target, target[t]) \/ lent(t)

relFields(t) ==
    (IF Admitted(policy.target, target[t]) THEN fieldsOn(policy.target, target[t]) ELSE {}) \union
    (IF lent(t) THEN {"id", "x", "fk"} ELSE {})

\* joinVisible: a row joins only by a column the caller may read on that row.
joinsBlindly(p, t) == Joined(p, t)

joins(p, t) ==
    /\ Joined(p, t)
    /\ CASE kind = "belongsTo" -> "fk" \in fieldsOn(policy.parent, parent[p])
         [] kind = "hasMany" -> "fk" \in relFields(t)
         [] kind = "manyToMany" -> traversable(<<p, t>>) /\ "fk" \in fieldsOn(policy.link, link[<<p, t>>])

Shown(row, fields) == [c \in fields |-> IF c = "id" THEN Null ELSE IF c \in DOMAIN row THEN row[c] ELSE Null]
loadRelation(p) == {<<t, Shown(target[t], relFields(t))>> : t \in {u \in Targets : inScope(u) /\ joins(p, u)}}

\* find: refused, or the rows with what the caller may see of each.
Refused == "refused"

find(spec) ==
    IF policy.parent = "none" \/ ~filterable(spec.filter) \/ (spec.with /\ policy.target = "none" /\ ~direct) THEN {Refused}
    ELSE {<<p, Shown(parent[p], fieldsOn(policy.parent, parent[p])), IF spec.with THEN loadRelation(p) ELSE {}>> :
             p \in {q \in Parents : Admitted(policy.parent, parent[q]) /\ Passes(spec.filter, q)}}

Specs(x) ==
    {[filter |-> [on |-> "none"], with |-> TRUE], [filter |-> [on |-> "rel", value |-> x, negate |-> FALSE], with |-> FALSE],
     [filter |-> [on |-> "rel", value |-> x, negate |-> TRUE], with |-> TRUE]}
    \union {[filter |-> [on |-> "fk", value |-> t], with |-> FALSE] : t \in Targets}

RelationInit ==
    /\ kind \in Kinds /\ direct \in BOOLEAN
    /\ policy \in [parent : ParentPolicies, target : TargetPolicies, link : LinkPolicies]
    /\ kind # "manyToMany" => policy.link = "all"
    /\ kind # "belongsTo" => policy.parent \in {"all", "openRows"}
    /\ kind # "hasMany" => policy.target \notin {"noFk", "fkWhenOpen"}
    /\ parent = [p \in Parents |-> [open |-> TRUE, fk |-> Null]]
    /\ target = [t \in Targets |-> [open |-> TRUE, fk |-> Null, x |-> AnX]]
    /\ link = [pt \in Parents \X Targets |-> NoLink]

\* Writes of anyone, one column of one row at a time.
parentChanges(p, row) ==
    /\ row.fk # Null => kind = "belongsTo"
    /\ Cardinality({c \in {"open", "fk"} : parent[p][c] # row[c]}) = 1
    /\ parent' = [parent EXCEPT ![p] = row] /\ UNCHANGED <<kind, policy, direct, target, link>>

targetChanges(t, row) ==
    /\ row.fk # Null => kind = "hasMany"
    /\ Cardinality({c \in {"open", "fk", "x"} : target[t][c] # row[c]}) = 1
    /\ target' = [target EXCEPT ![t] = row] /\ UNCHANGED <<kind, policy, direct, parent, link>>

linkChanges(pt, row) ==
    /\ kind = "manyToMany" /\ link[pt] # row
    /\ link' = [link EXCEPT ![pt] = row] /\ UNCHANGED <<kind, policy, direct, parent, target>>

RelationNext ==
    \/ \E p \in Parents, row \in ParentRows : parentChanges(p, row)
    \/ \E t \in Targets, row \in TargetRows : targetChanges(t, row)
    \/ \E pt \in Parents \X Targets, row \in LinkRows : linkChanges(pt, row)

RelationSpec == RelationInit /\ [][RelationNext]_relationVars

\* What the caller may read one row at a time, without crossing the relation; the targets a policy lends are one more table.
View ==
    <<{<<p, Shown(parent[p], fieldsOn(policy.parent, parent[p]))>> : p \in {q \in Parents : Admitted(policy.parent, parent[q])}},
      {<<t, Shown(target[t], fieldsOn(policy.target, target[t]))>> : t \in {u \in Targets : Admitted(policy.target, target[u])}},
      {<<t, Shown(target[t], {"id", "x", "fk"})>> :
           t \in {u \in Targets : direct /\ \E p \in Parents : parent[p].open /\ Joined(p, u)}},
      {<<pt, "fk" \in fieldsOn(policy.link, link[pt])>> : pt \in {lt \in there : Admitted(policy.link, link[lt])}}>>

UnseenUnseen ==
    View' = View => \A s \in Specs(AnX) : find(s)' = find(s)

\* A write the caller could not notice by reading rows directly changes nothing it gets across the relation:
\* no filter over a relation and no loaded relation says anything of rows or columns it may not read.
UnseenStaysUnseen == [][UnseenUnseen]_relationVars
====
