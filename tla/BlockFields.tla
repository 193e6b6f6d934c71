---------------------------- MODULE BlockFields -----------------------------
(***************************************************************************)
(* A block's field values, from the schema an editor authors for its type  *)
(* (validateFieldSchema) through the saves of the block (validateFields,   *)
(* normalizeFields) to what a page renders (assembleLive), in              *)
(* packages/cms/src/index.ts.                                              *)
(*                                                                         *)
(* A save sends the whole bag, so it carries values nobody touched.  Rows  *)
(* older than the present formats hold rich text as a string of HTML and   *)
(* media as an object; such a value is tolerated where it already stands,  *)
(* and must get in nowhere else.                                           *)
(***************************************************************************)
EXTENDS Integers, Sequences, FiniteSets

CONSTANTS
  Authored,            \* the field schemas editors send for the block's type
  Existing,            \* pairs of a schema and the fields a block has under it
  Inputs,              \* the values a client may put in a field
  OptionSources,       \* the query handlers a field may name
  Medias,              \* ids of media rows
  MAX_FIELD_DEPTH, maxHeadingLevel,
  MaxEdits             \* bound on saves and placements

VARIABLES
  schema,              \* the type's fieldsSchema
  fields,              \* the block's stored fields
  placed,              \* the overrides of its placement; Empty without any
  media,               \* the media rows that exist
  savedUnder,          \* history: the schema the block was last checked against
  inherited,           \* history: the ill-formed places when that schema came
  edits
vars == <<schema, fields, placed, media, savedUnder, inherited, edits>>

----------------------------------------------------------------------------
(* JSON values.  Undefined, null and "" are all missing.                   *)

Value(kind, str, tree, bag, items) ==
  [kind |-> kind, str |-> str, tree |-> tree, bag |-> bag, items |-> items]
Empty == << >>
Missing == Value("missing", "", Empty, Empty, Empty)
Str(s) == Value("str", s, Empty, Empty, Empty)
Obj(s) == Value("obj", s, Empty, Empty, Empty)
Doc(tree) == Value("doc", "", tree, Empty, Empty)
Bag(bag) == Value("bag", "", Empty, bag, Empty)
List(items) == Value("list", "", Empty, Empty, items)

IsObject(v) == v.kind \in {"obj", "doc", "bag"}
At(bag, name) == IF name \in DOMAIN bag THEN bag[name] ELSE Missing
Merged(a, b) == [n \in DOMAIN a \cup DOMAIN b |-> IF n \in DOMAIN b THEN b[n] ELSE a[n]]
In(s) == {s[i] : i \in 1..Len(s)}
Largest(a, b) == IF a > b THEN a ELSE b
Least(a, b) == IF a < b THEN a ELSE b

----------------------------------------------------------------------------
(* Rich text.  A node keeps what its type declares; a document, unlike a   *)
(* nested one, is no node.  hrefs: "/x" is safe, " /x" becomes it.         *)

Nodes == {"paragraph", "text", "heading", "bulletList", "listItem"}
Marks == {"bold", "link"}
NoLevel == 0
Hrefs == {"/x"}
normalizeHref(h) == IF h = " /x" THEN "/x" ELSE h

levelKept(node) ==
  IF node.type # "heading" \/ node.level = NoLevel THEN NoLevel
  ELSE Least(Largest(node.level, 1), maxHeadingLevel)
levelUnclamped(node) == IF node.level > maxHeadingLevel THEN node.level ELSE levelKept(node)
normalizeAttrs(node) == levelKept(node)

normalizeMarks(marks) ==
  LET kept == SelectSeq(marks, LAMBDA k : /\ k.type \in Marks
                                          /\ k.type = "link" => normalizeHref(k.href) \in Hrefs)
  IN [i \in DOMAIN kept |-> [kept[i] EXCEPT !.href = normalizeHref(@)]]

RECURSIVE normalizeNodes(_)
normalizeNodes(nodes) ==
  LET known == SelectSeq(nodes, LAMBDA n : n.type \in Nodes /\ (n.type = "text" => n.text # ""))
  IN [i \in DOMAIN known |->
       [known[i] EXCEPT !.level = normalizeAttrs(known[i]),
                        !.marks = IF known[i].type = "text" THEN normalizeMarks(@) ELSE Empty,
                        !.content = normalizeNodes(@)]]
normalizeRichText(v) == Doc(normalizeNodes(v.tree))

----------------------------------------------------------------------------
(* validateFields and normalizeFields.                                     *)

baselineTopLevel(v) == Empty
baseline(v) == v.bag
baseItem(v, i) == IF i \in DOMAIN v.items THEN v.items[i].bag ELSE Empty

RECURSIVE validateFields(_, _, _, _)
validateFields(defs, bag, legacy, requireRequired) ==
  \A def \in In(defs) :
    LET v == At(bag, def.name)
        stored == At(legacy, def.name)
    IN IF v = Missing THEN ~(def.required /\ requireRequired)
       ELSE CASE def.type = "text" -> v.kind = "str"
              [] def.type = "slug" -> v.kind = "str" /\ v.str = "a-slug"
              [] def.type = "select" ->
                   v.kind = "str" /\ (def.options # Empty => v.str \in In(def.options))
              [] def.type = "richtext" -> v.kind = "doc" \/ (v.kind = "str" /\ v = stored)
              [] def.type = "media" -> v.kind = "str" \/ v = stored
              [] def.type = "group" ->
                   IsObject(v) /\ validateFields(def.fields, v.bag, baseline(stored), requireRequired)
              [] def.type = "repeater" ->
                   /\ v.kind = "list"
                   /\ def.min # -1 => Len(v.items) >= def.min
                   /\ def.max # -1 => Len(v.items) <= def.max
                   /\ \A i \in DOMAIN v.items :
                        validateFields(def.fields, v.items[i].bag, baseItem(stored, i), requireRequired)

RECURSIVE normalizeFields(_, _)
normalizeFields(defs, bag) ==
  [n \in DOMAIN bag |->
     LET v == bag[n]
         of == {d \in In(defs) : d.name = n}
         def == CHOOSE d \in of : TRUE
     IN IF of = {} \/ v = Missing THEN v
        ELSE CASE def.type = "richtext" /\ v.kind # "str" -> normalizeRichText(v)
               [] def.type = "group" /\ IsObject(v) ->
                    [v EXCEPT !.bag = normalizeFields(def.fields, @)]
               [] def.type = "repeater" /\ v.kind = "list" ->
                    [v EXCEPT !.items = [i \in DOMAIN @ |->
                       [@[i] EXCEPT !.bag = normalizeFields(def.fields, @)]]]
               [] OTHER -> v]

----------------------------------------------------------------------------
(* validateFieldSchema and checkSlugSources: which schemas are refused,    *)
(* and what is stored of the others.  A field is rebuilt from the keys its *)
(* type uses.                                                              *)

Nesting == {"group", "repeater"}
Field(name, type) ==
  [name |-> name, type |-> type, required |-> FALSE, fields |-> Empty, min |-> -1, max |-> -1,
   options |-> Empty, optionsFrom |-> "", from |-> ""]
trim(s) == IF s = " one" THEN "one" ELSE s
optionsOf(f) ==
  LET kept == SelectSeq(f.options, LAMBDA s : trim(s) # "") IN [i \in DOMAIN kept |-> trim(kept[i])]

minOf(f) == IF f.min = -1 THEN -1 ELSE Largest(0, f.min)
maxOf(f) == IF f.max = -1 THEN -1 ELSE Largest(1, f.max)

RECURSIVE cleaned(_)
cleaned(raw) ==
  [i \in DOMAIN raw |->
     LET f == raw[i] IN
       [Field(f.name, f.type) EXCEPT
          !.required = f.required,
          !.fields = IF f.type \in Nesting THEN cleaned(f.fields) ELSE @,
          !.min = IF f.type = "repeater" THEN minOf(f) ELSE @,
          !.max = IF f.type = "repeater" THEN maxOf(f) ELSE @,
          !.optionsFrom = IF f.type = "select" THEN f.optionsFrom ELSE @,
          !.options = IF f.type = "select" /\ f.optionsFrom = "" THEN optionsOf(f) ELSE @,
          !.from = IF f.type = "slug" THEN f.from ELSE @]]

checkSlugSources(s) ==
  \A f \in In(s) : f.from # "" =>
    \E g \in In(s) : g.name = f.from /\ g.type \in {"text", "select"}

RECURSIVE authorable(_, _)
authorable(raw, depth) ==
  /\ depth < MAX_FIELD_DEPTH
  /\ \A i, j \in DOMAIN raw : i # j => raw[i].name # raw[j].name
  /\ checkSlugSources(cleaned(raw))
  /\ \A f \in In(raw) :
       /\ f.type \in Nesting => Len(f.fields) > 0 /\ authorable(f.fields, depth + 1)
       /\ f.type = "repeater" /\ f.min # -1 /\ f.max # -1 => minOf(f) <= maxOf(f)
       /\ f.type = "select" =>
            IF f.optionsFrom # "" THEN f.optionsFrom \in OptionSources
            ELSE /\ optionsOf(f) # Empty
                 /\ Cardinality(In(optionsOf(f))) = Len(optionsOf(f))

----------------------------------------------------------------------------
(* assembleLive: the ids are collected over the whole page, looked up once *)
(* and put in.  What is found is an object, what is not is missing.        *)

RECURSIVE collectMediaIds(_, _)
collectMediaIds(defs, bag) ==
  UNION {LET v == At(bag, def.name) IN
           CASE def.type = "media" -> IF v.kind = "str" THEN {v.str} ELSE {}
             [] def.type = "group" -> collectMediaIds(def.fields, v.bag)
             [] def.type = "repeater" ->
                  UNION {collectMediaIds(def.fields, v.items[i].bag) : i \in DOMAIN v.items}
             [] OTHER -> {} : def \in In(defs)}
mediaAtTopLevel(defs, bag) ==
  {At(bag, def.name).str : def \in {d \in In(defs) : d.type = "media"}}

RECURSIVE resolveMediaFields(_, _, _)
resolveMediaFields(defs, bag, found) ==
  [n \in DOMAIN bag |->
     LET v == bag[n]
         of == {d \in In(defs) : d.name = n}
         def == CHOOSE d \in of : TRUE
     IN IF of = {} \/ v = Missing THEN v
        ELSE CASE def.type = "media" /\ v.kind = "str" ->
                    IF v.str \in found THEN Obj(v.str) ELSE Missing
               [] def.type = "group" ->
                    Bag(resolveMediaFields(def.fields, v.bag, found))
               [] def.type = "repeater" /\ v.kind = "list" ->
                    List([i \in DOMAIN v.items |->
                       Bag(resolveMediaFields(def.fields, v.items[i].bag, found))])
               [] OTHER -> v]

shown == Merged(fields, placed)
mediaIds(defs, bag) == collectMediaIds(defs, bag)
Rendered == resolveMediaFields(schema, shown, mediaIds(schema, shown) \cap media)

----------------------------------------------------------------------------
(* The places of a bag a schema speaks of, and those that hold what no     *)
(* save may put there.                                                     *)

RECURSIVE Places(_, _)
Places(defs, bag) ==
  UNION {LET v == At(bag, def.name) IN
           CASE def.type = "group" ->
                  {<<<<def.name>> \o p[1], p[2], p[3]>> : p \in Places(def.fields, v.bag)}
             [] def.type = "repeater" ->
                  UNION {{<<<<def.name, i>> \o p[1], p[2], p[3]>> :
                            p \in Places(def.fields, v.items[i].bag)} : i \in DOMAIN v.items}
             [] OTHER -> {<<<<def.name>>, def.type, v>>} : def \in In(defs)}

RECURSIVE Clean(_)
Clean(nodes) ==
  \A n \in In(nodes) :
    /\ n.type \in Nodes
    /\ n.type = "text" => n.text # ""
    /\ n.level \in 0..maxHeadingLevel
    /\ \A k \in In(n.marks) : k.type \in Marks /\ (k.type = "link" => k.href \in Hrefs)
    /\ Clean(n.content)

IllFormed(defs, bag) ==
  {p \in Places(defs, bag) :
     \/ p[2] = "richtext" /\ p[3].kind # "missing" /\ ~(p[3].kind = "doc" /\ Clean(p[3].tree))
     \/ p[2] = "media" /\ p[3].kind \notin {"missing", "str"}}

Standing ==
  {<<"block", p>> : p \in IllFormed(schema, fields)} \cup
  {<<"placement", p>> : p \in IllFormed(schema, placed)}

----------------------------------------------------------------------------

Init ==
  /\ \E e \in Existing : schema = e[1] /\ fields = e[2]
  /\ placed = Empty
  /\ media = Medias
  /\ savedUnder = schema
  /\ inherited = Standing
  /\ edits = 0

(* The bags a client may send: the stored one with one value changed, one  *)
(* item added, or one taken out.                                           *)
Without(s, i) == [j \in 1..Len(s) - 1 |-> IF j < i THEN s[j] ELSE s[j + 1]]
Changed(v) ==
  Inputs \cup
  (IF v.kind # "bag" THEN {} ELSE
     {[v EXCEPT !.bag = Merged(@, [n \in {m} |-> w])] : m \in DOMAIN v.bag, w \in Inputs}) \cup
  (IF v.kind # "list" THEN {} ELSE
     {[v EXCEPT !.items = Without(@, i)] : i \in DOMAIN v.items} \cup
     {[v EXCEPT !.items = Append(@, Bag(b.bag))] : b \in {w \in Inputs : w.kind = "bag"}} \cup
     UNION {{[v EXCEPT !.items[i].bag = Merged(@, [n \in {m} |-> w])] :
               m \in DOMAIN v.items[i].bag, w \in Inputs} : i \in DOMAIN v.items})
Sendable ==
  UNION {{Merged(fields, [n \in {m} |-> v]) : v \in Changed(At(fields, m))} :
           m \in {f.name : f \in In(schema)}}

updateBlock(sent) ==
  /\ edits < MaxEdits
  /\ validateFields(schema, sent, fields, FALSE)
  /\ fields' = normalizeFields(schema, sent)
  /\ savedUnder' = schema
  /\ edits' = edits + 1
  /\ UNCHANGED <<schema, placed, media, inherited>>

placeable(overrides) ==
  /\ validateFields(schema, Merged(fields, overrides), fields, FALSE)
  /\ validateFields(schema, overrides, Empty, FALSE)

placeBlock(overrides) ==
  /\ edits < MaxEdits
  /\ placeable(overrides)
  /\ placed' = normalizeFields(schema, overrides)
  /\ edits' = edits + 1
  /\ UNCHANGED <<schema, fields, media, savedUnder, inherited>>

updateBlockType(raw) ==
  /\ edits < MaxEdits
  /\ authorable(raw, 0)
  /\ schema' = cleaned(raw)
  /\ edits' = edits + 1
  /\ UNCHANGED <<fields, placed, media, savedUnder>>
  /\ inherited' = Standing'

deleteMedia(id) ==
  /\ id \in media
  /\ media' = media \ {id}
  /\ UNCHANGED <<schema, fields, placed, savedUnder, inherited, edits>>

Next ==
  \/ \E sent \in Sendable : updateBlock(sent)
  \/ \E f \in In(schema), v \in Inputs : placeBlock([n \in {f.name} |-> v])
  \/ \E raw \in Authored : updateBlockType(raw)
  \/ \E id \in Medias : deleteMedia(id)

Spec == Init /\ [][Next]_vars

----------------------------------------------------------------------------

(* A block that loaded can be saved: unless its type changed meanwhile,    *)
(* sending back what is stored is accepted and changes nothing, and any    *)
(* override that is well formed by itself can be placed over it.           *)
EchoesAreKept ==
  savedUnder = schema =>
    /\ validateFields(schema, fields, fields, FALSE)
    /\ normalizeFields(schema, fields) = fields
    /\ \A f \in In(schema), v \in Inputs :
         validateFields(schema, [n \in {f.name} |-> v], Empty, FALSE) =>
           placeable([n \in {f.name} |-> v])

(* No sequence of saves puts HTML, an undeclared node or mark, or a media  *)
(* object anywhere: only what stood in that very place when the schema     *)
(* came is still there, and a placement's overrides have none.             *)
NothingIllFormedGetsIn == Standing \subseteq inherited

(* A page shows every media row its fields name, at any depth, and nothing *)
(* in place of one that is gone.                                           *)
MediaIsShown ==
  \A p \in Places(schema, shown) : p[2] = "media" /\ p[3].kind = "str" =>
    IF p[3].str \in media
      THEN <<p[1], "media", Obj(p[3].str)>> \in Places(schema, Rendered)
      ELSE <<p[1], "media", Missing>> \in Places(schema, Rendered)

(* A type that was stored can be opened and saved as it is.                *)
TypesRoundTrip == authorable(schema, 0) /\ cleaned(schema) = schema
=============================================================================
