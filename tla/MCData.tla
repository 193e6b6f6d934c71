------------------------------- MODULE MCData -------------------------------
(***************************************************************************)
(* What is done with stored rows, side by side: a behaviour picks a        *)
(* component, and the variables of the others stay put.                    *)
(*   writes     one caller updates, inserts and deletes under two policies *)
(*              per action, from a pool of them                            *)
(*   events     three events over three days, one roll-up at a time        *)
(*   fields     one block with values older than the formats and one type  *)
(*              whose schema an editor changes                             *)
(***************************************************************************)
EXTENDS Analytics, TLC

CONSTANTS
  Off, c1, c2,
  Parts,         \* the components a behaviour may pick
  PolicySets     \* what an app declares: functions from actions to policies

VARIABLES
  part,
  at, doc, teams, policies, op, others,
  schema, fields, overrides, media, savedUnder, inherited, changes

writeVars == <<at, doc, teams, policies, op, others>>
fieldVars == <<schema, fields, overrides, media, savedUnder, inherited, changes>>
dataVars == <<part, writeVars, fieldVars, vars>>

----------------------------------------------------------------------------
(* The policies an app may declare for an action are two from a pool.      *)

Null == "null"
Marker == "$identity"
Col(c, o, v) == [k |-> "col", col |-> c, op |-> o, value |-> v, values |-> {}]
Mine == {Col("owner", "eq", Marker)}
Open == {Col("state", "eq", "open")}
NotShut == {Col("state", "ne", "shut")}
Blank == {Col("state", "isNull", Null)}
Grouped == {[k |-> "OR", groups |-> {Mine, Blank}]}
OurTeam == {[k |-> "rel", nested |-> {Col("lead", "eq", Marker)}]}
Policy(where, columns, conditional, check) ==
  [where |-> where, fields |-> columns, conditional |-> conditional, check |-> check]
If(when, columns) == [when |-> when, fields |-> columns]
All == {"*"}

Pool ==
  { Policy({}, {"body"}, {}, {}), Policy(Mine, All, {}, {}),
    Policy(OurTeam, {"state", "body"}, {}, {}),
    Policy(NotShut, {"body"}, {If(Open, {"state"})}, {}), Policy(Grouped, {"state"}, {}, {}) }
Checked ==
  { Policy({}, All, {}, {NotShut}), Policy(Mine, All, {}, {Open}), Policy({}, {"state"}, {}, {Mine}) }
Pairs(S) == {{a, b} : a \in S, b \in S}
OfOurTeam == {Policy(OurTeam, All, {}, {})}
BodyOrMine == {Policy({}, {"body"}, {}, {}), Policy(Mine, All, {}, {})}
Writing(read, updates) ==
  {[read |-> read, update |-> u, create |-> {Policy(Mine, All, {}, {NotShut})},
    delete |-> {Policy(Mine, All, {}, {})}, team |-> {{}}] : u \in updates}
Reading ==
  {[read |-> r, update |-> {}, create |-> {}, delete |-> {}, team |-> {{}}] : r \in Pairs(Pool)}

MCPolicies ==
  Reading \union Writing(BodyOrMine, Pairs(Pool))
    \union Writing(OfOurTeam, {{a, b} : a \in Pool \union Checked, b \in Checked})
RelatedPolicies == Writing(OfOurTeam, {{Policy({}, All, {}, {OurTeam})}})
InvertedPolicies ==
  Writing(OfOurTeam,
    {{Policy({[k |-> "NOT", nested |-> {Col("state", "eq", "shut")}]}, {"body"}, {}, {})}})

MCRows == {[owner |-> o, state |-> s, body |-> "x", key |-> "k", team |-> "t1"] :
             o \in {"me", "you"}, s \in {"open", "shut", Null}}
MCTeams == {[t \in {"t1"} |-> [lead |-> l, team |-> Null]] : l \in {"me", "you"}}
MCPatches == {[c \in {"body"} |-> "y"], [c \in {"state"} |-> "shut"], [c \in {"owner"} |-> "you"],
              [c \in {"state", "body"} |-> IF c = "state" THEN "open" ELSE "x"]}

Writes == INSTANCE RowWrites WITH
  Stores <- {"d1", "do"}, Caller <- "me", Rows <- MCRows,
  Teams <- MCTeams, Patches <- MCPatches, Watched <- {"state"}, MaxWrites <- 2, store <- at

ASSUME Null = Writes!Null /\ Marker = Writes!Marker

----------------------------------------------------------------------------

(* Values and schemas for the fields: HTML and a media object as old rows  *)
(* hold them, a fine document and one with much to normalize; schemas that *)
(* nest, bound, retype and rename, and some that must be refused.          *)
E == << >>
V(k, str, tree, bag, list) ==
  [kind |-> k, str |-> str, tree |-> tree, bag |-> bag, items |-> list]
Str(s) == V("str", s, E, E, E)
Old == V("obj", "old", E, E, E)
Doc(t) == V("doc", "", t, E, E)
Bag(b) == V("bag", "", E, b, E)
List(i) == V("list", "", E, E, i)
Node(type, text, level, marks, content) ==
  [type |-> type, text |-> text, level |-> level, marks |-> marks, content |-> content]
Text(t, marks) == Node("text", t, 0, marks, E)
Mark(type, href) == [type |-> type, href |-> href]
Fine == <<Node("paragraph", "", 0, E, <<Text("hi", <<Mark("link", "/x")>>)>>)>>
Rough == <<Node("script", "", 0, E, E),
           Node("heading", "", 7, E,
                <<Text("", E),
                  Text("hi", <<Mark("link", "no"), Mark("link", " /x"), Mark("blink", "")>>)>>)>>

Field(name, type) ==
  [name |-> name, type |-> type, required |-> FALSE, fields |-> E, min |-> -1, max |-> -1,
   options |-> E, optionsFrom |-> "", from |-> ""]
TextMedia == <<Field("x", "richtext"), Field("m", "media")>>
Group(nested) == [Field("g", "group") EXCEPT !.fields = nested]
Repeat(nested, min, max) ==
  [Field("r", "repeater") EXCEPT !.fields = nested, !.min = min, !.max = max]
Choice(options, source) ==
  [Field("s", "select") EXCEPT !.options = options, !.optionsFrom = source]
SlugOf(from) == [Field("s", "slug") EXCEPT !.from = from]

FirstSchema == <<Field("b", "richtext"), Group(TextMedia), Repeat(TextMedia, -1, 2)>>
AuthoredSchemas ==
  { FirstSchema,
    <<Field("b", "text"), Field("g", "media"), Repeat(<<Field("x", "text")>>, 1, 2), SlugOf("b")>>,
    <<[Field("b", "richtext") EXCEPT !.required = TRUE, !.min = 1],
      Choice(<<"one", "two">>, "lookup"), Group(TextMedia)>>,
    <<Field("b", "text"), Field("b", "text")>>,
    <<Choice(<<"one", " one">>, "")>>,
    <<Choice(<<" one", "">>, ""), Field("b", "media")>>,
    <<SlugOf("b"), Field("b", "richtext")>>,
    <<Repeat(TextMedia, 2, 0)>>,
    <<Group(<<Group(TextMedia)>>)>>,
    <<Choice(<<"one">>, "admin")>> }
ExistingBlocks ==
  { <<FirstSchema,
      [b |-> Str("html"), g |-> Bag([x |-> Str("html"), m |-> Old]),
       r |-> List(<<Bag([x |-> Str("html"), m |-> Str("m1")]), Bag([x |-> Doc(Fine), m |-> Old])>>)]>>,
    <<FirstSchema, [b |-> Doc(Fine)]>> }
SentValues ==
  { V("missing", "", E, E, E), Str("html"), Str("m1"), Str("a-slug"), Doc(Rough), Old,
    Bag([x |-> Str("html")]), Bag([m |-> Str("m1"), x |-> Doc(Rough)]),
    List(<<Bag([m |-> Str("m1")])>>) }

Fields == INSTANCE BlockFields WITH
  Authored <- AuthoredSchemas, Existing <- ExistingBlocks, Inputs <- SentValues,
  OptionSources <- {"lookup"}, Medias <- {"m1"}, MAX_FIELD_DEPTH <- 2, maxHeadingLevel <- 3,
  MaxEdits <- 2, placed <- overrides, edits <- changes

Symmetry == Permutations({c1, c2})

----------------------------------------------------------------------------

writesOff == at = Off /\ doc = Off /\ teams = Off /\ policies = Off /\ op = Off /\ others = Off
fieldsOff == /\ schema = Off /\ fields = Off /\ overrides = Off /\ media = Off
             /\ savedUnder = Off /\ inherited = Off /\ changes = Off

DataInit ==
  /\ part \in Parts
  /\ IF part = "writes" THEN Writes!Init ELSE writesOff
  /\ IF part = "fields" THEN Fields!Init ELSE fieldsOff
  /\ Init
  /\ part # "events" => store = "do"

DataNext ==
  \/ /\ part = "writes"
     /\ Writes!Next
     /\ UNCHANGED <<part, fieldVars, vars>>
  \/ /\ part = "events"
     /\ Next
     /\ UNCHANGED <<part, writeVars, fieldVars>>
  \/ /\ part = "fields"
     /\ Fields!Next
     /\ UNCHANGED <<part, writeVars, vars>>

DataSpec == DataInit /\ [][DataNext]_dataVars

----------------------------------------------------------------------------
(* What a read returns is granted, and what a write stores is checked,     *)
(* licensed on the row it replaced and reported to its triggers.           *)
AccessIsGranted ==
  [](part = "writes" => Writes!ReadsAreGranted) /\ [][part = "writes" => Writes!SoundStep]_writeVars

(* A value of an old format is kept where it stands and gets in nowhere    *)
(* else, a medium a block names is shown, and what the authoring of a type *)
(* accepts is accepted again.                                              *)
FieldsAreSound ==
  part = "fields" =>
    /\ Fields!EchoesAreKept
    /\ Fields!NothingIllFormedGetsIn
    /\ Fields!MediaIsShown
    /\ Fields!TypesRoundTrip

(* A row a caller wrote is one its policies let it write.                  *)
LandsLicensed == [][part = "writes" => Writes!LicensedLanding]_writeVars
=============================================================================
