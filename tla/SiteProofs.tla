----------------------------- MODULE SiteProofs -----------------------------
(***************************************************************************)
(* What holds of the block types, the redirects, the terms and the menus   *)
(* of a site, for every number of slugs, isolates, deployments,            *)
(* reconcilers and definitions, for every number of redirects over every   *)
(* set of paths, for every number of vocabularies and terms under every    *)
(* cap on depth, and for every number of screens, pages and items; and of  *)
(* reads, for every finite table walked in every order at every page size  *)
(* and every relation under every policy the model tells apart.            *)
(***************************************************************************)
EXTENDS MCSite, SequenceTheorems, FiniteSetTheorems, WellFoundedInduction, TLAPS

-----------------------------------------------------------------------------
(* Block types.                                                            *)

TypeRow == [id : Nat, def : Defs \cup {None}, owner : Owners \cup {"none"}]
Pass == [pc : {"idle", "read", "insert", "update", "sweep", "swept"},
         deploy : Deploys \cup {None}, owner : Owners \cup {"none"}, todo : SUBSET Slugs,
         slug : Slugs \cup {"none"}, row : Nat, excused : SUBSET Slugs]

TypesTyped ==
  /\ types \in [Slugs -> TypeRow] /\ ids \in Nat /\ used \subseteq Nat \ {None} /\ del \in TypeRow
  /\ iso \in [Isolates -> Pass] /\ author \in [Slugs -> Defs \cup {None}]

(* Ids are handed out once and name one row; a slug without a row belongs  *)
(* to nobody, and what editors authored is theirs.                         *)
RowInv(s) ==
  /\ types[s].id <= ids
  /\ \A t \in Slugs : Present(s) /\ types[t].id = types[s].id => t = s
  /\ ~Present(s) => types[s].owner = "none" /\ author[s] = None
  /\ author[s] # None => types[s].def = author[s] /\ types[s].owner = "none"

(* A row that passed the checks of a deletion never becomes a reconciler's.*)
DelInv ==
  del # NoRow => /\ del.id # None /\ del.id <= ids
                 /\ \A s \in Slugs : types[s].id = del.id => types[s].owner = "none"

(* What a reconciler has been through stays done, but where somebody else  *)
(* wrote; the row it is about to update is the one it read, or a row made  *)
(* since, which it will not find; no editor authored it.                   *)
Reconciled(i) ==
  \A s \in DOMAIN Declares(i) \ (iso[i].todo \cup iso[i].excused) :
    Present(s) /\ (types[s].owner = iso[i].owner => types[s].def = Declares(i)[s])
Updating(i) ==
  /\ iso[i].row # None /\ iso[i].row <= ids
  /\ \A t \in Slugs : types[t].id = iso[i].row =>
       t = iso[i].slug /\ author[t] = None /\ types[t].owner \in {iso[i].owner, "none"}
  /\ iso[i].slug \in iso[i].excused \/ types[iso[i].slug].id = iso[i].row
Released(i) ==
  \A s \in Slugs \ iso[i].excused : s \notin DOMAIN Declares(i) => types[s].owner # iso[i].owner

PassInv(i) ==
  iso[i].pc # "idle" =>
    /\ iso[i].deploy \in Deploys /\ iso[i].owner \in Owners
    /\ iso[i].todo \subseteq DOMAIN Declares(i)
    /\ iso[i].pc \in {"insert", "update"} => iso[i].slug \in iso[i].todo
    /\ iso[i].pc \in {"sweep", "swept"} => iso[i].todo = {}
    /\ Reconciled(i)
    /\ iso[i].pc = "update" => Updating(i)
    /\ iso[i].pc = "swept" => Released(i)

TypesInv ==
  /\ TypesTyped /\ DelInv /\ UsedTypesStay
  /\ \A s \in Slugs : RowInv(s)
  /\ \A i \in Isolates : PassInv(i)

-----------------------------------------------------------------------------
(* The records of a pass, and what a step does to those of the others.     *)

LEMMA StandsIsAPass ==
  ASSUME TypesTyped, NEW i \in Isolates, NEW todo \in SUBSET Slugs
  PROVE  /\ \A s \in Slugs, x \in {"insert", "update"} : Stands(i, x, todo, s, types[s].id) \in Pass
         /\ \A x \in {"read", "sweep", "swept"} : Stands(i, x, todo, "none", None) \in Pass
<1>1. iso[i] \in Pass /\ \A s \in Slugs : types[s].id \in Nat
  BY DEF TypesTyped, TypeRow
<1> QED  BY <1>1 DEF Stands, Pass, None

LEMMA IdleIsAPass == Idle \in Pass
BY DEF Idle, Pass, None

(* What any statement may do to the rows other isolates look at: at the    *)
(* slugs it names it may do away with a row, make a new one, release one   *)
(* or rewrite its definition, but take over no row and reuse no id.        *)
Evolves(slugs) ==
  /\ ids' \in Nat /\ ids <= ids'
  /\ \A s \in Slugs \ slugs : types'[s] = types[s] /\ author'[s] = author[s]
  /\ \A s \in Slugs : types'[s].id # None /\ types'[s].id <= ids =>
       /\ types'[s].id = types[s].id
       /\ types'[s].owner \in {types[s].owner, "none"}
       /\ author[s] = None => author'[s] = None

LEMMA OthersKeep ==
  ASSUME TypesTyped, NEW j \in Isolates, PassInv(j), NEW slugs \in SUBSET Slugs, Evolves(slugs),
         iso'[j] = IF iso[j].pc = "idle" THEN iso[j] ELSE [iso[j] EXCEPT !.excused = @ \cup slugs]
  PROVE  iso'[j] \in Pass /\ PassInv(j)'
<1> DEFINE p == iso[j]
<1>1. p \in Pass
  BY DEF TypesTyped
<1>2. iso'[j] \in Pass
  BY <1>1 DEF Pass
<1> SUFFICES ASSUME p.pc # "idle"  PROVE PassInv(j)'
  BY <1>1, <1>2 DEF PassInv
<1>3. /\ iso'[j].pc = p.pc /\ iso'[j].deploy = p.deploy /\ iso'[j].owner = p.owner
      /\ iso'[j].todo = p.todo /\ iso'[j].slug = p.slug /\ iso'[j].row = p.row
      /\ iso'[j].excused = p.excused \cup slugs
  BY <1>1 DEF Pass
<1>4. /\ p.deploy \in Deploys /\ p.owner \in Owners /\ p.todo \subseteq DOMAIN Declares(j)
      /\ p.pc \in {"insert", "update"} => p.slug \in p.todo
      /\ p.pc \in {"sweep", "swept"} => p.todo = {}
      /\ Reconciled(j) /\ (p.pc = "update" => Updating(j)) /\ (p.pc = "swept" => Released(j))
  BY DEF PassInv
<1>5. Declares(j)' = Declares(j) /\ DOMAIN Declares(j) \subseteq Slugs
  BY <1>3, <1>4, TypeRegistryAssumption DEF Declares, TypeRegistryAssumption
<1>6. Reconciled(j)'
  BY <1>3, <1>4, <1>5 DEF Reconciled, Evolves, Present
<1>7. p.pc = "update" => Updating(j)'
  <2> SUFFICES ASSUME p.pc = "update"  PROVE Updating(j)'
    OBVIOUS
  <2>1. Updating(j) /\ p.row \in Nat /\ ids \in Nat /\ ids' \in Nat /\ ids <= ids'
    BY <1>1, <1>4 DEF Pass, TypesTyped, Evolves
  <2>2. p.row # None /\ p.row <= ids /\ p.row <= ids'
    BY <2>1 DEF Updating
  <2>3. \A t \in Slugs : types'[t].id = p.row =>
          t = p.slug /\ author'[t] = None /\ types'[t].owner \in {p.owner, "none"}
    <3> SUFFICES ASSUME NEW t \in Slugs, types'[t].id = p.row
                 PROVE  t = p.slug /\ author'[t] = None /\ types'[t].owner \in {p.owner, "none"}
      OBVIOUS
    <3>1. /\ types[t].id = p.row /\ types'[t].owner \in {types[t].owner, "none"}
          /\ author[t] = None => author'[t] = None
      BY <2>2 DEF Evolves
    <3> QED  BY <2>1, <3>1 DEF Updating
  <2>4. p.slug \in p.excused \cup slugs \/ types'[p.slug].id = p.row
    BY <1>4, <1>5, <2>1 DEF Updating, Evolves
  <2> QED  BY <1>3, <2>2, <2>3, <2>4 DEF Updating
<1>8. p.pc = "swept" => Released(j)'
  BY <1>3, <1>4, <1>5 DEF Released, Evolves
<1> QED  BY <1>3, <1>4, <1>5, <1>6, <1>7, <1>8 DEF PassInv

LEMMA ChangedKeeps ==
  ASSUME TypesInv, NEW i, NEW slugs \in SUBSET Slugs, NEW mine \in Pass, Evolves(slugs),
         Changed(i, slugs, mine)
  PROVE  /\ iso' \in [Isolates -> Pass]
         /\ \A j \in Isolates : j # i => PassInv(j)'
         /\ i \in Isolates => iso'[i] = mine
<1>1. i \in Isolates => iso'[i] = mine
  BY DEF Changed
<1>2. ASSUME NEW j \in Isolates, j # i  PROVE iso'[j] \in Pass /\ PassInv(j)'
  <2>1. iso'[j] = IF iso[j].pc = "idle" THEN iso[j] ELSE [iso[j] EXCEPT !.excused = @ \cup slugs]
    BY <1>2 DEF Changed
  <2> QED  BY <2>1, OthersKeep DEF TypesInv
<1>3. \A j \in Isolates : iso'[j] \in Pass
  BY <1>1, <1>2
<1>4. iso' = [j \in Isolates |-> iso'[j]]
  BY DEF Changed
<1> QED  BY <1>1, <1>2, <1>3, <1>4

(* A step that touches one isolate and no row.                             *)
LEMMA OneMoves ==
  ASSUME TypesInv, NEW i \in Isolates, NEW q \in Pass, iso' = [iso EXCEPT ![i] = q],
         UNCHANGED <<types, ids, used, del, author>>, iso'[i] = q => PassInv(i)'
  PROVE  TypesInv'
<1>1. /\ iso \in [Isolates -> Pass] /\ TypesTyped /\ DelInv /\ UsedTypesStay
      /\ \A s \in Slugs : RowInv(s)
      /\ \A j \in Isolates : PassInv(j)
  BY DEF TypesInv, TypesTyped
<1>2. iso' \in [Isolates -> Pass] /\ iso'[i] = q /\ \A j \in Isolates : j # i => iso'[j] = iso[j]
  BY <1>1
<1>3. TypesTyped' /\ DelInv' /\ UsedTypesStay' /\ \A s \in Slugs : RowInv(s)'
  BY <1>1, <1>2 DEF TypesTyped, DelInv, UsedTypesStay, RowOf, RowInv, Present
<1>4. ASSUME NEW j \in Isolates, j # i  PROVE PassInv(j)'
  <2>1. PassInv(j) /\ iso'[j] = iso[j]
    BY <1>1, <1>2, <1>4
  <2> QED  BY <2>1 DEF PassInv, Reconciled, Updating, Released, Declares, Present
<1> QED  BY <1>2, <1>3, <1>4 DEF TypesInv

LEMMA PassIs ==
  ASSUME TypesInv, NEW i \in Isolates, iso[i].pc # "idle"
  PROVE  /\ iso[i] \in Pass /\ iso[i].deploy \in Deploys /\ iso[i].owner \in Owners
         /\ iso[i].owner # "none"
         /\ iso[i].todo \subseteq DOMAIN Declares(i) /\ DOMAIN Declares(i) \subseteq Slugs
         /\ \A s \in DOMAIN Declares(i) : Declares(i)[s] \in Defs
         /\ iso[i].pc \in {"insert", "update"} => iso[i].slug \in iso[i].todo /\ iso[i].slug \in Slugs
         /\ iso[i].pc \in {"sweep", "swept"} => iso[i].todo = {}
         /\ Reconciled(i)
         /\ iso[i].pc = "update" => Updating(i)
<1>1. PassInv(i) /\ iso[i] \in Pass
  BY DEF TypesInv, TypesTyped
<1>2. iso[i].deploy \in Deploys /\ iso[i].owner \in Owners
  BY <1>1 DEF PassInv
<1>3. DOMAIN Declares(i) \subseteq Slugs /\ \A s \in DOMAIN Declares(i) : Declares(i)[s] \in Defs
  BY <1>2, TypeRegistryAssumption DEF Declares, TypeRegistryAssumption
<1> QED  BY <1>1, <1>2, <1>3, TypeRegistryAssumption DEF PassInv, TypeRegistryAssumption

-----------------------------------------------------------------------------
(* cmsBootstrap.                                                           *)

LEMMA TypesInit ==
  ASSUME Init
  PROVE  TypesInv
<1>1. TypesTyped
  BY IdleIsAPass DEF Init, TypesTyped, TypeRow, NoRow, None
<1>2. DelInv /\ UsedTypesStay
  BY DEF Init, DelInv, UsedTypesStay
<1>3. \A s \in Slugs : RowInv(s)
  <2> SUFFICES ASSUME NEW s \in Slugs  PROVE RowInv(s)
    OBVIOUS
  <2>1. types[s].id = None /\ types[s].owner = "none" /\ author[s] = None /\ ids = 0
    BY DEF Init, NoRow
  <2> QED  BY <2>1 DEF RowInv, Present, None
<1>4. \A i \in Isolates : PassInv(i)
  BY DEF Init, PassInv, Idle
<1> QED  BY <1>1, <1>2, <1>3, <1>4 DEF TypesInv

LEMMA BootKeeps ==
  ASSUME TypesInv, NEW i \in Isolates, boot(i)
  PROVE  TypesInv'
<1> PICK deploy \in Deploys, owner \in Owners :
         iso' = [iso EXCEPT ![i] =
            [pc |-> IF DOMAIN Decl[deploy][owner] = {} THEN "sweep" ELSE "read",
             deploy |-> deploy, owner |-> owner,
             todo |-> DOMAIN Decl[deploy][owner], slug |-> "none", row |-> None, excused |-> {}]]
  BY DEF boot
<1> DEFINE slugs == DOMAIN Decl[deploy][owner]
           q == [pc |-> IF slugs = {} THEN "sweep" ELSE "read", deploy |-> deploy, owner |-> owner,
                 todo |-> slugs, slug |-> "none", row |-> None, excused |-> {}]
<1>1. slugs \subseteq Slugs
  BY TypeRegistryAssumption DEF TypeRegistryAssumption
<1>2. q \in Pass
  BY <1>1 DEF Pass, None
<1>3. iso'[i] = q => PassInv(i)'
  BY DEF PassInv, Reconciled, Declares
<1>4. iso' = [iso EXCEPT ![i] = q]
  OBVIOUS
<1>5. UNCHANGED <<types, ids, used, del, author>>
  BY DEF boot
<1> QED  BY <1>2, <1>3, <1>4, <1>5, OneMoves

LEMMA ReadKeeps ==
  ASSUME TypesInv, NEW i \in Isolates, readRow(i)
  PROVE  TypesInv'
<1> PICK s \in iso[i].todo :
       iso' = [iso EXCEPT ![i] =
         IF ~Present(s) THEN Writes(i, "insert", s)
         ELSE IF notMine(i, types[s]) \/ types[s].def = Declares(i)[s] THEN NextDef(i, s)
         ELSE Writes(i, "update", s)]
  BY DEF readRow
<1> DEFINE p == iso[i]
<1>1. /\ p \in Pass /\ p.deploy \in Deploys /\ p.owner \in Owners /\ p.owner # "none"
      /\ p.todo \subseteq DOMAIN Declares(i) /\ DOMAIN Declares(i) \subseteq Slugs
      /\ Reconciled(i) /\ s \in Slugs
      /\ UNCHANGED <<types, ids, used, del, author>>
  BY PassIs DEF readRow
<1>2. TypesTyped /\ RowInv(s) /\ p.todo \in SUBSET Slugs
  BY <1>1 DEF TypesInv
<1>3. CASE ~Present(s)
  <2> DEFINE q == Writes(i, "insert", s)
  <2>1. q \in Pass
    BY <1>1, <1>2, StandsIsAPass DEF Writes
  <2>2. iso'[i] = q => PassInv(i)'
    <3> SUFFICES ASSUME iso'[i] = q  PROVE PassInv(i)'
      OBVIOUS
    <3>1. /\ iso'[i].pc = "insert" /\ iso'[i].deploy = p.deploy /\ iso'[i].owner = p.owner
          /\ iso'[i].todo = p.todo /\ iso'[i].slug = s /\ iso'[i].excused = p.excused
      BY DEF Writes, Stands
    <3>2. Reconciled(i)'
      BY <1>1, <3>1 DEF Reconciled, Declares, Present
    <3> QED  BY <1>1, <3>1, <3>2 DEF PassInv, Declares
  <2> QED  BY <1>1, <1>3, <2>1, <2>2, OneMoves
<1>4. CASE Present(s) /\ (notMine(i, types[s]) \/ types[s].def = Declares(i)[s])
  <2> DEFINE q == NextDef(i, s)
  <2>1. q \in Pass
    <3>1. p.todo \ {s} \in SUBSET Slugs
      BY <1>2
    <3> QED  BY <1>2, <3>1, StandsIsAPass DEF NextDef, Goes
  <2>2. iso'[i] = q => PassInv(i)'
    <3> SUFFICES ASSUME iso'[i] = q  PROVE PassInv(i)'
      OBVIOUS
    <3>1. /\ iso'[i].pc = (IF p.todo = {s} THEN "sweep" ELSE "read")
          /\ iso'[i].deploy = p.deploy /\ iso'[i].owner = p.owner
          /\ iso'[i].todo = p.todo \ {s} /\ iso'[i].excused = p.excused
      BY DEF NextDef, Goes, Stands
    <3>2. Reconciled(i)'
      BY <1>1, <1>4, <3>1 DEF Reconciled, Declares, Present, notMine
    <3>3. iso'[i].todo \subseteq DOMAIN Declares(i)'
      BY <1>1, <3>1 DEF Declares
    <3> HIDE DEF p
    <3> QED  BY <1>1, <3>1, <3>2, <3>3 DEF PassInv
  <2> QED  BY <1>1, <1>4, <2>1, <2>2, OneMoves
<1>5. CASE Present(s) /\ ~(notMine(i, types[s]) \/ types[s].def = Declares(i)[s])
  <2> DEFINE q == Writes(i, "update", s)
  <2>1. q \in Pass
    BY <1>1, <1>2, StandsIsAPass DEF Writes
  <2>2. iso'[i] = q => PassInv(i)'
    <3> SUFFICES ASSUME iso'[i] = q  PROVE PassInv(i)'
      OBVIOUS
    <3>1. /\ iso'[i].pc = "update" /\ iso'[i].deploy = p.deploy /\ iso'[i].owner = p.owner
          /\ iso'[i].todo = p.todo /\ iso'[i].slug = s /\ iso'[i].row = types[s].id
          /\ iso'[i].excused = p.excused
      BY DEF Writes, Stands
    <3>2. types[s].owner = p.owner /\ author[s] = None
      BY <1>1, <1>2, <1>5 DEF notMine, RowInv
    <3>3. Updating(i)'
      BY <1>1, <1>2, <1>5, <3>1, <3>2 DEF Updating, RowInv, Present
    <3>4. Reconciled(i)'
      BY <1>1, <3>1 DEF Reconciled, Declares, Present
    <3> QED  BY <1>1, <3>1, <3>3, <3>4 DEF PassInv, Declares
  <2> QED  BY <1>1, <1>5, <2>1, <2>2, OneMoves
<1> QED  BY <1>3, <1>4, <1>5

(* One row made, rewritten or done away with.                              *)
RowChanges(s, row, a) ==
  \/ Present(s) /\ row.id = types[s].id /\ row.owner \in {types[s].owner, "none"}
       /\ ids' = ids /\ (author[s] = None => a = None)
  \/ ~Present(s) /\ row.id = ids + 1 /\ ids' = ids + 1
  \/ row = NoRow /\ a = None /\ ids' = ids /\ types[s].id \notin used

LEMMA OneRow ==
  ASSUME TypesInv, NEW s \in Slugs, NEW row \in TypeRow, NEW a \in Defs \cup {None},
         types' = [types EXCEPT ![s] = row], author' = [author EXCEPT ![s] = a],
         used' = used, del' \in {del, NoRow}, RowChanges(s, row, a),
         a # None => row.def = a /\ row.owner = "none"
  PROVE  /\ types' \in [Slugs -> TypeRow] /\ author' \in [Slugs -> Defs \cup {None}]
         /\ ids' \in Nat /\ del' \in TypeRow
         /\ DelInv' /\ UsedTypesStay' /\ \A t \in Slugs : RowInv(t)'
         /\ Evolves({s})
<1>1. /\ types \in [Slugs -> TypeRow] /\ author \in [Slugs -> Defs \cup {None}] /\ ids \in Nat
      /\ used \subseteq Nat \ {None} /\ del \in TypeRow /\ DelInv /\ UsedTypesStay
      /\ \A t \in Slugs : RowInv(t)
  BY DEF TypesInv, TypesTyped
<1>2. /\ types'[s] = row /\ author'[s] = a
      /\ \A t \in Slugs : t # s => types'[t] = types[t] /\ author'[t] = author[t]
      /\ types' \in [Slugs -> TypeRow] /\ author' \in [Slugs -> Defs \cup {None}]
  BY <1>1
<1>3. \A t \in Slugs : types[t] \in TypeRow /\ types[t].id \in Nat /\ types[t].id <= ids
  BY <1>1 DEF TypeRow, RowInv
<1>4. NoRow \in TypeRow /\ NoRow.id = None /\ NoRow.owner = "none"
  BY DEF NoRow, TypeRow, None
<1>5. ids' \in Nat /\ ids <= ids' /\ del' \in TypeRow /\ row.id \in Nat /\ row.id <= ids'
  BY <1>1, <1>3, <1>4 DEF RowChanges, TypeRow, None
<1>6. DelInv'
  <2> SUFFICES ASSUME del' # NoRow, del' = del, del.id # None, del.id <= ids,
                      \A t \in Slugs : types[t].id = del.id => types[t].owner = "none",
                      NEW t \in Slugs, types'[t].id = del.id
               PROVE  types'[t].owner = "none"
    <3>1. del.id \in Nat
      BY <1>1 DEF TypeRow
    <3> QED  BY <1>1, <1>5, <3>1 DEF DelInv
  <2>1. CASE t # s
    BY <1>2, <2>1
  <2>2. CASE t = s
    BY <1>1, <1>2, <1>3, <1>4, <2>2 DEF RowChanges, TypeRow
  <2> QED  BY <2>1, <2>2
<1>7. UsedTypesStay'
  <2> SUFFICES ASSUME NEW id \in used  PROVE RowOf(id)' # {}
    BY DEF UsedTypesStay
  <2>1. PICK t \in Slugs : types[t].id = id
    BY <1>1 DEF UsedTypesStay, RowOf
  <2>2. types'[t].id = id
    BY <1>1, <1>2, <2>1 DEF RowChanges, Present
  <2> QED  BY <2>2 DEF RowOf
<1>8. \A t \in Slugs : RowInv(t)'
  <2> SUFFICES ASSUME NEW t \in Slugs  PROVE RowInv(t)'
    OBVIOUS
  <2>1. types'[t].id <= ids'
    BY <1>1, <1>2, <1>3, <1>5
  <2>2. ASSUME NEW u \in Slugs, Present(t)', types'[u].id = types'[t].id  PROVE u = t
    <3>1. CASE t # s /\ u # s
      BY <1>1, <1>2, <2>2, <3>1 DEF RowInv, Present
    <3>2. CASE t = s /\ u # s
      BY <1>1, <1>2, <1>3, <1>4, <2>2, <3>2 DEF RowInv, Present, RowChanges
    <3>3. CASE t # s /\ u = s
      BY <1>1, <1>2, <1>3, <1>4, <2>2, <3>3 DEF RowInv, Present, RowChanges
    <3> QED  BY <3>1, <3>2, <3>3
  <2>3. ~Present(t)' => types'[t].owner = "none" /\ author'[t] = None
    <3>1. CASE t # s
      BY <1>1, <1>2, <3>1 DEF RowInv, Present
    <3>2. CASE t = s
      BY <1>1, <1>2, <1>4, <3>2 DEF Present, RowChanges, None
    <3> QED  BY <3>1, <3>2
  <2>4. author'[t] # None => types'[t].def = author'[t] /\ types'[t].owner = "none"
    BY <1>1, <1>2 DEF RowInv
  <2> QED  BY <2>1, <2>2, <2>3, <2>4 DEF RowInv
<1>9. Evolves({s})
  <2>1. \A t \in Slugs \ {s} : types'[t] = types[t] /\ author'[t] = author[t]
    BY <1>2
  <2>2. ASSUME NEW t \in Slugs, types'[t].id # None, types'[t].id <= ids
        PROVE  /\ types'[t].id = types[t].id
               /\ types'[t].owner \in {types[t].owner, "none"}
               /\ author[t] = None => author'[t] = None
    <3>1. CASE t # s
      BY <1>2, <3>1
    <3>2. CASE t = s
      BY <1>1, <1>2, <1>3, <1>4, <2>2, <3>2 DEF RowChanges
    <3> QED  BY <3>1, <3>2
  <2> QED  BY <1>5, <2>1, <2>2 DEF Evolves
<1> QED  BY <1>2, <1>5, <1>6, <1>7, <1>8, <1>9

LEMMA InsertKeeps ==
  ASSUME TypesInv, NEW i \in Isolates, insertRow(i)
  PROVE  TypesInv'
<1> DEFINE p == iso[i]
           s == p.slug
           row == [id |-> ids + 1, def |-> Declares(i)[s], owner |-> p.owner]
           q == NextDef(i, s)
<1>1. /\ p \in Pass /\ p.deploy \in Deploys /\ p.owner \in Owners /\ p.owner # "none"
      /\ p.todo \subseteq DOMAIN Declares(i) /\ DOMAIN Declares(i) \subseteq Slugs
      /\ Reconciled(i) /\ s \in Slugs /\ s \in p.todo /\ Declares(i)[s] \in Defs
  BY PassIs DEF insertRow
<1>2. /\ types' = [types EXCEPT ![s] = row] /\ ids' = ids + 1 /\ ~Present(s)
      /\ Changed(i, {s}, q) /\ UNCHANGED <<used, del, author>>
  BY DEF insertRow
<1>3. TypesTyped /\ RowInv(s) /\ ids \in Nat /\ author \in [Slugs -> Defs \cup {None}]
  BY <1>1 DEF TypesInv, TypesTyped
<1>4. row \in TypeRow /\ row.id = ids + 1 /\ row.owner = p.owner /\ row.def = Declares(i)[s]
  BY <1>1, <1>3 DEF TypeRow
<1>5. author[s] = None /\ author' = [author EXCEPT ![s] = None]
  BY <1>1, <1>2, <1>3 DEF RowInv
<1>6. RowChanges(s, row, None)
  BY <1>2, <1>4 DEF RowChanges
<1>7. /\ types' \in [Slugs -> TypeRow] /\ author' \in [Slugs -> Defs \cup {None}]
      /\ ids' \in Nat /\ del' \in TypeRow
      /\ DelInv' /\ UsedTypesStay' /\ (\A t \in Slugs : RowInv(t)')
      /\ Evolves({s})
  <2> HIDE DEF p, s, row
  <2> QED  BY <1>1, <1>2, <1>4, <1>5, <1>6, OneRow
<1>8. q \in Pass
  <2>1. p.todo \ {s} \in SUBSET Slugs
    BY <1>1
  <2> QED  BY <1>3, <2>1, StandsIsAPass DEF NextDef, Goes
<1>9. /\ iso' \in [Isolates -> Pass] /\ iso'[i] = q
      /\ \A j \in Isolates : j # i => PassInv(j)'
  <2> HIDE DEF p, s, q
  <2> QED  BY <1>1, <1>2, <1>7, <1>8, ChangedKeeps
<1>10. PassInv(i)'
  <2>1. /\ iso'[i].pc = (IF p.todo = {s} THEN "sweep" ELSE "read")
        /\ iso'[i].deploy = p.deploy /\ iso'[i].owner = p.owner
        /\ iso'[i].todo = p.todo \ {s} /\ iso'[i].excused = p.excused
    BY <1>9 DEF NextDef, Goes, Stands
  <2>2. types'[s] = row /\ \A t \in Slugs : t # s => types'[t] = types[t]
    BY <1>1, <1>2, <1>3 DEF TypesTyped
  <2>3. Declares(i)' = Declares(i)
    BY <2>1 DEF Declares
  <2>4. Reconciled(i)'
    <3> SUFFICES ASSUME NEW t \in DOMAIN Declares(i), t \notin p.todo \ {s}, t \notin p.excused
                 PROVE  types'[t].id # None /\ (types'[t].owner = p.owner => types'[t].def = Declares(i)[t])
      BY <2>1, <2>3 DEF Reconciled, Present
    <3>1. CASE t = s
      BY <1>3, <1>4, <2>2, <3>1 DEF None
    <3>2. CASE t # s
      BY <1>1, <2>2, <3>2 DEF Reconciled, Present
    <3> QED  BY <3>1, <3>2
  <2>5. iso'[i].todo \subseteq DOMAIN Declares(i)'
    BY <1>1, <2>1, <2>3
  <2> HIDE DEF p, s, row, q
  <2> QED  BY <1>1, <2>1, <2>4, <2>5 DEF PassInv
<1>11. used' \subseteq Nat \ {None}
  BY <1>2, <1>3 DEF TypesTyped
<1> QED  BY <1>7, <1>9, <1>10, <1>11 DEF TypesInv, TypesTyped

LEMMA UpdateKeeps ==
  ASSUME TypesInv, NEW i \in Isolates, updateRow(i)
  PROVE  TypesInv'
<1> DEFINE p == iso[i]
           s == p.slug
           slugs == RowOf(p.row)
           row == [types[s] EXCEPT !.def = Declares(i)[s]]
           q == NextDef(i, s)
<1>1. /\ p \in Pass /\ p.deploy \in Deploys /\ p.owner \in Owners /\ p.owner # "none"
      /\ p.todo \subseteq DOMAIN Declares(i) /\ DOMAIN Declares(i) \subseteq Slugs
      /\ Reconciled(i) /\ s \in Slugs /\ s \in p.todo /\ Declares(i)[s] \in Defs
      /\ Updating(i)
  BY PassIs DEF updateRow
<1>2. /\ types' = [t \in Slugs |-> IF t \in slugs THEN [types[t] EXCEPT !.def = Declares(i)[s]]
                                   ELSE types[t]]
      /\ Changed(i, slugs, q) /\ UNCHANGED <<ids, used, del, author>>
  BY DEF updateRow
<1>3. /\ TypesTyped /\ RowInv(s) /\ ids \in Nat /\ author \in [Slugs -> Defs \cup {None}]
      /\ types \in [Slugs -> TypeRow] /\ DelInv /\ UsedTypesStay /\ \A t \in Slugs : RowInv(t)
      /\ del \in TypeRow
  BY <1>1 DEF TypesInv, TypesTyped
<1>4. slugs \subseteq {s} /\ slugs \in SUBSET Slugs /\ s \in p.excused \cup slugs
  BY <1>1 DEF Updating, RowOf
<1>5. /\ types' \in [Slugs -> TypeRow] /\ author' \in [Slugs -> Defs \cup {None}]
      /\ ids' \in Nat /\ del' \in TypeRow
      /\ DelInv' /\ UsedTypesStay' /\ (\A t \in Slugs : RowInv(t)')
      /\ Evolves(slugs)
      /\ (\A t \in Slugs : t # s => types'[t] = types[t])
      /\ types'[s].id = types[s].id
      /\ s \in slugs => types'[s].def = Declares(i)[s] /\ types'[s].owner = types[s].owner /\ Present(s)
  <2>1. CASE slugs = {}
    <3>1. types' = types
      BY <1>2, <1>3, <2>1
    <3>2. Evolves(slugs)
      BY <1>2, <1>3, <3>1 DEF Evolves
    <3>3. DelInv' /\ UsedTypesStay' /\ \A t \in Slugs : RowInv(t)'
      <4>1. DelInv'
        BY <1>2, <1>3, <3>1 DEF DelInv
      <4>2. UsedTypesStay'
        BY <1>2, <1>3, <3>1 DEF UsedTypesStay, RowOf
      <4>3. \A t \in Slugs : RowInv(t)'
        <5> SUFFICES ASSUME NEW t \in Slugs PROVE RowInv(t)'
          OBVIOUS
        <5>1. ids' = ids /\ author' = author /\ RowInv(t)
          BY <1>2, <1>3
        <5> HIDE DEF p, s, slugs, row, q
        <5> QED  BY <3>1, <5>1 DEF RowInv, Present
      <4> QED  BY <4>1, <4>2, <4>3
    <3> QED  BY <1>2, <1>3, <2>1, <3>1, <3>2, <3>3
  <2>2. CASE slugs = {s}
    <3>1. /\ row \in TypeRow /\ row.id = types[s].id /\ row.owner = types[s].owner
          /\ row.def = Declares(i)[s]
      BY <1>1, <1>3 DEF TypeRow
    <3>2. types' = [types EXCEPT ![s] = row]
      BY <1>1, <1>2, <1>3, <2>2
    <3>3. types[s].id = p.row /\ Present(s) /\ author[s] = None
      BY <1>1, <2>2 DEF RowOf, Updating, Present
    <3>4. author' = [author EXCEPT ![s] = None]
      BY <1>1, <1>2, <1>3, <3>3
    <3>5. RowChanges(s, row, None)
      BY <1>2, <3>1, <3>3 DEF RowChanges
    <3>6. /\ types' \in [Slugs -> TypeRow] /\ author' \in [Slugs -> Defs \cup {None}]
          /\ ids' \in Nat /\ del' \in TypeRow
          /\ DelInv' /\ UsedTypesStay' /\ (\A t \in Slugs : RowInv(t)')
          /\ Evolves({s})
      <4> HIDE DEF p, s, row
      <4> QED  BY <1>1, <1>2, <3>1, <3>2, <3>4, <3>5, OneRow
    <3>7. types'[s] = row /\ \A t \in Slugs : t # s => types'[t] = types[t]
      BY <1>1, <1>3, <3>2
    <3> HIDE DEF slugs, row, s
    <3> QED  BY <2>2, <3>1, <3>3, <3>6, <3>7
  <2> QED  BY <1>4, <2>1, <2>2
<1>6. q \in Pass
  <2>1. p.todo \ {s} \in SUBSET Slugs
    BY <1>1
  <2> QED  BY <1>3, <2>1, StandsIsAPass DEF NextDef, Goes
<1>7. /\ iso' \in [Isolates -> Pass] /\ iso'[i] = q
      /\ \A j \in Isolates : j # i => PassInv(j)'
  <2> HIDE DEF p, s, q, slugs
  <2> QED  BY <1>2, <1>4, <1>5, <1>6, ChangedKeeps
<1>8. PassInv(i)'
  <2>1. /\ iso'[i].pc = (IF p.todo = {s} THEN "sweep" ELSE "read")
        /\ iso'[i].deploy = p.deploy /\ iso'[i].owner = p.owner
        /\ iso'[i].todo = p.todo \ {s} /\ iso'[i].excused = p.excused
    BY <1>7 DEF NextDef, Goes, Stands
  <2>2. Declares(i)' = Declares(i)
    BY <2>1 DEF Declares
  <2>3. Reconciled(i)'
    <3> SUFFICES ASSUME NEW t \in DOMAIN Declares(i), t \notin p.todo \ {s}, t \notin p.excused
                 PROVE  types'[t].id # None /\ (types'[t].owner = p.owner => types'[t].def = Declares(i)[t])
      BY <2>1, <2>2 DEF Reconciled, Present
    <3>1. CASE t = s
      <4> HIDE DEF slugs, p, s, row, q
      <4> QED  BY <1>4, <1>5, <3>1 DEF Present
    <3>2. CASE t # s
      BY <1>1, <1>5, <3>2 DEF Reconciled, Present
    <3> QED  BY <3>1, <3>2
  <2>4. iso'[i].todo \subseteq DOMAIN Declares(i)'
    BY <1>1, <2>1, <2>2
  <2> HIDE DEF p, s, row, q, slugs
  <2> QED  BY <1>1, <2>1, <2>3, <2>4 DEF PassInv
<1>9. used' \subseteq Nat \ {None}
  BY <1>2, <1>3 DEF TypesTyped
<1> QED  BY <1>5, <1>7, <1>8, <1>9 DEF TypesInv, TypesTyped

LEMMA FailKeeps ==
  ASSUME TypesInv, NEW i \in Isolates, writeFails(i)
  PROVE  TypesInv'
<1> DEFINE p == iso[i]
           s == p.slug
           n == NextDef(i, s)
           q == [n EXCEPT !.excused = @ \cup {s}]
<1>1. /\ p \in Pass /\ p.deploy \in Deploys /\ p.owner \in Owners
      /\ p.todo \subseteq DOMAIN Declares(i) /\ DOMAIN Declares(i) \subseteq Slugs
      /\ Reconciled(i) /\ s \in Slugs /\ s \in p.todo
  BY PassIs DEF writeFails
<1>2. n \in Pass
  <2>1. p.todo \ {s} \in SUBSET Slugs /\ TypesTyped
    BY <1>1 DEF TypesInv
  <2> QED  BY <2>1, StandsIsAPass DEF NextDef, Goes
<1>3. /\ n.pc = (IF p.todo = {s} THEN "sweep" ELSE "read") /\ n.deploy = p.deploy
      /\ n.owner = p.owner /\ n.todo = p.todo \ {s} /\ n.excused = p.excused
  BY DEF NextDef, Goes, Stands
<1>4. /\ q \in Pass /\ q.pc = n.pc /\ q.deploy = n.deploy /\ q.owner = n.owner /\ q.todo = n.todo
      /\ q.excused = n.excused \cup {s}
  <2> HIDE DEF n, s
  <2> QED  BY <1>1, <1>2 DEF Pass
<1>5. iso' = [iso EXCEPT ![i] = q] /\ UNCHANGED <<types, ids, used, del, author>>
  BY DEF writeFails, caught
<1>6. iso'[i] = q => PassInv(i)'
  <2> SUFFICES ASSUME iso'[i] = q  PROVE PassInv(i)'
    OBVIOUS
  <2>1. /\ iso'[i].pc = (IF p.todo = {s} THEN "sweep" ELSE "read")
        /\ iso'[i].deploy = p.deploy /\ iso'[i].owner = p.owner
        /\ iso'[i].todo = p.todo \ {s} /\ iso'[i].excused = p.excused \cup {s}
    BY <1>3, <1>4
  <2>2. Declares(i)' = Declares(i)
    BY <2>1 DEF Declares
  <2>3. Reconciled(i)'
    BY <1>1, <1>5, <2>1, <2>2 DEF Reconciled, Present
  <2>4. iso'[i].todo \subseteq DOMAIN Declares(i)'
    BY <1>1, <2>1, <2>2
  <2> HIDE DEF p, s, q, n
  <2> QED  BY <1>1, <2>1, <2>3, <2>4 DEF PassInv
<1> HIDE DEF q
<1> QED  BY <1>4, <1>5, <1>6, OneMoves

LEMMA ReleaseKeeps ==
  ASSUME TypesInv, NEW i \in Isolates, release(i)
  PROVE  TypesInv'
<1> DEFINE p == iso[i]
<1>1. /\ p \in Pass /\ p.pc = "sweep" /\ p.deploy \in Deploys /\ p.owner \in Owners /\ p.owner # "none"
      /\ DOMAIN Declares(i) \subseteq Slugs /\ p.todo = {} /\ Reconciled(i)
      /\ UNCHANGED <<ids, used, del, author>>
  BY PassIs DEF release
<1>2. /\ TypesTyped /\ ids \in Nat /\ author \in [Slugs -> Defs \cup {None}]
      /\ types \in [Slugs -> TypeRow] /\ used \subseteq Nat \ {None}
      /\ \A t \in Slugs : RowInv(t)
  BY DEF TypesInv, TypesTyped
<1>3. CASE undeclared(i) = {}
  <2> DEFINE q == Goes(i, "swept", {})
  <2>1. iso' = [iso EXCEPT ![i] = q] /\ UNCHANGED types
    BY <1>3 DEF release
  <2>2. q \in Pass
    BY <1>2, StandsIsAPass DEF Goes
  <2>3. iso'[i] = q => PassInv(i)'
    <3> SUFFICES ASSUME iso'[i] = q  PROVE PassInv(i)'
      OBVIOUS
    <3>1. /\ iso'[i].pc = "swept" /\ iso'[i].deploy = p.deploy /\ iso'[i].owner = p.owner
          /\ iso'[i].todo = {} /\ iso'[i].excused = p.excused
      BY DEF Goes, Stands
    <3>2. Declares(i)' = Declares(i)
      BY <3>1 DEF Declares
    <3>3. Reconciled(i)'
      BY <1>1, <2>1, <3>1, <3>2 DEF Reconciled, Present
    <3>4. Released(i)'
      BY <1>3, <2>1, <3>1, <3>2 DEF Released, undeclared
    <3> HIDE DEF p, q
    <3> QED  BY <1>1, <3>1, <3>3, <3>4 DEF PassInv
  <2> HIDE DEF q
  <2> QED  BY <1>1, <2>1, <2>2, <2>3, OneMoves
<1>4. CASE undeclared(i) # {}
  <2> PICK s \in undeclared(i) :
           types' = [types EXCEPT ![s].owner = "none"] /\ Changed(i, {s}, iso[i])
    BY <1>4 DEF release
  <2> DEFINE row == [types[s] EXCEPT !.owner = "none"]
  <2>1. s \in Slugs /\ types[s].owner = p.owner /\ s \notin DOMAIN Declares(i)
    BY DEF undeclared
  <2>2. /\ row \in TypeRow /\ row.id = types[s].id /\ row.owner = "none"
        /\ types' = [types EXCEPT ![s] = row]
    BY <1>2, <2>1 DEF TypeRow
  <2>3. Present(s) /\ author[s] = None
    BY <1>1, <1>2, <2>1 DEF RowInv
  <2>4. author' = [author EXCEPT ![s] = None] /\ RowChanges(s, row, None)
    BY <1>1, <1>2, <2>1, <2>2, <2>3 DEF RowChanges
  <2>5. types'[s] = row /\ \A t \in Slugs : t # s => types'[t] = types[t]
    BY <1>2, <2>1, <2>2
  <2> HIDE DEF row
  <2>6. /\ types' \in [Slugs -> TypeRow] /\ author' \in [Slugs -> Defs \cup {None}]
        /\ ids' \in Nat /\ del' \in TypeRow
        /\ DelInv' /\ UsedTypesStay' /\ (\A t \in Slugs : RowInv(t)')
        /\ Evolves({s})
    BY <1>1, <2>1, <2>2, <2>4, OneRow
  <2>7. /\ iso' \in [Isolates -> Pass] /\ iso'[i] = p
        /\ \A j \in Isolates : j # i => PassInv(j)'
    BY <1>1, <2>1, <2>6, ChangedKeeps
  <2>8. PassInv(i)'
    <3>1. Declares(i)' = Declares(i)
      BY <2>7 DEF Declares
    <3>2. Reconciled(i)'
      BY <1>1, <2>1, <2>5, <2>7, <3>1 DEF Reconciled, Present
    <3> QED  BY <1>1, <2>7, <3>2 DEF PassInv
  <2> QED  BY <1>1, <1>2, <2>6, <2>7, <2>8 DEF TypesInv, TypesTyped
<1> QED  BY <1>3, <1>4

LEMMA GoneKeeps ==
  ASSUME TypesInv, NEW i \in Isolates, gone(i)
  PROVE  TypesInv'
<1>1. iso' = [iso EXCEPT ![i] = Idle] /\ UNCHANGED <<types, ids, used, del, author>>
  BY DEF gone
<1>2. iso'[i] = Idle => PassInv(i)'
  BY DEF PassInv, Idle
<1> QED  BY <1>1, <1>2, IdleIsAPass, OneMoves

-----------------------------------------------------------------------------
(* Editors.                                                                *)

(* An editor's statement at one slug, which no isolate runs.               *)
LEMMA EditKeeps ==
  ASSUME TypesInv, NEW s \in Slugs, NEW row \in TypeRow, NEW a \in Defs \cup {None},
         types' = [types EXCEPT ![s] = row], author' = [author EXCEPT ![s] = a],
         used' = used, del' \in {del, NoRow}, RowChanges(s, row, a),
         a # None => row.def = a /\ row.owner = "none", Changed(None, {s}, Idle)
  PROVE  TypesInv'
<1>1. /\ types' \in [Slugs -> TypeRow] /\ author' \in [Slugs -> Defs \cup {None}]
      /\ ids' \in Nat /\ del' \in TypeRow
      /\ DelInv' /\ UsedTypesStay' /\ (\A t \in Slugs : RowInv(t)')
      /\ Evolves({s})
  BY OneRow
<1>2. iso' \in [Isolates -> Pass] /\ \A j \in Isolates : j # None => PassInv(j)'
  BY <1>1, IdleIsAPass, ChangedKeeps
<1>3. \A j \in Isolates : PassInv(j)'
  BY <1>2, TypeRegistryAssumption DEF TypeRegistryAssumption
<1> QED  BY <1>1, <1>2, <1>3 DEF TypesInv, TypesTyped

LEMMA CreateKeeps ==
  ASSUME TypesInv, NEW s \in Slugs, createBlockType(s)
  PROVE  TypesInv'
<1> PICK def \in Defs :
       /\ types' = [types EXCEPT ![s] = [id |-> ids + 1, def |-> def, owner |-> "none"]]
       /\ author' = [author EXCEPT ![s] = def]
  BY DEF createBlockType
<1> DEFINE row == [id |-> ids + 1, def |-> def, owner |-> "none"]
<1>1. ids \in Nat
  BY DEF TypesInv, TypesTyped
<1>2. row \in TypeRow /\ RowChanges(s, row, def)
  BY <1>1 DEF TypeRow, RowChanges, createBlockType
<1>3. row.def = def /\ row.owner = "none" /\ types' = [types EXCEPT ![s] = row]
  OBVIOUS
<1>4. used' = used /\ del' = del /\ Changed(None, {s}, Idle)
  BY DEF createBlockType
<1> HIDE DEF row
<1> QED  BY <1>2, <1>3, <1>4, EditKeeps

LEMMA EditTypeKeeps ==
  ASSUME TypesInv, NEW s \in Slugs, updateBlockType(s)
  PROVE  TypesInv'
<1> PICK def \in Defs :
       /\ types' = [types EXCEPT ![s].def = def]
       /\ author' = [author EXCEPT ![s] = IF @ = None THEN None ELSE def]
  BY DEF updateBlockType
<1> DEFINE row == [types[s] EXCEPT !.def = def]
           a == IF author[s] = None THEN None ELSE def
<1>1. types \in [Slugs -> TypeRow] /\ types[s] \in TypeRow /\ Present(s) /\ types[s].owner = "none"
  BY DEF TypesInv, TypesTyped, updateBlockType, editable
<1>2. /\ row \in TypeRow /\ row.id = types[s].id /\ row.owner = "none" /\ row.def = def
      /\ types' = [types EXCEPT ![s] = row]
  BY <1>1 DEF TypeRow
<1>3. used' = used /\ del' = del /\ ids' = ids /\ Changed(None, {s}, Idle)
  BY DEF updateBlockType
<1>4. a \in Defs \cup {None} /\ (a # None => a = def) /\ (author[s] = None => a = None)
      /\ author' = [author EXCEPT ![s] = a]
  OBVIOUS
<1> HIDE DEF row, a
<1>5. RowChanges(s, row, a)
  BY <1>1, <1>2, <1>3, <1>4 DEF RowChanges
<1> QED  BY <1>2, <1>3, <1>4, <1>5, EditKeeps

LEMMA ChecksKeep ==
  ASSUME TypesInv, NEW s \in Slugs, deleteChecks(s)
  PROVE  TypesInv'
<1>1. /\ TypesTyped /\ UsedTypesStay /\ (\A t \in Slugs : RowInv(t)) /\ (\A i \in Isolates : PassInv(i))
      /\ types[s] \in TypeRow /\ ids \in Nat
  BY DEF TypesInv, TypesTyped
<1>2. del' = types[s] /\ UNCHANGED <<types, ids, used, iso, author>> /\ Present(s)
      /\ types[s].owner = "none"
  BY DEF deleteChecks, editable
<1>3. TypesTyped'
  BY <1>1, <1>2 DEF TypesTyped
<1>4. DelInv'
  BY <1>1, <1>2 DEF DelInv, RowInv, Present
<1>5. UsedTypesStay' /\ \A t \in Slugs : RowInv(t)'
  BY <1>1, <1>2 DEF UsedTypesStay, RowOf, RowInv, Present
<1>6. \A i \in Isolates : PassInv(i)'
  BY <1>1, <1>2 DEF PassInv, Reconciled, Updating, Released, Declares, Present
<1> QED  BY <1>3, <1>4, <1>5, <1>6 DEF TypesInv

LEMMA AddBlockKeeps ==
  ASSUME TypesInv, NEW s \in Slugs, addBlock(s)
  PROVE  TypesInv'
<1>1. /\ TypesTyped /\ DelInv /\ UsedTypesStay /\ (\A t \in Slugs : RowInv(t))
      /\ (\A i \in Isolates : PassInv(i)) /\ types[s].id \in Nat
  BY DEF TypesInv, TypesTyped, TypeRow
<1>2. /\ used' \in {used \cup {types[s].id}, used \ {types[s].id}} /\ types[s].id # None
      /\ UNCHANGED <<types, ids, del, iso, author>>
  BY DEF addBlock, Present
<1>3. TypesTyped'
  BY <1>1, <1>2 DEF TypesTyped
<1>4. UsedTypesStay'
  BY <1>1, <1>2 DEF UsedTypesStay, RowOf
<1>5. DelInv' /\ \A t \in Slugs : RowInv(t)'
  BY <1>1, <1>2 DEF DelInv, RowInv, Present
<1>6. \A i \in Isolates : PassInv(i)'
  BY <1>1, <1>2 DEF PassInv, Reconciled, Updating, Released, Declares, Present
<1> QED  BY <1>3, <1>4, <1>5, <1>6 DEF TypesInv

LEMMA DeleteTypeKeeps ==
  ASSUME TypesInv, deleteType
  PROVE  TypesInv'
<1> DEFINE slugs == RowOf(del.id)
<1>1. /\ TypesTyped /\ DelInv /\ UsedTypesStay /\ (\A t \in Slugs : RowInv(t))
      /\ (\A i \in Isolates : PassInv(i))
      /\ types \in [Slugs -> TypeRow] /\ author \in [Slugs -> Defs \cup {None}]
      /\ NoRow \in TypeRow /\ del # NoRow
  BY DEF TypesInv, TypesTyped, NoRow, TypeRow, None, deleteType
<1>2. del' = NoRow /\ UNCHANGED <<ids, used>>
  BY DEF deleteType
<1>3. CASE slugs # {} /\ unreferenced(del.id)
  <2>1. /\ types' = [s \in Slugs |-> IF s \in slugs THEN NoRow ELSE types[s]]
        /\ author' = [s \in Slugs |-> IF s \in slugs THEN None ELSE author[s]]
        /\ Changed(None, slugs, Idle)
    BY <1>3 DEF deleteType
  <2> PICK s \in slugs : TRUE
    BY <1>3
  <2>2. s \in Slugs /\ types[s].id = del.id /\ del.id # None
    BY <1>1 DEF RowOf, DelInv
  <2>3. slugs = {s}
    BY <1>1, <2>2 DEF RowOf, RowInv, Present
  <2>4. types' = [types EXCEPT ![s] = NoRow] /\ author' = [author EXCEPT ![s] = None]
    BY <1>1, <2>1, <2>2, <2>3
  <2>5. RowChanges(s, NoRow, None)
    BY <1>2, <1>3, <2>2 DEF RowChanges, unreferenced
  <2> HIDE DEF slugs
  <2> QED  BY <1>1, <1>2, <2>1, <2>2, <2>3, <2>4, <2>5, EditKeeps
<1>4. CASE ~(slugs # {} /\ unreferenced(del.id))
  <2>1. UNCHANGED <<types, iso, author>>
    BY <1>4 DEF deleteType
  <2>2. TypesTyped' /\ DelInv' /\ UsedTypesStay' /\ \A t \in Slugs : RowInv(t)'
    BY <1>1, <1>2, <2>1 DEF TypesTyped, DelInv, UsedTypesStay, RowOf, RowInv, Present
  <2>3. \A i \in Isolates : PassInv(i)'
    BY <1>1, <1>2, <2>1 DEF PassInv, Reconciled, Updating, Released, Declares, Present
  <2> QED  BY <2>2, <2>3 DEF TypesInv
<1> QED  BY <1>3, <1>4

-----------------------------------------------------------------------------

LEMMA TypesStep ==
  ASSUME TypesInv, [Next]_vars
  PROVE  TypesInv'
<1>1. ASSUME NEW i \in Isolates, \/ boot(i) \/ readRow(i) \/ insertRow(i) \/ updateRow(i)
                                 \/ writeFails(i) \/ release(i) \/ gone(i)
      PROVE  TypesInv'
  BY <1>1, BootKeeps, ReadKeeps, InsertKeeps, UpdateKeeps, FailKeeps, ReleaseKeeps, GoneKeeps
<1>2. ASSUME NEW s \in Slugs, \/ createBlockType(s) \/ updateBlockType(s) \/ deleteChecks(s)
                              \/ addBlock(s)
      PROVE  TypesInv'
  BY <1>2, CreateKeeps, EditTypeKeeps, ChecksKeep, AddBlockKeeps
<1>3. CASE deleteType
  BY <1>3, DeleteTypeKeeps
<1>4. CASE UNCHANGED vars
  BY <1>4
  DEF vars, TypesInv, TypesTyped, DelInv, UsedTypesStay, RowOf, RowInv, Present, PassInv, Reconciled,
      Updating, Released, Declares
<1> QED  BY <1>1, <1>2, <1>3, <1>4 DEF Next

LEMMA TypesAreSound ==
  ASSUME TypesInv
  PROVE  BootConverges /\ AuthoredStays /\ UsedTypesStay
<1>1. BootConverges
  <2> SUFFICES ASSUME NEW i \in Isolates, iso[i].pc = "swept", NEW s \in Slugs \ iso[i].excused
               PROVE  IF s \in DOMAIN Declares(i)
                      THEN Present(s) /\ (types[s].owner = iso[i].owner => types[s].def = Declares(i)[s])
                      ELSE types[s].owner # iso[i].owner
    BY DEF BootConverges
  <2>1. Reconciled(i) /\ Released(i) /\ iso[i].todo = {}
    BY DEF TypesInv, PassInv
  <2> QED  BY <2>1 DEF Reconciled, Released
<1>2. AuthoredStays
  BY DEF TypesInv, RowInv, AuthoredStays
<1> QED  BY <1>1, <1>2 DEF TypesInv

LEMMA OwnersStep ==
  ASSUME TypesInv, [Next]_vars, NEW s \in Slugs, types[s].owner # "none", types'[s] # types[s]
  PROVE  \E i \in Isolates : iso[i].pc # "idle" /\ iso[i].owner = types[s].owner
<1>1. types \in [Slugs -> TypeRow] /\ RowInv(s) /\ Present(s) /\ DelInv
  BY DEF TypesInv, TypesTyped, RowInv
<1>2. ASSUME NEW i \in Isolates, insertRow(i)
      PROVE  \E j \in Isolates : iso[j].pc # "idle" /\ iso[j].owner = types[s].owner
  BY <1>1, <1>2 DEF insertRow, Present
<1>3. ASSUME NEW i \in Isolates, updateRow(i)
      PROVE  \E j \in Isolates : iso[j].pc # "idle" /\ iso[j].owner = types[s].owner
  <2>1. iso[i].pc = "update" /\ Updating(i)
    BY <1>3, PassIs DEF updateRow
  <2>2. types[s].id = iso[i].row
    BY <1>1, <1>3 DEF updateRow, RowOf
  <2> QED  BY <2>1, <2>2 DEF Updating
<1>4. ASSUME NEW i \in Isolates, release(i)
      PROVE  \E j \in Isolates : iso[j].pc # "idle" /\ iso[j].owner = types[s].owner
  BY <1>1, <1>4 DEF release, undeclared
<1>5. ASSUME NEW i \in Isolates, boot(i) \/ readRow(i) \/ writeFails(i) \/ gone(i)  PROVE FALSE
  BY <1>5 DEF boot, readRow, writeFails, gone
<1>6. ASSUME NEW t \in Slugs, createBlockType(t) \/ updateBlockType(t) \/ deleteChecks(t) \/ addBlock(t)
      PROVE  FALSE
  BY <1>1, <1>6 DEF createBlockType, updateBlockType, deleteChecks, addBlock, editable, Present
<1>7. CASE deleteType
  BY <1>1, <1>7 DEF deleteType, RowOf, DelInv
<1>8. CASE UNCHANGED vars
  BY <1>8 DEF vars
<1> QED  BY <1>2, <1>3, <1>4, <1>5, <1>6, <1>7, <1>8 DEF Next

(* The types of a site are those its code declares, and its editors' own:  *)
(* cmsBootstrap converges wherever nobody wrote to the slug meanwhile, on  *)
(* however many isolates of however many deployments it runs at once and   *)
(* whichever statements fail; no boot takes over what an editor authored,  *)
(* or touches what another reconciler owns; and no deletion leaves a block *)
(* without its type.                                                       *)
THEOREM BootsKeepTypes == Spec => TypesAreKept
<1>1. Init => TypesInv
  BY TypesInit
<1>2. TypesInv /\ [Next]_vars => TypesInv'
  BY TypesStep
<1>3. TypesInv => BootConverges /\ AuthoredStays /\ UsedTypesStay
  BY TypesAreSound
<1>4. TypesInv /\ [Next]_vars =>
        [\A s \in Slugs :
           types[s].owner # "none" /\ types'[s] # types[s] =>
             \E i \in Isolates : iso[i].pc # "idle" /\ iso[i].owner = types[s].owner]_vars
  BY OwnersStep
<1> QED  BY <1>1, <1>2, <1>3, <1>4, PTL DEF Spec, TypesAreKept, OwnersCompose

-----------------------------------------------------------------------------
(* Redirects.                                                              *)

Ends == Moved!Paths \cup {Moved!Elsewhere}

(* No row was accepted whose target is its source, as the guard compares.  *)
RedirectsInv ==
  /\ redirects \in [RowIds -> [from : Ends, to : Ends, enabled : BOOLEAN]]
  /\ \A r \in Moved!Stored : ~Moved!isSelfRedirect(redirects[r].from, redirects[r].to)

LEMMA NormalizedIsAPath ==
  \A p \in Moved!Paths : Moved!normalizeRedirectPath(p) \in Moved!Paths
<1> SUFFICES ASSUME NEW p \in Moved!Paths
             PROVE  Moved!normalizeRedirectPath(p) \in Moved!Paths
  OBVIOUS
<1>1. CASE p.end = "slash"
  BY <1>1 DEF Moved!normalizeRedirectPath, Moved!urlPathname, Moved!Paths
<1>2. CASE p.end # "slash"
  BY <1>2 DEF Moved!normalizeRedirectPath, Moved!urlPathname, Moved!Paths
<1> QED  BY <1>1, <1>2

(* The guard normalizes the target as it was typed, a request the address  *)
(* the browser made of it: but for a dot segment that comes to the same.   *)
LEMMA ParsedFirstOrLast ==
  ASSUME NEW p \in Moved!Paths, p.end # "dot"
  PROVE  Moved!normalizeRedirectPath(Moved!urlPathname(p)) = Moved!normalizeRedirectPath(p)
<1>1. CASE p.end = "slash"
  BY <1>1 DEF Moved!normalizeRedirectPath, Moved!urlPathname, Moved!Paths
<1>2. CASE p.end = "plain"
  BY <1>2 DEF Moved!normalizeRedirectPath, Moved!urlPathname, Moved!Paths
<1> QED  BY <1>1, <1>2 DEF Moved!Paths

(* Storing a row the guard let through.                                    *)
LEMMA StoredKeeps ==
  ASSUME RedirectsInv, NEW r \in RowIds, NEW from \in Ends, NEW to \in Ends, NEW enabled \in BOOLEAN,
         ~Moved!isSelfRedirect(from, to),
         redirects' = [redirects EXCEPT ![r] = [from |-> from, to |-> to, enabled |-> enabled]]
  PROVE  RedirectsInv'
<1>1. redirects' \in [RowIds -> [from : Ends, to : Ends, enabled : BOOLEAN]]
  BY DEF RedirectsInv
<1>2. \A x \in Moved!Stored' : ~Moved!isSelfRedirect(redirects'[x].from, redirects'[x].to)
  <2> SUFFICES ASSUME NEW x \in Moved!Stored'
               PROVE  ~Moved!isSelfRedirect(redirects'[x].from, redirects'[x].to)
    OBVIOUS
  <2>1. x \in RowIds
    BY DEF Moved!Stored
  <2>2. CASE x = r
    <3>1. redirects'[x].from = from /\ redirects'[x].to = to
      BY <2>2 DEF RedirectsInv
    <3> QED  BY <3>1
  <2>3. CASE x # r
    <3>1. redirects'[x] = redirects[x] /\ x \in Moved!Stored
      BY <2>1, <2>3 DEF RedirectsInv, Moved!Stored
    <3> QED  BY <3>1 DEF RedirectsInv
  <2> QED  BY <2>2, <2>3
<1> QED  BY <1>1, <1>2 DEF RedirectsInv, Ends, Moved!isSelfRedirect, Moved!Stored

LEMMA RedirectsStep ==
  ASSUME RedirectsInv, [SiteNext]_siteVars
  PROVE  RedirectsInv'
<1>1. CASE UNCHANGED redirects
  BY <1>1 DEF RedirectsInv, Moved!Stored
<1>2. CASE Moved!Next
  <2>1. ASSUME NEW r \in RowIds, Moved!createRedirect(r)
        PROVE  RedirectsInv'
    <3>1. PICK raw \in Moved!Paths, to \in Ends, enabled \in BOOLEAN :
            /\ ~Moved!isSelfRedirect(Moved!normalizeRedirectPath(raw), to)
            /\ redirects' = [redirects EXCEPT ![r] =
                 [from |-> Moved!normalizeRedirectPath(raw), to |-> to, enabled |-> enabled]]
      BY <2>1 DEF Moved!createRedirect, Ends
    <3>2. Moved!normalizeRedirectPath(raw) \in Ends
      BY NormalizedIsAPath DEF Ends
    <3> QED  BY <3>1, <3>2, StoredKeeps
  <2>2. ASSUME NEW r \in RowIds, Moved!updateRedirect(r)
        PROVE  RedirectsInv'
    <3>1. redirects[r].from \in Ends /\ redirects[r].to \in Ends
      BY DEF RedirectsInv
    <3>2. PICK from \in {redirects[r].from} \cup {Moved!normalizeRedirectPath(p) : p \in Moved!Paths},
               to \in {redirects[r].to, Moved!Elsewhere} \cup Moved!Paths, enabled \in BOOLEAN :
            /\ ~Moved!isSelfRedirect(from, to)
            /\ redirects' = [redirects EXCEPT ![r] =
                 [from |-> from, to |-> to, enabled |-> enabled]]
      BY <2>2 DEF Moved!updateRedirect, Moved!mayBecome
    <3>3. from \in Ends /\ to \in Ends
      BY <3>1, NormalizedIsAPath DEF Ends
    <3> QED  BY <3>2, <3>3, StoredKeeps
  <2>3. ASSUME NEW r \in RowIds, Moved!deleteRedirect(r)
        PROVE  RedirectsInv'
    <3>1. redirects' = [redirects EXCEPT ![r] = Moved!None]
      BY <2>3 DEF Moved!deleteRedirect
    <3>2. /\ Moved!None = [from |-> Moved!Elsewhere, to |-> Moved!Elsewhere, enabled |-> FALSE]
          /\ Moved!Elsewhere \in Ends /\ FALSE \in BOOLEAN
      BY DEF Moved!None, Ends
    <3>3. ~Moved!isSelfRedirect(Moved!Elsewhere, Moved!Elsewhere)
      BY DEF Moved!isSelfRedirect
    <3> QED  BY <3>1, <3>2, <3>3, StoredKeeps
  <2> QED  BY <1>2, <2>1, <2>2, <2>3 DEF Moved!Next
<1> QED  BY <1>1, <1>2 DEF SiteNext, siteVars

LEMMA RedirectsHold ==
  ASSUME RedirectsInv
  PROVE  NoRedirectReturns
<1> SUFFICES ASSUME NEW r \in Moved!Stored, redirects[r].to.end # "dot", Moved!SendsBack(r)
             PROVE  FALSE
  BY DEF NoRedirectReturns, Moved!NoRedirectReturns
<1>1. redirects[r].to \in Moved!Paths
  BY DEF RedirectsInv, Ends, Moved!SendsBack, Moved!Stored
<1>2. redirects[r].from = Moved!normalizeRedirectPath(Moved!urlPathname(redirects[r].to))
  BY DEF Moved!SendsBack, Moved!resolveRedirect
<1>3. redirects[r].from = Moved!normalizeRedirectPath(redirects[r].to)
  BY <1>1, <1>2, ParsedFirstOrLast
<1> QED  BY <1>3 DEF RedirectsInv, Moved!isSelfRedirect, Moved!SendsBack

(* The guard of createRedirect and updateRedirect is enough: however the   *)
(* two ends of a redirect are typed, and whichever was edited last, no     *)
(* request for what it points at is answered by that same redirect, save   *)
(* where the target ends in a dot segment.                                 *)
THEOREM RedirectsLeadAway == SiteSpec => []NoRedirectReturns
<1>1. SiteInit => RedirectsInv
  <2> SUFFICES ASSUME SiteInit PROVE RedirectsInv
    OBVIOUS
  <2>1. redirects = [r \in RowIds |-> Moved!None]
    BY DEF SiteInit, Moved!Init
  <2>2. Moved!None \in [from : Ends, to : Ends, enabled : BOOLEAN]
    BY DEF Moved!None, Ends
  <2> QED  BY <2>1, <2>2 DEF RedirectsInv, Moved!Stored
<1>2. RedirectsInv /\ [SiteNext]_siteVars => RedirectsInv'
  BY RedirectsStep
<1>3. RedirectsInv => NoRedirectReturns
  BY RedirectsHold
<1> QED  BY <1>1, <1>2, <1>3, PTL DEF SiteSpec

-----------------------------------------------------------------------------
(* Naturals and functions by induction.                                    *)

(* A set of naturals has a least element: of the intervals from 0 to its   *)
(* elements one is smallest under strict inclusion.                        *)
LEMMA LeastNatural ==
  ASSUME NEW S, S \subseteq Nat, S # {}
  PROVE  \E n \in S : \A o \in S : n <= o
<1>1. PICK T : T = {0..n : n \in S}  OBVIOUS
<1>2. T \subseteq FiniteSubsetsOf(Nat)
  <2>1. ASSUME NEW n \in S PROVE 0..n \in FiniteSubsetsOf(Nat)
    <3>1. n \in Int /\ 0 \in Int /\ n \in Nat  OBVIOUS
    <3>2. IsFiniteSet(0..n)  BY <3>1, FS_Interval
    <3>3. 0..n \subseteq Nat  BY <3>1
    <3> QED  BY <3>2, <3>3 DEF FiniteSubsetsOf
  <2> QED  BY <1>1, <2>1
<1>3. T # {}  BY <1>1
<1>4. PICK x \in T : \A y \in T : ~(<<y, x>> \in StrictSubsetOrdering(Nat))
  BY <1>2, <1>3, FS_StrictSubsetOrderingWellFounded, WFMin
<1>5. PICK n \in S : x = 0..n  BY <1>1
<1>6. ASSUME NEW o \in S, o < n PROVE FALSE
  <2>1. o \in Nat /\ n \in Nat  OBVIOUS
  <2>2. 0..o \in T  BY <1>1
  <2>3. 0..o \subseteq 0..n  BY <1>6, <2>1
  <2>4. n \in 0..n /\ n \notin 0..o  BY <1>6, <2>1
  <2>5. 0..o # 0..n  BY <2>4
  <2>6. 0..o \in SUBSET Nat /\ 0..n \in SUBSET Nat  BY <2>1
  <2>7. <<0..o, 0..n>> \in StrictSubsetOrdering(Nat)
    BY <2>3, <2>5, <2>6 DEF StrictSubsetOrdering
  <2> QED  BY <1>4, <1>5, <2>2, <2>7
<1>7. \A o \in S : n <= o
  <2> SUFFICES ASSUME NEW o \in S PROVE n <= o
    OBVIOUS
  <2>1. o \in Nat /\ n \in Nat  OBVIOUS
  <2>2. ~(o < n)  BY <1>6
  <2> QED  BY <2>1, <2>2
<1> QED  BY <1>7

-----------------------------------------------------------------------------
(* Terms: what counts levels, level by level.                              *)

LEMMA Upwards ==
  ASSUME NEW k \in Nat, NEW G, 1 \in G, \A n \in 1..k : n < k /\ n \in G => n + 1 \in G
  PROVE  \A n \in 1..k : n \in G
<1> SUFFICES ASSUME NEW o \in 1..k, o \notin G PROVE FALSE
  OBVIOUS
<1> DEFINE bad == {n \in 1..k : n \notin G}
<1>1. bad \subseteq Nat /\ bad # {}  OBVIOUS
<1>2. PICK n \in bad : \A x \in bad : n <= x  BY <1>1, LeastNatural
<1>3. n \in 1..k /\ n \notin G /\ n # 1  BY <1>2
<1>4. n - 1 \in 1..k /\ n - 1 < k /\ n - 1 \in G
  <2>1. n - 1 \in 1..k /\ ~(n <= n - 1)  BY <1>3
  <2> QED  BY <1>2, <2>1
<1>5. (n - 1) + 1 = n  BY <1>3
<1> QED  BY <1>3, <1>4, <1>5

(* A function defined from its value one below exists.                     *)
Runs(g, k, a, next) == \A n \in 1..k : g[n] = IF n = 1 THEN a ELSE next[g[n - 1]]

LEMMA Iterates ==
  ASSUME NEW k \in Nat, NEW S, NEW next \in [S -> S], NEW a \in S
  PROVE  \E g \in [1..k -> S] : Runs(g, k, a, next)
<1> USE DEF Runs
<1> DEFINE Run(g, b) == \A n \in 1..b : g[n] = IF n = 1 THEN a ELSE next[g[n - 1]]
           G == {n \in 1..k : \E g \in [1..n -> S] : Run(g, n)}
<1>1. CASE k = 0
  <2>1. [n \in 1..k |-> a] \in [1..k -> S]  OBVIOUS
  <2>2. 1..k = {}  BY <1>1
  <2> QED  BY <2>1, <2>2
<1>2. CASE k # 0
  <2>1. 1 \in G
    <3>1. [n \in 1..1 |-> a] \in [1..1 -> S]  OBVIOUS
    <3>2. \A n \in 1..1 : n = 1  OBVIOUS
    <3>3. Run([n \in 1..1 |-> a], 1)  BY <3>2
    <3>4. 1 \in 1..k  BY <1>2
    <3> QED  BY <3>1, <3>3, <3>4
  <2>2. ASSUME NEW n \in 1..k, n < k, n \in G PROVE n + 1 \in G
    <3>1. PICK g \in [1..n -> S] : Run(g, n)  BY <2>2
    <3> DEFINE h == [o \in 1..(n + 1) |-> IF o = n + 1 THEN next[g[n]] ELSE g[o]]
    <3>2. n \in 1..n /\ n + 1 \in 1..k /\ \A o \in 1..(n + 1) : o # n + 1 => o \in 1..n  BY <2>2
    <3>3. next[g[n]] \in S  BY <3>2
    <3>4. h \in [1..(n + 1) -> S]  BY <3>2, <3>3
    <3>5. ASSUME NEW o \in 1..(n + 1) PROVE h[o] = IF o = 1 THEN a ELSE next[h[o - 1]]
      <4>1. CASE o = n + 1
        <5>1. o # 1 /\ o - 1 = n /\ n \in 1..(n + 1) /\ n # n + 1  BY <4>1, <2>2
        <5>2. h[n] = g[n] /\ h[o] = next[g[n]]  BY <4>1, <5>1
        <5> QED  BY <5>1, <5>2
      <4>2. CASE o # n + 1
        <5>1. o \in 1..n /\ h[o] = g[o]  BY <4>2, <3>2
        <5>2. g[o] = IF o = 1 THEN a ELSE next[g[o - 1]]  BY <3>1, <5>1
        <5>3. CASE o = 1  BY <5>1, <5>2, <5>3
        <5>4. CASE o # 1
          <6>1. o - 1 \in 1..(n + 1) /\ o - 1 # n + 1  BY <5>1, <5>4
          <6>2. h[o - 1] = g[o - 1]  BY <6>1
          <6> QED  BY <5>1, <5>2, <5>4, <6>2
        <5> QED  BY <5>3, <5>4
      <4> QED  BY <4>1, <4>2
    <3> HIDE DEF h
    <3> QED  BY <3>2, <3>4, <3>5
  <2> HIDE DEF G
  <2>3. \A n \in 1..k : n \in G  BY <2>1, <2>2, Upwards
  <2>4. k \in 1..k  BY <1>2
  <2> QED  BY <2>3, <2>4 DEF G
<1> QED  BY <1>1, <1>2

-----------------------------------------------------------------------------
(* The tables, and how deep a term lies.                                   *)

TermTyped ==
  /\ tax \in [TaxIds -> [state : {"none", "stored"}, hierarchical : BOOLEAN,
                         appliesTo : SUBSET Things]]
  /\ term \in [TermIds -> [tax : TaxIds \cup {0}, parent : TermIds \cup {0}]]
  /\ thing \in [Things -> {"live", "trashed", "gone"}]
  /\ assigned \subseteq Things \X TermIds

TermAt(m) ==
  /\ term[m].tax = 0 => term[m].parent = 0
  /\ term[m].tax # 0 =>
       /\ tax[term[m].tax].state = "stored"
       /\ term[m].parent # 0 => /\ term[term[m].parent].tax = term[m].tax
                                /\ tax[term[m].tax].hierarchical

(* A root is at depth 1, and every other term one below its parent: where  *)
(* there are depths, there are no cycles.                                  *)
Deep(d, w) ==
  /\ d \in [TermIds -> 1..MaxTermDepth]
  /\ \A m \in TermIds : w[m].tax # 0 =>
       /\ w[m].parent = 0 => d[m] = 1
       /\ w[m].parent # 0 => d[m] = d[w[m].parent] + 1

AssignedAt(a) ==
  /\ term[a[2]].tax # 0
  /\ thing[a[1]] # "gone"
  /\ a[1] \in tax[term[a[2]].tax].appliesTo

TermsInv ==
  /\ TermTyped
  /\ \A m \in TermIds : TermAt(m)
  /\ \E d : Deep(d, term)
  /\ \A a \in assigned : AssignedAt(a)

LEMMA TermConstantsAre ==
  /\ MaxTermDepth \in Nat /\ MaxTermDepth >= 1
  /\ IsFiniteSet(TermIds) /\ Cardinality(TermIds) \in Nat
  /\ 0 \notin TaxIds /\ 0 \notin TermIds
<1>1. /\ MaxTermDepth \in Nat /\ MaxTermDepth >= 1 /\ Terms!IsFiniteSet(TermIds)
      /\ 0 \notin TaxIds /\ 0 \notin TermIds
  BY TermConstants DEF Terms!TaxonomiesAssumption, Terms!None
<1>2. IsFiniteSet(TermIds)  BY <1>1 DEF Terms!IsFiniteSet, IsFiniteSet
<1> QED  BY <1>1, <1>2, FS_CardinalityType

LEMMA StoredTerms == \A m : m \in Terms!Stored <=> m \in TermIds /\ term[m].tax # 0
BY DEF Terms!Stored, Terms!None

LEMMA CountIs == ASSUME NEW S PROVE Terms!Cardinality(S) = Cardinality(S)
BY DEF Terms!Cardinality, Cardinality

LEMMA TermIs ==
  ASSUME TermTyped, NEW m \in TermIds
  PROVE  /\ term[m].tax \in TaxIds \cup {0} /\ term[m].parent \in TermIds \cup {0}
         /\ term[m] = [tax |-> term[m].tax, parent |-> term[m].parent]
BY DEF TermTyped

LEMMA DepthIs ==
  ASSUME NEW w, NEW d, Deep(d, w), NEW m \in TermIds
  PROVE  /\ d[m] \in Nat /\ 1 <= d[m] /\ d[m] <= MaxTermDepth
         /\ w[m].tax # 0 /\ w[m].parent = 0 => d[m] = 1
         /\ w[m].tax # 0 /\ w[m].parent # 0 => d[m] = d[w[m].parent] + 1
BY TermConstantsAre DEF Deep

-----------------------------------------------------------------------------
(* The way up.                                                             *)
Levels == Cardinality(TermIds) + 1

LEMMA UpIs ==
  ASSUME TermTyped, NEW p \in TermIds
  PROVE  /\ DOMAIN Terms!Up(p) = 1..Levels /\ Terms!Up(p)[1] = p
         /\ \A n \in 1..Levels : Terms!Up(p)[n] \in TermIds \cup {0}
         /\ \A n \in 1..Levels : n < Levels =>
              Terms!Up(p)[n + 1] = IF Terms!Up(p)[n] = 0 THEN 0 ELSE term[Terms!Up(p)[n]].parent
<1> DEFINE S == TermIds \cup {0}
           next == [x \in S |-> IF x = 0 THEN 0 ELSE term[x].parent]
           k == Terms!Cardinality(TermIds) + 1
           F(h) == [n \in 1..k |-> IF n = 1 THEN p
                      ELSE IF h[n - 1] = 0 THEN 0 ELSE term[h[n - 1]].parent]
           at == CHOOSE h : h = [n \in 1..k |-> IF n = 1 THEN p
                      ELSE IF h[n - 1] = 0 THEN 0 ELSE term[h[n - 1]].parent]
<1>1. next \in [S -> S] /\ p \in S  BY TermIs
<1>2. k = Levels /\ Levels \in Nat /\ 1 \in 1..Levels  BY TermConstantsAre, CountIs DEF Levels
<1> HIDE DEF next, k, S, at, F
<1>3. PICK g \in [1..k -> S] : Runs(g, k, p, next)
  BY <1>1, <1>2, Iterates
<1> USE DEF S, at, F
<1>4. g = F(g)
  <2>1. ASSUME NEW n \in 1..k, n # 1 PROVE next[g[n - 1]] = IF g[n - 1] = 0 THEN 0 ELSE term[g[n - 1]].parent
    <3>1. n - 1 \in 1..k  BY <1>2, <2>1
    <3>2. g[n - 1] \in S  BY <3>1
    <3> QED  BY <3>2 DEF next
  <2>2. \A n \in 1..k : g[n] = IF n = 1 THEN p ELSE IF g[n - 1] = 0 THEN 0 ELSE term[g[n - 1]].parent
    BY <1>3, <2>1 DEF Runs
  <2> QED  BY <2>2
<1>5. at = F(at)  BY <1>4
<1>6. Terms!Up(p) = at  BY Zenon DEF Terms!Up, Terms!None, k
<1> HIDE DEF at
<1>7. DOMAIN at = 1..k /\ \A n \in 1..k : at[n] = IF n = 1 THEN p ELSE IF at[n - 1] = 0 THEN 0 ELSE term[at[n - 1]].parent
  BY <1>5
<1> DEFINE G == {n \in 1..k : at[n] \in S}
<1>8. 1 \in G  BY <1>1, <1>2, <1>7
<1>9. \A n \in 1..k : n < k => at[n + 1] = IF at[n] = 0 THEN 0 ELSE term[at[n]].parent
  <2> SUFFICES ASSUME NEW n \in 1..k, n < k
               PROVE  at[n + 1] = IF at[n] = 0 THEN 0 ELSE term[at[n]].parent
    OBVIOUS
  <2>1. n + 1 \in 1..k /\ n + 1 # 1 /\ (n + 1) - 1 = n  BY <1>2
  <2> QED  BY <1>7, <2>1
<1>10. ASSUME NEW n \in 1..k, n < k, n \in G PROVE n + 1 \in G
  <2>1. n + 1 \in 1..k  BY <1>2, <1>10
  <2>2. at[n + 1] \in S  BY <1>9, <1>10, TermIs
  <2> QED  BY <2>1, <2>2
<1> HIDE DEF G
<1>11. \A n \in 1..k : n \in G  BY <1>2, <1>8, <1>10, Upwards
<1>12. at[1] = p  BY <1>2, <1>7
<1> QED  BY <1>2, <1>6, <1>7, <1>9, <1>11, <1>12 DEF G

(* Ancestors are stored, each with its own parent, and they are as many as *)
(* the term is deep.                                                       *)
LEMMA AncestorsAre ==
  ASSUME TermsInv, NEW d, Deep(d, term), NEW p \in TermIds, term[p].tax # 0
  PROVE  /\ p \in Terms!Ancestors(p) /\ Terms!Ancestors(p) \subseteq TermIds
         /\ \A a \in Terms!Ancestors(p) :
              term[a].parent # 0 => term[a].parent \in Terms!Ancestors(p)
         /\ Terms!Cardinality(Terms!Ancestors(p)) \in Nat
         /\ d[p] <= Terms!Cardinality(Terms!Ancestors(p))
<1> DEFINE up == Terms!Up(p)
           A == Terms!Ancestors(p)
           G == {n \in 1..Levels : n <= d[p] =>
                   up[n] \in TermIds /\ term[up[n]].tax # 0 /\ d[up[n]] = d[p] - n + 1}
           H == {n \in 1..Levels : n > d[p] => up[n] = 0}
           c == IF d[p] < Levels THEN d[p] ELSE Levels
<1>1. TermTyped /\ \A m \in TermIds : TermAt(m)  BY DEF TermsInv
<1>2. Levels \in Nat /\ Levels >= 1 /\ Levels = Cardinality(TermIds) + 1 /\ 0 \notin TermIds
      /\ Cardinality(TermIds) \in Nat /\ IsFiniteSet(TermIds)
  BY TermConstantsAre DEF Levels
<1>3. /\ DOMAIN up = 1..Levels /\ up[1] = p
      /\ \A n \in 1..Levels : up[n] \in TermIds \cup {0}
      /\ \A n \in 1..Levels : n < Levels =>
           up[n + 1] = IF up[n] = 0 THEN 0 ELSE term[up[n]].parent
  BY <1>1, UpIs
<1>4. A = {up[n] : n \in 1..Levels} \ {0}  BY <1>3 DEF Terms!Ancestors, Terms!None
<1>5. d[p] \in Nat /\ 1 <= d[p]  BY DepthIs
<1> HIDE DEF up, A
<1>6. 1 \in G  BY <1>2, <1>3, <1>5
<1>7. ASSUME NEW n \in 1..Levels, n < Levels, n \in G PROVE n + 1 \in G
  <2> SUFFICES ASSUME n + 1 <= d[p]
               PROVE  /\ up[n + 1] \in TermIds /\ term[up[n + 1]].tax # 0
                      /\ d[up[n + 1]] = d[p] - (n + 1) + 1
    BY <1>2, <1>7
  <2>1. up[n] \in TermIds /\ term[up[n]].tax # 0 /\ d[up[n]] = d[p] - n + 1  BY <1>5, <1>7
  <2>2. up[n] # 0 /\ up[n + 1] = term[up[n]].parent  BY <1>2, <1>3, <1>7, <2>1
  <2>3. term[up[n]].parent # 0  BY <1>5, <2>1, DepthIs
  <2>4. term[up[n]].parent \in TermIds  BY <1>1, <2>1, <2>3, TermIs
  <2>5. term[term[up[n]].parent].tax = term[up[n]].tax  BY <1>1, <2>1, <2>3 DEF TermAt
  <2>6. d[up[n]] = d[up[n + 1]] + 1 /\ d[up[n + 1]] \in Nat
    BY <2>1, <2>2, <2>3, <2>4, DepthIs
  <2> QED  BY <1>5, <2>1, <2>2, <2>4, <2>5, <2>6
<1>8. 1 \in H  BY <1>2, <1>5
<1>9. ASSUME NEW n \in 1..Levels, n < Levels, n \in H, n \in G PROVE n + 1 \in H
  <2> SUFFICES ASSUME n + 1 > d[p] PROVE up[n + 1] = 0
    BY <1>2, <1>9
  <2>1. CASE n > d[p]  BY <1>3, <1>9, <2>1
  <2>2. CASE n = d[p]
    <3>1. up[n] \in TermIds /\ term[up[n]].tax # 0 /\ d[up[n]] = 1  BY <1>5, <1>9, <2>2
    <3>2. up[n + 1] = term[up[n]].parent  BY <1>2, <1>3, <1>9, <3>1
    <3>3. ASSUME term[up[n]].parent # 0 PROVE FALSE
      <4>1. term[up[n]].parent \in TermIds  BY <1>1, <3>1, <3>3, TermIs
      <4>2. d[up[n]] = d[term[up[n]].parent] + 1 /\ d[term[up[n]].parent] >= 1
            /\ d[term[up[n]].parent] \in Nat
        BY <3>1, <3>3, <4>1, DepthIs
      <4> QED  BY <3>1, <4>2
    <3> QED  BY <3>2, <3>3
  <2> QED  BY <1>2, <1>5, <2>1, <2>2
<1> HIDE DEF G
<1>10. \A n \in 1..Levels : n \in G  BY <1>2, <1>6, <1>7, Upwards
<1> HIDE DEF H
<1>11. \A n \in 1..Levels : n \in H  BY <1>2, <1>8, <1>9, <1>10, Upwards
<1>12. A \subseteq TermIds  BY <1>3, <1>4
<1>13. c \in Nat /\ c <= Levels /\ c <= d[p] /\ 1 <= c  BY <1>2, <1>5
<1>14. c <= Cardinality(A) /\ Cardinality(A) <= Cardinality(TermIds) /\ Cardinality(A) \in Nat
  <2> DEFINE f == [n \in 1..c |-> up[n]]
  <2> HIDE DEF c
  <2>1. ASSUME NEW n \in 1..c PROVE up[n] \in A /\ d[up[n]] = d[p] - n + 1
    <3>1. n \in 1..Levels /\ n <= d[p]  BY <1>2, <1>5, <1>13
    <3>2. up[n] \in TermIds /\ d[up[n]] = d[p] - n + 1  BY <1>10, <3>1 DEF G
    <3> QED  BY <1>2, <1>4, <3>1, <3>2
  <2>2. f \in [1..c -> A]  BY <2>1
  <2>3. ASSUME NEW n \in 1..c, NEW o \in 1..c, f[n] = f[o] PROVE n = o
    BY <1>5, <1>13, <2>1, <2>3
  <2>4. f \in Injection(1..c, A)  BY <2>2, <2>3 DEF Injection, IsInjective
  <2>5. IsFiniteSet(A) /\ Cardinality(A) <= Cardinality(TermIds)  BY <1>2, <1>12, FS_Subset
  <2>6. Cardinality(1..c) <= Cardinality(A)  BY <2>4, <2>5, FS_Injection
  <2>7. Cardinality(1..c) = c  BY <1>13, FS_Interval
  <2> QED  BY <2>5, <2>6, <2>7, FS_CardinalityType
<1>15. c = d[p] /\ d[p] < Levels  BY <1>2, <1>5, <1>13, <1>14
<1>16. ASSUME NEW a \in A, term[a].parent # 0 PROVE term[a].parent \in A
  <2>1. PICK n \in 1..Levels : a = up[n] /\ a # 0  BY <1>4
  <2>2. n <= d[p]  BY <1>5, <1>11, <2>1 DEF H
  <2>3. n < Levels /\ n + 1 \in 1..Levels  BY <1>2, <1>5, <1>15, <2>2
  <2>4. up[n + 1] = term[a].parent  BY <1>3, <2>1, <2>3
  <2> QED  BY <1>4, <1>16, <2>3, <2>4
<1>17. p \in A
  <2>1. 1 \in 1..Levels  BY <1>2
  <2> QED  BY <1>2, <1>3, <1>4, <2>1
<1>18. Terms!Cardinality(A) = Cardinality(A)  BY CountIs
<1> QED  BY <1>12, <1>14, <1>15, <1>16, <1>17, <1>18 DEF A

-----------------------------------------------------------------------------
(* The way down.                                                           *)

(* What Terms!subtreeHeight counts: the levels of the subtree of m.        *)
Below(b, m) ==
  /\ b \in [1..(MaxTermDepth + 2) -> SUBSET TermIds]
  /\ b[1] = {m}
  /\ \A n \in 1..(MaxTermDepth + 1) : \A x :
       x \in b[n + 1] <=> x \in TermIds /\ term[x].tax # 0 /\ term[x].parent \in b[n]
Sub(b) == {x \in TermIds : \E n \in 1..(MaxTermDepth + 2) : x \in b[n]}

LEMMA BelowIs ==
  ASSUME TermTyped, NEW m \in TermIds
  PROVE  \E b : /\ Below(b, m)
                /\ Terms!subtreeHeight(m) =
                     Terms!Cardinality({n \in 1..(MaxTermDepth + 2) : b[n] # {}})
<1> DEFINE k == MaxTermDepth + 2
           S == SUBSET TermIds
           next == [X \in S |-> UNION {Terms!Children(x) : x \in X}]
           F(h) == [n \in 1..k |-> IF n = 1 THEN {m} ELSE UNION {Terms!Children(x) : x \in h[n - 1]}]
           at == CHOOSE h : h = [n \in 1..k |->
                   IF n = 1 THEN {m} ELSE UNION {Terms!Children(x) : x \in h[n - 1]}]
<1>1. \A x, y : y \in Terms!Children(x) <=> y \in TermIds /\ term[y].tax # 0 /\ term[y].parent = x
  BY DEF Terms!Children, Terms!Stored, Terms!None
<1>2. next \in [S -> S] /\ {m} \in S  BY <1>1
<1>3. k \in Nat /\ k >= 1 /\ 1 \in 1..k  BY TermConstantsAre
<1>4. k = MaxTermDepth + 2  OBVIOUS
<1> HIDE DEF next, k, S, at, F
<1>5. PICK g \in [1..k -> S] : Runs(g, k, {m}, next)
  BY <1>2, <1>3, Iterates
<1> USE DEF S, at, F
<1>6. g = F(g)
  <2>1. ASSUME NEW n \in 1..k, n # 1
        PROVE  next[g[n - 1]] = UNION {Terms!Children(x) : x \in g[n - 1]}
    <3>1. n - 1 \in 1..k  BY <1>3, <2>1
    <3>2. g[n - 1] \in S  BY <3>1
    <3> QED  BY <3>2 DEF next
  <2>2. \A n \in 1..k : g[n] = IF n = 1 THEN {m} ELSE UNION {Terms!Children(x) : x \in g[n - 1]}
    BY <1>5, <2>1 DEF Runs
  <2> QED  BY <2>2
<1>7. at = F(at)  BY <1>6
<1>8. Terms!subtreeHeight(m) = Terms!Cardinality({n \in DOMAIN at : at[n] # {}})
  BY Zenon DEF Terms!subtreeHeight, k
<1> HIDE DEF at
<1>9. DOMAIN at = 1..k /\ \A n \in 1..k : at[n] = IF n = 1 THEN {m} ELSE UNION {Terms!Children(x) : x \in at[n - 1]}
  BY <1>7
<1>10. at[1] = {m}  BY <1>3, <1>9
<1>11. \A n \in 1..k : at[n] \in SUBSET TermIds
  <2> SUFFICES ASSUME NEW n \in 1..k PROVE at[n] \in SUBSET TermIds
    OBVIOUS
  <2>1. CASE n = 1  BY <1>10, <2>1
  <2>2. CASE n # 1  BY <1>1, <1>9, <2>2
  <2> QED  BY <2>1, <2>2
<1>12. at \in [1..k -> SUBSET TermIds]
  <2>1. at = [n \in 1..k |-> at[n]]  BY <1>7
  <2> QED  BY <1>11, <2>1
<1>13. ASSUME NEW n \in 1..(MaxTermDepth + 1), NEW x
       PROVE  x \in at[n + 1] <=> x \in TermIds /\ term[x].tax # 0 /\ term[x].parent \in at[n]
  <2>1. n + 1 \in 1..k /\ n + 1 # 1 /\ (n + 1) - 1 = n  BY <1>4, TermConstantsAre
  <2>2. at[n + 1] = UNION {Terms!Children(y) : y \in at[n]}  BY <1>9, <2>1
  <2> QED  BY <1>1, <2>2
<1>14. Below(at, m)  BY <1>4, <1>10, <1>12, <1>13 DEF Below
<1>15. Terms!subtreeHeight(m) = Terms!Cardinality({n \in 1..(MaxTermDepth + 2) : at[n] # {}})
  BY <1>4, <1>8, <1>9
<1> QED  BY <1>14, <1>15

(* A level of the subtree is a depth of its own, and the levels that are   *)
(* there are counted.                                                      *)
LEMMA SubIs ==
  ASSUME TermsInv, NEW d, Deep(d, term), NEW m \in TermIds, term[m].tax # 0, NEW b, Below(b, m)
  PROVE  /\ m \in Sub(b)
         /\ \A x \in Sub(b) : x \in TermIds /\ term[x].tax # 0
         /\ \A x \in TermIds : term[x].tax # 0 =>
              (x \in Sub(b) <=> x = m \/ term[x].parent \in Sub(b))
         /\ \A x \in Sub(b) : x # m => term[x].parent \in Sub(b) /\ d[x] > d[m]
         /\ \A x \in Sub(b) : d[x] >= d[m]
              /\ d[x] - d[m] + 1 <= Cardinality({n \in 1..(MaxTermDepth + 2) : b[n] # {}})
<1> DEFINE k == MaxTermDepth + 2
           G == {n \in 1..k : \A x \in b[n] : x \in TermIds /\ term[x].tax # 0 /\ d[x] = d[m] + n - 1}
           W == {n \in 1..k : b[n] # {}}
<1>1. MaxTermDepth \in Nat /\ k \in Nat /\ k >= 1 /\ 0 \notin TermIds  BY TermConstantsAre
<1>2. d[m] \in Nat /\ 1 <= d[m]  BY DepthIs
<1>3. /\ \A n \in 1..k : b[n] \subseteq TermIds
      /\ b[1] = {m}
      /\ \A n \in 1..k : \A x : n < k =>
           (x \in b[n + 1] <=> x \in TermIds /\ term[x].tax # 0 /\ term[x].parent \in b[n])
  BY <1>1 DEF Below
<1>4. 1 \in G  BY <1>1, <1>2, <1>3
<1>5. ASSUME NEW n \in 1..k, n < k, n \in G PROVE n + 1 \in G
  <2>1. ASSUME NEW x \in b[n + 1]
        PROVE  x \in TermIds /\ term[x].tax # 0 /\ d[x] = d[m] + (n + 1) - 1
    <3>1. x \in TermIds /\ term[x].tax # 0 /\ term[x].parent \in b[n]  BY <1>3, <1>5, <2>1
    <3>2. term[x].parent \in TermIds /\ d[term[x].parent] = d[m] + n - 1  BY <1>5, <3>1
    <3>3. d[x] = d[term[x].parent] + 1  BY <1>1, <3>1, <3>2, DepthIs
    <3> QED  BY <1>1, <1>2, <3>1, <3>2, <3>3
  <2>2. n + 1 \in 1..k  BY <1>1, <1>5
  <2> QED  BY <2>1, <2>2
<1> HIDE DEF G
<1>6. \A n \in 1..k : n \in G  BY <1>1, <1>4, <1>5, Upwards
<1>7. \A n \in 1..k : \A x : x \in b[n] => x \in TermIds /\ term[x].tax # 0 /\ d[x] = d[m] + n - 1
  BY <1>6 DEF G
<1> HIDE DEF k
<1>8. \A x : x \in Sub(b) <=> \E n \in 1..k : x \in b[n]  BY <1>3 DEF Sub, k
<1>9. m \in Sub(b)  BY <1>1, <1>3, <1>8
<1>10. \A x \in Sub(b) : x \in TermIds /\ term[x].tax # 0  BY <1>7, <1>8
<1>11. ASSUME NEW x \in Sub(b), x # m PROVE term[x].parent \in Sub(b) /\ d[x] > d[m]
  <2>1. PICK n \in 1..k : x \in b[n]  BY <1>8
  <2>2. n # 1  BY <1>3, <1>11, <2>1
  <2>3. n - 1 \in 1..k /\ n - 1 < k /\ (n - 1) + 1 = n  BY <1>1, <2>2
  <2>4. term[x].parent \in b[n - 1]  BY <1>3, <2>1, <2>3
  <2>5. d[x] = d[m] + n - 1  BY <1>7, <2>1
  <2> QED  BY <1>2, <1>8, <2>2, <2>3, <2>4, <2>5
<1>12. ASSUME NEW x \in TermIds, term[x].tax # 0, term[x].parent \in Sub(b) PROVE x \in Sub(b)
  <2>1. PICK n \in 1..k : term[x].parent \in b[n]  BY <1>8, <1>12
  <2>2. term[x].parent \in TermIds /\ d[term[x].parent] = d[m] + n - 1  BY <1>7, <2>1
  <2>3. d[term[x].parent] + 1 <= MaxTermDepth  BY <1>1, <1>12, <2>2, DepthIs
  <2>4. n < k /\ n + 1 \in 1..k  BY <1>1, <1>2, <2>2, <2>3 DEF k
  <2>5. x \in b[n + 1]  BY <1>3, <1>12, <2>1, <2>4
  <2> QED  BY <1>8, <2>4, <2>5
<1>13. ASSUME NEW x \in Sub(b) PROVE d[x] >= d[m] /\ d[x] - d[m] + 1 <= Cardinality(W)
  <2>1. PICK r \in 1..k : x \in b[r]  BY <1>8
  <2>2. d[x] = d[m] + r - 1  BY <1>7, <2>1
  <2> DEFINE J == {n \in 1..r : b[r - n + 1] # {}}
  <2>3. 1 \in J
    <3>1. 1 \in 1..r /\ r - 1 + 1 = r  BY <1>1
    <3> QED  BY <2>1, <3>1
  <2>4. ASSUME NEW n \in 1..r, n < r, n \in J PROVE n + 1 \in J
    <3>1. PICK y : y \in b[r - n + 1]  BY <2>4
    <3>2. r - n \in 1..k /\ r - n < k /\ n + 1 \in 1..r /\ r - (n + 1) + 1 = r - n  BY <1>1, <2>4
    <3>3. term[y].parent \in b[r - n]  BY <1>3, <3>1, <3>2
    <3>4. b[r - (n + 1) + 1] # {}  BY <3>2, <3>3
    <3> QED  BY <3>2, <3>4
  <2> HIDE DEF J
  <2>5. r \in Nat /\ r \in 1..k  BY <1>1
  <2>6. \A n \in 1..r : n \in J  BY <2>3, <2>4, <2>5, Upwards
  <2>7. ASSUME NEW n \in 1..r PROVE n \in W
    <3>1. r - n + 1 \in 1..r /\ r - (r - n + 1) + 1 = n /\ n \in 1..k  BY <1>1, <2>5
    <3>2. b[n] # {}
      <4> DEFINE o == r - n + 1
      <4>1. o \in J  BY <2>6, <3>1
      <4>2. r - o + 1 = n  BY <3>1
      <4> HIDE DEF o
      <4> QED  BY <4>1, <4>2 DEF J
    <3> QED  BY <3>1, <3>2
  <2>8. IsFiniteSet(1..k)
    <3>1. 1 \in Int /\ k \in Int  BY <1>1
    <3> HIDE DEF W
    <3> QED  BY <3>1, FS_Interval
  <2>9. IsFiniteSet(W)  BY <2>8, FS_Subset
  <2>10. Cardinality(1..r) <= Cardinality(W)  BY <2>7, <2>9, FS_Subset
  <2>11. Cardinality(1..r) = r
    <3>1. 1 \in Int /\ r \in Int /\ ~(1 > r) /\ r - 1 + 1 = r  BY <2>5
    <3> HIDE DEF W
    <3>2. Cardinality(1..r) = IF 1 > r THEN 0 ELSE r - 1 + 1  BY <3>1, FS_Interval
    <3> QED  BY <3>1, <3>2
  <2>12. Cardinality(W) \in Nat  BY <2>9, FS_CardinalityType
  <2> HIDE DEF W
  <2> QED  BY <1>2, <2>2, <2>5, <2>10, <2>11, <2>12
<1>14. \A x \in TermIds : term[x].tax # 0 =>
         (x \in Sub(b) <=> x = m \/ term[x].parent \in Sub(b))
  BY <1>9, <1>11, <1>12
<1> QED  BY <1>9, <1>10, <1>11, <1>13, <1>14 DEF k

(* Who does not find m on the way up is not below m.                       *)
LEMMA NotBelow ==
  ASSUME TermsInv, NEW d, Deep(d, term), NEW m \in TermIds, term[m].tax # 0, NEW b, Below(b, m),
         NEW p \in TermIds, term[p].tax # 0, m \notin Terms!Ancestors(p)
  PROVE  p \notin Sub(b)
<1> SUFFICES ASSUME p \in Sub(b) PROVE FALSE
  OBVIOUS
<1> DEFINE A == Terms!Ancestors(p) \cap Sub(b)
           S == {d[a] : a \in A}
<1>1. /\ p \in A /\ A \subseteq TermIds
      /\ \A a \in A : term[a].parent # 0 => term[a].parent \in Terms!Ancestors(p)
  BY AncestorsAre
<1>2. S \subseteq Nat /\ S # {}  BY <1>1, DepthIs
<1>3. PICK n \in S : \A o \in S : n <= o  BY <1>2, LeastNatural
<1>4. PICK a \in A : n = d[a]  BY <1>3
<1>5. a # m /\ a \in TermIds /\ term[a].tax # 0 /\ term[a].parent \in Sub(b)  BY <1>1, <1>4, SubIs
<1>6. term[a].parent \in TermIds /\ term[a].parent # 0  BY <1>5, SubIs, TermConstantsAre
<1>7. term[a].parent \in A  BY <1>1, <1>4, <1>5, <1>6
<1>8. d[a] = d[term[a].parent] + 1 /\ d[term[a].parent] \in Nat  BY <1>5, <1>6, DepthIs
<1>9. n <= d[term[a].parent]  BY <1>3, <1>7
<1> QED  BY <1>4, <1>8, <1>9

-----------------------------------------------------------------------------
(* Terms that come, move and go.                                           *)

Tables == [TermIds -> [tax : TaxIds \cup {0}, parent : TermIds \cup {0}]]

LEMMA NewIsDeep ==
  ASSUME TermsInv, NEW d, Deep(d, term), NEW m \in TermIds, term[m].tax = 0,
         NEW p \in TermIds \cup {0}, NEW t,
         p # 0 => term[p].tax # 0 /\ d[p] + 1 <= MaxTermDepth
  PROVE  \E e : Deep(e, [term EXCEPT ![m] = [tax |-> t, parent |-> p]])
<1> DEFINE w == [term EXCEPT ![m] = [tax |-> t, parent |-> p]]
           level == IF p = 0 THEN 1 ELSE d[p] + 1
           e == [d EXCEPT ![m] = level]
<1>1. TermTyped /\ \A x \in TermIds : TermAt(x)  BY DEF TermsInv
<1>2. level \in 1..MaxTermDepth  BY TermConstantsAre, DepthIs
<1>3. d \in [TermIds -> 1..MaxTermDepth]  BY DEF Deep
<1>4. /\ w[m].tax = t /\ w[m].parent = p /\ \A x \in TermIds : x # m => w[x] = term[x]
      /\ e[m] = level /\ \A x \in TermIds : x # m => e[x] = d[x]
      /\ e \in [TermIds -> 1..MaxTermDepth]
  BY <1>1, <1>2, <1>3 DEF TermTyped
<1>5. ASSUME NEW x \in TermIds, w[x].tax # 0
      PROVE  /\ w[x].parent = 0 => e[x] = 1
             /\ w[x].parent # 0 => e[x] = e[w[x].parent] + 1
  <2>1. CASE x = m
    <3>1. p # 0 => p \in TermIds /\ p # m  OBVIOUS
    <3> QED  BY <1>4, <2>1, <3>1
  <2>2. CASE x # m
    <3>1. w[x] = term[x] /\ e[x] = d[x]  BY <1>4, <2>2
    <3>2. ASSUME term[x].parent # 0 PROVE term[x].parent \in TermIds /\ term[x].parent # m
      BY <1>1, <1>5, <3>1, <3>2, TermIs DEF TermAt
    <3>3. term[x].parent # 0 => e[term[x].parent] = d[term[x].parent]  BY <1>4, <3>2
    <3> QED  BY <1>5, <3>1, <3>3, DepthIs
  <2> QED  BY <2>1, <2>2
<1> HIDE DEF w, e
<1>6. Deep(e, w)  BY <1>4, <1>5 DEF Deep
<1> QED  BY <1>6 DEF w

(* The subtree of m is lowered to hang under a term at depth base, or      *)
(* raised to the top.                                                      *)
LEMMA MovedIsDeep ==
  ASSUME TermsInv, NEW d, Deep(d, term), NEW m \in TermIds, term[m].tax # 0, NEW b, Below(b, m),
         NEW p \in TermIds \cup {0}, p # 0 => p \notin Sub(b),
         p # 0 => d[p] + Cardinality({n \in 1..(MaxTermDepth + 2) : b[n] # {}}) <= MaxTermDepth
  PROVE  \E e : Deep(e, [term EXCEPT ![m].parent = p])
<1> DEFINE w == [term EXCEPT ![m].parent = p]
           base == IF p = 0 THEN 0 ELSE d[p]
           h == Cardinality({n \in 1..(MaxTermDepth + 2) : b[n] # {}})
           e == [x \in TermIds |-> IF x \in Sub(b) THEN d[x] - d[m] + 1 + base ELSE d[x]]
<1>1. TermTyped /\ \A x \in TermIds : TermAt(x)  BY DEF TermsInv
<1>2. base \in Nat /\ d[m] \in Nat /\ 1 <= d[m] /\ MaxTermDepth \in Nat  BY DepthIs, TermConstantsAre
<1>3. h \in Nat
  <2>1. IsFiniteSet(1..(MaxTermDepth + 2))
    <3>1. 1 \in Int /\ MaxTermDepth + 2 \in Int  BY TermConstantsAre
    <3> QED  BY <3>1, FS_Interval
  <2>2. IsFiniteSet({n \in 1..(MaxTermDepth + 2) : b[n] # {}})  BY <2>1, FS_Subset
  <2> QED  BY <2>2, FS_CardinalityType
<1>4. /\ m \in Sub(b) /\ \A x \in Sub(b) : d[x] >= d[m] /\ d[x] - d[m] + 1 <= h
      /\ \A x \in TermIds : term[x].tax # 0 => (x \in Sub(b) <=> x = m \/ term[x].parent \in Sub(b))
  BY SubIs
<1>5. p # 0 => base + h <= MaxTermDepth  OBVIOUS
<1> HIDE DEF h
<1>6. ASSUME NEW x \in TermIds PROVE e[x] \in 1..MaxTermDepth
  <2>1. d[x] \in Nat /\ 1 <= d[x] /\ d[x] <= MaxTermDepth  BY DepthIs
  <2>2. CASE x \in Sub(b)
    <3>1. d[x] >= d[m] /\ d[x] - d[m] + 1 <= h /\ e[x] = d[x] - d[m] + 1 + base  BY <1>4, <2>2
    <3>2. CASE p = 0  BY <1>2, <2>1, <3>1, <3>2
    <3>3. CASE p # 0
      <4> HIDE DEF base
      <4> QED  BY <1>2, <1>3, <1>5, <2>1, <3>1, <3>3
    <3> QED  BY <3>2, <3>3
  <2>3. CASE x \notin Sub(b)  BY <1>2, <2>1, <2>3
  <2> QED  BY <2>2, <2>3
<1>7. /\ w[m].tax = term[m].tax /\ w[m].parent = p /\ \A x \in TermIds : x # m => w[x] = term[x]
  BY <1>1 DEF TermTyped
<1>8. e[m] = base + 1  BY <1>2, <1>4
<1>9. p # 0 => e[p] = d[p]  OBVIOUS
<1>10. ASSUME NEW x \in TermIds, w[x].tax # 0
      PROVE  /\ w[x].parent = 0 => e[x] = 1
             /\ w[x].parent # 0 => e[x] = e[w[x].parent] + 1
  <2>1. CASE x = m  BY <1>7, <1>8, <1>9, <2>1
  <2>2. CASE x # m
    <3>1. w[x] = term[x] /\ term[x].tax # 0  BY <1>7, <1>10, <2>2
    <3>2. x \in Sub(b) <=> term[x].parent \in Sub(b)  BY <1>4, <2>2, <3>1
    <3>3. CASE term[x].parent = 0
      <4>1. x \notin Sub(b)
        <5>1. 0 \notin Sub(b)  BY SubIs, TermConstantsAre
        <5> QED  BY <3>2, <3>3, <5>1
      <4>2. e[x] = d[x] /\ d[x] = 1  BY <3>1, <3>3, <4>1, DepthIs
      <4> QED  BY <3>1, <3>3, <4>2
    <3>4. CASE term[x].parent # 0
      <4>1. term[x].parent \in TermIds  BY <1>1, <3>4, TermIs
      <4>2. d[x] = d[term[x].parent] + 1 /\ d[term[x].parent] \in Nat  BY <3>1, <3>4, <4>1, DepthIs
      <4>3. CASE x \in Sub(b)
        <5>1. e[x] = d[x] - d[m] + 1 + base
              /\ e[term[x].parent] = d[term[x].parent] - d[m] + 1 + base
          BY <3>2, <4>1, <4>3
        <5> QED  BY <1>2, <3>1, <3>4, <4>2, <5>1
      <4>4. CASE x \notin Sub(b)
        <5>1. e[x] = d[x] /\ e[term[x].parent] = d[term[x].parent]  BY <3>2, <4>1, <4>4
        <5> QED  BY <3>1, <3>4, <4>2, <5>1
      <4> QED  BY <4>3, <4>4
    <3> QED  BY <3>3, <3>4
  <2> QED  BY <2>1, <2>2
<1>11. e \in [TermIds -> 1..MaxTermDepth]  BY <1>6
<1> HIDE DEF w, e
<1>12. Deep(e, w)  BY <1>10, <1>11 DEF Deep
<1> QED  BY <1>12 DEF w

(* A term that goes leaves its children at the top.                        *)
LEMMA GoneIsDeep ==
  ASSUME TermsInv, NEW d, Deep(d, term), NEW m \in TermIds, term[m].tax # 0, NEW b, Below(b, m),
         NEW w, \A x \in TermIds : w[x] = IF x = m THEN Terms!NoTerm
                  ELSE IF term[x].parent = m THEN [term[x] EXCEPT !.parent = 0] ELSE term[x]
  PROVE  \E e : Deep(e, w)
<1> DEFINE e == [x \in TermIds |-> IF x \in Sub(b) /\ x # m THEN d[x] - d[m] ELSE d[x]]
<1>1. TermTyped /\ \A x \in TermIds : TermAt(x)  BY DEF TermsInv
<1>2. d[m] \in Nat /\ 1 <= d[m] /\ MaxTermDepth \in Nat  BY DepthIs, TermConstantsAre
<1>3. /\ m \in Sub(b) /\ \A x \in Sub(b) : x # m => d[x] > d[m]
      /\ \A x \in TermIds : term[x].tax # 0 => (x \in Sub(b) <=> x = m \/ term[x].parent \in Sub(b))
      /\ 0 \notin Sub(b)
  BY SubIs, TermConstantsAre
<1>4. ASSUME NEW x \in TermIds PROVE e[x] \in 1..MaxTermDepth
  <2>1. d[x] \in Nat /\ 1 <= d[x] /\ d[x] <= MaxTermDepth  BY DepthIs
  <2>2. CASE x \in Sub(b) /\ x # m
    <3>1. d[x] > d[m] /\ e[x] = d[x] - d[m]  BY <1>3, <2>2
    <3> QED  BY <1>2, <2>1, <3>1
  <2>3. CASE ~(x \in Sub(b) /\ x # m)  BY <1>2, <2>1, <2>3
  <2> QED  BY <2>2, <2>3
<1>5. w[m].tax = 0
  <2>1. w[m] = [tax |-> 0, parent |-> 0]  BY DEF Terms!NoTerm, Terms!None
  <2> QED  BY <2>1
<1>6. ASSUME NEW x \in TermIds, w[x].tax # 0
      PROVE  /\ w[x].parent = 0 => e[x] = 1
             /\ w[x].parent # 0 => e[x] = e[w[x].parent] + 1
  <2>1. x # m  BY <1>5, <1>6
  <2>2. term[x] = [tax |-> term[x].tax, parent |-> term[x].parent]  BY <1>1, TermIs
  <2>3. CASE term[x].parent = m
    <3>1. w[x] = [tax |-> term[x].tax, parent |-> 0]  BY <2>1, <2>2, <2>3
    <3>2. term[x].tax # 0 /\ m # 0  BY <1>6, <3>1, TermConstantsAre
    <3>3. d[x] = d[m] + 1  BY <2>3, <3>2, DepthIs
    <3>4. x \in Sub(b)  BY <1>3, <2>3, <3>2
    <3>5. e[x] = 1  BY <1>2, <2>1, <3>3, <3>4
    <3> QED  BY <3>1, <3>5
  <2>4. CASE term[x].parent # m
    <3>1. w[x] = term[x] /\ term[x].tax # 0  BY <1>6, <2>1, <2>4
    <3>2. x \in Sub(b) <=> term[x].parent \in Sub(b)  BY <1>3, <2>1, <3>1
    <3>3. CASE term[x].parent = 0
      <4>1. e[x] = d[x] /\ d[x] = 1  BY <1>3, <3>1, <3>2, <3>3, DepthIs
      <4> QED  BY <3>1, <3>3, <4>1
    <3>4. CASE term[x].parent # 0
      <4>1. term[x].parent \in TermIds  BY <1>1, <3>4, TermIs
      <4>2. d[x] = d[term[x].parent] + 1 /\ d[term[x].parent] \in Nat  BY <3>1, <3>4, <4>1, DepthIs
      <4>3. CASE x \in Sub(b)
        <5>1. e[x] = d[x] - d[m] /\ e[term[x].parent] = d[term[x].parent] - d[m]
          BY <2>1, <2>4, <3>2, <4>1, <4>3
        <5> QED  BY <1>2, <3>1, <3>4, <4>2, <5>1
      <4>4. CASE x \notin Sub(b)
        <5>1. e[x] = d[x] /\ e[term[x].parent] = d[term[x].parent]  BY <3>2, <4>1, <4>4
        <5> QED  BY <3>1, <3>4, <4>2, <5>1
      <4> QED  BY <4>3, <4>4
    <3> QED  BY <3>3, <3>4
  <2> QED  BY <2>3, <2>4
<1>7. e \in [TermIds -> 1..MaxTermDepth]  BY <1>4
<1> HIDE DEF e
<1> QED  BY <1>6, <1>7 DEF Deep

-----------------------------------------------------------------------------
(* The tree that is built from the top.                                    *)

LEMMA LevelIs ==
  ASSUME TermsInv, NEW d, Deep(d, term), NEW t \in TaxIds
  PROVE  \A n \in 1..MaxTermDepth :
           Terms!Level(t)[n] = {m \in TermIds : term[m].tax = t /\ d[m] = n}
<1> DEFINE k == MaxTermDepth
           S == SUBSET TermIds
           roots == {m \in Terms!Terms(t) : term[m].parent \notin Terms!Terms(t) \ {m}}
           next == [X \in S |-> UNION {Terms!Children(x) \cap Terms!Terms(t) : x \in X}]
           F(h) == [n \in 1..k |-> IF n = 1 THEN roots
                      ELSE UNION {Terms!Children(x) \cap Terms!Terms(t) : x \in h[n - 1]}]
           at == CHOOSE h : h = [n \in 1..k |->
                   IF n = 1 THEN {m \in Terms!Terms(t) : term[m].parent \notin Terms!Terms(t) \ {m}}
                   ELSE UNION {Terms!Children(x) \cap Terms!Terms(t) : x \in h[n - 1]}]
           D(n) == {m \in TermIds : term[m].tax = t /\ d[m] = n}
<1>1. TermTyped /\ \A x \in TermIds : TermAt(x)  BY DEF TermsInv
<1>2. \A x, y : y \in Terms!Children(x) <=> y \in TermIds /\ term[y].tax # 0 /\ term[y].parent = x
  BY DEF Terms!Children, Terms!Stored, Terms!None
<1>3. \A x : x \in Terms!Terms(t) <=> x \in TermIds /\ term[x].tax = t
  BY DEF Terms!Terms
<1>4. t # 0 /\ 0 \notin TermIds /\ k \in Nat /\ k >= 1 /\ 1 \in 1..k  BY TermConstantsAre
<1>5. next \in [S -> S] /\ roots \in S  BY <1>2, <1>3
<1> HIDE DEF next, k, S, at, F, roots
<1>6. PICK g \in [1..k -> S] : Runs(g, k, roots, next)
  BY <1>4, <1>5, Iterates
<1> USE DEF S, at, F, roots
<1>7. g = F(g)
  <2>1. ASSUME NEW n \in 1..k, n # 1
        PROVE  next[g[n - 1]] = UNION {Terms!Children(x) \cap Terms!Terms(t) : x \in g[n - 1]}
    <3>1. n - 1 \in 1..k  BY <1>4, <2>1
    <3>2. g[n - 1] \in S  BY <3>1
    <3> QED  BY <3>2 DEF next
  <2>2. \A n \in 1..k : g[n] = IF n = 1 THEN roots
          ELSE UNION {Terms!Children(x) \cap Terms!Terms(t) : x \in g[n - 1]}
    BY <1>6, <2>1 DEF Runs
  <2> QED  BY <2>2
<1>8. at = F(at)  BY <1>7
<1>9. Terms!Level(t) = at  BY Zenon DEF Terms!Level, k
<1> HIDE DEF at
<1>10. \A n \in 1..k : at[n] = IF n = 1 THEN roots
         ELSE UNION {Terms!Children(x) \cap Terms!Terms(t) : x \in at[n - 1]}
  BY <1>8
<1>11. ASSUME NEW m \in TermIds, term[m].tax = t
       PROVE  /\ d[m] \in Nat /\ 1 <= d[m] /\ d[m] <= k
              /\ term[m].parent = 0 => d[m] = 1
              /\ term[m].parent # 0 =>
                   /\ term[m].parent \in Terms!Terms(t) /\ term[m].parent # m
                   /\ d[m] = d[term[m].parent] + 1 /\ d[term[m].parent] \in Nat
                   /\ d[term[m].parent] >= 1
  <2>1. d[m] \in Nat /\ 1 <= d[m] /\ d[m] <= k  BY DepthIs DEF k
  <2>2. term[m].parent = 0 => d[m] = 1  BY <1>4, <1>11, DepthIs
  <2>3. ASSUME term[m].parent # 0
        PROVE  /\ term[m].parent \in Terms!Terms(t) /\ term[m].parent # m
               /\ d[m] = d[term[m].parent] + 1 /\ d[term[m].parent] \in Nat
               /\ d[term[m].parent] >= 1
    <3>1. term[m].parent \in TermIds  BY <1>1, <2>3, TermIs
    <3>2. term[term[m].parent].tax = t  BY <1>1, <1>4, <1>11, <2>3 DEF TermAt
    <3>3. d[m] = d[term[m].parent] + 1  BY <1>4, <1>11, <2>3, DepthIs
    <3>4. d[term[m].parent] \in Nat /\ d[term[m].parent] >= 1  BY <3>1, DepthIs
    <3> QED  BY <1>3, <3>1, <3>2, <3>3, <3>4
  <2> QED  BY <2>1, <2>2, <2>3
<1>12. roots = D(1)
  <2>1. ASSUME NEW m \in TermIds, term[m].tax = t
        PROVE  m \in roots <=> d[m] = 1
    <3>1. m \in roots <=> term[m].parent \notin Terms!Terms(t) \ {m}  BY <1>3, <2>1
    <3>2. CASE term[m].parent = 0
      <4>1. term[m].parent \notin Terms!Terms(t)  BY <1>3, <1>4, <3>2
      <4> QED  BY <1>11, <2>1, <3>1, <3>2, <4>1
    <3>3. CASE term[m].parent # 0
      <4>1. d[m] # 1  BY <1>11, <2>1, <3>3
      <4> QED  BY <1>11, <2>1, <3>1, <3>3, <4>1
    <3> QED  BY <3>2, <3>3
  <2> QED  BY <1>3, <2>1
<1> DEFINE G == {n \in 1..k : at[n] = D(n)}
<1>13. 1 \in G  BY <1>4, <1>10, <1>12
<1>14. ASSUME NEW n \in 1..k, n < k, n \in G PROVE n + 1 \in G
  <2>1. n + 1 \in 1..k /\ n + 1 # 1 /\ (n + 1) - 1 = n  BY <1>4, <1>14
  <2>2. at[n + 1] = UNION {Terms!Children(x) \cap Terms!Terms(t) : x \in at[n]}  BY <1>10, <2>1
  <2>3. at[n] = D(n)  BY <1>14
  <2>4. ASSUME NEW m PROVE m \in at[n + 1] <=> m \in D(n + 1)
    <3>1. m \in at[n + 1] <=> m \in TermIds /\ term[m].tax = t /\ term[m].parent \in D(n)
      BY <1>2, <1>3, <1>4, <2>2, <2>3
    <3>2. ASSUME m \in TermIds, term[m].tax = t
          PROVE  term[m].parent \in D(n) <=> d[m] = n + 1
      <4>1. CASE term[m].parent = 0
        <5>1. d[m] = 1 /\ term[m].parent \notin D(n)  BY <1>4, <1>11, <3>2, <4>1
        <5> QED  BY <2>1, <5>1
      <4>2. CASE term[m].parent # 0
        <5>1. /\ term[m].parent \in TermIds /\ term[term[m].parent].tax = t
              /\ d[m] = d[term[m].parent] + 1 /\ d[term[m].parent] \in Nat
          BY <1>3, <1>11, <3>2, <4>2
        <5>2. n \in Nat  BY <1>4
        <5> QED  BY <5>1, <5>2
      <4> QED  BY <4>1, <4>2
    <3> QED  BY <3>1, <3>2
  <2>5. at[n + 1] = D(n + 1)
    <3> HIDE DEF D
    <3> QED  BY <2>4
  <2> QED  BY <2>1, <2>5
<1> HIDE DEF G
<1>15. \A n \in 1..k : n \in G  BY <1>4, <1>13, <1>14, Upwards
<1> QED  BY <1>9, <1>15 DEF G, k

LEMMA TermsGive == TermsInv => Terms!TermsFormATree /\ Terms!AssignmentsApply
<1> SUFFICES ASSUME TermsInv PROVE Terms!TermsFormATree /\ Terms!AssignmentsApply
  OBVIOUS
<1>1. TermTyped /\ \A x \in TermIds : TermAt(x)  BY DEF TermsInv
<1>2. PICK d : Deep(d, term)  BY DEF TermsInv
<1>3. ASSUME NEW t \in TaxIds
      PROVE  /\ Terms!Terms(t) = UNION {Terms!Level(t)[n] : n \in 1..MaxTermDepth}
             /\ \A m \in Terms!Terms(t) : term[m].parent \in Terms!Terms(t) \cup {0}
             /\ tax[t].state = "stored" /\ ~tax[t].hierarchical =>
                  Terms!Level(t)[1] = Terms!Terms(t)
  <2>1. \A x : x \in Terms!Terms(t) <=> x \in TermIds /\ term[x].tax = t  BY DEF Terms!Terms
  <2>2. \A n \in 1..MaxTermDepth :
          Terms!Level(t)[n] = {m \in TermIds : term[m].tax = t /\ d[m] = n}
    BY <1>2, LevelIs
  <2>3. \A m \in TermIds : d[m] \in 1..MaxTermDepth  BY <1>2 DEF Deep
  <2>4. Terms!Terms(t) = UNION {Terms!Level(t)[n] : n \in 1..MaxTermDepth}
    <3>1. ASSUME NEW x \in Terms!Terms(t)
          PROVE  x \in UNION {Terms!Level(t)[n] : n \in 1..MaxTermDepth}
      <4>1. d[x] \in 1..MaxTermDepth /\ x \in Terms!Level(t)[d[x]]  BY <2>1, <2>2, <2>3
      <4> QED  BY <4>1
    <3>2. ASSUME NEW n \in 1..MaxTermDepth, NEW x \in Terms!Level(t)[n] PROVE x \in Terms!Terms(t)
      BY <2>1, <2>2
    <3> QED  BY <3>1, <3>2
  <2>5. t # 0  BY TermConstantsAre
  <2>6. ASSUME NEW m \in Terms!Terms(t) PROVE term[m].parent \in Terms!Terms(t) \cup {0}
    <3>1. m \in TermIds /\ term[m].tax = t  BY <2>1
    <3> QED  BY <1>1, <2>1, <2>5, <3>1, TermIs DEF TermAt
  <2>7. ASSUME tax[t].state = "stored", ~tax[t].hierarchical
        PROVE  Terms!Level(t)[1] = Terms!Terms(t)
    <3>1. ASSUME NEW m \in TermIds, term[m].tax = t PROVE d[m] = 1
      <4>1. term[m].parent = 0  BY <1>1, <2>5, <2>7, <3>1 DEF TermAt
      <4> QED  BY <1>2, <2>5, <3>1, <4>1, DepthIs
    <3>2. 1 \in 1..MaxTermDepth  BY TermConstantsAre
    <3> QED  BY <2>1, <2>2, <3>1, <3>2
  <2> QED  BY <2>4, <2>6, <2>7
<1>4. Terms!TermsFormATree  BY <1>3 DEF Terms!TermsFormATree, Terms!None
<1>5. Terms!AssignmentsApply
  <2>1. \A a \in assigned : a[2] \in TermIds  BY <1>1 DEF TermTyped
  <2> QED  BY <2>1, StoredTerms DEF TermsInv, AssignedAt, Terms!AssignmentsApply, Terms!Applies
<1> QED  BY <1>4, <1>5

-----------------------------------------------------------------------------
(* The handlers.                                                           *)
TaxRow == [state : {"none", "stored"}, hierarchical : BOOLEAN, appliesTo : SUBSET Things]

LEMMA TermParts ==
  ASSUME TermsInv
  PROVE  /\ tax \in [TaxIds -> TaxRow] /\ term \in Tables
         /\ thing \in [Things -> {"live", "trashed", "gone"}]
         /\ assigned \subseteq Things \X TermIds
         /\ \A m \in TermIds : /\ TermAt(m) /\ term[m].tax \in TaxIds \cup {0}
                               /\ term[m].parent \in TermIds \cup {0}
         /\ \A a \in assigned : AssignedAt(a) /\ a[1] \in Things /\ a[2] \in TermIds
BY TermIs DEF TermsInv, TermTyped, TaxRow, Tables

LEMMA TaxKeeps ==
  ASSUME TermsInv, NEW t \in TaxIds, NEW r \in TaxRow, tax' = [tax EXCEPT ![t] = r],
         UNCHANGED <<term, thing, assigned>>,
         \A m \in TermIds : term[m].tax = t =>
           r.state = "stored" /\ (term[m].parent # 0 => r.hierarchical),
         \A a \in assigned : term[a[2]].tax = t => a[1] \in r.appliesTo
  PROVE  TermsInv'
<1>1. TermTyped'  BY TermParts DEF TermTyped, TaxRow, Tables
<1>2. tax'[t] = r /\ \A u \in TaxIds : u # t => tax'[u] = tax[u]  BY TermParts
<1>3. ASSUME NEW m \in TermIds PROVE TermAt(m)'
  <2>1. TermAt(m) /\ term[m].tax \in TaxIds \cup {0}  BY TermParts
  <2>2. CASE term[m].tax = 0  BY <2>1, <2>2 DEF TermAt
  <2>3. CASE term[m].tax = t /\ t # 0  BY <1>2, <2>1, <2>3 DEF TermAt
  <2>4. CASE term[m].tax # t /\ term[m].tax # 0
    <3>1. tax'[term[m].tax] = tax[term[m].tax]  BY <1>2, <2>1, <2>4
    <3> QED  BY <2>1, <2>4, <3>1 DEF TermAt
  <2> QED  BY <2>2, <2>3, <2>4
<1>4. ASSUME NEW a \in assigned PROVE AssignedAt(a)'
  <2>1. AssignedAt(a) /\ term[a[2]].tax \in TaxIds  BY TermParts DEF AssignedAt
  <2>2. CASE term[a[2]].tax = t  BY <1>2, <2>1, <2>2 DEF AssignedAt
  <2>3. CASE term[a[2]].tax # t  BY <1>2, <2>1, <2>3 DEF AssignedAt
  <2> QED  BY <2>2, <2>3
<1>5. \E d : Deep(d, term')  BY DEF TermsInv
<1> QED  BY <1>1, <1>3, <1>4, <1>5 DEF TermsInv

LEMMA CreateTaxonomyKeeps ==
  ASSUME TermsInv, NEW t \in TaxIds, Terms!createTaxonomy(t)
  PROVE  TermsInv'
<1>1. PICK hierarchical \in BOOLEAN, appliesTo \in SUBSET Things :
        tax' = [tax EXCEPT ![t] = [state |-> "stored", hierarchical |-> hierarchical,
                                   appliesTo |-> appliesTo]]
  BY DEF Terms!createTaxonomy
<1> DEFINE r == [state |-> "stored", hierarchical |-> hierarchical, appliesTo |-> appliesTo]
<1>2. r \in TaxRow  BY DEF TaxRow
<1>3. tax[t].state = "none" /\ UNCHANGED <<term, thing, assigned>>  BY DEF Terms!createTaxonomy
<1>4. \A m \in TermIds : term[m].tax # t
  <2>1. t # 0  BY TermConstantsAre
  <2> QED  BY <1>3, <2>1, TermParts DEF TermAt
<1>5. \A a \in assigned : term[a[2]].tax # t  BY <1>4, TermParts
<1> HIDE DEF r
<1> QED  BY <1>1, <1>2, <1>3, <1>4, <1>5, TaxKeeps DEF r

LEMMA UpdateTaxonomyKeeps ==
  ASSUME TermsInv, NEW t \in TaxIds, Terms!updateTaxonomy(t)
  PROVE  TermsInv'
<1>1. PICK hierarchical \in BOOLEAN, appliesTo \in SUBSET Things :
        /\ Terms!mayBe(t, hierarchical) /\ Terms!mayApplyTo(t, appliesTo)
        /\ tax' = [tax EXCEPT ![t].hierarchical = hierarchical, ![t].appliesTo = appliesTo]
  BY DEF Terms!updateTaxonomy
<1> DEFINE r == [state |-> "stored", hierarchical |-> hierarchical, appliesTo |-> appliesTo]
<1>2. r \in TaxRow  BY DEF TaxRow
<1>3. tax[t].state = "stored" /\ UNCHANGED <<term, thing, assigned>>  BY DEF Terms!updateTaxonomy
<1>4. tax' = [tax EXCEPT ![t] = r]
  <2>1. tax[t] \in TaxRow  BY TermParts
  <2>2. tax[t] = [state |-> "stored", hierarchical |-> tax[t].hierarchical,
                  appliesTo |-> tax[t].appliesTo]
    BY <1>3, <2>1 DEF TaxRow
  <2>3. [tax[t] EXCEPT !.hierarchical = hierarchical] =
          [state |-> "stored", hierarchical |-> hierarchical, appliesTo |-> tax[t].appliesTo]
    BY <2>2
  <2>4. \A q : q = [state |-> "stored", hierarchical |-> hierarchical, appliesTo |-> tax[t].appliesTo]
          => [q EXCEPT !.appliesTo = appliesTo] = r
    OBVIOUS
  <2>5. [[tax[t] EXCEPT !.hierarchical = hierarchical] EXCEPT !.appliesTo = appliesTo] = r
    BY <2>3, <2>4
  <2>6. tax' = [tax EXCEPT ![t] = [[tax[t] EXCEPT !.hierarchical = hierarchical] EXCEPT !.appliesTo = appliesTo]]
    BY <1>1, TermParts
  <2> QED  BY <2>5, <2>6
<1>5. ASSUME NEW m \in TermIds, term[m].tax = t
      PROVE  r.state = "stored" /\ (term[m].parent # 0 => r.hierarchical)
  <2>1. m \in Terms!Terms(t)  BY <1>5 DEF Terms!Terms
  <2>2. term[m].parent # 0 => tax[t].hierarchical
    BY <1>5, TermParts, TermConstantsAre DEF TermAt
  <2>3. tax[t].hierarchical /\ ~hierarchical => term[m].parent = 0
    BY <1>1, <2>1 DEF Terms!mayBe, Terms!None
  <2> QED  BY <2>2, <2>3
<1>6. ASSUME NEW a \in assigned, term[a[2]].tax = t PROVE a[1] \in r.appliesTo
  <2>1. a[1] \in Things /\ a[2] \in TermIds /\ a[1] \in tax[t].appliesTo /\ a = <<a[1], a[2]>>
    BY <1>6, TermParts DEF AssignedAt
  <2>2. a[2] \in Terms!Terms(t)  BY <1>6, <2>1 DEF Terms!Terms
  <2>3. ASSUME a[1] \notin appliesTo PROVE FALSE
    <3>1. a[1] \in Things \ appliesTo /\ Terms!Applies(t, a[1])  BY <2>1, <2>3 DEF Terms!Applies
    <3>2. \A m \in Terms!Terms(t) : <<a[1], m>> \notin assigned
      BY <1>1, <3>1 DEF Terms!mayApplyTo
    <3> QED  BY <2>1, <2>2, <3>2
  <2> QED  BY <2>3
<1> HIDE DEF r
<1> QED  BY <1>2, <1>3, <1>4, <1>5, <1>6, TaxKeeps

LEMMA TermKeeps ==
  ASSUME TermsInv, NEW m \in TermIds, NEW t \in TaxIds, NEW p \in TermIds \cup {0},
         term' = [term EXCEPT ![m] = [tax |-> t, parent |-> p]],
         UNCHANGED <<tax, thing, assigned>>,
         term[m].tax \in {0, t}, tax[t].state = "stored",
         p # 0 => p # m /\ term[p].tax = t /\ tax[t].hierarchical,
         \E e : Deep(e, term')
  PROVE  TermsInv'
<1>1. /\ term'[m].tax = t /\ term'[m].parent = p
      /\ \A x \in TermIds : x # m => term'[x] = term[x]
  BY TermParts DEF Tables
<1>2. TermTyped'  BY TermParts DEF TermTyped, TaxRow, Tables
<1>3. t # 0 /\ 0 \notin TermIds  BY TermConstantsAre
<1>4. ASSUME NEW x \in TermIds PROVE TermAt(x)'
  <2>1. CASE x = m
    <3>1. p # 0 => p \in TermIds /\ term'[p] = term[p]  BY <1>1
    <3> QED  BY <1>1, <1>3, <2>1, <3>1 DEF TermAt
  <2>2. CASE x # m
    <3>1. term'[x] = term[x] /\ TermAt(x) /\ term[x].parent \in TermIds \cup {0}
      BY <1>1, <2>2, TermParts
    <3>2. term[x].tax # 0 /\ term[x].parent # 0 => term'[term[x].parent].tax = term[x].tax
      <4>1. CASE term[x].parent = m  BY <1>1, <3>1, <4>1 DEF TermAt
      <4>2. CASE term[x].parent # m  BY <1>1, <3>1, <4>2 DEF TermAt
      <4> QED  BY <4>1, <4>2
    <3> QED  BY <3>1, <3>2 DEF TermAt
  <2> QED  BY <2>1, <2>2
<1>5. ASSUME NEW a \in assigned PROVE AssignedAt(a)'
  <2>1. AssignedAt(a) /\ a[2] \in TermIds  BY TermParts
  <2>2. term'[a[2]].tax = term[a[2]].tax
    <3>1. CASE a[2] = m  BY <1>1, <2>1, <3>1 DEF AssignedAt
    <3>2. CASE a[2] # m  BY <1>1, <2>1, <3>2
    <3> QED  BY <3>1, <3>2
  <2> QED  BY <2>1, <2>2 DEF AssignedAt
<1> QED  BY <1>2, <1>4, <1>5 DEF TermsInv

LEMMA CreateTermKeeps ==
  ASSUME TermsInv, NEW t \in TaxIds, NEW m \in TermIds, Terms!createTerm(t, m)
  PROVE  TermsInv'
<1>1. PICK d : Deep(d, term)  BY DEF TermsInv
<1>2. /\ tax[t].state = "stored" /\ m \notin Terms!Stored /\ UNCHANGED <<tax, thing, assigned>>
      /\ \E p \in Terms!Stored \cup {0} : /\ Terms!mayHaveParent(t, p, 0)
                                          /\ term' = [term EXCEPT ![m] = [tax |-> t, parent |-> p]]
  BY DEF Terms!createTerm, Terms!None
<1>3. PICK p \in Terms!Stored \cup {0} : /\ Terms!mayHaveParent(t, p, 0)
                                         /\ term' = [term EXCEPT ![m] = [tax |-> t, parent |-> p]]
  BY <1>2
<1>4. term[m].tax = 0 /\ p \in TermIds \cup {0}  BY <1>2, StoredTerms
<1>5. ASSUME p # 0
      PROVE  /\ p \in TermIds /\ term[p].tax = t /\ tax[t].hierarchical /\ term[p].tax # 0
             /\ d[p] + 1 <= MaxTermDepth
  <2>1. p \in TermIds /\ term[p].tax # 0  BY <1>5, StoredTerms
  <2>2. /\ tax[t].hierarchical
        /\ Terms!Cardinality(Terms!Ancestors(p)) + 1 <= MaxTermDepth
        /\ \A a \in Terms!Ancestors(p) : term[a].tax = t
    BY <1>3, <1>5 DEF Terms!mayHaveParent, Terms!None
  <2>3. /\ p \in Terms!Ancestors(p) /\ d[p] <= Terms!Cardinality(Terms!Ancestors(p))
        /\ Terms!Cardinality(Terms!Ancestors(p)) \in Nat /\ d[p] \in Nat
    BY <1>1, <2>1, AncestorsAre, DepthIs
  <2>4. MaxTermDepth \in Nat  BY TermConstantsAre
  <2> QED  BY <2>1, <2>2, <2>3, <2>4
<1>6. \E e : Deep(e, term')  BY <1>1, <1>3, <1>4, <1>5, NewIsDeep
<1>7. p # 0 => p # m  BY <1>4, <1>5
<1> QED  BY <1>2, <1>3, <1>4, <1>5, <1>6, <1>7, TermKeeps

LEMMA UpdateTermKeeps ==
  ASSUME TermsInv, NEW m \in TermIds, Terms!updateTerm(m)
  PROVE  TermsInv'
<1>1. PICK d : Deep(d, term)  BY DEF TermsInv
<1>2. /\ m \in Terms!Stored /\ UNCHANGED <<tax, thing, assigned>>
      /\ \E p \in Terms!Stored \cup {0} : /\ Terms!mayHaveParent(term[m].tax, p, m)
                                          /\ term' = [term EXCEPT ![m].parent = p]
  BY DEF Terms!updateTerm, Terms!None
<1>3. PICK p \in Terms!Stored \cup {0} : /\ Terms!mayHaveParent(term[m].tax, p, m)
                                         /\ term' = [term EXCEPT ![m].parent = p]
  BY <1>2
<1> DEFINE t == term[m].tax
<1>4. /\ t # 0 /\ t \in TaxIds /\ p \in TermIds \cup {0} /\ m # 0 /\ tax[t].state = "stored"
      /\ TermTyped
  BY <1>2, StoredTerms, TermParts, TermConstantsAre DEF TermAt, TermsInv
<1>5. PICK b : /\ Below(b, m)
               /\ Terms!subtreeHeight(m) = Terms!Cardinality({n \in 1..(MaxTermDepth + 2) : b[n] # {}})
  BY <1>4, BelowIs
<1> DEFINE h == Cardinality({n \in 1..(MaxTermDepth + 2) : b[n] # {}})
<1>6. h \in Nat
  <2>1. 1 \in Int /\ MaxTermDepth + 2 \in Int  BY TermConstantsAre
  <2>2. IsFiniteSet(1..(MaxTermDepth + 2))  BY <2>1, FS_Interval
  <2>3. IsFiniteSet({n \in 1..(MaxTermDepth + 2) : b[n] # {}})  BY <2>2, FS_Subset
  <2> QED  BY <2>3, FS_CardinalityType
<1>7. Terms!subtreeHeight(m) = h  BY <1>5, CountIs
<1>8. ASSUME p # 0
      PROVE  /\ p \in TermIds /\ term[p].tax = t /\ tax[t].hierarchical
             /\ p \notin Sub(b) /\ d[p] + h <= MaxTermDepth
  <2> HIDE DEF h
  <2>1. p \in TermIds /\ term[p].tax # 0  BY <1>8, StoredTerms
  <2>2. /\ tax[t].hierarchical
        /\ Terms!Cardinality(Terms!Ancestors(p)) + h <= MaxTermDepth
        /\ \A a \in Terms!Ancestors(p) : term[a].tax = t /\ a # m
    BY <1>3, <1>4, <1>7, <1>8 DEF Terms!mayHaveParent, Terms!None
  <2>3. /\ p \in Terms!Ancestors(p) /\ d[p] <= Terms!Cardinality(Terms!Ancestors(p))
        /\ Terms!Cardinality(Terms!Ancestors(p)) \in Nat /\ d[p] \in Nat
    BY <1>1, <2>1, AncestorsAre, DepthIs
  <2>4. MaxTermDepth \in Nat  BY TermConstantsAre
  <2>5. m \notin Terms!Ancestors(p)  BY <2>2
  <2>6. p \notin Sub(b)  BY <1>1, <1>4, <1>5, <2>1, <2>5, NotBelow
  <2> QED  BY <1>6, <2>1, <2>2, <2>3, <2>4, <2>6
<1>9. \E e : Deep(e, term')  BY <1>1, <1>3, <1>4, <1>5, <1>8, MovedIsDeep
<1>10. p # 0 => p # m
  <2>1. m \in Sub(b)  BY <1>1, <1>4, <1>5, SubIs
  <2> QED  BY <1>8, <2>1
<1>11. term' = [term EXCEPT ![m] = [tax |-> t, parent |-> p]]
  <2>1. term[m] = [tax |-> t, parent |-> term[m].parent]  BY <1>4, TermIs
  <2> HIDE DEF t
  <2>2. [term[m] EXCEPT !.parent = p] = [tax |-> t, parent |-> p]  BY <2>1
  <2> QED  BY <1>3, <2>2, TermParts DEF Tables
<1> QED  BY <1>2, <1>4, <1>8, <1>9, <1>10, <1>11, TermKeeps

(* What goes takes its assignments along.                                  *)
LEMMA DeleteKeeps ==
  ASSUME TermsInv, NEW dropped \in SUBSET TermIds, Terms!Delete(dropped), UNCHANGED thing,
         tax' \in [TaxIds -> TaxRow],
         \A m \in TermIds : m \notin dropped /\ term[m].tax # 0 => tax'[term[m].tax] = tax[term[m].tax],
         \A m \in TermIds : m \in dropped => term[m].tax # 0,
         \E e : Deep(e, term')
  PROVE  TermsInv'
<1>1. \A x \in TermIds : term'[x] = IF x \in dropped THEN [tax |-> 0, parent |-> 0]
        ELSE IF term[x].parent \in dropped THEN [term[x] EXCEPT !.parent = 0] ELSE term[x]
  BY DEF Terms!Delete, Terms!NoTerm, Terms!None
<1>2. assigned' = {a \in assigned : a[2] \notin dropped}  BY DEF Terms!Delete
<1>3. ASSUME NEW x \in TermIds
      PROVE  /\ x \in dropped => term'[x].tax = 0 /\ term'[x].parent = 0
             /\ x \notin dropped => /\ term'[x].tax = term[x].tax
                                 /\ term'[x].parent = IF term[x].parent \in dropped THEN 0 ELSE term[x].parent
             /\ term'[x] \in [tax : TaxIds \cup {0}, parent : TermIds \cup {0}]
  <2>1. /\ term[x] = [tax |-> term[x].tax, parent |-> term[x].parent]
        /\ term[x].tax \in TaxIds \cup {0} /\ term[x].parent \in TermIds \cup {0}
    BY TermIs, TermParts DEF TermsInv
  <2>2. CASE x \in dropped
    <3>1. term'[x] = [tax |-> 0, parent |-> 0]  BY <1>1, <2>2
    <3> QED  BY <2>2, <3>1
  <2>3. CASE x \notin dropped /\ term[x].parent \in dropped
    <3>1. [term[x] EXCEPT !.parent = 0] = [tax |-> term[x].tax, parent |-> 0]  BY <2>1
    <3>2. term'[x] = [tax |-> term[x].tax, parent |-> 0]  BY <1>1, <2>3, <3>1
    <3> QED  BY <2>1, <2>3, <3>2
  <2>4. CASE x \notin dropped /\ term[x].parent \notin dropped
    <3>1. term'[x] = term[x]  BY <1>1, <2>4
    <3> QED  BY <2>1, <2>4, <3>1
  <2> QED  BY <2>2, <2>3, <2>4
<1>4. term' = [x \in TermIds |-> term'[x]]  BY DEF Terms!Delete
<1>5. term' \in Tables  BY <1>3, <1>4 DEF Tables
<1>6. TermTyped'  BY <1>2, <1>5, TermParts DEF TermTyped, TaxRow, Tables
<1>7. ASSUME NEW x \in TermIds PROVE TermAt(x)'
  <2>1. CASE x \in dropped  BY <1>3, <2>1 DEF TermAt
  <2>2. CASE x \notin dropped
    <3>1. TermAt(x) /\ term[x].parent \in TermIds \cup {0}  BY TermParts
    <3>2. term[x].tax # 0 => tax'[term[x].tax] = tax[term[x].tax]  BY <2>2
    <3>3. term[x].parent \in TermIds /\ term[x].parent \notin dropped =>
            term'[term[x].parent].tax = term[term[x].parent].tax
      BY <1>3
    <3> QED  BY <1>3, <2>2, <3>1, <3>2, <3>3 DEF TermAt
  <2> QED  BY <2>1, <2>2
<1>8. ASSUME NEW a \in assigned' PROVE AssignedAt(a)'
  <2>1. a \in assigned /\ a[2] \notin dropped /\ a[2] \in TermIds /\ AssignedAt(a)  BY <1>2, TermParts
  <2>2. term'[a[2]].tax = term[a[2]].tax  BY <1>3, <2>1
  <2> QED  BY <2>1, <2>2 DEF AssignedAt
<1> QED  BY <1>6, <1>7, <1>8 DEF TermsInv

LEMMA DeleteTermKeeps ==
  ASSUME TermsInv, NEW m \in TermIds, Terms!deleteTerm(m)
  PROVE  TermsInv'
<1>1. PICK d : Deep(d, term)  BY DEF TermsInv
<1>2. /\ term[m].tax # 0 /\ Terms!Delete({m}) /\ UNCHANGED <<tax, thing>> /\ TermTyped
  BY StoredTerms DEF Terms!deleteTerm, TermsInv
<1>3. PICK b : Below(b, m)  BY <1>2, BelowIs
<1>4. \A x \in TermIds : term'[x] = IF x = m THEN Terms!NoTerm
        ELSE IF term[x].parent = m THEN [term[x] EXCEPT !.parent = 0] ELSE term[x]
  BY <1>2 DEF Terms!Delete, Terms!None
<1>5. \E e : Deep(e, term')  BY <1>1, <1>2, <1>3, <1>4, GoneIsDeep
<1>6. tax' \in [TaxIds -> TaxRow]  BY <1>2, TermParts
<1> QED  BY <1>2, <1>5, <1>6, DeleteKeeps

LEMMA DeleteTaxonomyKeeps ==
  ASSUME TermsInv, NEW t \in TaxIds, Terms!deleteTaxonomy(t)
  PROVE  TermsInv'
<1> DEFINE dropped == Terms!Terms(t)
<1>1. PICK d : Deep(d, term)  BY DEF TermsInv
<1>2. /\ tax' = [tax EXCEPT ![t] = Terms!NoTax] /\ Terms!Delete(dropped) /\ UNCHANGED thing
  BY DEF Terms!deleteTaxonomy
<1>3. \A x : x \in dropped <=> x \in TermIds /\ term[x].tax = t  BY DEF Terms!Terms
<1>4. t # 0 /\ 0 \notin TermIds  BY TermConstantsAre
<1>5. Terms!NoTax \in TaxRow  BY DEF Terms!NoTax, TaxRow
<1>6. tax' \in [TaxIds -> TaxRow] /\ \A u \in TaxIds : u # t => tax'[u] = tax[u]
  BY <1>2, <1>5, TermParts
<1>7. \A x \in TermIds : term'[x] = IF x \in dropped THEN [tax |-> 0, parent |-> 0]
        ELSE IF term[x].parent \in dropped THEN [term[x] EXCEPT !.parent = 0] ELSE term[x]
  BY <1>2 DEF Terms!Delete, Terms!NoTerm, Terms!None
<1> HIDE DEF dropped
<1>8. \A x \in TermIds : x \notin dropped /\ term[x].tax # 0 => term[x].parent \notin dropped
  BY <1>3, <1>4, TermParts DEF TermAt
<1>9. \A x \in TermIds : term'[x].tax # 0 => term'[x] = term[x]
  <2> SUFFICES ASSUME NEW x \in TermIds, term'[x].tax # 0 PROVE term'[x] = term[x]
    OBVIOUS
  <2>1. ASSUME x \in dropped PROVE FALSE
    <3>1. term'[x] = [tax |-> 0, parent |-> 0]  BY <1>7, <2>1
    <3> QED  BY <3>1
  <2>2. ASSUME term[x].parent \in dropped PROVE FALSE
    <3>1. term[x].tax = 0  BY <1>8, <2>1, <2>2
    <3>2. term[x].parent = 0  BY <3>1, TermParts DEF TermAt
    <3> QED  BY <1>3, <1>4, <2>2, <3>2
  <2> QED  BY <1>7, <2>1, <2>2
<1>10. Deep(d, term')  BY <1>1, <1>9 DEF Deep
<1>11. \A m \in TermIds : m \notin dropped /\ term[m].tax # 0 => tax'[term[m].tax] = tax[term[m].tax]
  BY <1>3, <1>6, TermParts
<1>12. dropped \in SUBSET TermIds /\ \A m \in TermIds : m \in dropped => term[m].tax # 0  BY <1>3, <1>4
<1> QED  BY <1>2, <1>6, <1>10, <1>11, <1>12, DeleteKeeps

LEMMA AssignKeeps ==
  ASSUME TermsInv, UNCHANGED <<tax, term>>,
         thing' \in [Things -> {"live", "trashed", "gone"}], assigned' \subseteq Things \X TermIds,
         \A a \in assigned' : AssignedAt(a)'
  PROVE  TermsInv'
<1>1. TermTyped'  BY TermParts DEF TermTyped, TaxRow, Tables
<1>2. \A m \in TermIds : TermAt(m)'  BY TermParts DEF TermAt
<1>3. \E d : Deep(d, term')  BY DEF TermsInv
<1> QED  BY <1>1, <1>2, <1>3 DEF TermsInv

LEMMA SetTermsKeeps ==
  ASSUME TermsInv, NEW g \in Things, Terms!setTerms(g)
  PROVE  TermsInv'
<1>1. thing[g] = "live" /\ UNCHANGED <<tax, term, thing>>  BY DEF Terms!setTerms
<1>2. PICK wanted \in SUBSET Terms!Stored :
        /\ Terms!assertTermsApplyTo(wanted, g)
        /\ assigned' = {a \in assigned : a[1] # g} \cup {<<g, m>> : m \in wanted}
  BY DEF Terms!setTerms
<1>3. \A m \in wanted : m \in TermIds /\ term[m].tax # 0 /\ g \in tax[term[m].tax].appliesTo
  BY <1>2, StoredTerms DEF Terms!assertTermsApplyTo, Terms!Applies
<1>4. assigned' \subseteq Things \X TermIds  BY <1>2, <1>3, TermParts
<1>5. ASSUME NEW a \in assigned' PROVE AssignedAt(a)'
  <2>1. CASE a \in assigned  BY <1>1, <2>1, TermParts DEF AssignedAt
  <2>2. CASE \E m \in wanted : a = <<g, m>>
    <3>1. PICK m \in wanted : a = <<g, m>>  BY <2>2
    <3> QED  BY <1>1, <1>3, <3>1 DEF AssignedAt
  <2> QED  BY <1>2, <2>1, <2>2
<1> QED  BY <1>1, <1>4, <1>5, TermParts, AssignKeeps

LEMMA TrashKeeps ==
  ASSUME TermsInv, NEW g \in Things, Terms!trash(g)
  PROVE  TermsInv'
<1>1. /\ UNCHANGED <<tax, term, assigned>>
      /\ thing' = [thing EXCEPT ![g] = IF @ = "live" THEN "trashed" ELSE "live"]
  BY DEF Terms!trash
<1>2. /\ thing' \in [Things -> {"live", "trashed", "gone"}]
      /\ \A x \in Things : thing[x] # "gone" => thing'[x] # "gone"
  BY <1>1, TermParts
<1>3. \A a \in assigned' : AssignedAt(a)'  BY <1>1, <1>2, TermParts DEF AssignedAt
<1> QED  BY <1>1, <1>2, <1>3, TermParts, AssignKeeps

LEMMA PurgeKeeps ==
  ASSUME TermsInv, NEW g \in Things, Terms!purge(g)
  PROVE  TermsInv'
<1>1. /\ UNCHANGED <<tax, term>> /\ thing' = [thing EXCEPT ![g] = "gone"]
      /\ assigned' = {a \in assigned : a[1] # g}
  BY DEF Terms!purge
<1>2. /\ thing' \in [Things -> {"live", "trashed", "gone"}]
      /\ \A x \in Things : x # g => thing'[x] = thing[x]
  BY <1>1, TermParts
<1>3. \A a \in assigned' : AssignedAt(a)'  BY <1>1, <1>2, TermParts DEF AssignedAt
<1>4. assigned' \subseteq Things \X TermIds  BY <1>1, TermParts
<1> QED  BY <1>1, <1>2, <1>3, <1>4, AssignKeeps

LEMMA TermsStep == TermsInv /\ [Terms!Next]_termVars => TermsInv'
<1> SUFFICES ASSUME TermsInv, [Terms!Next]_termVars PROVE TermsInv'
  OBVIOUS
<1>1. CASE UNCHANGED termVars
  <2>1. UNCHANGED <<tax, term, thing, assigned>>  BY <1>1 DEF termVars
  <2>2. \A a \in assigned' : AssignedAt(a)'  BY <2>1, TermParts DEF AssignedAt
  <2> QED  BY <2>1, <2>2, TermParts, AssignKeeps
<1>2. CASE Terms!Next
  BY <1>2, CreateTaxonomyKeeps, UpdateTaxonomyKeeps, DeleteTaxonomyKeeps, CreateTermKeeps,
     UpdateTermKeeps, DeleteTermKeeps, SetTermsKeeps, TrashKeeps, PurgeKeeps
  DEF Terms!Next
<1> QED  BY <1>1, <1>2

LEMMA TermsInit == Terms!Init => TermsInv
<1> SUFFICES ASSUME Terms!Init PROVE TermsInv
  OBVIOUS
<1>1. /\ tax = [t \in TaxIds |-> [state |-> "none", hierarchical |-> FALSE, appliesTo |-> {}]]
      /\ term = [m \in TermIds |-> [tax |-> 0, parent |-> 0]]
      /\ thing = [g \in Things |-> "live"] /\ assigned = {}
  BY DEF Terms!Init, Terms!NoTax, Terms!NoTerm, Terms!None
<1>2. TermTyped  BY <1>1 DEF TermTyped
<1>3. \A m \in TermIds : TermAt(m)  BY <1>1 DEF TermAt
<1>4. Deep([m \in TermIds |-> 1], term)
  <2>1. 1 \in 1..MaxTermDepth  BY TermConstantsAre
  <2> QED  BY <1>1, <2>1 DEF Deep
<1> QED  BY <1>1, <1>2, <1>3, <1>4 DEF TermsInv

(* The checks of a vocabulary's handlers are enough: however terms are     *)
(* made, moved under each other and deleted, and vocabularies flattened    *)
(* and narrowed, terms form trees no deeper than allowed, and assignments  *)
(* apply to what carries them.                                             *)
THEOREM TermsStayTrees == SiteSpec => []TermsAreSound
<1>1. SiteInit => TermsInv  BY TermsInit DEF SiteInit
<1>2. TermsInv /\ [SiteNext]_siteVars => TermsInv'
  <2> SUFFICES ASSUME TermsInv, [SiteNext]_siteVars PROVE TermsInv'
    OBVIOUS
  <2>1. [Terms!Next]_termVars
    <3>1. CASE UNCHANGED siteVars  BY <3>1 DEF siteVars
    <3>2. CASE SiteNext  BY <3>2 DEF SiteNext
    <3> QED  BY <3>1, <3>2
  <2> QED  BY <2>1, TermsStep
<1>3. TermsInv => TermsAreSound  BY TermsGive DEF TermsAreSound
<1> QED  BY <1>1, <1>2, <1>3, PTL DEF SiteSpec

-----------------------------------------------------------------------------
(* Furniture: trees as lists of items with depths.                         *)
Item == [target : Pages \cup {0}, depth : Nat, list : BOOLEAN]

(* Where s stands its first item is at depth d at most, and what comes     *)
(* after it may be at depth e.                                             *)
Fits(d, s, e) ==
  /\ s \in Seq(Item)
  /\ Len(s) = 0 => e <= d
  /\ Len(s) > 0 => s[1].depth <= d /\ e <= s[Len(s)].depth + 1
  /\ \A n \in 1..Len(s) : n < Len(s) => s[n + 1].depth <= s[n].depth + 1

(* Reading on, one level down at most: every item has its parent.          *)
Trees == {t \in Seq(Item) : Fits(0, t, 0)}

LEMMA ItemAt ==
  ASSUME NEW s \in Seq(Item)
  PROVE  /\ Len(s) \in Nat /\ s \in [1..Len(s) -> Item]
         /\ \A n \in 1..Len(s) : s[n] \in Item /\ s[n].depth \in Nat
<1>1. Len(s) \in Nat /\ s \in [1..Len(s) -> Item]  BY LenProperties
<1> QED  BY <1>1 DEF Item

LEMMA Built ==
  ASSUME NEW n \in Nat, NEW f \in [1..n -> Item]
  PROVE  f \in Seq(Item) /\ Len(f) = n
<1>1. f \in Seq(Item)  BY SeqDef
<1>2. Len(f) \in Nat /\ DOMAIN f = 1..Len(f)  BY <1>1, LenProperties
<1>3. 1..n = 1..Len(f)  BY <1>2
<1>4. ~(n < Len(f))
  <2>1. ASSUME n < Len(f) PROVE FALSE
    <3>1. Len(f) \in 1..Len(f) /\ Len(f) \notin 1..n  BY <1>2, <2>1
    <3> QED  BY <1>3, <3>1
  <2> QED  BY <2>1
<1>5. ~(Len(f) < n)
  <2>1. ASSUME Len(f) < n PROVE FALSE
    <3>1. n \in 1..n /\ n \notin 1..Len(f)  BY <1>2, <2>1
    <3> QED  BY <1>3, <3>1
  <2> QED  BY <2>1
<1> QED  BY <1>1, <1>2, <1>4, <1>5

LEMMA Joined ==
  ASSUME NEW d \in Nat, NEW e \in Nat, NEW h \in Nat, NEW a, NEW b, Fits(d, a, e), Fits(e, b, h)
  PROVE  Fits(d, a \o b, h)
<1> DEFINE c == a \o b
<1>1. a \in Seq(Item) /\ b \in Seq(Item)  BY DEF Fits
<1>2. /\ Len(a) \in Nat /\ \A n \in 1..Len(a) : a[n].depth \in Nat
      /\ Len(b) \in Nat /\ \A n \in 1..Len(b) : b[n].depth \in Nat
  BY <1>1, ItemAt
<1>3. /\ c \in Seq(Item) /\ Len(c) = Len(a) + Len(b)
      /\ \A n \in 1..(Len(a) + Len(b)) : c[n] = IF n <= Len(a) THEN a[n] ELSE b[n - Len(a)]
  BY <1>1, ConcatProperties
<1> HIDE DEF c
<1>4. /\ Len(a) = 0 => e <= d
      /\ Len(a) > 0 => a[1].depth <= d /\ e <= a[Len(a)].depth + 1
      /\ \A n \in 1..Len(a) : n < Len(a) => a[n + 1].depth <= a[n].depth + 1
      /\ Len(b) = 0 => h <= e
      /\ Len(b) > 0 => b[1].depth <= e /\ h <= b[Len(b)].depth + 1
      /\ \A n \in 1..Len(b) : n < Len(b) => b[n + 1].depth <= b[n].depth + 1
  BY DEF Fits
<1>5. Len(c) = 0 => h <= d  BY <1>2, <1>3, <1>4
<1>6. ASSUME Len(c) > 0 PROVE c[1].depth <= d
  <2>1. 1 \in 1..(Len(a) + Len(b))  BY <1>2, <1>3, <1>6
  <2>2. CASE Len(a) > 0
    <3>1. c[1] = a[1]  BY <1>2, <1>3, <2>1, <2>2
    <3> QED  BY <1>4, <2>2, <3>1
  <2>3. CASE Len(a) = 0
    <3>1. c[1] = b[1] /\ Len(b) > 0 /\ 1 \in 1..Len(b)  BY <1>2, <1>3, <1>6, <2>1, <2>3
    <3>2. b[1].depth <= e /\ e <= d /\ b[1].depth \in Nat  BY <1>2, <1>4, <2>3, <3>1
    <3> QED  BY <3>1, <3>2
  <2> QED  BY <1>2, <2>2, <2>3
<1>7. ASSUME Len(c) > 0 PROVE h <= c[Len(c)].depth + 1
  <2>1. Len(c) \in 1..(Len(a) + Len(b))  BY <1>2, <1>3, <1>7
  <2>2. CASE Len(b) > 0
    <3>1. c[Len(c)] = b[Len(c) - Len(a)] /\ Len(c) - Len(a) = Len(b)  BY <1>2, <1>3, <2>1, <2>2
    <3> QED  BY <1>4, <2>2, <3>1
  <2>3. CASE Len(b) = 0
    <3>1. c[Len(c)] = a[Len(a)] /\ Len(a) > 0 /\ Len(a) \in 1..Len(a)  BY <1>2, <1>3, <1>7, <2>1, <2>3
    <3>2. e <= a[Len(a)].depth + 1 /\ h <= e /\ a[Len(a)].depth \in Nat  BY <1>2, <1>4, <2>3, <3>1
    <3> QED  BY <3>1, <3>2
  <2> QED  BY <1>2, <2>2, <2>3
<1>8. ASSUME NEW n \in 1..Len(c), n < Len(c) PROVE c[n + 1].depth <= c[n].depth + 1
  <2>1. n \in 1..(Len(a) + Len(b)) /\ n + 1 \in 1..(Len(a) + Len(b))  BY <1>2, <1>3, <1>8
  <2>2. CASE n < Len(a)
    <3>1. c[n] = a[n] /\ c[n + 1] = a[n + 1] /\ n \in 1..Len(a)  BY <1>2, <1>3, <2>1, <2>2
    <3> QED  BY <1>4, <2>2, <3>1
  <2>3. CASE n = Len(a)
    <3>1. /\ c[n] = a[Len(a)] /\ c[n + 1] = b[(n + 1) - Len(a)] /\ (n + 1) - Len(a) = 1
          /\ Len(a) \in 1..Len(a) /\ 1 \in 1..Len(b) /\ Len(b) > 0 /\ Len(a) > 0
      BY <1>2, <1>3, <2>1, <2>3
    <3>2. /\ b[1].depth <= e /\ e <= a[Len(a)].depth + 1
          /\ b[1].depth \in Nat /\ a[Len(a)].depth \in Nat
      BY <1>2, <1>4, <3>1
    <3>3. c[n + 1] = b[1]  BY <3>1
    <3>4. b[1].depth <= a[Len(a)].depth + 1  BY <3>2
    <3> QED  BY <3>1, <3>3, <3>4
  <2>4. CASE n > Len(a)
    <3> DEFINE m == n - Len(a)
    <3>1. m \in 1..Len(b) /\ m < Len(b) /\ (n + 1) - Len(a) = m + 1  BY <1>2, <1>3, <1>8, <2>4
    <3>2. c[n] = b[m] /\ c[n + 1] = b[(n + 1) - Len(a)]  BY <1>2, <1>3, <2>1, <2>4
    <3> HIDE DEF m
    <3> QED  BY <1>4, <3>1, <3>2
  <2> QED  BY <1>2, <2>1, <2>2, <2>3, <2>4
<1>9. Fits(d, c, h)  BY <1>3, <1>5, <1>6, <1>7, <1>8 DEF Fits
<1> QED  BY <1>9 DEF c

LEMMA Slices ==
  ASSUME NEW t \in Trees, NEW x \in Nat, NEW y \in Nat, 1 <= x, y <= Len(t), x <= y + 1,
         NEW d \in Nat, NEW e \in Nat, y < x => e <= d,
         x <= y => t[x].depth <= d /\ e <= t[y].depth + 1
  PROVE  /\ Fits(d, SubSeq(t, x, y), e)
         /\ Len(SubSeq(t, x, y)) = (y + 1) - x
         /\ \A n \in 1..((y + 1) - x) : SubSeq(t, x, y)[n] = t[(x + n) - 1]
<1> DEFINE c == SubSeq(t, x, y)
<1>1. t \in Seq(Item) /\ \A n \in 1..Len(t) : n < Len(t) => t[n + 1].depth <= t[n].depth + 1
  BY DEF Trees, Fits
<1>2. Len(t) \in Nat /\ \A n \in 1..Len(t) : t[n] \in Item /\ t[n].depth \in Nat  BY <1>1, ItemAt
<1>3. \A n \in x..y : t[n] \in Item  BY <1>2
<1>4. /\ c \in Seq(Item) /\ Len(c) = IF x <= y THEN (y - x) + 1 ELSE 0
      /\ \A n \in 1..((y - x) + 1) : c[n] = t[(x + n) - 1]
  BY <1>3, SubSeqProperties
<1> HIDE DEF c
<1>5. Len(c) = (y + 1) - x /\ (y - x) + 1 = (y + 1) - x  BY <1>4
<1>6. \A n \in 1..((y + 1) - x) : c[n] = t[(x + n) - 1]  BY <1>4, <1>5
<1>7. Len(c) > 0 => c[1].depth <= d /\ e <= c[Len(c)].depth + 1
  <2> SUFFICES ASSUME Len(c) > 0 PROVE c[1].depth <= d /\ e <= c[Len(c)].depth + 1
    OBVIOUS
  <2>1. 1 \in 1..((y + 1) - x) /\ Len(c) \in 1..((y + 1) - x) /\ x <= y
        /\ (x + 1) - 1 = x /\ (x + Len(c)) - 1 = y
    BY <1>5
  <2>2. c[1] = t[x] /\ c[Len(c)] = t[y]  BY <1>6, <2>1
  <2> QED  BY <2>1, <2>2
<1>8. ASSUME NEW n \in 1..Len(c), n < Len(c) PROVE c[n + 1].depth <= c[n].depth + 1
  <2> DEFINE m == (x + n) - 1
  <2>1. /\ n \in 1..((y + 1) - x) /\ n + 1 \in 1..((y + 1) - x)
        /\ m \in 1..Len(t) /\ m < Len(t) /\ (x + (n + 1)) - 1 = m + 1
    <3>1. n \in Nat /\ 1 <= n /\ n < (y + 1) - x  BY <1>4, <1>5, <1>8
    <3>2. n + 1 <= (y + 1) - x /\ m + 1 <= y /\ 1 <= m  BY <3>1
    <3>3. (x + (n + 1)) - 1 = m + 1  BY <3>1
    <3>4. n \in 1..((y + 1) - x) /\ n + 1 \in 1..((y + 1) - x)  BY <3>1, <3>2
    <3>5. m \in Nat /\ m < Len(t)  BY <1>2, <3>1, <3>2
    <3>6. m \in 1..Len(t)  BY <1>2, <3>2, <3>5
    <3> QED  BY <3>3, <3>4, <3>5, <3>6
  <2>2. c[n] = t[m] /\ c[n + 1] = t[(x + (n + 1)) - 1]  BY <1>6, <2>1
  <2> HIDE DEF m
  <2> QED  BY <1>1, <2>1, <2>2
<1>9. Fits(d, c, e)  BY <1>4, <1>5, <1>7, <1>8 DEF Fits
<1> QED  BY <1>5, <1>6, <1>9 DEF c

LEMMA EndIs ==
  ASSUME NEW t \in Seq(Item), NEW i \in 1..Len(t), NEW z, z = Furniture!SubtreeEnd(t, i)
  PROVE  /\ z \in i..Len(t)
         /\ \A k \in (i + 1)..z : t[k].depth > t[i].depth
         /\ z < Len(t) => t[z + 1].depth <= t[i].depth
<1> DEFINE later == {j \in (i + 1)..Len(t) : t[j].depth <= t[i].depth}
<1>1. Len(t) \in Nat /\ \A n \in 1..Len(t) : t[n].depth \in Nat  BY ItemAt
<1>2. z = IF later = {} THEN Len(t) ELSE (CHOOSE j \in later : \A k \in later : j <= k) - 1
  BY DEF Furniture!SubtreeEnd
<1>3. \A k \in (i + 1)..Len(t) : k \in later <=> ~(t[k].depth > t[i].depth)  BY <1>1
<1>4. CASE later = {}
  <2> HIDE DEF later
  <2>1. z = Len(t)  BY <1>2, <1>4
  <2> QED  BY <1>1, <1>3, <1>4, <2>1
<1>5. CASE later # {}
  <2>1. later \subseteq Nat  BY <1>1
  <2>2. PICK m \in later : m = (CHOOSE j \in later : \A k \in later : j <= k) /\ \A k \in later : m <= k
    <3> HIDE DEF later
    <3>1. \E m \in later : \A k \in later : m <= k  BY <1>5, <2>1, LeastNatural
    <3> QED  BY <3>1
  <2>3. m \in (i + 1)..Len(t) /\ t[m].depth <= t[i].depth /\ z = m - 1  BY <1>2, <1>5, <2>2
  <2> HIDE DEF later
  <2>4. ASSUME NEW k \in (i + 1)..z PROVE t[k].depth > t[i].depth
    <3>1. k \in (i + 1)..Len(t) /\ ~(m <= k)  BY <1>1, <2>3
    <3> QED  BY <1>3, <2>2, <3>1
  <2>5. z + 1 = m /\ z \in i..Len(t)  BY <1>1, <2>3
  <2> QED  BY <2>3, <2>4, <2>5
<1> QED  BY <1>4, <1>5

LEMMA ParentIs ==
  ASSUME NEW t \in Trees, NEW j \in 1..Len(t), t[j].depth > 0, NEW p, p = Furniture!Parent(t, j)
  PROVE  /\ p \in 1..(j - 1) /\ t[p].depth = t[j].depth - 1
         /\ \A k \in (p + 1)..j : t[k].depth >= t[j].depth
<1>1. /\ t \in Seq(Item) /\ t[1].depth <= 0
      /\ \A n \in 1..Len(t) : n < Len(t) => t[n + 1].depth <= t[n].depth + 1
  <2>1. t \in Seq(Item)  BY DEF Trees
  <2>2. Len(t) > 0  BY <2>1, ItemAt
  <2> QED  BY <2>1, <2>2 DEF Trees, Fits
<1>2. Len(t) \in Nat /\ \A n \in 1..Len(t) : t[n].depth \in Nat  BY <1>1, ItemAt
<1> DEFINE back == {n \in 1..(j - 1) : t[j - n].depth < t[j].depth}
<1>3. back \subseteq Nat /\ back # {}
  <2>1. j # 1  BY <1>1, <1>2
  <2>2. j \in Nat /\ j > 1  BY <1>2, <2>1
  <2>3. j - 1 \in 1..(j - 1) /\ j - (j - 1) = 1  BY <2>2
  <2>4. t[j - (j - 1)] = t[1] /\ 1 \in 1..Len(t)  BY <1>2, <2>2, <2>3
  <2>5. t[1].depth \in Nat /\ t[1].depth < t[j].depth  BY <1>1, <1>2, <2>4
  <2>6. t[j - (j - 1)].depth < t[j].depth  BY <2>3, <2>5
  <2>7. j - 1 \in back  BY <2>3, <2>6
  <2> QED  BY <2>2, <2>7
<1>4. PICK n \in back : \A o \in back : n <= o  BY <1>3, LeastNatural
<1> DEFINE q == j - n
<1>5. n \in 1..(j - 1) /\ t[q].depth < t[j].depth  BY <1>4
<1>6. q \in 1..(j - 1) /\ q \in 1..Len(t) /\ q < Len(t) /\ q + 1 \in 1..Len(t) /\ q + 1 <= j
  BY <1>2, <1>5
<1>7. ASSUME NEW k \in (q + 1)..j PROVE t[k].depth >= t[j].depth
  <2>1. CASE k = j  BY <1>2, <2>1
  <2>2. CASE k # j
    <3>1. j - k \in 1..(j - 1) /\ ~(n <= j - k) /\ j - (j - k) = k /\ k \in 1..Len(t)
      BY <1>2, <1>5, <2>2
    <3>2. j - k \notin back  BY <1>4, <3>1
    <3>3. ~(t[k].depth < t[j].depth)  BY <3>1, <3>2
    <3> QED  BY <1>2, <3>1, <3>3
  <2> QED  BY <2>1, <2>2
<1> HIDE DEF back, q
<1>8. t[q].depth = t[j].depth - 1
  <2>1. t[q + 1].depth >= t[j].depth  BY <1>6, <1>7
  <2>2. t[q + 1].depth <= t[q].depth + 1  BY <1>1, <1>6
  <2>3. t[q].depth < t[j].depth  BY <1>5
  <2>4. t[q].depth \in Nat /\ t[q + 1].depth \in Nat /\ t[j].depth \in Nat  BY <1>2, <1>6
  <2> QED  BY <2>1, <2>2, <2>3, <2>4
<1>9. \E x \in 1..(j - 1) : /\ t[x].depth = t[j].depth - 1
                           /\ \A k \in (x + 1)..j : t[k].depth >= t[j].depth
  BY <1>6, <1>7, <1>8
<1>10. p = CHOOSE x \in 1..(j - 1) : /\ t[x].depth = t[j].depth - 1
                                     /\ \A k \in (x + 1)..j : t[k].depth >= t[j].depth
  BY DEF Furniture!Parent
<1> QED  BY <1>9, <1>10

-----------------------------------------------------------------------------
(* The edits of a screen.                                                  *)

LEMMA TreeIs ==
  ASSUME NEW t \in Trees
  PROVE  /\ t \in Seq(Item) /\ Len(t) \in Nat
         /\ \A n \in 1..Len(t) : t[n] \in Item /\ t[n].depth \in Nat
         /\ Len(t) > 0 => t[1].depth = 0
         /\ \A n \in 1..Len(t) : n < Len(t) => t[n + 1].depth <= t[n].depth + 1
<1>1. t \in Seq(Item) /\ Fits(0, t, 0)  BY DEF Trees
<1>2. Len(t) \in Nat /\ \A n \in 1..Len(t) : t[n] \in Item /\ t[n].depth \in Nat  BY <1>1, ItemAt
<1>3. Len(t) > 0 => t[1].depth = 0
  <2>1. Len(t) > 0 => 1 \in 1..Len(t)  BY <1>2
  <2>2. Len(t) > 0 => t[1].depth <= 0  BY <1>1 DEF Fits
  <2> QED  BY <1>2, <2>1, <2>2
<1> QED  BY <1>1, <1>2, <1>3 DEF Fits

LEMMA WholeIsTree == ASSUME NEW t, Fits(0, t, 0) PROVE t \in Trees
BY DEF Fits, Trees

(* What is before an item, under it, and after it.                         *)
LEMMA BeforeIs ==
  ASSUME NEW t \in Trees, NEW i \in 1..Len(t), NEW e \in Nat,
         i = 1 => e = 0, i > 1 => e <= t[i - 1].depth + 1
  PROVE  Fits(0, Furniture!Before(t, i), e)
<1>1. Len(t) \in Nat /\ (Len(t) > 0 => t[1].depth = 0)  BY TreeIs
<1>2. i - 1 \in Nat /\ i - 1 <= Len(t) /\ 1 \in Nat /\ 0 \in Nat /\ 1 <= 1 /\ 1 <= (i - 1) + 1
  BY <1>1
<1>3. i - 1 < 1 => e <= 0  BY <1>1
<1>4. 1 <= i - 1 => t[1].depth <= 0 /\ e <= t[i - 1].depth + 1  BY <1>1
<1>5. Fits(0, SubSeq(t, 1, i - 1), e)  BY <1>2, <1>3, <1>4, Slices
<1> QED  BY <1>5 DEF Furniture!Before

LEMMA StepBack ==
  ASSUME NEW t \in Trees, NEW i \in 1..Len(t)
  PROVE  /\ t[i].depth \in Nat /\ (i = 1 => t[i].depth = 0)
         /\ i > 1 => t[i].depth <= t[i - 1].depth + 1
<1>1. i > 1 => i - 1 \in 1..Len(t) /\ i - 1 < Len(t) /\ (i - 1) + 1 = i  BY TreeIs
<1> QED  BY <1>1, TreeIs

LEMMA SubtreeIs ==
  ASSUME NEW t \in Trees, NEW i \in 1..Len(t)
  PROVE  /\ Fits(t[i].depth, Furniture!Subtree(t, i), t[i].depth)
         /\ Furniture!Subtree(t, i) \in Seq(Item) /\ Len(Furniture!Subtree(t, i)) > 0
         /\ Furniture!Subtree(t, i)[1].depth = t[i].depth
         /\ \A n \in 1..Len(Furniture!Subtree(t, i)) :
              Furniture!Subtree(t, i)[n].depth >= t[i].depth
<1> DEFINE z == Furniture!SubtreeEnd(t, i)
           c == Furniture!Subtree(t, i)
<1>1. /\ t \in Seq(Item) /\ Len(t) \in Nat /\ \A n \in 1..Len(t) : t[n].depth \in Nat
  BY TreeIs
<1>2. /\ z \in i..Len(t) /\ \A k \in (i + 1)..z : t[k].depth > t[i].depth
  BY <1>1, EndIs
<1>3. c = SubSeq(t, i, z)  BY DEF Furniture!Subtree
<1> HIDE DEF z, c
<1>4. /\ i \in Nat /\ z \in Nat /\ 1 <= i /\ z <= Len(t) /\ i <= z + 1 /\ ~(z < i) /\ i <= z
      /\ z \in 1..Len(t)
  BY <1>1, <1>2
<1>5. \A k \in i..z : t[k].depth >= t[i].depth /\ t[k].depth \in Nat
  <2> SUFFICES ASSUME NEW k \in i..z PROVE t[k].depth >= t[i].depth /\ t[k].depth \in Nat
    OBVIOUS
  <2>1. k \in 1..Len(t) /\ (k = i \/ k \in (i + 1)..z)  BY <1>4
  <2> QED  BY <1>1, <1>2, <2>1
<1>6. t[i].depth \in Nat /\ t[i].depth <= t[i].depth /\ t[i].depth <= t[z].depth + 1
  BY <1>1, <1>4, <1>5
<1>7. /\ Fits(t[i].depth, c, t[i].depth)
      /\ Len(c) = (z + 1) - i
      /\ \A n \in 1..((z + 1) - i) : c[n] = t[(i + n) - 1]
  BY <1>3, <1>4, <1>6, Slices
<1>8. c \in Seq(Item) /\ Len(c) > 0  BY <1>4, <1>7 DEF Fits
<1>9. c[1].depth = t[i].depth
  <2>1. 1 \in 1..((z + 1) - i) /\ (i + 1) - 1 = i  BY <1>4
  <2> QED  BY <1>7, <2>1
<1>10. ASSUME NEW n \in 1..Len(c) PROVE c[n].depth >= t[i].depth
  <2>1. n \in 1..((z + 1) - i) /\ (i + n) - 1 \in i..z  BY <1>4, <1>7
  <2> QED  BY <1>5, <1>7, <2>1
<1> QED  BY <1>7, <1>8, <1>9, <1>10 DEF c

LEMMA AfterIs ==
  ASSUME NEW t \in Trees, NEW i \in 1..Len(t)
  PROVE  Fits(t[i].depth, Furniture!After(t, i), 0)
<1> DEFINE z == Furniture!SubtreeEnd(t, i)
<1>1. /\ t \in Seq(Item) /\ Len(t) \in Nat /\ \A n \in 1..Len(t) : t[n].depth \in Nat
  BY TreeIs
<1>2. z \in i..Len(t) /\ (z < Len(t) => t[z + 1].depth <= t[i].depth)  BY <1>1, EndIs
<1> HIDE DEF z
<1>3. /\ z + 1 \in Nat /\ Len(t) \in Nat /\ 1 <= z + 1 /\ Len(t) <= Len(t) /\ z + 1 <= Len(t) + 1
      /\ 0 \in Nat /\ t[i].depth \in Nat /\ 0 <= t[i].depth
  BY <1>1, <1>2
<1>4. z + 1 <= Len(t) => t[z + 1].depth <= t[i].depth /\ 0 <= t[Len(t)].depth + 1
  <2>1. z + 1 <= Len(t) => z < Len(t) /\ Len(t) \in 1..Len(t)  BY <1>1, <1>2
  <2> QED  BY <1>1, <1>2, <2>1
<1>5. Fits(t[i].depth, SubSeq(t, z + 1, Len(t)), 0)  BY <1>3, <1>4, Slices
<1> QED  BY <1>5 DEF Furniture!After, z

LEMMA ShiftedIs ==
  ASSUME NEW d \in Nat, NEW e \in Nat, NEW h \in Nat, NEW k \in Nat, NEW s, Fits(d, s, e),
         NEW by \in Int, Len(s) > 0,
         \A n \in 1..Len(s) : s[n].depth + by >= 0,
         s[1].depth + by <= h, k <= s[Len(s)].depth + by + 1
  PROVE  Fits(h, Furniture!Shifted(s, by), k)
<1> DEFINE c == Furniture!Shifted(s, by)
<1>1. s \in Seq(Item) /\ \A n \in 1..Len(s) : n < Len(s) => s[n + 1].depth <= s[n].depth + 1
  BY DEF Fits
<1>2. Len(s) \in Nat /\ \A n \in 1..Len(s) : s[n] \in Item /\ s[n].depth \in Nat  BY <1>1, ItemAt
<1>3. c = [n \in 1..Len(s) |-> [s[n] EXCEPT !.depth = s[n].depth + by]]
  BY DEF Furniture!Shifted
<1> HIDE DEF c
<1>4. ASSUME NEW n \in 1..Len(s) PROVE c[n] \in Item /\ c[n].depth = s[n].depth + by
  <2>1. s[n] \in Item /\ s[n].depth + by \in Nat  BY <1>2
  <2>2. c[n] = [s[n] EXCEPT !.depth = s[n].depth + by]  BY <1>3
  <2> QED  BY <2>1, <2>2 DEF Item
<1>5. c \in [1..Len(s) -> Item]  BY <1>3, <1>4
<1>6. c \in Seq(Item) /\ Len(c) = Len(s)  BY <1>2, <1>5, Built
<1>7. 1 \in 1..Len(s) /\ Len(s) \in 1..Len(s)  BY <1>2
<1>8. c[1].depth <= h /\ k <= c[Len(c)].depth + 1  BY <1>2, <1>4, <1>6, <1>7
<1>9. ASSUME NEW n \in 1..Len(c), n < Len(c) PROVE c[n + 1].depth <= c[n].depth + 1
  <2>1. n \in 1..Len(s) /\ n + 1 \in 1..Len(s) /\ n < Len(s)  BY <1>2, <1>6, <1>9
  <2>2. c[n].depth = s[n].depth + by /\ c[n + 1].depth = s[n + 1].depth + by  BY <1>4, <2>1
  <2>3. s[n + 1].depth <= s[n].depth + 1 /\ s[n].depth \in Nat /\ s[n + 1].depth \in Nat
    BY <1>1, <1>2, <2>1
  <2>4. \A x, y \in Nat : x <= y + 1 => x + by <= (y + by) + 1  OBVIOUS
  <2>5. s[n + 1].depth + by <= (s[n].depth + by) + 1  BY <2>3, <2>4
  <2> QED  BY <2>2, <2>5
<1>10. Len(c) # 0  BY <1>6
<1>11. Fits(h, c, k)  BY <1>6, <1>8, <1>9, <1>10 DEF Fits
<1> QED  BY <1>11 DEF c

LEMMA AddedIsTree ==
  ASSUME NEW t \in Trees, NEW g \in Pages \cup {0}
  PROVE  Furniture!added(t, g) \in Trees
<1> DEFINE x == [target |-> g, depth |-> 0, list |-> FALSE]
           c == Append(t, x)
<1>1. x \in Item /\ x.depth = 0  BY DEF Item
<1> HIDE DEF x
<1>2. /\ t \in Seq(Item) /\ Len(t) \in Nat /\ \A n \in 1..Len(t) : t[n].depth \in Nat
      /\ Len(t) > 0 => t[1].depth = 0
      /\ \A n \in 1..Len(t) : n < Len(t) => t[n + 1].depth <= t[n].depth + 1
  BY TreeIs
<1>3. /\ c \in Seq(Item) /\ Len(c) = Len(t) + 1
      /\ \A n \in 1..Len(t) : c[n] = t[n]
      /\ c[Len(t) + 1] = x
  BY <1>1, <1>2, AppendProperties
<1> HIDE DEF c
<1>4. c[1].depth <= 0
  <2>1. CASE Len(t) = 0  BY <1>1, <1>3, <2>1
  <2>2. CASE Len(t) > 0
    <3>1. 1 \in 1..Len(t)  BY <1>2, <2>2
    <3> QED  BY <1>2, <1>3, <2>2, <3>1
  <2> QED  BY <1>2, <2>1, <2>2
<1>5. 0 <= c[Len(c)].depth + 1  BY <1>1, <1>3
<1>6. ASSUME NEW n \in 1..Len(c), n < Len(c) PROVE c[n + 1].depth <= c[n].depth + 1
  <2>1. n \in 1..Len(t) /\ c[n] = t[n] /\ c[n].depth \in Nat  BY <1>2, <1>3, <1>6
  <2>2. CASE n < Len(t)
    <3>1. n + 1 \in 1..Len(t)  BY <1>2, <2>1, <2>2
    <3> QED  BY <1>2, <1>3, <2>1, <2>2, <3>1
  <2>3. CASE n = Len(t)
    <3>1. c[n + 1].depth = 0  BY <1>1, <1>3, <2>3
    <3> QED  BY <2>1, <3>1
  <2> QED  BY <1>2, <2>1, <2>2, <2>3
<1>7. Len(c) # 0  BY <1>2, <1>3
<1>8. Fits(0, c, 0)  BY <1>3, <1>4, <1>5, <1>6, <1>7 DEF Fits
<1>9. c \in Trees  BY <1>8, WholeIsTree
<1> QED  BY <1>9 DEF Furniture!added, c, x

LEMMA RemovedIsTree ==
  ASSUME NEW t \in Trees, NEW i \in 1..Len(t)
  PROVE  Furniture!removed(t, i) \in Trees
<1> DEFINE c == t[i].depth
<1>1. c \in Nat /\ 0 \in Nat /\ (i = 1 => c = 0) /\ (i > 1 => c <= t[i - 1].depth + 1)
  BY StepBack
<1> HIDE DEF c
<1>2. Fits(0, Furniture!Before(t, i), c)  BY <1>1, BeforeIs
<1>3. Fits(c, Furniture!After(t, i), 0)  BY AfterIs DEF c
<1>4. Fits(0, Furniture!Before(t, i) \o Furniture!After(t, i), 0)  BY <1>1, <1>2, <1>3, Joined
<1> QED  BY <1>4, WholeIsTree DEF Furniture!removed

LEMMA SiblingIs ==
  ASSUME NEW t \in Trees, NEW i \in 1..Len(t), NEW j \in Furniture!Siblings(t, i)
  PROVE  /\ j \in 1..Len(t) /\ t[j].depth = t[i].depth
         /\ j > i => \A k \in i..j : t[k].depth >= t[i].depth
         /\ j < i => \A k \in j..i : t[k].depth >= t[i].depth
<1>1. /\ j \in 1..Len(t) /\ t[j].depth = t[i].depth
      /\ \A k \in (IF i < j THEN i..j ELSE j..i) : t[k].depth >= t[i].depth
  BY DEF Furniture!Siblings
<1>2. Len(t) \in Nat  BY TreeIs
<1>3. j > i => i < j  BY <1>1, <1>2
<1>4. j < i => ~(i < j)  BY <1>1, <1>2
<1> QED  BY <1>1, <1>3, <1>4

LEMMA MovedDownIsTree ==
  ASSUME NEW t \in Trees, NEW i \in 1..Len(t), NEW b \in Furniture!Siblings(t, i), b > i
  PROVE  Furniture!movedDown(t, i) \in Trees
<1> DEFINE c == t[i].depth
           z == Furniture!SubtreeEnd(t, i)
           j == z + 1
<1>1. c \in Nat /\ 0 \in Nat /\ (i = 1 => c = 0) /\ (i > 1 => c <= t[i - 1].depth + 1)
  BY StepBack
<1>2. /\ t \in Seq(Item) /\ Len(t) \in Nat /\ \A n \in 1..Len(t) : t[n].depth \in Nat  BY TreeIs
<1>3. /\ b \in 1..Len(t) /\ t[b].depth = c /\ \A k \in i..b : t[k].depth >= c
  BY SiblingIs
<1>4. /\ z \in i..Len(t) /\ \A k \in (i + 1)..z : t[k].depth > c
      /\ z < Len(t) => t[z + 1].depth <= c
  BY <1>2, EndIs
<1>5. z < b
  <2>1. ASSUME b <= z PROVE FALSE
    <3>1. b \in (i + 1)..z  BY <1>2, <1>3, <1>4, <2>1
    <3>2. t[b].depth > c  BY <1>4, <3>1
    <3> QED  BY <1>1, <1>3, <3>2
  <2> QED  BY <1>2, <1>3, <1>4, <2>1
<1>6. j \in 1..Len(t) /\ j \in i..b /\ z < Len(t)  BY <1>2, <1>3, <1>4, <1>5
<1>7. t[j].depth = c  BY <1>1, <1>2, <1>3, <1>4, <1>6
<1> HIDE DEF c, z, j
<1>8. Fits(0, Furniture!Before(t, i), c)  BY <1>1, BeforeIs
<1>9. Fits(c, Furniture!Subtree(t, j), c)  BY <1>6, <1>7, SubtreeIs
<1>10. Fits(c, Furniture!Subtree(t, i), c)  BY SubtreeIs DEF c
<1>11. Fits(c, Furniture!After(t, j), 0)  BY <1>6, <1>7, AfterIs
<1>12. Fits(0, Furniture!Before(t, i) \o Furniture!Subtree(t, j), c)
  BY <1>1, <1>8, <1>9, Joined
<1>13. Fits(0, (Furniture!Before(t, i) \o Furniture!Subtree(t, j)) \o Furniture!Subtree(t, i), c)
  BY <1>1, <1>10, <1>12, Joined
<1>14. Fits(0, ((Furniture!Before(t, i) \o Furniture!Subtree(t, j)) \o Furniture!Subtree(t, i))
                 \o Furniture!After(t, j), 0)
  BY <1>1, <1>11, <1>13, Joined
<1> QED  BY <1>14, WholeIsTree DEF Furniture!movedDown, j, z

(* A mark on an item changes no depth.                                     *)
MarkedAt(t, q) == [t EXCEPT ![q].list = TRUE]

LEMMA Marked ==
  ASSUME NEW t \in Trees, NEW q, NEW s, s = MarkedAt(t, q)
  PROVE  s \in Trees /\ Len(s) = Len(t) /\ \A n \in 1..Len(t) : s[n].depth = t[n].depth
<1>1. /\ t \in Seq(Item) /\ Len(t) \in Nat
      /\ \A n \in 1..Len(t) : t[n] \in Item /\ t[n].depth \in Nat
      /\ Fits(0, t, 0) /\ t \in [1..Len(t) -> Item]
  BY TreeIs, ItemAt DEF Trees
<1>2. ASSUME NEW n \in 1..Len(t) PROVE s[n] \in Item /\ s[n].depth = t[n].depth
  <2>1. t[n] \in Item  BY <1>1
  <2>2. CASE n = q
    <3>1. s[n] = [t[n] EXCEPT !.list = TRUE]  BY <1>1, <2>2 DEF MarkedAt
    <3> QED  BY <2>1, <3>1 DEF Item
  <2>3. CASE n # q
    <3>1. s[n] = t[n]  BY <1>1, <2>3 DEF MarkedAt
    <3> QED  BY <2>1, <3>1
  <2> QED  BY <2>2, <2>3
<1>3. s = [n \in 1..Len(t) |-> s[n]]  BY <1>1 DEF MarkedAt
<1>4. s \in [1..Len(t) -> Item]  BY <1>2, <1>3
<1>5. s \in Seq(Item) /\ Len(s) = Len(t)  BY <1>1, <1>4, Built
<1>6. /\ Len(t) > 0 => t[1].depth <= 0 /\ 0 <= t[Len(t)].depth + 1
      /\ \A n \in 1..Len(t) : n < Len(t) => t[n + 1].depth <= t[n].depth + 1
  BY <1>1 DEF Fits
<1>7. Len(t) > 0 => s[1].depth = t[1].depth /\ s[Len(t)].depth = t[Len(t)].depth
  <2>1. Len(t) > 0 => 1 \in 1..Len(t) /\ Len(t) \in 1..Len(t)  BY <1>1
  <2> QED  BY <1>2, <2>1
<1>8. ASSUME NEW n \in 1..Len(s), n < Len(s) PROVE s[n + 1].depth <= s[n].depth + 1
  <2>1. n \in 1..Len(t) /\ n + 1 \in 1..Len(t) /\ n < Len(t)  BY <1>1, <1>5, <1>8
  <2> QED  BY <1>2, <1>6, <2>1
<1>9. Fits(0, s, 0)  BY <1>5, <1>6, <1>7, <1>8 DEF Fits
<1> QED  BY <1>2, <1>5, <1>9, WholeIsTree

LEMMA IndentedIsTree ==
  ASSUME NEW t \in Trees, NEW i \in 1..Len(t), NEW b \in Furniture!Siblings(t, i), b < i
  PROVE  Furniture!indented(t, i) \in Trees
<1> DEFINE s == MarkedAt(t, Furniture!previous(t, i))
           c == s[i].depth
<1>1. s \in Trees /\ Len(s) = Len(t) /\ \A n \in 1..Len(t) : s[n].depth = t[n].depth  BY Marked
<1>2. Furniture!indented(t, i) =
        (Furniture!Before(s, i) \o Furniture!Shifted(Furniture!Subtree(s, i), 1)) \o Furniture!After(s, i)
  BY DEF Furniture!indented, MarkedAt
<1> HIDE DEF s
<1>3. i \in 1..Len(s) /\ Len(t) \in Nat  BY <1>1, TreeIs
<1>4. c \in Nat /\ 0 \in Nat /\ c + 1 \in Nat  BY <1>1, <1>3, StepBack
<1>5. i > 1 /\ c + 1 <= s[i - 1].depth + 1
  <2>1. /\ b \in 1..Len(t) /\ \A k \in b..i : t[k].depth >= t[i].depth  BY SiblingIs
  <2>2. i > 1 /\ i - 1 \in b..i /\ i - 1 \in 1..Len(t)  BY <1>3, <2>1
  <2>3. s[i - 1].depth >= c /\ s[i - 1].depth \in Nat  BY <1>1, <1>3, <2>1, <2>2, TreeIs
  <2> QED  BY <1>4, <2>2, <2>3
<1>6. Fits(0, Furniture!Before(s, i), c + 1)  BY <1>1, <1>3, <1>4, <1>5, BeforeIs
<1> DEFINE u == Furniture!Subtree(s, i)
<1>7. /\ Fits(c, u, c) /\ u \in Seq(Item) /\ Len(u) > 0 /\ u[1].depth = c
      /\ \A n \in 1..Len(u) : u[n].depth >= c
  BY <1>1, <1>3, SubtreeIs
<1> HIDE DEF u, c
<1>8. Fits(c + 1, Furniture!Shifted(u, 1), c)
  <2>1. Len(u) \in Nat /\ \A n \in 1..Len(u) : u[n].depth \in Nat  BY <1>7, ItemAt
  <2>2. Len(u) \in 1..Len(u)  BY <1>7, <2>1
  <2>3. u[1].depth + 1 <= c + 1 /\ c <= u[Len(u)].depth + 1 + 1
        /\ \A n \in 1..Len(u) : u[n].depth + 1 >= 0
    BY <1>4, <1>7, <2>1, <2>2
  <2>4. 1 \in Int  OBVIOUS
  <2> QED  BY <1>4, <1>7, <2>3, <2>4, ShiftedIs
<1>9. Fits(c, Furniture!After(s, i), 0)  BY <1>1, <1>3, AfterIs DEF c
<1>10. Fits(0, Furniture!Before(s, i) \o Furniture!Shifted(u, 1), c)  BY <1>4, <1>6, <1>8, Joined
<1>11. Fits(0, (Furniture!Before(s, i) \o Furniture!Shifted(u, 1)) \o Furniture!After(s, i), 0)
  BY <1>4, <1>9, <1>10, Joined
<1> QED  BY <1>2, <1>11, WholeIsTree DEF u

LEMMA OutdentedIsTree ==
  ASSUME NEW t \in Trees, NEW i \in 1..Len(t), t[i].depth > 0
  PROVE  Furniture!outdented(t, i) \in Trees
<1> DEFINE c == t[i].depth
           p == Furniture!Parent(t, i)
           z == Furniture!SubtreeEnd(t, i)
           w == Furniture!SubtreeEnd(t, p)
           u == Furniture!Subtree(t, i)
           between == SubSeq(t, z + 1, w)
<1>1. /\ t \in Seq(Item) /\ Len(t) \in Nat /\ \A n \in 1..Len(t) : t[n].depth \in Nat  BY TreeIs
<1>2. c \in Nat /\ c > 0 /\ 0 \in Nat /\ c - 1 \in Nat /\ (i > 1 => c <= t[i - 1].depth + 1)
      /\ (i = 1 => c = 0)
  BY StepBack
<1>3. /\ p \in 1..(i - 1) /\ t[p].depth = c - 1 /\ \A k \in (p + 1)..i : t[k].depth >= c
  BY ParentIs
<1>4. /\ z \in i..Len(t) /\ \A k \in (i + 1)..z : t[k].depth > c
      /\ z < Len(t) => t[z + 1].depth <= c
  BY <1>1, EndIs
<1> HIDE DEF p, z
<1>5. p \in 1..Len(t)  BY <1>1, <1>3
<1>6. /\ w \in p..Len(t) /\ \A k \in (p + 1)..w : t[k].depth > c - 1
      /\ w < Len(t) => t[w + 1].depth <= c - 1
  <2>1. /\ w \in p..Len(t) /\ \A k \in (p + 1)..w : t[k].depth > t[p].depth
        /\ w < Len(t) => t[w + 1].depth <= t[p].depth
    BY <1>1, <1>5, EndIs
  <2> QED  BY <1>3, <2>1
<1>7. Furniture!outdented(t, i) =
        ((Furniture!Before(t, i) \o between) \o Furniture!Shifted(u, 0 - 1)) \o Furniture!After(t, p)
  <2>1. Furniture!outdented(t, i) =
          ((Furniture!Before(t, i) \o between) \o Furniture!Shifted(u, -1)) \o Furniture!After(t, p)
    BY DEF Furniture!outdented, p, z
  <2>2. -1 = 0 - 1  OBVIOUS
  <2> QED  BY <2>1, <2>2
<1> HIDE DEF w, c
<1>8. z <= w
  <2>1. ASSUME w < z PROVE FALSE
    <3>1. w + 1 \in 1..Len(t) /\ w < Len(t) /\ w + 1 <= z /\ w + 1 \in (p + 1)..z
      BY <1>1, <1>3, <1>4, <1>5, <1>6, <2>1
    <3>2. t[w + 1].depth <= c - 1 /\ t[w + 1].depth \in Nat  BY <1>1, <1>6, <3>1
    <3>3. w + 1 \in (p + 1)..i \/ w + 1 \in (i + 1)..z  BY <1>1, <1>3, <1>4, <1>6, <3>1
    <3>4. t[w + 1].depth >= c
      <4>1. CASE w + 1 \in (p + 1)..i  BY <1>3, <4>1
      <4>2. CASE w + 1 \in (i + 1)..z  BY <1>1, <1>2, <1>4, <3>1, <4>2
      <4> QED  BY <3>3, <4>1, <4>2
    <3> QED  BY <1>2, <3>2, <3>4
  <2> QED  BY <1>1, <1>4, <1>5, <1>6, <2>1
<1>9. Fits(0, Furniture!Before(t, i), c)  BY <1>2, BeforeIs
<1>10. Fits(c, between, c)
  <2>1. /\ z + 1 \in Nat /\ w \in Nat /\ 1 <= z + 1 /\ w <= Len(t) /\ z + 1 <= w + 1
        /\ c <= c
    BY <1>1, <1>2, <1>4, <1>5, <1>6, <1>8
  <2>2. z + 1 <= w => t[z + 1].depth <= c /\ c <= t[w].depth + 1
    <3> SUFFICES ASSUME z + 1 <= w PROVE t[z + 1].depth <= c /\ c <= t[w].depth + 1
      OBVIOUS
    <3>1. z < Len(t) /\ w \in (p + 1)..w /\ w \in 1..Len(t)  BY <1>1, <1>3, <1>4, <1>5, <1>6
    <3>2. t[w].depth > c - 1 /\ t[w].depth \in Nat  BY <1>1, <1>6, <3>1
    <3> QED  BY <1>2, <1>4, <3>1, <3>2
  <2>3. Fits(c, SubSeq(t, z + 1, w), c)  BY <1>2, <2>1, <2>2, Slices
  <2> QED  BY <2>3
<1>11. /\ Fits(c, u, c) /\ u \in Seq(Item) /\ Len(u) > 0 /\ u[1].depth = c
       /\ \A n \in 1..Len(u) : u[n].depth >= c
  BY SubtreeIs DEF c
<1> HIDE DEF u, between
<1>12. Fits(c, Furniture!Shifted(u, 0 - 1), c - 1)
  <2>1. Len(u) \in Nat /\ \A n \in 1..Len(u) : u[n].depth \in Nat  BY <1>11, ItemAt
  <2>2. Len(u) \in 1..Len(u)  BY <1>11, <2>1
  <2>3. u[1].depth + (0 - 1) <= c /\ c - 1 <= u[Len(u)].depth + (0 - 1) + 1
        /\ \A n \in 1..Len(u) : u[n].depth + (0 - 1) >= 0
    <3>1. u[Len(u)].depth >= c /\ u[Len(u)].depth \in Nat  BY <1>11, <2>1, <2>2
    <3>2. c - 1 <= u[Len(u)].depth + (0 - 1) + 1  BY <1>2, <3>1
    <3>3. u[1].depth + (0 - 1) <= c  BY <1>2, <1>11
    <3>4. ASSUME NEW n \in 1..Len(u) PROVE u[n].depth + (0 - 1) >= 0
      <4>1. u[n].depth >= c /\ u[n].depth \in Nat  BY <1>11, <2>1
      <4> QED  BY <1>2, <4>1
    <3> QED  BY <3>2, <3>3, <3>4
  <2>4. 0 - 1 \in Int  OBVIOUS
  <2> HIDE DEF c
  <2> QED  BY <1>2, <1>11, <2>3, <2>4, ShiftedIs
<1>13. Fits(c - 1, Furniture!After(t, p), 0)
  <2>1. Fits(t[p].depth, Furniture!After(t, p), 0)  BY <1>5, AfterIs
  <2> QED  BY <1>3, <2>1
<1>14. Fits(0, Furniture!Before(t, i) \o between, c)  BY <1>2, <1>9, <1>10, Joined
<1>15. Fits(0, (Furniture!Before(t, i) \o between) \o Furniture!Shifted(u, 0 - 1), c - 1)
  BY <1>2, <1>12, <1>14, Joined
<1>16. Fits(0, ((Furniture!Before(t, i) \o between) \o Furniture!Shifted(u, 0 - 1)) \o Furniture!After(t, p), 0)
  BY <1>2, <1>13, <1>15, Joined
<1> QED  BY <1>7, <1>16, WholeIsTree

LEMMA EditsAreTrees ==
  ASSUME NEW t \in Trees, NEW r \in Furniture!Edits(t)
  PROVE  r \in Trees
<1>1. \/ \E g \in Pages \cup {0} : r = Furniture!added(t, g)
      \/ \E i \in 1..Len(t) : r = Furniture!removed(t, i)
      \/ \E i \in 1..Len(t) : (\E b \in Furniture!Siblings(t, i) : b > i) /\ r = Furniture!movedDown(t, i)
      \/ \E i \in 1..Len(t) : (\E b \in Furniture!Siblings(t, i) : b < i) /\ r = Furniture!indented(t, i)
      \/ \E i \in 1..Len(t) : t[i].depth > 0 /\ r = Furniture!outdented(t, i)
  BY DEF Furniture!Edits, Furniture!Targets, Furniture!Link
<1>2. CASE \E g \in Pages \cup {0} : r = Furniture!added(t, g)  BY <1>2, AddedIsTree
<1>3. CASE \E i \in 1..Len(t) : r = Furniture!removed(t, i)  BY <1>3, RemovedIsTree
<1>4. CASE \E i \in 1..Len(t) : (\E b \in Furniture!Siblings(t, i) : b > i) /\ r = Furniture!movedDown(t, i)
  BY <1>4, MovedDownIsTree
<1>5. CASE \E i \in 1..Len(t) : (\E b \in Furniture!Siblings(t, i) : b < i) /\ r = Furniture!indented(t, i)
  BY <1>5, IndentedIsTree
<1>6. CASE \E i \in 1..Len(t) : t[i].depth > 0 /\ r = Furniture!outdented(t, i)
  BY <1>6, OutdentedIsTree
<1> QED  BY <1>1, <1>2, <1>3, <1>4, <1>5, <1>6

(* What is stored is a tree, and storing it again changes nothing.         *)
LEMMA CanonicalIs ==
  ASSUME NEW t \in Trees
  PROVE  /\ Furniture!Canonical(t) \in Trees
         /\ Furniture!Canonical(Furniture!Canonical(t)) = Furniture!Canonical(t)
<1> DEFINE mark(v, n) == n < Len(v) /\ v[n + 1].depth > v[n].depth
           c == Furniture!Canonical(t)
           r == Furniture!Canonical(c)
<1>1. /\ t \in Seq(Item) /\ Len(t) \in Nat
      /\ \A n \in 1..Len(t) : t[n] \in Item /\ t[n].depth \in Nat
      /\ Fits(0, t, 0)
  BY TreeIs DEF Trees
<1>2. c = [n \in 1..Len(t) |-> [t[n] EXCEPT !.list = mark(t, n)]]  BY DEF Furniture!Canonical
<1>3. r = [n \in 1..Len(c) |-> [c[n] EXCEPT !.list = mark(c, n)]]  BY DEF Furniture!Canonical
<1> HIDE DEF c, r
<1>4. \A n : mark(t, n) \in BOOLEAN /\ mark(c, n) \in BOOLEAN  OBVIOUS
<1> HIDE DEF mark
<1>5. ASSUME NEW n \in 1..Len(t)
      PROVE  c[n] \in Item /\ c[n].depth = t[n].depth /\ c[n].list = mark(t, n)
  <2>1. t[n] \in Item  BY <1>1
  <2>2. c[n] = [t[n] EXCEPT !.list = mark(t, n)]  BY <1>2
  <2> QED  BY <1>4, <2>1, <2>2 DEF Item
<1>6. c \in [1..Len(t) -> Item]  BY <1>2, <1>5
<1>7. c \in Seq(Item) /\ Len(c) = Len(t)  BY <1>1, <1>6, Built
<1>8. /\ Len(t) > 0 => t[1].depth <= 0 /\ 0 <= t[Len(t)].depth + 1
      /\ \A n \in 1..Len(t) : n < Len(t) => t[n + 1].depth <= t[n].depth + 1
  BY <1>1 DEF Fits
<1>9. Len(t) > 0 => c[1].depth = t[1].depth /\ c[Len(t)].depth = t[Len(t)].depth
  <2>1. Len(t) > 0 => 1 \in 1..Len(t) /\ Len(t) \in 1..Len(t)  BY <1>1
  <2> QED  BY <1>5, <2>1
<1>10. ASSUME NEW n \in 1..Len(c), n < Len(c)
       PROVE  c[n + 1].depth <= c[n].depth + 1 /\ c[n + 1].depth = t[n + 1].depth
  <2>1. n \in 1..Len(t) /\ n + 1 \in 1..Len(t) /\ n < Len(t)  BY <1>1, <1>7, <1>10
  <2> QED  BY <1>5, <1>8, <2>1
<1>11. Fits(0, c, 0)  BY <1>7, <1>8, <1>9, <1>10 DEF Fits
<1>12. c \in Trees  BY <1>11, WholeIsTree
<1>13. \A n \in 1..Len(c) : mark(c, n) <=> mark(t, n)
  <2> SUFFICES ASSUME NEW n \in 1..Len(c) PROVE mark(c, n) <=> mark(t, n)
    OBVIOUS
  <2>1. c[n].depth = t[n].depth  BY <1>5, <1>7
  <2>2. n < Len(c) => c[n + 1].depth = t[n + 1].depth  BY <1>10
  <2> QED  BY <1>7, <2>1, <2>2 DEF mark
<1>14. ASSUME NEW n \in 1..Len(c) PROVE [c[n] EXCEPT !.list = mark(c, n)] = c[n]
  <2>1. c[n] \in Item /\ c[n].list = mark(t, n)  BY <1>5, <1>7
  <2>2. mark(c, n) = mark(t, n)  BY <1>4, <1>13
  <2>3. c[n].list = mark(c, n)  BY <2>1, <2>2
  <2> QED  BY <2>1, <2>3 DEF Item
<1>15. c = [n \in 1..Len(c) |-> c[n]]  BY <1>6, <1>7
<1>16. r = c  BY <1>3, <1>14, <1>15
<1> QED  BY <1>12, <1>16 DEF c, r

LEMMA EmptyIsTree == << >> \in Trees /\ Furniture!Canonical(<< >>) = << >>
<1>1. << >> \in Seq(Item) /\ Len(<< >>) = 0  BY EmptySeq
<1>2. << >> \in Trees  BY <1>1 DEF Trees, Fits
<1> DEFINE c == Furniture!Canonical(<< >>)
<1>3. DOMAIN c = 1..Len(<< >>)  BY DEF Furniture!Canonical
<1>4. c \in Trees  BY <1>2, CanonicalIs
<1> HIDE DEF c
<1>5. c \in Seq(Item) /\ Len(c) \in Nat /\ DOMAIN c = 1..Len(c)  BY <1>4, TreeIs, LenProperties
<1>6. Len(c) = 0
  <2>1. ASSUME Len(c) > 0 PROVE FALSE
    <3>1. 1 \in DOMAIN c /\ 1 \notin 1..Len(<< >>)  BY <1>1, <1>5, <2>1
    <3> QED  BY <1>3, <3>1
  <2> QED  BY <1>5, <2>1
<1>7. \A n \in 1..Len(c) : c[n] = << >>[n]  BY <1>6
<1>8. c = << >>  BY <1>1, <1>5, <1>6, <1>7, SeqEqual
<1> QED  BY <1>2, <1>8 DEF c

-----------------------------------------------------------------------------
(* The stored menu, the screens, and the saves on their way.               *)
MenuRow == [id : Nat, version : Nat, items : Trees]
ScreenRow == [id : Nat, version : Nat, items : Trees, base : Trees, busy : BOOLEAN]

(* A save on its way names what its screen holds; a screen on the menu     *)
(* that is there is behind it, or calls saved what is stored.              *)
ScreenAt(e) ==
  /\ sent[e] # Furniture!Nothing =>
       /\ screen[e].busy /\ sent[e].id # 0
       /\ sent[e].id = screen[e].id /\ sent[e].version = screen[e].version
  /\ screen[e].id # 0 =>
       /\ screen[e].id <= menu.id
       /\ screen[e].id = menu.id /\ menu.version # 0 =>
            /\ screen[e].version <= menu.version
            /\ screen[e].version = menu.version => Furniture!Canonical(screen[e].base) = menu.items

FurnitureInv ==
  /\ menu \in MenuRow /\ screen \in [Screens -> ScreenRow] /\ sent \in [Screens -> MenuRow]
  /\ Furniture!Canonical(menu.items) = menu.items
  /\ \A e \in Screens : ScreenAt(e)

LEMMA NoneAre ==
  /\ Furniture!Nothing = [id |-> 0, version |-> 0, items |-> << >>] /\ Furniture!Nothing \in MenuRow
  /\ Furniture!NoMenu = [id |-> 0, version |-> 0, items |-> << >>] /\ Furniture!NoMenu \in MenuRow
  /\ Furniture!Closed = [id |-> 0, version |-> 0, items |-> << >>, base |-> << >>, busy |-> FALSE]
  /\ Furniture!Closed \in ScreenRow
<1>1. << >> \in Trees  BY EmptyIsTree
<1> QED  BY <1>1 DEF Furniture!Nothing, Furniture!NoMenu, Furniture!Closed, MenuRow, ScreenRow

LEMMA RowsAre ==
  ASSUME FurnitureInv
  PROVE  /\ menu = [id |-> menu.id, version |-> menu.version, items |-> menu.items]
         /\ menu.id \in Nat /\ menu.version \in Nat /\ menu.items \in Trees
         /\ \A e \in Screens :
              /\ screen[e] = [id |-> screen[e].id, version |-> screen[e].version,
                              items |-> screen[e].items, base |-> screen[e].base, busy |-> screen[e].busy]
              /\ screen[e].id \in Nat /\ screen[e].version \in Nat /\ screen[e].items \in Trees
              /\ screen[e].base \in Trees /\ screen[e].busy \in BOOLEAN
              /\ sent[e].id \in Nat /\ sent[e].version \in Nat /\ sent[e].items \in Trees
              /\ ScreenAt(e)
<1>1. menu \in MenuRow /\ screen \in [Screens -> ScreenRow] /\ sent \in [Screens -> MenuRow]
      /\ \A e \in Screens : ScreenAt(e)
  BY DEF FurnitureInv
<1>2. ASSUME NEW e \in Screens PROVE screen[e] \in ScreenRow /\ sent[e] \in MenuRow  BY <1>1
<1> QED  BY <1>1, <1>2 DEF MenuRow, ScreenRow

(* The menu stays, is made anew, is dropped, or is written once more.      *)
Advances ==
  \/ menu' = menu
  \/ menu'.id > menu.id
  \/ menu'.id = menu.id /\ menu'.version = 0
  \/ menu'.id = menu.id /\ menu.version # 0 /\ menu'.version > menu.version

LEMMA Behind ==
  ASSUME FurnitureInv, menu' \in MenuRow, Advances, NEW e \in Screens,
         screen'[e] = screen[e], sent'[e] = sent[e]
  PROVE  ScreenAt(e)'
<1>1. /\ ScreenAt(e) /\ menu.id \in Nat /\ menu.version \in Nat
      /\ screen[e].id \in Nat /\ screen[e].version \in Nat
  BY RowsAre
<1>2. menu'.id \in Nat /\ menu'.version \in Nat  BY DEF MenuRow
<1>3. ASSUME screen[e].id # 0 PROVE screen[e].id <= menu'.id
  BY <1>1, <1>2, <1>3 DEF ScreenAt, Advances
<1>4. ASSUME screen[e].id # 0, screen[e].id = menu'.id, menu'.version # 0
      PROVE  /\ screen[e].version <= menu'.version
             /\ screen[e].version = menu'.version =>
                  Furniture!Canonical(screen[e].base) = menu'.items
  <2>1. screen[e].id <= menu.id  BY <1>1, <1>4 DEF ScreenAt
  <2>2. CASE menu' = menu  BY <1>1, <1>4, <2>2 DEF ScreenAt
  <2>3. CASE menu'.id > menu.id  BY <1>1, <1>2, <1>4, <2>1, <2>3
  <2>4. CASE menu'.id = menu.id /\ menu.version # 0 /\ menu'.version > menu.version
    <3>1. screen[e].version <= menu.version  BY <1>1, <1>4, <2>4 DEF ScreenAt
    <3> QED  BY <1>1, <1>2, <2>4, <3>1
  <2> QED  BY <1>4, <2>2, <2>3, <2>4 DEF Advances
<1> QED  BY <1>1, <1>3, <1>4 DEF ScreenAt

LEMMA OneScreen ==
  ASSUME FurnitureInv, menu' \in MenuRow, Furniture!Canonical(menu'.items) = menu'.items, Advances,
         NEW e \in Screens, NEW r \in ScreenRow, NEW s \in MenuRow,
         screen' = [screen EXCEPT ![e] = r], sent' = [sent EXCEPT ![e] = s], ScreenAt(e)'
  PROVE  FurnitureInv'
<1>1. screen \in [Screens -> ScreenRow] /\ sent \in [Screens -> MenuRow]  BY DEF FurnitureInv
<1>2. screen' \in [Screens -> ScreenRow] /\ sent' \in [Screens -> MenuRow]  BY <1>1
<1>3. \A x \in Screens : x # e => screen'[x] = screen[x] /\ sent'[x] = sent[x]  BY <1>1
<1>4. \A x \in Screens : ScreenAt(x)'  BY <1>3, Behind
<1> QED  BY <1>2, <1>4 DEF FurnitureInv

LEMMA NoScreen ==
  ASSUME FurnitureInv, menu' \in MenuRow, Furniture!Canonical(menu'.items) = menu'.items, Advances,
         UNCHANGED <<screen, sent>>
  PROVE  FurnitureInv'
<1>1. \A x \in Screens : ScreenAt(x)'  BY Behind
<1> QED  BY <1>1 DEF FurnitureInv

LEMMA MenuStays ==
  ASSUME FurnitureInv, menu' = menu
  PROVE  menu' \in MenuRow /\ Furniture!Canonical(menu'.items) = menu'.items /\ Advances
BY DEF FurnitureInv, Advances

LEMMA CreateMenuKeeps ==
  ASSUME FurnitureInv, Furniture!createMenu
  PROVE  FurnitureInv'
<1>1. /\ menu' = [id |-> menu.id + 1, version |-> 1, items |-> << >>]
      /\ UNCHANGED <<screen, sent>>
  BY DEF Furniture!createMenu
<1>2. menu.id \in Nat /\ menu.id + 1 \in Nat /\ 1 \in Nat /\ menu.id + 1 > menu.id  BY RowsAre
<1>3. menu' \in MenuRow  BY <1>1, <1>2, EmptyIsTree DEF MenuRow
<1>4. menu'.items = << >> /\ menu'.id > menu.id  BY <1>1, <1>2
<1> QED  BY <1>1, <1>3, <1>4, EmptyIsTree, NoScreen DEF Advances

LEMMA DeleteMenuKeeps ==
  ASSUME FurnitureInv, Furniture!deleteMenu
  PROVE  FurnitureInv'
<1>1. menu' = [Furniture!NoMenu EXCEPT !.id = menu.id] /\ UNCHANGED <<screen, sent>>
  BY DEF Furniture!deleteMenu
<1>2. menu' = [id |-> menu.id, version |-> 0, items |-> << >>]  BY <1>1, NoneAre
<1>3. menu.id \in Nat /\ 0 \in Nat  BY RowsAre
<1>4. menu' \in MenuRow  BY <1>2, <1>3, EmptyIsTree DEF MenuRow
<1>5. menu'.items = << >> /\ menu'.id = menu.id /\ menu'.version = 0  BY <1>2
<1> QED  BY <1>1, <1>4, <1>5, EmptyIsTree, NoScreen DEF Advances

(* What a write stores.                                                    *)
LEMMA Written ==
  ASSUME FurnitureInv, menu.version # 0, NEW t \in Trees,
         menu' = [menu EXCEPT !.version = @ + 1, !.items = Furniture!Canonical(t)]
  PROVE  /\ menu' \in MenuRow /\ Furniture!Canonical(menu'.items) = menu'.items /\ Advances
         /\ menu'.id = menu.id /\ menu'.version = menu.version + 1
         /\ menu'.items = Furniture!Canonical(t)
<1> DEFINE c == Furniture!Canonical(t)
<1>1. c \in Trees /\ Furniture!Canonical(c) = c  BY CanonicalIs
<1>2. menu' = [[menu EXCEPT !.version = menu.version + 1] EXCEPT !.items = c]
  BY DEF FurnitureInv, MenuRow
<1> HIDE DEF c
<1>3. menu \in MenuRow /\ menu.version \in Nat /\ menu.version + 1 \in Nat
  BY RowsAre DEF FurnitureInv
<1>4. PICK q : q = [menu EXCEPT !.version = menu.version + 1]  OBVIOUS
<1>5. q \in MenuRow /\ q.id = menu.id /\ q.version = menu.version + 1  BY <1>3, <1>4 DEF MenuRow
<1>6. menu' = [q EXCEPT !.items = c]  BY <1>2, <1>4
<1>7. /\ menu' \in MenuRow
      /\ menu'.id = menu.id /\ menu'.version = menu.version + 1 /\ menu'.items = c
  BY <1>1, <1>5, <1>6 DEF MenuRow
<1>8. Advances  BY <1>3, <1>7 DEF Advances
<1> QED  BY <1>1, <1>7, <1>8 DEF c

LEMMA BlindKeeps ==
  ASSUME FurnitureInv, Furniture!updateMenuBlind
  PROVE  FurnitureInv'
<1>1. PICK t \in Furniture!Edits(menu.items) :
        menu' = [menu EXCEPT !.version = @ + 1, !.items = Furniture!Canonical(t)]
  BY DEF Furniture!updateMenuBlind
<1>2. menu.version # 0 /\ UNCHANGED <<screen, sent>>  BY DEF Furniture!updateMenuBlind
<1>3. t \in Trees  BY RowsAre, EditsAreTrees
<1>4. menu' \in MenuRow /\ Furniture!Canonical(menu'.items) = menu'.items /\ Advances
  BY <1>1, <1>2, <1>3, Written
<1> QED  BY <1>2, <1>4, NoScreen

LEMMA LoadKeeps ==
  ASSUME FurnitureInv, NEW e \in Screens, Furniture!load(e)
  PROVE  FurnitureInv'
<1> DEFINE r == [id |-> menu.id, version |-> menu.version, items |-> menu.items,
                 base |-> menu.items, busy |-> FALSE]
<1>1. /\ screen[e] = Furniture!Closed /\ menu.version # 0
      /\ screen' = [screen EXCEPT ![e] = r] /\ menu' = menu /\ sent' = sent
  BY DEF Furniture!load
<1>2. /\ menu.id \in Nat /\ menu.version \in Nat /\ menu.items \in Trees
      /\ screen \in [Screens -> ScreenRow] /\ sent \in [Screens -> MenuRow]
      /\ Furniture!Canonical(menu.items) = menu.items /\ ScreenAt(e)
  BY RowsAre DEF FurnitureInv
<1>3. r \in ScreenRow /\ sent[e] \in MenuRow  BY <1>2 DEF ScreenRow
<1>4. r.id = menu.id /\ r.version = menu.version /\ r.base = menu.items  OBVIOUS
<1> HIDE DEF r
<1>5. screen'[e] = r /\ sent'[e] = sent[e]  BY <1>1, <1>2
<1>6. sent[e] = Furniture!Nothing
  <2>1. screen[e].busy = FALSE  BY <1>1, NoneAre
  <2> QED  BY <1>2, <2>1 DEF ScreenAt
<1>7. ScreenAt(e)'  BY <1>1, <1>2, <1>4, <1>5, <1>6 DEF ScreenAt
<1>8. sent' = [sent EXCEPT ![e] = sent[e]]  BY <1>1, <1>2
<1> QED  BY <1>1, <1>3, <1>7, <1>8, MenuStays, OneScreen

LEMMA EditScreenKeeps ==
  ASSUME FurnitureInv, NEW e \in Screens, Furniture!edit(e)
  PROVE  FurnitureInv'
<1>1. PICK t \in Furniture!Edits(screen[e].items) : screen' = [screen EXCEPT ![e].items = t]
  BY DEF Furniture!edit
<1>2. menu' = menu /\ sent' = sent  BY DEF Furniture!edit
<1>3. screen[e].items \in Trees /\ ScreenAt(e)  BY RowsAre
<1>4. t \in Trees  BY <1>3, EditsAreTrees
<1> DEFINE r == [screen[e] EXCEPT !.items = t]
<1>5. screen[e] \in ScreenRow  BY DEF FurnitureInv
<1>6. /\ r \in ScreenRow /\ r.id = screen[e].id /\ r.version = screen[e].version
      /\ r.base = screen[e].base /\ r.busy = screen[e].busy
  BY <1>4, <1>5 DEF ScreenRow
<1>7. screen' = [screen EXCEPT ![e] = r]  BY <1>1
<1> HIDE DEF r
<1>8. screen \in [Screens -> ScreenRow] /\ sent \in [Screens -> MenuRow]  BY DEF FurnitureInv
<1>9. screen'[e] = r  BY <1>7, <1>8
<1>10. ScreenAt(e)'  BY <1>2, <1>3, <1>6, <1>9 DEF ScreenAt
<1>11. sent' = [sent EXCEPT ![e] = sent[e]] /\ sent[e] \in MenuRow  BY <1>2, <1>8
<1> QED  BY <1>2, <1>6, <1>7, <1>10, <1>11, MenuStays, OneScreen

LEMMA CloseKeeps ==
  ASSUME FurnitureInv, NEW e \in Screens, Furniture!close(e)
  PROVE  FurnitureInv'
<1>1. /\ ~screen[e].busy /\ screen' = [screen EXCEPT ![e] = Furniture!Closed]
      /\ menu' = menu /\ sent' = sent
  BY DEF Furniture!close
<1>2. screen \in [Screens -> ScreenRow] /\ sent \in [Screens -> MenuRow] /\ ScreenAt(e)
  BY DEF FurnitureInv
<1>3. sent[e] = Furniture!Nothing  BY <1>1, <1>2 DEF ScreenAt
<1>4. screen'[e] = Furniture!Closed /\ Furniture!Closed.id = 0  BY <1>1, <1>2, NoneAre
<1>5. ScreenAt(e)'  BY <1>1, <1>3, <1>4 DEF ScreenAt
<1>6. sent' = [sent EXCEPT ![e] = sent[e]] /\ sent[e] \in MenuRow  BY <1>1, <1>2
<1> QED  BY <1>1, <1>5, <1>6, NoneAre, MenuStays, OneScreen

LEMMA SaveKeeps ==
  ASSUME FurnitureInv, NEW e \in Screens, Furniture!save(e)
  PROVE  FurnitureInv' /\ (sent'[e] # Furniture!Nothing)
<1> DEFINE s == [id |-> screen[e].id, version |-> screen[e].version, items |-> screen[e].items]
           r == [screen[e] EXCEPT !.busy = TRUE]
<1>1. /\ screen[e].id # 0 /\ menu' = menu
      /\ screen' = [screen EXCEPT ![e] = r] /\ sent' = [sent EXCEPT ![e] = s]
  BY DEF Furniture!save
<1>2. /\ screen[e].id \in Nat /\ screen[e].version \in Nat /\ screen[e].items \in Trees
      /\ ScreenAt(e)
  BY RowsAre
<1>3. screen[e] \in ScreenRow  BY DEF FurnitureInv
<1>4. /\ r \in ScreenRow /\ r.id = screen[e].id /\ r.version = screen[e].version
      /\ r.base = screen[e].base /\ r.busy = TRUE
  BY <1>3 DEF ScreenRow
<1>5. s \in MenuRow /\ s.id = screen[e].id /\ s.version = screen[e].version
  BY <1>2 DEF MenuRow
<1> HIDE DEF r, s
<1>6. screen \in [Screens -> ScreenRow] /\ sent \in [Screens -> MenuRow]  BY DEF FurnitureInv
<1>7. screen'[e] = r /\ sent'[e] = s  BY <1>1, <1>6
<1>8. ScreenAt(e)'  BY <1>1, <1>2, <1>4, <1>5, <1>7 DEF ScreenAt
<1>9. s # Furniture!Nothing
  <2>1. Furniture!Nothing.id = 0  BY NoneAre
  <2> QED  BY <1>1, <1>5, <2>1
<1> QED  BY <1>1, <1>4, <1>5, <1>7, <1>8, <1>9, MenuStays, OneScreen

(* A save that is stored replaces the tree its screen calls saved.         *)
LEMMA UpdateMenuKeeps ==
  ASSUME FurnitureInv, NEW e \in Screens, Furniture!updateMenu(e)
  PROVE  FurnitureInv' /\ Furniture!Canonical(screen[e].base) = menu.items
<1> DEFINE v == menu'.version
           t == sent[e].items
           q == [screen[e] EXCEPT !.busy = FALSE]
           w == [q EXCEPT !.version = v]
           r == [w EXCEPT !.base = t]
<1>1. /\ sent[e] # Furniture!Nothing /\ menu.version # 0
      /\ sent[e].id = menu.id /\ sent[e].version = menu.version
      /\ menu' = [menu EXCEPT !.version = @ + 1, !.items = Furniture!Canonical(t)]
  BY DEF Furniture!updateMenu, Furniture!matches
<1>2. /\ screen' = [screen EXCEPT ![e].busy = FALSE, ![e].version = v, ![e].base = t]
      /\ sent' = [sent EXCEPT ![e] = Furniture!Nothing]
  BY DEF Furniture!updateMenu, Furniture!answered, Furniture!baseline
<1>3. /\ screen[e].id \in Nat /\ screen[e].version \in Nat
      /\ t \in Trees /\ menu.version \in Nat /\ menu.id \in Nat
      /\ ScreenAt(e)
  BY RowsAre
<1>4. /\ menu' \in MenuRow /\ Furniture!Canonical(menu'.items) = menu'.items /\ Advances
      /\ menu'.id = menu.id /\ v = menu.version + 1 /\ menu'.items = Furniture!Canonical(t)
  <2> HIDE DEF t
  <2>1. v = menu'.version  OBVIOUS
  <2> HIDE DEF v
  <2> QED  BY <1>1, <1>3, <2>1, Written
<1>5. v = menu'.version /\ v \in Nat  BY <1>3, <1>4
<1> HIDE DEF v
<1>6. screen[e] \in ScreenRow /\ screen \in [Screens -> ScreenRow] /\ sent \in [Screens -> MenuRow]
  BY DEF FurnitureInv
<1>7. screen' = [screen EXCEPT ![e] = r]  BY <1>2, <1>6
<1> HIDE DEF t
<1>8. q \in ScreenRow /\ q.id = screen[e].id  BY <1>6 DEF ScreenRow
<1> HIDE DEF q
<1>9. w \in ScreenRow /\ w.id = screen[e].id /\ w.version = v  BY <1>5, <1>8 DEF ScreenRow
<1> HIDE DEF w
<1>10. r \in ScreenRow /\ r.id = screen[e].id /\ r.version = v /\ r.base = t
  BY <1>3, <1>9 DEF ScreenRow
<1> HIDE DEF r
<1>11. screen'[e] = r /\ sent'[e] = Furniture!Nothing  BY <1>2, <1>6, <1>7
<1>12. screen[e].id # 0 /\ screen[e].id = menu.id /\ screen[e].version = menu.version
  BY <1>1, <1>3 DEF ScreenAt
<1>13. Furniture!Canonical(screen[e].base) = menu.items  BY <1>1, <1>3, <1>12 DEF ScreenAt
<1>14. ScreenAt(e)'  BY <1>3, <1>4, <1>5, <1>10, <1>11, <1>12 DEF ScreenAt
<1>15. FurnitureInv'  BY <1>2, <1>4, <1>7, <1>10, <1>14, NoneAre, OneScreen
<1> QED  BY <1>13, <1>15

LEMMA RefuseKeeps ==
  ASSUME FurnitureInv, NEW e \in Screens, Furniture!refuse(e)
  PROVE  FurnitureInv'
<1> DEFINE old == screen[e]
           r == [old EXCEPT !.busy = FALSE]
<1>1. /\ menu' = menu
      /\ screen' = [screen EXCEPT ![e].busy = FALSE, ![e].version = @, ![e].base = @]
      /\ sent' = [sent EXCEPT ![e] = Furniture!Nothing]
  BY DEF Furniture!refuse, Furniture!answered
<1>2. old.id \in Nat /\ old.version \in Nat /\ ScreenAt(e)  BY RowsAre
<1>3. screen \in [Screens -> ScreenRow] /\ sent \in [Screens -> MenuRow] /\ old \in ScreenRow
  BY DEF FurnitureInv
<1>4. screen' = [screen EXCEPT ![e] =
        [[r EXCEPT !.version = r.version] EXCEPT !.base = [r EXCEPT !.version = r.version].base]]
  BY <1>1, <1>3
<1>5. /\ r \in ScreenRow /\ r.id = screen[e].id /\ r.version = screen[e].version
      /\ r.base = screen[e].base
  BY <1>3 DEF ScreenRow
<1> HIDE DEF r
<1>6. screen' = [screen EXCEPT ![e] = r]
  <2>1. [r EXCEPT !.version = r.version] = r /\ [r EXCEPT !.base = r.base] = r
    BY <1>5 DEF ScreenRow
  <2> QED  BY <1>4, <2>1
<1>7. screen'[e] = r /\ sent'[e] = Furniture!Nothing  BY <1>1, <1>3, <1>6
<1>8. ScreenAt(e)'  BY <1>1, <1>2, <1>5, <1>7 DEF ScreenAt
<1> QED  BY <1>1, <1>5, <1>6, <1>8, NoneAre, MenuStays, OneScreen

LEMMA FurnitureStep == FurnitureInv /\ [Furniture!Next]_furnitureVars => FurnitureInv'
<1> SUFFICES ASSUME FurnitureInv, [Furniture!Next]_furnitureVars PROVE FurnitureInv'
  OBVIOUS
<1>1. CASE menu' = menu /\ screen' = screen /\ sent' = sent  BY <1>1, MenuStays, NoScreen
<1>2. CASE UNCHANGED furnitureVars  BY <1>1, <1>2 DEF furnitureVars
<1>3. CASE \E p \in Pages : Furniture!changePage(p)  BY <1>1, <1>3 DEF Furniture!changePage
<1>4. CASE Furniture!updateWidgetArea  BY <1>1, <1>4 DEF Furniture!updateWidgetArea
<1>5. CASE Furniture!createMenu \/ Furniture!updateMenuBlind \/ Furniture!deleteMenu
  BY <1>5, CreateMenuKeeps, BlindKeeps, DeleteMenuKeeps
<1>6. CASE \E e \in Screens : \/ Furniture!load(e) \/ Furniture!edit(e) \/ Furniture!close(e)
                              \/ Furniture!save(e) \/ Furniture!updateMenu(e) \/ Furniture!refuse(e)
  BY <1>6, LoadKeeps, EditScreenKeeps, CloseKeeps, SaveKeeps, UpdateMenuKeeps, RefuseKeeps
<1> QED  BY <1>2, <1>3, <1>4, <1>5, <1>6 DEF Furniture!Next

LEMMA FurnitureInit == Furniture!Init => FurnitureInv
<1> SUFFICES ASSUME Furniture!Init PROVE FurnitureInv
  OBVIOUS
<1>1. /\ menu = Furniture!NoMenu /\ screen = [e \in Screens |-> Furniture!Closed]
      /\ sent = [e \in Screens |-> Furniture!Nothing]
  BY DEF Furniture!Init
<1>2. menu \in MenuRow /\ screen \in [Screens -> ScreenRow] /\ sent \in [Screens -> MenuRow]
  BY <1>1, NoneAre
<1>3. menu.items = << >>  BY <1>1, NoneAre
<1>4. ASSUME NEW e \in Screens PROVE ScreenAt(e)
  <2>1. screen[e].id = 0 /\ sent[e] = Furniture!Nothing  BY <1>1, NoneAre
  <2> QED  BY <2>1 DEF ScreenAt
<1> QED  BY <1>2, <1>3, <1>4, EmptyIsTree DEF FurnitureInv

-----------------------------------------------------------------------------
(* What the site reads.                                                    *)

LEMMA MenusShow ==
  ASSUME FurnitureInv
  PROVE  Furniture!MenusShowWhatIsPublished
<1> DEFINE t == menu.items
<1>1. t \in Trees  BY RowsAre
<1> HIDE DEF t
<1>2. t \in Seq(Item) /\ Len(t) \in Nat /\ \A n \in 1..Len(t) : t[n].depth \in Nat  BY <1>1, TreeIs
<1>3. \A j : j \in Furniture!getMenu <=>
               /\ j \in 1..Len(t)
               /\ \A i \in 1..Len(t) : i <= j /\ j <= Furniture!SubtreeEnd(t, i) =>
                    t[i].target = 0 \/ t[i].target \in public
  BY DEF Furniture!getMenu, Furniture!resolved, Furniture!IsAbove, Furniture!resolves,
         Furniture!stored, Furniture!Link, t
<1>4. \A j : j \in Furniture!getWidgetArea => j \in Furniture!getMenu
  BY DEF Furniture!getWidgetArea, Furniture!embedded, Furniture!getMenu
<1>5. ASSUME NEW j \in Furniture!getMenu
      PROVE  /\ t[j].target # 0 => t[j].target \in public
             /\ t[j].depth > 0 => Furniture!Parent(t, j) \in Furniture!getMenu
  <2>1. j \in 1..Len(t)  BY <1>3
  <2>2. Furniture!SubtreeEnd(t, j) \in j..Len(t)  BY <1>2, <2>1, EndIs
  <2>3. j <= j /\ j <= Furniture!SubtreeEnd(t, j)  BY <1>2, <2>1, <2>2
  <2>4. t[j].target # 0 => t[j].target \in public  BY <1>3, <2>1, <2>3
  <2>5. ASSUME t[j].depth > 0 PROVE Furniture!Parent(t, j) \in Furniture!getMenu
    <3> DEFINE p == Furniture!Parent(t, j)
    <3>1. /\ p \in 1..(j - 1) /\ t[p].depth = t[j].depth - 1
          /\ \A k \in (p + 1)..j : t[k].depth >= t[j].depth
      BY <1>1, <2>1, <2>5, ParentIs
    <3> HIDE DEF p
    <3>2. p \in 1..Len(t) /\ p < j  BY <1>2, <2>1, <3>1
    <3>3. ASSUME NEW i \in 1..Len(t), i <= p, p <= Furniture!SubtreeEnd(t, i)
          PROVE  j <= Furniture!SubtreeEnd(t, i)
      <4> DEFINE z == Furniture!SubtreeEnd(t, i)
      <4>1. /\ z \in i..Len(t) /\ \A k \in (i + 1)..z : t[k].depth > t[i].depth
            /\ z < Len(t) => t[z + 1].depth <= t[i].depth
        BY <1>2, EndIs
      <4>2. p <= z  BY <3>3
      <4> HIDE DEF z
      <4>3. t[p].depth >= t[i].depth
        <5>1. p = i \/ p \in (i + 1)..z  BY <1>2, <3>2, <3>3, <4>1, <4>2
        <5> QED  BY <1>2, <3>2, <4>1, <5>1
      <4>4. ASSUME z < j PROVE FALSE
        <5>1. z + 1 \in (p + 1)..j /\ z < Len(t) /\ z + 1 \in 1..Len(t)
          BY <1>2, <2>1, <3>2, <4>1, <4>2, <4>4
        <5>2. t[z + 1].depth >= t[j].depth /\ t[z + 1].depth <= t[i].depth  BY <3>1, <4>1, <5>1
        <5> QED  BY <1>2, <2>1, <3>1, <3>2, <4>3, <5>1, <5>2
      <4>5. j <= z  BY <1>2, <2>1, <4>1, <4>4
      <4> QED  BY <4>5 DEF z
    <3>4. ASSUME NEW i \in 1..Len(t), i <= p, p <= Furniture!SubtreeEnd(t, i)
          PROVE  t[i].target = 0 \/ t[i].target \in public
      <4>1. i <= j /\ j <= Furniture!SubtreeEnd(t, i)  BY <1>2, <2>1, <3>2, <3>3, <3>4
      <4> QED  BY <1>3, <4>1
    <3>5. p \in Furniture!getMenu  BY <1>3, <3>2, <3>4
    <3> QED  BY <3>5 DEF p
  <2> QED  BY <2>4, <2>5
<1> QED  BY <1>4, <1>5 DEF Furniture!MenusShowWhatIsPublished, Furniture!stored, Furniture!Link, t

LEMMA SavesSeen ==
  ASSUME FurnitureInv, [SiteNext]_siteVars, NEW e \in Screens,
         sent[e] # Furniture!Nothing, sent'[e] = Furniture!Nothing, menu'.version > menu.version
  PROVE  Furniture!Canonical(screen[e].base) = menu.items
<1>1. menu.version \in Nat /\ ~(menu.version > menu.version)  BY RowsAre
<1>2. menu' # menu /\ sent' # sent  BY <1>1
<1>3. Furniture!Next  BY <1>2 DEF SiteNext, siteVars, furnitureVars
<1>4. PICK f \in Screens : \/ Furniture!load(f) \/ Furniture!edit(f) \/ Furniture!close(f)
                           \/ Furniture!save(f) \/ Furniture!updateMenu(f) \/ Furniture!refuse(f)
  BY <1>2, <1>3 DEF Furniture!Next, Furniture!changePage, Furniture!createMenu,
     Furniture!updateMenuBlind, Furniture!deleteMenu, Furniture!updateWidgetArea
<1>5. Furniture!updateMenu(f)
  BY <1>2, <1>4 DEF Furniture!load, Furniture!edit, Furniture!close, Furniture!save, Furniture!refuse
<1>6. f = e
  <2>1. sent' = [sent EXCEPT ![f] = Furniture!Nothing]
    BY <1>5 DEF Furniture!updateMenu, Furniture!answered
  <2>2. sent \in [Screens -> MenuRow]  BY DEF FurnitureInv
  <2>3. f # e => sent'[e] = sent[e]  BY <2>1, <2>2
  <2> QED  BY <2>3
<1> QED  BY <1>5, <1>6, UpdateMenuKeeps

(* However menus are edited on any number of screens at once, and pages    *)
(* published and withdrawn, what a visitor is served points at published   *)
(* pages under parents that are served; and no save replaces a tree its    *)
(* screen was not shown.                                                   *)
THEOREM FurnitureStaysTrue == SiteSpec => FurnitureIsTrue
<1>1. SiteInit => FurnitureInv  BY FurnitureInit DEF SiteInit
<1>2. FurnitureInv /\ [SiteNext]_siteVars => FurnitureInv'
  <2> SUFFICES ASSUME FurnitureInv, [SiteNext]_siteVars PROVE FurnitureInv'
    OBVIOUS
  <2>1. [Furniture!Next]_furnitureVars
    <3>1. CASE UNCHANGED siteVars  BY <3>1 DEF siteVars
    <3>2. CASE SiteNext  BY <3>2 DEF SiteNext
    <3> QED  BY <3>1, <3>2
  <2> QED  BY <2>1, FurnitureStep
<1>3. FurnitureInv => (part = "furniture" => Furniture!MenusShowWhatIsPublished)  BY MenusShow
<1>4. FurnitureInv /\ [SiteNext]_siteVars =>
        [\A e \in Screens :
           sent[e] # Furniture!Nothing /\ sent'[e] = Furniture!Nothing /\ menu'.version > menu.version
             => Furniture!Canonical(screen[e].base) = menu.items]_(Furniture!vars)
  BY SavesSeen
<1> QED  BY <1>1, <1>2, <1>3, <1>4, PTL DEF SiteSpec, FurnitureIsTrue, Furniture!SavesReplaceWhatWasSeen

-----------------------------------------------------------------------------
(* Keyset walks: columns in either direction order the rows of a table.    *)
OrderItem == [column : {"id", "key"}, dir : {"asc", "desc"}]
Comes(d, a, b) == IF d = "desc" THEN Reads!Less(b, a) ELSE Reads!Less(a, b)
Lex(o, u, v) ==
  \E k \in DOMAIN o : (\A j \in 1..(k - 1) : u[j] = v[j]) /\ Comes(o[k].dir, u[k], v[k])
Cells(o) == [DOMAIN o -> Int]
CellsOf(o, i) == [k \in DOMAIN o |-> Reads!rowOf(i)[o[k].column]]
Keyset(o) == o \in Seq(OrderItem) /\ \E k \in DOMAIN o : o[k].column = "id"

LEMMA WalkFacts ==
  /\ Keyed \subseteq Int /\ IsFiniteSet(Keyed) /\ NullKey \in Int /\ Limits \subseteq Nat
  /\ Reads!Absent \in Int /\ Keys \subseteq Int /\ Reads!Absent \notin Keys
<1>1. Reads!Absent = -2  BY DEF Reads!Absent
<1>2. /\ Keyed \subseteq Int /\ NullKey \in Int /\ Limits \subseteq Nat
      /\ Keys \subseteq Int \ {Reads!Absent}
  BY WalkConstants DEF Reads!WalkAssumption
<1>3. IsFiniteSet(Keyed)
  BY WalkConstants DEF Reads!WalkAssumption, Reads!IsFiniteSet, IsFiniteSet
<1> QED  BY <1>1, <1>2, <1>3

LEMMA ComesIsOrder ==
  ASSUME NEW d, NEW a \in Int, NEW b \in Int, NEW c \in Int
  PROVE  /\ ~Comes(d, a, a)
         /\ Comes(d, a, b) /\ Comes(d, b, c) => Comes(d, a, c)
         /\ a # b => Comes(d, a, b) \/ Comes(d, b, a)
<1>1. NullKey \in Int  BY WalkFacts
<1>2. CASE d = "desc"  BY <1>1, <1>2 DEF Comes, Reads!Less
<1>3. CASE d # "desc"  BY <1>1, <1>3 DEF Comes, Reads!Less
<1> QED  BY <1>2, <1>3

LEMMA LexIrreflexive ==
  ASSUME NEW o \in Seq(OrderItem), NEW u \in Cells(o)
  PROVE  ~Lex(o, u, u)
<1>1. \A k \in DOMAIN o : u[k] \in Int  BY DEF Cells
<1> QED  BY <1>1, ComesIsOrder DEF Lex

LEMMA LexTransitive ==
  ASSUME NEW o \in Seq(OrderItem), NEW u \in Cells(o), NEW v \in Cells(o), NEW w \in Cells(o),
         Lex(o, u, v), Lex(o, v, w)
  PROVE  Lex(o, u, w)
<1>1. PICK k \in DOMAIN o : (\A j \in 1..(k - 1) : u[j] = v[j]) /\ Comes(o[k].dir, u[k], v[k])
  BY DEF Lex
<1>2. PICK l \in DOMAIN o : (\A j \in 1..(l - 1) : v[j] = w[j]) /\ Comes(o[l].dir, v[l], w[l])
  BY DEF Lex
<1>3. k \in Nat /\ l \in Nat /\ k >= 1 /\ l >= 1  BY DEF OrderItem
<1>4. u[k] \in Int /\ v[k] \in Int /\ w[k] \in Int /\ u[l] \in Int /\ v[l] \in Int /\ w[l] \in Int
  BY DEF Cells
<1>5. CASE k < l
  <2>1. \A j \in 1..(k - 1) : u[j] = w[j]  BY <1>1, <1>2, <1>3, <1>5
  <2>2. v[k] = w[k]  BY <1>2, <1>3, <1>5
  <2> QED  BY <1>1, <2>1, <2>2 DEF Lex
<1>6. CASE l < k
  <2>1. \A j \in 1..(l - 1) : u[j] = w[j]  BY <1>1, <1>2, <1>3, <1>6
  <2>2. u[l] = v[l]  BY <1>1, <1>3, <1>6
  <2> QED  BY <1>2, <2>1, <2>2 DEF Lex
<1>7. CASE k = l
  <2>1. \A j \in 1..(k - 1) : u[j] = w[j]  BY <1>1, <1>2, <1>7
  <2>2. Comes(o[k].dir, u[k], w[k])  BY <1>1, <1>2, <1>4, <1>7, ComesIsOrder
  <2> QED  BY <2>1, <2>2 DEF Lex
<1> QED  BY <1>3, <1>5, <1>6, <1>7

(* The first column two rows differ in decides.                            *)
LEMMA LexTotal ==
  ASSUME NEW o \in Seq(OrderItem), NEW u \in Cells(o), NEW v \in Cells(o), u # v
  PROVE  Lex(o, u, v) \/ Lex(o, v, u)
<1> DEFINE S == {k \in DOMAIN o : u[k] # v[k]}
<1>1. S \subseteq Nat  BY DEF OrderItem
<1>2. S # {}  BY DEF Cells
<1>3. PICK k \in S : \A j \in S : k <= j  BY <1>1, <1>2, LeastNatural
<1>4. k \in Nat /\ k \in DOMAIN o /\ u[k] # v[k] /\ DOMAIN o = 1..Len(o) /\ Len(o) \in Nat  BY <1>1, <1>3
<1>5. \A j \in 1..(k - 1) : u[j] = v[j]
  <2> SUFFICES ASSUME NEW j \in 1..(k - 1), u[j] # v[j] PROVE FALSE
    OBVIOUS
  <2>1. j \in DOMAIN o /\ j < k /\ j \in Int  BY <1>4
  <2> QED  BY <1>3, <1>4, <2>1
<1>6. u[k] \in Int /\ v[k] \in Int  BY <1>4 DEF Cells
<1>7. Comes(o[k].dir, u[k], v[k]) \/ Comes(o[k].dir, v[k], u[k])  BY <1>4, <1>6, ComesIsOrder
<1>8. \A j \in 1..(k - 1) : v[j] = u[j]  BY <1>5
<1> QED  BY <1>4, <1>5, <1>7, <1>8 DEF Lex

LEMMA OrdersAreKeysets ==
  ASSUME NEW s \in Orders
  PROVE  Keyset(Reads!orderWithPk(s))
<1>1. s \in Seq(OrderItem)  BY WalkConstants DEF Reads!WalkAssumption, OrderItem
<1>2. CASE \E i \in DOMAIN s : s[i].column = "id"
  BY <1>1, <1>2 DEF Reads!orderWithPk, Keyset
<1>3. CASE ~\E i \in DOMAIN s : s[i].column = "id"
  <2> DEFINE e == [column |-> "id", dir |-> IF s = << >> THEN "asc" ELSE s[Len(s)].dir]
  <2>1. s # << >> => s[Len(s)] \in OrderItem  BY <1>1
  <2>2. e \in OrderItem  BY <2>1 DEF OrderItem
  <2>3. Reads!orderWithPk(s) = Append(s, e)  BY <1>3 DEF Reads!orderWithPk
  <2> HIDE DEF e
  <2>4. /\ Append(s, e) \in Seq(OrderItem) /\ Len(s) + 1 \in DOMAIN Append(s, e)
        /\ Append(s, e)[Len(s) + 1] = e
    BY <1>1, <2>2
  <2>5. e.column = "id"  BY DEF e
  <2> QED  BY <2>3, <2>4, <2>5 DEF Keyset
<1> QED  BY <1>2, <1>3

Table == [Keyed -> Keys \cup {Reads!Absent}]

LEMMA CellsAre ==
  ASSUME NEW o \in Seq(OrderItem), rows \in Table, NEW i \in Keyed
  PROVE  /\ CellsOf(o, i) \in Cells(o)
         /\ \A k \in DOMAIN o :
              Reads!rowOf(i)[o[k].column] = IF o[k].column = "id" THEN i ELSE rows[i]
<1>1. i \in Int /\ rows[i] \in Int
  BY WalkFacts DEF Table
<1>2. \A k \in DOMAIN o : o[k].column \in {"id", "key"}
  <2>1. \A k \in DOMAIN o : o[k] \in OrderItem  OBVIOUS
  <2> QED  BY <2>1 DEF OrderItem
<1>3. \A k \in DOMAIN o :
        Reads!rowOf(i)[o[k].column] = IF o[k].column = "id" THEN i ELSE rows[i]
  BY <1>2 DEF Reads!rowOf
<1> QED  BY <1>1, <1>3 DEF CellsOf, Cells

(* Two rows differ in the primary key at least.                            *)
LEMMA CellsDiffer ==
  ASSUME NEW o, Keyset(o), rows \in Table, NEW i \in Keyed, NEW j \in Keyed, i # j
  PROVE  CellsOf(o, i) # CellsOf(o, j)
<1>1. PICK k \in DOMAIN o : o[k].column = "id"  BY DEF Keyset
<1>2. Reads!rowOf(i)[o[k].column] = i /\ Reads!rowOf(j)[o[k].column] = j
  BY <1>1 DEF Reads!rowOf
<1> QED  BY <1>2 DEF CellsOf

(* What a cursor lets through is what the query orders behind its row.     *)
LEMMA AfterIsLex ==
  ASSUME NEW o \in Seq(OrderItem), rows \in Table, NEW i \in Keyed, NEW values \in Cells(o)
  PROVE  Reads!keysetAfter(o, values, i) <=> Lex(o, values, CellsOf(o, i))
<1>1. NullKey \in Int  BY WalkFacts
<1>2. \A k \in DOMAIN o : CellsOf(o, i)[k] = Reads!rowOf(i)[o[k].column] /\ CellsOf(o, i)[k] \in Int
  BY CellsAre DEF CellsOf, Cells
<1>3. ASSUME NEW k \in DOMAIN o
      PROVE  Reads!keysetCmp(o[k], values[k], i) <=> Comes(o[k].dir, values[k], CellsOf(o, i)[k])
  <2>1. values[k] \in Int /\ o[k].dir \in {"asc", "desc"}
    <3>1. o[k] \in OrderItem  OBVIOUS
    <3> QED  BY <3>1 DEF Cells, OrderItem
  <2> DEFINE a == Reads!rowOf(i)[o[k].column]
  <2>2. a = CellsOf(o, i)[k] /\ a \in Int  BY <1>2
  <2>3. Reads!keysetCmp(o[k], values[k], i) <=>
          IF values[k] = NullKey THEN o[k].dir = "asc" /\ a # NullKey
          ELSE IF o[k].dir = "desc" THEN Reads!Above(values[k], a) \/ a = NullKey
               ELSE Reads!Above(a, values[k])
    BY DEF Reads!keysetCmp
  <2> HIDE DEF a
  <2>4. Reads!keysetCmp(o[k], values[k], i) <=> Comes(o[k].dir, values[k], a)
    BY <1>1, <2>1, <2>2, <2>3 DEF Comes, Reads!Less, Reads!Above
  <2> QED  BY <2>2, <2>4
<1>4. ASSUME NEW k \in DOMAIN o
      PROVE  (\A j \in 1..(k - 1) : Reads!rowOf(i)[o[j].column] = values[j]) <=>
             (\A j \in 1..(k - 1) : values[j] = CellsOf(o, i)[j])
  <2>1. \A j \in 1..(k - 1) : j \in DOMAIN o  OBVIOUS
  <2> QED  BY <1>2, <2>1
<1> QED  BY <1>3, <1>4 DEF Reads!keysetAfter, Lex

LEMMA SortsIsLex ==
  ASSUME NEW o, Keyset(o), rows \in Table, NEW i \in Keyed, NEW j \in Keyed
  PROVE  Reads!Sorts(o, i, j) <=> Lex(o, CellsOf(o, i), CellsOf(o, j))
<1>1. o \in Seq(OrderItem)  BY DEF Keyset
<1>2. ASSUME NEW a \in Keyed, NEW b \in Keyed
      PROVE  Reads!Before(o, a, b) <=> Lex(o, CellsOf(o, a), CellsOf(o, b))
  <2>1. \A k \in DOMAIN o : /\ CellsOf(o, a)[k] = Reads!rowOf(a)[o[k].column]
                            /\ CellsOf(o, b)[k] = Reads!rowOf(b)[o[k].column]
    BY DEF CellsOf
  <2>2. \A k \in DOMAIN o : \A l \in 1..(k - 1) : l \in DOMAIN o  BY <1>1
  <2> QED  BY <2>1, <2>2 DEF Reads!Before, Lex, Comes
<1>3. i \in Int /\ j \in Int  BY WalkFacts
<1>4. CASE i = j
  <2>1. CellsOf(o, i) \in Cells(o)  BY <1>1, CellsAre
  <2>2. ~Lex(o, CellsOf(o, i), CellsOf(o, i))  BY <1>1, <2>1, LexIrreflexive
  <2>3. ~Reads!Before(o, i, i)  BY <1>2, <2>2
  <2> QED  BY <1>3, <1>4, <2>2, <2>3 DEF Reads!Sorts
<1>5. CASE i # j
  <2>1. CellsOf(o, i) \in Cells(o) /\ CellsOf(o, j) \in Cells(o)  BY <1>1, CellsAre
  <2>2. Lex(o, CellsOf(o, i), CellsOf(o, j)) \/ Lex(o, CellsOf(o, j), CellsOf(o, i))
    BY <1>1, <1>5, <2>1, CellsDiffer, LexTotal
  <2> QED  BY <1>2, <2>2 DEF Reads!Sorts
<1> QED  BY <1>4, <1>5

(* Counting those before it ranks the elements of a finite ordered set.    *)
Orderly(S, R) ==
  /\ \A i \in S : <<i, i>> \notin R
  /\ \A i, j, k \in S : <<i, j>> \in R /\ <<j, k>> \in R => <<i, k>> \in R
  /\ \A i, j \in S : i # j => <<i, j>> \in R \/ <<j, i>> \in R
RankIn(S, R) == [i \in S |-> Cardinality({j \in S : <<j, i>> \in R})]
RanksAll(S, R, rank) ==
  /\ Cardinality(S) \in Nat
  /\ \A i \in S : rank[i] \in 0..(Cardinality(S) - 1)
  /\ \A n \in 0..(Cardinality(S) - 1) : \E i \in S : rank[i] = n
  /\ \A i, j \in S : rank[i] < rank[j] => <<i, j>> \in R
  /\ \A i, j \in S : rank[i] = rank[j] => i = j

LEMMA Ranked ==
  ASSUME NEW S, IsFiniteSet(S), NEW R, Orderly(S, R)
  PROVE  RanksAll(S, R, RankIn(S, R))
<1>0. PICK rank : rank = RankIn(S, R)  OBVIOUS
<1> DEFINE Lower(i) == {j \in S : <<j, i>> \in R}
           c == Cardinality(S)
<1>1. c \in Nat  BY FS_CardinalityType
<1>2. ASSUME NEW i \in S PROVE IsFiniteSet(Lower(i)) /\ rank[i] = Cardinality(Lower(i)) /\ rank[i] \in 0..(c - 1)
  <2>1. IsFiniteSet(S \ {i}) /\ Cardinality(S \ {i}) = c - 1  BY FS_RemoveElement
  <2>2. Lower(i) \in SUBSET (S \ {i})  BY DEF Orderly
  <2>5. rank[i] = Cardinality(Lower(i))  BY <1>0 DEF RankIn
  <2> HIDE DEF Lower, c
  <2>3. IsFiniteSet(Lower(i)) /\ Cardinality(Lower(i)) <= c - 1  BY <2>1, <2>2, FS_Subset
  <2>4. Cardinality(Lower(i)) \in Nat  BY <2>3, FS_CardinalityType
  <2> QED  BY <1>1, <2>3, <2>4, <2>5
<1>3. ASSUME NEW i \in S, NEW j \in S, <<i, j>> \in R PROVE rank[i] < rank[j]
  <2>1. Lower(i) \in SUBSET Lower(j)  BY <1>3 DEF Orderly
  <2>2. i \in Lower(j) /\ i \notin Lower(i)  BY <1>3 DEF Orderly
  <2>3. Cardinality(Lower(i)) <= Cardinality(Lower(j)) /\ Cardinality(Lower(i)) # Cardinality(Lower(j))
    BY <1>2, <2>1, <2>2, FS_Subset
  <2> HIDE DEF Lower, c
  <2>4. rank[i] \in Int /\ rank[j] \in Int  BY <1>1, <1>2
  <2> QED  BY <1>2, <2>3, <2>4
<1> HIDE DEF Lower, c
<1>4. \A i, j \in S : rank[i] = rank[j] => i = j
  <2> SUFFICES ASSUME NEW i \in S, NEW j \in S, rank[i] = rank[j], i # j PROVE FALSE
    OBVIOUS
  <2>1. rank[i] \in Int /\ rank[j] \in Int  BY <1>1, <1>2
  <2>2. CASE <<i, j>> \in R
    <3>1. rank[i] < rank[j]  BY <1>3, <2>2
    <3> QED  BY <2>1, <3>1
  <2>3. CASE <<j, i>> \in R
    <3>1. rank[j] < rank[i]  BY <1>3, <2>3
    <3> QED  BY <2>1, <3>1
  <2> QED  BY <2>2, <2>3 DEF Orderly
<1>5. \A i, j \in S : rank[i] < rank[j] => <<i, j>> \in R
  <2> SUFFICES ASSUME NEW i \in S, NEW j \in S, rank[i] < rank[j], <<i, j>> \notin R PROVE FALSE
    OBVIOUS
  <2>1. rank[i] \in Int /\ rank[j] \in Int  BY <1>1, <1>2
  <2>2. i # j  BY <2>1
  <2>3. <<j, i>> \in R  BY <2>2 DEF Orderly
  <2>4. rank[j] < rank[i]  BY <1>3, <2>3
  <2> QED  BY <2>1, <2>4
<1>6. rank \in Injection(S, 0..(c - 1))
  <2>1. rank \in [S -> 0..(c - 1)]  BY <1>0, <1>2 DEF RankIn
  <2> QED  BY <1>4, <2>1 DEF Injection, IsInjective
<1>7. IsFiniteSet(0..(c - 1)) /\ Cardinality(0..(c - 1)) = c
  <2>1. c - 1 \in Int /\ 0 \in Int  BY <1>1
  <2>2. IsFiniteSet(0..(c - 1)) /\ Cardinality(0..(c - 1)) = IF 0 > c - 1 THEN 0 ELSE (c - 1) - 0 + 1
    BY <2>1, FS_Interval
  <2> QED  BY <1>1, <2>2
<1>8. rank \in Surjection(S, 0..(c - 1))
  <2>1. Cardinality(S) = c  BY DEF c
  <2> QED  BY <1>6, <1>7, <2>1, FS_Injection
<1>9. \A n \in 0..(c - 1) : \E i \in S : rank[i] = n
  BY <1>8 DEF Surjection
<1> QED  BY <1>0, <1>1, <1>2, <1>4, <1>5, <1>9 DEF c, RanksAll

LEMMA SizeIs == ASSUME NEW S PROVE Reads!Cardinality(S) = Cardinality(S)
BY DEF Reads!Cardinality, Cardinality

(* A query returns each row it lets through, in its order.                 *)
LEMMA SelectIs ==
  ASSUME NEW o, Keyset(o), rows \in Table, NEW A, A \subseteq Keyed,
         NEW raw, raw = Reads!selectRaw(o, A)
  PROVE  /\ raw \in Seq(A)
         /\ \A i \in A : \E n \in 1..Len(raw) : raw[n] = i
         /\ \A n, m \in 1..Len(raw) : n < m => Lex(o, CellsOf(o, raw[n]), CellsOf(o, raw[m]))
<1> DEFINE R == {pair \in A \X A : Lex(o, CellsOf(o, pair[1]), CellsOf(o, pair[2]))}
           rank == RankIn(A, R)
           c == Cardinality(A)
<1>1. o \in Seq(OrderItem)  BY DEF Keyset
<1>2. \A i \in A : i \in Keyed /\ CellsOf(o, i) \in Cells(o)  BY <1>1, CellsAre
<1>3. \A i, j \in A : <<i, j>> \in R <=> Lex(o, CellsOf(o, i), CellsOf(o, j))  OBVIOUS
<1>4. IsFiniteSet(A)
  <2>1. A \in SUBSET Keyed /\ IsFiniteSet(Keyed)  BY WalkFacts
  <2> QED  BY <2>1, FS_Subset
<1>5. raw = [n \in 1..c |-> CHOOSE i \in A : rank[i] = n - 1]
  <2>1. ASSUME NEW i \in A PROVE Reads!Cardinality({j \in A : Reads!Sorts(o, j, i)}) = rank[i]
    <3>1. \A j \in A : Reads!Sorts(o, j, i) <=> <<j, i>> \in R  BY <1>2, <1>3, SortsIsLex
    <3>2. {j \in A : Reads!Sorts(o, j, i)} = {j \in A : <<j, i>> \in R}  BY <3>1
    <3> HIDE DEF R
    <3>3. Reads!Cardinality({j \in A : Reads!Sorts(o, j, i)}) = Cardinality({j \in A : <<j, i>> \in R})
      BY <3>2, SizeIs
    <3>4. rank[i] = Cardinality({j \in A : <<j, i>> \in R})  BY DEF RankIn
    <3> QED  BY <3>3, <3>4
  <2>2. raw = [n \in 1..Reads!Cardinality(A) |->
                 CHOOSE i \in A : Reads!Cardinality({j \in A : Reads!Sorts(o, j, i)}) = n - 1]
    BY DEF Reads!selectRaw
  <2>3. Reads!Cardinality(A) = c  BY SizeIs
  <2> HIDE DEF rank, c
  <2>4. \A n : (CHOOSE i \in A : Reads!Cardinality({j \in A : Reads!Sorts(o, j, i)}) = n - 1)
                 = (CHOOSE i \in A : rank[i] = n - 1)
    BY <2>1
  <2> QED  BY <2>2, <2>3, <2>4
<1> HIDE DEF R
<1>6. Orderly(A, R)
  BY <1>1, <1>2, <1>3, LexIrreflexive, LexTransitive, LexTotal, CellsDiffer DEF Orderly
<1>7. PICK k : k = rank  OBVIOUS
<1>8. RanksAll(A, R, rank)  BY <1>4, <1>6, Ranked
<1> HIDE DEF rank
<1>9. /\ Cardinality(A) \in Nat
      /\ \A i \in A : k[i] \in 0..(Cardinality(A) - 1)
      /\ \A n \in 0..(Cardinality(A) - 1) : \E i \in A : k[i] = n
      /\ \A i, j \in A : k[i] < k[j] => <<i, j>> \in R
      /\ \A i, j \in A : k[i] = k[j] => i = j
  BY <1>7, <1>8 DEF RanksAll
<1>10. c \in Nat /\ Cardinality(A) = c  BY <1>9
<1> HIDE DEF c
<1>11. \A n \in 1..c : raw[n] \in A /\ k[raw[n]] = n - 1
  <2> SUFFICES ASSUME NEW n \in 1..c PROVE raw[n] \in A /\ k[raw[n]] = n - 1
    OBVIOUS
  <2>1. n - 1 \in 0..(c - 1)  BY <1>10
  <2>2. \E i \in A : k[i] = n - 1  BY <1>9, <1>10, <2>1
  <2>3. raw[n] = CHOOSE i \in A : k[i] = n - 1  BY <1>5, <1>7
  <2> QED  BY <2>2, <2>3
<1>12. raw \in Seq(A) /\ Len(raw) = c
  <2>1. DOMAIN raw = 1..c  BY <1>5
  <2>2. raw \in [1..c -> A]  BY <1>5, <1>11, <2>1
  <2> QED  BY <1>10, <2>2
<1>13. \A i \in A : \E n \in 1..c : raw[n] = i
  <2> SUFFICES ASSUME NEW i \in A PROVE \E n \in 1..c : raw[n] = i
    OBVIOUS
  <2>1. k[i] + 1 \in 1..c /\ (k[i] + 1) - 1 = k[i]  BY <1>9, <1>10
  <2>2. raw[k[i] + 1] \in A /\ k[raw[k[i] + 1]] = k[i]  BY <1>11, <2>1
  <2> QED  BY <1>9, <2>1, <2>2
<1>14. \A n, m \in 1..c : n < m => Lex(o, CellsOf(o, raw[n]), CellsOf(o, raw[m]))
  <2> SUFFICES ASSUME NEW n \in 1..c, NEW m \in 1..c, n < m
               PROVE  Lex(o, CellsOf(o, raw[n]), CellsOf(o, raw[m]))
    OBVIOUS
  <2>1. n - 1 < m - 1  BY <1>10
  <2>2. raw[n] \in A /\ raw[m] \in A /\ k[raw[n]] < k[raw[m]]  BY <1>11, <2>1
  <2> QED  BY <1>3, <1>9, <2>2
<1> QED  BY <1>12, <1>13, <1>14

KeysetOrder == Reads!orderWithPk(order)

(* A row is ahead of a walk that begins, or whose cursor lets it through.  *)
Ahead(i) == cursor = Reads!Start \/ Reads!keysetAfter(KeysetOrder, cursor.values, i)

(* Of the rows nobody touched, a walk has seen those not ahead of it.      *)
WalkInv ==
  /\ rows \in Table /\ order \in Orders /\ limit \in Limits /\ hasMore \in BOOLEAN
  /\ settled \subseteq Reads!Live /\ seen \subseteq Keyed
  /\ cursor # Reads!Start => cursor.values \in Cells(KeysetOrder)
  /\ \A i \in settled : i \in seen <=> ~Ahead(i)
  /\ ~hasMore => settled \subseteq seen

LEMMA WalkInit ==
  ASSUME Reads!WalkInit
  PROVE  WalkInv
<1>1. rows \in Table  BY DEF Reads!WalkInit, Table
<1> QED  BY <1>1 DEF Reads!WalkInit, WalkInv, Ahead, Reads!Live

LEMMA EditKeepsWalk ==
  ASSUME WalkInv, NEW i \in Keyed, NEW v \in Keys \cup {Reads!Absent}, Reads!edit(i, v)
  PROVE  WalkInv'
<1>1. rows' = [rows EXCEPT ![i] = v] /\ settled' = settled \ {i}
  BY DEF Reads!edit
<1>2. order' = order /\ limit' = limit /\ cursor' = cursor /\ hasMore' = hasMore /\ seen' = seen
  BY DEF Reads!edit
<1>3. rows' \in Table  BY <1>1 DEF WalkInv, Table
<1>4. \A j \in settled' : j \in settled /\ j \in Keyed /\ rows'[j] = rows[j]
  BY <1>1 DEF WalkInv, Table, Reads!Live
<1>5. settled' \subseteq Reads!Live'
  BY <1>1, <1>4 DEF WalkInv, Reads!Live
<1>6. KeysetOrder' = KeysetOrder  BY <1>2 DEF KeysetOrder, Reads!orderWithPk
<1>7. ASSUME NEW j \in settled' PROVE Ahead(j)' <=> Ahead(j)
  <2>1. Reads!rowOf(j)' = Reads!rowOf(j)  BY <1>4 DEF Reads!rowOf
  <2>2. Reads!keysetAfter(KeysetOrder, cursor.values, j)' <=> Reads!keysetAfter(KeysetOrder, cursor.values, j)
    BY <1>2, <1>6, <2>1 DEF Reads!keysetAfter, Reads!keysetCmp
  <2> QED  BY <1>2, <2>2 DEF Ahead
<1>8. Cells(KeysetOrder)' = Cells(KeysetOrder)  BY <1>6 DEF Cells
<1> QED  BY <1>1, <1>2, <1>3, <1>4, <1>5, <1>7, <1>8 DEF WalkInv

(* What a page does: its rows are those ahead that come first, and the     *)
(* rows still ahead are those behind its last one.                         *)
LEMMA PageIs ==
  ASSUME WalkInv, Reads!page
  PROVE  /\ Reads!Items(listed') \subseteq {i \in Reads!Live : Ahead(i)}
         /\ seen' = seen \cup Reads!Items(listed')
         /\ \A i \in Reads!Live : Ahead(i)' <=> Ahead(i) /\ i \notin Reads!Items(listed')
         /\ ~hasMore' => {i \in Reads!Live : Ahead(i)} \subseteq Reads!Items(listed')
         /\ hasMore' \in BOOLEAN
         /\ cursor' # Reads!Start => cursor'.values \in Cells(KeysetOrder)
         /\ UNCHANGED <<rows, order, limit, settled>>
<1> DEFINE o == KeysetOrder
           A == {i \in Reads!Live : Ahead(i)}
           raw == Reads!selectRaw(o, A)
           m == IF Len(raw) < limit THEN Len(raw) ELSE limit
<1>1. Keyset(o) /\ o \in Seq(OrderItem)  BY OrdersAreKeysets DEF WalkInv, KeysetOrder, Keyset
<1>2. rows \in Table /\ A \subseteq Keyed /\ A \subseteq Reads!Live /\ limit \in Nat
  BY WalkFacts DEF WalkInv, Reads!Live
<1>3. /\ raw \in Seq(A)
      /\ \A i \in A : \E n \in 1..Len(raw) : raw[n] = i
      /\ \A n, k \in 1..Len(raw) : n < k => Lex(o, CellsOf(o, raw[n]), CellsOf(o, raw[k]))
  <2>1. PICK q : q = raw  OBVIOUS
  <2> HIDE DEF A, o
  <2>2. /\ q \in Seq(A)
        /\ \A i \in A : \E n \in 1..Len(q) : q[n] = i
        /\ \A n, k \in 1..Len(q) : n < k => Lex(o, CellsOf(o, q[n]), CellsOf(o, q[k]))
    BY <1>1, <1>2, <2>1, SelectIs
  <2> HIDE DEF raw
  <2> QED  BY <2>1, <2>2
<1>4. /\ listed' = Reads!first(raw, limit)
      /\ hasMore' = Reads!more(Reads!first(raw, limit + 1))
      /\ cursor' = IF Reads!first(raw, limit) = << >> THEN cursor
                   ELSE Reads!encodeCursor(o, Reads!first(raw, limit)[Len(Reads!first(raw, limit))])
      /\ seen' = seen \cup Reads!Items(Reads!first(raw, limit))
      /\ UNCHANGED <<rows, order, limit, settled>>
  BY DEF Reads!page, KeysetOrder, Ahead
<1>5. \A i \in A : i \in Keyed /\ CellsOf(o, i) \in Cells(o)
  BY <1>1, <1>2, CellsAre
<1> HIDE DEF o, A, raw
<1>6. m \in Nat /\ m <= Len(raw) /\ m <= limit /\ Len(raw) \in Nat /\ (m = Len(raw) \/ m = limit)
  BY <1>2, <1>3
<1>7. /\ Reads!first(raw, limit) = SubSeq(raw, 1, m) /\ Len(SubSeq(raw, 1, m)) = m
      /\ \A n \in 1..m : SubSeq(raw, 1, m)[n] = raw[n]
      /\ DOMAIN SubSeq(raw, 1, m) = 1..m
  <2>1. Reads!first(raw, limit) = SubSeq(raw, 1, m)  BY DEF Reads!first
  <2> HIDE DEF m
  <2> QED  BY <1>3, <1>6, <2>1
<1>8. hasMore' \in BOOLEAN /\ (~hasMore' => m = Len(raw))
  <2>1. Reads!first(raw, limit + 1) = SubSeq(raw, 1, IF Len(raw) < limit + 1 THEN Len(raw) ELSE limit + 1)
    BY DEF Reads!first
  <2>2. Len(raw) > limit => Len(Reads!first(raw, limit + 1)) = limit + 1
    BY <1>2, <1>3, <1>6, <2>1
  <2>3. hasMore' = (Len(Reads!first(raw, limit + 1)) > limit)  BY <1>4 DEF Reads!more
  <2>4. hasMore' \in BOOLEAN  BY <2>3
  <2>5. ~hasMore' => ~(Len(raw) > limit)
    <3>1. limit + 1 > limit  BY <1>2
    <3> QED  BY <2>2, <2>3, <3>1
  <2> QED  BY <1>2, <1>6, <2>4, <2>5
<1> HIDE DEF m
<1>9. Reads!Items(listed') = {raw[n] : n \in 1..m}
  BY <1>4, <1>7 DEF Reads!Items
<1>10. \A n \in 1..m : n \in 1..Len(raw) /\ raw[n] \in A
  BY <1>3, <1>6
<1>11. Reads!Items(listed') \subseteq A  BY <1>9, <1>10
<1>12. ~hasMore' => A \subseteq Reads!Items(listed')  BY <1>3, <1>8, <1>9
<1>13. \A i : Reads!rowOf(i)' = Reads!rowOf(i)  BY <1>4 DEF Reads!rowOf
<1>14. KeysetOrder' = o  BY <1>4 DEF o, KeysetOrder, Reads!orderWithPk
<1>15. CASE m = 0
  <2>1. cursor' = cursor  BY <1>4, <1>7, <1>15
  <2>2. Reads!Items(listed') = {}  BY <1>9, <1>15
  <2>3. ASSUME NEW i \in Reads!Live PROVE Ahead(i)' <=> Ahead(i)
    <3>1. Reads!keysetAfter(KeysetOrder, cursor.values, i)' <=> Reads!keysetAfter(KeysetOrder, cursor.values, i)
      BY <1>13, <1>14, <2>1 DEF Reads!keysetAfter, Reads!keysetCmp, o
    <3> QED  BY <2>1, <3>1 DEF Ahead
  <2>4. cursor' # Reads!Start => cursor'.values \in Cells(KeysetOrder)  BY <2>1 DEF WalkInv
  <2> QED  BY <1>4, <1>8, <1>9, <1>11, <1>12, <2>2, <2>3, <2>4, <1>7 DEF A
<1>16. CASE m # 0
  <2> DEFINE last == raw[m]
  <2>1. m \in 1..m /\ m >= 1  BY <1>6, <1>16
  <2>2. last \in A /\ last \in Keyed /\ CellsOf(o, last) \in Cells(o)  BY <1>5, <1>10, <2>1
  <2>3. SubSeq(raw, 1, m) # << >> /\ SubSeq(raw, 1, m)[m] = last
    <3>1. m \in DOMAIN SubSeq(raw, 1, m) /\ SubSeq(raw, 1, m)[m] = raw[m]  BY <1>7, <2>1
    <3>2. DOMAIN << >> = {}  OBVIOUS
    <3> QED  BY <3>1, <3>2
  <2>4. cursor' = [values |-> CellsOf(o, last)]
    BY <1>4, <1>7, <2>3 DEF Reads!encodeCursor, CellsOf
  <2>5. cursor' # Reads!Start
    <3>1. PICK k \in DOMAIN o : TRUE  BY <1>1 DEF Keyset
    <3>2. DOMAIN CellsOf(o, last) = DOMAIN o  BY DEF CellsOf
    <3>3. DOMAIN << >> = {}  OBVIOUS
    <3>4. CellsOf(o, last) # << >>  BY <3>1, <3>2, <3>3
    <3>5. cursor'.values = CellsOf(o, last) /\ Reads!Start.values = << >>  BY <2>4 DEF Reads!Start
    <3> QED  BY <3>4, <3>5
  <2> HIDE DEF last
  <2>6. ASSUME NEW i \in Reads!Live PROVE Ahead(i)' <=> Lex(o, CellsOf(o, last), CellsOf(o, i))
    <3>1. cursor'.values = CellsOf(o, last)  BY <2>4
    <3>2. Ahead(i)' <=> Reads!keysetAfter(KeysetOrder, cursor.values, i)'  BY <2>5 DEF Ahead
    <3>3. Reads!keysetAfter(KeysetOrder, cursor.values, i)' <=> Reads!keysetAfter(o, CellsOf(o, last), i)
      BY <1>13, <1>14, <3>1 DEF Reads!keysetAfter, Reads!keysetCmp
    <3>4. i \in Keyed  BY DEF Reads!Live
    <3> QED  BY <1>1, <1>2, <2>2, <3>2, <3>3, <3>4, AfterIsLex
  <2>7. ASSUME NEW i \in Reads!Live, Lex(o, CellsOf(o, last), CellsOf(o, i)) PROVE Ahead(i)
    <3>1. CASE cursor = Reads!Start  BY <3>1 DEF Ahead
    <3>2. CASE cursor # Reads!Start
      <4>1. cursor.values \in Cells(o)  BY <3>2 DEF WalkInv, o
      <4>2. Reads!keysetAfter(o, cursor.values, last)  BY <2>2, <3>2 DEF A, Ahead, o
      <4>3. i \in Keyed /\ CellsOf(o, i) \in Cells(o)  BY <1>1, <1>2, CellsAre DEF Reads!Live
      <4>4. Lex(o, cursor.values, CellsOf(o, last))  BY <1>1, <1>2, <2>2, <4>1, <4>2, AfterIsLex
      <4>5. Lex(o, cursor.values, CellsOf(o, i))
        BY <1>1, <2>2, <2>7, <4>1, <4>3, <4>4, LexTransitive
      <4>6. Reads!keysetAfter(o, cursor.values, i)  BY <1>1, <1>2, <4>1, <4>3, <4>5, AfterIsLex
      <4> QED  BY <4>6 DEF Ahead, o
    <3> QED  BY <3>1, <3>2
  <2>8. ASSUME NEW n \in 1..Len(raw) PROVE Lex(o, CellsOf(o, last), CellsOf(o, raw[n])) <=> n > m
    <3>1. n \in Nat /\ m \in 1..Len(raw) /\ raw[n] \in A  BY <1>3, <1>6, <1>10, <2>1
    <3>2. raw[n] \in Keyed /\ CellsOf(o, raw[n]) \in Cells(o)  BY <1>5, <3>1
    <3>3. CASE n > m  BY <1>3, <3>1, <3>3 DEF last
    <3>4. CASE n = m  BY <1>1, <2>2, <3>4, LexIrreflexive DEF last
    <3>5. CASE n < m
      <4>1. Lex(o, CellsOf(o, raw[n]), CellsOf(o, last))  BY <1>3, <3>1, <3>5 DEF last
      <4>2. ~Lex(o, CellsOf(o, last), CellsOf(o, raw[n]))
        BY <1>1, <2>2, <3>2, <4>1, LexTransitive, LexIrreflexive
      <4> QED  BY <1>6, <3>1, <3>5, <4>2
    <3> QED  BY <1>6, <3>1, <3>3, <3>4, <3>5
  <2>9. ASSUME NEW i \in A, NEW k \in 1..Len(raw), raw[k] = i
        PROVE  i \in {raw[n] : n \in 1..m} <=> k <= m
    <3>1. ASSUME NEW n \in 1..m, raw[n] = i, k > m PROVE FALSE
      <4>1. n \in 1..Len(raw) /\ n <= m /\ n \in Nat  BY <1>6
      <4>2. ~Lex(o, CellsOf(o, last), CellsOf(o, raw[n]))  BY <1>6, <2>8, <4>1
      <4>3. Lex(o, CellsOf(o, last), CellsOf(o, raw[k]))  BY <2>8, <3>1
      <4> QED  BY <2>9, <3>1, <4>2, <4>3
    <3>2. k <= m => k \in 1..m  BY <1>6
    <3> QED  BY <1>6, <2>9, <3>1, <3>2
  <2>10. ASSUME NEW i \in Reads!Live
         PROVE  Ahead(i)' <=> Ahead(i) /\ i \notin Reads!Items(listed')
    <3>1. CASE i \in A
      <4>1. PICK k \in 1..Len(raw) : raw[k] = i  BY <1>3, <3>1
      <4>2. Ahead(i)' <=> k > m  BY <2>6, <2>8, <4>1
      <4>3. i \in Reads!Items(listed') <=> k <= m  BY <1>9, <2>9, <3>1, <4>1
      <4> QED  BY <1>6, <3>1, <4>1, <4>2, <4>3 DEF A
    <3>2. CASE i \notin A
      <4>1. ~Ahead(i)  BY <3>2 DEF A
      <4> QED  BY <2>6, <2>7, <4>1
    <3> QED  BY <3>1, <3>2
  <2>11. cursor'.values \in Cells(KeysetOrder)  BY <2>2, <2>4 DEF o
  <2> QED  BY <1>4, <1>8, <1>11, <1>12, <2>10, <2>11 DEF A
<1> QED  BY <1>15, <1>16

LEMMA PageKeepsWalk ==
  ASSUME WalkInv, Reads!page
  PROVE  WalkInv' /\ Reads!SettledOnce
<1>1. /\ Reads!Items(listed') \subseteq {i \in Reads!Live : Ahead(i)}
      /\ seen' = seen \cup Reads!Items(listed')
      /\ \A i \in Reads!Live : Ahead(i)' <=> Ahead(i) /\ i \notin Reads!Items(listed')
      /\ ~hasMore' => {i \in Reads!Live : Ahead(i)} \subseteq Reads!Items(listed')
      /\ hasMore' \in BOOLEAN
      /\ cursor' # Reads!Start => cursor'.values \in Cells(KeysetOrder)
      /\ UNCHANGED <<rows, order, limit, settled>>
  BY PageIs
<1>2. Reads!Live' = Reads!Live /\ KeysetOrder' = KeysetOrder
  BY <1>1 DEF Reads!Live, KeysetOrder, Reads!orderWithPk
<1>3. Cells(KeysetOrder)' = Cells(KeysetOrder)  BY <1>2 DEF Cells
<1>4. \A i \in settled : i \in Reads!Live /\ i \in Keyed  BY DEF WalkInv, Reads!Live
<1>5. \A i \in settled' : i \in seen' <=> ~Ahead(i)'
  BY <1>1, <1>4 DEF WalkInv
<1>6. ~hasMore' => settled' \subseteq seen'
  BY <1>1, <1>4 DEF WalkInv
<1>7. seen' \subseteq Keyed  BY <1>1 DEF WalkInv, Reads!Live
<1>8. Table' = Table  BY DEF Table
<1>9. Reads!Items(listed') \cap seen \cap settled = {}  BY <1>1, <1>4 DEF WalkInv
<1>10. WalkInv'
  BY <1>1, <1>2, <1>3, <1>5, <1>6, <1>7, <1>8 DEF WalkInv
<1>11. Reads!SettledOnce
  BY <1>1, <1>6, <1>9 DEF Reads!SettledOnce
<1> QED  BY <1>10, <1>11

-----------------------------------------------------------------------------
(* Reads across a relation: what find returns is a function of what the    *)
(* caller may read a row at a time.                                        *)
RelationTyped ==
  /\ kind \in {"belongsTo", "hasMany", "manyToMany"}
  /\ parentRow \in [Parents -> [open : BOOLEAN, fk : Related \cup {Null}]]
  /\ targetRow \in [Related -> [open : BOOLEAN, fk : Parents \cup {Null}, x : Marks]]
  /\ linkRow \in [Parents \X Related -> [open : BOOLEAN, there : BOOLEAN]]

(* The rows a caller may read, and what it is shown of them.               *)
Parent(p) == Reads!Admitted(policy.parent, parentRow[p])
ParentFields(p) == Reads!fieldsOn(policy.parent, parentRow[p])
ParentShown(p) == Reads!Shown(parentRow[p], ParentFields(p))
Target(t) == Reads!Admitted(policy.target, targetRow[t])
TargetFields(t) == Reads!fieldsOn(policy.target, targetRow[t])
TargetShown(t) == Reads!Shown(targetRow[t], TargetFields(t))
LentShown(t) == Reads!Shown(targetRow[t], {"id", "x", "fk"})
Link(pt) == pt \in Reads!there /\ Reads!Admitted(policy.link, linkRow[pt])
LinkTells(pt) == "fk" \in Reads!fieldsOn(policy.link, linkRow[pt])

(* Two states in which a caller reads the same rows.                       *)
Alike ==
  /\ kind' = kind /\ policy' = policy /\ direct' = direct
  /\ \A p \in Parents : (Parent(p)' <=> Parent(p)) /\ (Parent(p) => ParentShown(p)' = ParentShown(p))
  /\ \A t \in Related : (Target(t)' <=> Target(t)) /\ (Target(t) => TargetShown(t)' = TargetShown(t))
  /\ \A t \in Related : /\ Reads!lent(t)' <=> Reads!lent(t)
                        /\ Reads!lent(t) => LentShown(t)' = LentShown(t)
  /\ \A pt \in Parents \X Related :
       (Link(pt)' <=> Link(pt)) /\ (Link(pt) => (LinkTells(pt)' <=> LinkTells(pt)))

LEMMA ViewsAlike ==
  ASSUME kind' = kind, policy' = policy, direct' = direct, Reads!View' = Reads!View
  PROVE  Alike
<1> DEFINE One == {<<p, ParentShown(p)>> : p \in {q \in Parents : Parent(q)}}
           Two == {<<t, TargetShown(t)>> : t \in {u \in Related : Target(u)}}
           Three == {<<t, LentShown(t)>> : t \in {u \in Related : Reads!lent(u)}}
           Four == {<<pt, LinkTells(pt)>> : pt \in {lt \in Reads!there : Reads!Admitted(policy.link, linkRow[lt])}}
<1>1. Reads!View = <<One, Two, Three, Four>>
  BY DEF Reads!View, Parent, ParentFields, ParentShown, Target, TargetFields, TargetShown, LentShown,
         LinkTells, Reads!lent
<1>2. One' = One /\ Two' = Two /\ Three' = Three /\ Four' = Four
  <2>1. Reads!View' = <<One', Two', Three', Four'>>
    BY DEF Reads!View, Parent, ParentFields, ParentShown, Target, TargetFields, TargetShown, LentShown,
           LinkTells, Reads!lent
  <2> HIDE DEF One, Two, Three, Four
  <2> QED  BY <1>1, <2>1
<1>3. ASSUME NEW p \in Parents
      PROVE  (Parent(p)' <=> Parent(p)) /\ (Parent(p) => ParentShown(p)' = ParentShown(p))
  <2>1. Parent(p) => <<p, ParentShown(p)>> \in One  OBVIOUS
  <2>2. Parent(p)' => <<p, ParentShown(p)'>> \in One'  OBVIOUS
  <2>3. \A v : <<p, v>> \in One => Parent(p) /\ v = ParentShown(p)  OBVIOUS
  <2>4. \A v : <<p, v>> \in One' => Parent(p)' /\ v = ParentShown(p)'  OBVIOUS
  <2> HIDE DEF One
  <2> QED  BY <1>2, <2>1, <2>2, <2>3, <2>4
<1>4. ASSUME NEW t \in Related
      PROVE  (Target(t)' <=> Target(t)) /\ (Target(t) => TargetShown(t)' = TargetShown(t))
  <2>1. Target(t) => <<t, TargetShown(t)>> \in Two  OBVIOUS
  <2>2. Target(t)' => <<t, TargetShown(t)'>> \in Two'  OBVIOUS
  <2>3. \A v : <<t, v>> \in Two => Target(t) /\ v = TargetShown(t)  OBVIOUS
  <2>4. \A v : <<t, v>> \in Two' => Target(t)' /\ v = TargetShown(t)'  OBVIOUS
  <2> HIDE DEF Two
  <2> QED  BY <1>2, <2>1, <2>2, <2>3, <2>4
<1>5. ASSUME NEW t \in Related
      PROVE  (Reads!lent(t)' <=> Reads!lent(t)) /\ (Reads!lent(t) => LentShown(t)' = LentShown(t))
  <2>1. Reads!lent(t) => <<t, LentShown(t)>> \in Three  OBVIOUS
  <2>2. Reads!lent(t)' => <<t, LentShown(t)'>> \in Three'  OBVIOUS
  <2>3. \A v : <<t, v>> \in Three => Reads!lent(t) /\ v = LentShown(t)  OBVIOUS
  <2>4. \A v : <<t, v>> \in Three' => Reads!lent(t)' /\ v = LentShown(t)'  OBVIOUS
  <2> HIDE DEF Three
  <2> QED  BY <1>2, <2>1, <2>2, <2>3, <2>4
<1>6. ASSUME NEW pt \in Parents \X Related
      PROVE  (Link(pt)' <=> Link(pt)) /\ (Link(pt) => (LinkTells(pt)' <=> LinkTells(pt)))
  <2>1. Link(pt) => <<pt, LinkTells(pt)>> \in Four  BY DEF Link
  <2>2. Link(pt)' => <<pt, LinkTells(pt)'>> \in Four'  BY DEF Link
  <2>3. \A v : <<pt, v>> \in Four => Link(pt) /\ v = LinkTells(pt)  BY DEF Link
  <2>4. \A v : <<pt, v>> \in Four' => Link(pt)' /\ v = LinkTells(pt)'  BY DEF Link
  <2> HIDE DEF Four
  <2> QED  BY <1>2, <2>1, <2>2, <2>3, <2>4
<1> QED  BY <1>3, <1>4, <1>5, <1>6 DEF Alike

Agree(row, other, F) == \A c \in F \cap DOMAIN row : c # "id" => row[c] = other[c]

LEMMA ShownTells ==
  ASSUME NEW row, NEW other, DOMAIN row = DOMAIN other, NEW F, NEW G,
         Reads!Shown(row, F) = Reads!Shown(other, G)
  PROVE  F = G /\ Agree(row, other, F)
<1>1. DOMAIN Reads!Shown(row, F) = F /\ DOMAIN Reads!Shown(other, G) = G  BY DEF Reads!Shown
<1>2. F = G  BY <1>1
<1>3. ASSUME NEW c \in F \cap DOMAIN row, c # "id" PROVE row[c] = other[c]
  <2>1. Reads!Shown(row, F)[c] = row[c] /\ Reads!Shown(other, G)[c] = other[c]
    BY <1>2, <1>3 DEF Reads!Shown
  <2> QED  BY <2>1
<1> QED  BY <1>2, <1>3 DEF Agree

LEMMA ShownSame ==
  ASSUME NEW row, NEW other, DOMAIN row = DOMAIN other, NEW F, Agree(row, other, F)
  PROVE  Reads!Shown(row, F) = Reads!Shown(other, F)
BY DEF Reads!Shown, Agree

(* What two such states have in common, row by row.                        *)
LEMMA ParentsAlike ==
  ASSUME RelationTyped, RelationTyped', Alike, NEW p \in Parents, Parent(p)
  PROVE  /\ ParentFields(p)' = ParentFields(p)
         /\ "fk" \in ParentFields(p) => parentRow'[p].fk = parentRow[p].fk
<1>1. DOMAIN parentRow'[p] = {"open", "fk"} /\ DOMAIN parentRow[p] = {"open", "fk"}
  BY DEF RelationTyped
<1>2. ParentShown(p)' = ParentShown(p)  BY DEF Alike
<1>3. Reads!Shown(parentRow[p], ParentFields(p)) = Reads!Shown(parentRow'[p], ParentFields(p)')
  BY <1>2 DEF ParentShown, Reads!Shown
<1>4. ParentFields(p) = ParentFields(p)' /\ Agree(parentRow[p], parentRow'[p], ParentFields(p))
  BY <1>1, <1>3, ShownTells
<1> QED  BY <1>1, <1>4 DEF Agree

LEMMA TargetsAlike ==
  ASSUME RelationTyped, RelationTyped', Alike, NEW t \in Related
  PROVE  /\ Target(t) => /\ TargetFields(t)' = TargetFields(t)
                         /\ targetRow'[t].x = targetRow[t].x
                         /\ "fk" \in TargetFields(t) => targetRow'[t].fk = targetRow[t].fk
         /\ Reads!lent(t) => targetRow'[t].x = targetRow[t].x /\ targetRow'[t].fk = targetRow[t].fk
<1>1. DOMAIN targetRow'[t] = {"open", "fk", "x"} /\ DOMAIN targetRow[t] = {"open", "fk", "x"}
  BY DEF RelationTyped
<1>2. ASSUME Target(t)
      PROVE  /\ TargetFields(t)' = TargetFields(t)
             /\ targetRow'[t].x = targetRow[t].x
             /\ "fk" \in TargetFields(t) => targetRow'[t].fk = targetRow[t].fk
  <2>1. TargetShown(t)' = TargetShown(t)  BY <1>2 DEF Alike
  <2>2. Reads!Shown(targetRow[t], TargetFields(t)) = Reads!Shown(targetRow'[t], TargetFields(t)')
    BY <2>1 DEF TargetShown, Reads!Shown
  <2>3. TargetFields(t) = TargetFields(t)' /\ Agree(targetRow[t], targetRow'[t], TargetFields(t))
    BY <1>1, <2>2, ShownTells
  <2>4. "x" \in TargetFields(t)  BY DEF TargetFields, Reads!fieldsOn, Reads!baseOf
  <2> QED  BY <1>1, <2>3, <2>4 DEF Agree
<1>3. ASSUME Reads!lent(t)
      PROVE  targetRow'[t].x = targetRow[t].x /\ targetRow'[t].fk = targetRow[t].fk
  <2> DEFINE F == {"id", "x", "fk"}
  <2>1. LentShown(t)' = LentShown(t)  BY <1>3 DEF Alike
  <2>2. Reads!Shown(targetRow[t], F) = Reads!Shown(targetRow'[t], F)
    BY <2>1 DEF LentShown, Reads!Shown
  <2>3. Agree(targetRow[t], targetRow'[t], F)
    BY <1>1, <2>2, ShownTells
  <2> QED  BY <1>1, <2>3 DEF Agree
<1> QED  BY <1>2, <1>3

LEMMA LendingAlike ==
  ASSUME RelationTyped, RelationTyped', Alike, NEW t \in Related
  PROVE  /\ Reads!inScope(t)' <=> Reads!inScope(t)
         /\ Reads!relFields(t)' = Reads!relFields(t)
         /\ Reads!inScope(t) => targetRow'[t].x = targetRow[t].x
         /\ Reads!inScope(t) /\ "fk" \in Reads!relFields(t) => targetRow'[t].fk = targetRow[t].fk
         /\ Reads!inScope(t) =>
              Reads!Shown(targetRow[t], Reads!relFields(t))' = Reads!Shown(targetRow[t], Reads!relFields(t))
<1>1. (Target(t)' <=> Target(t)) /\ (Reads!lent(t)' <=> Reads!lent(t))  BY DEF Alike
<1>2. Reads!inScope(t) <=> Target(t) \/ Reads!lent(t)  BY DEF Reads!inScope, Target
<1>3. Reads!inScope(t)' <=> Target(t)' \/ Reads!lent(t)'  BY DEF Reads!inScope, Target
<1>4. Reads!relFields(t) = (IF Target(t) THEN TargetFields(t) ELSE {}) \cup
                           (IF Reads!lent(t) THEN {"id", "x", "fk"} ELSE {})
  BY DEF Reads!relFields, Target, TargetFields
<1>5. Reads!relFields(t)' = (IF Target(t)' THEN TargetFields(t)' ELSE {}) \cup
                            (IF Reads!lent(t)' THEN {"id", "x", "fk"} ELSE {})
  BY DEF Reads!relFields, Target, TargetFields
<1>6. Reads!relFields(t)' = Reads!relFields(t)  BY <1>1, <1>4, <1>5, TargetsAlike
<1>7. Reads!inScope(t) => targetRow'[t].x = targetRow[t].x  BY <1>2, TargetsAlike
<1>8. Reads!inScope(t) /\ "fk" \in Reads!relFields(t) => targetRow'[t].fk = targetRow[t].fk
  BY <1>2, <1>4, TargetsAlike
<1>9. ASSUME Reads!inScope(t)
      PROVE  Reads!Shown(targetRow[t], Reads!relFields(t))' = Reads!Shown(targetRow[t], Reads!relFields(t))
  <2>1. DOMAIN targetRow'[t] = {"open", "fk", "x"} /\ DOMAIN targetRow[t] = {"open", "fk", "x"}
    BY DEF RelationTyped
  <2>2. Reads!relFields(t) \subseteq {"id", "x", "fk"}
    BY <1>4 DEF TargetFields, Reads!fieldsOn, Reads!baseOf
  <2>3. Agree(targetRow[t], targetRow'[t], Reads!relFields(t))
    BY <1>7, <1>8, <1>9, <2>1, <2>2 DEF Agree
  <2>4. Reads!Shown(targetRow[t], Reads!relFields(t)) = Reads!Shown(targetRow'[t], Reads!relFields(t))
    BY <2>1, <2>3, ShownSame
  <2>5. Reads!Shown(targetRow[t], Reads!relFields(t))' = Reads!Shown(targetRow'[t], Reads!relFields(t)')
    BY DEF Reads!Shown
  <2> QED  BY <1>6, <2>4, <2>5
<1> QED  BY <1>1, <1>2, <1>3, <1>6, <1>7, <1>8, <1>9

LEMMA LinksAlike ==
  ASSUME Alike, NEW pt \in Parents \X Related
  PROVE  /\ Reads!traversable(pt)' <=> Reads!traversable(pt)
         /\ Reads!traversable(pt) =>
              ("fk" \in Reads!fieldsOn(policy.link, linkRow[pt])' <=>
                 "fk" \in Reads!fieldsOn(policy.link, linkRow[pt]))
<1>1. Link(pt) <=> Reads!traversable(pt)  BY DEF Link, Reads!traversable, Reads!there
<1>2. Link(pt)' <=> Reads!traversable(pt)'  BY DEF Link, Reads!traversable, Reads!there
<1>3. (Link(pt)' <=> Link(pt)) /\ (Link(pt) => (LinkTells(pt)' <=> LinkTells(pt)))  BY DEF Alike
<1> QED  BY <1>1, <1>2, <1>3 DEF LinkTells

(* What joins a parent the caller may read.                                *)
LEMMA JoinsAlike ==
  ASSUME RelationTyped, RelationTyped', Alike, NEW p \in Parents, Parent(p), NEW t \in Related
  PROVE  (Reads!inScope(t) /\ Reads!joins(p, t))' <=> (Reads!inScope(t) /\ Reads!joins(p, t))
<1>1. kind' = kind /\ policy' = policy  BY DEF Alike
<1>2. Reads!inScope(t)' <=> Reads!inScope(t)  BY LendingAlike
<1>3. CASE kind = "belongsTo"
  <2>1. Reads!joins(p, t) <=> parentRow[p].fk = t /\ "fk" \in ParentFields(p)
    BY <1>3 DEF Reads!joins, Reads!Joined, ParentFields
  <2>2. Reads!joins(p, t)' <=> parentRow'[p].fk = t /\ "fk" \in ParentFields(p)'
    BY <1>1, <1>3 DEF Reads!joins, Reads!Joined, ParentFields
  <2> QED  BY <1>2, <2>1, <2>2, ParentsAlike
<1>4. CASE kind = "hasMany"
  <2>1. Reads!joins(p, t) <=> targetRow[t].fk = p /\ "fk" \in Reads!relFields(t)
    BY <1>4 DEF Reads!joins, Reads!Joined
  <2>2. Reads!joins(p, t)' <=> targetRow'[t].fk = p /\ "fk" \in Reads!relFields(t)'
    BY <1>1, <1>4 DEF Reads!joins, Reads!Joined
  <2> QED  BY <1>2, <2>1, <2>2, LendingAlike
<1>5. CASE kind = "manyToMany"
  <2> DEFINE pt == <<p, t>>
  <2>1. pt \in Parents \X Related  OBVIOUS
  <2>2. Reads!joins(p, t) <=> Reads!traversable(pt) /\ "fk" \in Reads!fieldsOn(policy.link, linkRow[pt])
    BY <1>5, <2>1 DEF Reads!joins, Reads!Joined, Reads!traversable, Reads!there
  <2>3. Reads!joins(p, t)' <=> Reads!traversable(pt)' /\ "fk" \in Reads!fieldsOn(policy.link, linkRow[pt])'
    BY <1>1, <1>5, <2>1 DEF Reads!joins, Reads!Joined, Reads!traversable, Reads!there
  <2> HIDE DEF pt
  <2> QED  BY <1>2, <2>1, <2>2, <2>3, LinksAlike
<1> QED  BY <1>3, <1>4, <1>5 DEF RelationTyped

LEMMA LoadsAlike ==
  ASSUME RelationTyped, RelationTyped', Alike, NEW p \in Parents, Parent(p)
  PROVE  Reads!loadRelation(p)' = Reads!loadRelation(p)
<1>1. \A t \in Related :
        (Reads!inScope(t) /\ Reads!joins(p, t))' <=> (Reads!inScope(t) /\ Reads!joins(p, t))
  BY JoinsAlike
<1>2. \A t \in Related : Reads!inScope(t) =>
        Reads!Shown(targetRow[t], Reads!relFields(t))' = Reads!Shown(targetRow[t], Reads!relFields(t))
  BY LendingAlike
<1>3. {u \in Related : Reads!inScope(u) /\ Reads!joins(p, u)}'
        = {u \in Related : Reads!inScope(u) /\ Reads!joins(p, u)}
  BY <1>1
<1> QED  BY <1>2, <1>3 DEF Reads!loadRelation

LEMMA FiltersAlike ==
  ASSUME RelationTyped, RelationTyped', Alike, NEW p \in Parents, Parent(p),
         NEW f, Reads!filterable(f), f.on \in {"none", "fk", "rel"}
  PROVE  Reads!Passes(f, p)' <=> Reads!Passes(f, p)
<1>1. kind' = kind /\ policy' = policy  BY DEF Alike
<1>2. CASE f.on = "none"  BY <1>2 DEF Reads!Passes
<1>3. CASE f.on = "fk"
  <2>1. "fk" \in ParentFields(p)
    BY <1>3 DEF Reads!filterable, ParentFields, Reads!fieldsOn
  <2>2. parentRow'[p].fk = parentRow[p].fk  BY <2>1, ParentsAlike
  <2> QED  BY <1>3, <2>2 DEF Reads!Passes
<1>4. CASE f.on = "rel"
  <2> DEFINE v == f.value
             M == Reads!matching(v)
  <2>1. \A t \in Related : (Target(t)' <=> Target(t)) /\ (Target(t) => targetRow'[t].x = targetRow[t].x)
    BY TargetsAlike DEF Alike
  <2>2. M = {t \in Related : targetRow[t].x = v /\ Target(t)}
    BY DEF Reads!matching, Target
  <2>3. M' = {t \in Related : targetRow'[t].x = v /\ Target(t)'}
    BY DEF Reads!matching, Target
  <2>4. M' = M  BY <2>1, <2>2, <2>3
  <2>5. \A t \in M : t \in Related /\ Target(t)  BY <2>2
  <2> HIDE DEF M
  <2>6. CASE kind = "belongsTo"
    <3>1. "fk" \in ParentFields(p)
      BY <1>4, <2>6 DEF Reads!filterable, ParentFields, Reads!fieldsOn
    <3>2. parentRow'[p].fk = parentRow[p].fk  BY <3>1, ParentsAlike
    <3>3. Reads!Passes(f, p) <=>
            IF M = {} THEN ~~f.negate ELSE parentRow[p].fk # Null /\ ((parentRow[p].fk \in M) <=> ~f.negate)
      BY <1>4, <2>6 DEF Reads!Passes, Reads!relationIs, M
    <3>4. Reads!Passes(f, p)' <=>
            IF M' = {} THEN ~~f.negate ELSE parentRow'[p].fk # Null /\ ((parentRow'[p].fk \in M') <=> ~f.negate)
      BY <1>1, <1>4, <2>6 DEF Reads!Passes, Reads!relationIs, M
    <3> QED  BY <2>4, <3>2, <3>3, <3>4
  <2>7. CASE kind = "hasMany"
    <3>1. \A t \in M : targetRow'[t].fk = targetRow[t].fk
      <4> SUFFICES ASSUME NEW t \in M PROVE targetRow'[t].fk = targetRow[t].fk
        OBVIOUS
      <4>1. t \in Related /\ Target(t)  BY <2>5
      <4>2. policy.target # "none"  BY <4>1 DEF Target, Reads!Admitted
      <4>3. "fk" \in TargetFields(t)
        BY <1>4, <2>7, <4>2 DEF Reads!filterable, TargetFields, Reads!fieldsOn
      <4> QED  BY <4>1, <4>3, TargetsAlike
    <3>2. Reads!Passes(f, p) <=> IF ~f.negate THEN \E t \in M : targetRow[t].fk = p
                                 ELSE \A t \in M : targetRow[t].fk \notin {p, Null}
      BY <1>4, <2>7 DEF Reads!Passes, Reads!relationIs, M
    <3>3. Reads!Passes(f, p)' <=> IF ~f.negate THEN \E t \in M' : targetRow'[t].fk = p
                                  ELSE \A t \in M' : targetRow'[t].fk \notin {p, Null}
      BY <1>1, <1>4, <2>7 DEF Reads!Passes, Reads!relationIs, M
    <3> QED  BY <2>4, <3>1, <3>2, <3>3
  <2>8. CASE kind = "manyToMany"
    <3>1. \A t \in M : Reads!traversable(<<p, t>>)' <=> Reads!traversable(<<p, t>>)
      BY <2>5, LinksAlike
    <3>2. Reads!Passes(f, p) <=> ((\E t \in M : Reads!traversable(<<p, t>>)) <=> ~f.negate)
      BY <1>4, <2>8 DEF Reads!Passes, Reads!relationIs, M
    <3>3. Reads!Passes(f, p)' <=> ((\E t \in M' : Reads!traversable(<<p, t>>)') <=> ~f.negate)
      BY <1>1, <1>4, <2>8 DEF Reads!Passes, Reads!relationIs, M
    <3> QED  BY <2>4, <3>1, <3>2, <3>3
  <2> QED  BY <2>6, <2>7, <2>8 DEF RelationTyped
<1> QED  BY <1>2, <1>3, <1>4

LEMMA FindAlike ==
  ASSUME RelationTyped, RelationTyped', Alike, NEW s \in Reads!Specs(Reads!AnX)
  PROVE  Reads!find(s)' = Reads!find(s)
<1> DEFINE no == policy.parent = "none" \/ ~Reads!filterable(s.filter)
                   \/ (s.with /\ policy.target = "none" /\ ~direct)
           S == {q \in Parents : Parent(q) /\ Reads!Passes(s.filter, q)}
           Row(p) == <<p, ParentShown(p), IF s.with THEN Reads!loadRelation(p) ELSE {}>>
<1>1. kind' = kind /\ policy' = policy /\ direct' = direct  BY DEF Alike
<1>2. s.filter.on \in {"none", "fk", "rel"}  BY DEF Reads!Specs
<1>3. Reads!filterable(s.filter)' <=> Reads!filterable(s.filter)
  BY <1>1 DEF Reads!filterable
<1>4. no' <=> no  BY <1>1, <1>3
<1>5. Reads!find(s) = IF no THEN {Reads!Refused} ELSE {Row(p) : p \in S}
  BY DEF Reads!find, Parent, ParentShown, ParentFields
<1>6. Reads!find(s)' = IF no' THEN {Reads!Refused} ELSE {Row(p)' : p \in S'}
  BY DEF Reads!find, Parent, ParentShown, ParentFields, Reads!Refused
<1>7. CASE no
  <2> HIDE DEF no, S, Row
  <2> QED  BY <1>4, <1>5, <1>6, <1>7
<1>8. CASE ~no
  <2>1. \A p \in Parents : Parent(p) => (Reads!Passes(s.filter, p)' <=> Reads!Passes(s.filter, p))
    BY <1>2, <1>8, FiltersAlike
  <2>2. \A p \in Parents : Parent(p)' <=> Parent(p)  BY DEF Alike
  <2>3. S' = S  BY <2>1, <2>2
  <2>4. \A p \in S : Row(p)' = Row(p)
    <3> SUFFICES ASSUME NEW p \in S PROVE Row(p)' = Row(p)
      OBVIOUS
    <3>1. p \in Parents /\ Parent(p)  OBVIOUS
    <3>2. ParentShown(p)' = ParentShown(p)  BY <3>1 DEF Alike
    <3>3. Reads!loadRelation(p)' = Reads!loadRelation(p)  BY <3>1, LoadsAlike
    <3> QED  BY <3>2, <3>3
  <2> HIDE DEF no, S, Row
  <2> QED  BY <1>4, <1>5, <1>6, <1>8, <2>3, <2>4
<1> QED  BY <1>7, <1>8

LEMMA RelationStarts ==
  ASSUME Reads!RelationInit
  PROVE  RelationTyped
<1>1. Reads!AnX \in Marks
  <2> DEFINE T == [open : BOOLEAN, fk : Parents \cup {Null}, x : Marks]
  <2>1. T # {}  BY RelationConstants DEF Reads!RelationAssumption
  <2>2. PICK r \in T : TRUE  BY <2>1
  <2>3. \A u \in T : u.x \in Marks  OBVIOUS
  <2>4. r.x \in {u.x : u \in T}  OBVIOUS
  <2>5. Reads!AnX = CHOOSE v \in {u.x : u \in T} : TRUE  BY DEF Reads!AnX
  <2> HIDE DEF T
  <2>6. Reads!AnX \in {u.x : u \in T}  BY <2>4, <2>5
  <2> QED  BY <2>3, <2>6
<1> QED  BY <1>1 DEF Reads!RelationInit, RelationTyped, Reads!NoLink

LEMMA RelationSteps ==
  ASSUME RelationTyped, Reads!RelationNext
  PROVE  RelationTyped' /\ kind' = kind /\ policy' = policy /\ direct' = direct
<1>1. CASE \E p \in Parents, row \in [open : BOOLEAN, fk : Related \cup {Null}] : Reads!parentChanges(p, row)
  BY <1>1 DEF RelationTyped, Reads!parentChanges
<1>2. CASE \E t \in Related, row \in [open : BOOLEAN, fk : Parents \cup {Null}, x : Marks] :
             Reads!targetChanges(t, row)
  BY <1>2 DEF RelationTyped, Reads!targetChanges
<1>3. CASE \E pt \in Parents \X Related,
              row \in {r \in [open : BOOLEAN, there : BOOLEAN] : r.open => r.there} :
             Reads!linkChanges(pt, row)
  BY <1>3 DEF RelationTyped, Reads!linkChanges
<1> QED  BY <1>1, <1>2, <1>3 DEF Reads!RelationNext

ReadsInv == (part = "pages" => WalkInv) /\ (part = "relations" => RelationTyped)

LEMMA ReadsKept ==
  ASSUME ReadsInv, [SiteNext]_siteVars
  PROVE  ReadsInv' /\ part' = part
<1>1. part' = part  BY DEF SiteNext, siteVars
<1>2. ASSUME UNCHANGED walkVars, WalkInv PROVE WalkInv'
  <2>1. /\ rows' = rows /\ order' = order /\ limit' = limit /\ hasMore' = hasMore
        /\ cursor' = cursor /\ settled' = settled /\ seen' = seen
    BY <1>2 DEF walkVars
  <2>2. KeysetOrder' = KeysetOrder  BY <2>1 DEF KeysetOrder, Reads!orderWithPk
  <2>3. Reads!Live' = Reads!Live  BY <2>1 DEF Reads!Live
  <2>4. Cells(KeysetOrder)' = Cells(KeysetOrder)  BY <2>2 DEF Cells
  <2>5. ASSUME NEW i PROVE Ahead(i)' <=> Ahead(i)
    <3>1. Reads!rowOf(i)' = Reads!rowOf(i)  BY <2>1 DEF Reads!rowOf
    <3>2. Reads!keysetAfter(KeysetOrder, cursor.values, i)' <=> Reads!keysetAfter(KeysetOrder, cursor.values, i)
      BY <2>1, <2>2, <3>1 DEF Reads!keysetAfter, Reads!keysetCmp
    <3> QED  BY <2>1, <3>2 DEF Ahead
  <2> QED  BY <1>2, <2>1, <2>3, <2>4, <2>5 DEF WalkInv
<1>3. ASSUME UNCHANGED relationVars, RelationTyped PROVE RelationTyped'
  BY <1>3 DEF RelationTyped, relationVars
<1>4. CASE part = "pages"
  <2>1. WalkInv  BY <1>4 DEF ReadsInv
  <2>2. Reads!WalkNext \/ UNCHANGED walkVars  BY <1>4 DEF SiteNext, siteVars
  <2>3. WalkInv'
    <3>1. CASE UNCHANGED walkVars  BY <1>2, <2>1, <3>1
    <3>2. CASE Reads!page  BY <2>1, <3>2, PageKeepsWalk
    <3>3. CASE \E i \in Keyed, v \in Keys \cup {Reads!Absent} : Reads!edit(i, v)
      BY <2>1, <3>3, EditKeepsWalk
    <3> QED  BY <2>2, <3>1, <3>2, <3>3 DEF Reads!WalkNext
  <2> QED  BY <1>1, <1>4, <2>3 DEF ReadsInv
<1>5. CASE part = "relations"
  <2>1. RelationTyped  BY <1>5 DEF ReadsInv
  <2>2. Reads!RelationNext \/ UNCHANGED relationVars  BY <1>5 DEF SiteNext, siteVars
  <2>3. RelationTyped'  BY <1>3, <2>1, <2>2, RelationSteps
  <2> QED  BY <1>1, <1>5, <2>3 DEF ReadsInv
<1>6. CASE part # "pages" /\ part # "relations"  BY <1>1, <1>6 DEF ReadsInv
<1> QED  BY <1>4, <1>5, <1>6

LEMMA UnseenKept ==
  ASSUME ReadsInv, [SiteNext]_siteVars, part = "relations"
  PROVE  Reads!UnseenUnseen
<1>1. RelationTyped /\ RelationTyped'  BY ReadsKept DEF ReadsInv
<1>2. kind' = kind /\ policy' = policy /\ direct' = direct
  <2>1. Reads!RelationNext \/ UNCHANGED relationVars  BY DEF SiteNext, siteVars
  <2> QED  BY <1>1, <2>1, RelationSteps DEF relationVars
<1>3. SUFFICES ASSUME Reads!View' = Reads!View, NEW s \in Reads!Specs(Reads!AnX)
               PROVE  Reads!find(s)' = Reads!find(s)
  BY DEF Reads!UnseenUnseen
<1>4. Alike  BY <1>2, <1>3, ViewsAlike
<1> QED  BY <1>1, <1>4, FindAlike

(* A walk over pages of any size in any order meets every row that stays   *)
(* while it walks, once; and what a caller is shown across a relation, by  *)
(* filters, negated filters and loading, changes only with what it may     *)
(* read of the rows one by one.                                            *)
THEOREM ReadsStayWhole == SiteSpec => ReadsAreWhole
<1>1. SiteInit => ReadsInv
  BY WalkInit, RelationStarts DEF SiteInit, ReadsInv
<1>2. ReadsInv /\ [SiteNext]_siteVars => ReadsInv'  BY ReadsKept
<1>3. ReadsInv /\ [SiteNext]_siteVars => [part = "pages" => Reads!SettledOnce]_walkVars
  <2> SUFFICES ASSUME ReadsInv, part = "pages" PROVE Reads!SettledOnce
    OBVIOUS
  <2>1. WalkInv  BY DEF ReadsInv
  <2>2. CASE Reads!page  BY <2>1, <2>2, PageKeepsWalk
  <2>3. CASE ~Reads!page  BY <2>3 DEF Reads!SettledOnce
  <2> QED  BY <2>2, <2>3
<1>4. ReadsInv /\ [SiteNext]_siteVars => [part = "relations" => Reads!UnseenUnseen]_relationVars
  BY UnseenKept
<1> QED  BY <1>1, <1>2, <1>3, <1>4, PTL DEF SiteSpec, ReadsAreWhole
=============================================================================
