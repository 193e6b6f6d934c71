---------------------------- MODULE TypeRegistry ----------------------------
(***************************************************************************)
(* Block types of the CMS (packages/cms/src/index.ts): rows declared in    *)
(* code, which cmsBootstrap reconciles at every boot, beside rows that     *)
(* editors author.                                                         *)
(*                                                                         *)
(* A boot has no lease: on the D1 store every cold isolate, of the old     *)
(* deployment and of the new one, runs every reconciler of its app, one    *)
(* statement at a time, while editors work.  A statement may fail and an   *)
(* isolate may die.  managedBy names the reconciler a row belongs to.      *)
(***************************************************************************)
EXTENDS Integers

CONSTANTS
  Slugs,
  Defs,       \* what a definition may say
  Owners,     \* reconcilers: the app's own and those of packages
  Deploys,
  Decl,       \* Decl[deploy][owner]: a function from slugs to Defs
  Isolates,
  MaxIds      \* bound: rows ever inserted

VARIABLES
  types,   \* cms_block_types by slug, which is UNIQUE
  ids,     \* row ids handed out
  used,    \* the row ids that blocks of any page, trash included, name
  del,     \* a deletion between its checks and its statement
  iso,     \* the reconciler each isolate is running
  author   \* history: what an editor last saved in a row of the editors' own

vars == <<types, ids, used, del, iso, author>>

None == 0

ASSUME TypeRegistryAssumption ==
  /\ None \notin Isolates /\ None \notin Defs /\ "none" \notin Owners /\ MaxIds \in Nat
  /\ \A deploy \in Deploys, owner \in Owners :
       /\ DOMAIN Decl[deploy][owner] \subseteq Slugs
       /\ \A s \in DOMAIN Decl[deploy][owner] : Decl[deploy][owner][s] \in Defs

NoRow == [id |-> None, def |-> None, owner |-> "none"]
Idle == [pc |-> "idle", deploy |-> None, owner |-> "none", todo |-> {}, slug |-> "none",
         row |-> None, excused |-> {}]

Present(slug) == types[slug].id # None
RowOf(id) == {slug \in Slugs : types[slug].id = id}
Declares(i) == Decl[iso[i].deploy][iso[i].owner]

----------------------------------------------------------------------------

Init ==
  /\ types = [s \in Slugs |-> NoRow]
  /\ ids = 0
  /\ used = {}
  /\ del = NoRow
  /\ iso = [i \in Isolates |-> Idle]
  /\ author = [s \in Slugs |-> None]

(* The other isolates are excused from what was changed while they ran.    *)
Changed(i, slugs, mine) ==
  iso' = [j \in Isolates |->
    IF j = i THEN mine
    ELSE IF iso[j].pc = "idle" THEN iso[j]
    ELSE [iso[j] EXCEPT !.excused = @ \cup slugs]]

(* Where isolate i's reconciler stands next: at which slug, and the row it *)
(* found there.                                                            *)
Stands(i, pc, todo, slug, row) ==
  [pc |-> pc, deploy |-> iso[i].deploy, owner |-> iso[i].owner, todo |-> todo,
   slug |-> slug, row |-> row, excused |-> iso[i].excused]
Writes(i, pc, s) == Stands(i, pc, iso[i].todo, s, types[s].id)
Goes(i, pc, todo) == Stands(i, pc, todo, "none", None)
NextDef(i, s) ==
  Goes(i, IF iso[i].todo = {s} THEN "sweep" ELSE "read", iso[i].todo \ {s})

(* cmsBootstrap, for one owner: its definitions one by one, in the order   *)
(* they are declared, which may be any.  Every one was validated before.   *)
boot(i) ==
  /\ iso[i].pc = "idle"
  /\ \E deploy \in Deploys, owner \in Owners :
       LET slugs == DOMAIN Decl[deploy][owner]
       IN iso' = [iso EXCEPT ![i] =
            [pc |-> IF slugs = {} THEN "sweep" ELSE "read", deploy |-> deploy, owner |-> owner,
             todo |-> slugs, slug |-> "none", row |-> None, excused |-> {}]]
  /\ UNCHANGED <<types, ids, used, del, author>>

(* upsertBySlug finds the row: it is missing, or it is this owner's and    *)
(* drifted, or there is nothing to write.                                  *)
notMineAdopted(i, row) == FALSE   \* a mutant
notMine(i, row) == row.owner # iso[i].owner

readRow(i) ==
  /\ iso[i].pc = "read"
  /\ \E s \in iso[i].todo :
       iso' = [iso EXCEPT ![i] =
         IF ~Present(s) THEN Writes(i, "insert", s)
         ELSE IF notMine(i, types[s]) \/ types[s].def = Declares(i)[s] THEN NextDef(i, s)
         ELSE Writes(i, "update", s)]
  /\ UNCHANGED <<types, ids, used, del, author>>

(* An error is caught per definition: the next ones and the sweep still    *)
(* run.  A row that appeared since the read fails the UNIQUE index.        *)
abortPass(i) == Goes(i, "swept", {})   \* a mutant
caught(i) == [NextDef(i, iso[i].slug) EXCEPT !.excused = @ \cup {iso[i].slug}]

insertRow(i) ==
  LET s == iso[i].slug IN
  /\ iso[i].pc = "insert"
  /\ ~Present(s)
  /\ ids < MaxIds
  /\ types' = [types EXCEPT ![s] =
       [id |-> ids + 1, def |-> Declares(i)[s], owner |-> iso[i].owner]]
  /\ ids' = ids + 1
  /\ Changed(i, {s}, NextDef(i, s))
  /\ UNCHANGED <<used, del, author>>

writeFails(i) ==
  /\ iso[i].pc \in {"insert", "update"}
  /\ iso' = [iso EXCEPT ![i] = caught(i)]
  /\ UNCHANGED <<types, ids, used, del, author>>

(* By id, so a row deleted and made again is not written.                  *)
updateRow(i) ==
  /\ iso[i].pc = "update"
  /\ LET slugs == RowOf(iso[i].row)
     IN /\ types' = [s \in Slugs |-> IF s \in slugs
              THEN [types[s] EXCEPT !.def = Declares(i)[iso[i].slug]] ELSE types[s]]
        /\ Changed(i, slugs, NextDef(i, iso[i].slug))
  /\ UNCHANGED <<ids, used, del, author>>

(* releaseUndeclared: what this owner wrote and no longer declares.        *)
undeclaredByAll(i) ==   \* a mutant: whoever wrote it
  {s \in Slugs : types[s].owner # "none" /\ s \notin DOMAIN Declares(i)}
undeclared(i) ==
  {s \in Slugs : types[s].owner = iso[i].owner /\ s \notin DOMAIN Declares(i)}

release(i) ==
  /\ iso[i].pc = "sweep"
  /\ IF undeclared(i) = {}
       THEN /\ iso' = [iso EXCEPT ![i] = Goes(i, "swept", {})]
            /\ UNCHANGED types
       ELSE \E s \in undeclared(i) :
              /\ types' = [types EXCEPT ![s].owner = "none"]
              /\ Changed(i, {s}, iso[i])
  /\ UNCHANGED <<ids, used, del, author>>

(* Served from here on; the isolate goes away whenever it likes.           *)
gone(i) ==
  /\ iso[i].pc # "idle"
  /\ iso' = [iso EXCEPT ![i] = Idle]
  /\ UNCHANGED <<types, ids, used, del, author>>

----------------------------------------------------------------------------
(* Editors.                                                                *)

createBlockType(s) ==
  /\ ~Present(s)
  /\ ids < MaxIds
  /\ \E def \in Defs :
       /\ types' = [types EXCEPT ![s] = [id |-> ids + 1, def |-> def, owner |-> "none"]]
       /\ author' = [author EXCEPT ![s] = def]
  /\ ids' = ids + 1
  /\ Changed(None, {s}, Idle)
  /\ UNCHANGED <<used, del>>

(* updateBlockType, and assertNotManaged.                                  *)
anyRow(s) == Present(s)   \* a mutant
editable(s) == Present(s) /\ types[s].owner = "none"

updateBlockType(s) ==
  /\ editable(s)
  /\ \E def \in Defs \ {types[s].def} :
       /\ types' = [types EXCEPT ![s].def = def]
       /\ author' = [author EXCEPT ![s] = IF @ = None THEN None ELSE def]
  /\ Changed(None, {s}, Idle)
  /\ UNCHANGED <<ids, used, del>>

(* deleteCmsType: the checks, and later the statement, which the foreign   *)
(* key refuses where a block came in between.  A content type that names   *)
(* the slug refuses it too; none does here.                                *)
deleteChecks(s) ==
  /\ del = NoRow
  /\ editable(s)
  /\ types[s].id \notin used
  /\ del' = types[s]
  /\ UNCHANGED <<types, ids, used, iso, author>>

unguarded(id) == TRUE   \* a mutant: a store whose foreign key was skipped
unreferenced(id) == id \notin used

deleteType ==
  /\ del # NoRow
  /\ LET slugs == RowOf(del.id)
     IN IF slugs # {} /\ unreferenced(del.id)
          THEN /\ types' = [s \in Slugs |-> IF s \in slugs THEN NoRow ELSE types[s]]
               /\ author' = [s \in Slugs |-> IF s \in slugs THEN None ELSE author[s]]
               /\ Changed(None, slugs, Idle)
          ELSE UNCHANGED <<types, iso, author>>
  /\ del' = NoRow
  /\ UNCHANGED <<ids, used>>

(* addBlock and placeBlock elsewhere; the last block of a type may go.     *)
addBlock(s) ==
  /\ Present(s)
  /\ used' \in {used \cup {types[s].id}, used \ {types[s].id}} \ {used}
  /\ UNCHANGED <<types, ids, del, iso, author>>

Next ==
  \/ \E i \in Isolates :
       \/ boot(i) \/ readRow(i) \/ insertRow(i) \/ updateRow(i) \/ writeFails(i)
       \/ release(i) \/ gone(i)
  \/ \E s \in Slugs :
       createBlockType(s) \/ updateBlockType(s) \/ deleteChecks(s) \/ addBlock(s)
  \/ deleteType

Spec == Init /\ [][Next]_vars

----------------------------------------------------------------------------

(* A boot converges: of what it declares, every row whose statement did    *)
(* not fail, and that nobody else wrote meanwhile, is there, and says what *)
(* the code says if it belongs to this reconciler; and of what it does not *)
(* declare nothing is left locked under its name.                          *)
BootConverges ==
  \A i \in Isolates : iso[i].pc = "swept" =>
    \A s \in Slugs \ iso[i].excused :
      IF s \in DOMAIN Declares(i)
        THEN /\ Present(s)
             /\ types[s].owner = iso[i].owner => types[s].def = Declares(i)[s]
        ELSE types[s].owner # iso[i].owner

(* A row the editors authored says what they last saved in it, and is      *)
(* theirs, whatever is declared under its slug and however boots and       *)
(* deletions interleave.                                                   *)
AuthoredStays ==
  \A s \in Slugs : author[s] # None =>
    types[s].def = author[s] /\ types[s].owner = "none"

(* A block always has its type.                                            *)
UsedTypesStay == \A id \in used : RowOf(id) # {}

(* A row is released, or changed, only by the reconciler it belongs to.    *)
OwnersCompose ==
  [][\A s \in Slugs :
       types[s].owner # "none" /\ types'[s] # types[s] =>
         \E i \in Isolates : iso[i].pc # "idle" /\ iso[i].owner = types[s].owner]_vars

(* Once its isolates have booted a deployment's types are those it         *)
(* declares, authored types are never taken over, types in use never       *)
(* deleted, and one owner's boot never releases what another declares.     *)
TypesAreKept == [](BootConverges /\ AuthoredStays /\ UsedTypesStay) /\ OwnersCompose

============================================================================
