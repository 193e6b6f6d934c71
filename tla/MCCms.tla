------------------------------- MODULE MCCms --------------------------------
(***************************************************************************)
(* The components of the CMS side by side: a behaviour picks one, and the  *)
(* variables of the others stay as they are.                               *)
(*   pages     one page; two publishable contents and one whose required   *)
(*             fields are empty, two schedules, three instants             *)
(*   rows      one row of a workflow collection                            *)
(*   content   one editor, three pages, a reserved slug, two locales       *)
(*   blocks    two pages, two regions of which one allows no block of the  *)
(*             content type's first default                                *)
(***************************************************************************)
EXTENDS PageWorkflow, TLC

CONSTANTS
  blank, c1, c2,
  Rows, Values, MaxInstant, MaxScheduled, MaxEdits,
  Ids, Editors, Slugs, Locales, Reserved, MaxVersion,
  BlockPages, Regions, BlockIds, Types, Allows, Defaults, MaxPlaced, MaxPosition

VARIABLES
  part,
  cNow, row, cRevs, cTasks, want, trail, cPlans, edits,
  saved, form, origin,
  located, block, placed

collVars == <<cNow, row, cRevs, cTasks, want, trail, cPlans, edits>>
contentVars == <<saved, form, origin>>
blockVars == <<located, block, placed>>
cmsVars == <<part, vars, collVars, contentVars, blockVars>>

MCContents == {blank, c1, c2}
MCComplete == {c1, c2}
Symmetry == Permutations({c1, c2})

MCAllows == [main |-> {}, aside |-> {"note"}]
MCDefaults == <<[type |-> "text", region |-> "aside"], [type |-> "text", region |-> "main"]>>

Coll == INSTANCE Collections WITH
  MaxTime <- MaxInstant, MaxPlans <- MaxScheduled,
  now <- cNow, revs <- cRevs, tasks <- cTasks, plans <- cPlans
Content == INSTANCE PageContent WITH page <- saved
Blocks == INSTANCE PageBlocks WITH Pages <- BlockPages, pages <- located

ASSUME CollectionsConstants == Coll!CollectionsAssumption
ASSUME ContentConstants == Content!PageContentAssumption
ASSUME BlocksConstants == Blocks!PageBlocksAssumption

----------------------------------------------------------------------------

AnyOf(S) == CHOOSE x \in S : TRUE

CmsInit ==
  /\ part \in {"pages", "rows", "content", "blocks"}
  /\ Init
  /\ Coll!Init
  /\ Content!Init
  /\ Blocks!Init
  /\ part # "content" =>
       saved[AnyOf(Ids)].slug = AnyOf(Slugs) /\ saved[AnyOf(Ids)].locale = AnyOf(Locales)

CmsNext ==
  \/ /\ part = "pages"
     /\ Next
     /\ UNCHANGED <<part, collVars, contentVars, blockVars>>
  \/ /\ part = "rows"
     /\ Coll!Next
     /\ UNCHANGED <<part, vars, contentVars, blockVars>>
  \/ /\ part = "content"
     /\ Content!Next
     /\ UNCHANGED <<part, vars, collVars, blockVars>>
  \/ /\ part = "blocks"
     /\ Blocks!Next
     /\ UNCHANGED <<part, vars, collVars, contentVars>>

CmsSpec == CmsInit /\ [][CmsNext]_cmsVars

----------------------------------------------------------------------------
(* Beside ServedIsLicensed and SchedulesAreKept of PageWorkflow:           *)

(* A collection row is shown as its last publish or takedown wants, and    *)
(* its history misses none of its states.                                  *)
RowsAreKept == part = "rows" => Coll!ShownAsWanted /\ Coll!HistoryIsComplete

(* A slug names one page of a locale, a version one content, and a group   *)
(* holds the translations of one page; blocks and their placements match   *)
(* and are in order.                                                       *)
PagesAreWhole ==
  /\ part = "content" =>
       Content!SlugNamesOnePage /\ Content!VersionNamesContent /\ Content!GroupIsTheTranslations
  /\ part = "blocks" => Blocks!BlocksAndPlacementsMatch /\ Blocks!PositionsAreDistinct
=============================================================================
