------------------------------- MODULE MCSite -------------------------------
(***************************************************************************)
(* What a site is built from, side by side: a behaviour picks a component, *)
(* and the variables of the others stay as they are.                       *)
(*   terms      two taxonomies, three terms, a page and a media row        *)
(*   furniture  one screen on a menu and a widget area, one page           *)
(*   redirects  two rows over two paths, in every way they can be typed    *)
(*   types      two reconcilers, two isolates; the second deployment       *)
(*              changes one definition of the app, and drops one of the    *)
(*              package                                                    *)
(*   pages      a client walks three rows while others change              *)
(*   relations  two parents and a target, every kind of relation           *)
(***************************************************************************)
EXTENDS TypeRegistry, TLC

CONSTANTS
  TaxIds, TermIds, Things, MaxTermDepth,
  Screens, Pages, MaxMenuDepth, MaxMenuItems, MaxMenus, MaxVersion,
  RowIds, PathNames,   \* the redirects, and the paths they start from and lead to
  Keyed, Keys, NullKey, Orders, Limits, MaxTouches,   \* a table and how it is walked
  Parents, Related, Null, ParentPolicies, TargetPolicies, LinkPolicies, Marks,
  Off, iso1, iso2

VARIABLES
  part,
  tax, term, thing, assigned,
  public, menu, area, screen, sent,
  redirects,
  rows, order, limit, cursor, hasMore, listed, seen, settled, touches,
  kind, policy, direct, parentRow, targetRow, linkRow

termVars == <<tax, term, thing, assigned>>
furnitureVars == <<public, menu, area, screen, sent>>
walkVars == <<rows, order, limit, cursor, hasMore, listed, seen, settled, touches>>
relationVars == <<kind, policy, direct, parentRow, targetRow, linkRow>>
siteVars == <<part, termVars, furnitureVars, redirects, walkVars, relationVars, vars>>

Terms == INSTANCE Taxonomies WITH Targets <- Things, MAX_TERM_DEPTH <- MaxTermDepth
Furniture == INSTANCE SiteFurniture WITH
  MAX_MENU_DEPTH <- MaxMenuDepth, MAX_MENU_ITEMS <- MaxMenuItems
Moved == INSTANCE Redirects
Reads == INSTANCE DbReads WITH
  Ids <- Keyed, MaxEdits <- MaxTouches, items <- listed, edits <- touches,
  Kinds <- {"belongsTo", "hasMany", "manyToMany"},
  ParentRows <- [open : BOOLEAN, fk : Related \union {Null}],
  TargetRows <- [open : BOOLEAN, fk : Parents \union {Null}, x : Marks],
  LinkRows <- {r \in [open : BOOLEAN, there : BOOLEAN] : r.open => r.there},
  Targets <- Related, parent <- parentRow, target <- targetRow, link <- linkRow

ASSUME TermConstants == Terms!TaxonomiesAssumption
ASSUME WalkConstants == Reads!WalkAssumption
ASSUME RelationConstants == Reads!RelationAssumption
ASSUME FurnitureConstants == Furniture!FurnitureAssumption

MCDecl == << [app |-> [a |-> 1], pkg |-> [b |-> 1]], [app |-> [a |-> 2], pkg |-> << >>] >>
By(c, d) == [column |-> c, dir |-> d]
MCOrders ==
  { << >>, <<By("key", "asc")>>, <<By("key", "desc")>>, <<By("id", "desc")>>,
    <<By("key", "desc"), By("id", "asc")>>, <<By("key", "asc"), By("id", "desc")>> }
MCKeys == {-1, 1, 2}
MCNullKey == -1
Symmetry == Permutations({iso1, iso2})

----------------------------------------------------------------------------
walkOff == /\ rows = Off /\ order = Off /\ limit = Off /\ cursor = Off /\ hasMore = Off
           /\ listed = Off /\ seen = Off /\ settled = Off /\ touches = Off
relatedOff == /\ kind = Off /\ policy = Off /\ direct = Off /\ parentRow = Off
              /\ targetRow = Off /\ linkRow = Off

(* Parents are filtered alike over either to-many relation, and a target   *)
(* that is lent is no news where every target may be read.                 *)
Unalike ==
  /\ kind = "manyToMany" => policy.parent = "all"
  /\ direct => policy.target # "all"

SiteInit ==
  /\ part \in {"terms", "furniture", "redirects", "types", "pages", "relations"}
  /\ Terms!Init
  /\ Furniture!Init
  /\ Moved!Init
  /\ Init
  /\ IF part = "pages" THEN Reads!WalkInit ELSE walkOff
  /\ IF part = "relations" THEN Reads!RelationInit /\ Unalike ELSE relatedOff

SiteNext ==
  \/ /\ part = "terms"
     /\ Terms!Next
     /\ UNCHANGED <<part, furnitureVars, redirects, walkVars, relationVars, vars>>
  \/ /\ part = "furniture"
     /\ Furniture!Next
     /\ UNCHANGED <<part, termVars, redirects, walkVars, relationVars, vars>>
  \/ /\ part = "redirects"
     /\ Moved!Next
     /\ UNCHANGED <<part, termVars, furnitureVars, walkVars, relationVars, vars>>
  \/ /\ part = "types"
     /\ Next
     /\ UNCHANGED <<part, termVars, furnitureVars, redirects, walkVars, relationVars>>
  \/ /\ part = "pages"
     /\ Reads!WalkNext
     /\ UNCHANGED <<part, termVars, furnitureVars, redirects, relationVars, vars>>
  \/ /\ part = "relations"
     /\ Reads!RelationNext
     /\ UNCHANGED <<part, termVars, furnitureVars, redirects, walkVars, vars>>

SiteSpec == SiteInit /\ [][SiteNext]_siteVars

----------------------------------------------------------------------------
(* Terms form trees, and whatever is assigned exists and applies.          *)
TermsAreSound == part = "terms" => Terms!TermsFormATree /\ Terms!AssignmentsApply

(* Menus and areas show what is published, and a save replaces only what   *)
(* its screen was shown.                                                   *)
FurnitureIsTrue ==
  [](part = "furniture" => Furniture!MenusShowWhatIsPublished) /\ Furniture!SavesReplaceWhatWasSeen

(* No stored redirect leads back to the path it starts from in one hop.    *)
NoRedirectReturns == part = "redirects" => Moved!NoRedirectReturns

(* A walk over pages meets every row that stays once and in order, and     *)
(* rows and columns the caller may not read change nothing in what it is   *)
(* shown, also through relations, filters and counts.                      *)
ReadsAreWhole ==
  /\ [][part = "pages" => Reads!SettledOnce]_walkVars
  /\ [][part = "relations" => Reads!UnseenUnseen]_relationVars
=============================================================================
