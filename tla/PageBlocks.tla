----------------------------- MODULE PageBlocks -----------------------------
(***************************************************************************)
(* The blocks of CMS pages and their placements (packages/cms/src/         *)
(* index.ts): a block is content of some block type, a placement puts it   *)
(* at a position of a region of a page.  A block marked reusable stays in  *)
(* the library when nothing places it; any other block belongs to its      *)
(* placements, and there is no way to list it without one.  The fields of  *)
(* a block are not in the model: PageContent has the version that guards   *)
(* them, PageWorkflow what an edit of them may put on line.                *)
(***************************************************************************)
EXTENDS Integers, Sequences, Functions, FiniteSetsExt

CONSTANTS
  Pages,
  Regions,
  BlockIds,
  Types,       \* block types
  Allows,      \* per region, its allowedTypes; an empty set restricts nothing
  Defaults,    \* the content type's default blocks: records of type and region
  MaxPlaced,   \* bound: placements in the store
  MaxPosition  \* bound: the last position used

PageBlocksAssumption ==
  /\ BlockIds \subseteq Nat
  /\ MaxPlaced \in Nat
  /\ MaxPosition \in Nat
  /\ Defaults \in Seq([type : STRING, region : STRING])

VARIABLES
  pages,    \* the rows' states: unborn, live, trashed, purged
  block,    \* cms_blocks
  placed    \* cms_page_blocks, records with an id

vars == <<pages, block, placed>>

NoBlock == [state |-> "none", type |-> "none", reusable |-> FALSE]

Stored(b) == block[b].state = "stored"
Placing(b) == {i \in placed : i.block = b}
In(p, region) == {i \in placed : i.page = p /\ i.region = region}

(* assertRegionAllows: an empty list means any type.                       *)
regionAllows(region, type) ==
  region \in Regions /\ (Allows[region] = {} \/ type \in Allows[region])

(* A mutant: the number of placements.                                     *)
countedPosition(p, region) == Cardinality(In(p, region))
nextPosition(p, region) == Max({i.position : i \in In(p, region)} \cup {-1}) + 1

(* New ids: the smallest that are free, in the order of what they are for. *)
FreeBlocks == {b \in BlockIds : ~Stored(b)}
FreeSlots == 1..MaxPlaced \ {i.id : i \in placed}
Fresh(for, free) ==
  {f \in [for -> free] :
     /\ \A m, n \in for : m < n => f[m] < f[n]
     /\ \A n \in for, x \in free : x < f[n] => \E m \in for : f[m] = x}

Placement(id, p, b, region, position, asked) ==
  [id |-> id, page |-> p, block |-> b, region |-> region,
   position |-> position, asked |-> asked]

NewBlock(type, reusable) ==
  [state |-> "stored", type |-> type, reusable |-> reusable]

----------------------------------------------------------------------------

Init ==
  /\ pages = [p \in Pages |-> "unborn"]
  /\ block = [b \in BlockIds |-> NoBlock]
  /\ placed = {}

(* createPage: the default blocks that pass the guards of addBlock, in     *)
(* their order; one that does not is skipped.                              *)
Scaffold ==
  {n \in DOMAIN Defaults : Defaults[n].type \in Types
                           /\ regionAllows(Defaults[n].region, Defaults[n].type)}
Earlier(n) == {m \in Scaffold : m < n /\ Defaults[m].region = Defaults[n].region}

createPage(p) ==
  /\ pages[p] = "unborn"
  /\ pages' = [pages EXCEPT ![p] = "live"]
  /\ \E new \in Fresh(Scaffold, FreeBlocks), slot \in Fresh(Scaffold, FreeSlots) :
       /\ block' = [b \in BlockIds |->
            IF \E n \in Scaffold : new[n] = b
            THEN NewBlock(Defaults[CHOOSE n \in Scaffold : new[n] = b].type, FALSE) ELSE block[b]]
       /\ placed' = placed \cup
            {Placement(slot[n], p, new[n], Defaults[n].region, Cardinality(Earlier(n)), FALSE) :
               n \in Scaffold}

(* The position asked for, whatever is there, or the end.                  *)
Position(p, region, asked) ==
  0..MaxPosition \cap (IF asked THEN Nat ELSE {nextPosition(p, region)})

(* addBlock: a block and its placement in one call.                        *)
addBlock(p, region, type) ==
  /\ pages[p] = "live"
  /\ regionAllows(region, type)
  /\ \E new \in Fresh({1}, FreeBlocks), slot \in Fresh({1}, FreeSlots), reusable, asked \in BOOLEAN :
       /\ block' = [block EXCEPT ![new[1]] = NewBlock(type, reusable)]
       /\ \E position \in Position(p, region, asked) :
            placed' = placed \cup {Placement(slot[1], p, new[1], region, position, asked)}
  /\ UNCHANGED pages

(* placeBlock: any block there is, the reusable flag is not asked about.   *)
placeBlock(p, region, b) ==
  /\ pages[p] = "live"
  /\ Stored(b)
  /\ regionAllows(region, block[b].type)
  /\ \E slot \in Fresh({1}, FreeSlots), asked \in BOOLEAN :
       \E position \in Position(p, region, asked) :
         placed' = placed \cup {Placement(slot[1], p, b, region, position, asked)}
  /\ UNCHANGED <<pages, block>>

(* reorderRegion: exactly the region's placements, once each.              *)
reorderRegion(p, region) ==
  /\ \E at \in Bijection(In(p, region), 0..Cardinality(In(p, region)) - 1) :
       placed' = (placed \ In(p, region)) \cup
         {[i EXCEPT !.position = at[i], !.asked = FALSE] : i \in In(p, region)}
  /\ UNCHANGED <<pages, block>>

(* removeBlock: with its last placement a block that is not reusable goes. *)
notUsedOnThisPage(b, i) ==   \* a mutant
  {j \in placed \ {i} : j.block = b /\ j.page = i.page} = {}
lastPlacement(b, i) == Placing(b) = {i}

removeBlock(i) ==
  /\ placed' = placed \ {i}
  /\ block' = IF lastPlacement(i.block, i) /\ ~block[i.block].reusable
                THEN [block EXCEPT ![i.block] = NoBlock] ELSE block
  /\ UNCHANGED pages

deletePage(p) ==
  /\ pages[p] = "live"
  /\ pages' = [pages EXCEPT ![p] = "trashed"]
  /\ UNCHANGED <<block, placed>>

restorePage(p) ==
  /\ pages[p] = "trashed"
  /\ pages' = [pages EXCEPT ![p] = "live"]
  /\ UNCHANGED <<block, placed>>

(* purgePage: its placements, and the blocks only it placed.               *)
spared(p) == {}                                  \* a mutant
purgedWithAll(p) == {i.block : i \in {j \in placed : j.page = p}}   \* a mutant
doomed(p) ==
  {b \in BlockIds : /\ Stored(b)
                    /\ ~block[b].reusable
                    /\ Placing(b) # {}
                    /\ \A i \in Placing(b) : i.page = p}

purgePage(p) ==
  /\ pages[p] = "trashed"
  /\ block' = [b \in BlockIds |-> IF b \in doomed(p) THEN NoBlock ELSE block[b]]
  /\ placed' = {i \in placed : i.page # p}
  /\ pages' = [pages EXCEPT ![p] = "purged"]

Next ==
  \/ \E p \in Pages :
       \/ createPage(p) \/ deletePage(p) \/ restorePage(p) \/ purgePage(p)
       \/ \E region \in Regions :
            \/ reorderRegion(p, region)
            \/ \E type \in Types : addBlock(p, region, type)
            \/ \E b \in BlockIds : placeBlock(p, region, b)
  \/ \E i \in placed : removeBlock(i)

Spec == Init /\ [][Next]_vars

----------------------------------------------------------------------------

(* A block that is not reusable has a placement somewhere, or nobody could *)
(* ever reach it; and a placement has its block and its page, so no page   *)
(* is published with a hole, whatever was removed or purged elsewhere.     *)
BlocksAndPlacementsMatch ==
  /\ \A b \in BlockIds : Stored(b) /\ ~block[b].reusable => Placing(b) # {}
  /\ \A i \in placed : Stored(i.block) /\ pages[i.page] \in {"live", "trashed"}

(* Two placements share a position of a region only where a caller asked   *)
(* for it: what is appended goes after everything, however much was        *)
(* removed and reordered before.                                           *)
PositionsAreDistinct ==
  \A i, j \in placed :
    /\ i.page = j.page
    /\ i.region = j.region
    /\ i.position = j.position
    /\ ~i.asked
    /\ ~j.asked
    => i = j

============================================================================
