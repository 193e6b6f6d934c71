--------------------------- MODULE SiteFurniture ---------------------------
(***************************************************************************)
(* A navigation menu and a widget area that embeds it: the CMS handlers    *)
(* that store them and resolve their references for the public site        *)
(* (packages/cms/src/index.ts), and the editor's screens, which load the   *)
(* whole tree, edit it locally and write it back with the version they     *)
(* loaded (packages/cms-editor/src/furniture.tsx).                         *)
(*                                                                         *)
(* A tree is its items in reading order, as the screen's flatten lists     *)
(* them: what each points at, its depth, and whether it carries a list of  *)
(* children (which stays, empty, after its last child has left).           *)
(***************************************************************************)
EXTENDS Integers, Sequences, FiniteSets

CONSTANTS
  Screens,
  Pages,
  MAX_MENU_DEPTH,
  MAX_MENU_ITEMS,
  MaxMenus,        \* how often the menu is created anew
  MaxVersion

VARIABLES
  public,   \* cms_pages: the pages that are published and not in the trash
  menu,     \* the row of cms_menus with the layout's name
  area,     \* the row of cms_widget_areas: whether one of its widgets embeds the menu
  screen,   \* what every editor's MenuEditor holds
  sent      \* the save each screen has under way, not yet at the server

vars == <<public, menu, area, screen, sent>>

FurnitureAssumption == {MAX_MENU_DEPTH, MAX_MENU_ITEMS, MaxMenus, MaxVersion} \subseteq Nat

Link == 0   \* a custom item: its url is stored in it
Targets == Pages \union {Link}
NoMenu == [id |-> 0, version |-> 0, items |-> <<>>]
Closed == [id |-> 0, version |-> 0, items |-> <<>>, base |-> <<>>, busy |-> FALSE]
Nothing == [id |-> 0, version |-> 0, items |-> <<>>]

----------------------------------------------------------------------------
(* The tree, and the edits the screen makes to it.                         *)

SubtreeEnd(t, i) ==
  LET after == {j \in i+1..Len(t) : t[j].depth <= t[i].depth}
  IN IF after = {} THEN Len(t) ELSE (CHOOSE j \in after : \A k \in after : j <= k) - 1

Subtree(t, i) == SubSeq(t, i, SubtreeEnd(t, i))
Before(t, i) == SubSeq(t, 1, i - 1)
After(t, i) == SubSeq(t, SubtreeEnd(t, i) + 1, Len(t))
Shifted(t, by) == [i \in 1..Len(t) |-> [t[i] EXCEPT !.depth = @ + by]]

Siblings(t, i) ==
  {j \in 1..Len(t) :
     /\ t[j].depth = t[i].depth
     /\ \A k \in (IF i < j THEN i..j ELSE j..i) : t[k].depth >= t[i].depth}
Parent(t, i) ==   \* of an item that is not at the top
  CHOOSE j \in 1..i-1 : /\ t[j].depth = t[i].depth - 1
                        /\ \A k \in j+1..i : t[k].depth >= t[i].depth

added(t, target) == Append(t, [target |-> target, depth |-> 0, list |-> FALSE])

removed(t, i) == Before(t, i) \o After(t, i)

movedDown(t, i) ==   \* also the move up of the sibling below
  LET j == SubtreeEnd(t, i) + 1
  IN Before(t, i) \o Subtree(t, j) \o Subtree(t, i) \o After(t, j)

previous(t, i) ==
  LET above == {j \in Siblings(t, i) : j < i}
  IN CHOOSE j \in above : \A k \in above : k <= j

indented(t, i) ==
  LET s == [t EXCEPT ![previous(t, i)].list = TRUE]
  IN Before(s, i) \o Shifted(Subtree(s, i), 1) \o After(s, i)

outdented(t, i) ==
  LET p == Parent(t, i)
  IN Before(t, i) \o SubSeq(t, SubtreeEnd(t, i) + 1, SubtreeEnd(t, p))
       \o Shifted(Subtree(t, i), -1) \o After(t, p)

Edits(t) ==
  {added(t, g) : g \in {h \in Targets : \A i \in 1..Len(t) : t[i].target # h}}
  \union {removed(t, i) : i \in 1..Len(t)}
  \union {movedDown(t, i) : i \in {j \in 1..Len(t) :
            \E k \in Siblings(t, j) : k > j}}
  \union {indented(t, i) : i \in {j \in 1..Len(t) :
            /\ \E k \in Siblings(t, j) : k < j
            /\ t[j].depth + 1 < MAX_MENU_DEPTH}}
  \union {outdented(t, i) : i \in {j \in 1..Len(t) : t[j].depth > 0}}

(* normalizeMenuItems: a list of children at the depth cap is refused even *)
(* when it is empty.                                                       *)
normalizeMenuItems(t) ==
  /\ Len(t) <= MAX_MENU_ITEMS
  /\ \A i \in 1..Len(t) : /\ t[i].depth < MAX_MENU_DEPTH
                          /\ t[i].list => t[i].depth + 1 < MAX_MENU_DEPTH

(* What is stored is rebuilt without the empty lists.                      *)
Canonical(t) ==
  [i \in 1..Len(t) |-> [t[i] EXCEPT !.list = i < Len(t) /\ t[i+1].depth > t[i].depth]]

----------------------------------------------------------------------------

Init ==
  /\ public = {}
  /\ menu = NoMenu
  /\ area = FALSE
  /\ screen = [e \in Screens |-> Closed]
  /\ sent = [e \in Screens |-> Nothing]

(* The pages' own handlers, seen from the menu.                            *)
changePage(p) ==
  /\ public' = IF p \in public THEN public \ {p} ELSE public \union {p}
  /\ UNCHANGED <<menu, area, screen, sent>>

createMenu ==
  /\ menu.version = 0
  /\ menu.id < MaxMenus
  /\ menu' = [id |-> menu.id + 1, version |-> 1, items |-> <<>>]
  /\ UNCHANGED <<public, area, screen, sent>>

deleteMenu ==
  /\ menu.version # 0
  /\ menu' = [NoMenu EXCEPT !.id = menu.id]
  /\ UNCHANGED <<public, area, screen, sent>>

(* MenuEditor loads the stored tree from listMenus.                        *)
load(e) ==
  /\ screen[e] = Closed
  /\ menu.version # 0
  /\ screen' = [screen EXCEPT ![e] =
       [id |-> menu.id, version |-> menu.version, items |-> menu.items,
        base |-> menu.items, busy |-> FALSE]]
  /\ UNCHANGED <<public, menu, area, sent>>

edit(e) ==
  /\ screen[e].id # 0
  /\ \E t \in Edits(screen[e].items) : screen' = [screen EXCEPT ![e].items = t]
  /\ UNCHANGED <<public, menu, area, sent>>

close(e) ==
  /\ screen[e].id # 0
  /\ ~screen[e].busy
  /\ screen' = [screen EXCEPT ![e] = Closed]
  /\ UNCHANGED <<public, menu, area, sent>>

save(e) ==
  /\ screen[e].id # 0
  /\ ~screen[e].busy
  /\ screen' = [screen EXCEPT ![e].busy = TRUE]
  /\ sent' = [sent EXCEPT ![e] = [id |-> screen[e].id, version |-> screen[e].version,
                                  items |-> screen[e].items]]
  /\ UNCHANGED <<public, menu, area>>

(* The answer of a save: the baseline is the tree that was sent, whatever  *)
(* has been edited since.  A refusal leaves the screen as it was.          *)
baselineOnScreen(e) == screen[e].items   \* a mutant
baseline(e) == sent[e].items

answered(e, ok) ==
  /\ screen' = [screen EXCEPT ![e].busy = FALSE,
                  ![e].version = IF ok THEN menu'.version ELSE @,
                  ![e].base = IF ok THEN baseline(e) ELSE @]
  /\ sent' = [sent EXCEPT ![e] = Nothing]
  /\ UNCHANGED <<public, area>>

(* updateMenu                                                              *)
matchesAny(e) == TRUE   \* a mutant
matches(e) == sent[e].version = menu.version

updateMenu(e) ==
  /\ sent[e] # Nothing
  /\ menu.version # 0
  /\ sent[e].id = menu.id
  /\ matches(e)
  /\ normalizeMenuItems(sent[e].items)
  /\ menu.version < MaxVersion
  /\ menu' = [menu EXCEPT !.version = @ + 1, !.items = Canonical(sent[e].items)]
  /\ answered(e, TRUE)

(* updateMenu of a caller that names no version: nextVersion checks none.  *)
updateMenuBlind ==
  /\ menu.version # 0
  /\ \E t \in Edits(menu.items) :
       /\ normalizeMenuItems(t)
       /\ menu.version < MaxVersion
       /\ menu' = [menu EXCEPT !.version = @ + 1, !.items = Canonical(t)]
  /\ UNCHANGED <<public, area, screen, sent>>

(* 404, 409, 400, or no answer                                             *)
refuse(e) ==
  /\ sent[e] # Nothing
  /\ UNCHANGED menu
  /\ answered(e, FALSE)

(* updateWidgetArea: versioned as a menu is, which is left out here.       *)
updateWidgetArea ==
  /\ area' = ~area
  /\ UNCHANGED <<public, menu, screen, sent>>

Next ==
  \/ \E p \in Pages : changePage(p)
  \/ createMenu \/ updateMenuBlind \/ deleteMenu \/ updateWidgetArea
  \/ \E e \in Screens :
       load(e) \/ edit(e) \/ close(e) \/ save(e) \/ updateMenu(e) \/ refuse(e)

Spec == Init /\ [][Next]_vars

----------------------------------------------------------------------------
(* What the site reads.                                                    *)

stored(i) == menu.items[i]

resolves(i) == \/ stored(i).target = Link
               \/ stored(i).target \in public

IsAbove(i, j) ==   \* item i is j or an ancestor of it
  i <= j /\ j <= SubtreeEnd(menu.items, i)

(* resolveMenuRow: an item that does not resolve goes with its subtree.    *)
resolved == {j \in 1..Len(menu.items) :
               \A i \in 1..Len(menu.items) : IsAbove(i, j) => resolves(i)}

getMenu == resolved

rawRow == 1..Len(menu.items)   \* a mutant: embeds the row as it is stored
embedded == resolved
getWidgetArea == IF area THEN embedded ELSE {}

(***************************************************************************)
(* Whatever a visitor is served, from the menu itself or from the sidebar  *)
(* that embeds it, points at a published page, and its place in the tree   *)
(* is the one the editor gave it: no item of a level below moves up in the *)
(* place of a parent that has been unpublished or trashed.                 *)
(***************************************************************************)
MenusShowWhatIsPublished ==
  \A j \in getMenu \union getWidgetArea :
    /\ stored(j).target # Link => stored(j).target \in public
    /\ stored(j).depth > 0 => Parent(menu.items, j) \in getMenu

(***************************************************************************)
(* A save replaces nothing its editor has not seen: whenever a screen's    *)
(* tree is stored, the tree it replaces is the one the screen calls saved, *)
(* whoever wrote to the menu between the load and the save, however many   *)
(* edits were made while an earlier save was under way.                    *)
(***************************************************************************)
SavesReplaceWhatWasSeen ==
  [][\A e \in Screens :
       sent[e] # Nothing /\ sent'[e] = Nothing /\ menu'.version > menu.version
         => Canonical(screen[e].base) = menu.items]_vars

(***************************************************************************)
(* What the comment above the screen's indent says of it: refused at the   *)
(* depth cap the server enforces, so a tree built on the screen is one the *)
(* server takes.  It looks at the item alone, not at the children that     *)
(* move down with it, nor at a list of children left empty.                *)
(***************************************************************************)
ScreensBuildWhatIsAccepted ==
  \A e \in Screens :
    Len(screen[e].items) <= MAX_MENU_ITEMS => normalizeMenuItems(screen[e].items)
=============================================================================
