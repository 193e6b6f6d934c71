----------------------------- MODULE PageScreen -----------------------------
(***************************************************************************)
(* The page editor as a screen (packages/cms-editor/src/routes/page.tsx    *)
(* and src/components.tsx): the route that loads a page by the id in the   *)
(* address bar, and the forms it keeps mounted: the page's fields, which   *)
(* save themselves, and the inspector's settings, SEO and terms, which are *)
(* saved by a button.  One editor is at work; another one is PageCanvas's  *)
(* subject.                                                                *)
(*                                                                         *)
(* A content is the page it was read from and the number of its last edit: *)
(* what matters is whose content a form holds when it writes.  A read is   *)
(* made and answered in one step, and one that fails changes nothing, like *)
(* one that is not answered; a write reaches the server in one step and    *)
(* the screen in another.                                                  *)
(***************************************************************************)
EXTENDS Integers

CONSTANTS
  Pages,
  None,
  MaxInputs   \* bound: pages gone to, keystrokes in the fields form, saves, actions

VARIABLES
  store,      \* the server: the content of every form of every page
  url,        \* params.pageId, None outside of the editor
  getting,    \* getPageById is under way and its effect is live
  page,       \* the row on screen, None before the first
  reloads,    \* the pages of the reloads under way; nothing drops a late one
  assembled,  \* the fields of the preview last loaded, None before the first
  form,       \* PageFields: what it shows, its baseline, whom it was seeded for
  tab,        \* the inspector panel that is mounted
  panel,      \* the content the mounted panel holds
  terms,      \* PageTerms: how far its load is, and whether it shows its button
  calls,      \* the writes under way
  inputs,     \* bound
  crossed     \* history: a screen was moved from one page to another

vars == <<store, url, getting, page, reloads, assembled, form, tab, panel,
          terms, calls, inputs, crossed>>

Forms == {"fields", "settings", "seo", "terms"}
Tabs == {"settings", "seo", "terms"}
Content(p, n) == [of |-> p, n |-> n]
Contents == [of : Pages \cup {None}, n : Nat]
Rows == [id : Pages, settings : Contents, seo : Contents]

PageScreenAssumption == None \notin Rows
Nothing == Content(None, 0)
Unmounted == [on |-> FALSE, shows |-> Nothing, saved |-> Nothing, seededFor |-> None]
Idle == [load |-> "none", taxa |-> FALSE]

dirty == form.on /\ form.shows # form.saved

----------------------------------------------------------------------------

Init ==
  /\ store = [p \in Pages |-> [f \in Forms |-> Content(p, 0)]]
  /\ url = None /\ getting = FALSE /\ page = None
  /\ reloads = {} /\ assembled = None
  /\ form = Unmounted
  /\ tab = "settings" /\ panel = Nothing /\ terms = Idle
  /\ calls = {} /\ inputs = 0 /\ crossed = FALSE

(* The row a read of page p hands out: its id, its settings and its SEO.   *)
Row(p) == [id |-> p, settings |-> store[p]["settings"], seo |-> store[p]["seo"]]

(* What a panel holds when it mounts; PageTerms' selection starts empty.   *)
Mounted(t, row) == IF t = "terms" THEN Nothing ELSE row[t]

(* PageMeta seeds itself again when the page changes, SeoPanel does not,   *)
(* PageTerms keeps its selection until the new one is loaded.              *)
keptOnSwitch(t, row) == panel   \* a mutant
seededAgain(t, row) == IF t = "settings" THEN row.settings ELSE panel

(* PageFields seeds itself again for another page, with the fields of the  *)
(* preview on screen, whichever page that is of.                           *)
seeded(p) ==
  IF form.on /\ form.seededFor # p
  THEN [form EXCEPT !.seededFor = p, !.shows = assembled, !.saved = assembled]
  ELSE form

(* setPage: the screen mounts, or its panels and effects follow the page.  *)
show(row) ==
  /\ page' = row
  /\ IF page = None
     THEN /\ panel' = Mounted(tab, row)
          /\ terms' = IF tab = "terms" THEN [Idle EXCEPT !.load = "taxa"] ELSE Idle
          /\ reloads' = reloads \cup {row.id}
          /\ UNCHANGED <<form, crossed>>
     ELSE IF page.id # row.id
     THEN /\ panel' = seededAgain(tab, row)
          /\ terms' = IF tab = "terms" THEN [terms EXCEPT !.load = "taxa"] ELSE terms
          /\ reloads' = reloads \cup {row.id}
          /\ form' = seeded(row.id)
          /\ crossed' = TRUE
     ELSE /\ panel' = IF tab = "settings" /\ page.settings # row.settings
                      THEN row.settings ELSE panel
          /\ UNCHANGED <<terms, reloads, form, crossed>>

----------------------------------------------------------------------------
(* The address bar                                                         *)

open(p) ==
  /\ url = None
  /\ inputs < MaxInputs
  /\ inputs' = inputs + 1
  /\ url' = p /\ getting' = TRUE
  /\ UNCHANGED <<store, page, reloads, assembled, form, tab, panel, terms, calls, crossed>>

(* Back and forward move between pages without unmounting the screen, and  *)
(* without asking its guard.                                               *)
traverse(p) ==
  /\ url \notin {None, p}
  /\ inputs < MaxInputs
  /\ inputs' = inputs + 1
  /\ url' = p /\ getting' = TRUE
  /\ UNCHANGED <<store, page, reloads, assembled, form, tab, panel, terms, calls,
                 crossed>>

(* Out of the editor: nobody hears what is still under way.                *)
leave ==
  /\ url # None
  /\ url' = None /\ getting' = FALSE /\ page' = None
  /\ reloads' = {} /\ assembled' = None
  /\ form' = Unmounted
  /\ panel' = Nothing /\ terms' = Idle
  /\ calls' = {[c EXCEPT !.heard = FALSE] : c \in {d \in calls : ~d.done}}
  /\ tab' = "settings"
  /\ UNCHANGED <<store, inputs, crossed>>

getPageById ==
  /\ getting
  /\ getting' = FALSE
  /\ show(Row(url))
  /\ UNCHANGED <<store, url, assembled, tab, calls, inputs>>

----------------------------------------------------------------------------
(* The canvas                                                              *)

(* The content type and the preview arrive together, so the form mounts    *)
(* with fields that were read.                                             *)
seedsEmpty(p) == [on |-> TRUE, shows |-> Nothing, saved |-> Nothing, seededFor |-> p]   \* a mutant
seeds(p) == [on |-> TRUE, shows |-> store[p]["fields"], saved |-> store[p]["fields"],
             seededFor |-> page.id]

reload(p) ==
  /\ p \in reloads
  /\ reloads' = reloads \ {p}
  /\ assembled' = store[p]["fields"]
  /\ form' = IF form.on THEN form ELSE seeds(p)
  /\ UNCHANGED <<store, url, getting, page, tab, panel, terms, calls, inputs, crossed>>

type ==
  /\ form.on
  /\ inputs < MaxInputs
  /\ inputs' = inputs + 1
  /\ form' = [form EXCEPT !.shows.n = inputs + 1]
  /\ UNCHANGED <<store, url, getting, page, reloads, assembled, tab, panel, terms, calls, crossed>>

call(kind, value) ==
  /\ page # None
  /\ inputs < MaxInputs
  /\ inputs' = inputs + 1
  /\ calls' = calls \cup
       {[kind |-> kind, on |-> page.id, value |-> value, done |-> FALSE, heard |-> TRUE]}
  /\ UNCHANGED <<store, url, getting, page, reloads, assembled, form, tab, terms, crossed>>

autosave == dirty /\ call("fields", form.shows) /\ UNCHANGED panel

----------------------------------------------------------------------------
(* The inspector                                                           *)

onTab(t) ==
  /\ page # None /\ t # tab
  /\ tab' = t
  /\ panel' = Mounted(t, page)
  /\ terms' = IF t = "terms" THEN [Idle EXCEPT !.load = "taxa"] ELSE Idle
  /\ UNCHANGED <<store, url, getting, page, reloads, assembled, form, calls, inputs, crossed>>

(* PageTerms: the vocabularies are there before the page's own terms are,  *)
(* and with them the checkboxes and the button.                            *)
listTaxonomies ==
  /\ terms.load = "taxa"
  /\ terms' = [load |-> "assigned", taxa |-> TRUE]
  /\ UNCHANGED <<store, url, getting, page, reloads, assembled, form, tab, panel, calls,
                 inputs, crossed>>

listPageTerms ==
  /\ terms.load = "assigned"
  /\ terms' = [terms EXCEPT !.load = "none"]
  /\ panel' = store[page.id]["terms"]
  /\ UNCHANGED <<store, url, getting, page, reloads, assembled, form, tab, calls, inputs, crossed>>

saveSettings == tab = "settings" /\ call("settings", panel) /\ UNCHANGED panel
saveTerms == tab = "terms" /\ terms.taxa /\ call("terms", panel) /\ UNCHANGED panel

(* SeoPanel sends all it holds, one of them edited.                        *)
saveSeo ==
  /\ tab = "seo"
  /\ panel' = [panel EXCEPT !.n = inputs + 1]
  /\ call("seo", panel')

(* A workflow action, whose answer carries the page.                       *)
act == call("act", Nothing) /\ UNCHANGED panel

----------------------------------------------------------------------------
(* The writes                                                              *)

serve(c) ==
  /\ ~c.done
  /\ store' = IF c.kind = "act" THEN store ELSE [store EXCEPT ![c.on][c.kind] = c.value]
  /\ calls' = (calls \ {c}) \cup (IF c.heard THEN {[c EXCEPT !.done = TRUE]} ELSE {})
  /\ UNCHANGED <<url, getting, page, reloads, assembled, form, tab, panel, terms, inputs, crossed>>

fail(c) ==
  /\ ~c.done
  /\ calls' = calls \ {c}
  /\ UNCHANGED <<store, url, getting, page, reloads, assembled, form, tab, panel, terms,
                 inputs, crossed>>

(* updatePage of the settings and the actions hand back the row, which the *)
(* screen shows whatever page it has moved to.                             *)
answered(c) ==
  /\ c.done
  /\ calls' = calls \ {c}
  /\ IF c.kind \in {"settings", "act"}
     THEN show(Row(c.on))
     ELSE /\ form' = IF c.kind = "fields" THEN [form EXCEPT !.saved = c.value] ELSE form
          /\ UNCHANGED <<page, panel, terms, reloads, crossed>>
  /\ UNCHANGED <<store, url, getting, assembled, tab, inputs>>

Next ==
  \/ \E p \in Pages : open(p) \/ traverse(p) \/ reload(p)
  \/ leave \/ getPageById
  \/ type \/ autosave \/ saveSettings \/ saveTerms \/ saveSeo \/ act
  \/ \E t \in Tabs : onTab(t)
  \/ listTaxonomies \/ listPageTerms
  \/ \E c \in calls : serve(c) \/ fail(c) \/ answered(c)

Spec == Init /\ [][Next]_vars

----------------------------------------------------------------------------

(***************************************************************************)
(* A page's title, slug and locale are never replaced by another page's,   *)
(* wherever history takes the screen while a save is under way, and until  *)
(* a screen is moved from one page to another neither are its fields and   *)
(* its SEO, nor by the empty form a screen starts as.  (The terms are not  *)
(* in it: their button is there before they are.)                          *)
(***************************************************************************)
FormsStayOnTheirPage ==
  \A p \in Pages :
    /\ store[p]["settings"].of = p
    /\ ~crossed => store[p]["fields"].of = p /\ store[p]["seo"].of = p

(***************************************************************************)
(* What the comment in PageFields says of its own seeding: the form is     *)
(* seeded again when the editor switches to a different page.  It is       *)
(* seeded from the preview that is on screen at that moment, which is the  *)
(* previous page's, and never again: the next keystroke saves the one      *)
(* page's fields onto the other.                                           *)
(***************************************************************************)
FieldsStayOnTheirPage == \A p \in Pages : store[p]["fields"].of = p

(***************************************************************************)
(* A save of the SEO panel takes nothing back that an earlier one of the   *)
(* same editor stored.  The answer does not reach the route's row, from    *)
(* which the panel starts again when its tab is opened the next time.      *)
(***************************************************************************)
SeoBuildsOnWhatIsStored == [][saveSeo => panel.n >= store[page.id]["seo"].n]_vars
=============================================================================
