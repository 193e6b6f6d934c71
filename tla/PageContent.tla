---------------------------- MODULE PageContent ----------------------------
(***************************************************************************)
(* The own record of a CMS page (packages/cms/src/index.ts): slug, locale, *)
(* translation group, the columns editors write, the version that guards a *)
(* save, and the trash as far as it holds a slug.                          *)
(*                                                                         *)
(* A handler is a mutation and atomic, as on the Durable Object store; on  *)
(* D1 the reads of a handler and its write are apart, which the code names *)
(* as a caveat of nextVersion.  The composite index of the store is left   *)
(* out: the handlers' own checks have to be enough.                        *)
(***************************************************************************)
EXTENDS Integers

CONSTANTS
  Ids,         \* row ids, each used once
  Editors,
  Slugs,
  Locales,
  Reserved,    \* slugs the front end serves itself
  MaxVersion   \* bound: saves of one page

PageContentAssumption == 0 \notin Ids /\ MaxVersion \in Nat

VARIABLES
  page,     \* cms_pages
  form,     \* what each editor's form was last loaded from
  origin    \* history: the page a translation was made of, itself included

vars == <<page, form, origin>>

None == 0
Unborn == [state |-> "unborn", slug |-> None, locale |-> None, group |-> None,
           version |-> 0, columns |-> 0]
Born(slug, locale, group) ==
  [state |-> "live", slug |-> slug, locale |-> locale, group |-> group,
   version |-> 1, columns |-> 0]
NoForm == [page |-> None, version |-> 0, seen |-> << >>]

Stored(p) == page[p].state \in {"live", "trashed"}
Visible(p) == page[p].state = "live"
Own(kept) == <<kept.slug, kept.locale, kept.columns>>

(* assertSlugFree reads past the read scope: the trash keeps its slugs.    *)
slugFreeInView(slug, locale, except) ==   \* a mutant
  \A q \in Ids \ except :
    Visible(q) => <<page[q].slug, page[q].locale>> # <<slug, locale>>
slugFree(slug, locale, except) ==
  \A q \in Ids \ except :
    Stored(q) => <<page[q].slug, page[q].locale>> # <<slug, locale>>

(* assertSlugAllowed: only where a slug is being chosen.                   *)
slugAllowed(slug) == slug \notin Reserved

(* nextVersion: a guarded save names the version it read.                  *)
keptVersion(kept, expected) == {kept.version}         \* a mutant
nextVersion(kept, expected) ==
  IF expected \in {None, kept.version} THEN {kept.version + 1} ELSE {}

----------------------------------------------------------------------------

Init ==
  /\ \E legacy \in Ids, slug \in Slugs, locale \in Locales :
       page = [p \in Ids |-> IF p = legacy THEN Born(slug, locale, None) ELSE Unborn]
  /\ form = [e \in Editors |-> NoForm]
  /\ origin = [p \in Ids |-> p]

(* createPage: its own translation group.                                  *)
createPage(p) ==
  /\ page[p].state = "unborn"
  /\ \E slug \in Slugs, locale \in Locales :
       /\ slugAllowed(slug)
       /\ slugFree(slug, locale, {})
       /\ page' = [page EXCEPT ![p] = Born(slug, locale, p)]
  /\ UNCHANGED <<form, origin>>

(* createTranslation: a page from before the column has no group, and is   *)
(* given its own before anything is matched by it.                         *)
groupAsIs(src) == page[src].group   \* a mutant
groupOf(src) == IF page[src].group = None THEN src ELSE page[src].group

translatedInView(group, locale) ==   \* a mutant
  \E q \in Ids : Visible(q) /\ page[q].group = group /\ page[q].locale = locale
translated(group, locale) ==
  \E q \in Ids : Stored(q) /\ page[q].group = group /\ page[q].locale = locale

createTranslation(src, p) ==
  /\ Visible(src)
  /\ page[p].state = "unborn"
  /\ \E locale \in Locales \ {page[src].locale}, slug \in Slugs :
       /\ ~translated(groupOf(src), locale)
       /\ slugAllowed(slug)
       /\ slugFree(slug, locale, {})
       /\ page' = [page EXCEPT ![src].group = groupOf(src),
                                ![p] = Born(slug, locale, groupOf(src))]
  /\ origin' = [origin EXCEPT ![p] = origin[src]]
  /\ UNCHANGED form

(* getPageForEdit: the form shows a row and remembers its version.         *)
open(e, p) ==
  /\ Visible(p)
  /\ form' = [form EXCEPT ![e] =
       [page |-> p, version |-> page[p].version, seen |-> Own(page[p])]]
  /\ UNCHANGED <<page, origin>>

(* The form that saved keeps what it is answered; a save made elsewhere    *)
(* leaves it as it is.                                                     *)
Save(e, p, written) ==
  /\ page' = [page EXCEPT ![p] = written]
  /\ form' \in {form, [form EXCEPT ![e] =
       [page |-> p, version |-> written.version, seen |-> Own(written)]]}
  /\ UNCHANGED origin

(* updatePage: any of slug, locale, title and fields.                      *)
updatePage(e, p) ==
  /\ form[e].page = p
  /\ Visible(p)
  /\ page[p].version < MaxVersion
  /\ \E expected \in {None, form[e].version} :
     \E version \in nextVersion(page[p], expected),
        slug \in Slugs, locale \in Locales, columns \in 0..1 :
       /\ \/ <<slug, locale>> = <<page[p].slug, page[p].locale>>
          \/ slugAllowed(slug) /\ slugFree(slug, locale, {p})
       /\ Save(e, p, [page[p] EXCEPT !.version = version, !.slug = slug,
                                     !.locale = locale, !.columns = columns])

(* updatePageSeo: other columns of the same row, the same version.         *)
updatePageSeoUnversioned(e, p) ==   \* a mutant
  /\ form[e].page = p
  /\ Visible(p)
  /\ \E columns \in 0..1 : Save(e, p, [page[p] EXCEPT !.columns = columns])
updatePageSeo(e, p) ==
  /\ form[e].page = p
  /\ Visible(p)
  /\ page[p].version < MaxVersion
  /\ \E expected \in {None, form[e].version} :
     \E version \in nextVersion(page[p], expected), columns \in 0..1 :
       Save(e, p, [page[p] EXCEPT !.version = version, !.columns = columns])

deletePage(p) ==
  /\ Visible(p)
  /\ page' = [page EXCEPT ![p].state = "trashed"]
  /\ UNCHANGED <<form, origin>>

restorePage(p) ==
  /\ page[p].state = "trashed"
  /\ slugFree(page[p].slug, page[p].locale, {p})
  /\ page' = [page EXCEPT ![p].state = "live"]
  /\ UNCHANGED <<form, origin>>

purgePage(p) ==
  /\ page[p].state = "trashed"
  /\ page' = [page EXCEPT ![p] = [Unborn EXCEPT !.state = "purged"]]
  /\ UNCHANGED <<form, origin>>

Next ==
  \/ \E p \in Ids :
       \/ createPage(p) \/ deletePage(p) \/ restorePage(p) \/ purgePage(p)
       \/ \E src \in Ids : createTranslation(src, p)
       \/ \E e \in Editors : open(e, p) \/ updatePage(e, p) \/ updatePageSeo(e, p)

Spec == Init /\ [][Next]_vars

----------------------------------------------------------------------------

(* One row for a slug and a locale, the trash included: an address never   *)
(* means two pages, and what was trashed can always be restored.           *)
SlugNamesOnePage ==
  \A p, q \in Ids :
    /\ Stored(p)
    /\ Stored(q)
    /\ <<page[p].slug, page[p].locale>> = <<page[q].slug, page[q].locale>>
    => p = q

(* A version names what the columns held: whoever saves against a version  *)
(* that still stands overwrites nothing that was not on the form.          *)
VersionNamesContent ==
  \A e \in Editors :
    LET p == form[e].page IN
    p # None /\ Stored(p) /\ page[p].version = form[e].version
      => Own(page[p]) = form[e].seen

(* listTranslations: the translations of a page, made one from another,    *)
(* are found by its group, and no other page is.                           *)
GroupIsTheTranslations ==
  \A p, q \in Ids : p # q /\ Stored(p) /\ Stored(q) =>
    (origin[p] = origin[q] <=> page[p].group # None /\ page[p].group = page[q].group)

(* The comment on createTranslation: no two live pages of one locale in a  *)
(* group, or every sibling carries two hreflang links for it.              *)
OneLocalePerGroup ==
  \A p, q \in Ids :
    /\ Visible(p)
    /\ Visible(q)
    /\ page[p].group # None
    /\ page[p].group = page[q].group
    /\ page[p].locale = page[q].locale
    => p = q

============================================================================
