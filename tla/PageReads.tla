------------------------------ MODULE PageReads ------------------------------
(***************************************************************************)
(* What the read handlers of the CMS hand out, and to whom                 *)
(* (packages/cms/src/index.ts): pages, their revisions, terms and          *)
(* translations, and the files of the library, under cmsPolicies.          *)
(*                                                                         *)
(* A handler reads several tables one after the other.  On the Durable     *)
(* Object nothing comes between; on D1 an editor may publish, take down,   *)
(* trash or purge what the handler has already looked at.  Four callers:   *)
(* a visitor, a site that renders with a deployer's token whose role reads *)
(* drafts, an editor, and the sitemap route, which calls as "admin".       *)
(*                                                                         *)
(* Every page and the file carry one term.                                 *)
(*                                                                         *)
(* Abstracted: a page's content is the number of the edit that made it,    *)
(* and a revision the content it froze; slugs and locales (PageContent);   *)
(* the columns of a projection; paging (Paging); snapshots from before a   *)
(* column existed, which are completed from the row.                       *)
(***************************************************************************)
EXTENDS Integers

CONSTANTS
  Stores,      \* "do", "d1"
  Pages,
  File,        \* the row of cms_media
  MaxEdits     \* bound: edits of one page

VARIABLES
  store,
  page,        \* cms_pages, with the content of the current revision
  file,        \* one row of it
  call,        \* the request being answered, and what it has read
  during,      \* history: what was published, and what was out of the trash,
               \* at some instant of the request
  answer

vars == <<store, page, file, call, during, answer>>

Callers == {"anonymous", "deployer", "editor", "admin"}
viewerRolesOf == {"editor", "admin"}

Gone == [status |-> "gone", trashed |-> TRUE, draft |-> 0, revision |-> 0, group |-> 0]
Silent == [to |-> "nobody", route |-> "none", shown |-> {}]
NoCall == [by |-> "nobody", route |-> "none", id |-> File, step |-> 0, row |-> Gone, content |-> 0]

----------------------------------------------------------------------------
(* cmsPolicies: what a caller's role may read or update of a row.          *)

Stored(row) == row.status # "gone"
notTrashed(row) == Stored(row) /\ ~row.trashed
published(row) == row.status = "published"

readAll(by, row) == Stored(row)    \* a mutant
mayRead(by, row) ==
  /\ notTrashed(row)
  /\ by = "anonymous" => published(row)

(* A revision is read through the state its page has now.                  *)
mayReadRevision(by, row) ==
  /\ Stored(row)
  /\ by = "anonymous" => published(row) /\ notTrashed(row)

updateAll(row) == Stored(row)      \* a mutant
mayUpdate(row) == notTrashed(row)

mayReadFile == file.there /\ ~file.trashed

----------------------------------------------------------------------------
(* History: a pair is a page and a content; content 0 stands for the page. *)

Public(pg) ==
  {<<p, 0>> : p \in {q \in Pages : published(pg[q]) /\ notTrashed(pg[q])}} \union
  {<<p, pg[p].revision>> : p \in {q \in Pages : published(pg[q]) /\ notTrashed(pg[q])}}
Out(pg, f) == {p \in Pages : notTrashed(pg[p])} \union (IF f.there /\ ~f.trashed THEN {File} ELSE {})

Nothing == [public |-> {}, out |-> {}]
At(pg, f) == [public |-> Public(pg), out |-> Out(pg, f)]
Also(a, b) == [public |-> a.public \union b.public, out |-> a.out \union b.out]

Init ==
  /\ store \in Stores
  /\ \E g \in [Pages -> {0, 1}] :
       page = [p \in Pages |-> [Gone EXCEPT !.status = "draft", !.trashed = FALSE, !.draft = 1, !.group = g[p]]]
  /\ file = [there |-> TRUE, trashed |-> FALSE]
  /\ call = NoCall
  /\ during = Nothing
  /\ answer = Silent

----------------------------------------------------------------------------
(* What editors do meanwhile.                                              *)

Between == (store = "d1" \/ call = NoCall) /\ answer = Silent
Becomes(p, row) ==
  /\ page' = [page EXCEPT ![p] = row]
  /\ during' = IF call = NoCall THEN during ELSE Also(during, At(page', file))
  /\ UNCHANGED <<store, file, call, answer>>

updatePage(p) ==
  /\ Between
  /\ mayUpdate(page[p])
  /\ page[p].draft < MaxEdits
  /\ Becomes(p, [page[p] EXCEPT !.draft = @ + 1])

doPublish(p) ==
  /\ Between
  /\ notTrashed(page[p])
  /\ Becomes(p, [page[p] EXCEPT !.status = "published", !.revision = page[p].draft])

unpublishPage(p) ==
  /\ Between
  /\ notTrashed(page[p]) /\ published(page[p])
  /\ Becomes(p, [page[p] EXCEPT !.status = "draft"])

deletePage(p) ==
  /\ Between
  /\ notTrashed(page[p])
  /\ Becomes(p, [page[p] EXCEPT !.trashed = TRUE])

restorePage(p) ==
  /\ Between
  /\ Stored(page[p]) /\ page[p].trashed
  /\ Becomes(p, [page[p] EXCEPT !.trashed = FALSE])

purgePage(p) ==
  /\ Between
  /\ Stored(page[p]) /\ page[p].trashed
  /\ Becomes(p, Gone)

FileBecomes(f) ==
  /\ Between
  /\ file' = f
  /\ during' = IF call = NoCall THEN during ELSE Also(during, At(page, f))
  /\ UNCHANGED <<store, page, call, answer>>

deleteMedia == mayReadFile /\ FileBecomes([file EXCEPT !.trashed = TRUE])
restoreMedia == file.there /\ file.trashed /\ FileBecomes([file EXCEPT !.trashed = FALSE])
purgeMedia == file.there /\ file.trashed /\ FileBecomes([there |-> FALSE, trashed |-> TRUE])

----------------------------------------------------------------------------
(* A request is answered, at its first read or at a later one.             *)

Idle == call = NoCall /\ answer = Silent
Answers(by, route, shown) ==
  /\ answer' = [to |-> by, route |-> route, shown |-> shown]
  /\ call' = NoCall
  /\ during' = IF call = NoCall THEN At(page, file) ELSE during
  /\ UNCHANGED <<store, page, file>>
Asks(by, route, p, row, content) ==
  /\ call' = [by |-> by, route |-> route, id |-> p, step |-> 1, row |-> row, content |-> content]
  /\ during' = At(page, file)
  /\ UNCHANGED <<store, page, file, answer>>
Waits(route, step) == call.route = route /\ call.step = step

(* getPage: published-only is enforced by the handler and by the scope.    *)
anyState(row) == TRUE              \* a mutant
serves(row) == published(row) /\ ~row.trashed

getPage(by, p) ==
  /\ Idle
  /\ IF mayRead(by, page[p]) /\ serves(page[p]) /\ page[p].revision # 0
     THEN Asks(by, "getPage", p, page[p], page[p].revision)
     ELSE Answers(by, "getPage", {})

readsRevision ==
  /\ Waits("getPage", 1)
  /\ IF mayReadRevision(call.by, page[call.id])
     THEN /\ call' = [call EXCEPT !.step = 2]
          /\ UNCHANGED <<store, page, file, during, answer>>
     ELSE Answers(call.by, "getPage", {})

(* siblingTranslations, computed now and never taken from the snapshot.    *)
siblingTranslations(by, p, row) ==
  IF row.group = 0 THEN {}
  ELSE {q \in Pages \ {p} : page[q].group = row.group /\ published(page[q]) /\ mayRead(by, page[q])}

getPageAnswers ==
  /\ Waits("getPage", 2)
  /\ Answers(call.by, "getPage",
       {<<call.id, call.content>>} \union {<<q, 0>> : q \in siblingTranslations(call.by, call.id, call.row)})

(* getPage with preview, and getPagePreview: the live draft, for viewers.  *)
previewsPage(by, p) ==
  /\ Idle
  /\ by \in viewerRolesOf
  /\ IF mayRead(by, page[p])
     THEN Asks(by, "preview", p, page[p], page[p].draft)
     ELSE Answers(by, "preview", {})
assembleLive ==
  /\ Waits("preview", 1)
  /\ Answers(call.by, "preview",
       {<<call.id, call.content>>} \union {<<q, 0>> : q \in siblingTranslations(call.by, call.id, call.row)})

(* listPublishedPages, for anyone and for the sitemap.                     *)
listPublishedPages(by) ==
  /\ Idle
  /\ Answers(by, "list", {<<p, 0>> : p \in {q \in Pages : published(page[q]) /\ mayRead(by, page[q])}})
sitemap == listPublishedPages("admin")

(* listPagesByTerm: the join goes through the page scope.                  *)
listPagesByTerm(by) ==
  /\ Idle
  /\ Answers(by, "byTerm",
       {<<p, 0>> : p \in {q \in Pages : serves(page[q]) /\ mayRead(by, page[q])}})

(* listPageTerms, listMediaTerms: the row is read first, through the       *)
(* caller's scope; terms and assignments are open to everybody.            *)
listPageTerms(by, p) ==
  /\ Idle
  /\ IF mayRead(by, page[p])
     THEN Asks(by, "terms", p, page[p], 0)
     ELSE Answers(by, "terms", {})
pageTermsAnswer ==
  /\ Waits("terms", 1)
  /\ Answers(call.by, "terms", IF Stored(page[call.id]) THEN {<<call.id, 0>>} ELSE {})

listMediaTerms(by) ==
  /\ Idle
  /\ by \in viewerRolesOf
  /\ IF mayReadFile
     THEN Asks(by, "fileTerms", File, Gone, 0)
     ELSE Answers(by, "fileTerms", {})
mediaTermsAnswer ==
  /\ Waits("fileTerms", 1)
  /\ Answers(call.by, "fileTerms", IF file.there THEN {<<File, 0>>} ELSE {})

(* signMediaDownload: minted from the row that was read.                   *)
signMediaDownload(by) ==
  /\ Idle
  /\ by \in viewerRolesOf
  /\ Answers(by, "download", IF mayReadFile THEN {<<File, 0>>} ELSE {})

(* listPages, getPageById: whole rows, for viewers.                        *)
listPages(by) ==
  /\ Idle
  /\ by \in viewerRolesOf
  /\ Answers(by, "rows", {<<p, page[p].draft>> : p \in {q \in Pages : mayRead(by, page[q])}})
getPageById(by, p) ==
  /\ Idle
  /\ by \in viewerRolesOf
  /\ Answers(by, "row", IF mayRead(by, page[p]) THEN {<<p, page[p].draft>>} ELSE {})

(* listTranslations: a page from before groups is alone in its own.        *)
listTranslations(by, p) ==
  /\ Idle
  /\ by \in viewerRolesOf
  /\ IF ~mayRead(by, page[p]) THEN Answers(by, "translations", {})
     ELSE IF page[p].group = 0 THEN Answers(by, "translations", {<<p, 0>>})
     ELSE Asks(by, "translations", p, page[p], 0)
translationsAnswer ==
  /\ Waits("translations", 1)
  /\ Answers(call.by, "translations",
       {<<q, 0>> : q \in {r \in Pages : page[r].group = call.row.group /\ mayRead(call.by, page[r])}})

(* updatePageSeo reads the row for its version, patches it, and answers    *)
(* with what it wrote; a version that has moved on changes nothing.        *)
updatePageSeo(p) ==
  /\ Idle
  /\ page[p].draft < MaxEdits
  /\ mayRead("editor", page[p]) /\ mayUpdate(page[p])
  /\ page' = [page EXCEPT ![p].draft = @ + 1]
  /\ answer' = [to |-> "editor", route |-> "echo", shown |-> {<<p, 0>>}]
  /\ during' = At(page, file)
  /\ UNCHANGED <<store, file, call>>

replied ==
  /\ answer # Silent
  /\ answer' = Silent
  /\ during' = Nothing
  /\ UNCHANGED <<store, page, file, call>>

Next ==
  \/ \E p \in Pages :
       \/ updatePage(p) \/ doPublish(p) \/ unpublishPage(p)
       \/ deletePage(p) \/ restorePage(p) \/ purgePage(p) \/ updatePageSeo(p)
       \/ \E by \in Callers :
            \/ getPage(by, p) \/ previewsPage(by, p) \/ listPageTerms(by, p)
            \/ getPageById(by, p) \/ listTranslations(by, p)
  \/ \E by \in Callers :
       \/ listPublishedPages(by) \/ listPagesByTerm(by) \/ listPages(by)
       \/ listMediaTerms(by) \/ signMediaDownload(by)
  \/ sitemap \/ readsRevision \/ getPageAnswers \/ assembleLive
  \/ pageTermsAnswer \/ mediaTermsAnswer \/ translationsAnswer
  \/ deleteMedia \/ restoreMedia \/ purgeMedia
  \/ replied

Spec == Init /\ [][Next]_vars

----------------------------------------------------------------------------
(* A public read never hands out a page that was not published while it    *)
(* ran, nor a content that was not the published one, whoever renders with *)
(* it; and a visitor learns of no other page through any handler.          *)
PublicRoutes == {"getPage", "list", "byTerm"}
PublicIsPublished ==
  answer.route \in PublicRoutes \/ answer.to = "anonymous" => answer.shown \subseteq during.public

(* Nobody is shown, by a read or by the echo of a write, a page or a file  *)
(* that was in the trash or purged all through the request.                *)
TrashStaysHidden == \A s \in answer.shown : s[1] \in during.out
=============================================================================
