----------------------------- MODULE CmsProofs -----------------------------
(***************************************************************************)
(* Machine-checked facts about the CMS, for every value of the constants:  *)
(* the editorial workflow of pages, the rows of collections, the identity  *)
(* of pages and their translations, and blocks with their placements.      *)
(***************************************************************************)
EXTENDS MCCms, FiniteSetTheorems, WellFoundedInduction, TLAPS

(* What the public sees is what the pointer names, and the pointer names a *)
(* revision of this page that no reschedule drops; the revision a standing *)
(* schedule waits for holds what the reviewer planned.                     *)
PointerInv(p) ==
  page[p].current # None =>
    /\ page[p].current \in DOMAIN revs
    /\ revs[page[p].current].page = p
    /\ revs[page[p].current].status = "published"

LicenceInv(p) ==
  page[p].status = "published" =>
    /\ page[p].current # None
    /\ revs[page[p].current].content = licence[p]
    /\ licence[p] \in Complete

ScheduleInv(p) ==
  page[p].scheduledAt # None =>
    /\ plan[p].at = page[p].scheduledAt
    /\ plan[p].content \in Complete
    /\ \A r \in DOMAIN revs :
         revs[r].page = p /\ revs[r].status = "scheduled" => revs[r].content = plan[p].content

TakedownInv(p) ==
  plan[p].down # None =>
    /\ Stored(p)
    /\ ~plan[p].taken =>
         /\ page[p].unpublishAt = plan[p].down
         /\ \E t \in tasks : t.kind = "unpublish" /\ t.page = p /\ t.token = plan[p].down

TaskInv(t) ==
  t.kind = "publish" =>
    /\ t.rev \in DOMAIN revs
    /\ revs[t.rev].status = "gone" \/ revs[t.rev].page = t.page

PagesInv ==
  /\ TypeOK
  /\ \A p \in Pages : PointerInv(p) /\ LicenceInv(p) /\ ScheduleInv(p) /\ TakedownInv(p)
  /\ \A t \in tasks : TaskInv(t)

-----------------------------------------------------------------------------
(* Sequences of revisions: one is appended, or each is replaced in place.  *)
LEMMA AppendRev ==
  ASSUME revs \in Seq(Revision), NEW rev \in Revision
  PROVE  /\ Append(revs, rev) \in Seq(Revision)
         /\ Len(Append(revs, rev)) = Len(revs) + 1
         /\ DOMAIN revs = 1..Len(revs) /\ Len(revs) \in Nat
         /\ DOMAIN Append(revs, rev) = 1..(Len(revs) + 1)
         /\ Append(revs, rev)[Len(revs) + 1] = rev
         /\ \A r \in DOMAIN revs : Append(revs, rev)[r] = revs[r]
  OBVIOUS

LEMMA ReplaceRevs ==
  ASSUME revs \in Seq(Revision), NEW new, DOMAIN new = DOMAIN revs,
         new = [r \in DOMAIN revs |-> new[r]],
         \A r \in DOMAIN revs : new[r] \in Revision
  PROVE  new \in Seq(Revision) /\ Len(new) = Len(revs)
<1>1. DOMAIN revs = 1..Len(revs) /\ Len(revs) \in Nat
  OBVIOUS
<1>2. new \in [1..Len(revs) -> Revision]
  BY <1>1
<1>3. QED
  BY <1>1, <1>2

LEMMA Nulls ==
  /\ None \notin Times /\ None \notin Contents /\ None \notin Complete
  /\ None \notin 1..MaxRevs /\ NoPlan \in Plan
  /\ GoneRev \in Revision /\ [Unborn EXCEPT !.status = "purged"] \in Row
<1>1. None \notin Times /\ None \notin Contents /\ None \notin Complete /\ None \notin 1..MaxRevs
  BY PageWorkflowAssumption DEF None, Times
<1>2. NoPlan \in Plan
  BY DEF NoPlan, Plan
<1>3. GoneRev \in Revision
  BY DEF GoneRev, Revision
<1>4. [Unborn EXCEPT !.status = "purged"] \in Row
  BY DEF Unborn, Row, Status
<1>5. QED
  BY <1>1, <1>2, <1>3, <1>4

-----------------------------------------------------------------------------
(* The pages a step does not touch: it is enough that their row, licence   *)
(* and plan stay, that their published and scheduled revisions stay what   *)
(* they are, and that no unpublish task that is waited for is lost.        *)
PageInv(p) == PointerInv(p) /\ LicenceInv(p) /\ ScheduleInv(p) /\ TakedownInv(p)

LEMMA PageKept ==
  ASSUME TypeOK, NEW p \in Pages, PageInv(p),
         page'[p] = page[p], licence'[p] = licence[p], plan'[p] = plan[p],
         DOMAIN revs \subseteq DOMAIN revs',
         \A r \in DOMAIN revs : revs[r].page = p /\ revs[r].status = "published" =>
                                  revs'[r] = revs[r],
         \A r \in DOMAIN revs' : revs'[r].page = p /\ revs'[r].status = "scheduled" =>
                                  r \in DOMAIN revs /\ revs'[r] = revs[r],
         \A t \in tasks : t.kind = "unpublish" /\ t.page = p => t \in tasks'
  PROVE  PageInv(p)'
<1>1. PointerInv(p)'
  BY DEF PageInv, PointerInv
<1>2. LicenceInv(p)'
  BY DEF PageInv, PointerInv, LicenceInv
<1>3. ScheduleInv(p)'
  BY DEF PageInv, ScheduleInv
<1>4. TakedownInv(p)'
  BY DEF PageInv, TakedownInv, Stored
<1>5. QED
  BY <1>1, <1>2, <1>3, <1>4 DEF PageInv

(* A step that rewrites the row of one page and leaves the revisions and   *)
(* the tasks alone.                                                        *)
LEMMA RowStep ==
  ASSUME PagesInv, NEW p \in Pages, NEW rec \in Row, Set(p, rec),
         UNCHANGED <<now, revs, tasks>>,
         licence' \in [Pages -> Contents \cup {None}], plan' \in [Pages -> Plan],
         \A q \in Pages \ {p} : licence'[q] = licence[q] /\ plan'[q] = plan[q],
         PageInv(p)'
  PROVE  PagesInv'
<1>0. TypeOK /\ page' = [page EXCEPT ![p] = rec]
  BY DEF PagesInv, Set
<1>1. TypeOK'
  BY <1>0 DEF TypeOK
<1>2. ASSUME NEW q \in Pages \ {p} PROVE PageInv(q)'
  <2>1. page'[q] = page[q] /\ PageInv(q)
    BY <1>0 DEF TypeOK, PagesInv, PageInv
  <2>2. QED
    BY <1>0, <2>1, PageKept
<1>3. \A t \in tasks' : TaskInv(t)'
  BY DEF PagesInv, TaskInv
<1>4. QED
  BY <1>1, <1>2, <1>3 DEF PagesInv, PageInv

LEMMA RowFields ==
  ASSUME PagesInv, NEW p \in Pages
  PROVE  page[p] \in Row /\ PageInv(p) /\ page \in [Pages -> Row]
         /\ licence \in [Pages -> Contents \cup {None}] /\ plan \in [Pages -> Plan]
  BY DEF PagesInv, TypeOK, PageInv

(* An editor's step: the schedule, the pointer and the plan stay, and the  *)
(* page is published only if it was.                                       *)
LEMMA EditorStep ==
  ASSUME PagesInv, NEW p \in Pages, NEW rec \in Row, Set(p, rec),
         UNCHANGED <<now, revs, tasks, licence, plan, plans>>,
         rec.current = page[p].current, rec.scheduledAt = page[p].scheduledAt,
         rec.unpublishAt = page[p].unpublishAt, rec.status \in Status,
         rec.status = "published" => page[p].status = "published"
  PROVE  PagesInv'
<1>1. page'[p] = rec
  BY RowFields DEF Set
<1>2. PointerInv(p)' /\ LicenceInv(p)' /\ ScheduleInv(p)'
  BY <1>1, RowFields DEF PageInv, PointerInv, LicenceInv, ScheduleInv
<1>3. TakedownInv(p)'
  BY <1>1, RowFields DEF PageInv, TakedownInv, Stored
<1>4. QED
  BY <1>2, <1>3, RowStep, RowFields DEF PageInv

LEMMA EditorsKeep ==
  ASSUME PagesInv, NEW p \in Pages,
         createPage(p) \/ edit(p) \/ submitForReview(p) \/ reject(p) \/ deletePage(p)
  PROVE  PagesInv'
<1>0. page[p] \in Row
  BY RowFields
<1>1. CASE createPage(p)
  <2>1. PICK content \in Contents : Set(p, [page[p] EXCEPT !.status = "draft", !.content = content])
    BY <1>1 DEF createPage
  <2> DEFINE rec == [page[p] EXCEPT !.status = "draft", !.content = content]
  <2>2. /\ rec \in Row /\ rec.current = page[p].current /\ rec.scheduledAt = page[p].scheduledAt
        /\ rec.unpublishAt = page[p].unpublishAt /\ rec.status = "draft"
    BY <1>0 DEF Row, Status
  <2>3. Set(p, rec)
    BY <2>1
  <2> HIDE DEF rec
  <2>4. QED
    BY <1>1, <2>2, <2>3, EditorStep DEF createPage, Status
<1>2. CASE edit(p)
  <2>1. PICK content \in Contents : Set(p, [page[p] EXCEPT !.content = content])
    BY <1>2 DEF edit
  <2> DEFINE rec == [page[p] EXCEPT !.content = content]
  <2>2. /\ rec \in Row /\ rec.current = page[p].current /\ rec.scheduledAt = page[p].scheduledAt
        /\ rec.unpublishAt = page[p].unpublishAt /\ rec.status = page[p].status
    BY <1>0 DEF Row
  <2>3. Set(p, rec) /\ page[p].status \in Status
    BY <1>2, <2>1 DEF edit, Visible, Stored
  <2> HIDE DEF rec
  <2>4. QED
    BY <1>2, <2>2, <2>3, EditorStep DEF edit
<1>3. ASSUME NEW status \in {"review", "rejected"},
             Set(p, [page[p] EXCEPT !.status = status]),
             UNCHANGED <<now, revs, tasks, licence, plan, plans>>
      PROVE  PagesInv'
  <2> DEFINE rec == [page[p] EXCEPT !.status = status]
  <2>1. /\ rec \in Row /\ rec.current = page[p].current /\ rec.scheduledAt = page[p].scheduledAt
        /\ rec.unpublishAt = page[p].unpublishAt /\ rec.status = status
    BY <1>0 DEF Row, Status
  <2>2. Set(p, rec)
    BY <1>3
  <2> HIDE DEF rec
  <2>3. QED
    BY <1>3, <2>1, <2>2, EditorStep DEF Status
<1>4. CASE deletePage(p)
  <2>1. /\ trashed(p) \in Row /\ trashed(p).current = page[p].current
        /\ trashed(p).scheduledAt = page[p].scheduledAt
        /\ trashed(p).unpublishAt = page[p].unpublishAt /\ trashed(p).status = page[p].status
    BY <1>0 DEF trashed, Row
  <2>2. Set(p, trashed(p)) /\ page[p].status \in Status
    BY <1>4 DEF deletePage, Visible, Stored
  <2>3. QED
    BY <1>4, <2>1, <2>2, EditorStep DEF deletePage
<1>5. QED
  BY <1>1, <1>2, <1>3, <1>4 DEF submitForReview, reject

(* Taking a page down cancels its schedule with it.                        *)
LEMMA TakeDownKeeps ==
  ASSUME PagesInv, NEW p \in Pages, NEW status \in {"draft", "archived"}, takeDown(p, status)
  PROVE  PagesInv'
<1> DEFINE rec == takenDown(p, status)
<1>0. page[p] \in Row
  BY RowFields
<1>1. /\ rec \in Row /\ rec.current = page[p].current /\ rec.scheduledAt = None
      /\ rec.status = status
  BY <1>0 DEF takenDown, Row, Status
<1>2. Set(p, rec) /\ UNCHANGED <<now, revs, tasks>>
  BY DEF takeDown
<1> HIDE DEF rec
<1>3. page'[p] = rec
  BY <1>2, RowFields DEF Set
<1>4. /\ licence' \in [Pages -> Contents \cup {None}] /\ plan' \in [Pages -> Plan]
      /\ plan'[p] = NoPlan
      /\ \A q \in Pages \ {p} : licence'[q] = licence[q] /\ plan'[q] = plan[q]
  BY RowFields, Nulls DEF takeDown
<1>5. PageInv(p)'
  BY <1>1, <1>2, <1>3, <1>4, RowFields
     DEF PageInv, PointerInv, LicenceInv, ScheduleInv, TakedownInv, NoPlan
<1>6. QED
  BY <1>1, <1>2, <1>4, <1>5, RowStep

(* Restoring drops a publish that came due, in the row and in the plan.    *)
LEMMA RestoreKeeps ==
  ASSUME PagesInv, NEW p \in Pages, restorePage(p)
  PROVE  PagesInv'
<1> DEFINE at == IF publishMissed(p) THEN None ELSE page[p].scheduledAt
           rec == [page[p] EXCEPT !.deleted = FALSE, !.scheduledAt = at]
<1>0. page[p] \in Row /\ plan[p] \in Plan /\ now \in Times
  BY RowFields DEF PagesInv, TypeOK
<1>1. /\ rec \in Row /\ rec.current = page[p].current /\ rec.unpublishAt = page[p].unpublishAt
      /\ rec.status = page[p].status /\ rec.scheduledAt = at
  BY <1>0 DEF Row
<1>2. Set(p, rec) /\ UNCHANGED <<now, revs, tasks, licence>> /\ page[p].status \in Status
  BY <1>0 DEF restorePage, Stored, Row
<1> HIDE DEF rec, at
<1>3. page'[p] = rec
  BY <1>2, RowFields DEF Set
<1>4. plan' = [plan EXCEPT ![p].at = IF @ <= now THEN None ELSE @]
  BY DEF restorePage
<1>5. /\ plan' \in [Pages -> Plan]
      /\ \A q \in Pages \ {p} : plan'[q] = plan[q]
      /\ plan'[p].at = (IF plan[p].at <= now THEN None ELSE plan[p].at)
      /\ plan'[p].down = plan[p].down /\ plan'[p].taken = plan[p].taken
      /\ plan'[p].content = plan[p].content
  BY <1>0, <1>4, RowFields DEF Plan
<1>6. at # None => at = page[p].scheduledAt /\ at = plan'[p].at /\ plan[p].at = at
  <2>1. page[p].scheduledAt # None => plan[p].at = page[p].scheduledAt
    BY RowFields DEF PageInv, ScheduleInv
  <2>2. at # None => at = page[p].scheduledAt /\ ~(at <= now)
    BY DEF at, publishMissed
  <2>3. QED
    BY <1>5, <2>1, <2>2
<1>7. PointerInv(p)' /\ LicenceInv(p)'
  BY <1>1, <1>2, <1>3, RowFields DEF PageInv, PointerInv, LicenceInv
<1>8. ScheduleInv(p)'
  BY <1>1, <1>2, <1>3, <1>5, <1>6, RowFields DEF PageInv, ScheduleInv
<1>9. TakedownInv(p)'
  BY <1>1, <1>2, <1>3, <1>5, RowFields DEF PageInv, TakedownInv, Stored
<1>10. QED
  BY <1>1, <1>2, <1>5, <1>7, <1>8, <1>9, RowStep, RowFields DEF PageInv

(* Publishing by hand: the pointer goes to the revision written now.       *)
LEMMA PublishKeeps ==
  ASSUME PagesInv, NEW p \in Pages, publishPage(p) \/ approve(p)
  PROVE  PagesInv'
<1> DEFINE rev == NewRev(p, "published")
           n == Len(revs) + 1
           rec == [page[p] EXCEPT !.status = "published", !.scheduledAt = None,
                                  !.unpublishAt = None, !.current = n]
<1>0. /\ page[p] \in Row /\ revs \in Seq(Revision) /\ TypeOK
      /\ Len(revs) \in Nat /\ Len(revs) < MaxRevs
  BY RowFields DEF PagesInv, TypeOK, publishPage, approve, doPublish
<1>1. /\ page[p].content \in Complete /\ doPublish(p)
      /\ licence' = [licence EXCEPT ![p] = page[p].content]
  BY DEF publishPage, approve, mayApprove, doPublish, Publishable
<1>2. rev \in Revision /\ rev.page = p /\ rev.status = "published" /\ rev.content = page[p].content
  BY <1>0 DEF NewRev, Revision, Row
<1>3. revs' = Append(revs, rev)
  BY <1>1 DEF doPublish
<1> HIDE DEF rev
<1>4. /\ revs' \in Seq(Revision) /\ Len(revs') = n /\ n \in DOMAIN revs' /\ revs'[n] = rev
      /\ \A r \in DOMAIN revs : r \in DOMAIN revs' /\ revs'[r] = revs[r]
      /\ \A r \in DOMAIN revs' : r \in DOMAIN revs \/ r = n
  BY <1>0, <1>2, <1>3, AppendRev
<1>5. n \in 1..MaxRevs /\ n # None
  BY <1>0, PageWorkflowAssumption DEF None
<1>6. /\ rec \in Row /\ rec.status = "published" /\ rec.scheduledAt = None /\ rec.current = n
  BY <1>0, <1>5 DEF Row, Status
<1>7. Set(p, rec) /\ plan' = [plan EXCEPT ![p] = NoPlan] /\ UNCHANGED <<now, tasks, plans>>
  BY <1>1, <1>4 DEF doPublish
<1> HIDE DEF rec
<1>8. /\ page' \in [Pages -> Row] /\ page'[p] = rec /\ plan'[p] = NoPlan
      /\ licence'[p] = page[p].content
      /\ licence' \in [Pages -> Contents \cup {None}] /\ plan' \in [Pages -> Plan]
      /\ \A q \in Pages \ {p} : page'[q] = page[q] /\ licence'[q] = licence[q] /\ plan'[q] = plan[q]
  BY <1>1, <1>6, <1>7, RowFields, Nulls, PageWorkflowAssumption DEF Set
<1>9. TypeOK'
  BY <1>0, <1>4, <1>5, <1>7, <1>8 DEF TypeOK
<1>10. PageInv(p)'
  <2>1. PointerInv(p)' /\ LicenceInv(p)'
    BY <1>1, <1>2, <1>4, <1>5, <1>6, <1>8 DEF PointerInv, LicenceInv
  <2>2. ScheduleInv(p)' /\ TakedownInv(p)'
    BY <1>6, <1>8 DEF ScheduleInv, TakedownInv, NoPlan
  <2>3. QED
    BY <2>1, <2>2 DEF PageInv
<1>11. ASSUME NEW q \in Pages \ {p} PROVE PageInv(q)'
  <2>1. DOMAIN revs \subseteq DOMAIN revs'
    BY <1>4
  <2>2. \A r \in DOMAIN revs' : revs'[r].page = q => r \in DOMAIN revs /\ revs'[r] = revs[r]
    BY <1>2, <1>4
  <2>3. QED
    BY <1>0, <1>4, <1>7, <1>8, <2>1, <2>2, PageKept, RowFields
<1>12. \A t \in tasks' : TaskInv(t)'
  BY <1>4, <1>7 DEF PagesInv, TaskInv
<1>13. QED
  BY <1>9, <1>10, <1>11, <1>12 DEF PagesInv, PageInv

(* Scheduling replaces the waiting revision by the one frozen now.         *)
LEMMA DroppedRevs ==
  ASSUME TypeOK, NEW p \in Pages
  PROVE  /\ DropScheduled(p) \in Seq(Revision) /\ Len(DropScheduled(p)) = Len(revs)
         /\ DOMAIN DropScheduled(p) = DOMAIN revs /\ DOMAIN revs = 1..Len(revs)
         /\ \A r \in DOMAIN revs :
              DropScheduled(p)[r] = IF revs[r].page = p /\ revs[r].status = "scheduled"
                                      THEN GoneRev ELSE revs[r]
<1>1. revs \in Seq(Revision) /\ DOMAIN revs = 1..Len(revs) /\ \A r \in DOMAIN revs : revs[r] \in Revision
  BY DEF TypeOK
<1> DEFINE new == DropScheduled(p)
<1>2. DOMAIN new = DOMAIN revs /\ new = [r \in DOMAIN revs |-> new[r]]
  BY DEF DropScheduled
<1>3. \A r \in DOMAIN revs : new[r] \in Revision
  BY <1>1, Nulls DEF DropScheduled
<1> HIDE DEF new
<1>4. new \in Seq(Revision) /\ Len(new) = Len(revs)
  BY <1>1, <1>2, <1>3, ReplaceRevs
<1>5. QED
  BY <1>1, <1>2, <1>4 DEF new, DropScheduled

LEMMA ScheduleKeeps ==
  ASSUME PagesInv, NEW p \in Pages, schedulePage(p)
  PROVE  PagesInv'
<1>1. PICK at \in Times, down \in Times \cup {None} :
        /\ revs' = Append(DropScheduled(p), NewRev(p, "scheduled"))
        /\ Set(p, [page[p] EXCEPT !.scheduledAt = at, !.unpublishAt = down])
        /\ tasks' = tasks
             \cup {[kind |-> "publish", page |-> p, token |-> at, rev |-> Len(revs')]}
             \cup (IF down = None THEN {} ELSE
                    {[kind |-> "unpublish", page |-> p, token |-> down, rev |-> None]})
        /\ plan' = [plan EXCEPT ![p] = [at |-> at, down |-> down, taken |-> FALSE,
                                        content |-> page[p].content]]
  BY DEF schedulePage
<1> DEFINE kept == DropScheduled(p)
           rev == NewRev(p, "scheduled")
           n == Len(revs) + 1
           rec == [page[p] EXCEPT !.scheduledAt = at, !.unpublishAt = down]
           publish == [kind |-> "publish", page |-> p, token |-> at, rev |-> n]
           unpublish == [kind |-> "unpublish", page |-> p, token |-> down, rev |-> None]
           newPlan == [at |-> at, down |-> down, taken |-> FALSE, content |-> page[p].content]
<1>0. /\ page[p] \in Row /\ revs \in Seq(Revision) /\ TypeOK /\ tasks \subseteq Task
      /\ Len(revs) \in Nat /\ Len(revs) < MaxRevs /\ page[p].content \in Complete
      /\ UNCHANGED <<now, licence>> /\ page[p].status \in Status
  BY RowFields DEF PagesInv, TypeOK, schedulePage, Publishable, Visible, Stored
<1>2. rev \in Revision /\ rev.page = p /\ rev.status = "scheduled" /\ rev.content = page[p].content
  BY <1>0 DEF NewRev, Revision, Row
<1>3. /\ kept \in Seq(Revision) /\ Len(kept) = Len(revs) /\ DOMAIN kept = DOMAIN revs
      /\ DOMAIN revs = 1..Len(revs)
      /\ \A r \in DOMAIN revs :
           kept[r] = IF revs[r].page = p /\ revs[r].status = "scheduled" THEN GoneRev ELSE revs[r]
  BY <1>0, DroppedRevs
<1> HIDE DEF rev, kept
<1>4. /\ revs' \in Seq(Revision) /\ Len(revs') = n /\ DOMAIN revs' = 1..n /\ revs'[n] = rev
      /\ \A r \in DOMAIN revs : r \in DOMAIN revs' /\ revs'[r] = kept[r]
      /\ \A r \in DOMAIN revs' : r \in DOMAIN revs \/ r = n
  BY <1>0, <1>1, <1>2, <1>3 DEF kept, rev
<1>5. n \in 1..MaxRevs
  BY <1>0, PageWorkflowAssumption
<1>6. /\ rec \in Row /\ rec.status = page[p].status /\ rec.scheduledAt = at
      /\ rec.unpublishAt = down /\ rec.current = page[p].current
  BY <1>0 DEF Row
<1>7. Set(p, rec) /\ plan' = [plan EXCEPT ![p] = newPlan]
  BY <1>1
<1>8. publish \in Task /\ (down # None => unpublish \in Task)
  BY <1>5 DEF Task
<1>9. tasks' = tasks \cup {publish} \cup (IF down = None THEN {} ELSE {unpublish})
  BY <1>1, <1>4
<1>10. newPlan \in Plan /\ newPlan.at = at /\ newPlan.down = down /\ newPlan.content = page[p].content
  BY <1>0, PageWorkflowAssumption DEF Plan
<1>11. publish.kind = "publish" /\ publish.rev = n /\ publish.page = p
       /\ unpublish.kind = "unpublish" /\ unpublish.page = p /\ unpublish.token = down
  OBVIOUS
<1> HIDE DEF rec, publish, unpublish, newPlan
<1>12. /\ page' \in [Pages -> Row] /\ page'[p] = rec /\ plan'[p] = newPlan
       /\ plan' \in [Pages -> Plan]
       /\ \A q \in Pages \ {p} : page'[q] = page[q] /\ plan'[q] = plan[q]
  BY <1>6, <1>7, <1>10, RowFields DEF Set
<1>13. TypeOK'
  BY <1>0, <1>4, <1>5, <1>8, <1>9, <1>12 DEF TypeOK
<1>14. \A r \in DOMAIN revs : revs[r].status = "published" => revs'[r] = revs[r]
  BY <1>3, <1>4
<1>15. GoneRev.status = "gone"
  BY DEF GoneRev
<1>16. PageInv(p)'
  <2>1. PointerInv(p)'
    BY <1>4, <1>6, <1>12, <1>14, RowFields DEF PageInv, PointerInv
  <2>2. LicenceInv(p)'
    <3>1. PointerInv(p) /\ LicenceInv(p)
      BY RowFields DEF PageInv
    <3>2. page[p].current # None => revs'[page[p].current] = revs[page[p].current]
      BY <1>14, <3>1 DEF PointerInv
    <3>3. QED
      BY <1>0, <1>6, <1>12, <3>1, <3>2 DEF LicenceInv
  <2>3. \A r \in DOMAIN revs' : revs'[r].page = p /\ revs'[r].status = "scheduled" => r = n
    BY <1>3, <1>4, <1>15
  <2>4. ScheduleInv(p)'
    BY <1>0, <1>2, <1>4, <1>6, <1>10, <1>12, <2>3 DEF ScheduleInv
  <2>5. TakedownInv(p)'
    BY <1>0, <1>6, <1>9, <1>10, <1>11, <1>12 DEF TakedownInv, Stored
  <2>6. QED
    BY <2>1, <2>2, <2>4, <2>5 DEF PageInv
<1>17. ASSUME NEW q \in Pages \ {p} PROVE PageInv(q)'
  <2>1. DOMAIN revs \subseteq DOMAIN revs' /\ tasks \subseteq tasks'
    BY <1>4, <1>9
  <2>2. \A r \in DOMAIN revs' : revs'[r].page = q /\ revs'[r].status = "scheduled" =>
                                  r \in DOMAIN revs /\ revs'[r] = revs[r]
    BY <1>2, <1>3, <1>4, <1>15
  <2>3. QED
    BY <1>0, <1>12, <1>14, <2>1, <2>2, PageKept, RowFields
<1>18. ASSUME NEW t \in tasks' PROVE TaskInv(t)'
  <2>1. CASE t \in tasks
    <3>1. TaskInv(t)
      BY <2>1 DEF PagesInv
    <3>2. ASSUME t.kind = "publish" PROVE revs'[t.rev].status = "gone" \/ revs'[t.rev] = revs[t.rev]
      BY <1>3, <1>4, <1>15, <3>1, <3>2 DEF TaskInv
    <3>3. QED
      BY <1>4, <3>1, <3>2 DEF TaskInv
  <2>2. CASE t \notin tasks
    <3>1. t = publish \/ t = unpublish
      BY <1>9, <2>2
    <3>2. QED
      BY <1>2, <1>4, <1>5, <1>11, <3>1 DEF TaskInv
  <2>3. QED
    BY <2>1, <2>2
<1>19. QED
  BY <1>13, <1>16, <1>17, <1>18 DEF PagesInv, PageInv

(* Purging takes the page's revisions with it and nobody else's.           *)
LEMMA PurgeKeeps ==
  ASSUME PagesInv, NEW p \in Pages, purgePage(p)
  PROVE  PagesInv'
<1> DEFINE rec == [Unborn EXCEPT !.status = "purged"]
<1>0. /\ revs \in Seq(Revision) /\ TypeOK /\ DOMAIN revs = 1..Len(revs)
      /\ \A r \in DOMAIN revs : revs[r] \in Revision
      /\ UNCHANGED <<now, tasks>>
  BY DEF PagesInv, TypeOK, purgePage
<1>1. rec \in Row /\ rec.status = "purged" /\ rec.current = None /\ rec.scheduledAt = None
  BY Nulls DEF Unborn
<1>2. Set(p, rec)
  BY DEF purgePage
<1> HIDE DEF rec
<1>3. /\ page' \in [Pages -> Row] /\ page'[p] = rec /\ plan'[p] = NoPlan
      /\ licence' \in [Pages -> Contents \cup {None}] /\ plan' \in [Pages -> Plan]
      /\ \A q \in Pages \ {p} : page'[q] = page[q] /\ licence'[q] = licence[q] /\ plan'[q] = plan[q]
  BY <1>1, <1>2, RowFields, Nulls DEF Set, purgePage
<1>4. revs' = [r \in DOMAIN revs |-> IF revs[r].page = p THEN GoneRev ELSE revs[r]]
  BY DEF purgePage
<1>5. GoneRev.status = "gone" /\ GoneRev \in Revision
  BY Nulls DEF GoneRev
<1>6. revs' \in Seq(Revision) /\ Len(revs') = Len(revs) /\ DOMAIN revs' = DOMAIN revs
  <2> DEFINE new == [r \in DOMAIN revs |-> IF revs[r].page = p THEN GoneRev ELSE revs[r]]
  <2>1. /\ DOMAIN new = DOMAIN revs /\ new = [r \in DOMAIN revs |-> new[r]]
        /\ \A r \in DOMAIN revs : new[r] \in Revision
    BY <1>0, <1>5
  <2>2. new = revs'
    BY <1>4
  <2> HIDE DEF new
  <2>3. new \in Seq(Revision) /\ Len(new) = Len(revs)
    BY <1>0, <2>1, ReplaceRevs
  <2>4. QED
    BY <2>1, <2>2, <2>3
<1>7. TypeOK'
  BY <1>0, <1>3, <1>6 DEF TypeOK
<1>8. PageInv(p)'
  BY <1>1, <1>3 DEF PageInv, PointerInv, LicenceInv, ScheduleInv, TakedownInv, NoPlan
<1>9. ASSUME NEW q \in Pages \ {p} PROVE PageInv(q)'
  <2>1. /\ \A r \in DOMAIN revs : revs[r].page = q => revs'[r] = revs[r]
        /\ \A r \in DOMAIN revs' : revs'[r].page = q /\ revs'[r].status = "scheduled" =>
                                     r \in DOMAIN revs /\ revs'[r] = revs[r]
    BY <1>4, <1>5, <1>6
  <2>2. QED
    BY <1>0, <1>3, <1>6, <2>1, PageKept, RowFields
<1>10. \A t \in tasks' : TaskInv(t)'
  <2>1. \A r \in DOMAIN revs : revs'[r].status = "gone" \/ revs'[r] = revs[r]
    BY <1>4, <1>5
  <2>2. QED
    BY <1>0, <1>6, <2>1 DEF PagesInv, TaskInv
<1>11. QED
  BY <1>7, <1>8, <1>9, <1>10 DEF PagesInv, PageInv

(* The revision a task publishes, whether or not the isolate survives it.  *)
LEMMA FlipRevs ==
  ASSUME PagesInv, NEW t \in tasks, t.kind = "publish", mayPublish(t), flip(t)
  PROVE  /\ t.page \in Pages /\ t.rev \in DOMAIN revs
         /\ revs[t.rev].page = t.page /\ revs[t.rev].status = "scheduled"
         /\ revs' \in Seq(Revision) /\ Len(revs') = Len(revs) /\ DOMAIN revs' = DOMAIN revs
         /\ revs'[t.rev].status = "published" /\ revs'[t.rev].page = t.page
         /\ revs'[t.rev].content = revs[t.rev].content
         /\ \A r \in DOMAIN revs : r # t.rev => revs'[r] = revs[r]
<1>0. /\ revs \in Seq(Revision) /\ DOMAIN revs = 1..Len(revs) /\ Len(revs) \in Nat
      /\ \A r \in DOMAIN revs : revs[r] \in Revision
      /\ t \in Task
  BY DEF PagesInv, TypeOK
<1>1. t.page \in Pages /\ t.rev \in DOMAIN revs /\ revs[t.rev].status = "scheduled"
  BY <1>0 DEF mayPublish, Task
<1>2. revs[t.rev].page = t.page
  BY <1>1 DEF PagesInv, TaskInv
<1> DEFINE rev == [revs[t.rev] EXCEPT !.status = "published"]
<1>3. /\ rev \in Revision /\ rev.status = "published" /\ rev.page = t.page
      /\ rev.content = revs[t.rev].content
  BY <1>0, <1>1, <1>2 DEF Revision
<1>4. revs' = [revs EXCEPT ![t.rev] = rev]
  BY DEF flip
<1> HIDE DEF rev
<1>5. /\ DOMAIN revs' = DOMAIN revs /\ revs' = [r \in DOMAIN revs |-> revs'[r]]
      /\ revs'[t.rev] = rev /\ \A r \in DOMAIN revs : r # t.rev => revs'[r] = revs[r]
  BY <1>0, <1>1, <1>4
<1>6. \A r \in DOMAIN revs : revs'[r] \in Revision
  BY <1>0, <1>3, <1>5
<1>7. revs' \in Seq(Revision) /\ Len(revs') = Len(revs)
  BY <1>0, <1>5, <1>6, ReplaceRevs
<1>8. QED
  BY <1>1, <1>2, <1>3, <1>5, <1>7

LEMMA FlipKeeps ==
  ASSUME PagesInv, NEW t \in tasks, t.kind = "publish", mayPublish(t), flip(t),
         NEW q \in Pages,
         page'[q] = page[q], licence'[q] = licence[q], plan'[q] = plan[q],
         \A u \in tasks : u.kind = "unpublish" /\ u.page = q => u \in tasks'
  PROVE  PageInv(q)'
<1>1. /\ \A r \in DOMAIN revs : revs[r].status = "published" => revs'[r] = revs[r]
      /\ \A r \in DOMAIN revs' : revs'[r].status = "scheduled" =>
                                   r \in DOMAIN revs /\ revs'[r] = revs[r]
      /\ DOMAIN revs' = DOMAIN revs
  BY FlipRevs
<1>2. QED
  BY <1>1, PageKept, RowFields DEF PagesInv

LEMMA FlipTasks ==
  ASSUME PagesInv, NEW t \in tasks, t.kind = "publish", mayPublish(t), flip(t),
         tasks' \subseteq tasks
  PROVE  \A u \in tasks' : TaskInv(u)'
<1>1. DOMAIN revs' = DOMAIN revs /\ \A r \in DOMAIN revs : revs'[r].page = revs[r].page
                                      /\ (revs[r].status = "gone" => revs'[r] = revs[r])
  BY FlipRevs
<1>2. QED
  BY <1>1 DEF PagesInv, TaskInv

(* A task that publishes lets out what the standing plan froze.            *)
LEMMA RunPublishKeeps ==
  ASSUME PagesInv, NEW t \in tasks, runPublish(t)
  PROVE  PagesInv'
<1>0. /\ t.kind = "publish" /\ mayPublish(t) /\ flip(t) /\ t \in Task /\ TypeOK
      /\ tasks' \subseteq tasks /\ tasks' \in {tasks, tasks \ {t}} /\ now' = now
      /\ t.token <= now /\ now \in Times
  BY DEF PagesInv, TypeOK, runPublish, settle
<1>1. PICK p \in Pages : p = t.page
  BY <1>0 DEF Task
<1>2. /\ t.rev \in DOMAIN revs /\ revs[t.rev].page = p /\ revs[t.rev].status = "scheduled"
      /\ revs' \in Seq(Revision) /\ Len(revs') = Len(revs) /\ DOMAIN revs' = DOMAIN revs
      /\ revs'[t.rev].status = "published" /\ revs'[t.rev].page = p
      /\ revs'[t.rev].content = revs[t.rev].content
  BY <1>0, <1>1, FlipRevs
<1>3. t.rev \in 1..MaxRevs /\ t.token \in Times /\ t.token # None /\ t.rev # None
  <2>1. DOMAIN revs = 1..Len(revs) /\ Len(revs) \in Nat /\ Len(revs) <= MaxRevs
    BY <1>0 DEF TypeOK
  <2>2. QED
    BY <1>0, <1>2, <2>1, PageWorkflowAssumption, Nulls DEF Task, None
<1> DEFINE rec == wentOut(t)
<1>4. page[p] \in Row /\ page[p].scheduledAt = t.token /\ ~page[p].deleted /\ page[p].status \in Status
  BY <1>0, <1>1, RowFields DEF mayPublish, Stored
<1>5. /\ rec \in Row /\ rec.status = "published" /\ rec.scheduledAt = None
      /\ rec.unpublishAt = page[p].unpublishAt /\ rec.current = t.rev
  BY <1>1, <1>3, <1>4 DEF wentOut, Row, Status
<1>6. Set(p, rec)
  BY <1>1 DEF runPublish
<1> HIDE DEF rec
<1>7. page' \in [Pages -> Row] /\ page'[p] = rec /\ \A q \in Pages \ {p} : page'[q] = page[q]
  BY <1>5, <1>6, RowFields DEF Set
<1>8. /\ plan[p].at = t.token /\ plan[p].content \in Complete
      /\ revs[t.rev].content = plan[p].content /\ plan[p] \in Plan
  BY <1>2, <1>3, <1>4, RowFields DEF PageInv, ScheduleInv
<1>9. /\ licence' = [licence EXCEPT ![p] = plan[p].content]
      /\ plan' = [plan EXCEPT ![p].at = None]
  BY <1>0, <1>1, <1>3, <1>4, <1>8 DEF runPublish, planPublishes
<1>10. /\ licence' \in [Pages -> Contents \cup {None}] /\ licence'[p] = plan[p].content
       /\ plan' \in [Pages -> Plan]
       /\ plan'[p].down = plan[p].down /\ plan'[p].taken = plan[p].taken
       /\ \A q \in Pages \ {p} : licence'[q] = licence[q] /\ plan'[q] = plan[q]
  BY <1>8, <1>9, RowFields, PageWorkflowAssumption DEF Plan
<1>11. TypeOK'
  BY <1>0, <1>2, <1>7, <1>10 DEF TypeOK
<1>12. PageInv(p)'
  <2>1. PointerInv(p)' /\ LicenceInv(p)'
    BY <1>2, <1>3, <1>5, <1>7, <1>8, <1>10 DEF PointerInv, LicenceInv
  <2>2. ScheduleInv(p)'
    BY <1>5, <1>7 DEF ScheduleInv
  <2>3. TakedownInv(p)'
    <3>1. TakedownInv(p)
      BY RowFields DEF PageInv
    <3>2. \A u \in tasks : u.kind = "unpublish" => u \in tasks'
      BY <1>0
    <3>3. Stored(p)'
      BY <1>5, <1>7 DEF Stored, Status
    <3>4. QED
      BY <1>5, <1>7, <1>10, <3>1, <3>2, <3>3 DEF TakedownInv
  <2>4. QED
    BY <2>1, <2>2, <2>3 DEF PageInv
<1>13. ASSUME NEW q \in Pages \ {p} PROVE PageInv(q)'
  BY <1>0, <1>7, <1>10, FlipKeeps
<1>14. \A u \in tasks' : TaskInv(u)'
  BY <1>0, FlipTasks
<1>15. QED
  BY <1>11, <1>12, <1>13, <1>14 DEF PagesInv, PageInv

LEMMA DieMidPublishKeeps ==
  ASSUME PagesInv, NEW t \in tasks, dieMidPublish(t)
  PROVE  PagesInv'
<1>0. /\ t.kind = "publish" /\ mayPublish(t) /\ flip(t)
      /\ UNCHANGED <<now, page, tasks, licence, plan>>
  BY DEF dieMidPublish
<1>1. TypeOK'
  BY <1>0, FlipRevs DEF PagesInv, TypeOK
<1>2. \A q \in Pages : PageInv(q)'
  BY <1>0, FlipKeeps
<1>3. \A u \in tasks' : TaskInv(u)'
  BY <1>0, FlipTasks
<1>4. QED
  BY <1>1, <1>2, <1>3 DEF PagesInv, PageInv

LEMMA RunUnpublishKeeps ==
  ASSUME PagesInv, NEW t \in tasks, runUnpublish(t)
  PROVE  PagesInv'
<1>0. /\ t.kind = "unpublish" /\ mayUnpublish(t) /\ t \in Task /\ TypeOK
      /\ tasks' \in {tasks, tasks \ {t}} /\ UNCHANGED <<now, revs>>
  BY DEF PagesInv, TypeOK, runUnpublish, settle
<1>1. PICK p \in Pages : p = t.page
  BY <1>0 DEF Task
<1> DEFINE rec == [page[p] EXCEPT !.status = "archived", !.unpublishAt = None]
<1>2. page[p] \in Row /\ plan[p] \in Plan
  BY RowFields
<1>3. /\ rec \in Row /\ rec.status = "archived" /\ rec.scheduledAt = page[p].scheduledAt
      /\ rec.current = page[p].current
  BY <1>2 DEF Row, Status
<1>4. Set(p, rec)
  BY <1>1 DEF runUnpublish
<1> HIDE DEF rec
<1>5. page' \in [Pages -> Row] /\ page'[p] = rec /\ \A q \in Pages \ {p} : page'[q] = page[q]
  BY <1>3, <1>4, RowFields DEF Set
<1>6. /\ licence' = [licence EXCEPT ![p] = None]
      /\ plan' = [plan EXCEPT ![p].taken = plan[p].down # None]
  BY <1>1 DEF runUnpublish
<1>7. /\ licence' \in [Pages -> Contents \cup {None}]
      /\ plan' \in [Pages -> Plan]
      /\ plan'[p].down = plan[p].down /\ (plan[p].down # None => plan'[p].taken)
      /\ plan'[p].at = plan[p].at /\ plan'[p].content = plan[p].content
      /\ \A q \in Pages \ {p} : licence'[q] = licence[q] /\ plan'[q] = plan[q]
  BY <1>2, <1>6, RowFields DEF Plan
<1>8. TypeOK'
  BY <1>0, <1>5, <1>7 DEF TypeOK
<1>9. PageInv(p)'
  <2>1. PointerInv(p)' /\ LicenceInv(p)' /\ ScheduleInv(p)'
    BY <1>0, <1>3, <1>5, <1>7, RowFields DEF PageInv, PointerInv, LicenceInv, ScheduleInv
  <2>2. TakedownInv(p)'
    BY <1>3, <1>5, <1>7 DEF TakedownInv, Stored, Status
  <2>3. QED
    BY <2>1, <2>2 DEF PageInv
<1>10. ASSUME NEW q \in Pages \ {p} PROVE PageInv(q)'
  <2>1. \A u \in tasks : u.page = q => u \in tasks'
    BY <1>0, <1>1
  <2>2. QED
    BY <1>0, <1>5, <1>7, <2>1, PageKept, RowFields
<1>11. \A u \in tasks' : TaskInv(u)'
  BY <1>0 DEF PagesInv, TaskInv
<1>12. QED
  BY <1>8, <1>9, <1>10, <1>11 DEF PagesInv, PageInv

(* A task nobody waits for: no plan that stands loses its takedown.        *)
LEMMA RunStaleKeeps ==
  ASSUME PagesInv, NEW t \in tasks, runStale(t)
  PROVE  PagesInv'
<1>0. /\ tasks' = tasks \ {t} /\ UNCHANGED <<now, page, revs, licence, plan>>
      /\ t.kind = "unpublish" => ~mayUnpublish(t)
  BY DEF runStale
<1>1. TypeOK'
  BY <1>0 DEF PagesInv, TypeOK
<1>2. ASSUME NEW q \in Pages PROVE PageInv(q)'
  <2>1. PointerInv(q)' /\ LicenceInv(q)' /\ ScheduleInv(q)'
    BY <1>0, RowFields DEF PageInv, PointerInv, LicenceInv, ScheduleInv
  <2>2. TakedownInv(q)'
    BY <1>0, RowFields DEF PageInv, TakedownInv, mayUnpublish, Stored
  <2>3. QED
    BY <2>1, <2>2 DEF PageInv
<1>3. \A u \in tasks' : TaskInv(u)'
  BY <1>0 DEF PagesInv, TaskInv
<1>4. QED
  BY <1>1, <1>2, <1>3 DEF PagesInv, PageInv

LEMMA QuietKeeps ==
  ASSUME PagesInv, tick \/ UNCHANGED vars
  PROVE  PagesInv'
<1>1. UNCHANGED <<page, revs, tasks, licence, plan>> /\ now' \in Times
  BY PageWorkflowAssumption DEF tick, vars, PagesInv, TypeOK, Times
<1>2. QED
  BY <1>1 DEF PagesInv, TypeOK, PointerInv, LicenceInv, ScheduleInv, TakedownInv, TaskInv, Stored

LEMMA PagesInit == Init => PagesInv
<1> SUFFICES ASSUME Init PROVE PagesInv
  OBVIOUS
<1>1. /\ Unborn \in Row /\ Unborn.status = "unborn" /\ Unborn.current = None
      /\ Unborn.scheduledAt = None /\ NoPlan.down = None
  BY DEF Unborn, Row, NoPlan
<1>2. TypeOK
  BY <1>1, Nulls, PageWorkflowAssumption DEF Init, TypeOK, Times
<1>3. QED
  BY <1>1, <1>2 DEF Init, PagesInv, PointerInv, LicenceInv, ScheduleInv, TakedownInv

LEMMA PagesNext == PagesInv /\ [Next]_vars => PagesInv'
<1> SUFFICES ASSUME PagesInv, [Next]_vars PROVE PagesInv'
  OBVIOUS
<1>1. ASSUME NEW p \in Pages,
             \/ createPage(p) \/ edit(p)
             \/ submitForReview(p) \/ unpublishPage(p) \/ archivePage(p)
             \/ deletePage(p) \/ restorePage(p)
             \/ publishPage(p) \/ approve(p) \/ reject(p)
             \/ schedulePage(p) \/ purgePage(p)
      PROVE  PagesInv'
  BY <1>1, EditorsKeep, TakeDownKeeps, RestoreKeeps, PublishKeeps, ScheduleKeeps, PurgeKeeps
     DEF unpublishPage, archivePage
<1>2. ASSUME NEW t \in tasks,
             runPublish(t) \/ dieMidPublish(t) \/ runUnpublish(t) \/ runStale(t)
      PROVE  PagesInv'
  BY <1>2, RunPublishKeeps, DieMidPublishKeeps, RunUnpublishKeeps, RunStaleKeeps
<1>3. CASE tick \/ UNCHANGED vars
  BY <1>3, QuietKeeps
<1>4. QED
  BY <1>1, <1>2, <1>3 DEF Next

-----------------------------------------------------------------------------
(* The rows, revisions, tasks and plans keep their shape.                  *)
THEOREM PagesAreTyped == Spec => []TypeOK
<1>1. PagesInv => TypeOK
  BY DEF PagesInv
<1>2. QED
  BY <1>1, PagesInit, PagesNext, PTL DEF Spec

(* What the public sees of any page is what a reviewer let out and nobody  *)
(* took back, or what the schedule that stood froze, whatever editors do   *)
(* meanwhile and however late, often or out of order the tasks run.        *)
THEOREM OnlyLicensedIsServed == Spec => []ServedIsLicensed
<1>1. PagesInv => ServedIsLicensed
  BY DEF PagesInv, PointerInv, LicenceInv, ServedIsLicensed, Served, Published, Visible, Snapshot
<1>2. QED
  BY <1>1, PagesInit, PagesNext, PTL DEF Spec

(* A published page always has the snapshot its pointer names, and a       *)
(* takedown that was asked for stays asked for, with a task to do it.      *)
THEOREM SchedulesStand == Spec => []SchedulesAreKept
<1>1. PagesInv => PublishedIsServed
  BY Nulls DEF PagesInv, PointerInv, LicenceInv, PublishedIsServed, Served, Published,
     Snapshot
<1>2. PagesInv => TakedownStands
  BY DEF PagesInv, TakedownInv, TakedownStands
<1>3. QED
  BY <1>1, <1>2, PagesInit, PagesNext, PTL DEF Spec, SchedulesAreKept

-----------------------------------------------------------------------------
(* Collections.  What the editors asked for is in the columns: the instants *)
(* in the two tokens, the rest in the status; a scheduled publish has its   *)
(* task; and the revisions and the row together are the row's history.      *)
Instants == 0..MaxInstant
InstantOrNone == Instants \cup {-1}
Entry == [status : {"none", "draft", "published"}, value : Values \cup {-1},
          publishedAt : InstantOrNone, scheduledAt : InstantOrNone, unpublishAt : InstantOrNone]
Wish == [up : BOOLEAN, from : InstantOrNone, until : InstantOrNone]
EntryTask == [kind : {"publish", "unpublish"}, row : Rows, token : Instants]

EntryIsWanted(e, w, revised, told) ==
  /\ e.status = "none" => e = Coll!NoRow /\ w = Coll!NoWant /\ revised = << >>
  /\ e.status # "none" => e.value \in Values /\ Append(revised, e.value) = told
  /\ w.from = e.scheduledAt /\ w.until = e.unpublishAt
  /\ w.up <=> e.status = "published"
  /\ e.status = "published" => e.publishedAt # -1

PublishTask(r, at) == [kind |-> "publish", row |-> r, token |-> at]

EntriesTyped ==
  /\ cNow \in Instants
  /\ row \in [Rows -> Entry] /\ want \in [Rows -> Wish]
  /\ cRevs \in [Rows -> Seq(Values)] /\ trail \in [Rows -> Seq(Values)]
  /\ cTasks \subseteq EntryTask

EntriesInv ==
  /\ EntriesTyped
  /\ \A r \in Rows :
       /\ EntryIsWanted(row[r], want[r], cRevs[r], trail[r])
       /\ row[r].publishedAt <= cNow
       /\ row[r].scheduledAt # -1 => PublishTask(r, row[r].scheduledAt) \in cTasks

OtherTasksStay(r) == \A t \in cTasks : t.row # r => t \in cTasks'

LEMMA EntryParts ==
  ASSUME EntriesInv, NEW r \in Rows
  PROVE  /\ row[r] \in Entry /\ want[r] \in Wish
         /\ cRevs[r] \in Seq(Values) /\ trail[r] \in Seq(Values)
         /\ cNow \in Instants /\ MaxInstant \in Nat
         /\ EntryIsWanted(row[r], want[r], cRevs[r], trail[r])
         /\ row[r].publishedAt <= cNow
         /\ row[r].scheduledAt # -1 => PublishTask(r, row[r].scheduledAt) \in cTasks
  BY CollectionsConstants DEF EntriesInv, EntriesTyped, Coll!CollectionsAssumption

(* A step that touches one row at most.                                    *)
LEMMA EntryMoves ==
  ASSUME EntriesInv, NEW r \in Rows, NEW e \in Entry, NEW w \in Wish,
         NEW revised \in Seq(Values), NEW told \in Seq(Values),
         row' = [row EXCEPT ![r] = e], want' = [want EXCEPT ![r] = w],
         cRevs' = [cRevs EXCEPT ![r] = revised], trail' = [trail EXCEPT ![r] = told],
         cTasks' \subseteq EntryTask, UNCHANGED cNow,
         OtherTasksStay(r), EntryIsWanted(e, w, revised, told), e.publishedAt <= cNow,
         e.scheduledAt # -1 => PublishTask(r, e.scheduledAt) \in cTasks'
  PROVE  EntriesInv'
<1>1. EntriesTyped'  BY DEF EntriesInv, EntriesTyped
<1>2. ASSUME NEW q \in Rows
      PROVE  /\ EntryIsWanted(row[q], want[q], cRevs[q], trail[q])'
             /\ (row[q].publishedAt <= cNow)'
             /\ (row[q].scheduledAt # -1 => PublishTask(q, row[q].scheduledAt) \in cTasks)'
  <2>1. CASE q = r
    <3>1. row'[r] = e /\ want'[r] = w /\ cRevs'[r] = revised /\ trail'[r] = told
      BY DEF EntriesInv, EntriesTyped
    <3> QED  BY <2>1, <3>1 DEF EntryIsWanted
  <2>2. CASE q # r
    <3>1. row'[q] = row[q] /\ want'[q] = want[q] /\ cRevs'[q] = cRevs[q] /\ trail'[q] = trail[q]
      BY <2>2 DEF EntriesInv, EntriesTyped
    <3>2. PublishTask(q, row[q].scheduledAt).row # r  BY <2>2 DEF PublishTask
    <3>3. row[q].scheduledAt # -1 => PublishTask(q, row[q].scheduledAt) \in cTasks'
      BY <3>2, EntryParts DEF OtherTasksStay
    <3>4. EntryIsWanted(row[q], want[q], cRevs[q], trail[q]) /\ row[q].publishedAt <= cNow
      BY EntryParts
    <3>5. EntryIsWanted(row[q], want[q], cRevs[q], trail[q])'  BY <3>1, <3>4 DEF EntryIsWanted
    <3> QED  BY <3>1, <3>3, <3>4, <3>5
  <2> QED  BY <2>1, <2>2
<1> QED  BY <1>1, <1>2 DEF EntriesInv

(* What a patched row holds, column by column.                             *)
LEMMA EntryPatched ==
  ASSUME NEW r, NEW f, NEW e, e = Coll!Patched(r, f)
  PROVE  /\ e.status = IF "status" \in DOMAIN f THEN f.status ELSE row[r].status
         /\ e.value = IF "value" \in DOMAIN f THEN f.value ELSE row[r].value
         /\ e.publishedAt = IF "publishedAt" \in DOMAIN f THEN f.publishedAt ELSE row[r].publishedAt
         /\ e.scheduledAt = IF "scheduledAt" \in DOMAIN f THEN f.scheduledAt ELSE row[r].scheduledAt
         /\ e.unpublishAt = IF "unpublishAt" \in DOMAIN f THEN f.unpublishAt ELSE row[r].unpublishAt
         /\ e = [status |-> e.status, value |-> e.value, publishedAt |-> e.publishedAt,
                 scheduledAt |-> e.scheduledAt, unpublishAt |-> e.unpublishAt]
<1>1. DOMAIN Coll!NoRow = {"status", "value", "publishedAt", "scheduledAt", "unpublishAt"}
  BY DEF Coll!NoRow
<1>2. /\ DOMAIN e = {"status", "value", "publishedAt", "scheduledAt", "unpublishAt"}
      /\ \A c \in DOMAIN e : e[c] = IF c \in DOMAIN f THEN f[c] ELSE row[r][c]
      /\ e = [c \in DOMAIN e |-> e[c]]
  BY <1>1 DEF Coll!Patched
<1> QED  BY <1>2

LEMMA EntryWrites ==
  ASSUME EntriesInv, NEW r \in Rows, Coll!Stored(r),
         Coll!collectionUpdate(r) \/ Coll!collectionRestoreRevision(r)
  PROVE  EntriesInv'
<1>1. /\ row[r] \in Entry /\ want[r] \in Wish /\ cRevs[r] \in Seq(Values) /\ trail[r] \in Seq(Values)
      /\ EntryIsWanted(row[r], want[r], cRevs[r], trail[r])
  BY EntryParts
<1>2. row[r].value \in Values /\ Append(cRevs[r], row[r].value) = trail[r]
  BY <1>1 DEF EntryIsWanted, Coll!Stored
<1>3. PICK v \in Values : Coll!Set(r, [value |-> v]) /\ trail' = [trail EXCEPT ![r] = Append(trail[r], v)]
  <2>1. CASE Coll!collectionUpdate(r)  BY <2>1 DEF Coll!collectionUpdate
  <2>2. CASE Coll!collectionRestoreRevision(r)
    <3>1. PICK n \in DOMAIN cRevs[r] :
            /\ Coll!Set(r, [value |-> cRevs[r][n]])
            /\ trail' = [trail EXCEPT ![r] = Append(trail[r], trail[r][n])]
      BY <2>2 DEF Coll!collectionRestoreRevision
    <3>2. cRevs[r][n] \in Values /\ trail[r][n] = cRevs[r][n]  BY <1>1, <1>2
    <3> QED  BY <3>1, <3>2
  <2> QED  BY <2>1, <2>2
<1>4. PICK f : f = [value |-> v]  OBVIOUS
<1>5. PICK e : e = Coll!Patched(r, f)  OBVIOUS
<1>6. /\ e.value = v /\ e.status = row[r].status /\ e.publishedAt = row[r].publishedAt
      /\ e.scheduledAt = row[r].scheduledAt /\ e.unpublishAt = row[r].unpublishAt
      /\ e = [status |-> e.status, value |-> e.value, publishedAt |-> e.publishedAt,
              scheduledAt |-> e.scheduledAt, unpublishAt |-> e.unpublishAt]
  BY <1>4, <1>5, EntryPatched
<1>7. e \in Entry  BY <1>1, <1>6 DEF Entry
<1>8. PICK revised : revised = Append(cRevs[r], row[r].value)  OBVIOUS
<1>9. PICK told : told = Append(trail[r], v)  OBVIOUS
<1>10. revised \in Seq(Values) /\ told \in Seq(Values) /\ Append(revised, v) = told
  BY <1>1, <1>2, <1>8, <1>9
<1>11. PICK w : w = want[r]  OBVIOUS
<1>12. EntryIsWanted(e, w, revised, told)
  BY <1>1, <1>6, <1>10, <1>11 DEF EntryIsWanted, Coll!Stored
<1>13. /\ row' = [row EXCEPT ![r] = e] /\ trail' = [trail EXCEPT ![r] = told]
       /\ cRevs' = [cRevs EXCEPT ![r] = revised] /\ UNCHANGED <<want, cTasks, cNow>>
  BY <1>3, <1>4, <1>5, <1>8, <1>9
     DEF Coll!Set, Coll!collectionUpdate, Coll!collectionRestoreRevision, Coll!snapshotted
<1>14. want' = [want EXCEPT ![r] = w]  BY <1>11, <1>13 DEF EntriesInv, EntriesTyped
<1>15. /\ cTasks' \subseteq EntryTask /\ e.publishedAt <= cNow /\ OtherTasksStay(r)
       /\ e.scheduledAt # -1 => PublishTask(r, e.scheduledAt) \in cTasks'
  BY <1>6, <1>13, EntryParts DEF EntriesInv, EntriesTyped, OtherTasksStay
<1> QED  BY <1>1, <1>7, <1>10, <1>11, <1>12, <1>13, <1>14, <1>15, EntryMoves

LEMMA EntryComes ==
  ASSUME EntriesInv, NEW r \in Rows, Coll!collectionCreate(r)
  PROVE  EntriesInv'
<1>1. /\ row[r] \in Entry /\ want[r] = Coll!NoWant /\ cRevs[r] = << >> /\ row[r] = Coll!NoRow
      /\ want[r] \in Wish /\ cNow \in Instants
  BY EntryParts DEF EntryIsWanted, Coll!collectionCreate, Coll!Stored
<1>2. PICK v \in Values : Coll!Set(r, [status |-> "draft", value |-> v])
                          /\ trail' = [trail EXCEPT ![r] = <<v>>]
  BY DEF Coll!collectionCreate
<1>3. PICK f : f = [status |-> "draft", value |-> v]  OBVIOUS
<1>4. PICK e : e = Coll!Patched(r, f)  OBVIOUS
<1>5. /\ e.value = v /\ e.status = "draft" /\ e.publishedAt = -1
      /\ e.scheduledAt = -1 /\ e.unpublishAt = -1
      /\ e = [status |-> e.status, value |-> e.value, publishedAt |-> e.publishedAt,
              scheduledAt |-> e.scheduledAt, unpublishAt |-> e.unpublishAt]
  <2>1. row[r].publishedAt = -1 /\ row[r].scheduledAt = -1 /\ row[r].unpublishAt = -1
    BY <1>1 DEF Coll!NoRow, Coll!None
  <2> QED  BY <1>3, <1>4, <2>1, EntryPatched
<1>6. e \in Entry  BY <1>5 DEF Entry, InstantOrNone
<1>7. PICK w, revised, told : w = want[r] /\ revised = cRevs[r] /\ told = <<v>>  OBVIOUS
<1>8. revised \in Seq(Values) /\ told \in Seq(Values) /\ Append(revised, v) = told
  BY <1>1, <1>7
<1>9. w.from = -1 /\ w.until = -1 /\ w.up = FALSE  BY <1>1, <1>7 DEF Coll!NoWant, Coll!None
<1>10. EntryIsWanted(e, w, revised, told)  BY <1>5, <1>8, <1>9 DEF EntryIsWanted
<1>11. /\ row' = [row EXCEPT ![r] = e] /\ trail' = [trail EXCEPT ![r] = told]
       /\ UNCHANGED <<cRevs, want, cTasks, cNow>>
  BY <1>2, <1>3, <1>4, <1>7 DEF Coll!Set, Coll!collectionCreate
<1>12. want' = [want EXCEPT ![r] = w] /\ cRevs' = [cRevs EXCEPT ![r] = revised]
  BY <1>7, <1>11 DEF EntriesInv, EntriesTyped
<1>13. cTasks' \subseteq EntryTask /\ e.publishedAt <= cNow /\ OtherTasksStay(r)
  BY <1>1, <1>5, <1>11, CollectionsConstants
     DEF EntriesInv, EntriesTyped, Instants, Coll!CollectionsAssumption, OtherTasksStay
<1> QED  BY <1>1, <1>5, <1>6, <1>7, <1>8, <1>10, <1>11, <1>12, <1>13, EntryMoves

LEMMA EntryGoes ==
  ASSUME EntriesInv, NEW r \in Rows, Coll!collectionDelete(r)
  PROVE  EntriesInv'
<1>1. PICK e, w, h : e = Coll!NoRow /\ w = Coll!NoWant /\ h = << >>  OBVIOUS
<1>2. /\ e \in Entry /\ w \in Wish /\ h \in Seq(Values)
      /\ e.status = "none" /\ e.publishedAt = -1 /\ e.scheduledAt = -1 /\ e.unpublishAt = -1
      /\ w.from = -1 /\ w.until = -1 /\ w.up = FALSE
  BY <1>1 DEF Coll!NoRow, Coll!NoWant, Coll!None, Entry, Wish, InstantOrNone
<1>3. EntryIsWanted(e, w, h, h)  BY <1>1, <1>2 DEF EntryIsWanted
<1>4. /\ row' = [row EXCEPT ![r] = e] /\ trail' = [trail EXCEPT ![r] = h]
      /\ cRevs' = [cRevs EXCEPT ![r] = h] /\ want' = [want EXCEPT ![r] = w]
      /\ UNCHANGED <<cTasks, cNow>>
  BY <1>1 DEF Coll!collectionDelete, Coll!purged
<1>5. cTasks' \subseteq EntryTask /\ e.publishedAt <= cNow /\ OtherTasksStay(r)
  BY <1>2, <1>4, CollectionsConstants
     DEF EntriesInv, EntriesTyped, Instants, Coll!CollectionsAssumption, OtherTasksStay
<1> QED  BY <1>2, <1>3, <1>4, <1>5, EntryMoves

LEMMA EntryGoesUp ==
  ASSUME EntriesInv, NEW r \in Rows, Coll!collectionPublish(r)
  PROVE  EntriesInv'
<1>1. /\ row[r] \in Entry /\ want[r] \in Wish /\ cRevs[r] \in Seq(Values) /\ trail[r] \in Seq(Values)
      /\ EntryIsWanted(row[r], want[r], cRevs[r], trail[r]) /\ cNow \in Instants /\ MaxInstant \in Nat
  BY EntryParts
<1>2. PICK until : until = Coll!spent(r)  OBVIOUS
<1>3. PICK f : f = [status |-> "published", publishedAt |-> cNow, scheduledAt |-> -1,
                    unpublishAt |-> until]  OBVIOUS
<1>4. PICK e : e = Coll!Patched(r, f)  OBVIOUS
<1>5. /\ e.value = row[r].value /\ e.status = "published" /\ e.publishedAt = cNow
      /\ e.scheduledAt = -1 /\ e.unpublishAt = until
      /\ e = [status |-> e.status, value |-> e.value, publishedAt |-> e.publishedAt,
              scheduledAt |-> e.scheduledAt, unpublishAt |-> e.unpublishAt]
  BY <1>3, <1>4, EntryPatched
<1>6. until \in InstantOrNone /\ cNow # -1 /\ cNow \in InstantOrNone /\ cNow <= cNow
      /\ row[r].unpublishAt = want[r].until
  BY <1>1, <1>2 DEF Entry, EntryIsWanted, InstantOrNone, Instants, Coll!spent, Coll!None
<1>7. e \in Entry  BY <1>1, <1>5, <1>6 DEF Entry, InstantOrNone
<1>8. PICK w : w = [up |-> TRUE, from |-> -1, until |-> until]  OBVIOUS
<1>9. w \in Wish /\ w.up = TRUE /\ w.from = -1 /\ w.until = until
  BY <1>6, <1>8 DEF Wish, InstantOrNone
<1>10. row[r].status # "none"  BY DEF Coll!collectionPublish, Coll!Stored
<1>11. EntryIsWanted(e, w, cRevs[r], trail[r])
  BY <1>1, <1>5, <1>6, <1>9, <1>10 DEF EntryIsWanted
<1>12. row' = [row EXCEPT ![r] = e] /\ UNCHANGED <<cRevs, trail, cTasks, cNow>>
  BY <1>2, <1>3, <1>4 DEF Coll!Set, Coll!collectionPublish, Coll!None
<1>13. want' = [want EXCEPT ![r] = w]
  BY <1>2, <1>6, <1>8 DEF Coll!collectionPublish, Coll!None, Coll!spent, EntriesInv, EntriesTyped
<1>14. cRevs' = [cRevs EXCEPT ![r] = cRevs[r]] /\ trail' = [trail EXCEPT ![r] = trail[r]]
  BY <1>12 DEF EntriesInv, EntriesTyped
<1>15. cTasks' \subseteq EntryTask /\ OtherTasksStay(r)
  BY <1>12 DEF EntriesInv, EntriesTyped, OtherTasksStay
<1> QED  BY <1>1, <1>5, <1>6, <1>7, <1>9, <1>11, <1>12, <1>13, <1>14, <1>15, EntryMoves

(* Down for good: an unpublish, a takedown, or both instants behind it.    *)
LEMMA EntryGoesDown ==
  ASSUME EntriesInv, NEW r \in Rows, row[r].status # "none",
         Coll!Set(r, Coll!down), want' = [want EXCEPT ![r] = Coll!NoWant],
         cTasks' \subseteq cTasks, UNCHANGED <<cNow, cRevs, trail>>, OtherTasksStay(r)
  PROVE  EntriesInv'
<1>1. /\ row[r] \in Entry /\ want[r] \in Wish /\ cRevs[r] \in Seq(Values) /\ trail[r] \in Seq(Values)
      /\ EntryIsWanted(row[r], want[r], cRevs[r], trail[r]) /\ cNow \in Instants /\ MaxInstant \in Nat
  BY EntryParts
<1>2. PICK f : f = Coll!down  OBVIOUS
<1>3. f = [status |-> "draft", publishedAt |-> -1, scheduledAt |-> -1, unpublishAt |-> -1]
  BY <1>2 DEF Coll!down, Coll!None
<1>4. PICK e : e = Coll!Patched(r, f)  OBVIOUS
<1>5. /\ e.value = row[r].value /\ e.status = "draft" /\ e.publishedAt = -1
      /\ e.scheduledAt = -1 /\ e.unpublishAt = -1
      /\ e = [status |-> e.status, value |-> e.value, publishedAt |-> e.publishedAt,
              scheduledAt |-> e.scheduledAt, unpublishAt |-> e.unpublishAt]
  BY <1>3, <1>4, EntryPatched
<1>6. e \in Entry  BY <1>1, <1>5 DEF Entry, InstantOrNone
<1>7. PICK w : w = Coll!NoWant  OBVIOUS
<1>8. w \in Wish /\ w.up = FALSE /\ w.from = -1 /\ w.until = -1
  BY <1>7 DEF Wish, Coll!NoWant, Coll!None, InstantOrNone
<1>9. EntryIsWanted(e, w, cRevs[r], trail[r])  BY <1>1, <1>5, <1>8 DEF EntryIsWanted
<1>10. row' = [row EXCEPT ![r] = e] /\ want' = [want EXCEPT ![r] = w]
  BY <1>2, <1>4, <1>7 DEF Coll!Set
<1>11. cRevs' = [cRevs EXCEPT ![r] = cRevs[r]] /\ trail' = [trail EXCEPT ![r] = trail[r]]
  BY DEF EntriesInv, EntriesTyped
<1>12. cTasks' \subseteq EntryTask /\ e.publishedAt <= cNow /\ UNCHANGED cNow
  BY <1>1, <1>5 DEF EntriesInv, EntriesTyped, Instants
<1> QED  BY <1>1, <1>5, <1>6, <1>8, <1>9, <1>10, <1>11, <1>12, EntryMoves

LEMMA EntryIsPlanned ==
  ASSUME EntriesInv, NEW r \in Rows, Coll!collectionSchedule(r)
  PROVE  EntriesInv'
<1>1. /\ row[r] \in Entry /\ want[r] \in Wish /\ cRevs[r] \in Seq(Values) /\ trail[r] \in Seq(Values)
      /\ EntryIsWanted(row[r], want[r], cRevs[r], trail[r]) /\ row[r].publishedAt <= cNow
      /\ row[r].status # "none"
  BY EntryParts DEF Coll!collectionSchedule, Coll!Stored
<1>2. PICK at \in Instants, given \in BOOLEAN :
        \E until \in IF given THEN Instants \cup {-1} ELSE {row[r].unpublishAt} :
          /\ Coll!Set(r, [scheduledAt |-> at, unpublishAt |-> until])
          /\ cTasks' = cTasks
               \cup {[kind |-> "publish", row |-> r, token |-> at]}
               \cup {[kind |-> "unpublish", row |-> r, token |-> u] :
                       u \in IF given THEN {until} \ {-1} ELSE {}}
          /\ want' = [want EXCEPT ![r].from = at, ![r].until = until]
  BY DEF Coll!collectionSchedule, Coll!Times, Coll!None, Instants
<1>3. PICK until \in IF given THEN Instants \cup {-1} ELSE {row[r].unpublishAt} :
          /\ Coll!Set(r, [scheduledAt |-> at, unpublishAt |-> until])
          /\ cTasks' = cTasks
               \cup {[kind |-> "publish", row |-> r, token |-> at]}
               \cup {[kind |-> "unpublish", row |-> r, token |-> u] :
                       u \in IF given THEN {until} \ {-1} ELSE {}}
          /\ want' = [want EXCEPT ![r].from = at, ![r].until = until]
  BY <1>2
<1>4. until \in InstantOrNone  BY <1>1, <1>3 DEF Entry, InstantOrNone
<1>5. PICK f : f = [scheduledAt |-> at, unpublishAt |-> until]  OBVIOUS
<1>6. PICK e : e = Coll!Patched(r, f)  OBVIOUS
<1>7. /\ e.value = row[r].value /\ e.status = row[r].status /\ e.publishedAt = row[r].publishedAt
      /\ e.scheduledAt = at /\ e.unpublishAt = until
      /\ e = [status |-> e.status, value |-> e.value, publishedAt |-> e.publishedAt,
              scheduledAt |-> e.scheduledAt, unpublishAt |-> e.unpublishAt]
  BY <1>5, <1>6, EntryPatched
<1>8. e \in Entry  BY <1>1, <1>4, <1>7 DEF Entry, InstantOrNone
<1>9. PICK w : w = [up |-> want[r].up, from |-> at, until |-> until]  OBVIOUS
<1>10. w \in Wish /\ (w.up <=> want[r].up) /\ w.from = at /\ w.until = until
  BY <1>1, <1>4, <1>9 DEF Wish, InstantOrNone
<1>11. EntryIsWanted(e, w, cRevs[r], trail[r])  BY <1>1, <1>7, <1>10 DEF EntryIsWanted
<1>12. row' = [row EXCEPT ![r] = e]  BY <1>3, <1>5, <1>6 DEF Coll!Set
<1>13. want' = [want EXCEPT ![r] = w]
  <2>1. want' = [want EXCEPT ![r] = [[want[r] EXCEPT !.from = at] EXCEPT !.until = until]]
    BY <1>3 DEF EntriesInv, EntriesTyped
  <2>2. PICK asked : asked = want[r]  OBVIOUS
  <2>3. asked \in Wish  BY <1>1, <2>2
  <2>4. PICK half : half = [asked EXCEPT !.from = at]  OBVIOUS
  <2>5. half = [up |-> asked.up, from |-> at, until |-> asked.until]  BY <2>3, <2>4 DEF Wish
  <2>6. [half EXCEPT !.until = until] = [up |-> asked.up, from |-> at, until |-> until]
    BY <2>5
  <2> QED  BY <1>9, <2>1, <2>2, <2>4, <2>6
<1>14. cTasks' \subseteq EntryTask /\ cTasks \subseteq cTasks' /\ OtherTasksStay(r)
  BY <1>3, <1>4 DEF EntriesInv, EntriesTyped, EntryTask, InstantOrNone, OtherTasksStay
<1>15. PublishTask(r, e.scheduledAt) \in cTasks'  BY <1>3, <1>7 DEF PublishTask
<1>16. UNCHANGED <<cRevs, trail, cNow>>  BY DEF Coll!collectionSchedule
<1>17. cRevs' = [cRevs EXCEPT ![r] = cRevs[r]] /\ trail' = [trail EXCEPT ![r] = trail[r]]
  BY <1>16 DEF EntriesInv, EntriesTyped
<1> QED  BY <1>1, <1>7, <1>8, <1>10, <1>11, <1>12, <1>13, <1>14, <1>15, <1>16, <1>17, EntryMoves

LEMMA EntryTaskParts ==
  ASSUME EntriesInv, NEW t \in cTasks
  PROVE  /\ t.row \in Rows /\ t.token \in Instants /\ t.token \in Int
         /\ t = [kind |-> t.kind, row |-> t.row, token |-> t.token]
  BY EntryParts DEF EntriesInv, EntriesTyped, EntryTask, Instants

(* A stored token is of a stored row.                                      *)
LEMMA EntryWithAToken ==
  ASSUME EntriesInv, NEW r \in Rows,
         row[r].scheduledAt # -1 \/ row[r].unpublishAt # -1
  PROVE  row[r].status # "none"
  BY EntryParts DEF EntryIsWanted, Coll!NoRow, Coll!None

LEMMA EntryPublishRuns ==
  ASSUME EntriesInv, NEW t \in cTasks, Coll!runPublish(t)
  PROVE  EntriesInv'
<1>1. PICK r : r = t.row  OBVIOUS
<1>2. r \in Rows /\ t.token \in Instants /\ row[r].scheduledAt = t.token /\ t.token <= cNow
  BY <1>1, EntryTaskParts DEF Coll!runPublish, Coll!due
<1>3. /\ row[r] \in Entry /\ want[r] \in Wish /\ cRevs[r] \in Seq(Values) /\ trail[r] \in Seq(Values)
      /\ EntryIsWanted(row[r], want[r], cRevs[r], trail[r]) /\ cNow \in Instants /\ MaxInstant \in Nat
  BY <1>2, EntryParts
<1>4. row[r].status # "none" /\ t.token # -1
  BY <1>2, EntryWithAToken DEF Instants
<1>5. want[r].until = row[r].unpublishAt /\ want[r].from = t.token /\ Coll!Begun(want[r].from)
  BY <1>2, <1>3, <1>4 DEF EntryIsWanted, Coll!Begun, Coll!None
<1>6. /\ Coll!Set(r, Coll!published(r))
      /\ want' = [want EXCEPT ![r] =
           IF Coll!Over(want[r].until) THEN Coll!NoWant
           ELSE [up |-> TRUE, from |-> -1, until |-> want[r].until]]
  BY <1>1, <1>5 DEF Coll!runPublish, Coll!None
<1>7. /\ cTasks' \in {cTasks, cTasks \ {t}} /\ UNCHANGED <<cNow, cRevs, trail>>
  BY DEF Coll!runPublish, Coll!settle
<1>8. cTasks' \subseteq cTasks /\ OtherTasksStay(r)  BY <1>1, <1>7 DEF OtherTasksStay
<1>9. CASE Coll!Over(row[r].unpublishAt)
  <2>1. Coll!Set(r, Coll!down) /\ want' = [want EXCEPT ![r] = Coll!NoWant]
    BY <1>5, <1>6, <1>9 DEF Coll!published
  <2> QED  BY <1>2, <1>4, <1>7, <1>8, <2>1, EntryGoesDown
<1>10. CASE ~Coll!Over(row[r].unpublishAt)
  <2>1. PICK f : f = [status |-> "published", publishedAt |-> cNow, scheduledAt |-> -1]  OBVIOUS
  <2>2. PICK e : e = Coll!Patched(r, f)  OBVIOUS
  <2>3. /\ e.value = row[r].value /\ e.status = "published" /\ e.publishedAt = cNow
        /\ e.scheduledAt = -1 /\ e.unpublishAt = row[r].unpublishAt
        /\ e = [status |-> e.status, value |-> e.value, publishedAt |-> e.publishedAt,
                scheduledAt |-> e.scheduledAt, unpublishAt |-> e.unpublishAt]
    BY <2>1, <2>2, EntryPatched
  <2>4. e \in Entry  BY <1>3, <2>3 DEF Entry, InstantOrNone
  <2>5. PICK w : w = [up |-> TRUE, from |-> -1, until |-> want[r].until]  OBVIOUS
  <2>6. w \in Wish /\ w.up = TRUE /\ w.from = -1 /\ w.until = row[r].unpublishAt
    BY <1>3, <1>5, <2>5 DEF Wish, InstantOrNone
  <2>7. cNow # -1 /\ cNow <= cNow  BY <1>3 DEF Instants
  <2>8. EntryIsWanted(e, w, cRevs[r], trail[r])  BY <1>3, <1>4, <2>3, <2>6, <2>7 DEF EntryIsWanted
  <2>9. row' = [row EXCEPT ![r] = e] /\ want' = [want EXCEPT ![r] = w]
    BY <1>5, <1>6, <1>10, <2>1, <2>2, <2>5 DEF Coll!Set, Coll!published, Coll!None
  <2>10. cRevs' = [cRevs EXCEPT ![r] = cRevs[r]] /\ trail' = [trail EXCEPT ![r] = trail[r]]
    BY <1>7 DEF EntriesInv, EntriesTyped
  <2>11. cTasks' \subseteq EntryTask /\ UNCHANGED cNow  BY <1>7, <1>8 DEF EntriesInv, EntriesTyped
  <2> QED  BY <1>2, <1>3, <1>8, <2>3, <2>4, <2>6, <2>7, <2>8, <2>9, <2>10, <2>11, EntryMoves
<1> QED  BY <1>9, <1>10

LEMMA EntryUnpublishRuns ==
  ASSUME EntriesInv, NEW t \in cTasks, Coll!runUnpublish(t)
  PROVE  EntriesInv'
<1>1. PICK r : r = t.row  OBVIOUS
<1>2. r \in Rows /\ t.token \in Instants /\ row[r].unpublishAt = t.token /\ t.token <= cNow
  BY <1>1, EntryTaskParts DEF Coll!runUnpublish, Coll!due
<1>3. row[r].status # "none" /\ t.token # -1
  BY <1>2, EntryWithAToken DEF Instants
<1>4. want[r].until = t.token /\ Coll!Over(want[r].until)
  BY <1>2, <1>3, EntryParts DEF EntryIsWanted, Coll!Over, Coll!None
<1>5. Coll!Set(r, Coll!down) /\ want' = [want EXCEPT ![r] = Coll!NoWant]
  BY <1>1, <1>4 DEF Coll!runUnpublish, Coll!takenDown
<1>6. /\ cTasks' \in {cTasks, cTasks \ {t}} /\ UNCHANGED <<cNow, cRevs, trail>>
  BY DEF Coll!runUnpublish, Coll!settle
<1>7. cTasks' \subseteq cTasks /\ OtherTasksStay(r)  BY <1>1, <1>6 DEF OtherTasksStay
<1> QED  BY <1>2, <1>3, <1>5, <1>6, <1>7, EntryGoesDown

LEMMA EntryStaleRuns ==
  ASSUME EntriesInv, NEW t \in cTasks, Coll!runStale(t)
  PROVE  EntriesInv'
<1>1. PICK r : r = t.row  OBVIOUS
<1>2. /\ cTasks' = cTasks \ {t} /\ UNCHANGED <<cNow, row, cRevs, want, trail>>
      /\ Coll!token(t) # t.token
  BY DEF Coll!runStale
<1>3. r \in Rows  BY <1>1, EntryTaskParts
<1>4. PublishTask(r, row[r].scheduledAt) # t
  BY <1>1, <1>2 DEF PublishTask, Coll!token
<1>5. row[r].scheduledAt # -1 => PublishTask(r, row[r].scheduledAt) \in cTasks'
  BY <1>2, <1>3, <1>4, EntryParts
<1>6. /\ row' = [row EXCEPT ![r] = row[r]] /\ want' = [want EXCEPT ![r] = want[r]]
      /\ cRevs' = [cRevs EXCEPT ![r] = cRevs[r]] /\ trail' = [trail EXCEPT ![r] = trail[r]]
      /\ cTasks' \subseteq EntryTask
  BY <1>2 DEF EntriesInv, EntriesTyped
<1>7. OtherTasksStay(r)  BY <1>1, <1>2 DEF OtherTasksStay
<1>8. /\ row[r] \in Entry /\ want[r] \in Wish /\ cRevs[r] \in Seq(Values) /\ trail[r] \in Seq(Values)
      /\ EntryIsWanted(row[r], want[r], cRevs[r], trail[r]) /\ row[r].publishedAt <= cNow
  BY <1>3, EntryParts
<1>9. PICK e : e = row[r]  OBVIOUS
<1>10. CASE e.scheduledAt = -1
  BY <1>2, <1>3, <1>6, <1>7, <1>8, <1>9, <1>10, EntryMoves
<1>11. CASE e.scheduledAt # -1
  <2>1. PublishTask(r, e.scheduledAt) \in cTasks'  BY <1>5, <1>9, <1>11
  <2> QED  BY <1>2, <1>3, <1>6, <1>7, <1>8, <1>9, <2>1, EntryMoves
<1> QED  BY <1>10, <1>11

LEMMA EntriesTick ==
  ASSUME EntriesInv, Coll!tick
  PROVE  EntriesInv'
<1>1. /\ cNow < MaxInstant /\ cNow' = cNow + 1 /\ MaxInstant \in Nat
      /\ UNCHANGED <<row, cRevs, cTasks, want, trail>>
  BY CollectionsConstants DEF Coll!tick, Coll!CollectionsAssumption
<1>2. cNow \in Instants /\ cNow' \in Instants  BY <1>1 DEF Instants, EntriesInv, EntriesTyped
<1>3. EntriesTyped'  BY <1>1, <1>2 DEF EntriesInv, EntriesTyped
<1>4. ASSUME NEW q \in Rows
      PROVE  /\ EntryIsWanted(row[q], want[q], cRevs[q], trail[q])'
             /\ (row[q].publishedAt <= cNow)'
             /\ (row[q].scheduledAt # -1 => PublishTask(q, row[q].scheduledAt) \in cTasks)'
  <2>1. row[q].publishedAt \in Int /\ cNow \in Int
    BY <1>2, EntryParts DEF Entry, InstantOrNone, Instants
  <2>2. EntryIsWanted(row[q], want[q], cRevs[q], trail[q])  BY EntryParts
  <2>3. EntryIsWanted(row[q], want[q], cRevs[q], trail[q])'  BY <1>1, <2>2 DEF EntryIsWanted
  <2> QED  BY <1>1, <2>1, <2>3, EntryParts
<1> QED  BY <1>3, <1>4 DEF EntriesInv

LEMMA EntriesStart == Coll!Init => EntriesInv
<1> SUFFICES ASSUME Coll!Init PROVE EntriesInv  OBVIOUS
<1> USE DEF Coll!Init
<1>1. MaxInstant \in Nat  BY CollectionsConstants DEF Coll!CollectionsAssumption
<1>2. PICK e, w : e = Coll!NoRow /\ w = Coll!NoWant  OBVIOUS
<1>3. /\ e \in Entry /\ w \in Wish
      /\ e.status = "none" /\ e.publishedAt = -1 /\ e.scheduledAt = -1 /\ e.unpublishAt = -1
      /\ w.from = -1 /\ w.until = -1 /\ w.up = FALSE
  BY <1>2 DEF Coll!NoRow, Coll!NoWant, Coll!None, Entry, Wish, InstantOrNone
<1>4. /\ row = [r \in Rows |-> e] /\ want = [r \in Rows |-> w] /\ cNow = 0 /\ cTasks = {}
      /\ cRevs = [r \in Rows |-> << >>] /\ trail = [r \in Rows |-> << >>]
  BY <1>2
<1>5. EntriesTyped  BY <1>1, <1>3, <1>4 DEF EntriesTyped, Instants
<1>6. EntryIsWanted(e, w, << >>, << >>)  BY <1>2, <1>3 DEF EntryIsWanted
<1> QED  BY <1>3, <1>4, <1>5, <1>6 DEF EntriesInv

LEMMA EntriesStep ==
  ASSUME EntriesInv, Coll!Next
  PROVE  EntriesInv'
<1>1. ASSUME NEW r \in Rows, Coll!collectionUpdate(r) \/ Coll!collectionRestoreRevision(r)
      PROVE  EntriesInv'
  BY <1>1, EntryWrites DEF Coll!collectionUpdate, Coll!collectionRestoreRevision
<1>2. ASSUME NEW r \in Rows, Coll!collectionUnpublish(r)  PROVE EntriesInv'
  BY <1>2, EntryGoesDown DEF Coll!collectionUnpublish, Coll!Stored, OtherTasksStay
<1> QED
  BY <1>1, <1>2, EntryComes, EntryGoes, EntryGoesUp, EntryIsPlanned, EntryPublishRuns,
     EntryUnpublishRuns, EntryStaleRuns, EntriesTick
     DEF Coll!Next

(* A shown row is up and its takedown is ahead; a scheduled publish whose  *)
(* instant has passed still has its task, which is due.                    *)
LEMMA EntriesAreKept ==
  ASSUME EntriesInv
  PROVE  Coll!ShownAsWanted /\ Coll!HistoryIsComplete
<1>1. ASSUME NEW r \in Rows
      PROVE  /\ Coll!Shown(r) => Coll!Wanted(r)
             /\ (\A t \in cTasks : t.row = r => ~Coll!due(t)) => (Coll!Shown(r) <=> Coll!Wanted(r))
             /\ Coll!Stored(r) => Append(cRevs[r], row[r].value) = trail[r]
  <2>1. /\ want[r].from = row[r].scheduledAt /\ want[r].until = row[r].unpublishAt
        /\ (want[r].up <=> row[r].status = "published") /\ row[r].publishedAt <= cNow
    BY EntryParts DEF EntryIsWanted
  <2>2. Coll!Shown(r) <=> want[r].up /\ ~Coll!Over(want[r].until)
    BY <2>1 DEF Coll!Shown
  <2>3. ASSUME Coll!Begun(want[r].from), \A t \in cTasks : t.row = r => ~Coll!due(t)  PROVE FALSE
    <3>1. row[r].scheduledAt # -1 /\ row[r].scheduledAt <= cNow
      BY <2>1, <2>3 DEF Coll!Begun, Coll!None
    <3>2. PICK t \in cTasks : t = PublishTask(r, row[r].scheduledAt)  BY <3>1, EntryParts
    <3>3. t.row = r /\ t.token = row[r].scheduledAt  BY <3>2 DEF PublishTask
    <3> QED  BY <2>3, <3>1, <3>3 DEF Coll!due
  <2>4. Coll!Stored(r) => Append(cRevs[r], row[r].value) = trail[r]
    BY EntryParts DEF EntryIsWanted, Coll!Stored
  <2> QED  BY <2>2, <2>3, <2>4 DEF Coll!Wanted
<1> QED  BY <1>1 DEF Coll!ShownAsWanted, Coll!HistoryIsComplete

-----------------------------------------------------------------------------
(* Page content.  An address is of one stored page; a form holds what its  *)
(* version held; a group is the page its translations descend from, and a  *)
(* page from before the column stands alone.                               *)
SlugOrNone == Slugs \cup {0}
LocaleOrNone == Locales \cup {0}
IdOrNone == Ids \cup {0}
PageRow == [state : {"unborn", "live", "trashed", "purged"}, slug : SlugOrNone,
            locale : LocaleOrNone, group : IdOrNone, version : Nat, columns : 0..1]
SeenOnForm == {<< >>} \cup (SlugOrNone \X LocaleOrNone \X (0..1))
FormRow == [page : IdOrNone, version : Nat, seen : SeenOnForm]

ContentTyped ==
  saved \in [Ids -> PageRow] /\ form \in [Editors -> FormRow] /\ origin \in [Ids -> Ids]

OneStoredAt(p, q) ==
  Content!Stored(p) /\ Content!Stored(q) /\ saved[p].slug = saved[q].slug
    /\ saved[p].locale = saved[q].locale => p = q

FormMatches(e) ==
  LET p == form[e].page IN
  p # 0 =>
    /\ saved[p].state # "unborn"
    /\ Content!Stored(p) =>
         /\ form[e].version <= saved[p].version
         /\ form[e].version = saved[p].version => Content!Own(saved[p]) = form[e].seen

Descends(p) ==
  /\ saved[p].state = "unborn" => origin[p] = p
  /\ origin[p] # p => saved[origin[p]].state # "unborn"
  /\ Content!Stored(p) =>
       IF saved[p].group = 0 THEN origin[p] = p ELSE saved[p].group = origin[p]

Alone(p, q) ==
  p # q /\ Content!Stored(p) /\ Content!Stored(q) /\ saved[p].group = 0 => origin[q] # p

ContentInv ==
  /\ ContentTyped
  /\ \A p \in Ids : Descends(p)
  /\ \A p, q \in Ids : OneStoredAt(p, q)
  /\ \A p, q \in Ids : Alone(p, q)
  /\ \A e \in Editors : FormMatches(e)

LEMMA ContentParts ==
  ASSUME ContentInv, NEW p \in Ids
  PROVE  /\ saved[p] \in PageRow /\ origin[p] \in Ids /\ p # 0
         /\ Descends(p)
         /\ saved[p].version \in Nat /\ saved[p].group \in IdOrNone
  BY ContentConstants DEF ContentInv, ContentTyped, PageRow, Content!PageContentAssumption

(* A write of one row of the table.                                        *)
LEMMA ContentRowMoves ==
  ASSUME ContentInv, NEW p \in Ids, NEW written \in PageRow,
         saved' = [saved EXCEPT ![p] = written]
  PROVE  /\ saved' \in [Ids -> PageRow] /\ saved'[p] = written
         /\ \A q \in Ids : q # p => saved'[q] = saved[q]
  BY DEF ContentInv, ContentTyped

LEMMA SlugsStayApart ==
  ASSUME ContentInv, NEW p \in Ids, NEW written \in PageRow,
         saved' = [saved EXCEPT ![p] = written],
         \/ written.state = "purged"
         \/ Content!Stored(p) /\ written.slug = saved[p].slug /\ written.locale = saved[p].locale
         \/ Content!slugFree(written.slug, written.locale, {p})
  PROVE  \A a, b \in Ids : OneStoredAt(a, b)'
<1>1. /\ saved'[p] = written
      /\ \A q \in Ids : q # p => saved'[q] = saved[q]
  BY ContentRowMoves
<1>2. \A a, b \in Ids : OneStoredAt(a, b)  BY DEF ContentInv
<1>3. ASSUME NEW q \in Ids, q # p
      PROVE  OneStoredAt(p, q)' /\ OneStoredAt(q, p)'
  <2>1. saved'[q] = saved[q]  BY <1>1, <1>3
  <2>2. CASE written.state = "purged"
    BY <1>1, <2>2 DEF OneStoredAt, Content!Stored
  <2>3. CASE Content!Stored(p) /\ written.slug = saved[p].slug /\ written.locale = saved[p].locale
    <3>1. OneStoredAt(p, q)  BY <1>2
    <3> QED  BY <1>1, <1>3, <2>1, <2>3, <3>1 DEF OneStoredAt, Content!Stored
  <2>4. CASE Content!slugFree(written.slug, written.locale, {p})
    <3>1. Content!Stored(q) => <<saved[q].slug, saved[q].locale>> # <<written.slug, written.locale>>
      BY <1>3, <2>4 DEF Content!slugFree
    <3> QED  BY <1>1, <2>1, <3>1 DEF OneStoredAt, Content!Stored
  <2> QED  BY <2>2, <2>3, <2>4
<1>4. ASSUME NEW a \in Ids, NEW b \in Ids  PROVE OneStoredAt(a, b)'
  <2>1. CASE a # p /\ b # p
    <3>1. saved'[a] = saved[a] /\ saved'[b] = saved[b] /\ OneStoredAt(a, b)  BY <1>1, <1>2, <2>1
    <3> QED  BY <3>1 DEF OneStoredAt, Content!Stored
  <2>2. CASE a = b  BY <2>2 DEF OneStoredAt
  <2> QED  BY <1>3, <2>1, <2>2
<1> QED  BY <1>4

(* What is written either leaves the columns and the version as they are   *)
(* or comes with a newer version.                                          *)
LEMMA FormsStayMatched ==
  ASSUME ContentInv, NEW p \in Ids, NEW written \in PageRow,
         saved' = [saved EXCEPT ![p] = written], written.state # "unborn",
         \/ written.state = "purged"
         \/ saved[p].state = "unborn"
         \/ Content!Stored(p) /\ written.version = saved[p].version
              /\ Content!Own(written) = Content!Own(saved[p])
         \/ Content!Stored(p) /\ written.version > saved[p].version,
         NEW e \in Editors, form'[e] = form[e]
  PROVE  FormMatches(e)'
<1>1. /\ saved'[p] = written
      /\ \A q \in Ids : q # p => saved'[q] = saved[q]
  BY ContentRowMoves
<1>2. FormMatches(e) /\ form[e].page \in IdOrNone /\ form[e].version \in Nat
  BY DEF ContentInv, ContentTyped, FormRow
<1>3. written.version \in Nat /\ saved[p].version \in Nat  BY ContentParts DEF PageRow
<1>4. PICK q : q = form[e].page  OBVIOUS
<1>5. CASE q = 0  BY <1>4, <1>5 DEF FormMatches
<1>6. CASE q # 0 /\ q # p
  <2>1. q \in Ids /\ saved'[q] = saved[q]  BY <1>1, <1>2, <1>4, <1>6 DEF IdOrNone
  <2> QED  BY <1>2, <1>4, <2>1 DEF FormMatches, Content!Stored, Content!Own
<1>7. CASE q = p
  <2>0. p # 0  BY ContentParts
  <2>1. saved[p].state # "unborn"  BY <1>2, <1>4, <1>7, <2>0 DEF FormMatches
  <2>2. CASE written.state = "purged"
    BY <1>1, <1>4, <1>7, <2>2 DEF FormMatches, Content!Stored
  <2>3. CASE Content!Stored(p) /\ written.version = saved[p].version
              /\ Content!Own(written) = Content!Own(saved[p])
    BY <1>1, <1>2, <1>4, <1>7, <2>0, <2>3 DEF FormMatches, Content!Stored
  <2>4. CASE Content!Stored(p) /\ written.version > saved[p].version
    <3>1. form[e].version <= saved[p].version
      BY <1>2, <1>4, <1>7, <2>0, <2>4 DEF FormMatches
    <3>2. form[e].version < written.version  BY <1>2, <1>3, <2>4, <3>1
    <3> QED  BY <1>1, <1>2, <1>3, <1>4, <1>7, <3>2 DEF FormMatches
  <2> QED  BY <2>1, <2>2, <2>3, <2>4
<1> QED  BY <1>5, <1>6, <1>7

LEMMA DescentStays ==
  ASSUME ContentInv, NEW p \in Ids, NEW written \in PageRow,
         saved' = [saved EXCEPT ![p] = written], UNCHANGED origin,
         written.state # "unborn", saved[p].state # "unborn",
         (Content!Stored(p) /\ written.group = saved[p].group) \/ written.state = "purged"
  PROVE  /\ \A q \in Ids : Descends(q)'
         /\ \A a, b \in Ids : Alone(a, b)'
<1>1. /\ saved'[p] = written
      /\ \A q \in Ids : q # p => saved'[q] = saved[q]
  BY ContentRowMoves
<1>2. \A q \in Ids : /\ saved'[q].state = "unborn" <=> saved[q].state = "unborn"
                     /\ Content!Stored(q)' => Content!Stored(q) /\ saved'[q].group = saved[q].group
  BY <1>1 DEF Content!Stored
<1>3. ASSUME NEW q \in Ids  PROVE Descends(q)'
  BY <1>2, ContentParts DEF Descends
<1>4. ASSUME NEW a \in Ids, NEW b \in Ids  PROVE Alone(a, b)'
  <2>1. Alone(a, b)  BY DEF ContentInv
  <2>2. Content!Stored(a)' => Content!Stored(a) /\ saved'[a].group = saved[a].group  BY <1>2
  <2>3. Content!Stored(b)' => Content!Stored(b)  BY <1>2
  <2> QED  BY <2>1, <2>2, <2>3 DEF Alone
<1> QED  BY <1>3, <1>4

(* A page comes with an address nothing stored has and a group of its own  *)
(* or of the page it was made of.                                          *)
LEMMA ContentCreates ==
  ASSUME ContentInv, NEW p \in Ids, Content!createPage(p)
  PROVE  ContentInv'
<1>1. PICK slug \in Slugs, locale \in Locales :
        /\ Content!slugFree(slug, locale, {})
        /\ saved' = [saved EXCEPT ![p] = Content!Born(slug, locale, p)]
  BY DEF Content!createPage
<1>2. saved[p].state = "unborn" /\ UNCHANGED <<form, origin>>  BY DEF Content!createPage
<1>3. PICK written : written = Content!Born(slug, locale, p)  OBVIOUS
<1>4. saved' = [saved EXCEPT ![p] = written]  BY <1>1, <1>3
<1>5. written \in PageRow
  BY <1>3 DEF Content!Born, PageRow, SlugOrNone, LocaleOrNone, IdOrNone
<1>6. written.state = "live" /\ written.slug = slug /\ written.locale = locale /\ written.group = p
  BY <1>3 DEF Content!Born
<1>7. /\ saved' \in [Ids -> PageRow] /\ saved'[p] = written
      /\ \A q \in Ids : q # p => saved'[q] = saved[q]
  BY <1>4, <1>5, ContentRowMoves
<1>8. ContentTyped'  BY <1>2, <1>7 DEF ContentInv, ContentTyped
<1>9. Content!slugFree(written.slug, written.locale, {p})
  BY <1>1, <1>6 DEF Content!slugFree
<1>10. \A a, b \in Ids : OneStoredAt(a, b)'  BY <1>4, <1>5, <1>9, SlugsStayApart
<1>11. ASSUME NEW e \in Editors  PROVE FormMatches(e)'
  <2>1. form'[e] = form[e] /\ written.state # "unborn"  BY <1>2, <1>6
  <2> QED  BY <1>2, <1>4, <1>5, <2>1, FormsStayMatched
<1>12. origin[p] = p /\ p # 0  BY <1>2, ContentParts DEF Descends
<1>13. ASSUME NEW q \in Ids  PROVE Descends(q)'
  <2>1. CASE q = p  BY <1>2, <1>6, <1>7, <1>12, <2>1 DEF Descends, Content!Stored
  <2>2. CASE q # p
    <3>1. saved'[q] = saved[q] /\ Descends(q) /\ origin[q] \in Ids  BY <1>7, <2>2, ContentParts
    <3>2. saved[origin[q]].state # "unborn" => saved'[origin[q]].state # "unborn"
      BY <1>2, <1>7, <3>1
    <3> QED  BY <1>2, <3>1, <3>2 DEF Descends, Content!Stored
  <2> QED  BY <2>1, <2>2
<1>14. ASSUME NEW a \in Ids, NEW b \in Ids  PROVE Alone(a, b)'
  <2>1. CASE a = p  BY <1>6, <1>7, <1>12, <2>1 DEF Alone
  <2>2. CASE b = p  BY <1>2, <1>12, <2>2 DEF Alone
  <2>3. CASE a # p /\ b # p
    <3>1. saved'[a] = saved[a] /\ saved'[b] = saved[b] /\ Alone(a, b)
      BY <1>7, <2>3 DEF ContentInv
    <3> QED  BY <1>2, <3>1 DEF Alone, Content!Stored
  <2> QED  BY <2>1, <2>2, <2>3
<1> QED  BY <1>8, <1>10, <1>11, <1>13, <1>14 DEF ContentInv

LEMMA ContentTranslates ==
  ASSUME ContentInv, NEW src \in Ids, NEW p \in Ids, Content!createTranslation(src, p)
  PROVE  ContentInv'
<1>1. PICK group : group = Content!groupOf(src)  OBVIOUS
<1>2. PICK locale \in Locales, slug \in Slugs :
        /\ Content!slugFree(slug, locale, {})
        /\ saved' = [saved EXCEPT
            ![src].group = group, ![p] = Content!Born(slug, locale, group)]
  BY <1>1 DEF Content!createTranslation
<1>3. /\ saved[p].state = "unborn" /\ saved[src].state = "live" /\ p # src
      /\ origin' = [origin EXCEPT ![p] = origin[src]] /\ UNCHANGED form
  BY DEF Content!createTranslation, Content!Visible
<1>4. group = origin[src] /\ origin[src] \in Ids /\ origin[src] # 0 /\ src # 0
  <2>1. Descends(src) /\ Content!Stored(src) /\ origin[src] \in Ids /\ src # 0
    BY <1>3, ContentParts DEF Content!Stored
  <2>2. group = IF saved[src].group = 0 THEN src ELSE saved[src].group
    BY <1>1 DEF Content!groupOf, Content!None
  <2>3. group = origin[src]  BY <2>1, <2>2 DEF Descends
  <2> QED  BY <2>1, <2>3, ContentParts
<1>5. PICK grouped : grouped = [saved[src] EXCEPT !.group = group]  OBVIOUS
<1>6. PICK written : written = Content!Born(slug, locale, group)  OBVIOUS
<1>7. written \in PageRow /\ written.state = "live" /\ written.slug = slug
      /\ written.locale = locale /\ written.group = group
  BY <1>4, <1>6 DEF Content!Born, PageRow, SlugOrNone, LocaleOrNone, IdOrNone
<1>8. /\ grouped \in PageRow /\ grouped.group = group /\ grouped.state = "live"
      /\ grouped.slug = saved[src].slug /\ grouped.locale = saved[src].locale
      /\ grouped.version = saved[src].version /\ grouped.columns = saved[src].columns
  BY <1>3, <1>4, <1>5, ContentParts DEF PageRow, IdOrNone
<1>9. /\ saved' \in [Ids -> PageRow] /\ saved'[p] = written /\ saved'[src] = grouped
      /\ \A q \in Ids : q # p /\ q # src => saved'[q] = saved[q]
  <2>1. saved' = [saved EXCEPT ![src] = grouped, ![p] = written]
    BY <1>2, <1>5, <1>6 DEF ContentInv, ContentTyped
  <2> QED  BY <1>3, <1>7, <1>8, <2>1 DEF ContentInv, ContentTyped
<1>10. /\ origin' \in [Ids -> Ids] /\ origin'[p] = origin[src]
       /\ \A q \in Ids : q # p => origin'[q] = origin[q]
  BY <1>3, <1>4 DEF ContentInv, ContentTyped
<1>11. ContentTyped'  BY <1>3, <1>9, <1>10 DEF ContentInv, ContentTyped
<1>12. ASSUME NEW q \in Ids, q # p
       PROVE  /\ saved'[q].state = saved[q].state /\ saved'[q].slug = saved[q].slug
              /\ saved'[q].locale = saved[q].locale /\ saved'[q].version = saved[q].version
              /\ saved'[q].columns = saved[q].columns
              /\ Content!Stored(q)' <=> Content!Stored(q)
  BY <1>3, <1>8, <1>9, <1>12 DEF Content!Stored
<1>13. ASSUME NEW q \in Ids, q # p
       PROVE  OneStoredAt(p, q)' /\ OneStoredAt(q, p)'
  <2>1. Content!Stored(q) => <<saved[q].slug, saved[q].locale>> # <<slug, locale>>
    BY <1>2 DEF Content!slugFree
  <2> QED  BY <1>7, <1>9, <1>12, <1>13, <2>1 DEF OneStoredAt
<1>14. ASSUME NEW a \in Ids, NEW b \in Ids  PROVE OneStoredAt(a, b)'
  <2>1. CASE a # p /\ b # p
    <3>1. OneStoredAt(a, b)  BY DEF ContentInv
    <3> QED  BY <1>12, <2>1, <3>1 DEF OneStoredAt
  <2>2. CASE a = b  BY <2>2 DEF OneStoredAt
  <2> QED  BY <1>13, <2>1, <2>2
<1>15. ASSUME NEW e \in Editors  PROVE FormMatches(e)'
  <2>1. FormMatches(e) /\ form'[e] = form[e] /\ form[e].page \in IdOrNone
    BY <1>3 DEF ContentInv, ContentTyped, FormRow
  <2>2. PICK q : q = form[e].page  OBVIOUS
  <2>3. CASE q = 0  BY <2>1, <2>2, <2>3 DEF FormMatches
  <2>4. CASE q # 0
    <3>1. q \in Ids /\ saved[q].state # "unborn"  BY <2>1, <2>2, <2>4 DEF FormMatches, IdOrNone
    <3>2. q # p  BY <1>3, <3>1
    <3> QED  BY <1>12, <2>1, <2>2, <2>4, <3>1, <3>2 DEF FormMatches, Content!Own
  <2> QED  BY <2>3, <2>4
<1>16. ASSUME NEW q \in Ids  PROVE Descends(q)'
  <2>1. Descends(q) /\ Descends(src) /\ origin[q] \in Ids  BY ContentParts
  <2>2. origin[src] # src => saved[origin[src]].state # "unborn"  BY <2>1 DEF Descends
  <2>3. saved[origin[src]].state # "unborn"  BY <1>3, <2>2
  <2>4. origin[src] # p  BY <1>3, <2>3
  <2>5. CASE q = p
    <3>1. saved'[origin[src]].state # "unborn"  BY <1>4, <1>12, <2>3, <2>4
    <3> QED  BY <1>4, <1>7, <1>9, <1>10, <2>5, <3>1 DEF Descends, Content!Stored
  <2>6. CASE q # p
    <3>1. origin'[q] = origin[q]  BY <1>10, <2>6
    <3>2. saved[origin[q]].state # "unborn" => saved'[origin[q]].state # "unborn"
      BY <1>3, <1>12, <2>1
    <3>3. CASE q = src
      BY <1>3, <1>4, <1>8, <1>9, <2>1, <3>1, <3>2, <3>3 DEF Descends, Content!Stored
    <3>4. CASE q # src
      <4>1. saved'[q] = saved[q]  BY <1>9, <2>6, <3>4
      <4> QED  BY <2>1, <3>1, <3>2, <4>1 DEF Descends, Content!Stored
    <3> QED  BY <3>3, <3>4
  <2> QED  BY <2>5, <2>6
<1>17. ASSUME NEW a \in Ids, NEW b \in Ids  PROVE Alone(a, b)'
  <2>1. CASE a = p  BY <1>4, <1>7, <1>9, <2>1 DEF Alone
  <2>2. CASE a = src  BY <1>4, <1>8, <1>9, <2>2 DEF Alone
  <2>3. CASE a # p /\ a # src
    <3>1. saved'[a] = saved[a] /\ Alone(a, b) /\ Alone(a, src)
      BY <1>9, <2>3 DEF ContentInv
    <3>2. Content!Stored(a)' <=> Content!Stored(a)  BY <3>1 DEF Content!Stored
    <3>3. CASE b = p
      <4>1. Content!Stored(src)  BY <1>3 DEF Content!Stored
      <4> QED  BY <1>10, <2>3, <3>1, <3>2, <3>3, <4>1 DEF Alone
    <3>4. CASE b # p
      <4>1. origin'[b] = origin[b] /\ (Content!Stored(b)' <=> Content!Stored(b))
        BY <1>10, <1>12, <3>4
      <4> QED  BY <3>1, <3>2, <4>1 DEF Alone
    <3> QED  BY <3>3, <3>4
  <2> QED  BY <2>1, <2>2, <2>3
<1> QED  BY <1>11, <1>14, <1>15, <1>16, <1>17 DEF ContentInv

LEMMA OpensForm ==
  ASSUME ContentInv, NEW e \in Editors, NEW p \in Ids, Content!open(e, p)
  PROVE  ContentInv'
<1>1. PICK f : f = [page |-> p, version |-> saved[p].version, seen |-> Content!Own(saved[p])]
  OBVIOUS
<1>2. form' = [form EXCEPT ![e] = f] /\ UNCHANGED <<saved, origin>> /\ saved[p].state = "live"
  BY <1>1 DEF Content!open, Content!Visible
<1>3. saved[p] \in PageRow  BY ContentParts
<1>4. Content!Own(saved[p]) \in SeenOnForm  BY <1>3 DEF Content!Own, SeenOnForm, PageRow
<1>5. f \in FormRow  BY <1>1, <1>3, <1>4 DEF FormRow, PageRow, IdOrNone
<1>6. ContentTyped'  BY <1>2, <1>5 DEF ContentInv, ContentTyped
<1>7. ASSUME NEW a \in Editors  PROVE FormMatches(a)'
  <2>1. CASE a = e
    <3>1. form'[a] = f  BY <1>2, <2>1 DEF ContentInv, ContentTyped
    <3>2. f.page = p /\ f.version = saved[p].version /\ f.seen = Content!Own(saved[p])  BY <1>1
    <3>3. saved[p].version \in Nat  BY ContentParts
    <3> QED  BY <1>2, <3>1, <3>2, <3>3 DEF FormMatches, Content!Own
  <2>2. CASE a # e
    <3>1. form'[a] = form[a] /\ FormMatches(a)  BY <1>2, <2>2 DEF ContentInv, ContentTyped
    <3> QED  BY <1>2, <3>1 DEF FormMatches, Content!Stored, Content!Own
  <2> QED  BY <2>1, <2>2
<1>8. \A q \in Ids : Descends(q)'
  BY <1>2 DEF ContentInv, Descends, Content!Stored
<1>9. \A a, b \in Ids : OneStoredAt(a, b)'
  BY <1>2 DEF ContentInv, OneStoredAt, Content!Stored
<1>10. \A a, b \in Ids : Alone(a, b)'
  BY <1>2 DEF ContentInv, Alone, Content!Stored
<1> QED  BY <1>6, <1>7, <1>8, <1>9, <1>10 DEF ContentInv

(* A save: a free address or the one it had, and the next version.         *)
LEMMA SavesPage ==
  ASSUME ContentInv, NEW e \in Editors, NEW p \in Ids, saved[p].state = "live",
         NEW written \in PageRow, Content!Save(e, p, written),
         written.state = "live", written.group = saved[p].group,
         written.version = saved[p].version + 1,
         \/ written.slug = saved[p].slug /\ written.locale = saved[p].locale
         \/ Content!slugFree(written.slug, written.locale, {p})
  PROVE  ContentInv'
<1>1. PICK f : f = [page |-> p, version |-> written.version, seen |-> Content!Own(written)]
  OBVIOUS
<1>2. /\ saved' = [saved EXCEPT ![p] = written] /\ UNCHANGED origin
      /\ form' \in {form, [form EXCEPT ![e] = f]}
  BY <1>1 DEF Content!Save
<1>3. Content!Own(written) \in SeenOnForm /\ written.version \in Nat /\ saved[p].version \in Nat
  BY ContentParts DEF Content!Own, SeenOnForm, PageRow
<1>4. f \in FormRow  BY <1>1, <1>3 DEF FormRow, IdOrNone
<1>5. saved' \in [Ids -> PageRow] /\ saved'[p] = written  BY <1>2, ContentRowMoves
<1>6. ContentTyped'  BY <1>2, <1>4, <1>5 DEF ContentInv, ContentTyped
<1>7. Content!Stored(p) /\ written.version > saved[p].version  BY <1>3 DEF Content!Stored
<1>8. \A a, b \in Ids : OneStoredAt(a, b)'  BY <1>2, <1>7, SlugsStayApart
<1>9. (\A q \in Ids : Descends(q)') /\ \A a, b \in Ids : Alone(a, b)'
  BY <1>2, <1>7, DescentStays
<1>10. ASSUME NEW a \in Editors  PROVE FormMatches(a)'
  <2>1. CASE form'[a] = form[a]
    <3>1. written.state # "unborn"  OBVIOUS
    <3> QED  BY <1>2, <1>7, <2>1, <3>1, FormsStayMatched
  <2>2. CASE form'[a] # form[a]
    <3>1. a = e /\ form'[a] = f  BY <1>2, <2>2 DEF ContentInv, ContentTyped
    <3>2. f.page = p /\ f.version = written.version /\ f.seen = Content!Own(written)  BY <1>1
    <3> QED  BY <1>3, <1>5, <3>1, <3>2 DEF FormMatches
  <2> QED  BY <2>1, <2>2
<1> QED  BY <1>6, <1>8, <1>9, <1>10 DEF ContentInv

LEMMA UpdatesPage ==
  ASSUME ContentInv, NEW e \in Editors, NEW p \in Ids, Content!updatePage(e, p)
  PROVE  ContentInv'
<1>1. PICK expected \in {0, form[e].version} : \E version \in Content!nextVersion(saved[p], expected),
        slug \in Slugs, locale \in Locales, columns \in 0..1 :
       /\ \/ <<slug, locale>> = <<saved[p].slug, saved[p].locale>>
          \/ Content!slugAllowed(slug) /\ Content!slugFree(slug, locale, {p})
       /\ Content!Save(e, p, [saved[p] EXCEPT !.version = version, !.slug = slug,
                                     !.locale = locale, !.columns = columns])
  BY DEF Content!updatePage, Content!None
<1>2. PICK version \in Content!nextVersion(saved[p], expected),
        slug \in Slugs, locale \in Locales, columns \in 0..1 :
       /\ \/ <<slug, locale>> = <<saved[p].slug, saved[p].locale>>
          \/ Content!slugAllowed(slug) /\ Content!slugFree(slug, locale, {p})
       /\ Content!Save(e, p, [saved[p] EXCEPT !.version = version, !.slug = slug,
                                     !.locale = locale, !.columns = columns])
  BY <1>1
<1>3. saved[p].state = "live" /\ saved[p] \in PageRow /\ saved[p].version \in Nat
      /\ version = saved[p].version + 1
  BY <1>2, ContentParts DEF Content!updatePage, Content!Visible, Content!nextVersion
<1>4. PICK was : was = saved[p]  OBVIOUS
<1>5. PICK w1 : w1 = [was EXCEPT !.version = version]  OBVIOUS
<1>6. w1 = [state |-> was.state, slug |-> was.slug, locale |-> was.locale, group |-> was.group,
            version |-> version, columns |-> was.columns]
  BY <1>3, <1>4, <1>5 DEF PageRow
<1>7. PICK w2 : w2 = [w1 EXCEPT !.slug = slug]  OBVIOUS
<1>8. w2 = [state |-> was.state, slug |-> slug, locale |-> was.locale, group |-> was.group,
            version |-> version, columns |-> was.columns]
  BY <1>6, <1>7
<1>9. PICK w3 : w3 = [w2 EXCEPT !.locale = locale]  OBVIOUS
<1>10. w3 = [state |-> was.state, slug |-> slug, locale |-> locale, group |-> was.group,
             version |-> version, columns |-> was.columns]
  BY <1>8, <1>9
<1>11. PICK written : written = [w3 EXCEPT !.columns = columns]  OBVIOUS
<1>12. written = [state |-> was.state, slug |-> slug, locale |-> locale, group |-> was.group,
                  version |-> version, columns |-> columns]
  BY <1>10, <1>11
<1>13. Content!Save(e, p, written)  BY <1>2, <1>4, <1>5, <1>7, <1>9, <1>11
<1>14. /\ written.state = "live" /\ written.group = saved[p].group
       /\ written.version = saved[p].version + 1 /\ written.slug = slug /\ written.locale = locale
  BY <1>3, <1>4, <1>12
<1>15. written \in PageRow
  BY <1>3, <1>4, <1>12 DEF PageRow, SlugOrNone, LocaleOrNone
<1>16. \/ written.slug = saved[p].slug /\ written.locale = saved[p].locale
       \/ Content!slugFree(written.slug, written.locale, {p})
  BY <1>2, <1>14
<1> QED  BY <1>3, <1>13, <1>14, <1>15, <1>16, SavesPage

LEMMA UpdatesPageSeo ==
  ASSUME ContentInv, NEW e \in Editors, NEW p \in Ids, Content!updatePageSeo(e, p)
  PROVE  ContentInv'
<1>1. PICK expected \in {0, form[e].version} :
        \E version \in Content!nextVersion(saved[p], expected), columns \in 0..1 :
          Content!Save(e, p, [saved[p] EXCEPT !.version = version, !.columns = columns])
  BY DEF Content!updatePageSeo, Content!None
<1>2. PICK version \in Content!nextVersion(saved[p], expected), columns \in 0..1 :
          Content!Save(e, p, [saved[p] EXCEPT !.version = version, !.columns = columns])
  BY <1>1
<1>3. saved[p].state = "live" /\ saved[p] \in PageRow /\ saved[p].version \in Nat
      /\ version = saved[p].version + 1
  BY <1>2, ContentParts DEF Content!updatePageSeo, Content!Visible, Content!nextVersion
<1>4. PICK was : was = saved[p]  OBVIOUS
<1>5. PICK w1 : w1 = [was EXCEPT !.version = version]  OBVIOUS
<1>6. w1 = [state |-> was.state, slug |-> was.slug, locale |-> was.locale, group |-> was.group,
            version |-> version, columns |-> was.columns]
  BY <1>3, <1>4, <1>5 DEF PageRow
<1>7. PICK written : written = [w1 EXCEPT !.columns = columns]  OBVIOUS
<1>8. written = [state |-> was.state, slug |-> was.slug, locale |-> was.locale,
                 group |-> was.group, version |-> version, columns |-> columns]
  BY <1>6, <1>7
<1>9. Content!Save(e, p, written)  BY <1>2, <1>4, <1>5, <1>7
<1>10. /\ written.state = "live" /\ written.group = saved[p].group
       /\ written.version = saved[p].version + 1 /\ written.slug = saved[p].slug
       /\ written.locale = saved[p].locale
  BY <1>3, <1>4, <1>8
<1>11. written \in PageRow  BY <1>3, <1>4, <1>8 DEF PageRow
<1> QED  BY <1>3, <1>9, <1>10, <1>11, SavesPage

(* Into the trash, out of it, and out of the table.                        *)
LEMMA ContentPageMoves ==
  ASSUME ContentInv, NEW p \in Ids,
         Content!deletePage(p) \/ Content!restorePage(p) \/ Content!purgePage(p)
  PROVE  ContentInv'
<1>1. Content!Stored(p) /\ saved[p].state # "unborn" /\ UNCHANGED <<form, origin>>
  BY DEF Content!deletePage, Content!restorePage, Content!purgePage, Content!Stored,
         Content!Visible
<1>2. PICK written \in PageRow :
        /\ saved' = [saved EXCEPT ![p] = written] /\ written.state # "unborn"
        /\ \/ written.state = "purged"
           \/ /\ written.slug = saved[p].slug /\ written.locale = saved[p].locale
              /\ written.group = saved[p].group /\ written.version = saved[p].version
              /\ written.columns = saved[p].columns
  <2>1. ASSUME NEW state \in {"live", "trashed"}, saved' = [saved EXCEPT ![p].state = state]
        PROVE  \E written \in PageRow :
                 /\ saved' = [saved EXCEPT ![p] = written] /\ written.state # "unborn"
                 /\ written.slug = saved[p].slug /\ written.locale = saved[p].locale
                 /\ written.group = saved[p].group /\ written.version = saved[p].version
                 /\ written.columns = saved[p].columns
    <3>1. PICK written : written = [saved[p] EXCEPT !.state = state]  OBVIOUS
    <3>2. saved[p] \in PageRow  BY ContentParts
    <3>3. /\ written \in PageRow /\ written.state = state
          /\ written.slug = saved[p].slug /\ written.locale = saved[p].locale
          /\ written.group = saved[p].group /\ written.version = saved[p].version
          /\ written.columns = saved[p].columns
      BY <3>1, <3>2 DEF PageRow
    <3>4. saved' = [saved EXCEPT ![p] = written]
      BY <2>1, <3>1 DEF ContentInv, ContentTyped
    <3> QED  BY <3>3, <3>4
  <2>2. CASE Content!deletePage(p)  BY <2>1, <2>2 DEF Content!deletePage
  <2>3. CASE Content!restorePage(p)  BY <2>1, <2>3 DEF Content!restorePage
  <2>4. CASE Content!purgePage(p)
    <3>1. PICK written : written = [Content!Unborn EXCEPT !.state = "purged"]  OBVIOUS
    <3>2. written \in PageRow /\ written.state = "purged"
      BY <3>1 DEF Content!Unborn, Content!None, PageRow, SlugOrNone, LocaleOrNone, IdOrNone
    <3> QED  BY <2>4, <3>1, <3>2 DEF Content!purgePage
  <2> QED  BY <2>2, <2>3, <2>4
<1>3. ContentTyped'  BY <1>1, <1>2, ContentRowMoves DEF ContentInv, ContentTyped
<1>4. \A a, b \in Ids : OneStoredAt(a, b)'  BY <1>1, <1>2, SlugsStayApart
<1>5. (\A q \in Ids : Descends(q)') /\ \A a, b \in Ids : Alone(a, b)'
  BY <1>1, <1>2, DescentStays
<1>6. ASSUME NEW e \in Editors  PROVE FormMatches(e)'
  <2>1. form'[e] = form[e]  BY <1>1
  <2>2. CASE written.state = "purged"  BY <1>2, <2>1, <2>2, FormsStayMatched
  <2>3. CASE written.state # "purged"
    <3>1. written.version = saved[p].version /\ Content!Own(written) = Content!Own(saved[p])
      BY <1>2, <2>3 DEF Content!Own
    <3> QED  BY <1>1, <1>2, <2>1, <3>1, FormsStayMatched
  <2> QED  BY <2>2, <2>3
<1> QED  BY <1>3, <1>4, <1>5, <1>6 DEF ContentInv

LEMMA ContentStart == Content!Init => ContentInv
<1> SUFFICES ASSUME Content!Init PROVE ContentInv  OBVIOUS
<1>1. PICK legacy \in Ids, slug \in Slugs, locale \in Locales :
        saved = [p \in Ids |-> IF p = legacy THEN Content!Born(slug, locale, 0)
                               ELSE Content!Unborn]
  BY DEF Content!Init, Content!None
<1>2. form = [e \in Editors |-> Content!NoForm] /\ origin = [p \in Ids |-> p]
  BY DEF Content!Init
<1>3. PICK born, unborn, blankForm :
        /\ born = Content!Born(slug, locale, 0) /\ unborn = Content!Unborn
        /\ blankForm = Content!NoForm
  OBVIOUS
<1>4. /\ born \in PageRow /\ unborn \in PageRow /\ blankForm \in FormRow
      /\ born.state = "live" /\ born.group = 0 /\ unborn.state = "unborn" /\ blankForm.page = 0
  BY <1>3 DEF Content!Born, Content!Unborn, Content!NoForm, Content!None, PageRow, FormRow,
              SlugOrNone, LocaleOrNone, IdOrNone, SeenOnForm
<1>5. /\ saved = [p \in Ids |-> IF p = legacy THEN born ELSE unborn]
      /\ form = [e \in Editors |-> blankForm]
  BY <1>1, <1>2, <1>3
<1>6. ContentTyped  BY <1>2, <1>4, <1>5 DEF ContentTyped
<1>7. \A p \in Ids : Content!Stored(p) => p = legacy
  BY <1>4, <1>5 DEF Content!Stored
<1>8. ASSUME NEW p \in Ids  PROVE Descends(p)
  <2>1. origin[p] = p  BY <1>2
  <2>2. Content!Stored(p) => saved[p].group = 0  BY <1>4, <1>5, <1>7
  <2> QED  BY <2>1, <2>2 DEF Descends
<1>9. \A p, q \in Ids : OneStoredAt(p, q)  BY <1>7 DEF OneStoredAt
<1>10. \A p, q \in Ids : Alone(p, q)  BY <1>7 DEF Alone
<1>11. \A e \in Editors : FormMatches(e)  BY <1>4, <1>5 DEF FormMatches
<1> QED  BY <1>6, <1>8, <1>9, <1>10, <1>11 DEF ContentInv

LEMMA ContentStep ==
  ASSUME ContentInv, Content!Next
  PROVE  ContentInv'
  BY ContentCreates, ContentPageMoves, ContentTranslates, OpensForm, UpdatesPage,
     UpdatesPageSeo
     DEF Content!Next

(* The translations of a page are those its group has: no page is in the   *)
(* group of one it does not descend from.                                  *)
LEMMA ContentIsIdentified ==
  ASSUME ContentInv
  PROVE  Content!SlugNamesOnePage /\ Content!VersionNamesContent /\ Content!GroupIsTheTranslations
<1>1. Content!SlugNamesOnePage  BY DEF ContentInv, OneStoredAt, Content!SlugNamesOnePage
<1>2. Content!VersionNamesContent
  BY DEF ContentInv, FormMatches, Content!VersionNamesContent, Content!None
<1>3. ASSUME NEW p \in Ids, NEW q \in Ids, p # q, Content!Stored(p), Content!Stored(q)
      PROVE  origin[p] = origin[q] <=> saved[p].group # 0 /\ saved[p].group = saved[q].group
  <2>1. Descends(p) /\ Descends(q) /\ Alone(p, q) /\ Alone(q, p)
        /\ origin[p] # 0 /\ origin[q] # 0
    BY ContentParts DEF ContentInv
  <2>2. CASE saved[p].group = 0  BY <1>3, <2>1, <2>2 DEF Descends, Alone
  <2>3. CASE saved[q].group = 0  BY <1>3, <2>1, <2>3 DEF Descends, Alone
  <2>4. CASE saved[p].group # 0 /\ saved[q].group # 0  BY <1>3, <2>1, <2>4 DEF Descends
  <2> QED  BY <2>2, <2>3, <2>4
<1>4. Content!GroupIsTheTranslations  BY <1>3 DEF Content!GroupIsTheTranslations, Content!None
<1> QED  BY <1>1, <1>2, <1>4

-----------------------------------------------------------------------------
(* Page blocks.                                                            *)
(* A set of naturals has a least element: of the intervals from 0 to its   *)
(* elements one is smallest under strict inclusion.                        *)
LEMMA LeastNatural ==
  ASSUME NEW S, S \subseteq Nat, S # {}
  PROVE  \E n \in S : \A o \in S : n <= o
<1>1. PICK T : T = {0..n : n \in S}  OBVIOUS
<1>2. T \subseteq FiniteSubsetsOf(Nat)
  <2>1. ASSUME NEW n \in S PROVE 0..n \in FiniteSubsetsOf(Nat)
    <3>1. n \in Int /\ 0 \in Int /\ n \in Nat  OBVIOUS
    <3>2. IsFiniteSet(0..n)  BY <3>1, FS_Interval
    <3>3. 0..n \subseteq Nat  BY <3>1
    <3> QED  BY <3>2, <3>3 DEF FiniteSubsetsOf
  <2> QED  BY <1>1, <2>1
<1>3. T # {}  BY <1>1
<1>4. PICK x \in T : \A y \in T : ~(<<y, x>> \in StrictSubsetOrdering(Nat))
  BY <1>2, <1>3, FS_StrictSubsetOrderingWellFounded, WFMin
<1>5. PICK n \in S : x = 0..n  BY <1>1
<1>6. ASSUME NEW o \in S, o < n PROVE FALSE
  <2>1. o \in Nat /\ n \in Nat  OBVIOUS
  <2>2. 0..o \in T  BY <1>1
  <2>3. 0..o \subseteq 0..n  BY <1>6, <2>1
  <2>4. n \in 0..n /\ n \notin 0..o  BY <1>6, <2>1
  <2>5. 0..o # 0..n  BY <2>4
  <2>6. 0..o \in SUBSET Nat /\ 0..n \in SUBSET Nat  BY <2>1
  <2>7. <<0..o, 0..n>> \in StrictSubsetOrdering(Nat)
    BY <2>3, <2>5, <2>6 DEF StrictSubsetOrdering
  <2> QED  BY <1>4, <1>5, <2>2, <2>7
<1>7. \A o \in S : n <= o
  <2> SUFFICES ASSUME NEW o \in S PROVE n <= o
    OBVIOUS
  <2>1. o \in Nat /\ n \in Nat  OBVIOUS
  <2>2. ~(o < n)  BY <1>6
  <2> QED  BY <2>1, <2>2
<1> QED  BY <1>7

(* What is finite has a last position, or none.                            *)
LEMMA GreatestPosition ==
  ASSUME NEW S, S \subseteq Nat \cup {-1}, -1 \in S, NEW top \in Nat, \A x \in S : x <= top
  PROVE  Blocks!Max(S) \in S /\ \A x \in S : x <= Blocks!Max(S)
<1>1. PICK U : U = {u \in Nat : \A x \in S : x < u}  OBVIOUS
<1>2. U \subseteq Nat /\ U # {}
  <2>1. \A x \in S : x < top + 1  OBVIOUS
  <2>2. top + 1 \in U  BY <1>1, <2>1
  <2> QED  BY <1>1, <2>2
<1>3. PICK u \in U : \A o \in U : u <= o  BY <1>2, LeastNatural
<1>4. u \in Nat /\ \A x \in S : x < u  BY <1>1
<1>5. u - 1 \in S
  <2>1. CASE u = 0  BY <2>1
  <2>2. CASE u # 0
    <3>1. u - 1 \in Nat /\ u - 1 < u  BY <1>4, <2>2
    <3>2. u - 1 \notin U  BY <1>3, <1>4, <3>1
    <3>3. PICK x \in S : ~(x < u - 1)  BY <1>1, <3>1, <3>2
    <3>4. x = u - 1  BY <1>4, <3>1, <3>3
    <3> QED  BY <3>4
  <2> QED  BY <2>1, <2>2
<1>6. \A y \in S : u - 1 >= y  BY <1>4
<1>7. \E x \in S : \A y \in S : x >= y  BY <1>5, <1>6
<1>8. Blocks!Max(S) \in S /\ \A y \in S : Blocks!Max(S) >= y
  BY <1>7 DEF Blocks!Max
<1> QED  BY <1>8

(* A block that is not reusable has a placement, a placement its block and *)
(* a page that is not purged, and no position is given twice unasked; what *)
(* is placed is finite and has a last position.                            *)
BlockRow == [state : {"none", "stored"}, type : Types \cup {"none"}, reusable : BOOLEAN]
Placed == [id : 1..MaxPlaced, page : BlockPages, block : BlockIds, region : Regions,
           position : Nat, asked : BOOLEAN]

BlocksTyped ==
  /\ located \in [BlockPages -> {"unborn", "live", "trashed", "purged"}]
  /\ block \in [BlockIds -> BlockRow]
  /\ placed \subseteq Placed /\ IsFiniteSet(placed)
  /\ \E top \in Nat : \A i \in placed : i.position <= top

HasPlacement(b) == Blocks!Stored(b) /\ ~block[b].reusable => \E i \in placed : i.block = b
IsHeld(i) == block[i.block].state = "stored" /\ located[i.page] \in {"live", "trashed"}
ApartFrom(i, j) ==
  i.page = j.page /\ i.region = j.region /\ i.position = j.position /\ ~i.asked /\ ~j.asked
    => i = j

BlocksInv ==
  /\ BlocksTyped
  /\ \A b \in BlockIds : HasPlacement(b)
  /\ \A i \in placed : IsHeld(i)
  /\ \A i, j \in placed : ApartFrom(i, j)

LEMMA BlockParts ==
  ASSUME BlocksInv
  PROVE  /\ placed \subseteq Placed /\ IsFiniteSet(placed)
         /\ MaxPlaced \in Nat /\ MaxPosition \in Nat /\ BlockIds \subseteq Nat
         /\ Defaults \in Seq([type : STRING, region : STRING])
  BY BlocksConstants DEF BlocksInv, BlocksTyped, Blocks!PageBlocksAssumption

LEMMA FreshAreDistinct ==
  ASSUME NEW for, for \subseteq Int, NEW free, free \subseteq Int,
         NEW f \in Blocks!Fresh(for, free)
  PROVE  /\ f \in [for -> free]
         /\ \A m, n \in for : m # n => f[m] # f[n]
<1>1. f \in [for -> free] /\ \A m, n \in for : m < n => f[m] < f[n]
  BY DEF Blocks!Fresh
<1>2. ASSUME NEW m \in for, NEW n \in for, m # n  PROVE f[m] # f[n]
  <2>1. m \in Int /\ n \in Int /\ f[m] \in Int /\ f[n] \in Int  BY <1>1
  <2>2. CASE m < n  BY <1>1, <2>1, <2>2
  <2>3. CASE n < m  BY <1>1, <2>1, <2>3
  <2> QED  BY <1>2, <2>1, <2>2, <2>3
<1> QED  BY <1>1, <1>2

(* Appended after everything.                                              *)
LEMMA NextIsLast ==
  ASSUME BlocksInv, NEW p, NEW region
  PROVE  \A i \in Blocks!In(p, region) : i.position < Blocks!nextPosition(p, region)
<1>1. PICK S : S = {i.position : i \in Blocks!In(p, region)} \cup {-1}  OBVIOUS
<1>2. \A i \in Blocks!In(p, region) : i \in placed /\ i.position \in Nat
  BY BlockParts DEF Blocks!In, Placed
<1>3. S \subseteq Nat \cup {-1} /\ -1 \in S  BY <1>1, <1>2
<1>4. PICK top \in Nat : \A i \in placed : i.position <= top
  BY DEF BlocksInv, BlocksTyped
<1>5. \A x \in S : x <= top  BY <1>1, <1>2, <1>4
<1>6. PICK last : last = Blocks!Max(S)  OBVIOUS
<1>7. last \in S /\ \A x \in S : x <= last  BY <1>3, <1>5, <1>6, GreatestPosition
<1>8. Blocks!nextPosition(p, region) = last + 1  BY <1>1, <1>6 DEF Blocks!nextPosition
<1>9. ASSUME NEW i \in Blocks!In(p, region)  PROVE i.position < last + 1
  <2>1. i.position \in S  BY <1>1
  <2> QED  BY <1>2, <1>3, <1>7, <2>1
<1> QED  BY <1>8, <1>9

LEMMA OneIsPlaced ==
  ASSUME BlocksInv, NEW i \in Placed, placed' = placed \cup {i}, UNCHANGED located,
         block' \in [BlockIds -> BlockRow], \A b \in BlockIds : b # i.block => block'[b] = block[b],
         block'[i.block].state = "stored", located[i.page] = "live",
         \/ i.asked
         \/ \A j \in placed : j.page = i.page /\ j.region = i.region => j.position < i.position
  PROVE  BlocksInv'
<1>1. /\ i.position \in Nat /\ i.block \in BlockIds /\ i.page \in BlockPages
      /\ \A j \in placed : j.position \in Nat /\ j.block \in BlockIds
  BY BlockParts DEF Placed
<1>2. BlocksTyped'
  <2>1. PICK top \in Nat : \A j \in placed : j.position <= top  BY DEF BlocksInv, BlocksTyped
  <2>2. \A j \in placed' : j.position <= top + i.position
    <3>1. top + i.position \in Nat /\ i.position <= top + i.position /\ top <= top + i.position
      BY <1>1, <2>1
    <3> QED  BY <1>1, <2>1, <3>1
  <2>3. placed' \subseteq Placed /\ IsFiniteSet(placed')  BY BlockParts, FS_AddElement
  <2>4. top + i.position \in Nat  BY <1>1
  <2>5. \E t \in Nat : \A j \in placed' : j.position <= t  BY <2>2, <2>4
  <2> QED  BY <2>3, <2>5 DEF BlocksInv, BlocksTyped
<1>3. ASSUME NEW b \in BlockIds  PROVE HasPlacement(b)'
  <2>1. CASE b = i.block  BY <2>1 DEF HasPlacement
  <2>2. CASE b # i.block
    <3>1. block'[b] = block[b] /\ HasPlacement(b)  BY <2>2 DEF BlocksInv
    <3> QED  BY <3>1 DEF HasPlacement, Blocks!Stored
  <2> QED  BY <2>1, <2>2
<1>4. ASSUME NEW j \in placed'  PROVE IsHeld(j)'
  <2>1. CASE j = i  BY <2>1 DEF IsHeld
  <2>2. CASE j \in placed
    <3>1. IsHeld(j) /\ j.block \in BlockIds  BY <1>1, <2>2 DEF BlocksInv
    <3> QED  BY <3>1 DEF IsHeld
  <2> QED  BY <2>1, <2>2
<1>5. ASSUME NEW j \in placed', NEW k \in placed'  PROVE ApartFrom(j, k)'
  <2>1. CASE j \in placed /\ k \in placed
    <3>1. ApartFrom(j, k)  BY <2>1 DEF BlocksInv
    <3> QED  BY <3>1 DEF ApartFrom
  <2>2. CASE j = i /\ k = i  BY <2>2 DEF ApartFrom
  <2>3. CASE j = i /\ k \in placed  BY <1>1, <2>3 DEF ApartFrom
  <2>4. CASE j \in placed /\ k = i  BY <1>1, <2>4 DEF ApartFrom
  <2> QED  BY <2>1, <2>2, <2>3, <2>4
<1> QED  BY <1>2, <1>3, <1>4, <1>5 DEF BlocksInv

(* A slot and a position, asked for or the next.                           *)
LEMMA SlotAndPosition ==
  ASSUME BlocksInv, NEW p \in BlockPages, NEW region \in Regions, NEW b \in BlockIds,
         NEW slot \in Blocks!Fresh({1}, Blocks!FreeSlots), NEW asked \in BOOLEAN,
         NEW position \in Blocks!Position(p, region, asked),
         NEW i, i = Blocks!Placement(slot[1], p, b, region, position, asked)
  PROVE  /\ i \in Placed /\ i.page = p /\ i.block = b
         /\ \/ i.asked
            \/ \A j \in placed : j.page = i.page /\ j.region = i.region => j.position < i.position
<1>1. slot[1] \in 1..MaxPlaced
  BY DEF Blocks!Fresh, Blocks!FreeSlots
<1>2. position \in Nat /\ (~asked => position = Blocks!nextPosition(p, region))
  BY BlockParts DEF Blocks!Position
<1>3. /\ i \in Placed /\ i.page = p /\ i.block = b /\ i.region = region /\ i.position = position
      /\ (i.asked <=> asked)
  BY <1>1, <1>2 DEF Blocks!Placement, Placed
<1>4. \A j \in placed : j.page = p /\ j.region = region => j \in Blocks!In(p, region)
  BY DEF Blocks!In
<1>5. CASE asked  BY <1>3, <1>5
<1>6. CASE ~asked  BY <1>2, <1>3, <1>4, <1>6, NextIsLast
<1> QED  BY <1>3, <1>5, <1>6

LEMMA AddsBlock ==
  ASSUME BlocksInv, NEW p \in BlockPages, NEW region \in Regions, NEW type \in Types,
         Blocks!addBlock(p, region, type)
  PROVE  BlocksInv'
<1>1. PICK new \in Blocks!Fresh({1}, Blocks!FreeBlocks), slot \in Blocks!Fresh({1}, Blocks!FreeSlots),
           reusable \in BOOLEAN, asked \in BOOLEAN :
        /\ block' = [block EXCEPT ![new[1]] = Blocks!NewBlock(type, reusable)]
        /\ \E position \in Blocks!Position(p, region, asked) :
             placed' = placed \cup {Blocks!Placement(slot[1], p, new[1], region, position, asked)}
  BY DEF Blocks!addBlock
<1>2. PICK position \in Blocks!Position(p, region, asked) :
        placed' = placed \cup {Blocks!Placement(slot[1], p, new[1], region, position, asked)}
  BY <1>1
<1>3. PICK b : b = new[1]  OBVIOUS
<1>4. b \in BlockIds  BY <1>3 DEF Blocks!Fresh, Blocks!FreeBlocks
<1>5. PICK i : i = Blocks!Placement(slot[1], p, b, region, position, asked)  OBVIOUS
<1>6. /\ i \in Placed /\ i.page = p /\ i.block = b
      /\ \/ i.asked
         \/ \A j \in placed : j.page = i.page /\ j.region = i.region => j.position < i.position
  BY <1>4, <1>5, SlotAndPosition
<1>7. placed' = placed \cup {i}  BY <1>2, <1>3, <1>5
<1>8. PICK made : made = Blocks!NewBlock(type, reusable)  OBVIOUS
<1>9. made \in BlockRow /\ made.state = "stored"  BY <1>8 DEF Blocks!NewBlock, BlockRow
<1>10. block' = [block EXCEPT ![b] = made]  BY <1>1, <1>3, <1>8
<1>11. /\ block' \in [BlockIds -> BlockRow] /\ block'[b] = made
       /\ \A c \in BlockIds : c # b => block'[c] = block[c]
  BY <1>4, <1>9, <1>10 DEF BlocksInv, BlocksTyped
<1>12. UNCHANGED located /\ located[p] = "live"  BY DEF Blocks!addBlock
<1> QED  BY <1>6, <1>7, <1>9, <1>11, <1>12, OneIsPlaced

LEMMA PlacesBlock ==
  ASSUME BlocksInv, NEW p \in BlockPages, NEW region \in Regions, NEW b \in BlockIds,
         Blocks!placeBlock(p, region, b)
  PROVE  BlocksInv'
<1>1. PICK slot \in Blocks!Fresh({1}, Blocks!FreeSlots), asked \in BOOLEAN :
        \E position \in Blocks!Position(p, region, asked) :
          placed' = placed \cup {Blocks!Placement(slot[1], p, b, region, position, asked)}
  BY DEF Blocks!placeBlock
<1>2. PICK position \in Blocks!Position(p, region, asked) :
        placed' = placed \cup {Blocks!Placement(slot[1], p, b, region, position, asked)}
  BY <1>1
<1>3. PICK i : i = Blocks!Placement(slot[1], p, b, region, position, asked)  OBVIOUS
<1>4. /\ i \in Placed /\ i.page = p /\ i.block = b
      /\ \/ i.asked
         \/ \A j \in placed : j.page = i.page /\ j.region = i.region => j.position < i.position
  BY <1>3, SlotAndPosition
<1>5. placed' = placed \cup {i}  BY <1>2, <1>3
<1>6. UNCHANGED <<located, block>> /\ located[p] = "live" /\ block[b].state = "stored"
  BY DEF Blocks!placeBlock, Blocks!Stored
<1>7. block' \in [BlockIds -> BlockRow] /\ \A c \in BlockIds : c # i.block => block'[c] = block[c]
  BY <1>6 DEF BlocksInv, BlocksTyped
<1> QED  BY <1>4, <1>5, <1>6, <1>7, OneIsPlaced

(* The last placement goes with its block, any other leaves one behind.    *)
LEMMA RemovesBlock ==
  ASSUME BlocksInv, NEW i \in placed, Blocks!removeBlock(i)
  PROVE  BlocksInv'
<1>1. placed' = placed \ {i} /\ UNCHANGED located  BY DEF Blocks!removeBlock
<1>2. i.block \in BlockIds /\ block \in [BlockIds -> BlockRow]
  BY BlockParts DEF Placed, BlocksInv, BlocksTyped
<1>3. PICK gone : gone <=> Blocks!lastPlacement(i.block, i) /\ ~block[i.block].reusable
  OBVIOUS
<1>4. PICK none : none = Blocks!NoBlock  OBVIOUS
<1>5. none \in BlockRow /\ none.state = "none"  BY <1>4 DEF Blocks!NoBlock, BlockRow
<1>6. block' = IF gone THEN [block EXCEPT ![i.block] = none] ELSE block
  BY <1>3, <1>4 DEF Blocks!removeBlock
<1>7. /\ block' \in [BlockIds -> BlockRow]
      /\ \A b \in BlockIds : block'[b] = IF gone /\ b = i.block THEN none ELSE block[b]
  BY <1>2, <1>5, <1>6
<1>8. BlocksTyped'
  <2>1. placed' \subseteq Placed /\ IsFiniteSet(placed')  BY <1>1, BlockParts, FS_RemoveElement
  <2>2. \E top \in Nat : \A j \in placed' : j.position <= top
    BY <1>1 DEF BlocksInv, BlocksTyped
  <2> QED  BY <1>1, <1>7, <2>1, <2>2 DEF BlocksInv, BlocksTyped
<1>9. ASSUME NEW b \in BlockIds  PROVE HasPlacement(b)'
  <2>1. HasPlacement(b)  BY DEF BlocksInv
  <2>2. CASE b # i.block
    BY <1>1, <1>7, <2>1, <2>2 DEF HasPlacement, Blocks!Stored
  <2>3. CASE b = i.block /\ gone
    BY <1>5, <1>7, <2>3 DEF HasPlacement, Blocks!Stored
  <2>4. CASE b = i.block /\ ~gone
    <3>1. block'[b] = block[b]  BY <1>7, <2>4
    <3>2. ASSUME ~block[b].reusable  PROVE \E j \in placed' : j.block = b
      <4>1. {j \in placed : j.block = b} # {i}
        BY <1>3, <2>4, <3>2 DEF Blocks!lastPlacement, Blocks!Placing
      <4>2. i \in {j \in placed : j.block = b}  BY <2>4
      <4>3. PICK j \in placed : j.block = b /\ j # i  BY <4>1, <4>2
      <4> QED  BY <1>1, <4>3
    <3> QED  BY <3>1, <3>2 DEF HasPlacement, Blocks!Stored
  <2> QED  BY <2>2, <2>3, <2>4
<1>10. ASSUME NEW j \in placed'  PROVE IsHeld(j)'
  <2>1. j \in placed /\ j # i /\ IsHeld(j) /\ j.block \in BlockIds
    BY <1>1, BlockParts DEF BlocksInv, Placed
  <2>2. ~(gone /\ j.block = i.block)
    BY <1>3, <2>1 DEF Blocks!lastPlacement, Blocks!Placing
  <2>3. block'[j.block] = block[j.block]  BY <1>7, <2>1, <2>2
  <2> QED  BY <1>1, <2>1, <2>3 DEF IsHeld
<1>11. ASSUME NEW j \in placed', NEW k \in placed'  PROVE ApartFrom(j, k)'
  <2>1. ApartFrom(j, k)  BY <1>1 DEF BlocksInv
  <2> QED  BY <2>1 DEF ApartFrom
<1> QED  BY <1>8, <1>9, <1>10, <1>11 DEF BlocksInv

(* A region's placements keep their blocks and get the positions from 0 up. *)
LEMMA ReordersRegion ==
  ASSUME BlocksInv, NEW p \in BlockPages, NEW region \in Regions, Blocks!reorderRegion(p, region)
  PROVE  BlocksInv'
<1>1. PICK R : R = Blocks!In(p, region)  OBVIOUS
<1>2. PICK last : last = Blocks!Cardinality(R) - 1  OBVIOUS
<1>3. PICK at \in Blocks!Bijection(R, 0..last) :
        placed' = (placed \ R) \cup {[i EXCEPT !.position = at[i], !.asked = FALSE] : i \in R}
  BY <1>1, <1>2 DEF Blocks!reorderRegion
<1>4. /\ R \subseteq placed /\ \A i \in R : i.page = p /\ i.region = region
      /\ \A i \in placed : i.page = p /\ i.region = region => i \in R
  BY <1>1 DEF Blocks!In
<1>5. IsFiniteSet(R)  BY <1>4, BlockParts, FS_Subset
<1>6. last \in Int
  BY <1>2, <1>5, FS_CardinalityType DEF Blocks!Cardinality, Cardinality
<1>7. /\ at \in [R -> 0..last] /\ \A i, j \in R : at[i] = at[j] => i = j
  BY DEF Blocks!Bijection, Blocks!Injection, Blocks!IsInjective
<1>8. PICK moved : moved = [i \in R |-> [i EXCEPT !.position = at[i], !.asked = FALSE]]  OBVIOUS
<1>9. ASSUME NEW i \in R
      PROVE  /\ moved[i] \in Placed /\ moved[i].page = p /\ moved[i].region = region
             /\ moved[i].block = i.block /\ moved[i].position = at[i] /\ moved[i].position <= last
  <2>1. i \in Placed /\ at[i] \in Nat /\ at[i] <= last  BY <1>4, <1>6, <1>7, BlockParts
  <2>2. PICK m1 : m1 = [i EXCEPT !.position = at[i]]  OBVIOUS
  <2>3. m1 = [id |-> i.id, page |-> i.page, block |-> i.block, region |-> i.region,
              position |-> at[i], asked |-> i.asked]
    BY <2>1, <2>2 DEF Placed
  <2>4. moved[i] = [m1 EXCEPT !.asked = FALSE]  BY <1>8, <2>2
  <2>5. moved[i] = [id |-> i.id, page |-> i.page, block |-> i.block, region |-> i.region,
                    position |-> at[i], asked |-> FALSE]
    BY <2>3, <2>4
  <2> QED  BY <1>4, <2>1, <2>5 DEF Placed
<1>10. PICK M : M = {moved[i] : i \in R}  OBVIOUS
<1>11. placed' = (placed \ R) \cup M  BY <1>3, <1>8, <1>10
<1>12. UNCHANGED <<located, block>>  BY DEF Blocks!reorderRegion
<1>13. BlocksTyped'
  <2>1. moved \in Surjection(R, M)
    <3>1. moved \in [R -> M]  BY <1>8, <1>10
    <3> QED  BY <1>10, <3>1 DEF Surjection
  <2>2. IsFiniteSet(M) /\ IsFiniteSet(placed \ R)
    BY <1>5, <2>1, FS_Surjection, BlockParts, FS_Difference
  <2>3. IsFiniteSet(placed')  BY <1>11, <2>2, FS_Union
  <2>4. placed' \subseteq Placed  BY <1>9, <1>10, <1>11, BlockParts
  <2>5. PICK top \in Nat : \A i \in placed : i.position <= top  BY DEF BlocksInv, BlocksTyped
  <2>6. PICK t \in Nat : t >= top /\ t >= last
    <3>1. CASE last > top  BY <1>6, <2>5, <3>1
    <3>2. CASE ~(last > top)  BY <1>6, <2>5, <3>2
    <3> QED  BY <3>1, <3>2
  <2>7. ASSUME NEW j \in placed'  PROVE j.position <= t
    <3>1. CASE j \in M
      <4>1. PICK i \in R : j = moved[i]  BY <1>10, <3>1
      <4>2. j.position \in Nat /\ j.position <= last  BY <1>9, <4>1 DEF Placed
      <4> QED  BY <1>6, <2>6, <4>2
    <3>2. CASE j \in placed
      <4>1. j.position \in Nat /\ j.position <= top  BY <2>5, <3>2, BlockParts DEF Placed
      <4> QED  BY <2>5, <2>6, <4>1
    <3> QED  BY <1>11, <3>1, <3>2
  <2>8. \E u \in Nat : \A j \in placed' : j.position <= u  BY <2>7
  <2> QED  BY <1>12, <2>3, <2>4, <2>8 DEF BlocksInv, BlocksTyped
<1>14. ASSUME NEW b \in BlockIds  PROVE HasPlacement(b)'
  <2>1. HasPlacement(b)  BY DEF BlocksInv
  <2>2. ASSUME NEW i \in placed, i.block = b  PROVE \E j \in placed' : j.block = b
    <3>1. CASE i \in R
      <4>1. moved[i] \in placed' /\ moved[i].block = b  BY <1>9, <1>10, <1>11, <2>2, <3>1
      <4> QED  BY <4>1
    <3>2. CASE i \notin R  BY <1>11, <2>2, <3>2
    <3> QED  BY <3>1, <3>2
  <2> QED  BY <1>12, <2>1, <2>2 DEF HasPlacement, Blocks!Stored
<1>15. ASSUME NEW j \in placed'  PROVE IsHeld(j)'
  <2>1. PICK i \in placed : i.block = j.block /\ i.page = j.page
    <3>1. CASE j \in placed  BY <3>1
    <3>2. CASE j \in M
      <4>1. PICK i \in R : j = moved[i]  BY <1>10, <3>2
      <4> QED  BY <1>4, <1>9, <4>1
    <3> QED  BY <1>11, <3>1, <3>2
  <2>2. IsHeld(i)  BY DEF BlocksInv
  <2> QED  BY <1>12, <2>1, <2>2 DEF IsHeld
<1>16. ASSUME NEW j \in placed', NEW k \in placed'  PROVE ApartFrom(j, k)'
  <2>1. CASE j \in placed \ R /\ k \in placed \ R
    <3>1. ApartFrom(j, k)  BY <2>1 DEF BlocksInv
    <3> QED  BY <3>1 DEF ApartFrom
  <2>2. CASE j \in M /\ k \in placed \ R  BY <1>4, <1>9, <1>10, <2>2 DEF ApartFrom
  <2>3. CASE j \in placed \ R /\ k \in M  BY <1>4, <1>9, <1>10, <2>3 DEF ApartFrom
  <2>4. CASE j \in M /\ k \in M
    <3>1. PICK i \in R, h \in R : j = moved[i] /\ k = moved[h]  BY <1>10, <2>4
    <3>2. j.position = at[i] /\ k.position = at[h]  BY <1>9, <3>1
    <3>3. j.position = k.position => i = h  BY <1>7, <3>2
    <3> QED  BY <3>1, <3>3 DEF ApartFrom
  <2> QED  BY <1>11, <2>1, <2>2, <2>3, <2>4
<1> QED  BY <1>13, <1>14, <1>15, <1>16 DEF BlocksInv

(* A purge takes the placements of the page and the blocks that only it     *)
(* placed.                                                                  *)
LEMMA PurgesPage ==
  ASSUME BlocksInv, NEW p \in BlockPages, Blocks!purgePage(p)
  PROVE  BlocksInv'
<1>1. PICK D, none : D = Blocks!doomed(p) /\ none = Blocks!NoBlock  OBVIOUS
<1>2. none \in BlockRow /\ none.state = "none"  BY <1>1 DEF Blocks!NoBlock, BlockRow
<1>3. /\ block' = [b \in BlockIds |-> IF b \in D THEN none ELSE block[b]]
      /\ placed' = {i \in placed : i.page # p}
      /\ located' = [located EXCEPT ![p] = "purged"]
  BY <1>1 DEF Blocks!purgePage
<1>4. \A i \in placed : i.page \in BlockPages /\ i.block \in BlockIds
  BY BlockParts DEF Placed
<1>5. BlocksTyped'
  <2>1. placed' \subseteq Placed /\ IsFiniteSet(placed')  BY <1>3, BlockParts, FS_Subset
  <2>2. \E top \in Nat : \A j \in placed' : j.position <= top
    BY <1>3 DEF BlocksInv, BlocksTyped
  <2> QED  BY <1>2, <1>3, <2>1, <2>2 DEF BlocksInv, BlocksTyped
<1>6. ASSUME NEW b \in BlockIds  PROVE HasPlacement(b)'
  <2>1. HasPlacement(b)  BY DEF BlocksInv
  <2>2. CASE b \in D  BY <1>2, <1>3, <2>2 DEF HasPlacement, Blocks!Stored
  <2>3. CASE b \notin D
    <3>1. block'[b] = block[b]  BY <1>3, <2>3
    <3>2. ASSUME Blocks!Stored(b), ~block[b].reusable  PROVE \E j \in placed' : j.block = b
      <4>1. \E i \in placed : i.block = b  BY <2>1, <3>2 DEF HasPlacement
      <4>2. PICK i \in placed : i.block = b /\ i.page # p
        BY <1>1, <2>3, <3>2, <4>1 DEF Blocks!doomed, Blocks!Placing
      <4> QED  BY <1>3, <4>2
    <3> QED  BY <3>1, <3>2 DEF HasPlacement, Blocks!Stored
  <2> QED  BY <2>2, <2>3
<1>7. ASSUME NEW j \in placed'  PROVE IsHeld(j)'
  <2>1. j \in placed /\ j.page # p /\ IsHeld(j) /\ j.page \in BlockPages /\ j.block \in BlockIds
    BY <1>3, <1>4 DEF BlocksInv
  <2>2. j.block \notin D  BY <1>1, <2>1 DEF Blocks!doomed, Blocks!Placing
  <2>3. block'[j.block] = block[j.block]  BY <1>3, <2>1, <2>2
  <2>4. located'[j.page] = located[j.page]  BY <1>3, <2>1 DEF BlocksInv, BlocksTyped
  <2> QED  BY <2>1, <2>3, <2>4 DEF IsHeld
<1>8. ASSUME NEW j \in placed', NEW k \in placed'  PROVE ApartFrom(j, k)'
  <2>1. ApartFrom(j, k)  BY <1>3 DEF BlocksInv
  <2> QED  BY <2>1 DEF ApartFrom
<1> QED  BY <1>5, <1>6, <1>7, <1>8 DEF BlocksInv

LEMMA BlockPageMoves ==
  ASSUME BlocksInv, NEW p \in BlockPages, Blocks!deletePage(p) \/ Blocks!restorePage(p)
  PROVE  BlocksInv'
<1>1. PICK state \in {"live", "trashed"} :
        located' = [located EXCEPT ![p] = state] /\ UNCHANGED <<block, placed>>
  BY DEF Blocks!deletePage, Blocks!restorePage
<1>2. /\ located' \in [BlockPages -> {"unborn", "live", "trashed", "purged"}]
      /\ \A q \in BlockPages : located'[q] = IF q = p THEN state ELSE located[q]
  BY <1>1 DEF BlocksInv, BlocksTyped
<1>3. BlocksTyped'  BY <1>1, <1>2 DEF BlocksInv, BlocksTyped
<1>4. ASSUME NEW b \in BlockIds  PROVE HasPlacement(b)'
  <2>1. HasPlacement(b)  BY DEF BlocksInv
  <2> QED  BY <1>1, <2>1 DEF HasPlacement, Blocks!Stored
<1>5. ASSUME NEW j \in placed'  PROVE IsHeld(j)'
  <2>1. j \in placed /\ IsHeld(j) /\ j.page \in BlockPages
    BY <1>1, BlockParts DEF BlocksInv, Placed
  <2> QED  BY <1>1, <1>2, <2>1 DEF IsHeld
<1>6. ASSUME NEW j \in placed', NEW k \in placed'  PROVE ApartFrom(j, k)'
  <2>1. ApartFrom(j, k)  BY <1>1 DEF BlocksInv
  <2> QED  BY <2>1 DEF ApartFrom
<1> QED  BY <1>3, <1>4, <1>5, <1>6 DEF BlocksInv

(* Of the defaults of a region a later one has more before it.             *)
LEMMA EarlierGrows ==
  ASSUME BlocksInv, NEW n \in Blocks!Scaffold
  PROVE  /\ IsFiniteSet(Blocks!Scaffold) /\ Blocks!Scaffold \subseteq Int
         /\ Blocks!Cardinality(Blocks!Earlier(n)) \in Nat
         /\ Blocks!Cardinality(Blocks!Earlier(n)) <= Cardinality(Blocks!Scaffold)
         /\ Cardinality(Blocks!Scaffold) \in Nat
         /\ \A m \in Blocks!Scaffold :
              m < n /\ Defaults[m].region = Defaults[n].region =>
                Blocks!Cardinality(Blocks!Earlier(m)) # Blocks!Cardinality(Blocks!Earlier(n))
<1>0. \A S : Blocks!Cardinality(S) = Cardinality(S)  BY DEF Blocks!Cardinality, Cardinality
<1>1. PICK S : S = Blocks!Scaffold  OBVIOUS
<1>2. S \subseteq 1..Len(Defaults) /\ Len(Defaults) \in Nat
  BY <1>1, BlockParts DEF Blocks!Scaffold
<1>3. IsFiniteSet(S)
  <2>1. IsFiniteSet(1..Len(Defaults))  BY <1>2, FS_Interval
  <2> QED  BY <1>2, <2>1, FS_Subset
<1>4. Cardinality(S) \in Nat  BY <1>3, FS_CardinalityType
<1>5. ASSUME NEW k \in S
      PROVE  /\ Blocks!Earlier(k) \in SUBSET S /\ IsFiniteSet(Blocks!Earlier(k))
             /\ Cardinality(Blocks!Earlier(k)) \in Nat
             /\ Cardinality(Blocks!Earlier(k)) <= Cardinality(S)
  <2>1. Blocks!Earlier(k) \in SUBSET S  BY <1>1 DEF Blocks!Earlier
  <2>2. /\ IsFiniteSet(Blocks!Earlier(k))
        /\ Cardinality(Blocks!Earlier(k)) <= Cardinality(S)
    BY <1>3, <2>1, FS_Subset
  <2> QED  BY <2>1, <2>2, FS_CardinalityType
<1>6. ASSUME NEW m \in S, m < n, Defaults[m].region = Defaults[n].region
      PROVE  Cardinality(Blocks!Earlier(m)) # Cardinality(Blocks!Earlier(n))
  <2>1. PICK A, B : A = Blocks!Earlier(m) /\ B = Blocks!Earlier(n)  OBVIOUS
  <2>2. m \in Int /\ n \in Int  BY <1>1, <1>2
  <2>3. A \subseteq B
    <3>1. ASSUME NEW k \in A  PROVE k \in B
      <4>1. k \in S /\ k \in Int /\ k < m /\ Defaults[k].region = Defaults[m].region
        BY <1>1, <1>2, <2>1 DEF Blocks!Earlier
      <4>2. k < n  BY <1>6, <2>2, <4>1
      <4> QED  BY <1>1, <1>6, <2>1, <4>1, <4>2 DEF Blocks!Earlier
    <3> QED  BY <3>1
  <2>4. m \in B /\ m \notin A  BY <1>1, <1>6, <2>1, <2>2 DEF Blocks!Earlier
  <2>5. IsFiniteSet(B)  BY <1>1, <1>5, <2>1
  <2>6. Cardinality(B) = Cardinality(A) => A = B  BY <2>3, <2>5, FS_Subset
  <2> QED  BY <2>1, <2>4, <2>6
<1> QED  BY <1>0, <1>1, <1>2, <1>3, <1>4, <1>5, <1>6

LEMMA ScaffoldsPage ==
  ASSUME BlocksInv, NEW p \in BlockPages, Blocks!createPage(p)
  PROVE  BlocksInv'
<1> DEFINE S == Blocks!Scaffold
<1>1. S = Blocks!Scaffold  OBVIOUS
<1>2. PICK new \in Blocks!Fresh(S, Blocks!FreeBlocks), slot \in Blocks!Fresh(S, Blocks!FreeSlots) :
        /\ block' = [b \in BlockIds |->
             IF \E n \in S : new[n] = b
             THEN Blocks!NewBlock(Defaults[CHOOSE n \in S : new[n] = b].type, FALSE) ELSE block[b]]
        /\ placed' = placed \cup
             {Blocks!Placement(slot[n], p, new[n], Defaults[n].region,
                Blocks!Cardinality(Blocks!Earlier(n)), FALSE) : n \in S}
  BY DEF Blocks!createPage
<1>3. located[p] = "unborn" /\ located' = [located EXCEPT ![p] = "live"]
  BY DEF Blocks!createPage
<1>4. /\ located' \in [BlockPages -> {"unborn", "live", "trashed", "purged"}]
      /\ \A q \in BlockPages : located'[q] = IF q = p THEN "live" ELSE located[q]
  BY <1>3 DEF BlocksInv, BlocksTyped
<1>5. PICK at : at = [n \in S |-> Blocks!Placement(slot[n], p, new[n], Defaults[n].region,
                                    Blocks!Cardinality(Blocks!Earlier(n)), FALSE)]
  OBVIOUS
<1>6. PICK A : A = {at[n] : n \in S}  OBVIOUS
<1>7. placed' = placed \cup A  BY <1>2, <1>5, <1>6
<1>8. ASSUME NEW n \in S
      PROVE  /\ new[n] \in BlockIds /\ slot[n] \in 1..MaxPlaced /\ Defaults[n].region \in Regions
             /\ Defaults[n].type \in Types
  <2>1. Defaults[n].type \in Types /\ Defaults[n].region \in Regions
    BY <1>1, <1>8 DEF Blocks!Scaffold, Blocks!regionAllows
  <2>2. new[n] \in BlockIds  BY <1>2, <1>8 DEF Blocks!Fresh, Blocks!FreeBlocks
  <2>3. slot[n] \in 1..MaxPlaced  BY <1>2, <1>8 DEF Blocks!Fresh, Blocks!FreeSlots
  <2> QED  BY <2>1, <2>2, <2>3
<1>9. ASSUME NEW n \in S
      PROVE  /\ at[n] \in Placed /\ at[n].page = p /\ at[n].block = new[n]
             /\ at[n].region = Defaults[n].region
             /\ at[n].position = Blocks!Cardinality(Blocks!Earlier(n))
             /\ at[n].position <= Cardinality(S)
  <2>1. Blocks!Cardinality(Blocks!Earlier(n)) \in Nat
        /\ Blocks!Cardinality(Blocks!Earlier(n)) <= Cardinality(S)
    BY <1>1, <1>9, EarlierGrows
  <2> QED  BY <1>5, <1>8, <1>9, <2>1 DEF Blocks!Placement, Placed
<1>10. IsFiniteSet(S) /\ S \subseteq Int /\ Cardinality(S) \in Nat
  <2>1. CASE S = {}  BY <2>1, FS_EmptySet
  <2>2. CASE S # {}  BY <1>1, <2>2, EarlierGrows
  <2> QED  BY <2>1, <2>2
<1>11. ASSUME NEW m \in S, NEW n \in S, at[m].region = at[n].region,
              at[m].position = at[n].position
       PROVE  m = n
  <2>1. m \in Int /\ n \in Int  BY <1>10
  <2>2. ~(m < n) /\ ~(n < m)  BY <1>1, <1>9, <1>11, EarlierGrows
  <2> QED  BY <2>1, <2>2
<1>12. ASSUME NEW b \in BlockIds
       PROVE  /\ block'[b] \in BlockRow
              /\ block'[b] = block[b] \/ (block'[b].state = "stored" /\ \E n \in S : new[n] = b)
              /\ (\E n \in S : new[n] = b) => block'[b].state = "stored"
  <2>1. CASE \E n \in S : new[n] = b
    <3>1. PICK n : n = CHOOSE k \in S : new[k] = b  OBVIOUS
    <3>2. n \in S  BY <2>1, <3>1
    <3>3. block'[b] = Blocks!NewBlock(Defaults[n].type, FALSE)  BY <1>2, <2>1, <3>1
    <3> QED  BY <1>8, <2>1, <3>2, <3>3 DEF Blocks!NewBlock, BlockRow
  <2>2. CASE ~\E n \in S : new[n] = b
    <3>1. block'[b] = block[b]  BY <1>2, <2>2
    <3>2. block[b] \in BlockRow  BY DEF BlocksInv, BlocksTyped
    <3> QED  BY <2>2, <3>1, <3>2
  <2> QED  BY <2>1, <2>2
<1>13. block' \in [BlockIds -> BlockRow]
  <2>1. DOMAIN block' = BlockIds /\ block' = [b \in BlockIds |-> block'[b]]  BY <1>2
  <2> QED  BY <1>12, <2>1
<1>14. \A j \in placed : j.page \in BlockPages /\ j.block \in BlockIds /\ j.page # p
  BY <1>3, BlockParts DEF BlocksInv, IsHeld, Placed
<1>15. BlocksTyped'
  <2>1. at \in Surjection(S, A)
    <3>1. at \in [S -> A]  BY <1>5, <1>6
    <3> QED  BY <1>6, <3>1 DEF Surjection
  <2>2. IsFiniteSet(A)  BY <1>10, <2>1, FS_Surjection
  <2>3. IsFiniteSet(placed')  BY <1>7, <2>2, BlockParts, FS_Union
  <2>4. placed' \subseteq Placed  BY <1>6, <1>7, <1>9, BlockParts
  <2>5. PICK top \in Nat : \A j \in placed : j.position <= top  BY DEF BlocksInv, BlocksTyped
  <2>6. PICK t \in Nat : t = top + Cardinality(S)  BY <1>10
  <2>7. ASSUME NEW j \in placed'  PROVE j.position <= t
    <3>1. CASE j \in A
      <4>1. PICK n \in S : j = at[n]  BY <1>6, <3>1
      <4>2. j.position \in Nat /\ j.position <= Cardinality(S)  BY <1>9, <4>1 DEF Placed
      <4> QED  BY <1>10, <2>5, <2>6, <4>2
    <3>2. CASE j \in placed
      <4>1. j.position \in Nat /\ j.position <= top  BY <2>5, <3>2, BlockParts DEF Placed
      <4> QED  BY <1>10, <2>5, <2>6, <4>1
    <3> QED  BY <1>7, <3>1, <3>2
  <2>8. \E u \in Nat : \A j \in placed' : j.position <= u  BY <2>7
  <2> QED  BY <1>4, <1>13, <2>3, <2>4, <2>8 DEF BlocksTyped
<1>16. ASSUME NEW b \in BlockIds  PROVE HasPlacement(b)'
  <2>1. CASE \E n \in S : new[n] = b
    <3>1. PICK n \in S : new[n] = b  BY <2>1
    <3>2. at[n] \in placed' /\ at[n].block = b  BY <1>6, <1>7, <1>9, <3>1
    <3> QED  BY <3>2 DEF HasPlacement
  <2>2. CASE ~\E n \in S : new[n] = b
    <3>1. block'[b] = block[b] /\ HasPlacement(b)  BY <1>12, <2>2 DEF BlocksInv
    <3> QED  BY <1>7, <3>1 DEF HasPlacement, Blocks!Stored
  <2> QED  BY <2>1, <2>2
<1>17. ASSUME NEW j \in placed'  PROVE IsHeld(j)'
  <2>1. CASE j \in A
    <3>1. PICK n \in S : j = at[n]  BY <1>6, <2>1
    <3>2. j.page = p /\ j.block = new[n] /\ new[n] \in BlockIds  BY <1>8, <1>9, <3>1
    <3> QED  BY <1>4, <1>12, <3>2 DEF IsHeld
  <2>2. CASE j \in placed
    <3>1. IsHeld(j) /\ j.page \in BlockPages /\ j.block \in BlockIds /\ j.page # p
      BY <1>14, <2>2 DEF BlocksInv
    <3>2. block'[j.block].state = "stored"  BY <1>12, <3>1 DEF IsHeld
    <3> QED  BY <1>4, <3>1, <3>2 DEF IsHeld
  <2> QED  BY <1>7, <2>1, <2>2
<1>18. ASSUME NEW j \in placed', NEW k \in placed'  PROVE ApartFrom(j, k)'
  <2>1. CASE j \in placed /\ k \in placed
    <3>1. ApartFrom(j, k)  BY <2>1 DEF BlocksInv
    <3> QED  BY <3>1 DEF ApartFrom
  <2>2. CASE j \in A /\ k \in placed  BY <1>6, <1>9, <1>14, <2>2 DEF ApartFrom
  <2>3. CASE j \in placed /\ k \in A  BY <1>6, <1>9, <1>14, <2>3 DEF ApartFrom
  <2>4. CASE j \in A /\ k \in A
    <3>1. PICK m \in S, n \in S : j = at[m] /\ k = at[n]  BY <1>6, <2>4
    <3> QED  BY <1>11, <3>1 DEF ApartFrom
  <2> QED  BY <1>7, <2>1, <2>2, <2>3, <2>4
<1> QED  BY <1>15, <1>16, <1>17, <1>18 DEF BlocksInv

LEMMA BlocksStart == Blocks!Init => BlocksInv
<1> SUFFICES ASSUME Blocks!Init PROVE BlocksInv  OBVIOUS
<1>1. PICK none : none = Blocks!NoBlock  OBVIOUS
<1>2. none \in BlockRow /\ none.state = "none"  BY <1>1 DEF Blocks!NoBlock, BlockRow
<1>3. /\ located = [p \in BlockPages |-> "unborn"] /\ block = [b \in BlockIds |-> none]
      /\ placed = {}
  BY <1>1 DEF Blocks!Init
<1>4. BlocksTyped
  <2>1. IsFiniteSet(placed) /\ \E top \in Nat : \A i \in placed : i.position <= top
    BY <1>3, FS_EmptySet
  <2> QED  BY <1>2, <1>3, <2>1 DEF BlocksTyped
<1>5. \A b \in BlockIds : HasPlacement(b)  BY <1>2, <1>3 DEF HasPlacement, Blocks!Stored
<1> QED  BY <1>3, <1>4, <1>5 DEF BlocksInv

LEMMA BlocksStep ==
  ASSUME BlocksInv, Blocks!Next
  PROVE  BlocksInv'
  BY AddsBlock, PlacesBlock, RemovesBlock, ReordersRegion, PurgesPage, BlockPageMoves,
     ScaffoldsPage
     DEF Blocks!Next

LEMMA BlocksAreWhole ==
  ASSUME BlocksInv
  PROVE  Blocks!BlocksAndPlacementsMatch /\ Blocks!PositionsAreDistinct
<1>1. Blocks!PositionsAreDistinct  BY DEF BlocksInv, ApartFrom, Blocks!PositionsAreDistinct
<1>2. Blocks!BlocksAndPlacementsMatch
  <2>1. \A b \in BlockIds : Blocks!Stored(b) /\ ~block[b].reusable => Blocks!Placing(b) # {}
    BY DEF BlocksInv, HasPlacement, Blocks!Placing
  <2>2. \A i \in placed : Blocks!Stored(i.block) /\ located[i.page] \in {"live", "trashed"}
    BY DEF BlocksInv, IsHeld, Blocks!Stored
  <2> QED  BY <2>1, <2>2 DEF Blocks!BlocksAndPlacementsMatch
<1> QED  BY <1>1, <1>2

-----------------------------------------------------------------------------
(* Side by side: the step of one part leaves the others as they are.       *)
LEMMA RowsRest ==
  ASSUME EntriesInv, UNCHANGED collVars
  PROVE  EntriesInv'
<1>1. UNCHANGED <<cNow, row, cRevs, cTasks, want, trail>>  BY DEF collVars
<1>2. EntriesTyped'  BY <1>1 DEF EntriesInv, EntriesTyped
<1>3. ASSUME NEW r \in Rows
      PROVE  /\ EntryIsWanted(row[r], want[r], cRevs[r], trail[r])'
             /\ (row[r].publishedAt <= cNow)'
             /\ (row[r].scheduledAt # -1 => PublishTask(r, row[r].scheduledAt) \in cTasks)'
  <2>1. EntryIsWanted(row[r], want[r], cRevs[r], trail[r])  BY EntryParts
  <2>2. EntryIsWanted(row[r], want[r], cRevs[r], trail[r])'  BY <1>1, <2>1 DEF EntryIsWanted
  <2> QED  BY <1>1, <2>2, EntryParts DEF PublishTask
<1> QED  BY <1>2, <1>3 DEF EntriesInv

LEMMA ContentRests ==
  ASSUME ContentInv, UNCHANGED contentVars
  PROVE  ContentInv'
<1>1. UNCHANGED <<saved, form, origin>>  BY DEF contentVars
<1>2. ContentTyped'  BY <1>1 DEF ContentInv, ContentTyped
<1>3. ASSUME NEW p \in Ids  PROVE Descends(p)'
  BY <1>1, ContentParts DEF Descends, Content!Stored
<1>4. ASSUME NEW p \in Ids, NEW q \in Ids  PROVE OneStoredAt(p, q)' /\ Alone(p, q)'
  <2>1. OneStoredAt(p, q) /\ Alone(p, q)  BY DEF ContentInv
  <2> QED  BY <1>1, <2>1 DEF OneStoredAt, Alone, Content!Stored
<1>5. ASSUME NEW e \in Editors  PROVE FormMatches(e)'
  <2>1. FormMatches(e)  BY DEF ContentInv
  <2> QED  BY <1>1, <2>1 DEF FormMatches, Content!Stored, Content!Own
<1> QED  BY <1>2, <1>3, <1>4, <1>5 DEF ContentInv

LEMMA BlocksRest ==
  ASSUME BlocksInv, UNCHANGED blockVars
  PROVE  BlocksInv'
<1>1. UNCHANGED <<located, block, placed>>  BY DEF blockVars
<1>2. BlocksTyped'  BY <1>1 DEF BlocksInv, BlocksTyped
<1>3. ASSUME NEW b \in BlockIds  PROVE HasPlacement(b)'
  <2>1. HasPlacement(b)  BY DEF BlocksInv
  <2> QED  BY <1>1, <2>1 DEF HasPlacement, Blocks!Stored
<1>4. ASSUME NEW i \in placed, NEW j \in placed  PROVE IsHeld(i)' /\ ApartFrom(i, j)'
  <2>1. IsHeld(i) /\ ApartFrom(i, j)  BY DEF BlocksInv
  <2> QED  BY <1>1, <2>1 DEF IsHeld, ApartFrom
<1> QED  BY <1>1, <1>2, <1>3, <1>4 DEF BlocksInv

LEMMA CmsNextKeeps ==
  ASSUME EntriesInv, ContentInv, BlocksInv, [CmsNext]_cmsVars
  PROVE  EntriesInv' /\ ContentInv' /\ BlocksInv'
<1>1. CASE UNCHANGED cmsVars
  <2>1. UNCHANGED collVars /\ UNCHANGED contentVars /\ UNCHANGED blockVars
    BY <1>1 DEF cmsVars
  <2> QED  BY <2>1, RowsRest, ContentRests, BlocksRest
<1>2. CASE Next /\ UNCHANGED <<part, collVars, contentVars, blockVars>>
  <2>1. UNCHANGED collVars /\ UNCHANGED contentVars /\ UNCHANGED blockVars  BY <1>2
  <2> QED  BY <2>1, RowsRest, ContentRests, BlocksRest
<1>3. CASE Coll!Next /\ UNCHANGED <<part, vars, contentVars, blockVars>>
  <2>1. UNCHANGED contentVars /\ UNCHANGED blockVars  BY <1>3
  <2> QED  BY <1>3, <2>1, EntriesStep, ContentRests, BlocksRest
<1>4. CASE Content!Next /\ UNCHANGED <<part, vars, collVars, blockVars>>
  <2>1. UNCHANGED collVars /\ UNCHANGED blockVars  BY <1>4
  <2> QED  BY <1>4, <2>1, RowsRest, ContentStep, BlocksRest
<1>5. CASE Blocks!Next /\ UNCHANGED <<part, vars, collVars, contentVars>>
  <2>1. UNCHANGED collVars /\ UNCHANGED contentVars  BY <1>5
  <2> QED  BY <1>5, <2>1, RowsRest, ContentRests, BlocksStep
<1> QED  BY <1>1, <1>2, <1>3, <1>4, <1>5 DEF CmsNext

LEMMA CmsStart == CmsInit => EntriesInv /\ ContentInv /\ BlocksInv
  BY EntriesStart, ContentStart, BlocksStart DEF CmsInit

-----------------------------------------------------------------------------
(* The public sees a collection row only while an editor wants it shown,   *)
(* and, once no task of it is overdue, whenever one does, however late,    *)
(* often or wrongly ordered the publish and unpublish tasks ran; and its   *)
(* revisions are everything the row held.                                  *)
THEOREM RowsStayKept == CmsSpec => []RowsAreKept
<1>1. EntriesInv /\ ContentInv /\ BlocksInv => RowsAreKept
  BY EntriesAreKept DEF RowsAreKept
<1>2. EntriesInv /\ ContentInv /\ BlocksInv /\ [CmsNext]_cmsVars
        => EntriesInv' /\ ContentInv' /\ BlocksInv'
  BY CmsNextKeeps
<1> QED  BY <1>1, <1>2, CmsStart, PTL DEF CmsSpec

(* No two stored pages share an address, a save that names a standing      *)
(* version overwrites nothing its form did not show, a translation group   *)
(* is the pages made from one another; a block out of the library always   *)
(* has a placement and a placement its block, and what is appended to a    *)
(* region comes after everything in it.                                    *)
THEOREM PagesStayWhole == CmsSpec => []PagesAreWhole
<1>1. EntriesInv /\ ContentInv /\ BlocksInv => PagesAreWhole
  BY ContentIsIdentified, BlocksAreWhole DEF PagesAreWhole
<1>2. EntriesInv /\ ContentInv /\ BlocksInv /\ [CmsNext]_cmsVars
        => EntriesInv' /\ ContentInv' /\ BlocksInv'
  BY CmsNextKeeps
<1> QED  BY <1>1, <1>2, CmsStart, PTL DEF CmsSpec
=============================================================================
