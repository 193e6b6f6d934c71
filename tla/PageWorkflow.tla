---------------------------- MODULE PageWorkflow ----------------------------
(***************************************************************************)
(* The editorial workflow of CMS pages (packages/cms/src/index.ts): the    *)
(* status of a page, its frozen revisions, the schedule with its intent    *)
(* tokens and the two outbox tasks behind it, and the trash.               *)
(*                                                                         *)
(* A handler is a mutation and atomic; a task runs outside a transaction   *)
(* and may die between its two updates.  The outbox delivers a task at or  *)
(* after its time, late, in any order, and more than once.  Editors write, *)
(* reviewers publish; what a reviewer stood for is kept in the history     *)
(* variables licence and plan, which no handler reads.                     *)
(*                                                                         *)
(* The content of a page is what assembleLive gathers: its own columns and *)
(* the blocks placed on it.  How they are edited is PageContent's.         *)
(***************************************************************************)
EXTENDS Integers, Sequences

CONSTANTS
  Pages,
  Contents,   \* what a page may hold
  Complete,   \* that whose required fields are filled
  MaxTime,    \* bound: the clock runs over 0..MaxTime
  MaxRevs,    \* bound: revisions ever written
  MaxPlans    \* bound: schedules ever made

ASSUME PageWorkflowAssumption ==
  /\ Complete \subseteq Contents
  /\ -1 \notin Contents          \* null is no content
  /\ MaxTime \in Nat
  /\ MaxRevs \in Nat
  /\ MaxPlans \in Nat

VARIABLES
  now,
  page,      \* cms_pages: the row of every page, born or not
  revs,      \* cms_page_revisions, in the order of writing
  tasks,     \* cms:publish and cms:unpublish tasks still in the outbox
  licence,   \* history: the content a reviewer let out and nobody took back
  plan,      \* history: the last schedule nobody replaced or cancelled
  plans      \* schedules made so far

vars == <<now, page, revs, tasks, licence, plan, plans>>

None == -1   \* null, for a time or a revision id
Times == 0..MaxTime
NoPlan == [at |-> None, down |-> None, taken |-> FALSE, content |-> None]

Unborn == [status |-> "unborn", content |-> None, scheduledAt |-> None,
           unpublishAt |-> None, deleted |-> FALSE, current |-> None]

Status == {"draft", "review", "rejected", "published", "archived"}
Stored(p) == page[p].status \in Status

(* What ctx.db.find answers: a row in the trash is outside the read scope. *)
Visible(p) == Stored(p) /\ ~page[p].deleted

(* assertPublishable: the required fields of the content type have values. *)
Publishable(p) == page[p].content \in Complete
AnyPublishable(p) == TRUE

(* getPage, the public read: a published page is the snapshot its pointer  *)
(* names, never the live tables.                                           *)
Snapshot(p) ==
  IF page[p].current \in DOMAIN revs THEN revs[page[p].current].content
                                    ELSE None
Published(p) == Visible(p) /\ page[p].status = "published"
Served(p) == Published(p) /\ Snapshot(p) # None

----------------------------------------------------------------------------

Row == [status : Status \cup {"unborn", "purged"}, content : Contents \cup {None},
        scheduledAt : Times \cup {None}, unpublishAt : Times \cup {None},
        deleted : BOOLEAN, current : 1..MaxRevs \cup {None}]
Revision == [page : Pages \cup {None}, status : {"published", "scheduled", "gone"},
             content : Contents \cup {None}]
Task == [kind : {"publish", "unpublish"}, page : Pages, token : Times,
         rev : 1..MaxRevs \cup {None}]
Plan == [at : Times \cup {None}, down : Times \cup {None}, taken : BOOLEAN,
         content : Contents \cup {None}]

TypeOK ==
  /\ now \in Times
  /\ page \in [Pages -> Row]
  /\ revs \in Seq(Revision) /\ Len(revs) <= MaxRevs
  /\ tasks \subseteq Task
  /\ licence \in [Pages -> Contents \cup {None}]
  /\ plan \in [Pages -> Plan]

Init ==
  /\ now = 0
  /\ page = [p \in Pages |-> Unborn]
  /\ revs = << >>
  /\ tasks = {}
  /\ licence = [p \in Pages |-> None]
  /\ plan = [p \in Pages |-> NoPlan]
  /\ plans = 0

Set(p, row) == page' = [page EXCEPT ![p] = row]

NewRev(p, status) == [page |-> p, status |-> status, content |-> page[p].content]
GoneRev == [page |-> None, status |-> "gone", content |-> None]

----------------------------------------------------------------------------
(* Editors.                                                                *)

(* createPage: a draft, scaffolded with its type's default blocks.         *)
createPage(p) ==
  /\ page[p].status = "unborn"
  /\ \E content \in Contents :
       Set(p, [page[p] EXCEPT !.status = "draft", !.content = content])
  /\ UNCHANGED <<now, revs, tasks, licence, plan, plans>>

(* updatePage, updatePageSeo and the five block handlers.                  *)
edit(p) ==
  /\ Visible(p)
  /\ \E content \in Contents \ {page[p].content} :
       Set(p, [page[p] EXCEPT !.content = content])
  /\ UNCHANGED <<now, revs, tasks, licence, plan, plans>>

submitForReview(p) ==
  /\ Visible(p)
  /\ page[p].status \in {"draft", "rejected"}
  /\ Set(p, [page[p] EXCEPT !.status = "review"])
  /\ UNCHANGED <<now, revs, tasks, licence, plan, plans>>

(* A mutant: the publish that is still queued keeps its token.             *)
takenDownPending(p, status) ==
  [page[p] EXCEPT !.status = status, !.unpublishAt = None]
takenDown(p, status) ==
  [page[p] EXCEPT !.status = status, !.scheduledAt = None, !.unpublishAt = None]

(* unpublishPage and archivePage: both tokens go, and with them the tasks. *)
takeDown(p, status) ==
  /\ Visible(p)
  /\ Set(p, takenDown(p, status))
  /\ licence' = [licence EXCEPT ![p] = None]
  /\ plan' = [plan EXCEPT ![p] = NoPlan]
  /\ UNCHANGED <<now, revs, tasks, plans>>

unpublishPage(p) == takeDown(p, "draft")
archivePage(p) == takeDown(p, "archived")

(* deletePage: the schedule is kept.                                       *)
(* A mutant: the trash forgets the schedule.                               *)
trashedUnscheduled(p) ==
  [page[p] EXCEPT !.deleted = TRUE, !.scheduledAt = None, !.unpublishAt = None]
trashed(p) == [page[p] EXCEPT !.deleted = TRUE]

deletePage(p) ==
  /\ Visible(p)
  /\ Set(p, trashed(p))
  /\ UNCHANGED <<now, revs, tasks, licence, plan, plans>>

(* restorePage: a publish that came due in the trash is dropped.           *)
neverMissed(p) == FALSE   \* a mutant
publishMissed(p) == page[p].scheduledAt # None /\ page[p].scheduledAt <= now

restorePage(p) ==
  /\ Stored(p)
  /\ page[p].deleted
  /\ Set(p, [page[p] EXCEPT !.deleted = FALSE,
                            !.scheduledAt = IF publishMissed(p) THEN None ELSE @])
  /\ plan' = [plan EXCEPT ![p].at = IF @ <= now THEN None ELSE @]
  /\ UNCHANGED <<now, revs, tasks, licence, plans>>

----------------------------------------------------------------------------
(* Reviewers.                                                              *)

(* doPublish by hand: a new revision, the pointer, and both tokens spent.  *)
doPublish(p) ==
  /\ Publishable(p)
  /\ Len(revs) < MaxRevs
  /\ revs' = Append(revs, NewRev(p, "published"))
  /\ Set(p, [page[p] EXCEPT !.status = "published", !.scheduledAt = None,
                            !.unpublishAt = None, !.current = Len(revs')])
  /\ plan' = [plan EXCEPT ![p] = NoPlan]
  /\ UNCHANGED <<now, tasks, plans>>

publishPage(p) ==
  /\ Visible(p)
  /\ doPublish(p)
  /\ licence' = [licence EXCEPT ![p] = page[p].content]

(* approve: the reviewer names, by its hash, the content of the preview    *)
(* that was read, perhaps a while ago.                                     *)
mayApproveUnread(p, reviewed) == page[p].status = "review"   \* a mutant
mayApprove(p, reviewed) ==
  page[p].status = "review" /\ page[p].content = reviewed

approve(p) ==
  \E reviewed \in Contents :
    /\ Visible(p)
    /\ mayApprove(p, reviewed)
    /\ doPublish(p)
    /\ licence' = [licence EXCEPT ![p] = reviewed]

reject(p) ==
  /\ Visible(p)
  /\ page[p].status = "review"
  /\ Set(p, [page[p] EXCEPT !.status = "rejected"])
  /\ UNCHANGED <<now, revs, tasks, licence, plan, plans>>

DropRevisions(p) ==   \* a mutant: the published ones too
  [r \in DOMAIN revs |-> IF revs[r].page = p THEN GoneRev ELSE revs[r]]
DropScheduled(p) ==
  [r \in DOMAIN revs |-> IF revs[r].page = p /\ revs[r].status = "scheduled"
                           THEN GoneRev ELSE revs[r]]

(* schedulePage: the content is frozen now, into a revision that replaces  *)
(* the one of an earlier schedule; the tokens are the times; each task     *)
(* carries its own.                                                        *)
schedulePage(p) ==
  /\ Visible(p)
  /\ Publishable(p)
  /\ plans < MaxPlans
  /\ Len(revs) < MaxRevs
  /\ \E at \in Times, down \in Times \cup {None} :
       /\ down # None => at < down
       /\ revs' = Append(DropScheduled(p), NewRev(p, "scheduled"))
       /\ Set(p, [page[p] EXCEPT !.scheduledAt = at, !.unpublishAt = down])
       /\ tasks' = tasks
            \cup {[kind |-> "publish", page |-> p, token |-> at, rev |-> Len(revs')]}
            \cup (IF down = None THEN {} ELSE
                   {[kind |-> "unpublish", page |-> p, token |-> down, rev |-> None]})
       /\ plan' = [plan EXCEPT ![p] = [at |-> at, down |-> down, taken |-> FALSE,
                                       content |-> page[p].content]]
  /\ plans' = plans + 1
  /\ UNCHANGED <<now, licence>>

(* purgePage: the row, its revisions and its audit trail go; its tasks     *)
(* cannot be recalled.                                                     *)
purgePage(p) ==
  /\ Stored(p)
  /\ page[p].deleted
  /\ Set(p, [Unborn EXCEPT !.status = "purged"])
  /\ revs' = [r \in DOMAIN revs |-> IF revs[r].page = p
                THEN GoneRev ELSE revs[r]]
  /\ licence' = [licence EXCEPT ![p] = None]
  /\ plan' = [plan EXCEPT ![p] = NoPlan]
  /\ UNCHANGED <<now, tasks, plans>>

----------------------------------------------------------------------------
(* The outbox drain.                                                       *)

(* A delivered task is settled, or its settling is lost and it is          *)
(* delivered again.                                                        *)
settle(t) == tasks' \in {tasks, tasks \ {t}}

(* cms:publish: only for the schedule that stands, never from the trash,   *)
(* and only the snapshot frozen for it.                                    *)
mayPublishTrashed(t) ==   \* a mutant
  LET p == t.page IN
  /\ Stored(p)
  /\ page[p].scheduledAt = t.token
  /\ t.rev \in DOMAIN revs
  /\ revs[t.rev].status = "scheduled"
mayPublish(t) ==
  LET p == t.page IN
  /\ Stored(p)
  /\ page[p].scheduledAt = t.token
  /\ ~page[p].deleted
  /\ t.rev \in DOMAIN revs
  /\ revs[t.rev].status = "scheduled"

(* A mutant: the scheduled publish clears what a manual one clears.        *)
wentOutForGood(t) ==
  [page[t.page] EXCEPT !.status = "published", !.scheduledAt = None,
                       !.unpublishAt = None, !.current = t.rev]
wentOut(t) ==
  [page[t.page] EXCEPT !.status = "published", !.scheduledAt = None, !.current = t.rev]

flip(t) == revs' = [revs EXCEPT ![t.rev].status = "published"]

(* The history: a publish that is due and stands lets its content out.     *)
planPublishes(p) ==
  IF plan[p].at # None /\ plan[p].at <= now /\ ~page[p].deleted
    THEN /\ licence' = [licence EXCEPT ![p] = plan[p].content]
         /\ plan' = [plan EXCEPT ![p].at = None]
    ELSE UNCHANGED <<licence, plan>>

runPublish(t) ==
  /\ t.kind = "publish"
  /\ t.token <= now
  /\ mayPublish(t)
  /\ flip(t)
  /\ Set(t.page, wentOut(t))
  /\ planPublishes(t.page)
  /\ settle(t)
  /\ UNCHANGED <<now, plans>>

(* The isolate dies between the two updates: the revision is no longer     *)
(* 'scheduled', the page is untouched, and the task comes back.            *)
dieMidPublish(t) ==
  /\ t.kind = "publish"
  /\ t.token <= now
  /\ mayPublish(t)
  /\ flip(t)
  /\ UNCHANGED <<now, page, tasks, licence, plan, plans>>

(* cms:unpublish: for the schedule that stands, in the trash or out of it. *)
mayUnpublishVisible(t) ==   \* a mutant
  Visible(t.page) /\ page[t.page].unpublishAt = t.token
mayUnpublish(t) == Stored(t.page) /\ page[t.page].unpublishAt = t.token

runUnpublish(t) ==
  /\ t.kind = "unpublish"
  /\ t.token <= now
  /\ mayUnpublish(t)
  /\ Set(t.page, [page[t.page] EXCEPT !.status = "archived", !.unpublishAt = None])
  /\ licence' = [licence EXCEPT ![t.page] = None]
  /\ plan' = [plan EXCEPT ![t.page].taken = plan[t.page].down # None]
  /\ settle(t)
  /\ UNCHANGED <<now, revs, plans>>

(* A task nobody waits for any more.                                       *)
runStale(t) ==
  /\ t.token <= now
  /\ ~(IF t.kind = "publish" THEN mayPublish(t) ELSE mayUnpublish(t))
  /\ tasks' = tasks \ {t}
  /\ UNCHANGED <<now, page, revs, licence, plan, plans>>

tick ==
  /\ now < MaxTime
  /\ now' = now + 1
  /\ UNCHANGED <<page, revs, tasks, licence, plan, plans>>

Next ==
  \/ \E p \in Pages :
       \/ createPage(p) \/ edit(p)
       \/ submitForReview(p) \/ unpublishPage(p) \/ archivePage(p)
       \/ deletePage(p) \/ restorePage(p)
       \/ publishPage(p) \/ approve(p) \/ reject(p)
       \/ schedulePage(p) \/ purgePage(p)
  \/ \E t \in tasks :
       runPublish(t) \/ dieMidPublish(t) \/ runUnpublish(t) \/ runStale(t)
  \/ tick

Spec == Init /\ [][Next]_vars

----------------------------------------------------------------------------

(* What the public sees of a page is what a reviewer let out and nobody    *)
(* took back since, or what the schedule that stands froze and whose time  *)
(* has come: no edit after the review, no superseded or cancelled task, no *)
(* stay in the trash puts anything else, or anything incomplete, on line.  *)
ServedIsLicensed ==
  \A p \in Pages : Served(p) =>
    /\ Snapshot(p) = licence[p]
    /\ licence[p] \in Complete

(* A published page always has its snapshot: no reschedule deletes, and no *)
(* death of a task leaves behind, the revision its pointer names.          *)
PublishedIsServed ==
  \A p \in Pages : Published(p) =>
    /\ Served(p)
    /\ revs[page[p].current].status = "published"
    /\ revs[page[p].current].page = p

(* A takedown that was asked for and not cancelled stays asked for, with a *)
(* task that will do it, through the publish, the trash and the restore.   *)
TakedownStands ==
  \A p \in Pages : plan[p].down # None /\ ~plan[p].taken =>
    /\ page[p].unpublishAt = plan[p].down
    /\ \E t \in tasks : /\ t.kind = "unpublish"
                        /\ t.page = p
                        /\ t.token = plan[p].down

(* Whichever tasks the outbox delivers late, twice or out of order: a page *)
(* marked published has the published snapshot its pointer names, and a    *)
(* takedown that was asked for, not cancelled and not yet carried out      *)
(* keeps its time and its task.                                            *)
SchedulesAreKept == PublishedIsServed /\ TakedownStands

(* The doc of schedulePage: the page is unpublished at unpublishAt.  Once  *)
(* every task of a schedule has run, its page is down.                     *)
TakedownHolds ==
  \A p \in Pages :
    plan[p].taken /\ (\A t \in tasks : t.page # p) => ~Served(p)

(* The comment on cmsTasks: a publish that died half way completes when    *)
(* its task is delivered again.                                            *)
DiedPublishCompletes ==
  \A p \in Pages :
    Visible(p) /\ page[p].scheduledAt # None =>
      \E t \in tasks : /\ t.kind = "publish"
                      /\ t.page = p
                      /\ t.token = page[p].scheduledAt
                      /\ t.rev \in DOMAIN revs
                      /\ revs[t.rev].status = "scheduled"

============================================================================
