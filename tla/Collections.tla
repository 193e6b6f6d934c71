----------------------------- MODULE Collections -----------------------------
(***************************************************************************)
(* Collections of the CMS (packages/cms/src/index.ts): rows of the app's   *)
(* own entities with drafts, scheduling and revisions.                     *)
(*                                                                         *)
(* What the public sees of a row is decided by a read policy at every read *)
(* (collectionPublicPolicies); two outbox tasks, late, repeated and in any *)
(* order, bring the row to the state its schedule implies at that moment.  *)
(* The columns scheduledAt and unpublishAt are the intent tokens a task    *)
(* has to match.  Handlers and tasks make one write to a row: on either    *)
(* store each is one step, except that on D1 a failure may come between    *)
(* the write and the revision beside it, which is not modelled.            *)
(***************************************************************************)
EXTENDS Integers, Sequences

CONSTANTS
  Rows,
  Values,     \* what a row's declared fields may hold
  MaxTime,    \* bound: the clock runs over 0..MaxTime
  MaxPlans,   \* bound: schedules ever made
  MaxEdits    \* bound: creates, updates, deletes and restores

CollectionsAssumption ==
  /\ MaxTime \in Nat
  /\ MaxPlans \in Nat
  /\ MaxEdits \in Nat

VARIABLES
  now,
  row,    \* the entity's rows: "none", "draft" or "published", and columns
  revs,   \* cms_collection_revisions of each row, in revision order
  tasks,  \* the two kinds of collection task still in the outbox
  want,   \* history: what the editors asked for, per row
  trail,  \* history: every content a row had in this life, oldest first
  plans, edits

vars == <<now, row, revs, tasks, want, trail, plans, edits>>

None == -1
Times == 0..MaxTime

NoRow == [status |-> "none", value |-> None, publishedAt |-> None,
          scheduledAt |-> None, unpublishAt |-> None]
Stored(r) == row[r].status # "none"

(* up: shown until further notice.  from, until: shown in between.         *)
NoWant == [up |-> FALSE, from |-> None, until |-> None]

Over(until) == until # None /\ until <= now
Begun(from) == from # None /\ from <= now

(* collectionPublicPolicies: status, publishedAt and, whatever the tasks   *)
(* did, the takedown.                                                      *)
Shown(r) ==
  /\ row[r].status = "published"
  /\ row[r].publishedAt = None \/ row[r].publishedAt <= now
  /\ ~Over(row[r].unpublishAt)

Wanted(r) == ~Over(want[r].until) /\ (want[r].up \/ Begun(want[r].from))

Patched(r, fields) ==
  [c \in DOMAIN NoRow |-> IF c \in DOMAIN fields THEN fields[c] ELSE row[r][c]]
Set(r, fields) == row' = [row EXCEPT ![r] = Patched(r, fields)]

----------------------------------------------------------------------------

TypeOK ==
  /\ now \in Times
  /\ \A r \in Rows :
       /\ row[r].status \in {"none", "draft", "published"}
       /\ {row[r].publishedAt, row[r].scheduledAt, row[r].unpublishAt}
            \subseteq Times \cup {None}
       /\ Len(revs[r]) <= MaxEdits
  /\ \A t \in tasks : t.row \in Rows /\ t.token \in Times

Init ==
  /\ now = 0
  /\ row = [r \in Rows |-> NoRow]
  /\ revs = [r \in Rows |-> << >>]
  /\ tasks = {}
  /\ want = [r \in Rows |-> NoWant]
  /\ trail = [r \in Rows |-> << >>]
  /\ plans = 0
  /\ edits = 0

Edit == edits < MaxEdits /\ edits' = edits + 1

(* snapshotRow: the state before the write, under the next number.         *)
snapshotted(r) == [revs EXCEPT ![r] = Append(@, row[r].value)]

(* collectionCreate: always a draft, with no schedule.                     *)
collectionCreate(r) ==
  /\ ~Stored(r)
  /\ Edit
  /\ \E v \in Values :
       /\ Set(r, [status |-> "draft", value |-> v])
       /\ trail' = [trail EXCEPT ![r] = <<v>>]
  /\ UNCHANGED <<now, revs, tasks, want, plans>>

collectionUpdate(r) ==
  /\ Stored(r)
  /\ Edit
  /\ revs' = snapshotted(r)
  /\ \E v \in Values :
       /\ Set(r, [value |-> v])
       /\ trail' = [trail EXCEPT ![r] = Append(@, v)]
  /\ UNCHANGED <<now, tasks, want, plans>>

(* collectionDelete: the id is the caller's to choose and may come back.   *)
unpurged(r) == revs   \* a mutant
purged(r) == [revs EXCEPT ![r] = << >>]
collectionDelete(r) ==
  /\ Stored(r)
  /\ Edit
  /\ row' = [row EXCEPT ![r] = NoRow]
  /\ revs' = purged(r)
  /\ want' = [want EXCEPT ![r] = NoWant]
  /\ trail' = [trail EXCEPT ![r] = << >>]
  /\ UNCHANGED <<now, tasks, plans>>

(* collectionRestoreRevision: a write like any other, so undoable.         *)
collectionRestoreRevision(r) ==
  /\ Stored(r)
  /\ Edit
  /\ \E n \in DOMAIN revs[r] :
       /\ Set(r, [value |-> revs[r][n]])
       /\ trail' = [trail EXCEPT ![r] = Append(@, trail[r][n])]
  /\ revs' = snapshotted(r)
  /\ UNCHANGED <<now, tasks, want, plans>>

(* collectionPublish: a takedown already served is cleared, a pending one  *)
(* stands.                                                                 *)
unspent(r) == row[r].unpublishAt   \* a mutant
spent(r) == IF Over(row[r].unpublishAt) THEN None ELSE row[r].unpublishAt
collectionPublish(r) ==
  /\ Stored(r)
  /\ Set(r, [status |-> "published", publishedAt |-> now, scheduledAt |-> None,
             unpublishAt |-> spent(r)])
  /\ want' = [want EXCEPT ![r] =
       [up |-> TRUE, from |-> None, until |-> IF Over(@.until) THEN None ELSE @.until]]
  /\ UNCHANGED <<now, revs, tasks, trail, plans, edits>>

down == [status |-> "draft", publishedAt |-> None, scheduledAt |-> None,
         unpublishAt |-> None]

(* collectionUnpublish: not live, and nothing queued to change that.       *)
collectionUnpublish(r) ==
  /\ Stored(r)
  /\ Set(r, down)
  /\ want' = [want EXCEPT ![r] = NoWant]
  /\ UNCHANGED <<now, revs, tasks, trail, plans, edits>>

(* collectionSchedule: the takedown may be given, cancelled, or left as it *)
(* is, and the publish has to come before the one that will be in effect.  *)

collectionSchedule(r) ==
  /\ Stored(r)
  /\ plans < MaxPlans
  /\ \E at \in Times, given \in BOOLEAN :
       \E until \in IF given THEN Times \cup {None} ELSE {row[r].unpublishAt} :
         /\ until = None \/ at < until
         /\ Set(r, [scheduledAt |-> at, unpublishAt |-> until])
         /\ tasks' = tasks
              \cup {[kind |-> "publish", row |-> r, token |-> at]}
              \cup {[kind |-> "unpublish", row |-> r, token |-> u] :
                      u \in IF given THEN {until} \ {None} ELSE {}}
         /\ want' = [want EXCEPT ![r].from = at, ![r].until = until]
  /\ plans' = plans + 1
  /\ UNCHANGED <<now, revs, trail, edits>>

----------------------------------------------------------------------------
(* The outbox drain: a delivered task is settled, or delivered again.      *)

settle(t) == tasks' \in {tasks, tasks \ {t}}
due(t) == t.token <= now

(* The takedown came first: both instants have passed, so the row lands    *)
(* down; else it goes up and keeps a takedown still to come.               *)
(* A mutant, and what this task once did: published whatever has passed.   *)
publishedAnyway(r) ==
  [status |-> "published", publishedAt |-> now, scheduledAt |-> None,
   unpublishAt |-> spent(r)]
published(r) ==
  IF Over(row[r].unpublishAt) THEN down
  ELSE [status |-> "published", publishedAt |-> now, scheduledAt |-> None]

runPublish(t) ==
  LET r == t.row IN
  /\ t.kind = "publish"
  /\ due(t)
  /\ row[r].scheduledAt = t.token
  /\ Set(r, published(r))
  /\ want' = [want EXCEPT ![r] =
       IF Over(@.until) THEN NoWant
       ELSE IF Begun(@.from) THEN [up |-> TRUE, from |-> None, until |-> @.until]
       ELSE @]
  /\ settle(t)
  /\ UNCHANGED <<now, revs, trail, plans, edits>>

(* The takedown clears the publish token too.                              *)
takenDownOnly ==   \* a mutant
  [status |-> "draft", publishedAt |-> None, unpublishAt |-> None]
takenDown == down
runUnpublish(t) ==
  LET r == t.row IN
  /\ t.kind = "unpublish"
  /\ due(t)
  /\ row[r].unpublishAt = t.token
  /\ Set(r, takenDown)
  /\ want' = [want EXCEPT ![r] = IF Over(@.until) THEN NoWant ELSE @]
  /\ settle(t)
  /\ UNCHANGED <<now, revs, trail, plans, edits>>

token(t) ==
  IF t.kind = "publish" THEN row[t.row].scheduledAt ELSE row[t.row].unpublishAt

runStale(t) ==
  /\ due(t)
  /\ token(t) # t.token
  /\ tasks' = tasks \ {t}
  /\ UNCHANGED <<now, row, revs, want, trail, plans, edits>>

tick ==
  /\ now < MaxTime
  /\ now' = now + 1
  /\ UNCHANGED <<row, revs, tasks, want, trail, plans, edits>>

Next ==
  \/ \E r \in Rows :
       \/ collectionCreate(r) \/ collectionUpdate(r) \/ collectionDelete(r)
       \/ collectionRestoreRevision(r)
       \/ collectionPublish(r) \/ collectionUnpublish(r) \/ collectionSchedule(r)
  \/ \E t \in tasks : runPublish(t) \/ runUnpublish(t) \/ runStale(t)
  \/ tick

Spec == Init /\ [][Next]_vars

----------------------------------------------------------------------------

(* The public never sees a row nobody wants shown now, however late, often *)
(* or wrongly ordered its tasks run; and once no task of a row is overdue, *)
(* the public sees it exactly when it is wanted.                           *)
ShownAsWanted ==
  \A r \in Rows :
    /\ Shown(r) => Wanted(r)
    /\ (\A t \in tasks : t.row = r => ~due(t)) => (Shown(r) <=> Wanted(r))

(* A revision is the row before an edit of this life, so the history and   *)
(* the row together are everything the row ever held, in order: nothing is *)
(* lost by a restore, nothing inherited from a deleted row.                *)
HistoryIsComplete ==
  \A r \in Rows : Stored(r) => Append(revs[r], row[r].value) = trail[r]

============================================================================
