----------------------------- MODULE PageCanvas -----------------------------
(***************************************************************************)
(* One autosaved form on the editor's page canvas and the approval of the  *)
(* page it is on (packages/cms-editor/src/components.tsx: BlockCard,       *)
(* PageFields, PageEditor), with the CMS handlers behind them              *)
(* (packages/cms/src/index.ts: updateBlock, updatePage, approve).          *)
(*                                                                         *)
(* The content is one opaque value.  Saves are requests of their own, so   *)
(* several may be under way, and nothing orders them: they reach the       *)
(* server, and their answers the screen, in any order.  A request that     *)
(* fails may or may not have been applied.                                 *)
(***************************************************************************)
EXTENDS Integers, SequencesExt

CONSTANTS
  Values,
  Kind,          \* "block" for a BlockCard, "page" for the PageFields form
  MaxInFlight    \* bound on the saves under way

VARIABLES
  stored,     \* the content the server holds
  fields,     \* what the form shows
  saved,      \* saved.current: the dirty baseline
  timer,      \* the debounce timer is armed
  saving,     \* saveState = "saving": disables the Save now button
  requests,   \* saves that have not reached the server
  answers,    \* answers that have not reached the screen, as they were given
  reordered,  \* the last of them was shown before an earlier one
  refused,    \* a save has failed since the last keystroke
  unsure,     \* the last write the server saw failed, or is another editor's
  assembled,  \* the preview the screen was last given or has patched
  approval,   \* where a press of Approve has got to
  published   \* what it published, and what the screen showed when it decided

form == <<stored, fields, saved, timer, saving, requests, answers,
          reordered, refused, unsure>>
vars == <<form, assembled, approval, published>>

None == "none"
dirty == fields # saved
InFlight == Len(requests) + Len(answers)

----------------------------------------------------------------------------

Init ==
  /\ \E v \in Values : stored = v /\ fields = v /\ saved = v /\ assembled = v
  /\ timer = FALSE /\ saving = FALSE
  /\ reordered = FALSE /\ refused = FALSE /\ unsure = FALSE
  /\ requests = <<>> /\ answers = <<>>
  /\ approval = [at |-> None] /\ published = [at |-> None]

(* A change of the fields clears the timer and arms it if they are dirty.  *)
change ==
  /\ \E v \in Values \ {fields} : fields' = v /\ timer' = (v # saved)
  /\ refused' = FALSE
  /\ UNCHANGED <<stored, saved, saving, requests, answers, reordered, unsure,
                 assembled, approval, published>>

save ==
  IF dirty
  THEN /\ saving' = TRUE
       /\ requests' = Append(requests, fields)
  ELSE UNCHANGED <<saving, requests>>

fire ==
  /\ timer
  /\ InFlight < MaxInFlight
  /\ timer' = FALSE
  /\ save
  /\ UNCHANGED <<stored, fields, saved, answers, reordered, refused, unsure,
                 assembled, approval, published>>

saveNow ==
  /\ dirty /\ ~saving
  /\ InFlight < MaxInFlight
  /\ save
  /\ UNCHANGED <<stored, fields, saved, timer, answers, reordered, refused, unsure,
                 assembled, approval, published>>

(* updateBlock, updatePage: the editor names no version.                   *)
serve ==
  \E i \in DOMAIN requests :
    /\ stored' = requests[i]
    /\ requests' = RemoveAt(requests, i)
    /\ answers' = Append(answers, [value |-> requests[i], ok |-> TRUE])
    /\ unsure' = FALSE /\ reordered' = FALSE
    /\ UNCHANGED <<fields, saved, timer, saving, refused, assembled, approval, published>>

fail ==
  \E i \in DOMAIN requests :
    /\ stored' \in {stored, requests[i]}
    /\ requests' = RemoveAt(requests, i)
    /\ answers' = Append(answers, [value |-> requests[i], ok |-> FALSE])
    /\ unsure' = TRUE /\ refused' = TRUE /\ reordered' = FALSE
    /\ UNCHANGED <<fields, saved, timer, saving, assembled, approval, published>>

otherEditor ==
  /\ \E v \in Values \ {stored} : stored' = v
  /\ unsure' = TRUE
  /\ UNCHANGED <<fields, saved, timer, saving, requests, answers, reordered, refused,
                 assembled, approval, published>>

(* The answer: the baseline is the snapshot taken before the round trip.   *)
onScreen(value) == fields   \* a mutant
snapshot(value) == value

(* PageFields arms its timer again when the answer changes whether the     *)
(* form is dirty; BlockCard does so only when the fields change.           *)
asBlockCard(was, is) == timer   \* a mutant
armed(was, is) ==
  IF Kind = "page" /\ was # is THEN is ELSE timer

answered ==
  \E i \in DOMAIN answers :
    LET a == answers[i] IN
      /\ answers' = RemoveAt(answers, i)
      /\ saving' = FALSE
      /\ saved' = IF a.ok THEN snapshot(a.value) ELSE saved
      /\ assembled' = IF a.ok /\ Kind = "block" THEN a.value ELSE assembled
      /\ timer' = armed(dirty, fields # saved')
      /\ reordered' = (reordered \/ (i = Len(answers) /\ i > 1))
      /\ UNCHANGED <<stored, fields, requests, refused, unsure, approval, published>>

----------------------------------------------------------------------------
(* act("approve")                                                          *)

press ==
  /\ approval.at = None
  /\ approval' = [at |-> "asked"]
  /\ UNCHANGED <<form, assembled, published>>

getPagePreview ==
  /\ approval.at = "asked"
  /\ approval' = [at |-> "fresh", value |-> stored]
  /\ UNCHANGED <<form, assembled, published>>

anyScreen(fresh) == TRUE   \* a mutant
matchesScreen(fresh) == fresh = assembled

decide ==
  /\ approval.at = "fresh"
  /\ assembled' = approval.value
  /\ approval' = IF matchesScreen(approval.value)
                 THEN [at |-> "sent", value |-> approval.value, shown |-> assembled]
                 ELSE [at |-> None]
  /\ UNCHANGED <<form, published>>

anyHash(v) == TRUE   \* a mutant
sameHash(v) == v = stored

approve ==
  /\ approval.at = "sent"
  /\ published' = IF sameHash(approval.value)
                  THEN [at |-> "out", value |-> stored, shown |-> approval.shown]
                  ELSE published
  /\ assembled' = IF sameHash(approval.value) THEN assembled ELSE stored
  /\ approval' = [at |-> None]
  /\ UNCHANGED form

Next ==
  \/ change \/ fire \/ saveNow \/ serve \/ fail \/ otherEditor \/ answered
  \/ press \/ getPagePreview \/ decide \/ approve

(* Timers fire, and every request is answered, in the end.                 *)
Fairness ==
  /\ WF_vars(fire)
  /\ WF_vars(serve \/ fail)
  /\ WF_vars(answered)

Spec == Init /\ [][Next]_vars /\ Fairness

----------------------------------------------------------------------------

(***************************************************************************)
(* Once a form has nothing unsaved and no save under way, what it shows is *)
(* what the server holds, however the saves overtook one another and       *)
(* whatever was typed while they were under way.  Three cases are apart:   *)
(* the last write ended in an error, another editor has written since, or  *)
(* the last write's answer was shown before that of an earlier one, which  *)
(* then became the baseline.                                               *)
(***************************************************************************)
QuietIsStored ==
  ~dirty /\ InFlight = 0 /\ ~unsure /\ ~reordered => stored = fields

(***************************************************************************)
(* What is published by an approval is what the approver's screen showed   *)
(* when it decided to send it, whoever else writes between the press, the  *)
(* preview the screen takes and the server's own check.                    *)
(***************************************************************************)
ApprovesWhatWasShown ==
  published.at = "out" => published.value = published.shown

(***************************************************************************)
(* What is typed does not stay unsaved: unless the typing never ends, a    *)
(* dirty form is saved, or a save fails that the user can hear of, without *)
(* another keystroke, whoever else writes.                                 *)
(***************************************************************************)
EditsAreSaved == []<><<change>>_vars \/ (dirty ~> (~dirty \/ refused))

(***************************************************************************)
(* What the comment above the toolbar says of it: one line of truth about  *)
(* saving, which says when page fields and blocks have not finished.  An   *)
(* edit taken back while its save is under way leaves nothing dirty, and   *)
(* the toolbar says that all is saved while the server holds the other.    *)
(***************************************************************************)
AllSavedIsTrue == ~dirty /\ ~unsure => stored = fields
=============================================================================
