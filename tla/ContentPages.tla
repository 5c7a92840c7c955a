------------------------------ MODULE ContentPages ------------------------------
(***************************************************************************)
(* The pages on which one administrator works on a draft version while     *)
(* others do: the version page, the page of one item and the review        *)
(* runner.  The server performs an operation in one step (ContentVersions  *)
(* shows that it may be seen so).  The response of a call may be lost, and *)
(* its request may then still reach the server, late or never; every page  *)
(* reads again what it is not sure of.                                     *)
(*                                                                         *)
(* Left out: the read-only pages of narrow screens and the preview of the  *)
(* reference sentence.  A page may be left at any time; what it goes on    *)
(* doing is then one of the things others do.                              *)
(***************************************************************************)
EXTENDS ContentEdits, FiniteSets

CONSTANTS
    NoCell,
    MaxBatch,   \* MAX_BATCH_APPROVAL_ITEMS
    MaxLost     \* bound: requests without a response that may still land

ASSUME PagesAssumption ==
    /\ IsFiniteSet(Cells) /\ NoCell \notin Cells
    /\ MaxBatch \in Nat \ {0} /\ MaxLost \in Nat

VARIABLES
    page,
    late        \* requests whose response was lost

pageVars == <<db, page, late>>

-----------------------------------------------------------------------------
(* view  : which page, cell : its item                                     *)
(* state : what it shows, shown : the data, locked : it must be read again *)
(* step  : the call it waits for, decision : the operation it is for       *)
(* failed: how the operation failed, left : what is still to be sent       *)
(* todo  : reads under way, read : the item in the correction form         *)
(* simulated, proof, told : the evaluation shown, what the server had when *)
(*   the success of the operation was established, and that success        *)
NoDecision == Do("item", {})
NoData == [version |-> [status |-> "archived", revision |-> 0], item |-> Missing,
           text |-> NoText, items |-> [c \in Cells |-> Missing], open |-> {}]
NotSimulated == [revision |-> 0, content |-> NoContent]
NoProof == [revision |-> 0, item |-> Missing, text |-> NoText]

Fresh(view, c, step) ==
    [view |-> view, cell |-> c, state |-> "loading", shown |-> NoData, locked |-> FALSE,
     step |-> step, decision |-> NoDecision, failed |-> "no", left |-> {}, todo |-> {},
     read |-> Missing, simulated |-> NotSimulated, proof |-> NoProof, told |-> NoDecision]

VersionPage == Fresh("version", NoCell, "detail")
ItemPage(c) == [Fresh("item", c, "rest") EXCEPT !.todo = {"version", "item"}]
ReviewPage(c) == Fresh("review", c, "window")

PagesInit == InitEdits /\ page = VersionPage /\ late = {}

Idle(p) == [p EXCEPT !.step = "none", !.decision = NoDecision, !.failed = "no", !.left = {}]
Ready(p) == [Idle(p) EXCEPT !.state = "ready"]
Invalidated(p) == [Idle(p) EXCEPT !.state = "error", !.shown = NoData,
                                  !.simulated = NotSimulated]

Proof(c) == [revision |-> version.revision, item |-> items[c], text |-> feedback[c]]

-----------------------------------------------------------------------------
(* The version page and the item page read the version again after each    *)
(* operation; one whose call failed is believed when the version or the    *)
(* item has come into the state it was to bring about.                     *)
Refresh(p) == IF p.view = "version" THEN [p EXCEPT !.step = "detail"]
              ELSE [p EXCEPT !.step = "rest", !.todo = {"version", "item"}]

Reached(p) ==
    CASE p.decision.op = "publish" -> p.shown.version.status = "published"
      [] p.decision.op = "discard" -> p.shown.version.status = "archived"
      [] p.decision.op = "approve_items" -> p.view = "item" /\ p.shown.item.status = "approved"
      [] p.decision.op = "disable" -> p.shown.item.status = "disabled"
      [] OTHER -> FALSE

IsEstablished(p) == p.decision # NoDecision /\ (p.failed = "no" \/ Reached(p))

Refreshed(p) == IF IsEstablished(p) THEN [Ready(p) EXCEPT !.told = p.decision] ELSE Ready(p)

(* getSourceVersion, then the coverage and the items (they are read alike) *)
(* and the summary of the review window.                                   *)
ReadDetail ==
    /\ page.step = "detail"
    /\ page' = [page EXCEPT !.shown.version = version, !.step = "rest",
                            !.todo = IF version.status = "draft" THEN {"items", "window"}
                                     ELSE {"items"}]

ReadRest(part) ==
    LET p == [page EXCEPT !.todo = @ \ {part},
                 !.shown = CASE part = "items"   -> [@ EXCEPT !.items = items]
                             [] part = "window"  -> [@ EXCEPT !.open = {c \in Cells :
                                                                feedback[c] # NoText}]
                             [] part = "version" -> [@ EXCEPT !.version = version]
                             [] part = "item"    -> [@ EXCEPT !.item = items[page.cell]]] IN
    /\ page.step = "rest" /\ part \in page.todo
    /\ part = "window" => version.status = "draft"
    /\ page' = IF p.todo = {} THEN Refreshed(p) ELSE p

(* A read that fails, or a window of a version that is no draft any more.  *)
(* handleWriteError keeps what the item page shows.                        *)
FailRead ==
    /\ page.step \in {"detail", "rest"}
    /\ page' = IF page.decision.op = "edit" THEN [Idle(page) EXCEPT !.state = "error"]
               ELSE Invalidated(page)

-----------------------------------------------------------------------------
(* The review runner shows a window: one item at one revision.  The next   *)
(* to be reviewed comes first: waiting ones, then those sent back, then    *)
(* those disabled.                                                         *)
DefaultCells ==
    LET drafts == {c \in Cells : items[c].status = "draft"}
        waiting == {c \in drafts : feedback[c] = NoText}
        disabled == {c \in Cells : items[c].status = "disabled"} IN
    CASE waiting # {} -> waiting
      [] waiting = {} /\ drafts # {} -> drafts
      [] drafts = {} /\ disabled # {} -> disabled
      [] OTHER -> {NoCell}

(* Mutant: the evaluation of the item shown before is kept.                *)
ApplyWindowEvaluated(p, c) ==
    [p EXCEPT !.cell = c, !.state = "ready", !.locked = FALSE, !.read = Missing,
              !.shown = IF c = NoCell THEN [NoData EXCEPT !.version = version]
                        ELSE [NoData EXCEPT !.version = version, !.item = items[c],
                                            !.text = feedback[c]]]

ApplyWindow(p, c) ==
    [p EXCEPT !.cell = c, !.state = "ready", !.locked = FALSE, !.read = Missing,
              !.simulated = NotSimulated,
              !.shown = IF c = NoCell THEN [NoData EXCEPT !.version = version]
                        ELSE [NoData EXCEPT !.version = version, !.item = items[c],
                                            !.text = feedback[c]]]

(* The form of a correction stays over the revision it was opened on.      *)
ApplyUnconfirmed(p) ==
    IF version.revision = p.decision.expected
    THEN [ApplyWindow(p, p.cell) EXCEPT !.read = p.read] ELSE ApplyWindow(p, p.cell)

EnterImmutableState(p) == [Invalidated(p) EXCEPT !.locked = TRUE, !.read = Missing]

ShowsDecision(p) ==
    LET c == p.cell IN
    CASE p.decision.op = "approve" -> items[c].status = "approved"
      [] p.decision.op = "request_rework" ->
            items[c].status = "draft" /\ feedback[c] = p.decision.text
      [] p.decision.op = "correct" ->
            items[c].status = "draft" /\ feedback[c] = NoText
            /\ p.read.content = p.decision.content

(* Mutant: what the item looks like is enough.                             *)
ConfirmsAtAnyRevision(p) == ShowsDecision(p)

(* The next revision shows what was decided.                               *)
Confirms(p) == version.revision = p.decision.expected + 1 /\ ShowsDecision(p)

Check(p) == [p EXCEPT !.step = IF p.decision.op = "correct" THEN "check_item" ELSE "check"]
Established(p) == [p EXCEPT !.proof = Proof(p.cell)]

(* The first failure of a decision starts the recovery, one in the         *)
(* recovery gives up.                                                      *)
(* Mutant: it never gives up.                                              *)
RecoverAlways(p, failure) ==
    IF failure = "immutable" THEN EnterImmutableState(p) ELSE Check([p EXCEPT !.failed = failure])

Recover(p, failure) ==
    CASE failure = "immutable" -> EnterImmutableState(p)
      [] failure # "immutable" /\ p.failed = "no" -> Check([p EXCEPT !.failed = failure])
      [] OTHER -> IF p.decision.op = "approve" THEN Invalidated(p)
                  ELSE [Idle(p) EXCEPT !.locked = TRUE]

(* The windows the runner reads: when it loads, to check a decision, and   *)
(* the next one after a decision that is established.                      *)
ReadWindow ==
    /\ page.step \in {"window", "check", "next"} /\ version.status = "draft"
    /\ IF page.step = "check"
       THEN page' = IF ~Confirms(page) THEN Idle(ApplyUnconfirmed(page))
                    ELSE IF page.decision.op = "correct"
                    THEN [Idle(ApplyWindow(Established(page), page.cell))
                            EXCEPT !.told = page.decision]
                    ELSE [Established(page) EXCEPT !.step = "next"]
       ELSE \E c \in IF page.cell \in Cells /\ page.step = "window" THEN {page.cell}
                     ELSE DefaultCells :
               page' = [Idle(ApplyWindow(page, c)) EXCEPT !.told = page.decision]

FailWindow ==
    /\ page.step \in {"window", "check", "check_item", "next"}
    /\ \E failure \in {"lost"} \cup {f \in {"immutable"} : version.status # "draft"
                                                          /\ page.step # "check_item"} :
          page' = IF page.step # "window" THEN Recover(page, failure)
                  ELSE IF failure = "immutable" THEN EnterImmutableState(page)
                  ELSE IF page.locked THEN Idle(page) ELSE Invalidated(page)

(* The item for the correction form, and to check a correction.            *)
ReadItem ==
    /\ page.step \in {"form", "check_item"}
    /\ page' = IF page.step = "form" THEN [Idle(page) EXCEPT !.read = items[page.cell]]
               ELSE [page EXCEPT !.read = items[page.cell], !.step = "check"]

FailItem == page.step = "form" /\ page' = Idle(page)

-----------------------------------------------------------------------------
(* The call of an operation, and what each page makes of its outcome.      *)
Batch(p) ==
    IF p.view = "version" /\ p.decision.op = "approve_items"
    THEN {[p.decision EXCEPT !.cells = cs] :
             cs \in {cs \in SUBSET p.left : Cardinality(cs) =
                        IF Cardinality(p.left) < MaxBatch THEN Cardinality(p.left)
                        ELSE MaxBatch}}
    ELSE {p.decision}

Done(p, input) ==
    CASE p.view = "version" -> IF p.left # input.cells
                                 THEN [p EXCEPT !.left = @ \ input.cells] ELSE Refresh(p)
      [] p.view = "item" ->
            [Ready(p) EXCEPT !.told = p.decision,
                !.shown.item = IF input.op = "edit"
                               THEN [status |-> "draft", content |-> input.content]
                               ELSE [@ EXCEPT !.status = NewStatus(input.op)]]
      [] p.view = "review" -> IF p.decision.op = "approve" THEN [p EXCEPT !.step = "next"]
                              ELSE Check(p)

NotDone(p, failure) ==
    CASE p.view = "version" -> IF p.decision.op = "build" THEN Idle(p)
                               ELSE Refresh([p EXCEPT !.failed = failure])
      [] p.view = "item" -> IF p.decision.op = "edit" /\ failure = "lost" THEN Idle(p)
                            ELSE Refresh([p EXCEPT !.failed = failure])
      [] p.view = "review" -> Recover(p, failure)

Answered ==
    /\ page.step = "write"
    /\ \E input \in Batch(page), c \in Cells :
          /\ input.cells # {} => c \in input.cells
          /\ Perform(input)
          /\ page' = IF page.view = "review"
                     THEN [Done(page, input) EXCEPT
                             !.proof = [revision |-> version'.revision, item |-> items'[c],
                                        text |-> feedback'[c]]]
                     ELSE Done(page, input)
    /\ UNCHANGED late

Refused ==
    /\ page.step = "write"
    /\ \E input \in Batch(page) :
          /\ ~MayPerform(input)
          /\ page' = NotDone(page, IF version.status # "draft" THEN "immutable" ELSE "refused")
    /\ UNCHANGED <<db, late>>

Lost ==
    /\ page.step = "write"
    /\ \E input \in Batch(page) :
          /\ page' = NotDone(page, "lost")
          /\ late' = IF Cardinality(late) < MaxLost
                     THEN late \cup {[input |-> input, simulated |-> page.simulated.content]}
                     ELSE late
    /\ UNCHANGED db

Land(l) ==
    /\ Perform(l.input)
    /\ late' = late \ {l}
    /\ UNCHANGED page

(* A simulated answer, evaluated on the item at the revision shown.        *)
Evaluated ==
    /\ page.step = "evaluate"
    /\ page' = IF MayPerform(page.decision)
               THEN [Idle(page) EXCEPT
                       !.simulated = [revision |-> version.revision,
                                      content |-> items[page.cell].content]]
               ELSE IF version.status # "draft" THEN EnterImmutableState(page)
               ELSE Idle(page)

NotEvaluated == page.step = "evaluate" /\ page' = Idle(page)

-----------------------------------------------------------------------------
(* The administrator.                                                      *)
MayAct == page.state = "ready" /\ page.step = "none" /\ ~page.locked
IsMutable == page.shown.version.status = "draft"

Act(step, decision) ==
    page' = [page EXCEPT !.step = step, !.decision = decision, !.told = NoDecision,
                         !.proof = NoProof]

Ask(decision) == IsWithinBound(decision) /\ Act("write", decision)

OnVersion == page.view = "version" /\ MayAct /\ IsMutable

Drafts == {c \in Cells : page.shown.items[c].status = "draft"}

CanApproveAllDrafts ==
    /\ Drafts # {} /\ page.shown.open = {}
    /\ \A c \in Cells : Valid(page.shown.items, c)
                          /\ page.shown.items[c].status \in {"draft", "approved"}

ApproveAllDrafts ==
    /\ OnVersion /\ CanApproveAllDrafts /\ IsWithinBound(Do("approve_items", Drafts))
    /\ page' = [page EXCEPT !.step = "write", !.told = NoDecision, !.proof = NoProof,
                            !.decision = Do("approve_items", Drafts), !.left = Drafts]

BuildVersion == OnVersion /\ Ask(Do("build", {}))

(* detail.readyToPublish.                                                  *)
PublishVersion ==
    /\ OnVersion /\ \A c \in Cells : IsCovered(page.shown.items, c)
    /\ Ask(Do("publish", {}))

DiscardVersion == OnVersion /\ Ask(Do("discard", {}))

OnItem == page.view = "item" /\ MayAct /\ IsMutable

SaveItem == OnItem /\ \E x \in ValidContents : Ask(Put("edit", page.cell, x))

ApproveItem ==
    OnItem /\ page.shown.item.status = "draft" /\ Ask(Do("approve_items", {page.cell}))

DisableItem ==
    OnItem /\ page.shown.item.status # "disabled" /\ Ask(Do("disable", {page.cell}))

OnReview == page.view = "review" /\ MayAct /\ page.cell # NoCell

Seen == page.shown.version.revision

Evaluate == OnReview /\ Act("evaluate", Review("evaluate", page.cell, Seen))

CanApprove ==
    page.shown.item.status = "draft" /\ page.shown.text = NoText
    /\ page.simulated # NotSimulated

Approve == OnReview /\ CanApprove /\ Ask(Review("approve", page.cell, Seen))

RequestRework == OnReview /\ \E t \in Texts : Ask(Rework(page.cell, Seen, t))

LoadCorrection == OnReview /\ page.read = Missing /\ Act("form", NoDecision)

CorrectExercise ==
    /\ OnReview /\ page.read # Missing
    /\ \E x \in ValidContents \ {page.read.content} : Ask(Correction(page.cell, Seen, x))

(* reloadAuthoritative: after a decision whose outcome could not be read.  *)
Reload ==
    /\ page.view = "review" /\ page.state = "ready" /\ page.locked /\ page.step = "none"
    /\ Act("window", NoDecision)

(* The links between the pages, and the review's buttons to other items.   *)
Open ==
    /\ page.step = "none"
    /\ \/ page' = VersionPage
       \/ \E c \in Cells : Exists(items, c) /\ page' \in {ItemPage(c), ReviewPage(c)}
       \/ page' = ReviewPage(NoCell)

Administer ==
    \/ BuildVersion \/ ApproveAllDrafts \/ PublishVersion \/ DiscardVersion
    \/ SaveItem \/ ApproveItem \/ DisableItem
    \/ Evaluate \/ Approve \/ RequestRework \/ LoadCorrection \/ CorrectExercise
    \/ Reload \/ Open

Read == ReadDetail \/ (\E part \in page.todo : ReadRest(part)) \/ FailRead
        \/ ReadWindow \/ FailWindow \/ ReadItem \/ FailItem \/ Evaluated \/ NotEvaluated

Respond == Answered \/ Refused \/ Lost \/ (Read /\ UNCHANGED <<db, late>>)

Others == \E input \in Edits \cup Decisions : IsWithinBound(input) /\ Perform(input)

PagesNext ==
    \/ Administer /\ UNCHANGED <<db, late>>
    \/ Respond
    \/ \E l \in late : Land(l)
    \/ Others /\ UNCHANGED <<page, late>>

PagesSpec == PagesInit /\ [][PagesNext]_pageVars

-----------------------------------------------------------------------------
(* PROPERTIES                                                              *)

(* A page is in one of its states and waits for one of its calls.          *)
PageTypeOK ==
    /\ page.view \in {"version", "item", "review"} /\ page.cell \in Cells \cup {NoCell}
    /\ page.state \in {"loading", "ready", "error"}
    /\ page.step \in {"none", "detail", "rest", "window", "form", "evaluate", "write",
                      "check", "check_item", "next"}
    /\ page.step = "none" => page.state # "loading" /\ page.decision = NoDecision
    /\ page.decision \in Input /\ page.told \in Input
    /\ page.shown.item \in Item /\ page.read \in Item /\ page.shown.version \in Version
    /\ Cardinality(late) <= MaxLost

(* What a page says was done was done: a version it calls published or     *)
(* discarded is, and an item it calls approved, sent back or corrected was *)
(* so at the revision after the one the administrator had decided on, also *)
(* when the response was lost, the request landed late and others wrote    *)
(* the same item meanwhile.                                                *)
ToldIsTrue ==
    LET told == page.told   proof == page.proof IN
    /\ told.op = "publish" => version.status = "published"
    /\ told.op = "discard" => version.status = "archived"
    /\ told.op \in Reviews => proof.revision = told.expected + 1
    /\ told.op = "approve" => proof.item.status = "approved"
    /\ told.op = "request_rework" => proof.item.status = "draft" /\ proof.text = told.text
    /\ told.op = "correct" => proof.item = [status |-> "draft", content |-> told.content]
                              /\ proof.text = NoText

(* The pages can be trusted, in whichever state they are.                  *)
ContentPageIsTrue == PageTypeOK /\ ToldIsTrue

(* The review runner approves nothing but what was simulated: when an      *)
(* approval takes effect, at once or late, the item still has the content  *)
(* on which the administrator's answer was evaluated.                      *)
ApprovedIsSimulated ==
    [][/\ \A l \in late : l.input.op = "approve" /\ Land(l) =>
             \A c \in l.input.cells : items[c].content = l.simulated
       /\ page.decision.op = "approve" /\ Answered =>
             items[page.cell].content = page.simulated.content]_pageVars

(* Whatever is lost, refused or written by others meanwhile, every         *)
(* response brings the action of a page nearer to its end: no page reads   *)
(* or sends again for ever.                                                *)
Remaining(p) ==
    LET calls == CASE p.step = "none" -> 0
                   [] p.step \in {"window", "form", "evaluate", "next"} -> 1
                   [] p.step = "check" -> 2
                   [] p.step \in {"detail", "check_item"} -> 3
                   [] p.step = "rest" -> Cardinality(p.todo)
                   [] p.step = "write" -> 4 + Cardinality(p.left) IN
    IF p.step # "none" /\ p.failed = "no" THEN calls + 3 ELSE calls

ActionsEnd == [][Respond => Remaining(page') < Remaining(page)]_pageVars
=============================================================================
