---------------------------- MODULE ContentVersions ----------------------------
(***************************************************************************)
(* How the server performs the operations of ContentEdits for several      *)
(* administrators at once.  A request is a process; every D1 statement or  *)
(* batch it issues is one atomic step.  A snapshot of the version takes    *)
(* two, the version and then its items (words and groups never change).    *)
(* Nothing is locked: a write repeats the revision its request has read,   *)
(* and triggers guard the feedback.                                        *)
(***************************************************************************)
EXTENDS ContentEdits

CONSTANT Requests

VARIABLES
    at,         \* the step each request takes next
    loc         \* what each request remembers

vars == <<db, at, loc>>

Point == {"idle", "items", "feedback", "write", "conflict", "reread", "current", "confirm"}

Nothing == [input |-> Do("item", {}), version |-> [status |-> "draft", revision |-> 0],
            items |-> <<>>]

Init ==
    /\ InitEdits
    /\ at = [r \in Requests |-> "idle"]
    /\ loc = [r \in Requests |-> Nothing]

Goto(r, point, l) ==
    /\ at' = [at EXCEPT ![r] = point]
    /\ loc' = [loc EXCEPT ![r] = l]

(* A request ends with a reply, a refusal or, between any two of its       *)
(* steps, because a statement fails or the worker is evicted.              *)
End(r) == Goto(r, "idle", Nothing)

Die(r) == at[r] # "idle" /\ End(r) /\ UNCHANGED db

-----------------------------------------------------------------------------
(* The operations.  Each begins with the version of its snapshot; those    *)
(* that are refused are refused by the step that reads what they lack.     *)
Begin(r, point, input) ==
    /\ at[r] = "idle" /\ IsWithinBound(input)
    /\ Goto(r, point, [Nothing EXCEPT !.input = input, !.version = version])
    /\ UNCHANGED db

BuildExerciseItems(r) == Begin(r, "items", Do("build", {}))

ApproveExerciseItems(r) ==
    \E cs \in (SUBSET Cells) \ {{}} : Begin(r, "items", Do("approve_items", cs))

EditExerciseItem(r) ==
    \E c \in Cells, x \in ValidContents : Begin(r, "items", Put("edit", c, x))

DisableExerciseItem(r) == \E c \in Cells : Begin(r, "items", Do("disable", {c}))

DecideExerciseReview(r) == \E input \in Decisions : Begin(r, "items", input)

DiscardDraft(r) == Begin(r, "items", Do("discard", {}))

PublishVersion(r) == Begin(r, "items", Do("publish", {}))

GetExerciseReviewWindow(r) == Begin(r, "current", Do("window", {}))

-----------------------------------------------------------------------------
(* Reading.                                                                *)
(* requireReviewExerciseContext compares the revision.                     *)
IsExpected(l) == l.input.op \in Reviews => l.version.revision = l.input.expected

(* addExerciseItems without items only checks the version again.           *)
NextPoint(l) ==
    CASE NeedsFeedbackClosed(l.input) -> "feedback"
      [] l.input.op = "build" /\ WrittenCells(l.input, l.items) = {} -> "reread"
      [] OTHER -> "write"

ReadItems(r) ==
    LET l == [loc[r] EXCEPT !.items = items] IN
    /\ at[r] = "items"
    /\ IF l.version.status = "draft" /\ IsExpected(l) /\ AcceptsItems(l.input, l.items)
       THEN Goto(r, NextPoint(l), l)
       ELSE End(r)
    /\ UNCHANGED db

ReadFeedback(r) ==
    /\ at[r] = "feedback"
    /\ IF AcceptsFeedback(loc[r].input, loc[r].items, feedback)
       THEN Goto(r, "write", loc[r]) ELSE End(r)
    /\ UNCHANGED db

(* getExerciseReviewWindow: the version, the current item and the version  *)
(* again.                                                                  *)
ReadCurrent(r) ==
    /\ at[r] = "current"
    /\ Goto(r, "confirm", [loc[r] EXCEPT !.items = items])
    /\ UNCHANGED db

ConfirmVersion(r) == at[r] = "confirm" /\ End(r) /\ UNCHANGED db

-----------------------------------------------------------------------------
(* Writing.                                                                *)
(* Mutant: the revision is not compared.                                   *)
MayWriteAnyRevision(l) == version.status = "draft"

MayWrite(l) == version.status = "draft" /\ version.revision = l.version.revision

(* exercise_items_block_open_feedback_status_change, and the condition of  *)
(* publishSourceVersion.                                                   *)
IsBlockedByFeedback(l) ==
    IF l.input.op = "publish" THEN \E c \in Cells : feedback[c] # NoText
    ELSE \E c \in WrittenCells(l.input, l.items) :
            /\ NewStatus(l.input.op) \in {"approved", "disabled"} \ {items[c].status}
            /\ feedback[c] # NoText

(* A build ends with the coverage of the version as it is by then.         *)
WriteVersion(r, ops) ==
    LET l == loc[r] IN
    /\ at[r] = "write" /\ l.input.op \in ops
    /\ IF MayWrite(l) /\ ~IsBlockedByFeedback(l)
       THEN /\ Write(l.input, l.items)
            /\ IF l.input.op = "build" THEN Goto(r, "reread", l) ELSE End(r)
       ELSE UNCHANGED db /\ Goto(r, "conflict", l)

AddExerciseItems(r) == WriteVersion(r, {"build"})

UpdateExerciseItems(r) ==
    WriteVersion(r, {"approve_items", "edit", "disable", "approve", "correct"})

RequestExerciseItemRework(r) == WriteVersion(r, {"request_rework"})

PublishSourceVersion(r) == WriteVersion(r, {"publish"})

ArchiveDraftVersion(r) == WriteVersion(r, {"discard"})

(* throwWriteConflict looks for the reason.                                *)
ReadOutcome(r) == at[r] \in {"conflict", "reread"} /\ End(r) /\ UNCHANGED db

Operate(r) ==
    \/ BuildExerciseItems(r) \/ ApproveExerciseItems(r) \/ EditExerciseItem(r)
    \/ DisableExerciseItem(r) \/ DecideExerciseReview(r)
    \/ DiscardDraft(r) \/ PublishVersion(r) \/ GetExerciseReviewWindow(r)

WriteSomething(r) ==
    \/ AddExerciseItems(r) \/ UpdateExerciseItems(r) \/ RequestExerciseItemRework(r)
    \/ PublishSourceVersion(r) \/ ArchiveDraftVersion(r)

Next ==
    \E r \in Requests :
        \/ Operate(r)
        \/ ReadItems(r) \/ ReadFeedback(r) \/ ReadCurrent(r) \/ ConfirmVersion(r)
        \/ WriteSomething(r) \/ ReadOutcome(r) \/ Die(r)

Spec == Init /\ [][Next]_vars

-----------------------------------------------------------------------------
(* PROPERTIES                                                              *)

(* Rows and memories have the types the schema and the code give them.     *)
TypeOK ==
    /\ version \in Version
    /\ items \in [Cells -> Item]
    /\ \A c \in Cells : items[c].status = "missing" <=> items[c].content = NoContent
    /\ feedback \in [Cells -> Texts \cup {NoText}]
    /\ at \in [Requests -> Point]
    /\ \A r \in Requests : loc[r].input \in Input /\ loc[r].version \in Version

(* A published version has an approved, valid item in every cell and no    *)
(* open feedback, whatever was edited, disabled or sent back while it was  *)
(* being published.                                                        *)
PublishedIsReady ==
    version.status = "published" =>
        \A c \in Cells : /\ items[c].status = "approved"
                         /\ items[c].content \in ValidContents
                         /\ feedback[c] = NoText

(* What learners are given is complete, and the rest in order.             *)
VersionIsSound == TypeOK /\ PublishedIsReady

(* What was read under a revision that is still the current one is the     *)
(* present state: a reviewer's window that is confirmed shows one revision *)
(* and nothing between two.                                                *)
ReadsFitTheirRevision ==
    \A r \in Requests :
        at[r] \in {"feedback", "write", "confirm"} /\ loc[r].version = version
            => loc[r].items = items

(* A version that is published or discarded never changes again: neither   *)
(* moves the revision, so a write that read it is stopped by the status.   *)
EndedIsFinal == [][version.status # "draft" => UNCHANGED db]_vars

(* A request for rework is settled by a change of the content only: no     *)
(* approval, no disabling and no edit that leaves the content as it is     *)
(* removes the feedback.                                                   *)
FeedbackWaitsForContent ==
    [][\A c \in Cells : feedback[c] # NoText /\ feedback'[c] = NoText
                           => items'[c].content # items[c].content]_vars

(* The several reads and the write of an operation amount to one step: it  *)
(* was accepted on the items and the feedback it changed, as they were     *)
(* when it changed them.                                                   *)
EditsAreAtomic == EditsSpec

(* What was decided stays decided, until it is decided again.              *)
DecisionsStand == EditsAreAtomic /\ EndedIsFinal /\ FeedbackWaitsForContent
=============================================================================
