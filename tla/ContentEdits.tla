----------------------------- MODULE ContentEdits ------------------------------
(***************************************************************************)
(* What administrators can do to a draft version of a word source: build   *)
(* its exercise items, correct, approve, disable or send them back with    *)
(* feedback, and publish or discard the version.  Every operation takes    *)
(* one step here.  ContentVersions is how the server performs it in        *)
(* several, and ContentPages the pages that ask for it.                    *)
(*                                                                         *)
(* Abstracted: a cell is a word, a stage and the task of that stage, and   *)
(* holds at most one item; the builder can build every cell; the prompt    *)
(* and answer of an item are one value, which parseExerciseContent accepts *)
(* or not (ValidContents).                                                 *)
(***************************************************************************)
EXTENDS Integers

CONSTANTS
    Cells,          \* words by stage and task
    Contents,       \* prompt and answer of an item
    ValidContents,  \* those parseExerciseContent accepts
    Generated,      \* the content the builder generates
    Texts,          \* feedback of a reviewer
    MaxRevision,    \* bound: no change of items is asked for from this revision on
    NoContent, NoText

ASSUME ContentsAssumption ==
    /\ Generated \in ValidContents /\ ValidContents \subseteq Contents
    /\ NoContent \notin Contents /\ NoText \notin Texts
    /\ MaxRevision \in Nat

VARIABLES
    version,    \* row of source_versions
    items,      \* exercise_items, by cell
    feedback    \* exercise_item_review_feedback, by cell

db == <<version, items, feedback>>

-----------------------------------------------------------------------------
Version == [status : {"draft", "published", "archived"}, revision : Nat]

Item == [status : {"missing", "draft", "approved", "disabled"},
         content : Contents \cup {NoContent}]

Missing == [status |-> "missing", content |-> NoContent]

(* A new version has no items.  One of an earlier release may have some    *)
(* that today's rules refuse, or some already built.                       *)
InitEdits ==
    /\ version = [status |-> "draft", revision |-> 0]
    /\ items \in [Cells -> {Missing, [status |-> "draft", content |-> Generated]} \cup
                  {[status |-> "approved", content |-> x] : x \in Contents \ ValidContents}]
    /\ feedback = [c \in Cells |-> NoText]

-----------------------------------------------------------------------------
(* What may be asked.  A review names the revision the reviewer has seen.  *)
Reviews == {"approve", "request_rework", "correct", "evaluate"}
ReadingOps == {"evaluate", "item", "window"}
Ops == Reviews \cup ReadingOps
         \cup {"build", "approve_items", "edit", "disable", "discard", "publish"}

Input == [op : Ops, expected : Nat, content : Contents \cup {NoContent},
          cells : SUBSET Cells, text : Texts \cup {NoText}]

Do(op, cells) == [op |-> op, expected |-> 0, content |-> NoContent, cells |-> cells,
                  text |-> NoText]
Put(op, c, x) == [Do(op, {c}) EXCEPT !.content = x]
Review(op, c, e) == [Do(op, {c}) EXCEPT !.expected = e]
Rework(c, e, t) == [Review("request_rework", c, e) EXCEPT !.text = t]
Correction(c, e, x) == [Review("correct", c, e) EXCEPT !.content = x]

Edits ==
    {Do(op, {}) : op \in {"build", "discard", "publish"}}
    \cup {Do("approve_items", cs) : cs \in (SUBSET Cells) \ {{}}}
    \cup {Do("disable", {c}) : c \in Cells}
    \cup {Put("edit", c, x) : c \in Cells, x \in ValidContents}

(* What a reviewer who has seen revision e decides about a cell.           *)
DecisionsOn(c, e) ==
    {Review("approve", c, e)} \cup {Rework(c, e, t) : t \in Texts}
        \cup {Correction(c, e, x) : x \in ValidContents}

Decisions == UNION {DecisionsOn(c, e) : c \in Cells, e \in 0..version.revision}

IsWithinBound(input) ==
    input.op \in ReadingOps \cup {"publish", "discard"} \/ version.revision < MaxRevision

-----------------------------------------------------------------------------
(* When an operation is accepted, given the items and the feedback.        *)
Exists(is, c) == is[c].status # "missing"
Valid(is, c) == is[c].content \in ValidContents

AcceptsItems(input, is) ==
    /\ \A c \in input.cells : Exists(is, c)
    /\ input.op \in Reviews => \A c \in input.cells : Valid(is, c)
    /\ input.op = "disable" => \A c \in input.cells : is[c].status # "disabled"
    /\ input.op = "correct" => \A c \in input.cells : is[c].content # input.content

(* toCoverage: what keeps a version from being published.                  *)
(* Mutant: a disabled item covers its cell.                                *)
IsCoveredUnlessDraft(is, c) == is[c].status \notin {"missing", "draft"} /\ Valid(is, c)

IsCovered(is, c) == is[c].status = "approved" /\ Valid(is, c)

NeedsFeedbackClosed(input) ==
    input.op \in {"approve_items", "disable", "publish", "approve"}

AcceptsFeedback(input, is, fs) ==
    LET read == IF input.op = "publish" THEN {c \in Cells : Exists(is, c)}
                ELSE input.cells IN
    NeedsFeedbackClosed(input) =>
        /\ \A c \in read : fs[c] = NoText
        /\ input.op \in {"approve", "approve_items"} =>
              \A c \in read : is[c].status = "draft" /\ Valid(is, c)
        /\ input.op = "publish" => \A c \in Cells : IsCovered(is, c)

-----------------------------------------------------------------------------
(* What it writes.                                                         *)
NewStatus(op) ==
    CASE op \in {"approve", "approve_items"} -> "approved"
      [] op = "disable" -> "disabled"
      [] OTHER -> "draft"

WrittenCells(input, is) ==
    IF input.op = "build" THEN {c \in Cells : ~Exists(is, c)} ELSE input.cells

(* The item as it was read, with what the operation changes in it.  Only a *)
(* request for rework leaves the stored content alone.                     *)
NewItem(input, is, c) ==
    [status  |-> NewStatus(input.op),
     content |-> CASE input.op = "build" -> Generated
                   [] input.op = "request_rework" -> items[c].content
                   [] input.content # NoContent -> input.content
                   [] OTHER -> is[c].content]

ItemsAfter(input, is) ==
    [c \in Cells |-> IF c \in WrittenCells(input, is) THEN NewItem(input, is, c)
                     ELSE items[c]]

(* exercise_items_clear_feedback_after_content_change.                     *)
FeedbackAfter(input, is, c) ==
    IF input.op = "request_rework" /\ c \in input.cells THEN input.text
    ELSE IF ItemsAfter(input, is)[c].content # items[c].content THEN NoText
    ELSE feedback[c]

(* Mutant: an approval is not counted as a change of the content.          *)
RevisionAfterContent(input) ==
    IF input.op \in {"approve", "approve_items"} THEN version.revision ELSE version.revision + 1

RevisionAfter(input) == version.revision + 1

(* is are the items the operation has read.                                *)
Write(input, is) ==
    CASE input.op = "publish" ->
            /\ version' = [version EXCEPT !.status = "published"]
            /\ UNCHANGED <<items, feedback>>
      [] input.op = "discard" ->
            /\ version' = [version EXCEPT !.status = "archived"]
            /\ UNCHANGED <<items, feedback>>
      [] OTHER ->
            /\ items' = ItemsAfter(input, is)
            /\ feedback' = [c \in Cells |-> FeedbackAfter(input, is, c)]
            /\ version' = [version EXCEPT !.revision = RevisionAfter(input)]

-----------------------------------------------------------------------------
(* One operation on the version as it is.                                  *)
MayPerform(input) ==
    /\ version.status = "draft"
    /\ input.op \in Reviews => input.expected = version.revision
    /\ AcceptsItems(input, items)
    /\ AcceptsFeedback(input, items, feedback)
    /\ input.op = "build" => WrittenCells(input, items) # {}

Perform(input) == MayPerform(input) /\ Write(input, items)

EditsSpec == InitEdits /\ [][\E input \in Edits \cup Decisions : Perform(input)]_db
=============================================================================
