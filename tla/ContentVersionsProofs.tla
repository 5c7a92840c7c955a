------------------------- MODULE ContentVersionsProofs -------------------------
(***************************************************************************)
(* That administrators who edit a draft concurrently never publish         *)
(* anything unfinished, and that the reads and the write of an operation   *)
(* amount to one step, for all cells, contents, texts and requests.        *)
(*                                                                         *)
(* Nothing is locked.  The argument is that the revision of a version      *)
(* grows with every change of its items: a request that has read a         *)
(* revision holds the present items as long as the revision is the same,   *)
(* and its write repeats the revision.  Feedback is read later than the    *)
(* revision, so that what was read of it is worth nothing at the write;    *)
(* the conditions of the write itself stand in for it.                     *)
(***************************************************************************)
EXTENDS ContentVersions, TLAPS

(* What an operation that changes something may be asked for.              *)
Asked(input) ==
    \/ input \in Edits
    \/ \E c \in Cells, e \in Nat : input = Review("approve", c, e)
    \/ \E c \in Cells, e \in Nat, t \in Texts : input = Rework(c, e, t)
    \/ \E c \in Cells, e \in Nat, x \in ValidContents : input = Correction(c, e, x)

Memory == [input : Input, version : Version, items : [Cells -> Item] \cup {<<>>}]

(* The reading that NextPoint sends no write without.                      *)
MayHaveRead(l) ==
    /\ IsExpected(l)
    /\ AcceptsItems(l.input, l.items)
    /\ l.input.op = "build" => WrittenCells(l.input, l.items) # {}

(* What a request has checked of the items beside the feedback.            *)
HasCheckedItems(l) ==
    /\ l.input.op \in {"approve", "approve_items"} =>
          \A c \in l.input.cells : l.items[c].status = "draft" /\ Valid(l.items, c)
    /\ l.input.op = "publish" => \A c \in Cells : IsCovered(l.items, c)

(* What a request at a point knows of the version, with m as its memory.   *)
Fits(point, m) ==
    /\ point # "idle" => m.version.revision =< version.revision
    /\ point \in {"items", "feedback", "write"} => Asked(m.input)
    /\ point \in {"feedback", "write", "confirm"} /\ m.version.revision = version.revision
          => m.items = items
    /\ point \in {"feedback", "write"} => MayHaveRead(m)
    /\ point = "write" => HasCheckedItems(m)

StorageOK ==
    /\ version \in Version
    /\ items \in [Cells -> Item]
    /\ \A c \in Cells : items[c].status = "missing" <=> items[c].content = NoContent
    /\ feedback \in [Cells -> Texts \cup {NoText}]
    /\ PublishedIsReady

MemoryOK == at \in [Requests -> Point] /\ loc \in [Requests -> Memory]

VInv == StorageOK /\ MemoryOK /\ \A r \in Requests : Fits(at[r], loc[r])

-----------------------------------------------------------------------------
(* What is asked for is an input, and at the revision it names it is one   *)
(* of the operations of ContentEdits.                                      *)
LEMMA AskedInputs ==
    ASSUME NEW input, Asked(input)
    PROVE  /\ input \in Input
           /\ input.op \notin ReadingOps
           /\ input.op = "request_rework" => input.text \in Texts
           /\ input.op \notin Reviews => input \in Edits
           /\ input.op \in Reviews => input.op \in {"approve", "request_rework", "correct"}
<1> USE ContentsAssumption
<1>1. CASE input \in Edits
  <2>1. CASE \E op \in {"build", "discard", "publish"} : input = Do(op, {})
    BY <2>1, <1>1 DEF Do, Input, Ops, Reviews, ReadingOps
  <2>2. CASE \E cs \in SUBSET Cells : input = Do("approve_items", cs)
    BY <2>2, <1>1 DEF Do, Input, Ops, Reviews, ReadingOps
  <2>3. CASE \E c \in Cells : input = Do("disable", {c})
    BY <2>3, <1>1 DEF Do, Input, Ops, Reviews, ReadingOps
  <2>4. CASE \E c \in Cells, x \in ValidContents : input = Put("edit", c, x)
    BY <2>4, <1>1 DEF Do, Put, Input, Ops, Reviews, ReadingOps
  <2> QED  BY <1>1, <2>1, <2>2, <2>3, <2>4 DEF Edits
<1>2. CASE \E c \in Cells, e \in Nat : input = Review("approve", c, e)
  BY <1>2 DEF Review, Do, Input, Ops, Reviews, ReadingOps
<1>3. CASE \E c \in Cells, e \in Nat, t \in Texts : input = Rework(c, e, t)
  BY <1>3 DEF Rework, Review, Do, Input, Ops, Reviews, ReadingOps
<1>4. CASE \E c \in Cells, e \in Nat, x \in ValidContents : input = Correction(c, e, x)
  BY <1>4 DEF Correction, Review, Do, Input, Ops, Reviews, ReadingOps
<1> QED  BY <1>1, <1>2, <1>3, <1>4 DEF Asked

LEMMA DecisionsAreAsked ==
    ASSUME version \in Version, NEW input \in Decisions
    PROVE  Asked(input)
<1>1. PICK c \in Cells, e \in 0..version.revision : input \in DecisionsOn(c, e)
  BY DEF Decisions
<1>2. e \in Nat
  BY DEF Version
<1> QED  BY <1>1, <1>2 DEF Asked, DecisionsOn

LEMMA AskedAreDecisions ==
    ASSUME version \in Version, NEW input, Asked(input),
           input.op \in Reviews, input.expected = version.revision
    PROVE  input \in Decisions
<1>1. version.revision \in 0..version.revision
  BY DEF Version
<1>2. input \notin Edits
  <2>1. \A op, cs : Do(op, cs).op = op
    BY DEF Do
  <2>2. \A op, c, x : Put(op, c, x).op = op
    BY DEF Put, Do
  <2>3. ASSUME input \in Edits
        PROVE  input.op \in {"build", "discard", "publish", "approve_items", "disable", "edit"}
    <3>1. \/ \E op \in {"build", "discard", "publish"} : input = Do(op, {})
          \/ \E cs \in SUBSET Cells : input = Do("approve_items", cs)
          \/ \E c \in Cells : input = Do("disable", {c})
          \/ \E c \in Cells, x \in ValidContents : input = Put("edit", c, x)
      BY <2>3 DEF Edits
    <3>2. CASE \E op \in {"build", "discard", "publish"} : input = Do(op, {})
      BY <2>1, <3>2
    <3>3. CASE \E cs \in SUBSET Cells : input = Do("approve_items", cs)
      BY <2>1, <3>3
    <3>4. CASE \E c \in Cells : input = Do("disable", {c})
      BY <2>1, <3>4
    <3>5. CASE \E c \in Cells, x \in ValidContents : input = Put("edit", c, x)
      BY <2>2, <3>5
    <3> QED  BY <3>1, <3>2, <3>3, <3>4, <3>5
  <2> QED  BY <2>3 DEF Reviews
<1>3. \E c \in Cells : input \in DecisionsOn(c, version.revision)
  <2>1. \A c, e, x, t, op : /\ Review(op, c, e).expected = e
                            /\ Rework(c, e, t).expected = e
                            /\ Correction(c, e, x).expected = e
    BY DEF Review, Rework, Correction, Do
  <2> QED  BY <1>2, <2>1 DEF Asked, DecisionsOn
<1> QED  BY <1>1, <1>3 DEF Decisions

-----------------------------------------------------------------------------
(* What is stored only moves on: the revision grows, or the items stay.    *)
MovesOn ==
    \/ version'.revision > version.revision
    \/ version'.revision = version.revision /\ items' = items

LEMMA AskedStays ==
    ASSUME NEW input, Asked(input)
    PROVE  Asked(input)'
<1>1. Edits' = Edits
  BY DEF Edits, Do, Put
<1>2. \A op, c, e, t, x : /\ Review(op, c, e)' = Review(op, c, e)
                          /\ Rework(c, e, t)' = Rework(c, e, t)
                          /\ Correction(c, e, x)' = Correction(c, e, x)
  BY DEF Review, Rework, Correction, Do
<1> QED  BY <1>1, <1>2 DEF Asked

LEMMA MayHaveReadStays ==
    ASSUME NEW m, MayHaveRead(m)
    PROVE  MayHaveRead(m)'
BY DEF MayHaveRead, IsExpected, AcceptsItems, WrittenCells, Exists, Valid, Reviews

(* A request that waits knows what it knew.                                *)
LEMMA FitsStays ==
    ASSUME version \in Version, version' \in Version, MovesOn,
           NEW point, NEW m \in Memory, Fits(point, m)
    PROVE  Fits(point, m)'
<1>1. HasCheckedItems(m) => HasCheckedItems(m)'
  BY DEF HasCheckedItems, IsCovered, Valid
<1>2. m.version.revision \in Nat /\ version.revision \in Nat /\ version'.revision \in Nat
  BY DEF Memory, Version
<1> QED  BY <1>1, <1>2, AskedStays, MayHaveReadStays DEF Fits, MovesOn

(* A step of request r that leaves it at a point with a memory that fits.  *)
LEMMA RequestStep ==
    ASSUME VInv, StorageOK', MovesOn,
           NEW r \in Requests, NEW point \in Point, NEW m \in Memory,
           Goto(r, point, m), Fits(point, m)'
    PROVE  VInv'
<1>1. MemoryOK'
  BY DEF VInv, MemoryOK, Goto
<1>2. ASSUME NEW q \in Requests
      PROVE  Fits(at[q], loc[q])'
  <2>1. PICK p \in Point, k \in Memory : p = at[q] /\ k = loc[q]
    BY DEF VInv, MemoryOK
  <2>2. CASE q = r
    BY <2>2 DEF Goto, VInv, MemoryOK
  <2>3. CASE q # r
    <3>1. at'[q] = p /\ loc'[q] = k
      BY <2>1, <2>3 DEF Goto, VInv, MemoryOK
    <3>2. Fits(p, k)
      BY <2>1 DEF VInv
    <3>3. Fits(p, k)'
      BY <3>2, FitsStays DEF VInv, StorageOK
    <3> QED  BY <3>1, <3>3
  <2> QED  BY <2>2, <2>3
<1> QED  BY <1>1, <1>2 DEF VInv

LEMMA StorageStays ==
    ASSUME VInv, UNCHANGED db
    PROVE  StorageOK' /\ MovesOn
BY DEF VInv, StorageOK, MovesOn, db, PublishedIsReady, Version

LEMMA NothingIsMemory == Nothing \in Memory
BY ContentsAssumption DEF Nothing, Memory, Do, Input, Ops, ReadingOps, Reviews, Version

LEMMA EndStep ==
    ASSUME VInv, StorageOK', MovesOn, NEW r \in Requests, End(r)
    PROVE  VInv'
<1>1. Nothing \in Memory /\ "idle" \in Point
  BY NothingIsMemory DEF Point
<1>2. Fits("idle", Nothing)'
  BY DEF Fits
<1> QED  BY <1>1, <1>2, RequestStep DEF End

-----------------------------------------------------------------------------
(* What an operation writes, when it is one that may be performed.         *)
LEMMA WrittenItems ==
    ASSUME StorageOK, NEW input, Asked(input), MayPerform(input),
           input.op \notin {"publish", "discard"}, NEW c \in WrittenCells(input, items)
    PROVE  LET x == NewItem(input, items, c) IN
           /\ x \in Item
           /\ x.status # "missing"
           /\ x.content # NoContent
<1> USE ContentsAssumption
<1>1. /\ input \in Input
      /\ input.op \notin ReadingOps
      /\ input.op \in Reviews => input.op \in {"approve", "request_rework", "correct"}
  BY AskedInputs
<1>2. c \in Cells
  BY <1>1 DEF WrittenCells, Input
<1>3. /\ items[c] \in Item
      /\ items[c].status = "missing" <=> items[c].content = NoContent
  BY <1>2 DEF StorageOK
<1>4. input.op # "build" => items[c].content \in Contents
  BY <1>2, <1>3 DEF MayPerform, AcceptsItems, WrittenCells, Exists, Item
<1>5. input.content \in Contents \cup {NoContent}
  BY <1>1 DEF Input
<1>6. NewItem(input, items, c).content \in Contents
  BY <1>4, <1>5 DEF NewItem
<1>7. NewStatus(input.op) \in {"draft", "approved", "disabled"}
  BY DEF NewStatus
<1>8. NewItem(input, items, c) = [status |-> NewStatus(input.op),
                                  content |-> NewItem(input, items, c).content]
  BY DEF NewItem
<1> HIDE DEF NewItem
<1> QED  BY <1>6, <1>7, <1>8 DEF Item

LEMMA WriteKeepsStorage ==
    ASSUME StorageOK, NEW input, Asked(input), MayPerform(input), Write(input, items)
    PROVE  StorageOK' /\ MovesOn
<1> USE ContentsAssumption
<1>1. input \in Input /\ (input.op = "request_rework" => input.text \in Texts)
  BY AskedInputs
<1>2. version \in Version /\ version.status = "draft" /\ version.revision \in Nat
  BY DEF StorageOK, MayPerform, Version
<1>3. CASE input.op = "publish"
  <2>1. version' = [version EXCEPT !.status = "published"] /\ UNCHANGED <<items, feedback>>
    BY <1>3 DEF Write
  <2>2. version' \in Version /\ version'.revision = version.revision
    BY <2>1, <1>2 DEF Version
  <2>3. AcceptsFeedback(input, items, feedback)
    BY DEF MayPerform
  <2>4. ASSUME NEW c \in Cells
        PROVE  /\ items[c].status = "approved" /\ items[c].content \in ValidContents
               /\ feedback[c] = NoText
    <3>1. IsCovered(items, c)
      BY <1>3, <2>3 DEF AcceptsFeedback, NeedsFeedbackClosed
    <3>2. Exists(items, c)
      BY <3>1 DEF IsCovered, Exists
    <3>3. feedback[c] = NoText
      BY <1>3, <2>3, <3>2 DEF AcceptsFeedback, NeedsFeedbackClosed
    <3> QED  BY <3>1, <3>3 DEF IsCovered, Valid
  <2> QED  BY <2>1, <2>2, <2>4 DEF StorageOK, PublishedIsReady, MovesOn
<1>4. CASE input.op = "discard"
  <2>1. version' = [version EXCEPT !.status = "archived"] /\ UNCHANGED <<items, feedback>>
    BY <1>4 DEF Write
  <2>2. /\ version' \in Version /\ version'.revision = version.revision
        /\ version'.status # "published"
    BY <2>1, <1>2 DEF Version
  <2> QED  BY <2>1, <2>2 DEF StorageOK, PublishedIsReady, MovesOn
<1>5. CASE input.op \notin {"publish", "discard"}
  <2>1. /\ items' = ItemsAfter(input, items)
        /\ feedback' = [c \in Cells |-> FeedbackAfter(input, items, c)]
        /\ version' = [version EXCEPT !.revision = RevisionAfter(input)]
    BY <1>5 DEF Write
  <2>2. /\ version' \in Version /\ version'.revision > version.revision
        /\ version'.status # "published"
    BY <2>1, <1>2 DEF Version, RevisionAfter
  <2>3. items' \in [Cells -> Item]
    BY <2>1, <1>5, WrittenItems DEF ItemsAfter, StorageOK
  <2>4. \A c \in Cells : items'[c].status = "missing" <=> items'[c].content = NoContent
    BY <2>1, <1>5, WrittenItems DEF ItemsAfter, StorageOK
  <2>5. feedback' \in [Cells -> Texts \cup {NoText}]
    BY <2>1, <1>1 DEF FeedbackAfter, StorageOK
  <2> QED  BY <2>2, <2>3, <2>4, <2>5 DEF StorageOK, PublishedIsReady, MovesOn
<1> QED  BY <1>3, <1>4, <1>5

-----------------------------------------------------------------------------
(* The steps of a request.                                                 *)
LEMMA BeginStep ==
    ASSUME VInv, NEW r \in Requests, NEW point \in {"items", "current"},
           NEW input \in Input, Begin(r, point, input),
           point = "items" => Asked(input)
    PROVE  VInv'
<1>1. PICK v \in Version : v = version
  BY DEF VInv, StorageOK
<1> DEFINE m == [Nothing EXCEPT !.input = input, !.version = v]
<1>2. Goto(r, point, m)
  BY <1>1 DEF Begin
<1>3. m \in Memory /\ m.input = input /\ m.version = v /\ point \in Point
  BY NothingIsMemory DEF Memory, Point
<1> HIDE DEF m
<1>4. UNCHANGED db
  BY DEF Begin
<1>5. Fits(point, m)'
  <2>1. Asked(input) => Asked(input)'
    BY AskedStays
  <2> QED  BY <1>1, <1>3, <1>4, <2>1 DEF Fits, db, Version
<1> QED  BY <1>2, <1>3, <1>4, <1>5, StorageStays, RequestStep

LEMMA OperateStep ==
    ASSUME VInv, NEW r \in Requests, Operate(r)
    PROVE  VInv'
<1> USE ContentsAssumption
<1>1. ASSUME NEW input \in Edits \cup Decisions, Begin(r, "items", input)
      PROVE  VInv'
  <2>1. Asked(input)
    BY DecisionsAreAsked DEF Asked, VInv, StorageOK
  <2> QED  BY <1>1, <2>1, AskedInputs, BeginStep
<1>2. CASE BuildExerciseItems(r)
  BY <1>1, <1>2 DEF BuildExerciseItems, Edits
<1>3. CASE ApproveExerciseItems(r)
  BY <1>1, <1>3 DEF ApproveExerciseItems, Edits
<1>4. CASE EditExerciseItem(r)
  BY <1>1, <1>4 DEF EditExerciseItem, Edits
<1>5. CASE DisableExerciseItem(r)
  <2>1. ASSUME NEW input, NEW c \in Cells, input = Do("disable", {c})
        PROVE  input \in Edits
    BY <2>1 DEF Edits
  <2> QED  BY <1>1, <1>5, <2>1 DEF DisableExerciseItem
<1>6. CASE DecideExerciseReview(r)
  BY <1>1, <1>6 DEF DecideExerciseReview
<1>7. CASE DiscardDraft(r)
  BY <1>1, <1>7 DEF DiscardDraft, Edits
<1>8. CASE PublishVersion(r)
  BY <1>1, <1>8 DEF PublishVersion, Edits
<1>9. CASE GetExerciseReviewWindow(r)
  <2>1. Do("window", {}) \in Input
    BY DEF Do, Input, Ops, ReadingOps
  <2> QED  BY <1>9, <2>1, BeginStep DEF GetExerciseReviewWindow
<1> QED  BY <1>2, <1>3, <1>4, <1>5, <1>6, <1>7, <1>8, <1>9 DEF Operate

(* Reading the items and the version in two statements does no harm: if    *)
(* the revision is still the one that was read, so are the items.          *)
LEMMA ReadItemsStep ==
    ASSUME VInv, NEW r \in Requests, ReadItems(r)
    PROVE  VInv'
<1>1. PICK k \in Memory, is \in [Cells -> Item] : k = loc[r] /\ is = items
  BY DEF VInv, MemoryOK, StorageOK
<1> DEFINE m == [k EXCEPT !.items = is]
<1>2. /\ m \in Memory /\ m.input = k.input /\ m.version = k.version /\ m.items = is
  BY DEF Memory
<1> HIDE DEF m
<1>3. UNCHANGED db /\ StorageOK' /\ MovesOn /\ at[r] = "items"
  BY StorageStays DEF ReadItems
<1>4. CASE End(r)
  BY <1>3, <1>4, EndStep
<1>5. CASE /\ IsExpected(m) /\ AcceptsItems(m.input, m.items)
           /\ Goto(r, NextPoint(m), m)
  <2>1. Fits("items", k)
    BY <1>1, <1>3 DEF VInv
  <2>2. Fits("items", k)'
    BY <1>3, <2>1, FitsStays DEF VInv, StorageOK
  <2>3. NextPoint(m) \in {"feedback", "write", "reread"} /\ NextPoint(m) \in Point
    BY DEF NextPoint, Point
  <2>4. NextPoint(m) # "reread" => MayHaveRead(m)
    BY <1>5 DEF NextPoint, MayHaveRead, NeedsFeedbackClosed
  <2>5. MayHaveRead(m) => MayHaveRead(m)'
    BY MayHaveReadStays
  <2>6. NextPoint(m) = "write" => ~NeedsFeedbackClosed(m.input)
    BY DEF NextPoint
  <2>7. NextPoint(m) = "write" => HasCheckedItems(m)'
    BY <2>6 DEF HasCheckedItems, NeedsFeedbackClosed
  <2>8. PICK point \in {"feedback", "write", "reread"} : point = NextPoint(m)
    BY <2>3
  <2>9. Fits(point, m)'
    BY <1>1, <1>2, <1>3, <2>2, <2>4, <2>5, <2>7, <2>8 DEF Fits, db
  <2> QED  BY <1>2, <1>3, <1>5, <2>3, <2>8, <2>9, RequestStep
<1> QED  BY <1>1, <1>4, <1>5 DEF ReadItems, m

LEMMA ReadFeedbackStep ==
    ASSUME VInv, NEW r \in Requests, ReadFeedback(r)
    PROVE  VInv'
<1>1. PICK k \in Memory : k = loc[r]
  BY DEF VInv, MemoryOK
<1>2. UNCHANGED db /\ StorageOK' /\ MovesOn /\ at[r] = "feedback"
  BY StorageStays DEF ReadFeedback
<1>3. CASE End(r)
  BY <1>2, <1>3, EndStep
<1>4. CASE AcceptsFeedback(k.input, k.items, feedback) /\ Goto(r, "write", k)
  <2>1. Fits("feedback", k)
    BY <1>1, <1>2 DEF VInv
  <2>2. HasCheckedItems(k)
    BY <1>4 DEF HasCheckedItems, AcceptsFeedback, NeedsFeedbackClosed
  <2>3. Fits("write", k)
    BY <2>1, <2>2 DEF Fits
  <2>4. Fits("write", k)'
    BY <1>2, <2>3, FitsStays DEF VInv, StorageOK
  <2> QED  BY <1>2, <1>4, <2>4, RequestStep DEF Point
<1> QED  BY <1>1, <1>3, <1>4 DEF ReadFeedback

LEMMA ReadCurrentStep ==
    ASSUME VInv, NEW r \in Requests, ReadCurrent(r)
    PROVE  VInv'
<1>1. PICK k \in Memory, is \in [Cells -> Item] : k = loc[r] /\ is = items
  BY DEF VInv, MemoryOK, StorageOK
<1> DEFINE m == [k EXCEPT !.items = is]
<1>2. /\ m \in Memory /\ m.version = k.version /\ m.items = is
  BY DEF Memory
<1> HIDE DEF m
<1>3. UNCHANGED db /\ StorageOK' /\ MovesOn /\ at[r] = "current"
  BY StorageStays DEF ReadCurrent
<1>4. Fits("current", k)
  BY <1>1, <1>3 DEF VInv
<1>5. Fits("confirm", m)'
  BY <1>1, <1>2, <1>3, <1>4 DEF Fits, db
<1>6. Goto(r, "confirm", m)
  BY <1>1 DEF ReadCurrent, m
<1> QED  BY <1>2, <1>3, <1>5, <1>6, RequestStep DEF Point

(* A write that repeats the revision, and that no feedback stops, is an    *)
(* operation that may be performed on the version as it is.                *)
LEMMA WritesMayPerform ==
    ASSUME VInv, NEW r \in Requests, NEW m \in Memory, m = loc[r],
           at[r] = "write", MayWrite(m), ~IsBlockedByFeedback(m)
    PROVE  Asked(m.input) /\ m.items = items /\ MayPerform(m.input)
<1>1. /\ version.status = "draft" /\ m.version.revision = version.revision
      /\ Asked(m.input) /\ m.items = items /\ MayHaveRead(m) /\ HasCheckedItems(m)
  BY DEF MayWrite, VInv, Fits
<1>2. m.input.op \in Reviews => m.input.expected = version.revision
  BY <1>1 DEF MayHaveRead, IsExpected
<1>3. AcceptsItems(m.input, items)
  BY <1>1 DEF MayHaveRead
<1>4. m.input.op = "build" => WrittenCells(m.input, items) # {}
  BY <1>1 DEF MayHaveRead
<1>5. AcceptsFeedback(m.input, items, feedback)
  <2>1. CASE m.input.op = "publish"
    BY <1>1, <2>1 DEF AcceptsFeedback, IsBlockedByFeedback, HasCheckedItems
  <2>2. CASE m.input.op \in {"approve", "approve_items"}
    <3>1. \A c \in m.input.cells : items[c].status = "draft" /\ Valid(items, c)
      BY <1>1, <2>2 DEF HasCheckedItems
    <3>2. \A c \in m.input.cells : feedback[c] = NoText
      BY <1>1, <2>2, <3>1 DEF IsBlockedByFeedback, WrittenCells, NewStatus
    <3> QED  BY <2>2, <3>1, <3>2 DEF AcceptsFeedback
  <2>3. CASE m.input.op = "disable"
    <3>1. \A c \in m.input.cells : items[c].status # "disabled"
      BY <1>3, <2>3 DEF AcceptsItems
    <3>2. \A c \in m.input.cells : feedback[c] = NoText
      BY <1>1, <2>3, <3>1 DEF IsBlockedByFeedback, WrittenCells, NewStatus
    <3> QED  BY <2>3, <3>2 DEF AcceptsFeedback
  <2> QED  BY <2>1, <2>2, <2>3 DEF AcceptsFeedback, NeedsFeedbackClosed
<1> QED  BY <1>1, <1>2, <1>3, <1>4, <1>5 DEF MayPerform

(* A step on the version: an operation that was asked for, in one step.    *)
Performs == \E input \in Edits \cup Decisions : Perform(input)

LEMMA WriteStep ==
    ASSUME VInv, NEW r \in Requests, NEW ops, WriteVersion(r, ops)
    PROVE  VInv' /\ (Performs \/ UNCHANGED db)
<1>1. PICK m \in Memory : m = loc[r]
  BY DEF VInv, MemoryOK
<1>2. at[r] = "write" /\ m.input.op \in ops
  BY <1>1 DEF WriteVersion
<1>3. Fits("write", m)
  BY <1>1, <1>2 DEF VInv
<1>4. CASE MayWrite(m) /\ ~IsBlockedByFeedback(m)
  <2>1. Asked(m.input) /\ m.items = items /\ MayPerform(m.input)
    BY <1>1, <1>2, <1>4, WritesMayPerform
  <2>2. Write(m.input, items)
    BY <1>1, <1>4, <2>1 DEF WriteVersion
  <2>3. StorageOK' /\ MovesOn
    BY <2>1, <2>2, WriteKeepsStorage DEF VInv
  <2>4. m.input \in Edits \cup Decisions
    BY <2>1, AskedInputs, AskedAreDecisions DEF MayPerform, VInv, StorageOK
  <2>5. Performs
    BY <2>1, <2>2, <2>4 DEF Performs, Perform
  <2>6. CASE End(r)
    BY <2>3, <2>5, <2>6, EndStep
  <2>7. CASE Goto(r, "reread", m)
    <3>1. Fits("reread", m)
      BY <1>3 DEF Fits
    <3>2. Fits("reread", m)'
      BY <2>3, <3>1, FitsStays DEF VInv, StorageOK
    <3> QED  BY <2>3, <2>5, <2>7, <3>2, RequestStep DEF Point
  <2> QED  BY <1>1, <1>4, <2>6, <2>7 DEF WriteVersion
<1>5. CASE ~(MayWrite(m) /\ ~IsBlockedByFeedback(m))
  <2>1. UNCHANGED db /\ Goto(r, "conflict", m)
    BY <1>1, <1>5 DEF WriteVersion
  <2>2. StorageOK' /\ MovesOn
    BY <2>1, StorageStays
  <2>3. Fits("conflict", m)
    BY <1>3 DEF Fits
  <2>4. Fits("conflict", m)'
    BY <2>2, <2>3, FitsStays DEF VInv, StorageOK
  <2> QED  BY <2>1, <2>2, <2>4, RequestStep DEF Point
<1> QED  BY <1>4, <1>5

(* Every step keeps the invariant, and changes the version, its items and  *)
(* its feedback by one operation at most.                                  *)
LEMMA NextVInv ==
    ASSUME VInv, [Next]_vars
    PROVE  VInv' /\ (Performs \/ UNCHANGED db)
<1>1. CASE UNCHANGED vars
  <2>1. UNCHANGED db /\ at' = at /\ loc' = loc
    BY <1>1 DEF vars
  <2>2. StorageOK' /\ MovesOn
    BY <2>1, StorageStays
  <2>3. ASSUME NEW q \in Requests
        PROVE  Fits(at[q], loc[q])'
    <3>1. PICK p \in Point, k \in Memory : p = at[q] /\ k = loc[q]
      BY DEF VInv, MemoryOK
    <3>2. Fits(p, k)'
      BY <2>2, <3>1, FitsStays DEF VInv, StorageOK
    <3> QED  BY <2>1, <3>1, <3>2
  <2> QED  BY <2>1, <2>2, <2>3 DEF VInv, MemoryOK
<1>2. ASSUME NEW r \in Requests, Operate(r)
      PROVE  VInv' /\ UNCHANGED db
  <2>1. UNCHANGED db
    BY <1>2 DEF Operate, BuildExerciseItems, ApproveExerciseItems, EditExerciseItem,
                DisableExerciseItem, DecideExerciseReview, DiscardDraft, PublishVersion,
                GetExerciseReviewWindow, Begin
  <2> QED  BY <1>2, <2>1, OperateStep
<1>3. ASSUME NEW r \in Requests, ReadItems(r)
      PROVE  VInv' /\ UNCHANGED db
  BY <1>3, ReadItemsStep DEF ReadItems
<1>4. ASSUME NEW r \in Requests, ReadFeedback(r)
      PROVE  VInv' /\ UNCHANGED db
  BY <1>4, ReadFeedbackStep DEF ReadFeedback
<1>5. ASSUME NEW r \in Requests, ReadCurrent(r)
      PROVE  VInv' /\ UNCHANGED db
  BY <1>5, ReadCurrentStep DEF ReadCurrent
<1>6. ASSUME NEW r \in Requests, End(r), UNCHANGED db
      PROVE  VInv'
  BY <1>6, StorageStays, EndStep
<1>7. ASSUME NEW r \in Requests, WriteSomething(r)
      PROVE  VInv' /\ (Performs \/ UNCHANGED db)
  BY <1>7, WriteStep
     DEF WriteSomething, AddExerciseItems, UpdateExerciseItems, RequestExerciseItemRework,
         PublishSourceVersion, ArchiveDraftVersion
<1>8. ASSUME NEW r \in Requests, ConfirmVersion(r) \/ ReadOutcome(r) \/ Die(r)
      PROVE  VInv' /\ UNCHANGED db
  BY <1>6, <1>8 DEF ConfirmVersion, ReadOutcome, Die
<1> QED  BY <1>1, <1>2, <1>3, <1>4, <1>5, <1>7, <1>8 DEF Next

LEMMA InitVInv == Init => VInv
<1> SUFFICES ASSUME Init PROVE VInv
  OBVIOUS
<1> USE ContentsAssumption
<1>1. /\ version = [status |-> "draft", revision |-> 0]
      /\ items \in [Cells -> {Missing, [status |-> "draft", content |-> Generated]} \cup
                      {[status |-> "approved", content |-> x] : x \in Contents \ ValidContents}]
      /\ feedback = [c \in Cells |-> NoText]
  BY DEF Init, InitEdits
<1>2. version \in Version /\ version.status = "draft" /\ version.revision = 0
  BY <1>1 DEF Version
<1>3. ASSUME NEW c \in Cells
      PROVE  /\ items[c] \in Item
             /\ items[c].status = "missing" <=> items[c].content = NoContent
  <2>1. \/ items[c] = Missing
        \/ items[c] = [status |-> "draft", content |-> Generated]
        \/ \E x \in Contents : items[c] = [status |-> "approved", content |-> x]
    BY <1>1
  <2>2. ASSUME NEW s \in {"draft", "approved"}, NEW x \in Contents,
               items[c] = [status |-> s, content |-> x]
        PROVE  items[c] \in Item /\ items[c].status # "missing" /\ items[c].content # NoContent
    BY <2>2 DEF Item
  <2>3. ASSUME items[c] = Missing
        PROVE  /\ items[c] \in Item
               /\ items[c].status = "missing" /\ items[c].content = NoContent
    BY <2>3 DEF Missing, Item
  <2> QED  BY <2>1, <2>2, <2>3
<1>4. StorageOK
  BY <1>1, <1>2, <1>3 DEF StorageOK, PublishedIsReady
<1>5. MemoryOK
  BY NothingIsMemory DEF Init, MemoryOK, Point
<1>6. \A r \in Requests : Fits(at[r], loc[r])
  BY DEF Init, Fits
<1> QED  BY <1>4, <1>5, <1>6 DEF VInv

LEMMA EditsHold == Spec => []VInv
<1>1. VInv /\ [Next]_vars => VInv'
  BY NextVInv
<1> QED  BY <1>1, InitVInv, PTL DEF Spec

-----------------------------------------------------------------------------
(* A published version is complete, approved, valid and without an open    *)
(* review, although its coverage was read two statements before and        *)
(* nothing kept others from editing meanwhile.                             *)
THEOREM VersionsAreSound == Spec => []VersionIsSound
<1>1. VInv => VersionIsSound
  BY DEF VInv, StorageOK, MemoryOK, Memory, VersionIsSound, TypeOK
<1> QED  BY <1>1, EditsHold, PTL

(* A reviewer's window shows one revision, and what an operation is        *)
(* prepared from are the items it will change, or it changes none.         *)
THEOREM ReadsFit == Spec => []ReadsFitTheirRevision
<1>1. VInv => ReadsFitTheirRevision
  BY DEF VInv, Fits, ReadsFitTheirRevision
<1> QED  BY <1>1, EditsHold, PTL

(* Decisions of concurrent administrators amount to one operation after    *)
(* another, each accepted on the items and the feedback it changes; an     *)
(* ended version stays as it is, and only a change of content settles a    *)
(* request for rework.                                                     *)
THEOREM DecisionsKeepStanding == Spec => DecisionsStand
<1>1. Init => InitEdits
  BY DEF Init
<1>2. VInv /\ [Next]_vars => [\E input \in Edits \cup Decisions : Perform(input)]_db
  BY NextVInv DEF Performs
<1>3. VInv /\ [Next]_vars => [version.status # "draft" => UNCHANGED db]_vars
  BY NextVInv DEF Performs, Perform, MayPerform
<1>4. VInv /\ [Next]_vars =>
        [\A c \in Cells : feedback[c] # NoText /\ feedback'[c] = NoText
                             => items'[c].content # items[c].content]_vars
  <2>1. SUFFICES ASSUME VInv, [Next]_vars, NEW c \in Cells,
                        feedback[c] # NoText, feedback'[c] = NoText
                 PROVE  items'[c].content # items[c].content
    OBVIOUS
  <2>2. PICK input \in Edits \cup Decisions : Perform(input)
    BY <2>1, NextVInv DEF Performs, db
  <2>3. Asked(input)
    BY <2>1, <2>2, DecisionsAreAsked DEF Asked, VInv, StorageOK
  <2>4. input.op = "request_rework" => input.text # NoText
    BY <2>3, AskedInputs, ContentsAssumption
  <2>5. feedback'[c] = FeedbackAfter(input, items, c) /\ items' = ItemsAfter(input, items)
    BY <2>1, <2>2 DEF Perform, Write
  <2> QED  BY <2>1, <2>4, <2>5 DEF FeedbackAfter
<1> QED  BY <1>1, <1>2, <1>3, <1>4, EditsHold, PTL
         DEF Spec, DecisionsStand, EditsAreAtomic, EditsSpec, EndedIsFinal,
             FeedbackWaitsForContent
=============================================================================
