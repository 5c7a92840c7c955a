------------------------- MODULE ContentPagesProofs -------------------------
(***************************************************************************)
(* Proofs about ContentPages, for any cells, contents, texts and bounds:   *)
(* the pages where an administrator edits, reviews and publishes a version *)
(* say only what is so, and their actions come to an end.                  *)
(***************************************************************************)
EXTENDS ContentPages, FiniteSetTheorems, TLAPS
-----------------------------------------------------------------------------
(* The inductive invariant of ContentPages.                                *)

Content == Contents \cup {NoContent}
Text == Texts \cup {NoText}

Data == [version : Version, item : Item, text : Text, items : [Cells -> Item],
         open : SUBSET Cells]

Page == [view : {"version", "item", "review"}, cell : Cells \cup {NoCell},
         state : {"loading", "ready", "error"}, shown : Data, locked : BOOLEAN,
         step : {"none", "detail", "rest", "window", "form", "evaluate", "write",
                 "check", "check_item", "next"},
         decision : Input, failed : {"no", "lost", "refused", "immutable"},
         left : SUBSET Cells, todo : SUBSET {"version", "item", "items", "window"},
         read : Item, simulated : [revision : Nat, content : Content],
         proof : [revision : Nat, item : Item, text : Text], told : Input]

LateCall == [input : Input, simulated : Content]

ContentTypes ==
    /\ version \in Version
    /\ items \in [Cells -> Item]
    /\ feedback \in [Cells -> Text]

LateTypes ==
    /\ late \subseteq LateCall
    /\ IsFiniteSet(late) /\ Cardinality(late) <= MaxLost

(* Which page waits for which call, and for which operation.               *)
StepsFit(p) ==
    /\ p.step = "none" => p.state # "loading" /\ p.decision = NoDecision
    /\ p.state = "loading" => p.step \in {"detail", "rest", "window"} /\ ~p.locked
    /\ p.state = "error" => p.step = "none"
    /\ p.step # "none" => p.told = NoDecision
    /\ p.step = "window" => p.decision = NoDecision
    /\ p.step = "detail" => p.view = "version"
    /\ p.step = "rest" => p.view \in {"version", "item"}
    /\ p.step \in {"window", "form", "evaluate", "check", "check_item", "next"} =>
          p.view = "review"
    /\ p.view = "item" => p.cell \in Cells
    /\ "item" \in p.todo => p.view = "item"
    /\ p.step \in {"form", "evaluate", "write", "check", "check_item", "next"} =>
          p.view = "version" \/ p.cell \in Cells

Decided == {"approve", "request_rework", "correct"}

DecisionsFit(p) ==
    /\ p.view = "version" => p.decision.op \notin Reviews
    /\ p.view = "item" => p.decision.op \in {"item", "edit", "approve_items", "disable"}
    /\ p.view = "review" => p.decision.op \in Reviews \cup {"item"}
    /\ p.view = "review" /\ p.step \in {"write", "check", "check_item", "next"} =>
          p.decision.op \in Decided
    /\ p.step = "evaluate" => p.decision.op = "evaluate"
    /\ p.step = "check_item" => p.decision.op = "correct"
    /\ p.step = "next" => p.decision.op # "correct"
    /\ p.decision.op \in Reviews => p.decision.cells = {p.cell}
    /\ p.decision.op \in Reviews => p.decision.expected = p.shown.version.revision
    /\ p.decision.op = "correct" => p.decision.content \in ValidContents
    /\ p.decision.op = "approve" => p.simulated # NotSimulated

(* What the page knows of the version is not ahead of it, and a status     *)
(* that ends it is final.                                                  *)
EndedIn(d, status) ==
    /\ d.op = "publish" => status = "published"
    /\ d.op = "discard" => status = "archived"

VersionFits(p, v) ==
    /\ p.shown.version.revision <= v.revision
    /\ p.view = "version" /\ p.step = "rest" /\ p.shown.version.status # "draft" =>
          v.status = p.shown.version.status
    /\ p.step \in {"detail", "rest"} /\ p.failed = "no" => EndedIn(p.decision, v.status)
    /\ EndedIn(p.told, v.status)

(* At the revision it shows, the item is the one that was evaluated and    *)
(* the one in the form of a correction.  A correction changes the content. *)
ReviewFits(p, v, is) ==
    /\ p.view = "review" /\ p.state = "ready" /\ v.revision = p.shown.version.revision =>
          /\ p.read # Missing => is[p.cell] = p.read
          /\ p.simulated # NotSimulated => is[p.cell].content = p.simulated.content
    /\ p.decision.op = "correct" /\ v.revision = p.decision.expected =>
          /\ is[p.cell].content # p.decision.content
          /\ p.step = "check" => p.read.content # p.decision.content
    /\ /\ p.decision.op = "correct" /\ p.step = "check"
       /\ v.revision = p.decision.expected + 1
       /\ p.read.content = p.decision.content
       => is[p.cell].content = p.decision.content

(* What was established of a decision.                                     *)
Proves(d, proof) ==
    /\ d.op \in Reviews => proof.revision = d.expected + 1
    /\ d.op = "approve" => proof.item.status = "approved"
    /\ d.op = "request_rework" => proof.item.status = "draft" /\ proof.text = d.text
    /\ d.op = "correct" => proof.item = [status |-> "draft", content |-> d.content]
                           /\ proof.text = NoText

ProofFits(p) ==
    /\ p.step = "next" => Proves(p.decision, p.proof)
    /\ Proves(p.told, p.proof)

(* A request that is late cannot approve what was not evaluated.           *)
LateFits(l, v, is) ==
    l.input.op = "approve" =>
        /\ l.input.expected <= v.revision
        /\ v.revision = l.input.expected =>
              \A c \in l.input.cells : is[c].content = l.simulated

PageFits(p, v, is) ==
    /\ p \in Page
    /\ StepsFit(p)
    /\ DecisionsFit(p)
    /\ VersionFits(p, v)
    /\ ReviewFits(p, v, is)
    /\ ProofFits(p)

PagesInv ==
    /\ ContentTypes
    /\ LateTypes
    /\ PageFits(page, version, items)
    /\ \A l \in late : LateFits(l, version, items)

LEMMA ConstantsFit ==
    /\ Missing \in Item /\ Missing.content = NoContent
    /\ NoDecision \in Input /\ NoDecision.op = "item" /\ NoDecision.cells = {}
    /\ NoData \in Data /\ NoData.version.revision = 0 /\ NoData.item = Missing
    /\ NotSimulated \in [revision : Nat, content : Content]
    /\ NoProof \in [revision : Nat, item : Item, text : Text]
    /\ Generated \in Contents /\ ValidContents \subseteq Contents /\ NoContent \notin Contents
    /\ NoCell \notin Cells
<1>1. Missing \in Item /\ Missing.content = NoContent
  BY DEF Missing, Item
<1>2. NoDecision \in Input /\ NoDecision.op = "item" /\ NoDecision.cells = {}
  BY DEF NoDecision, Do, Input, Ops, Reviews, ReadingOps
<1>3. [status |-> "archived", revision |-> 0] \in Version
  BY DEF Version
<1>4. NoData \in Data /\ NoData.version.revision = 0 /\ NoData.item = Missing
  BY <1>1, <1>3 DEF NoData, Data, Text
<1>5. NotSimulated \in [revision : Nat, content : Content]
  BY DEF NotSimulated, Content
<1>6. NoProof \in [revision : Nat, item : Item, text : Text]
  BY <1>1 DEF NoProof, Text
<1> QED
  BY <1>1, <1>2, <1>4, <1>5, <1>6, ContentsAssumption, PagesAssumption

-----------------------------------------------------------------------------
(* What an operation does to a version, as far as a page can tell.         *)
Moves(v, w, is, js) ==
    /\ v.status = "draft"
    /\ v.revision <= w.revision
    /\ w.revision = v.revision => js = is

LEMMA NewItemsFit ==
    ASSUME ContentTypes, NEW input \in Input, NEW c \in Cells
    PROVE  NewItem(input, items, c) \in Item
<1>1. items[c] \in Item /\ items[c].content \in Content
  BY DEF ContentTypes, Item, Content
<1>2. input.content \in Content /\ Generated \in Content
  BY ConstantsFit DEF Input, Content
<1>3. NewStatus(input.op) \in {"draft", "approved", "disabled"}
  BY DEF NewStatus
<1>4. CASE input.op = "build"
  BY <1>2, <1>3, <1>4 DEF NewItem, Item, Content
<1>5. CASE input.op # "build" /\ input.op = "request_rework"
  <2>1. NewItem(input, items, c).content \in Content
    BY <1>1, <1>2, <1>5 DEF NewItem
  <2>2. NewItem(input, items, c) = [status |-> NewStatus(input.op),
                                    content |-> NewItem(input, items, c).content]
    BY DEF NewItem
  <2> QED
    BY <1>3, <2>1, <2>2 DEF Item, Content
<1>6. CASE input.op # "build" /\ input.op # "request_rework" /\ input.content # NoContent
  BY <1>2, <1>3, <1>6 DEF NewItem, Item, Content
<1>7. CASE input.op # "build" /\ input.op # "request_rework" /\ input.content = NoContent
  BY <1>1, <1>3, <1>7 DEF NewItem, Item, Content
<1> QED
  BY <1>4, <1>5, <1>6, <1>7

LEMMA PerformMoves ==
    ASSUME ContentTypes, NEW input \in Input, Perform(input)
    PROVE  /\ ContentTypes'
           /\ Moves(version, version', items, items')
           /\ EndedIn(input, version'.status)
           /\ input.op \in Reviews => version'.revision = input.expected + 1
           /\ input.op = "approve" => \A c \in input.cells : items'[c].status = "approved"
<1>1. version \in Version /\ version.status = "draft" /\ version.revision \in Nat
  BY DEF ContentTypes, Perform, MayPerform, Version
<1>2. CASE input.op \in {"publish", "discard"}
  <2>1. /\ version' = [version EXCEPT !.status = IF input.op = "publish" THEN "published"
                                                                       ELSE "archived"]
        /\ UNCHANGED <<items, feedback>>
    BY <1>2 DEF Perform, Write
  <2>2. /\ version' \in Version /\ version'.revision = version.revision
        /\ version'.status = IF input.op = "publish" THEN "published" ELSE "archived"
    BY <1>1, <2>1 DEF Version
  <2> QED
    BY <1>1, <1>2, <2>1, <2>2 DEF ContentTypes, Moves, EndedIn, Reviews
<1>3. CASE input.op \notin {"publish", "discard"}
  <2>1. /\ items' = ItemsAfter(input, items)
        /\ feedback' = [c \in Cells |-> FeedbackAfter(input, items, c)]
        /\ version' = [version EXCEPT !.revision = version.revision + 1]
    BY <1>3 DEF Perform, Write, RevisionAfter
  <2>2. version' \in Version /\ version'.revision = version.revision + 1
    BY <1>1, <2>1 DEF Version
  <2>3. items' \in [Cells -> Item]
    BY <2>1, NewItemsFit DEF ItemsAfter, ContentTypes
  <2>4. feedback' \in [Cells -> Text]
    BY <2>1 DEF FeedbackAfter, ContentTypes, Text, Input
  <2>5. input.op \in Reviews => version'.revision = input.expected + 1
    BY <2>2 DEF Perform, MayPerform
  <2>6. input.op = "approve" => \A c \in input.cells : items'[c].status = "approved"
    BY <2>1 DEF ItemsAfter, WrittenCells, NewItem, NewStatus, Input
  <2>7. Moves(version, version', items, items')
    BY <1>1, <2>2 DEF Moves
  <2> QED
    BY <1>3, <2>2, <2>3, <2>4, <2>5, <2>6, <2>7 DEF ContentTypes, EndedIn
<1> QED
  BY <1>2, <1>3

LEMMA PageOutlivesWrites ==
    ASSUME NEW p, NEW v \in Version, NEW w \in Version, NEW is, NEW js,
           Moves(v, w, is, js), PageFits(p, v, is)
    PROVE  PageFits(p, w, js)
<1> USE DEF PageFits
<1>1. /\ v.revision \in Nat /\ w.revision \in Nat /\ p.shown.version.revision \in Nat
      /\ v.revision <= w.revision /\ p.shown.version.revision <= v.revision
      /\ v.status = "draft"
      /\ w.revision = v.revision => js = is
  BY DEF Version, Page, Data, Moves, VersionFits
<1>2. VersionFits(p, w)
  <2>1. p.shown.version.revision <= w.revision
    BY <1>1
  <2>2. /\ p.view = "version" /\ p.step = "rest" => p.shown.version.status = "draft"
        /\ p.step \in {"detail", "rest"} /\ p.failed = "no" =>
              p.decision.op # "publish" /\ p.decision.op # "discard"
        /\ p.told.op # "publish" /\ p.told.op # "discard"
    BY <1>1 DEF VersionFits, EndedIn
  <2> QED
    BY <2>1, <2>2 DEF VersionFits, EndedIn
<1>3. p.decision.op = "correct" => p.decision.expected = p.shown.version.revision
  BY DEF DecisionsFit, Reviews
<1>4. ReviewFits(p, w, js)
  <2>1. CASE w.revision = v.revision
    BY <2>1, <1>1 DEF ReviewFits
  <2>2. CASE w.revision # v.revision
    <3>1. w.revision # p.shown.version.revision
      BY <2>2, <1>1
    <3>2. /\ p.decision.op = "correct" => w.revision # p.decision.expected
          /\ p.decision.op = "correct" /\ w.revision = p.decision.expected + 1 =>
                v.revision = p.decision.expected
      BY <2>2, <1>1, <1>3
    <3>3. p.decision.op = "correct" /\ v.revision = p.decision.expected /\ p.step = "check" =>
             p.read.content # p.decision.content
      BY DEF ReviewFits
    <3> QED
      BY <3>1, <3>2, <3>3 DEF ReviewFits
  <2> QED
    BY <2>1, <2>2
<1> QED
  BY <1>2, <1>4

LEMMA LateOutlivesWrites ==
    ASSUME NEW l \in LateCall, NEW v \in Version, NEW w \in Version, NEW is, NEW js,
           Moves(v, w, is, js), LateFits(l, v, is)
    PROVE  LateFits(l, w, js)
<1>1. v.revision \in Nat /\ w.revision \in Nat /\ l.input.expected \in Nat
  BY DEF Version, LateCall, Input
<1> QED
  BY <1>1 DEF LateFits, Moves

LEMMA OthersStep ==
    ASSUME PagesInv, NEW input \in Input, Perform(input), page' = page, late' \subseteq late
    PROVE  PagesInv'
<1> USE DEF PagesInv
<1>1. PICK w : w = version'
  OBVIOUS
<1>2. PICK js : js = items'
  OBVIOUS
<1>3. ContentTypes' /\ Moves(version, w, items, js) /\ version \in Version /\ w \in Version
  BY <1>1, <1>2, PerformMoves DEF ContentTypes
<1>4. PageFits(page, w, js)
  BY <1>3, PageOutlivesWrites
<1>5. \A l \in late : LateFits(l, w, js)
  BY <1>3, LateOutlivesWrites DEF LateTypes
<1>6. LateTypes'
  <2>1. late' \subseteq LateCall /\ IsFiniteSet(late') /\ Cardinality(late') <= Cardinality(late)
    BY FS_Subset DEF LateTypes
  <2>2. Cardinality(late) \in Nat /\ Cardinality(late') \in Nat /\ MaxLost \in Nat
    BY <2>1, FS_CardinalityType, PagesAssumption DEF LateTypes
  <2> QED
    BY <2>1, <2>2 DEF LateTypes
<1>7. PageFits(page, version, items)'
  BY <1>1, <1>2, <1>4
<1>8. \A l \in late' : LateFits(l, version, items)'
  BY <1>1, <1>2, <1>5
<1> QED
  BY <1>3, <1>6, <1>7, <1>8

-----------------------------------------------------------------------------
(* How pages come to rest.                                                 *)

LEMMA PageStep ==
    ASSUME PagesInv, UNCHANGED <<db, late>>, NEW p, page' = p, PageFits(p, version, items)
    PROVE  PagesInv'
<1> USE DEF PagesInv
<1>1. UNCHANGED <<version, items, feedback, late>>
  BY DEF db
<1>2. ContentTypes' /\ LateTypes'
  BY <1>1 DEF ContentTypes, LateTypes
<1>3. PageFits(page, version, items)'
  <2>1. PICK v, is : v = version /\ is = items
    OBVIOUS
  <2>2. v = version' /\ is = items' /\ p = page' /\ PageFits(p, v, is)
    BY <1>1, <2>1
  <2> QED
    BY <2>2
<1>4. \A l \in late' : LateFits(l, version, items)'
  BY <1>1 DEF LateFits
<1> QED
  BY <1>2, <1>3, <1>4

LEMMA IdleData ==
    ASSUME NEW p \in Page
    PROVE  /\ Idle(p) \in Page
           /\ Idle(p).step = "none" /\ Idle(p).decision = NoDecision /\ Idle(p).failed = "no"
           /\ Idle(p).view = p.view /\ Idle(p).cell = p.cell /\ Idle(p).state = p.state
           /\ Idle(p).shown = p.shown /\ Idle(p).locked = p.locked /\ Idle(p).todo = p.todo
           /\ Idle(p).read = p.read /\ Idle(p).simulated = p.simulated
           /\ Idle(p).proof = p.proof /\ Idle(p).told = p.told
BY ConstantsFit DEF Idle, Page

LEMMA IdleFits ==
    ASSUME NEW p, NEW v \in Version, NEW is, PageFits(p, v, is), p.state # "loading"
    PROVE  PageFits(Idle(p), v, is)
<1> DEFINE q == Idle(p)
<1>1. /\ p \in Page /\ q \in Page /\ q.step = "none" /\ q.decision = NoDecision /\ q.failed = "no"
      /\ q.view = p.view /\ q.cell = p.cell /\ q.state = p.state
      /\ q.shown = p.shown /\ q.locked = p.locked /\ q.todo = p.todo
      /\ q.read = p.read /\ q.simulated = p.simulated
      /\ q.proof = p.proof /\ q.told = p.told
  BY IdleData DEF PageFits
<1> HIDE DEF q
<1>2. StepsFit(q)
  BY <1>1 DEF PageFits, StepsFit
<1>3. DecisionsFit(q)
  BY <1>1, ConstantsFit DEF DecisionsFit, Reviews
<1>4. VersionFits(q, v)
  BY <1>1 DEF PageFits, VersionFits
<1>5. ReviewFits(q, v, is)
  BY <1>1, ConstantsFit DEF PageFits, ReviewFits
<1>6. ProofFits(q)
  BY <1>1 DEF PageFits, ProofFits
<1>7. PageFits(q, v, is)
  BY <1>1, <1>2, <1>3, <1>4, <1>5, <1>6 DEF PageFits
<1> QED
  BY <1>7 DEF q

(* A page other than the review's is ready whatever it was before.         *)
LEMMA ReadyFits ==
    ASSUME NEW p, NEW v \in Version, NEW is, PageFits(p, v, is), p.view # "review"
    PROVE  /\ PageFits(Ready(p), v, is)
           /\ Ready(p).step = "none" /\ Ready(p).view = p.view /\ Ready(p).shown = p.shown
<1> DEFINE q == Ready(p)
<1>1. /\ p \in Page /\ q \in Page /\ q.step = "none" /\ q.decision = NoDecision /\ q.failed = "no"
      /\ q.view = p.view /\ q.cell = p.cell /\ q.state = "ready"
      /\ q.shown = p.shown /\ q.todo = p.todo
      /\ q.proof = p.proof /\ q.told = p.told
  BY IdleData DEF PageFits, Ready, Page
<1> HIDE DEF q
<1>2. StepsFit(q)
  BY <1>1 DEF PageFits, StepsFit
<1>3. DecisionsFit(q)
  BY <1>1, ConstantsFit DEF DecisionsFit, Reviews
<1>4. VersionFits(q, v)
  BY <1>1 DEF PageFits, VersionFits
<1>5. ReviewFits(q, v, is)
  BY <1>1, ConstantsFit DEF PageFits, ReviewFits
<1>6. ProofFits(q)
  BY <1>1 DEF PageFits, ProofFits
<1>7. PageFits(q, v, is)
  BY <1>1, <1>2, <1>3, <1>4, <1>5, <1>6 DEF PageFits
<1> QED
  BY <1>1, <1>7 DEF q

(* Pages that show an error know nothing.                                  *)
LEMMA ErrorFits ==
    ASSUME NEW p, NEW v \in Version, NEW is, PageFits(p, v, is), NEW q \in Page,
           q.step = "none", q.state = "error", q.decision = NoDecision,
           q.view = p.view, q.cell = p.cell, q.todo = p.todo, q.proof = p.proof,
           q.told = p.told, q.shown = NoData \/ q.shown = p.shown
    PROVE  PageFits(q, v, is)
<1>1. StepsFit(q)
  BY DEF PageFits, StepsFit
<1>2. DecisionsFit(q)
  BY ConstantsFit DEF DecisionsFit, Reviews
<1>3. VersionFits(q, v)
  BY ConstantsFit DEF PageFits, VersionFits, Version
<1>4. ReviewFits(q, v, is)
  BY ConstantsFit DEF ReviewFits
<1>5. ProofFits(q)
  BY DEF PageFits, ProofFits
<1> QED
  BY <1>1, <1>2, <1>3, <1>4, <1>5 DEF PageFits

LEMMA InvalidatedFits ==
    ASSUME NEW p, NEW v \in Version, NEW is, PageFits(p, v, is)
    PROVE  /\ PageFits(Invalidated(p), v, is)
           /\ PageFits(EnterImmutableState(p), v, is)
           /\ PageFits([Idle(p) EXCEPT !.state = "error"], v, is)
<1> DEFINE q == Invalidated(p)
<1> DEFINE r == EnterImmutableState(p)
<1> DEFINE s == [Idle(p) EXCEPT !.state = "error"]
<1>1. p \in Page
  BY DEF PageFits
<1>2. /\ q \in Page /\ q.step = "none" /\ q.state = "error" /\ q.decision = NoDecision
      /\ q.view = p.view /\ q.cell = p.cell /\ q.todo = p.todo /\ q.proof = p.proof
      /\ q.told = p.told /\ q.shown = NoData
  <2>1. PICK i \in Page : i = Idle(p)
    BY <1>1, IdleData
  <2>2. /\ i.step = "none" /\ i.decision = NoDecision /\ i.view = p.view /\ i.cell = p.cell
        /\ i.todo = p.todo /\ i.proof = p.proof /\ i.told = p.told
    BY <1>1, <2>1, IdleData
  <2>3. NoData \in Data /\ NotSimulated \in [revision : Nat, content : Content]
    BY ConstantsFit
  <2>4. q = [i EXCEPT !.state = "error", !.shown = NoData, !.simulated = NotSimulated]
    BY <2>1 DEF Invalidated
  <2> HIDE DEF q
  <2>5. q \in Page
    BY <2>3, <2>4 DEF Page
  <2> QED
    BY <2>2, <2>4, <2>5 DEF Page
<1>3. /\ r \in Page /\ r.step = "none" /\ r.state = "error" /\ r.decision = NoDecision
      /\ r.view = p.view /\ r.cell = p.cell /\ r.todo = p.todo /\ r.proof = p.proof
      /\ r.told = p.told /\ r.shown = NoData
  BY <1>2, ConstantsFit DEF EnterImmutableState, Page
<1>4. /\ s \in Page /\ s.step = "none" /\ s.state = "error" /\ s.decision = NoDecision
      /\ s.view = p.view /\ s.cell = p.cell /\ s.todo = p.todo /\ s.proof = p.proof
      /\ s.told = p.told /\ s.shown = p.shown
  BY <1>1, IdleData DEF Page
<1> HIDE DEF q, r, s
<1>5. PageFits(q, v, is) /\ PageFits(r, v, is) /\ PageFits(s, v, is)
  BY <1>2, <1>3, <1>4, ErrorFits
<1> QED
  BY <1>5 DEF q, r, s

(* A page at rest may say what is so.                                      *)
LEMMA ToldFits ==
    ASSUME NEW p, NEW v \in Version, NEW is, PageFits(p, v, is), p.step = "none",
           NEW d \in Input, EndedIn(d, v.status), Proves(d, p.proof)
    PROVE  PageFits([p EXCEPT !.told = d], v, is)
<1> DEFINE q == [p EXCEPT !.told = d]
<1>1. /\ p \in Page /\ q \in Page /\ q.step = p.step /\ q.decision = p.decision
      /\ q.failed = p.failed /\ q.view = p.view /\ q.cell = p.cell /\ q.state = p.state
      /\ q.shown = p.shown /\ q.locked = p.locked /\ q.todo = p.todo
      /\ q.read = p.read /\ q.simulated = p.simulated
      /\ q.proof = p.proof /\ q.told = d
  BY DEF PageFits, Page
<1> HIDE DEF q
<1>2. StepsFit(q)
  BY <1>1 DEF PageFits, StepsFit
<1>3. DecisionsFit(q)
  BY <1>1 DEF PageFits, DecisionsFit
<1>4. VersionFits(q, v)
  BY <1>1 DEF PageFits, VersionFits
<1>5. ReviewFits(q, v, is)
  BY <1>1 DEF PageFits, ReviewFits
<1>6. ProofFits(q)
  BY <1>1 DEF PageFits, ProofFits
<1>7. PageFits(q, v, is)
  BY <1>1, <1>2, <1>3, <1>4, <1>5, <1>6 DEF PageFits
<1> QED
  BY <1>7 DEF q

(* The window the runner shows is that of the version as it is.            *)
LEMMA WindowData ==
    ASSUME ContentTypes, NEW p \in Page, NEW c \in Cells \cup {NoCell}
    PROVE  LET q == ApplyWindow(p, c) IN
           /\ q \in Page /\ q.cell = c /\ q.state = "ready" /\ q.locked = FALSE
           /\ q.read = Missing /\ q.simulated = NotSimulated
           /\ q.shown.version = version
           /\ q.view = p.view /\ q.step = p.step /\ q.todo = p.todo /\ q.proof = p.proof
           /\ q.told = p.told /\ q.decision = p.decision /\ q.failed = p.failed
<1> DEFINE shown == IF c = NoCell THEN [NoData EXCEPT !.version = version]
                    ELSE [NoData EXCEPT !.version = version, !.item = items[c],
                                        !.text = feedback[c]]
<1>1. shown \in Data /\ shown.version = version
  <2>1. CASE c = NoCell
    BY <2>1, ConstantsFit DEF ContentTypes, Data
  <2>2. CASE c # NoCell
    <3>1. items[c] \in Item /\ feedback[c] \in Text
      BY <2>2 DEF ContentTypes
    <3> QED
      BY <2>2, <3>1, ConstantsFit DEF ContentTypes, Data
  <2> QED
    BY <2>1, <2>2
<1> HIDE DEF shown
<1>2. ApplyWindow(p, c) =
         [p EXCEPT !.cell = c, !.state = "ready", !.locked = FALSE, !.read = Missing,
                   !.simulated = NotSimulated, !.shown = shown]
  BY DEF ApplyWindow, shown
<1> QED
  <2>1. PICK q : q = ApplyWindow(p, c)
    OBVIOUS
  <2>2. Missing \in Item /\ NotSimulated \in [revision : Nat, content : Content]
    BY ConstantsFit
  <2>3. q \in Page
    <3>1. PICK r : r = [p EXCEPT !.cell = c, !.state = "ready", !.locked = FALSE]
      OBVIOUS
    <3>2. r \in Page
      BY <3>1 DEF Page
    <3>3. q = [r EXCEPT !.read = Missing, !.simulated = NotSimulated, !.shown = shown]
      BY <1>2, <2>1, <3>1
    <3> QED
      BY <1>1, <2>2, <3>2, <3>3 DEF Page
  <2>4. /\ q.cell = c /\ q.state = "ready" /\ q.locked = FALSE
        /\ q.read = Missing /\ q.simulated = NotSimulated /\ q.shown = shown
        /\ q.view = p.view /\ q.step = p.step /\ q.todo = p.todo /\ q.proof = p.proof
        /\ q.told = p.told /\ q.decision = p.decision /\ q.failed = p.failed
    BY <1>2, <2>1, <2>3 DEF Page
  <2> QED
    BY <1>1, <2>1, <2>3, <2>4

LEMMA WindowFits ==
    ASSUME ContentTypes, NEW p, PageFits(p, version, items), p.view = "review",
           NEW c \in Cells \cup {NoCell}
    PROVE  PageFits(Idle(ApplyWindow(p, c)), version, items)
<1> DEFINE q == Idle(ApplyWindow(p, c))
<1>1. /\ p \in Page /\ q \in Page /\ q.step = "none" /\ q.decision = NoDecision /\ q.failed = "no"
      /\ q.view = p.view /\ q.cell = c /\ q.state = "ready"
      /\ q.shown.version = version /\ q.todo = p.todo
      /\ q.read = Missing /\ q.simulated = NotSimulated
      /\ q.proof = p.proof /\ q.told = p.told
  <2>1. PICK r : r = ApplyWindow(p, c)
    OBVIOUS
  <2>2. p \in Page
    BY DEF PageFits
  <2>3. /\ r \in Page /\ r.cell = c /\ r.state = "ready" /\ r.locked = FALSE
        /\ r.read = Missing /\ r.simulated = NotSimulated /\ r.shown.version = version
        /\ r.view = p.view /\ r.todo = p.todo /\ r.proof = p.proof /\ r.told = p.told
    BY <2>1, <2>2, WindowData
  <2> QED
    BY <2>1, <2>2, <2>3, IdleData
<1> HIDE DEF q
<1>2. StepsFit(q)
  BY <1>1 DEF PageFits, StepsFit
<1>3. DecisionsFit(q)
  BY <1>1, ConstantsFit DEF DecisionsFit, Reviews
<1>4. VersionFits(q, version)
  BY <1>1 DEF PageFits, VersionFits, ContentTypes, Version
<1>5. ReviewFits(q, version, items)
  BY <1>1, ConstantsFit DEF ReviewFits
<1>6. ProofFits(q)
  BY <1>1 DEF PageFits, ProofFits
<1>7. PageFits(q, version, items)
  BY <1>1, <1>2, <1>3, <1>4, <1>5, <1>6 DEF PageFits
<1> QED
  BY <1>7 DEF q

-----------------------------------------------------------------------------
(* The answers that the pages read.                                        *)

LEMMA ReadDetailStep ==
    ASSUME PagesInv, ReadDetail, UNCHANGED <<db, late>>
    PROVE  PagesInv'
<1>1. PICK p : p = page
  OBVIOUS
<1>2. PageFits(p, version, items) /\ version \in Version
  BY <1>1 DEF PagesInv, ContentTypes
<1>3. PICK todo \in SUBSET {"items", "window"} :
        page' = [p EXCEPT !.shown.version = version, !.step = "rest", !.todo = todo]
  <2>1. PICK todo : todo = IF version.status = "draft" THEN {"items", "window"} ELSE {"items"}
    OBVIOUS
  <2> QED
    BY <1>1, <2>1 DEF ReadDetail
<1>4. p.step = "detail" /\ p.view = "version"
  BY <1>1, <1>2 DEF ReadDetail, PageFits, StepsFit
<1>5. PICK q : q = page'
  OBVIOUS
<1>6. /\ p \in Page /\ q \in Page /\ q.step = "rest" /\ q.todo = todo
      /\ q.shown.version = version
      /\ q.failed = p.failed /\ q.view = p.view /\ q.cell = p.cell /\ q.state = p.state
      /\ q.locked = p.locked /\ q.decision = p.decision
      /\ q.read = p.read /\ q.simulated = p.simulated
      /\ q.proof = p.proof /\ q.told = p.told
  BY <1>2, <1>3, <1>5 DEF PageFits, Page, Data
<1>7. StepsFit(q)
  BY <1>2, <1>4, <1>6 DEF PageFits, StepsFit
<1>8. DecisionsFit(q)
  BY <1>2, <1>4, <1>6 DEF PageFits, DecisionsFit, Reviews
<1>9. VersionFits(q, version)
  BY <1>2, <1>4, <1>6 DEF PageFits, VersionFits, Version
<1>10. ReviewFits(q, version, items)
  BY <1>2, <1>4, <1>6 DEF PageFits, DecisionsFit, Reviews, ReviewFits
<1>11. ProofFits(q)
  BY <1>2, <1>6 DEF PageFits, ProofFits
<1>12. PageFits(q, version, items)
  BY <1>6, <1>7, <1>8, <1>9, <1>10, <1>11 DEF PageFits
<1> QED
  BY <1>5, <1>12, PageStep

(* What an operation of the version's or the item's page is believed for.  *)
LEMMA RefreshedFits ==
    ASSUME NEW p, NEW v \in Version, NEW is, PageFits(p, v, is), p.step = "rest"
    PROVE  PageFits(Refreshed(p), v, is)
<1>1. p.view \in {"version", "item"}
  BY DEF PageFits, StepsFit
<1>2. PICK q : q = Ready(p)
  OBVIOUS
<1>3. PageFits(q, v, is) /\ q.step = "none"
  BY <1>1, <1>2, ReadyFits
<1>4. CASE ~IsEstablished(p)
  BY <1>2, <1>3, <1>4 DEF Refreshed
<1>5. CASE IsEstablished(p)
  <2>1. p.decision \in Input
    BY DEF PageFits, Page
  <2>2. EndedIn(p.decision, v.status)
    <3>1. CASE p.failed = "no"
      BY <3>1 DEF PageFits, VersionFits
    <3>2. CASE p.failed # "no"
      <4>1. Reached(p)
        BY <1>5, <3>2 DEF IsEstablished
      <4>2. CASE p.decision.op = "publish"
        <5>1. p.shown.version.status = "published"
          BY <4>1, <4>2 DEF Reached
        <5>2. p.view = "version"
          BY <1>1, <4>2 DEF PageFits, DecisionsFit
        <5> QED
          BY <4>2, <5>1, <5>2 DEF PageFits, VersionFits, EndedIn
      <4>3. CASE p.decision.op = "discard"
        <5>1. p.shown.version.status = "archived"
          BY <4>1, <4>3 DEF Reached
        <5>2. p.view = "version"
          BY <1>1, <4>3 DEF PageFits, DecisionsFit
        <5> QED
          BY <4>3, <5>1, <5>2 DEF PageFits, VersionFits, EndedIn
      <4> QED
        BY <4>2, <4>3 DEF EndedIn
    <3> QED
      BY <3>1, <3>2
  <2>3. Proves(p.decision, q.proof)
    BY <1>1 DEF PageFits, DecisionsFit, Proves, Reviews
  <2>4. PageFits([q EXCEPT !.told = p.decision], v, is)
    BY <1>3, <2>1, <2>2, <2>3, ToldFits
  <2> QED
    BY <1>2, <1>5, <2>4 DEF Refreshed
<1> QED
  BY <1>4, <1>5

LEMMA ReadRestStep ==
    ASSUME PagesInv, NEW part \in page.todo, ReadRest(part), UNCHANGED <<db, late>>
    PROVE  PagesInv'
<1>1. PICK p : p = page
  OBVIOUS
<1>2. PageFits(p, version, items) /\ version \in Version /\ items \in [Cells -> Item]
  BY <1>1 DEF PagesInv, ContentTypes
<1>3. /\ p.step = "rest" /\ p.view \in {"version", "item"} /\ p \in Page
      /\ part \in p.todo /\ part \in {"version", "item", "items", "window"}
      /\ part = "item" => p.cell \in Cells
  BY <1>1, <1>2 DEF ReadRest, PageFits, StepsFit, Page
<1> DEFINE shown == CASE part = "items"   -> [p.shown EXCEPT !.items = items]
                      [] part = "window"  -> [p.shown EXCEPT !.open = {c \in Cells :
                                                                 feedback[c] # NoText}]
                      [] part = "version" -> [p.shown EXCEPT !.version = version]
                      [] part = "item"    -> [p.shown EXCEPT !.item = items[p.cell]]
<1>4. shown \in Data /\ shown.version \in {p.shown.version, version}
  <2>1. p.shown \in Data
    BY <1>3 DEF Page
  <2>2. CASE part = "items"
    BY <1>2, <2>1, <2>2 DEF Data
  <2>3. CASE part = "window"
    BY <2>1, <2>3 DEF Data
  <2>4. CASE part = "version"
    BY <1>2, <2>1, <2>4 DEF Data
  <2>5. CASE part = "item"
    <3>1. items[p.cell] \in Item
      BY <1>2, <1>3, <2>5
    <3> QED
      BY <2>1, <2>5, <3>1 DEF Data
  <2> QED
    BY <1>3, <2>2, <2>3, <2>4, <2>5
<1> DEFINE q == [p EXCEPT !.todo = @ \ {part}, !.shown = shown]
<1>5. page' = IF q.todo = {} THEN Refreshed(q) ELSE q
  BY <1>1 DEF ReadRest
<1> HIDE DEF shown
<1>6. /\ q \in Page /\ q.step = p.step /\ q.todo \subseteq p.todo /\ q.shown = shown
      /\ q.failed = p.failed /\ q.view = p.view /\ q.cell = p.cell /\ q.state = p.state
      /\ q.locked = p.locked /\ q.decision = p.decision
      /\ q.read = p.read /\ q.simulated = p.simulated
      /\ q.proof = p.proof /\ q.told = p.told
  BY <1>3, <1>4 DEF Page
<1> HIDE DEF q
<1>7. StepsFit(q)
  BY <1>2, <1>6 DEF PageFits, StepsFit
<1>8. DecisionsFit(q)
  BY <1>2, <1>3, <1>6 DEF PageFits, DecisionsFit, Reviews
<1>9. VersionFits(q, version)
  BY <1>2, <1>3, <1>4, <1>6 DEF PageFits, VersionFits, Version
<1>10. ReviewFits(q, version, items)
  BY <1>2, <1>3, <1>6 DEF PageFits, DecisionsFit, Reviews, ReviewFits
<1>11. ProofFits(q)
  BY <1>2, <1>6 DEF PageFits, ProofFits
<1>12. PageFits(q, version, items)
  BY <1>6, <1>7, <1>8, <1>9, <1>10, <1>11 DEF PageFits
<1>13. PageFits(Refreshed(q), version, items)
  BY <1>2, <1>3, <1>6, <1>12, RefreshedFits
<1>14. PICK r : r = page'
  OBVIOUS
<1>15. PageFits(r, version, items)
  BY <1>5, <1>12, <1>13, <1>14
<1> QED
  BY <1>14, <1>15, PageStep

LEMMA FailReadStep ==
    ASSUME PagesInv, FailRead, UNCHANGED <<db, late>>
    PROVE  PagesInv'
<1>1. PICK p : p = page
  OBVIOUS
<1>2. PageFits(p, version, items) /\ version \in Version
  BY <1>1 DEF PagesInv, ContentTypes
<1>3. PICK q : q = page'
  OBVIOUS
<1>4. q = [Idle(p) EXCEPT !.state = "error"] \/ q = Invalidated(p)
  BY <1>1, <1>3 DEF FailRead
<1>5. PageFits(q, version, items)
  <2>1. /\ PageFits(Invalidated(p), version, items)
        /\ PageFits([Idle(p) EXCEPT !.state = "error"], version, items)
    BY <1>2, InvalidatedFits
  <2> QED
    BY <2>1, <1>4
<1> QED
  BY <1>3, <1>5, PageStep

-----------------------------------------------------------------------------
(* The review runner.                                                      *)

(* A decision is checked.                                                  *)
Checking(p, failure) == Check([p EXCEPT !.failed = failure])

LEMMA CheckingFits ==
    ASSUME NEW p, NEW v \in Version, NEW is, PageFits(p, v, is),
           p.view = "review", p.step \in {"write", "check", "check_item", "next"},
           NEW failure \in {"no", "lost", "refused", "immutable"}
    PROVE  PageFits(Checking(p, failure), v, is)
<1> DEFINE q == Checking(p, failure)
<1> DEFINE step == IF p.decision.op = "correct" THEN "check_item" ELSE "check"
<1>1. q = [p EXCEPT !.failed = failure, !.step = step]
  <2>1. PICK r : r = [p EXCEPT !.failed = failure]
    OBVIOUS
  <2>2. r.decision = p.decision
    BY <2>1 DEF PageFits, Page
  <2> QED
    BY <2>1, <2>2 DEF Checking, Check
<1>2. step \in {"check", "check_item"}
  OBVIOUS
<1>3. /\ step = "check" => p.decision.op # "correct"
      /\ step = "check_item" => p.decision.op = "correct"
  OBVIOUS
<1> HIDE DEF q, step
<1>4. /\ p \in Page /\ q \in Page /\ q.step = step
      /\ q.failed = failure /\ q.view = p.view /\ q.cell = p.cell /\ q.state = p.state
      /\ q.shown = p.shown /\ q.locked = p.locked /\ q.decision = p.decision
      /\ q.todo = p.todo /\ q.read = p.read /\ q.simulated = p.simulated
      /\ q.proof = p.proof /\ q.told = p.told
  BY <1>1, <1>2 DEF PageFits, Page
<1>5. StepsFit(q)
  BY <1>2, <1>4 DEF PageFits, StepsFit
<1>6. DecisionsFit(q)
  BY <1>2, <1>3, <1>4 DEF PageFits, DecisionsFit
<1>7. VersionFits(q, v)
  BY <1>2, <1>4 DEF PageFits, VersionFits
<1>8. ReviewFits(q, v, is)
  BY <1>2, <1>3, <1>4 DEF PageFits, ReviewFits
<1>9. ProofFits(q)
  BY <1>2, <1>4 DEF PageFits, ProofFits
<1>10. PageFits(q, v, is)
  BY <1>4, <1>5, <1>6, <1>7, <1>8, <1>9 DEF PageFits
<1> QED
  BY <1>10 DEF q

LEMMA LockedFits ==
    ASSUME NEW p, NEW v \in Version, NEW is, PageFits(p, v, is), p.state # "loading"
    PROVE  PageFits([Idle(p) EXCEPT !.locked = TRUE], v, is)
<1>1. PICK i : i = Idle(p)
  OBVIOUS
<1>2. PageFits(i, v, is) /\ i.step = "none" /\ i.state # "loading"
  BY <1>1, IdleFits, IdleData DEF PageFits
<1>3. PICK q : q = [i EXCEPT !.locked = TRUE]
  OBVIOUS
<1>4. /\ i \in Page /\ q \in Page /\ q.step = i.step
      /\ q.failed = i.failed /\ q.view = i.view /\ q.cell = i.cell /\ q.state = i.state
      /\ q.shown = i.shown /\ q.decision = i.decision
      /\ q.todo = i.todo /\ q.read = i.read /\ q.simulated = i.simulated
      /\ q.proof = i.proof /\ q.told = i.told
  BY <1>2, <1>3 DEF PageFits, Page
<1>5. StepsFit(q)
  BY <1>2, <1>4 DEF PageFits, StepsFit
<1>6. DecisionsFit(q) /\ VersionFits(q, v) /\ ReviewFits(q, v, is) /\ ProofFits(q)
  BY <1>2, <1>4 DEF PageFits, DecisionsFit, VersionFits, ReviewFits, ProofFits
<1>7. PageFits(q, v, is)
  BY <1>4, <1>5, <1>6 DEF PageFits
<1> QED
  BY <1>1, <1>3, <1>7

LEMMA RecoverFits ==
    ASSUME NEW p, NEW v \in Version, NEW is, PageFits(p, v, is),
           p.view = "review", p.step \in {"write", "check", "check_item", "next"},
           NEW failure \in {"lost", "refused", "immutable"}
    PROVE  PageFits(Recover(p, failure), v, is)
<1>1. PageFits(Checking(p, failure), v, is)
  BY CheckingFits
<1>2. p.state # "loading"
  BY DEF PageFits, StepsFit
<1>3. /\ PageFits(Invalidated(p), v, is) /\ PageFits(EnterImmutableState(p), v, is)
      /\ PageFits([Idle(p) EXCEPT !.locked = TRUE], v, is)
  BY <1>2, InvalidatedFits, LockedFits
<1>4. CASE failure = "immutable"
  BY <1>3, <1>4 DEF Recover
<1>5. CASE failure # "immutable" /\ p.failed = "no"
  BY <1>1, <1>5 DEF Recover, Checking
<1>6. CASE failure # "immutable" /\ p.failed # "no"
  <2>1. Recover(p, failure) = IF p.decision.op = "approve" THEN Invalidated(p)
                              ELSE [Idle(p) EXCEPT !.locked = TRUE]
    BY <1>6 DEF Recover
  <2> QED
    BY <2>1, <1>3
<1> QED
  BY <1>4, <1>5, <1>6

LEMMA FailWindowStep ==
    ASSUME PagesInv, FailWindow, UNCHANGED <<db, late>>
    PROVE  PagesInv'
<1>1. PICK p : p = page
  OBVIOUS
<1>2. PageFits(p, version, items) /\ version \in Version
  BY <1>1 DEF PagesInv, ContentTypes
<1>3. PICK q : q = page'
  OBVIOUS
<1>4. PICK failure \in {"lost", "immutable"} :
        q = IF p.step # "window" THEN Recover(p, failure)
            ELSE IF failure = "immutable" THEN EnterImmutableState(p)
            ELSE IF p.locked THEN Idle(p) ELSE Invalidated(p)
  BY <1>1, <1>3 DEF FailWindow
<1>5. p.step \in {"window", "check", "check_item", "next"} /\ p.view = "review"
  BY <1>1, <1>2 DEF FailWindow, PageFits, StepsFit
<1>6. CASE p.step # "window"
  <2>1. q = Recover(p, failure)
    BY <1>4, <1>6
  <2>2. PageFits(Recover(p, failure), version, items)
    BY <1>2, <1>5, <1>6, RecoverFits
  <2> QED
    BY <1>3, <2>1, <2>2, PageStep
<1>7. CASE p.step = "window"
  <2>1. p.locked => p.state # "loading"
    BY <1>2 DEF PageFits, StepsFit
  <2>2. p.locked => PageFits(Idle(p), version, items)
    BY <1>2, <2>1, IdleFits
  <2>3. PageFits(EnterImmutableState(p), version, items) /\ PageFits(Invalidated(p), version, items)
    BY <1>2, InvalidatedFits
  <2>4. PageFits(q, version, items)
    BY <1>4, <1>7, <2>2, <2>3
  <2> QED
    BY <1>3, <2>4, PageStep
<1> QED
  BY <1>6, <1>7

LEMMA ReadItemStep ==
    ASSUME PagesInv, ReadItem \/ FailItem \/ NotEvaluated \/ Evaluated, UNCHANGED <<db, late>>
    PROVE  PagesInv'
<1>1. PICK p : p = page
  OBVIOUS
<1>2. /\ PageFits(p, version, items) /\ version \in Version /\ items \in [Cells -> Item]
      /\ p \in Page
  BY <1>1 DEF PagesInv, ContentTypes, PageFits
<1>3. /\ p.step \in {"form", "check_item", "evaluate"} /\ p.view = "review"
      /\ p.cell \in Cells /\ p.state = "ready"
  BY <1>1, <1>2 DEF ReadItem, FailItem, NotEvaluated, Evaluated, PageFits, StepsFit, Page
<1>4. items[p.cell] \in Item /\ items[p.cell].content \in Content
  BY <1>2, <1>3 DEF Item, Content
<1>5. PICK i : i = Idle(p)
  OBVIOUS
<1>6. /\ PageFits(i, version, items) /\ i \in Page /\ i.cell = p.cell /\ i.shown = p.shown
      /\ i.step = "none"
  BY <1>2, <1>3, <1>5, IdleFits, IdleData
<1>7. ASSUME NEW q \in Page,
             \/ q = [i EXCEPT !.read = items[p.cell]]
             \/ q = [i EXCEPT !.simulated = [revision |-> version.revision,
                                             content |-> items[p.cell].content]]
      PROVE  PageFits(q, version, items)
  <2>1. /\ q.step = i.step /\ q.todo = i.todo
        /\ q.failed = i.failed /\ q.view = i.view /\ q.cell = i.cell /\ q.state = i.state
        /\ q.shown = i.shown /\ q.locked = i.locked /\ q.decision = i.decision
        /\ q.proof = i.proof /\ q.told = i.told
        /\ q.read = i.read \/ q.read = items[p.cell]
        /\ q.simulated = i.simulated \/ q.simulated.content = items[p.cell].content
        /\ i.decision = NoDecision
    BY <1>2, <1>5, <1>6, <1>7, IdleData DEF Page
  <2>2. StepsFit(q) /\ VersionFits(q, version) /\ ProofFits(q)
    BY <1>6, <2>1 DEF PageFits, StepsFit, VersionFits, ProofFits
  <2>3. DecisionsFit(q)
    BY <1>6, <2>1, ConstantsFit DEF DecisionsFit, Reviews
  <2>4. ReviewFits(q, version, items)
    BY <1>6, <2>1, ConstantsFit DEF PageFits, ReviewFits
  <2> QED
    BY <2>2, <2>3, <2>4 DEF PageFits
<1>8. PICK q : q = page'
  OBVIOUS
<1>9. CASE q = i
  BY <1>6, <1>8, <1>9, PageStep
<1>10. CASE q = EnterImmutableState(p)
  <2>1. PageFits(EnterImmutableState(p), version, items)
    BY <1>2, InvalidatedFits
  <2> QED
    BY <1>8, <1>10, <2>1, PageStep
<1>11. CASE q = [i EXCEPT !.read = items[p.cell]]
  <2>1. q \in Page
    BY <1>4, <1>6, <1>11 DEF Page
  <2> QED
    BY <1>7, <1>8, <1>11, <2>1, PageStep
<1>12. CASE q = [i EXCEPT !.simulated = [revision |-> version.revision,
                                         content |-> items[p.cell].content]]
  <2>1. [revision |-> version.revision, content |-> items[p.cell].content]
           \in [revision : Nat, content : Content]
    BY <1>2, <1>4 DEF Version
  <2>2. q \in Page
    BY <1>6, <1>12, <2>1 DEF Page
  <2> QED
    BY <1>7, <1>8, <1>12, <2>2, PageStep
<1>13. CASE q = [p EXCEPT !.read = items[p.cell], !.step = "check"] /\ p.step = "check_item"
  <2>1. /\ q \in Page /\ q.step = "check" /\ q.todo = p.todo
        /\ q.failed = p.failed /\ q.view = p.view /\ q.cell = p.cell /\ q.state = p.state
        /\ q.shown = p.shown /\ q.locked = p.locked /\ q.decision = p.decision
        /\ q.proof = p.proof /\ q.told = p.told
        /\ q.read = items[p.cell] /\ q.simulated = p.simulated
    BY <1>2, <1>4, <1>13 DEF Page
  <2>2. StepsFit(q) /\ VersionFits(q, version) /\ ProofFits(q)
    BY <1>2, <1>13, <2>1 DEF PageFits, StepsFit, VersionFits, ProofFits
  <2>3. DecisionsFit(q)
    BY <1>2, <1>13, <2>1 DEF PageFits, DecisionsFit
  <2>4. ReviewFits(q, version, items)
    BY <1>2, <2>1 DEF PageFits, ReviewFits
  <2>5. PageFits(q, version, items)
    BY <2>1, <2>2, <2>3, <2>4 DEF PageFits
  <2> QED
    BY <1>8, <2>5, PageStep
<1>14. \/ q = i \/ q = EnterImmutableState(p) \/ q = [i EXCEPT !.read = items[p.cell]]
       \/ q = [i EXCEPT !.simulated = [revision |-> version.revision,
                                       content |-> items[p.cell].content]]
       \/ q = [p EXCEPT !.read = items[p.cell], !.step = "check"] /\ p.step = "check_item"
  BY <1>1, <1>5, <1>8 DEF ReadItem, FailItem, NotEvaluated, Evaluated
<1> QED
  BY <1>9, <1>10, <1>11, <1>12, <1>13, <1>14

LEMMA ProofIsTyped ==
    ASSUME ContentTypes, NEW c \in Cells
    PROVE  /\ Proof(c) \in [revision : Nat, item : Item, text : Text]
           /\ Proof(c).revision = version.revision /\ Proof(c).item = items[c]
           /\ Proof(c).text = feedback[c]
BY DEF ContentTypes, Proof, Version

(* What the runner reads of a decision it checks.                          *)
LEMMA EstablishedFits ==
    ASSUME ContentTypes, NEW p, PageFits(p, version, items), p.step = "check"
    PROVE  LET e == Established(p) IN
           /\ PageFits(e, version, items)
           /\ e.view = "review" /\ e.cell = p.cell /\ e.proof = Proof(p.cell)
           /\ p.cell \in Cells /\ p.told = NoDecision
           /\ p.view = "review" /\ p.decision.op \in Decided /\ p.state = "ready"
<1>1. /\ p.view = "review" /\ p.cell \in Cells /\ p.told = NoDecision /\ p.state = "ready"
      /\ p.decision.op \in Decided /\ p \in Page
  BY DEF PageFits, StepsFit, DecisionsFit, Page
<1>2. Proof(p.cell) \in [revision : Nat, item : Item, text : Text]
  BY <1>1, ProofIsTyped
<1>3. PICK q : q = Established(p)
  OBVIOUS
<1>4. /\ q \in Page /\ q.step = p.step /\ q.todo = p.todo
      /\ q.failed = p.failed /\ q.view = p.view /\ q.cell = p.cell /\ q.state = p.state
      /\ q.shown = p.shown /\ q.locked = p.locked /\ q.decision = p.decision
      /\ q.proof = Proof(p.cell) /\ q.told = p.told
      /\ q.read = p.read /\ q.simulated = p.simulated
  BY <1>1, <1>2, <1>3 DEF Established, Page
<1>5. StepsFit(q) /\ DecisionsFit(q) /\ VersionFits(q, version) /\ ReviewFits(q, version, items)
  BY <1>4 DEF PageFits, StepsFit, DecisionsFit, VersionFits, ReviewFits
<1>6. ProofFits(q)
  BY <1>1, <1>4, ConstantsFit DEF ProofFits, Proves, Reviews
<1>7. PageFits(q, version, items)
  BY <1>4, <1>5, <1>6 DEF PageFits
<1> QED
  BY <1>1, <1>3, <1>4, <1>7

LEMMA ConfirmedIsProved ==
    ASSUME ContentTypes, NEW p, PageFits(p, version, items), p.step = "check", Confirms(p)
    PROVE  Proves(p.decision, Proof(p.cell))
<1>1. /\ p.cell \in Cells /\ p.decision.op \in Decided
      /\ version.revision = p.decision.expected + 1
  BY EstablishedFits DEF Confirms
<1>2. PICK proof : proof = Proof(p.cell)
  OBVIOUS
<1>3. /\ proof.revision = version.revision /\ proof.item = items[p.cell]
      /\ proof.text = feedback[p.cell]
  BY <1>1, <1>2, ProofIsTyped
<1>4. ShowsDecision(p)
  BY DEF Confirms
<1>5. CASE p.decision.op = "approve"
  BY <1>1, <1>3, <1>4, <1>5, <1>2 DEF ShowsDecision, Proves
<1>6. CASE p.decision.op = "request_rework"
  BY <1>1, <1>3, <1>4, <1>6, <1>2 DEF ShowsDecision, Proves
<1>7. CASE p.decision.op = "correct"
  <2>1. /\ items[p.cell].status = "draft" /\ feedback[p.cell] = NoText
        /\ p.read.content = p.decision.content
    BY <1>4, <1>7 DEF ShowsDecision
  <2>2. items[p.cell].content = p.decision.content
    BY <1>1, <1>7, <2>1 DEF PageFits, ReviewFits
  <2>3. items[p.cell] \in Item
    BY <1>1 DEF ContentTypes
  <2>4. items[p.cell] = [status |-> "draft", content |-> p.decision.content]
    BY <2>1, <2>2, <2>3 DEF Item
  <2> QED
    BY <1>1, <1>3, <1>7, <2>1, <2>4, <1>2 DEF Proves
<1> QED
  BY <1>1, <1>5, <1>6, <1>7 DEF Decided

(* A decision that is not confirmed leaves the form of a correction where  *)
(* the item is still the one that was decided on.                          *)
LEMMA UnconfirmedFits ==
    ASSUME ContentTypes, NEW p, PageFits(p, version, items), p.step = "check"
    PROVE  PageFits(Idle(ApplyUnconfirmed(p)), version, items)
<1>1. /\ p.cell \in Cells /\ p.view = "review" /\ p.decision.op \in Decided
      /\ p.state = "ready" /\ p \in Page
  BY EstablishedFits DEF PageFits
<1>2. PageFits(Idle(ApplyWindow(p, p.cell)), version, items)
  BY <1>1, WindowFits
<1>3. CASE version.revision # p.decision.expected
  BY <1>2, <1>3 DEF ApplyUnconfirmed
<1>4. CASE version.revision = p.decision.expected
  <2>1. PICK w : w = ApplyWindow(p, p.cell)
    OBVIOUS
  <2>2. /\ w \in Page /\ w.cell = p.cell /\ w.state = "ready"
        /\ w.simulated = NotSimulated /\ w.shown.version = version
        /\ w.view = p.view /\ w.proof = p.proof /\ w.todo = p.todo /\ w.told = p.told
    BY <1>1, <2>1, WindowData
  <2>3. PICK u : u = [w EXCEPT !.read = p.read]
    OBVIOUS
  <2>4. /\ u \in Page /\ u.cell = p.cell /\ u.state = "ready"
        /\ u.simulated = NotSimulated /\ u.shown.version = version /\ u.read = p.read
        /\ u.view = p.view /\ u.proof = p.proof /\ u.todo = p.todo /\ u.told = p.told
    BY <1>1, <2>2, <2>3 DEF Page
  <2>5. PICK q : q = Idle(u)
    OBVIOUS
  <2>6. /\ q \in Page /\ q.cell = p.cell /\ q.state = "ready" /\ q.step = "none"
        /\ q.simulated = NotSimulated /\ q.shown.version = version /\ q.read = p.read
        /\ q.view = p.view /\ q.proof = p.proof /\ q.todo = p.todo /\ q.told = p.told
        /\ q.decision = NoDecision
    BY <2>4, <2>5, IdleData
  <2>7. p.read # Missing => items[p.cell] = p.read
    <3>1. version.revision = p.shown.version.revision
      BY <1>1, <1>4 DEF PageFits, DecisionsFit, Decided, Reviews
    <3> QED
      BY <1>1, <3>1 DEF PageFits, ReviewFits
  <2>8. StepsFit(q) /\ ProofFits(q)
    BY <2>6 DEF PageFits, StepsFit, ProofFits
  <2>9. DecisionsFit(q)
    BY <2>6, ConstantsFit DEF DecisionsFit, Reviews
  <2>10. VersionFits(q, version)
    BY <2>6 DEF PageFits, VersionFits, ContentTypes, Version
  <2>11. ReviewFits(q, version, items)
    BY <2>6, <2>7, ConstantsFit DEF ReviewFits
  <2>12. PageFits(q, version, items)
    BY <2>6, <2>8, <2>9, <2>10, <2>11 DEF PageFits
  <2>13. Idle(ApplyUnconfirmed(p)) = q
    BY <1>4, <2>1, <2>3, <2>5 DEF ApplyUnconfirmed
  <2> QED
    BY <2>12, <2>13
<1> QED
  BY <1>3, <1>4

LEMMA ReadWindowStep ==
    ASSUME PagesInv, ReadWindow, UNCHANGED <<db, late>>
    PROVE  PagesInv'
<1>1. PICK p : p = page
  OBVIOUS
<1>2. PageFits(p, version, items) /\ ContentTypes /\ version \in Version
  BY <1>1 DEF PagesInv, ContentTypes
<1>3. PICK q : q = page'
  OBVIOUS
<1>4. p.step \in {"window", "check", "next"} /\ p.view = "review" /\ p \in Page
  BY <1>1, <1>2 DEF ReadWindow, PageFits, StepsFit
<1>5. CASE p.step # "check"
  <2>1. PICK c \in Cells \cup {NoCell} :
           q = [Idle(ApplyWindow(p, c)) EXCEPT !.told = p.decision]
    <3>1. DefaultCells \subseteq Cells \cup {NoCell}
      BY DEF DefaultCells
    <3>2. PICK c \in IF page.cell \in Cells /\ page.step = "window" THEN {page.cell}
                     ELSE DefaultCells :
             page' = [Idle(ApplyWindow(page, c)) EXCEPT !.told = page.decision]
      BY <1>1, <1>5 DEF ReadWindow
    <3> QED
      BY <1>1, <1>3, <3>1, <3>2
  <2>2. PICK w : w = Idle(ApplyWindow(p, c))
    OBVIOUS
  <2>3. PageFits(w, version, items)
    BY <1>2, <1>4, <2>2, WindowFits
  <2>4. w.step = "none" /\ w.proof = p.proof
    <3>1. PICK a : a = ApplyWindow(p, c)
      OBVIOUS
    <3>2. a \in Page /\ a.proof = p.proof
      BY <1>2, <1>4, <3>1, WindowData
    <3> QED
      BY <2>2, <3>1, <3>2, IdleData
  <2>5. Proves(p.decision, p.proof) /\ EndedIn(p.decision, version.status)
    <3>1. CASE p.step = "window"
      <4>1. p.decision.op = "item"
        BY <1>2, <3>1, ConstantsFit DEF PageFits, StepsFit
      <4> QED
        BY <4>1 DEF Proves, EndedIn, Reviews
    <3>2. CASE p.step = "next"
      BY <1>2, <1>4, <3>2 DEF PageFits, DecisionsFit, ProofFits, EndedIn, Decided
    <3> QED
      BY <1>4, <1>5, <3>1, <3>2
  <2>6. p.decision \in Input
    BY <1>4 DEF Page
  <2>7. PageFits([w EXCEPT !.told = p.decision], version, items)
    BY <1>2, <2>3, <2>4, <2>5, <2>6, ToldFits
  <2>8. PageFits(q, version, items)
    BY <2>1, <2>2, <2>7
  <2> QED
    BY <1>3, <2>8, PageStep
<1>6. CASE p.step = "check"
  <2>1. PICK e : e = Established(p)
    OBVIOUS
  <2>2. /\ PageFits(e, version, items) /\ e.view = "review" /\ e.cell = p.cell
        /\ e.proof = Proof(p.cell) /\ p.cell \in Cells /\ p.decision.op \in Decided
    BY <1>2, <1>6, <2>1, EstablishedFits
  <2>3. CASE ~Confirms(p)
    <3>1. q = Idle(ApplyUnconfirmed(p))
      BY <1>1, <1>3, <1>6, <2>3 DEF ReadWindow
    <3>2. PageFits(q, version, items)
      BY <1>2, <1>6, <3>1, UnconfirmedFits
    <3> QED
      BY <1>3, <3>2, PageStep
  <2>4. CASE Confirms(p) /\ p.decision.op = "correct"
    <3>1. q = [Idle(ApplyWindow(e, p.cell)) EXCEPT !.told = p.decision]
      BY <1>1, <1>3, <1>6, <2>1, <2>4 DEF ReadWindow
    <3>2. PICK w : w = Idle(ApplyWindow(e, p.cell))
      OBVIOUS
    <3>3. PageFits(w, version, items)
      BY <1>2, <2>2, <3>2, WindowFits
    <3>4. w.step = "none" /\ w.proof = e.proof
      <4>1. PICK a : a = ApplyWindow(e, p.cell)
        OBVIOUS
      <4>2. e \in Page
        BY <2>2 DEF PageFits
      <4>3. a \in Page /\ a.proof = e.proof
        BY <1>2, <2>2, <4>1, <4>2, WindowData
      <4> QED
        BY <3>2, <4>1, <4>3, IdleData
    <3>5. Proves(p.decision, w.proof)
      BY <1>2, <1>6, <2>2, <2>4, <3>4, ConfirmedIsProved
    <3>6. EndedIn(p.decision, version.status) /\ p.decision \in Input
      BY <1>4, <2>4 DEF EndedIn, Page
    <3>7. PageFits([w EXCEPT !.told = p.decision], version, items)
      BY <1>2, <3>3, <3>4, <3>5, <3>6, ToldFits
    <3>8. PageFits(q, version, items)
      BY <3>1, <3>2, <3>7
    <3> QED
      BY <1>3, <3>8, PageStep
  <2>5. CASE Confirms(p) /\ p.decision.op # "correct"
    <3>1. q = [e EXCEPT !.step = "next"]
      BY <1>1, <1>3, <1>6, <2>1, <2>5 DEF ReadWindow
    <3>2. e.decision = p.decision /\ e.step = "check" /\ e \in Page
      BY <1>4, <1>6, <2>1, <2>2 DEF Established, Page, PageFits
    <3>3. /\ q \in Page /\ q.step = "next" /\ q.todo = e.todo
          /\ q.failed = e.failed /\ q.view = e.view /\ q.cell = e.cell /\ q.state = e.state
          /\ q.shown = e.shown /\ q.locked = e.locked /\ q.decision = e.decision
          /\ q.proof = e.proof /\ q.told = e.told
          /\ q.read = e.read /\ q.simulated = e.simulated
      BY <3>1, <3>2 DEF Page
    <3>4. Proves(q.decision, q.proof)
      BY <1>2, <1>6, <2>2, <2>5, <3>2, <3>3, ConfirmedIsProved
    <3>5. StepsFit(q) /\ DecisionsFit(q)
      BY <2>2, <2>5, <3>2, <3>3 DEF PageFits, StepsFit, DecisionsFit
    <3>6. VersionFits(q, version) /\ ReviewFits(q, version, items) /\ ProofFits(q)
      BY <2>2, <3>2, <3>3, <3>4 DEF PageFits, VersionFits, ReviewFits, ProofFits
    <3>7. PageFits(q, version, items)
      BY <3>3, <3>5, <3>6 DEF PageFits
    <3> QED
      BY <1>3, <3>7, PageStep
  <2> QED
    BY <2>3, <2>4, <2>5
<1> QED
  BY <1>5, <1>6

-----------------------------------------------------------------------------
(* The call of an operation.                                               *)

LEMMA BatchIsOfDecision ==
    ASSUME NEW p \in Page, NEW input \in Batch(p)
    PROVE  /\ input \in Input /\ input.op = p.decision.op
           /\ input.expected = p.decision.expected
           /\ p.view # "version" => input = p.decision
<1>1. p.decision \in Input /\ p.left \in SUBSET Cells
  BY DEF Page
<1>2. CASE p.view = "version" /\ p.decision.op = "approve_items"
  <2>1. PICK cs \in SUBSET p.left : input = [p.decision EXCEPT !.cells = cs]
    BY <1>2 DEF Batch
  <2> QED
    BY <1>1, <1>2, <2>1 DEF Input
<1>3. CASE ~(p.view = "version" /\ p.decision.op = "approve_items")
  BY <1>1, <1>3 DEF Batch
<1> QED
  BY <1>2, <1>3

(* After its operation, the version's or the item's page reads again.      *)
Refreshing(p, failure) == Refresh([p EXCEPT !.failed = failure])

LEMMA RefreshingFits ==
    ASSUME NEW p, NEW v \in Version, NEW is, PageFits(p, v, is), p.step = "write",
           p.view # "review", NEW failure \in {"no", "lost", "refused", "immutable"},
           failure = "no" => EndedIn(p.decision, v.status)
    PROVE  PageFits(Refreshing(p, failure), v, is)
<1>1. /\ p \in Page /\ p.view \in {"version", "item"} /\ p.state # "loading"
      /\ p.view = "item" => p.cell \in Cells
  BY DEF PageFits, StepsFit, Page
<1>2. PICK q : q = Refreshing(p, failure)
  OBVIOUS
<1>3. /\ q \in Page /\ q.failed = failure /\ q.view = p.view /\ q.cell = p.cell
      /\ q.state = p.state /\ q.shown = p.shown /\ q.locked = p.locked
      /\ q.decision = p.decision /\ q.proof = p.proof /\ q.told = p.told
      /\ q.read = p.read /\ q.simulated = p.simulated
      /\ \/ q.step = "detail" /\ q.todo = p.todo /\ p.view = "version"
         \/ q.step = "rest" /\ q.todo = {"version", "item"} /\ p.view = "item"
  <2>1. PICK r : r = [p EXCEPT !.failed = failure]
    OBVIOUS
  <2>2. /\ r \in Page /\ r.failed = failure /\ r.view = p.view /\ r.cell = p.cell
        /\ r.state = p.state /\ r.shown = p.shown /\ r.locked = p.locked
        /\ r.decision = p.decision /\ r.proof = p.proof /\ r.told = p.told
        /\ r.read = p.read /\ r.simulated = p.simulated /\ r.todo = p.todo
    BY <1>1, <2>1 DEF Page
  <2>3. q = IF r.view = "version" THEN [r EXCEPT !.step = "detail"]
            ELSE [r EXCEPT !.step = "rest", !.todo = {"version", "item"}]
    BY <1>2, <2>1 DEF Refreshing, Refresh
  <2>4. CASE p.view = "version"
    BY <2>2, <2>3, <2>4 DEF Page
  <2>5. CASE p.view = "item"
    BY <2>2, <2>3, <2>5 DEF Page
  <2> QED
    BY <1>1, <2>4, <2>5
<1>4. StepsFit(q)
  BY <1>1, <1>3 DEF PageFits, StepsFit
<1>5. DecisionsFit(q)
  BY <1>1, <1>3 DEF PageFits, DecisionsFit
<1>6. VersionFits(q, v)
  BY <1>3 DEF PageFits, VersionFits
<1>7. ReviewFits(q, v, is)
  BY <1>1, <1>3 DEF PageFits, ReviewFits
<1>8. ProofFits(q)
  BY <1>3 DEF PageFits, ProofFits
<1>9. PageFits(q, v, is)
  BY <1>3, <1>4, <1>5, <1>6, <1>7, <1>8 DEF PageFits
<1> QED
  BY <1>2, <1>9

LEMMA NotDoneFits ==
    ASSUME NEW p, NEW v \in Version, NEW is, PageFits(p, v, is), p.step = "write",
           NEW failure \in {"lost", "refused", "immutable"}
    PROVE  PageFits(NotDone(p, failure), v, is)
<1>1. p.view \in {"version", "item", "review"} /\ p.state # "loading"
  BY DEF PageFits, StepsFit, Page
<1>2. PageFits(Idle(p), v, is)
  BY <1>1, IdleFits
<1>3. CASE p.view = "review"
  <2>1. PageFits(Recover(p, failure), v, is)
    BY <1>3, RecoverFits
  <2> QED
    BY <1>3, <2>1 DEF NotDone
<1>4. CASE p.view # "review"
  <2>1. PageFits(Refreshing(p, failure), v, is)
    BY <1>4, RefreshingFits
  <2>2. NotDone(p, failure) \in {Idle(p), Refreshing(p, failure)}
    BY <1>1, <1>4 DEF NotDone, Refreshing
  <2> QED
    BY <1>2, <2>1, <2>2
<1> QED
  BY <1>3, <1>4

LEMMA RefusedStep ==
    ASSUME PagesInv, Refused
    PROVE  PagesInv'
<1>1. PICK p : p = page
  OBVIOUS
<1>2. PageFits(p, version, items) /\ version \in Version /\ p.step = "write"
  BY <1>1 DEF PagesInv, ContentTypes, Refused
<1>3. PICK failure \in {"immutable", "refused"} :
         page' = NotDone(p, failure)
  <2>1. PICK f : f = IF version.status # "draft" THEN "immutable" ELSE "refused"
    OBVIOUS
  <2> QED
    BY <1>1, <2>1 DEF Refused
<1>4. PICK q : q = page'
  OBVIOUS
<1>5. PageFits(q, version, items)
  BY <1>2, <1>3, <1>4, NotDoneFits
<1>6. UNCHANGED <<db, late>>
  BY DEF Refused
<1> QED
  BY <1>4, <1>5, <1>6, PageStep

LEMMA LostStep ==
    ASSUME PagesInv, Lost
    PROVE  PagesInv'
<1> USE DEF PagesInv
<1>1. PICK p : p = page
  OBVIOUS
<1>2. PageFits(p, version, items) /\ version \in Version /\ p.step = "write" /\ p \in Page
  BY <1>1 DEF ContentTypes, Lost, PageFits
<1>3. PICK input \in Batch(p) :
         /\ page' = NotDone(p, "lost")
         /\ late' = IF Cardinality(late) < MaxLost
                    THEN late \cup {[input |-> input, simulated |-> p.simulated.content]}
                    ELSE late
  BY <1>1 DEF Lost
<1>4. PICK l : l = [input |-> input, simulated |-> p.simulated.content]
  OBVIOUS
<1>5. l \in LateCall
  BY <1>2, <1>4, BatchIsOfDecision DEF LateCall, Page
<1>6. LateFits(l, version, items)
  <2>1. CASE input.op = "approve"
    <3>1. p.decision.op = "approve"
      BY <1>2, <2>1, BatchIsOfDecision
    <3>2. p.view = "review"
      BY <1>2, <3>1 DEF PageFits, DecisionsFit, Reviews, Page
    <3>3. input = p.decision
      BY <1>2, <3>2, BatchIsOfDecision
    <3>4. /\ p.decision.cells = {p.cell} /\ p.simulated # NotSimulated
          /\ p.decision.expected = p.shown.version.revision
      BY <1>2, <3>1 DEF PageFits, DecisionsFit, Reviews
    <3>5. p.state = "ready"
      BY <1>2 DEF PageFits, StepsFit, Page
    <3>6. version.revision = p.decision.expected =>
             items[p.cell].content = p.simulated.content
      BY <1>2, <3>2, <3>4, <3>5 DEF PageFits, ReviewFits
    <3>7. p.decision.expected <= version.revision
      BY <1>2, <3>4 DEF PageFits, VersionFits
    <3> QED
      BY <1>4, <3>3, <3>4, <3>6, <3>7 DEF LateFits
  <2>2. CASE input.op # "approve"
    BY <1>4, <2>2 DEF LateFits
  <2> QED
    BY <2>1, <2>2
<1>7. UNCHANGED <<version, items, feedback>>
  BY DEF Lost, db
<1>8. late' = late \/ (late' = late \cup {l} /\ Cardinality(late) < MaxLost)
  BY <1>3, <1>4
<1>9. LateTypes'
  <2>1. CASE late' = late
    BY <2>1 DEF LateTypes
  <2>2. CASE late' = late \cup {l} /\ Cardinality(late) < MaxLost
    <3>1. IsFiniteSet(late') /\ Cardinality(late') <= Cardinality(late) + 1
          /\ Cardinality(late) \in Nat /\ Cardinality(late') \in Nat
      BY <2>2, FS_AddElement, FS_CardinalityType DEF LateTypes
    <3> QED
      BY <2>2, <3>1, <1>5, PagesAssumption DEF LateTypes
  <2> QED
    BY <1>8, <2>1, <2>2
<1>10. \A k \in late' : LateFits(k, version, items)
  BY <1>6, <1>8
<1>11. PICK q : q = page'
  OBVIOUS
<1>12. PageFits(q, version, items)
  BY <1>2, <1>3, <1>11, NotDoneFits
<1>13. ContentTypes'
  BY <1>7 DEF ContentTypes
<1>14. PICK v, is : v = version /\ is = items
  OBVIOUS
<1>15. v = version' /\ is = items'
  BY <1>7, <1>14
<1>16. PageFits(page, version, items)'
  BY <1>11, <1>12, <1>14, <1>15
<1>17. \A k \in late' : LateFits(k, version, items)'
  BY <1>10, <1>14, <1>15
<1> QED
  BY <1>9, <1>13, <1>16, <1>17

(* The page of an item shows what was written.                             *)
LEMMA WrittenFits ==
    ASSUME NEW p, NEW v \in Version, NEW is, PageFits(p, v, is), p.view = "item",
           NEW x \in Item
    PROVE  PageFits([p EXCEPT !.shown.item = x], v, is)
<1>1. p \in Page
  BY DEF PageFits
<1>2. PICK q : q = [p EXCEPT !.shown.item = x]
  OBVIOUS
<1>3. /\ q \in Page /\ q.step = p.step /\ q.todo = p.todo
      /\ q.failed = p.failed /\ q.view = p.view /\ q.cell = p.cell /\ q.state = p.state
      /\ q.shown.version = p.shown.version /\ q.locked = p.locked
      /\ q.decision = p.decision /\ q.proof = p.proof /\ q.told = p.told
      /\ q.read = p.read /\ q.simulated = p.simulated
  BY <1>1, <1>2 DEF Page, Data
<1>4. StepsFit(q) /\ DecisionsFit(q)
  BY <1>3 DEF PageFits, StepsFit, DecisionsFit
<1>5. VersionFits(q, v) /\ ReviewFits(q, v, is) /\ ProofFits(q)
  BY <1>3 DEF PageFits, VersionFits, ReviewFits, ProofFits
<1>6. PageFits(q, v, is)
  BY <1>3, <1>4, <1>5 DEF PageFits
<1> QED
  BY <1>2, <1>6

LEMMA AnsweredVersionFits ==
    ASSUME NEW p, NEW v \in Version, NEW is, PageFits(p, v, is), p.step = "write",
           p.view = "version", NEW input \in Batch(p), EndedIn(input, v.status)
    PROVE  PageFits(Done(p, input), v, is)
<1>1. p \in Page
  BY DEF PageFits
<1>2. CASE p.left # input.cells
  <2>1. PICK q : q = [p EXCEPT !.left = @ \ input.cells]
    OBVIOUS
  <2>2. /\ q \in Page /\ q.step = p.step /\ q.todo = p.todo
        /\ q.failed = p.failed /\ q.view = p.view /\ q.cell = p.cell /\ q.state = p.state
        /\ q.shown = p.shown /\ q.locked = p.locked
        /\ q.decision = p.decision /\ q.proof = p.proof /\ q.told = p.told
        /\ q.read = p.read /\ q.simulated = p.simulated
    BY <1>1, <2>1 DEF Page
  <2>3. StepsFit(q) /\ DecisionsFit(q)
    BY <2>2 DEF PageFits, StepsFit, DecisionsFit
  <2>4. VersionFits(q, v) /\ ReviewFits(q, v, is) /\ ProofFits(q)
    BY <2>2 DEF PageFits, VersionFits, ReviewFits, ProofFits
  <2>5. PageFits(q, v, is)
    BY <2>2, <2>3, <2>4 DEF PageFits
  <2> QED
    BY <1>2, <2>1, <2>5 DEF Done
<1>3. CASE p.left = input.cells
  <2>1. EndedIn(p.decision, v.status)
    BY <1>1, BatchIsOfDecision DEF EndedIn
  <2>2. p.failed \in {"no", "lost", "refused", "immutable"}
    BY <1>1 DEF Page
  <2>3. PageFits(Refreshing(p, p.failed), v, is)
    BY <2>1, <2>2, RefreshingFits
  <2>4. [p EXCEPT !.failed = p.failed] = p
    BY <1>1 DEF Page
  <2>5. Refreshing(p, p.failed) = Refresh(p)
    BY <2>4 DEF Refreshing
  <2>6. Done(p, input) = Refresh(p)
    BY <1>3 DEF Done
  <2> QED
    BY <2>3, <2>5, <2>6
<1> QED
  BY <1>2, <1>3

LEMMA AnsweredItemFits ==
    ASSUME NEW p, NEW v \in Version, NEW is, PageFits(p, v, is), p.step = "write",
           p.view = "item", NEW input \in Batch(p)
    PROVE  PageFits(Done(p, input), v, is)
<1>1. /\ p \in Page /\ input = p.decision /\ input \in Input
      /\ p.decision.op \in {"item", "edit", "approve_items", "disable"}
  BY BatchIsOfDecision DEF PageFits, DecisionsFit
<1>2. PICK r : r = Ready(p)
  OBVIOUS
<1>3. PageFits(r, v, is) /\ r.step = "none" /\ r.view = "item"
  BY <1>2, ReadyFits
<1>4. PICK t : t = [r EXCEPT !.told = p.decision]
  OBVIOUS
<1>5. PageFits(t, v, is) /\ t.view = "item"
  <2>1. EndedIn(p.decision, v.status) /\ Proves(p.decision, r.proof)
    BY <1>1 DEF EndedIn, Proves, Reviews
  <2>2. PageFits(t, v, is)
    BY <1>1, <1>3, <1>4, <2>1, ToldFits
  <2> QED
    BY <1>3, <1>4, <2>2 DEF PageFits, Page
<1>6. PICK x : x = IF input.op = "edit" THEN [status |-> "draft", content |-> input.content]
                   ELSE [t.shown.item EXCEPT !.status = NewStatus(input.op)]
  OBVIOUS
<1>7. x \in Item
  <2>1. t.shown.item \in Item /\ NewStatus(input.op) \in {"draft", "approved", "disabled"}
    BY <1>5 DEF PageFits, Page, Data, NewStatus
  <2>2. input.content \in Content
    BY <1>1 DEF Input, Content
  <2> QED
    BY <1>6, <2>1, <2>2 DEF Item, Content
<1>8. Done(p, input) = [t EXCEPT !.shown.item = x]
  BY <1>2, <1>4, <1>6 DEF Done
<1> QED
  BY <1>5, <1>7, <1>8, WrittenFits

LEMMA AnsweredReviewFits ==
    ASSUME NEW p, NEW v \in Version, NEW is, PageFits(p, v, is), p.step = "write",
           p.view = "review", NEW input \in Batch(p),
           NEW proof \in [revision : Nat, item : Item, text : Text],
           proof.revision = input.expected + 1,
           input.op = "approve" => proof.item.status = "approved"
    PROVE  PageFits([Done(p, input) EXCEPT !.proof = proof], v, is)
<1>1. /\ p \in Page /\ input = p.decision /\ p.decision.op \in Decided
      /\ p.told = NoDecision
  BY BatchIsOfDecision DEF PageFits, DecisionsFit, StepsFit
<1>2. PICK q : q = [Done(p, input) EXCEPT !.proof = proof]
  OBVIOUS
<1>3. PICK step \in {"next", "check", "check_item"} :
        /\ q = [p EXCEPT !.step = step, !.proof = proof]
        /\ step = "next" => p.decision.op = "approve"
        /\ step = "check" => p.decision.op # "correct"
        /\ step = "check_item" => p.decision.op = "correct"
  <2>1. CASE p.decision.op = "approve"
    BY <1>2, <2>1 DEF Done
  <2>2. CASE p.decision.op = "correct"
    BY <1>2, <2>2 DEF Done, Check
  <2>3. CASE p.decision.op = "request_rework"
    BY <1>2, <2>3 DEF Done, Check
  <2> QED
    BY <1>1, <2>1, <2>2, <2>3 DEF Decided
<1>4. /\ q \in Page /\ q.step = step /\ q.todo = p.todo
      /\ q.failed = p.failed /\ q.view = p.view /\ q.cell = p.cell /\ q.state = p.state
      /\ q.shown = p.shown /\ q.locked = p.locked
      /\ q.decision = p.decision /\ q.proof = proof /\ q.told = p.told
      /\ q.read = p.read /\ q.simulated = p.simulated
  BY <1>1, <1>3 DEF Page
<1>5. StepsFit(q)
  BY <1>3, <1>4 DEF PageFits, StepsFit
<1>6. DecisionsFit(q)
  BY <1>1, <1>3, <1>4 DEF PageFits, DecisionsFit
<1>7. VersionFits(q, v) /\ ReviewFits(q, v, is)
  BY <1>3, <1>4 DEF PageFits, VersionFits, ReviewFits
<1>8. ProofFits(q)
  <2>1. q.step = "next" => Proves(q.decision, q.proof)
    BY <1>1, <1>3, <1>4 DEF Proves
  <2>2. Proves(q.told, q.proof)
    BY <1>1, <1>4, ConstantsFit DEF Proves, Reviews
  <2> QED
    BY <2>1, <2>2 DEF ProofFits
<1>9. PageFits(q, v, is)
  BY <1>4, <1>5, <1>6, <1>7, <1>8 DEF PageFits
<1> QED
  BY <1>2, <1>9

LEMMA AnsweredStep ==
    ASSUME PagesInv, Answered
    PROVE  PagesInv'
<1> USE DEF PagesInv
<1>1. PICK p : p = page
  OBVIOUS
<1>2. /\ PageFits(p, version, items) /\ version \in Version /\ p.step = "write" /\ p \in Page
  BY <1>1 DEF ContentTypes, Answered, PageFits
<1>3. PICK input \in Batch(p), c \in Cells :
         /\ input.cells # {} => c \in input.cells
         /\ Perform(input)
         /\ page' = IF p.view = "review"
                    THEN [Done(p, input) EXCEPT
                            !.proof = [revision |-> version'.revision, item |-> items'[c],
                                       text |-> feedback'[c]]]
                    ELSE Done(p, input)
  BY <1>1 DEF Answered
<1>4. input \in Input
  BY <1>2, BatchIsOfDecision
<1>5. PICK w, js, proof : /\ w = version' /\ js = items'
                          /\ proof = [revision |-> version'.revision, item |-> items'[c],
                                      text |-> feedback'[c]]
  OBVIOUS
<1>6. /\ ContentTypes' /\ Moves(version, w, items, js) /\ w \in Version
      /\ EndedIn(input, w.status)
      /\ input.op \in Reviews => w.revision = input.expected + 1
      /\ input.op = "approve" => \A d \in input.cells : js[d].status = "approved"
  BY <1>3, <1>4, <1>5, PerformMoves DEF ContentTypes
<1>7. PageFits(p, w, js)
  BY <1>2, <1>6, PageOutlivesWrites
<1>8. /\ proof \in [revision : Nat, item : Item, text : Text]
      /\ proof.revision = w.revision /\ proof.item = js[c]
  BY <1>5, <1>6 DEF ContentTypes, Version
<1>9. PICK q : q = page'
  OBVIOUS
<1>10. PageFits(q, w, js)
  <2>1. CASE p.view = "version"
    <3>1. q = Done(p, input)
      BY <1>3, <1>9, <2>1
    <3> QED
      BY <1>2, <1>6, <1>7, <2>1, <3>1, AnsweredVersionFits
  <2>2. CASE p.view = "item"
    <3>1. q = Done(p, input)
      BY <1>3, <1>9, <2>2
    <3> QED
      BY <1>2, <1>6, <1>7, <2>2, <3>1, AnsweredItemFits
  <2>3. CASE p.view = "review"
    <3>1. q = [Done(p, input) EXCEPT !.proof = proof]
      BY <1>3, <1>5, <1>9, <2>3
    <3>2. input = p.decision /\ p.decision.op \in Decided
      BY <1>2, <2>3, BatchIsOfDecision DEF PageFits, DecisionsFit
    <3>3. proof.revision = input.expected + 1
      BY <1>6, <1>8, <3>2 DEF Decided, Reviews
    <3>4. input.op = "approve" => proof.item.status = "approved"
      BY <1>2, <1>3, <1>6, <1>8, <3>2 DEF PageFits, DecisionsFit, Decided, Reviews
    <3> QED
      BY <1>2, <1>6, <1>7, <1>8, <2>3, <3>1, <3>3, <3>4, AnsweredReviewFits
  <2> QED
    BY <1>2, <2>1, <2>2, <2>3 DEF Page
<1>11. late' = late
  BY DEF Answered
<1>12. \A l \in late : LateFits(l, w, js)
  BY <1>2, <1>6, LateOutlivesWrites DEF LateTypes
<1>13. PageFits(page, version, items)'
  BY <1>5, <1>9, <1>10
<1>14. \A l \in late' : LateFits(l, version, items)'
  BY <1>5, <1>11, <1>12
<1>15. LateTypes'
  BY <1>11 DEF LateTypes
<1> QED
  BY <1>6, <1>13, <1>14, <1>15

-----------------------------------------------------------------------------
(* The administrator.                                                      *)

LEMMA InputsFit ==
    /\ \A op \in Ops, cs \in SUBSET Cells : Do(op, cs) \in Input /\ Do(op, cs).op = op
    /\ \A c \in Cells, x \in ValidContents : Put("edit", c, x) \in Input /\ Put("edit", c, x).op = "edit"
    /\ \A op \in Reviews, c \in Cells, e \in Nat :
          /\ Review(op, c, e) \in Input
          /\ Review(op, c, e).op = op /\ Review(op, c, e).cells = {c}
          /\ Review(op, c, e).expected = e
    /\ \A c \in Cells, e \in Nat, t \in Texts :
          /\ Rework(c, e, t) \in Input
          /\ Rework(c, e, t).op = "request_rework" /\ Rework(c, e, t).cells = {c}
          /\ Rework(c, e, t).expected = e
    /\ \A c \in Cells, e \in Nat, x \in ValidContents :
          /\ Correction(c, e, x) \in Input
          /\ Correction(c, e, x).op = "correct" /\ Correction(c, e, x).cells = {c}
          /\ Correction(c, e, x).expected = e /\ Correction(c, e, x).content = x
<1>1. \A op \in Ops, cs \in SUBSET Cells : Do(op, cs) \in Input /\ Do(op, cs).op = op
                                           /\ Do(op, cs).cells = cs
  BY DEF Do, Input
<1>2. ValidContents \subseteq Contents /\ Reviews \subseteq Ops /\ "edit" \in Ops
      /\ "request_rework" \in Reviews /\ "correct" \in Reviews
  BY ConstantsFit DEF Ops, Reviews
<1>3. ASSUME NEW c \in Cells, NEW x \in ValidContents
      PROVE  Put("edit", c, x) \in Input /\ Put("edit", c, x).op = "edit"
  <2>1. PICK d \in Input : d = Do("edit", {c}) /\ d.op = "edit"
    BY <1>1, <1>2
  <2> QED
    BY <1>2, <2>1 DEF Put, Input
<1>4. ASSUME NEW op \in Reviews, NEW c \in Cells, NEW e \in Nat
      PROVE  /\ Review(op, c, e) \in Input
             /\ Review(op, c, e).op = op /\ Review(op, c, e).cells = {c}
             /\ Review(op, c, e).expected = e
  <2>1. PICK d \in Input : d = Do(op, {c}) /\ d.op = op /\ d.cells = {c}
    BY <1>1, <1>2
  <2> QED
    BY <2>1 DEF Review, Input
<1>5. ASSUME NEW c \in Cells, NEW e \in Nat, NEW t \in Texts
      PROVE  /\ Rework(c, e, t) \in Input
             /\ Rework(c, e, t).op = "request_rework" /\ Rework(c, e, t).cells = {c}
             /\ Rework(c, e, t).expected = e
  <2>1. PICK d \in Input : /\ d = Review("request_rework", c, e) /\ d.op = "request_rework"
                           /\ d.cells = {c} /\ d.expected = e
    BY <1>2, <1>4
  <2> QED
    BY <2>1 DEF Rework, Input
<1>6. ASSUME NEW c \in Cells, NEW e \in Nat, NEW x \in ValidContents
      PROVE  /\ Correction(c, e, x) \in Input
             /\ Correction(c, e, x).op = "correct" /\ Correction(c, e, x).cells = {c}
             /\ Correction(c, e, x).expected = e /\ Correction(c, e, x).content = x
  <2>1. PICK d \in Input : /\ d = Review("correct", c, e) /\ d.op = "correct"
                           /\ d.cells = {c} /\ d.expected = e
    BY <1>2, <1>4
  <2> QED
    BY <1>2, <2>1 DEF Correction, Input
<1> QED
  BY <1>1, <1>3, <1>4, <1>5, <1>6

(* What the administrator asks for fits what the page shows.               *)
Asks(p, step, d) ==
    /\ step \in {"form", "evaluate", "write", "window"}
    /\ p.view # "review" => step = "write"
    /\ step # "window" => p.view = "version" \/ p.cell \in Cells
    /\ step \in {"form", "window"} => d = NoDecision
    /\ step = "evaluate" => d.op = "evaluate"
    /\ p.view = "version" => d.op \notin Reviews
    /\ p.view = "item" => d.op \in {"edit", "approve_items", "disable"}
    /\ p.view = "review" /\ step = "write" => d.op \in Decided
    /\ d.op \in Reviews => d.cells = {p.cell} /\ d.expected = p.shown.version.revision
    /\ d.op = "correct" =>
          d.content \in ValidContents /\ p.read # Missing /\ d.content # p.read.content
    /\ d.op = "approve" => p.simulated # NotSimulated

LEMMA ActFits ==
    ASSUME NEW p, NEW v \in Version, NEW is, PageFits(p, v, is),
           p.state = "ready", p.step = "none", NEW step, NEW d \in Input, Asks(p, step, d),
           NEW q \in Page,
           q.step = step, q.decision = d, q.told = NoDecision, q.proof = NoProof,
           q.view = p.view, q.cell = p.cell, q.state = p.state, q.shown = p.shown,
           q.locked = p.locked, q.todo = p.todo, q.read = p.read, q.simulated = p.simulated
    PROVE  PageFits(q, v, is)
<1>1. /\ p.view \in {"version", "item", "review"}
      /\ p.view = "item" => p.cell \in Cells
  BY DEF PageFits, Page, StepsFit
<1>2. StepsFit(q)
  BY <1>1 DEF PageFits, StepsFit, Asks, Page
<1>3. DecisionsFit(q)
  <2>1. /\ q.view = "version" => d.op \notin Reviews
        /\ q.view = "item" => d.op \in {"item", "edit", "approve_items", "disable"}
        /\ q.view = "review" /\ q.step \in {"write", "check", "check_item", "next"} =>
              d.op \in Decided
        /\ q.step = "evaluate" => d.op = "evaluate"
        /\ q.step # "check_item" /\ q.step # "next"
    BY DEF Asks
  <2>2. q.view = "review" => d.op \in Reviews \cup {"item"}
    BY <2>1, ConstantsFit DEF Asks, Decided, Reviews
  <2>3. /\ d.op \in Reviews => d.cells = {q.cell} /\ d.expected = q.shown.version.revision
        /\ d.op = "correct" => d.content \in ValidContents
        /\ d.op = "approve" => q.simulated # NotSimulated
    BY DEF Asks
  <2> QED
    BY <2>1, <2>2, <2>3 DEF DecisionsFit
<1>4. VersionFits(q, v)
  BY ConstantsFit DEF PageFits, VersionFits, EndedIn, Asks
<1>5. ReviewFits(q, v, is)
  <2>1. ASSUME d.op = "correct", v.revision = d.expected
        PROVE  is[p.cell].content # d.content
    <3>1. p.view = "review"
      BY <1>1, <2>1 DEF Asks, Reviews
    <3>2. is[p.cell] = p.read
      BY <2>1, <3>1 DEF PageFits, ReviewFits, Asks, Reviews
    <3> QED
      BY <2>1, <3>2 DEF Asks
  <2>2. q.step # "check"
    BY DEF Asks
  <2> QED
    BY <2>1, <2>2 DEF PageFits, ReviewFits
<1>6. ProofFits(q)
  BY ConstantsFit DEF ProofFits, Proves, Reviews, Asks
<1> QED
  BY <1>2, <1>3, <1>4, <1>5, <1>6 DEF PageFits

LEMMA ActStep ==
    ASSUME PagesInv, UNCHANGED <<db, late>>, page.state = "ready", page.step = "none",
           NEW step, NEW d \in Input, Asks(page, step, d), NEW left \in SUBSET Cells,
           \/ Act(step, d)
           \/ page' = [page EXCEPT !.step = step, !.told = NoDecision, !.proof = NoProof,
                                   !.decision = d, !.left = left]
    PROVE  PagesInv'
<1>1. PICK p : p = page
  OBVIOUS
<1>2. PICK q : q = page'
  OBVIOUS
<1>3. /\ PageFits(p, version, items) /\ version \in Version /\ p \in Page
      /\ Asks(p, step, d) /\ p.state = "ready" /\ p.step = "none"
  BY <1>1 DEF PagesInv, ContentTypes, PageFits
<1>4. step \in {"form", "evaluate", "write", "window"}
  BY <1>3 DEF Asks
<1>5. NoDecision \in Input /\ NoProof \in [revision : Nat, item : Item, text : Text]
  BY ConstantsFit
<1>6. PICK left2 \in SUBSET Cells :
        q = [p EXCEPT !.step = step, !.told = NoDecision, !.proof = NoProof,
                      !.decision = d, !.left = left2]
  <2>1. CASE Act(step, d)
    <3>1. q = [p EXCEPT !.step = step, !.decision = d, !.told = NoDecision, !.proof = NoProof]
      BY <1>1, <1>2, <2>1 DEF Act
    <3>2. p.left \in SUBSET Cells
      BY <1>3 DEF Page
    <3>3. q = [p EXCEPT !.step = step, !.told = NoDecision, !.proof = NoProof,
                        !.decision = d, !.left = p.left]
      BY <1>3, <3>1 DEF Page
    <3> QED
      BY <3>2, <3>3
  <2>2. CASE ~Act(step, d)
    BY <1>1, <1>2, <2>2
  <2> QED
    BY <2>1, <2>2
<1>7. /\ q \in Page /\ q.step = step /\ q.todo = p.todo
      /\ q.view = p.view /\ q.cell = p.cell /\ q.state = p.state
      /\ q.shown = p.shown /\ q.locked = p.locked
      /\ q.decision = d /\ q.proof = NoProof /\ q.told = NoDecision
      /\ q.read = p.read /\ q.simulated = p.simulated
  BY <1>3, <1>4, <1>5, <1>6 DEF Page
<1>8. PageFits(q, version, items)
  BY <1>3, <1>7, ActFits
<1> QED
  BY <1>2, <1>8, PageStep

LEMMA OpenStep ==
    ASSUME PagesInv, Open, UNCHANGED <<db, late>>
    PROVE  PagesInv'
<1>1. version \in Version /\ version.revision \in Nat
  BY DEF PagesInv, ContentTypes, Version
<1>2. PICK q : q = page'
  OBVIOUS
<1>4. PICK view \in {"version", "item", "review"}, c \in Cells \cup {NoCell},
           step \in {"detail", "rest", "window"}, todo \in {{}, {"version", "item"}} :
         /\ q \in Page /\ q.view = view /\ q.cell = c /\ q.state = "loading" /\ q.shown = NoData
         /\ q.locked = FALSE /\ q.step = step /\ q.decision = NoDecision /\ q.failed = "no"
         /\ q.read = Missing /\ q.simulated = NotSimulated /\ q.told = NoDecision
         /\ q.todo = todo
         /\ step = "detail" <=> view = "version"
         /\ step = "rest" <=> view = "item"
         /\ view = "item" => c \in Cells
         /\ view # "item" => todo = {}
  <2>1. CASE q = VersionPage
    <3>1. q = Fresh("version", NoCell, "detail")
      BY <2>1 DEF VersionPage
    <3>2. /\ q \in Page /\ q.view = "version" /\ q.cell = NoCell /\ q.state = "loading"
          /\ q.shown = NoData /\ q.locked = FALSE /\ q.step = "detail"
          /\ q.decision = NoDecision /\ q.failed = "no" /\ q.read = Missing
          /\ q.simulated = NotSimulated /\ q.told = NoDecision /\ q.todo = {}
      BY <3>1, ConstantsFit DEF Fresh, Page
    <3> QED
      BY <3>2
  <2>2. CASE \E c \in Cells : q = ItemPage(c)
    <3>1. PICK c \in Cells : q = ItemPage(c)
      BY <2>2
    <3>2. PICK f : f = Fresh("item", c, "rest")
      OBVIOUS
    <3>3. /\ f \in Page /\ f.view = "item" /\ f.cell = c /\ f.state = "loading"
          /\ f.shown = NoData /\ f.locked = FALSE /\ f.step = "rest"
          /\ f.decision = NoDecision /\ f.failed = "no" /\ f.read = Missing
          /\ f.simulated = NotSimulated /\ f.told = NoDecision
      BY <3>2, ConstantsFit DEF Fresh, Page
    <3>4. q = [f EXCEPT !.todo = {"version", "item"}]
      BY <3>1, <3>2 DEF ItemPage
    <3>5. /\ q \in Page /\ q.view = "item" /\ q.cell = c /\ q.state = "loading"
          /\ q.shown = NoData /\ q.locked = FALSE /\ q.step = "rest"
          /\ q.decision = NoDecision /\ q.failed = "no" /\ q.read = Missing
          /\ q.simulated = NotSimulated /\ q.told = NoDecision
          /\ q.todo = {"version", "item"}
      BY <3>3, <3>4 DEF Page
    <3> QED
      BY <3>5
  <2>3. CASE \E c \in Cells \cup {NoCell} : q = ReviewPage(c)
    <3>1. PICK c \in Cells \cup {NoCell} : q = ReviewPage(c)
      BY <2>3
    <3>2. q = Fresh("review", c, "window")
      BY <3>1 DEF ReviewPage
    <3>3. /\ q \in Page /\ q.view = "review" /\ q.cell = c /\ q.state = "loading"
          /\ q.shown = NoData /\ q.locked = FALSE /\ q.step = "window"
          /\ q.decision = NoDecision /\ q.failed = "no" /\ q.read = Missing
          /\ q.simulated = NotSimulated /\ q.told = NoDecision /\ q.todo = {}
      BY <3>2, ConstantsFit DEF Fresh, Page
    <3> QED
      BY <3>3
  <2> QED
    BY <1>2, <2>1, <2>2, <2>3 DEF Open
<1>6. /\ q \in Page /\ q.view = view /\ q.cell = c /\ q.state = "loading" /\ q.shown = NoData
      /\ q.locked = FALSE /\ q.step = step /\ q.decision = NoDecision /\ q.failed = "no"
      /\ q.read = Missing /\ q.simulated = NotSimulated /\ q.told = NoDecision
      /\ q.todo = todo
  BY <1>4
<1>7. StepsFit(q)
  BY <1>4, <1>6 DEF StepsFit
<1>8. DecisionsFit(q)
  BY <1>4, <1>6, ConstantsFit DEF DecisionsFit, Reviews
<1>9. VersionFits(q, version)
  BY <1>1, <1>4, <1>6, ConstantsFit DEF VersionFits, EndedIn
<1>10. ReviewFits(q, version, items)
  BY <1>6, ConstantsFit DEF ReviewFits
<1>11. ProofFits(q)
  BY <1>4, <1>6, ConstantsFit DEF ProofFits, Proves, Reviews
<1>12. PageFits(q, version, items)
  BY <1>6, <1>7, <1>8, <1>9, <1>10, <1>11 DEF PageFits
<1> QED
  BY <1>2, <1>12, PageStep

LEMMA AdministerStep ==
    ASSUME PagesInv, Administer, UNCHANGED <<db, late>>
    PROVE  PagesInv'
<1>1. /\ page \in Page /\ Seen \in Nat /\ page.cell \in Cells \cup {NoCell}
      /\ page.view = "item" => page.cell \in Cells
  BY DEF PagesInv, PageFits, StepsFit, Page, Data, Version, Seen
<1>2. {} \in SUBSET Cells
  OBVIOUS
<1>3. {"build", "publish", "discard", "approve_items", "disable"} \subseteq Ops
  BY DEF Ops
<1>4. ASSUME OnVersion, NEW op \in {"build", "publish", "discard"}, Ask(Do(op, {}))
      PROVE  PagesInv'
  <2>1. PICK d \in Input : d = Do(op, {}) /\ d.op = op
    BY <1>2, <1>3, InputsFit
  <2>2. /\ page.view = "version" /\ page.state = "ready" /\ page.step = "none"
        /\ Act("write", d)
    BY <1>4, <2>1 DEF OnVersion, MayAct, Ask
  <2>3. Asks(page, "write", d)
    BY <2>1, <2>2 DEF Asks, Reviews
  <2> QED
    BY <1>2, <2>2, <2>3, ActStep
<1>5. CASE BuildVersion \/ PublishVersion \/ DiscardVersion
  BY <1>4, <1>5 DEF BuildVersion, PublishVersion, DiscardVersion
<1>6. CASE ApproveAllDrafts
  <2>1. Drafts \in SUBSET Cells
    BY DEF Drafts
  <2>2. PICK d \in Input : d = Do("approve_items", Drafts) /\ d.op = "approve_items"
    BY <1>3, <2>1, InputsFit
  <2>3. /\ page.view = "version" /\ page.state = "ready" /\ page.step = "none"
        /\ page' = [page EXCEPT !.step = "write", !.told = NoDecision, !.proof = NoProof,
                                !.decision = d, !.left = Drafts]
    BY <1>6, <2>2 DEF ApproveAllDrafts, OnVersion, MayAct
  <2>4. Asks(page, "write", d)
    BY <2>2, <2>3 DEF Asks, Reviews
  <2> QED
    BY <2>1, <2>3, <2>4, ActStep
<1>7. ASSUME OnItem, NEW d \in Input, d.op \in {"edit", "approve_items", "disable"}, Ask(d)
      PROVE  PagesInv'
  <2>1. /\ page.view = "item" /\ page.state = "ready" /\ page.step = "none"
        /\ Act("write", d) /\ page.cell \in Cells
    BY <1>1, <1>7 DEF OnItem, MayAct, Ask
  <2>2. Asks(page, "write", d)
    BY <1>7, <2>1 DEF Asks, Reviews
  <2> QED
    BY <1>2, <2>1, <2>2, ActStep
<1>8. CASE SaveItem
  <2>1. PICK x \in ValidContents : OnItem /\ Ask(Put("edit", page.cell, x))
    BY <1>8 DEF SaveItem
  <2>2. page.cell \in Cells
    BY <1>1, <2>1 DEF OnItem
  <2>3. PICK d \in Input : d = Put("edit", page.cell, x) /\ d.op = "edit"
    BY <2>2, InputsFit
  <2> QED
    BY <1>7, <2>1, <2>3
<1>9. CASE ApproveItem
  <2>1. page.cell \in Cells /\ OnItem /\ Ask(Do("approve_items", {page.cell}))
    BY <1>1, <1>9 DEF ApproveItem, OnItem
  <2>2. PICK d \in Input : d = Do("approve_items", {page.cell}) /\ d.op = "approve_items"
    BY <1>3, <2>1, InputsFit
  <2> QED
    BY <1>7, <2>1, <2>2
<1>10. CASE DisableItem
  <2>1. page.cell \in Cells /\ OnItem /\ Ask(Do("disable", {page.cell}))
    BY <1>1, <1>10 DEF DisableItem, OnItem
  <2>2. PICK d \in Input : d = Do("disable", {page.cell}) /\ d.op = "disable"
    BY <1>3, <2>1, InputsFit
  <2> QED
    BY <1>7, <2>1, <2>2
<1>11. ASSUME OnReview
       PROVE  /\ page.view = "review" /\ page.state = "ready" /\ page.step = "none"
              /\ page.cell \in Cells
  BY <1>1, <1>11 DEF OnReview, MayAct
<1>12. CASE Evaluate
  <2>1. /\ page.view = "review" /\ page.state = "ready" /\ page.step = "none"
        /\ page.cell \in Cells /\ Act("evaluate", Review("evaluate", page.cell, Seen))
    BY <1>11, <1>12 DEF Evaluate
  <2>2. PICK d \in Input : /\ d = Review("evaluate", page.cell, Seen) /\ d.op = "evaluate"
                           /\ d.cells = {page.cell} /\ d.expected = Seen
    BY <1>1, <2>1, InputsFit DEF Reviews
  <2>3. Asks(page, "evaluate", d)
    BY <2>1, <2>2 DEF Asks, Reviews, Seen
  <2> QED
    BY <1>2, <2>1, <2>2, <2>3, ActStep
<1>13. ASSUME OnReview, NEW d \in Input, d.op \in Decided, Ask(d),
              d.cells = {page.cell}, d.expected = Seen,
              d.op = "correct" => /\ d.content \in ValidContents /\ page.read # Missing
                                  /\ d.content # page.read.content,
              d.op = "approve" => page.simulated # NotSimulated
       PROVE  PagesInv'
  <2>1. Act("write", d)
    BY <1>13 DEF Ask
  <2>2. Asks(page, "write", d)
    BY <1>11, <1>13 DEF Asks, Decided, Seen
  <2> QED
    BY <1>2, <1>11, <1>13, <2>1, <2>2, ActStep
<1>14. CASE Approve
  <2>1. OnReview /\ page.simulated # NotSimulated /\ Ask(Review("approve", page.cell, Seen))
    BY <1>14 DEF Approve, CanApprove
  <2>2. PICK d \in Input : /\ d = Review("approve", page.cell, Seen) /\ d.op = "approve"
                           /\ d.cells = {page.cell} /\ d.expected = Seen
    BY <1>1, <1>11, <2>1, InputsFit DEF Reviews
  <2> QED
    BY <1>13, <2>1, <2>2 DEF Decided
<1>15. CASE RequestRework
  <2>1. PICK t \in Texts : OnReview /\ Ask(Rework(page.cell, Seen, t))
    BY <1>15 DEF RequestRework
  <2>2. PICK d \in Input : /\ d = Rework(page.cell, Seen, t) /\ d.op = "request_rework"
                           /\ d.cells = {page.cell} /\ d.expected = Seen
    BY <1>1, <1>11, <2>1, InputsFit
  <2> QED
    BY <1>13, <2>1, <2>2 DEF Decided
<1>16. CASE LoadCorrection
  <2>1. OnReview /\ Act("form", NoDecision)
    BY <1>16 DEF LoadCorrection
  <2>2. Asks(page, "form", NoDecision)
    BY <1>11, <2>1, ConstantsFit DEF Asks, Reviews
  <2> QED
    BY <1>2, <1>11, <2>1, <2>2, ConstantsFit, ActStep
<1>17. CASE CorrectExercise
  <2>1. PICK x \in ValidContents \ {page.read.content} :
           OnReview /\ page.read # Missing /\ Ask(Correction(page.cell, Seen, x))
    BY <1>17 DEF CorrectExercise
  <2>2. PICK d \in Input : /\ d = Correction(page.cell, Seen, x) /\ d.op = "correct"
                           /\ d.cells = {page.cell} /\ d.expected = Seen /\ d.content = x
    BY <1>1, <1>11, <2>1, InputsFit
  <2> QED
    BY <1>13, <2>1, <2>2 DEF Decided
<1>18. CASE Reload
  <2>1. /\ page.view = "review" /\ page.state = "ready" /\ page.step = "none"
        /\ Act("window", NoDecision)
    BY <1>18 DEF Reload
  <2>2. Asks(page, "window", NoDecision)
    BY <2>1, ConstantsFit DEF Asks, Reviews
  <2> QED
    BY <1>2, <2>1, <2>2, ConstantsFit, ActStep
<1>19. CASE Open
  BY <1>19, OpenStep
<1> QED
  BY <1>5, <1>6, <1>8, <1>9, <1>10, <1>12, <1>14, <1>15, <1>16, <1>17, <1>18, <1>19
  DEF Administer

-----------------------------------------------------------------------------
(* The invariant.                                                          *)

LEMMA OthersInputsFit ==
    ASSUME ContentTypes, NEW input \in Edits \cup Decisions
    PROVE  input \in Input
<1>1. \A op \in {"build", "discard", "publish", "approve_items", "disable"} : op \in Ops
  BY DEF Ops
<1>2. version.revision \in Nat /\ \A e \in 0 .. version.revision : e \in Nat
  BY DEF ContentTypes, Version
<1>3. CASE input \in Edits
  <2>1. \A op \in {"build", "discard", "publish"} : Do(op, {}) \in Input
    BY <1>1, InputsFit
  <2>2. \A cs \in SUBSET Cells : Do("approve_items", cs) \in Input
    BY <1>1, InputsFit
  <2>3. \A c \in Cells : Do("disable", {c}) \in Input
    <3> SUFFICES ASSUME NEW c \in Cells PROVE Do("disable", {c}) \in Input
      OBVIOUS
    <3>1. {c} \in SUBSET Cells
      OBVIOUS
    <3> QED
      BY <1>1, <3>1, InputsFit
  <2>4. \A c \in Cells, x \in ValidContents : Put("edit", c, x) \in Input
    BY InputsFit
  <2>5. CASE input \in {Do(op, {}) : op \in {"build", "discard", "publish"}}
    BY <2>1, <2>5, Zenon
  <2>6. CASE input \in {Do("approve_items", cs) : cs \in (SUBSET Cells) \ {{}}}
    BY <2>2, <2>6, Zenon
  <2>7. CASE input \in {Do("disable", {c}) : c \in Cells}
    BY <2>3, <2>7, Zenon
  <2>8. CASE input \in {Put("edit", c, x) : c \in Cells, x \in ValidContents}
    <3>1. PICK c \in Cells, x \in ValidContents : input = Put("edit", c, x)
      BY <2>8
    <3> QED
      BY <2>4, <3>1
  <2>9. input \in Edits
    BY <1>3
  <2> QED
    BY <2>5, <2>6, <2>7, <2>8, <2>9 DEF Edits
<1>4. CASE input \in Decisions
  <2>1. PICK c \in Cells, e \in Nat : input \in DecisionsOn(c, e)
    BY <1>2, <1>4 DEF Decisions
  <2> QED
    BY <2>1, InputsFit DEF DecisionsOn, Reviews
<1> QED
  BY <1>3, <1>4

LEMMA PagesInvStep == PagesInv /\ [PagesNext]_pageVars => PagesInv'
<1> SUFFICES ASSUME PagesInv, [PagesNext]_pageVars PROVE PagesInv'
  OBVIOUS
<1>1. CASE Administer /\ UNCHANGED <<db, late>>
  BY <1>1, AdministerStep
<1>2. CASE Respond
  <2>1. CASE Answered
    BY <2>1, AnsweredStep
  <2>2. CASE Refused
    BY <2>2, RefusedStep
  <2>3. CASE Lost
    BY <2>3, LostStep
  <2>4. CASE Read /\ UNCHANGED <<db, late>>
    BY <2>4, ReadDetailStep, ReadRestStep, FailReadStep, ReadWindowStep, FailWindowStep,
       ReadItemStep DEF Read
  <2> QED
    BY <1>2, <2>1, <2>2, <2>3, <2>4 DEF Respond
<1>3. ASSUME NEW l \in late, Land(l)
      PROVE  PagesInv'
  <2>1. l.input \in Input
    BY DEF PagesInv, LateTypes, LateCall
  <2>2. Perform(l.input) /\ page' = page /\ late' \subseteq late
    BY <1>3 DEF Land
  <2> QED
    BY <2>1, <2>2, OthersStep
<1>4. CASE Others /\ UNCHANGED <<page, late>>
  <2>1. PICK input \in Edits \cup Decisions : Perform(input)
    BY <1>4 DEF Others
  <2>2. input \in Input
    BY OthersInputsFit DEF PagesInv
  <2> QED
    BY <1>4, <2>1, <2>2, OthersStep
<1>5. CASE UNCHANGED pageVars
  <2>1. UNCHANGED <<db, late>> /\ page' = page
    BY <1>5 DEF pageVars
  <2>2. PICK p : p = page
    OBVIOUS
  <2>3. PageFits(p, version, items) /\ page' = p
    BY <2>1, <2>2 DEF PagesInv
  <2> QED
    BY <2>1, <2>3, PageStep
<1> QED
  BY <1>1, <1>2, <1>3, <1>4, <1>5 DEF PagesNext

LEMMA PagesStart == PagesInit => PagesInv
<1> SUFFICES ASSUME PagesInit PROVE PagesInv
  OBVIOUS
<1>1. ContentTypes
  <2>1. version \in Version
    BY DEF PagesInit, InitEdits, Version
  <2>2. Missing \in Item /\ [status |-> "draft", content |-> Generated] \in Item
        /\ \A x \in Contents : [status |-> "approved", content |-> x] \in Item
    BY ConstantsFit DEF Item
  <2>3. items \in [Cells -> Item]
    BY <2>2 DEF PagesInit, InitEdits
  <2>4. feedback \in [Cells -> Text]
    BY DEF PagesInit, InitEdits, Text
  <2> QED
    BY <2>1, <2>3, <2>4 DEF ContentTypes
<1>2. LateTypes
  <2>1. late = {}
    BY DEF PagesInit
  <2> QED
    BY <2>1, FS_EmptySet, PagesAssumption DEF LateTypes
<1>3. PICK q : q = page
  OBVIOUS
<1>4. /\ q \in Page /\ q.view = "version" /\ q.cell = NoCell /\ q.state = "loading"
      /\ q.shown = NoData /\ q.locked = FALSE /\ q.step = "detail"
      /\ q.decision = NoDecision /\ q.failed = "no" /\ q.read = Missing
      /\ q.simulated = NotSimulated /\ q.told = NoDecision /\ q.todo = {}
  <2>1. q = Fresh("version", NoCell, "detail")
    BY <1>3 DEF PagesInit, VersionPage
  <2> QED
    BY <2>1, ConstantsFit DEF Fresh, Page
<1>5. StepsFit(q)
  BY <1>4 DEF StepsFit
<1>6. DecisionsFit(q)
  BY <1>4, ConstantsFit DEF DecisionsFit, Reviews
<1>7. VersionFits(q, version)
  BY <1>1, <1>4, ConstantsFit DEF VersionFits, EndedIn, ContentTypes, Version
<1>8. ReviewFits(q, version, items)
  BY <1>4, ConstantsFit DEF ReviewFits
<1>9. ProofFits(q)
  BY <1>4, ConstantsFit DEF ProofFits, Proves, Reviews
<1>10. PageFits(page, version, items)
  BY <1>3, <1>4, <1>5, <1>6, <1>7, <1>8, <1>9 DEF PageFits
<1>11. late = {}
  BY DEF PagesInit
<1> QED
  BY <1>1, <1>2, <1>10, <1>11 DEF PagesInv

LEMMA PagesHold == PagesSpec => []PagesInv
<1>1. PagesInit => PagesInv
  BY PagesStart
<1>2. PagesInv /\ [PagesNext]_pageVars => PagesInv'
  BY PagesInvStep
<1> QED
  BY <1>1, <1>2, PTL DEF PagesSpec

LEMMA PagesInvImplies == PagesInv => ContentPageIsTrue
<1> SUFFICES ASSUME PagesInv PROVE ContentPageIsTrue
  OBVIOUS
<1>1. page \in Page /\ StepsFit(page) /\ VersionFits(page, version) /\ ProofFits(page)
  BY DEF PagesInv, PageFits
<1>2. PageTypeOK
  BY <1>1 DEF PageTypeOK, Page, Data, StepsFit, PagesInv, LateTypes
<1>3. ToldIsTrue
  BY <1>1 DEF ToldIsTrue, VersionFits, EndedIn, ProofFits, Proves
<1> QED
  BY <1>2, <1>3 DEF ContentPageIsTrue

(* What the content pages say was done was done, however responses are     *)
(* lost, requests land late and others write the same items meanwhile.     *)
THEOREM ContentPageStaysTrue == PagesSpec => []ContentPageIsTrue
BY PagesHold, PagesInvImplies, PTL

(* The review runner approves nothing but what was simulated: an approval  *)
(* that takes effect, also a late one, finds the item with the content the *)
(* answer was evaluated on.                                                *)
THEOREM ApprovalsStaySimulated == PagesSpec => ApprovedIsSimulated
<1> DEFINE Simulated ==
        /\ \A l \in late : l.input.op = "approve" /\ Land(l) =>
              \A c \in l.input.cells : items[c].content = l.simulated
        /\ page.decision.op = "approve" /\ Answered =>
              items[page.cell].content = page.simulated.content
<1>1. PagesInv /\ [PagesNext]_pageVars => [Simulated]_pageVars
  <2> SUFFICES ASSUME PagesInv PROVE Simulated
    OBVIOUS
  <2>1. ASSUME NEW l \in late, l.input.op = "approve", Land(l), NEW c \in l.input.cells
        PROVE  items[c].content = l.simulated
    <3>1. version.revision = l.input.expected
      BY <2>1 DEF Land, Perform, MayPerform, Reviews
    <3> QED
      BY <2>1, <3>1 DEF PagesInv, LateFits
  <2>2. ASSUME page.decision.op = "approve", Answered
        PROVE  items[page.cell].content = page.simulated.content
    <3>1. /\ page \in Page /\ page.step = "write" /\ page.view = "review"
          /\ page.simulated # NotSimulated
          /\ page.decision.expected = page.shown.version.revision
      BY <2>2 DEF Answered, PagesInv, PageFits, DecisionsFit, Reviews, Page
    <3>2. page.state = "ready"
      BY <3>1 DEF PagesInv, PageFits, StepsFit, Page
    <3>3. PICK input \in Batch(page) : Perform(input)
      BY <2>2 DEF Answered
    <3>4. input = page.decision
      <4>1. PICK p : p = page
        OBVIOUS
      <4> QED
        BY <3>1, <3>3, <4>1, BatchIsOfDecision
    <3>5. version.revision = page.decision.expected
      BY <2>2, <3>3, <3>4 DEF Perform, MayPerform, Reviews
    <3> QED
      BY <3>1, <3>2, <3>5 DEF PagesInv, PageFits, ReviewFits
  <2> QED
    BY <2>1, <2>2
<1> QED
  BY <1>1, PagesHold, PTL DEF PagesSpec, ApprovedIsSimulated

-----------------------------------------------------------------------------
(* Every answer brings the action of a page nearer to its end.             *)

(* What is left to be sent belongs to an approval of all drafts, and a     *)
(* page that reads has something to read.                                  *)
RoundsFit(p) ==
    /\ p.step = "none" => p.left = {}
    /\ p.step = "rest" => p.todo # {}
    /\ p.view = "version" /\ p.step = "write" /\ p.decision.op # "approve_items" =>
          p.left = {} /\ p.decision.cells = {}

AtRest(p) == p.step = "none" /\ p.left = {}

Nearer(p, q) == RoundsFit(q) /\ Remaining(q) < Remaining(p)

(* The recovery that an action still has.                                  *)
Spare(p) == IF p.failed = "no" THEN 3 ELSE 0

LEMMA Pairs ==
    ASSUME NEW a, NEW b, a # b
    PROVE  IsFiniteSet({a, b}) /\ Cardinality({a, b}) = 2
<1>1. IsFiniteSet({a}) /\ Cardinality({a}) = 1
  BY FS_Singleton
<1>2. {a} \cup {b} = {a, b}
  OBVIOUS
<1>3. /\ IsFiniteSet({a} \cup {b})
      /\ Cardinality({a} \cup {b}) = IF b \in {a} THEN 1 ELSE 1 + 1
  BY <1>1, FS_AddElement
<1> QED
  BY <1>2, <1>3

LEMMA SetsOfPages ==
    ASSUME NEW p \in Page
    PROVE  /\ IsFiniteSet(p.left) /\ Cardinality(p.left) \in Nat
           /\ IsFiniteSet(p.todo) /\ Cardinality(p.todo) \in Nat
           /\ p.todo # {} => Cardinality(p.todo) # 0
<1>1. p.left \in SUBSET Cells /\ p.todo \in SUBSET {"version", "item", "items", "window"}
  BY DEF Page
<1>2. IsFiniteSet({"version", "item", "items", "window"})
  <2>1. IsFiniteSet({"version", "item"})
    BY Pairs
  <2>2. IsFiniteSet({"version", "item"} \cup {"items"})
    BY <2>1, FS_AddElement
  <2>3. IsFiniteSet(({"version", "item"} \cup {"items"}) \cup {"window"})
    BY <2>2, FS_AddElement
  <2>4. ({"version", "item"} \cup {"items"}) \cup {"window"}
           = {"version", "item", "items", "window"}
    OBVIOUS
  <2> QED
    BY <2>3, <2>4
<1>3. IsFiniteSet(p.left) /\ IsFiniteSet(p.todo)
  BY <1>1, <1>2, FS_Subset, PagesAssumption
<1> QED
  BY <1>3, FS_CardinalityType, FS_EmptySet

LEMMA RemainingIs ==
    ASSUME NEW p \in Page
    PROVE  /\ p.step \in {"window", "form", "evaluate", "next"} =>
                 Remaining(p) = 1 + Spare(p)
           /\ p.step = "check" => Remaining(p) = 2 + Spare(p)
           /\ p.step \in {"detail", "check_item"} => Remaining(p) = 3 + Spare(p)
           /\ p.step = "rest" => Remaining(p) = Cardinality(p.todo) + Spare(p)
           /\ p.step = "write" => Remaining(p) = 4 + Cardinality(p.left) + Spare(p)
           /\ Spare(p) \in {0, 3}
           /\ p.failed = "no" => Spare(p) = 3
           /\ p.failed # "no" => Spare(p) = 0
BY SetsOfPages DEF Remaining, Spare

LEMMA RemainingAtRest == \A q : q.step = "none" => Remaining(q) = 0
BY DEF Remaining

(* An answer after which the page waits for nothing ends the action.       *)
LEMMA RestIsNearer ==
    ASSUME NEW p \in Page, RoundsFit(p), p.step # "none", NEW q, AtRest(q)
    PROVE  Nearer(p, q)
<1>1. Remaining(q) = 0
  BY RemainingAtRest DEF AtRest
<1>2. RoundsFit(q)
  BY DEF RoundsFit, AtRest
<1>3. p.step = "rest" => Cardinality(p.todo) \in Nat /\ Cardinality(p.todo) # 0
  BY SetsOfPages DEF RoundsFit
<1>4. p.step \in {"detail", "rest", "window", "form", "evaluate", "write", "check",
                  "check_item", "next"}
  BY DEF Page
<1>5. Remaining(p) > 0
  BY <1>3, <1>4, SetsOfPages, RemainingIs
<1> QED
  BY <1>1, <1>2, <1>5 DEF Nearer

LEMMA IdleRests ==
    ASSUME NEW p \in Page
    PROVE  /\ AtRest(Idle(p)) /\ AtRest(Ready(p)) /\ AtRest(Invalidated(p))
           /\ AtRest(EnterImmutableState(p))
           /\ AtRest([Idle(p) EXCEPT !.state = "error"])
           /\ AtRest([Idle(p) EXCEPT !.locked = TRUE])
           /\ \A x : /\ AtRest([Idle(p) EXCEPT !.read = x])
                     /\ AtRest([Idle(p) EXCEPT !.simulated = x])
                     /\ AtRest([Idle(p) EXCEPT !.told = x])
                     /\ AtRest([Ready(p) EXCEPT !.told = x])
<1>1. PICK i : i = Idle(p)
  OBVIOUS
<1>2. i \in Page /\ i.step = "none" /\ i.left = {}
  BY <1>1, IdleData DEF Idle, Page
<1>3. PICK r : r = [i EXCEPT !.state = "ready"]
  OBVIOUS
<1>4. r \in Page /\ r.step = "none" /\ r.left = {}
  BY <1>2, <1>3 DEF Page
<1>5. PICK s : s = [i EXCEPT !.state = "error", !.shown = NoData, !.simulated = NotSimulated]
  OBVIOUS
<1>6. s \in Page /\ s.step = "none" /\ s.left = {}
  BY <1>2, <1>5, ConstantsFit DEF Page
<1>7. r = Ready(p) /\ s = Invalidated(p)
  BY <1>1, <1>3, <1>5 DEF Ready, Invalidated
<1>8. AtRest([s EXCEPT !.locked = TRUE, !.read = Missing])
  BY <1>6 DEF AtRest, Page
<1>9. /\ AtRest([i EXCEPT !.state = "error"]) /\ AtRest([i EXCEPT !.locked = TRUE])
      /\ \A x : /\ AtRest([i EXCEPT !.read = x]) /\ AtRest([i EXCEPT !.simulated = x])
                /\ AtRest([i EXCEPT !.told = x]) /\ AtRest([r EXCEPT !.told = x])
  BY <1>2, <1>4 DEF AtRest, Page
<1>10. AtRest(i) /\ AtRest(r) /\ AtRest(s)
  BY <1>2, <1>4, <1>6 DEF AtRest
<1> QED
  BY <1>1, <1>7, <1>8, <1>9, <1>10 DEF EnterImmutableState

(* The reads of the version's and the item's page.                         *)
LEMMA ReadsAreNearer ==
    ASSUME NEW p \in Page, p = page, RoundsFit(p)
    PROVE  /\ ReadDetail \/ FailRead => Nearer(p, page')
           /\ \A part \in p.todo : ReadRest(part) => Nearer(p, page')
<1>1. ASSUME ReadDetail PROVE Nearer(p, page')
  <2>1. PICK todo : /\ todo \in {{"items", "window"}, {"items"}}
                    /\ todo = IF version.status = "draft" THEN {"items", "window"}
                              ELSE {"items"}
    OBVIOUS
  <2>2. PICK q : q = [p EXCEPT !.shown.version = version, !.step = "rest", !.todo = todo]
    OBVIOUS
  <2>3. page' = q /\ p.step = "detail"
    BY <1>1, <2>1, <2>2 DEF ReadDetail
  <2>4. q.step = "rest" /\ q.todo = todo /\ q.failed = p.failed
    BY <2>2 DEF Page
  <2>5. Cardinality(todo) \in {1, 2} /\ todo # {}
    BY <2>1, Pairs, FS_Singleton
  <2>6. Remaining(q) = Cardinality(q.todo) + Spare(p)
    BY <2>4, <2>5 DEF Remaining, Spare
  <2>7. Remaining(p) = 3 + Spare(p) /\ Spare(p) \in {0, 3}
    BY <2>3, RemainingIs
  <2> QED
    BY <2>3, <2>4, <2>5, <2>6, <2>7 DEF Nearer, RoundsFit
<1>2. ASSUME FailRead PROVE Nearer(p, page')
  <2>1. /\ p.step # "none"
        /\ page' = Invalidated(p) \/ page' = [Idle(p) EXCEPT !.state = "error"]
    BY <1>2 DEF FailRead
  <2> QED
    BY <2>1, IdleRests, RestIsNearer
<1>3. ASSUME NEW part \in p.todo, ReadRest(part) PROVE Nearer(p, page')
  <2>1. PICK shown, q :
           /\ q = [p EXCEPT !.todo = @ \ {part}, !.shown = shown]
           /\ page' = IF q.todo = {} THEN Refreshed(q) ELSE q
           /\ p.step = "rest"
    <3> DEFINE seen == CASE part = "items"   -> [p.shown EXCEPT !.items = items]
                         [] part = "window"  -> [p.shown EXCEPT !.open = {c \in Cells :
                                                                  feedback[c] # NoText}]
                         [] part = "version" -> [p.shown EXCEPT !.version = version]
                         [] part = "item"    -> [p.shown EXCEPT !.item = items[p.cell]]
    <3> DEFINE q == [p EXCEPT !.todo = @ \ {part}, !.shown = seen]
    <3>1. page' = (IF q.todo = {} THEN Refreshed(q) ELSE q) /\ p.step = "rest"
      BY <1>3 DEF ReadRest
    <3> HIDE DEF seen
    <3> QED
      BY <3>1
  <2>2. q.step = "rest" /\ q.todo = p.todo \ {part} /\ q.failed = p.failed
    BY <2>1 DEF Page
  <2>3. CASE q.todo = {}
    <3>1. page' = Refreshed(q)
      BY <2>1, <2>3
    <3>2. AtRest(Refreshed(q))
      <4>1. PICK i : i = Ready(q)
        OBVIOUS
      <4>2. i = [[q EXCEPT !.step = "none", !.decision = NoDecision, !.failed = "no",
                           !.left = {}] EXCEPT !.state = "ready"]
        BY <4>1 DEF Ready, Idle
      <4>3. i.step = "none" /\ i.left = {} /\ \A x : AtRest([i EXCEPT !.told = x])
        BY <2>1, <4>2 DEF Page, AtRest
      <4> QED
        BY <4>1, <4>3 DEF Refreshed, AtRest
    <3> QED
      BY <2>1, <3>1, <3>2, RestIsNearer
  <2>4. CASE q.todo # {}
    <3>1. Cardinality(p.todo \ {part}) = Cardinality(p.todo) - 1
      BY <1>3, SetsOfPages, FS_RemoveElement
    <3>2. Remaining(q) = Cardinality(q.todo) + Spare(p)
      <4>1. Cardinality(q.todo) \in Int
        BY <2>2, <3>1, SetsOfPages
      <4> QED
        BY <2>2, <4>1 DEF Remaining, Spare
    <3>3. Remaining(p) = Cardinality(p.todo) + Spare(p) /\ Spare(p) \in {0, 3}
      BY <2>1, RemainingIs
    <3>4. Remaining(q) < Remaining(p)
      BY <2>2, <3>1, <3>2, <3>3, SetsOfPages
    <3> QED
      BY <2>1, <2>2, <2>4, <3>4 DEF Nearer, RoundsFit
  <2> QED
    BY <2>3, <2>4
<1> QED
  BY <1>1, <1>2, <1>3
(* The reads of the review runner.                                         *)
LEMMA WindowRests ==
    ASSUME ContentTypes, NEW p \in Page, NEW c \in Cells \cup {NoCell}
    PROVE  /\ AtRest(Idle(ApplyWindow(p, c)))
           /\ \A x : AtRest([Idle(ApplyWindow(p, c)) EXCEPT !.told = x])
           /\ \A x \in Item : AtRest(Idle([ApplyWindow(p, c) EXCEPT !.read = x]))
<1>1. PICK w \in Page : w = ApplyWindow(p, c)
  BY WindowData
<1>2. \A x \in Item : [w EXCEPT !.read = x] \in Page
  BY <1>1 DEF Page
<1> QED
  BY <1>1, <1>2, IdleRests

LEMMA RecoverIsNearer ==
    ASSUME NEW p \in Page, RoundsFit(p), NEW failure \in {"lost", "refused", "immutable"},
           p.view = "review", p.step \in {"write", "check", "check_item", "next"},
           p.step = "next" => p.decision.op # "correct"
    PROVE  Nearer(p, Recover(p, failure))
<1>1. /\ AtRest(Invalidated(p)) /\ AtRest(EnterImmutableState(p))
      /\ AtRest([Idle(p) EXCEPT !.locked = TRUE])
  BY IdleRests
<1>2. CASE failure = "immutable" \/ p.failed # "no"
  <2>1. Recover(p, failure) \in {EnterImmutableState(p), Invalidated(p),
                                 [Idle(p) EXCEPT !.locked = TRUE]}
    BY <1>2 DEF Recover
  <2> QED
    BY <1>1, <2>1, RestIsNearer
<1>3. CASE failure # "immutable" /\ p.failed = "no"
  <2>1. PICK r : r = [p EXCEPT !.failed = failure]
    OBVIOUS
  <2>2. r.decision = p.decision /\ r \in Page
    BY <2>1 DEF Page
  <2>3. PICK step \in {"check", "check_item"} :
           step = IF p.decision.op = "correct" THEN "check_item" ELSE "check"
    OBVIOUS
  <2>4. PICK q : q = [p EXCEPT !.failed = failure, !.step = step]
    OBVIOUS
  <2>5. Recover(p, failure) = q
    BY <1>3, <2>1, <2>2, <2>3, <2>4 DEF Recover, Check
  <2>6. q \in Page /\ q.step = step /\ q.failed # "no" /\ q.view = "review"
    BY <1>3, <2>4 DEF Page
  <2>7. Remaining(q) = IF step = "check" THEN 2 ELSE 3
    BY <2>3, <2>6, RemainingIs
  <2>8. /\ p.step = "next" => Remaining(p) = 4
        /\ p.step # "next" => Remaining(p) \in Int /\ Remaining(p) > 4
    BY <1>3, SetsOfPages, RemainingIs
  <2>9. p.step = "next" => step = "check"
    BY <2>3
  <2>10. Remaining(q) < Remaining(p)
    BY <2>3, <2>7, <2>8, <2>9
  <2>11. RoundsFit(q)
    BY <2>6 DEF RoundsFit
  <2> QED
    BY <2>5, <2>10, <2>11 DEF Nearer
<1> QED
  BY <1>2, <1>3

LEMMA WindowsAreNearer ==
    ASSUME PagesInv, NEW p \in Page, p = page, RoundsFit(p)
    PROVE  ReadWindow \/ FailWindow => Nearer(p, page')
<1>1. /\ ContentTypes /\ StepsFit(p) /\ DecisionsFit(p)
      /\ PageFits(p, version, items)
  BY DEF PagesInv, PageFits
<1>2. ASSUME ReadWindow, p.step # "check" PROVE Nearer(p, page')
  <2>1. PICK c \in Cells \cup {NoCell} :
           page' = [Idle(ApplyWindow(p, c)) EXCEPT !.told = p.decision]
    <3>1. DefaultCells \subseteq Cells \cup {NoCell}
      BY DEF DefaultCells
    <3> QED
      BY <1>2, <3>1 DEF ReadWindow
  <2>2. p.step # "none"
    BY <1>2 DEF ReadWindow
  <2> QED
    BY <1>1, <2>1, <2>2, WindowRests, RestIsNearer
<1>3. ASSUME ReadWindow, p.step = "check" PROVE Nearer(p, page')
  <2>1. PICK e : e = Established(p)
    OBVIOUS
  <2>2. e \in Page /\ p.cell \in Cells
    BY <1>1, <1>3, <2>1, EstablishedFits DEF PageFits
  <2>3. e.failed = p.failed /\ e.view = "review"
    BY <1>1, <1>3, <2>1, EstablishedFits DEF Established, Page
  <2>4. CASE ~Confirms(p)
    <3>1. page' = Idle(ApplyUnconfirmed(p))
      BY <1>3, <2>4 DEF ReadWindow
    <3>2. AtRest(Idle(ApplyWindow(p, p.cell)))
          /\ AtRest(Idle([ApplyWindow(p, p.cell) EXCEPT !.read = p.read]))
      BY <1>1, <2>2, WindowRests DEF Page
    <3>3. AtRest(page')
      BY <3>1, <3>2 DEF ApplyUnconfirmed
    <3> QED
      BY <1>3, <3>3, RestIsNearer
  <2>5. CASE Confirms(p) /\ p.decision.op = "correct"
    <3>1. page' = [Idle(ApplyWindow(e, p.cell)) EXCEPT !.told = p.decision]
      BY <1>3, <2>1, <2>5 DEF ReadWindow
    <3> QED
      BY <1>1, <1>3, <2>2, <3>1, WindowRests, RestIsNearer
  <2>6. CASE Confirms(p) /\ p.decision.op # "correct"
    <3>1. PICK q : q = [e EXCEPT !.step = "next"]
      OBVIOUS
    <3>2. page' = q
      BY <1>3, <2>1, <2>6, <3>1 DEF ReadWindow
    <3>3. q \in Page /\ q.step = "next" /\ q.failed = p.failed /\ q.view = "review"
      BY <2>2, <2>3, <3>1 DEF Page
    <3>4. Remaining(q) = 1 + Spare(p)
      BY <3>3, RemainingIs DEF Spare
    <3>5. Remaining(p) = 2 + Spare(p) /\ Spare(p) \in {0, 3}
      BY <1>3, RemainingIs
    <3> QED
      BY <3>2, <3>3, <3>4, <3>5 DEF Nearer, RoundsFit
  <2> QED
    BY <2>4, <2>5, <2>6
<1>4. ASSUME FailWindow PROVE Nearer(p, page')
  <2>1. PICK failure \in {"lost", "immutable"} :
           page' = IF p.step # "window" THEN Recover(p, failure)
                   ELSE IF failure = "immutable" THEN EnterImmutableState(p)
                   ELSE IF p.locked THEN Idle(p) ELSE Invalidated(p)
    BY <1>4 DEF FailWindow
  <2>2. /\ p.step \in {"window", "check", "check_item", "next"} /\ p.view = "review"
        /\ p.step = "next" => p.decision.op # "correct"
    BY <1>1, <1>4 DEF FailWindow, StepsFit, DecisionsFit
  <2>3. CASE p.step # "window"
    BY <2>1, <2>2, <2>3, RecoverIsNearer
  <2>4. CASE p.step = "window"
    <3>1. AtRest(page')
      BY <2>1, <2>4, IdleRests
    <3> QED
      BY <2>4, <3>1, RestIsNearer
  <2> QED
    BY <2>3, <2>4
<1> QED
  BY <1>2, <1>3, <1>4

LEMMA ItemReadsAreNearer ==
    ASSUME PagesInv, NEW p \in Page, p = page, RoundsFit(p)
    PROVE  ReadItem \/ FailItem \/ Evaluated \/ NotEvaluated => Nearer(p, page')
<1>1. ASSUME \/ FailItem \/ Evaluated \/ NotEvaluated
             \/ ReadItem /\ p.step = "form"
      PROVE  Nearer(p, page')
  <2>1. p.step # "none"
    BY <1>1 DEF FailItem, Evaluated, NotEvaluated
  <2>2. \/ page' = Idle(p) \/ page' = EnterImmutableState(p)
        \/ \E x : page' = [Idle(p) EXCEPT !.read = x]
        \/ \E x : page' = [Idle(p) EXCEPT !.simulated = x]
    BY <1>1 DEF FailItem, Evaluated, NotEvaluated, ReadItem
  <2>3. AtRest(page')
    <3>1. \A x : AtRest([Idle(p) EXCEPT !.read = x])
      BY IdleRests
    <3>2. \A x : AtRest([Idle(p) EXCEPT !.simulated = x])
      BY IdleRests
    <3>3. AtRest(Idle(p)) /\ AtRest(EnterImmutableState(p))
      BY IdleRests
    <3> QED
      BY <2>2, <3>1, <3>2, <3>3
  <2> QED
    BY <2>1, <2>3, RestIsNearer
<1>2. ASSUME ReadItem, p.step # "form" PROVE Nearer(p, page')
  <2>1. PICK q : q = [p EXCEPT !.read = items[p.cell], !.step = "check"]
    OBVIOUS
  <2>2. page' = q /\ p.step = "check_item"
    BY <1>2, <2>1 DEF ReadItem
  <2>3. q.step = "check" /\ q.failed = p.failed
    BY <2>1 DEF Page
  <2>4. Remaining(q) = 2 + Spare(p)
    BY <2>3 DEF Remaining, Spare
  <2>5. Remaining(p) = 3 + Spare(p) /\ Spare(p) \in {0, 3}
    BY <2>2, RemainingIs
  <2> QED
    BY <2>2, <2>3, <2>4, <2>5 DEF Nearer, RoundsFit
<1> QED
  BY <1>1, <1>2

(* The outcomes of an operation.  A batch that is not the last takes some  *)
(* of what is left, and the other operations of the version's page are     *)
(* one call.                                                               *)
LEMMA BatchesTakeSome ==
    ASSUME NEW p \in Page, RoundsFit(p), p.view = "version", p.step = "write",
           NEW input \in Batch(p), p.left # input.cells
    PROVE  /\ p.left \ input.cells \in SUBSET Cells
           /\ Cardinality(p.left \ input.cells) < Cardinality(p.left)
           /\ Cardinality(p.left \ input.cells) \in Nat
           /\ p.decision.op = "approve_items"
<1>1. p.decision \in Input /\ p.left \in SUBSET Cells
  BY DEF Page
<1>2. p.decision.op = "approve_items"
  BY DEF RoundsFit, Batch
<1>3. PICK cs \in SUBSET p.left :
         /\ input = [p.decision EXCEPT !.cells = cs]
         /\ Cardinality(cs) = IF Cardinality(p.left) < MaxBatch THEN Cardinality(p.left)
                              ELSE MaxBatch
  BY <1>2 DEF Batch
<1>4. input.cells = cs
  BY <1>1, <1>3 DEF Input
<1>5. IsFiniteSet(p.left) /\ Cardinality(p.left) \in Nat /\ MaxBatch \in Nat /\ MaxBatch # 0
  BY SetsOfPages, PagesAssumption
<1>6. p.left # {}
  BY <1>3, <1>4
<1>7. Cardinality(cs) # 0
  BY <1>3, <1>5, <1>6, FS_EmptySet
<1>8. cs # {}
  BY <1>7, FS_EmptySet
<1>9. PICK c \in cs : TRUE
  BY <1>8
<1>10. p.left \ cs \subseteq p.left \ {c} /\ c \in p.left
  BY <1>9
<1>11. IsFiniteSet(p.left \ {c}) /\ Cardinality(p.left \ {c}) = Cardinality(p.left) - 1
  BY <1>5, <1>10, FS_RemoveElement
<1>12. /\ IsFiniteSet(p.left \ cs)
       /\ Cardinality(p.left \ cs) <= Cardinality(p.left \ {c})
  BY <1>10, <1>11, FS_Subset
<1>13. Cardinality(p.left \ cs) \in Nat
  BY <1>12, FS_CardinalityType
<1>14. p.left \ cs \in SUBSET Cells
  BY <1>1
<1> QED
  BY <1>2, <1>4, <1>5, <1>11, <1>12, <1>13, <1>14

(* A page that reads again after its operation.                            *)
LEMMA RefreshIsNearer ==
    ASSUME NEW p \in Page, p.step = "write", p.view \in {"version", "item"},
           NEW failure \in {"no", "lost", "refused", "immutable"},
           failure = "no" => p.failed = "no"
    PROVE  Nearer(p, Refreshing(p, failure))
<1>1. PICK r : r = [p EXCEPT !.failed = failure]
  OBVIOUS
<1>2. r \in Page /\ r.view = p.view /\ r.failed = failure
  BY <1>1 DEF Page
<1>3. PICK q : q = Refreshing(p, failure)
  OBVIOUS
<1>4. q = IF r.view = "version" THEN [r EXCEPT !.step = "detail"]
          ELSE [r EXCEPT !.step = "rest", !.todo = {"version", "item"}]
  BY <1>1, <1>3 DEF Refreshing, Refresh
<1>5. /\ q \in Page /\ q.failed = failure
      /\ q.step = "detail" \/ (q.step = "rest" /\ q.todo = {"version", "item"})
  BY <1>2, <1>4 DEF Page
<1>6. Spare(q) <= Spare(p)
  BY <1>5 DEF Spare
<1>7. Remaining(q) \in {2 + Spare(q), 3 + Spare(q)}
  <2>1. Cardinality({"version", "item"}) = 2
    BY Pairs
  <2>2. CASE q.step = "detail"
    BY <1>5, <2>2, RemainingIs
  <2>3. CASE q.step = "rest" /\ q.todo = {"version", "item"}
    <3>1. Remaining(q) = Cardinality(q.todo) + Spare(q)
      BY <1>5, <2>3, RemainingIs
    <3> QED
      BY <2>1, <2>3, <3>1
  <2> QED
    BY <1>5, <2>2, <2>3
<1>8. Remaining(p) >= 4 + Spare(p)
  BY SetsOfPages, RemainingIs
<1>9. Remaining(q) \in Int /\ Remaining(p) \in Int /\ Spare(p) \in Int /\ Spare(q) \in Int
  BY <1>5, SetsOfPages, RemainingIs
<1>10. RoundsFit(q)
  BY <1>5 DEF RoundsFit
<1> QED
  BY <1>3, <1>6, <1>7, <1>8, <1>9, <1>10 DEF Nearer

LEMMA NotDoneIsNearer ==
    ASSUME NEW p \in Page, RoundsFit(p), p.step = "write",
           NEW failure \in {"lost", "refused", "immutable"}
    PROVE  Nearer(p, NotDone(p, failure))
<1>1. p.view \in {"version", "item", "review"}
  BY DEF Page
<1>2. CASE p.view = "review"
  BY <1>2, RecoverIsNearer DEF NotDone
<1>3. CASE p.view # "review"
  <2>1. NotDone(p, failure) \in {Idle(p), Refreshing(p, failure)}
    BY <1>1, <1>3 DEF NotDone, Refreshing
  <2>2. Nearer(p, Idle(p))
    BY IdleRests, RestIsNearer
  <2>3. Nearer(p, Refreshing(p, failure))
    BY <1>1, <1>3, RefreshIsNearer
  <2> QED
    BY <2>1, <2>2, <2>3
<1> QED
  BY <1>2, <1>3

LEMMA DoneIsNearer ==
    ASSUME NEW p \in Page, RoundsFit(p), DecisionsFit(p), p.step = "write",
           NEW input \in Batch(p)
    PROVE  /\ p.view # "review" => Nearer(p, Done(p, input))
           /\ p.view = "review" => \A x : Nearer(p, [Done(p, input) EXCEPT !.proof = x])
<1>1. p.view \in {"version", "item", "review"}
  BY DEF Page
<1>2. CASE p.view = "version" /\ p.left # input.cells
  <2>1. PICK q : q = [p EXCEPT !.left = @ \ input.cells]
    OBVIOUS
  <2>2. q = Done(p, input)
    BY <1>2, <2>1 DEF Done
  <2>3. p.left \ input.cells \in SUBSET Cells
    BY <1>2, BatchesTakeSome
  <2>4. /\ q \in Page /\ q.step = "write" /\ q.failed = p.failed
        /\ q.left = p.left \ input.cells /\ q.decision = p.decision
    BY <2>1, <2>3 DEF Page
  <2>5. /\ Remaining(q) = 4 + Cardinality(p.left \ input.cells) + Spare(p)
        /\ Remaining(p) = 4 + Cardinality(p.left) + Spare(p)
        /\ Spare(p) \in {0, 3}
    BY <2>4, RemainingIs DEF Spare
  <2>6. RoundsFit(q)
    BY <1>2, <2>4, BatchesTakeSome DEF RoundsFit
  <2>7. Remaining(q) < Remaining(p)
    BY <1>2, <2>5, BatchesTakeSome, SetsOfPages
  <2> QED
    BY <1>2, <2>2, <2>6, <2>7 DEF Nearer
<1>3. CASE p.view = "version" /\ p.left = input.cells
  <2>1. Done(p, input) = Refresh(p)
    BY <1>3 DEF Done
  <2>2. [p EXCEPT !.failed = p.failed] = p /\ p.failed \in {"no", "lost", "refused", "immutable"}
    BY DEF Page
  <2>3. Refreshing(p, p.failed) = Refresh(p)
    BY <2>2 DEF Refreshing
  <2> QED
    BY <1>3, <2>1, <2>2, <2>3, RefreshIsNearer
<1>4. CASE p.view = "item"
  <2>1. PICK t : t = [Ready(p) EXCEPT !.told = p.decision]
    OBVIOUS
  <2>2. AtRest(t)
    BY <2>1, IdleRests
  <2>3. \A x : AtRest([t EXCEPT !.shown = x])
    BY <2>2 DEF AtRest
  <2>4. \E x : Done(p, input) = [t EXCEPT !.shown = x]
    BY <1>4, <2>1 DEF Done
  <2> QED
    BY <1>4, <2>3, <2>4, RestIsNearer
<1>5. ASSUME p.view = "review", NEW x
      PROVE  Nearer(p, [Done(p, input) EXCEPT !.proof = x])
  <2>1. PICK step \in {"next", "check", "check_item"} :
           Done(p, input) = [p EXCEPT !.step = step]
    <3>1. CASE p.decision.op = "approve"
      BY <1>5, <3>1 DEF Done
    <3>2. CASE p.decision.op = "correct"
      <4>1. Done(p, input) = [p EXCEPT !.step = "check_item"]
        BY <1>5, <3>2 DEF Done, Check
      <4> QED
        BY <4>1
    <3>3. CASE p.decision.op \notin {"approve", "correct"}
      <4>1. Done(p, input) = [p EXCEPT !.step = "check"]
        BY <1>5, <3>3 DEF Done, Check
      <4> QED
        BY <4>1
    <3> QED
      BY <3>1, <3>2, <3>3
  <2>2. PICK q : q = [Done(p, input) EXCEPT !.proof = x]
    OBVIOUS
  <2>3. q.step = step /\ q.failed = p.failed /\ q.view = "review"
    BY <1>5, <2>1, <2>2 DEF Page
  <2>4. Remaining(q) \in {1 + Spare(p), 2 + Spare(p), 3 + Spare(p)}
    BY <2>3 DEF Remaining, Spare
  <2>5. /\ Remaining(p) = 4 + Cardinality(p.left) + Spare(p)
        /\ Spare(p) \in {0, 3} /\ Cardinality(p.left) \in Nat
    BY SetsOfPages, RemainingIs
  <2>6. Remaining(q) < Remaining(p)
    BY <2>4, <2>5
  <2>7. RoundsFit(q)
    BY <2>3 DEF RoundsFit
  <2> QED
    BY <2>2, <2>6, <2>7 DEF Nearer
<1> QED
  BY <1>1, <1>2, <1>3, <1>4, <1>5

LEMMA AnswersAreNearer ==
    ASSUME PagesInv, RoundsFit(page), Respond
    PROVE  Nearer(page, page')
<1>1. PICK p : p = page
  OBVIOUS
<1>2. p \in Page /\ RoundsFit(p) /\ DecisionsFit(p)
  BY <1>1 DEF PagesInv, PageFits
<1>3. CASE Answered
  <2>1. PICK input, x :
           /\ input \in Batch(p) /\ p.step = "write"
           /\ page' = IF p.view = "review" THEN [Done(p, input) EXCEPT !.proof = x]
                      ELSE Done(p, input)
    BY <1>1, <1>3 DEF Answered
  <2> QED
    BY <1>1, <1>2, <2>1, DoneIsNearer
<1>4. CASE Refused \/ Lost
  <2>1. PICK failure \in {"lost", "refused", "immutable"} :
           p.step = "write" /\ page' = NotDone(p, failure)
    BY <1>1, <1>4 DEF Refused, Lost
  <2> QED
    BY <1>1, <1>2, <2>1, NotDoneIsNearer
<1>5. CASE Read
  <2>1. CASE ReadDetail \/ FailRead \/ \E part \in page.todo : ReadRest(part)
    BY <1>1, <1>2, <2>1, ReadsAreNearer
  <2>2. CASE ReadWindow \/ FailWindow
    BY <1>1, <1>2, <2>2, WindowsAreNearer
  <2>3. CASE ReadItem \/ FailItem \/ Evaluated \/ NotEvaluated
    BY <1>1, <1>2, <2>3, ItemReadsAreNearer
  <2> QED
    BY <1>5, <2>1, <2>2, <2>3 DEF Read
<1> QED
  BY <1>3, <1>4, <1>5 DEF Respond
(* The administrator starts an operation with nothing left of another.     *)
LEMMA ActsFit ==
    ASSUME PagesInv, RoundsFit(page), Administer
    PROVE  RoundsFit(page')
<1>1. PICK p : p = page
  OBVIOUS
<1>2. p \in Page /\ RoundsFit(p)
  BY <1>1 DEF PagesInv, PageFits
<1>3. ASSUME p.step = "none", NEW d, NEW step \in {"write", "evaluate", "form", "window"},
             Act(step, d), p.view = "version" => d.cells = {}
      PROVE  RoundsFit(page')
  <2>1. p.left = {}
    BY <1>2, <1>3 DEF RoundsFit
  <2>2. /\ page'.step = step /\ page'.left = {} /\ page'.decision = d
        /\ page'.view = p.view
    BY <1>1, <1>2, <1>3, <2>1 DEF Act, Page
  <2> QED
    BY <1>3, <2>2 DEF RoundsFit
<1>4. CASE BuildVersion \/ PublishVersion \/ DiscardVersion
  <2>1. PICK op : Act("write", Do(op, {})) /\ p.step = "none"
    BY <1>1, <1>4 DEF BuildVersion, PublishVersion, DiscardVersion, OnVersion, MayAct, Ask
  <2>2. Do(op, {}).cells = {}
    BY DEF Do
  <2> QED
    BY <1>3, <2>1, <2>2
<1>5. CASE ApproveAllDrafts
  <2>1. PICK q : q = page'
    OBVIOUS
  <2>2. q = [p EXCEPT !.step = "write", !.told = NoDecision, !.proof = NoProof,
                      !.decision = Do("approve_items", Drafts), !.left = Drafts]
    BY <1>1, <1>5, <2>1 DEF ApproveAllDrafts
  <2>3. q.step = "write" /\ q.decision.op = "approve_items"
    BY <1>2, <2>2 DEF Page, Do
  <2> QED
    BY <2>1, <2>3 DEF RoundsFit
<1>6. CASE SaveItem \/ ApproveItem \/ DisableItem
  <2>1. PICK d : Act("write", d) /\ p.step = "none" /\ p.view = "item"
    BY <1>1, <1>6 DEF SaveItem, ApproveItem, DisableItem, OnItem, MayAct, Ask
  <2> QED
    BY <1>3, <2>1
<1>7. CASE Evaluate \/ Approve \/ RequestRework \/ LoadCorrection \/ CorrectExercise \/ Reload
  <2>1. p.step = "none" /\ p.view = "review"
    BY <1>1, <1>7 DEF Evaluate, Approve, RequestRework, LoadCorrection, CorrectExercise, Reload,
       OnReview, MayAct
  <2>2. ASSUME NEW step \in {"write", "evaluate", "form", "window"}, NEW d, Act(step, d)
        PROVE  RoundsFit(page')
    BY <1>3, <2>1, <2>2
  <2>3. CASE Evaluate \/ Reload \/ LoadCorrection
    BY <2>2, <2>3 DEF Evaluate, Reload, LoadCorrection
  <2>4. CASE Approve \/ RequestRework \/ CorrectExercise
    BY <2>2, <2>4 DEF Approve, RequestRework, CorrectExercise, Ask
  <2> QED
    BY <1>7, <2>3, <2>4
<1>8. CASE Open
  <2>1. PICK q : q = page'
    OBVIOUS
  <2>2. \/ q = VersionPage \/ \E c : q = ItemPage(c) \/ q = ReviewPage(c)
    BY <1>8, <2>1 DEF Open
  <2>3. q.step \in {"detail", "window"} \/ (q.step = "rest" /\ q.todo = {"version", "item"})
    <3>1. CASE q = VersionPage
      BY <3>1 DEF VersionPage, Fresh
    <3>2. ASSUME NEW c, q = ItemPage(c)
          PROVE  q.step = "rest" /\ q.todo = {"version", "item"}
      BY <3>2 DEF ItemPage, Fresh
    <3>3. ASSUME NEW c, q = ReviewPage(c)
          PROVE  q.step = "window"
      BY <3>3 DEF ReviewPage, Fresh
    <3> QED
      BY <2>2, <3>1, <3>2, <3>3
  <2> QED
    BY <2>1, <2>3 DEF RoundsFit
<1> QED
  BY <1>4, <1>5, <1>6, <1>7, <1>8 DEF Administer

LEMMA RoundsHold == PagesSpec => [](PagesInv /\ RoundsFit(page))
<1>1. PagesInit => RoundsFit(page)
  BY DEF PagesInit, VersionPage, Fresh, RoundsFit
<1>2. PagesInv /\ RoundsFit(page) /\ [PagesNext]_pageVars => RoundsFit(page)'
  <2> SUFFICES ASSUME PagesInv, RoundsFit(page), [PagesNext]_pageVars
               PROVE  RoundsFit(page')
    OBVIOUS
  <2>1. CASE Administer
    BY <2>1, ActsFit
  <2>2. CASE Respond
    BY <2>2, AnswersAreNearer DEF Nearer
  <2>3. CASE page' = page
    BY <2>3
  <2> QED
    BY <2>1, <2>2, <2>3 DEF PagesNext, Land, pageVars
<1> QED
  BY <1>1, <1>2, PagesHold, PTL DEF PagesSpec

(* Whatever is lost, refused or written by others meanwhile, every answer  *)
(* brings the action of a page nearer to its end.                          *)
THEOREM ActionsComeToAnEnd == PagesSpec => ActionsEnd
<1>1. PagesInv /\ RoundsFit(page) /\ [PagesNext]_pageVars =>
         [Respond => Remaining(page') < Remaining(page)]_pageVars
  BY AnswersAreNearer DEF Nearer
<1> QED
  BY <1>1, RoundsHold, PTL DEF PagesSpec, ActionsEnd
=============================================================================
