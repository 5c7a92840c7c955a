--------------------------- MODULE AdminPagesProofs ---------------------------
(***************************************************************************)
(* Proofs about the pages of an administrator's tab: SourceImport, for any *)
(* tokens, requests and bounds, and CoursesWorkspace.                      *)
(***************************************************************************)
EXTENDS SourceImport, CoursesWorkspace, FiniteSetTheorems, TLAPS

-----------------------------------------------------------------------------
(* The inductive invariant of SourceImport.                                *)

Commands == Command \cup {NoCommand}

ImportLocal == [command : Commands, mount : Nat, no : Nat, outcome : Outcomes,
                alone : BOOLEAN]

ImportTab == [mount : Nat, open : BOOLEAN, visible : BOOLEAN,
              state : {"idle", "submitting", "confirming", "success", "failure"},
              pending : Commands, waiting : BOOLEAN, timer : BOOLEAN,
              told : Commands, no : Nat, alone : BOOLEAN]

ImportTypes ==
    /\ versions \subseteq Version
    /\ ledger \subseteq used
    /\ used \subseteq Tokens
    /\ at \in [Requests -> Point]
    /\ loc \in [Requests -> ImportLocal]
    /\ tab \in ImportTab
    /\ stored \in Commands
    /\ faults \in Nat

(* Rows have keys, and the numbers of a source have no gaps.  An import    *)
(* makes one version, of a source of its own or of Source.                 *)
VersionsAreKeyed ==
    /\ \A v, w \in versions : v.source = w.source /\ v.no = w.no => v = w
    /\ \A v, w \in versions : v.token = w.token /\ v.token # NoToken => v = w
    /\ \A v \in versions : v.token # NoToken => v.token \in ledger
    /\ \A t \in ledger : \E v \in versions : v.token = t
    /\ \A s \in Tokens \cup {Source} : \E n \in Nat : {v.no : v \in VersionsOf(s)} = 1 .. n
    /\ \A v, w \in versions : v.source = w.source /\ v.status = "draft" => w.no <= v.no

InFlight(r) == at[r] # "idle"

IsKnown(c) == c \in Command /\ c.token \in used

IsNumbered(s, n) == \E v \in versions : v.source = s /\ v.no = n
IsImported(c, n) == \E v \in versions : v.token = c.token /\ v.no = n

(* The points from which a request may come to refuse.                     *)
MayRefuse(p, l) ==
    \/ p \in {"schema", "list", "check", "insert", "list_again"}
    \/ p = "reply" /\ l.outcome = "refused"

(* What a request found out is still so, unless another one has its token. *)
Progress(p, l) ==
    /\ MayRefuse(p, l) /\ l.alone => l.command.token \notin ledger
    /\ p = "list" => l.command.source = Source
    /\ p \in {"check", "insert"} =>
          l.no # 0 /\ \A n \in 1 .. l.no - 1 : IsNumbered(l.command.source, n)
    /\ p = "reread" \/ (p = "reply" /\ l.outcome = "imported") =>
          IsImported(l.command, l.no)

RequestsProgress ==
    \A r \in Requests :
        /\ ~InFlight(r) => loc[r] = Nothing
        /\ InFlight(r) => IsKnown(loc[r].command) /\ Progress(at[r], loc[r])

AloneIsAlone ==
    \A q, r \in Requests :
        InFlight(q) /\ InFlight(r) /\ q # r /\ loc[r].alone =>
            loc[q].command.token # loc[r].command.token

(* The page waits for at most one request, whose command is the stored one *)
(* if any is stored.                                                       *)
Awaited(r) == InFlight(r) /\ loc[r].mount = tab.mount

OneIsAwaited ==
    /\ tab.mount # 0
    /\ \A r \in Requests : loc[r].mount <= tab.mount
    /\ \A q, r \in Requests : Awaited(q) /\ Awaited(r) => q = r
    /\ \A r \in Requests : Awaited(r) =>
          /\ tab.open => tab.waiting
          /\ stored # NoCommand => loc[r].command = stored
    /\ tab.waiting => \E r \in Requests : Awaited(r)

PageFits ==
    /\ tab.waiting => IsBusy
    /\ tab.state = "submitting" => tab.waiting
    /\ IsBusy <=> tab.pending # NoCommand
    /\ tab.pending # NoCommand =>
          IsKnown(tab.pending) /\ (stored # NoCommand => stored = tab.pending)
    /\ stored # NoCommand => IsKnown(stored)
    /\ tab.timer => tab.visible /\ ~tab.waiting /\ IsBusy
    /\ IsBusy => tab.waiting \/ tab.timer \/ ~tab.visible
    /\ ~tab.open => tab.state = "idle"

ToldFits ==
    /\ tab.state = "success" => IsImported(tab.told, tab.no)
    /\ tab.state = "failure" /\ tab.alone =>
          /\ tab.told.token \notin ledger
          /\ \A r \in Requests : InFlight(r) => loc[r].command.token # tab.told.token

ImportInv ==
    /\ ImportTypes
    /\ VersionsAreKeyed
    /\ RequestsProgress
    /\ AloneIsAlone
    /\ OneIsAwaited
    /\ PageFits
    /\ ToldFits

LEMMA CommandFacts ==
    /\ NoCommand \notin Command
    /\ NoCommand.token = NoToken
    /\ \A c \in Command : c.token \in Tokens /\ c.token # NoToken
                          /\ c.source \in Tokens \cup {Source}
    /\ NoToken \notin Tokens /\ Source \notin Tokens
BY ImportAssumption DEF Command, NoCommand

LEMMA NothingIsLocal == Nothing \in ImportLocal
BY DEF Nothing, ImportLocal, Commands, NoCommand, Outcomes

LEMMA ClosedIsTab == Closed \in ImportTab
BY DEF Closed, ImportTab, Commands, NoCommand

-----------------------------------------------------------------------------
(* The initial state.                                                      *)

LEMMA ImportStarts == ImportInit => ImportInv
<1> SUFFICES ASSUME ImportInit PROVE ImportInv
  OBVIOUS
<1>1. /\ ledger = {} /\ stored = NoCommand /\ used = {} /\ faults = 0
      /\ at = [r \in Requests |-> "idle"] /\ loc = [r \in Requests |-> Nothing]
      /\ tab = [Closed EXCEPT !.mount = 1, !.open = TRUE]
  BY DEF ImportInit
<1>2. /\ tab \in ImportTab /\ tab.mount = 1 /\ tab.open = TRUE /\ tab.state = "idle"
      /\ tab.pending = NoCommand /\ tab.waiting = FALSE /\ tab.timer = FALSE
  BY <1>1, ClosedIsTab DEF Closed, ImportTab
<1>3. PICK first : first = [source |-> Source, no |-> 1, token |-> NoToken,
                            status |-> "published"]
  OBVIOUS
<1>4. first \in Version /\ first.source = Source /\ first.no = 1 /\ first.token = NoToken
      /\ first.status = "published"
  BY <1>3 DEF Version
<1>5. versions = {} \/ versions = {first}
  BY <1>3 DEF ImportInit
<1>6. ImportTypes
  BY <1>1, <1>2, <1>4, <1>5, NothingIsLocal DEF ImportTypes, Point, Commands
<1>7. VersionsAreKeyed
  <2>1. ASSUME NEW s \in Tokens \cup {Source}
        PROVE  \E n \in Nat : {v.no : v \in VersionsOf(s)} = 1 .. n
    <3>1. CASE VersionsOf(s) = {}
      <4>1. {v.no : v \in VersionsOf(s)} = 1 .. 0
        BY <3>1
      <4>2. QED  BY <4>1
    <3>2. CASE VersionsOf(s) = {first}
      <4>1. {v.no : v \in VersionsOf(s)} = 1 .. 1
        BY <3>2, <1>4
      <4>2. QED  BY <4>1
    <3>3. VersionsOf(s) = {} \/ VersionsOf(s) = {first}
      BY <1>5 DEF VersionsOf
    <3>4. QED  BY <3>1, <3>2, <3>3
  <2>2. QED  BY <2>1, <1>1, <1>4, <1>5 DEF VersionsAreKeyed
<1>8. RequestsProgress /\ AloneIsAlone
  BY <1>1 DEF RequestsProgress, AloneIsAlone, InFlight
<1>9. OneIsAwaited
  BY <1>1, <1>2 DEF OneIsAwaited, Awaited, InFlight, Nothing
<1>10. PageFits /\ ToldFits
  BY <1>1, <1>2 DEF PageFits, ToldFits, IsBusy
<1>11. QED  BY <1>6, <1>7, <1>8, <1>9, <1>10 DEF ImportInv

-----------------------------------------------------------------------------
(* The request takes a step that writes nothing.                           *)

LEMMA ServeStep ==
    ASSUME ImportInv, NEW r \in Requests, InFlight(r), UNCHANGED <<db, client>>,
           faults' \in Nat,
           NEW p \in Point \ {"idle"}, NEW m \in ImportLocal, Goto(r, p, m),
           m.command = loc[r].command, m.mount = loc[r].mount, m.alone = loc[r].alone,
           Progress(p, m)
    PROVE  ImportInv'
<1>1. /\ versions' = versions /\ ledger' = ledger
      /\ tab' = tab /\ stored' = stored /\ used' = used
  BY DEF db, client
<1>2. /\ at \in [Requests -> Point] /\ loc \in [Requests -> ImportLocal]
      /\ \A q \in Requests : at'[q] = IF q = r THEN p ELSE at[q]
      /\ \A q \in Requests : loc'[q] = IF q = r THEN m ELSE loc[q]
      /\ at' \in [Requests -> Point] /\ loc' \in [Requests -> ImportLocal]
  BY DEF ImportInv, ImportTypes, Goto
<1>3. \A q \in Requests :
          /\ InFlight(q)' <=> InFlight(q)
          /\ loc'[q].command = loc[q].command /\ loc'[q].mount = loc[q].mount
          /\ loc'[q].alone = loc[q].alone
  BY <1>2 DEF InFlight
<1>4. ImportTypes'
  BY <1>1, <1>2 DEF ImportInv, ImportTypes
<1>5. VersionsAreKeyed'
  BY <1>1 DEF ImportInv, VersionsAreKeyed, VersionsOf
<1>6. RequestsProgress'
  <2>1. ASSUME NEW q \in Requests
        PROVE  /\ (~InFlight(q) => loc[q] = Nothing)'
               /\ (InFlight(q) => IsKnown(loc[q].command) /\ Progress(at[q], loc[q]))'
    <3>1. CASE q = r
      BY <3>1, <1>1, <1>2, <1>3 DEF ImportInv, RequestsProgress, InFlight, IsKnown,
            Progress, MayRefuse, IsNumbered, IsImported
    <3>2. CASE q # r
      BY <3>2, <1>1, <1>2, <1>3 DEF ImportInv, RequestsProgress, InFlight, IsKnown,
            Progress, MayRefuse, IsNumbered, IsImported
    <3>3. QED  BY <3>1, <3>2
  <2>2. QED  BY <2>1 DEF RequestsProgress
<1>7. AloneIsAlone'
  BY <1>3 DEF ImportInv, AloneIsAlone
<1>8. OneIsAwaited'
  BY <1>1, <1>3 DEF ImportInv, OneIsAwaited, Awaited
<1>9. PageFits' /\ ToldFits'
  BY <1>1, <1>3 DEF ImportInv, PageFits, ToldFits, IsBusy, IsKnown, IsImported
<1>10. QED  BY <1>4, <1>5, <1>6, <1>7, <1>8, <1>9 DEF ImportInv

(* What a step may change in the local state of a request.                 *)
LEMMA LocalFields ==
    ASSUME NEW l \in ImportLocal, NEW o \in Outcomes, NEW n \in Nat
    PROVE  /\ LET m == [l EXCEPT !.outcome = o] IN
                 /\ m \in ImportLocal /\ m.command = l.command /\ m.mount = l.mount
                 /\ m.alone = l.alone /\ m.no = l.no /\ m.outcome = o
           /\ LET m == [l EXCEPT !.no = n] IN
                 /\ m \in ImportLocal /\ m.command = l.command /\ m.mount = l.mount
                 /\ m.alone = l.alone /\ m.no = n /\ m.outcome = l.outcome
           /\ LET m == [l EXCEPT !.outcome = o, !.no = n] IN
                 /\ m \in ImportLocal /\ m.command = l.command /\ m.mount = l.mount
                 /\ m.alone = l.alone /\ m.no = n /\ m.outcome = o
BY DEF ImportLocal

LEMMA ReplyStep ==
    ASSUME ImportInv, NEW r \in Requests, InFlight(r), UNCHANGED <<db, client>>,
           faults' \in Nat, NEW o \in Outcomes, Reply(r, o),
           o = "refused" => (loc[r].alone => loc[r].command.token \notin ledger),
           o = "imported" => IsImported(loc[r].command, loc[r].no)
    PROVE  ImportInv'
<1> DEFINE m == [loc[r] EXCEPT !.outcome = o]
<1>1. loc[r] \in ImportLocal
  BY DEF ImportInv, ImportTypes
<1>2. /\ m \in ImportLocal /\ m.command = loc[r].command /\ m.mount = loc[r].mount
      /\ m.alone = loc[r].alone /\ m.no = loc[r].no /\ m.outcome = o
  BY <1>1, LocalFields
<1>3. Goto(r, "reply", m)
  BY DEF Reply
<1> HIDE DEF m
<1>4. Progress("reply", m)
  BY <1>2 DEF Progress, MayRefuse
<1>5. "reply" \in Point \ {"idle"}
  BY DEF Point
<1>6. QED  BY <1>2, <1>3, <1>4, <1>5, ServeStep

LEMMA MoveStep ==
    ASSUME ImportInv, NEW r \in Requests, InFlight(r), UNCHANGED <<db, client>>,
           faults' \in Nat, NEW p \in Point \ {"idle"}, Goto(r, p, loc[r]),
           Progress(p, loc[r])
    PROVE  ImportInv'
BY ServeStep DEF ImportInv, ImportTypes

LEMMA FaultCounts ==
    ASSUME ImportInv, Fault \/ UNCHANGED faults
    PROVE  faults' \in Nat
BY DEF ImportInv, ImportTypes, Fault

(* The next number of Source comes after all that exist.                   *)
LEMMA NextNoIsNext ==
    ASSUME ImportInv
    PROVE  \E n \in Nat : /\ NextNo(Source) = n + 1
                          /\ {v.no : v \in VersionsOf(Source)} = 1 .. n
<1>1. PICK n \in Nat : {v.no : v \in VersionsOf(Source)} = 1 .. n
  BY DEF ImportInv, VersionsAreKeyed
<1>2. CASE VersionsOf(Source) = {}
  <2>1. n = 0
    <3>1. 1 \notin 1 .. n
      BY <1>1, <1>2
    <3>2. QED  BY <3>1
  <2>2. QED  BY <1>1, <1>2, <2>1 DEF NextNo
<1>3. CASE VersionsOf(Source) # {}
  <2>1. n \in {v.no : v \in VersionsOf(Source)}
    <3>1. \E k : k \in 1 .. n
      BY <1>1, <1>3
    <3>2. n \in 1 .. n
      BY <3>1
    <3>3. QED  BY <1>1, <3>2
  <2>2. \A v \in VersionsOf(Source) : v.no \in 1 .. n
    BY <1>1
  <2>3. \A k \in {v.no : v \in VersionsOf(Source)} :
           (\A v \in VersionsOf(Source) : v.no <= k) <=> k = n
    BY <1>1, <2>1, <2>2
  <2> DEFINE last == CHOOSE k \in {v.no : v \in VersionsOf(Source)} :
                        \A v \in VersionsOf(Source) : v.no <= k
  <2>4. last = n
    BY <2>1, <2>3
  <2>5. NextNo(Source) = 1 + last
    BY <1>3 DEF NextNo
  <2> HIDE DEF last
  <2>6. NextNo(Source) = n + 1
    BY <2>4, <2>5
  <2>7. QED  BY <1>1, <2>6
<1>4. QED  BY <1>2, <1>3

LEMMA ReadingSteps ==
    ASSUME ImportInv, NEW r \in Requests,
           Find(r) \/ AssertSchemaReady(r) \/ ListVersions(r) \/ CheckDraft(r)
    PROVE  ImportInv'
<1>1. /\ InFlight(r) /\ UNCHANGED <<db, client>> /\ faults' \in Nat
      /\ loc[r] \in ImportLocal /\ Progress(at[r], loc[r])
  <2>1. InFlight(r) /\ UNCHANGED <<db, client>> /\ (Fault \/ UNCHANGED faults)
    BY DEF Find, AssertSchemaReady, ListVersions, CheckDraft, Step, InFlight
  <2>2. QED  BY <2>1, FaultCounts DEF ImportInv, ImportTypes, RequestsProgress
<1>2. CASE Find(r)
  <2>1. CASE Reply(r, "unknown")
    BY <1>1, <2>1, ReplyStep DEF Outcomes
  <2>2. CASE loc[r].command.token \in ledger /\ Goto(r, "replay", loc[r])
    BY <1>1, <2>2, MoveStep DEF Progress, MayRefuse, Point
  <2>3. CASE loc[r].command.token \notin ledger /\ Goto(r, "schema", loc[r])
    BY <1>1, <2>3, MoveStep DEF Progress, MayRefuse, Point
  <2>4. QED  BY <1>2, <2>1, <2>2, <2>3 DEF Find
<1>3. CASE AssertSchemaReady(r)
  <2>1. loc[r].alone => loc[r].command.token \notin ledger
    BY <1>1, <1>3 DEF AssertSchemaReady, Step, Progress, MayRefuse
  <2>2. CASE Reply(r, "refused")
    BY <1>1, <2>1, <2>2, ReplyStep DEF Outcomes
  <2>3. ASSUME NEW p \in {"list", "check"}, Goto(r, p, [loc[r] EXCEPT !.no = 1]),
               p = "list" => loc[r].command.source = Source
        PROVE  ImportInv'
    <3> DEFINE m == [loc[r] EXCEPT !.no = 1]
    <3>1. /\ m \in ImportLocal /\ m.command = loc[r].command /\ m.mount = loc[r].mount
          /\ m.alone = loc[r].alone /\ m.no = 1
      BY <1>1 DEF ImportLocal
    <3>2. Goto(r, p, m)
      BY <2>3
    <3> HIDE DEF m
    <3>3. Progress(p, m)
      BY <2>1, <2>3, <3>1 DEF Progress, MayRefuse
    <3>4. QED  BY <1>1, <3>1, <3>2, <3>3, ServeStep DEF Point
  <2>4. QED  BY <1>3, <2>2, <2>3 DEF AssertSchemaReady
<1>4. CASE ListVersions(r)
  <2>1. loc[r].alone => loc[r].command.token \notin ledger
    BY <1>1, <1>4 DEF ListVersions, Step, Progress, MayRefuse
  <2>2. CASE Reply(r, "refused")
    BY <1>1, <2>1, <2>2, ReplyStep DEF Outcomes
  <2>3. CASE Goto(r, "check", [loc[r] EXCEPT !.no = NextNo(Source)])
    <3>1. PICK n \in Nat : /\ NextNo(Source) = n + 1
                           /\ {v.no : v \in VersionsOf(Source)} = 1 .. n
      BY NextNoIsNext
    <3> DEFINE m == [loc[r] EXCEPT !.no = n + 1]
    <3>2. /\ m \in ImportLocal /\ m.command = loc[r].command /\ m.mount = loc[r].mount
          /\ m.alone = loc[r].alone /\ m.no = n + 1
      BY <1>1 DEF ImportLocal
    <3>3. Goto(r, "check", m)
      BY <2>3, <3>1
    <3> HIDE DEF m
    <3>4. \A k \in 1 .. n : IsNumbered(Source, k)
      BY <3>1 DEF IsNumbered, VersionsOf
    <3>5. loc[r].command.source = Source
      BY <1>1, <1>4 DEF ListVersions, Step, Progress
    <3>6. Progress("check", m)
      BY <2>1, <3>2, <3>4, <3>5 DEF Progress, MayRefuse
    <3>7. QED  BY <1>1, <3>2, <3>3, <3>6, ServeStep DEF Point
  <2>4. QED  BY <1>4, <2>2, <2>3 DEF ListVersions
<1>5. CASE CheckDraft(r)
  <2>1. ASSUME NEW p \in {"find_again", "insert"}, Goto(r, p, loc[r])
        PROVE  ImportInv'
    <3>1. Progress(p, loc[r])
      BY <1>1, <1>5 DEF CheckDraft, Step, Progress, MayRefuse
    <3>2. QED  BY <1>1, <2>1, <3>1, MoveStep DEF Point
  <2>2. QED  BY <1>5, <2>1 DEF CheckDraft
<1>6. QED  BY <1>2, <1>3, <1>4, <1>5

LEMMA RecoveringSteps ==
    ASSUME ImportInv, NEW r \in Requests,
           RereadVersion(r) \/ FindAgain(r) \/ ListAgain(r) \/ ReplayImport(r)
    PROVE  ImportInv'
<1>1. /\ InFlight(r) /\ UNCHANGED <<db, client>> /\ faults' \in Nat
      /\ loc[r] \in ImportLocal /\ Progress(at[r], loc[r]) /\ IsKnown(loc[r].command)
  <2>1. InFlight(r) /\ UNCHANGED <<db, client>> /\ (Fault \/ UNCHANGED faults)
    BY DEF RereadVersion, FindAgain, ListAgain, ReplayImport, Step, InFlight
  <2>2. QED  BY <2>1, FaultCounts DEF ImportInv, ImportTypes, RequestsProgress
<1>2. CASE Reply(r, "unknown")
  BY <1>1, <1>2, ReplyStep DEF Outcomes
<1>3. CASE Goto(r, "find_again", loc[r])
  BY <1>1, <1>3, MoveStep DEF Progress, MayRefuse, Point
<1>4. CASE RereadVersion(r) /\ Reply(r, "imported")
  BY <1>1, <1>4, ReplyStep DEF Outcomes, RereadVersion, Step, Progress
<1>5. CASE FindAgain(r) /\ ~Reply(r, "unknown")
  <2>1. CASE IsCommitted(r) /\ Goto(r, "replay", loc[r])
    BY <1>1, <2>1, MoveStep DEF Progress, MayRefuse, Point
  <2>2. CASE ~IsCommitted(r) /\ Goto(r, "list_again", loc[r])
    BY <1>1, <2>2, MoveStep DEF Progress, MayRefuse, Point, IsCommitted
  <2>3. CASE ~IsCommitted(r) /\ Reply(r, "refused")
    BY <1>1, <2>3, ReplyStep DEF Outcomes, IsCommitted
  <2>4. QED  BY <1>5, <2>1, <2>2, <2>3 DEF FindAgain
<1>6. CASE ListAgain(r)
  BY <1>1, <1>6, ReplyStep DEF ListAgain, Step, Progress, MayRefuse, Outcomes
<1>7. CASE /\ Own(r) # {}
           /\ Goto(r, "reply", [loc[r] EXCEPT !.outcome = "imported", !.no = Recorded(r)])
  <2>1. PICK v \in versions : v.token = loc[r].command.token
    BY <1>7 DEF Own
  <2>2. v.token # NoToken /\ v.no \in Nat
    BY <1>1, <2>1, CommandFacts DEF IsKnown, ImportInv, ImportTypes, Version
  <2>3. \A w \in versions : w.token = loc[r].command.token <=> w = v
    BY <2>1, <2>2 DEF ImportInv, VersionsAreKeyed
  <2>4. Recorded(r) = v.no
    BY <2>1, <2>3 DEF Recorded
  <2> DEFINE m == [loc[r] EXCEPT !.outcome = "imported", !.no = v.no]
  <2>5. /\ m \in ImportLocal /\ m.command = loc[r].command /\ m.mount = loc[r].mount
        /\ m.alone = loc[r].alone /\ m.no = v.no /\ m.outcome = "imported"
    BY <1>1, <2>2 DEF ImportLocal, Outcomes
  <2>6. Goto(r, "reply", m)
    BY <1>7, <2>4
  <2> HIDE DEF m
  <2>7. Progress("reply", m)
    BY <2>1, <2>5 DEF Progress, MayRefuse, IsImported
  <2>8. "reply" \in Point \ {"idle"}
    BY DEF Point
  <2>9. QED  BY <1>1, <2>5, <2>6, <2>7, <2>8, ServeStep
<1>8. QED
  BY <1>2, <1>3, <1>4, <1>5, <1>6, <1>7 DEF RereadVersion, ReplayImport

-----------------------------------------------------------------------------
(* The batch that imports.                                                 *)

(* A version added with the next number of its source keeps the keys.      *)
LEMMA AddedVersionIsKeyed ==
    ASSUME VersionsAreKeyed, versions \subseteq Version, NEW u \in Version,
           ~HasDraft(u.source), u.source \in Tokens \cup {Source},
           NEW n \in Nat, {v.no : v \in VersionsOf(u.source)} = 1 .. n, u.no = n + 1,
           versions' = versions \cup {u},
           \/ u.token = NoToken /\ ledger' = ledger
           \/ u.token # NoToken /\ u.token \notin ledger /\ ledger' = ledger \cup {u.token}
    PROVE  VersionsAreKeyed'
<1>1. \A v \in VersionsOf(u.source) : v.no \in 1 .. n
  OBVIOUS
<1>2. \A v \in versions : v.source = u.source => v.no < u.no /\ v.status # "draft"
  BY <1>1 DEF VersionsOf, HasDraft
<1>3. \A v, w \in versions' : v.source = w.source /\ v.no = w.no => v = w
  BY <1>2 DEF VersionsAreKeyed
<1>4. \A v, w \in versions' : v.token = w.token /\ v.token # NoToken => v = w
  BY DEF VersionsAreKeyed
<1>5. /\ \A v \in versions' : v.token # NoToken => v.token \in ledger'
      /\ \A t \in ledger' : \E v \in versions' : v.token = t
  BY DEF VersionsAreKeyed
<1>6. ASSUME NEW s \in Tokens \cup {Source}
      PROVE  \E k \in Nat : {v.no : v \in VersionsOf(s)'} = 1 .. k
  <2>1. CASE s = u.source
    <3>1. VersionsOf(s)' = VersionsOf(s) \cup {u}
      BY <2>1 DEF VersionsOf
    <3>2. {v.no : v \in VersionsOf(s)'} = {v.no : v \in VersionsOf(s)} \cup {n + 1}
      BY <3>1
    <3>3. {v.no : v \in VersionsOf(s)'} = 1 .. n + 1
      BY <2>1, <3>2
    <3>4. QED  BY <3>3
  <2>2. CASE s # u.source
    <3>1. VersionsOf(s)' = VersionsOf(s)
      BY <2>2 DEF VersionsOf
    <3>2. QED  BY <3>1 DEF VersionsAreKeyed
  <2>3. QED  BY <2>1, <2>2
<1>7. \A v, w \in versions' : v.source = w.source /\ v.status = "draft" => w.no <= v.no
  <2>1. u.no \in Nat /\ \A v \in versions : v.no \in Nat
    BY DEF Version
  <2>2. QED  BY <1>2, <2>1 DEF VersionsAreKeyed
<1>8. QED  BY <1>3, <1>4, <1>5, <1>6, <1>7 DEF VersionsAreKeyed

LEMMA InsertStep ==
    ASSUME ImportInv, NEW r \in Requests, InsertVersion(r)
    PROVE  ImportInv'
<1> DEFINE c == loc[r].command
<1>1. /\ InFlight(r) /\ at[r] = "insert" /\ UNCHANGED client /\ faults' \in Nat
      /\ loc[r] \in ImportLocal /\ Progress(at[r], loc[r]) /\ IsKnown(c)
  <2>1. InFlight(r) /\ UNCHANGED client /\ at[r] = "insert" /\ (Fault \/ UNCHANGED faults)
    BY DEF InsertVersion, InFlight
  <2>2. QED  BY <2>1, FaultCounts DEF ImportInv, ImportTypes, RequestsProgress
<1>2. CASE UNCHANGED db /\ Goto(r, "find_again", loc[r])
  BY <1>1, <1>2, MoveStep DEF Progress, MayRefuse, Point
<1>3. ASSUME NEW p \in {"reread", "find_again"}, Goto(r, p, loc[r]),
             MayInsert(c, loc[r].no),
             versions' = versions \cup {Imported(c, loc[r].no)},
             ledger' = ledger \cup {c.token}
      PROVE  ImportInv'
  <2> DEFINE u == Imported(c, loc[r].no)
  <2>1. /\ c \in Command /\ c.token \in used /\ c.token \in Tokens /\ c.token # NoToken
        /\ c.source \in Tokens \cup {Source} /\ loc[r].no \in Nat /\ loc[r].no # 0
        /\ \A k \in 1 .. loc[r].no - 1 : IsNumbered(c.source, k)
    BY <1>1, CommandFacts DEF IsKnown, Progress, ImportLocal
  <2>2. /\ u \in Version /\ u.source = c.source /\ u.no = loc[r].no /\ u.token = c.token
        /\ u.status = "draft"
    BY <2>1 DEF Imported, Version
  <2>3. /\ c.token \notin ledger /\ ~HasDraft(c.source)
        /\ \A v \in VersionsOf(c.source) : v.no # loc[r].no
    BY <1>3 DEF MayInsert
  <2>4. /\ tab' = tab /\ stored' = stored /\ used' = used /\ versions' = versions \cup {u}
        /\ ledger' = ledger \cup {c.token}
    BY <1>1, <1>3 DEF client
  <2>5. /\ at \in [Requests -> Point] /\ loc' = loc
        /\ \A q \in Requests : at'[q] = IF q = r THEN p ELSE at[q]
        /\ at' \in [Requests -> Point]
        /\ \A q \in Requests : InFlight(q)' <=> InFlight(q)
    <3>1. at \in [Requests -> Point] /\ loc \in [Requests -> ImportLocal]
      BY DEF ImportInv, ImportTypes
    <3>2. loc' = loc
      BY <1>3, <3>1 DEF Goto
    <3>3. p \in Point /\ p # "idle"
      BY DEF Point
    <3>4. QED  BY <1>1, <1>3, <3>1, <3>2, <3>3 DEF Goto, InFlight
  <2> HIDE DEF u, c
  <2>6. ImportTypes'
    BY <1>1, <2>1, <2>2, <2>4, <2>5 DEF ImportInv, ImportTypes
  <2>7. VersionsAreKeyed'
    <3>1. PICK n \in Nat : {v.no : v \in VersionsOf(c.source)} = 1 .. n
      BY <2>1 DEF ImportInv, VersionsAreKeyed
    <3>2. u.no \notin 1 .. n
      BY <2>2, <2>3, <3>1
    <3>3. \A k \in 1 .. u.no - 1 : k \in 1 .. n
      <4> TAKE k \in 1 .. u.no - 1
      <4>1. IsNumbered(c.source, k)
        BY <2>1, <2>2
      <4>2. k \in {v.no : v \in VersionsOf(c.source)}
        BY <4>1 DEF IsNumbered, VersionsOf
      <4>3. QED  BY <4>2, <3>1
    <3>4. u.no = n + 1
      <4>1. u.no \in Nat \ {0} /\ u.no > n
        BY <2>1, <2>2, <3>2
      <4>2. u.no - 1 = 0 \/ u.no - 1 \in 1 .. n
        BY <3>3, <4>1
      <4>3. QED  BY <4>1, <4>2
    <3>5. QED
      BY <2>1, <2>2, <2>3, <2>4, <3>1, <3>4, AddedVersionIsKeyed DEF ImportInv, ImportTypes
  <2>8. ASSUME NEW q \in Requests, InFlight(q), q # r
        PROVE  (MayRefuse(at[q], loc[q]) /\ loc[q].alone => loc[q].command.token \notin ledger)'
    <3>1. at'[q] = at[q] /\ loc'[q] = loc[q]
      BY <2>5, <2>8
    <3>2. loc[q].alone => loc[q].command.token # c.token
      BY <1>1, <2>8 DEF ImportInv, AloneIsAlone, c
    <3>3. QED
      BY <2>4, <2>8, <3>1, <3>2 DEF ImportInv, RequestsProgress, Progress, MayRefuse
  <2>9. RequestsProgress'
    <3>1. ASSUME NEW q \in Requests
          PROVE  /\ (~InFlight(q) => loc[q] = Nothing)'
                 /\ (InFlight(q) => IsKnown(loc[q].command) /\ Progress(at[q], loc[q]))'
      <4>1. CASE q = r
        BY <4>1, <1>1, <2>1, <2>2, <2>4, <2>5
           DEF InFlight, IsKnown, Progress, MayRefuse, IsNumbered, IsImported, c
      <4>2. CASE q # r
        <5>1. InFlight(q) =>
                 (MayRefuse(at[q], loc[q]) /\ loc[q].alone => loc[q].command.token \notin ledger)'
          BY <4>2, <2>8
        <5>2. at'[q] = at[q] /\ loc'[q] = loc[q]
          BY <4>2, <2>5
        <5>3. QED
          BY <4>2, <5>1, <5>2, <2>4, <2>5
             DEF ImportInv, RequestsProgress, InFlight, IsKnown, Progress, MayRefuse,
                 IsNumbered, IsImported
      <4>3. QED  BY <4>1, <4>2
    <3>2. QED  BY <3>1 DEF RequestsProgress
  <2>10. AloneIsAlone'
    BY <2>5 DEF ImportInv, AloneIsAlone
  <2>11. OneIsAwaited'
    BY <2>4, <2>5 DEF ImportInv, OneIsAwaited, Awaited
  <2>12. PageFits'
    BY <2>4 DEF ImportInv, PageFits, IsBusy, IsKnown
  <2>13. ToldFits'
    BY <1>1, <2>4, <2>5 DEF ImportInv, ToldFits, IsImported, c
  <2>14. QED  BY <2>6, <2>7, <2>9, <2>10, <2>11, <2>12, <2>13 DEF ImportInv
<1>4. QED  BY <1>2, <1>3 DEF InsertVersion, db

-----------------------------------------------------------------------------
(* A request ends, or goes on without the page.                            *)

LEMMA AnswerStep ==
    ASSUME ImportInv, NEW r \in Requests, InFlight(r), UNCHANGED db, faults' \in Nat,
           NEW o, o = "lost" \/ (at[r] = "reply" /\ o = loc[r].outcome),
           IF loc[r].mount = 0 THEN Nobody ELSE Answer(loc[r], o),
           \/ Goto(r, "idle", Nothing)
           \/ o = "lost" /\ Goto(r, at[r], [loc[r] EXCEPT !.mount = 0])
    PROVE  ImportInv'
<1> DEFINE c == loc[r].command
           isOpen == tab.open /\ loc[r].mount = tab.mount
           m == IF o = "lost" /\ at'[r] = at[r] THEN [loc[r] EXCEPT !.mount = 0] ELSE Nothing
<1>1. /\ at \in [Requests -> Point] /\ loc \in [Requests -> ImportLocal]
      /\ loc[r] \in ImportLocal /\ tab \in ImportTab /\ stored \in Commands
      /\ Progress(at[r], loc[r]) /\ IsKnown(c) /\ tab.mount # 0
  BY DEF ImportInv, ImportTypes, RequestsProgress, OneIsAwaited
<1>2. /\ versions' = versions /\ ledger' = ledger /\ used' = used
  BY DEF db, client, Nobody, Answer
<1>3. /\ loc' \in [Requests -> ImportLocal] /\ at' \in [Requests -> Point]
      /\ \A q \in Requests : q # r => at'[q] = at[q] /\ loc'[q] = loc[q]
      /\ \/ ~InFlight(r)' /\ loc'[r] = Nothing
         \/ /\ at'[r] = at[r] /\ loc'[r].mount = 0 /\ loc'[r].command = c
            /\ loc'[r].alone = loc[r].alone /\ loc'[r].no = loc[r].no
            /\ loc'[r].outcome = loc[r].outcome /\ o = "lost"
  <2>1. CASE Goto(r, "idle", Nothing)
    <3>1. "idle" \in Point
      BY DEF Point
    <3>2. QED  BY <2>1, <3>1, <1>1, NothingIsLocal DEF Goto, InFlight
  <2>2. CASE o = "lost" /\ Goto(r, at[r], [loc[r] EXCEPT !.mount = 0])
    <3> DEFINE l == [loc[r] EXCEPT !.mount = 0]
    <3>1. /\ l \in ImportLocal /\ l.mount = 0 /\ l.command = c /\ l.alone = loc[r].alone
          /\ l.no = loc[r].no /\ l.outcome = loc[r].outcome
      BY <1>1 DEF ImportLocal
    <3> HIDE DEF l
    <3>2. loc' = [loc EXCEPT ![r] = l] /\ at' = [at EXCEPT ![r] = at[r]]
      BY <2>2 DEF Goto, l
    <3>3. QED  BY <2>2, <3>1, <3>2, <1>1 DEF InFlight
  <2>3. QED  BY <2>1, <2>2
<1>4. \A q \in Requests : InFlight(q)' => InFlight(q) /\ loc'[q].command = loc[q].command
                                          /\ loc'[q].alone = loc[q].alone
  BY <1>3 DEF InFlight
<1>5. stored' = stored \/ (stored' = NoCommand /\ IsDefinite(o))
  BY DEF Nobody, Answer, client
<1>6. \/ /\ ~isOpen /\ tab' = tab
      \/ /\ isOpen /\ o = "imported" /\ tab'.state = "success" /\ tab'.no = loc[r].no
         /\ tab'.told = c /\ tab'.pending = NoCommand /\ tab'.waiting = FALSE
         /\ tab'.timer = tab.timer /\ stored' = NoCommand
      \/ /\ isOpen /\ o # "imported" /\ IsDefinite(o) /\ tab'.state = "failure"
         /\ tab'.told = c /\ tab'.pending = NoCommand /\ tab'.waiting = FALSE
         /\ tab'.timer = tab.timer /\ tab'.alone = loc[r].alone /\ stored' = NoCommand
      \/ /\ isOpen /\ ~IsDefinite(o) /\ tab'.state = "confirming"
         /\ tab'.pending = tab.pending /\ tab'.waiting = FALSE
         /\ tab'.timer = tab.visible /\ stored' = stored
  <2>1. CASE loc[r].mount = 0
    BY <2>1, <1>1 DEF Nobody, client
  <2>2. CASE loc[r].mount # 0 /\ ~isOpen
    <3>1. tab' = tab
      BY <2>2 DEF Answer, IsDefinite
    <3>2. QED  BY <2>2, <3>1
  <2>3. CASE loc[r].mount # 0 /\ isOpen /\ o = "imported"
    BY <2>3, <1>1 DEF Answer, IsDefinite, ImportTab
  <2>4. CASE loc[r].mount # 0 /\ isOpen /\ o # "imported" /\ IsDefinite(o)
    BY <2>4, <1>1 DEF Answer, IsDefinite, ImportTab
  <2>5. CASE loc[r].mount # 0 /\ isOpen /\ ~IsDefinite(o)
    BY <2>5, <1>1 DEF Answer, IsDefinite, ImportTab
  <2>6. QED  BY <2>1, <2>2, <2>3, <2>4, <2>5 DEF IsDefinite
<1>7. /\ tab' \in ImportTab /\ tab'.mount = tab.mount /\ tab'.open = tab.open
      /\ tab'.visible = tab.visible
  <2>1. loc[r].no \in Nat /\ c \in Commands /\ loc[r].alone \in BOOLEAN
        /\ NoCommand \in Commands
    BY <1>1 DEF ImportLocal, Commands
  <2>2. CASE tab' = tab
    BY <2>2, <1>1
  <2>3. CASE loc[r].mount # 0 /\ isOpen /\ o = "imported"
    BY <2>1, <2>3, <1>1 DEF Answer, IsDefinite, ImportTab
  <2>4. CASE loc[r].mount # 0 /\ isOpen /\ o # "imported" /\ IsDefinite(o)
    BY <2>1, <2>4, <1>1 DEF Answer, IsDefinite, ImportTab
  <2>5. CASE loc[r].mount # 0 /\ isOpen /\ ~IsDefinite(o)
    BY <2>1, <2>5, <1>1 DEF Answer, IsDefinite, ImportTab
  <2>6. tab' = tab \/ (loc[r].mount # 0 /\ isOpen)
    BY <1>1, <1>6
  <2>7. QED  BY <2>2, <2>3, <2>4, <2>5, <2>6 DEF IsDefinite
<1>8. ImportTypes'
  BY <1>2, <1>3, <1>5, <1>7 DEF ImportInv, ImportTypes, Commands
<1>9. VersionsAreKeyed'
  BY <1>2 DEF ImportInv, VersionsAreKeyed, VersionsOf
<1>10. RequestsProgress'
  <2>1. ASSUME NEW q \in Requests
        PROVE  /\ (~InFlight(q) => loc[q] = Nothing)'
               /\ (InFlight(q) => IsKnown(loc[q].command) /\ Progress(at[q], loc[q]))'
    <3>1. CASE q = r
      BY <3>1, <1>1, <1>2, <1>3
         DEF InFlight, IsKnown, Progress, MayRefuse, IsNumbered, IsImported
    <3>2. CASE q # r
      BY <3>2, <1>2, <1>3
         DEF ImportInv, RequestsProgress, InFlight, IsKnown, Progress, MayRefuse,
             IsNumbered, IsImported
    <3>3. QED  BY <3>1, <3>2
  <2>2. QED  BY <2>1 DEF RequestsProgress
<1>11. AloneIsAlone'
  BY <1>4 DEF ImportInv, AloneIsAlone
<1>12. \A q \in Requests : Awaited(q)' <=> Awaited(q) /\ q # r
  BY <1>1, <1>3, <1>7 DEF Awaited, InFlight
<1>13. isOpen => Awaited(r)
  BY DEF Awaited
<1>14. OneIsAwaited'
  <2>1. tab'.mount # 0 /\ \A q \in Requests : loc'[q].mount <= tab'.mount
    <3>1. Nothing.mount = 0 /\ tab.mount \in Nat
      BY <1>1 DEF Nothing, ImportTab
    <3>2. QED  BY <3>1, <1>1, <1>3, <1>7 DEF ImportInv, OneIsAwaited
  <2>2. \A q, p \in Requests : Awaited(q)' /\ Awaited(p)' => q = p
    BY <1>12 DEF ImportInv, OneIsAwaited
  <2>3. ASSUME NEW q \in Requests, Awaited(q)'
        PROVE  /\ tab'.open => tab'.waiting
               /\ stored' # NoCommand => loc'[q].command = stored'
    <3>1. Awaited(q) /\ q # r /\ ~isOpen /\ tab' = tab
      BY <2>3, <1>6, <1>12, <1>13 DEF ImportInv, OneIsAwaited
    <3>2. QED  BY <2>3, <3>1, <1>3, <1>5 DEF ImportInv, OneIsAwaited
  <2>4. ASSUME tab'.waiting
        PROVE  \E q \in Requests : Awaited(q)'
    <3>1. ~isOpen /\ tab' = tab
      BY <2>4, <1>6
    <3>2. tab.open /\ loc[r].mount # tab.mount
      BY <2>4, <3>1, <1>1 DEF ImportInv, PageFits, IsBusy, ImportTab
    <3>3. PICK q \in Requests : Awaited(q)
      BY <2>4, <3>1 DEF ImportInv, OneIsAwaited
    <3>4. QED  BY <3>2, <3>3, <1>12 DEF Awaited
  <2>5. QED  BY <2>1, <2>2, <2>3, <2>4 DEF OneIsAwaited
<1>15. PageFits'
  <2>1. CASE tab' = tab
    BY <2>1, <1>2, <1>5 DEF ImportInv, PageFits, IsBusy, IsKnown
  <2>2. CASE isOpen /\ tab'.state \in {"success", "failure"}
    <3>1. tab.waiting /\ ~tab.timer
      BY <2>2, <1>13 DEF ImportInv, OneIsAwaited, PageFits
    <3>2. /\ tab'.pending = NoCommand /\ tab'.waiting = FALSE /\ tab'.timer = tab.timer
          /\ stored' = NoCommand
      BY <2>2, <1>6 DEF ImportInv, PageFits
    <3>3. QED  BY <2>2, <3>1, <3>2, <1>7 DEF PageFits, IsBusy
  <2>3. CASE isOpen /\ tab'.state = "confirming" /\ tab'.pending = tab.pending
             /\ tab'.waiting = FALSE /\ tab'.timer = tab.visible /\ stored' = stored
    <3>1. tab.pending # NoCommand
      BY <2>3, <1>13 DEF ImportInv, OneIsAwaited, PageFits
    <3>2. QED  BY <2>3, <3>1, <1>2, <1>7 DEF ImportInv, PageFits, IsBusy, IsKnown
  <2>4. QED  BY <2>1, <2>2, <2>3, <1>6
<1>16. ToldFits'
  <2>1. CASE tab' = tab
    BY <2>1, <1>2, <1>4 DEF ImportInv, ToldFits, IsImported
  <2>2. CASE o = "imported" /\ tab'.state = "success" /\ tab'.no = loc[r].no /\ tab'.told = c
    BY <2>2, <1>1, <1>2 DEF ToldFits, Progress, IsImported
  <2>3. CASE /\ isOpen /\ o # "imported" /\ IsDefinite(o) /\ tab'.state = "failure"
             /\ tab'.told = c /\ tab'.alone = loc[r].alone
    <3>1. at[r] = "reply" /\ loc[r].outcome = "refused" /\ o = "refused"
      BY <2>3 DEF IsDefinite
    <3>2. loc[r].alone => c.token \notin ledger
      BY <3>1, <1>1 DEF Progress, MayRefuse
    <3>3. ~InFlight(r)'
      BY <3>1, <1>3
    <3>4. \A q \in Requests : loc[r].alone /\ InFlight(q)' => loc'[q].command.token # c.token
      BY <3>3, <1>3, <1>4 DEF ImportInv, AloneIsAlone
    <3>5. QED  BY <2>3, <3>2, <3>4, <1>2 DEF ToldFits
  <2>4. CASE tab'.state = "confirming"
    BY <2>4 DEF ToldFits
  <2>5. QED  BY <2>1, <2>2, <2>3, <2>4, <1>6
<1>17. QED  BY <1>8, <1>9, <1>10, <1>11, <1>14, <1>15, <1>16 DEF ImportInv

LEMMA EndSteps ==
    ASSUME ImportInv, NEW r \in Requests, Deliver(r) \/ Lose(r)
    PROVE  ImportInv'
<1>1. CASE Deliver(r)
  <2>1. /\ InFlight(r) /\ at[r] = "reply" /\ UNCHANGED db /\ faults' \in Nat
        /\ Goto(r, "idle", Nothing)
        /\ IF loc[r].mount = 0 THEN Nobody ELSE Answer(loc[r], loc[r].outcome)
    BY <1>1, FaultCounts DEF Deliver, InFlight
  <2>2. QED  BY <2>1, AnswerStep
<1>2. CASE Lose(r)
  <2>1. /\ InFlight(r) /\ UNCHANGED db /\ faults' \in Nat
        /\ IF loc[r].mount = 0 THEN Nobody ELSE Answer(loc[r], "lost")
        /\ \/ Goto(r, "idle", Nothing)
           \/ Goto(r, at[r], [loc[r] EXCEPT !.mount = 0])
    BY <1>2, FaultCounts DEF Lose, InFlight
  <2>2. QED  BY <2>1, AnswerStep
<1>3. QED  BY <1>1, <1>2

-----------------------------------------------------------------------------
(* The page sends a command.                                               *)

LEMMA SendStep ==
    ASSUME ImportInv, UNCHANGED <<db, faults>>, NEW page \in ImportTab, page.open = TRUE,
           NEW c \in Command, c.token \in used', used \subseteq used', used' \subseteq Tokens,
           NEW state \in {"submitting", "confirming"}, Send(page, c, state),
           page.mount >= tab.mount,
           \A q \in Requests : ~(InFlight(q) /\ loc[q].mount = page.mount),
           stored' = c \/ (stored' = stored /\ (stored # NoCommand => stored = c))
    PROVE  ImportInv'
<1>1. /\ at \in [Requests -> Point] /\ loc \in [Requests -> ImportLocal]
      /\ tab \in ImportTab /\ stored \in Commands /\ tab.mount # 0
      /\ page.mount \in Nat /\ tab.mount \in Nat /\ page.mount # 0
  BY DEF ImportInv, ImportTypes, OneIsAwaited, ImportTab
<1>2. /\ versions' = versions /\ ledger' = ledger /\ faults' = faults
  BY DEF db
<1> DEFINE same == {q \in Requests : at[q] # "idle" /\ loc[q].command.token = c.token}
           fresh == [Nothing EXCEPT !.command = c, !.mount = page.mount, !.alone = same = {}]
<1>3. PICK r \in Requests :
        /\ at[r] = "idle"
        /\ at' = [at EXCEPT ![r] = "find"]
        /\ loc' = [q \in Requests |->
                     IF q = r THEN fresh
                     ELSE IF q \in same THEN [loc[q] EXCEPT !.alone = FALSE] ELSE loc[q]]
        /\ tab' = [page EXCEPT !.pending = c, !.state = state, !.waiting = TRUE,
                               !.timer = FALSE, !.told = NoCommand, !.no = 0,
                               !.alone = TRUE]
  BY DEF Send
<1>4. /\ tab' \in ImportTab /\ tab'.mount = page.mount /\ tab'.open = TRUE
      /\ tab'.pending = c /\ tab'.state = state /\ tab'.waiting = TRUE /\ tab'.timer = FALSE
      /\ tab'.visible = page.visible
  BY <1>3 DEF ImportTab, Commands
<1>5. /\ fresh \in ImportLocal /\ fresh.command = c /\ fresh.mount = page.mount
      /\ fresh.alone = (same = {})
  BY <1>1, NothingIsLocal DEF ImportLocal, Commands
<1>6. \A q \in Requests : LET l == [loc[q] EXCEPT !.alone = FALSE] IN
          /\ l \in ImportLocal /\ l.command = loc[q].command /\ l.mount = loc[q].mount
          /\ l.no = loc[q].no /\ l.outcome = loc[q].outcome /\ l.alone = FALSE
  BY <1>1 DEF ImportLocal
<1> HIDE DEF fresh, same
<1>7. /\ at' \in [Requests -> Point] /\ loc' \in [Requests -> ImportLocal]
      /\ at'[r] = "find" /\ loc'[r] = fresh
      /\ \A q \in Requests : q # r =>
            /\ at'[q] = at[q] /\ loc'[q].command = loc[q].command
            /\ loc'[q].mount = loc[q].mount /\ loc'[q].no = loc[q].no
            /\ loc'[q].outcome = loc[q].outcome
            /\ loc'[q] = loc[q] \/ loc'[q].alone = FALSE
            /\ q \in same => loc'[q].alone = FALSE
            /\ q \notin same => loc'[q] = loc[q]
  BY <1>1, <1>3, <1>5, <1>6 DEF Point
<1>8. ImportTypes'
  BY <1>1, <1>2, <1>4, <1>7 DEF ImportInv, ImportTypes, Commands
<1>9. VersionsAreKeyed'
  BY <1>2 DEF ImportInv, VersionsAreKeyed, VersionsOf
<1>10. RequestsProgress'
  <2>1. ASSUME NEW q \in Requests
        PROVE  /\ (~InFlight(q) => loc[q] = Nothing)'
               /\ (InFlight(q) => IsKnown(loc[q].command) /\ Progress(at[q], loc[q]))'
    <3>1. CASE q = r
      BY <3>1, <1>5, <1>7 DEF InFlight, IsKnown, Progress, MayRefuse
    <3>2. CASE q # r
      <4>1. ~InFlight(q) => q \notin same
        BY DEF InFlight, same
      <4>2. QED
        BY <3>2, <4>1, <1>2, <1>7
           DEF ImportInv, RequestsProgress, InFlight, IsKnown, Progress, MayRefuse,
               IsNumbered, IsImported
    <3>3. QED  BY <3>1, <3>2
  <2>2. QED  BY <2>1 DEF RequestsProgress
<1>11. AloneIsAlone'
  <2> SUFFICES ASSUME NEW p \in Requests, NEW q \in Requests, InFlight(p)', InFlight(q)',
                      p # q, loc'[q].alone
               PROVE  loc'[p].command.token # loc'[q].command.token
    BY DEF AloneIsAlone
  <2>1. CASE q = r
    <3>1. p \notin same /\ InFlight(p) /\ loc'[p].command = loc[p].command
      BY <2>1, <1>5, <1>7 DEF InFlight
    <3>2. QED  BY <2>1, <3>1, <1>5, <1>7 DEF same, InFlight
  <2>2. CASE p = r
    <3>1. q \notin same /\ InFlight(q) /\ loc'[q].command = loc[q].command
      BY <2>2, <1>7 DEF InFlight
    <3>2. QED  BY <2>2, <3>1, <1>5, <1>7 DEF same, InFlight
  <2>3. CASE p # r /\ q # r
    BY <2>3, <1>7 DEF ImportInv, AloneIsAlone, InFlight
  <2>4. QED  BY <2>1, <2>2, <2>3
<1>12. \A q \in Requests : Awaited(q)' <=> q = r
  BY <1>4, <1>5, <1>7 DEF Awaited, InFlight
<1>13. OneIsAwaited'
  <2>1. \A q \in Requests : loc'[q].mount <= tab'.mount
    <3>1. \A q \in Requests : loc[q].mount \in Nat
      BY <1>1 DEF ImportLocal
    <3>2. QED  BY <3>1, <1>1, <1>4, <1>5, <1>7 DEF ImportInv, OneIsAwaited
  <2>2. stored' # NoCommand => stored' = c
    OBVIOUS
  <2>3. QED  BY <2>1, <2>2, <1>1, <1>4, <1>5, <1>7, <1>12 DEF OneIsAwaited
<1>14. PageFits'
  BY <1>4, CommandFacts DEF ImportInv, PageFits, IsBusy, IsKnown
<1>15. ToldFits'
  BY <1>4 DEF ToldFits
<1>16. QED  BY <1>8, <1>9, <1>10, <1>11, <1>13, <1>14, <1>15 DEF ImportInv

LEMMA SubmitStep ==
    ASSUME ImportInv, Submit
    PROVE  ImportInv'
<1>1. PICK t \in Tokens \ used, s \in {"new_source", "next_version"} :
        LET c == [token |-> t, source |-> IF s = "new_source" THEN t ELSE Source] IN
        /\ used' = used \cup {t}
        /\ \/ Send(tab, c, "submitting") /\ Store(c)
           \/ /\ tab' = [tab EXCEPT !.state = "failure", !.told = NoCommand, !.no = 0]
              /\ UNCHANGED <<stored, at, loc>>
  BY DEF Submit
<1>2. /\ tab.open /\ ~IsBusy /\ UNCHANGED <<db, faults>> /\ tab \in ImportTab
      /\ tab.mount \in Nat /\ tab.open = TRUE
  BY DEF Submit, ImportInv, ImportTypes, ImportTab
<1> DEFINE c == [token |-> t, source |-> IF s = "new_source" THEN t ELSE Source]
<1>3. c \in Command /\ c.token = t
  BY DEF Command
<1>4. used \subseteq used' /\ used' \subseteq Tokens /\ t \in used'
  BY <1>1 DEF ImportInv, ImportTypes
<1>5. CASE Send(tab, c, "submitting") /\ Store(c)
  <2>1. stored' = c
    BY <1>5 DEF Store
  <2>2. ~tab.waiting
    BY <1>2 DEF ImportInv, PageFits
  <2>3. \A q \in Requests : ~(InFlight(q) /\ loc[q].mount = tab.mount)
    BY <1>2, <2>2 DEF ImportInv, OneIsAwaited, Awaited
  <2>4. PICK page, d : page = tab /\ d = c
    OBVIOUS
  <2>5. /\ Send(page, d, "submitting") /\ page \in ImportTab /\ page.open = TRUE
        /\ page.mount >= tab.mount /\ d \in Command /\ d.token \in used' /\ stored' = d
    <3>1. tab.mount >= tab.mount
      BY <1>2
    <3> HIDE DEF c
    <3>2. QED  BY <1>2, <1>3, <1>4, <1>5, <2>1, <2>4, <3>1
  <2>6. \A q \in Requests : ~(InFlight(q) /\ loc[q].mount = page.mount)
    BY <2>3, <2>4
  <2>7. QED  BY <1>2, <1>4, <2>5, <2>6, SendStep
<1>6. CASE /\ tab' = [tab EXCEPT !.state = "failure", !.told = NoCommand, !.no = 0]
           /\ UNCHANGED <<stored, at, loc>>
  <2>1. /\ tab' \in ImportTab /\ tab'.mount = tab.mount /\ tab'.open = tab.open
        /\ tab'.state = "failure" /\ tab'.told = NoCommand /\ tab'.pending = tab.pending
        /\ tab'.waiting = tab.waiting /\ tab'.timer = tab.timer /\ tab'.visible = tab.visible
    BY <1>2, <1>6 DEF ImportTab, Commands
  <2>2. UNCHANGED <<versions, ledger, stored, at, loc, faults>>
    BY <1>2, <1>6 DEF db
  <2>3. ImportTypes'
    BY <1>4, <2>1, <2>2 DEF ImportInv, ImportTypes
  <2>4. VersionsAreKeyed'
    BY <2>2 DEF ImportInv, VersionsAreKeyed, VersionsOf
  <2>5. RequestsProgress' /\ AloneIsAlone'
    BY <1>4, <2>2 DEF ImportInv, RequestsProgress, AloneIsAlone, InFlight, IsKnown, Progress,
          MayRefuse, IsNumbered, IsImported
  <2>6. OneIsAwaited'
    BY <2>1, <2>2 DEF ImportInv, OneIsAwaited, Awaited, InFlight
  <2>7. PageFits'
    BY <1>2, <1>4, <2>1, <2>2 DEF ImportInv, PageFits, IsBusy, IsKnown
  <2>8. ToldFits'
    <3>1. NoCommand.token \notin ledger
      BY CommandFacts DEF ImportInv, ImportTypes
    <3>2. \A r \in Requests : InFlight(r) => loc[r].command.token # NoCommand.token
      BY CommandFacts DEF ImportInv, RequestsProgress, IsKnown
    <3>3. QED  BY <3>1, <3>2, <2>1, <2>2 DEF ToldFits, InFlight
  <2>9. QED  BY <2>3, <2>4, <2>5, <2>6, <2>7, <2>8 DEF ImportInv
<1>7. QED  BY <1>1, <1>5, <1>6

LEMMA ConfirmStep ==
    ASSUME ImportInv, Confirm
    PROVE  ImportInv'
<1>1. /\ tab.open /\ tab.timer /\ ~tab.waiting /\ Send(tab, tab.pending, "confirming")
      /\ UNCHANGED <<db, faults>> /\ stored' = stored /\ used' = used
      /\ tab \in ImportTab /\ tab.mount \in Nat /\ tab.open = TRUE
  BY DEF Confirm, ImportInv, ImportTypes, ImportTab
<1>2. /\ tab.pending \in Command /\ tab.pending.token \in used /\ used \subseteq Tokens
      /\ stored # NoCommand => stored = tab.pending
  BY <1>1 DEF ImportInv, ImportTypes, PageFits, IsKnown
<1>3. \A q \in Requests : ~(InFlight(q) /\ loc[q].mount = tab.mount)
  BY <1>1 DEF ImportInv, OneIsAwaited, Awaited
<1>4. PICK page, c : page = tab /\ c = tab.pending
  OBVIOUS
<1>5. tab.mount >= tab.mount
  BY <1>1
<1>6. Send(page, c, "confirming") /\ page \in ImportTab /\ page.open = TRUE /\ c \in Command
  BY <1>1, <1>2, <1>4
<1>7. c.token \in used' /\ used \subseteq used' /\ used' \subseteq Tokens
      /\ page.mount >= tab.mount /\ (stored # NoCommand => stored = c)
  BY <1>1, <1>2, <1>4, <1>5
<1>8. \A q \in Requests : ~(InFlight(q) /\ loc[q].mount = page.mount)
  BY <1>3, <1>4
<1>9. QED  BY <1>1, <1>6, <1>7, <1>8, SendStep

-----------------------------------------------------------------------------
(* The page is hidden, shown, left and returned to.                        *)

(* The invariant holds of a page that only changes what it shows.          *)
LEMMA PageStep ==
    ASSUME ImportInv, UNCHANGED <<db, at, loc, stored, used, faults>>,
           tab' \in ImportTab, OneIsAwaited', PageFits', ToldFits'
    PROVE  ImportInv'
<1>1. UNCHANGED <<versions, ledger, at, loc, stored, used, faults>>
  BY DEF db
<1>2. ImportTypes' /\ VersionsAreKeyed'
  BY <1>1 DEF ImportInv, ImportTypes, VersionsAreKeyed, VersionsOf
<1>3. RequestsProgress' /\ AloneIsAlone'
  BY <1>1 DEF ImportInv, RequestsProgress, AloneIsAlone, InFlight, IsKnown, Progress,
              MayRefuse, IsNumbered, IsImported
<1>4. QED  BY <1>2, <1>3 DEF ImportInv

LEMMA LookStep ==
    ASSUME ImportInv, Hide \/ Show
    PROVE  ImportInv'
<1>1. UNCHANGED <<db, at, loc, stored, used, faults>> /\ tab \in ImportTab /\ tab.open
  BY DEF Hide, Show, ImportInv, ImportTypes
<1>2. /\ tab' \in ImportTab /\ tab'.mount = tab.mount /\ tab'.open = tab.open
      /\ tab'.state = tab.state /\ tab'.pending = tab.pending /\ tab'.waiting = tab.waiting
      /\ tab'.told = tab.told /\ tab'.no = tab.no /\ tab'.alone = tab.alone
      /\ \/ tab'.visible = FALSE /\ tab'.timer = FALSE
         \/ /\ tab'.visible = TRUE
            /\ tab'.timer = (tab.state = "confirming" /\ ~tab.waiting)
  <2>1. CASE Hide
    BY <1>1, <2>1 DEF Hide, ImportTab
  <2>2. CASE Show
    BY <1>1, <2>2 DEF Show, ImportTab
  <2>3. QED  BY <2>1, <2>2
<1>3. UNCHANGED <<versions, ledger, at, loc, stored, used>>
  BY <1>1 DEF db
<1>4. OneIsAwaited'
  BY <1>2, <1>3 DEF ImportInv, OneIsAwaited, Awaited, InFlight
<1>5. PageFits'
  BY <1>1, <1>2, <1>3 DEF ImportInv, PageFits, IsBusy, IsKnown
<1>6. ToldFits'
  BY <1>2, <1>3 DEF ImportInv, ToldFits, IsImported, InFlight
<1>7. QED  BY <1>1, <1>2, <1>4, <1>5, <1>6, PageStep

LEMMA ClosedFields ==
    ASSUME ImportTypes, tab' = [Closed EXCEPT !.mount = tab.mount, !.visible = tab.visible]
    PROVE  /\ tab' \in ImportTab /\ tab'.mount = tab.mount /\ tab'.open = FALSE
           /\ tab'.visible = tab.visible /\ tab'.state = "idle" /\ tab'.pending = NoCommand
           /\ tab'.waiting = FALSE /\ tab'.timer = FALSE
<1>1. tab.mount \in Nat /\ tab.visible \in BOOLEAN
  BY DEF ImportTypes, ImportTab
<1>2. /\ Closed.open = FALSE /\ Closed.state = "idle" /\ Closed.pending = NoCommand
      /\ Closed.waiting = FALSE /\ Closed.timer = FALSE
  BY DEF Closed
<1>3. QED  BY <1>1, <1>2, ClosedIsTab DEF ImportTab

LEMMA LeaveStep ==
    ASSUME ImportInv, Leave
    PROVE  ImportInv'
<1>1. UNCHANGED <<db, at, loc, stored, used, faults>>
  BY DEF Leave
<1>2. /\ tab' \in ImportTab /\ tab'.mount = tab.mount /\ tab'.open = FALSE
      /\ tab'.visible = tab.visible /\ tab'.state = "idle" /\ tab'.pending = NoCommand
      /\ tab'.waiting = FALSE /\ tab'.timer = FALSE
  BY ClosedFields DEF Leave, ImportInv
<1>3. UNCHANGED <<versions, ledger, at, loc, stored, used>>
  BY <1>1 DEF db
<1>4. OneIsAwaited'
  BY <1>2, <1>3 DEF ImportInv, OneIsAwaited, Awaited, InFlight
<1>5. PageFits' /\ ToldFits'
  BY <1>2, <1>3 DEF ImportInv, PageFits, IsBusy, IsKnown, ToldFits
<1>6. QED  BY <1>1, <1>2, <1>4, <1>5, PageStep

LEMMA ReloadStep ==
    ASSUME ImportInv, Reload
    PROVE  ImportInv'
<1>1. /\ UNCHANGED <<versions, ledger, at, stored, used, faults>>
      /\ loc' = [r \in Requests |-> [loc[r] EXCEPT !.mount = 0]]
  BY DEF Reload, db
<1>2. /\ tab' \in ImportTab /\ tab'.mount = tab.mount /\ tab'.open = FALSE
      /\ tab'.visible = tab.visible /\ tab'.state = "idle" /\ tab'.pending = NoCommand
      /\ tab'.waiting = FALSE /\ tab'.timer = FALSE
  BY ClosedFields DEF Reload, ImportInv
<1>3. loc \in [Requests -> ImportLocal] /\ tab.mount # 0 /\ tab.mount \in Nat
  BY DEF ImportInv, ImportTypes, OneIsAwaited, ImportTab
<1>4. \A r \in Requests : LET l == [loc[r] EXCEPT !.mount = 0] IN
          /\ l \in ImportLocal /\ l.command = loc[r].command /\ l.mount = 0
          /\ l.no = loc[r].no /\ l.outcome = loc[r].outcome /\ l.alone = loc[r].alone
          /\ loc[r] = Nothing => l = Nothing
  <2> TAKE r \in Requests
  <2>1. loc[r] \in ImportLocal
    BY <1>3
  <2>2. loc[r].mount = 0 => [loc[r] EXCEPT !.mount = 0] = loc[r]
    BY <2>1 DEF ImportLocal
  <2>3. Nothing.mount = 0
    BY DEF Nothing
  <2>4. QED  BY <2>1, <2>2, <2>3 DEF ImportLocal
<1>5. /\ loc' \in [Requests -> ImportLocal]
      /\ \A r \in Requests :
            /\ loc'[r].command = loc[r].command /\ loc'[r].mount = 0
            /\ loc'[r].no = loc[r].no /\ loc'[r].outcome = loc[r].outcome
            /\ loc'[r].alone = loc[r].alone /\ (loc[r] = Nothing => loc'[r] = Nothing)
  BY <1>1, <1>4
<1>6. ImportTypes' /\ VersionsAreKeyed'
  BY <1>1, <1>2, <1>5 DEF ImportInv, ImportTypes, VersionsAreKeyed, VersionsOf
<1>7. RequestsProgress' /\ AloneIsAlone'
  <2>1. ASSUME NEW q \in Requests
        PROVE  /\ (~InFlight(q) => loc[q] = Nothing)'
               /\ (InFlight(q) => IsKnown(loc[q].command) /\ Progress(at[q], loc[q]))'
    BY <1>1, <1>5 DEF ImportInv, RequestsProgress, InFlight, IsKnown, Progress, MayRefuse,
                IsNumbered, IsImported
  <2>2. RequestsProgress'
    BY <2>1 DEF RequestsProgress
  <2>3. AloneIsAlone'
    BY <1>1, <1>5 DEF ImportInv, AloneIsAlone, InFlight
  <2>4. QED  BY <2>2, <2>3
<1>8. OneIsAwaited'
  BY <1>2, <1>3, <1>5 DEF OneIsAwaited, Awaited
<1>9. PageFits' /\ ToldFits'
  BY <1>1, <1>2 DEF ImportInv, PageFits, IsBusy, IsKnown, ToldFits
<1>10. QED  BY <1>6, <1>7, <1>8, <1>9 DEF ImportInv

LEMMA ReturnStep ==
    ASSUME ImportInv, Return
    PROVE  ImportInv'
<1> DEFINE page == [tab EXCEPT !.open = TRUE, !.mount = @ + 1, !.pending = Restored]
<1>1. /\ ~tab.open /\ UNCHANGED <<db, stored, used, faults>> /\ tab \in ImportTab
      /\ stored \in Commands
      /\ IF stored = NoCommand
         THEN tab' = page /\ UNCHANGED <<at, loc>>
         ELSE IF tab.visible THEN Send(page, stored, "confirming")
         ELSE tab' = [page EXCEPT !.state = "confirming"] /\ UNCHANGED <<at, loc>>
  BY DEF Return, Restored, ImportInv, ImportTypes
<1>2. /\ tab.state = "idle" /\ tab.pending = NoCommand /\ ~tab.waiting /\ ~tab.timer
      /\ stored # NoCommand => stored \in Command /\ stored.token \in used
      /\ used \subseteq Tokens /\ tab.mount \in Nat
  BY <1>1 DEF ImportInv, ImportTypes, PageFits, IsBusy, IsKnown, ImportTab
<1>3. /\ page \in ImportTab /\ page.mount = tab.mount + 1 /\ page.open = TRUE
      /\ page.pending = stored /\ page.state = "idle" /\ page.waiting = tab.waiting
      /\ page.timer = tab.timer /\ page.visible = tab.visible
  <2>1. page = [tab EXCEPT !.open = TRUE, !.mount = tab.mount + 1, !.pending = stored]
    BY <1>1 DEF Restored, ImportTab
  <2>2. tab.mount + 1 \in Nat
    BY <1>2
  <2> HIDE DEF page
  <2>3. QED  BY <2>1, <2>2, <1>1, <1>2 DEF ImportTab
<1>4. [page EXCEPT !.state = "confirming"] \in ImportTab
      /\ LET p == [page EXCEPT !.state = "confirming"] IN
         /\ p.mount = page.mount /\ p.open = page.open /\ p.pending = page.pending
         /\ p.state = "confirming" /\ p.waiting = page.waiting /\ p.timer = page.timer
         /\ p.visible = page.visible
  BY <1>3 DEF ImportTab
<1> HIDE DEF page
<1>5. \A q \in Requests : ~(InFlight(q) /\ loc[q].mount = page.mount)
  <2>1. \A q \in Requests : loc[q].mount \in Nat /\ loc[q].mount <= tab.mount
    BY DEF ImportInv, ImportTypes, OneIsAwaited, ImportLocal
  <2>2. QED  BY <2>1, <1>2, <1>3
<1>6. CASE stored # NoCommand /\ tab.visible
  <2>1. PICK d, c : d = page /\ c = stored
    OBVIOUS
  <2>2. /\ Send(d, c, "confirming") /\ d \in ImportTab /\ d.open = TRUE
        /\ d.mount >= tab.mount /\ c \in Command /\ c.token \in used' /\ stored' = stored
        /\ (stored # NoCommand => stored = c) /\ used \subseteq used' /\ used' \subseteq Tokens
    BY <2>1, <1>1, <1>2, <1>3, <1>6
  <2>3. \A q \in Requests : ~(InFlight(q) /\ loc[q].mount = d.mount)
    BY <2>1, <1>5
  <2>4. QED  BY <1>1, <2>2, <2>3, SendStep
<1>7. CASE ~(stored # NoCommand /\ tab.visible)
  <2>1. /\ UNCHANGED <<db, at, loc, stored, used, faults>>
        /\ tab' \in ImportTab /\ tab'.mount = page.mount /\ tab'.open = TRUE
        /\ tab'.pending = stored /\ tab'.waiting = FALSE /\ tab'.timer = FALSE
        /\ tab'.visible = tab.visible
        /\ tab'.state = IF stored = NoCommand THEN "idle" ELSE "confirming"
    <3>1. tab.waiting = FALSE /\ tab.timer = FALSE
      BY <1>1, <1>2 DEF ImportTab
    <3>2. QED  BY <3>1, <1>1, <1>3, <1>4, <1>7
  <2>2. UNCHANGED <<versions, ledger, at, loc, stored, used>>
    BY <2>1 DEF db
  <2>3. OneIsAwaited'
    <3>1. \A q \in Requests : ~Awaited(q)'
      BY <2>1, <2>2, <1>5 DEF Awaited, InFlight
    <3>2. tab'.mount # 0 /\ \A q \in Requests : loc'[q].mount <= tab'.mount
      <4>1. \A q \in Requests : loc[q].mount \in Nat /\ loc[q].mount <= tab.mount
        BY DEF ImportInv, ImportTypes, OneIsAwaited, ImportLocal
      <4>2. QED  BY <4>1, <2>1, <2>2, <1>2, <1>3
    <3>3. QED  BY <3>1, <3>2, <2>1 DEF OneIsAwaited
  <2>4. PageFits' /\ ToldFits'
    BY <1>1, <1>2, <1>7, <2>1, <2>2, CommandFacts DEF PageFits, IsBusy, IsKnown, ToldFits
  <2>5. QED  BY <2>1, <2>3, <2>4, PageStep
<1>8. QED  BY <1>6, <1>7

-----------------------------------------------------------------------------
(* Other administrators.                                                   *)

LEMMA OthersStep ==
    ASSUME ImportInv, Others
    PROVE  ImportInv'
<1>1. UNCHANGED <<ledger, at, loc, tab, stored, used, faults>>
  BY DEF Others, client
<1>2. /\ VersionsAreKeyed' /\ versions' \subseteq Version
      /\ \A v \in versions : \E w \in versions' :
            w.source = v.source /\ w.no = v.no /\ w.token = v.token
  <2>1. CASE /\ ~HasDraft(Source) /\ NextNo(Source) <= MaxVersions
             /\ versions' = versions \cup {[source |-> Source, no |-> NextNo(Source),
                                            token |-> NoToken, status |-> "draft"]}
    <3>1. PICK n \in Nat : /\ NextNo(Source) = n + 1
                           /\ {v.no : v \in VersionsOf(Source)} = 1 .. n
      BY NextNoIsNext
    <3>2. PICK u : u = [source |-> Source, no |-> n + 1, token |-> NoToken,
                        status |-> "draft"]
      OBVIOUS
    <3>3. u \in Version /\ u.source = Source /\ u.no = n + 1 /\ u.token = NoToken
      BY <3>2 DEF Version
    <3>4. versions' = versions \cup {u} /\ versions \subseteq Version
      BY <2>1, <3>1, <3>2 DEF ImportInv, ImportTypes
    <3>5. VersionsAreKeyed'
      BY <2>1, <3>1, <3>3, <3>4, <1>1, AddedVersionIsKeyed DEF ImportInv
    <3>6. QED  BY <3>3, <3>4, <3>5
  <2>2. ASSUME NEW v \in versions, NEW status \in {"published", "archived"},
               v.status = "draft",
               versions' = (versions \ {v}) \cup {[v EXCEPT !.status = status]}
        PROVE  /\ VersionsAreKeyed' /\ versions' \subseteq Version
               /\ \A x \in versions : \E w \in versions' :
                     w.source = x.source /\ w.no = x.no /\ w.token = x.token
    <3>1. versions \subseteq Version
      BY DEF ImportInv, ImportTypes
    <3> DEFINE u == [v EXCEPT !.status = status]
    <3>2. /\ u \in Version /\ u.source = v.source /\ u.no = v.no /\ u.token = v.token
          /\ u.status # "draft"
      BY <3>1 DEF Version
    <3>3. versions' = (versions \ {v}) \cup {u}
      BY <2>2
    <3> HIDE DEF u
    <3>4. \A w \in versions' : \E x \in versions :
             /\ w.source = x.source /\ w.no = x.no /\ w.token = x.token
             /\ w.status = "draft" => x.status = "draft"
             /\ w = x \/ (w = u /\ x = v)
      BY <3>2, <3>3
    <3>5. \A x \in versions : \E w \in versions' :
             w.source = x.source /\ w.no = x.no /\ w.token = x.token
      BY <3>2, <3>3
    <3>6. ASSUME NEW s
          PROVE  {w.no : w \in VersionsOf(s)'} = {w.no : w \in VersionsOf(s)}
      BY <3>4, <3>5 DEF VersionsOf
    <3>7. \A x, w \in versions' : x.source = w.source /\ x.no = w.no => x = w
      BY <3>2, <3>3 DEF ImportInv, VersionsAreKeyed
    <3>8. \A x, w \in versions' : x.token = w.token /\ x.token # NoToken => x = w
      BY <3>2, <3>3 DEF ImportInv, VersionsAreKeyed
    <3>9. /\ \A x \in versions' : x.token # NoToken => x.token \in ledger'
          /\ \A t \in ledger' : \E x \in versions' : x.token = t
      BY <3>4, <3>5, <1>1 DEF ImportInv, VersionsAreKeyed
    <3>10. \A s \in Tokens \cup {Source} : \E n \in Nat : {w.no : w \in VersionsOf(s)'} = 1 .. n
      BY <3>6 DEF ImportInv, VersionsAreKeyed
    <3>11. \A x, w \in versions' : x.source = w.source /\ x.status = "draft" => w.no <= x.no
      BY <3>4 DEF ImportInv, VersionsAreKeyed
    <3>12. VersionsAreKeyed'
      BY <3>7, <3>8, <3>9, <3>10, <3>11 DEF VersionsAreKeyed
    <3>13. QED  BY <3>1, <3>2, <3>3, <3>5, <3>12
  <2>3. QED  BY <2>1, <2>2 DEF Others
<1>3. ImportTypes'
  BY <1>1, <1>2 DEF ImportInv, ImportTypes
<1>4. /\ \A s, n : IsNumbered(s, n) => IsNumbered(s, n)'
      /\ \A c, n : IsImported(c, n) => IsImported(c, n)'
  BY <1>2 DEF IsNumbered, IsImported
<1>5. RequestsProgress'
  <2> SUFFICES ASSUME NEW q \in Requests
               PROVE  /\ (~InFlight(q) => loc[q] = Nothing)'
                      /\ (InFlight(q) => IsKnown(loc[q].command) /\ Progress(at[q], loc[q]))'
    BY DEF RequestsProgress
  <2>1. PICK p, l : p = at[q] /\ l = loc[q]
    OBVIOUS
  <2>2. at'[q] = p /\ loc'[q] = l
    BY <1>1, <2>1
  <2>3. Progress(p, l) => Progress(p, l)'
    BY <1>1, <1>4 DEF Progress, MayRefuse
  <2>4. Progress(p, l)' <=> Progress(at[q], loc[q])'
    BY <2>2 DEF Progress, MayRefuse, IsNumbered, IsImported
  <2>5. QED
    BY <1>1, <2>1, <2>3, <2>4 DEF ImportInv, RequestsProgress, InFlight, IsKnown
<1>6. AloneIsAlone' /\ OneIsAwaited' /\ PageFits'
  BY <1>1 DEF ImportInv, AloneIsAlone, OneIsAwaited, Awaited, InFlight, PageFits, IsBusy,
              IsKnown
<1>7. ToldFits'
  <2>1. PICK c, n : c = tab.told /\ n = tab.no
    OBVIOUS
  <2>2. IsImported(tab.told, tab.no) => IsImported(tab.told, tab.no)'
    BY <1>1, <1>4, <2>1 DEF IsImported
  <2>3. QED  BY <1>1, <2>2 DEF ImportInv, ToldFits, InFlight
<1>8. QED  BY <1>2, <1>3, <1>5, <1>6, <1>7 DEF ImportInv

-----------------------------------------------------------------------------
(* The theorems.                                                           *)

LEMMA ImportUnchanged ==
    ASSUME ImportInv, UNCHANGED importVars
    PROVE  ImportInv'
<1>1. UNCHANGED <<db, at, loc, stored, used, faults>> /\ tab' = tab
  BY DEF importVars, client
<1>2. OneIsAwaited' /\ PageFits' /\ ToldFits' /\ tab' \in ImportTab
  BY <1>1 DEF ImportInv, ImportTypes, OneIsAwaited, Awaited, InFlight, PageFits, IsBusy,
              IsKnown, ToldFits, IsImported, db
<1>3. QED  BY <1>1, <1>2, PageStep

LEMMA ImportStepKeeps == ImportInv /\ [ImportNext]_importVars => ImportInv'
<1> SUFFICES ASSUME ImportInv, [ImportNext]_importVars PROVE ImportInv'
  OBVIOUS
<1>1. CASE UNCHANGED importVars
  BY <1>1, ImportUnchanged
<1>2. ASSUME NEW r \in Requests, Serve(r)
      PROVE  ImportInv'
  BY <1>2, ReadingSteps, RecoveringSteps, InsertStep DEF Serve
<1>3. ASSUME NEW r \in Requests, Deliver(r) \/ Lose(r)
      PROVE  ImportInv'
  BY <1>3, EndSteps
<1>4. CASE Use
  BY <1>4, SubmitStep, ConfirmStep, LookStep, LeaveStep, ReloadStep, ReturnStep DEF Use
<1>5. CASE Others
  BY <1>5, OthersStep
<1>6. QED  BY <1>1, <1>2, <1>3, <1>4, <1>5 DEF ImportNext

LEMMA ImportHolds == ImportSpec => []ImportInv
BY ImportStarts, ImportStepKeeps, PTL DEF ImportSpec

LEMMA AtMostOne ==
    ASSUME NEW S, \A x, y \in S : x = y
    PROVE  IsFiniteSet(S) /\ Cardinality(S) <= 1 /\ (S # {} => Cardinality(S) = 1)
           /\ (S = {} => Cardinality(S) = 0)
<1>1. CASE S = {}
  BY <1>1, FS_EmptySet
<1>2. CASE S # {}
  <2>1. PICK x : S = {x}
    BY <1>2
  <2>2. QED  BY <1>2, <2>1, FS_Singleton
<1>3. QED  BY <1>1, <1>2

LEMMA VersionsCount ==
    ASSUME ImportInv, NEW s \in Tokens \cup {Source}
    PROVE  {v.no : v \in VersionsOf(s)} = 1 .. Cardinality(VersionsOf(s))
<1>1. PICK n \in Nat : {v.no : v \in VersionsOf(s)} = 1 .. n
  BY DEF ImportInv, VersionsAreKeyed
<1> DEFINE f == [v \in VersionsOf(s) |-> v.no]
<1>2. f \in Bijection(VersionsOf(s), 1 .. n)
  <2>1. \A v, w \in VersionsOf(s) : v.no = w.no => v = w
    BY DEF ImportInv, VersionsAreKeyed, VersionsOf
  <2>2. \A v \in VersionsOf(s) : v.no \in 1 .. n
    BY <1>1
  <2>3. \A k \in 1 .. n : \E v \in VersionsOf(s) : v.no = k
    BY <1>1
  <2>4. f \in [VersionsOf(s) -> 1 .. n]
    BY <2>2
  <2>5. \A v, w \in VersionsOf(s) : f[v] = f[w] => v = w
    BY <2>1
  <2>6. \A k \in 1 .. n : \E v \in VersionsOf(s) : f[v] = k
    BY <2>3
  <2> HIDE DEF f
  <2>7. QED  BY <2>4, <2>5, <2>6 DEF Bijection, Injection, Surjection, IsInjective
<1>3. IsFiniteSet(1 .. n) /\ Cardinality(1 .. n) = n
  BY FS_Interval
<1>4. Cardinality(VersionsOf(s)) = n
  <2>1. ExistsBijection(VersionsOf(s), 1 .. n)
    BY <1>2 DEF ExistsBijection
  <2>2. f \in Injection(VersionsOf(s), 1 .. n)
    BY <1>2 DEF Bijection
  <2> HIDE DEF f
  <2>3. IsFiniteSet(VersionsOf(s))
    BY <1>3, <2>2, FS_Injection
  <2>4. QED  BY <1>3, <2>1, <2>3, FS_Bijection
<1>5. QED  BY <1>1, <1>4

LEMMA ImportsFollow == ImportInv => ImportsAreExact /\ ImportPageIsTrue
<1> SUFFICES ASSUME ImportInv PROVE ImportsAreExact /\ ImportPageIsTrue
  OBVIOUS
<1>1. ImportTypeOK
  <2>1. /\ versions \subseteq Version /\ ledger \subseteq used /\ used \subseteq Tokens
        /\ \A r \in Requests : at[r] \in Point /\ loc[r] \in ImportLocal
        /\ tab \in ImportTab /\ stored \in Commands /\ tab.mount # 0
    BY DEF ImportInv, ImportTypes, OneIsAwaited
  <2>2. ASSUME NEW r \in Requests
        PROVE  /\ at[r] \in Point /\ loc[r].command \in Command \cup {NoCommand}
               /\ loc[r].outcome \in Outcomes
               /\ at[r] = "idle" => loc[r] = Nothing
               /\ loc[r].mount = tab.mount /\ tab.open /\ loc[r].mount # 0 => tab.waiting
    <3>1. at[r] = "idle" => loc[r] = Nothing
      BY DEF ImportInv, RequestsProgress, InFlight
    <3>2. Nothing.mount = 0
      BY DEF Nothing
    <3>3. loc[r].mount = tab.mount /\ tab.open /\ loc[r].mount # 0 => tab.waiting
      BY <3>1, <3>2 DEF ImportInv, OneIsAwaited, Awaited, InFlight
    <3>4. QED  BY <2>1, <3>1, <3>3 DEF ImportLocal, Commands
  <2>3. Cardinality({r \in Requests : at[r] # "idle" /\ loc[r].mount = tab.mount}) <= 1
    <3>1. \A q, r \in {p \in Requests : at[p] # "idle" /\ loc[p].mount = tab.mount} : q = r
      BY DEF ImportInv, OneIsAwaited, Awaited, InFlight
    <3>2. QED  BY <3>1, AtMostOne
  <2>4. stored.token \in used \cup {NoToken}
    BY CommandFacts DEF ImportInv, PageFits, IsKnown
  <2>5. /\ tab.state \in {"idle", "submitting", "confirming", "success", "failure"}
        /\ tab.pending # NoCommand => IsBusy
        /\ tab.timer => tab.visible /\ ~tab.waiting
    BY <2>1 DEF ImportTab, ImportInv, PageFits
  <2>6. QED  BY <2>1, <2>2, <2>3, <2>4, <2>5 DEF ImportTypeOK
<1>2. OneVersionPerToken
  <2> SUFFICES ASSUME NEW t \in Tokens
               PROVE  Cardinality({v \in versions : v.token = t}) = IF t \in ledger THEN 1 ELSE 0
    BY DEF OneVersionPerToken
  <2>1. t # NoToken
    BY CommandFacts
  <2>2. \A v, w \in {x \in versions : x.token = t} : v = w
    BY <2>1 DEF ImportInv, VersionsAreKeyed
  <2>3. {v \in versions : v.token = t} = {} <=> t \notin ledger
    BY <2>1 DEF ImportInv, VersionsAreKeyed
  <2>4. QED  BY <2>2, <2>3, AtMostOne
<1>3. VersionsAreInOrder
  BY VersionsCount DEF VersionsAreInOrder, ImportInv, VersionsAreKeyed, VersionsOf
<1>4. ToldIsImported /\ FailureIsDefinite
  BY DEF ImportInv, ToldFits, ToldIsImported, FailureIsDefinite, IsImported
<1>5. BusyPageGoesOn
  BY DEF ImportInv, PageFits, OneIsAwaited, Awaited, InFlight, BusyPageGoesOn
<1>6. QED  BY <1>1, <1>2, <1>3, <1>4, <1>5 DEF ImportsAreExact, ImportPageIsTrue

(* However often a command is sent, and whatever other administrators and  *)
(* failing statements do, its token makes one version, and the versions of *)
(* a source stay numbered without gaps.                                    *)
THEOREM ImportsStayExact == ImportSpec => []ImportsAreExact
BY ImportHolds, ImportsFollow, PTL

(* What the page reports of an import is so, a failure included, and a     *)
(* busy page waits for something that will come.                           *)
THEOREM ImportPageStaysTrue == ImportSpec => []ImportPageIsTrue
BY ImportHolds, ImportsFollow, PTL

(* The stored command survives until it has its definite answer, through   *)
(* pages left, tabs loaded again and answers lost.                         *)
THEOREM StoredStaysUntilAnswered == ImportSpec => StoredUntilAnswered
<1> DEFINE Answered ==
        stored # NoCommand /\ stored' = NoCommand =>
          \E r \in Requests :
             /\ at[r] = "reply" /\ at'[r] = "idle"
             /\ loc[r].outcome \in {"imported", "refused"}
             /\ loc[r].command = stored \/ loc[r].mount # tab.mount
<1>1. ImportInv /\ [ImportNext]_importVars => [Answered]_importVars
  <2> SUFFICES ASSUME ImportInv, ImportNext, stored # NoCommand, stored' = NoCommand
               PROVE  \E r \in Requests :
                         /\ at[r] = "reply" /\ at'[r] = "idle"
                         /\ loc[r].outcome \in {"imported", "refused"}
                         /\ loc[r].command = stored \/ loc[r].mount # tab.mount
    OBVIOUS
  <2>1. ASSUME NEW r \in Requests, Deliver(r)
        PROVE  /\ at[r] = "reply" /\ at'[r] = "idle"
               /\ loc[r].outcome \in {"imported", "refused"}
               /\ loc[r].command = stored \/ loc[r].mount # tab.mount
    <3>1. at[r] = "reply" /\ at'[r] = "idle"
      BY <2>1 DEF Deliver, Goto, ImportInv, ImportTypes
    <3>2. IsDefinite(loc[r].outcome)
      BY <2>1 DEF Deliver, Nobody, client, Answer
    <3>3. loc[r].mount = tab.mount => loc[r].command = stored
      BY <3>1 DEF ImportInv, OneIsAwaited, Awaited, InFlight
    <3>4. QED  BY <3>1, <3>2, <3>3 DEF IsDefinite
  <2>2. ASSUME NEW r \in Requests, Serve(r) \/ Lose(r)
        PROVE  stored' = stored
    <3>1. CASE Serve(r)
      BY <3>1 DEF Serve, Find, AssertSchemaReady, ListVersions, CheckDraft, InsertVersion,
            RereadVersion, FindAgain, ListAgain, ReplayImport, Step, client
    <3>2. CASE Lose(r)
      BY <3>2 DEF Lose, Nobody, client, Answer, IsDefinite
    <3>3. QED  BY <2>2, <3>1, <3>2
  <2>3. CASE Submit
    <3>1. \A t : [token |-> t, source |-> t] # NoCommand \/ t = NoToken
      BY DEF NoCommand
    <3>2. \A t : [token |-> t, source |-> Source] # NoCommand \/ t = NoToken
      BY DEF NoCommand
    <3>3. NoToken \notin Tokens
      BY ImportAssumption
    <3>4. QED  BY <2>3, <3>1, <3>2, <3>3 DEF Submit, Store
  <2>4. CASE Confirm \/ Hide \/ Show \/ Leave \/ Reload \/ Return
    BY <2>4 DEF Confirm, Hide, Show, Leave, Reload, Return
  <2>5. CASE Others
    BY <2>5 DEF Others, client
  <2>6. QED  BY <2>1, <2>2, <2>3, <2>4, <2>5 DEF ImportNext, Use
<1>2. QED  BY <1>1, ImportHolds, PTL DEF ImportSpec, StoredUntilAnswered

-----------------------------------------------------------------------------
(* The inductive invariant of CoursesWorkspace.                            *)

DoneOperation == [command : Operation, course : Courses, late : BOOLEAN, no : Nat]

WorkspaceCall == [command : Operation, what : {"perform", "list"}, waits : BOOLEAN,
                  alone : BOOLEAN, outcome : Results, rows : [Courses -> Row]]

Target == [kind : Kinds, course : Courses \cup {NoCourse}, expected : Nat]

Desk == [action : Kinds \cup {"idle"}, entries : [Courses -> Row], pending : Operation,
         unknown : BOOLEAN, success : Operation, error : Operation, target : Target]

DeskTypes ==
    /\ rows \in [Courses -> Row]
    /\ done \subseteq DoneOperation
    /\ calls \in [1 .. MaxCalls -> WorkspaceCall]
    /\ desk \in Desk
    /\ clicks \in Nat /\ slips \in Nat

(* A command has the token of its click, and changes a course unless it    *)
(* creates one.                                                            *)
Clicked(c) == c.click = c.token /\ (c.kind # "create" => c.course \in Courses)

CommandsAreClicked ==
    /\ \A i \in 1 .. MaxCalls : Clicked(calls[i].command)
    /\ \A d \in done : Clicked(d.command)
    /\ Clicked(desk.pending)
    /\ desk.target.kind # "create" => desk.target.course \in Courses

TokensAreSpentOnce ==
    \A d, e \in done : d.command.token = e.command.token => d = e

(* Versions and runs only grow, so that nothing is ahead of the server.    *)
Below(r, s) ==
    \A c \in Courses : r[c].update <= s[c].update /\ r[c].reset <= s[c].reset

Reached(d, s) ==
    /\ d.command.kind = "update" => d.no <= s[d.course].update
    /\ d.command.kind = "reset" => d.no <= s[d.course].reset

NothingIsAhead ==
    /\ Below(desk.entries, rows)
    /\ \A i \in 1 .. MaxCalls : Below(calls[i].rows, rows)
    /\ \A d \in done : Reached(d, rows)

(* Of two calls for a command that the page waits for, neither is alone.   *)
CallsAreAlone ==
    \A i, j \in 1 .. MaxCalls :
        i # j /\ calls[i].waits /\ calls[j].waits /\ calls[i].command = calls[j].command =>
            ~calls[i].alone

(* What may have made a refused command a committed one.                   *)
Excused(d, s) ==
    \/ d.late
    \/ d.command.kind = "create"
    \/ d.command.kind = "update" /\ s[d.course].update > d.no
    \/ d.command.kind = "reset" /\ s[d.course].reset > d.no

AnswerFits(call) ==
    /\ call.outcome # "none" => call.waits
    /\ call.what = "list" => call.command.kind = "create"
    /\ call.outcome = "done" /\ call.what = "perform" => Committed(call.command) # {}
    /\ call.outcome = "refused" =>
          \A d \in done : d.command = call.command => Excused(d, rows)

AnswersFit == \A i \in 1 .. MaxCalls : AnswerFits(calls[i])

(* No call that is alone is left of a command that an error was told of.   *)
ReportsFit ==
    /\ desk.success # NoOperation => \E d \in done : d.command.token = desk.success.token
    /\ \A d \in done : d.command = desk.error => Excused(d, rows)
    /\ desk.error.kind # "create" =>
          \A i \in 1 .. MaxCalls :
              calls[i].waits /\ calls[i].command = desk.error => ~calls[i].alone

DeskInv ==
    /\ DeskTypes
    /\ CommandsAreClicked
    /\ TokensAreSpentOnce
    /\ NothingIsAhead
    /\ CallsAreAlone
    /\ AnswersFit
    /\ ReportsFit

(* A step keeps the calls that the page waits for, or ends them.           *)
KeepsCalls ==
    \A j \in 1 .. MaxCalls :
        calls'[j].waits => /\ calls[j].waits
                           /\ calls'[j].command = calls[j].command
                           /\ calls'[j].alone = calls[j].alone

LEMMA NoCallFits ==
    /\ NoOperation \in Operation /\ Clicked(NoOperation) /\ NoOperation.kind = "create"
    /\ NoCall \in WorkspaceCall
    /\ NoCall.waits = FALSE /\ NoCall.what = "perform" /\ NoCall.outcome = "none"
    /\ NoCall.command = NoOperation
    /\ \A s \in [Courses -> Row] : Below(NoCall.rows, s)
    /\ AnswerFits(NoCall)
<1>1. NoOperation \in Operation /\ Clicked(NoOperation) /\ NoOperation.kind = "create"
  BY DEF NoOperation, Operation, Kinds, Clicked
<1>2. NoRow \in Row /\ NoRow.update = 0 /\ NoRow.reset = 0
  BY DEF NoRow, Row
<1>3. /\ NoCall.waits = FALSE /\ NoCall.what = "perform" /\ NoCall.outcome = "none"
      /\ NoCall.command = NoOperation /\ NoCall.rows = [c \in Courses |-> NoRow]
  BY DEF NoCall
<1>4. NoCall \in WorkspaceCall
  BY <1>1, <1>2 DEF NoCall, WorkspaceCall, Results
<1>5. \A s \in [Courses -> Row] : Below(NoCall.rows, s)
  BY <1>2, <1>3 DEF Below, Row
<1>6. AnswerFits(NoCall)
  BY <1>1, <1>3 DEF AnswerFits
<1> QED
  BY <1>1, <1>3, <1>4, <1>5, <1>6

LEMMA DeskStarts == DeskInit => DeskInv
<1> SUFFICES ASSUME DeskInit PROVE DeskInv
  OBVIOUS
<1> DEFINE ones == [update |-> 1, reset |-> 1]
<1>1. ones \in Row /\ NoRow \in Row
  BY DEF Row, NoRow
<1> HIDE DEF ones
<1>2. rows \in [Courses -> Row]
  BY <1>1 DEF DeskInit, ones
<1>3. NoTarget \in Target /\ NoTarget.kind = "create"
  BY DEF NoTarget, Target, Kinds
<1>4. /\ OpenedDesk \in Desk /\ OpenedDesk.entries = rows /\ OpenedDesk.pending = NoOperation
      /\ OpenedDesk.success = NoOperation /\ OpenedDesk.error = NoOperation
      /\ OpenedDesk.target = NoTarget
  BY <1>2, <1>3, NoCallFits DEF OpenedDesk, Desk
<1>5. /\ calls = [i \in 1 .. MaxCalls |-> NoCall] /\ done = {} /\ desk = OpenedDesk
      /\ clicks = 0 /\ slips = 0
  BY DEF DeskInit
<1>6. DeskTypes
  BY <1>2, <1>4, <1>5, NoCallFits DEF DeskTypes
<1>7. CommandsAreClicked
  BY <1>3, <1>4, <1>5, NoCallFits DEF CommandsAreClicked
<1>8. Below(desk.entries, rows)
  BY <1>2, <1>4, <1>5 DEF Below, Row
<1>9. NothingIsAhead
  BY <1>2, <1>5, <1>8, NoCallFits DEF NothingIsAhead
<1>10. TokensAreSpentOnce /\ CallsAreAlone
  BY <1>5, NoCallFits DEF TokensAreSpentOnce, CallsAreAlone
<1>11. AnswersFit
  BY <1>5, NoCallFits DEF AnswersFit
<1>12. ReportsFit
  BY <1>3, <1>4, <1>5, NoCallFits DEF ReportsFit
<1> QED
  BY <1>6, <1>7, <1>9, <1>10, <1>11, <1>12 DEF DeskInv

LEMMA KeptCallsAreAlone ==
    ASSUME CallsAreAlone, KeepsCalls
    PROVE  CallsAreAlone'
BY DEF CallsAreAlone, KeepsCalls

-----------------------------------------------------------------------------
(* The server.                                                             *)

LEMMA ReturnsCalls ==
    ASSUME DeskTypes, NEW i \in 1 .. MaxCalls, NEW o \in Results,
           NEW to \in [Courses -> Row], Returns(i, o, to)
    PROVE  /\ calls' \in [1 .. MaxCalls -> WorkspaceCall]
           /\ \A j \in 1 .. MaxCalls : j # i => calls'[j] = calls[j]
           /\ \/ calls'[i] = NoCall
              \/ /\ calls[i].waits /\ calls'[i].waits
                 /\ calls'[i].command = calls[i].command /\ calls'[i].what = calls[i].what
                 /\ calls'[i].alone = calls[i].alone
                 /\ calls'[i].outcome = o /\ calls'[i].rows = to
<1> DEFINE call == [calls[i] EXCEPT !.outcome = o, !.rows = to]
<1>1. calls[i] \in WorkspaceCall
  BY DEF DeskTypes
<1>2. /\ call \in WorkspaceCall /\ call.waits = calls[i].waits
      /\ call.command = calls[i].command /\ call.what = calls[i].what
      /\ call.alone = calls[i].alone /\ call.outcome = o /\ call.rows = to
  BY <1>1 DEF WorkspaceCall
<1>3. calls' = [calls EXCEPT ![i] = IF calls[i].waits THEN call ELSE NoCall]
  BY DEF Returns
<1> HIDE DEF call
<1> QED
  BY <1>2, <1>3, NoCallFits DEF DeskTypes

(* What an answer leaves to the calls.                                     *)
LEMMA ReturnedCallsFit ==
    ASSUME DeskTypes, CommandsAreClicked, NEW i \in 1 .. MaxCalls, NEW o \in Results,
           NEW to \in [Courses -> Row], Returns(i, o, to)
    PROVE  /\ KeepsCalls
           /\ \A j \in 1 .. MaxCalls : Clicked(calls'[j].command)
           /\ \A j \in 1 .. MaxCalls :
                 \A s \in [Courses -> Row] :
                    Below(calls[j].rows, s) /\ Below(to, s) => Below(calls'[j].rows, s)
<1>1. /\ \A j \in 1 .. MaxCalls : j # i => calls'[j] = calls[j]
      /\ \/ calls'[i] = NoCall
         \/ /\ calls[i].waits /\ calls'[i].waits
            /\ calls'[i].command = calls[i].command
            /\ calls'[i].alone = calls[i].alone
            /\ calls'[i].rows = to
  BY ReturnsCalls
<1>2. KeepsCalls
  BY <1>1, NoCallFits DEF KeepsCalls
<1>3. \A j \in 1 .. MaxCalls : Clicked(calls'[j].command)
  BY <1>1, NoCallFits DEF CommandsAreClicked
<1>4. ASSUME NEW j \in 1 .. MaxCalls, NEW s \in [Courses -> Row],
             Below(calls[j].rows, s), Below(to, s)
      PROVE  Below(calls'[j].rows, s)
  <2>1. CASE j # i
    BY <2>1, <1>1, <1>4
  <2>2. CASE j = i
    BY <2>2, <1>1, <1>4, NoCallFits
  <2> QED
    BY <2>1, <2>2
<1> QED
  BY <1>2, <1>3, <1>4

(* An answer that changes nothing at the server.                           *)
LEMMA ReturnsStep ==
    ASSUME DeskInv, UNCHANGED <<rows, done, desk, clicks, slips>>,
           NEW i \in 1 .. MaxCalls, NEW o \in {"done", "refused"},
           NEW to \in [Courses -> Row], Below(to, rows), Returns(i, o, to),
           o = "done" => calls[i].what = "list" \/ Committed(calls[i].command) # {},
           o = "refused" =>
              \A d \in done : d.command = calls[i].command => Excused(d, rows)
    PROVE  DeskInv'
<1> USE DEF DeskInv
<1>1. rows \in [Courses -> Row]
  BY DEF DeskTypes
<1>2. Returns(i, o, to) /\ o \in Results
  BY DEF Results
<1>3. /\ calls' \in [1 .. MaxCalls -> WorkspaceCall]
      /\ \A j \in 1 .. MaxCalls : j # i => calls'[j] = calls[j]
      /\ \/ calls'[i] = NoCall
         \/ /\ calls[i].waits /\ calls'[i].waits
            /\ calls'[i].command = calls[i].command /\ calls'[i].what = calls[i].what
            /\ calls'[i].outcome = o
  BY <1>2, ReturnsCalls
<1>4. /\ KeepsCalls
      /\ \A j \in 1 .. MaxCalls : Clicked(calls'[j].command)
      /\ \A j \in 1 .. MaxCalls :
            Below(calls[j].rows, rows) /\ Below(to, rows) => Below(calls'[j].rows, rows)
  BY <1>1, <1>2, ReturnedCallsFit
<1>5. DeskTypes'
  BY <1>3 DEF DeskTypes
<1>6. CommandsAreClicked'
  BY <1>4 DEF CommandsAreClicked
<1>7. TokensAreSpentOnce'
  BY DEF TokensAreSpentOnce
<1>9. NothingIsAhead'
  BY <1>4 DEF NothingIsAhead
<1>10. CallsAreAlone'
  BY <1>4, KeptCallsAreAlone
<1>11. AnswersFit'
  <2> SUFFICES ASSUME NEW j \in 1 .. MaxCalls PROVE AnswerFits(calls[j])'
    BY DEF AnswersFit
  <2>1. CASE j # i
    BY <2>1, <1>3 DEF AnswersFit, AnswerFits, Committed
  <2>2. CASE j = i /\ calls'[i] = NoCall
    BY <2>2, NoCallFits DEF AnswerFits
  <2>3. CASE j = i /\ calls'[i] # NoCall
    BY <2>3, <1>3 DEF AnswersFit, AnswerFits, Committed
  <2> QED
    BY <2>1, <2>2, <2>3
<1>12. ReportsFit'
  BY <1>4 DEF ReportsFit, KeepsCalls
<1> QED
  BY <1>5, <1>6, <1>7, <1>9, <1>10, <1>11, <1>12

LEMMA RowsAreReached ==
    ASSUME DeskInv
    PROVE  rows \in [Courses -> Row] /\ Below(rows, rows)
BY DEF DeskInv, DeskTypes, Below, Row

LEMMA RefuseStep ==
    ASSUME DeskInv, NEW i \in 1 .. MaxCalls, Refuse(i), UNCHANGED <<desk, clicks, slips>>
    PROVE  DeskInv'
<1>1. /\ Committed(calls[i].command) = {} /\ Returns(i, "refused", rows)
      /\ UNCHANGED <<rows, done>>
  BY DEF Refuse
<1>2. \A d \in done : d.command = calls[i].command => Excused(d, rows)
  BY <1>1 DEF Committed
<1> QED
  BY <1>1, <1>2, RowsAreReached, ReturnsStep

(* What a reset reports is a run that the course has reached.              *)
LEMMA RecordedRowsFit ==
    ASSUME rows \in [Courses -> Row], NEW d \in DoneOperation, Reached(d, rows)
    PROVE  RecordedRows(d) \in [Courses -> Row] /\ Below(RecordedRows(d), rows)
<1>1. \A c \in Courses : rows[c].update \in Nat /\ rows[c].reset \in Nat
  BY DEF Row
<1>2. CASE d.command.kind = "reset"
  <2> DEFINE to == [rows EXCEPT ![d.course].reset = d.no]
  <2>1. d.course \in Courses /\ d.no \in Nat /\ d.no <= rows[d.course].reset
    BY <1>2 DEF DoneOperation, Reached
  <2>2. /\ to \in [Courses -> Row]
        /\ \A c \in Courses : /\ to[c].update = rows[c].update
                              /\ to[c].reset = IF c = d.course THEN d.no ELSE rows[c].reset
    BY <2>1 DEF Row
  <2>3. RecordedRows(d) = to
    BY <1>2 DEF RecordedRows
  <2> HIDE DEF to
  <2>4. Below(to, rows)
    BY <1>1, <2>1, <2>2 DEF Below
  <2> QED
    BY <2>2, <2>3, <2>4
<1>3. CASE d.command.kind # "reset"
  BY <1>1, <1>3 DEF RecordedRows, Below
<1> QED
  BY <1>2, <1>3

LEMMA ReturnRecordedStep ==
    ASSUME DeskInv, NEW i \in 1 .. MaxCalls, ReturnRecorded(i),
           UNCHANGED <<desk, clicks, slips>>
    PROVE  DeskInv'
<1>1. PICK e \in Committed(calls[i].command) :
             Returns(i, IF IsInForce(e) THEN "done" ELSE "refused", RecordedRows(e))
  BY DEF ReturnRecorded
<1>2. UNCHANGED <<rows, done>>
  BY DEF ReturnRecorded
<1>5. e \in DoneOperation /\ rows \in [Courses -> Row] /\ Reached(e, rows)
  BY <1>1 DEF DeskInv, DeskTypes, NothingIsAhead, Committed
<1>6. RecordedRows(e) \in [Courses -> Row] /\ Below(RecordedRows(e), rows)
  BY <1>5, RecordedRowsFit
<1>3. CASE IsInForce(e)
  <2>1. Returns(i, "done", RecordedRows(e))
    BY <1>1, <1>3
  <2>2. Committed(calls[i].command) # {}
    BY <1>1
  <2> QED
    BY <1>2, <1>6, <2>1, <2>2, ReturnsStep
<1>4. CASE ~IsInForce(e)
  <2>1. Returns(i, "refused", RecordedRows(e))
    BY <1>1, <1>4
  <2>2. ASSUME NEW d \in done, d.command = calls[i].command
        PROVE  Excused(d, rows)
    <3>1. e \in done /\ e.command.token = d.command.token
      BY <1>1, <2>2 DEF Committed
    <3>2. d = e
      BY <3>1 DEF DeskInv, TokensAreSpentOnce
    <3>3. d.command.kind # "reset" /\ rows[d.course].update # d.no
      BY <1>4, <3>2 DEF IsInForce
    <3>4. Reached(d, rows)
      BY DEF DeskInv, NothingIsAhead
    <3>5. d.no \in Nat /\ rows[d.course].update \in Nat /\ d.command.kind \in Kinds
      BY DEF DeskInv, DeskTypes, DoneOperation, Row, Operation
    <3> QED
      BY <3>3, <3>4, <3>5 DEF Excused, Reached, Kinds
  <2> QED
    BY <1>2, <1>6, <2>1, <2>2, ReturnsStep
<1> QED
  BY <1>3, <1>4

(* What a command changes.                                                 *)
LEMMA ChangesGrow ==
    ASSUME rows \in [Courses -> Row], NEW c \in Operation, Clicked(c), NEW to \in Changes(c)
    PROVE  /\ to \in [Courses -> Row] /\ Below(rows, to)
           /\ \E d \in Courses : to[d] # rows[d]
<1> DEFINE ones == [update |-> 1, reset |-> 1]
<1>1. ones \in Row /\ ones # NoRow /\ NoRow.update = 0 /\ NoRow.reset = 0
      /\ ones.update = 1 /\ ones.reset = 1
  BY DEF Row, NoRow
<1>2. CASE c.kind = "create"
  <2>1. PICK e \in Courses : rows[e] = NoRow /\ to = [rows EXCEPT ![e] = ones]
    BY <1>2 DEF Changes
  <2> HIDE DEF ones
  <2>2. to \in [Courses -> Row] /\ to[e] # rows[e]
    BY <1>1, <2>1
  <2>3. Below(rows, to)
    BY <1>1, <2>1 DEF Below, Row
  <2> QED
    BY <2>2, <2>3
<1>3. CASE c.kind = "update"
  <2>1. c.course \in Courses
    BY <1>3 DEF Clicked
  <2> DEFINE row == [rows[c.course] EXCEPT !["update"] = @ + 1]
  <2>2. to = [rows EXCEPT ![c.course] = row]
    BY <1>3, <2>1 DEF Changes
  <2>3. row \in Row /\ row.update = rows[c.course].update + 1 /\ row.reset = rows[c.course].reset
    BY <2>1 DEF Row
  <2> HIDE DEF row
  <2>4. to \in [Courses -> Row] /\ to[c.course] = row
    BY <2>1, <2>2, <2>3
  <2>5. row # rows[c.course]
    BY <2>1, <2>3 DEF Row
  <2>6. Below(rows, to)
    BY <2>1, <2>2, <2>3 DEF Below, Row
  <2> QED
    BY <2>1, <2>4, <2>5, <2>6
<1>4. CASE c.kind = "reset"
  <2>1. c.course \in Courses
    BY <1>4 DEF Clicked
  <2> DEFINE row == [rows[c.course] EXCEPT !["reset"] = @ + 1]
  <2>2. to = [rows EXCEPT ![c.course] = row]
    BY <1>4, <2>1 DEF Changes
  <2>3. row \in Row /\ row.reset = rows[c.course].reset + 1 /\ row.update = rows[c.course].update
    BY <2>1 DEF Row
  <2> HIDE DEF row
  <2>4. to \in [Courses -> Row] /\ to[c.course] = row
    BY <2>1, <2>2, <2>3
  <2>5. row # rows[c.course]
    BY <2>1, <2>3 DEF Row
  <2>6. Below(rows, to)
    BY <2>1, <2>2, <2>3 DEF Below, Row
  <2> QED
    BY <2>1, <2>4, <2>5, <2>6
<1>5. c.kind \in Kinds
  BY DEF Operation
<1> QED
  BY <1>2, <1>3, <1>4, <1>5 DEF Kinds

LEMMA BelowIsTransitive ==
    ASSUME NEW r \in [Courses -> Row], NEW s \in [Courses -> Row], NEW t \in [Courses -> Row],
           Below(r, s), Below(s, t)
    PROVE  Below(r, t)
BY DEF Below, Row

LEMMA GrowthKeeps ==
    ASSUME NEW d \in DoneOperation, NEW s \in [Courses -> Row], NEW t \in [Courses -> Row],
           Below(s, t)
    PROVE  /\ Reached(d, s) => Reached(d, t)
           /\ Excused(d, s) => Excused(d, t)
<1>1. d.course \in Courses /\ d.no \in Nat
  BY DEF DoneOperation
<1> QED
  BY <1>1 DEF Below, Row, Reached, Excused

LEMMA CommitStep ==
    ASSUME DeskInv, NEW i \in 1 .. MaxCalls, Commit(i), UNCHANGED <<desk, clicks, slips>>
    PROVE  DeskInv'
<1> USE DEF DeskInv
<1> DEFINE command == calls[i].command
<1>1. PICK to \in Changes(command) :
        LET c == CHOOSE d \in Courses : to[d] # rows[d] IN
          /\ rows' = to
          /\ done' = done \cup {[command |-> command, course |-> c,
                                 late |-> ~calls[i].waits \/ ~calls[i].alone,
                                 no |-> to[c][IF command.kind = "create" THEN "update"
                                                                         ELSE command.kind]]}
          /\ Returns(i, "done", to)
  BY DEF Commit
<1>2. Committed(command) = {}
  BY DEF Commit
<1>3. command \in Operation /\ Clicked(command) /\ rows \in [Courses -> Row]
      /\ calls[i].waits \in BOOLEAN /\ calls[i].alone \in BOOLEAN
  BY DEF DeskTypes, WorkspaceCall, CommandsAreClicked
<1>4. to \in [Courses -> Row] /\ Below(rows, to) /\ \E d \in Courses : to[d] # rows[d]
  BY <1>3, ChangesGrow
<1> DEFINE c == CHOOSE d \in Courses : to[d] # rows[d]
<1> DEFINE key == IF command.kind = "create" THEN "update" ELSE command.kind
<1> DEFINE new == [command |-> command, course |-> c,
                   late |-> ~calls[i].waits \/ ~calls[i].alone, no |-> to[c][key]]
<1>5. c \in Courses
  BY <1>4
<1>6. rows' = to /\ done' = done \cup {new} /\ Returns(i, "done", to)
  BY <1>1
<1> HIDE DEF c
<1>7. /\ to[c][key] \in Nat
      /\ command.kind = "update" => to[c][key] = to[c].update
      /\ command.kind = "reset" => to[c][key] = to[c].reset
  <2>1. command.kind \in Kinds /\ to[c].update \in Nat /\ to[c].reset \in Nat
    BY <1>3, <1>4, <1>5 DEF Operation, Row
  <2> QED
    BY <2>1 DEF Kinds
<1> HIDE DEF key
<1>8. /\ new \in DoneOperation /\ new.command = command /\ new.course = c
      /\ new.no = to[c][key]
      /\ ~calls[i].waits \/ ~calls[i].alone => new.late
  BY <1>3, <1>5, <1>7 DEF DoneOperation
<1> HIDE DEF new
<1>9. "done" \in Results
  BY DEF Results
<1>10. /\ calls' \in [1 .. MaxCalls -> WorkspaceCall]
       /\ \A j \in 1 .. MaxCalls : j # i => calls'[j] = calls[j]
       /\ \/ calls'[i] = NoCall
          \/ /\ calls[i].waits /\ calls'[i].waits
             /\ calls'[i].command = calls[i].command /\ calls'[i].what = calls[i].what
             /\ calls'[i].outcome = "done"
  BY <1>4, <1>6, <1>9, ReturnsCalls
<1>11. /\ KeepsCalls
       /\ \A j \in 1 .. MaxCalls : Clicked(calls'[j].command)
       /\ \A j \in 1 .. MaxCalls : Below(calls[j].rows, to) /\ Below(to, to) => Below(calls'[j].rows, to)
  BY <1>4, <1>6, <1>9, ReturnedCallsFit
<1>12. DeskTypes'
  BY <1>4, <1>6, <1>8, <1>10 DEF DeskTypes
<1>13. CommandsAreClicked'
  BY <1>3, <1>6, <1>8, <1>11 DEF CommandsAreClicked
<1>14. TokensAreSpentOnce'
  BY <1>2, <1>6, <1>8 DEF TokensAreSpentOnce, Committed
<1>15. Below(to, to) /\ Reached(new, to)
  <2>1. to[c].update \in Nat /\ to[c].reset \in Nat
    BY <1>4, <1>5 DEF Row
  <2>2. Reached(new, to)
    BY <1>7, <1>8, <2>1 DEF Reached
  <2>3. Below(to, to)
    BY <1>4 DEF Below, Row
  <2> QED
    BY <2>2, <2>3
<1>16. NothingIsAhead'
  <2>1. Below(desk.entries, to)
    BY <1>3, <1>4, BelowIsTransitive DEF NothingIsAhead, DeskTypes, Desk
  <2>2. ASSUME NEW j \in 1 .. MaxCalls PROVE Below(calls'[j].rows, to)
    <3>1. calls[j].rows \in [Courses -> Row] /\ Below(calls[j].rows, rows)
      BY DEF DeskTypes, WorkspaceCall, NothingIsAhead
    <3>2. Below(calls[j].rows, to)
      BY <1>3, <1>4, <3>1, BelowIsTransitive
    <3> QED
      BY <3>2, <1>11, <1>15
  <2>3. ASSUME NEW d \in done' PROVE Reached(d, to)
    <3>1. CASE d \in done
      BY <3>1, <1>3, <1>4, GrowthKeeps DEF NothingIsAhead, DeskTypes
    <3>2. CASE d = new
      BY <3>2, <1>15
    <3> QED
      BY <3>1, <3>2, <1>6
  <2> QED
    BY <1>6, <2>1, <2>2, <2>3 DEF NothingIsAhead
<1>17. CallsAreAlone'
  BY <1>11, KeptCallsAreAlone
<1>18. \A d \in done : Excused(d, rows) => Excused(d, to)
  BY <1>3, <1>4, GrowthKeeps DEF DeskTypes
<1>19. AnswersFit'
  <2> SUFFICES ASSUME NEW j \in 1 .. MaxCalls PROVE AnswerFits(calls[j])'
    BY DEF AnswersFit
  <2>0. AnswerFits(calls[j]) /\ AnswerFits(calls[i])
    BY DEF AnswersFit
  <2>1. CASE j # i
    <3>1. calls'[j] = calls[j]
      BY <2>1, <1>10
    <3>2. ASSUME calls[j].outcome = "refused", new.command = calls[j].command
          PROVE  Excused(new, to)
      <4>1. calls[j].waits
        BY <3>2, <2>0 DEF AnswerFits
      <4>2. CASE calls[i].waits
        <5>1. ~calls[i].alone
          BY <2>1, <3>2, <4>1, <4>2, <1>8 DEF CallsAreAlone
        <5> QED
          BY <5>1, <1>8 DEF Excused
      <4>3. CASE ~calls[i].waits
        BY <4>3, <1>8 DEF Excused
      <4> QED
        BY <4>2, <4>3
    <3>3. calls[j].outcome = "refused" =>
             \A d \in done' : d.command = calls[j].command => Excused(d, to)
      BY <3>2, <2>0, <1>6, <1>18 DEF AnswerFits
    <3>4. Committed(calls[j].command) # {} => Committed(calls[j].command)' # {}
      BY <3>1, <1>6 DEF Committed
    <3> QED
      BY <2>0, <3>1, <3>3, <3>4, <1>6 DEF AnswerFits
  <2>2. CASE j = i /\ calls'[i] = NoCall
    BY <2>2, NoCallFits DEF AnswerFits
  <2>3. CASE j = i /\ calls'[i] # NoCall
    <3>1. /\ calls'[i].waits /\ calls'[i].command = command
          /\ calls'[i].what = calls[i].what /\ calls'[i].outcome = "done"
      BY <2>3, <1>10
    <3>2. new \in Committed(calls[i].command)'
      BY <3>1, <1>6, <1>8 DEF Committed
    <3> QED
      BY <2>0, <2>3, <3>1, <3>2 DEF AnswerFits
  <2> QED
    BY <2>1, <2>2, <2>3
<1>20. ReportsFit'
  <2>1. desk.success # NoOperation => \E d \in done' : d.command.token = desk.success.token
    BY <1>6 DEF ReportsFit
  <2>2. ASSUME new.command = desk.error PROVE Excused(new, to)
    BY <2>2, <1>8 DEF ReportsFit, Excused
  <2>3. \A d \in done' : d.command = desk.error => Excused(d, to)
    BY <2>2, <1>6, <1>18 DEF ReportsFit
  <2>4. desk.error.kind # "create" =>
          \A j \in 1 .. MaxCalls :
              calls'[j].waits /\ calls'[j].command = desk.error => ~calls'[j].alone
    BY <1>11 DEF ReportsFit, KeepsCalls
  <2> QED
    BY <2>1, <2>3, <2>4, <1>6 DEF ReportsFit
<1> QED
  BY <1>12, <1>13, <1>14, <1>16, <1>17, <1>19, <1>20

(* Steps that change nothing but the calls.                                *)
LEMMA CallsStep ==
    ASSUME DeskInv, UNCHANGED <<rows, done, desk, clicks>>, slips' \in Nat,
           calls' \in [1 .. MaxCalls -> WorkspaceCall], KeepsCalls,
           \A j \in 1 .. MaxCalls :
              /\ Clicked(calls'[j].command)
              /\ Below(calls'[j].rows, rows)
              /\ AnswerFits(calls'[j])
    PROVE  DeskInv'
<1> USE DEF DeskInv
<1>1. DeskTypes'
  BY DEF DeskTypes
<1>2. CommandsAreClicked'
  BY DEF CommandsAreClicked
<1>3. TokensAreSpentOnce'
  BY DEF TokensAreSpentOnce
<1>4. NothingIsAhead'
  BY DEF NothingIsAhead
<1>5. CallsAreAlone'
  BY KeptCallsAreAlone
<1>6. AnswersFit'
  BY DEF AnswersFit, AnswerFits, Committed
<1>7. ReportsFit'
  BY DEF ReportsFit, KeepsCalls
<1> QED
  BY <1>1, <1>2, <1>3, <1>4, <1>5, <1>6, <1>7

LEMMA FailCallStep ==
    ASSUME DeskInv, NEW i \in 1 .. MaxCalls, FailCall(i)
    PROVE  DeskInv'
<1> USE DEF DeskInv
<1>1. /\ calls[i] \in WorkspaceCall /\ calls \in [1 .. MaxCalls -> WorkspaceCall]
      /\ AnswerFits(calls[i]) /\ Clicked(calls[i].command) /\ Below(calls[i].rows, rows)
  BY DEF DeskTypes, AnswersFit, CommandsAreClicked, NothingIsAhead
<1>2. /\ calls[i].waits /\ slips' \in Nat /\ UNCHANGED <<rows, done, desk, clicks>>
  BY DEF FailCall, Slip, DeskTypes
<1>3. ASSUME NEW o \in {"unknown", "refused"},
             o = "refused" => calls[i].what = "list" /\ calls[i].outcome = "none",
             calls' = [calls EXCEPT ![i].outcome = o]
      PROVE  DeskInv'
  <2> DEFINE call == [calls[i] EXCEPT !.outcome = o]
  <2>1. /\ call \in WorkspaceCall /\ call.command = calls[i].command
        /\ call.what = calls[i].what /\ call.waits = calls[i].waits
        /\ call.alone = calls[i].alone /\ call.outcome = o /\ call.rows = calls[i].rows
    BY <1>1 DEF WorkspaceCall, Results
  <2>2. calls' = [calls EXCEPT ![i] = call]
    BY <1>3
  <2> HIDE DEF call
  <2>3. o = "refused" => call.command.kind = "create"
    BY <1>1, <1>3, <2>1 DEF AnswerFits
  <2>4. AnswerFits(call)
    BY <1>1, <1>2, <2>1, <2>3 DEF AnswerFits, Excused
  <2>5. KeepsCalls /\ calls' \in [1 .. MaxCalls -> WorkspaceCall]
    BY <1>1, <2>1, <2>2 DEF KeepsCalls
  <2>6. \A j \in 1 .. MaxCalls : /\ Clicked(calls'[j].command)
                                 /\ Below(calls'[j].rows, rows)
                                 /\ AnswerFits(calls'[j])
    BY <1>1, <2>1, <2>2, <2>4 DEF AnswersFit, CommandsAreClicked, NothingIsAhead
  <2> QED
    BY <1>2, <2>5, <2>6, CallsStep
<1>4. ASSUME calls[i].outcome = "none", NEW j \in 1 .. MaxCalls, calls[j] = NoCall,
             calls' = [calls EXCEPT ![i].outcome = "unknown",
                                    ![j] = [calls[i] EXCEPT !.waits = FALSE]]
      PROVE  DeskInv'
  <2> DEFINE lost == [calls[i] EXCEPT !.outcome = "unknown"]
  <2> DEFINE late == [calls[i] EXCEPT !.waits = FALSE]
  <2>1. /\ lost \in WorkspaceCall /\ lost.command = calls[i].command
        /\ lost.what = calls[i].what /\ lost.waits = calls[i].waits
        /\ lost.alone = calls[i].alone /\ lost.outcome = "unknown" /\ lost.rows = calls[i].rows
    BY <1>1 DEF WorkspaceCall, Results
  <2>2. /\ late \in WorkspaceCall /\ late.command = calls[i].command
        /\ late.what = calls[i].what /\ late.waits = FALSE
        /\ late.outcome = "none" /\ late.rows = calls[i].rows
    BY <1>1, <1>4 DEF WorkspaceCall
  <2>3. calls' = [[calls EXCEPT ![i] = lost] EXCEPT ![j] = late]
    BY <1>4
  <2> HIDE DEF lost, late
  <2>4. AnswerFits(lost) /\ AnswerFits(late)
    BY <1>1, <1>2, <2>1, <2>2 DEF AnswerFits
  <2>5. KeepsCalls /\ calls' \in [1 .. MaxCalls -> WorkspaceCall]
    BY <1>1, <2>1, <2>2, <2>3 DEF KeepsCalls
  <2>6. \A k \in 1 .. MaxCalls : /\ Clicked(calls'[k].command)
                                 /\ Below(calls'[k].rows, rows)
                                 /\ AnswerFits(calls'[k])
    <3> SUFFICES ASSUME NEW k \in 1 .. MaxCalls
                 PROVE  /\ Clicked(calls'[k].command)
                        /\ Below(calls'[k].rows, rows)
                        /\ AnswerFits(calls'[k])
      OBVIOUS
    <3>1. calls'[k] = IF k = j THEN late ELSE IF k = i THEN lost ELSE calls[k]
      BY <1>1, <2>3
    <3> QED
      BY <1>1, <2>1, <2>2, <2>4, <3>1 DEF AnswersFit, CommandsAreClicked, NothingIsAhead
  <2> QED
    BY <1>2, <2>5, <2>6, CallsStep
<1>5. DOMAIN calls = 1 .. MaxCalls
  BY DEF DeskTypes
<1> QED
  BY <1>3, <1>4, <1>5 DEF FailCall

LEMMA OvertakeStep ==
    ASSUME DeskInv, Overtake
    PROVE  DeskInv'
<1> USE DEF DeskInv
<1>1. PICK c \in Courses, kind \in {"update", "reset"} :
             rows' = [rows EXCEPT ![c][kind] = @ + 1]
  BY DEF Overtake
<1>2. slips' \in Nat /\ UNCHANGED <<done, calls, desk, clicks>>
  BY DEF Overtake, Slip, DeskTypes
<1>3. rows \in [Courses -> Row]
  BY DEF DeskTypes
<1>4. PICK to : to = rows'
  OBVIOUS
<1>5. to \in [Courses -> Row] /\ Below(rows, to)
  <2> DEFINE row == [rows[c] EXCEPT ![kind] = @ + 1]
  <2>1. row \in Row /\ rows[c].update <= row.update /\ rows[c].reset <= row.reset
    <3>1. CASE kind = "update"
      BY <1>3, <3>1 DEF Row
    <3>2. CASE kind = "reset"
      BY <1>3, <3>2 DEF Row
    <3> QED
      BY <3>1, <3>2
  <2>2. to = [rows EXCEPT ![c] = row]
    BY <1>1, <1>4
  <2> HIDE DEF row
  <2>3. to \in [Courses -> Row]
    BY <1>3, <2>1, <2>2
  <2>4. Below(rows, to)
    BY <1>3, <2>1, <2>2 DEF Below, Row
  <2> QED
    BY <2>3, <2>4
<1>6. \A d \in done : /\ Reached(d, rows) => Reached(d, to)
                      /\ Excused(d, rows) => Excused(d, to)
  BY <1>3, <1>5, GrowthKeeps DEF DeskTypes
<1>7. DeskTypes'
  BY <1>2, <1>4, <1>5 DEF DeskTypes
<1>8. CommandsAreClicked' /\ TokensAreSpentOnce' /\ CallsAreAlone'
  BY <1>2 DEF CommandsAreClicked, TokensAreSpentOnce, CallsAreAlone
<1>9. NothingIsAhead'
  <2>1. Below(desk.entries, to)
    BY <1>3, <1>5, BelowIsTransitive DEF NothingIsAhead, DeskTypes, Desk
  <2>2. \A j \in 1 .. MaxCalls : Below(calls[j].rows, to)
    BY <1>3, <1>5, BelowIsTransitive DEF NothingIsAhead, DeskTypes, WorkspaceCall
  <2> QED
    BY <1>2, <1>4, <1>6, <2>1, <2>2 DEF NothingIsAhead
<1>10. AnswersFit'
  BY <1>2, <1>4, <1>6 DEF AnswersFit, AnswerFits, Committed
<1>11. ReportsFit'
  BY <1>2, <1>4, <1>6 DEF ReportsFit
<1> QED
  BY <1>7, <1>8, <1>9, <1>10, <1>11

-----------------------------------------------------------------------------
(* The page.                                                               *)

(* A command is sent, from a page that differs in its target at most.      *)
LEMMA ExecuteStep ==
    ASSUME DeskInv, NEW page \in Desk, NEW command \in Operation, Execute(page, command),
           Clicked(command), clicks' \in Nat, page.entries = desk.entries,
           page.target.kind # "create" => page.target.course \in Courses
    PROVE  DeskInv'
<1> USE DEF DeskInv
<1> DEFINE same == {j \in 1 .. MaxCalls : calls[j].waits /\ calls[j].command = command}
<1> DEFINE call == [NoCall EXCEPT !.command = command, !.waits = TRUE, !.alone = same = {}]
<1> DEFINE Joined(j) == [calls[j] EXCEPT !.alone = FALSE]
<1>1. DOMAIN calls = 1 .. MaxCalls /\ calls \in [1 .. MaxCalls -> WorkspaceCall]
  BY DEF DeskTypes
<1>2. PICK i \in 1 .. MaxCalls :
        /\ calls[i] = NoCall
        /\ calls' = [j \in 1 .. MaxCalls |-> IF j = i THEN call
                                             ELSE IF j \in same THEN Joined(j)
                                             ELSE calls[j]]
  <2>1. same = {j \in DOMAIN calls : calls[j].waits /\ calls[j].command = command}
    BY <1>1
  <2>2. PICK set : set = same
    OBVIOUS
  <2>3. PICK i \in DOMAIN calls :
          /\ calls[i] = NoCall
          /\ calls' = [j \in DOMAIN calls |->
                        IF j = i THEN [NoCall EXCEPT !.command = command, !.waits = TRUE,
                                                     !.alone = set = {}]
                        ELSE IF j \in set THEN [calls[j] EXCEPT !.alone = FALSE]
                        ELSE calls[j]]
    <3> HIDE DEF same
    <3> QED
      BY <2>1, <2>2 DEF Execute
  <2> HIDE DEF same
  <2> QED
    BY <1>1, <2>2, <2>3
<1>3. /\ call \in WorkspaceCall /\ call.command = command /\ call.waits = TRUE
      /\ call.what = "perform" /\ call.outcome = "none" /\ call.rows = NoCall.rows
      /\ call.alone = (same = {})
  <2>1. (same = {}) \in BOOLEAN
    OBVIOUS
  <2> HIDE DEF same
  <2> QED
    BY <2>1, NoCallFits DEF WorkspaceCall
<1>4. \A j \in 1 .. MaxCalls :
         /\ Joined(j) \in WorkspaceCall /\ Joined(j).command = calls[j].command
         /\ Joined(j).what = calls[j].what /\ Joined(j).waits = calls[j].waits
         /\ Joined(j).outcome = calls[j].outcome /\ Joined(j).rows = calls[j].rows
         /\ Joined(j).alone = FALSE
  BY <1>1 DEF WorkspaceCall
<1> HIDE DEF call, Joined
<1>5. \A j \in 1 .. MaxCalls :
         j # i => /\ calls'[j].command = calls[j].command /\ calls'[j].what = calls[j].what
                  /\ calls'[j].waits = calls[j].waits /\ calls'[j].outcome = calls[j].outcome
                  /\ calls'[j].rows = calls[j].rows
                  /\ calls'[j].alone => calls[j].alone /\ j \notin same
  BY <1>2, <1>4
<1>6. calls'[i] = call /\ calls' \in [1 .. MaxCalls -> WorkspaceCall]
  BY <1>1, <1>2, <1>3, <1>4
<1>7. UNCHANGED <<rows, done, slips>>
  BY DEF Execute
<1>8. /\ desk' \in Desk /\ desk'.entries = desk.entries /\ desk'.pending = command
      /\ desk'.success = NoOperation /\ desk'.error = NoOperation /\ desk'.target = page.target
  <2>1. command.kind \in Kinds
    BY DEF Operation
  <2>2. desk' = [page EXCEPT !.action = command.kind, !.pending = command,
                            !.unknown = FALSE, !.success = NoOperation, !.error = NoOperation]
    BY DEF Execute
  <2> QED
    BY <2>1, <2>2, NoCallFits DEF Desk
<1>9. DeskTypes'
  BY <1>6, <1>7, <1>8 DEF DeskTypes
<1>10. CommandsAreClicked'
  BY <1>3, <1>5, <1>6, <1>7, <1>8 DEF CommandsAreClicked
<1>11. TokensAreSpentOnce'
  BY <1>7 DEF TokensAreSpentOnce
<1>12. NothingIsAhead'
  <2>1. \A j \in 1 .. MaxCalls : Below(calls'[j].rows, rows)
    BY <1>3, <1>5, <1>6, NoCallFits DEF NothingIsAhead, DeskTypes
  <2> QED
    BY <2>1, <1>7, <1>8 DEF NothingIsAhead
<1>13. CallsAreAlone'
  <2> SUFFICES ASSUME NEW j \in 1 .. MaxCalls, NEW k \in 1 .. MaxCalls, j # k,
                      calls'[j].waits, calls'[k].waits, calls'[j].command = calls'[k].command,
                      calls'[j].alone
               PROVE  FALSE
    BY DEF CallsAreAlone
  <2>1. CASE j = i
    <3>1. k \in same
      BY <2>1, <1>3, <1>5, <1>6
    <3> QED
      BY <2>1, <3>1, <1>3, <1>6
  <2>2. CASE k = i
    <3>1. j \in same
      BY <2>2, <1>3, <1>5, <1>6
    <3> QED
      BY <2>2, <3>1, <1>5
  <2>3. CASE j # i /\ k # i
    BY <2>3, <1>5 DEF CallsAreAlone
  <2> QED
    BY <2>1, <2>2, <2>3
<1>14. AnswersFit'
  <2>1. \A j \in 1 .. MaxCalls : AnswerFits(calls[j])
    BY DEF AnswersFit
  <2>2. \A j \in 1 .. MaxCalls : j # i => AnswerFits(calls'[j])
    BY <2>1, <1>5 DEF AnswerFits
  <2>3. AnswerFits(calls'[i])
    BY <1>3, <1>6 DEF AnswerFits
  <2> QED
    BY <2>2, <2>3, <1>7 DEF AnswersFit, AnswerFits, Committed
<1>15. ReportsFit'
  BY <1>7, <1>8, NoCallFits DEF ReportsFit, Excused
<1> QED
  BY <1>9, <1>10, <1>11, <1>12, <1>13, <1>14, <1>15

LEMMA ClickStep ==
    ASSUME DeskInv, NEW page \in Desk, NEW kind \in Kinds,
           NEW c \in Courses \cup {NoCourse}, NEW expected \in Nat,
           Click(page, kind, c, expected), kind # "create" => c \in Courses,
           page.entries = desk.entries,
           page.target.kind # "create" => page.target.course \in Courses
    PROVE  DeskInv'
<1>1. clicks \in Nat
  BY DEF DeskInv, DeskTypes
<1>2. PICK command : command = [click |-> clicks + 1, token |-> clicks + 1, kind |-> kind,
                                course |-> c, expected |-> expected]
  OBVIOUS
<1>3. command \in Operation /\ Clicked(command)
  BY <1>1, <1>2 DEF Operation, Clicked
<1>4. Execute(page, command) /\ clicks' \in Nat
  BY <1>1, <1>2 DEF Click
<1> QED
  BY <1>3, <1>4, ExecuteStep

(* The page handles an answer, or opens or closes a form.                  *)
LEMMA DeskStep ==
    ASSUME DeskInv, UNCHANGED <<rows, done, clicks, slips>>,
           calls' \in [1 .. MaxCalls -> WorkspaceCall], KeepsCalls,
           \A j \in 1 .. MaxCalls :
              /\ Clicked(calls'[j].command)
              /\ Below(calls'[j].rows, rows)
              /\ AnswerFits(calls'[j]),
           desk' \in Desk, Below(desk'.entries, rows), Clicked(desk'.pending),
           desk'.target.kind # "create" => desk'.target.course \in Courses,
           \/ desk'.success = desk.success
           \/ \E d \in done : d.command.token = desk'.success.token,
           \/ desk'.error = desk.error
           \/ /\ \A d \in done : d.command = desk'.error => Excused(d, rows)
              /\ \A j \in 1 .. MaxCalls :
                    calls'[j].waits /\ calls'[j].command = desk'.error => ~calls'[j].alone
    PROVE  DeskInv'
<1> USE DEF DeskInv
<1>1. DeskTypes'
  BY DEF DeskTypes
<1>2. CommandsAreClicked'
  BY DEF CommandsAreClicked
<1>3. TokensAreSpentOnce'
  BY DEF TokensAreSpentOnce
<1>4. NothingIsAhead'
  BY DEF NothingIsAhead
<1>5. CallsAreAlone'
  BY KeptCallsAreAlone
<1>6. AnswersFit'
  BY DEF AnswersFit, AnswerFits, Committed
<1>7. ReportsFit'
  <2>1. desk'.success # NoOperation =>
           \E d \in done' : d.command.token = desk'.success.token
    BY DEF ReportsFit
  <2>2. /\ \A d \in done : d.command = desk'.error => Excused(d, rows)
        /\ desk'.error.kind # "create" =>
              \A j \in 1 .. MaxCalls :
                  calls'[j].waits /\ calls'[j].command = desk'.error => ~calls'[j].alone
    <3>1. CASE desk'.error = desk.error
      BY <3>1 DEF ReportsFit, KeepsCalls
    <3>2. CASE desk'.error # desk.error
      BY <3>2
    <3> QED
      BY <3>1, <3>2
  <2>3. \A d \in done' : d.command = desk'.error => Excused(d, rows)'
    BY <2>2 DEF Excused
  <2> QED
    BY <2>1, <2>2, <2>3 DEF ReportsFit
<1> QED
  BY <1>1, <1>2, <1>3, <1>4, <1>5, <1>6, <1>7

LEMMA HandleStep ==
    ASSUME DeskInv, NEW i \in 1 .. MaxCalls, Handle(i)
    PROVE  DeskInv'
<1> USE DEF DeskInv
<1> DEFINE command == calls[i].command
<1> DEFINE ended == [calls EXCEPT ![i] = NoCall]
<1>1. /\ calls[i] \in WorkspaceCall /\ calls \in [1 .. MaxCalls -> WorkspaceCall]
      /\ desk \in Desk /\ rows \in [Courses -> Row] /\ AnswerFits(calls[i])
      /\ command \in Operation /\ Clicked(command) /\ Below(calls[i].rows, rows)
      /\ Below(desk.entries, rows) /\ Clicked(desk.pending)
      /\ desk.target.kind # "create" => desk.target.course \in Courses
  BY DEF DeskTypes, AnswersFit, CommandsAreClicked, NothingIsAhead, WorkspaceCall
<1>2. UNCHANGED <<rows, done, clicks, slips>> /\ calls[i].waits /\ calls[i].outcome # "none"
  BY DEF Handle
<1>3. ASSUME calls' = ended
      PROVE  /\ KeepsCalls /\ calls' \in [1 .. MaxCalls -> WorkspaceCall]
             /\ \A j \in 1 .. MaxCalls : /\ Clicked(calls'[j].command)
                                         /\ Below(calls'[j].rows, rows)
                                         /\ AnswerFits(calls'[j])
             /\ \A j \in 1 .. MaxCalls :
                   calls'[j].waits /\ calls'[j].command = command => ~calls'[j].alone
  <2>1. /\ calls' \in [1 .. MaxCalls -> WorkspaceCall] /\ calls'[i] = NoCall
        /\ \A j \in 1 .. MaxCalls : j # i => calls'[j] = calls[j]
    BY <1>1, <1>3, NoCallFits
  <2>2. KeepsCalls
    BY <2>1, NoCallFits DEF KeepsCalls
  <2>3. \A j \in 1 .. MaxCalls : /\ Clicked(calls'[j].command)
                                 /\ Below(calls'[j].rows, rows)
                                 /\ AnswerFits(calls'[j])
    BY <1>1, <2>1, NoCallFits DEF AnswersFit, CommandsAreClicked, NothingIsAhead
  <2>4. \A j \in 1 .. MaxCalls :
           calls'[j].waits /\ calls'[j].command = command => ~calls'[j].alone
    BY <1>2, <2>1, NoCallFits DEF CallsAreAlone
  <2> QED
    BY <2>1, <2>2, <2>3, <2>4
<1>4. /\ Idle \in Desk /\ Idle.entries = desk.entries /\ Idle.pending = desk.pending
      /\ Idle.success = desk.success /\ Idle.error = desk.error /\ Idle.target = desk.target
  BY <1>1 DEF Idle, Desk
<1>5. CASE IsUnknownResult(i)
  <2>1. desk' = [Idle EXCEPT !.unknown = TRUE] /\ calls' = ended
    BY <1>5 DEF Handle
  <2>2. /\ desk' \in Desk /\ desk'.entries = desk.entries /\ desk'.pending = desk.pending
        /\ desk'.success = desk.success /\ desk'.error = desk.error
        /\ desk'.target = desk.target
    BY <1>4, <2>1 DEF Desk
  <2> QED
    BY <1>1, <1>2, <1>3, <2>1, <2>2, DeskStep
<1>6. CASE ~IsUnknownResult(i) /\ calls[i].outcome # "done"
  <2>1. desk' = [Idle EXCEPT !.pending = NoOperation, !.error = command] /\ calls' = ended
    BY <1>6 DEF Handle
  <2>2. /\ desk' \in Desk /\ desk'.entries = desk.entries /\ desk'.pending = NoOperation
        /\ desk'.success = desk.success /\ desk'.error = command
        /\ desk'.target = desk.target
    BY <1>1, <1>4, <2>1, NoCallFits DEF Desk
  <2>3. calls[i].outcome = "refused"
    BY <1>1, <1>2, <1>6 DEF IsUnknownResult, WorkspaceCall, Results
  <2>4. \A d \in done : d.command = command => Excused(d, rows)
    BY <1>1, <2>3 DEF AnswerFits
  <2> QED
    BY <1>1, <1>2, <1>3, <2>1, <2>2, <2>4, NoCallFits, DeskStep
<1>7. CASE calls[i].outcome = "done" /\ calls[i].what = "list"
  <2>1. desk' = [Idle EXCEPT !.entries = calls[i].rows] /\ calls' = ended
    BY <1>7 DEF Handle, Shown, IsUnknownResult
  <2>2. /\ desk' \in Desk /\ desk'.entries = calls[i].rows /\ desk'.pending = desk.pending
        /\ desk'.success = desk.success /\ desk'.error = desk.error
        /\ desk'.target = desk.target
    BY <1>1, <1>4, <2>1 DEF Desk, WorkspaceCall
  <2> QED
    BY <1>1, <1>2, <1>3, <2>1, <2>2, DeskStep
<1>8. CASE /\ calls[i].outcome = "done" /\ calls[i].what # "list"
           /\ command.kind = "create"
  <2> DEFINE call == [calls[i] EXCEPT !.what = "list", !.outcome = "none"]
  <2>1. /\ desk' = [desk EXCEPT !.success = command, !.pending = NoOperation]
        /\ calls' = [calls EXCEPT ![i] = call]
    BY <1>8 DEF Handle, IsUnknownResult
  <2>2. /\ desk' \in Desk /\ desk'.entries = desk.entries /\ desk'.pending = NoOperation
        /\ desk'.success = command /\ desk'.error = desk.error
        /\ desk'.target = desk.target
    BY <1>1, <2>1, NoCallFits DEF Desk
  <2>3. /\ call \in WorkspaceCall /\ call.command = command
        /\ call.what = "list" /\ call.waits = calls[i].waits
        /\ call.alone = calls[i].alone /\ call.outcome = "none" /\ call.rows = calls[i].rows
    BY <1>1 DEF WorkspaceCall, Results
  <2> HIDE DEF call
  <2>4. /\ calls' \in [1 .. MaxCalls -> WorkspaceCall] /\ calls'[i] = call
        /\ \A j \in 1 .. MaxCalls : j # i => calls'[j] = calls[j]
    BY <1>1, <2>1, <2>3
  <2>5. KeepsCalls
    BY <2>3, <2>4 DEF KeepsCalls
  <2>6. AnswerFits(call)
    BY <1>8, <2>3 DEF AnswerFits
  <2>7. \A j \in 1 .. MaxCalls : /\ Clicked(calls'[j].command)
                                 /\ Below(calls'[j].rows, rows)
                                 /\ AnswerFits(calls'[j])
    BY <1>1, <2>3, <2>4, <2>6 DEF AnswersFit, CommandsAreClicked, NothingIsAhead
  <2>8. \E d \in done : d.command.token = command.token
    BY <1>1, <1>8 DEF AnswerFits, WorkspaceCall, Committed
  <2> QED
    BY <1>1, <1>2, <2>2, <2>4, <2>5, <2>7, <2>8, NoCallFits, DeskStep
<1>9. CASE /\ calls[i].outcome = "done" /\ calls[i].what # "list"
           /\ command.kind # "create"
  <2>1. PICK entries : entries = Shown(i)
    OBVIOUS
  <2>2. command.course \in Courses /\ command.kind \in {"update", "reset"}
    BY <1>1, <1>9 DEF Clicked, Operation, Kinds
  <2>3. PICK c \in Courses, kind \in {"update", "reset"} :
           c = command.course /\ kind = command.kind
    BY <2>2
  <2>4. entries = [desk.entries EXCEPT ![c][kind] = calls[i].rows[c][kind]]
    BY <1>9, <2>1, <2>3 DEF Shown
  <2>5. desk.entries \in [Courses -> Row] /\ calls[i].rows \in [Courses -> Row]
    BY <1>1 DEF Desk, WorkspaceCall
  <2>6. entries \in [Courses -> Row] /\ Below(entries, rows)
    <3> DEFINE row == [desk.entries[c] EXCEPT ![kind] = calls[i].rows[c][kind]]
    <3>1. row \in Row /\ row.update <= rows[c].update /\ row.reset <= rows[c].reset
      <4>1. CASE kind = "update"
        BY <1>1, <2>5, <4>1 DEF Row, Below
      <4>2. CASE kind = "reset"
        BY <1>1, <2>5, <4>2 DEF Row, Below
      <4> QED
        BY <4>1, <4>2
    <3>2. entries = [desk.entries EXCEPT ![c] = row]
      BY <2>4
    <3> HIDE DEF row
    <3>3. entries \in [Courses -> Row]
      BY <2>5, <3>1, <3>2
    <3>4. Below(entries, rows)
      BY <1>1, <2>5, <3>1, <3>2 DEF Below
    <3> QED
      BY <3>3, <3>4
  <2> DEFINE page == [Idle EXCEPT !.success = command, !.pending = NoOperation,
                                  !.entries = entries]
  <2>7. /\ page \in Desk /\ page.entries = entries /\ page.pending = NoOperation
        /\ page.success = command /\ page.error = desk.error /\ page.target = desk.target
    BY <1>1, <1>4, <2>6, NoCallFits DEF Desk
  <2>8. PICK n \in Nat : desk' = [page EXCEPT !.target.expected = n]
    <3>1. entries[c].update \in Nat /\ desk.target.expected \in Nat
      BY <1>1, <2>6 DEF Row, Desk, Target
    <3>2. desk' = [page EXCEPT !.target.expected =
                      IF /\ command.kind = "update" /\ desk.target.kind = "update"
                         /\ desk.target.course = command.course
                      THEN entries[command.course].update ELSE desk.target.expected]
      BY <1>4, <1>9, <2>1 DEF Handle, IsUnknownResult
    <3> HIDE DEF page
    <3> QED
      BY <2>3, <3>1, <3>2
  <2> HIDE DEF page
  <2>9. /\ desk' \in Desk /\ desk'.entries = entries /\ desk'.pending = NoOperation
        /\ desk'.success = command /\ desk'.error = desk.error
        /\ desk'.target.kind = desk.target.kind /\ desk'.target.course = desk.target.course
    BY <1>1, <2>7, <2>8 DEF Desk, Target
  <2>10. calls' = ended
    BY <1>9 DEF Handle, IsUnknownResult
  <2>11. \E d \in done : d.command.token = command.token
    BY <1>1, <1>9 DEF AnswerFits, WorkspaceCall, Committed
  <2> QED
    BY <1>1, <1>2, <1>3, <2>6, <2>9, <2>10, <2>11, NoCallFits, DeskStep
<1> QED
  BY <1>5, <1>6, <1>7, <1>8, <1>9 DEF IsUnknownResult

(* Forms are opened and closed.                                            *)
LEMMA TargetStep ==
    ASSUME DeskInv, UNCHANGED <<rows, done, calls, clicks, slips>>, NEW target \in Target,
           desk' = [desk EXCEPT !.target = target],
           target.kind # "create" => target.course \in Courses
    PROVE  DeskInv'
<1> USE DEF DeskInv
<1>1. /\ desk' \in Desk /\ desk'.entries = desk.entries /\ desk'.pending = desk.pending
      /\ desk'.success = desk.success /\ desk'.error = desk.error /\ desk'.target = target
  BY DEF DeskTypes, Desk
<1>2. KeepsCalls
  BY DEF KeepsCalls
<1>3. \A j \in 1 .. MaxCalls : /\ Clicked(calls'[j].command)
                               /\ Below(calls'[j].rows, rows)
                               /\ AnswerFits(calls'[j])
  BY DEF AnswersFit, CommandsAreClicked, NothingIsAhead
<1>4. calls' \in [1 .. MaxCalls -> WorkspaceCall]
  BY DEF DeskTypes
<1>5. Below(desk.entries, rows) /\ Clicked(desk.pending)
  BY DEF NothingIsAhead, CommandsAreClicked
<1> QED
  BY <1>1, <1>2, <1>3, <1>4, <1>5, DeskStep

LEMMA FormStep ==
    ASSUME DeskInv,
           Close \/ \E kind \in {"update", "reset"}, c \in Courses : Open(kind, c)
    PROVE  DeskInv'
<1>1. CASE Close
  <2>1. NoTarget \in Target /\ NoTarget.kind = "create"
    BY DEF NoTarget, Target, Kinds
  <2>2. desk' = [desk EXCEPT !.target = NoTarget] /\ UNCHANGED <<rows, done, calls, clicks, slips>>
    BY <1>1 DEF Close
  <2> QED
    BY <2>1, <2>2, TargetStep
<1>2. ASSUME NEW kind \in {"update", "reset"}, NEW c \in Courses, Open(kind, c)
      PROVE  DeskInv'
  <2>1. PICK target : target = [kind |-> kind, course |-> c, expected |-> desk.entries[c][kind]]
    OBVIOUS
  <2>2. desk.entries[c] \in Row
    BY DEF DeskInv, DeskTypes, Desk
  <2>3. desk.entries[c][kind] \in Nat
    <3>1. CASE kind = "update"
      BY <2>2, <3>1 DEF Row
    <3>2. CASE kind = "reset"
      BY <2>2, <3>2 DEF Row
    <3> QED
      BY <3>1, <3>2
  <2>4. target \in Target /\ target.course \in Courses
    BY <2>1, <2>3 DEF Target, Kinds
  <2>5. desk' = [desk EXCEPT !.target = target] /\ UNCHANGED <<rows, done, calls, clicks, slips>>
    BY <1>2, <2>1 DEF Open
  <2> QED
    BY <2>4, <2>5, TargetStep
<1> QED
  BY <1>1, <1>2

LEMMA CommandStep ==
    ASSUME DeskInv, CreateCourse \/ UpdateLogin \/ ResetProgress \/ RetryUnknownOperation
    PROVE  DeskInv'
<1> USE DEF DeskInv
<1>1. PICK page : page = desk
  OBVIOUS
<1>2. /\ page \in Desk /\ page.entries = desk.entries /\ page.target \in Target
      /\ page.target.kind # "create" => page.target.course \in Courses
  BY <1>1 DEF DeskTypes, Desk, CommandsAreClicked
<1>3. CASE CreateCourse
  <2>1. Click(page, "create", NoCourse, 0)
    BY <1>1, <1>3 DEF CreateCourse
  <2> QED
    BY <1>2, <2>1, ClickStep DEF Kinds
<1>4. CASE UpdateLogin
  <2>1. Click(page, "update", page.target.course, page.target.expected)
        /\ page.target.kind = "update"
    BY <1>1, <1>4 DEF UpdateLogin
  <2>2. page.target.course \in Courses /\ page.target.expected \in Nat
    BY <1>2, <2>1 DEF Target
  <2> QED
    BY <1>2, <2>1, <2>2, ClickStep DEF Kinds
<1>5. CASE ResetProgress
  <2>1. PICK closed : closed = [page EXCEPT !.target = NoTarget]
    OBVIOUS
  <2>2. Click(closed, "reset", page.target.course, page.target.expected)
        /\ page.target.kind = "reset"
    BY <1>1, <1>5, <2>1 DEF ResetProgress
  <2>3. page.target.course \in Courses /\ page.target.expected \in Nat
    BY <1>2, <2>2 DEF Target
  <2>4. NoTarget \in Target /\ NoTarget.kind = "create"
    BY DEF NoTarget, Target, Kinds
  <2>5. closed \in Desk /\ closed.entries = page.entries /\ closed.target = NoTarget
    BY <1>2, <2>1, <2>4 DEF Desk
  <2> QED
    BY <1>2, <2>2, <2>3, <2>4, <2>5, ClickStep DEF Kinds
<1>6. CASE RetryUnknownOperation
  <2>1. PICK command : command = desk.pending
    OBVIOUS
  <2>2. Execute(page, command) /\ clicks' = clicks
    BY <1>1, <1>6, <2>1 DEF RetryUnknownOperation
  <2>3. command \in Operation /\ Clicked(command) /\ clicks' \in Nat
    BY <2>1, <2>2 DEF DeskTypes, Desk, CommandsAreClicked
  <2> QED
    BY <1>2, <2>2, <2>3, ExecuteStep
<1> QED
  BY <1>3, <1>4, <1>5, <1>6

LEMMA PerformStep ==
    ASSUME DeskInv, NEW i \in 1 .. MaxCalls, Perform(i)
    PROVE  DeskInv'
<1>1. UNCHANGED <<desk, clicks, slips>>
  BY DEF Perform
<1>2. CASE calls[i].what = "list"
  <2>1. Returns(i, "done", rows) /\ UNCHANGED <<rows, done>>
    BY <1>2 DEF Perform, ListCourses
  <2> QED
    BY <1>1, <1>2, <2>1, RowsAreReached, ReturnsStep
<1>3. CASE calls[i].what # "list"
  <2>1. Commit(i) \/ Refuse(i) \/ ReturnRecorded(i)
    BY <1>3 DEF Perform
  <2> QED
    BY <1>1, <2>1, CommitStep, RefuseStep, ReturnRecordedStep
<1> QED
  BY <1>2, <1>3

LEMMA DeskInvStep == DeskInv /\ [DeskNext]_deskVars => DeskInv'
<1> SUFFICES ASSUME DeskInv, [DeskNext]_deskVars PROVE DeskInv'
  OBVIOUS
<1>1. DOMAIN calls = 1 .. MaxCalls
  BY DEF DeskInv, DeskTypes
<1>2. ASSUME NEW i \in DOMAIN calls, Perform(i) \/ FailCall(i) \/ Handle(i)
      PROVE  DeskInv'
  BY <1>1, <1>2, PerformStep, FailCallStep, HandleStep
<1>3. CASE CreateCourse \/ UpdateLogin \/ ResetProgress \/ RetryUnknownOperation
  BY <1>3, CommandStep
<1>4. CASE Close \/ \E kind \in {"update", "reset"}, c \in Courses : Open(kind, c)
  BY <1>4, FormStep
<1>5. CASE Overtake
  BY <1>5, OvertakeStep
<1>6. CASE UNCHANGED deskVars
  BY <1>6 DEF deskVars, DeskInv, DeskTypes, CommandsAreClicked, TokensAreSpentOnce,
     NothingIsAhead, CallsAreAlone, AnswersFit, AnswerFits, Committed, ReportsFit, Excused,
     Reached, Below, Clicked
<1> QED
  BY <1>2, <1>3, <1>4, <1>5, <1>6 DEF DeskNext

LEMMA DeskInvImplies == DeskInv => DeskIsTrue
<1> SUFFICES ASSUME DeskInv PROVE DeskIsTrue
  OBVIOUS
<1> USE DEF DeskInv
<1>1. DOMAIN calls = 1 .. MaxCalls
  BY DEF DeskTypes
<1>2. DeskTypeOK
  <2>1. \A c \in Courses, kind \in {"update", "reset"} :
           desk.entries[c][kind] <= rows[c][kind]
    <3> SUFFICES ASSUME NEW c \in Courses, NEW kind \in {"update", "reset"}
                 PROVE  desk.entries[c][kind] <= rows[c][kind]
      OBVIOUS
    <3>1. desk.entries[c].update <= rows[c].update /\ desk.entries[c].reset <= rows[c].reset
      BY DEF NothingIsAhead, Below
    <3>2. CASE kind = "update"
      BY <3>1, <3>2
    <3>3. CASE kind = "reset"
      BY <3>1, <3>3
    <3> QED
      BY <3>2, <3>3
  <2>2. \A i \in DOMAIN calls :
           /\ calls[i].command \in Operation \cup {NoOperation} /\ calls[i].outcome \in Results
           /\ calls[i].outcome # "none" => calls[i].waits
    BY <1>1 DEF DeskTypes, WorkspaceCall, AnswersFit, AnswerFits
  <2>3. desk.action \in Kinds \cup {"idle"} /\ rows \in [Courses -> Row]
    BY DEF DeskTypes, Desk
  <2> QED
    BY <2>1, <2>2, <2>3 DEF DeskTypeOK
<1>3. OneEffectPerClick
  BY DEF OneEffectPerClick, CommandsAreClicked, TokensAreSpentOnce, Clicked
<1>4. ReportsAreTrue
  <2>1. desk.success # NoOperation => Committed(desk.success) # {}
    BY DEF ReportsFit, Committed
  <2>2. ASSUME NEW d \in done, desk.error = d.command
        PROVE  \/ d.late \/ d.command.kind = "create"
               \/ rows[d.course][d.command.kind] > d.no
    <3>1. Excused(d, rows)
      BY <2>2 DEF ReportsFit
    <3>2. CASE d.command.kind = "update"
      BY <3>1, <3>2 DEF Excused
    <3>3. CASE d.command.kind = "reset"
      BY <3>1, <3>3 DEF Excused
    <3>4. CASE d.command.kind = "create"
      BY <3>4
    <3>5. d.command.kind \in Kinds
      BY DEF DeskTypes, DoneOperation, Operation
    <3> QED
      BY <3>2, <3>3, <3>4, <3>5 DEF Kinds
  <2> QED
    BY <2>1, <2>2 DEF ReportsAreTrue
<1> QED
  BY <1>2, <1>3, <1>4 DEF DeskIsTrue

(* However calls are lost, delayed and repeated, one click has one effect, *)
(* and what the page of the courses reports is what was done: a success    *)
(* that was committed, and an error only for what was not, or what         *)
(* something later explains.                                               *)
THEOREM DeskStaysTrue == DeskSpec => []DeskIsTrue
<1>1. DeskInv /\ [DeskNext]_deskVars => DeskInv'
  BY DeskInvStep
<1>2. DeskInit => DeskInv
  BY DeskStarts
<1>3. DeskInv => DeskIsTrue
  BY DeskInvImplies
<1> QED
  BY <1>1, <1>2, <1>3, PTL DEF DeskSpec
=============================================================================
