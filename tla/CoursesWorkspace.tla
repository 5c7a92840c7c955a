----------------------------- MODULE CoursesWorkspace -----------------------------
(***************************************************************************)
(* The workspace where an administrator creates courses, changes logins    *)
(* and resets progress.  A command is known by its click, for each click   *)
(* generates one operation token; a call that ends with an unknown result  *)
(* is repeated with the same token.  Calls are served at one point in time *)
(* each, as LearnerAccess shows, and may be lost, before or after that.    *)
(*                                                                         *)
(* Abstracted: names, PINs, the list of source versions and the form; that *)
(* a phone only reads; whether an account is free is left open.            *)
(***************************************************************************)
EXTENDS Integers, FiniteSets

CONSTANTS
    Courses,        \* courses and their learners
    FirstCourses,   \* those that exist when the page is opened
    NoCourse,
    MaxClicks,      \* bound: commands the administrator gives
    MaxCalls,       \* bound: calls on the way at a time
    MaxSlips,       \* bound: calls with an unknown result, and other failures
    MaxNo           \* bound: credential versions and runs of a course

ASSUME WorkspaceAssumption ==
    /\ FirstCourses \subseteq Courses /\ NoCourse \notin Courses
    /\ MaxClicks \in Nat /\ MaxCalls \in Nat /\ MaxSlips \in Nat /\ MaxNo \in Nat

VARIABLES
    rows,       \* credential version and learning run of each course, 0 for none
    done,       \* committed operations
    calls,      \* calls on the way
    desk,       \* the page
    clicks,     \* number of commands given
    slips       \* number of failures so far

deskVars == <<rows, done, calls, desk, clicks, slips>>

Kinds == {"create", "update", "reset"}
Row == [update : Nat, reset : Nat]
NoRow == [update |-> 0, reset |-> 0]

(* A command expects the version, or the run, that the page shows.         *)
Operation == [click : Nat, token : Nat, kind : Kinds, course : Courses \cup {NoCourse},
            expected : Nat]
NoOperation == [click |-> 0, token |-> 0, kind |-> "create", course |-> NoCourse,
              expected |-> 0]

(* What a call returns, and the rows it reports.  alone: the page has not  *)
(* sent the command again while it waited for this call.                   *)
Results == {"none", "done", "refused", "unknown"}
NoCall == [command |-> NoOperation, what |-> "perform", waits |-> FALSE, alone |-> TRUE,
           outcome |-> "none", rows |-> [c \in Courses |-> NoRow]]

(* The course whose form or confirmation is open, as it was listed then.   *)
NoTarget == [kind |-> "create", course |-> NoCourse, expected |-> 0]

OpenedDesk == [action |-> "idle", entries |-> rows, pending |-> NoOperation,
               unknown |-> FALSE, success |-> NoOperation, error |-> NoOperation,
               target |-> NoTarget]

DeskInit ==
    /\ rows = [c \in Courses |-> IF c \in FirstCourses THEN [update |-> 1, reset |-> 1]
                                                       ELSE NoRow]
    /\ done = {}
    /\ calls = [i \in 1 .. MaxCalls |-> NoCall]
    /\ desk = OpenedDesk
    /\ clicks = 0 /\ slips = 0

Slip == slips < MaxSlips /\ slips' = slips + 1

-----------------------------------------------------------------------------
(* The server.  A recorded login update is returned again while it is the  *)
(* one in force.                                                           *)
Committed(command) == {d \in done : d.command.token = command.token}

IsInForce(d) == d.command.kind = "reset" \/ rows[d.course].update = d.no

Returns(i, outcome, to) ==
    calls' = [calls EXCEPT ![i] =
                IF calls[i].waits THEN [@ EXCEPT !.outcome = outcome, !.rows = to] ELSE NoCall]

(* A command that was not recorded changes one row, or is refused.         *)
Changes(command) ==
    IF command.kind = "create"
    THEN {[rows EXCEPT ![c] = [update |-> 1, reset |-> 1]] : c \in {d \in Courses : rows[d] = NoRow}}
    ELSE IF rows[command.course][command.kind] = command.expected
    THEN {[rows EXCEPT ![command.course][command.kind] = @ + 1]}
    ELSE {}

Commit(i) ==
    LET command == calls[i].command IN
    /\ Committed(command) = {}
    /\ \E to \in Changes(command) :
          LET c == CHOOSE d \in Courses : to[d] # rows[d] IN
          /\ rows' = to
          /\ done' = done \cup {[command |-> command, course |-> c, late |-> ~calls[i].waits \/ ~calls[i].alone,
                                 no |-> to[c][IF command.kind = "create" THEN "update"
                                                                         ELSE command.kind]]}
          /\ Returns(i, "done", to)

Refuse(i) ==
    LET command == calls[i].command IN
    /\ Committed(command) = {} /\ (command.kind = "reset" => Changes(command) = {})
    /\ Returns(i, "refused", rows)
    /\ UNCHANGED <<rows, done>>

(* A recorded reset reports the run it began, whatever the run is now.     *)
RecordedRows(d) ==
    IF d.command.kind = "reset" THEN [rows EXCEPT ![d.course].reset = d.no] ELSE rows

ReturnRecorded(i) ==
    /\ \E d \in Committed(calls[i].command) :
          Returns(i, IF IsInForce(d) THEN "done" ELSE "refused", RecordedRows(d))
    /\ UNCHANGED <<rows, done>>

ListCourses(i) == Returns(i, "done", rows) /\ UNCHANGED <<rows, done>>

Perform(i) ==
    /\ calls[i] # NoCall /\ calls[i].outcome = "none"
    /\ IF calls[i].what = "list" THEN ListCourses(i)
       ELSE Commit(i) \/ Refuse(i) \/ ReturnRecorded(i)
    /\ UNCHANGED <<desk, clicks, slips>>

(* The session has ended, the database fails, or the call is lost, before  *)
(* it was served or after; it may also arrive later.                       *)
FailCall(i) ==
    /\ calls[i].waits /\ Slip
    /\ \/ \E outcome \in {"unknown", "refused"} :
             /\ outcome = "refused" => calls[i].what = "list" /\ calls[i].outcome = "none"
             /\ calls[i].outcome # "unknown"
             /\ calls' = [calls EXCEPT ![i].outcome = outcome]
       \/ /\ calls[i].outcome = "none" /\ calls[i].what = "perform"
          /\ \E j \in DOMAIN calls :
                /\ calls[j] = NoCall
                /\ \A k \in 1 .. j - 1 : calls[k] # NoCall
                /\ calls' = [calls EXCEPT ![i].outcome = "unknown",
                                          ![j] = [calls[i] EXCEPT !.waits = FALSE]]
    /\ UNCHANGED <<rows, done, desk, clicks>>

-----------------------------------------------------------------------------
(* executeCreate, executeLoginUpdate, executeReset: up to the call.        *)
Execute(page, command) ==
    /\ LET same == {j \in DOMAIN calls : calls[j].waits /\ calls[j].command = command} IN
       \E i \in DOMAIN calls :
          /\ calls[i] = NoCall /\ \A k \in 1 .. i - 1 : calls[k] # NoCall
          /\ calls' = [j \in DOMAIN calls |->
                         IF j = i THEN [NoCall EXCEPT !.command = command, !.waits = TRUE,
                                                      !.alone = same = {}]
                         ELSE IF j \in same THEN [calls[j] EXCEPT !.alone = FALSE]
                         ELSE calls[j]]
    /\ desk' = [page EXCEPT !.action = command.kind, !.pending = command,
                            !.unknown = FALSE, !.success = NoOperation, !.error = NoOperation]
    /\ UNCHANGED <<rows, done, slips>>

Click(page, kind, c, expected) ==
    /\ clicks < MaxClicks /\ clicks' = clicks + 1
    /\ Execute(page, [click |-> clicks + 1, token |-> clicks + 1, kind |-> kind,
                      course |-> c, expected |-> expected])

IsFree == desk.action = "idle" /\ desk.pending = NoOperation

CreateCourse == IsFree /\ Click(desk, "create", NoCourse, 0)

(* openLoginEditor, openResetConfirmation; closing either.                 *)
Open(kind, c) ==
    /\ IsFree /\ desk.entries[c] # NoRow
    /\ desk' = [desk EXCEPT !.target = [kind |-> kind, course |-> c,
                                        expected |-> desk.entries[c][kind]]]
    /\ UNCHANGED <<rows, done, calls, clicks, slips>>

Close ==
    /\ desk.target # NoTarget /\ desk' = [desk EXCEPT !.target = NoTarget]
    /\ UNCHANGED <<rows, done, calls, clicks, slips>>

UpdateLogin ==
    /\ IsFree /\ desk.target.kind = "update"
    /\ Click(desk, "update", desk.target.course, desk.target.expected)

(* The button asks for no pending command, but not for an idle page.       *)
ResetProgress ==
    /\ desk.target.kind = "reset" /\ desk.pending = NoOperation
    /\ Click([desk EXCEPT !.target = NoTarget], "reset", desk.target.course,
             desk.target.expected)

(* Mutant: the retry gets a token of its own.                              *)
RetryWithNewToken ==
    /\ desk.unknown /\ desk.action = "idle" /\ desk.pending # NoOperation
    /\ clicks < MaxClicks /\ clicks' = clicks + 1
    /\ Execute(desk, [desk.pending EXCEPT !.token = clicks + 1])

RetryUnknownOperation ==
    /\ desk.unknown /\ desk.action = "idle" /\ desk.pending # NoOperation
    /\ Execute(desk, desk.pending) /\ UNCHANGED clicks

(* The rest of the three functions, from the answer to call i on.  The     *)
(* rows an answer brings replace what the page shows: the one row of the   *)
(* command, or the whole list.                                             *)
Shown(i) ==
    LET c == calls[i].command.course IN
    IF calls[i].what = "list" THEN calls[i].rows
    ELSE IF calls[i].command.kind = "create" THEN desk.entries
    ELSE [desk.entries EXCEPT ![c][calls[i].command.kind] =
             calls[i].rows[c][calls[i].command.kind]]

Idle == [desk EXCEPT !.action = "idle"]

IsUnknownResult(i) == calls[i].outcome = "unknown"

Handle(i) ==
    LET command == calls[i].command
        entries == Shown(i)
        isTarget == /\ command.kind = "update" /\ desk.target.kind = "update"
                    /\ desk.target.course = command.course
    IN
    /\ calls[i].waits /\ calls[i].outcome # "none"
    /\ IF IsUnknownResult(i)
       THEN /\ desk' = [Idle EXCEPT !.unknown = TRUE]
            /\ calls' = [calls EXCEPT ![i] = NoCall]
       ELSE IF calls[i].outcome # "done"
       THEN /\ desk' = [Idle EXCEPT !.pending = NoOperation, !.error = command]
            /\ calls' = [calls EXCEPT ![i] = NoCall]
       ELSE IF calls[i].what = "list"
       THEN /\ desk' = [Idle EXCEPT !.entries = entries]
            /\ calls' = [calls EXCEPT ![i] = NoCall]
       ELSE IF command.kind = "create"
       THEN /\ desk' = [desk EXCEPT !.success = command, !.pending = NoOperation]
            /\ calls' = [calls EXCEPT ![i] = [@ EXCEPT !.what = "list", !.outcome = "none"]]
       ELSE /\ desk' = [Idle EXCEPT !.success = command, !.pending = NoOperation,
                           !.entries = entries,
                           !.target.expected = IF isTarget THEN entries[command.course].update
                                                           ELSE @]
            /\ calls' = [calls EXCEPT ![i] = NoCall]
    /\ UNCHANGED <<rows, done, clicks, slips>>

(* Another administrator, or the learner, is faster.                       *)
Overtake ==
    /\ \E c \in Courses, kind \in {"update", "reset"} :
          /\ rows[c] # NoRow /\ rows[c][kind] < MaxNo
          /\ rows' = [rows EXCEPT ![c][kind] = @ + 1]
    /\ Slip
    /\ UNCHANGED <<done, calls, desk, clicks>>

DeskNext ==
    \/ \E i \in DOMAIN calls : Perform(i) \/ FailCall(i) \/ Handle(i)
    \/ CreateCourse \/ UpdateLogin \/ ResetProgress \/ RetryUnknownOperation
    \/ \E kind \in {"update", "reset"}, c \in Courses : Open(kind, c)
    \/ Close \/ Overtake

DeskSpec == DeskInit /\ [][DeskNext]_deskVars

-----------------------------------------------------------------------------
(* PROPERTIES                                                              *)

(* The page and the calls are in states of the program, and the page shows *)
(* no version and no run ahead of the server's.                            *)
DeskTypeOK ==
    /\ rows \in [Courses -> Row]
    /\ \A i \in DOMAIN calls :
          /\ calls[i].command \in Operation \cup {NoOperation} /\ calls[i].outcome \in Results
          /\ calls[i].outcome # "none" => calls[i].waits
    /\ desk.action \in Kinds \cup {"idle"}
    /\ \A c \in Courses, kind \in {"update", "reset"} :
          desk.entries[c][kind] <= rows[c][kind]

(* One click has one effect, however often its call is repeated.           *)
OneEffectPerClick ==
    \A d, e \in done : d.command.click = e.command.click => d = e

(* A success the page reports has been committed, and an error it reports  *)
(* for a command that was committed is about something that came later: a  *)
(* change that superseded it, the list of courses after a creation, or the *)
(* commit itself, by a call that was lost or not the only one.             *)
ReportsAreTrue ==
    /\ desk.success # NoOperation => Committed(desk.success) # {}
    /\ \A d \in done :
          desk.error = d.command => \/ d.late \/ d.command.kind = "create"
                                    \/ rows[d.course][d.command.kind] > d.no

(* The page of the courses shows what was done, once per click.            *)
DeskIsTrue == DeskTypeOK /\ OneEffectPerClick /\ ReportsAreTrue

(* What the alert of AdminCoursesWorkspace.vue and its test say of an      *)
(* unknown result: the same operation can be repeated.                     *)
UnknownResultCanBeRetried ==
    \A i \in DOMAIN calls :
        calls[i].waits /\ calls[i].what = "perform" =>
            desk.pending = calls[i].command
=============================================================================
