------------------------------ MODULE SourceImport ------------------------------
(***************************************************************************)
(* Importing a word list as a new source or as the next version of one.    *)
(* The tab of an administrator stores the command, with its one-time       *)
(* token, before it sends it, and sends it again, also after the page was  *)
(* left or loaded again, until it has a definite answer.  On the server a  *)
(* request is a process whose D1 statements and batches are its steps; the *)
(* ledger holds the tokens whose import has been committed.                *)
(*                                                                         *)
(* Abstracted: words and groups go with the version; a command always has  *)
(* the words it was first sent with, as the tab sends no other; the list   *)
(* of versions a page shows; being offline is being hidden.                *)
(***************************************************************************)
EXTENDS Integers, FiniteSets

CONSTANTS
    Tokens,         \* of the imports of this tab
    Requests,
    Source,         \* a source that exists already
    NoToken,
    MaxVersions,    \* bound: versions of Source
    MaxFaults,      \* bound: failed statements, dead requests, lost responses
    MaxMounts       \* bound: times the page is opened

ASSUME ImportAssumption ==
    /\ NoToken \notin Tokens /\ Source \notin Tokens
    /\ MaxVersions \in Nat /\ MaxFaults \in Nat /\ MaxMounts \in Nat \ {0}

VARIABLES
    versions,   \* source_versions
    ledger,     \* create_source rows of admin_operations
    at, loc,    \* the step each request takes next, and what it remembers
    tab,        \* the page
    stored,     \* the command in the session storage
    used,       \* tokens generated so far
    faults      \* number of faults so far

db == <<versions, ledger>>
client == <<tab, stored, used>>
importVars == <<db, at, loc, client, faults>>

-----------------------------------------------------------------------------
(* A new source is named by the token that imports it.                     *)
Command == [token : Tokens, source : Tokens \cup {Source}]
NoCommand == [token |-> NoToken, source |-> Source]

Version == [source : Tokens \cup {Source}, no : Nat, token : Tokens \cup {NoToken},
            status : {"draft", "published", "archived"}]

VersionsOf(s) == {v \in versions : v.source = s}
HasDraft(s) == \E v \in VersionsOf(s) : v.status = "draft"
NextNo(s) ==
    IF VersionsOf(s) = {} THEN 1
    ELSE 1 + CHOOSE n \in {v.no : v \in VersionsOf(s)} : \A v \in VersionsOf(s) : v.no <= n

Outcomes == {"imported", "refused", "unknown"}

Point == {"idle", "find", "schema", "list", "check", "insert", "reread", "find_again",
          "list_again", "replay", "reply"}

(* mount: the page that waits for the response, 0 for none.  alone: no     *)
(* other request has had its token while it was served.                    *)
Nothing == [command |-> NoCommand, mount |-> 0, no |-> 0, outcome |-> "unknown",
            alone |-> TRUE]

Closed == [mount |-> 0, open |-> FALSE, visible |-> TRUE, state |-> "idle",
           pending |-> NoCommand, waiting |-> FALSE, timer |-> FALSE,
           told |-> NoCommand, no |-> 0, alone |-> TRUE]

ImportInit ==
    /\ versions \in {{}, {[source |-> Source, no |-> 1, token |-> NoToken,
                           status |-> "published"]}}
    /\ ledger = {}
    /\ at = [r \in Requests |-> "idle"]
    /\ loc = [r \in Requests |-> Nothing]
    /\ tab = [Closed EXCEPT !.mount = 1, !.open = TRUE]
    /\ stored = NoCommand /\ used = {} /\ faults = 0

Goto(r, point, l) ==
    /\ at' = [at EXCEPT ![r] = point]
    /\ loc' = [loc EXCEPT ![r] = l]

Fault == faults < MaxFaults /\ faults' = faults + 1

-----------------------------------------------------------------------------
(* importSourceVersionIdempotently.  What is looked up or read is as it is *)
(* at that step; a statement that fails is the second disjunct.            *)
Reply(r, outcome) == Goto(r, "reply", [loc[r] EXCEPT !.outcome = outcome])

Step(r, point) == at[r] = point /\ UNCHANGED <<db, client>>

Own(r) == {v \in versions : v.token = loc[r].command.token}

(* reconcileSourceVersionImport.                                           *)
Find(r) ==
    /\ Step(r, "find")
    /\ \/ /\ Goto(r, IF loc[r].command.token \in ledger THEN "replay" ELSE "schema", loc[r])
          /\ UNCHANGED faults
       \/ Reply(r, "unknown") /\ Fault

AssertSchemaReady(r) ==
    /\ Step(r, "schema")
    /\ \/ /\ Goto(r, IF loc[r].command.source = Source THEN "list" ELSE "check",
                  [loc[r] EXCEPT !.no = 1])
          /\ UNCHANGED faults
       \/ Reply(r, "refused") /\ Fault

ListVersions(r) ==
    /\ Step(r, "list")
    /\ \/ /\ IF HasDraft(Source) THEN Reply(r, "refused")
             ELSE Goto(r, "check", [loc[r] EXCEPT !.no = NextNo(Source)])
          /\ UNCHANGED faults
       \/ Reply(r, "refused") /\ Fault

(* createSourceVersion: a look for a draft, the batch, and the version as  *)
(* it was written.  Whatever fails there, the ledger is looked up again.   *)
CheckDraft(r) ==
    /\ Step(r, "check")
    /\ \/ /\ Goto(r, IF HasDraft(loc[r].command.source) THEN "find_again" ELSE "insert", loc[r])
          /\ UNCHANGED faults
       \/ Goto(r, "find_again", loc[r]) /\ Fault

(* The unique columns: operation_hash, (source_id, version_no), and the    *)
(* draft of a source.                                                      *)
(* Mutant: the second is missing.                                          *)
MayInsertSameNo(c, no) == c.token \notin ledger /\ ~HasDraft(c.source)

MayInsert(c, no) ==
    /\ c.token \notin ledger
    /\ \A v \in VersionsOf(c.source) : v.no # no
    /\ ~HasDraft(c.source)

(* createImportedVersion.                                                  *)
Imported(c, no) == [source |-> c.source, no |-> no, token |-> c.token, status |-> "draft"]

InsertVersion(r) ==
    LET c == loc[r].command IN
    /\ at[r] = "insert" /\ UNCHANGED client
    /\ \/ /\ IF MayInsert(c, loc[r].no)
             THEN /\ versions' = versions \cup {Imported(c, loc[r].no)}
                  /\ ledger' = ledger \cup {c.token}
                  /\ \/ Goto(r, "reread", loc[r]) /\ UNCHANGED faults
                     \/ Goto(r, "find_again", loc[r]) /\ Fault
             ELSE Goto(r, "find_again", loc[r]) /\ UNCHANGED <<db, faults>>
       \/ Goto(r, "find_again", loc[r]) /\ UNCHANGED db /\ Fault

RereadVersion(r) ==
    /\ Step(r, "reread")
    /\ \/ Reply(r, "imported") /\ UNCHANGED faults
       \/ Goto(r, "find_again", loc[r]) /\ Fault

(* Mutant: after an error the ledger is not looked up again.               *)
IsCommittedNever(r) == FALSE

IsCommitted(r) == loc[r].command.token \in ledger

FindAgain(r) ==
    /\ Step(r, "find_again")
    /\ \/ /\ IF IsCommitted(r) THEN Goto(r, "replay", loc[r])
             ELSE IF loc[r].command.source = Source THEN Goto(r, "list_again", loc[r])
             ELSE Reply(r, "refused")
          /\ UNCHANGED faults
       \/ Reply(r, "unknown") /\ Fault

(* Draft or not, the import is refused; the error differs.                 *)
ListAgain(r) == Step(r, "list_again") /\ Reply(r, "refused") /\ UNCHANGED faults

(* replaySourceVersionImport: the version as it is recorded.               *)
Recorded(r) == (CHOOSE v \in versions : v.token = loc[r].command.token).no

ReplayImport(r) ==
    /\ Step(r, "replay")
    /\ \/ /\ Own(r) # {}
          /\ Goto(r, "reply", [loc[r] EXCEPT !.outcome = "imported", !.no = Recorded(r)])
          /\ UNCHANGED faults
       \/ Reply(r, "unknown") /\ Fault

Serve(r) ==
    \/ Find(r) \/ AssertSchemaReady(r) \/ ListVersions(r) \/ CheckDraft(r)
    \/ InsertVersion(r) \/ RereadVersion(r) \/ FindAgain(r) \/ ListAgain(r)
    \/ ReplayImport(r)

-----------------------------------------------------------------------------
(* useSourceVersionImport.  A page is known by its mount; what a page that *)
(* was left still waits for, it goes on to handle.                         *)
(* executeImport, up to the request.                                       *)
Send(page, c, state) ==
    \E r \in Requests :
        LET same == {q \in Requests : at[q] # "idle" /\ loc[q].command.token = c.token} IN
        /\ at[r] = "idle"
        /\ at' = [at EXCEPT ![r] = "find"]
        /\ loc' = [q \in Requests |->
                     IF q = r THEN [Nothing EXCEPT !.command = c, !.mount = page.mount,
                                                   !.alone = same = {}]
                     ELSE IF q \in same THEN [loc[q] EXCEPT !.alone = FALSE] ELSE loc[q]]
        /\ tab' = [page EXCEPT !.pending = c, !.state = state, !.waiting = TRUE,
                               !.timer = FALSE, !.told = NoCommand, !.no = 0,
                               !.alone = TRUE]

(* persistPendingSourceVersionImport, restorePendingSourceVersionImport.    *)
Store(c) == stored' = c
Restored == stored

IsBusy == tab.state \in {"submitting", "confirming"}

(* submitImport: a new token; nothing is sent unless it could be stored.   *)
Submit ==
    /\ tab.open /\ tab.visible /\ ~IsBusy
    /\ \E t \in Tokens \ used, s \in {"new_source", "next_version"} :
          LET c == [token |-> t, source |-> IF s = "new_source" THEN t ELSE Source] IN
          /\ used' = used \cup {t}
          /\ \/ Send(tab, c, "submitting") /\ Store(c)
             \/ /\ tab' = [tab EXCEPT !.state = "failure", !.told = NoCommand, !.no = 0]
                /\ UNCHANGED <<stored, at, loc>>
    /\ UNCHANGED <<db, faults>>

(* requiresSourceVersionImportConfirmation.                                *)
(* Mutant: what the server could not find out is taken for a refusal.      *)
IsDefiniteUnlessLost(outcome) == outcome # "lost"

IsDefinite(outcome) == outcome \in {"imported", "refused"}

(* executeImport, from the answer on.                                      *)
Answer(l, outcome) ==
    LET isOpen == tab.open /\ l.mount = tab.mount
        ended  == [tab EXCEPT !.waiting = FALSE]
        told   == [ended EXCEPT !.pending = NoCommand, !.told = l.command,
                                !.alone = l.alone] IN
    /\ stored' = IF IsDefinite(outcome) THEN NoCommand ELSE stored
    /\ tab' = CASE ~isOpen -> tab
                [] isOpen /\ outcome = "imported" ->
                     [told EXCEPT !.state = "success", !.no = l.no]
                [] isOpen /\ outcome # "imported" /\ IsDefinite(outcome) ->
                     [told EXCEPT !.state = "failure"]
                [] isOpen /\ ~IsDefinite(outcome) ->
                     [ended EXCEPT !.state = "confirming", !.timer = tab.visible]
    /\ UNCHANGED used

Nobody == UNCHANGED client

(* The response arrives.                                                   *)
Deliver(r) ==
    /\ at[r] = "reply"
    /\ IF loc[r].mount = 0 THEN Nobody ELSE Answer(loc[r], loc[r].outcome)
    /\ Goto(r, "idle", Nothing)
    /\ UNCHANGED <<db, faults>>

(* The call fails: the request is dead, or it goes on without the client.  *)
Lose(r) ==
    /\ at[r] # "idle" /\ Fault
    /\ IF loc[r].mount = 0 THEN Nobody ELSE Answer(loc[r], "lost")
    /\ \/ Goto(r, "idle", Nothing)
       \/ loc[r].mount # 0 /\ Goto(r, at[r], [loc[r] EXCEPT !.mount = 0])
    /\ UNCHANGED db

(* The timer of scheduleImportConfirmation.                                *)
Confirm ==
    /\ tab.open /\ tab.timer /\ ~tab.waiting
    /\ Send(tab, tab.pending, "confirming")
    /\ UNCHANGED <<db, stored, used, faults>>

(* syncImportVisibility.                                                   *)
Hide ==
    /\ tab.open /\ tab.visible
    /\ tab' = [tab EXCEPT !.visible = FALSE, !.timer = FALSE]
    /\ UNCHANGED <<db, at, loc, stored, used, faults>>

Show ==
    /\ tab.open /\ ~tab.visible
    /\ tab' = [tab EXCEPT !.visible = TRUE,
                          !.timer = tab.state = "confirming" /\ ~tab.waiting]
    /\ UNCHANGED <<db, at, loc, stored, used, faults>>

(* The administrator goes to another page, or the tab is loaded again:     *)
(* then nobody waits any more.                                             *)
Leave ==
    /\ tab.open
    /\ tab' = [Closed EXCEPT !.mount = tab.mount, !.visible = tab.visible]
    /\ UNCHANGED <<db, at, loc, stored, used, faults>>

Reload ==
    /\ tab.open
    /\ tab' = [Closed EXCEPT !.mount = tab.mount, !.visible = tab.visible]
    /\ loc' = [r \in Requests |-> [loc[r] EXCEPT !.mount = 0]]
    /\ UNCHANGED <<db, at, stored, used, faults>>

(* onMounted: what is stored is sent again at once.                        *)
Return ==
    /\ ~tab.open /\ tab.mount < MaxMounts
    /\ LET page == [tab EXCEPT !.open = TRUE, !.mount = @ + 1, !.pending = Restored] IN
       IF Restored = NoCommand
       THEN tab' = page /\ UNCHANGED <<at, loc>>
       ELSE IF tab.visible THEN Send(page, Restored, "confirming")
       ELSE tab' = [page EXCEPT !.state = "confirming"] /\ UNCHANGED <<at, loc>>
    /\ UNCHANGED <<db, stored, used, faults>>

(* Other administrators import, publish and discard versions of Source.    *)
Others ==
    /\ \/ /\ ~HasDraft(Source) /\ NextNo(Source) <= MaxVersions
          /\ versions' = versions \cup {[source |-> Source, no |-> NextNo(Source),
                                         token |-> NoToken, status |-> "draft"]}
       \/ \E v \in versions, status \in {"published", "archived"} :
             /\ v.status = "draft"
             /\ versions' = (versions \ {v}) \cup {[v EXCEPT !.status = status]}
    /\ UNCHANGED <<ledger, at, loc, client, faults>>

Use == Submit \/ Confirm \/ Hide \/ Show \/ Leave \/ Reload \/ Return

ImportNext ==
    \/ \E r \in Requests : Serve(r) \/ Deliver(r) \/ Lose(r)
    \/ Use \/ Others

ImportSpec == ImportInit /\ [][ImportNext]_importVars

-----------------------------------------------------------------------------
(* PROPERTIES                                                              *)

(* Requests, page and storage are in states of the program.                *)
ImportTypeOK ==
    /\ versions \subseteq Version /\ ledger \subseteq used
    /\ \A r \in Requests :
          /\ at[r] \in Point /\ loc[r].command \in Command \cup {NoCommand}
          /\ loc[r].outcome \in Outcomes
          /\ at[r] = "idle" => loc[r] = Nothing
          /\ loc[r].mount = tab.mount /\ tab.open /\ loc[r].mount # 0 => tab.waiting
    /\ Cardinality({r \in Requests : at[r] # "idle" /\ loc[r].mount = tab.mount}) <= 1
    /\ stored.token \in used \cup {NoToken}
    /\ tab.state \in {"idle", "submitting", "confirming", "success", "failure"}
    /\ tab.pending # NoCommand => IsBusy
    /\ tab.timer => tab.visible /\ ~tab.waiting

(* However often a command is sent, its token makes one version.           *)
OneVersionPerToken ==
    \A t \in Tokens : Cardinality({v \in versions : v.token = t}) = IF t \in ledger THEN 1 ELSE 0

(* The versions of a source are numbered without gaps, and none but the    *)
(* last is a draft: imports that read the same versions do not both write. *)
VersionsAreInOrder ==
    \A s \in Tokens \cup {Source} :
        /\ {v.no : v \in VersionsOf(s)} = 1 .. Cardinality(VersionsOf(s))
        /\ \A v, w \in VersionsOf(s) : v.status = "draft" => w.no <= v.no

(* What the server keeps of the imports.                                   *)
ImportsAreExact == ImportTypeOK /\ OneVersionPerToken /\ VersionsAreInOrder

(* A page that reports an import names the version its command has made.   *)
ToldIsImported ==
    tab.state = "success" =>
        \E v \in versions : v.token = tab.told.token /\ v.no = tab.no

(* A page that reports a failure is right: nothing was imported, whatever  *)
(* failed on the server, unless an earlier request with the same token was *)
(* still being served.                                                     *)
FailureIsDefinite ==
    tab.state = "failure" /\ tab.alone => tab.told.token \notin ledger

(* The stored command is dropped for a definite answer to it only, or when *)
(* the answer to a page that was left comes late.                          *)
StoredUntilAnswered ==
    [][stored # NoCommand /\ stored' = NoCommand =>
          \E r \in Requests :
             /\ at[r] = "reply" /\ at'[r] = "idle"
             /\ loc[r].outcome \in {"imported", "refused"}
             /\ loc[r].command = stored \/ loc[r].mount # tab.mount]_importVars

(* A page that is busy is never stranded: it waits for a call, the timer   *)
(* runs, or it is hidden and goes on when it is looked at again.           *)
BusyPageGoesOn ==
    tab.open /\ IsBusy =>
        \/ \E r \in Requests : at[r] # "idle" /\ loc[r].mount = tab.mount
        \/ tab.timer \/ ~tab.visible

(* What the page shows of an import is so, and it does not stop showing    *)
(* that the import is under way.                                           *)
ImportPageIsTrue == ToldIsImported /\ FailureIsDefinite /\ BusyPageGoesOn
=============================================================================
