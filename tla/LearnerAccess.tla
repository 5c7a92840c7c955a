----------------------------- MODULE LearnerAccess -----------------------------
(***************************************************************************)
(* Who may enter a course: the credential of a learner (account and PIN,   *)
(* or a legacy access code), the sessions opened with it, and the          *)
(* administrator's operations that create a course, rotate the code or     *)
(* change the login, each committed at most once under a one-time token.   *)
(*                                                                         *)
(* A request is a process; every D1 statement or batch it issues is one    *)
(* atomic step.  Two lookups of one request that read different tables are *)
(* two steps.                                                              *)
(*                                                                         *)
(* Abstracted: a hash is the value it is taken of, so that two hashes are  *)
(* equal when their inputs are; a session's token is its id; a course is   *)
(* always active (nothing in the program changes courses.status); whether  *)
(* the progress of a course may be reset is the subject of CourseRuntime,  *)
(* and here either outcome is possible.  The cooldown after failed logins  *)
(* and the expiry of sessions are the subject of LoginThrottle.            *)
(***************************************************************************)
EXTENDS Integers, FiniteSets, Sequences

CONSTANTS
    Learners,       \* ids of learners, present and to come
    Accounts,       \* login accounts
    Pins,           \* PINs
    Tokens,         \* operation tokens of administrators
    LoginRequests, AdminRequests,
    InitialLearners,\* learners that exist initially
    InitialPins,    \* the PINs they may have
    AdminInputs,    \* what administrators may ask: records of AdminRequest
    MaxSessions,    \* bound: sessions ever opened
    NoAccount, NoPin, Issued, Unknown, NoToken, NoLearner

Requests == LoginRequests \cup AdminRequests

(* An access code: the one a legacy learner was issued, one derived from   *)
(* the token of a rotation, or a random one that nobody is told.           *)
Codes == Tokens \cup {Issued, Unknown}

Kinds == {"create_course", "rotate_access_code", "update_learner_login",
          "reset_course_progress"}

AdminRequest == [kind    : Kinds,
                 learner : Learners,
                 account : Accounts \cup {NoAccount},
                 pin     : Pins \cup {NoPin},
                 version : Nat]

ASSUME LearnersAssumption ==
    /\ InitialLearners \subseteq Learners /\ InitialPins \subseteq Pins
    /\ NoAccount \notin Accounts
    /\ NoPin \notin Pins
    /\ Issued \notin Tokens /\ Unknown \notin Tokens /\ Issued # Unknown
    /\ NoToken \notin Tokens /\ NoLearner \notin Learners
    /\ AdminInputs \subseteq AdminRequest
    /\ \A q \in AdminInputs :
          /\ q.kind \in {"create_course", "update_learner_login"} => q.account # NoAccount
          /\ q.kind = "create_course" => q.pin # NoPin
    /\ MaxSessions \in Nat

VARIABLES
    learners,   \* rows of learners, with the course of each
    sessions,   \* learner_sessions, in the order they were opened
    ledger,     \* committed operations: one function by token for each table
    at,         \* the step each request takes next
    loc         \* what each request remembers

db == <<learners, sessions, ledger>>
vars == <<learners, sessions, ledger, at, loc>>

-----------------------------------------------------------------------------
(* An account comes with a PIN and closes the entry by access code.        *)
Learner ==
    {row \in [exists : BOOLEAN, account : Accounts \cup {NoAccount},
              pin : Pins \cup {NoPin}, code : Codes, form : {"plain", "hash"},
              legacy : BOOLEAN, version : Nat] :
        /\ row.account = NoAccount <=> row.pin = NoPin
        /\ row.account # NoAccount => ~row.legacy}

NoRow == [account |-> NoAccount, pin |-> NoPin, version |-> 0, exists |-> FALSE,
          code |-> Unknown, form |-> "hash", legacy |-> FALSE]

LegacyRow == [NoRow EXCEPT !.exists = TRUE, !.code = Issued, !.form = "plain",
                           !.legacy = TRUE, !.version = 1]

AccountRow(a, pin) == [NoRow EXCEPT !.exists = TRUE, !.account = a, !.pin = pin,
                                    !.version = 1]

(* The proof is what the learner typed to open the session.                *)
Session == [learner : Learners, version : Nat, proof : Pins \cup Codes,
            status : {"live", "logged_out", "revoked"}]

(* A committed operation: the request its fingerprint stands for and the   *)
(* outcome.                                                                *)
Operation == [request : AdminRequest, learner : Learners, version : Nat, count : Nat]

Tables == {"admin_operations", "course_progress_reset_operations",
           "learner_login_credential_operations"}

TableOf(kind) ==
    CASE kind = "reset_course_progress" -> "course_progress_reset_operations"
      [] kind = "update_learner_login"  -> "learner_login_credential_operations"
      [] OTHER                          -> "admin_operations"

Committed(k) == {t \in Tables : k \in DOMAIN ledger[t]}

Replies == {"session_reply", "refused_reply", "admin_reply"}

Point == Replies \cup
         {"idle", "login_verify", "code_plain", "code_migrate", "code_again",
          "session_create", "logout_revoke",
          "find_operations", "find_resets", "find_logins",
          "update_credential", "commit", "replay", "replay_record"}

Nothing == [learner |-> NoLearner, account |-> NoAccount, pin |-> NoPin, version |-> 0,
            code |-> Unknown, request |-> {}, session |-> 0, token |-> NoToken,
            phase |-> "first", before |-> <<>>, operation |-> {}]

Init ==
    /\ learners \in [Learners -> {NoRow, LegacyRow}
                                   \cup {AccountRow(a, p) : a \in Accounts, p \in InitialPins}]
    /\ \A l \in Learners : learners[l].exists <=> l \in InitialLearners
    /\ \A l, m \in InitialLearners :
          l # m => /\ ~(learners[l].legacy /\ learners[m].legacy)
                   /\ learners[l].account # learners[m].account
    /\ sessions = <<>>
    /\ ledger = [t \in Tables |-> [k \in {} |-> {}]]
    /\ at = [r \in Requests |-> "idle"]
    /\ loc = [r \in Requests |-> Nothing]

Goto(r, point, l) ==
    /\ at' = [at EXCEPT ![r] = point]
    /\ loc' = [loc EXCEPT ![r] = l]

Fail(r) == Goto(r, "idle", Nothing)

Deliver(r) ==
    /\ at[r] \in Replies
    /\ Fail(r)
    /\ UNCHANGED db

(* A request ends between two of its steps: a statement fails or the       *)
(* worker is evicted.                                                      *)
Die(r) ==
    /\ at[r] \notin Replies \cup {"idle"}
    /\ Fail(r)
    /\ UNCHANGED db

-----------------------------------------------------------------------------
(* exchangeAccountLogin.                                                   *)

WithAccount(a) == {l \in Learners : learners[l].account = a /\ ~learners[l].legacy}

(* The credentials as a request finds them when it starts, for the         *)
(* properties.                                                             *)
Credentials == [l \in Learners |-> <<learners[l].version, learners[l].form>>]

(* The row of the account is read, then the PIN is compared with it.  The  *)
(* request remembers which version it read.                                *)
ReadAccountCredential(r, a, pin) ==
    /\ at[r] = "idle"
    /\ IF WithAccount(a) = {}
          THEN Goto(r, "refused_reply", [Nothing EXCEPT !.account = a, !.pin = pin, !.before = Credentials])
          ELSE \E l \in WithAccount(a) :
                 Goto(r, IF learners[l].pin = pin THEN "session_create"
                                                  ELSE "refused_reply",
                      [Nothing EXCEPT !.learner = l, !.account = a, !.pin = pin,
                                      !.version = learners[l].version,
                                      !.before = Credentials])
    /\ UNCHANGED db

(* Mutant: the session is inserted whatever the learner's version is.      *)
MayOpenAnySession(r) == TRUE

(* create: INSERT ... WHERE the learner still has the credential version   *)
(* that was verified; the trigger of migration 0004 says the same.         *)
MayOpenSession(r) == learners[loc[r].learner].version = loc[r].version

Proof(r) == IF loc[r].account # NoAccount THEN loc[r].pin ELSE loc[r].code

(* establishSession.                                                       *)
CreateSession(r) ==
    /\ at[r] = "session_create"
    /\ Len(sessions) < MaxSessions
    /\ IF MayOpenSession(r)
          THEN /\ sessions' = Append(sessions,
                                [learner |-> loc[r].learner, version |-> loc[r].version,
                                 proof |-> Proof(r), status |-> "live"])
               /\ Goto(r, "session_reply", [loc[r] EXCEPT !.session = Len(sessions) + 1])
          ELSE /\ Goto(r, "refused_reply", loc[r])
               /\ UNCHANGED sessions
    /\ UNCHANGED <<learners, ledger>>

-----------------------------------------------------------------------------
(* exchangeAccessCode: the code is stored as its hash, or in plain if it   *)
(* has not been used since hashes were introduced; a plain one is replaced *)
(* by its hash when it is used.                                            *)

WithCode(c, form) ==
    {l \in Learners : learners[l].code = c /\ learners[l].form = form
                      /\ learners[l].legacy /\ learners[l].account = NoAccount}

FoundByCode(r, c, form, next, otherwise) ==
    IF WithCode(c, form) = {} THEN Goto(r, otherwise, loc[r])
    ELSE \E l \in WithCode(c, form) :
           Goto(r, next, [loc[r] EXCEPT !.learner = l, !.version = learners[l].version])

EnterCode(r, c) ==
    /\ at[r] = "idle"
    /\ LET l == [Nothing EXCEPT !.code = c, !.before = Credentials] IN
       IF WithCode(c, "hash") = {} THEN Goto(r, "code_plain", l)
       ELSE \E w \in WithCode(c, "hash") :
              Goto(r, "session_create", [l EXCEPT !.learner = w,
                                                  !.version = learners[w].version])
    /\ UNCHANGED db

FindPlainCode(r) ==
    /\ at[r] = "code_plain"
    /\ FoundByCode(r, loc[r].code, "plain", "code_migrate", "refused_reply")
    /\ UNCHANGED db

AfterMigrationLost == "code_again"

(* UPDATE learners SET access_code = hash WHERE access_code = plain.       *)
MigrateCode(r) ==
    /\ at[r] = "code_migrate"
    /\ LET l == loc[r].learner IN
       IF learners[l].code = loc[r].code /\ learners[l].form = "plain"
          THEN /\ learners' = [learners EXCEPT ![l].form = "hash"]
               /\ Goto(r, "session_create", loc[r])
          ELSE /\ Goto(r, AfterMigrationLost, loc[r])
               /\ UNCHANGED learners
    /\ UNCHANGED <<sessions, ledger>>

FindCodeAgain(r) ==
    /\ at[r] = "code_again"
    /\ FoundByCode(r, loc[r].code, "hash", "session_create", "refused_reply")
    /\ UNCHANGED db

-----------------------------------------------------------------------------
(* resolve and revoke.                                                     *)

(* A session admits its learner: it is not revoked and its version is the  *)
(* learner's.                                                              *)
Admits(n) ==
    /\ sessions[n].status = "live"
    /\ sessions[n].version = learners[sessions[n].learner].version

Logout(r, n) ==
    /\ at[r] = "idle"
    /\ Goto(r, "logout_revoke", [Nothing EXCEPT !.session = n])
    /\ UNCHANGED db

(* revokeById sets revoked_at where it is still NULL.                      *)
RevokeSession(r) ==
    /\ at[r] = "logout_revoke"
    /\ LET n == loc[r].session IN
       sessions' = IF sessions[n].status = "live"
                     THEN [sessions EXCEPT ![n].status = "logged_out"]
                     ELSE sessions
    /\ Fail(r)
    /\ UNCHANGED <<learners, ledger>>

-----------------------------------------------------------------------------
(* The operations of an administrator.                                     *)

(* The version an administrator expects is one the server has reported.    *)
Administer(r, k, request) ==
    /\ at[r] = "idle"
    /\ request.version <= learners[request.learner].version
    /\ Goto(r, "find_operations", [Nothing EXCEPT !.token = k, !.request = request,
                                          !.before = [l \in Learners |->
                                                        <<learners[l].version, "hash">>]])
    /\ UNCHANGED db

(* The kind, the target and the fingerprint of the recorded request are    *)
(* those of this one.                                                      *)
IsSameRequest(operation, request) == operation.request = request

(* getD1AdminOperation reads the three tables one after another;           *)
(* findExactAdminOperation compares what it finds with the request.  A     *)
(* second search, after a commit that did nothing or was aborted, ends in  *)
(* an error when it finds nothing either.                                  *)
Search(r, table, next) ==
    LET k == loc[r].token IN
    IF k \in DOMAIN ledger[table]
       THEN IF IsSameRequest(ledger[table][k], loc[r].request)
               THEN Goto(r, "replay", [loc[r] EXCEPT !.operation = ledger[table][k]])
               ELSE Fail(r)
       ELSE IF next = "none" THEN Fail(r)
       ELSE Goto(r, next, loc[r])

AfterSearch(r) ==
    IF loc[r].phase = "second" THEN "none"
    ELSE IF loc[r].request.kind = "update_learner_login" THEN "update_credential"
    ELSE "commit"

FindOperation(r) ==
    /\ at[r] = "find_operations"
    /\ Search(r, "admin_operations", "find_resets")
    /\ UNCHANGED db

FindReset(r) ==
    /\ at[r] = "find_resets"
    /\ Search(r, "course_progress_reset_operations", "find_logins")
    /\ UNCHANGED db

FindLoginUpdate(r) ==
    /\ at[r] = "find_logins"
    /\ Search(r, "learner_login_credential_operations", AfterSearch(r))
    /\ UNCHANGED db

IsPinMissing(row, pin) == pin = NoPin /\ row.pin = NoPin

(* updateLoginCredentialIdempotently without a PIN keeps the one it reads; *)
(* a learner that has none needs one.                                      *)
ReadLoginCredential(r) ==
    /\ at[r] = "update_credential"
    /\ LET row == learners[loc[r].request.learner]
           pin == loc[r].request.pin
       IN  IF ~row.exists \/ IsPinMissing(row, pin) THEN Fail(r)
           ELSE Goto(r, "commit",
                     [loc[r] EXCEPT !.pin = IF pin = NoPin THEN row.pin ELSE pin])
    /\ UNCHANGED db

(* Mutant: each table only refuses the tokens it holds itself.             *)
IsTokenOpenInTable(k, table) == k \notin DOMAIN ledger[table]

(* The primary key of each table and the triggers between them.            *)
IsTokenOpen(k, table) == Committed(k) = {}

(* Mutant: the version a request expects is not compared.                  *)
VersionIsAny(r) == learners[loc[r].request.learner].exists

VersionIsExpected(r) ==
    LET row == learners[loc[r].request.learner]
    IN  row.exists /\ row.version = loc[r].request.version

LiveSessions(l) == {n \in DOMAIN sessions : sessions[n].learner = l
                                            /\ sessions[n].status = "live"}

RevokedCount(l) == Cardinality(LiveSessions(l))

RevokeAll(l) ==
    sessions' = [n \in DOMAIN sessions |->
                   IF n \in LiveSessions(l) THEN [sessions[n] EXCEPT !.status = "revoked"]
                                            ELSE sessions[n]]

Record(r, l, version, count) ==
    LET table == TableOf(loc[r].request.kind)
        operation == [learner |-> l, version |-> version,
                      request |-> loc[r].request, count |-> count]
    IN  /\ ledger' = [ledger EXCEPT ![table] =
                        [k \in DOMAIN @ \cup {loc[r].token} |->
                            IF k = loc[r].token THEN operation ELSE @[k]]]
        /\ Goto(r, "admin_reply", [loc[r] EXCEPT !.operation = operation])

SearchAgain(r) == Goto(r, "find_operations", [loc[r] EXCEPT !.phase = "second"])

IsAccountFree(a, l) == \A m \in Learners \ {l} : learners[m].account # a

(* The batch of an operation: the row of the ledger, the sessions and the  *)
(* learner, all or nothing.  It is aborted by a token that is taken or an  *)
(* account that is not free, and does nothing when the version is not the  *)
(* one expected; then the ledger is searched again.                        *)
Rotate(r) ==
    LET l == loc[r].request.learner IN
    /\ loc[r].request.kind = "rotate_access_code"
    /\ IF VersionIsExpected(r) /\ IsTokenOpen(loc[r].token, "admin_operations")
          THEN /\ learners' = [learners EXCEPT ![l].code = loc[r].token,
                                               ![l].form = "hash",
                                               ![l].version = loc[r].request.version + 1]
               /\ RevokeAll(l)
               /\ Record(r, l, loc[r].request.version + 1, RevokedCount(l))
          ELSE SearchAgain(r) /\ UNCHANGED db

UpdateLogin(r) ==
    LET l == loc[r].request.learner
        a == loc[r].request.account
    IN
    /\ loc[r].request.kind = "update_learner_login"
    /\ IF /\ VersionIsExpected(r)
          /\ IsTokenOpen(loc[r].token, "learner_login_credential_operations")
          /\ IsAccountFree(a, l)
          THEN /\ learners' = [learners EXCEPT ![l].account = a, ![l].pin = loc[r].pin,
                                               ![l].code = Unknown, ![l].form = "hash",
                                               ![l].legacy = FALSE,
                                               ![l].version = loc[r].request.version + 1]
               /\ RevokeAll(l)
               /\ Record(r, l, loc[r].request.version + 1, RevokedCount(l))
          ELSE SearchAgain(r) /\ UNCHANGED db

(* createCourse: the id of the learner is new (crypto.randomUUID).         *)
NewLearners == {l \in Learners : ~learners[l].exists}

CreateCourse(r) ==
    /\ loc[r].request.kind = "create_course"
    /\ LET a == loc[r].request.account IN
       IF IsTokenOpen(loc[r].token, "admin_operations") /\ IsAccountFree(a, NoLearner)
          THEN \E l \in NewLearners :
                 /\ learners' = [learners EXCEPT ![l] = AccountRow(a, loc[r].request.pin)]
                 /\ Record(r, l, 1, 0)
                 /\ UNCHANGED sessions
          ELSE SearchAgain(r) /\ UNCHANGED db

ResetProgress(r) ==
    /\ loc[r].request.kind = "reset_course_progress"
    /\ \/ /\ IsTokenOpen(loc[r].token, "course_progress_reset_operations")
          /\ Record(r, loc[r].request.learner, 0, 0)
          /\ UNCHANGED <<learners, sessions>>
       \/ SearchAgain(r) /\ UNCHANGED db

Commit(r) ==
    /\ at[r] = "commit"
    /\ Rotate(r) \/ UpdateLogin(r) \/ CreateCourse(r) \/ ResetProgress(r)

(* replayAccessCodeRotation, replayLearnerLoginUpdate, replayCreatedCourse: *)
(* the outcome is returned again while it is the learner's credential; the *)
(* row of a created course is listed after the credential was read.        *)
(* Mutant: the version alone decides whether an outcome is superseded.     *)
IsCurrentVersion(operation) ==
    operation.request.kind # "reset_course_progress" =>
        learners[operation.learner].version >= operation.version

IsCurrent(operation) ==
    LET row == learners[operation.learner]
        kind == operation.request.kind
    IN  /\ kind # "reset_course_progress" => row.version = operation.version
        /\ kind = "update_learner_login" => row.account = operation.request.account

Replay(r) ==
    /\ at[r] = "replay"
    /\ IF ~IsCurrent(loc[r].operation) THEN Fail(r)
       ELSE Goto(r, IF loc[r].request.kind = "create_course" THEN "replay_record"
                                                             ELSE "admin_reply", loc[r])
    /\ UNCHANGED db

ReplayRecord(r) ==
    /\ at[r] = "replay_record"
    /\ IF learners[loc[r].operation.learner].account = NoAccount THEN Fail(r)
       ELSE Goto(r, "admin_reply", loc[r])
    /\ UNCHANGED db

-----------------------------------------------------------------------------
Arrive(r) ==
    \/ /\ r \in LoginRequests
       /\ \/ \E a \in Accounts, pin \in Pins : ReadAccountCredential(r, a, pin)
          \/ \E c \in Codes \ {Unknown} : EnterCode(r, c)
          \/ \E n \in DOMAIN sessions : Logout(r, n)
    \/ /\ r \in AdminRequests
       /\ \E k \in Tokens, request \in AdminInputs : Administer(r, k, request)

Serve(r) ==
    \/ CreateSession(r)
    \/ FindPlainCode(r)
    \/ MigrateCode(r)
    \/ FindCodeAgain(r)
    \/ RevokeSession(r)
    \/ FindOperation(r)
    \/ FindReset(r)
    \/ FindLoginUpdate(r)
    \/ ReadLoginCredential(r)
    \/ Commit(r)
    \/ Replay(r)
    \/ ReplayRecord(r)
    \/ Deliver(r)

Next == \E r \in Requests : Arrive(r) \/ Serve(r) \/ Die(r)

Spec == Init /\ [][Next]_vars

-----------------------------------------------------------------------------
(* Properties.                                                             *)

(* Rows, operations and requests have the types the schema gives them.     *)
TypeOK ==
    /\ learners \in [Learners -> Learner]
    /\ \A n \in DOMAIN sessions : sessions[n] \in Session
    /\ \A t \in Tables : \A k \in DOMAIN ledger[t] :
          k \in Tokens /\ ledger[t][k] \in Operation
    /\ at \in [Requests -> Point]

(* A session that is not revoked was opened with the credential the        *)
(* learner has now: a login that verified an older credential opens none,  *)
(* however late its insert comes, and no change of the credential leaves a *)
(* session behind.  The code of a legacy learner may be the proof.         *)
LiveSessionsHaveTheCredential ==
    \A n \in DOMAIN sessions :
        sessions[n].status = "live" =>
            LET row == learners[sessions[n].learner]
            IN  /\ Admits(n)
                /\ sessions[n].proof = IF row.account = NoAccount THEN row.code
                                                                  ELSE row.pin

OperationAt(o) == ledger[o[1]][o[2]]

(* The versions of a learner's credential are exactly the outcomes of the  *)
(* committed operations, one each, from the second version on: no change   *)
(* is lost, made twice or made without its row in the ledger.              *)
CredentialOperations(l) ==
    {o \in Tables \X Tokens :
        /\ o[2] \in DOMAIN ledger[o[1]]
        /\ OperationAt(o).learner = l
        /\ OperationAt(o).request.kind \in {"rotate_access_code", "update_learner_login"}}

VersionsAreOperations ==
    \A l \in Learners :
        LET O == CredentialOperations(l)
        IN  /\ {OperationAt(o).version : o \in O} = 2 .. learners[l].version
            /\ learners[l].exists => Cardinality(O) = learners[l].version - 1

(* The count an operation reports is the number of sessions it ended: all  *)
(* sessions of the version before it, except those logged out before.      *)
RevocationsAreCounted ==
    \A l \in Learners : \A o \in CredentialOperations(l) :
        OperationAt(o).count =
            Cardinality({n \in DOMAIN sessions :
                            /\ sessions[n].learner = l
                            /\ sessions[n].version = OperationAt(o).version - 1
                            /\ sessions[n].status = "revoked"})

(* A token commits one operation, whichever kinds it was sent for.         *)
OneOperationPerToken == \A k \in Tokens : Cardinality(Committed(k)) <= 1

(* A login account belongs to one learner.                                 *)
AccountsAreUnique ==
    \A l, m \in Learners :
        l # m /\ learners[l].account = learners[m].account
            => learners[l].account = NoAccount

(* What is stored of the learners agrees with the ledger.                  *)
LedgerIsTrue ==
    /\ TypeOK
    /\ AccountsAreUnique
    /\ OneOperationPerToken
    /\ VersionsAreOperations
    /\ RevocationsAreCounted

(* What an administrator is told is what the ledger holds for the token,   *)
(* for the request that was sent.                                          *)
RepliesAreRecorded ==
    \A r \in AdminRequests :
        at[r] = "admin_reply" =>
            /\ loc[r].operation.request = loc[r].request
            /\ \E t \in Committed(loc[r].token) :
                   ledger[t][loc[r].token] = loc[r].operation

(* An outcome that a later operation has superseded is not returned to a   *)
(* request that starts after that operation.                               *)
SupersededIsNotReturned ==
    \A r \in AdminRequests :
        /\ at[r] = "admin_reply"
        /\ loc[r].request.kind # "reset_course_progress"
        => loc[r].operation.version >= loc[r].before[loc[r].operation.learner][1]

(* A learner who types the right credential is told that it is invalid     *)
(* only if it was changed while the request ran, or if its code was stored *)
(* in plain when the request started and hashed by another request between *)
(* the lookup of the hash and the lookup of the plain code.                *)
Opens(l, r) ==
    IF loc[r].account # NoAccount
       THEN l \in WithAccount(loc[r].account) /\ learners[l].pin = loc[r].pin
       ELSE l \in WithCode(loc[r].code, "hash") \cup WithCode(loc[r].code, "plain")

HashedMeanwhile(l, r) ==
    loc[r].learner = NoLearner /\ loc[r].before[l][2] = "plain" /\ learners[l].form = "hash"

CredentialsAreAcceptedUnlessHashed ==
    \A r \in LoginRequests :
        at[r] = "refused_reply" =>
            \A l \in Learners :
                learners[l].version = loc[r].before[l][1] /\ ~HashedMeanwhile(l, r)
                    => ~Opens(l, r)

(* What the server says is so: to administrators, and to learners who log  *)
(* in.                                                                     *)
AnswersAreTrue ==
    /\ RepliesAreRecorded
    /\ SupersededIsNotReturned
    /\ CredentialsAreAcceptedUnlessHashed

(* A login update that names no PIN leaves the learner's PIN as it was.    *)
UpdatesWithoutPinKeepIt ==
    [][\A l \in Learners : \A k \in Tokens :
          LET t == "learner_login_credential_operations" IN
          /\ k \in DOMAIN ledger'[t] \ DOMAIN ledger[t]
          /\ ledger'[t][k].learner = l
          /\ ledger'[t][k].request.pin = NoPin
          => learners'[l].pin = learners[l].pin]_vars

(* A session that has ended stays ended, and a version never comes back.   *)
EndedStaysEnded ==
    [][/\ \A n \in DOMAIN sessions :
             sessions[n].status # "live" => sessions'[n].status = sessions[n].status
       /\ \A l \in Learners : learners'[l].version >= learners[l].version]_vars

(* No write undoes what another one did.                                   *)
NothingIsUndone == EndedStaysEnded /\ UpdatesWithoutPinKeepIt
=============================================================================
