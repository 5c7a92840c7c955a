-------------------------- MODULE LearnerAccessProofs ---------------------------
(***************************************************************************)
(* Proofs that the rows of LearnerAccess agree with one another, that no   *)
(* session outlives its credential, and that the server's answers are      *)
(* true, for any learners, tokens and requests.                            *)
(*                                                                         *)
(* What a request remembers of a learner is either what the row still      *)
(* holds or belongs to an older version of the credential.  The other      *)
(* requests keep this so, because rows only move on (Later): the version   *)
(* grows with every change but the hashing of a plain code.                *)
(***************************************************************************)
EXTENDS LearnerAccess, FiniteSetTheorems, SequenceTheorems, TLAPS

-----------------------------------------------------------------------------
(* The inductive invariant.                                                *)

(* What the local variables of a handler may hold.                         *)
Locals ==
    [learner : Learners \cup {NoLearner}, account : Accounts \cup {NoAccount},
     pin : Pins \cup {NoPin}, version : Nat, code : Codes,
     request : AdminInputs \cup {{}}, session : Nat, token : Tokens \cup {NoToken},
     phase : {"first", "second"},
     before : [Learners -> Nat \X {"plain", "hash"}] \cup {<<>>},
     operation : Operation \cup {{}}]

StorageOK ==
    /\ TypeOK
    /\ sessions \in Seq(Session)
    /\ DOMAIN ledger = Tables
    /\ loc \in [Requests -> Locals]

(* A learner without a row has version 0; a code that was issued by a      *)
(* rotation is in the ledger; two learners never have the same code.       *)
RowsOK ==
    /\ \A l \in Learners :
          /\ learners[l].exists <=> learners[l].version # 0
          /\ ~learners[l].exists => learners[l] = NoRow
          /\ learners[l].code \in Tokens =>
                learners[l].code \in DOMAIN ledger["admin_operations"]
    /\ \A l, m \in Learners :
          l # m /\ learners[l].code = learners[m].code => learners[l].code = Unknown

(* A session belongs to a learner; one that a change of the credential     *)
(* ended is of an older version.                                           *)
SessionsOK ==
    \A n \in DOMAIN sessions :
        LET row == learners[sessions[n].learner] IN
        /\ row.exists
        /\ sessions[n].version <= row.version
        /\ sessions[n].status = "revoked" => sessions[n].version < row.version

OperationsAreFinite == \A l \in Learners : IsFiniteSet(CredentialOperations(l))

(* What the learner typed is the credential in row, whatever the form of   *)
(* the code.                                                               *)
Matches(row, m) ==
    IF m.account # NoAccount
       THEN row.account = m.account /\ ~row.legacy /\ row.pin = m.pin
       ELSE row.code = m.code /\ row.legacy /\ row.account = NoAccount

(* The learner's credential is the one the request found when it started.  *)
IsAsBefore(l, m) == learners[l].version = m.before[l][1]

StartedBefore(m) ==
    /\ m.before \in [Learners -> Nat \X {"plain", "hash"}]
    /\ \A l \in Learners : m.before[l][1] <= learners[l].version

(* A learner was found by the credential: while the version is the one     *)
(* read the credential is right, and it is nobody else's.                  *)
KnowsLearner(m) ==
    /\ m.learner \in Learners
    /\ m.before[m.learner][1] <= m.version
    /\ m.version <= learners[m.learner].version
    /\ m.version = learners[m.learner].version => Matches(learners[m.learner], m)
    /\ \A l \in Learners \ {m.learner} : IsAsBefore(l, m) => ~Matches(learners[l], m)

KnowsLogin(p, m) ==
    /\ p \in {"code_plain", "code_migrate", "code_again", "session_create", "refused_reply"}
          => StartedBefore(m)
    /\ p \in {"code_plain", "code_migrate", "code_again"} =>
          m.account = NoAccount /\ m.code # Unknown
    /\ p = "code_plain" =>
          /\ m.learner = NoLearner
          /\ \A l \in Learners :
                IsAsBefore(l, m) /\ Matches(learners[l], m) => m.before[l][2] = "plain"
    /\ p \in {"code_migrate", "code_again", "session_create"} => KnowsLearner(m)
    /\ p = "code_again" /\ m.version = learners[m.learner].version =>
          learners[m.learner].form = "hash"
    /\ p = "refused_reply" =>
          \A l \in Learners :
              /\ IsAsBefore(l, m)
              /\ ~(m.learner = NoLearner /\ m.before[l][2] = "plain"
                                         /\ learners[l].form = "hash")
              => ~Matches(learners[l], m)
    /\ p = "logout_revoke" => m.session \in 1 .. Len(sessions)

AdminPoints == {"find_operations", "find_resets", "find_logins", "update_credential",
                "commit", "replay", "replay_record", "admin_reply"}

(* The operation that a request is going to report is the ledger's.        *)
KnowsOperation(m) ==
    /\ m.operation \in Operation
    /\ m.operation.request = m.request
    /\ \E t \in Tables : /\ m.token \in DOMAIN ledger[t]
                         /\ ledger[t][m.token] = m.operation

KnowsAdmin(p, m) ==
    /\ p \in AdminPoints =>
          /\ StartedBefore(m)
          /\ m.request \in AdminInputs /\ m.token \in Tokens
          /\ m.request.version <= learners[m.request.learner].version
    /\ p = "update_credential" => m.request.kind = "update_learner_login"
    /\ p = "commit" /\ m.request.kind = "update_learner_login" =>
          /\ m.pin # NoPin
          /\ m.request.pin = NoPin
             /\ m.request.version = learners[m.request.learner].version
             => m.pin = learners[m.request.learner].pin
    /\ p \in {"replay", "replay_record", "admin_reply"} => KnowsOperation(m)
    /\ p \in {"replay_record", "admin_reply"} /\ m.request.kind # "reset_course_progress" =>
          m.before[m.operation.learner][1] <= m.operation.version

Knows(p, m) == KnowsLogin(p, m) /\ KnowsAdmin(p, m)

RequestsKnow == \A r \in Requests : Knows(at[r], loc[r])

(* The rows, without what the requests know.                               *)
RowsAgree ==
    /\ AccountsAreUnique
    /\ OneOperationPerToken
    /\ VersionsAreOperations
    /\ RevocationsAreCounted
    /\ RowsOK
    /\ SessionsOK
    /\ OperationsAreFinite
    /\ LiveSessionsHaveTheCredential

AInv == StorageOK /\ RowsAgree /\ RequestsKnow

-----------------------------------------------------------------------------
(* How rows move on.                                                       *)

Later(row, new) ==
    /\ row.version <= new.version
    /\ row.version = new.version => new = row \/ new = [row EXCEPT !.form = "hash"]

(* The database of the next state continues the one of this state.         *)
Continues ==
    /\ \A l \in Learners : Later(learners[l], learners'[l])
    /\ \A t \in Tables : \A k \in DOMAIN ledger[t] :
          k \in DOMAIN ledger'[t] /\ ledger'[t][k] = ledger[t][k]
    /\ Len(sessions) <= Len(sessions')

LEMMA RowTypes ==
    ASSUME StorageOK, NEW l \in Learners
    PROVE  /\ learners[l] \in [exists : BOOLEAN, account : Accounts \cup {NoAccount},
                               pin : Pins \cup {NoPin}, code : Codes,
                               form : {"plain", "hash"}, legacy : BOOLEAN, version : Nat]
           /\ learners[l].account = NoAccount <=> learners[l].pin = NoPin
           /\ learners[l].account # NoAccount => ~learners[l].legacy
  BY DEF StorageOK, TypeOK, Learner

LEMMA InputTypes ==
    ASSUME NEW q \in AdminInputs
    PROVE  /\ q \in AdminRequest
           /\ q.kind \in Kinds /\ q.learner \in Learners /\ q.version \in Nat
           /\ q.account \in Accounts \cup {NoAccount} /\ q.pin \in Pins \cup {NoPin}
           /\ q.kind \in {"create_course", "update_learner_login"} => q.account # NoAccount
           /\ q.kind = "create_course" => q.pin # NoPin
  BY LearnersAssumption DEF AdminRequest

LEMMA SameDatabaseContinues ==
    ASSUME StorageOK, UNCHANGED db
    PROVE  Continues
<1>1. \A l \in Learners : learners[l].version \in Nat
  BY RowTypes
<1>2. Len(sessions) \in Nat
  BY LenProperties DEF StorageOK
<1> QED  BY <1>1, <1>2 DEF db, Continues, Later

(* What the learner typed does not change its meaning while the version    *)
(* stays.                                                                  *)
LEMMA SameVersionSameCredential ==
    ASSUME NEW row \in Learner, NEW new, NEW m, Later(row, new),
           new.version = row.version
    PROVE  /\ Matches(new, m) <=> Matches(row, m)
           /\ new.pin = row.pin /\ new.account = row.account
           /\ new.form = row.form \/ new.form = "hash"
  BY DEF Later, Matches, Learner

LEMMA StartStays ==
    ASSUME StorageOK, StorageOK', Continues, NEW m, StartedBefore(m)
    PROVE  /\ StartedBefore(m)'
           /\ \A l \in Learners :
                IsAsBefore(l, m)' =>
                  /\ IsAsBefore(l, m)
                  /\ learners'[l].version = learners[l].version
                  /\ Matches(learners'[l], m) <=> Matches(learners[l], m)
                  /\ learners'[l].form = learners[l].form \/ learners'[l].form = "hash"
<1>1. ASSUME NEW l \in Learners
      PROVE  /\ learners[l].version \in Nat /\ learners'[l].version \in Nat
             /\ m.before[l][1] \in Nat
             /\ m.before[l][1] <= learners[l].version
             /\ learners[l].version <= learners'[l].version
             /\ learners[l] \in Learner
             /\ Later(learners[l], learners'[l])
  <2>1. learners[l] \in Learner /\ learners'[l] \in Learner
    BY DEF StorageOK, TypeOK
  <2>2. Later(learners[l], learners'[l])
    BY DEF Continues
  <2>3. m.before[l] \in Nat \X {"plain", "hash"} /\ m.before[l][1] <= learners[l].version
    BY DEF StartedBefore
  <2> QED  BY <2>1, <2>2, <2>3 DEF Learner, Later
<1>2. StartedBefore(m)'
  BY <1>1 DEF StartedBefore
<1>3. ASSUME NEW l \in Learners, IsAsBefore(l, m)'
      PROVE  IsAsBefore(l, m) /\ learners'[l].version = learners[l].version
  BY <1>1, <1>3 DEF IsAsBefore
<1> QED  BY <1>1, <1>2, <1>3, SameVersionSameCredential

LEMMA KnownLearnerStays ==
    ASSUME StorageOK, StorageOK', Continues, NEW m \in Locals, StartedBefore(m),
           KnowsLearner(m)
    PROVE  /\ KnowsLearner(m)'
           /\ m.version = learners'[m.learner].version =>
                /\ m.version = learners[m.learner].version
                /\ learners'[m.learner].form = learners[m.learner].form
                   \/ learners'[m.learner].form = "hash"
<1> DEFINE l == m.learner
<1>1. /\ l \in Learners
      /\ m.version \in Nat
      /\ m.version <= learners[l].version
  BY DEF KnowsLearner, Locals
<1>2. /\ learners[l] \in Learner
      /\ learners[l].version \in Nat /\ learners'[l].version \in Nat
      /\ learners[l].version <= learners'[l].version
      /\ Later(learners[l], learners'[l])
  BY <1>1 DEF StorageOK, TypeOK, Learner, Continues, Later
<1>3. m.version <= learners'[l].version
  BY <1>1, <1>2
<1>4. ASSUME m.version = learners'[l].version
      PROVE  /\ m.version = learners[l].version
             /\ learners'[l].version = learners[l].version
  BY <1>1, <1>2, <1>4
<1>5. ASSUME m.version = learners'[l].version
      PROVE  /\ Matches(learners'[l], m)
             /\ learners'[l].form = learners[l].form \/ learners'[l].form = "hash"
  BY <1>2, <1>4, <1>5, SameVersionSameCredential DEF KnowsLearner
<1>6. \A n \in Learners \ {l} : IsAsBefore(n, m)' => ~Matches(learners'[n], m)
  BY StartStays DEF KnowsLearner
<1> QED  BY <1>1, <1>3, <1>4, <1>5, <1>6 DEF KnowsLearner

(* What a request knows is not disturbed by the others.                    *)
LEMMA KnowledgeStays ==
    ASSUME StorageOK, StorageOK', Continues, NEW p, NEW m \in Locals, Knows(p, m)
    PROVE  Knows(p, m)'
<1>1. KnowsLogin(p, m)'
  <2>1. StartedBefore(m) => StartedBefore(m)'
    BY StartStays
  <2>2. ASSUME p = "code_plain" 
        PROVE  \A l \in Learners :
                 IsAsBefore(l, m)' /\ Matches(learners'[l], m) => m.before[l][2] = "plain"
    BY <2>2, StartStays DEF Knows, KnowsLogin
  <2>3. ASSUME p \in {"code_migrate", "code_again", "session_create"}
        PROVE  KnowsLearner(m)'
    BY <2>3, KnownLearnerStays DEF Knows, KnowsLogin
  <2>4. ASSUME p = "code_again", m.version = learners'[m.learner].version
        PROVE  learners'[m.learner].form = "hash"
    BY <2>4, KnownLearnerStays DEF Knows, KnowsLogin
  <2>5. ASSUME p = "refused_reply", NEW l \in Learners, IsAsBefore(l, m)',
               ~(m.learner = NoLearner /\ m.before[l][2] = "plain"
                                       /\ learners'[l].form = "hash")
        PROVE  ~Matches(learners'[l], m)
    <3>1. /\ IsAsBefore(l, m)
          /\ Matches(learners'[l], m) <=> Matches(learners[l], m)
          /\ learners'[l].form = learners[l].form \/ learners'[l].form = "hash"
      BY <2>5, StartStays DEF Knows, KnowsLogin
    <3> QED  BY <2>5, <3>1 DEF Knows, KnowsLogin
  <2>6. ASSUME p = "logout_revoke" PROVE m.session \in 1 .. Len(sessions')
    <3>1. Len(sessions) \in Nat /\ Len(sessions') \in Nat /\ Len(sessions) <= Len(sessions')
      BY LenProperties DEF StorageOK, Continues
    <3> QED  BY <2>6, <3>1 DEF Knows, KnowsLogin
  <2> QED  BY <2>1, <2>2, <2>3, <2>4, <2>5, <2>6 DEF Knows, KnowsLogin
<1>2. KnowsAdmin(p, m)'
  <2>1. ASSUME p \in AdminPoints
        PROVE  /\ StartedBefore(m)'
               /\ m.request \in AdminInputs /\ m.token \in Tokens
               /\ m.request.version <= learners'[m.request.learner].version
    <3>1. /\ StartedBefore(m)
          /\ m.request \in AdminInputs /\ m.token \in Tokens
          /\ m.request.version <= learners[m.request.learner].version
      BY <2>1 DEF Knows, KnowsAdmin
    <3>2. m.request.learner \in Learners /\ m.request.version \in Nat
      BY <3>1, InputTypes
    <3>3. /\ learners[m.request.learner].version \in Nat
          /\ learners'[m.request.learner].version \in Nat
          /\ learners[m.request.learner].version <= learners'[m.request.learner].version
      BY <3>2 DEF StorageOK, TypeOK, Learner, Continues, Later
    <3> QED  BY <3>1, <3>2, <3>3, StartStays
  <2>2. ASSUME p = "commit", m.request.kind = "update_learner_login", m.request.pin = NoPin,
               m.request.version = learners'[m.request.learner].version
        PROVE  m.pin = learners'[m.request.learner].pin
    <3>1. /\ m.request \in AdminInputs
          /\ m.request.version <= learners[m.request.learner].version
          /\ m.request.version = learners[m.request.learner].version
             => m.pin = learners[m.request.learner].pin
      BY <2>2 DEF Knows, KnowsAdmin, AdminPoints
    <3>2. m.request.learner \in Learners /\ m.request.version \in Nat
      BY <3>1, InputTypes
    <3>3. /\ learners[m.request.learner] \in Learner
          /\ learners[m.request.learner].version \in Nat
          /\ Later(learners[m.request.learner], learners'[m.request.learner])
      BY <3>2 DEF StorageOK, TypeOK, Learner, Continues
    <3>4. learners[m.request.learner].version = learners'[m.request.learner].version
      BY <2>2, <3>1, <3>2, <3>3 DEF Later
    <3> QED  BY <2>2, <3>1, <3>3, <3>4, SameVersionSameCredential
  <2>3. KnowsOperation(m) => KnowsOperation(m)'
    BY DEF KnowsOperation, Continues
  <2> QED  BY <2>1, <2>2, <2>3 DEF Knows, KnowsAdmin
<1> QED  BY <1>1, <1>2 DEF Knows

-----------------------------------------------------------------------------
(* Steps that only read.                                                   *)

LEMMA GotoTypes ==
    ASSUME StorageOK, NEW r \in Requests, NEW p \in Point, NEW m \in Locals, Goto(r, p, m)
    PROVE  /\ at' \in [Requests -> Point] /\ loc' \in [Requests -> Locals]
           /\ at'[r] = p /\ loc'[r] = m
           /\ \A q \in Requests \ {r} : at'[q] = at[q] /\ loc'[q] = loc[q]
<1>1. at \in [Requests -> Point] /\ loc \in [Requests -> Locals]
  BY DEF StorageOK, TypeOK
<1> QED  BY <1>1 DEF Goto

(* A request that goes on knows what it has to know, and so do the others. *)
LEMMA OthersKnow ==
    ASSUME StorageOK, StorageOK', Continues, RequestsKnow, NEW r \in Requests,
           NEW p \in Point, NEW m \in Locals, Goto(r, p, m), Knows(p, m)'
    PROVE  RequestsKnow'
<1>1. ASSUME NEW q \in Requests PROVE Knows(at[q], loc[q])'
  <2>1. PICK p1, m1 : p1 = at'[q] /\ m1 = loc'[q]
    OBVIOUS
  <2>2. CASE q = r
    <3>1. p1 = p /\ m1 = m
      BY <2>1, <2>2, GotoTypes
    <3> QED  BY <2>1, <3>1
  <2>3. CASE q # r
    <3>1. p1 = at[q] /\ m1 = loc[q] /\ m1 \in Locals
      BY <2>1, <2>3, GotoTypes DEF StorageOK
    <3>2. Knows(p1, m1)
      BY <3>1 DEF RequestsKnow
    <3>3. Knows(p1, m1)'
      BY <3>1, <3>2, KnowledgeStays
    <3> QED  BY <2>1, <3>3
  <2> QED  BY <2>2, <2>3
<1> QED  BY <1>1 DEF RequestsKnow

Leads(r) == \E p \in Point, m \in Locals : Goto(r, p, m) /\ Knows(p, m)

LEMMA ReadStep ==
    ASSUME AInv, NEW r \in Requests, UNCHANGED db, Leads(r)
    PROVE  AInv'
<1>1. PICK p \in Point, m \in Locals : Goto(r, p, m) /\ Knows(p, m)
  BY DEF Leads
<1>2. StorageOK'
  BY <1>1, GotoTypes DEF AInv, StorageOK, TypeOK, db
<1>3. RowsAgree'
  <2>1. learners' = learners /\ sessions' = sessions /\ ledger' = ledger
    BY DEF db
  <2>2. \A k : Committed(k)' = Committed(k)
    BY <2>1 DEF Committed
  <2>3. \A l : CredentialOperations(l)' = CredentialOperations(l)
    BY <2>1 DEF CredentialOperations, OperationAt
  <2>4. \A o : OperationAt(o)' = OperationAt(o)
    BY <2>1 DEF OperationAt
  <2>5. AccountsAreUnique' /\ RowsOK' /\ SessionsOK' /\ LiveSessionsHaveTheCredential'
    BY <2>1 DEF AInv, RowsAgree, AccountsAreUnique, RowsOK, SessionsOK,
                LiveSessionsHaveTheCredential, Admits
  <2>6. OneOperationPerToken' /\ OperationsAreFinite' /\ VersionsAreOperations'
    BY <2>1, <2>2, <2>3, <2>4
       DEF AInv, RowsAgree, OneOperationPerToken, OperationsAreFinite, VersionsAreOperations
  <2>7. RevocationsAreCounted'
    BY <2>1, <2>3, <2>4 DEF AInv, RowsAgree, RevocationsAreCounted
  <2> QED  BY <2>5, <2>6, <2>7 DEF RowsAgree
<1>4. Continues
  BY SameDatabaseContinues DEF AInv
<1>5. Knows(p, m)'
  BY <1>1, <1>2, <1>4, KnowledgeStays DEF AInv
<1>6. RequestsKnow'
  BY <1>1, <1>2, <1>4, <1>5, OthersKnow DEF AInv
<1> QED  BY <1>2, <1>3, <1>6 DEF AInv

LEMMA NothingIsKnown ==
    /\ Nothing \in Locals
    /\ \A p, m : p \in {"idle", "session_reply"} => Knows(p, m)
<1>1. Nothing \in Locals
  BY DEF Nothing, Locals, Codes
<1>2. \A p, m : p \in {"idle", "session_reply"} => Knows(p, m)
  BY DEF Knows, KnowsLogin, KnowsAdmin, AdminPoints
<1> QED  BY <1>1, <1>2

LEMMA FailLeads ==
    ASSUME NEW r, Fail(r)
    PROVE  Leads(r)
  BY NothingIsKnown DEF Fail, Leads, Point

LEMMA CredentialsAreBefore ==
    ASSUME StorageOK
    PROVE  /\ Credentials \in [Learners -> Nat \X {"plain", "hash"}]
           /\ \A m : m.before = Credentials => StartedBefore(m)
<1>1. \A l \in Learners : learners[l].version \in Nat /\ learners[l].form \in {"plain", "hash"}
  BY RowTypes
<1> QED  BY <1>1 DEF Credentials, StartedBefore

LEMMA AccountReadLeads ==
    ASSUME AInv, NEW r \in Requests, NEW a \in Accounts, NEW pin \in Pins,
           ReadAccountCredential(r, a, pin)
    PROVE  Leads(r)
<1> DEFINE none == [Nothing EXCEPT !.account = a, !.pin = pin, !.before = Credentials]
           found(l) == [Nothing EXCEPT !.learner = l, !.account = a, !.pin = pin,
                                       !.version = learners[l].version,
                                       !.before = Credentials]
<1>1. a # NoAccount
  BY LearnersAssumption
<1>2. none \in Locals /\ \A l \in Learners : found(l) \in Locals
  BY RowTypes, NothingIsKnown, CredentialsAreBefore DEF AInv, Nothing, Locals
<1>3. CASE WithAccount(a) = {}
  <2>1. Goto(r, "refused_reply", none)
    BY <1>3 DEF ReadAccountCredential
  <2>2. \A l \in Learners : ~Matches(learners[l], none)
    BY <1>1, <1>3 DEF WithAccount, Matches, Nothing
  <2>3. StartedBefore(none)
    BY CredentialsAreBefore DEF AInv, Nothing
  <2>4. Knows("refused_reply", none)
    BY <2>2, <2>3 DEF Knows, KnowsLogin, KnowsAdmin, AdminPoints
  <2> QED  BY <1>2, <2>1, <2>4 DEF Leads, Point, Replies
<1>4. CASE WithAccount(a) # {}
  <2>1. PICK l \in WithAccount(a) :
           Goto(r, IF learners[l].pin = pin THEN "session_create" ELSE "refused_reply", found(l))
    BY <1>4 DEF ReadAccountCredential
  <2>2. l \in Learners /\ learners[l].account = a /\ ~learners[l].legacy
    BY <2>1 DEF WithAccount
  <2>3. /\ found(l).learner = l /\ found(l).account = a /\ found(l).pin = pin
        /\ found(l).version = learners[l].version /\ found(l).before = Credentials
    BY DEF Nothing
  <2>4. StartedBefore(found(l))
    BY <2>3, CredentialsAreBefore DEF AInv
  <2>5. \A n \in Learners \ {l} : ~Matches(learners[n], found(l))
    BY <1>1, <2>2, <2>3 DEF Matches, AInv, RowsAgree, AccountsAreUnique
  <2>6. Matches(learners[l], found(l)) <=> learners[l].pin = pin
    BY <1>1, <2>2, <2>3 DEF Matches
  <2>7. learners[l].version \in Nat /\ Credentials[l][1] = learners[l].version
    BY <2>2, RowTypes DEF AInv, Credentials
  <2>8. CASE learners[l].pin = pin
    <3>1. KnowsLearner(found(l))
      BY <2>2, <2>3, <2>5, <2>6, <2>7, <2>8 DEF KnowsLearner
    <3>2. Knows("session_create", found(l))
      BY <2>4, <3>1 DEF Knows, KnowsLogin, KnowsAdmin, AdminPoints
    <3>3. Goto(r, "session_create", found(l))
      BY <2>1, <2>8
    <3> QED  BY <1>2, <2>2, <3>2, <3>3 DEF Leads, Point
  <2>9. CASE learners[l].pin # pin
    <3>1. \A n \in Learners : ~Matches(learners[n], found(l))
      BY <2>5, <2>6, <2>9
    <3>2. Knows("refused_reply", found(l))
      BY <2>4, <3>1 DEF Knows, KnowsLogin, KnowsAdmin, AdminPoints
    <3>3. Goto(r, "refused_reply", found(l))
      BY <2>1, <2>9
    <3> QED  BY <1>2, <2>2, <3>2, <3>3 DEF Leads, Point, Replies
  <2> QED  BY <2>8, <2>9
<1> QED  BY <1>3, <1>4

(* The code that a learner typed belongs to the learner that was found.    *)
LEMMA FoundByCodeKnows ==
    ASSUME AInv, NEW m \in Locals, m.account = NoAccount, m.code # Unknown,
           StartedBefore(m), NEW form \in {"plain", "hash"}, NEW l \in WithCode(m.code, form)
    PROVE  LET n == [m EXCEPT !.learner = l, !.version = learners[l].version]
           IN  /\ n \in Locals /\ n.account = NoAccount /\ StartedBefore(n)
               /\ KnowsLearner(n)
               /\ learners[l].form = form
<1> DEFINE n == [m EXCEPT !.learner = l, !.version = learners[l].version]
<1>1. /\ l \in Learners /\ learners[l].code = m.code /\ learners[l].form = form
      /\ learners[l].legacy /\ learners[l].account = NoAccount
  BY DEF WithCode
<1>2. learners[l].version \in Nat
  BY <1>1, RowTypes DEF AInv
<1>3. n \in Locals
  BY <1>1, <1>2 DEF Locals
<1>4. /\ n.learner = l /\ n.version = learners[l].version /\ n.account = NoAccount
      /\ n.code = m.code /\ n.before = m.before
  BY DEF Locals
<1>5. StartedBefore(n)
  BY <1>4 DEF StartedBefore
<1>6. n.before[l][1] <= learners[l].version
  BY <1>1, <1>5 DEF StartedBefore
<1>7. Matches(learners[l], n)
  BY <1>1, <1>4 DEF Matches
<1>8. \A k \in Learners \ {l} : ~Matches(learners[k], n)
  BY <1>1, <1>4 DEF Matches, AInv, RowsAgree, RowsOK
<1>9. KnowsLearner(n)
  BY <1>1, <1>2, <1>4, <1>6, <1>7, <1>8 DEF KnowsLearner
<1> QED  BY <1>1, <1>3, <1>4, <1>5, <1>9

LEMMA EnterCodeLeads ==
    ASSUME AInv, NEW r \in Requests, NEW c \in Codes \ {Unknown}, EnterCode(r, c)
    PROVE  Leads(r)
<1> DEFINE m == [Nothing EXCEPT !.code = c, !.before = Credentials]
<1>1. m \in Locals
  BY NothingIsKnown, CredentialsAreBefore DEF AInv, Locals
<1>2. /\ m.code = c /\ m.before = Credentials /\ m.account = NoAccount
      /\ m.learner = NoLearner
  BY DEF Nothing
<1>3. StartedBefore(m)
  BY <1>2, CredentialsAreBefore DEF AInv
<1>4. CASE WithCode(c, "hash") = {}
  <2>1. Goto(r, "code_plain", m)
    BY <1>4 DEF EnterCode
  <2>2. ASSUME NEW l \in Learners, Matches(learners[l], m)
        PROVE  m.before[l][2] = "plain"
    <3>1. learners[l].form # "hash"
      BY <1>2, <1>4, <2>2 DEF Matches, WithCode
    <3>2. learners[l].form = "plain"
      BY <3>1, RowTypes DEF AInv
    <3> QED  BY <1>2, <3>2 DEF Credentials
  <2>3. Knows("code_plain", m)
    BY <1>2, <1>3, <2>2 DEF Knows, KnowsLogin, KnowsAdmin, AdminPoints
  <2> QED  BY <1>1, <2>1, <2>3 DEF Leads, Point
<1>5. CASE WithCode(c, "hash") # {}
  <2>1. PICK w \in WithCode(c, "hash") :
           Goto(r, "session_create", [m EXCEPT !.learner = w, !.version = learners[w].version])
    BY <1>5 DEF EnterCode
  <2> DEFINE n == [m EXCEPT !.learner = w, !.version = learners[w].version]
  <2>2. n \in Locals /\ StartedBefore(n) /\ KnowsLearner(n)
    BY <1>1, <1>2, <1>3, FoundByCodeKnows
  <2>3. Knows("session_create", n)
    BY <2>2 DEF Knows, KnowsLogin, KnowsAdmin, AdminPoints
  <2> QED  BY <2>1, <2>2, <2>3 DEF Leads, Point
<1> QED  BY <1>4, <1>5

LEMMA FindPlainCodeLeads ==
    ASSUME AInv, NEW r \in Requests, FindPlainCode(r)
    PROVE  Leads(r)
<1> DEFINE m == loc[r]
<1>1. m \in Locals /\ Knows("code_plain", m)
  BY DEF AInv, StorageOK, RequestsKnow, FindPlainCode
<1>2. /\ m.account = NoAccount /\ m.code # Unknown /\ m.learner = NoLearner
      /\ StartedBefore(m)
      /\ \A l \in Learners :
            IsAsBefore(l, m) /\ Matches(learners[l], m) => m.before[l][2] = "plain"
  BY <1>1 DEF Knows, KnowsLogin
<1>3. CASE WithCode(m.code, "plain") = {}
  <2>1. Goto(r, "refused_reply", m)
    BY <1>3 DEF FindPlainCode, FoundByCode
  <2>2. ASSUME NEW l \in Learners, IsAsBefore(l, m), Matches(learners[l], m)
        PROVE  m.before[l][2] = "plain" /\ learners[l].form = "hash"
    <3>1. learners[l].form # "plain"
      BY <1>2, <1>3, <2>2 DEF Matches, WithCode
    <3> QED  BY <1>2, <2>2, <3>1, RowTypes DEF AInv
  <2>3. Knows("refused_reply", m)
    BY <1>2, <2>2 DEF Knows, KnowsLogin, KnowsAdmin, AdminPoints
  <2> QED  BY <1>1, <2>1, <2>3 DEF Leads, Point, Replies
<1>4. CASE WithCode(m.code, "plain") # {}
  <2>1. PICK w \in WithCode(m.code, "plain") :
           Goto(r, "code_migrate", [m EXCEPT !.learner = w, !.version = learners[w].version])
    BY <1>4 DEF FindPlainCode, FoundByCode
  <2> DEFINE n == [m EXCEPT !.learner = w, !.version = learners[w].version]
  <2>2. n \in Locals /\ n.account = NoAccount /\ StartedBefore(n) /\ KnowsLearner(n)
    BY <1>1, <1>2, FoundByCodeKnows
  <2>3. n.code # Unknown
    BY <1>1, <1>2 DEF Locals
  <2>4. Knows("code_migrate", n)
    BY <2>2, <2>3 DEF Knows, KnowsLogin, KnowsAdmin, AdminPoints
  <2> QED  BY <2>1, <2>2, <2>4 DEF Leads, Point
<1> QED  BY <1>3, <1>4

(* Nobody else has the credential of the learner that was found, nor has   *)
(* that learner any more when its version has changed.                     *)
LEMMA RefusedKnows ==
    ASSUME AInv, NEW m \in Locals, StartedBefore(m), KnowsLearner(m),
           m.version # learners[m.learner].version
    PROVE  Knows("refused_reply", m)
<1>1. /\ m.learner \in Learners
      /\ m.before[m.learner][1] <= m.version
      /\ m.version <= learners[m.learner].version
  BY DEF KnowsLearner
<1>2. learners[m.learner].version \in Nat /\ m.version \in Nat
  BY <1>1, RowTypes DEF AInv, Locals
<1>3. m.before[m.learner][1] \in Nat
  BY <1>1 DEF StartedBefore
<1>4. ~IsAsBefore(m.learner, m)
  BY <1>1, <1>2, <1>3 DEF IsAsBefore
<1>5. \A l \in Learners : IsAsBefore(l, m) => ~Matches(learners[l], m)
  BY <1>4 DEF KnowsLearner
<1> QED  BY <1>5 DEF Knows, KnowsLogin, KnowsAdmin, AdminPoints

LEMMA FindCodeAgainLeads ==
    ASSUME AInv, NEW r \in Requests, FindCodeAgain(r)
    PROVE  Leads(r)
<1> DEFINE m == loc[r]
<1>1. m \in Locals /\ Knows("code_again", m)
  BY DEF AInv, StorageOK, RequestsKnow, FindCodeAgain
<1>2. /\ m.account = NoAccount /\ m.code # Unknown
      /\ StartedBefore(m) /\ KnowsLearner(m)
      /\ m.version = learners[m.learner].version => learners[m.learner].form = "hash"
  BY <1>1 DEF Knows, KnowsLogin
<1>3. CASE WithCode(m.code, "hash") = {}
  <2>1. Goto(r, "refused_reply", m)
    BY <1>3 DEF FindCodeAgain, FoundByCode
  <2>2. m.version # learners[m.learner].version
    BY <1>2, <1>3 DEF KnowsLearner, Matches, WithCode
  <2>3. Knows("refused_reply", m)
    BY <1>1, <1>2, <2>2, RefusedKnows
  <2> QED  BY <1>1, <2>1, <2>3 DEF Leads, Point, Replies
<1>4. CASE WithCode(m.code, "hash") # {}
  <2>1. PICK w \in WithCode(m.code, "hash") :
           Goto(r, "session_create", [m EXCEPT !.learner = w, !.version = learners[w].version])
    BY <1>4 DEF FindCodeAgain, FoundByCode
  <2> DEFINE n == [m EXCEPT !.learner = w, !.version = learners[w].version]
  <2>2. n \in Locals /\ StartedBefore(n) /\ KnowsLearner(n)
    BY <1>1, <1>2, FoundByCodeKnows
  <2>3. Knows("session_create", n)
    BY <2>2 DEF Knows, KnowsLogin, KnowsAdmin, AdminPoints
  <2> QED  BY <2>1, <2>2, <2>3 DEF Leads, Point
<1> QED  BY <1>3, <1>4

LEMMA AdministerLeads ==
    ASSUME AInv, NEW r \in Requests, NEW k \in Tokens, NEW request \in AdminInputs,
           Administer(r, k, request)
    PROVE  Leads(r)
<1> DEFINE versions == [l \in Learners |-> <<learners[l].version, "hash">>]
           m == [Nothing EXCEPT !.token = k, !.request = request, !.before = versions]
<1>1. \A l \in Learners : learners[l].version \in Nat
  BY RowTypes DEF AInv
<1>2. versions \in [Learners -> Nat \X {"plain", "hash"}]
  BY <1>1
<1>3. m \in Locals
  BY <1>2, NothingIsKnown DEF Locals
<1>4. m.token = k /\ m.request = request /\ m.before = versions
  BY DEF Nothing
<1>5. StartedBefore(m)
  BY <1>1, <1>2, <1>4 DEF StartedBefore
<1>6. Goto(r, "find_operations", m) /\ request.version <= learners[request.learner].version
  BY DEF Administer
<1>7. Knows("find_operations", m)
  BY <1>4, <1>5, <1>6 DEF Knows, KnowsLogin, KnowsAdmin
<1> QED  BY <1>3, <1>6, <1>7 DEF Leads, Point

LEMMA AdminKnows ==
    ASSUME AInv, NEW r \in Requests, at[r] \in AdminPoints
    PROVE  /\ loc[r] \in Locals
           /\ StartedBefore(loc[r])
           /\ loc[r].request \in AdminInputs /\ loc[r].token \in Tokens
           /\ loc[r].request.version <= learners[loc[r].request.learner].version
           /\ Knows(at[r], loc[r])
  BY DEF AInv, StorageOK, RequestsKnow, Knows, KnowsAdmin

(* A search in one table of the ledger goes to the next table, to the      *)
(* operation it finds, or to an error.                                     *)
LEMMA SearchLeads ==
    ASSUME AInv, NEW r \in Requests, at[r] \in AdminPoints,
           NEW table \in Tables,
           NEW next \in {"none", "find_resets", "find_logins", "update_credential", "commit"},
           next = "update_credential" => loc[r].request.kind = "update_learner_login",
           next = "commit" => loc[r].request.kind # "update_learner_login",
           Search(r, table, next)
    PROVE  Leads(r)
<1> DEFINE m == loc[r]
           operation == ledger[table][m.token]
<1>1. /\ m \in Locals /\ StartedBefore(m)
      /\ m.request \in AdminInputs /\ m.token \in Tokens
      /\ m.request.version <= learners[m.request.learner].version
  BY AdminKnows
<1>2. CASE m.token \in DOMAIN ledger[table] /\ IsSameRequest(operation, m.request)
  <2> DEFINE n == [m EXCEPT !.operation = operation]
  <2>1. operation \in Operation
    BY <1>2 DEF AInv, StorageOK, TypeOK
  <2>2. n \in Locals
    BY <1>1, <2>1 DEF Locals
  <2>3. /\ n.operation = operation /\ n.request = m.request /\ n.token = m.token
        /\ n.before = m.before
    BY <1>1 DEF Locals
  <2>4. KnowsOperation(n)
    BY <1>2, <2>1, <2>3 DEF KnowsOperation, IsSameRequest
  <2>5. Knows("replay", n)
    BY <1>1, <2>3, <2>4 DEF Knows, KnowsLogin, KnowsAdmin, StartedBefore
  <2>6. Goto(r, "replay", n)
    BY <1>2 DEF Search
  <2> QED  BY <2>2, <2>5, <2>6 DEF Leads, Point
<1>3. CASE Fail(r)
  BY <1>3, FailLeads
<1>4. CASE m.token \notin DOMAIN ledger[table] /\ next # "none"
  <2>1. Goto(r, next, m)
    BY <1>4 DEF Search
  <2>2. Knows(next, m)
    BY <1>1, <1>4 DEF Knows, KnowsLogin, KnowsAdmin
  <2>3. next \in Point
    BY <1>4 DEF Point
  <2> QED  BY <1>1, <2>1, <2>2, <2>3 DEF Leads
<1> QED  BY <1>2, <1>3, <1>4 DEF Search

LEMMA FindLeads ==
    ASSUME AInv, NEW r \in Requests, FindOperation(r) \/ FindReset(r) \/ FindLoginUpdate(r)
    PROVE  Leads(r)
<1>1. CASE FindOperation(r)
  BY <1>1, SearchLeads DEF FindOperation, Tables, AdminPoints
<1>2. CASE FindReset(r)
  BY <1>2, SearchLeads DEF FindReset, Tables, AdminPoints
<1>3. CASE FindLoginUpdate(r)
  <2>1. /\ AfterSearch(r) \in {"none", "update_credential", "commit"}
        /\ AfterSearch(r) = "update_credential" => loc[r].request.kind = "update_learner_login"
        /\ AfterSearch(r) = "commit" => loc[r].request.kind # "update_learner_login"
    BY DEF AfterSearch
  <2>2. at[r] \in AdminPoints
        /\ Search(r, "learner_login_credential_operations", AfterSearch(r))
    BY <1>3 DEF FindLoginUpdate, AdminPoints
  <2> QED  BY <2>1, <2>2, SearchLeads DEF Tables
<1> QED  BY <1>1, <1>2, <1>3

LEMMA ReadLoginCredentialLeads ==
    ASSUME AInv, NEW r \in Requests, ReadLoginCredential(r)
    PROVE  Leads(r)
<1> DEFINE m == loc[r]
           row == learners[m.request.learner]
           pin == IF m.request.pin = NoPin THEN row.pin ELSE m.request.pin
           n == [m EXCEPT !.pin = pin]
<1>1. at[r] = "update_credential"
  BY DEF ReadLoginCredential
<1>2. /\ m \in Locals /\ StartedBefore(m)
      /\ m.request \in AdminInputs /\ m.token \in Tokens
      /\ m.request.version <= row.version
      /\ m.request.kind = "update_learner_login"
  BY <1>1, AdminKnows DEF AdminPoints, Knows, KnowsAdmin
<1>3. m.request.learner \in Learners /\ m.request.pin \in Pins \cup {NoPin}
  BY <1>2, InputTypes
<1>4. row.pin \in Pins \cup {NoPin}
  BY <1>3, RowTypes DEF AInv
<1>5. CASE Fail(r)
  BY <1>5, FailLeads
<1>6. CASE ~IsPinMissing(row, m.request.pin) /\ Goto(r, "commit", n)
  <2>1. pin \in Pins /\ (m.request.pin = NoPin => pin = row.pin)
    BY <1>3, <1>4, <1>6, LearnersAssumption DEF IsPinMissing
  <2>2. n \in Locals
    BY <1>2, <2>1 DEF Locals
  <2>3. /\ n.pin = pin /\ n.request = m.request /\ n.token = m.token /\ n.before = m.before
    BY <1>2 DEF Locals
  <2>4. pin # NoPin
    BY <2>1, LearnersAssumption
  <2>5. Knows("commit", n)
    BY <1>2, <2>1, <2>3, <2>4 DEF Knows, KnowsLogin, KnowsAdmin, StartedBefore
  <2> QED  BY <1>6, <2>2, <2>5 DEF Leads, Point
<1> QED  BY <1>5, <1>6 DEF ReadLoginCredential

LEMMA SearchAgainLeads ==
    ASSUME AInv, NEW r \in Requests, at[r] \in AdminPoints, SearchAgain(r)
    PROVE  Leads(r)
<1> DEFINE m == [loc[r] EXCEPT !.phase = "second"]
<1>1. /\ loc[r] \in Locals /\ StartedBefore(loc[r])
      /\ loc[r].request \in AdminInputs /\ loc[r].token \in Tokens
      /\ loc[r].request.version <= learners[loc[r].request.learner].version
  BY AdminKnows
<1>2. /\ m \in Locals /\ m.request = loc[r].request /\ m.token = loc[r].token
      /\ m.before = loc[r].before
  BY <1>1 DEF Locals
<1>3. Knows("find_operations", m)
  BY <1>1, <1>2 DEF Knows, KnowsLogin, KnowsAdmin, StartedBefore
<1> QED  BY <1>2, <1>3 DEF SearchAgain, Leads, Point

LEMMA ReplayLeads ==
    ASSUME AInv, NEW r \in Requests, Replay(r) \/ ReplayRecord(r)
    PROVE  Leads(r)
<1> DEFINE m == loc[r]
<1>1. at[r] \in {"replay", "replay_record"}
  BY DEF Replay, ReplayRecord
<1>2. /\ m \in Locals /\ StartedBefore(m)
      /\ m.request \in AdminInputs /\ m.token \in Tokens
      /\ m.request.version <= learners[m.request.learner].version
      /\ KnowsOperation(m)
      /\ Knows(at[r], m)
  BY <1>1, AdminKnows DEF AdminPoints, Knows, KnowsAdmin
<1>3. CASE Fail(r)
  BY <1>3, FailLeads
<1>4. ASSUME NEW p \in {"replay_record", "admin_reply"}, Goto(r, p, m),
             m.request.kind # "reset_course_progress" =>
                m.before[m.operation.learner][1] <= m.operation.version
      PROVE  Leads(r)
  <2>1. Knows(p, m)
    BY <1>2, <1>4 DEF Knows, KnowsLogin, KnowsAdmin
  <2> QED  BY <1>2, <1>4, <2>1 DEF Leads, Point, Replies
<1>5. CASE Replay(r) /\ IsCurrent(m.operation)
  <2>1. m.operation.learner \in Learners /\ m.operation.request = m.request
    BY <1>2 DEF KnowsOperation, Operation
  <2>2. m.request.kind # "reset_course_progress" =>
           m.before[m.operation.learner][1] <= m.operation.version
    BY <1>2, <1>5, <2>1 DEF IsCurrent, StartedBefore
  <2> QED  BY <1>4, <1>5, <2>2 DEF Replay
<1>6. CASE ReplayRecord(r) /\ Goto(r, "admin_reply", m)
  <2>1. m.request.kind # "reset_course_progress" =>
           m.before[m.operation.learner][1] <= m.operation.version
    BY <1>2, <1>6 DEF ReplayRecord, Knows, KnowsAdmin
  <2> QED  BY <1>4, <1>6, <2>1
<1> QED  BY <1>3, <1>5, <1>6 DEF Replay, ReplayRecord

LEMMA LogoutLeads ==
    ASSUME AInv, NEW r \in Requests, NEW n \in DOMAIN sessions, Logout(r, n)
    PROVE  Leads(r)
<1> DEFINE m == [Nothing EXCEPT !.session = n]
<1>1. n \in 1 .. Len(sessions) /\ n \in Nat
  BY LenProperties DEF AInv, StorageOK
<1>2. m \in Locals /\ m.session = n
  BY <1>1, NothingIsKnown DEF Locals
<1>3. Knows("logout_revoke", m)
  BY <1>1, <1>2 DEF Knows, KnowsLogin, KnowsAdmin, AdminPoints
<1> QED  BY <1>2, <1>3 DEF Logout, Leads, Point

-----------------------------------------------------------------------------
(* Steps that write.                                                       *)

LEMMA LedgerViews ==
    ASSUME UNCHANGED ledger
    PROVE  /\ \A k : Committed(k)' = Committed(k)
           /\ \A o : OperationAt(o)' = OperationAt(o)
           /\ \A l : CredentialOperations(l)' = CredentialOperations(l)
<1>1. \A k : Committed(k)' = Committed(k)
  BY DEF Committed
<1>2. \A o : OperationAt(o)' = OperationAt(o)
  BY DEF OperationAt
<1>3. \A l : CredentialOperations(l)' = CredentialOperations(l)
  BY DEF CredentialOperations, OperationAt
<1> QED  BY <1>1, <1>2, <1>3

(* The operations of the credentials speak of versions only.               *)
LEMMA OperationsStay ==
    ASSUME RowsAgree, UNCHANGED ledger,
           \A l \in Learners : /\ learners'[l].version = learners[l].version
                               /\ learners'[l].exists = learners[l].exists
    PROVE  OneOperationPerToken' /\ VersionsAreOperations' /\ OperationsAreFinite'
<1>1. OneOperationPerToken' /\ OperationsAreFinite'
  BY LedgerViews DEF RowsAgree, OneOperationPerToken, OperationsAreFinite
<1>2. ASSUME NEW l \in Learners
      PROVE  LET O == CredentialOperations(l)
             IN  /\ {OperationAt(o)' : o \in O} = {OperationAt(o) : o \in O}
                 /\ {OperationAt(o)'.version : o \in O} = {OperationAt(o).version : o \in O}
  BY LedgerViews
<1>3. VersionsAreOperations'
  BY <1>2, LedgerViews DEF RowsAgree, VersionsAreOperations
<1> QED  BY <1>1, <1>3

LEMMA MigrateCodeStep ==
    ASSUME AInv, NEW r \in Requests, MigrateCode(r)
    PROVE  AInv'
<1>0. PICK m : m = loc[r]
  OBVIOUS
<1> DEFINE l == m.learner
<1>1. m \in Locals /\ Knows("code_migrate", m) /\ at[r] = "code_migrate"
  BY <1>0 DEF AInv, StorageOK, RequestsKnow, MigrateCode
<1>2. /\ StartedBefore(m) /\ KnowsLearner(m) /\ l \in Learners
      /\ m.account = NoAccount /\ m.code # Unknown
  BY <1>1 DEF Knows, KnowsLogin, KnowsLearner
<1>3. CASE learners[l].code = m.code /\ learners[l].form = "plain"
  <2>1. /\ learners' = [learners EXCEPT ![l].form = "hash"]
        /\ Goto(r, "session_create", m)
        /\ sessions' = sessions /\ ledger' = ledger
    BY <1>0, <1>3 DEF MigrateCode
  <2>2. /\ learners[l] \in Learner
        /\ learners'[l] = [learners[l] EXCEPT !.form = "hash"]
        /\ \A n \in Learners \ {l} : learners'[n] = learners[n]
    BY <1>2, <2>1 DEF AInv, StorageOK, TypeOK
  <2>3. /\ learners'[l] \in Learner
        /\ \A n \in Learners :
              /\ learners'[n].exists = learners[n].exists
              /\ learners'[n].account = learners[n].account
              /\ learners'[n].pin = learners[n].pin
              /\ learners'[n].code = learners[n].code
              /\ learners'[n].legacy = learners[n].legacy
              /\ learners'[n].version = learners[n].version
    BY <2>2 DEF Learner
  <2>4. learners' \in [Learners -> Learner]
    BY <2>1, <2>2, <2>3 DEF AInv, StorageOK, TypeOK
  <2>5. StorageOK'
    BY <1>1, <2>1, <2>4, GotoTypes DEF AInv, StorageOK, TypeOK, Point
  <2>6. Continues
    <3>1. \A n \in Learners : Later(learners[n], learners'[n])
      BY <2>2, <2>3 DEF Later, Learner, AInv, StorageOK, TypeOK
    <3>2. Len(sessions) \in Nat
      BY LenProperties DEF AInv, StorageOK
    <3> QED  BY <2>1, <3>1, <3>2 DEF Continues
  <2>7. Knows("session_create", m)'
    <3>1. Knows("code_migrate", m)'
      BY <1>1, <2>5, <2>6, KnowledgeStays DEF AInv
    <3> QED  BY <3>1 DEF Knows, KnowsLogin, KnowsAdmin, AdminPoints
  <2>8. RequestsKnow'
    BY <1>1, <2>1, <2>5, <2>6, <2>7, OthersKnow DEF AInv, Point
  <2>9. RowsOK'
    <3>1. learners[l].exists
      BY <1>2, <1>3 DEF AInv, RowsAgree, RowsOK, NoRow
    <3>2. \A n \in Learners : ~learners[n].exists => learners'[n] = NoRow
      BY <2>2, <3>1 DEF AInv, RowsAgree, RowsOK
    <3> QED  BY <2>1, <2>3, <3>2 DEF AInv, RowsAgree, RowsOK
  <2>10. AccountsAreUnique'
    BY <2>3 DEF AInv, RowsAgree, AccountsAreUnique
  <2>11. SessionsOK' /\ LiveSessionsHaveTheCredential'
    <3>1. \A n \in DOMAIN sessions : sessions[n].learner \in Learners
      BY DEF AInv, StorageOK, TypeOK, Session
    <3> QED  BY <2>1, <2>3, <3>1
             DEF AInv, RowsAgree, SessionsOK, LiveSessionsHaveTheCredential, Admits
  <2>12. RevocationsAreCounted'
    BY <2>1, LedgerViews DEF AInv, RowsAgree, RevocationsAreCounted
  <2>13. OneOperationPerToken' /\ VersionsAreOperations' /\ OperationsAreFinite'
    BY <2>1, <2>3, OperationsStay DEF AInv
  <2> QED  BY <2>5, <2>8, <2>9, <2>10, <2>11, <2>12, <2>13 DEF AInv, RowsAgree
<1>4. CASE ~(learners[l].code = m.code /\ learners[l].form = "plain")
  <2>1. Goto(r, "code_again", m) /\ UNCHANGED db
    BY <1>0, <1>4 DEF MigrateCode, AfterMigrationLost, db
  <2>2. ASSUME m.version = learners[l].version PROVE learners[l].form = "hash"
    <3>1. learners[l].code = m.code
      BY <1>2, <2>2 DEF KnowsLearner, Matches
    <3> QED  BY <1>2, <1>4, <3>1, RowTypes DEF AInv
  <2>3. Knows("code_again", m)
    BY <1>2, <2>2 DEF Knows, KnowsLogin, KnowsAdmin, AdminPoints
  <2>4. Leads(r)
    BY <1>1, <2>1, <2>3 DEF Leads, Point
  <2> QED  BY <2>1, <2>4, ReadStep
<1> QED  BY <1>3, <1>4

(* The sessions of a version of a credential that its next change ended.   *)
Revoked(l, v) == {n \in DOMAIN sessions : /\ sessions[n].learner = l
                                          /\ sessions[n].version = v
                                          /\ sessions[n].status = "revoked"}

LEMMA RevokedCounts ==
    RevocationsAreCounted <=>
        \A l \in Learners : \A o \in CredentialOperations(l) :
            OperationAt(o).count = Cardinality(Revoked(l, OperationAt(o).version - 1))
  BY DEF RevocationsAreCounted, Revoked

LEMMA RevokedCountsNext ==
    RevocationsAreCounted' <=>
        \A l \in Learners : \A o \in CredentialOperations(l)' :
            OperationAt(o)'.count
                = Cardinality(Revoked(l, OperationAt(o).version - 1)')
  BY DEF RevocationsAreCounted, Revoked

LEMMA CountsStay ==
    ASSUME RowsAgree, UNCHANGED ledger, \A l, v : Revoked(l, v)' = Revoked(l, v)
    PROVE  RevocationsAreCounted'
<1>1. ASSUME NEW l \in Learners, NEW o \in CredentialOperations(l)'
      PROVE  OperationAt(o)'.count
                = Cardinality(Revoked(l, OperationAt(o).version - 1)')
  <2>1. o \in CredentialOperations(l) /\ OperationAt(o)' = OperationAt(o)
    BY LedgerViews
  <2>2. PICK v : v = OperationAt(o).version - 1
    OBVIOUS
  <2>3. Revoked(l, OperationAt(o).version - 1)' = Revoked(l, v)
    BY <2>1, <2>2 DEF Revoked
  <2>4. OperationAt(o).count = Cardinality(Revoked(l, v))
    BY <2>1, <2>2, RevokedCounts DEF RowsAgree
  <2> QED  BY <2>1, <2>3, <2>4
<1> QED  BY <1>1, RevokedCountsNext

LEMMA CreateSessionStep ==
    ASSUME AInv, NEW r \in Requests, CreateSession(r)
    PROVE  AInv'
<1>0. PICK m : m = loc[r]
  OBVIOUS
<1> DEFINE l == m.learner
           s == [learner |-> l, version |-> m.version, proof |-> Proof(r), status |-> "live"]
           n == Len(sessions) + 1
<1>1. m \in Locals /\ Knows("session_create", m) /\ at[r] = "session_create"
  BY <1>0 DEF AInv, StorageOK, RequestsKnow, CreateSession
<1>2. /\ StartedBefore(m) /\ KnowsLearner(m) /\ l \in Learners
  BY <1>1 DEF Knows, KnowsLogin, KnowsLearner
<1>3. CASE MayOpenSession(r)
  <2>1. /\ sessions' = Append(sessions, s)
        /\ Goto(r, "session_reply", [m EXCEPT !.session = n])
        /\ learners' = learners /\ ledger' = ledger
    BY <1>0, <1>3 DEF CreateSession
  <2>2. m.version = learners[l].version
    BY <1>0, <1>3 DEF MayOpenSession
  <2>3. s.proof = IF learners[l].account = NoAccount THEN learners[l].code
                                                     ELSE learners[l].pin
    <3>1. Matches(learners[l], m)
      BY <1>2, <2>2 DEF KnowsLearner
    <3> QED  BY <1>0, <3>1 DEF Matches, Proof
  <2>4. s \in Session
    <3>1. s.proof \in Pins \cup Codes
      BY <1>2, <2>3, RowTypes DEF AInv
    <3> QED  BY <1>1, <1>2, <3>1 DEF Session, Locals
  <2>5. /\ sessions \in Seq(Session)
        /\ Len(sessions) \in Nat
        /\ n \in Nat
        /\ [m EXCEPT !.session = n] \in Locals
    <3>1. sessions \in Seq(Session) /\ Len(sessions) \in Nat
      BY LenProperties DEF AInv, StorageOK
    <3> QED  BY <1>1, <3>1 DEF Locals
  <2>6. /\ sessions' \in Seq(Session)
        /\ Len(sessions') = n
        /\ DOMAIN sessions = 1 .. Len(sessions)
        /\ DOMAIN sessions' = DOMAIN sessions \cup {n}
        /\ n \notin DOMAIN sessions
        /\ sessions'[n] = s
        /\ \A i \in DOMAIN sessions : sessions'[i] = sessions[i]
    <3>1. /\ sessions' \in Seq(Session) /\ Len(sessions') = n /\ sessions'[n] = s
          /\ \A i \in 1 .. Len(sessions) : sessions'[i] = sessions[i]
      BY <2>1, <2>4, <2>5, AppendProperties
    <3>2. DOMAIN sessions = 1 .. Len(sessions) /\ DOMAIN sessions' = 1 .. n
      BY <2>5, <3>1, LenProperties
    <3> QED  BY <2>5, <3>1, <3>2
  <2> HIDE DEF s, n
  <2>7. StorageOK'
    <3>1. \A i \in DOMAIN sessions' : sessions'[i] \in Session
      BY <2>4, <2>6 DEF AInv, StorageOK, TypeOK
    <3> QED  BY <2>1, <2>5, <2>6, <3>1, GotoTypes
             DEF AInv, StorageOK, TypeOK, Point, Replies
  <2>8. Continues
    <3>1. \A k \in Learners : learners[k].version \in Nat
      BY RowTypes DEF AInv
    <3>2. Len(sessions) <= Len(sessions')
      BY <2>5, <2>6 DEF n
    <3> QED  BY <2>1, <3>1, <3>2 DEF Continues, Later
  <2>9. RequestsKnow'
    <3>1. PICK m1 \in Locals : m1 = [m EXCEPT !.session = n]
      BY <2>5
    <3>2. Goto(r, "session_reply", m1) /\ "session_reply" \in Point
      BY <2>1, <3>1 DEF Point, Replies
    <3>3. Knows("session_reply", m1)'
      BY DEF Knows, KnowsLogin, KnowsAdmin, AdminPoints
    <3> QED  BY <2>7, <2>8, <3>2, <3>3, OthersKnow DEF AInv
  <2>10. AccountsAreUnique' /\ RowsOK'
    BY <2>1 DEF AInv, RowsAgree, AccountsAreUnique, RowsOK
  <2>11. OneOperationPerToken' /\ VersionsAreOperations' /\ OperationsAreFinite'
    BY <2>1, OperationsStay DEF AInv
  <2>12. RevocationsAreCounted'
    <3>1. \A k, v : Revoked(k, v)' = Revoked(k, v)
      BY <2>6 DEF Revoked, s
    <3> QED  BY <2>1, <3>1, CountsStay DEF AInv
  <2>13. SessionsOK' /\ LiveSessionsHaveTheCredential'
    <3>1. learners[l].version \in Nat
      BY <1>2, RowTypes DEF AInv
    <3>2. s.learner = l /\ s.version = m.version /\ s.status = "live"
      BY DEF s
    <3>5. learners[l].exists
      BY <1>2, <2>2, LearnersAssumption
         DEF KnowsLearner, Matches, AInv, RowsAgree, RowsOK, NoRow
    <3>3. \A i \in DOMAIN sessions' :
             LET row == learners[sessions'[i].learner] IN
             /\ row.exists
             /\ sessions'[i].version <= row.version
             /\ sessions'[i].status = "revoked" => sessions'[i].version < row.version
      BY <2>2, <2>6, <3>1, <3>2, <3>5 DEF AInv, RowsAgree, SessionsOK
    <3>4. \A i \in DOMAIN sessions' : sessions'[i].status = "live" =>
             LET row == learners[sessions'[i].learner] IN
             /\ sessions'[i].version = row.version
             /\ sessions'[i].proof = IF row.account = NoAccount THEN row.code ELSE row.pin
      BY <2>2, <2>3, <2>6, <3>2 DEF AInv, RowsAgree, LiveSessionsHaveTheCredential, Admits
    <3> QED  BY <2>1, <3>3, <3>4 DEF SessionsOK, LiveSessionsHaveTheCredential, Admits
  <2> QED  BY <2>7, <2>9, <2>10, <2>11, <2>12, <2>13 DEF AInv, RowsAgree
<1>4. CASE ~MayOpenSession(r)
  <2>1. Goto(r, "refused_reply", m) /\ UNCHANGED db
    BY <1>0, <1>4 DEF CreateSession, db
  <2>2. Knows("refused_reply", m)
    BY <1>0, <1>1, <1>2, <1>4, RefusedKnows DEF MayOpenSession
  <2>3. Leads(r)
    BY <1>1, <2>1, <2>2 DEF Leads, Point, Replies
  <2> QED  BY <2>1, <2>3, ReadStep
<1> QED  BY <1>3, <1>4

LEMMA RevokeSessionStep ==
    ASSUME AInv, NEW r \in Requests, RevokeSession(r)
    PROVE  AInv'
<1>0. PICK n : n = loc[r].session
  OBVIOUS
<1>1. /\ sessions \in Seq(Session) /\ n \in DOMAIN sessions
      /\ Goto(r, "idle", Nothing) /\ learners' = learners /\ ledger' = ledger
      /\ sessions' = IF sessions[n].status = "live"
                       THEN [sessions EXCEPT ![n].status = "logged_out"] ELSE sessions
  <2>1. Knows("logout_revoke", loc[r])
    BY DEF AInv, StorageOK, RequestsKnow, RevokeSession
  <2> QED  BY <1>0, <2>1, LenProperties
           DEF Knows, KnowsLogin, AInv, StorageOK, RevokeSession, Fail
<1>2. CASE sessions[n].status # "live"
  <2>1. UNCHANGED db /\ Leads(r)
    BY <1>1, <1>2, FailLeads DEF db, Fail
  <2> QED  BY <2>1, ReadStep
<1>3. CASE sessions[n].status = "live"
  <2>1. sessions' = [sessions EXCEPT ![n] = [sessions[n] EXCEPT !.status = "logged_out"]]
    BY <1>1, <1>3
  <2>2. sessions[n] \in Session /\ [sessions[n] EXCEPT !.status = "logged_out"] \in Session
    BY <1>1 DEF AInv, StorageOK, TypeOK, Session
  <2>3. /\ sessions' \in Seq(Session) /\ DOMAIN sessions' = DOMAIN sessions
        /\ Len(sessions') = Len(sessions) /\ Len(sessions) \in Nat
    BY <1>1, <2>1, <2>2, ExceptSeq, LenProperties
  <2>4. /\ \A i \in DOMAIN sessions :
              /\ sessions'[i].learner = sessions[i].learner
              /\ sessions'[i].version = sessions[i].version
              /\ sessions'[i].status = "revoked" <=> sessions[i].status = "revoked"
              /\ sessions'[i].status = "live" => sessions'[i] = sessions[i]
    BY <1>1, <1>3, <2>1, <2>2 DEF Session
  <2>5. StorageOK'
    <3>1. \A i \in DOMAIN sessions' : sessions'[i] \in Session
      BY <2>1, <2>2, <2>3 DEF AInv, StorageOK, TypeOK
    <3> QED  BY <1>1, <2>3, <3>1, NothingIsKnown, GotoTypes
             DEF AInv, StorageOK, TypeOK, Point
  <2>6. Continues
    <3>1. \A k \in Learners : learners[k].version \in Nat
      BY RowTypes DEF AInv
    <3> QED  BY <1>1, <2>3, <3>1 DEF Continues, Later
  <2>7. RequestsKnow'
    <3>1. Knows("idle", Nothing)'
      BY DEF Knows, KnowsLogin, KnowsAdmin, AdminPoints
    <3> QED  BY <1>1, <2>5, <2>6, <3>1, NothingIsKnown, OthersKnow DEF AInv, Point
  <2>8. AccountsAreUnique' /\ RowsOK'
    BY <1>1 DEF AInv, RowsAgree, AccountsAreUnique, RowsOK
  <2>9. OneOperationPerToken' /\ VersionsAreOperations' /\ OperationsAreFinite'
    BY <1>1, OperationsStay DEF AInv
  <2>10. RevocationsAreCounted'
    <3>1. \A k, v : Revoked(k, v)' = Revoked(k, v)
      BY <2>3, <2>4 DEF Revoked
    <3> QED  BY <1>1, <3>1, CountsStay DEF AInv
  <2>11. SessionsOK' /\ LiveSessionsHaveTheCredential'
    BY <1>1, <2>3, <2>4
       DEF AInv, RowsAgree, SessionsOK, LiveSessionsHaveTheCredential, Admits
  <2> QED  BY <2>5, <2>7, <2>8, <2>9, <2>10, <2>11 DEF AInv, RowsAgree
<1> QED  BY <1>2, <1>3

-----------------------------------------------------------------------------
(* The batches of the administrator's operations.                          *)

(* A batch that is recorded adds one operation to the ledger and changes   *)
(* none.                                                                   *)
Recorded(r, l, v, c, table, k, op, m) ==
    /\ table = TableOf(loc[r].request.kind) /\ k = loc[r].token
    /\ op = [learner |-> l, version |-> v, request |-> loc[r].request, count |-> c]
    /\ m = [loc[r] EXCEPT !.operation = op]
    /\ k \notin DOMAIN ledger[table]
    /\ DOMAIN ledger' = Tables
    /\ DOMAIN ledger'[table] = DOMAIN ledger[table] \cup {k}
    /\ ledger'[table][k] = op
    /\ \A j \in DOMAIN ledger[table] : ledger'[table][j] = ledger[table][j]
    /\ \A t \in Tables \ {table} : ledger'[t] = ledger[t]
    /\ Goto(r, "admin_reply", m)

LEMMA RecordEffect ==
    ASSUME AInv, NEW r \in Requests, at[r] = "commit", Committed(loc[r].token) = {},
           NEW l \in Learners, NEW v \in Nat, NEW c \in Nat, Record(r, l, v, c)
    PROVE  \E table \in Tables, k \in Tokens, op \in Operation, m \in Locals :
              Recorded(r, l, v, c, table, k, op, m)
<1>0. PICK table, k, op, m :
         /\ table = TableOf(loc[r].request.kind) /\ k = loc[r].token
         /\ op = [learner |-> l, version |-> v, request |-> loc[r].request, count |-> c]
         /\ m = [loc[r] EXCEPT !.operation = op]
  OBVIOUS
<1>1. loc[r] \in Locals /\ k \in Tokens /\ loc[r].request \in AdminInputs
  BY <1>0, AdminKnows DEF AdminPoints
<1>2. table \in Tables
  BY <1>0, <1>1, InputTypes DEF TableOf, Tables
<1>3. op \in Operation
  BY <1>0, <1>1, InputTypes DEF Operation
<1>4. m \in Locals
  BY <1>0, <1>1, <1>3 DEF Locals
<1>5. k \notin DOMAIN ledger[table]
  BY <1>0, <1>2 DEF Committed
<1>6. DOMAIN ledger = Tables
  BY DEF AInv, StorageOK
<1>7. /\ ledger' = [ledger EXCEPT ![table] =
                      [j \in DOMAIN ledger[table] \cup {k} |->
                          IF j = k THEN op ELSE ledger[table][j]]]
      /\ Goto(r, "admin_reply", m)
  BY <1>0 DEF Record, Goto
<1>8. /\ DOMAIN ledger' = Tables
      /\ ledger'[table] = [j \in DOMAIN ledger[table] \cup {k} |->
                              IF j = k THEN op ELSE ledger[table][j]]
      /\ \A t \in Tables \ {table} : ledger'[t] = ledger[t]
  BY <1>2, <1>6, <1>7
<1>9. /\ DOMAIN ledger'[table] = DOMAIN ledger[table] \cup {k}
      /\ ledger'[table][k] = op
      /\ \A j \in DOMAIN ledger[table] : ledger'[table][j] = ledger[table][j]
  BY <1>5, <1>8
<1> QED  BY <1>0, <1>1, <1>2, <1>3, <1>4, <1>5, <1>7, <1>8, <1>9 DEF Recorded

(* One table of the ledger has one operation more, and a token commits one *)
(* operation.                                                              *)
LEMMA RecordViews ==
    ASSUME AInv, NEW r, NEW who, NEW v, NEW c,
           NEW table \in Tables, NEW k \in Tokens, NEW op, NEW m,
           Recorded(r, who, v, c, table, k, op, m), Committed(k) = {}
    PROVE  /\ OneOperationPerToken'
           /\ \A i : CredentialOperations(i)' =
                 CredentialOperations(i) \cup
                     (IF op.learner = i
                         /\ op.request.kind \in {"rotate_access_code", "update_learner_login"}
                         THEN {<<table, k>>} ELSE {})
           /\ \A i : \A o \in CredentialOperations(i) :
                 o # <<table, k>> /\ OperationAt(o)' = OperationAt(o)
           /\ OperationAt(<<table, k>>)' = op
<1>a. /\ DOMAIN ledger'[table] = DOMAIN ledger[table] \cup {k}
      /\ ledger'[table][k] = op
      /\ \A j \in DOMAIN ledger[table] : ledger'[table][j] = ledger[table][j]
      /\ \A t \in Tables \ {table} : ledger'[t] = ledger[t]
  BY DEF Recorded
<1>0. \A t \in Tables : k \notin DOMAIN ledger[t]
  BY DEF Committed
<1>1. Committed(k)' = {table}
  BY <1>0, <1>a DEF Committed
<1>2. \A j \in Tokens \ {k} : Committed(j)' = Committed(j)
  BY <1>a DEF Committed
<1>3. Cardinality({table}) <= 1
  <2>1. Cardinality({table}) = 1
    BY FS_Singleton, Zenon
  <2> QED  BY <2>1
<1>4. OneOperationPerToken'
  BY <1>1, <1>2, <1>3 DEF OneOperationPerToken, AInv, RowsAgree
<1>5. OperationAt(<<table, k>>)' = op
  BY <1>a DEF OperationAt
<1>6. ASSUME NEW o \in Tables \X Tokens, o # <<table, k>>
      PROVE  /\ o[2] \in DOMAIN ledger'[o[1]] <=> o[2] \in DOMAIN ledger[o[1]]
             /\ o[2] \in DOMAIN ledger[o[1]] => OperationAt(o)' = OperationAt(o)
  BY <1>a, <1>6 DEF OperationAt
<1>7. \A l : \A o \in CredentialOperations(l) :
         o # <<table, k>> /\ OperationAt(o)' = OperationAt(o)
  BY <1>0, <1>6 DEF CredentialOperations
<1>8. ASSUME NEW l, NEW o
      PROVE  o \in CredentialOperations(l)' <=>
                \/ o \in CredentialOperations(l)
                \/ /\ o = <<table, k>> /\ op.learner = l
                   /\ op.request.kind \in {"rotate_access_code", "update_learner_login"}
  <2>1. CASE o = <<table, k>>
    BY <1>a, <1>0, <1>5, <2>1 DEF CredentialOperations
  <2>2. CASE o # <<table, k>> /\ o \in Tables \X Tokens
    BY <1>6, <2>2 DEF CredentialOperations
  <2>3. CASE o \notin Tables \X Tokens
    BY <2>3 DEF CredentialOperations
  <2> QED  BY <2>1, <2>2, <2>3
<1> QED  BY <1>4, <1>5, <1>7, <1>8

(* Who records an operation knows it.                                      *)
LEMMA RecorderKnows ==
    ASSUME AInv, NEW r \in Requests, at[r] = "commit",
           NEW k, k = loc[r].token, NEW q, q = loc[r].request, Committed(k) = {},
           NEW l \in Learners, NEW v \in Nat, NEW c \in Nat, Record(r, l, v, c),
           q.kind # "reset_course_progress" => learners[l].version <= v,
           learners' \in [Learners -> Learner],
           \A i \in Learners : Later(learners[i], learners'[i]),
           sessions' \in Seq(Session), Len(sessions') = Len(sessions)
    PROVE  StorageOK' /\ RequestsKnow'
<1>. PICK table \in Tables, token \in Tokens, op \in Operation, m \in Locals :
         Recorded(r, l, v, c, table, token, op, m)
  BY RecordEffect
<1>0. /\ table = TableOf(q.kind) /\ token = k
      /\ op = [learner |-> l, version |-> v, request |-> q, count |-> c]
      /\ m = [loc[r] EXCEPT !.operation = op]
  BY DEF Recorded
<1>1. /\ table \in Tables /\ k \in Tokens /\ op \in Operation
      /\ k \notin DOMAIN ledger[table]
      /\ DOMAIN ledger' = Tables
      /\ DOMAIN ledger'[table] = DOMAIN ledger[table] \cup {k}
      /\ ledger'[table][k] = op
      /\ \A i \in DOMAIN ledger[table] : ledger'[table][i] = ledger[table][i]
      /\ \A t \in Tables \ {table} : ledger'[t] = ledger[t]
      /\ Goto(r, "admin_reply", m)
  BY <1>0 DEF Recorded
<1>2. /\ loc[r] \in Locals /\ StartedBefore(loc[r]) /\ q \in AdminInputs
      /\ q.version <= learners[q.learner].version
  BY AdminKnows DEF AdminPoints
<1>3. /\ m \in Locals /\ m.operation = op /\ m.request = q /\ m.token = k
      /\ m.before = loc[r].before
  BY <1>0, <1>1, <1>2 DEF Locals
<1>4. StorageOK'
  <2>1. \A t \in Tables : \A j \in DOMAIN ledger'[t] :
           j \in Tokens /\ ledger'[t][j] \in Operation
    BY <1>1 DEF AInv, StorageOK, TypeOK
  <2>2. \A i \in DOMAIN sessions' : sessions'[i] \in Session
    BY ElementOfSeq, LenProperties
  <2> QED  BY <1>1, <1>3, <2>1, <2>2, GotoTypes
           DEF AInv, StorageOK, TypeOK, Point, Replies
<1>5. Continues
  <2>1. Len(sessions) \in Nat
    BY LenProperties DEF AInv, StorageOK
  <2> QED  BY <1>1, <2>1 DEF Continues
<1>6. Knows("admin_reply", m)'
  <2>1. StartedBefore(m)
    BY <1>2, <1>3 DEF StartedBefore
  <2>2. StartedBefore(m)'
    BY <1>4, <1>5, <2>1, StartStays DEF AInv
  <2>3. KnowsOperation(m)'
    BY <1>0, <1>1, <1>3 DEF KnowsOperation
  <2>4. m.request.version <= learners'[m.request.learner].version
    <3>1. /\ q.learner \in Learners /\ q.version \in Nat
      BY <1>2, InputTypes
    <3>2. /\ learners[q.learner].version \in Nat /\ learners'[q.learner].version \in Nat
          /\ learners[q.learner].version <= learners'[q.learner].version
      BY <1>4, <3>1 DEF AInv, StorageOK, TypeOK, Learner, Later
    <3> QED  BY <1>2, <1>3, <3>1, <3>2
  <2>5. q.kind # "reset_course_progress" => m.before[l][1] <= v
    <3>1. m.before[l][1] \in Nat /\ m.before[l][1] <= learners[l].version
      BY <2>1 DEF StartedBefore
    <3>2. learners[l].version \in Nat
      BY RowTypes DEF AInv
    <3> QED  BY <3>1, <3>2
  <2>6. op.learner = l /\ op.version = v
    BY <1>0
  <2> QED  BY <1>1, <1>2, <1>3, <2>2, <2>3, <2>4, <2>5, <2>6
           DEF Knows, KnowsLogin, KnowsAdmin, AdminPoints
<1>7. RequestsKnow'
  BY <1>1, <1>3, <1>4, <1>5, <1>6, OthersKnow DEF AInv, Point, Replies
<1> QED  BY <1>4, <1>7

LEMMA ResetProgressStep ==
    ASSUME AInv, NEW r \in Requests, at[r] = "commit", ResetProgress(r)
    PROVE  AInv'
<1>0. PICK k, q, l : k = loc[r].token /\ q = loc[r].request /\ l = q.learner
  OBVIOUS
<1>1. CASE SearchAgain(r) /\ UNCHANGED db
  <2>1. Leads(r)
    BY <1>1, SearchAgainLeads DEF AdminPoints
  <2> QED  BY <1>1, <2>1, ReadStep
<1>2. CASE /\ IsTokenOpen(k, "course_progress_reset_operations")
           /\ Record(r, l, 0, 0)
           /\ UNCHANGED <<learners, sessions>>
  <2>1. Committed(k) = {} /\ q.kind = "reset_course_progress" /\ l \in Learners
    <3>1. q \in AdminInputs
      BY <1>0, AdminKnows DEF AdminPoints
    <3> QED  BY <1>0, <1>2, <3>1, InputTypes DEF IsTokenOpen, ResetProgress
  <2>2. \A i \in Learners : Later(learners[i], learners'[i])
    <3>1. \A i \in Learners : learners[i].version \in Nat
      BY RowTypes DEF AInv
    <3> QED  BY <1>2, <3>1 DEF Later
  <2>3. StorageOK' /\ RequestsKnow'
    BY <1>0, <1>2, <2>1, <2>2, RecorderKnows DEF AInv, StorageOK, TypeOK
  <2>4. PICK table \in Tables, j \in Tokens, op \in Operation, m \in Locals :
           Recorded(r, l, 0, 0, table, j, op, m)
    BY <1>0, <1>2, <2>1, RecordEffect
  <2>5. /\ j = k /\ op.request = q
        /\ DOMAIN ledger'[table] = DOMAIN ledger[table] \cup {k}
        /\ ledger'[table][k] = op
        /\ \A i \in DOMAIN ledger[table] : ledger'[table][i] = ledger[table][i]
        /\ \A t \in Tables \ {table} : ledger'[t] = ledger[t]
    BY <1>0, <2>4 DEF Recorded
  <2>6. /\ OneOperationPerToken'
        /\ \A i : CredentialOperations(i)' = CredentialOperations(i)
        /\ \A i : \A o \in CredentialOperations(i) : OperationAt(o)' = OperationAt(o)
    <3>0. Committed(j) = {}
      BY <2>1, <2>5
    <3>1. /\ OneOperationPerToken'
          /\ \A i : CredentialOperations(i)' =
                CredentialOperations(i) \cup
                    (IF op.learner = i
                        /\ op.request.kind \in {"rotate_access_code", "update_learner_login"}
                        THEN {<<table, j>>} ELSE {})
          /\ \A i : \A o \in CredentialOperations(i) :
                o # <<table, j>> /\ OperationAt(o)' = OperationAt(o)
      BY <2>4, <3>0, RecordViews
    <3>2. op.request.kind \notin {"rotate_access_code", "update_learner_login"}
      BY <2>1, <2>5
    <3>3. \A i : CredentialOperations(i)' = CredentialOperations(i)
      BY <3>1, <3>2
    <3> QED  BY <3>1, <3>3
  <2>7. VersionsAreOperations' /\ OperationsAreFinite'
    BY <1>2, <2>6 DEF AInv, RowsAgree, VersionsAreOperations, OperationsAreFinite
  <2>8. RevocationsAreCounted'
    BY <1>2, <2>6 DEF AInv, RowsAgree, RevocationsAreCounted
  <2>9. AccountsAreUnique' /\ SessionsOK' /\ LiveSessionsHaveTheCredential'
    BY <1>2 DEF AInv, RowsAgree, AccountsAreUnique, SessionsOK,
                LiveSessionsHaveTheCredential, Admits
  <2>10. RowsOK'
    <3>1. DOMAIN ledger["admin_operations"] \subseteq DOMAIN ledger'["admin_operations"]
      BY <2>5 DEF Tables
    <3> QED  BY <1>2, <3>1 DEF AInv, RowsAgree, RowsOK
  <2> QED  BY <2>3, <2>6, <2>7, <2>8, <2>9, <2>10 DEF AInv, RowsAgree
<1> QED  BY <1>0, <1>1, <1>2 DEF ResetProgress

LEMMA CreateCourseStep ==
    ASSUME AInv, NEW r \in Requests, at[r] = "commit", CreateCourse(r)
    PROVE  AInv'
<1>0. PICK k, q, a, new : /\ k = loc[r].token /\ q = loc[r].request
                          /\ a = q.account /\ new = AccountRow(a, q.pin)
  OBVIOUS
<1>1. CASE SearchAgain(r) /\ UNCHANGED db
  <2>1. Leads(r)
    BY <1>1, SearchAgainLeads DEF AdminPoints
  <2> QED  BY <1>1, <2>1, ReadStep
<1>2. CASE /\ IsTokenOpen(k, "admin_operations") /\ IsAccountFree(a, NoLearner)
           /\ \E l \in NewLearners : /\ learners' = [learners EXCEPT ![l] = new]
                                     /\ Record(r, l, 1, 0)
                                     /\ UNCHANGED sessions
  <2>1. /\ Committed(k) = {} /\ q.kind = "create_course"
        /\ a \in Accounts /\ q.pin \in Pins
        /\ \A i \in Learners : learners[i].account # a
    <3>1. q \in AdminInputs
      BY <1>0, AdminKnows DEF AdminPoints
    <3>2. q.kind = "create_course"
      BY <1>0 DEF CreateCourse
    <3> QED  BY <1>0, <1>2, <3>1, <3>2, InputTypes, LearnersAssumption
             DEF IsTokenOpen, IsAccountFree
  <2>2. PICK l \in NewLearners : /\ learners' = [learners EXCEPT ![l] = new]
                                 /\ Record(r, l, 1, 0)
                                 /\ UNCHANGED sessions
    BY <1>2
  <2>3. /\ l \in Learners /\ ~learners[l].exists /\ learners[l].version = 0
        /\ \A n \in DOMAIN sessions : sessions[n].learner # l
    BY <2>2 DEF NewLearners, AInv, RowsAgree, RowsOK, SessionsOK, NoRow
  <2>4. /\ new.exists /\ new.version = 1 /\ new.account = a /\ new.pin = q.pin
        /\ new.code = Unknown /\ ~new.legacy /\ new \in Learner
    BY <1>0, <2>1, LearnersAssumption DEF AccountRow, NoRow, Learner, Codes
  <2>5. /\ learners' \in [Learners -> Learner] /\ learners'[l] = new
        /\ \A i \in Learners \ {l} : learners'[i] = learners[i]
    BY <2>2, <2>3, <2>4 DEF AInv, StorageOK, TypeOK
  <2>6. \A i \in Learners : Later(learners[i], learners'[i])
    <3>1. \A i \in Learners : learners[i].version \in Nat
      BY RowTypes DEF AInv
    <3> QED  BY <2>3, <2>4, <2>5, <3>1 DEF Later
  <2>7. StorageOK' /\ RequestsKnow'
    <3>1. learners[l].version <= 1
      BY <2>3
    <3> QED  BY <1>0, <2>1, <2>2, <2>3, <2>5, <2>6, <3>1, RecorderKnows DEF AInv, StorageOK
  <2>8. PICK table \in Tables, j \in Tokens, op \in Operation, m \in Locals :
           Recorded(r, l, 1, 0, table, j, op, m)
    BY <1>0, <2>1, <2>2, <2>3, RecordEffect
  <2>9. /\ j = k /\ op.request = q /\ op.learner = l
        /\ DOMAIN ledger["admin_operations"] \subseteq DOMAIN ledger'["admin_operations"]
    BY <1>0, <2>8 DEF Recorded, Tables
  <2>10. /\ OneOperationPerToken'
         /\ \A i : CredentialOperations(i)' = CredentialOperations(i)
         /\ \A i : \A o \in CredentialOperations(i) : OperationAt(o)' = OperationAt(o)
    <3>0. Committed(j) = {}
      BY <2>1, <2>9
    <3>1. /\ OneOperationPerToken'
          /\ \A i : CredentialOperations(i)' =
                CredentialOperations(i) \cup
                    (IF op.learner = i
                        /\ op.request.kind \in {"rotate_access_code", "update_learner_login"}
                        THEN {<<table, j>>} ELSE {})
          /\ \A i : \A o \in CredentialOperations(i) :
                o # <<table, j>> /\ OperationAt(o)' = OperationAt(o)
      BY <2>8, <3>0, RecordViews
    <3>2. op.request.kind \notin {"rotate_access_code", "update_learner_login"}
      BY <2>1, <2>9
    <3>3. \A i : CredentialOperations(i)' = CredentialOperations(i)
      BY <3>1, <3>2
    <3> QED  BY <3>1, <3>3
  <2>11. OperationsAreFinite'
    BY <2>10 DEF AInv, RowsAgree, OperationsAreFinite
  <2>12. VersionsAreOperations'
    <3>1. CredentialOperations(l) = {}
      <4>1. {OperationAt(o).version : o \in CredentialOperations(l)} = 2 .. 0
        BY <2>3 DEF AInv, RowsAgree, VersionsAreOperations
      <4>2. \A o \in CredentialOperations(l) : OperationAt(o).version \in 2 .. 0
        BY <4>1
      <4>3. 2 .. 0 = {}
        OBVIOUS
      <4> QED  BY <4>2, <4>3
    <3>2. Cardinality(CredentialOperations(l)) = 0
      BY <3>1, FS_EmptySet
    <3>3. /\ {OperationAt(o)'.version : o \in CredentialOperations(l)'} = 2 .. learners'[l].version
          /\ Cardinality(CredentialOperations(l)') = learners'[l].version - 1
      <4>1. CredentialOperations(l)' = {} /\ Cardinality(CredentialOperations(l)') = 0
        BY <2>10, <3>1, <3>2
      <4>2. learners'[l].version = 1
        BY <2>4, <2>5
      <4> QED  BY <4>1, <4>2
    <3>4. ASSUME NEW i \in Learners \ {l}
          PROVE  /\ {OperationAt(o)'.version : o \in CredentialOperations(i)'}
                        = 2 .. learners'[i].version
                 /\ learners'[i].exists =>
                        Cardinality(CredentialOperations(i)') = learners'[i].version - 1
      BY <2>5, <2>10 DEF AInv, RowsAgree, VersionsAreOperations
    <3> QED  BY <3>3, <3>4 DEF VersionsAreOperations
  <2>13. RevocationsAreCounted'
    BY <2>2, <2>10 DEF AInv, RowsAgree, RevocationsAreCounted
  <2>14. AccountsAreUnique'
    BY <2>1, <2>4, <2>5 DEF AInv, RowsAgree, AccountsAreUnique
  <2>15. SessionsOK' /\ LiveSessionsHaveTheCredential'
    <3>1. \A n \in DOMAIN sessions : sessions[n].learner \in Learners \ {l}
      BY <2>3 DEF AInv, StorageOK, TypeOK, Session
    <3> QED  BY <2>2, <2>5, <3>1
             DEF AInv, RowsAgree, SessionsOK, LiveSessionsHaveTheCredential, Admits
  <2>16. RowsOK'
    BY <2>4, <2>5, <2>9, LearnersAssumption DEF AInv, RowsAgree, RowsOK
  <2> QED  BY <2>7, <2>10, <2>11, <2>12, <2>13, <2>14, <2>15, <2>16 DEF AInv, RowsAgree
<1>3. \/ SearchAgain(r) /\ UNCHANGED db
      \/ /\ IsTokenOpen(k, "admin_operations") /\ IsAccountFree(a, NoLearner)
         /\ \E l \in NewLearners : /\ learners' = [learners EXCEPT ![l] = new]
                                   /\ Record(r, l, 1, 0)
                                   /\ UNCHANGED sessions
  BY <1>0 DEF CreateCourse
<1> QED  BY <1>1, <1>2, <1>3

(* A change of a credential: the version grows by one, the sessions end,   *)
(* and the operation is recorded.                                          *)
LEMMA RevokeAllEffect ==
    ASSUME AInv, NEW l \in Learners, RevokeAll(l), NEW v, v = learners[l].version
    PROVE  /\ sessions' \in Seq(Session) /\ Len(sessions') = Len(sessions)
           /\ DOMAIN sessions' = DOMAIN sessions
           /\ \A n \in DOMAIN sessions :
                 /\ sessions'[n].learner = sessions[n].learner
                 /\ sessions'[n].version = sessions[n].version
                 /\ sessions[n].learner # l => sessions'[n] = sessions[n]
                 /\ sessions[n].learner = l =>
                       /\ sessions'[n].status # "live"
                       /\ sessions'[n].status = "revoked" <=>
                             sessions[n].status \in {"live", "revoked"}
           /\ RevokedCount(l) \in Nat
           /\ RevokedCount(l) = Cardinality(Revoked(l, v)')
           /\ \A i, w : i # l \/ w # v => Revoked(i, w)' = Revoked(i, w)
<1>1. /\ sessions \in Seq(Session) /\ DOMAIN sessions = 1 .. Len(sessions)
      /\ Len(sessions) \in Nat
      /\ \A n \in DOMAIN sessions : sessions[n] \in Session
  BY LenProperties DEF AInv, StorageOK, TypeOK
<1>2. sessions' = [n \in 1 .. Len(sessions) |->
                     IF n \in LiveSessions(l) THEN [sessions[n] EXCEPT !.status = "revoked"]
                                              ELSE sessions[n]]
  BY <1>1 DEF RevokeAll
<1>3. \A n \in 1 .. Len(sessions) : sessions'[n] \in Session
  BY <1>1, <1>2 DEF Session
<1>4. sessions' \in Seq(Session) /\ Len(sessions') = Len(sessions)
  <2>1. sessions' = [n \in 1 .. Len(sessions) |-> sessions'[n]]
    BY <1>2
  <2> QED  BY <1>1, <1>2, <1>3, <2>1, IsASeq, LenProperties
<1>5. DOMAIN sessions' = DOMAIN sessions
  BY <1>1, <1>2
<1>6. ASSUME NEW n \in DOMAIN sessions
      PROVE  /\ sessions'[n].learner = sessions[n].learner
             /\ sessions'[n].version = sessions[n].version
             /\ sessions[n].learner # l => sessions'[n] = sessions[n]
             /\ sessions[n].learner = l =>
                   /\ sessions'[n].status # "live"
                   /\ sessions'[n].status = "revoked" <=>
                         sessions[n].status \in {"live", "revoked"}
  <2>1. CASE n \in LiveSessions(l)
    <3>1. sessions'[n] = [sessions[n] EXCEPT !.status = "revoked"]
      BY <1>1, <1>2, <2>1
    <3> QED  BY <1>1, <2>1, <3>1 DEF LiveSessions, Session
  <2>2. CASE n \notin LiveSessions(l)
    <3>1. sessions'[n] = sessions[n]
      BY <1>1, <1>2, <2>2
    <3> QED  BY <1>1, <2>2, <3>1 DEF LiveSessions, Session
  <2> QED  BY <2>1, <2>2
<1>7. learners[l].version \in Nat
  BY RowTypes DEF AInv
<1>8. \A n \in DOMAIN sessions : sessions[n].learner = l =>
         /\ sessions[n].status = "live" => sessions[n].version = learners[l].version
         /\ sessions[n].status = "revoked" => sessions[n].version # learners[l].version
         /\ sessions[n].version \in Nat
  BY <1>1, <1>7 DEF AInv, RowsAgree, SessionsOK, LiveSessionsHaveTheCredential, Admits, Session
<1>9. Revoked(l, v)' = LiveSessions(l)
  BY <1>5, <1>6, <1>8 DEF Revoked, LiveSessions
<1>10. RevokedCount(l) \in Nat
  <2>1. LiveSessions(l) \subseteq 1 .. Len(sessions)
    BY <1>1 DEF LiveSessions
  <2>2. IsFiniteSet(1 .. Len(sessions))
    BY <1>1, FS_Interval
  <2> QED  BY <2>1, <2>2, FS_Subset, FS_CardinalityType DEF RevokedCount
<1>11. \A i, w : i # l \/ w # v => Revoked(i, w)' = Revoked(i, w)
  <2>1. ASSUME NEW i, NEW w, i # l \/ w # v, NEW n \in DOMAIN sessions,
               sessions[n].learner = i, sessions[n].version = w
        PROVE  sessions'[n].status = "revoked" <=> sessions[n].status = "revoked"
    BY <1>6, <1>8, <2>1
  <2> QED  BY <1>5, <1>6, <2>1 DEF Revoked
<1> QED  BY <1>4, <1>5, <1>6, <1>9, <1>10, <1>11 DEF RevokedCount

LEMMA ChangeStep ==
    ASSUME AInv, NEW r \in Requests, at[r] = "commit", Committed(loc[r].token) = {},
           NEW l \in Learners, learners[l].exists,
           NEW new \in Learner, learners' = [learners EXCEPT ![l] = new],
           new.exists, NEW v \in Nat, v = learners[l].version, new.version = v + 1,
           new.account # learners[l].account =>
               \A i \in Learners \ {l} : learners[i].account # new.account,
           new.code # Unknown =>
               new.code = loc[r].token /\ loc[r].request.kind = "rotate_access_code",
           loc[r].request.kind \in {"rotate_access_code", "update_learner_login"},
           RevokeAll(l), NEW c, c = RevokedCount(l), Record(r, l, v + 1, c)
    PROVE  AInv'
<1>1. /\ sessions' \in Seq(Session) /\ Len(sessions') = Len(sessions)
      /\ DOMAIN sessions' = DOMAIN sessions
      /\ \A n \in DOMAIN sessions :
            /\ sessions'[n].learner = sessions[n].learner
            /\ sessions'[n].version = sessions[n].version
            /\ sessions[n].learner # l => sessions'[n] = sessions[n]
            /\ sessions[n].learner = l =>
                  /\ sessions'[n].status # "live"
                  /\ sessions'[n].status = "revoked" <=>
                        sessions[n].status \in {"live", "revoked"}
      /\ c \in Nat /\ c = Cardinality(Revoked(l, v)')
      /\ \A i, w : i # l \/ w # v => Revoked(i, w)' = Revoked(i, w)
  BY RevokeAllEffect
<1>2. /\ learners' \in [Learners -> Learner] /\ learners'[l] = new
      /\ \A i \in Learners \ {l} : learners'[i] = learners[i]
  BY DEF AInv, StorageOK, TypeOK
<1>3. \A i \in Learners : Later(learners[i], learners'[i])
  <2>1. \A i \in Learners : learners[i].version \in Nat
    BY RowTypes DEF AInv
  <2> QED  BY <1>2, <2>1 DEF Later
<1>4. v + 1 \in Nat /\ v # 0
  BY DEF AInv, RowsAgree, RowsOK
<1>5. StorageOK' /\ RequestsKnow'
  <2>1. learners[l].version <= v + 1
    OBVIOUS
  <2>2. PICK k, q : k = loc[r].token /\ q = loc[r].request
    OBVIOUS
  <2> QED  BY <1>1, <1>2, <1>3, <1>4, <2>1, <2>2, RecorderKnows
<1>6. PICK table \in Tables, k \in Tokens, op \in Operation, m \in Locals :
         Recorded(r, l, v + 1, c, table, k, op, m)
  BY <1>1, <1>4, RecordEffect
<1>7. /\ k = loc[r].token
      /\ op.learner = l /\ op.version = v + 1 /\ op.count = c
      /\ op.request.kind \in {"rotate_access_code", "update_learner_login"}
      /\ table = TableOf(loc[r].request.kind)
      /\ DOMAIN ledger' = Tables
      /\ \A t \in Tables : DOMAIN ledger[t] \subseteq DOMAIN ledger'[t]
      /\ k \in DOMAIN ledger'[table]
  BY <1>6 DEF Recorded
<1>8. /\ OneOperationPerToken'
      /\ \A i : CredentialOperations(i)' =
            CredentialOperations(i) \cup (IF i = l THEN {<<table, k>>} ELSE {})
      /\ \A i : \A o \in CredentialOperations(i) :
            o # <<table, k>> /\ OperationAt(o)' = OperationAt(o)
      /\ OperationAt(<<table, k>>)' = op
  <2>1. Committed(k) = {}
    BY <1>7
  <2>2. /\ OneOperationPerToken'
        /\ \A i : CredentialOperations(i)' =
              CredentialOperations(i) \cup
                  (IF op.learner = i
                      /\ op.request.kind \in {"rotate_access_code", "update_learner_login"}
                      THEN {<<table, k>>} ELSE {})
        /\ \A i : \A o \in CredentialOperations(i) :
              o # <<table, k>> /\ OperationAt(o)' = OperationAt(o)
        /\ OperationAt(<<table, k>>)' = op
    BY <1>6, <2>1, RecordViews
  <2> QED  BY <1>7, <2>2
<1>9. OperationsAreFinite'
  <2>1. ASSUME NEW i \in Learners PROVE IsFiniteSet(CredentialOperations(i)')
    <3>1. IsFiniteSet(CredentialOperations(i))
      BY DEF AInv, RowsAgree, OperationsAreFinite
    <3>2. IsFiniteSet(CredentialOperations(i) \cup {<<table, k>>})
      BY <3>1, FS_AddElement
    <3> QED  BY <1>8, <3>1, <3>2
  <2> QED  BY <2>1 DEF OperationsAreFinite
<1>10. VersionsAreOperations'
  <2>1. /\ {OperationAt(o).version : o \in CredentialOperations(l)} = 2 .. v
        /\ Cardinality(CredentialOperations(l)) = v - 1
    BY DEF AInv, RowsAgree, VersionsAreOperations
  <2>2. {OperationAt(o)'.version : o \in CredentialOperations(l)'} = 2 .. v + 1
    <3>1. {OperationAt(o)'.version : o \in CredentialOperations(l)'}
             = {OperationAt(o).version : o \in CredentialOperations(l)} \cup {v + 1}
      BY <1>7, <1>8
    <3>2. (2 .. v) \cup {v + 1} = 2 .. v + 1
      BY <1>4
    <3> QED  BY <2>1, <3>1, <3>2
  <2>3. Cardinality(CredentialOperations(l)') = (v + 1) - 1
    <3>1. IsFiniteSet(CredentialOperations(l))
      BY DEF AInv, RowsAgree, OperationsAreFinite
    <3>2. <<table, k>> \notin CredentialOperations(l)
      BY <1>8
    <3>3. Cardinality(CredentialOperations(l) \cup {<<table, k>>})
             = Cardinality(CredentialOperations(l)) + 1
      BY <3>1, <3>2, FS_AddElement
    <3>4. CredentialOperations(l)' = CredentialOperations(l) \cup {<<table, k>>}
      BY <1>8
    <3>5. (v - 1) + 1 = (v + 1) - 1
      OBVIOUS
    <3> QED  BY <2>1, <3>3, <3>4, <3>5
  <2>4. ASSUME NEW i \in Learners \ {l}
        PROVE  /\ {OperationAt(o)'.version : o \in CredentialOperations(i)'}
                      = 2 .. learners'[i].version
               /\ learners'[i].exists =>
                      Cardinality(CredentialOperations(i)') = learners'[i].version - 1
    <3>1. CredentialOperations(i)' = CredentialOperations(i)
      BY <1>8
    <3> QED  BY <1>2, <1>8, <3>1 DEF AInv, RowsAgree, VersionsAreOperations
  <2> QED  BY <1>2, <2>2, <2>3, <2>4 DEF VersionsAreOperations
<1>11. RevocationsAreCounted'
  <2>1. ASSUME NEW i \in Learners, NEW o \in CredentialOperations(i)'
        PROVE  OperationAt(o)'.count = Cardinality(Revoked(i, OperationAt(o).version - 1)')
    <3>1. PICK w : w = OperationAt(o)'.version - 1
      OBVIOUS
    <3>2. Revoked(i, OperationAt(o).version - 1)' = Revoked(i, w)'
      BY <3>1 DEF Revoked
    <3>3. CASE o = <<table, k>>
      <4>1. i = l
        BY <1>8, <3>3
      <4>2. w = v
        BY <1>7, <1>8, <3>1, <3>3
      <4> QED  BY <1>1, <1>7, <1>8, <3>2, <3>3, <4>1, <4>2
    <3>4. CASE o # <<table, k>>
      <4>1. o \in CredentialOperations(i) /\ OperationAt(o)' = OperationAt(o)
        BY <1>8, <3>4
      <4>2. OperationAt(o).version \in 2 .. learners[i].version
        BY <4>1 DEF AInv, RowsAgree, VersionsAreOperations
      <4>3. learners[i].version \in Nat
        BY RowTypes DEF AInv
      <4>4. i # l \/ w # v
        BY <3>1, <4>1, <4>2, <4>3
      <4>5. Revoked(i, w)' = Revoked(i, w)
        BY <1>1, <4>4
      <4>6. OperationAt(o).count = Cardinality(Revoked(i, OperationAt(o).version - 1))
        BY <4>1, RevokedCounts DEF AInv, RowsAgree
      <4> QED  BY <3>1, <3>2, <4>1, <4>5, <4>6
    <3> QED  BY <3>3, <3>4
  <2> QED  BY <2>1, RevokedCountsNext
<1>12. AccountsAreUnique'
  BY <1>2 DEF AInv, RowsAgree, AccountsAreUnique
<1>13. SessionsOK'
  <2>1. \A n \in DOMAIN sessions : /\ sessions[n].learner \in Learners
                                   /\ sessions[n].version \in Nat
    BY DEF AInv, StorageOK, TypeOK, Session
  <2> QED  BY <1>1, <1>2, <2>1 DEF AInv, RowsAgree, SessionsOK
<1>14. LiveSessionsHaveTheCredential'
  <2>1. \A n \in DOMAIN sessions : sessions[n].learner \in Learners
    BY DEF AInv, StorageOK, TypeOK, Session
  <2> QED  BY <1>1, <1>2, <2>1
           DEF AInv, RowsAgree, LiveSessionsHaveTheCredential, Admits
<1>15. RowsOK'
  <2>1. new.code # Unknown =>
           /\ new.code = k
           /\ k \in DOMAIN ledger'["admin_operations"]
           /\ \A i \in Learners : learners[i].code # k
    <3>1. k \notin DOMAIN ledger["admin_operations"]
      BY <1>7 DEF Committed, Tables
    <3>2. \A i \in Learners : learners[i].code # k
      BY <3>1 DEF AInv, RowsAgree, RowsOK
    <3> QED  BY <1>7, <3>2 DEF TableOf
  <2>2. \A i \in Learners : learners'[i].code \in Tokens =>
           learners'[i].code \in DOMAIN ledger'["admin_operations"]
    BY <1>2, <1>7, <2>1, LearnersAssumption DEF AInv, RowsAgree, RowsOK, Tables
  <2>3. \A i, j \in Learners :
           i # j /\ learners'[i].code = learners'[j].code => learners'[i].code = Unknown
    BY <1>2, <2>1 DEF AInv, RowsAgree, RowsOK
  <2>4. \A i \in Learners : /\ learners'[i].exists <=> learners'[i].version # 0
                            /\ ~learners'[i].exists => learners'[i] = NoRow
    BY <1>2, <1>4 DEF AInv, RowsAgree, RowsOK
  <2> QED  BY <2>2, <2>3, <2>4 DEF RowsOK
<1> QED  BY <1>5, <1>8, <1>9, <1>10, <1>11, <1>12, <1>13, <1>14, <1>15 DEF AInv, RowsAgree

LEMMA RotateStep ==
    ASSUME AInv, NEW r \in Requests, at[r] = "commit", Rotate(r)
    PROVE  AInv'
<1>0. PICK k, q, l : k = loc[r].token /\ q = loc[r].request /\ l = q.learner
  OBVIOUS
<1>1. q \in AdminInputs /\ k \in Tokens
  BY <1>0, AdminKnows DEF AdminPoints
<1>2. l \in Learners /\ q.version \in Nat /\ q.kind = "rotate_access_code"
  BY <1>0, <1>1, InputTypes DEF Rotate
<1>3. CASE VersionIsExpected(r) /\ IsTokenOpen(k, "admin_operations")
  <2>1. PICK v, c, new : /\ v = learners[l].version /\ c = RevokedCount(l)
                         /\ new = [learners[l] EXCEPT !.code = k, !.form = "hash",
                                                      !.version = v + 1]
    OBVIOUS
  <2>2. Committed(k) = {} /\ learners[l].exists /\ v = q.version /\ v \in Nat
    BY <1>0, <1>2, <1>3, <2>1 DEF IsTokenOpen, VersionIsExpected
  <2>3. /\ learners' = [learners EXCEPT ![l] = new]
        /\ RevokeAll(l)
        /\ Record(r, l, v + 1, c)
    <3>1. /\ learners' = [learners EXCEPT ![l].code = k, ![l].form = "hash",
                                          ![l].version = v + 1]
          /\ RevokeAll(l)
      BY <1>0, <1>3, <2>2 DEF Rotate, RevokeAll
    <3>2. Record(r, l, v + 1, c)
      BY <1>0, <1>3, <2>1, <2>2 DEF Rotate, Record, Goto
    <3> QED  BY <1>2, <2>1, <3>1, <3>2 DEF AInv, StorageOK, TypeOK
  <2>4. /\ new \in Learner /\ new.exists /\ new.version = v + 1
        /\ new.account = learners[l].account /\ new.code = k
    <3>1. learners[l] \in Learner
      BY <1>2 DEF AInv, StorageOK, TypeOK
    <3>2. /\ new.exists = learners[l].exists /\ new.account = learners[l].account
          /\ new.pin = learners[l].pin /\ new.legacy = learners[l].legacy
          /\ new.code = k /\ new.version = v + 1
      BY <2>1, <3>1 DEF Learner
    <3>3. new \in [exists : BOOLEAN, account : Accounts \cup {NoAccount},
                   pin : Pins \cup {NoPin}, code : Codes,
                   form : {"plain", "hash"}, legacy : BOOLEAN, version : Nat]
      <4>1. v + 1 \in Nat /\ k \in Codes
        BY <1>1, <2>2 DEF Codes
      <4> QED  BY <1>2, <2>1, <4>1, RowTypes DEF AInv
    <3> QED  BY <2>2, <3>1, <3>2, <3>3 DEF Learner
  <2> QED  BY <1>0, <1>2, <2>1, <2>2, <2>3, <2>4, ChangeStep
<1>4. CASE SearchAgain(r) /\ UNCHANGED db
  <2>1. Leads(r)
    BY <1>4, SearchAgainLeads DEF AdminPoints
  <2> QED  BY <1>4, <2>1, ReadStep
<1> QED  BY <1>0, <1>3, <1>4 DEF Rotate

LEMMA UpdateLoginStep ==
    ASSUME AInv, NEW r \in Requests, at[r] = "commit", UpdateLogin(r)
    PROVE  AInv'
<1>0. PICK k, q, l, a, pin : /\ k = loc[r].token /\ q = loc[r].request
                             /\ l = q.learner /\ a = q.account /\ pin = loc[r].pin
  OBVIOUS
<1>1. /\ q \in AdminInputs /\ k \in Tokens /\ loc[r] \in Locals
      /\ Knows("commit", loc[r])
  BY <1>0, AdminKnows DEF AdminPoints
<1>2. /\ l \in Learners /\ q.version \in Nat /\ q.kind = "update_learner_login"
      /\ a \in Accounts
  BY <1>0, <1>1, InputTypes DEF UpdateLogin
<1>3. pin \in Pins
  BY <1>0, <1>1, <1>2 DEF Knows, KnowsAdmin, Locals
<1>4. CASE /\ VersionIsExpected(r)
           /\ IsTokenOpen(k, "learner_login_credential_operations")
           /\ IsAccountFree(a, l)
  <2>1. PICK v, c, new : /\ v = learners[l].version /\ c = RevokedCount(l)
                         /\ new = [learners[l] EXCEPT
                                      !.account = a, !.pin = pin, !.code = Unknown,
                                      !.form = "hash", !.legacy = FALSE, !.version = v + 1]
    OBVIOUS
  <2>2. Committed(k) = {} /\ learners[l].exists /\ v = q.version /\ v \in Nat
    BY <1>0, <1>2, <1>4, <2>1 DEF IsTokenOpen, VersionIsExpected
  <2>3. /\ learners' = [learners EXCEPT ![l] = new]
        /\ RevokeAll(l)
        /\ Record(r, l, v + 1, c)
    <3>1. /\ learners' = [learners EXCEPT ![l].account = a, ![l].pin = pin,
                                          ![l].code = Unknown, ![l].form = "hash",
                                          ![l].legacy = FALSE, ![l].version = v + 1]
          /\ RevokeAll(l)
      BY <1>0, <1>4, <2>2 DEF UpdateLogin, RevokeAll
    <3>2. Record(r, l, v + 1, c)
      BY <1>0, <1>4, <2>1, <2>2 DEF UpdateLogin, Record, Goto
    <3> QED  BY <1>2, <2>1, <3>1, <3>2 DEF AInv, StorageOK, TypeOK
  <2>4. /\ new \in Learner /\ new.exists /\ new.version = v + 1
        /\ new.account = a /\ new.code = Unknown
    <3>1. learners[l] \in Learner
      BY <1>2 DEF AInv, StorageOK, TypeOK
    <3>2. /\ new.exists = learners[l].exists /\ new.account = a
          /\ new.pin = pin /\ new.legacy = FALSE
          /\ new.code = Unknown /\ new.version = v + 1
      BY <2>1, <3>1 DEF Learner
    <3>3. new \in [exists : BOOLEAN, account : Accounts \cup {NoAccount},
                   pin : Pins \cup {NoPin}, code : Codes,
                   form : {"plain", "hash"}, legacy : BOOLEAN, version : Nat]
      <4>1. v + 1 \in Nat /\ Unknown \in Codes
        BY <2>2 DEF Codes
      <4> QED  BY <1>2, <1>3, <2>1, <4>1, RowTypes DEF AInv
    <3>4. a # NoAccount /\ pin # NoPin
      BY <1>2, <1>3, LearnersAssumption
    <3> QED  BY <2>2, <3>2, <3>3, <3>4 DEF Learner
  <2>5. \A i \in Learners \ {l} : learners[i].account # new.account
    BY <1>4, <2>4 DEF IsAccountFree
  <2>6. /\ Committed(loc[r].token) = {}
        /\ loc[r].request.kind \in {"rotate_access_code", "update_learner_login"}
    BY <1>0, <1>2, <2>2
  <2>7. v = learners[l].version /\ c = RevokedCount(l)
    BY <2>1
  <2>8. /\ new.account # learners[l].account =>
              \A i \in Learners \ {l} : learners[i].account # new.account
        /\ new.code # Unknown =>
              new.code = loc[r].token /\ loc[r].request.kind = "rotate_access_code"
    BY <2>4, <2>5
  <2> QED  BY <1>2, <2>2, <2>3, <2>4, <2>6, <2>7, <2>8, ChangeStep
<1>5. CASE SearchAgain(r) /\ UNCHANGED db
  <2>1. Leads(r)
    BY <1>5, SearchAgainLeads DEF AdminPoints
  <2> QED  BY <1>5, <2>1, ReadStep
<1> QED  BY <1>0, <1>4, <1>5 DEF UpdateLogin

-----------------------------------------------------------------------------
(* The invariant holds initially and is kept by every step.                *)

LEMMA InitRows ==
    ASSUME Init
    PROVE  /\ \A l \in Learners : /\ learners[l] \in Learner
                                  /\ learners[l].exists <=> learners[l].version # 0
                                  /\ ~learners[l].exists => learners[l] = NoRow
                                  /\ learners[l].code \in {Issued, Unknown}
                                  /\ learners[l].version \in {0, 1}
                                  /\ learners[l].code = Issued => learners[l].legacy
           /\ AccountsAreUnique
           /\ \A l, m \in Learners :
                 l # m /\ learners[l].code = learners[m].code => learners[l].code = Unknown
<1>1. /\ NoRow \in Learner /\ LegacyRow \in Learner
      /\ \A a \in Accounts, p \in InitialPins : AccountRow(a, p) \in Learner
  BY LearnersAssumption DEF NoRow, LegacyRow, AccountRow, Learner, Codes
<1>2. ASSUME NEW l \in Learners
      PROVE  /\ learners[l] \in Learner
             /\ learners[l].exists <=> learners[l].version # 0
             /\ ~learners[l].exists => learners[l] = NoRow
             /\ learners[l].code \in {Issued, Unknown}
             /\ learners[l].version \in {0, 1}
             /\ learners[l].code = Issued => learners[l].legacy
             /\ ~learners[l].exists => learners[l].account = NoAccount
  <2>1. CASE learners[l] = NoRow
    BY <1>1, <2>1, LearnersAssumption DEF NoRow
  <2>2. CASE learners[l] = LegacyRow
    BY <1>1, <2>2 DEF NoRow, LegacyRow
  <2>3. ASSUME NEW a \in Accounts, NEW p \in InitialPins, learners[l] = AccountRow(a, p)
        PROVE  /\ learners[l] \in Learner
               /\ learners[l].exists <=> learners[l].version # 0
               /\ ~learners[l].exists => learners[l] = NoRow
               /\ learners[l].code \in {Issued, Unknown}
               /\ learners[l].version \in {0, 1}
               /\ learners[l].code = Issued => learners[l].legacy
               /\ ~learners[l].exists => learners[l].account = NoAccount
    <3>1. learners[l] \in Learner
      BY <1>1, <2>3
    <3>2. /\ learners[l].exists /\ learners[l].version = 1 /\ learners[l].code = Unknown
      BY <2>3 DEF NoRow, AccountRow
    <3> QED  BY <3>1, <3>2, LearnersAssumption
  <2>4. learners[l] \in {NoRow, LegacyRow}
                          \cup {AccountRow(a, p) : a \in Accounts, p \in InitialPins}
    BY DEF Init
  <2> QED  BY <2>1, <2>2, <2>3, <2>4
<1>3. \A l, m \in Learners :
         l # m /\ learners[l].exists /\ learners[m].exists =>
            /\ ~(learners[l].legacy /\ learners[m].legacy)
            /\ learners[l].account # learners[m].account
  BY LearnersAssumption DEF Init
<1>4. AccountsAreUnique
  BY <1>2, <1>3 DEF AccountsAreUnique
<1>5. ASSUME NEW l \in Learners, NEW m \in Learners, l # m,
             learners[l].code = learners[m].code
      PROVE  learners[l].code = Unknown
  <2>1. CASE learners[l].code = Issued
    <3>1. learners[l].legacy /\ learners[m].legacy
      BY <1>2, <1>5, <2>1
    <3>2. learners[l].exists /\ learners[m].exists
      BY <1>2, <3>1 DEF NoRow
    <3> QED  BY <1>3, <1>5, <3>1, <3>2
  <2> QED  BY <1>2, <2>1
<1> QED  BY <1>2, <1>4, <1>5

LEMMA InitAInv == Init => AInv
<1> SUFFICES ASSUME Init PROVE AInv
  OBVIOUS
<1>1. /\ sessions = <<>> /\ DOMAIN sessions = {}
      /\ \A t \in Tables : ledger[t] = [k \in {} |-> {}]
      /\ DOMAIN ledger = Tables
      /\ \A r \in Requests : at[r] = "idle"
      /\ at \in [Requests -> Point] /\ loc \in [Requests -> Locals]
      /\ learners \in [Learners -> Learner]
  <2>1. learners \in [Learners -> Learner]
    <3>1. \A l \in Learners : learners[l] \in Learner
      BY InitRows
    <3> QED  BY <3>1 DEF Init
  <2> QED  BY <2>1, NothingIsKnown DEF Init, Point
<1>2. \A t \in Tables : DOMAIN ledger[t] = {}
  BY <1>1
<1>3. StorageOK
  BY <1>1, <1>2, EmptySeq DEF StorageOK, TypeOK
<1>4. \A l : CredentialOperations(l) = {}
  BY <1>2 DEF CredentialOperations
<1>5. \A k : Committed(k) = {}
  BY <1>2 DEF Committed
<1>6. OneOperationPerToken
  <2>1. Cardinality({}) <= 1
    BY FS_EmptySet
  <2> QED  BY <1>5, <2>1 DEF OneOperationPerToken
<1>7. OperationsAreFinite
  BY <1>4, FS_EmptySet DEF OperationsAreFinite
<1>8. VersionsAreOperations
  <2>1. ASSUME NEW l \in Learners
        PROVE  /\ {OperationAt(o).version : o \in CredentialOperations(l)}
                     = 2 .. learners[l].version
               /\ learners[l].exists =>
                     Cardinality(CredentialOperations(l)) = learners[l].version - 1
    <3>1. learners[l].version \in {0, 1} /\ (learners[l].exists <=> learners[l].version # 0)
      BY InitRows
    <3>2. {OperationAt(o).version : o \in CredentialOperations(l)} = {}
      BY <1>4
    <3>3. 2 .. learners[l].version = {}
      BY <3>1
    <3>4. Cardinality(CredentialOperations(l)) = 0
      BY <1>4, FS_EmptySet
    <3> QED  BY <3>1, <3>2, <3>3, <3>4
  <2> QED  BY <2>1 DEF VersionsAreOperations
<1>9. RevocationsAreCounted
  BY <1>4 DEF RevocationsAreCounted
<1>10. SessionsOK /\ LiveSessionsHaveTheCredential
  BY <1>1 DEF SessionsOK, LiveSessionsHaveTheCredential
<1>11. RowsOK
  BY InitRows, LearnersAssumption DEF RowsOK
<1>12. RequestsKnow
  BY <1>1, NothingIsKnown DEF RequestsKnow
<1> QED  BY <1>3, <1>6, <1>7, <1>8, <1>9, <1>10, <1>11, <1>12, InitRows DEF AInv, RowsAgree

LEMMA NextAInv ==
    ASSUME AInv, [Next]_vars
    PROVE  AInv'
<1>1. CASE UNCHANGED vars
  <2>1. learners' = learners /\ sessions' = sessions /\ ledger' = ledger
        /\ at' = at /\ loc' = loc
    BY <1>1 DEF vars
  <2>2. Continues
    BY <2>1, SameDatabaseContinues DEF db, AInv
  <2>3. StorageOK'
    BY <2>1 DEF AInv, StorageOK, TypeOK
  <2>4. ASSUME NEW r \in Requests PROVE Knows(at[r], loc[r])'
    <3>1. PICK p, m : p = at[r] /\ m = loc[r]
      OBVIOUS
    <3>2. Knows(p, m) /\ m \in Locals
      BY <3>1 DEF AInv, StorageOK, RequestsKnow
    <3>3. Knows(p, m)'
      BY <2>2, <2>3, <3>2, KnowledgeStays DEF AInv
    <3>4. p = at'[r] /\ m = loc'[r]
      BY <2>1, <3>1
    <3> QED  BY <3>3, <3>4
  <2>5. RowsAgree'
    <3>1. AccountsAreUnique' /\ RowsOK' /\ SessionsOK' /\ LiveSessionsHaveTheCredential'
      BY <2>1 DEF AInv, RowsAgree, AccountsAreUnique, RowsOK, SessionsOK,
                  LiveSessionsHaveTheCredential, Admits
    <3>2. OneOperationPerToken' /\ OperationsAreFinite' /\ VersionsAreOperations'
      BY <2>1, OperationsStay DEF AInv
    <3>3. RevocationsAreCounted'
      BY <2>1, LedgerViews DEF AInv, RowsAgree, RevocationsAreCounted
    <3> QED  BY <3>1, <3>2, <3>3 DEF RowsAgree
  <2> QED  BY <2>3, <2>4, <2>5 DEF AInv, RequestsKnow
<1>2. ASSUME NEW r \in Requests, Arrive(r) PROVE AInv'
  <2>1. Leads(r)
    BY <1>2, AccountReadLeads, EnterCodeLeads, LogoutLeads, AdministerLeads DEF Arrive
  <2>2. UNCHANGED db
    BY <1>2 DEF Arrive, ReadAccountCredential, EnterCode, Logout, Administer
  <2> QED  BY <2>1, <2>2, ReadStep
<1>3. ASSUME NEW r \in Requests, Serve(r) PROVE AInv'
  <2>1. CASE FindPlainCode(r) \/ FindCodeAgain(r) \/ FindOperation(r) \/ FindReset(r)
             \/ FindLoginUpdate(r) \/ ReadLoginCredential(r) \/ Replay(r) \/ ReplayRecord(r)
             \/ Deliver(r)
    <3>1. Leads(r)
      BY <2>1, FindPlainCodeLeads, FindCodeAgainLeads, FindLeads, ReadLoginCredentialLeads,
         ReplayLeads, FailLeads DEF Deliver
    <3>2. UNCHANGED db
      BY <2>1 DEF FindPlainCode, FindCodeAgain, FindOperation, FindReset, FindLoginUpdate,
                  ReadLoginCredential, Replay, ReplayRecord, Deliver
    <3> QED  BY <3>1, <3>2, ReadStep
  <2>2. CASE CreateSession(r)
    BY <2>2, CreateSessionStep
  <2>3. CASE MigrateCode(r)
    BY <2>3, MigrateCodeStep
  <2>4. CASE RevokeSession(r)
    BY <2>4, RevokeSessionStep
  <2>5. CASE Commit(r)
    BY <2>5, RotateStep, UpdateLoginStep, CreateCourseStep, ResetProgressStep DEF Commit
  <2> QED  BY <1>3, <2>1, <2>2, <2>3, <2>4, <2>5 DEF Serve
<1>4. ASSUME NEW r \in Requests, Die(r) PROVE AInv'
  BY <1>4, FailLeads, ReadStep DEF Die
<1> QED  BY <1>1, <1>2, <1>3, <1>4 DEF Next

LEMMA AccessHolds == Spec => []AInv
<1>1. Init => AInv
  BY InitAInv
<1>2. AInv /\ [Next]_vars => AInv'
  BY NextAInv
<1> QED  BY <1>1, <1>2, PTL DEF Spec

(* The rows of the learners, their sessions and the ledger agree: no       *)
(* operation is lost, made twice or recorded without its effect, and the   *)
(* sessions that an operation reports are those it ended.                  *)
THEOREM LedgerStaysTrue == Spec => []LedgerIsTrue
<1>1. AInv => LedgerIsTrue
  BY DEF AInv, StorageOK, RowsAgree, LedgerIsTrue
<1> QED  BY <1>1, AccessHolds, PTL

(* A session that admits its learner was opened with the credential that   *)
(* the learner has now, however many logins and changes were in flight.    *)
THEOREM SessionsEndWithTheirCredential == Spec => []LiveSessionsHaveTheCredential
<1>1. AInv => LiveSessionsHaveTheCredential
  BY DEF AInv, RowsAgree
<1> QED  BY <1>1, AccessHolds, PTL

(* What a handler tells is so: an administrator what the ledger holds, and *)
(* a learner that the credential is wrong only if it is.                   *)
THEOREM AnswersStayTrue == Spec => []AnswersAreTrue
<1>1. ASSUME AInv PROVE RepliesAreRecorded
  <2>1. ASSUME NEW r \in AdminRequests, at[r] = "admin_reply"
        PROVE  KnowsOperation(loc[r])
    BY <1>1, <2>1 DEF AInv, RequestsKnow, Knows, KnowsAdmin, Requests
  <2> QED  BY <2>1 DEF RepliesAreRecorded, KnowsOperation, Committed
<1>2. ASSUME AInv PROVE SupersededIsNotReturned
  <2>1. ASSUME NEW r \in AdminRequests, at[r] = "admin_reply",
               loc[r].request.kind # "reset_course_progress"
        PROVE  loc[r].before[loc[r].operation.learner][1] <= loc[r].operation.version
    BY <1>2, <2>1 DEF AInv, RequestsKnow, Knows, KnowsAdmin, Requests
  <2>2. ASSUME NEW r \in AdminRequests, at[r] = "admin_reply"
        PROVE  /\ loc[r].before[loc[r].operation.learner][1] \in Nat
               /\ loc[r].operation.version \in Nat
    BY <1>2, <2>2 DEF AInv, RequestsKnow, Knows, KnowsAdmin, Requests, AdminPoints,
                      StartedBefore, KnowsOperation, Operation
  <2> QED  BY <2>1, <2>2 DEF SupersededIsNotReturned
<1>3. ASSUME AInv PROVE CredentialsAreAcceptedUnlessHashed
  <2>1. ASSUME NEW r \in LoginRequests, at[r] = "refused_reply", NEW l \in Learners,
               learners[l].version = loc[r].before[l][1], ~HashedMeanwhile(l, r)
        PROVE  ~Opens(l, r)
    <3>1. ~Matches(learners[l], loc[r])
      BY <1>3, <2>1 DEF AInv, RequestsKnow, Knows, KnowsLogin, Requests, IsAsBefore,
                        HashedMeanwhile
    <3> QED  BY <3>1 DEF Matches, Opens, WithAccount, WithCode
  <2> QED  BY <2>1 DEF CredentialsAreAcceptedUnlessHashed
<1>4. AInv => AnswersAreTrue
  BY <1>1, <1>2, <1>3 DEF AnswersAreTrue
<1> QED  BY <1>4, AccessHolds, PTL

-----------------------------------------------------------------------------
(* What a step may never do.                                               *)

EndedAreEnded ==
    /\ \A n \in DOMAIN sessions :
          sessions[n].status # "live" => sessions'[n].status = sessions[n].status
    /\ \A l \in Learners : learners'[l].version >= learners[l].version

PinsAreKept ==
    \A l \in Learners : \A k \in Tokens :
        LET t == "learner_login_credential_operations" IN
        /\ k \in DOMAIN ledger'[t] \ DOMAIN ledger[t]
        /\ ledger'[t][k].learner = l
        /\ ledger'[t][k].request.pin = NoPin
        => learners'[l].pin = learners[l].pin

LEMMA NothingWritten ==
    ASSUME AInv, UNCHANGED db
    PROVE  EndedAreEnded /\ PinsAreKept
<1>1. \A l \in Learners : learners[l].version \in Nat
  BY RowTypes DEF AInv
<1> QED  BY <1>1 DEF db, EndedAreEnded, PinsAreKept

LEMMA SessionsWritten ==
    ASSUME AInv, NEW r \in Requests, CreateSession(r) \/ RevokeSession(r)
    PROVE  EndedAreEnded /\ PinsAreKept
<1>1. /\ sessions \in Seq(Session) /\ DOMAIN sessions = 1 .. Len(sessions)
      /\ \A l \in Learners : learners[l].version \in Nat
  BY RowTypes, LenProperties DEF AInv, StorageOK
<1>2. learners' = learners /\ ledger' = ledger
  BY DEF CreateSession, RevokeSession
<1>3. ASSUME NEW n \in DOMAIN sessions, sessions[n].status # "live"
      PROVE  sessions'[n] = sessions[n]
  <2>1. CASE CreateSession(r)
    <3>1. PICK s : sessions' = Append(sessions, s) \/ sessions' = sessions
      BY <2>1 DEF CreateSession
    <3> QED  BY <1>1, <3>1
  <2>2. CASE RevokeSession(r)
    BY <1>3, <2>2 DEF RevokeSession
  <2> QED  BY <2>1, <2>2
<1> QED  BY <1>1, <1>2, <1>3 DEF EndedAreEnded, PinsAreKept

LEMMA CodesWritten ==
    ASSUME AInv, NEW r \in Requests, MigrateCode(r)
    PROVE  EndedAreEnded /\ PinsAreKept
<1>1. sessions' = sessions /\ ledger' = ledger
  BY DEF MigrateCode
<1>2. ASSUME NEW l \in Learners
      PROVE  learners'[l].version = learners[l].version /\ learners[l].version \in Nat
  <2>1. learners[l] \in Learner /\ learners[l].version \in Nat
    BY RowTypes DEF AInv, StorageOK, TypeOK
  <2>2. learners'[l] = learners[l] \/ learners'[l] = [learners[l] EXCEPT !.form = "hash"]
    BY DEF MigrateCode, AInv, StorageOK, TypeOK
  <2> QED  BY <2>1, <2>2 DEF Learner
<1> QED  BY <1>1, <1>2 DEF EndedAreEnded, PinsAreKept

LEMMA CommitWritten ==
    ASSUME AInv, NEW r \in Requests, Commit(r)
    PROVE  EndedAreEnded /\ PinsAreKept
<1>0. PICK k, q, l : k = loc[r].token /\ q = loc[r].request /\ l = q.learner
  OBVIOUS
<1>1. /\ q \in AdminInputs /\ k \in Tokens /\ Knows("commit", loc[r]) /\ at[r] = "commit"
      /\ l \in Learners /\ q.version \in Nat
      /\ DOMAIN ledger = Tables
  BY <1>0, AdminKnows, InputTypes DEF AdminPoints, Commit, AInv, StorageOK
<1>2. /\ learners \in [Learners -> Learner]
      /\ \A i \in Learners : learners[i] \in Learner /\ learners[i].version \in Nat
  BY RowTypes DEF AInv, StorageOK, TypeOK
<1>3. CASE UNCHANGED db
  BY <1>3, NothingWritten
<1>4. ASSUME RevokeAll(l) \/ sessions' = sessions,
             NEW n \in DOMAIN sessions, sessions[n].status # "live"
      PROVE  sessions'[n] = sessions[n]
  BY <1>4 DEF RevokeAll, LiveSessions
<1>5. CASE Rotate(r) /\ ~UNCHANGED db
  <2>1. /\ learners' = [learners EXCEPT ![l].code = k, ![l].form = "hash",
                                        ![l].version = q.version + 1]
        /\ learners[l].version = q.version
        /\ RevokeAll(l) /\ q.kind = "rotate_access_code"
    BY <1>0, <1>5 DEF Rotate, VersionIsExpected, RevokeAll
  <2>2. \A i \in Learners : learners'[i].version >= learners[i].version
    BY <1>1, <1>2, <2>1 DEF Learner
  <2>3. ledger'["learner_login_credential_operations"]
           = ledger["learner_login_credential_operations"]
    BY <1>0, <1>1, <1>5, <2>1 DEF Rotate, Record, TableOf, Tables
  <2> QED  BY <1>4, <2>1, <2>2, <2>3 DEF EndedAreEnded, PinsAreKept
<1>6. CASE UpdateLogin(r) /\ ~UNCHANGED db
  <2>1. /\ learners' = [learners EXCEPT ![l].account = q.account, ![l].pin = loc[r].pin,
                                        ![l].code = Unknown, ![l].form = "hash",
                                        ![l].legacy = FALSE, ![l].version = q.version + 1]
        /\ learners[l].version = q.version
        /\ RevokeAll(l) /\ q.kind = "update_learner_login"
    BY <1>0, <1>6 DEF UpdateLogin, VersionIsExpected, RevokeAll
  <2>2. \A i \in Learners : learners'[i].version >= learners[i].version
    BY <1>1, <1>2, <2>1 DEF Learner
  <2>3. ledger' = [ledger EXCEPT !["learner_login_credential_operations"] =
                     [j \in DOMAIN @ \cup {k} |->
                        IF j = k THEN [learner |-> l, version |-> q.version + 1,
                                       request |-> q, count |-> RevokedCount(l)]
                                 ELSE @[j]]]
    BY <1>0, <1>6, <2>1 DEF UpdateLogin, Record, TableOf
  <2>4. learners'[l].pin = loc[r].pin
    BY <1>1, <1>2, <2>1 DEF Learner
  <2>5. q.pin = NoPin => loc[r].pin = learners[l].pin
    BY <1>0, <1>1, <2>1 DEF Knows, KnowsAdmin
  <2>6. PinsAreKept
    <3>1. ASSUME NEW j, j \in DOMAIN ledger'["learner_login_credential_operations"]
                           \ DOMAIN ledger["learner_login_credential_operations"]
          PROVE  /\ ledger'["learner_login_credential_operations"][j].learner = l
                 /\ ledger'["learner_login_credential_operations"][j].request = q
      BY <1>1, <2>3, <3>1 DEF Tables
    <3> QED  BY <2>4, <2>5, <3>1 DEF PinsAreKept
  <2> QED  BY <1>4, <2>1, <2>2, <2>6 DEF EndedAreEnded
<1>7. CASE CreateCourse(r) /\ ~UNCHANGED db
  <2>1. PICK i \in NewLearners :
          /\ learners' = [learners EXCEPT ![i] = AccountRow(q.account, q.pin)]
          /\ sessions' = sessions
          /\ Record(r, i, 1, 0)
    BY <1>0, <1>7 DEF CreateCourse
  <2>2. learners[i].version = 0
    BY <2>1 DEF NewLearners, AInv, RowsAgree, RowsOK
  <2>3. \A j \in Learners : learners'[j].version >= learners[j].version
    BY <1>2, <2>1, <2>2 DEF AccountRow, NoRow
  <2>4. ledger'["learner_login_credential_operations"]
           = ledger["learner_login_credential_operations"]
    BY <1>0, <1>1, <1>7, <2>1 DEF CreateCourse, Record, TableOf, Tables
  <2> QED  BY <1>4, <2>1, <2>3, <2>4 DEF EndedAreEnded, PinsAreKept
<1>8. CASE ResetProgress(r) /\ ~UNCHANGED db
  <2>1. learners' = learners /\ sessions' = sessions
    BY <1>8 DEF ResetProgress
  <2> QED  BY <1>2, <2>1 DEF EndedAreEnded, PinsAreKept
<1> QED  BY <1>3, <1>5, <1>6, <1>7, <1>8 DEF Commit

LEMMA StepsUndoNothing ==
    ASSUME AInv, [Next]_vars
    PROVE  [EndedAreEnded]_vars /\ [PinsAreKept]_vars
<1>1. ASSUME NEW r \in Requests, Arrive(r) PROVE UNCHANGED db
  BY <1>1 DEF Arrive, ReadAccountCredential, EnterCode, Logout, Administer
<1>2. ASSUME NEW r \in Requests, Serve(r)
      PROVE  \/ UNCHANGED db \/ CreateSession(r) \/ RevokeSession(r) \/ MigrateCode(r)
             \/ Commit(r)
  BY <1>2 DEF Serve, FindPlainCode, FindCodeAgain, FindOperation, FindReset, FindLoginUpdate,
              ReadLoginCredential, Replay, ReplayRecord, Deliver
<1>3. ASSUME NEW r \in Requests, Die(r) PROVE UNCHANGED db
  BY <1>3 DEF Die
<1> QED  BY <1>1, <1>2, <1>3, NothingWritten, SessionsWritten, CodesWritten, CommitWritten
         DEF Next

(* Nothing that was ended comes back, and a change of a login that names   *)
(* no PIN keeps the PIN, whatever was read before it was written.          *)
THEOREM NothingGetsUndone == Spec => NothingIsUndone
<1>1. AInv /\ [Next]_vars => [EndedAreEnded]_vars /\ [PinsAreKept]_vars
  BY StepsUndoNothing
<1> QED  BY <1>1, AccessHolds, PTL
         DEF Spec, NothingIsUndone, EndedStaysEnded, UpdatesWithoutPinKeepIt,
             EndedAreEnded, PinsAreKept
=============================================================================
