----------------------------- MODULE LoginThrottle -----------------------------
(***************************************************************************)
(* Failed logins and the cooldown they lead to.  Learners and              *)
(* administrators log in through the same sequence of statements: an       *)
(* attempt is reserved in one upsert before the credential is verified,    *)
(* and the row is deleted when the credential was right.  The two differ   *)
(* in the length of the window and of the cooldown, and in that the login  *)
(* of an administrator first deletes what has expired.                     *)
(*                                                                         *)
(* Attempts are counted per account (learner) or per client address        *)
(* (administrator); rows of different keys never meet, so the module has   *)
(* one key.  A request reads the clock once, at its start, and uses that   *)
(* time in all its statements.  Whether its credential is right is chosen  *)
(* when it starts: credentials that change are the subject of              *)
(* LearnerAccess.                                                          *)
(***************************************************************************)
EXTENDS LoginPolicies, FiniteSets, Sequences

CONSTANT Requests

VARIABLES
    policy,
    clock,
    row,        \* learner_login_attempts or admin_login_rate_limits
    sessions,   \* learner_sessions or admin_sessions by the order they were
                \* opened in: when they expire and how they stand
    at, loc,
    admitted,   \* history: when the attempts since the last successful login
                \* were admitted
    cooldown    \* history: the latest cooldown set since then

db == <<row, sessions>>
vars == <<policy, clock, row, sessions, at, loc, admitted, cooldown>>

Time == 0 .. MaxTime

NoRow == [start |-> NoTime, count |-> 0, until |-> NoTime, updated |-> NoTime]
Row == [start : Time, count : 1 .. MaxAttempts, until : Nat \cup {NoTime}, updated : Time]

Replies == {"session_reply", "refused_reply", "blocked_reply"}
Point == Replies \cup {"idle", "cleanup_sessions", "cleanup_row", "reserve", "reread",
                       "clear", "create"}

Nothing == [now |-> 0, right |-> FALSE, until |-> NoTime]

Init ==
    /\ policy \in Policies
    /\ clock = 0
    /\ row = NoRow
    /\ sessions = [n \in {} |-> {}]
    /\ at = [r \in Requests |-> "idle"]
    /\ loc = [r \in Requests |-> Nothing]
    /\ admitted = <<>>
    /\ cooldown = 0

Goto(r, point, l) ==
    /\ at' = [at EXCEPT ![r] = point]
    /\ loc' = [loc EXCEPT ![r] = l]

Fail(r) == Goto(r, "idle", Nothing)

(* Time passes while requests run, but a request is short: it ends, or is  *)
(* ended by the platform, long before a window does.                       *)
Tick ==
    /\ clock < MaxTime
    /\ \A r \in Requests : at[r] # "idle" => clock - loc[r].now < MaxLag
    /\ clock' = clock + 1
    /\ UNCHANGED <<policy, db, at, loc, admitted, cooldown>>

Deliver(r) ==
    /\ at[r] \in Replies
    /\ Fail(r)
    /\ UNCHANGED <<policy, clock, db, admitted, cooldown>>

Die(r) ==
    /\ at[r] \notin Replies \cup {"idle"}
    /\ Fail(r)
    /\ UNCHANGED <<policy, clock, db, admitted, cooldown>>

-----------------------------------------------------------------------------
(* login, exchangeAccountLogin.                                            *)

Login(r, right) ==
    /\ at[r] = "idle"
    /\ Goto(r, IF policy.cleans THEN "cleanup_sessions" ELSE "reserve",
            [Nothing EXCEPT !.now = clock, !.right = right])
    /\ UNCHANGED <<policy, clock, db, admitted, cooldown>>

IsSessionExpired(n, now) == sessions[n].expires <= now

(* cleanupExpired: two statements; the login goes on if one fails.         *)
CleanupSessions(r) ==
    /\ at[r] = "cleanup_sessions"
    /\ \/ /\ sessions' = [n \in DOMAIN sessions |->
                            IF IsSessionExpired(n, loc[r].now)
                               THEN [sessions[n] EXCEPT !.status = "deleted"]
                               ELSE sessions[n]]
          /\ Goto(r, "cleanup_row", loc[r])
       \/ /\ Goto(r, "reserve", loc[r])
          /\ UNCHANGED sessions
    /\ UNCHANGED <<policy, clock, row, admitted, cooldown>>

(* Mutant: the cleanup does not look at the age of a row.                  *)
IsRowUnblocked(now) == row # NoRow /\ (row.until = NoTime \/ row.until <= now)

IsRowExpired(now) ==
    /\ row # NoRow
    /\ row.updated <= now - policy.window
    /\ row.until = NoTime \/ row.until <= now

CleanupRow(r) ==
    /\ at[r] = "cleanup_row"
    /\ row' = IF IsRowExpired(loc[r].now) THEN NoRow ELSE row
    /\ Goto(r, "reserve", loc[r])
    /\ UNCHANGED <<policy, clock, sessions, admitted, cooldown>>

IsWindowOver(now) == row.start <= now - policy.window
IsBlockOver(now) == row.until # NoTime /\ row.until <= now
StartsAgain(now) == row = NoRow \/ IsWindowOver(now) \/ IsBlockOver(now)

(* Mutant: a window that is over lifts the cooldown.                       *)
MayReserveInNewWindow(now) ==
    row # NoRow => IsWindowOver(now) \/ row.count < MaxAttempts

(* The WHERE clause of the upsert.                                         *)
MayReserve(now) ==
    row # NoRow =>
        /\ row.until = NoTime \/ row.until <= now
        /\ IsWindowOver(now) \/ row.count < MaxAttempts

ReachesMaximum(count) == count >= MaxAttempts

Reserved(now) ==
    IF StartsAgain(now)
       THEN [start |-> now, count |-> 1, until |-> NoTime, updated |-> now]
       ELSE [start   |-> row.start,
             count   |-> row.count + 1,
             until   |-> IF ReachesMaximum(row.count + 1) THEN now + policy.block
                                                         ELSE row.until,
             updated |-> now]

(* reserveAttempt: one upsert.  An attempt with a wrong credential is      *)
(* answered at once, with the cooldown if it started one.                  *)
ReserveAttempt(r) ==
    /\ at[r] = "reserve"
    /\ LET now == loc[r].now IN
       IF MayReserve(now)
          THEN /\ row' = Reserved(now)
               /\ admitted' = Append(admitted, clock)
               /\ cooldown' = IF Reserved(now).until = NoTime THEN cooldown
                              ELSE Reserved(now).until
               /\ Goto(r, IF loc[r].right THEN "clear"
                          ELSE IF Reserved(now).until = NoTime THEN "refused_reply"
                          ELSE "blocked_reply",
                       [loc[r] EXCEPT !.until = Reserved(now).until])
          ELSE /\ Goto(r, "reread", loc[r])
               /\ UNCHANGED <<row, admitted, cooldown>>
    /\ UNCHANGED <<policy, clock, sessions>>

(* An attempt that was not admitted reads the cooldown in a statement of   *)
(* its own; the row may have been deleted or counted from one meanwhile.   *)
ReadCooldown(r) ==
    /\ at[r] = "reread"
    /\ IF row.until = NoTime THEN Fail(r)
       ELSE Goto(r, "blocked_reply", [loc[r] EXCEPT !.until = row.until])
    /\ UNCHANGED <<policy, clock, db, admitted, cooldown>>

Clear(r) ==
    /\ at[r] = "clear"
    /\ row' = NoRow
    /\ admitted' = <<>>
    /\ cooldown' = 0
    /\ Goto(r, "create", loc[r])
    /\ UNCHANGED <<policy, clock, sessions>>

Create(r) ==
    /\ at[r] = "create"
    /\ Cardinality(DOMAIN sessions) < MaxSessions
    /\ sessions' = [n \in 1 .. Cardinality(DOMAIN sessions) + 1 |->
                      IF n \in DOMAIN sessions THEN sessions[n]
                      ELSE [expires |-> loc[r].now + policy.ttl, status |-> "open"]]
    /\ Goto(r, "session_reply", loc[r])
    /\ UNCHANGED <<policy, clock, row, admitted, cooldown>>

-----------------------------------------------------------------------------
(* resolve, logout.                                                        *)

IsActive(n) == sessions[n].status = "open" /\ sessions[n].expires > clock

(* A session that exists is revoked; one revoked before stays as it is.    *)
Logout(n) ==
    /\ sessions[n].status # "deleted"
    /\ sessions' = [sessions EXCEPT ![n].status = "revoked"]
    /\ UNCHANGED <<policy, clock, row, at, loc, admitted, cooldown>>

Serve(r) ==
    \/ CleanupSessions(r)
    \/ CleanupRow(r)
    \/ ReserveAttempt(r)
    \/ ReadCooldown(r)
    \/ Clear(r)
    \/ Create(r)
    \/ Deliver(r)

Next ==
    \/ Tick
    \/ \E n \in DOMAIN sessions : Logout(n)
    \/ \E r \in Requests : (\E right \in BOOLEAN : Login(r, right)) \/ Serve(r) \/ Die(r)

Spec == Init /\ [][Next]_vars

-----------------------------------------------------------------------------
(* Properties.                                                             *)

(* A count at the maximum and a cooldown come together, so that a row can  *)
(* neither lock an account out for good nor let it count on.               *)
TypeOK ==
    /\ policy \in Policies
    /\ clock \in Time
    /\ row # NoRow => row \in Row /\ (row.count = MaxAttempts <=> row.until # NoTime)
    /\ \A n \in DOMAIN sessions :
          sessions[n] \in [expires : Nat, status : {"open", "revoked", "deleted"}]
    /\ at \in [Requests -> Point]

(* Between two successful logins, a time as long as the window (less the   *)
(* time a request may take) sees fewer attempts verified than twice the    *)
(* maximum: one window may end in it and another begin, but not with a     *)
(* cooldown in between.                                                    *)
AdmittedFrom(t) ==
    {n \in 1 .. Len(admitted) :
        t <= admitted[n] /\ admitted[n] < t + policy.window - MaxLag}

AttemptsAreBounded == \A t \in Time : Cardinality(AdmittedFrom(t)) < 2 * MaxAttempts

(* A cooldown is served: until it is over nothing but a login that had     *)
(* been admitted before it, and was right, makes the next attempt count.   *)
CooldownIsServed ==
    [][\A n \in 1 .. Len(admitted') : n > Len(admitted) => admitted'[n] >= cooldown]_vars

(* A session ends by a logout or by its time, and in no other way; ended,  *)
(* it does not come back.                                                  *)
SessionsEndOnce ==
    [][\A n \in DOMAIN sessions :
          /\ IsActive(n) /\ ~IsActive(n)' =>
                sessions'[n].status = "revoked" \/ sessions[n].expires <= clock'
          /\ ~IsActive(n) => ~IsActive(n)']_vars
=============================================================================
