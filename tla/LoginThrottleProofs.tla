-------------------------- MODULE LoginThrottleProofs --------------------------
(***************************************************************************)
(* Proofs about LoginThrottle, for any number of requests and any limits:  *)
(* how many attempts a stretch of time can see, that a cooldown is served  *)
(* and that a session ends once.                                           *)
(***************************************************************************)
EXTENDS LoginThrottle, FiniteSetTheorems, WellFoundedInduction, TLAPS

-----------------------------------------------------------------------------
(* The inductive invariant.                                                *)

Session == [expires : Nat, status : {"open", "revoked", "deleted"}]
Local == [now : Time, right : BOOLEAN, until : Nat \cup {NoTime}]

ThrottleTypes ==
    /\ policy \in Policies
    /\ clock \in Time
    /\ row = NoRow \/ row \in Row
    /\ row # NoRow => (row.count = MaxAttempts <=> row.until # NoTime)
    /\ \E n \in Nat : DOMAIN sessions = 1 .. n
    /\ \A n \in DOMAIN sessions : sessions[n] \in Session
    /\ at \in [Requests -> Point]
    /\ loc \in [Requests -> Local]
    /\ admitted \in Seq(Time)
    /\ cooldown \in Nat

(* A request uses a time that is past, but not by more than MaxLag.        *)
TimesAreRecent ==
    \A r \in Requests : at[r] # "idle" =>
        loc[r].now <= clock /\ clock <= loc[r].now + MaxLag

AdmittedInOrder ==
    /\ \A n \in 1 .. Len(admitted) : admitted[n] <= clock
    /\ \A m, n \in 1 .. Len(admitted) : m <= n => admitted[m] <= admitted[n]

(* The row counts the latest attempts: the first of them began its window, *)
(* the last wrote it, and set the cooldown if there is one.                *)
First == Len(admitted) - row.count + 1

RowCountsLatest ==
    row # NoRow =>
        /\ row.count <= Len(admitted)
        /\ admitted[First] <= row.start + MaxLag
        /\ admitted[Len(admitted)] <= row.updated + MaxLag
        /\ row.until # NoTime =>
              admitted[Len(admitted)] + policy.block <= row.until + MaxLag

(* Two times at least a window apart, less what a request may take.        *)
Apart(s, t) == s + policy.window <= t + MaxLag

(* The first attempt of a row, or of the row that comes next, is a window  *)
(* away from the attempts as many as the maximum before it.                *)
WindowsAreApart ==
    /\ row # NoRow => \A n \in 1 .. Len(admitted) :
          n + MaxAttempts <= First => Apart(admitted[n], admitted[First])
    /\ row = NoRow => \A n \in 1 .. Len(admitted) :
          n + MaxAttempts <= Len(admitted) + 1 => Apart(admitted[n], clock)

AttemptsAreApart ==
    \A m, n \in 1 .. Len(admitted) :
        n = m + 2 * MaxAttempts - 1 => Apart(admitted[m], admitted[n])

(* A cooldown that is not over is the one in the row.                      *)
CooldownIsInRow == cooldown <= clock \/ (row # NoRow /\ row.until = cooldown)

ThrottleInv ==
    /\ ThrottleTypes
    /\ TimesAreRecent
    /\ AdmittedInOrder
    /\ RowCountsLatest
    /\ WindowsAreApart
    /\ AttemptsAreApart
    /\ CooldownIsInRow

-----------------------------------------------------------------------------
(* Limits, and what an admitted attempt writes.                            *)

LEMMA PolicyFacts ==
    ASSUME policy \in Policies
    PROVE  /\ policy.window \in Nat \ {0} /\ policy.block \in Nat \ {0}
           /\ policy.ttl \in Nat \ {0} /\ policy.cleans \in BOOLEAN
           /\ policy.window <= policy.block
           /\ MaxAttempts \in Nat \ {0, 1} /\ MaxLag \in Nat /\ MaxTime \in Nat
           /\ NoTime \notin Nat
BY ThrottleAssumption

(* A row that was written is not the absent row.                           *)
LEMMA RowsAreWritten ==
    ASSUME NEW w \in Row
    PROVE  w # NoRow /\ w.start \in Time /\ w.count \in 1 .. MaxAttempts
           /\ w.until \in Nat \cup {NoTime} /\ w.updated \in Time
BY ThrottleAssumption DEF Row, NoRow, Time

(* The row an admitted attempt leaves, field by field.                     *)
LEMMA ReservedFields ==
    ASSUME ThrottleTypes, NEW now \in Time, MayReserve(now)
    PROVE  /\ Reserved(now) \in Row
           /\ Reserved(now).updated = now
           /\ \/ /\ StartsAgain(now)
                 /\ Reserved(now).start = now /\ Reserved(now).count = 1
                 /\ Reserved(now).until = NoTime
              \/ /\ ~StartsAgain(now) /\ row \in Row /\ row.until = NoTime
                 /\ Reserved(now).start = row.start
                 /\ Reserved(now).count = row.count + 1
                 /\ row.count < MaxAttempts
                 /\ \/ row.count + 1 < MaxAttempts /\ Reserved(now).until = NoTime
                    \/ /\ row.count + 1 = MaxAttempts
                       /\ Reserved(now).until = now + policy.block
<1>1. policy.block \in Nat /\ policy.window \in Nat /\ MaxAttempts \in Nat \ {0, 1}
      /\ NoTime \notin Nat
  BY PolicyFacts DEF ThrottleTypes
<1>2. CASE StartsAgain(now)
  <2>1. Reserved(now) = [start |-> now, count |-> 1, until |-> NoTime, updated |-> now]
    BY <1>2 DEF Reserved
  <2>2. QED  BY <2>1, <1>1, <1>2 DEF Row
<1>3. CASE ~StartsAgain(now)
  <2>1. row \in Row
    BY <1>3 DEF StartsAgain, ThrottleTypes
  <2>2. row.count \in Nat /\ row.start \in Time /\ row.until \in Nat \cup {NoTime}
    BY <2>1 DEF Row
  <2>3. row.until = NoTime /\ row.count < MaxAttempts
    BY <1>3, <2>1, <2>2 DEF StartsAgain, MayReserve, IsBlockOver
  <2>4. Reserved(now) = [start   |-> row.start,
                         count   |-> row.count + 1,
                         until   |-> IF ReachesMaximum(row.count + 1)
                                        THEN now + policy.block ELSE row.until,
                         updated |-> now]
    BY <1>3 DEF Reserved
  <2>5. now + policy.block \in Nat
    BY <1>1 DEF Time
  <2>6. QED  BY <2>1, <2>2, <2>3, <2>4, <2>5, <1>1, <1>3 DEF Row, ReachesMaximum
<1>4. QED  BY <1>2, <1>3

-----------------------------------------------------------------------------
(* Types.                                                                  *)

LEMMA InitIsSound == Init => ThrottleInv
<1> SUFFICES ASSUME Init PROVE ThrottleInv
  OBVIOUS
<1> USE DEF Init
<1>1. policy \in Policies
  OBVIOUS
<1>2. MaxTime \in Nat /\ MaxAttempts \in Nat \ {0, 1} /\ 0 \in Time
  BY <1>1, PolicyFacts DEF Time
<1>3. sessions = [n \in {} |-> {}] /\ DOMAIN sessions = {}
  OBVIOUS
<1>4. DOMAIN sessions = 1 .. 0
  BY <1>3
<1>5. admitted \in Seq(Time) /\ Len(admitted) = 0
  OBVIOUS
<1>6. Nothing \in Local
  BY <1>2 DEF Nothing, Local
<1>7. ThrottleTypes
  BY <1>1, <1>2, <1>3, <1>4, <1>5, <1>6 DEF ThrottleTypes, Point
<1>8. TimesAreRecent
  BY DEF TimesAreRecent
<1>9. AdmittedInOrder /\ AttemptsAreApart
  BY <1>5 DEF AdmittedInOrder, AttemptsAreApart
<1>10. RowCountsLatest /\ WindowsAreApart /\ CooldownIsInRow
  BY <1>2, <1>5 DEF RowCountsLatest, WindowsAreApart, CooldownIsInRow, Time
<1>11. QED  BY <1>7, <1>8, <1>9, <1>10 DEF ThrottleInv

LEMMA GotoTypes ==
    ASSUME ThrottleTypes, NEW r \in Requests, NEW point \in Point, NEW l \in Local,
           Goto(r, point, l)
    PROVE  at' \in [Requests -> Point] /\ loc' \in [Requests -> Local]
BY DEF ThrottleTypes, Goto

LEMMA FailTypes ==
    ASSUME ThrottleTypes, NEW r \in Requests, Fail(r)
    PROVE  at' \in [Requests -> Point] /\ loc' \in [Requests -> Local]
<1>1. Nothing \in Local /\ "idle" \in Point
  BY PolicyFacts DEF Nothing, Local, Point, Time, ThrottleTypes
<1>2. QED  BY <1>1, GotoTypes DEF Fail

LEMMA TypesStep ==
    ASSUME ThrottleTypes, [Next]_vars
    PROVE  ThrottleTypes'
<1> USE DEF ThrottleTypes
<1>1. MaxTime \in Nat /\ MaxAttempts \in Nat \ {0, 1} /\ NoTime \notin Nat
      /\ policy.window \in Nat /\ policy.block \in Nat /\ policy.ttl \in Nat
  BY PolicyFacts
<1>2. CASE UNCHANGED vars
  BY <1>2 DEF vars
<1>3. CASE Tick
  BY <1>1, <1>3 DEF Tick, Time, db
<1>4. ASSUME NEW n \in DOMAIN sessions, Logout(n)
      PROVE  ThrottleTypes'
  <2>1. DOMAIN sessions' = DOMAIN sessions
    BY <1>4 DEF Logout
  <2>2. ASSUME NEW m \in DOMAIN sessions
        PROVE  sessions'[m] \in Session
    <3>1. sessions'[m] = IF m = n THEN [sessions[n] EXCEPT !.status = "revoked"]
                         ELSE sessions[m]
      BY <1>4 DEF Logout
    <3>2. QED  BY <3>1 DEF Session
  <2>3. QED  BY <2>1, <2>2, <1>4 DEF Logout
<1>5. ASSUME NEW r \in Requests, NEW right \in BOOLEAN, Login(r, right)
      PROVE  ThrottleTypes'
  <2> DEFINE l == [Nothing EXCEPT !.now = clock, !.right = right]
  <2>1. l \in Local
    BY DEF Nothing, Local
  <2>2. \E point \in Point : Goto(r, point, l)
    BY <1>5 DEF Login, Point
  <2>3. QED  BY <2>1, <2>2, <1>5, GotoTypes DEF Login, db
<1>6. ASSUME NEW r \in Requests, CleanupSessions(r)
      PROVE  ThrottleTypes'
  <2>1. loc[r] \in Local /\ \E point \in Point : Goto(r, point, loc[r])
    BY <1>6 DEF CleanupSessions, Point
  <2>2. sessions' = sessions \/ sessions' = [n \in DOMAIN sessions |->
                            IF IsSessionExpired(n, loc[r].now)
                               THEN [sessions[n] EXCEPT !.status = "deleted"]
                               ELSE sessions[n]]
    BY <1>6 DEF CleanupSessions
  <2>3. DOMAIN sessions' = DOMAIN sessions
        /\ \A n \in DOMAIN sessions : sessions'[n] \in Session
    BY <2>2 DEF Session
  <2>4. QED  BY <2>1, <2>3, <1>6, GotoTypes DEF CleanupSessions
<1>7. ASSUME NEW r \in Requests, CleanupRow(r)
      PROVE  ThrottleTypes'
  <2>1. loc[r] \in Local /\ "reserve" \in Point
    BY DEF Point
  <2>2. row' = row \/ row' = NoRow
    BY <1>7 DEF CleanupRow
  <2>3. QED  BY <2>1, <2>2, <1>7, GotoTypes DEF CleanupRow
<1>8. ASSUME NEW r \in Requests, ReserveAttempt(r)
      PROVE  ThrottleTypes'
  <2> DEFINE now == loc[r].now
  <2>1. loc[r] \in Local /\ now \in Time
    BY DEF Local
  <2>2. CASE MayReserve(now)
    <3> DEFINE w == Reserved(now)
               l == [loc[r] EXCEPT !.until = w.until]
    <3>1. w \in Row /\ w.count \in Nat /\ w.until \in Nat \cup {NoTime}
      BY <2>1, <2>2, ReservedFields DEF Row
    <3>2. w.count = MaxAttempts <=> w.until # NoTime
      <4>1. \/ w.count = 1 /\ w.until = NoTime
            \/ /\ row \in Row /\ w.count = row.count + 1 /\ row.count < MaxAttempts
               /\ \/ row.count + 1 < MaxAttempts /\ w.until = NoTime
                  \/ row.count + 1 = MaxAttempts /\ w.until = now + policy.block
        BY <2>1, <2>2, ReservedFields
      <4>2. now + policy.block \in Nat
        BY <2>1, <1>1 DEF Time
      <4>3. QED  BY <4>1, <4>2, <1>1, RowsAreWritten
    <3>3. l \in Local
      BY <2>1, <3>1 DEF Local
    <3>4. \E point \in Point : Goto(r, point, l)
      BY <1>8, <2>2 DEF ReserveAttempt, Point, Replies
    <3>5. row' = w /\ admitted' = Append(admitted, clock)
          /\ cooldown' = (IF w.until = NoTime THEN cooldown ELSE w.until)
          /\ UNCHANGED <<policy, clock, sessions>>
      BY <1>8, <2>2 DEF ReserveAttempt
    <3>6. admitted' \in Seq(Time) /\ cooldown' \in Nat
      BY <3>1, <3>5
    <3> HIDE DEF w, l
    <3>7. at' \in [Requests -> Point] /\ loc' \in [Requests -> Local]
      BY <3>3, <3>4, GotoTypes
    <3>8. QED  BY <3>1, <3>2, <3>5, <3>6, <3>7
  <2>3. CASE ~MayReserve(now)
    <3>1. "reread" \in Point /\ Goto(r, "reread", loc[r])
          /\ UNCHANGED <<policy, clock, sessions, row, admitted, cooldown>>
      BY <1>8, <2>3 DEF ReserveAttempt, Point
    <3>2. QED  BY <3>1, <2>1, GotoTypes
  <2>4. QED  BY <2>2, <2>3
<1>9. ASSUME NEW r \in Requests, ReadCooldown(r)
      PROVE  ThrottleTypes'
  <2>1. UNCHANGED <<policy, clock, row, sessions, admitted, cooldown>>
    BY <1>9 DEF ReadCooldown, db
  <2>2. CASE Fail(r)
    BY <2>1, <2>2, FailTypes
  <2>3. CASE /\ row.until # NoTime
             /\ Goto(r, "blocked_reply", [loc[r] EXCEPT !.until = row.until])
    <3>1. row.until \in Nat \cup {NoTime}
      BY RowsAreWritten DEF NoRow
    <3>2. [loc[r] EXCEPT !.until = row.until] \in Local
      BY <3>1 DEF Local
    <3>3. QED  BY <2>1, <2>3, <3>2, GotoTypes DEF Point, Replies
  <2>4. QED  BY <1>9, <2>2, <2>3 DEF ReadCooldown
<1>10. ASSUME NEW r \in Requests, Clear(r)
       PROVE  ThrottleTypes'
  <2>1. loc[r] \in Local /\ "create" \in Point
    BY DEF Point
  <2>2. QED  BY <2>1, <1>10, GotoTypes DEF Clear
<1>11. ASSUME NEW r \in Requests, Create(r)
       PROVE  ThrottleTypes'
  <2>1. loc[r] \in Local /\ "session_reply" \in Point /\ loc[r].now \in Nat
    BY DEF Point, Replies, Local, Time
  <2>2. PICK n \in Nat : DOMAIN sessions = 1 .. n
    OBVIOUS
  <2>3. Cardinality(DOMAIN sessions) = n
    BY <2>2, FS_Interval
  <2>4. sessions' = [m \in 1 .. n + 1 |->
                        IF m \in DOMAIN sessions THEN sessions[m]
                        ELSE [expires |-> loc[r].now + policy.ttl, status |-> "open"]]
    BY <1>11, <2>3 DEF Create
  <2>5. [expires |-> loc[r].now + policy.ttl, status |-> "open"] \in Session
    BY <2>1, <1>1 DEF Session
  <2>6. DOMAIN sessions' = 1 .. n + 1 /\ n + 1 \in Nat
        /\ \A m \in DOMAIN sessions' : sessions'[m] \in Session
    BY <2>4, <2>5
  <2>7. QED  BY <2>1, <2>6, <1>11, GotoTypes DEF Create
<1>12. ASSUME NEW r \in Requests, Deliver(r) \/ Die(r)
       PROVE  ThrottleTypes'
  BY <1>12, FailTypes DEF Deliver, Die, db
<1>13. QED
  BY <1>2, <1>3, <1>4, <1>5, <1>6, <1>7, <1>8, <1>9, <1>10, <1>11, <1>12 DEF Next, Serve

-----------------------------------------------------------------------------
(* The times of requests.                                                  *)

LEMMA TimesStep ==
    ASSUME ThrottleTypes, TimesAreRecent, [Next]_vars
    PROVE  TimesAreRecent'
<1> USE DEF ThrottleTypes, TimesAreRecent, Time
<1>1. MaxTime \in Nat /\ MaxLag \in Nat /\ clock \in Nat
      /\ \A r \in Requests : loc[r] \in Local /\ loc[r].now \in Nat
  BY PolicyFacts DEF Local
<1>2. CASE UNCHANGED vars
  BY <1>2 DEF vars
<1>3. CASE Tick
  BY <1>1, <1>3 DEF Tick
<1>4. ASSUME NEW n \in DOMAIN sessions, Logout(n)
      PROVE  TimesAreRecent'
  BY <1>4 DEF Logout
<1>5. ASSUME NEW r \in Requests, clock' = clock, NEW point, NEW l,
             Goto(r, point, l), point = "idle" \/ (l.now = loc[r].now /\ at[r] # "idle")
                                \/ l.now = clock
      PROVE  TimesAreRecent'
  <2> SUFFICES ASSUME NEW q \in Requests, at'[q] # "idle"
               PROVE  loc'[q].now <= clock /\ clock <= loc'[q].now + MaxLag
    BY <1>5
  <2>1. CASE q = r
    BY <2>1, <1>1, <1>5 DEF Goto
  <2>2. CASE q # r
    BY <2>2, <1>5 DEF Goto
  <2>3. QED  BY <2>1, <2>2
<1>6. ASSUME NEW r \in Requests, NEW right \in BOOLEAN, Login(r, right)
      PROVE  TimesAreRecent'
  <2> DEFINE l == [Nothing EXCEPT !.now = clock, !.right = right]
  <2>1. l.now = clock
    BY DEF Nothing
  <2>2. clock' = clock /\ \E point \in Point : Goto(r, point, l)
    BY <1>6 DEF Login, Point
  <2> HIDE DEF l
  <2>3. QED  BY <2>1, <2>2, <1>5
<1>7. ASSUME NEW r \in Requests, Serve(r)
      PROVE  TimesAreRecent'
  <2>1. CASE CleanupSessions(r)
    <3>1. clock' = clock /\ at[r] # "idle" /\ \E point : Goto(r, point, loc[r])
      BY <2>1 DEF CleanupSessions
    <3>2. QED  BY <3>1, <1>5
  <2>2. CASE CleanupRow(r)
    BY <2>2, <1>5 DEF CleanupRow
  <2>3. CASE ReserveAttempt(r)
    <3>1. \E l, point : Goto(r, point, l) /\ l.now = loc[r].now
      <4>1. loc[r] \in Local
        OBVIOUS
      <4>2. \A u : [loc[r] EXCEPT !.until = u].now = loc[r].now
        BY <4>1 DEF Local
      <4>3. QED  BY <2>3, <4>2 DEF ReserveAttempt
    <3>2. QED  BY <2>3, <3>1, <1>5 DEF ReserveAttempt
  <2>4. CASE ReadCooldown(r)
    <3>1. \E l, point : Goto(r, point, l) /\ (point = "idle" \/ l.now = loc[r].now)
      <4>1. loc[r] \in Local
        OBVIOUS
      <4>2. \A u : [loc[r] EXCEPT !.until = u].now = loc[r].now
        BY <4>1 DEF Local
      <4>3. QED  BY <2>4, <4>2 DEF ReadCooldown, Fail
    <3>2. QED  BY <2>4, <3>1, <1>5 DEF ReadCooldown
  <2>5. CASE Clear(r)
    BY <2>5, <1>5 DEF Clear
  <2>6. CASE Create(r)
    BY <2>6, <1>5 DEF Create
  <2>7. CASE Deliver(r)
    BY <2>7, <1>5 DEF Deliver, Fail
  <2>8. QED  BY <1>7, <2>1, <2>2, <2>3, <2>4, <2>5, <2>6, <2>7 DEF Serve
<1>8. ASSUME NEW r \in Requests, Die(r)
      PROVE  TimesAreRecent'
  BY <1>8, <1>5 DEF Die, Fail
<1>9. QED  BY <1>2, <1>3, <1>4, <1>6, <1>7, <1>8 DEF Next

-----------------------------------------------------------------------------
(* The row and the attempts admitted.                                      *)

ThrottleSound ==
    AdmittedInOrder /\ RowCountsLatest /\ WindowsAreApart /\ AttemptsAreApart
    /\ CooldownIsInRow

LEMMA ThrottleUnaffected ==
    ASSUME ThrottleSound, UNCHANGED <<policy, clock, row, admitted, cooldown>>
    PROVE  ThrottleSound'
BY DEF ThrottleSound, AdmittedInOrder, RowCountsLatest, WindowsAreApart,
       AttemptsAreApart, CooldownIsInRow, First, Apart

(* The constants and the row as numbers.                                   *)
LEMMA ThrottleNumbers ==
    ASSUME ThrottleTypes
    PROVE  /\ policy.window \in Nat /\ policy.block \in Nat
           /\ policy.window <= policy.block
           /\ MaxAttempts \in Nat \ {0, 1} /\ MaxLag \in Nat /\ NoTime \notin Nat
           /\ clock \in Nat /\ cooldown \in Nat /\ Len(admitted) \in Nat
           /\ \A n \in 1 .. Len(admitted) : admitted[n] \in Nat
           /\ row # NoRow => /\ row.start \in Nat /\ row.updated \in Nat
                             /\ row.count \in 1 .. MaxAttempts
                             /\ row.until \in Nat \cup {NoTime}
<1>1. policy \in Policies /\ admitted \in Seq(Time) /\ clock \in Time
  BY DEF ThrottleTypes
<1>2. row # NoRow => row \in Row
  BY DEF ThrottleTypes
<1>3. QED  BY <1>1, <1>2, PolicyFacts, RowsAreWritten DEF ThrottleTypes, Time

LEMMA TickThrottle ==
    ASSUME ThrottleTypes, ThrottleSound, Tick
    PROVE  ThrottleSound'
<1>1. clock' = clock + 1 /\ UNCHANGED <<policy, row, admitted, cooldown>>
  BY DEF Tick, db
<1>2. AdmittedInOrder'
  BY <1>1, ThrottleNumbers DEF ThrottleSound, AdmittedInOrder
<1>3. RowCountsLatest' /\ AttemptsAreApart'
  BY <1>1 DEF ThrottleSound, RowCountsLatest, AttemptsAreApart, First, Apart
<1>4. WindowsAreApart'
  BY <1>1, ThrottleNumbers DEF ThrottleSound, WindowsAreApart, First, Apart
<1>5. CooldownIsInRow'
  BY <1>1, ThrottleNumbers DEF ThrottleSound, CooldownIsInRow
<1>6. QED  BY <1>2, <1>3, <1>4, <1>5 DEF ThrottleSound

(* A row is cleaned up when its latest attempt is a window old.            *)
LEMMA CleanupThrottle ==
    ASSUME ThrottleTypes, TimesAreRecent, ThrottleSound,
           NEW r \in Requests, CleanupRow(r)
    PROVE  ThrottleSound'
<1> DEFINE now == loc[r].now
<1>1. UNCHANGED <<policy, clock, admitted, cooldown>>
  BY DEF CleanupRow
<1>2. CASE ~IsRowExpired(now)
  BY <1>1, <1>2, ThrottleUnaffected DEF CleanupRow
<1>3. CASE IsRowExpired(now)
  <2>1. row' = NoRow /\ row # NoRow
    BY <1>3 DEF CleanupRow, IsRowExpired
  <2>2. now \in Nat /\ now <= clock
    BY DEF CleanupRow, TimesAreRecent, ThrottleTypes, Local, Time
  <2>3. row.updated <= now - policy.window /\ (row.until = NoTime \/ row.until <= now)
    BY <1>3 DEF IsRowExpired
  <2>4. admitted[Len(admitted)] <= row.updated + MaxLag
        /\ Len(admitted) \in 1 .. Len(admitted)
    BY <2>1, ThrottleNumbers DEF ThrottleSound, RowCountsLatest
  <2>5. \A n \in 1 .. Len(admitted) : Apart(admitted[n], clock)
    <3> TAKE n \in 1 .. Len(admitted)
    <3>1. admitted[n] <= admitted[Len(admitted)]
      BY <2>4, ThrottleNumbers DEF ThrottleSound, AdmittedInOrder
    <3>2. /\ admitted[n] \in Nat /\ admitted[Len(admitted)] \in Nat /\ row.updated \in Nat
          /\ policy.window \in Nat /\ MaxLag \in Nat /\ clock \in Nat
      BY <2>1, <2>4, ThrottleNumbers
    <3> HIDE DEF now
    <3>3. QED  BY <3>1, <3>2, <2>2, <2>3, <2>4 DEF Apart
  <2>6. WindowsAreApart' /\ RowCountsLatest'
    BY <1>1, <2>1, <2>5 DEF WindowsAreApart, RowCountsLatest, Apart
  <2>7. CooldownIsInRow'
    BY <1>1, <2>1, <2>2, <2>3, ThrottleNumbers DEF ThrottleSound, CooldownIsInRow
  <2>8. AdmittedInOrder' /\ AttemptsAreApart'
    BY <1>1 DEF ThrottleSound, AdmittedInOrder, AttemptsAreApart, Apart
  <2>9. QED  BY <2>6, <2>7, <2>8 DEF ThrottleSound
<1>4. QED  BY <1>2, <1>3

LEMMA ClearThrottle ==
    ASSUME ThrottleTypes, ThrottleSound, NEW r \in Requests, Clear(r)
    PROVE  ThrottleSound'
<1>1. row' = NoRow /\ admitted' = <<>> /\ cooldown' = 0 /\ UNCHANGED <<policy, clock>>
  BY DEF Clear
<1>2. Len(admitted') = 0
  BY <1>1
<1>3. AdmittedInOrder' /\ AttemptsAreApart' /\ WindowsAreApart' /\ RowCountsLatest'
  BY <1>1, <1>2 DEF AdmittedInOrder, AttemptsAreApart, WindowsAreApart, RowCountsLatest
<1>4. CooldownIsInRow'
  BY <1>1, ThrottleNumbers DEF CooldownIsInRow
<1>5. QED  BY <1>3, <1>4 DEF ThrottleSound

(* The attempt admitted next keeps its distance from the earlier ones.     *)
LEMMA NextAttemptIsApart ==
    ASSUME ThrottleTypes, TimesAreRecent, ThrottleSound,
           NEW now \in Nat, now <= clock, clock <= now + MaxLag,
           MayReserve(now), StartsAgain(now),
           NEW n \in 1 .. Len(admitted), n + MaxAttempts <= Len(admitted) + 1
    PROVE  Apart(admitted[n], clock)
<1>1. CASE row = NoRow
  BY <1>1 DEF ThrottleSound, WindowsAreApart
<1>2. CASE row # NoRow
  <2>1. /\ policy.window \in Nat /\ policy.block \in Nat /\ policy.window <= policy.block
        /\ MaxAttempts \in Nat /\ MaxLag \in Nat /\ clock \in Nat /\ Len(admitted) \in Nat
        /\ row.start \in Nat /\ row.count \in 1 .. MaxAttempts
        /\ row.until \in Nat \cup {NoTime} /\ NoTime \notin Nat
    BY <1>2, ThrottleNumbers
  <2>2. row.count <= Len(admitted) /\ First \in 1 .. Len(admitted) /\ n <= First
        /\ admitted[First] <= row.start + MaxLag
    <3>1. row.count <= Len(admitted) /\ admitted[First] <= row.start + MaxLag
      BY <1>2 DEF ThrottleSound, RowCountsLatest
    <3>2. First \in 1 .. Len(admitted) /\ n <= First
      BY <3>1, <2>1, SMTT(30) DEF First
    <3>3. QED  BY <3>1, <3>2
  <2>3. admitted[n] \in Nat /\ admitted[First] \in Nat /\ admitted[Len(admitted)] \in Nat
        /\ admitted[n] <= admitted[First] /\ admitted[n] <= admitted[Len(admitted)]
    <3>1. Len(admitted) \in 1 .. Len(admitted)
      BY <2>2, <2>1
    <3>2. QED  BY <3>1, <2>2, <2>1, ThrottleNumbers DEF ThrottleSound, AdmittedInOrder
  <2>4. CASE IsWindowOver(now)
    <3>1. row.start <= now - policy.window
      BY <2>4 DEF IsWindowOver
    <3>2. admitted[First] <= row.start + MaxLag
      BY <2>2
    <3>3. admitted[n] + policy.window <= clock + MaxLag
      BY <3>1, <3>2, <2>1, <2>3, SMTT(30)
    <3>4. QED  BY <3>3 DEF Apart
  <2>5. CASE IsBlockOver(now)
    <3>1. admitted[Len(admitted)] + policy.block <= row.until + MaxLag
          /\ row.until \in Nat /\ row.until <= now
      BY <1>2, <2>1, <2>5 DEF IsBlockOver, ThrottleSound, RowCountsLatest
    <3>2. admitted[n] + policy.window <= clock + MaxLag
      BY <3>1, <2>1, <2>3, SMTT(30)
    <3>3. QED  BY <3>2 DEF Apart
  <2>6. QED  BY <1>2, <2>4, <2>5 DEF StartsAgain
<1>3. QED  BY <1>1, <1>2

LEMMA ReserveThrottle ==
    ASSUME ThrottleTypes, TimesAreRecent, ThrottleSound,
           NEW r \in Requests, ReserveAttempt(r), MayReserve(loc[r].now)
    PROVE  /\ ThrottleSound'
           /\ clock >= cooldown
<1> DEFINE now == loc[r].now
           w == Reserved(now)
           len == Len(admitted)
<1>1. now \in Time /\ now \in Nat /\ now <= clock /\ clock <= now + MaxLag
  BY DEF ReserveAttempt, TimesAreRecent, ThrottleTypes, Local, Time
<1>2. row' = w /\ admitted' = Append(admitted, clock) /\ UNCHANGED <<policy, clock>>
      /\ cooldown' = (IF w.until = NoTime THEN cooldown ELSE w.until)
  BY DEF ReserveAttempt
<1>3. /\ policy.window \in Nat /\ policy.block \in Nat /\ policy.window <= policy.block
      /\ MaxAttempts \in Nat \ {0, 1} /\ MaxLag \in Nat /\ NoTime \notin Nat
      /\ clock \in Nat /\ cooldown \in Nat /\ len \in Nat
      /\ \A n \in 1 .. len : admitted[n] \in Nat
  BY ThrottleNumbers
<1>4. Len(admitted') = len + 1 /\ admitted'[len + 1] = clock
      /\ \A n \in 1 .. len : admitted'[n] = admitted[n]
  BY <1>2, <1>3 DEF ThrottleTypes
<1>5. clock >= cooldown
  <2>1. CASE row # NoRow /\ row.until = cooldown
    BY <2>1, <1>1, <1>3 DEF MayReserve
  <2>2. QED  BY <2>1, <1>3 DEF ThrottleSound, CooldownIsInRow
<1>6. /\ w # NoRow /\ w.updated = now
      /\ \/ StartsAgain(now) /\ w.start = now /\ w.count = 1 /\ w.until = NoTime
         \/ /\ row # NoRow /\ row.until = NoTime
            /\ w.start = row.start /\ w.count = row.count + 1 /\ row.count < MaxAttempts
            /\ w.until \in {NoTime, now + policy.block}
  BY <1>1, ReservedFields, RowsAreWritten DEF StartsAgain
<1> HIDE DEF now, w, len
<1>7. AdmittedInOrder'
  <2>1. \A n \in 1 .. len + 1 : admitted'[n] <= clock
    BY <1>3, <1>4 DEF ThrottleSound, AdmittedInOrder, len
  <2>2. ASSUME NEW m \in 1 .. len + 1, NEW n \in 1 .. len + 1, m <= n
        PROVE  admitted'[m] <= admitted'[n]
    <3>1. CASE n = len + 1
      BY <2>1, <3>1, <1>4
    <3>2. CASE n # len + 1
      BY <3>2, <2>2, <1>3, <1>4 DEF ThrottleSound, AdmittedInOrder, len
    <3>3. QED  BY <3>1, <3>2
  <2>3. QED  BY <2>1, <2>2, <1>2, <1>4 DEF AdmittedInOrder
<1>8. First' \in 1 .. len + 1 /\ First' = len + 2 - w.count /\ w.count \in 1 .. MaxAttempts
      /\ w.count <= len + 1
  <2>1. First' = Len(admitted') - row'.count + 1
    BY DEF First
  <2>2. w.count \in 1 .. MaxAttempts /\ w.count <= len + 1
    BY <1>3, <1>6, ThrottleNumbers DEF ThrottleSound, RowCountsLatest, len
  <2>3. QED  BY <2>1, <2>2, <1>2, <1>3, <1>4
<1>9. \/ First' = len + 1 /\ StartsAgain(now) /\ w.start = now
      \/ First' = First /\ First \in 1 .. len /\ row # NoRow /\ w.start = row.start
  <2>1. CASE StartsAgain(now) /\ w.start = now /\ w.count = 1
    BY <2>1, <1>3, <1>8
  <2>2. CASE row # NoRow /\ w.start = row.start /\ w.count = row.count + 1
    <3>1. row.count \in 1 .. MaxAttempts /\ row.count <= len /\ First = len - row.count + 1
      BY <2>2, ThrottleNumbers DEF First, ThrottleSound, RowCountsLatest, len
    <3>2. QED  BY <3>1, <2>2, <1>3, <1>8
  <2>3. QED  BY <2>1, <2>2, <1>6
<1>10. RowCountsLatest'
  <2>1. admitted'[First'] <= w.start + MaxLag
    BY <1>1, <1>3, <1>4, <1>9 DEF ThrottleSound, RowCountsLatest
  <2>2. admitted'[len + 1] <= w.updated + MaxLag
    BY <1>1, <1>4, <1>6
  <2>3. w.until # NoTime => admitted'[len + 1] + policy.block <= w.until + MaxLag
    BY <1>1, <1>3, <1>4, <1>6
  <2>4. QED  BY <2>1, <2>2, <2>3, <1>2, <1>4, <1>8 DEF RowCountsLatest
<1>11. ASSUME NEW n \in 1 .. len + 1, n + MaxAttempts <= First'
       PROVE  n \in 1 .. len /\ Apart(admitted[n], admitted'[First'])
  <2>1. n \in 1 .. len
    BY <1>3, <1>8, <1>11
  <2>2. CASE First' = len + 1 /\ StartsAgain(now)
    <3>1. n \in 1 .. Len(admitted) /\ n + MaxAttempts <= Len(admitted) + 1
          /\ MayReserve(now)
      BY <2>1, <2>2, <1>11 DEF len, now
    <3>2. QED  BY <3>1, <2>1, <2>2, <1>1, <1>4, NextAttemptIsApart
  <2>3. CASE First' = First /\ First \in 1 .. len /\ row # NoRow
    BY <2>1, <2>3, <1>4, <1>11 DEF ThrottleSound, WindowsAreApart, len
  <2>4. QED  BY <2>1, <2>2, <2>3, <1>9
<1>12. WindowsAreApart'
  BY <1>2, <1>4, <1>6, <1>11 DEF WindowsAreApart, Apart
<1>13. AttemptsAreApart'
  <2> SUFFICES ASSUME NEW m \in 1 .. len + 1, NEW n \in 1 .. len + 1,
                      n = m + 2 * MaxAttempts - 1
               PROVE  admitted'[m] + policy.window <= admitted'[n] + MaxLag
    BY <1>2, <1>4 DEF AttemptsAreApart, Apart
  <2>1. m < n /\ m \in 1 .. len
    BY <1>3
  <2>2. CASE n = len + 1
    <3>1. m + MaxAttempts <= First'
      BY <2>2, <1>3, <1>8
    <3>2. Apart(admitted[m], admitted'[First'])
      BY <3>1, <1>11
    <3>3. admitted'[First'] <= admitted'[n]
      BY <2>2, <1>4, <1>7, <1>8 DEF AdmittedInOrder
    <3>4. admitted'[n] \in Nat /\ admitted'[First'] \in Nat
      BY <2>2, <1>3, <1>4, <1>8
    <3>5. QED  BY <3>2, <3>3, <3>4, <2>1, <1>3, <1>4 DEF Apart
  <2>3. CASE n # len + 1
    <3>1. n \in 1 .. len
      BY <2>3, <1>3
    <3>2. Apart(admitted[m], admitted[n])
      BY <2>1, <3>1 DEF ThrottleSound, AttemptsAreApart, len
    <3>3. QED  BY <2>1, <3>1, <3>2, <1>4 DEF Apart
  <2>4. QED  BY <2>2, <2>3
<1>14. CooldownIsInRow'
  BY <1>2, <1>3, <1>5, <1>6 DEF CooldownIsInRow
<1>15. QED  BY <1>5, <1>7, <1>10, <1>12, <1>13, <1>14 DEF ThrottleSound

LEMMA ThrottleStep ==
    ASSUME ThrottleTypes, TimesAreRecent, ThrottleSound, [Next]_vars
    PROVE  ThrottleSound'
<1>1. CASE UNCHANGED vars
  BY <1>1, ThrottleUnaffected DEF vars
<1>2. CASE Tick
  BY <1>2, TickThrottle
<1>3. ASSUME NEW n \in DOMAIN sessions, Logout(n)
      PROVE  ThrottleSound'
  BY <1>3, ThrottleUnaffected DEF Logout
<1>4. ASSUME NEW r \in Requests,
             \/ \E right \in BOOLEAN : Login(r, right)
             \/ CleanupSessions(r) \/ ReadCooldown(r) \/ Create(r)
             \/ Deliver(r) \/ Die(r)
      PROVE  ThrottleSound'
  BY <1>4, ThrottleUnaffected
     DEF Login, CleanupSessions, ReadCooldown, Create, Deliver, Die, db
<1>5. ASSUME NEW r \in Requests, CleanupRow(r)
      PROVE  ThrottleSound'
  BY <1>5, CleanupThrottle
<1>6. ASSUME NEW r \in Requests, ReserveAttempt(r)
      PROVE  ThrottleSound'
  <2>1. CASE MayReserve(loc[r].now)
    BY <1>6, <2>1, ReserveThrottle
  <2>2. CASE ~MayReserve(loc[r].now)
    BY <1>6, <2>2, ThrottleUnaffected DEF ReserveAttempt
  <2>3. QED  BY <2>1, <2>2
<1>7. ASSUME NEW r \in Requests, Clear(r)
      PROVE  ThrottleSound'
  BY <1>7, ClearThrottle
<1>8. QED  BY <1>1, <1>2, <1>3, <1>4, <1>5, <1>6, <1>7 DEF Next, Serve

LEMMA ThrottleStepKeeps == ThrottleInv /\ [Next]_vars => ThrottleInv'
BY TypesStep, TimesStep, ThrottleStep DEF ThrottleInv, ThrottleSound

LEMMA ThrottleHolds == Spec => []ThrottleInv
BY InitIsSound, ThrottleStepKeeps, PTL DEF Spec

-----------------------------------------------------------------------------
(* The theorems.                                                           *)

LEMMA LeastNumber ==
    ASSUME NEW S \in SUBSET Nat, S # {}
    PROVE  \E m \in S : \A n \in S : m <= n
<1>1. IsWellFoundedOn(OpToRel(<, Nat), Nat)
  BY NatLessThanWellFounded
<1>2. PICK m \in S : \A n \in S : <<n, m>> \notin OpToRel(<, Nat)
  BY <1>1, WFMin
<1>3. \A n \in S : ~(n < m)
  BY <1>2 DEF OpToRel
<1>4. QED  BY <1>3

LEMMA ApartIsBounded == ThrottleInv => AttemptsAreBounded
<1> SUFFICES ASSUME ThrottleInv, NEW t \in Time, AdmittedFrom(t) # {}
             PROVE  Cardinality(AdmittedFrom(t)) < 2 * MaxAttempts
  <2>1. ASSUME ThrottleInv PROVE 0 < 2 * MaxAttempts
    BY <2>1, PolicyFacts DEF ThrottleInv, ThrottleTypes
  <2>2. Cardinality({}) = 0
    BY FS_EmptySet
  <2>3. QED  BY <2>1, <2>2 DEF AttemptsAreBounded
<1>1. /\ policy.window \in Nat /\ MaxAttempts \in Nat \ {0, 1} /\ MaxLag \in Nat
      /\ Len(admitted) \in Nat /\ t \in Nat
      /\ \A n \in 1 .. Len(admitted) : admitted[n] \in Nat
  BY ThrottleNumbers DEF ThrottleInv, Time, ThrottleTypes
<1>2. AdmittedFrom(t) \in SUBSET Nat /\ AdmittedFrom(t) \subseteq 1 .. Len(admitted)
  BY <1>1 DEF AdmittedFrom
<1>3. PICK m \in AdmittedFrom(t) : \A n \in AdmittedFrom(t) : m <= n
  BY <1>2, LeastNumber
<1> DEFINE last == m + 2 * MaxAttempts - 1
<1>4. m \in 1 .. Len(admitted) /\ t <= admitted[m] /\ last \in Nat /\ last > m
  BY <1>1, <1>2, <1>3 DEF AdmittedFrom
<1>5. ASSUME NEW n \in AdmittedFrom(t)
      PROVE  n \in m .. last - 1
  <2>1. n \in 1 .. Len(admitted) /\ m <= n
        /\ admitted[n] < t + policy.window - MaxLag
    BY <1>3 DEF AdmittedFrom
  <2>2. CASE n >= last
    <3>1. last \in 1 .. Len(admitted)
      BY <2>1, <2>2, <1>1, <1>4
    <3>2. Apart(admitted[m], admitted[last])
      BY <3>1, <1>4 DEF ThrottleInv, AttemptsAreApart
    <3>3. admitted[last] <= admitted[n]
      BY <2>1, <2>2, <3>1 DEF ThrottleInv, AdmittedInOrder
    <3>4. admitted[m] + policy.window <= admitted[last] + MaxLag
      BY <3>2 DEF Apart
    <3>5. admitted[m] \in Nat /\ admitted[n] \in Nat /\ admitted[last] \in Nat
      BY <2>1, <3>1, <1>1, <1>4
    <3>6. QED  BY <3>3, <3>4, <3>5, <2>1, <1>1, <1>4, SMTT(30)
  <2>3. QED  BY <2>1, <2>2, <1>1, <1>4
<1>6. IsFiniteSet(m .. last - 1) /\ Cardinality(m .. last - 1) = last - 1 - m + 1
  <2>1. m \in Int /\ last - 1 \in Int /\ ~(m > last - 1)
    BY <1>1, <1>4
  <2> HIDE DEF last
  <2>2. QED  BY <2>1, FS_Interval
<1>7. Cardinality(AdmittedFrom(t)) <= Cardinality(m .. last - 1)
  BY <1>5, <1>6, FS_Subset
<1>8. Cardinality(AdmittedFrom(t)) \in Nat
  BY <1>5, <1>6, FS_Subset, FS_CardinalityType
<1>9. last - 1 - m + 1 = 2 * MaxAttempts - 1
  BY <1>1, <1>4
<1>10. QED  BY <1>1, <1>6, <1>7, <1>8, <1>9

(* Whatever the limits and however many requests: between two successful   *)
(* logins, fewer than twice the maximum of attempts are verified in a      *)
(* window, although the upsert forgets all but the count of a window.      *)
THEOREM GuessingStaysSlow == Spec => []AttemptsAreBounded
BY ThrottleHolds, ApartIsBounded, PTL

LEMMA TypesAreThrottle == ThrottleTypes => TypeOK
<1> SUFFICES ASSUME ThrottleTypes PROVE TypeOK
  OBVIOUS
<1>1. at \in [Requests -> Point] /\ policy \in Policies /\ clock \in Time
  BY DEF ThrottleTypes
<1>2. row # NoRow => row \in Row /\ (row.count = MaxAttempts <=> row.until # NoTime)
  BY DEF ThrottleTypes
<1>3. \A n \in DOMAIN sessions : sessions[n] \in Session
  BY DEF ThrottleTypes
<1>4. QED  BY <1>1, <1>2, <1>3 DEF TypeOK, Session

(* Every value stays in its type, and a count at the maximum comes with a  *)
(* cooldown.                                                               *)
THEOREM ThrottleTypesHold == Spec => []TypeOK
BY ThrottleHolds, TypesAreThrottle, PTL DEF ThrottleInv

(* No attempt counts while a cooldown runs that no later successful login  *)
(* lifted.                                                                 *)
THEOREM CooldownStaysServed == Spec => CooldownIsServed
<1> DEFINE Served == \A n \in 1 .. Len(admitted') : n > Len(admitted) => admitted'[n] >= cooldown
<1>1. ThrottleInv /\ [Next]_vars => [Served]_vars
  <2> SUFFICES ASSUME ThrottleInv, Next PROVE Served
    OBVIOUS
  <2>1. Len(admitted) \in Nat
    BY ThrottleNumbers DEF ThrottleInv
  <2>2. CASE admitted' = admitted
    BY <2>1, <2>2
  <2>3. CASE admitted' = <<>>
    BY <2>3
  <2>4. ASSUME NEW r \in Requests, ReserveAttempt(r), MayReserve(loc[r].now)
        PROVE  Served
    <3>1. admitted' = Append(admitted, clock)
      BY <2>4 DEF ReserveAttempt
    <3>2. clock >= cooldown
      BY <2>4, ReserveThrottle DEF ThrottleInv, ThrottleSound
    <3>3. Len(admitted') = Len(admitted) + 1 /\ admitted'[Len(admitted) + 1] = clock
      BY <3>1 DEF ThrottleInv, ThrottleTypes
    <3>4. QED  BY <3>2, <3>3, <2>1
  <2>5. admitted' = admitted \/ admitted' = <<>>
        \/ \E r \in Requests : ReserveAttempt(r) /\ MayReserve(loc[r].now)
    BY DEF Next, Serve, Tick, Logout, Login, Die, Deliver, CleanupSessions, CleanupRow,
           ReserveAttempt, ReadCooldown, Clear, Create
  <2>6. QED  BY <2>2, <2>3, <2>4, <2>5
<1>2. QED  BY <1>1, ThrottleHolds, PTL DEF Spec, CooldownIsServed

(* Sessions opened so far as they stand when a step leaves them alone.     *)
LEMMA SessionsUntouched ==
    ASSUME ThrottleTypes, UNCHANGED sessions, clock' >= clock, clock' \in Nat,
           NEW n \in DOMAIN sessions
    PROVE  /\ IsActive(n) /\ ~IsActive(n)' => sessions[n].expires <= clock'
           /\ ~IsActive(n) => ~IsActive(n)'
<1>1. sessions[n].expires \in Nat /\ clock \in Nat
  BY DEF ThrottleTypes, Session, Time
<1>2. QED  BY <1>1 DEF IsActive

(* A session ends by a logout or by its time and does not come back.       *)
THEOREM SessionsStayEnded == Spec => SessionsEndOnce
<1> DEFINE Ends(n) ==
        /\ IsActive(n) /\ ~IsActive(n)' =>
              sessions'[n].status = "revoked" \/ sessions[n].expires <= clock'
        /\ ~IsActive(n) => ~IsActive(n)'
<1>1. ThrottleInv /\ [Next]_vars => [\A n \in DOMAIN sessions : Ends(n)]_vars
  <2> SUFFICES ASSUME ThrottleInv, Next, NEW n \in DOMAIN sessions PROVE Ends(n)
    OBVIOUS
  <2>1. ThrottleTypes /\ TimesAreRecent /\ clock \in Nat /\ sessions[n] \in Session
        /\ sessions[n].expires \in Nat
    BY DEF ThrottleInv, ThrottleTypes, Session, Time
  <2>2. CASE UNCHANGED sessions /\ clock' = clock
    BY <2>1, <2>2, SessionsUntouched
  <2>3. CASE Tick
    BY <2>1, <2>3, SessionsUntouched DEF Tick, db
  <2>4. ASSUME NEW m \in DOMAIN sessions, Logout(m)
        PROVE  Ends(n)
    <3>1. clock' = clock /\ sessions'[n] = IF n = m
             THEN [sessions[m] EXCEPT !.status = "revoked"] ELSE sessions[n]
      BY <2>4 DEF Logout
    <3>2. sessions'[n].expires = sessions[n].expires
          /\ (sessions'[n].status = sessions[n].status \/ sessions'[n].status = "revoked")
      BY <3>1, <2>1 DEF Session
    <3>3. QED  BY <3>1, <3>2 DEF IsActive
  <2>5. ASSUME NEW r \in Requests, CleanupSessions(r), sessions' # sessions
        PROVE  Ends(n)
    <3>1. clock' = clock /\ sessions'[n] = IF IsSessionExpired(n, loc[r].now)
             THEN [sessions[n] EXCEPT !.status = "deleted"] ELSE sessions[n]
      BY <2>5 DEF CleanupSessions
    <3>2. loc[r].now \in Nat /\ loc[r].now <= clock
      BY <2>1, <2>5 DEF CleanupSessions, TimesAreRecent, ThrottleTypes, Local, Time
    <3>3. CASE IsSessionExpired(n, loc[r].now)
      <4>1. sessions[n].expires <= clock
        BY <3>2, <3>3, <2>1 DEF IsSessionExpired
      <4>2. sessions'[n].expires = sessions[n].expires
        BY <3>1, <3>3, <2>1 DEF Session
      <4>3. QED  BY <4>1, <4>2, <3>1, <2>1 DEF IsActive
    <3>4. CASE ~IsSessionExpired(n, loc[r].now)
      BY <3>1, <3>4 DEF IsActive
    <3>5. QED  BY <3>3, <3>4
  <2>6. ASSUME NEW r \in Requests, Create(r)
        PROVE  Ends(n)
    <3>1. PICK k \in Nat : DOMAIN sessions = 1 .. k
      BY <2>1 DEF ThrottleTypes
    <3>2. Cardinality(DOMAIN sessions) = k
      BY <3>1, FS_Interval
    <3>3. clock' = clock /\ sessions'[n] = sessions[n]
      BY <2>6, <3>1, <3>2 DEF Create
    <3>4. QED  BY <3>3 DEF IsActive
  <2>7. \/ UNCHANGED sessions /\ clock' = clock
        \/ Tick
        \/ \E m \in DOMAIN sessions : Logout(m)
        \/ \E r \in Requests : CleanupSessions(r) /\ sessions' # sessions
        \/ \E r \in Requests : Create(r)
    BY DEF Next, Serve, Login, Die, Deliver, CleanupSessions, CleanupRow,
           ReserveAttempt, ReadCooldown, Clear, db
  <2>8. QED  BY <2>2, <2>3, <2>4, <2>5, <2>6, <2>7
<1>2. QED  BY <1>1, ThrottleHolds, PTL DEF Spec, SessionsEndOnce
=============================================================================
