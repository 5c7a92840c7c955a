----------------------------- MODULE MCTwoDevices -----------------------------
(***************************************************************************)
(* A learner with two devices, who logs in on both of them at once, or     *)
(* completes a lesson on both and answers a last task on one meanwhile.  A *)
(* behaviour is one or the other.  An administrator who logs in with two   *)
(* devices is treated like a learner.                                      *)
(***************************************************************************)
EXTENDS CourseRuntime, LoginPolicies

CONSTANTS w1, w2, w3, w4, w5, r1, r2

OneGroup == [w \in Words |-> 1]

VARIABLES shown, policy, clock, row, logins, loginAt, loginLoc, admitted, cooldown

Login == INSTANCE LoginThrottle WITH
    Requests <- {r1, r2},
    sessions <- logins,
    at <- loginAt,
    loc <- loginLoc

loginVars == <<policy, clock, row, logins, loginAt, loginLoc, admitted, cooldown>>

(* The window and the cooldown of learners (10 and 15 minutes) and of      *)
(* administrators (15 and 15 minutes), in units of 5 minutes.              *)
LearnerAndAdmin ==
    {[window |-> 2, block |-> 3, ttl |-> 4, cleans |-> FALSE],
     [window |-> 3, block |-> 3, ttl |-> 4, cleans |-> TRUE]}

(* A lesson whose words were all answered and passed but the words of      *)
(* open: where a lesson of five words is when it can be completed while    *)
(* one of them may still be answered.                                      *)
AlmostDone(open) ==
    /\ course = [lesson |-> 1, run |-> 1, start |-> 1]
    /\ sessions = [l \in {1} |->
          [status |-> "started", run |-> 1,
           tasks  |-> [t \in Task |-> IF ~Primary(t) THEN "absent"
                                      ELSE IF t.word \in open THEN "pending"
                                      ELSE "completed"],
           score  |-> [t \in Task |-> IF Primary(t) /\ t.word \notin open
                                        THEN "pass" ELSE "none"],
           first  |-> PrimaryTask(CHOOSE w \in open : TRUE)]]
    /\ rows = [w \in Words |-> IF w \in open
                                 THEN [run |-> 1, due |-> 1, attempts |-> 0]
                                 ELSE [run |-> 1, due |-> 2, attempts |-> 1]]
    /\ archive = <<>> /\ resets = <<>>
    /\ at = [r \in Requests |-> "idle"]
    /\ loc = [r \in Requests |-> Nothing]

VisitInit ==
    /\ shown \in {"login", "lesson"}
    /\ AlmostDone({w1})
    /\ Login!Init
    /\ shown = "lesson" => policy = CHOOSE p \in Policies : TRUE

VisitNext ==
    \/ shown = "login" /\ Login!Next /\ UNCHANGED <<vars, shown>>
    \/ shown = "lesson" /\ Next /\ UNCHANGED <<loginVars, shown>>

VisitSpec == VisitInit /\ [][VisitNext]_<<vars, loginVars, shown>>

(* Guessing is slow: a window sees fewer attempts verified than twice the  *)
(* maximum, as LoginThrottle has it.                                       *)
AttemptsAreBounded == Login!TypeOK /\ Login!AttemptsAreBounded

(* A cooldown is served to its end, and a session ends by a logout or by   *)
(* its time only.                                                          *)
CooldownIsServed == Login!CooldownIsServed /\ Login!SessionsEndOnce
=============================================================================
