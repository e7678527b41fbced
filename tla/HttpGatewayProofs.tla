-------------------------- MODULE HttpGatewayProofs --------------------------
(***************************************************************************)
(* For any number of requests, of any form, and any number of crashes: a   *)
(* client that reads success can rely on it (SuccessIsBacked).             *)
(***************************************************************************)
EXTENDS HttpGateway, TLAPS

(* A request that calls, or whose call has succeeded, names a call, and     *)
(* nothing was called for one that has not come yet.                        *)
CallsAreKnown(r) ==
    /\ stage[r] = "calling" => CallOf(form[r]) \in Calls
    /\ stage[r] = "new" => \A call \in Calls : work[call][r] = "none"
    /\ answer[r] = "success" =>
          CallOf(form[r]) \in Calls /\ work[CallOf(form[r])][r] = "done"

(* A call is executed when its service takes it up, and only then.          *)
CountIsRight(r) ==
    \A call \in Calls :
        /\ runs[call][r] <= 1
        /\ work[call][r] \in {"none", "sent"} => runs[call][r] = 0
        /\ work[call][r] \in {"running", "asking", "done"} => runs[call][r] = 1

(* A Logon asks the user service only once it runs, and is done only when   *)
(* that has answered.                                                       *)
LogonAsks(r) ==
    /\ work["Logon"][r] \in {"sent", "running"} => work["GetUserInfo"][r] = "none"
    /\ work["Logon"][r] = "done" => work["GetUserInfo"][r] = "done"

HInv ==
    /\ HTypeOK
    /\ \A r \in Requests : CallsAreKnown(r) /\ CountIsRight(r) /\ LogonAsks(r)

-----------------------------------------------------------------------------
(* A request turned into a call names one of Calls. *)
LEMMA CallIsKnown ==
    ASSUME NEW f \in Forms, Verdict(f) = "call"
    PROVE  CallOf(f) \in Calls
BY FormsAssumption
DEF Verdict, CallOf, Calls, Served, Callable, LoginMethods, UserMethods

(* What a request is answered without a call is an answer. *)
LEMMA VerdictType ==
    ASSUME NEW f \in Forms
    PROVE  Verdict(f) \in (Answers \ {"none", "success"}) \cup {"call"}
BY FormsAssumption DEF Verdict, Answers, Served, Routes, Form, Paths

(* An answer, once given, is one. *)
LEMMA AnswerType ==
    ASSUME HTypeOK, NEW r \in Requests, NEW a \in Answers \ {"none"}, Answer(r, a)
    PROVE  /\ stage' \in [Requests -> {"new", "calling", "answered", "cut"}]
           /\ answer' \in [Requests -> Answers]
           /\ \A x \in Requests : answer'[x] = "none" <=> stage'[x] # "answered"
<1>1. /\ stage' = [stage EXCEPT ![r] = "answered"]
      /\ answer' = [answer EXCEPT ![r] = a]
  BY DEF Answer
<1>2. /\ stage \in [Requests -> {"new", "calling", "answered", "cut"}]
      /\ answer \in [Requests -> Answers]
      /\ \A x \in Requests : answer[x] = "none" <=> stage[x] # "answered"
  BY DEF HTypeOK
<1>3. QED
  BY <1>1, <1>2

(* So is the answer for a call that has failed. *)
LEMMA FailureType == \A f : FailureOf(f) \in Answers \ {"none", "success"}
BY DEF FailureOf, Answers

(* A request that arrives becomes a call or is answered, not with success. *)
LEMMA ArriveEither ==
    ASSUME NEW r \in Requests, NEW f \in Forms, Arrive(r, f)
    PROVE  /\ stage[r] = "new"
           /\ form' = [form EXCEPT ![r] = f]
           /\ UNCHANGED <<process, crashes, runs>>
           /\ \/ /\ CallOf(f) \in Calls
                 /\ Set(CallOf(f), r, "sent")
                 /\ stage' = [stage EXCEPT ![r] = "calling"]
                 /\ UNCHANGED answer
              \/ \E a \in Answers \ {"none", "success"} : Answer(r, a) /\ UNCHANGED work
<1>1. CASE Verdict(f) = "call"
  BY <1>1, CallIsKnown, FailureType DEF Arrive, Invoke
<1>2. CASE Verdict(f) # "call"
  BY <1>2, VerdictType DEF Arrive
<1>3. QED
  BY <1>1, <1>2

(* Every step keeps the types. *)
LEMMA TypeStep == HInv /\ [HNext]_hvars => HTypeOK'
<1> SUFFICES ASSUME HTypeOK, [HNext]_hvars PROVE HTypeOK'
  BY DEF HInv
<1> USE MaxCrashesAssumption DEF HTypeOK
<1>1. ASSUME NEW p \in Processes, Launch(p) PROVE HTypeOK'
  BY <1>1 DEF Launch
<1>2. ASSUME NEW p \in Processes, Start(p) \/ StartFails(p) PROVE HTypeOK'
  BY <1>2 DEF Start, StartFails
<1>3. ASSUME NEW p \in Processes, Crash(p) PROVE HTypeOK'
  <2>1. work' \in [Calls -> [Requests -> Works]]
    BY <1>3 DEF Crash, Works
  <2>2. QED
    BY <1>3, <2>1 DEF Crash
<1>4. ASSUME NEW q \in Requests, NEW f \in Forms, Arrive(q, f) PROVE HTypeOK'
  <2>1. CASE \E a \in Answers \ {"none", "success"} : Answer(q, a) /\ UNCHANGED work
    BY <1>4, <2>1, ArriveEither, AnswerType
  <2>2. CASE /\ Set(CallOf(f), q, "sent")
             /\ stage' = [stage EXCEPT ![q] = "calling"]
             /\ UNCHANGED answer
    <3>1. work' \in [Calls -> [Requests -> Works]]
      BY <2>2 DEF Set, Works
    <3>2. stage[q] = "new" /\ form' = [form EXCEPT ![q] = f]
          /\ UNCHANGED <<process, crashes, runs>>
      BY <1>4, ArriveEither
    <3>3. QED
      BY <2>2, <3>1, <3>2
  <2>3. QED
    BY <1>4, <2>1, <2>2, ArriveEither
<1>5. ASSUME NEW q \in Requests, TakeReply(q) PROVE HTypeOK'
  BY <1>5, AnswerType, FailureType DEF TakeReply, Answers
<1>6. ASSUME NEW q \in Requests, CallTimeout(q) PROVE HTypeOK'
  BY <1>6, AnswerType, FailureType DEF CallTimeout
<1>7. ASSUME NEW q \in Requests, HttpTimeout(q) PROVE HTypeOK'
  BY <1>7 DEF HttpTimeout, Answer, Answers, Waiting
<1>8. ASSUME NEW q \in Requests, AskUser(q) PROVE HTypeOK'
  <2>1. work' \in [Calls -> [Requests -> Works]]
    BY <1>8 DEF AskUser, Set, Works, Calls
  <2>2. QED
    BY <1>8, <2>1 DEF AskUser
<1>9. ASSUME NEW q \in Requests, UserAnswers(q) PROVE HTypeOK'
  BY <1>9 DEF UserAnswers, Set, Works
<1>10. ASSUME NEW q \in Requests, UserTimeout(q) PROVE HTypeOK'
  BY <1>10 DEF UserTimeout, Set, Works
<1>11. ASSUME NEW q \in Requests, NEW call \in Calls, Serve(call, q) PROVE HTypeOK'
  <2>1. work' \in [Calls -> [Requests -> Works]]
    BY <1>11 DEF Serve, Set, Works
  <2>2. runs' \in [Calls -> [Requests -> Nat]]
    BY <1>11 DEF Serve
  <2>3. QED
    BY <1>11, <2>1, <2>2 DEF Serve
<1>12. ASSUME NEW q \in Requests, NEW call \in Calls, Finish(call, q) PROVE HTypeOK'
  BY <1>12 DEF Finish, Set, Works
<1>13. ASSUME NEW q \in Requests, NEW call \in Calls, Lose(call, q) PROVE HTypeOK'
  BY <1>13 DEF Lose, Set, Works
<1>14. ASSUME UNCHANGED hvars PROVE HTypeOK'
  BY <1>14 DEF hvars
<1>15. QED
  BY <1>1, <1>2, <1>3, <1>4, <1>5, <1>6, <1>7, <1>8, <1>9, <1>10, <1>11,
     <1>12, <1>13, <1>14
  DEF HNext, Gateway, LogonLogic, Service

(* Every step keeps the calls known. *)
LEMMA KnownStep == HInv /\ [HNext]_hvars => \A r \in Requests : CallsAreKnown(r)'
<1> SUFFICES ASSUME HInv, [HNext]_hvars, NEW r \in Requests PROVE CallsAreKnown(r)'
  OBVIOUS
<1> USE DEF HInv, HTypeOK, CallsAreKnown, CountIsRight, LogonAsks, Calls
<1>1. ASSUME NEW p \in Processes, Launch(p) PROVE CallsAreKnown(r)'
  BY <1>1 DEF Launch
<1>2. ASSUME NEW p \in Processes, Start(p) \/ StartFails(p) PROVE CallsAreKnown(r)'
  BY <1>2 DEF Start, StartFails
<1>3. ASSUME NEW p \in Processes, Crash(p) PROVE CallsAreKnown(r)'
  BY <1>3 DEF Crash
<1>4. ASSUME NEW q \in Requests, NEW f \in Forms, Arrive(q, f) PROVE CallsAreKnown(r)'
  BY <1>4, ArriveEither DEF Set, Answer
<1>5. ASSUME NEW q \in Requests, TakeReply(q) PROVE CallsAreKnown(r)'
  BY <1>5, FailureType DEF TakeReply, Answer, Waiting
<1>6. ASSUME NEW q \in Requests, CallTimeout(q) PROVE CallsAreKnown(r)'
  BY <1>6 DEF CallTimeout, Answer, Waiting, FailureOf
<1>7. ASSUME NEW q \in Requests, HttpTimeout(q) PROVE CallsAreKnown(r)'
  BY <1>7 DEF HttpTimeout, Answer, Waiting
<1>8. ASSUME NEW q \in Requests, AskUser(q) PROVE CallsAreKnown(r)'
  BY <1>8 DEF AskUser, Set
<1>9. ASSUME NEW q \in Requests, UserAnswers(q) PROVE CallsAreKnown(r)'
  BY <1>9 DEF UserAnswers, Set
<1>10. ASSUME NEW q \in Requests, UserTimeout(q) PROVE CallsAreKnown(r)'
  BY <1>10 DEF UserTimeout, Set
<1>11. ASSUME NEW q \in Requests, NEW call \in Calls, Serve(call, q) PROVE CallsAreKnown(r)'
  BY <1>11 DEF Serve, Set
<1>12. ASSUME NEW q \in Requests, NEW call \in Calls, Finish(call, q) PROVE CallsAreKnown(r)'
  BY <1>12 DEF Finish, Set
<1>13. ASSUME NEW q \in Requests, NEW call \in Calls, Lose(call, q) PROVE CallsAreKnown(r)'
  BY <1>13 DEF Lose, Set
<1>14. ASSUME UNCHANGED hvars PROVE CallsAreKnown(r)'
  BY <1>14 DEF hvars
<1>15. QED
  BY <1>1, <1>2, <1>3, <1>4, <1>5, <1>6, <1>7, <1>8, <1>9, <1>10, <1>11,
     <1>12, <1>13, <1>14
  DEF HNext, Gateway, LogonLogic, Service

(* Every step counts right. *)
LEMMA CountStep == HInv /\ [HNext]_hvars => \A r \in Requests : CountIsRight(r)'
<1> SUFFICES ASSUME HInv, [HNext]_hvars, NEW r \in Requests PROVE CountIsRight(r)'
  OBVIOUS
<1> USE DEF HInv, HTypeOK, CallsAreKnown, CountIsRight, LogonAsks, Calls
<1>1. ASSUME NEW p \in Processes, Launch(p) PROVE CountIsRight(r)'
  BY <1>1 DEF Launch
<1>2. ASSUME NEW p \in Processes, Start(p) \/ StartFails(p) PROVE CountIsRight(r)'
  BY <1>2 DEF Start, StartFails
<1>3. ASSUME NEW p \in Processes, Crash(p) PROVE CountIsRight(r)'
  BY <1>3 DEF Crash
<1>4. ASSUME NEW q \in Requests, NEW f \in Forms, Arrive(q, f) PROVE CountIsRight(r)'
  BY <1>4, ArriveEither DEF Set
<1>5. ASSUME NEW q \in Requests, TakeReply(q) PROVE CountIsRight(r)'
  BY <1>5 DEF TakeReply, Answer, Waiting
<1>6. ASSUME NEW q \in Requests, CallTimeout(q) PROVE CountIsRight(r)'
  BY <1>6 DEF CallTimeout, Answer, Waiting
<1>7. ASSUME NEW q \in Requests, HttpTimeout(q) PROVE CountIsRight(r)'
  BY <1>7 DEF HttpTimeout, Answer, Waiting
<1>8. ASSUME NEW q \in Requests, AskUser(q) PROVE CountIsRight(r)'
  BY <1>8 DEF AskUser, Set
<1>9. ASSUME NEW q \in Requests, UserAnswers(q) PROVE CountIsRight(r)'
  BY <1>9 DEF UserAnswers, Set
<1>10. ASSUME NEW q \in Requests, UserTimeout(q) PROVE CountIsRight(r)'
  BY <1>10 DEF UserTimeout, Set
<1>11. ASSUME NEW q \in Requests, NEW call \in Calls, Serve(call, q) PROVE CountIsRight(r)'
  BY <1>11 DEF Serve, Set
<1>12. ASSUME NEW q \in Requests, NEW call \in Calls, Finish(call, q) PROVE CountIsRight(r)'
  BY <1>12 DEF Finish, Set
<1>13. ASSUME NEW q \in Requests, NEW call \in Calls, Lose(call, q) PROVE CountIsRight(r)'
  BY <1>13 DEF Lose, Set
<1>14. ASSUME UNCHANGED hvars PROVE CountIsRight(r)'
  BY <1>14 DEF hvars
<1>15. QED
  BY <1>1, <1>2, <1>3, <1>4, <1>5, <1>6, <1>7, <1>8, <1>9, <1>10, <1>11,
     <1>12, <1>13, <1>14
  DEF HNext, Gateway, LogonLogic, Service

(* Every step keeps a Logon waiting for the user service. *)
LEMMA AsksStep == HInv /\ [HNext]_hvars => \A r \in Requests : LogonAsks(r)'
<1> SUFFICES ASSUME HInv, [HNext]_hvars, NEW r \in Requests PROVE LogonAsks(r)'
  OBVIOUS
<1> USE DEF HInv, HTypeOK, CallsAreKnown, CountIsRight, LogonAsks, Calls
<1>1. ASSUME NEW p \in Processes, Launch(p) PROVE LogonAsks(r)'
  BY <1>1 DEF Launch
<1>2. ASSUME NEW p \in Processes, Start(p) \/ StartFails(p) PROVE LogonAsks(r)'
  BY <1>2 DEF Start, StartFails
<1>3. ASSUME NEW p \in Processes, Crash(p) PROVE LogonAsks(r)'
  BY <1>3 DEF Crash
<1>4. ASSUME NEW q \in Requests, NEW f \in Forms, Arrive(q, f) PROVE LogonAsks(r)'
  BY <1>4, ArriveEither DEF Set
<1>5. ASSUME NEW q \in Requests, TakeReply(q) PROVE LogonAsks(r)'
  BY <1>5 DEF TakeReply, Answer, Waiting
<1>6. ASSUME NEW q \in Requests, CallTimeout(q) PROVE LogonAsks(r)'
  BY <1>6 DEF CallTimeout, Answer, Waiting
<1>7. ASSUME NEW q \in Requests, HttpTimeout(q) PROVE LogonAsks(r)'
  BY <1>7 DEF HttpTimeout, Answer, Waiting
<1>8. ASSUME NEW q \in Requests, AskUser(q) PROVE LogonAsks(r)'
  BY <1>8 DEF AskUser, Set
<1>9. ASSUME NEW q \in Requests, UserAnswers(q) PROVE LogonAsks(r)'
  BY <1>9 DEF UserAnswers, Set
<1>10. ASSUME NEW q \in Requests, UserTimeout(q) PROVE LogonAsks(r)'
  BY <1>10 DEF UserTimeout, Set
<1>11. ASSUME NEW q \in Requests, NEW call \in Calls, Serve(call, q) PROVE LogonAsks(r)'
  BY <1>11 DEF Serve, Set
<1>12. ASSUME NEW q \in Requests, NEW call \in Calls, Finish(call, q) PROVE LogonAsks(r)'
  BY <1>12 DEF Finish, Set
<1>13. ASSUME NEW q \in Requests, NEW call \in Calls, Lose(call, q) PROVE LogonAsks(r)'
  BY <1>13 DEF Lose, Set
<1>14. ASSUME UNCHANGED hvars PROVE LogonAsks(r)'
  BY <1>14 DEF hvars
<1>15. QED
  BY <1>1, <1>2, <1>3, <1>4, <1>5, <1>6, <1>7, <1>8, <1>9, <1>10, <1>11,
     <1>12, <1>13, <1>14
  DEF HNext, Gateway, LogonLogic, Service

-----------------------------------------------------------------------------
LEMMA InvInit == HInit => HInv
BY MaxCrashesAssumption, FormsAssumption
DEF HInit, HInv, HTypeOK, CallsAreKnown, CountIsRight, LogonAsks, Calls, Answers, Works

LEMMA InvStep == HInv /\ [HNext]_hvars => HInv'
BY TypeStep, KnownStep, CountStep, AsksStep DEF HInv

LEMMA InvAlways == HSpec => []HInv
BY InvInit, InvStep, PTL DEF HSpec

(* Type correctness: every variable has its type, always. *)
THEOREM TypeCorrect == HSpec => []HTypeOK
<1>1. HInv => HTypeOK
  BY DEF HInv
<1>2. QED
  BY <1>1, InvAlways, PTL

(* A request that succeeded was executed, a Logon with the user service's   *)
(* answer.                                                                  *)
THEOREM SuccessCanBeReliedOn == HSpec => []SuccessIsBacked
<1>1. HInv => SuccessIsBacked
  BY DEF HInv, CallsAreKnown, CountIsRight, LogonAsks, SuccessIsBacked, Calls
<1>2. QED
  BY <1>1, InvAlways, PTL

=============================================================================
