-------------------------- MODULE LocalCacheProofs --------------------------
(***************************************************************************)
(* For any number of calls and any number of changes of the data: one      *)
(* loader at a time (OneLoader), nothing stale after a DelCache that met   *)
(* no flight (FreshAfterDelete), and others' changes of an object only     *)
(* after a second look that hit (OthersChangesOnlyBySecondLook).           *)
(***************************************************************************)
EXTENDS LocalCache, TLAPS

(* The calls between Do's start and end: the flight. *)
Flying == {"leading", "loading", "loaded", "ending"}

(* Whoever is in the flight is its leader, so that there is one at most. *)
FlightIsLed == \A c \in Calls : pc[c] \in Flying => leader = {c}

(* An answer that is worth as much as the data was at version v. *)
AtLeast(a, v) ==
    /\ a.kind = "data" => a.version >= v
    /\ a.kind = "object" => object[a.of] >= v

(* What a DelCache without a flight has put an end to does not come back:   *)
(* neither the entry nor what the flight carries is older than floor, and   *)
(* no answer is older than its call.                                        *)
CallFresh(c) ==
    /\ since[c] <= floor
    /\ pc[c] = "loaded" => loaded[c] >= floor
    /\ pc[c] = "ending" => AtLeast(answer[c], floor)
    /\ pc[c] = "copying" => AtLeast(answer[c], since[c])

EntryFresh == floor <= source /\ (entry # Absent => entry >= floor)

NothingStale ==
    /\ EntryFresh
    /\ \A c \in Calls : CallFresh(c)

(* What is loaded is data, and a flight that ends has an answer.  An answer *)
(* that is an object is that of the flight's leader: it carries it, copies  *)
(* it to itself, or has returned with it.                                   *)
AnswerMakesSense(c) ==
    /\ pc[c] = "loaded" => loaded[c] \in Versions
    /\ pc[c] \in {"ending", "copying"} => answer[c].kind # "none"
    /\ pc[c] = "ending" /\ answer[c].kind = "object" => answer[c].of = c
    /\ pc[c] = "copying" /\ answer[c].kind = "object" =>
          LET d == answer[c].of
          IN  pc[d] = "returned" \/ (pc[d] = "copying" /\ answer[d] = answer[c])

AnswersMakeSense == \A c \in Calls : AnswerMakesSense(c)

LInv == LTypeOK /\ FlightIsLed /\ AnswersMakeSense /\ NothingStale

-----------------------------------------------------------------------------
(* The answers there are, and what each kind carries. *)
LEMMA AnswersAre ==
    /\ NoAnswer \in Answers /\ [kind |-> "error"] \in Answers
    /\ \A v \in Versions : [kind |-> "data", version |-> v] \in Answers
    /\ \A c \in Calls : [kind |-> "object", of |-> c] \in Answers
    /\ \A a \in Answers :
          /\ a.kind \in {"none", "error", "data", "object"}
          /\ a.kind = "data" => a.version \in Versions
          /\ a.kind = "object" => a.of \in Calls
BY DEF Answers, NoAnswer

(* Every step keeps the types. *)
LEMMA TypeStep == LTypeOK /\ AnswersMakeSense /\ [LNext]_lvars => LTypeOK'
<1> SUFFICES ASSUME LTypeOK, AnswersMakeSense, [LNext]_lvars PROVE LTypeOK'
  OBVIOUS
<1> USE MaxVersionAssumption DEF LTypeOK, Versions, Absent, Changed, AnswerMakesSense
<1>1. ASSUME NEW c \in Calls, FirstLook(c) PROVE LTypeOK'
  BY <1>1 DEF Go, FirstLook
<1>2. ASSUME NEW c \in Calls, Do(c) PROVE LTypeOK'
  BY <1>2 DEF Go, Do
<1>3. ASSUME NEW c \in Calls, SecondLook(c) PROVE LTypeOK'
  <2>1. object' \in [Calls -> Versions \cup {Absent, Changed}]
    BY <1>3 DEF SecondLook
  <2>2. answer' \in [Calls -> Answers]
    BY <1>3, AnswersAre DEF SecondLook, Got
  <2>3. QED
    BY <1>3, <2>1, <2>2 DEF SecondLook, Go
<1>4. ASSUME NEW c \in Calls, LoaderFails(c) PROVE LTypeOK'
  <2>1. answer' \in [Calls -> Answers]
    BY <1>4, AnswersAre DEF LoaderFails, Got
  <2>2. QED
    BY <1>4, <2>1 DEF LoaderFails, Go
<1>5. ASSUME NEW c \in Calls, LoaderReads(c) PROVE LTypeOK'
  BY <1>5 DEF Go, LoaderReads
<1>6. ASSUME NEW c \in Calls, Store(c) PROVE LTypeOK'
  <2>1. loaded[c] \in Versions
    BY <1>6 DEF Store, AnswersMakeSense
  <2>2. answer' \in [Calls -> Answers]
    BY <1>6, <2>1, AnswersAre DEF Store, Got
  <2>3. QED
    BY <1>6, <2>1, <2>2 DEF Store, Go
<1>7. ASSUME NEW c \in Calls, EndFlight(c) PROVE LTypeOK'
  BY <1>7 DEF EndFlight
<1>8. ASSUME NEW c \in Calls, Return(c) PROVE LTypeOK'
  <2>1. answer' \in [Calls -> Answers]
    BY <1>8, AnswersAre DEF Return, Got
  <2>2. answer[c].kind # "error" => Contents(answer[c]) \in Versions \cup {Absent, Changed}
    BY <1>8, AnswersAre DEF Return, Contents, AnswersMakeSense
  <2>3. object' \in [Calls -> Versions \cup {Absent, Changed}]
    BY <1>8, <2>2 DEF Return
  <2>4. QED
    BY <1>8, <2>1, <2>3 DEF Return, Go
<1>9. ASSUME NEW c \in Calls, Use(c) PROVE LTypeOK'
  BY <1>9 DEF Use
<1>10. ASSUME DataChanges PROVE LTypeOK'
  BY <1>10 DEF calls, DataChanges
<1>11. ASSUME SetCache PROVE LTypeOK'
  BY <1>11 DEF calls, SetCache
<1>12. ASSUME DelCache PROVE LTypeOK'
  BY <1>12 DEF calls, DelCache
<1>13. ASSUME Expire PROVE LTypeOK'
  BY <1>13 DEF calls, Expire
<1>14. ASSUME UNCHANGED lvars PROVE LTypeOK'
  BY <1>14 DEF calls, lvars
<1>15. QED
  BY <1>1, <1>2, <1>3, <1>4, <1>5, <1>6, <1>7, <1>8, <1>9, <1>10, <1>11,
     <1>12, <1>13, <1>14 DEF LNext, GetOrLoadCache

(* Every step leaves the flight at one leader. *)
LEMMA FlightStep == LTypeOK /\ FlightIsLed /\ [LNext]_lvars => FlightIsLed'
<1> SUFFICES ASSUME LTypeOK, FlightIsLed, [LNext]_lvars PROVE FlightIsLed'
  OBVIOUS
<1> USE DEF LTypeOK, FlightIsLed, Flying
<1>1. ASSUME NEW c \in Calls, FirstLook(c) PROVE FlightIsLed'
  BY <1>1 DEF Go, FirstLook
<1>2. ASSUME NEW c \in Calls, Do(c) PROVE FlightIsLed'
  BY <1>2 DEF Go, Do
<1>3. ASSUME NEW c \in Calls, SecondLook(c) PROVE FlightIsLed'
  BY <1>3 DEF Go, SecondLook
<1>4. ASSUME NEW c \in Calls, LoaderFails(c) PROVE FlightIsLed'
  BY <1>4 DEF Go, LoaderFails
<1>5. ASSUME NEW c \in Calls, LoaderReads(c) PROVE FlightIsLed'
  BY <1>5 DEF Go, LoaderReads
<1>6. ASSUME NEW c \in Calls, Store(c) PROVE FlightIsLed'
  BY <1>6 DEF Go, Store
<1>7. ASSUME NEW c \in Calls, EndFlight(c) PROVE FlightIsLed'
  BY <1>7 DEF EndFlight
<1>8. ASSUME NEW c \in Calls, Return(c) PROVE FlightIsLed'
  BY <1>8 DEF Go, Return
<1>9. ASSUME NEW c \in Calls, Use(c) PROVE FlightIsLed'
  BY <1>9 DEF Use
<1>10. ASSUME DataChanges PROVE FlightIsLed'
  BY <1>10 DEF calls, DataChanges
<1>11. ASSUME SetCache PROVE FlightIsLed'
  BY <1>11 DEF calls, SetCache
<1>12. ASSUME DelCache PROVE FlightIsLed'
  BY <1>12 DEF calls, DelCache
<1>13. ASSUME Expire PROVE FlightIsLed'
  BY <1>13 DEF calls, Expire
<1>14. ASSUME UNCHANGED lvars PROVE FlightIsLed'
  BY <1>14 DEF calls, lvars
<1>15. QED
  BY <1>1, <1>2, <1>3, <1>4, <1>5, <1>6, <1>7, <1>8, <1>9, <1>10, <1>11,
     <1>12, <1>13, <1>14 DEF LNext, GetOrLoadCache

(* Every step leaves the answers sensible. *)
LEMMA AnswersStep ==
    LTypeOK /\ FlightIsLed /\ AnswersMakeSense /\ [LNext]_lvars => AnswersMakeSense'
<1> SUFFICES ASSUME LTypeOK, FlightIsLed, AnswersMakeSense, [LNext]_lvars,
                    NEW d \in Calls
             PROVE  AnswerMakesSense(d)'
  BY DEF AnswersMakeSense
<1>0. \A x \in Calls : answer[x].kind = "object" => answer[x].of \in Calls
  BY AnswersAre DEF LTypeOK
<1> USE DEF LTypeOK, FlightIsLed, Flying, AnswersMakeSense, AnswerMakesSense
<1>1. ASSUME NEW c \in Calls, FirstLook(c) PROVE AnswerMakesSense(d)'
  BY <1>0, <1>1 DEF Go, FirstLook
<1>2. ASSUME NEW c \in Calls, Do(c) PROVE AnswerMakesSense(d)'
  BY <1>0, <1>2 DEF Go, Do
<1>3. ASSUME NEW c \in Calls, SecondLook(c) PROVE AnswerMakesSense(d)'
  BY <1>0, <1>3 DEF Go, Got, SecondLook
<1>4. ASSUME NEW c \in Calls, LoaderFails(c) PROVE AnswerMakesSense(d)'
  BY <1>0, <1>4 DEF Go, Got, LoaderFails
<1>5. ASSUME NEW c \in Calls, LoaderReads(c) PROVE AnswerMakesSense(d)'
  BY <1>0, <1>5 DEF Go, LoaderReads
<1>6. ASSUME NEW c \in Calls, Store(c) PROVE AnswerMakesSense(d)'
  BY <1>0, <1>6 DEF Go, Got, Store
<1>7. ASSUME NEW c \in Calls, EndFlight(c) PROVE AnswerMakesSense(d)'
  BY <1>0, <1>7 DEF EndFlight
<1>8. ASSUME NEW c \in Calls, Return(c) PROVE AnswerMakesSense(d)'
  BY <1>0, <1>8 DEF Go, Got, Return
<1>9. ASSUME NEW c \in Calls, Use(c) PROVE AnswerMakesSense(d)'
  BY <1>0, <1>9 DEF Use
<1>10. ASSUME DataChanges PROVE AnswerMakesSense(d)'
  BY <1>0, <1>10 DEF calls, DataChanges
<1>11. ASSUME SetCache PROVE AnswerMakesSense(d)'
  BY <1>0, <1>11 DEF calls, SetCache
<1>12. ASSUME DelCache PROVE AnswerMakesSense(d)'
  BY <1>0, <1>12 DEF calls, DelCache
<1>13. ASSUME Expire PROVE AnswerMakesSense(d)'
  BY <1>0, <1>13 DEF calls, Expire
<1>14. ASSUME UNCHANGED lvars PROVE AnswerMakesSense(d)'
  BY <1>0, <1>14 DEF calls, lvars
<1>15. QED
  BY <1>1, <1>2, <1>3, <1>4, <1>5, <1>6, <1>7, <1>8, <1>9, <1>10, <1>11,
     <1>12, <1>13, <1>14 DEF LNext, GetOrLoadCache

(* Every step leaves the entry no older than floor. *)
LEMMA EntryStep == LInv /\ [LNext]_lvars => EntryFresh'
<1> SUFFICES ASSUME LInv, [LNext]_lvars PROVE EntryFresh'
  OBVIOUS
<1> USE MaxVersionAssumption
    DEF LInv, LTypeOK, NothingStale, EntryFresh, CallFresh, Versions, Absent, Changed
<1>1. ASSUME NEW c \in Calls, FirstLook(c) PROVE EntryFresh'
  BY <1>1 DEF Go, FirstLook
<1>2. ASSUME NEW c \in Calls, Do(c) PROVE EntryFresh'
  BY <1>2 DEF Go, Do
<1>3. ASSUME NEW c \in Calls, SecondLook(c) PROVE EntryFresh'
  BY <1>3 DEF Go, Got, SecondLook
<1>4. ASSUME NEW c \in Calls, LoaderFails(c) PROVE EntryFresh'
  BY <1>4 DEF Go, Got, LoaderFails
<1>5. ASSUME NEW c \in Calls, LoaderReads(c) PROVE EntryFresh'
  BY <1>5 DEF Go, LoaderReads
<1>6. ASSUME NEW c \in Calls, Store(c) PROVE EntryFresh'
  BY <1>6 DEF Go, Got, Store
<1>7. ASSUME NEW c \in Calls, EndFlight(c) PROVE EntryFresh'
  BY <1>7 DEF EndFlight
<1>8. ASSUME NEW c \in Calls, Return(c) PROVE EntryFresh'
  BY <1>8 DEF Go, Got, Return, Contents
<1>9. ASSUME NEW c \in Calls, Use(c) PROVE EntryFresh'
  BY <1>9 DEF Use
<1>10. ASSUME DataChanges PROVE EntryFresh'
  BY <1>10 DEF calls, DataChanges
<1>11. ASSUME SetCache PROVE EntryFresh'
  BY <1>11 DEF calls, SetCache
<1>12. ASSUME DelCache PROVE EntryFresh'
  BY <1>12 DEF calls, DelCache, InFlight
<1>13. ASSUME Expire PROVE EntryFresh'
  BY <1>13 DEF calls, Expire
<1>14. ASSUME UNCHANGED lvars PROVE EntryFresh'
  BY <1>14 DEF calls, lvars
<1>15. QED
  BY <1>1, <1>2, <1>3, <1>4, <1>5, <1>6, <1>7, <1>8, <1>9, <1>10, <1>11,
     <1>12, <1>13, <1>14 DEF LNext, GetOrLoadCache


(* Every step leaves no call behind with anything older than it may return. *)
LEMMA CallsStep == LInv /\ [LNext]_lvars => \A d \in Calls : CallFresh(d)'
<1> SUFFICES ASSUME LInv, [LNext]_lvars, NEW d \in Calls PROVE CallFresh(d)'
  OBVIOUS
<1>0. \A x \in Calls :
          /\ answer[x].kind = "object" => answer[x].of \in Calls
          /\ answer[x].kind = "data" => answer[x].version \in Versions
  BY AnswersAre DEF LInv, LTypeOK
<1> USE MaxVersionAssumption
    DEF LInv, LTypeOK, FlightIsLed, Flying, AnswersMakeSense, AnswerMakesSense,
        NothingStale, EntryFresh, CallFresh, AtLeast, Versions, Absent, Changed
<1>1. ASSUME NEW c \in Calls, FirstLook(c) PROVE CallFresh(d)'
  BY <1>0, <1>1 DEF Go, FirstLook
<1>2. ASSUME NEW c \in Calls, Do(c) PROVE CallFresh(d)'
  BY <1>0, <1>2 DEF Go, Do
<1>3. ASSUME NEW c \in Calls, SecondLook(c) PROVE CallFresh(d)'
  BY <1>0, <1>3 DEF Go, Got, SecondLook
<1>4. ASSUME NEW c \in Calls, LoaderFails(c) PROVE CallFresh(d)'
  BY <1>0, <1>4 DEF Go, Got, LoaderFails
<1>5. ASSUME NEW c \in Calls, LoaderReads(c) PROVE CallFresh(d)'
  BY <1>0, <1>5 DEF Go, LoaderReads
<1>6. ASSUME NEW c \in Calls, Store(c) PROVE CallFresh(d)'
  BY <1>0, <1>6 DEF Go, Got, Store
<1>7. ASSUME NEW c \in Calls, EndFlight(c) PROVE CallFresh(d)'
  BY <1>0, <1>7 DEF EndFlight
<1>8. ASSUME NEW c \in Calls, Return(c) PROVE CallFresh(d)'
  BY <1>0, <1>8 DEF Go, Got, Return, Contents
<1>9. ASSUME NEW c \in Calls, Use(c) PROVE CallFresh(d)'
  BY <1>0, <1>9 DEF Use
<1>10. ASSUME DataChanges PROVE CallFresh(d)'
  BY <1>0, <1>10 DEF calls, DataChanges
<1>11. ASSUME SetCache PROVE CallFresh(d)'
  BY <1>0, <1>11 DEF calls, SetCache
<1>12. ASSUME DelCache PROVE CallFresh(d)'
  BY <1>0, <1>12 DEF calls, DelCache, InFlight
<1>13. ASSUME Expire PROVE CallFresh(d)'
  BY <1>0, <1>13 DEF calls, Expire
<1>14. ASSUME UNCHANGED lvars PROVE CallFresh(d)'
  BY <1>0, <1>14 DEF calls, lvars
<1>15. QED
  BY <1>1, <1>2, <1>3, <1>4, <1>5, <1>6, <1>7, <1>8, <1>9, <1>10, <1>11,
     <1>12, <1>13, <1>14 DEF LNext, GetOrLoadCache


-----------------------------------------------------------------------------
LEMMA InvInit == LInit => LInv
BY MaxVersionAssumption, AnswersAre
DEF LInit, LInv, LTypeOK, FlightIsLed, Flying, AnswersMakeSense, AnswerMakesSense,
    NothingStale, EntryFresh, CallFresh, Versions, Absent, Changed

LEMMA InvStep == LInv /\ [LNext]_lvars => LInv'
BY TypeStep, FlightStep, AnswersStep, EntryStep, CallsStep DEF LInv, NothingStale

LEMMA InvAlways == LSpec => []LInv
BY InvInit, InvStep, PTL DEF LSpec

(* Type correctness: every variable has its type, always. *)
THEOREM TypeCorrect == LSpec => []LTypeOK
<1>1. LInv => LTypeOK
  BY DEF LInv
<1>2. QED
  BY <1>1, InvAlways, PTL

(* Single flight: at any time one loader runs at most. *)
THEOREM SingleFlight == LSpec => []OneLoader
<1>1. LInv => OneLoader
  BY DEF LInv, FlightIsLed, Flying, OneLoader
<1>2. QED
  BY <1>1, InvAlways, PTL

(* What a call returns is not older than the data was at the last DelCache  *)
(* before it, of those that met no flight.                                  *)
THEOREM NothingStaleReturns == LSpec => FreshAfterDelete
<1> DEFINE Fresh(c) == Returns(c) => object'[c] >= IF pc[c] = "new" THEN floor ELSE since[c]
<1>1. ASSUME LInv, [LNext]_lvars, NEW c \in Calls PROVE Fresh(c)
  <2> SUFFICES ASSUME Returns(c)
               PROVE  object'[c] >= IF pc[c] = "new" THEN floor ELSE since[c]
    OBVIOUS
  <2>0. /\ answer[c].kind = "object" => answer[c].of \in Calls
        /\ answer[c].kind = "data" => answer[c].version \in Versions
        /\ answer[c].kind \in {"none", "error", "data", "object"}
    BY <1>1, AnswersAre DEF LInv, LTypeOK
  <2> USE DEF Returns, LInv, LTypeOK
  <2>1. FirstLook(c) \/ Return(c)
    BY <1>1 DEF LNext, GetOrLoadCache, FirstLook, Do, SecondLook, LoaderFails, LoaderReads,
        Store, EndFlight, Return, Use, DataChanges, SetCache, DelCache, Expire, Go, calls,
        lvars
  <2>2. CASE FirstLook(c)
    BY <1>1, <2>2 DEF FirstLook, Go, NothingStale, EntryFresh, Absent
  <2>3. CASE Return(c)
    BY <1>1, <2>0, <2>3
    DEF Return, Go, Contents, NothingStale, CallFresh, AtLeast, AnswersMakeSense,
        AnswerMakesSense
  <2>4. QED
    BY <2>1, <2>2, <2>3
<1>2. LInv /\ [LNext]_lvars => [\A c \in Calls : Fresh(c)]_lvars
  BY <1>1
<1>3. QED
  BY <1>2, InvAlways, PTL DEF LSpec, FreshAfterDelete

-----------------------------------------------------------------------------
(* Whose changes a call can return: an object is an answer only when its    *)
(* leader found the entry on the second look, so that its loader never ran, *)
(* and is its owner's to change only once the owner's call has returned.    *)
OnlyHitsAreShared ==
    \A c \in Calls :
        /\ pc[c] \in {"new", "missed", "waiting", "leading", "loading"} => loaded[c] = Absent
        /\ answer[c].kind = "object" =>
              /\ pc[c] \in {"ending", "copying"}
              /\ loaded[answer[c].of] = Absent
              /\ pc[answer[c].of] \in {"ending", "copying", "returned"}
        /\ pc[c] # "returned" => object[c] # Changed

LEMMA SharedInit == LInit => OnlyHitsAreShared
BY MaxVersionAssumption DEF LInit, OnlyHitsAreShared, NoAnswer, Absent, Changed

LEMMA SharedStep == LInv /\ OnlyHitsAreShared /\ [LNext]_lvars => OnlyHitsAreShared'
<1> SUFFICES ASSUME LInv, OnlyHitsAreShared, [LNext]_lvars
             PROVE  OnlyHitsAreShared'
  OBVIOUS
<1>0. /\ LTypeOK /\ AnswersMakeSense
      /\ \A c \in Calls : answer[c].kind = "object" => answer[c].of \in Calls
      /\ Absent # Changed /\ Changed \notin Versions
  BY MaxVersionAssumption, AnswersAre DEF LInv, LTypeOK, Absent, Changed, Versions
<1> USE DEF OnlyHitsAreShared, LTypeOK
<1>1. ASSUME NEW c \in Calls, FirstLook(c) PROVE OnlyHitsAreShared'
  BY <1>0, <1>1 DEF FirstLook, Go
<1>2. ASSUME NEW c \in Calls, Do(c) PROVE OnlyHitsAreShared'
  BY <1>0, <1>2 DEF Do, Go
<1>3. ASSUME NEW c \in Calls, SecondLook(c) PROVE OnlyHitsAreShared'
  BY <1>0, <1>3 DEF SecondLook, Go, Got
<1>4. ASSUME NEW c \in Calls, LoaderFails(c) PROVE OnlyHitsAreShared'
  BY <1>0, <1>4 DEF LoaderFails, Go, Got
<1>5. ASSUME NEW c \in Calls, LoaderReads(c) PROVE OnlyHitsAreShared'
  BY <1>0, <1>5 DEF LoaderReads, Go
<1>6. ASSUME NEW c \in Calls, Store(c) PROVE OnlyHitsAreShared'
  BY <1>0, <1>6 DEF Store, Go, Got
<1>7. ASSUME NEW c \in Calls, EndFlight(c) PROVE OnlyHitsAreShared'
  BY <1>0, <1>7 DEF EndFlight
<1>8. ASSUME NEW c \in Calls, Return(c) PROVE OnlyHitsAreShared'
  <2>1. /\ pc'[c] \in {"returned", "failed"} /\ pc[c] = "copying"
        /\ pc'[c] = "failed" => answer[c].kind = "error" /\ object' = object
        /\ answer'[c].kind = "none"
        /\ \A d \in Calls \ {c} : /\ pc'[d] = pc[d] /\ answer'[d] = answer[d]
                                  /\ object'[d] = object[d]
        /\ object'[c] # object[c] => pc'[c] = "returned"
        /\ loaded' = loaded
    BY <1>0, <1>8 DEF Return, Go, Got, NoAnswer
  <2>2. \A d \in Calls : answer[d].kind = "object" /\ answer[d].of = c
                           => answer[c].kind = "object"
    BY <1>0, <2>1 DEF AnswersMakeSense, AnswerMakesSense
  <2>3. QED
    BY <1>0, <2>1, <2>2
<1>9. ASSUME NEW c \in Calls, Use(c) PROVE OnlyHitsAreShared'
  BY <1>0, <1>9 DEF Use
<1>10. CASE DataChanges \/ SetCache \/ DelCache \/ Expire
  BY <1>10 DEF DataChanges, SetCache, DelCache, Expire, calls
<1>11. CASE UNCHANGED lvars
  BY <1>11 DEF lvars, calls
<1>12. QED
  BY <1>1, <1>2, <1>3, <1>4, <1>5, <1>6, <1>7, <1>8, <1>9, <1>10, <1>11
  DEF LNext, GetOrLoadCache

(* What a call returns has been changed by another call's owner only if     *)
(* that call led its flight and hit on the second look.                     *)
THEOREM ChangesComeFromHits == LSpec => OthersChangesOnlyBySecondLook
<1> DEFINE Explained(c) ==
              Returns(c) /\ object'[c] = Changed =>
                 \E d \in Calls \ {c} :
                    answer[c] = [kind |-> "object", of |-> d] /\ loaded[d] = Absent
<1>1. ASSUME LInv, OnlyHitsAreShared, [LNext]_lvars, NEW c \in Calls PROVE Explained(c)
  <2> SUFFICES ASSUME Returns(c), object'[c] = Changed
               PROVE  \E d \in Calls \ {c} :
                         answer[c] = [kind |-> "object", of |-> d] /\ loaded[d] = Absent
    OBVIOUS
  <2>0. /\ answer[c].kind = "object" => /\ answer[c].of \in Calls
                                        /\ answer[c] = [kind |-> "object", of |-> answer[c].of]
        /\ answer[c].kind = "data" => answer[c].version \in Versions
        /\ answer[c].kind \in {"none", "error", "data", "object"}
        /\ Changed \notin Versions /\ Changed # Absent
    BY <1>1, MaxVersionAssumption DEF LInv, LTypeOK, Answers, Versions, Changed, Absent
  <2> USE DEF Returns, LInv, LTypeOK
  <2>1. FirstLook(c) \/ Return(c)
    BY <1>1 DEF LNext, GetOrLoadCache, FirstLook, Do, SecondLook, LoaderFails, LoaderReads,
        Store, EndFlight, Return, Use, DataChanges, SetCache, DelCache, Expire, Go, calls,
        lvars
  <2>2. ~FirstLook(c)
    BY <1>1, <2>0 DEF FirstLook, Go
  <2>3. pc[c] = "copying" /\ answer[c].kind # "error" /\ object'[c] = Contents(answer[c])
    BY <1>1, <2>1, <2>2 DEF Return, Go
  <2>4. answer[c].kind = "object" /\ object[answer[c].of] = Changed
    BY <1>1, <2>0, <2>3 DEF Contents, AnswersMakeSense, AnswerMakesSense
  <2>5. answer[c].of # c /\ loaded[answer[c].of] = Absent
    BY <1>1, <2>3, <2>4 DEF OnlyHitsAreShared
  <2>6. QED
    BY <2>0, <2>4, <2>5
<1>2. LInv /\ OnlyHitsAreShared /\ [LNext]_lvars => [\A c \in Calls : Explained(c)]_lvars
  BY <1>1
<1>3. QED
  BY <1>2, InvAlways, SharedInit, SharedStep, PTL DEF LSpec, OthersChangesOnlyBySecondLook

=============================================================================
