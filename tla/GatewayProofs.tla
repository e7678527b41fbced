-------------------------- MODULE GatewayProofs ---------------------------
(***************************************************************************)
(* Machine-checked proofs about Gateway, for every number of connections,  *)
(* users and rooms, every capacity, either message format and any sequence *)
(* of requests: what a client can rely on in the messages it receives.     *)
(***************************************************************************)
EXTENDS Gateway, SessionDirectoryProofs, SequenceTheorems, TLAPS

USE DEF directory, panicked

-----------------------------------------------------------------------------
(* Sequences *)

LEMMA Entries ==
    ASSUME NEW S, NEW s \in Seq(S)
    PROVE  /\ Len(s) \in Nat /\ DOMAIN s = 1 .. Len(s)
           /\ \A i \in 1 .. Len(s) : s[i] \in S
           /\ s # <<>> <=> Len(s) # 0
<1>1. s # <<>> => Len(s) # 0
  BY EmptySeq
<1>2. s = <<>> => Len(s) = 0
  BY EmptySeq
<1>3. QED
  BY <1>1, <1>2, LenProperties, ElementOfSeq

(* A sequence that has grown by one entry, told entry by entry. *)
Grown(s, e, t) ==
    /\ Len(t) = Len(s) + 1 /\ DOMAIN t = 1 .. Len(s) + 1
    /\ \A i \in 1 .. Len(s) : t[i] = s[i]
    /\ t[Len(s) + 1] = e

LEMMA Growth ==
    ASSUME NEW S, NEW s \in Seq(S), NEW e \in S
    PROVE  Append(s, e) \in Seq(S) /\ Grown(s, e, Append(s, e))
<1>1. /\ Append(s, e) \in Seq(S) /\ Len(Append(s, e)) = Len(s) + 1
      /\ \A i \in 1 .. Len(s) : Append(s, e)[i] = s[i]
      /\ Append(s, e)[Len(s) + 1] = e
  BY AppendProperties
<1>2. DOMAIN Append(s, e) = 1 .. Len(s) + 1
  BY <1>1, Entries
<1>3. QED
  BY <1>1, <1>2 DEF Grown

-----------------------------------------------------------------------------
(* The inductive invariant *)

(* What may be left to do of a request, by its type. *)
Remaining(t) ==
    CASE t = "heartbeat"       -> {<<"beat">>}
      [] t = "login"           -> {<<"enroll", "answer">>, <<"answer">>, <<"refuse">>}
      [] t = "logout"          -> {<<"dismiss", "answer">>, <<"answer">>}
      [] t = "join"            -> {<<"move", "answer", "push">>, <<"answer", "push">>, <<"push">>}
      [] t = "leave"           -> {<<"leave", "answer", "push">>, <<"answer", "push">>, <<"push">>}
      [] t \in Chats           -> {<<"push", "answer">>, <<"answer">>}
      [] t = "game action"     -> {<<"log", "answer">>, <<"answer">>}
      [] t \in {"query", "other chat"} -> {<<"answer">>}
      [] OTHER                 -> {}

Movers  == {"join", "leave"}
Pushers == Movers \cup Chats

(* A reader is in the middle of the request it took last; nothing is left   *)
(* of the others.  Its session has not been changed before its first step.  *)
InStep(c) ==
    /\ Len(outcome[c]) = Len(requests[c])
    /\ todo[c] # <<>> => requests[c] # <<>> /\ todo[c] \in Remaining(Current(c).type)
    /\ todo[c] # <<>> /\ Head(todo[c]) \in {"enroll", "dismiss", "move", "leave"} =>
          outcome[c][Len(requests[c])] = "nothing"
    /\ reader[c] # "reading" => c \in closed

(* Of a request in this state the answer is still to come. *)
Pending(c) == todo[c] \notin {<<>>, <<"push">>}

AnsweredInOrder(c) ==
    /\ \A i \in Answers(c) : \E n \in DOMAIN requests[c] : received[c][i].of = <<c, n>>
    /\ \A i, j \in Answers(c) : i < j => received[c][i].of[2] < received[c][j].of[2]
    /\ \A n \in DOMAIN requests[c] :
          n < Len(requests[c]) \/ (~Pending(c) /\ ~panicked) => Answered(c, n)
    /\ Pending(c) => \A i \in Answers(c) : received[c][i].of[2] < Len(requests[c])
    /\ \A i \in Answers(c) : \A n \in DOMAIN requests[c] :
          received[c][i].of = <<c, n>> /\ requests[c][n].type \in Movers =>
             received[c][i].kind = "answer"

(* Request p[2] of p[1], if it is to join or leave, has had its answer. *)
Confirmed(p) ==
    requests[p[1]][p[2]].type \in Movers =>
       \E i \in DOMAIN received[p[1]] :
          received[p[1]][i].of = p /\ received[p[1]][i].kind = "answer"

(* The pushes under way are of requests that push, and come after the       *)
(* answer.                                                                  *)
PushesOK ==
    /\ \A p \in waiting : requests[p[1]][p[2]].type \in Pushers /\ Confirmed(p)
    /\ \A w \in sending : Confirmed(w.push)

(* ClientKnowsItsSession, also in the middle of a request. *)
Knows(c) ==
    c \notin closed =>
        /\ c \in Present <=>
              \E n \in DOMAIN outcome[c] :
                 Last(c, n, {"enrolled", "dismissed"}) /\ outcome[c][n] = "enrolled"
        /\ c \in Present =>
              \E n \in DOMAIN outcome[c] :
                 /\ Last(c, n, {"enrolled", "moved", "left"})
                 /\ sessions[c].room =
                       IF outcome[c][n] = "moved" THEN requests[c][n].room ELSE NoRoom

ReadersOK   == \A c \in Conns : InStep(c)
AnswersOK   == \A c \in Conns : AnsweredInOrder(c)
KnowledgeOK == \A c \in Conns : Knows(c)

-----------------------------------------------------------------------------
(* The steps of the handlers *)

StepNames ==
    {"beat", "enroll", "dismiss", "move", "leave", "log", "answer", "refuse", "push"}

(* The rests of the handlers' steps, first step by first step. *)
LEMMA Rests ==
    /\ Head(<<"beat">>) = "beat" /\ Tail(<<"beat">>) = <<>>
    /\ Head(<<"refuse">>) = "refuse" /\ Tail(<<"refuse">>) = <<>>
    /\ Head(<<"push">>) = "push" /\ Tail(<<"push">>) = <<>>
    /\ Head(<<"answer">>) = "answer" /\ Tail(<<"answer">>) = <<>>
    /\ Head(<<"enroll", "answer">>) = "enroll" /\ Tail(<<"enroll", "answer">>) = <<"answer">>
    /\ Head(<<"dismiss", "answer">>) = "dismiss" /\ Tail(<<"dismiss", "answer">>) = <<"answer">>
    /\ Head(<<"push", "answer">>) = "push" /\ Tail(<<"push", "answer">>) = <<"answer">>
    /\ Head(<<"log", "answer">>) = "log" /\ Tail(<<"log", "answer">>) = <<"answer">>
    /\ Head(<<"answer", "push">>) = "answer" /\ Tail(<<"answer", "push">>) = <<"push">>
    /\ Head(<<"move", "answer", "push">>) = "move"
    /\ Tail(<<"move", "answer", "push">>) = <<"answer", "push">>
    /\ Head(<<"leave", "answer", "push">>) = "leave"
    /\ Tail(<<"leave", "answer", "push">>) = <<"answer", "push">>
OBVIOUS

LEMMA RemainingFacts ==
    ASSUME NEW t \in Types, NEW x \in Remaining(t)
    PROVE  /\ Tail(x) \in {<<>>} \cup Remaining(t) /\ x # <<>>
           /\ Head(x) = "enroll" => t = "login" /\ Tail(x) = <<"answer">>
           /\ Head(x) = "dismiss" => t = "logout" /\ Tail(x) = <<"answer">>
           /\ Head(x) = "move" => t = "join" /\ Tail(x) = <<"answer", "push">>
           /\ Head(x) = "leave" => t = "leave" /\ Tail(x) = <<"answer", "push">>
           /\ Head(x) = "log" => t = "game action" /\ Tail(x) = <<"answer">>
           /\ Head(x) = "answer" => \/ t \notin Movers /\ Tail(x) = <<>>
                                    \/ t \in Movers /\ Tail(x) = <<"push">>
           /\ Head(x) = "refuse" => t = "login" /\ Tail(x) = <<>>
           /\ Head(x) = "beat" => t = "heartbeat" /\ Tail(x) = <<>>
           /\ Head(x) = "push" => \/ t \in Movers /\ x = <<"push">> /\ Tail(x) = <<>>
                                  \/ t \in Chats /\ x = <<"push", "answer">> /\ Tail(x) = <<"answer">>
           /\ x = <<"push">> => t \in Movers
<1> DEFINE Is(h, r) == Head(x) = h /\ Tail(x) = r
<1>a. /\ x = <<"beat">> => Is("beat", <<>>)
      /\ x = <<"refuse">> => Is("refuse", <<>>)
      /\ x = <<"push">> => Is("push", <<>>)
      /\ x = <<"answer">> => Is("answer", <<>>)
      /\ x = <<"enroll", "answer">> => Is("enroll", <<"answer">>)
      /\ x = <<"dismiss", "answer">> => Is("dismiss", <<"answer">>)
      /\ x = <<"push", "answer">> => Is("push", <<"answer">>)
      /\ x = <<"log", "answer">> => Is("log", <<"answer">>)
      /\ x = <<"answer", "push">> => Is("answer", <<"push">>)
      /\ x = <<"move", "answer", "push">> => Is("move", <<"answer", "push">>)
      /\ x = <<"leave", "answer", "push">> => Is("leave", <<"answer", "push">>)
  BY Rests, Zenon
<1>b. x # <<>> /\ <<"answer">> # <<>> /\ <<"answer">> # <<"push">>
  <2>1. /\ <<"beat">> # <<>> /\ <<"refuse">> # <<>> /\ <<"push">> # <<>>
        /\ <<"answer">> # <<>> /\ <<"answer">> # <<"push">>
        /\ \A a, b : <<a, b>> # <<>>
        /\ \A a, b, c : <<a, b, c>> # <<>>
    OBVIOUS
  <2>2. QED
    BY <2>1 DEF Remaining
<1> HIDE DEF Is
<1>c. /\ x # <<>>
      /\ x = <<"push">> => Head(x) = "push" /\ Tail(x) = <<>>
  BY <1>a, <1>b DEF Is
<1>1. CASE t = "heartbeat"
  BY <1>a, <1>b, <1>c, <1>1 DEF Is, Remaining, Chats, Movers
<1>2. CASE t = "login"
  BY <1>a, <1>b, <1>c, <1>2 DEF Is, Remaining, Chats, Movers
<1>3. CASE t = "logout"
  BY <1>a, <1>b, <1>c, <1>3 DEF Is, Remaining, Chats, Movers
<1>4. CASE t = "join"
  BY <1>a, <1>b, <1>c, <1>4 DEF Is, Remaining, Chats, Movers
<1>5. CASE t = "leave"
  BY <1>a, <1>b, <1>c, <1>5 DEF Is, Remaining, Chats, Movers
<1>6. CASE t \in Chats
  BY <1>a, <1>b, <1>c, <1>6 DEF Is, Remaining, Chats, Movers
<1>7. CASE t \in {"query", "other chat"}
  BY <1>a, <1>b, <1>c, <1>7 DEF Is, Remaining, Chats, Movers
<1>g. CASE t = "game action"
  BY <1>a, <1>b, <1>c, <1>g DEF Is, Remaining, Chats, Movers
<1>8. CASE t = "malformed"
  BY <1>8 DEF Remaining, Chats
<1>9. QED
  BY <1>1, <1>2, <1>3, <1>4, <1>5, <1>6, <1>7, <1>8, <1>g DEF Types

LEMMA RemainingType ==
    ASSUME NEW t, NEW x \in Remaining(t)
    PROVE  x \in Seq(StepNames)
<1>1. Remaining(t) \subseteq
        {<<"beat">>, <<"enroll", "answer">>, <<"answer">>, <<"refuse">>, <<"dismiss", "answer">>,
         <<"move", "answer", "push">>, <<"answer", "push">>, <<"push">>,
         <<"leave", "answer", "push">>, <<"push", "answer">>, <<"log", "answer">>}
  BY DEF Remaining
<1>2. \A a, b, c \in StepNames :
         <<a>> \in Seq(StepNames) /\ <<a, b>> \in Seq(StepNames) /\ <<a, b, c>> \in Seq(StepNames)
  OBVIOUS
<1>3. QED
  BY <1>1, <1>2 DEF StepNames

(* The handlers' steps are what may remain at first; the answer is pending. *)
LEMMA StepsRemain ==
    ASSUME NEW q \in Request, q.type # "malformed"
    PROVE  Steps(q) \in Remaining(q.type) /\ Steps(q) \notin {<<>>, <<"push">>}
<1>1. q.type \in Types
  BY DEF Request
<1>2. Steps(q) \in Remaining(q.type)
  BY <1>1 DEF Steps, Remaining, Types, Chats
<1>3. /\ <<"beat">> # <<"push">> /\ <<"enroll", "answer">> # <<"push">>
      /\ <<"dismiss", "answer">> # <<"push">> /\ <<"move", "answer", "push">> # <<"push">>
      /\ <<"leave", "answer", "push">> # <<"push">> /\ <<"push", "answer">> # <<"push">>
      /\ <<"answer">> # <<"push">> /\ <<"log", "answer">> # <<"push">>
  OBVIOUS
<1>4. Steps(q) # <<"push">>
  BY <1>1, <1>3 DEF Steps, Types, Chats
<1>5. QED
  BY <1>1, <1>2, <1>4, RemainingFacts

-----------------------------------------------------------------------------
(* Sessions *)

(* A change of the sessions that concerns c alone. *)
Elsewhere(c) ==
    \A d \in Conns \ {c} :
        /\ d \in Present' <=> d \in Present
        /\ d \in Present => sessions'[d] = sessions[d]

LEMMA Enrolls ==
    ASSUME NEW c, NEW u, Enroll(c, u)
    PROVE  c \in Present' /\ sessions'[c].room = NoRoom /\ Elsewhere(c)
BY DEF Enroll, Present, Elsewhere

LEMMA Unregisters ==
    ASSUME NEW c, Unregister(c) \/ Dismiss(c)
    PROVE  c \notin Present' /\ Elsewhere(c)
BY DEF Unregister, Dismiss, Present, Elsewhere, Restrict

LEMMA Moves ==
    ASSUME DirectoryOK, NEW c, NEW r \in Rooms, Move(c, r)
    PROVE  c \in Present /\ c \in Present' /\ sessions'[c].room = r /\ Elsewhere(c)
BY DEF Move, Present, Elsewhere, DirectoryOK

LEMMA Quits ==
    ASSUME DirectoryOK, NEW c, Quit(c)
    PROVE  c \in Present /\ c \in Present' /\ sessions'[c].room = NoRoom /\ Elsewhere(c)
BY DEF Quit, Present, Elsewhere, DirectoryOK

(* The connections with a session, and those a lookup may find.             *)
Known ==
    {c \in Conns : \/ c \in Present
                   \/ \E u \in Users : c \in contact[u]
                   \/ \E r \in Rooms : c \in roster[r]}

(* Only a login makes a connection known. *)
LEMMA KnownByLogin ==
    ASSUME DirectoryOK, NEW c \in Conns
    PROVE  /\ \A u \in Users : Enroll(c, u) => \A d \in Known' : d \in Known \/ d = c
           /\ Dismiss(c) \/ Quit(c) \/ (\E r \in Rooms : Move(c, r)) => Known' \subseteq Known
<1> USE DEF DirectoryOK, Known, Present
<1>1. ASSUME NEW u \in Users, Enroll(c, u) PROVE \A d \in Known' : d \in Known \/ d = c
  BY <1>1 DEF Enroll
<1>2. CASE Dismiss(c)
  BY <1>2, <1>1 DEF Dismiss, Restrict, RosterWithout
<1>3. CASE Quit(c)
  BY <1>3, <1>1 DEF Quit, RosterWithout
<1>4. ASSUME NEW r \in Rooms, Move(c, r) PROVE Known' \subseteq Known
  BY <1>4 DEF Move, RosterWithout
<1>5. QED
  BY <1>1, <1>2, <1>3, <1>4

-----------------------------------------------------------------------------
(* Requests *)

LEMMA AskedBy ==
    /\ \A c \in Conns : \A n \in DOMAIN requests[c] : <<c, n>> \in Asked
    /\ \A p \in Asked : p[1] \in Conns /\ p[2] \in DOMAIN requests[p[1]] /\ p = <<p[1], p[2]>>
BY DEF Asked

LEMMA CurrentIs ==
    ASSUME GTypeOK, NEW c \in Conns, requests[c] # <<>>
    PROVE  /\ Len(requests[c]) \in DOMAIN requests[c] /\ Len(requests[c]) \in Nat \ {0}
           /\ DOMAIN requests[c] = 1 .. Len(requests[c])
           /\ Current(c) \in Requests /\ Current(c) \in Request /\ Current(c).type \in Types
           /\ Current(c).room \in Rooms
           /\ <<c, Len(requests[c])>> \in Asked
<1>1. requests[c] \in Seq(Requests)
  BY DEF GTypeOK
<1>2. /\ Len(requests[c]) \in Nat \ {0} /\ DOMAIN requests[c] = 1 .. Len(requests[c])
      /\ \A i \in 1 .. Len(requests[c]) : requests[c][i] \in Requests
  BY <1>1, Entries
<1>3. Current(c) \in Requests
  BY <1>2 DEF Current
<1>4. QED
  BY <1>2, <1>3, RequestsAssumption, AskedBy DEF Request

(* Requests and messages are added, never taken back. *)
RequestsGrow ==
    \A c \in Conns : \A n \in DOMAIN requests[c] :
        n \in DOMAIN requests'[c] /\ requests'[c][n] = requests[c][n]

ReceivedGrows ==
    \A c \in Conns : \A i \in DOMAIN received[c] :
        i \in DOMAIN received'[c] /\ received'[c][i] = received[c][i]

LEMMA Takes ==
    ASSUME GTypeOK, NEW c \in Conns, NEW q \in Requests, Take(c, q)
    PROVE  /\ requests' \in [Conns -> Seq(Requests)] /\ Grown(requests[c], q, requests'[c])
           /\ outcome'[c] \in Seq({"nothing", "enrolled", "refused", "dismissed",
                                   "moved", "ignored", "left"})
           /\ Grown(outcome[c], "nothing", outcome'[c])
           /\ \A d \in Conns \ {c} : requests'[d] = requests[d] /\ outcome'[d] = outcome[d]
           /\ RequestsGrow
<1> DEFINE O == {"nothing", "enrolled", "refused", "dismissed", "moved", "ignored", "left"}
<1>1. /\ requests \in [Conns -> Seq(Requests)] /\ outcome \in [Conns -> Seq(O)]
      /\ requests[c] \in Seq(Requests) /\ outcome[c] \in Seq(O) /\ "nothing" \in O
      /\ requests' = [requests EXCEPT ![c] = Append(@, q)]
      /\ outcome' = [outcome EXCEPT ![c] = Append(@, "nothing")]
  BY DEF GTypeOK, Take
<1> HIDE DEF O
<1>2. /\ Append(requests[c], q) \in Seq(Requests)
      /\ Grown(requests[c], q, Append(requests[c], q))
  BY <1>1, Growth
<1>3. /\ Append(outcome[c], "nothing") \in Seq(O)
      /\ Grown(outcome[c], "nothing", Append(outcome[c], "nothing"))
  BY <1>1, Growth
<1>4. /\ requests'[c] = Append(requests[c], q) /\ outcome'[c] = Append(outcome[c], "nothing")
      /\ \A d \in Conns \ {c} : requests'[d] = requests[d] /\ outcome'[d] = outcome[d]
  BY <1>1
<1>5. requests' \in [Conns -> Seq(Requests)]
  BY <1>1, <1>2
<1>6. RequestsGrow
  <2>1. Len(requests[c]) \in Nat /\ DOMAIN requests[c] = 1 .. Len(requests[c])
    BY <1>1, Entries
  <2>2. \A n \in DOMAIN requests[c] :
           n \in DOMAIN requests'[c] /\ requests'[c][n] = requests[c][n]
    BY <1>2, <1>4, <2>1 DEF Grown
  <2>3. QED
    BY <1>4, <2>2 DEF RequestsGrow
<1>7. QED
  BY <1>2, <1>3, <1>4, <1>5, <1>6 DEF O

(* A message is added to what c has received. *)
LEMMA Hears ==
    ASSUME GTypeOK, NEW c \in Conns,
           NEW m \in [kind : {"beat", "answer", "refusal", "push"}, of : Asked], Hear(c, m)
    PROVE  /\ received' \in [Conns -> Seq([kind : {"beat", "answer", "refusal", "push"}, of : Asked])]
           /\ Grown(received[c], m, received'[c])
           /\ \A d \in Conns \ {c} : received'[d] = received[d]
           /\ ReceivedGrows
           /\ Len(received[c]) \in Nat /\ DOMAIN received[c] = 1 .. Len(received[c])
<1> DEFINE M == [kind : {"beat", "answer", "refusal", "push"}, of : Asked]
<1>1. /\ received \in [Conns -> Seq(M)] /\ received[c] \in Seq(M)
      /\ received' = [received EXCEPT ![c] = Append(@, m)] /\ m \in M
  BY DEF GTypeOK, Hear
<1> HIDE DEF M
<1>2. Append(received[c], m) \in Seq(M) /\ Grown(received[c], m, Append(received[c], m))
  BY <1>1, Growth
<1>3. /\ received'[c] = Append(received[c], m)
      /\ \A d \in Conns \ {c} : received'[d] = received[d]
      /\ received' \in [Conns -> Seq(M)]
  BY <1>1, <1>2
<1>4. Len(received[c]) \in Nat /\ DOMAIN received[c] = 1 .. Len(received[c])
  BY <1>1, Entries
<1>5. ReceivedGrows
  <2>1. \A i \in DOMAIN received[c] :
           i \in DOMAIN received'[c] /\ received'[c][i] = received[c][i]
    BY <1>2, <1>3, <1>4 DEF Grown
  <2>2. QED
    BY <1>3, <2>1 DEF ReceivedGrows
<1>6. QED
  BY <1>2, <1>3, <1>4, <1>5 DEF M

-----------------------------------------------------------------------------
(* The steps of the handlers, by what they do to the rest of the state *)

Outcomes == {"nothing", "enrolled", "refused", "dismissed", "moved", "ignored", "left"}

AnswerKinds == {"beat", "answer", "refusal"}

(* All is well, or a Logger was called that is not set. *)
Logged == panic' = panic \/ (panic' = "nil logger" /\ ~HasLogger)

LEMMA LogIsLogged ==
    /\ Log \/ UNCHANGED panic => Logged
    /\ \A p, left : LogIfLast(p, left) => Logged
    /\ \A c : Unregister(c) => Logged
BY LoggerAssumption DEF Log, Logged, LogIfLast, Unregister

(* c's handler changes its session; rest is then left to do. *)
SessionStep(c, what, rest) ==
    /\ ~panicked /\ requests[c] # <<>> /\ Pending(c)
    /\ outcome[c][Len(requests[c])] = "nothing"
    /\ what \in Outcomes \ {"nothing"}
    /\ outcome' = [outcome EXCEPT ![c][Len(requests[c])] = what]
    /\ rest \in Remaining(Current(c).type) /\ rest # <<"push">>
    /\ Head(rest) \in {"answer", "refuse"}
    /\ todo' = [todo EXCEPT ![c] = rest]
    /\ Elsewhere(c)
    /\ what = "enrolled" => c \in Present' /\ sessions'[c].room = NoRoom
    /\ what = "dismissed" => c \notin Present'
    /\ what = "moved" => c \in Present /\ c \in Present' /\ sessions'[c].room = Current(c).room
    /\ what = "left" => /\ c \in Present <=> c \in Present'
                        /\ c \in Present => sessions'[c].room = NoRoom
    /\ what \in {"refused", "ignored"} => sessions' = sessions
    /\ what = "ignored" => c \notin Present
    /\ [DirectoryNext]_directory
    /\ \A d \in Known' : d \in Known \/ (d = c /\ what = "enrolled")
    /\ Logged
    /\ UNCHANGED <<format, reader, requests, received, outside, closed>>

(* c's handler answers the request it is at. *)
ReplyStep(c, kind) ==
    /\ ~panicked /\ requests[c] # <<>> /\ Pending(c)
    /\ kind \in AnswerKinds /\ (Current(c).type \in Movers => kind = "answer")
    /\ Hear(c, [kind |-> kind, of |-> <<c, Len(requests[c])>>])
    /\ todo' = [todo EXCEPT ![c] = Tail(@)]
    /\ Tail(todo[c]) \in {<<>>, <<"push">>}
    /\ Tail(todo[c]) \in {<<>>} \cup Remaining(Current(c).type)
    /\ UNCHANGED <<directory, format, reader, requests, outcome, outside, closed, panic>>

(* c's answer cannot be made, or not be written. *)
FailStep(c) ==
    /\ ~panicked /\ requests[c] # <<>> /\ todo[c] # <<>>
    /\ panic' = "error reply"
    /\ format = "json" => c \in gone \cup closed
    /\ UNCHANGED <<directory, format, reader, todo, requests, outcome, received, outside, closed>>

(* c's handler broadcasts; todo[c] is what it has done then. *)
PushStep(c) ==
    /\ ~panicked /\ requests[c] # <<>> /\ todo[c] # <<>> /\ Head(todo[c]) = "push"
    /\ \/ Current(c).type \in Movers /\ todo[c] = <<"push">> /\ Tail(todo[c]) = <<>>
       \/ Current(c).type \in Chats /\ Pending(c) /\ Tail(todo[c]) = <<"answer">>
    /\ Tail(todo[c]) \in {<<>>} \cup Remaining(Current(c).type)
    /\ todo' = [todo EXCEPT ![c] = Tail(@)]
    /\ waiting' = waiting \/ waiting' = waiting \cup {<<c, Len(requests[c])>>}
    /\ Logged
    /\ UNCHANGED <<directory, format, reader, requests, outcome, received, sending, gone,
                   closed>>

(* c's handler logs, and will answer. *)
LogStep(c) ==
    /\ ~panicked /\ requests[c] # <<>> /\ Pending(c)
    /\ Current(c).type = "game action"
    /\ <<"answer">> \in Remaining(Current(c).type)
    /\ todo' = [todo EXCEPT ![c] = <<"answer">>]
    /\ Logged
    /\ UNCHANGED <<directory, format, reader, requests, outcome, received, outside, closed>>

(* What is known where a handler's step begins. *)
LEMMA AtStepFacts ==
    ASSUME GTypeOK, NEW c \in Conns, InStep(c), NEW s, AtStep(c, s)
    PROVE  /\ ~panicked /\ requests[c] # <<>> /\ todo[c] # <<>> /\ Head(todo[c]) = s
           /\ Current(c).type \in Types /\ todo[c] \in Remaining(Current(c).type)
           /\ Tail(todo[c]) \in {<<>>} \cup Remaining(Current(c).type)
           /\ s # "push" => Pending(c)
           /\ s \in {"enroll", "dismiss", "move", "leave"} =>
                 outcome[c][Len(requests[c])] = "nothing"
<1>1. /\ ~panicked /\ requests[c] # <<>> /\ todo[c] # <<>> /\ Head(todo[c]) = s
      /\ todo[c] \in Remaining(Current(c).type)
  BY DEF AtStep, InStep
<1>2. Current(c).type \in Types
  BY <1>1, CurrentIs
<1>3. Tail(todo[c]) \in {<<>>} \cup Remaining(Current(c).type)
  BY <1>1, <1>2, RemainingFacts
<1>4. s # "push" => Pending(c)
  BY <1>1, Rests DEF Pending
<1>5. QED
  BY <1>1, <1>2, <1>3, <1>4 DEF InStep

LEMMA SessionSteps ==
    ASSUME GTypeOK, NEW c \in Conns, InStep(c),
           Login(c) \/ Logout(c) \/ Join(c) \/ LeaveRoom(c)
    PROVE  \E what, rest : SessionStep(c, what, rest)
<1>0. DirectoryOK /\ todo[c] \in Seq(StepNames)
  BY DEF GTypeOK, StepNames
<1>1. /\ Head(<<"answer">>) = "answer" /\ Head(<<"refuse">>) = "refuse"
      /\ Head(<<"answer", "push">>) = "answer"
      /\ <<"answer">> # <<"push">> /\ <<"refuse">> # <<"push">> /\ <<"answer", "push">> # <<"push">>
  BY Rests
<1>u. Unregister(c) => [DirectoryNext]_directory /\ Known' \subseteq Known
  BY <1>0, KnownByLogin DEF Unregister, DirectoryNext, Known, Present
<1>k. UNCHANGED directory => Known' = Known /\ Elsewhere(c)
  BY DEF Known, Elsewhere, Present
<1>2. CASE Login(c)
  <2>1. /\ ~panicked /\ requests[c] # <<>> /\ Pending(c)
        /\ outcome[c][Len(requests[c])] = "nothing"
        /\ Current(c).type = "login" /\ Tail(todo[c]) = <<"answer">>
        /\ {<<"answer">>, <<"refuse">>} \subseteq Remaining(Current(c).type)
    <3>1. AtStep(c, "enroll")
      BY <1>2 DEF Login
    <3>2. Current(c).type = "login" /\ Tail(todo[c]) = <<"answer">>
      BY <3>1, AtStepFacts, RemainingFacts
    <3>3. {<<"answer">>, <<"refuse">>} \subseteq Remaining("login")
      BY DEF Remaining, Chats
    <3>4. QED
      BY <3>1, <3>2, <3>3, AtStepFacts
  <2>2. CASE Enroll(c, LoginUser) /\ Advance(c) /\ Did(c, "enrolled")
    <3>1. c \in Present' /\ sessions'[c].room = NoRoom /\ Elsewhere(c)
      BY <2>2, Enrolls
    <3>2. DirectoryNext /\ \A d \in Known' : d \in Known \/ d = c
      BY <1>0, <2>2, UsersAssumption, KnownByLogin DEF DirectoryNext
    <3>3. SessionStep(c, "enrolled", <<"answer">>)
      BY <1>1, <1>2, <2>1, <2>2, <3>1, <3>2, LogIsLogged
      DEF SessionStep, Login, Advance, Did, Outcomes
    <3>4. QED
      BY <3>3
  <2>3. CASE todo' = [todo EXCEPT ![c] = <<"refuse">>] /\ Did(c, "refused") /\ UNCHANGED directory
    <3>1. Elsewhere(c) /\ Known' = Known
      BY <1>k, <2>3
    <3>2. SessionStep(c, "refused", <<"refuse">>)
      BY <1>1, <1>2, <2>1, <2>3, <3>1, LogIsLogged DEF SessionStep, Login, Did, Outcomes
    <3>3. QED
      BY <3>2
  <2>4. QED
    BY <1>2, <2>2, <2>3 DEF Login
<1>3. CASE Logout(c)
  <2>1. AtStep(c, "dismiss") /\ Unregister(c) /\ Did(c, "dismissed") /\ Advance(c)
    BY <1>3 DEF Logout
  <2>a. /\ ~panicked /\ requests[c] # <<>> /\ Pending(c)
        /\ outcome[c][Len(requests[c])] = "nothing"
    BY <2>1, AtStepFacts
  <2>2. Current(c).type = "logout" /\ Tail(todo[c]) = <<"answer">>
    BY <2>1, AtStepFacts, RemainingFacts
  <2>3. <<"answer">> \in Remaining(Current(c).type)
    BY <2>2 DEF Remaining, Chats
  <2>4. c \notin Present' /\ Elsewhere(c)
    BY <2>1, Unregisters
  <2>5. SessionStep(c, "dismissed", <<"answer">>)
    BY <1>1, <1>3, <1>u, <2>1, <2>a, <2>2, <2>3, <2>4, LogIsLogged
    DEF SessionStep, Logout, Did, Advance, Outcomes
  <2>6. QED
    BY <2>5
<1>4. CASE Join(c)
  <2>1. AtStep(c, "move") /\ Advance(c)
    BY <1>4 DEF Join
  <2>a. /\ ~panicked /\ requests[c] # <<>> /\ Pending(c)
        /\ outcome[c][Len(requests[c])] = "nothing"
    BY <2>1, AtStepFacts
  <2>2. Current(c).type = "join" /\ Tail(todo[c]) = <<"answer", "push">>
    BY <2>1, AtStepFacts, RemainingFacts
  <2>3. <<"answer", "push">> \in Remaining(Current(c).type)
    BY <2>2 DEF Remaining, Chats
  <2>4. Current(c).room \in Rooms
    BY <2>1, AtStepFacts, CurrentIs
  <2>5. CASE Move(c, Current(c).room) /\ Did(c, "moved") /\ Log
    <3>1. /\ c \in Present /\ c \in Present' /\ sessions'[c].room = Current(c).room
          /\ Elsewhere(c) /\ DirectoryNext /\ Known' \subseteq Known
      BY <1>0, <2>4, <2>5, Moves, KnownByLogin DEF DirectoryNext
    <3>2. SessionStep(c, "moved", <<"answer", "push">>)
      BY <1>1, <1>4, <2>1, <2>a, <2>2, <2>3, <2>5, <3>1, LogIsLogged
      DEF SessionStep, Join, Did, Advance, Outcomes
    <3>3. QED
      BY <3>2
  <2>6. CASE c \notin Present /\ Did(c, "ignored") /\ UNCHANGED <<directory, panic>>
    <3>1. Elsewhere(c) /\ Known' = Known
      BY <1>k, <2>6
    <3>2. SessionStep(c, "ignored", <<"answer", "push">>)
      BY <1>1, <1>4, <2>1, <2>a, <2>2, <2>3, <2>6, <3>1, LogIsLogged
      DEF SessionStep, Join, Did, Advance, Outcomes
    <3>3. QED
      BY <3>2
  <2>7. QED
    BY <1>4, <2>5, <2>6 DEF Join
<1>5. CASE LeaveRoom(c)
  <2>1. AtStep(c, "leave") /\ Advance(c) /\ Did(c, "left")
    BY <1>5 DEF LeaveRoom
  <2>a. /\ ~panicked /\ requests[c] # <<>> /\ Pending(c)
        /\ outcome[c][Len(requests[c])] = "nothing"
    BY <2>1, AtStepFacts
  <2>2. Current(c).type = "leave" /\ Tail(todo[c]) = <<"answer", "push">>
    BY <2>1, AtStepFacts, RemainingFacts
  <2>3. <<"answer", "push">> \in Remaining(Current(c).type)
    BY <2>2 DEF Remaining, Chats
  <2>4. /\ c \in Present <=> c \in Present'
        /\ c \in Present => sessions'[c].room = NoRoom
        /\ Elsewhere(c) /\ [DirectoryNext]_directory /\ Known' \subseteq Known
    <3>1. CASE Quit(c)
      BY <1>0, <3>1, Quits, KnownByLogin DEF DirectoryNext
    <3>2. CASE UNCHANGED directory /\ (c \in Present => sessions[c].room = NoRoom)
      BY <1>k, <3>2 DEF Present
    <3>3. QED
      BY <1>5, <3>1, <3>2 DEF LeaveRoom
  <2>5. SessionStep(c, "left", <<"answer", "push">>)
    BY <1>1, <1>5, <2>1, <2>a, <2>2, <2>3, <2>4, LogIsLogged
    DEF SessionStep, LeaveRoom, Did, Advance, Outcomes
  <2>6. QED
    BY <2>5
<1>6. QED
  BY <1>2, <1>3, <1>4, <1>5

LEMMA ReplySteps ==
    ASSUME GTypeOK, NEW c \in Conns, InStep(c), Answer(c) \/ Refuse(c) \/ Heartbeat(c)
    PROVE  FailStep(c) \/ \E kind : ReplyStep(c, kind)
<1> DEFINE frame == <<directory, format, reader, requests, outcome, outside, closed>>
<1>1. ASSUME NEW s \in {"answer", "refuse", "beat"}, NEW kind \in AnswerKinds, AtStep(c, s),
             UNCHANGED frame, Reply(c, kind), s = "answer" => kind = "answer"
      PROVE  FailStep(c) \/ ReplyStep(c, kind)
  <2>1. /\ ~panicked /\ requests[c] # <<>> /\ todo[c] # <<>> /\ Pending(c)
        /\ Tail(todo[c]) \in {<<>>, <<"push">>}
        /\ Tail(todo[c]) \in {<<>>} \cup Remaining(Current(c).type)
        /\ Current(c).type \in Movers => s = "answer"
    <3>1. Pending(c) /\ Head(todo[c]) = s /\ todo[c] \in Remaining(Current(c).type)
          /\ Current(c).type \in Types
      BY <1>1, AtStepFacts
    <3>2. /\ Tail(todo[c]) \in {<<>>, <<"push">>}
          /\ Current(c).type \in Movers => s = "answer"
      BY <3>1, RemainingFacts DEF Movers
    <3>3. QED
      BY <1>1, <3>1, <3>2, AtStepFacts
  <2>2. CASE MayMiss(c) /\ Fail /\ UNCHANGED <<received, todo>>
    BY <1>1, <2>1, <2>2 DEF FailStep, MayMiss, Fail
  <2>3. CASE /\ Hear(c, [kind |-> kind, of |-> <<c, Len(requests[c])>>])
             /\ Advance(c) /\ UNCHANGED panic
    BY <1>1, <2>1, <2>3 DEF ReplyStep, Advance
  <2>4. QED
    BY <1>1, <2>2, <2>3 DEF Reply
<1>2. CASE Answer(c)
  <2>1. AtStep(c, "answer") /\ UNCHANGED frame
    BY <1>2 DEF Answer
  <2>2. CASE Answerable(Current(c))
    BY <1>1, <1>2, <2>1, <2>2 DEF Answer, AnswerKinds
  <2>3. CASE ~Answerable(Current(c))
    <3>1. format # "json"
      BY <2>3 DEF Answerable
    <3>2. panic' = "error reply" /\ UNCHANGED <<received, todo>>
      BY <1>2, <2>3 DEF Answer, Fail
    <3>3. FailStep(c)
      BY <2>1, <3>1, <3>2, AtStepFacts DEF FailStep
    <3>4. QED
      BY <3>3
  <2>4. QED
    BY <2>2, <2>3
<1>3. CASE Refuse(c)
  BY <1>1, <1>3 DEF Refuse, AnswerKinds
<1>4. CASE Heartbeat(c)
  BY <1>1, <1>4 DEF Heartbeat, AnswerKinds
<1>5. QED
  BY <1>2, <1>3, <1>4

LEMMA PushSteps ==
    ASSUME GTypeOK, NEW c \in Conns, InStep(c), Push(c)
    PROVE  PushStep(c)
<1>1. AtStep(c, "push")
  BY DEF Push
<1>2. /\ Head(todo[c]) = "push" /\ todo[c] \in Remaining(Current(c).type)
      /\ Current(c).type \in Types
  BY <1>1, AtStepFacts
<1>3. \/ Current(c).type \in Movers /\ todo[c] = <<"push">> /\ Tail(todo[c]) = <<>>
      \/ /\ Current(c).type \in Chats /\ todo[c] = <<"push", "answer">>
         /\ Tail(todo[c]) = <<"answer">>
  BY <1>2, RemainingFacts
<1>4. <<"push", "answer">> \notin {<<>>, <<"push">>}
  OBVIOUS
<1>5. QED
  BY <1>1, <1>2, <1>3, <1>4, AtStepFacts, LogIsLogged DEF PushStep, Push, Advance, Pending

LEMMA LogSteps ==
    ASSUME GTypeOK, NEW c \in Conns, InStep(c), GameAction(c)
    PROVE  LogStep(c)
<1>1. AtStep(c, "log")
  BY DEF GameAction
<1>2. /\ ~panicked /\ requests[c] # <<>> /\ Pending(c)
      /\ Current(c).type = "game action" /\ Tail(todo[c]) = <<"answer">>
  BY <1>1, AtStepFacts, RemainingFacts
<1>3. <<"answer">> \in Remaining(Current(c).type)
  BY <1>2 DEF Remaining, Chats
<1>4. QED
  BY <1>2, <1>3, LogIsLogged DEF LogStep, GameAction, Advance

(* A reader fails, a connection is swept, or the deferred clean-up runs. *)
EndStep(c) ==
    /\ ~panicked
    /\ closed' = closed \cup {c}
    /\ Elsewhere(c) /\ [DirectoryNext]_directory /\ Known' \subseteq Known
    /\ reader' = reader \/ \E r \in {"failed", "done"} : reader' = [reader EXCEPT ![c] = r]
    /\ Logged
    /\ UNCHANGED <<format, todo, requests, outcome, received, outside>>

LEMMA EndSteps ==
    ASSUME GTypeOK, NEW c \in Conns, InStep(c), ReadFails(c) \/ ReaderExit(c) \/ Sweep(c)
    PROVE  EndStep(c)
<1>1. /\ ~panicked /\ UNCHANGED <<format, todo, requests, outcome, received, outside>>
      /\ reader' = reader \/ \E r \in {"failed", "done"} : reader' = [reader EXCEPT ![c] = r]
      /\ Logged
  BY LogIsLogged DEF ReadFails, ReaderExit, Sweep
<1>2. closed' = closed \cup {c}
  BY DEF ReadFails, ReaderExit, Sweep, InStep
<1>3. Elsewhere(c) /\ [DirectoryNext]_directory /\ Known' \subseteq Known
  <2>1. CASE UNCHANGED directory
    BY <2>1 DEF Elsewhere, Known, Present
  <2>2. CASE Dismiss(c)
    BY <2>2, Unregisters, KnownByLogin DEF DirectoryNext, GTypeOK
  <2>3. QED
    BY <2>1, <2>2 DEF ReadFails, ReaderExit, Sweep, Unregister
<1>4. QED
  BY <1>1, <1>2, <1>3 DEF EndStep

(* Every step is one of these. *)
LEMMA Shapes ==
    ASSUME GTypeOK, ReadersOK, [GNext]_gvars
    PROVE  \/ \E c \in Conns : \/ \E q \in Requests : Take(c, q)
                               \/ \E what, rest : SessionStep(c, what, rest)
                               \/ \E kind : ReplyStep(c, kind)
                               \/ FailStep(c) \/ PushStep(c) \/ LogStep(c) \/ EndStep(c)
                               \/ Vanish(c) \/ Clash(c)
           \/ \E p \in waiting : LookUp(p)
           \/ \E w \in sending : Deliver(w)
           \/ UNCHANGED gvars
BY SessionSteps, ReplySteps, PushSteps, LogSteps, EndSteps DEF GNext, Handle, ReadersOK

-----------------------------------------------------------------------------
(* Types *)

(* What a handler notes of its request. *)
LEMMA Notes ==
    ASSUME GTypeOK, NEW c \in Conns, InStep(c), NEW what, NEW rest, SessionStep(c, what, rest)
    PROVE  LET n == Len(requests[c])
           IN  /\ outcome' \in [Conns -> Seq(Outcomes)]
               /\ n \in Nat \ {0} /\ DOMAIN outcome[c] = 1 .. n /\ DOMAIN outcome'[c] = 1 .. n
               /\ Len(outcome'[c]) = n /\ outcome'[c][n] = what
               /\ \A i \in 1 .. n : i # n => outcome'[c][i] = outcome[c][i]
               /\ \A d \in Conns \ {c} : outcome'[d] = outcome[d]
<1> DEFINE n == Len(requests[c])
<1>1. outcome \in [Conns -> Seq(Outcomes)] /\ outcome[c] \in Seq(Outcomes)
  BY DEF GTypeOK, Outcomes
<1>2. /\ n \in Nat \ {0} /\ Len(outcome[c]) = n /\ what \in Outcomes
      /\ outcome' = [outcome EXCEPT ![c][n] = what]
  BY CurrentIs DEF SessionStep, InStep
<1> HIDE DEF n
<1>3. n \in 1 .. Len(outcome[c]) /\ DOMAIN outcome[c] = 1 .. n
  BY <1>1, <1>2, Entries
<1>4. /\ [outcome[c] EXCEPT ![n] = what] \in Seq(Outcomes)
      /\ Len([outcome[c] EXCEPT ![n] = what]) = Len(outcome[c])
      /\ \A j \in 1 .. Len(outcome[c]) :
            [outcome[c] EXCEPT ![n] = what][j] = IF j = n THEN what ELSE outcome[c][j]
  BY <1>1, <1>2, <1>3, ExceptSeq
<1>5. DOMAIN [outcome[c] EXCEPT ![n] = what] = 1 .. n
  BY <1>3
<1>6. /\ outcome'[c] = [outcome[c] EXCEPT ![n] = what]
      /\ \A d \in Conns \ {c} : outcome'[d] = outcome[d]
      /\ outcome' = [outcome EXCEPT ![c] = [outcome[c] EXCEPT ![n] = what]]
  BY <1>1, <1>2
<1>7. outcome' \in [Conns -> Seq(Outcomes)]
  BY <1>1, <1>4, <1>6
<1>8. QED
  BY <1>2, <1>3, <1>4, <1>5, <1>6, <1>7 DEF n

LEMMA AskedGrows ==
    ASSUME RequestsGrow
    PROVE  Asked \subseteq Asked'
BY DEF RequestsGrow, Asked

MessagesOf(P) == [kind : {"beat", "answer", "refusal", "push"}, of : P]

LEMMA MessagesKept ==
    ASSUME NEW P, NEW Q, P \subseteq Q, NEW f \in [Conns -> Seq(MessagesOf(P))]
    PROVE  f \in [Conns -> Seq(MessagesOf(Q))]
<1>1. MessagesOf(P) \subseteq MessagesOf(Q)
  BY DEF MessagesOf
<1>2. \A c \in Conns : f[c] \in Seq(MessagesOf(Q))
  BY <1>1, SeqMonotonic
<1>3. QED
  BY <1>2

LEMMA GTypeInit == GInit => GTypeOK
<1> SUFFICES ASSUME GInit PROVE GTypeOK
  OBVIOUS
<1>1. DirectoryOK
  BY DirectoryTypeInit DEF GInit
<1>2. \A S : <<>> \in Seq(S)
  BY EmptySeq
<1>3. QED
  BY <1>1, <1>2 DEF GInit, GTypeOK

(* The addressees of a push are connections that are known. *)
LEMMA Addressees ==
    ASSUME DirectoryOK, NEW q \in Request, q.type \in Pushers, NEW a, a = Address(q)
    PROVE  Found(a.kind, a.to) \subseteq Conns /\ Found(a.kind, a.to) \subseteq Known
<1>1. q.room \in Rooms /\ q.to \in Users
  BY DEF Request
<1>2. /\ a.kind \in {"room", "all", "user"}
      /\ a.kind = "room" => a.to \in Rooms
      /\ a.kind = "user" => a.to \in Users
  BY <1>1, NoRoomAssumption DEF Address, Pushers, Movers, Chats
<1>3. Found(a.kind, a.to) \subseteq Conns
  BY <1>2, FoundAreConns
<1>4. QED
  BY <1>2, <1>3 DEF Found, Known

(* What a worker has to send after a lookup. *)
LEMMA LooksUp ==
    ASSUME GTypeOK, PushesOK, NEW p \in waiting, LookUp(p)
    PROVE  /\ \A w \in sending' : w \in sending \/ (w.push = p /\ w.to \in Known)
           /\ sending' \subseteq [push : Asked, to : Conns]
<1>1. DirectoryOK /\ p \in Asked /\ sending \subseteq [push : Asked, to : Conns]
  BY DEF GTypeOK
<1>2. PICK q : q = requests[p[1]][p[2]]
  OBVIOUS
<1>3. q \in Request
  <2>1. p[1] \in Conns /\ p[2] \in DOMAIN requests[p[1]]
    BY <1>1, AskedBy
  <2>2. requests[p[1]] \in Seq(Requests)
    BY <2>1 DEF GTypeOK
  <2>3. q \in Requests
    BY <1>2, <2>1, <2>2, Entries
  <2>4. QED
    BY <2>3, RequestsAssumption
<1>4. q.type \in Pushers
  BY <1>2 DEF PushesOK
<1>5. PICK a : a = Address(q)
  OBVIOUS
<1>6. PICK found : found = Found(a.kind, a.to) \ SessionsOf(a.exclude)
  OBVIOUS
<1>7. found \subseteq Conns /\ found \subseteq Known
  BY <1>1, <1>3, <1>4, <1>5, <1>6, Addressees
<1>8. sending' = sending \cup {[push |-> p, to |-> d] : d \in found}
  BY <1>2, <1>5, <1>6 DEF LookUp
<1>9. QED
  BY <1>1, <1>7, <1>8

PanicKinds == {"none", "nil logger", "error reply", "concurrent write"}

LEMMA GTypeStep == GTypeOK /\ ReadersOK /\ PushesOK /\ [GNext]_gvars => GTypeOK'
<1> SUFFICES ASSUME GTypeOK, ReadersOK, PushesOK, [GNext]_gvars
             PROVE  GTypeOK'
  OBVIOUS
<1>0. /\ DirectoryOK /\ format \in {"json", "proto"}
      /\ reader \in [Conns -> {"reading", "failed", "done"}]
      /\ todo \in [Conns -> Seq(StepNames)]
      /\ requests \in [Conns -> Seq(Requests)]
      /\ outcome \in [Conns -> Seq(Outcomes)]
      /\ received \in [Conns -> Seq(MessagesOf(Asked))]
      /\ waiting \subseteq Asked /\ sending \subseteq [push : Asked, to : Conns]
      /\ gone \subseteq Conns /\ closed \subseteq Conns /\ panic \in PanicKinds
  BY DEF GTypeOK, StepNames, Outcomes, MessagesOf, PanicKinds
<1>l. Logged \/ UNCHANGED panic \/ panic' = "error reply" \/ panic' = "concurrent write"
         => panic' \in PanicKinds
  BY <1>0 DEF Logged, PanicKinds
<1>d. [DirectoryNext]_directory => DirectoryOK'
  BY <1>0, DirectoryTypeStep
(* What has to be shown, with the abbreviations. *)
<1>q. ASSUME /\ DirectoryOK' /\ format' \in {"json", "proto"}
             /\ reader' \in [Conns -> {"reading", "failed", "done"}]
             /\ todo' \in [Conns -> Seq(StepNames)]
             /\ requests' \in [Conns -> Seq(Requests)]
             /\ outcome' \in [Conns -> Seq(Outcomes)]
             /\ received' \in [Conns -> Seq(MessagesOf(Asked'))]
             /\ waiting' \subseteq Asked' /\ sending' \subseteq [push : Asked', to : Conns]
             /\ gone' \subseteq Conns /\ closed' \subseteq Conns /\ panic' \in PanicKinds
      PROVE  GTypeOK'
  BY <1>q DEF GTypeOK, StepNames, Outcomes, MessagesOf, PanicKinds
<1>a. requests' = requests => Asked' = Asked
  BY DEF Asked
<1>1. ASSUME NEW c \in Conns, NEW q \in Requests, Take(c, q) PROVE GTypeOK'
  <2>1. /\ requests' \in [Conns -> Seq(Requests)]
        /\ outcome'[c] \in Seq(Outcomes)
        /\ \A d \in Conns \ {c} : outcome'[d] = outcome[d]
        /\ Asked \subseteq Asked'
    BY <1>1, Takes, AskedGrows DEF Outcomes
  <2>2. outcome' \in [Conns -> Seq(Outcomes)]
    <3>1. \A d \in Conns : outcome'[d] \in Seq(Outcomes)
      BY <1>0, <2>1
    <3>2. \E e : outcome' = [outcome EXCEPT ![c] = e]
      BY <1>1 DEF Take
    <3>3. QED
      BY <1>0, <3>1, <3>2
  <2>3. received' \in [Conns -> Seq(MessagesOf(Asked'))]
    BY <1>0, <1>1, <2>1, MessagesKept DEF Take
  <2>4. todo' \in [Conns -> Seq(StepNames)] /\ panic' \in PanicKinds
    <3>1. CASE Readable(q) /\ todo' = [todo EXCEPT ![c] = Steps(q)] /\ UNCHANGED panic
      <4>1. Steps(q) \in Seq(StepNames)
        BY <3>1, StepsRemain, RemainingType, RequestsAssumption DEF Readable
      <4>2. QED
        BY <1>0, <3>1, <4>1
    <3>2. CASE FailToRead(q) /\ UNCHANGED todo
      BY <1>0, <3>2 DEF FailToRead, PanicKinds
    <3>3. QED
      BY <1>1, <3>1, <3>2 DEF Take
  <2>5. /\ UNCHANGED <<format, reader, waiting, sending, gone, closed>>
        /\ [DirectoryNext]_directory
    BY <1>1 DEF Take, outside
  <2>6. waiting' \subseteq Asked' /\ sending' \subseteq [push : Asked', to : Conns]
    BY <1>0, <2>1, <2>5
  <2>7. QED
    BY <1>0, <1>d, <1>q, <2>1, <2>2, <2>3, <2>4, <2>5, <2>6
<1>2. ASSUME NEW c \in Conns, NEW what, NEW rest, SessionStep(c, what, rest) PROVE GTypeOK'
  <2>1. outcome' \in [Conns -> Seq(Outcomes)]
    BY <1>2, Notes DEF ReadersOK
  <2>2. todo' \in [Conns -> Seq(StepNames)]
    <3>1. rest \in Seq(StepNames) /\ todo' = [todo EXCEPT ![c] = rest]
      BY <1>2, RemainingType DEF SessionStep
    <3>2. QED
      BY <1>0, <3>1
  <2>3. QED
    BY <1>0, <1>2, <1>a, <1>d, <1>l, <1>q, <2>1, <2>2 DEF SessionStep, outside
<1>3. ASSUME NEW c \in Conns, NEW kind, ReplyStep(c, kind) PROVE GTypeOK'
  <2>1. received' \in [Conns -> Seq(MessagesOf(Asked))]
    <3>1. <<c, Len(requests[c])>> \in Asked
      BY <1>3, CurrentIs DEF ReplyStep
    <3>2. [kind |-> kind, of |-> <<c, Len(requests[c])>>] \in MessagesOf(Asked)
      BY <1>3, <3>1 DEF ReplyStep, AnswerKinds, MessagesOf
    <3>3. QED
      BY <1>3, <3>2, Hears DEF ReplyStep, MessagesOf
  <2>2. todo' \in [Conns -> Seq(StepNames)]
    <3>1. Tail(todo[c]) \in Seq(StepNames) /\ todo' = [todo EXCEPT ![c] = Tail(todo[c])]
      BY <1>3, RemainingType, EmptySeq DEF ReplyStep
    <3>2. QED
      BY <1>0, <3>1
  <2>3. QED
    BY <1>0, <1>3, <1>a, <1>d, <1>l, <1>q, <2>1, <2>2 DEF ReplyStep, outside
<1>4. ASSUME NEW c \in Conns, FailStep(c) \/ Clash(c) PROVE GTypeOK'
  BY <1>0, <1>4, <1>a, <1>d, <1>l, <1>q DEF FailStep, Clash, outside
<1>5. ASSUME NEW c \in Conns, PushStep(c) PROVE GTypeOK'
  <2>1. todo' \in [Conns -> Seq(StepNames)]
    <3>1. Tail(todo[c]) \in Seq(StepNames) /\ todo' = [todo EXCEPT ![c] = Tail(todo[c])]
      BY <1>5, RemainingType, EmptySeq DEF PushStep
    <3>2. QED
      BY <1>0, <3>1
  <2>2. waiting' \subseteq Asked
    BY <1>0, <1>5, CurrentIs DEF PushStep
  <2>3. QED
    BY <1>0, <1>5, <1>a, <1>d, <1>l, <1>q, <2>1, <2>2 DEF PushStep
<1>g. ASSUME NEW c \in Conns, LogStep(c) PROVE GTypeOK'
  <2>1. <<"answer">> \in Seq(StepNames)
    BY <1>g, RemainingType DEF LogStep
  <2>2. todo' \in [Conns -> Seq(StepNames)]
    BY <1>0, <1>g, <2>1 DEF LogStep
  <2>3. QED
    BY <1>0, <1>g, <1>a, <1>d, <1>l, <1>q, <2>2 DEF LogStep, outside
<1>6. ASSUME NEW c \in Conns, EndStep(c) PROVE GTypeOK'
  BY <1>0, <1>6, <1>a, <1>d, <1>l, <1>q DEF EndStep, outside
<1>7. ASSUME NEW c \in Conns, Vanish(c) PROVE GTypeOK'
  BY <1>0, <1>7, <1>a, <1>d, <1>l, <1>q DEF Vanish
<1>8. ASSUME NEW p \in waiting, LookUp(p) PROVE GTypeOK'
  <2>1. sending' \subseteq [push : Asked, to : Conns] /\ waiting' \subseteq Asked
    BY <1>0, <1>8, LooksUp DEF LookUp
  <2>2. panic' \in PanicKinds
    BY <1>8, <1>l, LogIsLogged DEF LookUp
  <2>3. QED
    BY <1>0, <1>8, <1>a, <1>d, <1>q, <2>1, <2>2 DEF LookUp
<1>9. ASSUME NEW w \in sending, Deliver(w) PROVE GTypeOK'
  <2>1. received' \in [Conns -> Seq(MessagesOf(Asked))]
    <3>1. w.to \in Conns /\ [kind |-> "push", of |-> w.push] \in MessagesOf(Asked)
      BY <1>0 DEF MessagesOf
    <3>2. CASE Hear(w.to, [kind |-> "push", of |-> w.push])
      BY <3>1, <3>2, Hears DEF MessagesOf
    <3>3. CASE UNCHANGED received
      BY <1>0, <3>3
    <3>4. QED
      BY <1>9, <3>2, <3>3 DEF Deliver
  <2>2. panic' \in PanicKinds
    BY <1>9, <1>l, LogIsLogged DEF Deliver
  <2>3. QED
    BY <1>0, <1>9, <1>a, <1>d, <1>q, <2>1, <2>2 DEF Deliver
<1>10. CASE UNCHANGED gvars
  BY <1>0, <1>10, <1>a, <1>d, <1>l, <1>q DEF gvars, outside
<1>11. QED
  BY <1>g, <1>1, <1>2, <1>3, <1>4, <1>5, <1>6, <1>7, <1>8, <1>9, <1>10, Shapes

-----------------------------------------------------------------------------
(* Readers stay in step *)

(* Nothing happens to d's requests and messages. *)
Untouched(d) ==
    /\ requests'[d] = requests[d] /\ outcome'[d] = outcome[d]
    /\ todo'[d] = todo[d] /\ received'[d] = received[d]

(* The steps of one connection leave the others alone. *)
LEMMA OthersUntouched ==
    ASSUME GTypeOK, ReadersOK, NEW c \in Conns,
           \/ \E q \in Requests : Take(c, q)
           \/ \E what, rest : SessionStep(c, what, rest)
           \/ \E kind : ReplyStep(c, kind)
           \/ FailStep(c) \/ PushStep(c) \/ LogStep(c) \/ EndStep(c) \/ Vanish(c) \/ Clash(c)
           \/ \E m : Hear(c, m) /\ UNCHANGED <<requests, outcome, todo>>
    PROVE  \A d \in Conns \ {c} : Untouched(d)
<1>0. /\ requests \in [Conns -> Seq(Requests)] /\ outcome \in [Conns -> Seq(Outcomes)]
      /\ todo \in [Conns -> Seq(StepNames)]
      /\ \E M : received \in [Conns -> M]
  BY DEF GTypeOK, Outcomes, StepNames
<1> SUFFICES ASSUME NEW d \in Conns \ {c} PROVE Untouched(d)
  OBVIOUS
<1>1. (\E e : todo' = [todo EXCEPT ![c] = e]) \/ todo' = todo => todo'[d] = todo[d]
  BY <1>0
<1>2. (\E e : received' = [received EXCEPT ![c] = e]) \/ received' = received
         => received'[d] = received[d]
  BY <1>0
<1>3. (\E e : outcome' = [outcome EXCEPT ![c] = e]) \/ outcome' = outcome
         => outcome'[d] = outcome[d]
  BY <1>0
<1>4. (\E e : requests' = [requests EXCEPT ![c] = e]) \/ requests' = requests
         => requests'[d] = requests[d]
  BY <1>0
<1>5. CASE \E q \in Requests : Take(c, q)
  BY <1>1, <1>2, <1>3, <1>4, <1>5 DEF Take, Untouched
<1>6. CASE \E what, rest : SessionStep(c, what, rest)
  BY <1>1, <1>2, <1>4, <1>6, Notes DEF SessionStep, Untouched, ReadersOK
<1>7. CASE \E kind : ReplyStep(c, kind)
  BY <1>1, <1>2, <1>3, <1>4, <1>7 DEF ReplyStep, Hear, Untouched
<1>8. CASE \E m : Hear(c, m) /\ UNCHANGED <<requests, outcome, todo>>
  BY <1>1, <1>2, <1>3, <1>4, <1>8 DEF Hear, Untouched
<1>9. CASE FailStep(c) \/ PushStep(c) \/ LogStep(c) \/ EndStep(c) \/ Vanish(c) \/ Clash(c)
  BY <1>1, <1>2, <1>3, <1>4, <1>9
  DEF FailStep, PushStep, LogStep, EndStep, Vanish, Clash, Untouched
<1>10. QED
  BY <1>5, <1>6, <1>7, <1>8, <1>9

LEMMA InStepKept ==
    ASSUME NEW d \in Conns, InStep(d), Untouched(d), closed \subseteq closed',
           reader'[d] = reader[d] \/ d \in closed'
    PROVE  InStep(d)'
BY DEF InStep, Untouched, Current

(* The request just taken is the current one. *)
LEMMA TakenIs ==
    ASSUME GTypeOK, NEW c \in Conns, InStep(c), NEW q \in Requests, Take(c, q)
    PROVE  /\ Len(requests[c]) \in Nat /\ DOMAIN requests[c] = 1 .. Len(requests[c])
           /\ Len(requests'[c]) = Len(requests[c]) + 1
           /\ DOMAIN requests'[c] = 1 .. Len(requests[c]) + 1
           /\ Len(outcome'[c]) = Len(requests'[c])
           /\ outcome'[c][Len(requests'[c])] = "nothing"
           /\ Current(c)' = q /\ requests'[c] # <<>>
           /\ q \in Request /\ ~panicked /\ todo[c] = <<>>
           /\ \/ panicked' /\ todo' = todo /\ ~Readable(q)
              \/ /\ ~panicked' /\ todo'[c] = Steps(q) /\ q.type # "malformed"
                 /\ todo'[c] \in Remaining(q.type) /\ Pending(c)'
<1>1. /\ requests[c] \in Seq(Requests) /\ todo \in [Conns -> Seq(StepNames)]
      /\ Len(outcome[c]) = Len(requests[c]) /\ q \in Request
  BY RequestsAssumption DEF GTypeOK, InStep, StepNames
<1>2. Len(requests[c]) \in Nat /\ DOMAIN requests[c] = 1 .. Len(requests[c])
  BY <1>1, Entries
<1>3. Grown(requests[c], q, requests'[c]) /\ Grown(outcome[c], "nothing", outcome'[c])
  BY Takes
<1>4. requests'[c] \in Seq(Requests)
  BY Takes
<1>5. requests'[c] # <<>>
  BY <1>2, <1>3, <1>4, Entries DEF Grown
<1>6. ~panicked /\ todo[c] = <<>>
  BY DEF Take, Idle
<1>7. \/ panicked' /\ todo' = todo /\ ~Readable(q)
      \/ /\ ~panicked' /\ todo'[c] = Steps(q) /\ q.type # "malformed"
         /\ todo'[c] \in Remaining(q.type) /\ Pending(c)'
  <2>1. CASE Readable(q) /\ todo' = [todo EXCEPT ![c] = Steps(q)] /\ UNCHANGED panic
    <3>1. todo'[c] = Steps(q) /\ ~panicked' /\ q.type # "malformed"
      BY <1>1, <1>6, <2>1 DEF Readable
    <3>2. QED
      BY <1>1, <3>1, StepsRemain DEF Pending
  <2>2. QED
    BY <2>1 DEF Take, FailToRead
<1>8. QED
  BY <1>1, <1>2, <1>3, <1>5, <1>6, <1>7 DEF Grown, Current

LEMMA ReadersInit == GInit => ReadersOK
<1>1. Len(<<>>) = 0
  OBVIOUS
<1>2. QED
  BY <1>1 DEF GInit, ReadersOK, InStep

LEMMA ReadersStep == GTypeOK /\ ReadersOK /\ [GNext]_gvars => ReadersOK'
<1> SUFFICES ASSUME GTypeOK, ReadersOK, [GNext]_gvars
             PROVE  ReadersOK'
  OBVIOUS
<1>0. /\ reader \in [Conns -> {"reading", "failed", "done"}]
      /\ todo \in [Conns -> Seq(StepNames)]
      /\ \A d \in Conns : InStep(d)
  BY DEF GTypeOK, ReadersOK, StepNames
(* It is enough to look at the connection that steps. *)
<1>q. ASSUME NEW c \in Conns, closed \subseteq closed', InStep(c)',
             \A d \in Conns \ {c} : Untouched(d) /\ reader'[d] = reader[d]
      PROVE  ReadersOK'
  BY <1>0, <1>q, InStepKept DEF ReadersOK
<1>1. ASSUME NEW c \in Conns, NEW q \in Requests, Take(c, q) PROVE ReadersOK'
  <2>1. UNCHANGED <<reader, closed>> /\ \A d \in Conns \ {c} : Untouched(d)
    BY <1>1, OthersUntouched DEF Take
  <2>2. InStep(c) /\ todo[c] = <<>> /\ Len(outcome'[c]) = Len(requests'[c])
    BY <1>0, <1>1, TakenIs
  <2>3. todo'[c] # <<>> =>
           /\ requests'[c] # <<>> /\ todo'[c] \in Remaining(Current(c)'.type)
           /\ outcome'[c][Len(requests'[c])] = "nothing"
    BY <1>0, <1>1, <2>2, TakenIs
  <2>4. InStep(c)'
    BY <2>1, <2>2, <2>3 DEF InStep
  <2>5. QED
    BY <1>q, <2>1, <2>4
<1>2. ASSUME NEW c \in Conns, NEW what, NEW rest, SessionStep(c, what, rest) PROVE ReadersOK'
  <2>1. UNCHANGED <<reader, closed, requests>> /\ \A d \in Conns \ {c} : Untouched(d)
    BY <1>2, OthersUntouched DEF SessionStep
  <2>2. todo'[c] = rest /\ requests[c] # <<>> /\ rest \in Remaining(Current(c).type)
        /\ Head(rest) \in {"answer", "refuse"}
    BY <1>0, <1>2 DEF SessionStep
  <2>3. Len(outcome'[c]) = Len(requests[c])
    BY <1>0, <1>2, Notes
  <2>4. InStep(c)'
    BY <1>0, <2>1, <2>2, <2>3 DEF InStep, Current
  <2>5. QED
    BY <1>q, <2>1, <2>4
<1>3. ASSUME NEW c \in Conns, NEW kind, ReplyStep(c, kind) PROVE ReadersOK'
  <2>1. UNCHANGED <<reader, closed, requests, outcome>> /\ \A d \in Conns \ {c} : Untouched(d)
    BY <1>3, OthersUntouched DEF ReplyStep
  <2>2. /\ todo'[c] = Tail(todo[c]) /\ requests[c] # <<>>
        /\ todo'[c] \in {<<>>} \cup Remaining(Current(c).type) /\ todo'[c] \in {<<>>, <<"push">>}
    BY <1>0, <1>3 DEF ReplyStep
  <2>3. InStep(c)'
    BY <1>0, <2>1, <2>2, Rests DEF InStep, Current
  <2>4. QED
    BY <1>q, <2>1, <2>3
<1>4. ASSUME NEW c \in Conns, LogStep(c) PROVE ReadersOK'
  <2>1. /\ UNCHANGED <<reader, closed, requests, outcome>>
        /\ \A d \in Conns \ {c} : Untouched(d)
    BY <1>4, OthersUntouched DEF LogStep
  <2>2. /\ todo'[c] = <<"answer">> /\ requests[c] # <<>>
        /\ todo'[c] \in Remaining(Current(c).type)
    BY <1>0, <1>4 DEF LogStep
  <2>3. InStep(c)'
    BY <1>0, <2>1, <2>2, Rests DEF InStep, Current
  <2>4. QED
    BY <1>q, <2>1, <2>3
<1>5. ASSUME NEW c \in Conns, PushStep(c) PROVE ReadersOK'
  <2>1. UNCHANGED <<reader, closed, requests, outcome>> /\ \A d \in Conns \ {c} : Untouched(d)
    BY <1>5, OthersUntouched DEF PushStep
  <2>2. /\ todo'[c] = Tail(todo[c]) /\ requests[c] # <<>>
        /\ todo'[c] \in {<<>>} \cup Remaining(Current(c).type) /\ todo'[c] \in {<<>>, <<"answer">>}
    BY <1>0, <1>5 DEF PushStep
  <2>3. InStep(c)'
    BY <1>0, <2>1, <2>2, Rests DEF InStep, Current
  <2>4. QED
    BY <1>q, <2>1, <2>3
<1>6. ASSUME NEW c \in Conns, EndStep(c) PROVE ReadersOK'
  <2>1. /\ UNCHANGED <<requests, outcome, todo>> /\ closed' = closed \cup {c}
        /\ \A d \in Conns \ {c} : Untouched(d) /\ reader'[d] = reader[d]
    BY <1>0, <1>6, OthersUntouched DEF EndStep
  <2>2. InStep(c)'
    BY <1>0, <2>1 DEF InStep, Current
  <2>3. QED
    BY <1>q, <2>1, <2>2
<1>7. ASSUME UNCHANGED <<reader, closed, requests, outcome, todo>> PROVE ReadersOK'
  BY <1>7 DEF ReadersOK, InStep, Current
<1>8. ASSUME \/ \E c \in Conns : FailStep(c) \/ Vanish(c) \/ Clash(c)
             \/ \E p \in waiting : LookUp(p)
             \/ \E w \in sending : Deliver(w)
             \/ UNCHANGED gvars
      PROVE  UNCHANGED <<reader, closed, requests, outcome, todo>>
  BY <1>8 DEF FailStep, Clash, Vanish, LookUp, Deliver, gvars
<1>9. QED
  BY <1>1, <1>2, <1>3, <1>4, <1>5, <1>6, <1>7, <1>8, Shapes

-----------------------------------------------------------------------------
(* Answers come in order, one for each request *)

LEMMA AnsweredKept ==
    ASSUME NEW d \in Conns, AnsweredInOrder(d), Untouched(d), panicked => panicked'
    PROVE  AnsweredInOrder(d)'
BY DEF AnsweredInOrder, Answers, Answered, Untouched, Pending

(* What one message more adds to the answers. *)
LEMMA HeardPlaces ==
    ASSUME NEW c, NEW m, NEW L \in Nat,
           DOMAIN received[c] = 1 .. L, DOMAIN received'[c] = 1 .. L + 1,
           \A i \in 1 .. L : received'[c][i] = received[c][i],
           received'[c][L + 1] = m
    PROVE  /\ \A i \in Answers(c) : i \in 1 .. L /\ received'[c][i] = received[c][i]
           /\ m.kind = "push" => Answers(c)' = Answers(c)
           /\ m.kind # "push" => Answers(c)' = Answers(c) \cup {L + 1}
<1>1. \A i : i \in 1 .. L + 1 <=> i \in 1 .. L \/ i = L + 1
  OBVIOUS
<1>2. \A i : i \in Answers(c) <=> i \in 1 .. L /\ received[c][i].kind # "push"
  BY DEF Answers
<1>3. \A i : i \in Answers(c)' <=> i \in 1 .. L + 1 /\ received'[c][i].kind # "push"
  BY DEF Answers
<1>4. \A i : i \in Answers(c)' <=> i \in Answers(c) \/ (i = L + 1 /\ m.kind # "push")
  BY <1>1, <1>2, <1>3
<1>5. QED
  BY <1>2, <1>4

LEMMA HeardAnswers ==
    ASSUME GTypeOK, NEW c \in Conns,
           NEW m \in [kind : {"beat", "answer", "refusal", "push"}, of : Asked], Hear(c, m)
    PROVE  /\ \A i \in Answers(c) : /\ i \in 1 .. Len(received[c])
                                    /\ received'[c][i] = received[c][i]
           /\ received'[c][Len(received[c]) + 1] = m
           /\ Len(received[c]) \in Nat
           /\ m.kind = "push" => Answers(c)' = Answers(c)
           /\ m.kind # "push" => Answers(c)' = Answers(c) \cup {Len(received[c]) + 1}
<1>1. PICK L : L = Len(received[c])
  OBVIOUS
<1>2. /\ L \in Nat /\ DOMAIN received[c] = 1 .. L /\ DOMAIN received'[c] = 1 .. L + 1
      /\ \A i \in 1 .. L : received'[c][i] = received[c][i]
      /\ received'[c][L + 1] = m
  BY <1>1, Hears DEF Grown
<1>3. QED
  BY <1>1, <1>2, HeardPlaces, Zenon

(* A request has one number. *)
LEMMA OneNumber == \A a, b, x, y : <<a, x>> = <<b, y>> => a = b /\ x = y
OBVIOUS

LEMMA TakeAnswers ==
    ASSUME GTypeOK, NEW c \in Conns, InStep(c), AnsweredInOrder(c),
           NEW q \in Requests, Take(c, q)
    PROVE  AnsweredInOrder(c)'
<1>p. PICK L : L = Len(requests[c])
  OBVIOUS
<1>1. /\ L \in Nat /\ DOMAIN requests[c] = 1 .. L /\ DOMAIN requests'[c] = 1 .. L + 1
      /\ Len(requests'[c]) = L + 1
  BY <1>p, TakenIs
<1>b. panicked' \/ Pending(c)'
  BY TakenIs
<1>c. ~panicked /\ todo[c] = <<>>
  BY TakenIs
<1>2. received' = received /\ \A n \in 1 .. L : requests'[c][n] = requests[c][n]
  BY <1>p, <1>1, Takes DEF Take, Grown
<1>3. \A n \in 1 .. L : Answered(c, n)
  BY <1>p, <1>1, <1>c DEF AnsweredInOrder, Pending
<1>4. \A i \in Answers(c) : \E n \in 1 .. L : received[c][i].of = <<c, n>>
  BY <1>1 DEF AnsweredInOrder
<1>5. Answers(c)' = Answers(c) /\ \A n : Answered(c, n)' <=> Answered(c, n)
  BY <1>2 DEF Answers, Answered
<1>6. \A i \in Answers(c)' : \E n \in DOMAIN requests'[c] : received'[c][i].of = <<c, n>>
  BY <1>1, <1>2, <1>4, <1>5
<1>7. \A i, j \in Answers(c)' : i < j => received'[c][i].of[2] < received'[c][j].of[2]
  BY <1>2, <1>5 DEF AnsweredInOrder
<1>8. \A n \in DOMAIN requests'[c] :
         n < Len(requests'[c]) \/ (~Pending(c)' /\ ~panicked') => Answered(c, n)'
  BY <1>1, <1>3, <1>5, <1>b
<1>9. \A i \in Answers(c)' : received'[c][i].of[2] < Len(requests'[c])
  BY <1>1, <1>2, <1>4, <1>5
<1>10. \A i \in Answers(c)' : \A n \in DOMAIN requests'[c] :
          received'[c][i].of = <<c, n>> /\ requests'[c][n].type \in Movers =>
             received'[c][i].kind = "answer"
  <2>1. ASSUME NEW i \in Answers(c), NEW n \in DOMAIN requests'[c], received[c][i].of = <<c, n>>,
               requests'[c][n].type \in Movers
        PROVE  received[c][i].kind = "answer"
    <3>1. n \in 1 .. L
      BY <1>4, <2>1, OneNumber
    <3>2. QED
      BY <1>1, <1>2, <2>1, <3>1 DEF AnsweredInOrder
  <2>2. QED
    BY <1>2, <1>5, <2>1
<1>11. QED
  BY <1>6, <1>7, <1>8, <1>9, <1>10 DEF AnsweredInOrder

LEMMA ReplyAnswers ==
    ASSUME GTypeOK, NEW c \in Conns, AnsweredInOrder(c), NEW kind, ReplyStep(c, kind)
    PROVE  AnsweredInOrder(c)'
<1>p. PICK n0, k, m : /\ n0 = Len(requests[c]) /\ k = Len(received[c]) + 1
                      /\ m = [kind |-> kind, of |-> <<c, n0>>]
  OBVIOUS
<1>1. /\ n0 \in Nat \ {0} /\ DOMAIN requests[c] = 1 .. n0 /\ <<c, n0>> \in Asked
      /\ Current(c) = requests[c][n0]
  BY <1>p, CurrentIs DEF ReplyStep, Current
<1>m. m \in [kind : {"beat", "answer", "refusal", "push"}, of : Asked] /\ Hear(c, m)
  BY <1>p, <1>1 DEF ReplyStep, AnswerKinds
<1>2. /\ m.kind # "push" /\ m.of = <<c, n0>>
      /\ requests[c][n0].type \in Movers => m.kind = "answer"
  BY <1>p, <1>1 DEF ReplyStep, AnswerKinds
<1>3. /\ \A i \in Answers(c) : i \in 1 .. Len(received[c]) /\ received'[c][i] = received[c][i]
      /\ received'[c][k] = m /\ Len(received[c]) \in Nat
      /\ Answers(c)' = Answers(c) \cup {k}
      /\ k \in Nat /\ Answers(c) \subseteq Nat
  BY <1>p, <1>m, <1>2, HeardAnswers
<1>4. todo'[c] \in {<<>>, <<"push">>} /\ requests' = requests /\ Pending(c)
  BY DEF ReplyStep, GTypeOK
<1>5. ~Pending(c)'
  BY <1>4 DEF Pending
<1>6. \A i \in Answers(c) : received[c][i].of[2] < n0
  BY <1>p, <1>4 DEF AnsweredInOrder
<1>a. /\ \A i \in Answers(c) : \E n \in DOMAIN requests[c] : received[c][i].of = <<c, n>>
      /\ \A i, j \in Answers(c) : i < j => received[c][i].of[2] < received[c][j].of[2]
      /\ \A n \in DOMAIN requests[c] : n < n0 => Answered(c, n)
      /\ \A i \in Answers(c) : \A n \in DOMAIN requests[c] :
            received[c][i].of = <<c, n>> /\ requests[c][n].type \in Movers =>
               received[c][i].kind = "answer"
  BY <1>p DEF AnsweredInOrder
<1>7. \A i \in Answers(c)' : \E n \in DOMAIN requests'[c] : received'[c][i].of = <<c, n>>
  BY <1>1, <1>2, <1>3, <1>4, <1>a
<1>8. \A i, j \in Answers(c)' : i < j => received'[c][i].of[2] < received'[c][j].of[2]
  <2>1. \A i \in Answers(c) : received'[c][i].of[2] < received'[c][k].of[2] /\ i < k
    BY <1>1, <1>2, <1>3, <1>6, <1>p
  <2>2. QED
    BY <1>3, <1>a, <2>1
<1>9. \A n \in DOMAIN requests'[c] : Answered(c, n)'
  <2>1. Answered(c, n0)'
    BY <1>2, <1>3 DEF Answered
  <2>2. \A n \in DOMAIN requests[c] : n < n0 => Answered(c, n)'
    BY <1>3, <1>a DEF Answered
  <2>3. QED
    BY <1>1, <1>4, <2>1, <2>2
<1>10. \A i \in Answers(c)' : \A n \in DOMAIN requests'[c] :
          received'[c][i].of = <<c, n>> /\ requests'[c][n].type \in Movers =>
             received'[c][i].kind = "answer"
  <2>1. \A n : m.of = <<c, n>> => n = n0
    BY <1>2, OneNumber
  <2>2. QED
    BY <1>2, <1>3, <1>4, <1>a, <2>1
<1>11. QED
  BY <1>5, <1>7, <1>8, <1>9, <1>10 DEF AnsweredInOrder

(* Pushes heard do not count. *)
LEMMA DeliverAnswers ==
    ASSUME GTypeOK, NEW w \in sending, Deliver(w), AnsweredInOrder(w.to)
    PROVE  AnsweredInOrder(w.to)'
<1> DEFINE c == w.to
           m == [kind |-> "push", of |-> w.push]
<1>1. /\ c \in Conns /\ m \in [kind : {"beat", "answer", "refusal", "push"}, of : Asked]
      /\ m.kind = "push"
  BY DEF GTypeOK
<1>2. UNCHANGED <<requests, todo>> /\ ~panicked
  BY DEF Deliver
<1>3. Answers(c)' = Answers(c) /\ \A i \in Answers(c) : received'[c][i] = received[c][i]
  <2>1. CASE Hear(c, m)
    BY <1>1, <2>1, HeardAnswers
  <2>2. CASE UNCHANGED received
    BY <2>2 DEF Answers
  <2>3. QED
    BY <2>1, <2>2 DEF Deliver
<1> HIDE DEF c, m
<1>4. AnsweredInOrder(c)'
  <2>1. AnsweredInOrder(c)
    BY DEF c
  <2>2. QED
    BY <1>2, <1>3, <2>1 DEF AnsweredInOrder, Answered, Pending
<1>5. QED
  BY <1>4 DEF c

LEMMA AnswersInit == GInit => AnswersOK
<1>1. DOMAIN <<>> = {} /\ Len(<<>>) = 0
  OBVIOUS
<1>2. QED
  BY <1>1 DEF GInit, AnswersOK, AnsweredInOrder, Answers, Answered, Pending

LEMMA AnswersStep == GTypeOK /\ ReadersOK /\ AnswersOK /\ [GNext]_gvars => AnswersOK'
<1> SUFFICES ASSUME GTypeOK, ReadersOK, AnswersOK, [GNext]_gvars
             PROVE  AnswersOK'
  OBVIOUS
<1>0. /\ \A d \in Conns : InStep(d) /\ AnsweredInOrder(d)
      /\ todo \in [Conns -> Seq(StepNames)]
  BY DEF GTypeOK, ReadersOK, AnswersOK, StepNames
<1>q. ASSUME NEW c \in Conns, AnsweredInOrder(c)', panicked => panicked',
             \A d \in Conns \ {c} : Untouched(d)
      PROVE  AnswersOK'
  BY <1>0, <1>q, AnsweredKept DEF AnswersOK
<1>1. ASSUME NEW c \in Conns, NEW q \in Requests, Take(c, q) PROVE AnswersOK'
  <2>1. (panicked => panicked') /\ \A d \in Conns \ {c} : Untouched(d)
    BY <1>1, OthersUntouched DEF Take
  <2>2. AnsweredInOrder(c)'
    BY <1>0, <1>1, TakeAnswers
  <2>3. QED
    BY <1>q, <2>1, <2>2
<1>2. ASSUME NEW c \in Conns, NEW what, NEW rest, SessionStep(c, what, rest) PROVE AnswersOK'
  <2>1. UNCHANGED <<requests, received>> /\ ~panicked /\ \A d \in Conns \ {c} : Untouched(d)
    BY <1>2, OthersUntouched DEF SessionStep
  <2>2. Pending(c) /\ Pending(c)'
    <3>1. rest # <<>>
      BY <1>2, CurrentIs, RemainingFacts DEF SessionStep
    <3>2. QED
      BY <1>0, <1>2, <3>1 DEF SessionStep, Pending
  <2>3. AnsweredInOrder(c)'
    BY <1>0, <2>1, <2>2 DEF AnsweredInOrder, Answers, Answered
  <2>4. QED
    BY <1>q, <2>1, <2>3
<1>3. ASSUME NEW c \in Conns, NEW kind, ReplyStep(c, kind) PROVE AnswersOK'
  <2>1. (panicked => panicked') /\ \A d \in Conns \ {c} : Untouched(d)
    BY <1>3, OthersUntouched DEF ReplyStep
  <2>2. AnsweredInOrder(c)'
    BY <1>0, <1>3, ReplyAnswers
  <2>3. QED
    BY <1>q, <2>1, <2>2
<1>4. ASSUME NEW c \in Conns, LogStep(c) PROVE AnswersOK'
  <2>1. /\ UNCHANGED <<requests, received>> /\ ~panicked /\ Pending(c)
        /\ \A d \in Conns \ {c} : Untouched(d)
    BY <1>4, OthersUntouched DEF LogStep
  <2>2. Pending(c)'
    <3>1. <<"answer">> \notin {<<>>, <<"push">>}
      OBVIOUS
    <3>2. todo'[c] = <<"answer">>
      BY <1>0, <1>4 DEF LogStep
    <3>3. QED
      BY <3>1, <3>2 DEF Pending
  <2>3. AnsweredInOrder(c)'
    BY <1>0, <2>1, <2>2 DEF AnsweredInOrder, Answers, Answered
  <2>4. QED
    BY <1>q, <2>1, <2>3
<1>5. ASSUME NEW c \in Conns, PushStep(c) PROVE AnswersOK'
  <2>1. /\ UNCHANGED <<requests, received>> /\ ~panicked /\ (\A d \in Conns \ {c} : Untouched(d))
        /\ todo'[c] = Tail(todo[c])
    BY <1>0, <1>5, OthersUntouched DEF PushStep
  <2>2. Pending(c)' <=> Pending(c)
    <3>1. <<"answer">> \notin {<<>>, <<"push">>}
      OBVIOUS
    <3>2. QED
      BY <1>5, <2>1, <3>1 DEF PushStep, Pending
  <2>3. AnsweredInOrder(c)'
    BY <1>0, <2>1, <2>2 DEF AnsweredInOrder, Answers, Answered
  <2>4. QED
    BY <1>q, <2>1, <2>3
<1>6. ASSUME UNCHANGED <<requests, outcome, todo, received>>, panicked => panicked'
      PROVE  AnswersOK'
  BY <1>0, <1>6, AnsweredKept DEF AnswersOK, Untouched
<1>7. ASSUME \/ \E c \in Conns : FailStep(c) \/ EndStep(c) \/ Vanish(c) \/ Clash(c)
             \/ \E p \in waiting : LookUp(p)
             \/ UNCHANGED gvars
      PROVE  UNCHANGED <<requests, outcome, todo, received>> /\ (panicked => panicked')
  BY <1>7 DEF FailStep, Clash, EndStep, Vanish, LookUp, gvars
<1>8. ASSUME NEW w \in sending, Deliver(w) PROVE AnswersOK'
  <2>1. w.to \in Conns
    BY DEF GTypeOK
  <2>2. UNCHANGED <<requests, outcome, todo>> /\ ~panicked
    BY <1>8 DEF Deliver
  <2>3. AnsweredInOrder(w.to)'
    BY <1>0, <1>8, <2>1, DeliverAnswers
  <2>4. \A d \in Conns \ {w.to} : Untouched(d)
    <3>1. CASE Hear(w.to, [kind |-> "push", of |-> w.push])
      BY <2>1, <2>2, <3>1, OthersUntouched
    <3>2. CASE UNCHANGED received
      BY <2>2, <3>2 DEF Untouched
    <3>3. QED
      BY <1>8, <3>1, <3>2 DEF Deliver
  <2>5. QED
    BY <1>q, <2>1, <2>2, <2>3, <2>4
<1>9. QED
  BY <1>1, <1>2, <1>3, <1>4, <1>5, <1>6, <1>7, <1>8, Shapes

-----------------------------------------------------------------------------
(* The answer precedes the push *)

LEMMA StepsGrow ==
    ASSUME GTypeOK, ReadersOK, [GNext]_gvars
    PROVE  RequestsGrow /\ ReceivedGrows
<1>1. UNCHANGED requests => RequestsGrow
  BY DEF RequestsGrow
<1>2. UNCHANGED received => ReceivedGrows
  BY DEF ReceivedGrows
<1>3. ASSUME NEW c \in Conns, NEW q \in Requests, Take(c, q) PROVE RequestsGrow /\ ReceivedGrows
  BY <1>2, <1>3, Takes DEF Take
<1>4. ASSUME NEW c \in Conns, NEW kind, ReplyStep(c, kind) PROVE RequestsGrow /\ ReceivedGrows
  <2>1. <<c, Len(requests[c])>> \in Asked /\ kind \in AnswerKinds
    BY <1>4, CurrentIs DEF ReplyStep
  <2>2. ReceivedGrows
    BY <1>4, <2>1, Hears DEF ReplyStep, AnswerKinds
  <2>3. QED
    BY <1>1, <1>4, <2>2 DEF ReplyStep
<1>5. ASSUME NEW w \in sending, Deliver(w) PROVE RequestsGrow /\ ReceivedGrows
  <2>1. w.to \in Conns /\ w.push \in Asked
    BY DEF GTypeOK
  <2>2. UNCHANGED requests
    BY <1>5 DEF Deliver
  <2>3. CASE Hear(w.to, [kind |-> "push", of |-> w.push])
    BY <1>1, <2>1, <2>2, <2>3, Hears
  <2>4. QED
    BY <1>1, <1>2, <1>5, <2>2, <2>3 DEF Deliver
<1>6. ASSUME \/ \E c \in Conns : \/ \E what, rest : SessionStep(c, what, rest)
                                 \/ FailStep(c) \/ PushStep(c) \/ LogStep(c)
                                 \/ EndStep(c) \/ Vanish(c) \/ Clash(c)
             \/ \E p \in waiting : LookUp(p)
             \/ UNCHANGED gvars
      PROVE  UNCHANGED <<requests, received>>
  <2>1. CASE \E p \in waiting : LookUp(p)
    BY <2>1 DEF LookUp
  <2>2. CASE UNCHANGED gvars
    BY <2>2 DEF gvars
  <2>3. ASSUME NEW c \in Conns, \/ \E what, rest : SessionStep(c, what, rest)
                                \/ FailStep(c) \/ PushStep(c) \/ LogStep(c)
                                \/ EndStep(c) \/ Vanish(c) \/ Clash(c)
        PROVE  UNCHANGED <<requests, received>>
    BY <2>3 DEF SessionStep, FailStep, PushStep, LogStep, EndStep, Vanish, Clash
  <2>4. QED
    BY <1>6, <2>1, <2>2, <2>3
<1>7. QED
  BY <1>1, <1>2, <1>3, <1>4, <1>5, <1>6, Shapes

LEMMA ConfirmedKept ==
    ASSUME NEW p \in Asked, Confirmed(p), RequestsGrow, ReceivedGrows
    PROVE  /\ Confirmed(p)' /\ p \in Asked'
           /\ requests'[p[1]][p[2]] = requests[p[1]][p[2]]
<1>1. p[1] \in Conns /\ p[2] \in DOMAIN requests[p[1]]
  BY AskedBy
<1>2. requests'[p[1]][p[2]] = requests[p[1]][p[2]]
  BY <1>1 DEF RequestsGrow
<1>3. Confirmed(p)'
  BY <1>1, <1>2 DEF Confirmed, ReceivedGrows
<1>4. QED
  BY <1>2, <1>3, AskedGrows

(* Where a join or leave broadcasts, it has answered. *)
LEMMA PushedIsConfirmed ==
    ASSUME GTypeOK, NEW c \in Conns, InStep(c), AnsweredInOrder(c), PushStep(c),
           NEW p, p = <<c, Len(requests[c])>>
    PROVE  p \in Asked /\ requests[p[1]][p[2]].type \in Pushers /\ Confirmed(p)
<1>1. PICK n : n = Len(requests[c])
  OBVIOUS
<1>2. /\ n \in DOMAIN requests[c] /\ Current(c) = requests[c][n] /\ p \in Asked
      /\ p = <<c, n>> /\ p[1] = c /\ p[2] = n
  BY <1>1, CurrentIs DEF PushStep, Current
<1>3. requests[c][n].type \in Pushers
  BY <1>2 DEF PushStep, Pushers
<1>4. ASSUME requests[c][n].type \in Movers
      PROVE  \E i \in DOMAIN received[c] : received[c][i].of = p /\ received[c][i].kind = "answer"
  <2>1. ~Pending(c) /\ ~panicked
    BY <1>2, <1>4 DEF PushStep, Pending, Movers, Chats
  <2>2. Answered(c, n)
    BY <1>2, <2>1 DEF AnsweredInOrder
  <2>3. PICK i \in Answers(c) : received[c][i].of = <<c, n>>
    BY <2>2 DEF Answered
  <2>4. received[c][i].kind = "answer"
    BY <1>2, <1>4, <2>3 DEF AnsweredInOrder
  <2>5. QED
    BY <1>2, <2>3, <2>4 DEF Answers
<1>5. QED
  BY <1>2, <1>3, <1>4 DEF Confirmed

LEMMA PushesInit == GInit => PushesOK
BY DEF GInit, PushesOK

LEMMA PushesStep ==
    GTypeOK /\ ReadersOK /\ AnswersOK /\ PushesOK /\ [GNext]_gvars => PushesOK'
<1> SUFFICES ASSUME GTypeOK, ReadersOK, AnswersOK, PushesOK, [GNext]_gvars
             PROVE  PushesOK'
  OBVIOUS
<1>0. waiting \subseteq Asked /\ sending \subseteq [push : Asked, to : Conns]
      /\ RequestsGrow /\ ReceivedGrows
  BY StepsGrow DEF GTypeOK
<1>1. ASSUME NEW p \in Asked, requests[p[1]][p[2]].type \in Pushers /\ Confirmed(p)
      PROVE  requests'[p[1]][p[2]].type \in Pushers /\ Confirmed(p)'
  BY <1>0, <1>1, ConfirmedKept
<1>2. \A w \in sending : Confirmed(w.push)'
  <2>1. ASSUME NEW w \in sending PROVE Confirmed(w.push)'
    <3>1. PICK p \in Asked : p = w.push
      BY <1>0
    <3>2. Confirmed(p)'
      BY <1>0, <3>1, ConfirmedKept DEF PushesOK
    <3>3. QED
      BY <3>1, <3>2
  <2>2. QED
    BY <2>1
<1>3. \A p \in waiting : requests'[p[1]][p[2]].type \in Pushers /\ Confirmed(p)'
  BY <1>0, <1>1 DEF PushesOK
<1>4. CASE waiting' \subseteq waiting /\ sending' \subseteq sending
  BY <1>2, <1>3, <1>4 DEF PushesOK
<1>5. ASSUME NEW c \in Conns, PushStep(c) PROVE PushesOK'
  <2>1. PICK p : p = <<c, Len(requests[c])>>
    OBVIOUS
  <2>2. p \in Asked /\ requests[p[1]][p[2]].type \in Pushers /\ Confirmed(p)
    BY <1>5, <2>1, PushedIsConfirmed DEF ReadersOK, AnswersOK
  <2>3. requests'[p[1]][p[2]].type \in Pushers /\ Confirmed(p)'
    BY <1>1, <2>2
  <2>4. sending' = sending /\ waiting' \subseteq waiting \cup {p}
    BY <1>5, <2>1 DEF PushStep
  <2>5. QED
    BY <1>2, <1>3, <2>3, <2>4 DEF PushesOK
<1>6. ASSUME NEW p \in waiting, LookUp(p) PROVE PushesOK'
  <2>1. waiting' \subseteq waiting
    BY <1>6 DEF LookUp
  <2>2. Confirmed(p)'
    BY <1>3
  <2>3. \A w \in sending' : w \in sending \/ w.push = p
    BY <1>6, LooksUp
  <2>4. \A w \in sending' : Confirmed(w.push)'
    BY <1>2, <2>2, <2>3
  <2>5. QED
    BY <1>3, <2>1, <2>4 DEF PushesOK
<1>7. ASSUME \/ \E c \in Conns : \/ \E q \in Requests : Take(c, q)
                                 \/ \E what, rest : SessionStep(c, what, rest)
                                 \/ \E kind : ReplyStep(c, kind)
                                 \/ FailStep(c) \/ LogStep(c) \/ EndStep(c)
                                 \/ Vanish(c) \/ Clash(c)
             \/ \E w \in sending : Deliver(w)
             \/ UNCHANGED gvars
      PROVE  waiting' \subseteq waiting /\ sending' \subseteq sending
  <2>1. CASE \E w \in sending : Deliver(w)
    BY <2>1 DEF Deliver
  <2>2. CASE UNCHANGED gvars
    BY <2>2 DEF gvars, outside
  <2>3. ASSUME NEW c \in Conns, \/ \E q \in Requests : Take(c, q)
                                \/ \E what, rest : SessionStep(c, what, rest)
                                \/ \E kind : ReplyStep(c, kind)
                                \/ FailStep(c) \/ LogStep(c) \/ EndStep(c)
                                \/ Vanish(c) \/ Clash(c)
        PROVE  waiting' = waiting /\ sending' = sending
    BY <2>3
    DEF Take, SessionStep, ReplyStep, FailStep, LogStep, EndStep, Vanish, Clash, outside
  <2>4. QED
    BY <1>7, <2>1, <2>2, <2>3
<1>8. QED
  BY <1>4, <1>5, <1>6, <1>7, Shapes

(* Message i of c, if a push about a join or leave of c's own, follows its  *)
(* answer.                                                                  *)
Told(c, i) ==
    LET m == received[c][i]
    IN  m.kind = "push" /\ m.of[1] = c /\ requests[c][m.of[2]].type \in Movers
        => \E j \in 1 .. i - 1 : received[c][j].of = m.of /\ received[c][j].kind = "answer"

LEMMA ToldIs == AnswerPrecedesOwnPush <=> \A c \in Conns : \A i \in DOMAIN received[c] : Told(c, i)
BY DEF AnswerPrecedesOwnPush, Told, Movers

(* What has been received. *)
LEMMA ReceivedIs ==
    ASSUME GTypeOK, NEW c \in Conns
    PROVE  /\ Len(received[c]) \in Nat /\ DOMAIN received[c] = 1 .. Len(received[c])
           /\ \A i \in DOMAIN received[c] : received[c][i].of \in Asked
<1>1. received[c] \in Seq(MessagesOf(Asked))
  BY DEF GTypeOK, MessagesOf
<1>2. /\ Len(received[c]) \in Nat /\ DOMAIN received[c] = 1 .. Len(received[c])
      /\ \A i \in 1 .. Len(received[c]) : received[c][i] \in MessagesOf(Asked)
  BY <1>1, Entries
<1>3. QED
  BY <1>2 DEF MessagesOf

LEMMA ToldKept ==
    ASSUME GTypeOK, RequestsGrow, ReceivedGrows,
           NEW c \in Conns, NEW i \in DOMAIN received[c], Told(c, i)
    PROVE  Told(c, i)'
<1>1. PICK m : m = received[c][i]
  OBVIOUS
<1>2. m.of \in Asked /\ i \in Nat /\ 1 .. i - 1 \subseteq DOMAIN received[c]
  BY <1>1, ReceivedIs
<1>3. m.of[1] = c => requests'[c][m.of[2]] = requests[c][m.of[2]]
  BY <1>2, AskedBy DEF RequestsGrow
<1>4. received'[c][i] = m /\ \A j \in 1 .. i - 1 : received'[c][j] = received[c][j]
  BY <1>1, <1>2 DEF ReceivedGrows
<1>5. QED
  BY <1>1, <1>3, <1>4 DEF Told

(* A push about its own join or leave reaches a client that has had the     *)
(* answer.                                                                  *)
LEMMA HeardIsTold ==
    ASSUME GTypeOK, RequestsGrow, NEW c \in Conns, NEW m, m.of \in Asked,
           m.kind = "push" => Confirmed(m.of),
           NEW k, k = Len(received[c]) + 1, Grown(received[c], m, received'[c])
    PROVE  Told(c, k)' /\ \A i \in DOMAIN received'[c] : i \in DOMAIN received[c] \/ i = k
<1>1. /\ Len(received[c]) \in Nat /\ DOMAIN received[c] = 1 .. k - 1 /\ k \in Nat
      /\ DOMAIN received'[c] = 1 .. k /\ received'[c][k] = m
      /\ \A i \in 1 .. k - 1 : received'[c][i] = received[c][i]
  BY ReceivedIs DEF Grown
<1>2. m.of[1] = c => requests'[c][m.of[2]] = requests[c][m.of[2]]
  BY AskedBy DEF RequestsGrow
<1>3. Told(c, k)'
  <2>1. SUFFICES ASSUME m.kind = "push", m.of[1] = c, requests[c][m.of[2]].type \in Movers
                 PROVE  \E j \in 1 .. k - 1 :
                           received'[c][j].of = m.of /\ received'[c][j].kind = "answer"
    BY <1>1, <1>2 DEF Told
  <2>2. \E j \in DOMAIN received[c] : received[c][j].of = m.of /\ received[c][j].kind = "answer"
    BY <2>1 DEF Confirmed
  <2>3. QED
    BY <1>1, <2>2
<1>4. QED
  BY <1>1, <1>3

LEMMA PrecedenceInit == GInit => AnswerPrecedesOwnPush
<1>1. DOMAIN <<>> = {}
  OBVIOUS
<1>2. QED
  BY <1>1 DEF GInit, AnswerPrecedesOwnPush

LEMMA PrecedenceStep ==
    GTypeOK /\ ReadersOK /\ PushesOK /\ AnswerPrecedesOwnPush /\ [GNext]_gvars
       => AnswerPrecedesOwnPush'
<1> SUFFICES ASSUME GTypeOK, ReadersOK, PushesOK, AnswerPrecedesOwnPush, [GNext]_gvars
             PROVE  AnswerPrecedesOwnPush'
  OBVIOUS
<1>0. RequestsGrow /\ ReceivedGrows
  BY StepsGrow
<1>1. \A c \in Conns : \A i \in DOMAIN received[c] : Told(c, i)'
  BY <1>0, ToldIs, ToldKept
<1>q. ASSUME \A c \in Conns : \A i \in DOMAIN received'[c] : Told(c, i)'
      PROVE  AnswerPrecedesOwnPush'
  BY <1>q DEF AnswerPrecedesOwnPush, Told, Movers
<1>2. CASE UNCHANGED received
  BY <1>1, <1>2, <1>q
<1>3. ASSUME NEW c \in Conns, NEW m \in [kind : {"beat", "answer", "refusal", "push"}, of : Asked],
             Hear(c, m), m.kind = "push" => Confirmed(m.of)
      PROVE  AnswerPrecedesOwnPush'
  <2>1. Grown(received[c], m, received'[c]) /\ \A d \in Conns \ {c} : received'[d] = received[d]
    BY <1>3, Hears
  <2>2. m.of \in Asked
    OBVIOUS
  <2>3. \A i \in DOMAIN received'[c] : Told(c, i)'
    <3>1. PICK k : k = Len(received[c]) + 1
      OBVIOUS
    <3>2. Told(c, k)' /\ \A i \in DOMAIN received'[c] : i \in DOMAIN received[c] \/ i = k
      BY <1>0, <1>3, <2>1, <2>2, <3>1, HeardIsTold
    <3>3. QED
      BY <1>1, <3>2
  <2>4. QED
    BY <1>1, <1>q, <2>1, <2>3
<1>4. ASSUME NEW c \in Conns, NEW kind, ReplyStep(c, kind) PROVE AnswerPrecedesOwnPush'
  <2>1. PICK m : m = [kind |-> kind, of |-> <<c, Len(requests[c])>>]
    OBVIOUS
  <2>2. /\ m \in [kind : {"beat", "answer", "refusal", "push"}, of : Asked] /\ Hear(c, m)
        /\ m.kind # "push"
    BY <1>4, <2>1, CurrentIs DEF ReplyStep, AnswerKinds
  <2>3. QED
    BY <1>3, <2>2
<1>5. ASSUME NEW w \in sending, Deliver(w) PROVE AnswerPrecedesOwnPush'
  <2>1. PICK m : m = [kind |-> "push", of |-> w.push]
    OBVIOUS
  <2>2. /\ m \in [kind : {"beat", "answer", "refusal", "push"}, of : Asked]
        /\ m.of = w.push /\ w.to \in Conns
    BY <2>1 DEF GTypeOK
  <2>3. CASE Hear(w.to, m)
    BY <1>3, <2>2, <2>3 DEF PushesOK
  <2>4. QED
    BY <1>2, <1>5, <2>1, <2>3 DEF Deliver
<1>6. ASSUME \/ \E c \in Conns : \/ \E q \in Requests : Take(c, q)
                                 \/ \E what, rest : SessionStep(c, what, rest)
                                 \/ FailStep(c) \/ PushStep(c) \/ LogStep(c)
                                 \/ EndStep(c) \/ Vanish(c) \/ Clash(c)
             \/ \E p \in waiting : LookUp(p)
             \/ UNCHANGED gvars
      PROVE  UNCHANGED received
  <2>1. CASE \E p \in waiting : LookUp(p)
    BY <2>1 DEF LookUp
  <2>2. CASE UNCHANGED gvars
    BY <2>2 DEF gvars
  <2>3. ASSUME NEW c \in Conns, \/ \E q \in Requests : Take(c, q)
                                \/ \E what, rest : SessionStep(c, what, rest)
                                \/ FailStep(c) \/ PushStep(c) \/ LogStep(c)
                                \/ EndStep(c) \/ Vanish(c) \/ Clash(c)
        PROVE  UNCHANGED received
    BY <2>3 DEF Take, SessionStep, FailStep, PushStep, LogStep, EndStep, Vanish, Clash
  <2>4. QED
    BY <1>6, <2>1, <2>2, <2>3
<1>7. QED
  BY <1>2, <1>4, <1>5, <1>6, Shapes

-----------------------------------------------------------------------------
(* A client knows its session *)

LEMMA KnowsKept ==
    ASSUME NEW d \in Conns, Knows(d), Untouched(d), closed \subseteq closed',
           d \in Present' <=> d \in Present,
           d \in Present => sessions'[d] = sessions[d]
    PROVE  Knows(d)'
BY DEF Knows, Last, Untouched

(* A request just taken has done nothing yet. *)
LEMMA LastTaken ==
    ASSUME NEW c, NEW L \in Nat, DOMAIN outcome[c] = 1 .. L, DOMAIN outcome'[c] = 1 .. L + 1,
           \A n \in 1 .. L : outcome'[c][n] = outcome[c][n],
           outcome'[c][L + 1] = "nothing", NEW W, "nothing" \notin W
    PROVE  \A n : Last(c, n, W)' <=> Last(c, n, W)
<1>1. \A n : n \in 1 .. L + 1 <=> n \in 1 .. L \/ n = L + 1
  OBVIOUS
<1>2. QED
  BY <1>1 DEF Last

(* What the request at hand does to the session is the last that was done. *)
LEMMA LastDone ==
    ASSUME NEW c, NEW N \in Nat \ {0}, DOMAIN outcome[c] = 1 .. N, DOMAIN outcome'[c] = 1 .. N,
           \A n \in 1 .. N : n # N => outcome'[c][n] = outcome[c][n],
           outcome[c][N] = "nothing", NEW what, outcome'[c][N] = what,
           NEW W, "nothing" \notin W
    PROVE  /\ what \in W => \A n : Last(c, n, W)' <=> n = N
           /\ what \notin W => \A n : Last(c, n, W)' <=> Last(c, n, W)
           /\ \A n : Last(c, n, W) => n # N /\ outcome'[c][n] = outcome[c][n]
<1>1. \A n \in 1 .. N : n = N \/ n < N
  OBVIOUS
<1>2. N \in 1 .. N /\ \A n \in 1 .. N : ~(n > N)
  OBVIOUS
<1>3. \A n : Last(c, n, W) => n # N /\ outcome'[c][n] = outcome[c][n]
  BY DEF Last
<1>4. ASSUME what \in W PROVE \A n : Last(c, n, W)' <=> n = N
  <2>1. ASSUME NEW n, Last(c, n, W)' PROVE n = N
    BY <1>1, <1>2, <1>4, <2>1 DEF Last
  <2>2. Last(c, N, W)'
    BY <1>2, <1>4 DEF Last
  <2>3. QED
    BY <2>1, <2>2
<1>5. ASSUME what \notin W PROVE \A n : Last(c, n, W)' <=> Last(c, n, W)
  BY <1>2, <1>5 DEF Last
<1>6. QED
  BY <1>3, <1>4, <1>5

LEMMA TakeKnows ==
    ASSUME GTypeOK, NEW c \in Conns, InStep(c), Knows(c), NEW q \in Requests, Take(c, q)
    PROVE  Knows(c)'
<1>1. PICK L : L = Len(requests[c])
  OBVIOUS
<1>2. /\ L \in Nat /\ DOMAIN requests[c] = 1 .. L
      /\ Grown(requests[c], q, requests'[c]) /\ Grown(outcome[c], "nothing", outcome'[c])
      /\ Len(outcome[c]) = L
  BY <1>1, TakenIs, Takes DEF InStep
<1>3. DOMAIN outcome[c] = 1 .. L
  <2>1. outcome[c] \in Seq(Outcomes)
    BY DEF GTypeOK, Outcomes
  <2>2. QED
    BY <1>2, <2>1, Entries
<1>4. /\ \A n \in 1 .. L : outcome'[c][n] = outcome[c][n] /\ requests'[c][n] = requests[c][n]
      /\ DOMAIN outcome'[c] = 1 .. L + 1 /\ outcome'[c][L + 1] = "nothing"
  BY <1>1, <1>2 DEF Grown
<1>5. UNCHANGED <<sessions, closed>>
  BY DEF Take
<1>6. /\ \A n : Last(c, n, {"enrolled", "dismissed"})' <=> Last(c, n, {"enrolled", "dismissed"})
      /\ \A n : Last(c, n, {"enrolled", "moved", "left"})' <=> Last(c, n, {"enrolled", "moved", "left"})
  BY <1>2, <1>3, <1>4, LastTaken
<1>7. \A n \in 1 .. L : n \in DOMAIN outcome'[c]
  BY <1>2, <1>4
<1>8. \A n, W : Last(c, n, W) => n \in 1 .. L
  BY <1>3 DEF Last
<1>9. QED
  BY <1>3, <1>4, <1>5, <1>6, <1>7, <1>8 DEF Knows, Present

LEMMA SessionKnows ==
    ASSUME GTypeOK, NEW c \in Conns, InStep(c), Knows(c), NEW what, NEW rest,
           SessionStep(c, what, rest)
    PROVE  Knows(c)'
<1> DEFINE InOut == {"enrolled", "dismissed"}
           Rooms3 == {"enrolled", "moved", "left"}
<1>1. PICK N : N = Len(requests[c])
  OBVIOUS
<1>2. /\ N \in Nat \ {0} /\ DOMAIN outcome[c] = 1 .. N /\ DOMAIN outcome'[c] = 1 .. N
      /\ \A n \in 1 .. N : n # N => outcome'[c][n] = outcome[c][n]
      /\ outcome'[c][N] = what
  BY <1>1, Notes
<1>a. outcome[c][N] = "nothing"
  BY <1>1 DEF SessionStep
<1>b. N \in 1 .. N
  BY <1>2
<1>c. "nothing" \notin InOut /\ "nothing" \notin Rooms3
  OBVIOUS
<1> HIDE DEF InOut, Rooms3
<1>3. /\ UNCHANGED <<closed, requests>> /\ Current(c) = requests[c][N]
      /\ what \in Outcomes \ {"nothing"}
  BY <1>1 DEF SessionStep, Current
<1>4. /\ what \in InOut => \A n : Last(c, n, InOut)' <=> n = N
      /\ what \notin InOut => \A n : Last(c, n, InOut)' <=> Last(c, n, InOut)
      /\ \A n : Last(c, n, InOut) => n # N /\ outcome'[c][n] = outcome[c][n]
  BY <1>2, <1>a, <1>c, LastDone
<1>5. /\ what \in Rooms3 => \A n : Last(c, n, Rooms3)' <=> n = N
      /\ what \notin Rooms3 => \A n : Last(c, n, Rooms3)' <=> Last(c, n, Rooms3)
      /\ \A n : Last(c, n, Rooms3) => n # N /\ outcome'[c][n] = outcome[c][n]
  BY <1>2, <1>a, <1>c, LastDone
<1> USE <1>b DEF InOut, Rooms3
<1> SUFFICES ASSUME c \notin closed
             PROVE  /\ c \in Present' <=>
                          \E n \in 1 .. N : Last(c, n, InOut)' /\ outcome'[c][n] = "enrolled"
                    /\ c \in Present' =>
                          \E n \in 1 .. N :
                             /\ Last(c, n, Rooms3)'
                             /\ sessions'[c].room =
                                   IF outcome'[c][n] = "moved" THEN requests[c][n].room ELSE NoRoom
  BY <1>2, <1>3 DEF Knows
<1>6. /\ c \in Present <=> \E n \in 1 .. N : Last(c, n, InOut) /\ outcome[c][n] = "enrolled"
      /\ c \in Present =>
            \E n \in 1 .. N :
               /\ Last(c, n, Rooms3)
               /\ sessions[c].room =
                     IF outcome[c][n] = "moved" THEN requests[c][n].room ELSE NoRoom
  BY <1>2 DEF Knows
<1>7. what \notin InOut /\ (c \in Present <=> c \in Present') =>
         (c \in Present' <=>
            \E n \in 1 .. N : Last(c, n, InOut)' /\ outcome'[c][n] = "enrolled")
  BY <1>4, <1>6
<1>8. CASE what = "enrolled"
  <2>1. c \in Present' /\ sessions'[c].room = NoRoom
    BY <1>8 DEF SessionStep
  <2>2. Last(c, N, InOut)' /\ Last(c, N, Rooms3)'
    BY <1>4, <1>5, <1>8
  <2>3. QED
    BY <1>2, <1>8, <2>1, <2>2
<1>9. CASE what = "dismissed"
  <2>1. c \notin Present'
    BY <1>9 DEF SessionStep
  <2>2. \A n : Last(c, n, InOut)' => outcome'[c][n] # "enrolled"
    BY <1>2, <1>4, <1>9
  <2>3. QED
    BY <2>1, <2>2
<1>10. CASE what = "moved"
  <2>1. c \in Present /\ c \in Present' /\ sessions'[c].room = requests[c][N].room
    BY <1>3, <1>10 DEF SessionStep
  <2>2. Last(c, N, Rooms3)'
    BY <1>5, <1>10
  <2>3. QED
    BY <1>2, <1>7, <1>10, <2>1, <2>2
<1>11. CASE what = "left"
  <2>1. /\ c \in Present <=> c \in Present'
        /\ c \in Present' => sessions'[c].room = NoRoom
    BY <1>11 DEF SessionStep
  <2>2. Last(c, N, Rooms3)'
    BY <1>5, <1>11
  <2>3. QED
    BY <1>2, <1>7, <1>11, <2>1, <2>2
<1>12. CASE what \in {"refused", "ignored"}
  <2>1. sessions' = sessions /\ Present' = Present
    BY <1>12 DEF SessionStep, Present
  <2>2. c \in Present' =>
           \E n \in 1 .. N :
              /\ Last(c, n, Rooms3)'
              /\ sessions'[c].room =
                    IF outcome'[c][n] = "moved" THEN requests[c][n].room ELSE NoRoom
    BY <1>5, <1>6, <1>12, <2>1
  <2>3. QED
    BY <1>7, <1>12, <2>1, <2>2
<1>13. QED
  BY <1>3, <1>8, <1>9, <1>10, <1>11, <1>12 DEF Outcomes

LEMMA KnowledgeInit == GInit => KnowledgeOK
<1>1. ASSUME GInit, NEW c \in Conns PROVE Knows(c)
  <2>1. c \notin Present /\ outcome[c] = <<>>
    BY <1>1 DEF GInit, DirectoryInit, Present
  <2>2. DOMAIN outcome[c] = {}
    BY <2>1
  <2>3. QED
    BY <2>1, <2>2 DEF Knows
<1>2. QED
  BY <1>1 DEF KnowledgeOK

LEMMA KnowledgeStep == GTypeOK /\ ReadersOK /\ KnowledgeOK /\ [GNext]_gvars => KnowledgeOK'
<1> SUFFICES ASSUME GTypeOK, ReadersOK, KnowledgeOK, [GNext]_gvars
             PROVE  KnowledgeOK'
  OBVIOUS
<1>0. \A d \in Conns : InStep(d) /\ Knows(d)
  BY DEF ReadersOK, KnowledgeOK
<1>q. ASSUME NEW c \in Conns, Knows(c)', Elsewhere(c), closed \subseteq closed',
             \A d \in Conns \ {c} : Untouched(d)
      PROVE  KnowledgeOK'
  BY <1>0, <1>q, KnowsKept DEF KnowledgeOK, Elsewhere
<1>s. UNCHANGED sessions => \A c \in Conns : Elsewhere(c)
  BY DEF Elsewhere, Present
<1>1. ASSUME NEW c \in Conns, NEW q \in Requests, Take(c, q) PROVE KnowledgeOK'
  <2>1. UNCHANGED <<sessions, closed>> /\ \A d \in Conns \ {c} : Untouched(d)
    BY <1>1, OthersUntouched DEF Take
  <2>2. Knows(c)'
    BY <1>0, <1>1, TakeKnows
  <2>3. QED
    BY <1>q, <1>s, <2>1, <2>2
<1>2. ASSUME NEW c \in Conns, NEW what, NEW rest, SessionStep(c, what, rest) PROVE KnowledgeOK'
  <2>1. UNCHANGED closed /\ Elsewhere(c) /\ \A d \in Conns \ {c} : Untouched(d)
    BY <1>2, OthersUntouched DEF SessionStep
  <2>2. Knows(c)'
    BY <1>0, <1>2, SessionKnows
  <2>3. QED
    BY <1>q, <2>1, <2>2
<1>3. ASSUME NEW c \in Conns, EndStep(c) PROVE KnowledgeOK'
  <2>1. closed' = closed \cup {c} /\ Elsewhere(c) /\ \A d \in Conns \ {c} : Untouched(d)
    BY <1>3, OthersUntouched DEF EndStep
  <2>2. Knows(c)'
    BY <2>1 DEF Knows
  <2>3. QED
    BY <1>q, <2>1, <2>2
<1>4. ASSUME UNCHANGED <<sessions, requests, outcome, closed>> PROVE KnowledgeOK'
  BY <1>4 DEF KnowledgeOK, Knows, Last, Present
<1>5. ASSUME \/ \E c \in Conns : \/ \E kind : ReplyStep(c, kind)
                                 \/ FailStep(c) \/ PushStep(c) \/ LogStep(c)
                                 \/ Vanish(c) \/ Clash(c)
             \/ \E p \in waiting : LookUp(p)
             \/ \E w \in sending : Deliver(w)
             \/ UNCHANGED gvars
      PROVE  UNCHANGED <<sessions, requests, outcome, closed>>
  BY <1>5 DEF ReplyStep, FailStep, PushStep, LogStep, Vanish, Clash, LookUp, Deliver, gvars
<1>6. QED
  BY <1>1, <1>2, <1>3, <1>4, <1>5, Shapes

-----------------------------------------------------------------------------
(* Whoever can be found has logged in *)

Enrolled == {c \in Conns : \E n \in DOMAIN outcome[c] : outcome[c][n] = "enrolled"}

(* A lookup finds connections that have logged in, though perhaps long ago; *)
(* hence a push goes to such a connection only.                             *)
EnrolledOK ==
    /\ Known \subseteq Enrolled
    /\ \A w \in sending : w.to \in Enrolled

LEMMA EnrolledInit == GInit => EnrolledOK
BY DEF GInit, DirectoryInit, EnrolledOK, Known, Present

(* A login is not forgotten. *)
LoginsStay == Enrolled \subseteq Enrolled'

LEMMA LoginsStayStep ==
    ASSUME GTypeOK, ReadersOK, [GNext]_gvars
    PROVE  LoginsStay
<1>1. ASSUME NEW c \in Conns, NEW q \in Requests, Take(c, q) PROVE LoginsStay
  <2>1. outcome[c] \in Seq(Outcomes)
    BY DEF GTypeOK, Outcomes
  <2>2. /\ DOMAIN outcome[c] = 1 .. Len(outcome[c]) /\ Len(outcome[c]) \in Nat
        /\ Grown(outcome[c], "nothing", outcome'[c])
        /\ \A d \in Conns \ {c} : outcome'[d] = outcome[d]
    BY <1>1, <2>1, Entries, Takes
  <2>3. QED
    BY <2>2 DEF LoginsStay, Enrolled, Grown
<1>2. ASSUME NEW c \in Conns, NEW what, NEW rest, SessionStep(c, what, rest) PROVE LoginsStay
  <2>1. PICK n : n = Len(requests[c])
    OBVIOUS
  <2>2. /\ DOMAIN outcome[c] = 1 .. n /\ DOMAIN outcome'[c] = 1 .. n
        /\ \A i \in 1 .. n : i # n => outcome'[c][i] = outcome[c][i]
        /\ \A d \in Conns \ {c} : outcome'[d] = outcome[d]
    BY <1>2, <2>1, Notes DEF ReadersOK
  <2>3. outcome[c][n] = "nothing"
    BY <1>2, <2>1 DEF SessionStep
  <2>4. QED
    BY <2>2, <2>3 DEF LoginsStay, Enrolled
<1>3. CASE UNCHANGED outcome
  BY <1>3 DEF LoginsStay, Enrolled
<1>4. ASSUME \/ \E c \in Conns : \/ \E kind : ReplyStep(c, kind)
                                 \/ FailStep(c) \/ PushStep(c) \/ LogStep(c) \/ EndStep(c)
                                 \/ Vanish(c) \/ Clash(c)
             \/ \E p \in waiting : LookUp(p)
             \/ \E w \in sending : Deliver(w)
             \/ UNCHANGED gvars
      PROVE  UNCHANGED outcome
  BY <1>4
  DEF ReplyStep, FailStep, PushStep, LogStep, EndStep, Vanish, Clash, LookUp, Deliver, gvars
<1>5. QED
  BY <1>1, <1>2, <1>3, <1>4, Shapes

LEMMA EnrolledStep ==
    GTypeOK /\ ReadersOK /\ PushesOK /\ EnrolledOK /\ [GNext]_gvars => EnrolledOK'
<1> SUFFICES ASSUME GTypeOK, ReadersOK, PushesOK, EnrolledOK, [GNext]_gvars
             PROVE  EnrolledOK'
  OBVIOUS
<1>0. Known \subseteq Enrolled' /\ \A w \in sending : w.to \in Enrolled'
  BY LoginsStayStep DEF EnrolledOK, LoginsStay
<1>1. CASE Known' \subseteq Known /\ sending' \subseteq sending
  BY <1>0, <1>1 DEF EnrolledOK
<1>2. ASSUME NEW c \in Conns, NEW what, NEW rest, SessionStep(c, what, rest) PROVE EnrolledOK'
  <2>1. /\ sending' = sending
        /\ \A d \in Known' : d \in Known \/ (d = c /\ what = "enrolled")
    BY <1>2 DEF SessionStep, outside
  <2>2. what = "enrolled" => c \in Enrolled'
    <3>1. PICK n : n = Len(requests[c])
      OBVIOUS
    <3>2. n \in Nat \ {0} /\ DOMAIN outcome'[c] = 1 .. n /\ outcome'[c][n] = what
      BY <1>2, <3>1, Notes DEF ReadersOK
    <3>3. QED
      BY <3>2 DEF Enrolled
  <2>3. QED
    BY <1>0, <2>1, <2>2 DEF EnrolledOK
<1>3. ASSUME NEW p \in waiting, LookUp(p) PROVE EnrolledOK'
  <2>1. Known' = Known /\ \A w \in sending' : w \in sending \/ w.to \in Known
    BY <1>3, LooksUp DEF LookUp, Known, Present
  <2>2. QED
    BY <1>0, <2>1 DEF EnrolledOK
<1>k. UNCHANGED directory => Known' = Known
  BY DEF Known, Present
<1>4. ASSUME \/ \E c \in Conns : \/ \E q \in Requests : Take(c, q)
                                 \/ \E kind : ReplyStep(c, kind)
                                 \/ FailStep(c) \/ PushStep(c) \/ LogStep(c)
                                 \/ Vanish(c) \/ Clash(c)
             \/ \E w \in sending : Deliver(w)
             \/ UNCHANGED gvars
      PROVE  UNCHANGED directory /\ sending' \subseteq sending
  BY <1>4
  DEF Take, ReplyStep, FailStep, PushStep, LogStep, Vanish, Clash, Deliver, gvars, outside
<1>5. ASSUME NEW c \in Conns, EndStep(c) PROVE Known' \subseteq Known /\ sending' \subseteq sending
  BY <1>5 DEF EndStep, outside
<1>6. QED
  BY <1>1, <1>2, <1>3, <1>k, <1>4, <1>5, Shapes

-----------------------------------------------------------------------------
(* What ends the process *)

LEMMA PanicInit == GInit => PanicNeedsAFault
BY DEF GInit, PanicNeedsAFault

LEMMA PanicStep ==
    GTypeOK /\ ReadersOK /\ EnrolledOK /\ PanicNeedsAFault /\ [GNext]_gvars
       => PanicNeedsAFault'
<1> SUFFICES ASSUME GTypeOK, ReadersOK, EnrolledOK, PanicNeedsAFault, [GNext]_gvars
             PROVE  PanicNeedsAFault'
  OBVIOUS
<1>1. CASE ~panicked /\ Logged
  BY <1>1 DEF PanicNeedsAFault, Logged
<1>2. CASE panic' = "error reply" /\ (format' = "json" => Unanswerable')
  BY <1>2 DEF PanicNeedsAFault
<1>3. ASSUME NEW c \in Conns, NEW q \in Requests, Take(c, q) PROVE PanicNeedsAFault'
  <2>1. requests'[c] # <<>> /\ Current(c)' = q /\ format' = format /\ ~panicked
    BY <1>3, TakenIs DEF ReadersOK, Take
  <2>2. CASE UNCHANGED panic
    BY <1>1, <2>1, <2>2 DEF Logged
  <2>3. CASE ~Readable(q) /\ FailToRead(q)
    <3>1. format = "json" => q.type = "malformed"
      BY <2>3 DEF Readable
    <3>2. format' = "json" => Unanswerable'
      BY <2>1, <3>1 DEF Unanswerable
    <3>3. panic' = "error reply" \/ Logged
      BY <2>3 DEF FailToRead, Logged
    <3>4. QED
      BY <1>1, <1>2, <2>1, <3>2, <3>3
  <2>4. QED
    BY <1>3, <2>2, <2>3 DEF Take
<1>4. ASSUME NEW c \in Conns, FailStep(c) PROVE PanicNeedsAFault'
  <2>1. /\ requests'[c] # <<>> /\ todo'[c] # <<>>
        /\ format' = "json" => c \in gone' \cup closed'
        /\ panic' = "error reply"
    BY <1>4 DEF FailStep, outside
  <2>2. QED
    BY <1>2, <2>1 DEF Unanswerable
<1>5. ASSUME NEW c \in Conns, Clash(c) PROVE PanicNeedsAFault'
  <2>1. PICK v \in sending :
           v.to = c /\ (Replying(c) \/ \E w \in sending : w.to = c /\ w.push # v.push)
    BY <1>5 DEF Clash
  <2>2. /\ UNCHANGED <<sending, todo, outcome, format>> /\ panic' = "concurrent write"
    BY <1>5 DEF Clash, outside
  <2>3. \E n \in DOMAIN outcome[c] : outcome[c][n] = "enrolled"
    BY <2>1 DEF EnrolledOK, Enrolled
  <2>4. Replying(c) => todo[c] # <<>>
    BY DEF Replying, AtStep
  <2>5. TwoWriters'
    BY <2>1, <2>2, <2>3, <2>4 DEF TwoWriters
  <2>6. QED
    BY <2>2, <2>5 DEF PanicNeedsAFault
<1>6. CASE UNCHANGED gvars
  <2>1. UNCHANGED <<panic, format, requests, todo, gone, closed, sending, outcome>>
    BY <1>6 DEF gvars, outside
  <2>2. (Unanswerable' <=> Unanswerable) /\ (TwoWriters' <=> TwoWriters)
    BY <2>1 DEF Unanswerable, TwoWriters, Current
  <2>3. panic \in PanicKinds
    BY DEF GTypeOK, PanicKinds
  <2>4. QED
    BY <2>1, <2>2, <2>3 DEF PanicNeedsAFault, PanicKinds
<1>7. ASSUME \/ \E c \in Conns : \/ \E what, rest : SessionStep(c, what, rest)
                                 \/ \E kind : ReplyStep(c, kind)
                                 \/ PushStep(c) \/ LogStep(c) \/ EndStep(c) \/ Vanish(c)
             \/ \E p \in waiting : LookUp(p)
             \/ \E w \in sending : Deliver(w)
      PROVE  ~panicked /\ Logged
  <2>1. CASE \E w \in sending : Deliver(w)
    BY <2>1, LogIsLogged DEF Deliver
  <2>2. CASE \E p \in waiting : LookUp(p)
    BY <2>2, LogIsLogged DEF LookUp
  <2>3. ASSUME NEW c \in Conns, \/ \E what, rest : SessionStep(c, what, rest)
                                \/ \E kind : ReplyStep(c, kind)
                                \/ PushStep(c) \/ LogStep(c) \/ EndStep(c) \/ Vanish(c)
        PROVE  ~panicked /\ Logged
    <3>1. UNCHANGED panic => Logged
      BY LogIsLogged
    <3>2. QED
      BY <2>3, <3>1 DEF SessionStep, ReplyStep, PushStep, LogStep, EndStep, Vanish
  <2>4. QED
    BY <1>7, <2>1, <2>2, <2>3
<1>8. QED
  BY <1>1, <1>3, <1>4, <1>5, <1>6, <1>7, Shapes

-----------------------------------------------------------------------------
(* A push is made once *)

(* c has received the push of request p. *)
Heard(c, p) == \E i \in DOMAIN received[c] : received[c][i].kind = "push" /\ received[c][i].of = p

(* The push of request p has been made. *)
IsOut(p) ==
    \/ p \in waiting
    \/ \E w \in sending : w.push = p
    \/ \E c \in Conns : Heard(c, p)

(* c's handler has still to push for the request it is at. *)
Unpushed(c) ==
    /\ todo[c] # <<>> /\ Current(c).type \in Pushers
    /\ Current(c).type \in Chats => Head(todo[c]) = "push"

(* What is waiting has not been looked up, and what is to be sent has not   *)
(* been received.                                                           *)
OnceOK ==
    /\ PushedAtMostOnce
    /\ \A w \in sending : w.push \notin waiting /\ ~Heard(w.to, w.push)
    /\ \A p \in waiting : \A c \in Conns : ~Heard(c, p)
    /\ \A c \in Conns : Unpushed(c) => ~IsOut(<<c, Len(requests[c])>>)

LEMMA OutIsAsked ==
    ASSUME GTypeOK, NEW p, IsOut(p)
    PROVE  p \in Asked
<1>1. waiting \subseteq Asked /\ \A w \in sending : w.push \in Asked
  BY DEF GTypeOK
<1>2. \A c \in Conns : Heard(c, p) => p \in Asked
  BY ReceivedIs DEF Heard
<1>3. QED
  BY <1>1, <1>2 DEF IsOut

(* What c hears of p, it had heard before, or has just been sent. *)
LEMMA HeardGrows ==
    ASSUME GTypeOK, NEW c \in Conns, NEW m, NEW k, k = Len(received[c]) + 1,
           Grown(received[c], m, received'[c])
    PROVE  /\ \A i \in DOMAIN received'[c] :
                 i = k \/ (i \in DOMAIN received[c] /\ received'[c][i] = received[c][i])
           /\ received'[c][k] = m
           /\ \A p : Heard(c, p)' => Heard(c, p) \/ (m.kind = "push" /\ m.of = p)
<1>1. /\ Len(received[c]) \in Nat /\ DOMAIN received[c] = 1 .. k - 1 /\ k \in Nat
      /\ DOMAIN received'[c] = 1 .. k /\ received'[c][k] = m
      /\ \A i \in 1 .. k - 1 : received'[c][i] = received[c][i]
  BY ReceivedIs DEF Grown
<1>2. \A i \in DOMAIN received'[c] :
         i = k \/ (i \in DOMAIN received[c] /\ received'[c][i] = received[c][i])
  BY <1>1
<1>3. QED
  BY <1>1, <1>2 DEF Heard

LEMMA OnceInit == GInit => OnceOK
<1>1. DOMAIN <<>> = {}
  OBVIOUS
<1>2. QED
  BY <1>1 DEF GInit, OnceOK, PushedAtMostOnce, Unpushed

(* The queues and the messages are as they were, and what was pushed for is *)
(* not to be pushed for again.                                              *)
LEMMA OnceKept ==
    ASSUME OnceOK, UNCHANGED <<received, waiting, sending>>,
           \A c \in Conns : Unpushed(c)' =>
              \/ Unpushed(c) /\ Len(requests'[c]) = Len(requests[c])
              \/ ~IsOut(<<c, Len(requests'[c])>>)
    PROVE  OnceOK'
<1>1. \A p : IsOut(p)' <=> IsOut(p)
  BY DEF IsOut, Heard
<1>2. \A c \in Conns : Unpushed(c)' => ~IsOut(<<c, Len(requests'[c])>>)
  BY DEF OnceOK
<1>3. ASSUME NEW c \in Conns, Unpushed(c)' PROVE ~IsOut(<<c, Len(requests[c])>>)'
  <2>1. PICK p : p = <<c, Len(requests'[c])>>
    OBVIOUS
  <2>2. ~IsOut(p)'
    BY <1>1, <1>2, <1>3, <2>1
  <2>3. QED
    BY <2>1, <2>2
<1>4. /\ PushedAtMostOnce'
      /\ \A w \in sending' : w.push \notin waiting' /\ ~Heard(w.to, w.push)'
      /\ \A p \in waiting' : \A c \in Conns : ~Heard(c, p)'
  BY DEF OnceOK, PushedAtMostOnce, Heard
<1>5. QED
  BY <1>3, <1>4 DEF OnceOK

(* An answer is no push. *)
LEMMA OnceReply ==
    ASSUME GTypeOK, ReadersOK, OnceOK, NEW c \in Conns, NEW kind, ReplyStep(c, kind)
    PROVE  OnceOK'
<1>1. PICK m, k : /\ m = [kind |-> kind, of |-> <<c, Len(requests[c])>>]
                  /\ k = Len(received[c]) + 1
  OBVIOUS
<1>2. m \in [kind : {"beat", "answer", "refusal", "push"}, of : Asked] /\ Hear(c, m)
  BY <1>1, CurrentIs DEF ReplyStep, AnswerKinds
<1>3. m.kind # "push"
  BY <1>1 DEF ReplyStep, AnswerKinds
<1>4. /\ Grown(received[c], m, received'[c])
      /\ \A d \in Conns \ {c} : received'[d] = received[d]
  BY <1>2, Hears
<1>5. /\ \A i \in DOMAIN received'[c] :
            i = k \/ (i \in DOMAIN received[c] /\ received'[c][i] = received[c][i])
      /\ received'[c][k] = m
      /\ \A p : Heard(c, p)' => Heard(c, p)
  BY <1>1, <1>3, <1>4, HeardGrows
<1>6. \A d \in Conns : \A p : Heard(d, p)' => Heard(d, p)
  BY <1>4, <1>5 DEF Heard
<1>7. UNCHANGED <<waiting, sending, requests>>
  BY DEF ReplyStep, outside
<1>8. \A p : IsOut(p)' => IsOut(p)
  BY <1>6, <1>7 DEF IsOut
<1>9. PushedAtMostOnce'
  <2>1. \A i, j \in DOMAIN received'[c] :
           received'[c][i].kind = "push" /\ received'[c][j] = received'[c][i] => i = j
    BY <1>3, <1>5 DEF OnceOK, PushedAtMostOnce
  <2>2. QED
    BY <1>4, <2>1 DEF OnceOK, PushedAtMostOnce
<1>10. \A d \in Conns : Unpushed(d)' => Unpushed(d)
  <2>1. \A d \in Conns \ {c} : Unpushed(d)' => Unpushed(d)
    BY OthersUntouched DEF Untouched, Unpushed, Current
  <2>2. ASSUME Unpushed(c)' PROVE Unpushed(c)
    <3>1. todo'[c] = Tail(todo[c]) /\ todo[c] # <<>>
      BY DEF ReplyStep, Pending, GTypeOK
    <3>2. Current(c).type \in Pushers /\ todo'[c] = <<"push">>
      BY <1>7, <2>2, <3>1 DEF ReplyStep, Unpushed, Current
    <3>a. <<"push">> # <<>>
      OBVIOUS
    <3>3. <<"push">> \in Remaining(Current(c).type)
      BY <3>1, <3>2, <3>a DEF ReplyStep
    <3>4. Current(c).type \in Movers
      BY <3>3, CurrentIs, RemainingFacts DEF ReplyStep
    <3>5. QED
      BY <3>1, <3>2, <3>4 DEF Unpushed, Movers, Chats
  <2>3. QED
    BY <2>1, <2>2
<1>11. ASSUME NEW d \in Conns, Unpushed(d)' PROVE ~IsOut(<<d, Len(requests[d])>>)'
  <2>1. PICK p : p = <<d, Len(requests[d])>>
    OBVIOUS
  <2>2. ~IsOut(p)'
    BY <1>8, <1>10, <1>11, <2>1 DEF OnceOK
  <2>3. QED
    BY <1>7, <2>1, <2>2
<1>12. \A w \in sending' : w.push \notin waiting' /\ ~Heard(w.to, w.push)'
  <2>1. \A w \in sending : w.to \in Conns
    BY DEF GTypeOK
  <2>2. QED
    BY <1>6, <1>7, <2>1 DEF OnceOK
<1>13. \A p \in waiting' : \A d \in Conns : ~Heard(d, p)'
  BY <1>6, <1>7 DEF OnceOK
<1>14. QED
  BY <1>9, <1>11, <1>12, <1>13 DEF OnceOK

(* A handler pushes for a request it has not pushed for. *)
LEMMA OncePush ==
    ASSUME GTypeOK, ReadersOK, OnceOK, NEW c \in Conns, PushStep(c)
    PROVE  OnceOK'
<1>1. PICK p : p = <<c, Len(requests[c])>>
  OBVIOUS
<1>2. /\ waiting' \subseteq waiting \cup {p} /\ UNCHANGED <<sending, received, requests>>
      /\ todo'[c] = Tail(todo[c])
  BY <1>1 DEF PushStep, GTypeOK
<1>3. Unpushed(c)
  BY DEF PushStep, Unpushed, Pushers
<1>4. ~IsOut(p)
  BY <1>1, <1>3 DEF OnceOK
<1>5. \A d \in Conns : \A q : Heard(d, q)' <=> Heard(d, q)
  BY <1>2 DEF Heard
<1>6. \A q : IsOut(q)' => IsOut(q) \/ q = p
  BY <1>2, <1>5 DEF IsOut
<1>7. ~Unpushed(c)'
  BY <1>2, Rests DEF PushStep, Unpushed, Current, Movers, Chats
<1>8. \A d \in Conns \ {c} : Unpushed(d)' => Unpushed(d)
  BY OthersUntouched DEF Untouched, Unpushed, Current
<1>9. ASSUME NEW d \in Conns, Unpushed(d)' PROVE ~IsOut(<<d, Len(requests[d])>>)'
  <2>1. PICK q : q = <<d, Len(requests[d])>>
    OBVIOUS
  <2>2. d # c /\ q # p
    BY <1>1, <1>7, <1>9, <2>1, OneNumber
  <2>3. ~IsOut(q)'
    BY <1>6, <1>8, <1>9, <2>1, <2>2 DEF OnceOK
  <2>4. QED
    BY <1>2, <2>1, <2>3
<1>10. PushedAtMostOnce'
  BY <1>2 DEF OnceOK, PushedAtMostOnce
<1>11. \A w \in sending' : w.push \notin waiting' /\ ~Heard(w.to, w.push)'
  BY <1>2, <1>4 DEF OnceOK, IsOut, Heard
<1>12. \A q \in waiting' : \A d \in Conns : ~Heard(d, q)'
  BY <1>2, <1>4, <1>5 DEF OnceOK, IsOut
<1>13. QED
  BY <1>9, <1>10, <1>11, <1>12 DEF OnceOK

(* A push is looked up once. *)
LEMMA OnceLookUp ==
    ASSUME GTypeOK, PushesOK, GTypeOK', OnceOK, NEW p \in waiting, LookUp(p)
    PROVE  OnceOK'
<1>1. /\ waiting' = waiting \ {p} /\ UNCHANGED <<received, requests, todo>>
      /\ \A w \in sending' : w \in sending \/ w.push = p
  BY LooksUp DEF LookUp
<1>2. \A c : \A q : Heard(c, q)' <=> Heard(c, q)
  BY <1>1 DEF Heard
<1>3. \A q : IsOut(q)' => IsOut(q)
  BY <1>1, <1>2 DEF IsOut
<1>4. ASSUME NEW d \in Conns, Unpushed(d)' PROVE ~IsOut(<<d, Len(requests[d])>>)'
  <2>1. PICK q : q = <<d, Len(requests[d])>>
    OBVIOUS
  <2>2. Unpushed(d)
    BY <1>1, <1>4 DEF Unpushed, Current
  <2>3. ~IsOut(q)'
    BY <1>3, <2>1, <2>2 DEF OnceOK
  <2>4. QED
    BY <1>1, <2>1, <2>3
<1>5. PushedAtMostOnce'
  BY <1>1 DEF OnceOK, PushedAtMostOnce
<1>6. \A q \in waiting' : \A d \in Conns : ~Heard(d, q)'
  BY <1>1, <1>2 DEF OnceOK
<1>7. \A w \in sending' : w.push \notin waiting' /\ ~Heard(w.to, w.push)'
  <2>1. \A w \in sending' : w.to \in Conns
    BY DEF GTypeOK
  <2>2. QED
    BY <1>1, <1>2, <2>1 DEF OnceOK
<1>8. QED
  BY <1>4, <1>5, <1>6, <1>7 DEF OnceOK

(* What is to be sent has not been received, and is then not to be sent. *)
LEMMA OnceDeliver ==
    ASSUME GTypeOK, OnceOK, NEW w \in sending, Deliver(w)
    PROVE  OnceOK'
<1>1. /\ sending' = sending \ {w} /\ UNCHANGED <<waiting, requests, todo>>
      /\ sending \subseteq [push : Asked, to : Conns]
  BY DEF Deliver, GTypeOK
<1>2. w.to \in Conns /\ w.push \in Asked /\ w.push \notin waiting /\ ~Heard(w.to, w.push)
  BY <1>1 DEF OnceOK
<1>3. /\ PushedAtMostOnce'
      /\ \A d \in Conns : \A q : Heard(d, q)' => Heard(d, q) \/ (d = w.to /\ q = w.push)
  <2>1. CASE UNCHANGED received
    BY <2>1 DEF OnceOK, PushedAtMostOnce, Heard
  <2>2. ASSUME Hear(w.to, [kind |-> "push", of |-> w.push])
        PROVE  /\ PushedAtMostOnce'
               /\ \A d \in Conns : \A q :
                     Heard(d, q)' => Heard(d, q) \/ (d = w.to /\ q = w.push)
    <3>1. PICK m, k, c : /\ m = [kind |-> "push", of |-> w.push] /\ c = w.to
                         /\ k = Len(received[c]) + 1
      OBVIOUS
    <3>2. m \in [kind : {"beat", "answer", "refusal", "push"}, of : Asked] /\ Hear(c, m)
          /\ c \in Conns
      BY <1>2, <2>2, <3>1
    <3>3. m.kind = "push" /\ m.of = w.push
      BY <3>1
    <3>4. /\ Grown(received[c], m, received'[c])
          /\ \A d \in Conns \ {c} : received'[d] = received[d]
      BY <3>2, Hears
    <3>5. /\ \A i \in DOMAIN received'[c] :
                i = k \/ (i \in DOMAIN received[c] /\ received'[c][i] = received[c][i])
          /\ received'[c][k] = m
          /\ \A q : Heard(c, q)' => Heard(c, q) \/ q = w.push
      BY <3>1, <3>2, <3>3, <3>4, HeardGrows
    <3>6. \A d \in Conns : \A q : Heard(d, q)' => Heard(d, q) \/ (d = w.to /\ q = w.push)
      BY <3>1, <3>4, <3>5 DEF Heard
    <3>7. \A i \in DOMAIN received[c] : received[c][i] # m
      BY <1>2, <3>1, <3>3 DEF Heard
    <3>8. \A i, j \in DOMAIN received'[c] :
             received'[c][i].kind = "push" /\ received'[c][j] = received'[c][i] => i = j
      BY <3>2, <3>5, <3>7 DEF OnceOK, PushedAtMostOnce
    <3>9. PushedAtMostOnce'
      BY <3>4, <3>8 DEF OnceOK, PushedAtMostOnce
    <3>10. QED
      BY <3>6, <3>9
  <2>3. QED
    BY <2>1, <2>2 DEF Deliver
<1>4. \A q : IsOut(q)' => IsOut(q)
  BY <1>1, <1>3 DEF IsOut
<1>5. ASSUME NEW d \in Conns, Unpushed(d)' PROVE ~IsOut(<<d, Len(requests[d])>>)'
  <2>1. PICK q : q = <<d, Len(requests[d])>>
    OBVIOUS
  <2>2. Unpushed(d)
    BY <1>1, <1>5 DEF Unpushed, Current
  <2>3. ~IsOut(q)'
    BY <1>4, <2>1, <2>2 DEF OnceOK
  <2>4. QED
    BY <1>1, <2>1, <2>3
<1>6. \A v \in sending' : v.push \notin waiting' /\ ~Heard(v.to, v.push)'
  <2>1. \A v \in sending : v.to = w.to /\ v.push = w.push => v = w
    BY <1>1
  <2>2. \A v \in sending : v.to \in Conns
    BY <1>1
  <2>3. QED
    BY <1>1, <1>3, <2>1, <2>2 DEF OnceOK
<1>7. \A q \in waiting' : \A d \in Conns : ~Heard(d, q)'
  BY <1>1, <1>2, <1>3 DEF OnceOK
<1>8. QED
  BY <1>3, <1>5, <1>6, <1>7 DEF OnceOK

LEMMA OnceStep ==
    GTypeOK /\ GTypeOK' /\ ReadersOK /\ PushesOK /\ OnceOK /\ [GNext]_gvars => OnceOK'
<1> SUFFICES ASSUME GTypeOK, GTypeOK', ReadersOK, PushesOK, OnceOK, [GNext]_gvars
             PROVE  OnceOK'
  OBVIOUS
<1>1. ASSUME NEW c \in Conns, NEW q \in Requests, Take(c, q) PROVE OnceOK'
  <2>1. UNCHANGED <<received, waiting, sending>>
    BY <1>1 DEF Take, outside
  <2>2. \A d \in Conns \ {c} : Unpushed(d)' =>
           Unpushed(d) /\ Len(requests'[d]) = Len(requests[d])
    BY <1>1, OthersUntouched DEF Untouched, Unpushed, Current
  <2>3. ~IsOut(<<c, Len(requests'[c])>>)
    <3>1. PICK n : n = Len(requests'[c])
      OBVIOUS
    <3>2. n \notin DOMAIN requests[c]
      BY <1>1, <3>1, TakenIs DEF ReadersOK
    <3>3. PICK p : p = <<c, n>>
      OBVIOUS
    <3>4. p \notin Asked
      BY <3>2, <3>3, AskedBy, OneNumber
    <3>5. ~IsOut(p)
      BY <3>4, OutIsAsked
    <3>6. QED
      BY <3>1, <3>3, <3>5
  <2>4. QED
    BY <2>1, <2>2, <2>3, OnceKept
<1>2. ASSUME NEW c \in Conns, NEW what, NEW rest, SessionStep(c, what, rest) PROVE OnceOK'
  <2>1. /\ UNCHANGED <<received, waiting, sending, requests>>
        /\ todo'[c] = rest /\ Head(rest) \in {"answer", "refuse"} /\ todo[c] # <<>>
    BY <1>2 DEF SessionStep, outside, Pending, GTypeOK
  <2>2. \A d \in Conns \ {c} : Unpushed(d)' => Unpushed(d)
    BY <1>2, OthersUntouched DEF Untouched, Unpushed, Current
  <2>3. Unpushed(c)' => Unpushed(c)
    BY <2>1 DEF Unpushed, Current
  <2>4. QED
    BY <2>1, <2>2, <2>3, OnceKept
<1>3. ASSUME UNCHANGED <<received, waiting, sending, requests, todo>> PROVE OnceOK'
  <2>1. \A c \in Conns : Unpushed(c)' => Unpushed(c)
    BY <1>3 DEF Unpushed, Current
  <2>2. QED
    BY <1>3, <2>1, OnceKept
<1>4. ASSUME \/ \E c \in Conns : FailStep(c) \/ EndStep(c) \/ Vanish(c) \/ Clash(c)
             \/ UNCHANGED gvars
      PROVE  UNCHANGED <<received, waiting, sending, requests, todo>>
  BY <1>4 DEF FailStep, EndStep, Vanish, Clash, gvars, outside
<1>g. ASSUME NEW c \in Conns, LogStep(c) PROVE OnceOK'
  <2>1. UNCHANGED <<received, waiting, sending, requests>> /\ Current(c).type = "game action"
    BY <1>g DEF LogStep, outside
  <2>2. \A d \in Conns \ {c} : Unpushed(d)' => Unpushed(d)
    BY <1>g, OthersUntouched DEF Untouched, Unpushed, Current
  <2>3. ~Unpushed(c)'
    BY <2>1 DEF Unpushed, Current, Pushers, Movers, Chats
  <2>4. QED
    BY <2>1, <2>2, <2>3, OnceKept
<1>5. QED
  BY <1>g, <1>1, <1>2, <1>3, <1>4, OnceReply, OncePush, OnceLookUp, OnceDeliver, Shapes

-----------------------------------------------------------------------------
(* Theorems *)

GInv ==
    /\ GTypeOK /\ ReadersOK /\ AnswersOK /\ PushesOK /\ KnowledgeOK /\ EnrolledOK
    /\ AnswerPrecedesOwnPush /\ PanicNeedsAFault

LEMMA InvariantInit == GInit => GInv
BY GTypeInit, ReadersInit, AnswersInit, PushesInit, KnowledgeInit, PrecedenceInit,
   EnrolledInit, PanicInit
DEF GInv

LEMMA InvariantStep == GInv /\ [GNext]_gvars => GInv'
BY GTypeStep, ReadersStep, AnswersStep, PushesStep, KnowledgeStep, PrecedenceStep,
   EnrolledStep, PanicStep
DEF GInv

LEMMA GatewayInvariant == GSpec => []GInv
BY InvariantInit, InvariantStep, PTL DEF GSpec

(* Every variable keeps its type, and whatever the gateway has answered, is *)
(* about to push or has pushed is about a request some reader has taken:    *)
(* router.go makes up no messages of its own.                               *)
THEOREM GTypeCorrect == GSpec => []GTypeOK
<1>1. GInv => GTypeOK
  BY DEF GInv
<1>2. QED
  BY <1>1, GatewayInvariant, PTL

(* A client gets one answer to each of its requests, in their order, and    *)
(* lacks at most the last one's, while the reader of server.go handles it:  *)
(* a sequential reader and handlers that each answer once, by a success, a  *)
(* refusal or an echo, make the msg_id redundant.                           *)
THEOREM AnswersMatchRequests == GSpec => []EveryRequestAnswered
<1>1. GInv => EveryRequestAnswered
  BY DEF GInv, AnswersOK, AnsweredInOrder, EveryRequestAnswered, Pending
<1>2. QED
  BY <1>1, GatewayInvariant, PTL

(* Whoever joins or leaves a room gets the answer before any push about it, *)
(* whichever worker of the broadcaster picks the push up and whatever else  *)
(* happens: handleJoinRoom and handleLeaveRoom answer, then broadcast.      *)
THEOREM AnswersPrecedePushes == GSpec => []AnswerPrecedesOwnPush
<1>1. GInv => AnswerPrecedesOwnPush
  BY DEF GInv
<1>2. QED
  BY <1>1, GatewayInvariant, PTL

(* A client whose connection is open and who waits for nothing can tell     *)
(* from its answers whether it has a session and in which room: logins,     *)
(* logouts, joins and leaves of router.go change no session but their own,  *)
(* and whatever else does closes the connection.                            *)
THEOREM AnswersTellTheSession == GSpec => []ClientKnowsItsSession
<1>1. GInv => ClientKnowsItsSession
  BY DEF GInv, KnowledgeOK, Knows, ClientKnowsItsSession
<1>2. QED
  BY <1>1, GatewayInvariant, PTL

(* In the default format, and with the Loggers set, the process ends only   *)
(* on a malformed request, on an answer that cannot reach its client, or on *)
(* two writes that meet in one connection, which has logged in: the         *)
(* sendError of server.go and the sendMessage of broadcaster.go.            *)
THEOREM PanicsHaveAFault == GSpec => []PanicNeedsAFault
<1>1. GInv => PanicNeedsAFault
  BY DEF GInv
<1>2. QED
  BY <1>1, GatewayInvariant, PTL

(* A client receives a push about a request once at most, though the        *)
(* readers hand pushes to a pool of workers and each worker looks up its    *)
(* addressees when it comes to it: a handler of router.go broadcasts once,  *)
(* processBroadcastMessage looks up once and writes once to each.           *)
THEOREM PushesComeOnce == GSpec => []PushedAtMostOnce
<1>1. GInit => GInv /\ OnceOK
  BY InvariantInit, OnceInit
<1>2. GInv /\ OnceOK /\ [GNext]_gvars => (GInv /\ OnceOK)'
  BY InvariantStep, OnceStep DEF GInv
<1>3. OnceOK => PushedAtMostOnce
  BY DEF OnceOK
<1>4. QED
  BY <1>1, <1>2, <1>3, PTL DEF GSpec

=============================================================================
