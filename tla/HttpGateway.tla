---------------------------- MODULE HttpGateway ----------------------------
(***************************************************************************)
(* The HTTP gateway (src/server/gateway_http) in front of the login and    *)
(* the user service (src/server/login, src/server/user): three processes   *)
(* that are clients of each other over gRPC.                               *)
(*                                                                         *)
(* An HTTP request is routed, parsed and validated, and either answered at *)
(* once or turned into one RPC; the login service answers a Logon only     *)
(* after an RPC of its own to the user service.  A call is lost when its   *)
(* service is down or crashes; its caller finds out by a timeout, which    *)
(* may also race with an answer that is on its way.                        *)
(*                                                                         *)
(* Names of services and methods are those of the requests; a method is    *)
(* named as strings.Title leaves it.  Requests and replies carry no data,  *)
(* for no decision depends on it.                                          *)
(***************************************************************************)
EXTENDS Naturals

CONSTANTS
    Requests,    \* HTTP requests, and direct calls of the login service
    Forms,       \* what clients may send, see Form
    MaxCrashes   \* bound: crashes of the three processes together

Processes == {"gateway", "login", "user"}

(* The service that implements each method; the name of a method names its  *)
(* call.                                                                    *)
LoginMethods == {"Logon", "Register", "ResetPassword", "SendVerifyCode",
                 "BindQuery", "CurrentGameQuery", "CheckUserStatus", "BanUser"}
UserMethods  == {"GetUserInfo"}

MethodsOf(service) ==
    CASE service = "login" -> LoginMethods
      [] service = "user"  -> UserMethods

Calls == {"Logon", "GetUserInfo", "Register"}

Host(call) == IF call \in UserMethods THEN "user" ELSE "login"

(* A request by its route, verb, the names in it and its data; "broken" is  *)
(* data that does not parse.  The service's name is given in lower case,    *)
(* with "capitals" telling whether the client wrote it otherwise.  Path     *)
(* "rpc" is a gRPC client of the login service itself.                      *)
Paths == {"/from/:name", "/login", "/api/generic", "/api/:service/:method",
          "/health", "rpc", "elsewhere"}

Form == [path : Paths, verb : {"GET", "POST", "PUT", "DELETE", "OPTIONS"},
         service : STRING, capitals : BOOLEAN, method : STRING, data : {"none", "good", "broken"}]

(* A gRPC client of the login service calls one of its methods. *)
ASSUME FormsAssumption ==
    /\ Forms \subseteq Form
    /\ \A f \in Forms : f.path = "rpc" => f.method \in Calls \cap LoginMethods
ASSUME MaxCrashesAssumption == MaxCrashes \in Nat

VARIABLES
    process,   \* each process: "down", "starting" or "up"
    crashes,   \* crashes so far
    form,      \* what each request is, once it was sent
    stage,     \* where its handler is: "new", "calling", "answered" or, when
               \* the gateway crashed, "cut"
    answer,    \* the answer of each request
    work,      \* each call made for a request, on the side of its service
    runs       \* history: how often each call was executed

hvars == <<process, crashes, form, stage, answer, work, runs>>

NoForm == [path |-> "elsewhere", verb |-> "GET", service |-> "", capitals |-> FALSE,
           method |-> "", data |-> "none"]

(* The codes of GenericResponse, 10000002 and 10000003, are "invalid" and   *)
(* "call error"; httpx.ErrorCtx answers "bad request" or, from /login, "rpc *)
(* error"; "timeout" is the 503 of the REST server.                         *)
Answers == {"none", "not served", "bad request", "fine", "invalid",
            "call error", "rpc error", "timeout", "success"}

(* A call is "sent", "running", for a Logon "asking" the user service, and  *)
(* has an answer, "done" or "failed", on its way back; "lost" it has none.  *)
Works == {"none", "sent", "running", "asking", "done", "failed", "lost"}

-----------------------------------------------------------------------------
(* From a request to its call *)

Routes ==
    {<<"GET", "/from/:name">>, <<"POST", "/login">>, <<"POST", "/api/generic">>,
     <<"GET", "/health">>}
    \cup {<<verb, "/api/:service/:method">> : verb \in {"GET", "POST", "PUT", "DELETE"}}

Served(f) == f.path = "rpc" \/ <<f.verb, f.path>> \in Routes

(* parseServiceMethodFromPath lowers the name and knows others of the two   *)
(* services; the generic handler takes it as it is.                         *)
ServiceOf(f) ==
    CASE f.path # "/api/:service/:method" -> IF f.capitals THEN "unknown" ELSE f.service
      [] OTHER ->
           CASE f.service \in {"login", "loginservice", "login_service"}       -> "login"
             [] f.service \in {"user", "userservice", "user_service", "users"} -> "user"
             [] OTHER                                                          -> f.service

(* A body is required by /login and the generic handler, any data by the    *)
(* RESTful one unless it is a GET, and one of two names by /from.           *)
Unparsable(f) ==
    \/ f.path \in {"/login", "/api/generic", "/from/:name"} /\ f.data # "good"
    \/ f.path = "/api/:service/:method" /\ f.verb # "GET" /\ f.data # "good"

(* validateRequest *)
Valid(f) == f.method # "" /\ ServiceOf(f) \in {"login", "user"}

(* callRPCMethod finds the method, buildRPCRequest its request type.        *)
Callable(f) ==
    /\ f.method \in MethodsOf(ServiceOf(f))
    /\ f.method \in {"Logon", "GetUserInfo"}

(* What becomes of a request before any call: its answer, or "call". *)
Verdict(f) ==
    CASE ~Served(f)                                     -> "not served"
      [] Served(f) /\ Unparsable(f)                     -> "bad request"
      [] Served(f) /\ f.path \in {"/health", "/from/:name"} /\ ~Unparsable(f) -> "fine"
      [] f.path \in {"/login", "rpc"} /\ Served(f) /\ ~Unparsable(f) -> "call"
      [] OTHER -> IF ~Valid(f) THEN "invalid"
                  ELSE IF Callable(f) THEN "call" ELSE "call error"

(* The call a request is turned into. *)
CallOf(f) == IF f.path = "/login" THEN "Logon" ELSE f.method

(* How a failed call is answered. *)
FailureOf(f) == IF f.path = "/login" THEN "rpc error" ELSE "call error"

-----------------------------------------------------------------------------
(* The processes *)

Launch(p) ==
    /\ process[p] = "down"
    /\ process' = [process EXCEPT ![p] = "starting"]
    /\ UNCHANGED <<crashes, form, stage, answer, work, runs>>

(* main: NewServiceContext makes a client of each peer, then the server     *)
(* listens.  The clients of a peer that is not there yet are made all the   *)
(* same.                                                                    *)
Start(p) ==
    /\ process[p] = "starting"
    /\ process' = [process EXCEPT ![p] = "up"]
    /\ UNCHANGED <<crashes, form, stage, answer, work, runs>>

(* MustNewClient or MustNewServer ends the process: no etcd, a taken port.  *)
StartFails(p) ==
    /\ process[p] = "starting"
    /\ process' = [process EXCEPT ![p] = "down"]
    /\ UNCHANGED <<crashes, form, stage, answer, work, runs>>

(* A crash loses the calls that run in the process, and the gateway's takes *)
(* its HTTP requests along.                                                 *)
Crash(p) ==
    /\ process[p] # "down" /\ crashes < MaxCrashes
    /\ process' = [process EXCEPT ![p] = "down"]
    /\ crashes' = crashes + 1
    /\ work' = [call \in Calls |-> [r \in Requests |->
          IF Host(call) = p /\ work[call][r] \in {"running", "asking"}
          THEN "lost" ELSE work[call][r]]]
    /\ stage' = [r \in Requests |->
          IF p = "gateway" /\ stage[r] = "calling" /\ form[r].path # "rpc"
          THEN "cut" ELSE stage[r]]
    /\ UNCHANGED <<form, answer, runs>>

-----------------------------------------------------------------------------
(* The handlers of the gateway.  Everything before the RPC touches no state *)
(* that others change and is one step.                                      *)

Set(call, r, w) == work' = [work EXCEPT ![call][r] = w]

Answer(r, a) ==
    /\ stage' = [stage EXCEPT ![r] = "answered"]
    /\ answer' = [answer EXCEPT ![r] = a]

(* The RPC is sent, or fails before: mapping.UnmarshalKey refuses the data, *)
(* or the circuit breaker of go-zero's client is open.                      *)
Invoke(r, f) ==
    \/ /\ Set(CallOf(f), r, "sent")
       /\ stage' = [stage EXCEPT ![r] = "calling"]
       /\ UNCHANGED answer
    \/ Answer(r, FailureOf(f)) /\ UNCHANGED work

Arrive(r, f) ==
    /\ stage[r] = "new"
    /\ f.path # "rpc" => process["gateway"] = "up"
    /\ form' = [form EXCEPT ![r] = f]
    /\ IF Verdict(f) = "call"
       THEN Invoke(r, f)
       ELSE Answer(r, Verdict(f)) /\ UNCHANGED work
    /\ UNCHANGED <<process, crashes, runs>>

Waiting(r) == stage[r] = "calling"

(* The RPC returns: its response is converted, its error is an answer too.  *)
TakeReply(r) ==
    LET call == CallOf(form[r])
    IN  /\ Waiting(r)
        /\ \/ work[call][r] = "done" /\ Answer(r, "success")
           \/ work[call][r] = "failed" /\ Answer(r, FailureOf(form[r]))
        /\ UNCHANGED <<process, crashes, form, work, runs>>

(* The RPC fails at its deadline, or at once when its connection breaks; a  *)
(* reply may be on its way.                                                 *)
CallTimeout(r) ==
    /\ Waiting(r)
    /\ Answer(r, FailureOf(form[r]))
    /\ UNCHANGED <<process, crashes, form, work, runs>>

(* The REST server's own timeout answers in the handler's stead.            *)
HttpTimeout(r) ==
    /\ Waiting(r) /\ form[r].path # "rpc"
    /\ Answer(r, "timeout")
    /\ UNCHANGED <<process, crashes, form, work, runs>>

-----------------------------------------------------------------------------
(* The services *)

(* The generated server handler runs the method. *)
Serve(call, r) ==
    /\ work[call][r] = "sent"
    /\ process[Host(call)] = "up"
    /\ Set(call, r, "running")
    /\ runs' = [runs EXCEPT ![call][r] = @ + 1]
    /\ UNCHANGED <<process, crashes, form, stage, answer>>

(* A call in transit is dropped: its service is down, or the network.  A    *)
(* reply that is dropped is no different from one that comes too late.      *)
Lose(call, r) ==
    /\ work[call][r] = "sent"
    /\ Set(call, r, "lost")
    /\ UNCHANGED <<process, crashes, form, stage, answer, runs>>

(* GetUserInfo, and the unfinished methods of the login service, answer     *)
(* without asking anyone.                                                   *)
Finish(call, r) ==
    /\ work[call][r] = "running" /\ call # "Logon"
    /\ Set(call, r, "done")
    /\ UNCHANGED <<process, crashes, form, stage, answer, runs>>

(* Logon calls GetUserInfo with an empty request. *)
AskUser(r) ==
    /\ work["Logon"][r] = "running"
    /\ \/ work' = [work EXCEPT !["Logon"][r] = "asking", !["GetUserInfo"][r] = "sent"]
       \/ Set("Logon", r, "failed")
    /\ UNCHANGED <<process, crashes, form, stage, answer, runs>>

(* Mutant: Logon goes on when GetUserInfo has failed. *)
UserTimeoutIgnored(r) ==
    /\ work["Logon"][r] = "asking"
    /\ Set("Logon", r, "done")
    /\ UNCHANGED <<process, crashes, form, stage, answer, runs>>

(* Mutant: the call to the user service has no deadline. *)
UserTimeoutNever(r) == FALSE /\ UserTimeoutIgnored(r)

UserAnswers(r) ==
    /\ work["Logon"][r] = "asking" /\ work["GetUserInfo"][r] = "done"
    /\ Set("Logon", r, "done")
    /\ UNCHANGED <<process, crashes, form, stage, answer, runs>>

(* GetUserInfo fails: its deadline, or that of the caller, whose context    *)
(* Logon passes on; Logon returns the error.                                *)
UserTimeout(r) ==
    /\ work["Logon"][r] = "asking"
    /\ Set("Logon", r, "failed")
    /\ UNCHANGED <<process, crashes, form, stage, answer, runs>>

-----------------------------------------------------------------------------
HInit ==
    /\ process = [p \in Processes |-> "starting"]
    /\ crashes = 0
    /\ form = [r \in Requests |-> NoForm]
    /\ stage = [r \in Requests |-> "new"]
    /\ answer = [r \in Requests |-> "none"]
    /\ work = [call \in Calls |-> [r \in Requests |-> "none"]]
    /\ runs = [call \in Calls |-> [r \in Requests |-> 0]]

Gateway(r) ==
    \/ \E f \in Forms : Arrive(r, f)
    \/ TakeReply(r) \/ CallTimeout(r) \/ HttpTimeout(r)

LogonLogic(r) == AskUser(r) \/ UserAnswers(r) \/ UserTimeout(r)

Service(call, r) == Serve(call, r) \/ Finish(call, r)

HNext ==
    \/ \E p \in Processes : Launch(p) \/ Start(p) \/ StartFails(p) \/ Crash(p)
    \/ \E r \in Requests : Gateway(r) \/ LogonLogic(r)
    \/ \E r \in Requests, call \in Calls : Service(call, r) \/ Lose(call, r)

HSpec == HInit /\ [][HNext]_hvars

(* Deadlines pass and a running handler takes its next step.  Nothing is    *)
(* assumed of the network, of who sends requests, or of who launches a      *)
(* process and whether it comes up.                                         *)
HFairness ==
    \A r \in Requests :
        /\ WF_hvars(CallTimeout(r))
        /\ WF_hvars(AskUser(r)) /\ WF_hvars(UserTimeout(r))
        /\ \A call \in Calls : WF_hvars(Finish(call, r))

FairHSpec == HSpec /\ HFairness

-----------------------------------------------------------------------------
(* Properties *)

(* Every variable has its type. *)
HTypeOK ==
    /\ process \in [Processes -> {"down", "starting", "up"}]
    /\ crashes \in 0 .. MaxCrashes
    /\ form \in [Requests -> Forms \cup {NoForm}]
    /\ stage \in [Requests -> {"new", "calling", "answered", "cut"}]
    /\ answer \in [Requests -> Answers]
    /\ \A r \in Requests : answer[r] = "none" <=> stage[r] # "answered"
    /\ work \in [Calls -> [Requests -> Works]]
    /\ runs \in [Calls -> [Requests -> Nat]]

(* A client that reads "success" can rely on it: its call was executed to   *)
(* the end, and a Logon only after the user service has answered for the    *)
(* same request, whatever crashed, was lost or timed out on the way.        *)
SuccessIsBacked ==
    \A r \in Requests : answer[r] = "success" =>
        LET call == CallOf(form[r])
        IN  /\ runs[call][r] > 0
            /\ call = "Logon" => runs["GetUserInfo"][r] > 0
            /\ work[call][r] = "done"

(* A request that waits for a service gets an answer even if the service is *)
(* down for good, unless the gateway itself crashes, and in the end leaves  *)
(* no handler behind, for good: neither its own nor, when the user service  *)
(* does not answer or nobody waits any more, that of the Logon.             *)
EveryWaitEnds ==
    \A r \in Requests : stage[r] = "calling" ~>
        [](/\ stage[r] \in {"answered", "cut"}
           /\ \A call \in Calls : work[call][r] \notin {"running", "asking"})

=============================================================================
