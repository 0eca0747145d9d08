------------------------------ MODULE Gateway ------------------------------
(***************************************************************************)
(* api-gateway: the way of a request from JwtMiddleware and ValidationPipe *)
(* through its controller to a service and back (ProxyService), and what   *)
(* the controllers and HttpGlobalExceptionFilter make of an error.  A      *)
(* photo upload is piped, anything else is sent with axios, which has no   *)
(* timeout.                                                                *)
(*                                                                         *)
(* Of a service it has what it answers (service) and, apart from that, how *)
(* far its handler has come (work): most handlers are awaited, that of a   *)
(* swipe is not, and that of a registration may do nothing and succeed.    *)
(* The process of the gateway is not started again.                        *)
(***************************************************************************)

CONSTANTS
    Req,    \* requests to the gateway
    Faults  \* TRUE: connections to the services, and the services, may fail

ASSUME FaultsAssumption == Faults \in BOOLEAN

VARIABLES
    route,    \* route[r]: the endpoint
    token,    \* token[r]: verifyToken accepts its token
    body,     \* body[r]: its body satisfies the DTO; a swipe's has a known type
    pc,       \* pc[r]: where the gateway is with it
    service,  \* service[r]: whether the service behind has it, and its answer
    work,     \* work[r]: how far the service's handler has come
    answer    \* answer[r]: the status the client was sent

inputVars == <<route, token, body>>
serviceVars == <<service, work>>
vars == <<inputVars, pc, serviceVars, answer>>

(* The endpoints, controller by controller. *)
AuthRoute == {"register", "login", "google", "google/mobile", "google/callback"}
UserRoute == {"my-profile", "profile", "update", "update-photos", "delete", "fcm-token"}
SwipeRoute == {"action", "unread"}
FeedRoute == {"get"}
Route == AuthRoute \cup UserRoute \cup SwipeRoute \cup FeedRoute

Validated == {"register", "login", "update"}     \* whose DTOs have rules
Redirects == {"google", "google/callback"}
Streamed == {"update-photos"}

(* Those whose success does not say that something was done: see Register   *)
(* and AcceptSwipe.                                                         *)
Unconfirmed == {"register", "action"}

PC == {"idle", "verify", "forwarded", "streaming", "done", "hanging", "cut"}
Service == {"none", "working", "succeeded", "refused"}
Work == {"none", "floating", "done", "dropped"}
Answer == {"none", "ok", "redirect", "badRequest", "unauthorized", "badGateway",
           "internal", "relayed"}

TypeOK ==
    /\ route \in [Req -> Route]
    /\ token \in [Req -> BOOLEAN]
    /\ body \in [Req -> BOOLEAN]
    /\ pc \in [Req -> PC]
    /\ service \in [Req -> Service]
    /\ work \in [Req -> Work]
    /\ answer \in [Req -> Answer]

Init ==
    /\ route \in [Req -> Route]
    /\ token \in [Req -> BOOLEAN]
    /\ body \in [Req -> BOOLEAN]
    /\ pc = [r \in Req |-> "idle"]
    /\ service = [r \in Req |-> "none"]
    /\ work = [r \in Req |-> "none"]
    /\ answer = [r \in Req |-> "none"]

Up == \A r \in Req : pc[r] # "cut"

Goto(r, p) == pc' = [pc EXCEPT ![r] = p]
Send(r, a) == answer' = [answer EXCEPT ![r] = a] /\ Goto(r, "done")

-----------------------------------------------------------------------------
(* ValidationPipe on a DTO with rules, then the controller: a redirect is  *)
(* answered on the spot.                                                   *)
Handle(r) ==
    \/ /\ route[r] \in Validated /\ ~body[r]
       /\ Send(r, "badRequest")
       /\ UNCHANGED serviceVars
    \/ /\ route[r] \in Redirects
       /\ Send(r, "redirect")
       /\ UNCHANGED serviceVars
    \/ /\ route[r] \notin Redirects /\ (route[r] \in Validated => body[r])
       /\ service' = [service EXCEPT ![r] = "working"]
       /\ Goto(r, "forwarded")
       /\ UNCHANGED <<work, answer>>

(* JwtMiddleware is for the routes under "user". *)
Receive(r) ==
    /\ Up
    /\ pc[r] = "idle"
    /\ \/ route[r] \in UserRoute /\ Goto(r, "verify") /\ UNCHANGED <<serviceVars, answer>>
       \/ route[r] \notin UserRoute /\ Handle(r)
    /\ UNCHANGED inputVars

(* Mutant: a bad token is logged and nothing more. *)
VerifySwallows(r) ==
    /\ pc[r] = "verify"
    /\ token[r]
    /\ Handle(r)
    /\ UNCHANGED inputVars

(* await verifyToken *)
Verify(r) ==
    /\ pc[r] = "verify"
    /\ \/ ~token[r] /\ Send(r, "unauthorized") /\ UNCHANGED serviceVars
       \/ token[r] /\ Handle(r)
    /\ UNCHANGED inputVars

(* GlobalMiddleware refuses a bad token once more, but auth-service has    *)
(* none; user-service has no route user/delete/<id>.                       *)
Refuses(r) == route[r] = "delete" \/ (route[r] \notin AuthRoute /\ ~token[r])

(* The service of r takes a step, for which the gateway may no longer be   *)
(* waiting: it answers a, and its handler is then at w.                    *)
Result(r, a, w) ==
    /\ service[r] = "working"
    /\ service' = [service EXCEPT ![r] = a]
    /\ work' = [work EXCEPT ![r] = w]
    /\ UNCHANGED <<inputVars, pc, answer>>

(* A handler that is awaited: it answers when it has run to its end.       *)
Serve(r) ==
    /\ ~Refuses(r)
    /\ route[r] \notin Unconfirmed
    /\ Result(r, "succeeded", "done")

(* createUser answers a token or, having done nothing, a message: to       *)
(* register, both are data.                                                *)
Register(r) ==
    /\ route[r] = "register"
    /\ \E w \in {"done", "none"} : Result(r, "succeeded", w)

(* handleSwipe starts a handler, if it knows the type, and returns.        *)
AcceptSwipe(r) ==
    /\ ~Refuses(r)
    /\ route[r] = "action"
    /\ Result(r, "succeeded", IF body[r] THEN "floating" ELSE "none")

(* The handler that handleSwipe has left behind ends, or fails: nobody is  *)
(* told.                                                                   *)
EndSwipe(r) ==
    /\ work[r] = "floating"
    /\ \/ work' = [work EXCEPT ![r] = "done"]
       \/ Faults /\ work' = [work EXCEPT ![r] = "dropped"]
    /\ UNCHANGED <<inputVars, pc, service, answer>>

(* A handler answers with an error.  When a late step of it failed, the    *)
(* others stay done.                                                       *)
Refuse(r) ==
    \/ Result(r, "refused", "none")
    \/ /\ Faults
       /\ ~Refuses(r)
       /\ route[r] # "action"
       /\ Result(r, "refused", "done")

-----------------------------------------------------------------------------
(* What becomes of an error that forwardRequest throws: most controllers   *)
(* catch it; what they do not, the filter takes for an internal error.     *)
ErrorAnswer(r) ==
    CASE route[r] = "login" -> "unauthorized"
      [] route[r] \in {"google/mobile", "fcm-token"} -> "internal"
      [] OTHER -> "badGateway"

(* Mutant: forwardRequest does not throw again. *)
ReplySwallows(r) ==
    /\ pc[r] = "forwarded"
    /\ route[r] \notin Streamed
    /\ service[r] \in {"succeeded", "refused"}
    /\ Send(r, "ok")
    /\ UNCHANGED <<inputVars, serviceVars>>

(* axios resolves or, for a status that is an error, rejects. *)
Reply(r) ==
    /\ pc[r] = "forwarded"
    /\ route[r] \notin Streamed
    /\ \/ service[r] = "succeeded" /\ Send(r, "ok")
       \/ service[r] = "refused" /\ Send(r, ErrorAnswer(r))
    /\ UNCHANGED <<inputVars, serviceVars>>

(* Mutant: the status is taken from the body. *)
PipeHeadOfBody(r) ==
    /\ pc[r] = "forwarded"
    /\ route[r] \in Streamed
    /\ service[r] \in {"succeeded", "refused"}
    /\ answer' = [answer EXCEPT ![r] = service[r]]
    /\ Goto(r, "streaming")
    /\ UNCHANGED <<inputVars, serviceVars>>

(* forwardStreamRequest: writeHead with the service's status, pipe, end. *)
PipeHead(r) ==
    /\ pc[r] = "forwarded"
    /\ route[r] \in Streamed
    /\ service[r] \in {"succeeded", "refused"}
    /\ answer' = [answer EXCEPT ![r] = IF service[r] = "succeeded" THEN "ok" ELSE "relayed"]
    /\ Goto(r, "streaming")
    /\ UNCHANGED <<inputVars, serviceVars>>

PipeEnd(r) ==
    /\ pc[r] = "streaming"
    /\ Goto(r, "done")
    /\ UNCHANGED <<inputVars, serviceVars, answer>>

-----------------------------------------------------------------------------
(* The process dies with every request it is handling. *)
Die ==
    pc' = [r \in Req |-> IF pc[r] \in {"verify", "forwarded", "streaming"} THEN "cut" ELSE pc[r]]

(* Mutant: no 'error' listener on proxyReq, whose errors then kill. *)
ConnectionLostUnheard(r) ==
    /\ Faults
    /\ pc[r] = "forwarded"
    /\ \/ route[r] \in Streamed /\ Die /\ UNCHANGED answer
       \/ route[r] \notin Streamed /\ Send(r, ErrorAnswer(r))
    /\ \/ UNCHANGED service
       \/ service[r] = "working" /\ service' = [service EXCEPT ![r] = "none"]
    /\ UNCHANGED <<inputVars, work>>

(* The connection fails before the answer begins.  The service may not     *)
(* have had the request, or may have it, or have done it.                  *)
ConnectionLost(r) ==
    /\ Faults
    /\ pc[r] = "forwarded"
    /\ Send(r, ErrorAnswer(r))
    /\ \/ UNCHANGED service
       \/ service[r] = "working" /\ service' = [service EXCEPT ![r] = "none"]
    /\ UNCHANGED <<inputVars, work>>

(* Mutant: the listener's 502 goes out after the head. *)
PipeResetAnswered(r) ==
    /\ Faults
    /\ pc[r] = "streaming"
    /\ Send(r, "badGateway")
    /\ UNCHANGED <<inputVars, serviceVars>>

(* It is reset after the head: the listener sets a status and a header on  *)
(* a response that has been sent, which throws in an event handler.        *)
PipeReset(r) ==
    /\ Faults
    /\ pc[r] = "streaming"
    /\ Die
    /\ UNCHANGED <<inputVars, serviceVars, answer>>

(* It is closed after the head: proxyReq has no error, and the pipe does   *)
(* not end the response.                                                   *)
PipeClosed(r) ==
    /\ Faults
    /\ pc[r] = "streaming"
    /\ Goto(r, "hanging")
    /\ UNCHANGED <<inputVars, serviceVars, answer>>

Advance(r) == Verify(r) \/ Reply(r) \/ PipeHead(r) \/ PipeEnd(r)
ServiceAnswers(r) == Serve(r) \/ Register(r) \/ AcceptSwipe(r) \/ Refuse(r)

Next ==
    \E r \in Req :
        \/ Receive(r) \/ Advance(r) \/ ServiceAnswers(r) \/ EndSwipe(r)
        \/ ConnectionLost(r) \/ PipeReset(r) \/ PipeClosed(r)

(* The event loop runs on, and the services answer. *)
Fairness == \A r \in Req : WF_vars(Advance(r)) /\ WF_vars(ServiceAnswers(r))

Spec == Init /\ [][Next]_vars
FairSpec == Spec /\ Fairness

-----------------------------------------------------------------------------
(* What a client can take from an answer, however late it is and whatever  *)
(* fails.  Success: the handler has run to its end, and for somebody with  *)
(* a token unless it is to get one; but a swipe has only been started, if  *)
(* its type was known, and may be dropped yet, and a registration may have *)
(* done nothing.  A bad request, or a token found bad: nothing was done    *)
(* and nothing will be.  A status passed on: the service has refused.      *)
Allowed(r) == route[r] \in AuthRoute \/ token[r]

AnswersAreTrue ==
    \A r \in Req :
        /\ answer[r] = "ok" =>
              /\ service[r] = "succeeded" /\ Allowed(r)
              /\ route[r] \notin Unconfirmed => work[r] = "done"
              /\ route[r] = "action" /\ body[r] => work[r] # "none"
        /\ answer[r] = "badRequest" => service[r] = "none" /\ work[r] = "none"
        /\ answer[r] = "unauthorized" /\ route[r] # "login" =>
              service[r] = "none" /\ work[r] = "none"
        /\ answer[r] = "relayed" => service[r] = "refused"

(* Nothing is ever done for a token that is not good.                      *)
DoneForTheAllowed == \A r \in Req : work[r] # "none" => Allowed(r)

(* Requests do not hurt one another, but for one: nobody loses their       *)
(* connection unless an upload does after the head of its answer.          *)
CutTogether ==
    \A r \in Req : pc[r] = "cut" =>
        \E u \in Req : route[u] \in Streamed /\ pc[u] = "cut" /\ answer[u] # "none"

(* Every request is answered to the end as long as the process lives, but  *)
(* for an upload whose service closes the connection half way.             *)
EveryoneIsAnswered ==
    \A r \in Req :
        pc[r] # "idle" ~> \/ pc[r] = "done"
                          \/ ~Up
                          \/ route[r] \in Streamed /\ pc[r] = "hanging" /\ answer[r] # "none"

(* What the last property rests on.  Whoever the gateway is waiting with   *)
(* is waited for by a service that has the request; whoever it is done     *)
(* with has an answer; and a process that died is waiting with nobody.     *)
NobodyWaitsInVain ==
    \A r \in Req :
        /\ pc[r] = "forwarded" => service[r] # "none" /\ answer[r] = "none"
        /\ pc[r] \in {"done", "hanging"} => answer[r] # "none"
        /\ pc[r] = "hanging" => route[r] \in Streamed
        /\ ~Up => pc[r] \in {"idle", "done", "hanging", "cut"}

(* A request is answered once, by a process that lives: no status is taken *)
(* back when a connection fails or the service is late.                    *)
AnsweredOnce ==
    [][\A r \in Req : answer'[r] # answer[r] => answer[r] = "none" /\ Up]_vars
=============================================================================
