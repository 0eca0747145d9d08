---------------------------- MODULE GatewayProofs ----------------------------
(***************************************************************************)
(* The safety properties of Gateway, proved for every number of requests,  *)
(* with or without faults.  Untouched and Finished are what the answers    *)
(* rest on: a service hears of a request only from the controller, and its *)
(* success tells how far its handler has come.                             *)
(***************************************************************************)
EXTENDS Gateway, TLAPS

(* What has happened to a request at each stage. *)
Untouched == \A r \in Req : pc[r] \in {"idle", "verify"} => service[r] = "none"
Unanswered == \A r \in Req : pc[r] \in {"idle", "verify", "forwarded"} => answer[r] = "none"
HeadSent == \A r \in Req : pc[r] = "streaming" => route[r] \in Streamed /\ answer[r] # "none"

Unbegun == \A r \in Req : service[r] \in {"none", "working"} => work[r] = "none"

(* What has been done once a service has answered with success. *)
Finished ==
    \A r \in Req : service[r] = "succeeded" =>
        /\ Allowed(r)
        /\ route[r] \notin Unconfirmed => work[r] = "done"
        /\ route[r] = "action" /\ body[r] => work[r] # "none"

Inv ==
    /\ TypeOK
    /\ Untouched /\ Unanswered /\ HeadSent /\ Unbegun /\ Finished
    /\ DoneForTheAllowed
    /\ AnswersAreTrue
    /\ CutTogether

LEMMA InitInv == Init => Inv
  BY DEF Init, Inv, TypeOK, PC, serviceVars, Service, Work, Answer, Untouched, Unanswered,
         HeadSent, Unbegun, Finished, Allowed, DoneForTheAllowed, AnswersAreTrue, CutTogether

(* Where one request goes on and keeps off "cut", whoever was cut still is. *)
LEMMA CutKept ==
    ASSUME Inv, NEW r \in Req, NEW p \in PC \ {"cut"}, pc[r] # "cut", pc' = [pc EXCEPT ![r] = p],
           \A u \in Req : pc[u] = "cut" => answer'[u] = answer[u],
           UNCHANGED route
    PROVE  CutTogether'
<1> SUFFICES ASSUME NEW q \in Req, pc'[q] = "cut"
             PROVE  \E u \in Req : route'[u] \in Streamed /\ pc'[u] = "cut" /\ answer'[u] # "none"
  BY DEF CutTogether
<1>1. pc[q] = "cut"
  BY DEF Inv, TypeOK
<1>2. PICK u \in Req : route[u] \in Streamed /\ pc[u] = "cut" /\ answer[u] # "none"
  BY <1>1 DEF Inv, CutTogether
<1> QED
  BY <1>2 DEF Inv, TypeOK

-----------------------------------------------------------------------------
(* One lemma per action. *)

(* A request is admitted: from "idle" if there is no token to verify, and  *)
(* from "verify" if it was good.                                           *)
LEMMA HandleInv ==
    ASSUME Inv, NEW r \in Req, pc[r] \in {"idle", "verify"}, Handle(r), UNCHANGED inputVars
    PROVE  Inv'
<1>1. CASE Send(r, "badRequest") /\ UNCHANGED serviceVars
  <2>1. CutTogether'
    BY <1>1, CutKept DEF Send, Goto, inputVars, serviceVars, Inv, TypeOK, PC
  <2> QED
    BY <1>1, <2>1 DEF Send, Goto, inputVars, Inv, TypeOK, PC, serviceVars, Service, Work, Answer,
                      Untouched, Unanswered, HeadSent, Unbegun, Finished, Allowed,
                      DoneForTheAllowed, AnswersAreTrue
<1>2. CASE Send(r, "redirect") /\ UNCHANGED serviceVars
  <2>1. CutTogether'
    BY <1>2, CutKept DEF Send, Goto, inputVars, serviceVars, Inv, TypeOK, PC
  <2> QED
    BY <1>2, <2>1 DEF Send, Goto, inputVars, Inv, TypeOK, PC, serviceVars, Service, Work, Answer,
                      Untouched, Unanswered, HeadSent, Unbegun, Finished, Allowed,
                      DoneForTheAllowed, AnswersAreTrue
<1>3. CASE /\ service' = [service EXCEPT ![r] = "working"]
           /\ Goto(r, "forwarded")
           /\ UNCHANGED <<work, answer>>
  <2>1. CutTogether'
    BY <1>3, CutKept DEF Goto, inputVars, serviceVars, Inv, TypeOK, PC
  <2> QED
    BY <1>3, <2>1 DEF Goto, inputVars, Inv, TypeOK, PC, serviceVars, Service, Work, Answer,
                      Untouched, Unanswered, HeadSent, Unbegun, Finished, Allowed,
                      DoneForTheAllowed, AnswersAreTrue
<1> QED
  BY <1>1, <1>2, <1>3 DEF Handle

LEMMA ReceiveInv == ASSUME Inv, NEW r \in Req, Receive(r) PROVE Inv'
<1>1. CASE Goto(r, "verify") /\ UNCHANGED <<serviceVars, answer>>
  <2>1. CutTogether'
    BY <1>1, CutKept DEF Receive, Goto, inputVars, serviceVars, Inv, TypeOK, PC
  <2> QED
    BY <1>1, <2>1 DEF Receive, Goto, inputVars, serviceVars, Inv, TypeOK, PC, Untouched,
                      Unanswered, HeadSent, Unbegun, Finished, Allowed, DoneForTheAllowed,
                      AnswersAreTrue
<1>2. CASE Handle(r)
  BY <1>2, HandleInv DEF Receive
<1> QED
  BY <1>1, <1>2 DEF Receive

LEMMA VerifyInv == ASSUME Inv, NEW r \in Req, Verify(r) PROVE Inv'
<1>1. CASE Send(r, "unauthorized") /\ UNCHANGED serviceVars
  <2>1. CutTogether'
    BY <1>1, CutKept DEF Verify, Send, Goto, inputVars, serviceVars, Inv, TypeOK, PC
  <2> QED
    BY <1>1, <2>1 DEF Verify, Send, Goto, inputVars, Inv, TypeOK, PC, serviceVars, Service, Work,
                      Answer, Untouched, Unanswered, HeadSent, Unbegun, Finished, Allowed,
                      DoneForTheAllowed, AnswersAreTrue
<1>2. CASE Handle(r)
  BY <1>2, HandleInv DEF Verify
<1> QED
  BY <1>1, <1>2 DEF Verify

(* No answer of a service, and nothing it does, contradicts an answer of   *)
(* the gateway, for a service is asked once and before that one.           *)
LEMMA ResultInv ==
    ASSUME Inv, NEW r \in Req, NEW a \in {"succeeded", "refused"}, NEW w \in Work, Result(r, a, w),
           w # "none" => Allowed(r),
           a = "succeeded" => /\ Allowed(r)
                              /\ route[r] \notin Unconfirmed => w = "done"
                              /\ route[r] = "action" /\ body[r] => w # "none"
    PROVE  Inv'
<1>1. service[r] = "working" /\ work[r] = "none"
  BY DEF Result, Inv, Unbegun
<1>2. TypeOK' /\ Untouched' /\ Unanswered' /\ HeadSent' /\ CutTogether'
  BY <1>1 DEF Result, inputVars, serviceVars, Inv, TypeOK, Service, Work, Untouched, Unanswered,
              HeadSent, CutTogether
<1>3. Unbegun' /\ Finished' /\ DoneForTheAllowed'
  BY <1>1 DEF Result, inputVars, serviceVars, Inv, TypeOK, Unbegun, Finished, Allowed,
              DoneForTheAllowed
<1>4. AnswersAreTrue'
  BY <1>1 DEF Result, inputVars, serviceVars, Inv, TypeOK, Allowed, AnswersAreTrue
<1> QED
  BY <1>2, <1>3, <1>4 DEF Inv

LEMMA ServiceAnswersInv == ASSUME Inv, NEW r \in Req, ServiceAnswers(r) PROVE Inv'
<1> USE DEF Work
<1>1. CASE Serve(r)
  BY <1>1, ResultInv DEF Serve, Refuses, Allowed, Unconfirmed
<1>2. CASE Register(r)
  BY <1>2, ResultInv DEF Register, Allowed, Unconfirmed, AuthRoute
<1>3. CASE AcceptSwipe(r)
  BY <1>3, ResultInv DEF AcceptSwipe, Refuses, Allowed, Unconfirmed
<1>4. CASE Refuse(r)
  BY <1>4, ResultInv DEF Refuse, Refuses, Allowed
<1> QED
  BY <1>1, <1>2, <1>3, <1>4 DEF ServiceAnswers

(* A floating handler was started for a swipe that is allowed. *)
LEMMA EndSwipeInv == ASSUME Inv, NEW r \in Req, EndSwipe(r) PROVE Inv'
  BY DEF EndSwipe, inputVars, serviceVars, Inv, TypeOK, Work, Untouched, Unanswered, HeadSent,
         Unbegun, Finished, Allowed, DoneForTheAllowed, AnswersAreTrue, CutTogether

LEMMA ErrorFact ==
    ASSUME NEW r \in Req
    PROVE  /\ ErrorAnswer(r) \in {"unauthorized", "internal", "badGateway"}
           /\ ErrorAnswer(r) = "unauthorized" => route[r] = "login"
  BY DEF ErrorAnswer

(* An answer a that is true of what the service has made of the request. *)
LEMMA AnsweredInv ==
    ASSUME Inv, NEW r \in Req, pc[r] = "forwarded",
           NEW a \in {"ok", "unauthorized", "internal", "badGateway"}, Send(r, a),
           a = "ok" => service[r] = "succeeded",
           a = "unauthorized" => route[r] = "login",
           \/ UNCHANGED service
           \/ service[r] = "working" /\ a # "ok" /\ service' = [service EXCEPT ![r] = "none"],
           UNCHANGED <<inputVars, work>>
    PROVE  Inv'
<1>1. CutTogether'
  BY CutKept DEF Send, Goto, inputVars, serviceVars, Inv, TypeOK, PC
<1>2. TypeOK' /\ Untouched' /\ Unanswered' /\ HeadSent' /\ Unbegun' /\ Finished' /\ DoneForTheAllowed'
  BY DEF Send, Goto, inputVars, Inv, TypeOK, PC, serviceVars, Service, Work, Answer, Untouched,
         Unanswered, HeadSent, Unbegun, Finished, Allowed, DoneForTheAllowed
<1>3. AnswersAreTrue'
  BY DEF Send, Goto, inputVars, serviceVars, Inv, TypeOK, Unbegun, Finished, Allowed,
         DoneForTheAllowed, AnswersAreTrue
<1> QED
  BY <1>1, <1>2, <1>3 DEF Inv

LEMMA ReplyInv == ASSUME Inv, NEW r \in Req, Reply(r) PROVE Inv'
<1>1. CASE service[r] = "succeeded" /\ Send(r, "ok")
  BY <1>1, AnsweredInv DEF Reply, serviceVars
<1>2. CASE service[r] = "refused" /\ Send(r, ErrorAnswer(r))
  BY <1>2, AnsweredInv, ErrorFact DEF Reply, serviceVars
<1> QED
  BY <1>1, <1>2 DEF Reply

LEMMA ConnectionLostInv == ASSUME Inv, NEW r \in Req, ConnectionLost(r) PROVE Inv'
  BY AnsweredInv, ErrorFact DEF ConnectionLost

LEMMA PipeHeadInv == ASSUME Inv, NEW r \in Req, PipeHead(r) PROVE Inv'
<1>1. CutTogether'
  BY CutKept DEF PipeHead, Goto, inputVars, serviceVars, Inv, TypeOK, PC
<1> QED
  BY <1>1 DEF PipeHead, Goto, inputVars, Inv, TypeOK, PC, serviceVars, Service, Work, Answer,
              Untouched, Unanswered, HeadSent, Unbegun, Finished, Allowed, DoneForTheAllowed,
              AnswersAreTrue

LEMMA PipeStopsInv ==
    ASSUME Inv, NEW r \in Req, PipeEnd(r) \/ PipeClosed(r)
    PROVE  Inv'
<1>1. CutTogether'
  BY CutKept DEF PipeEnd, PipeClosed, Goto, inputVars, serviceVars, Inv, TypeOK, PC
<1> QED
  BY <1>1 DEF PipeEnd, PipeClosed, Goto, inputVars, serviceVars, Inv, TypeOK, PC, Untouched,
              Unanswered, HeadSent, Unbegun, Finished, Allowed, DoneForTheAllowed, AnswersAreTrue

(* The upload itself is the one whose head was sent. *)
LEMMA PipeResetInv == ASSUME Inv, NEW r \in Req, PipeReset(r) PROVE Inv'
<1>1. route'[r] \in Streamed /\ pc'[r] = "cut" /\ answer'[r] # "none"
  BY DEF PipeReset, Die, inputVars, serviceVars, Inv, TypeOK, HeadSent
<1>2. CutTogether'
  BY <1>1 DEF CutTogether
<1> QED
  BY <1>2 DEF PipeReset, Die, inputVars, serviceVars, Inv, TypeOK, PC, Untouched, Unanswered,
              HeadSent, Unbegun, Finished, Allowed, DoneForTheAllowed, AnswersAreTrue

LEMMA NextInv == Inv /\ [Next]_vars => Inv'
<1> SUFFICES ASSUME Inv, [Next]_vars PROVE Inv'
  OBVIOUS
<1>1. ASSUME NEW r \in Req, Receive(r) \/ Advance(r) PROVE Inv'
  BY <1>1, ReceiveInv, VerifyInv, ReplyInv, PipeHeadInv, PipeStopsInv
     DEF Advance
<1>2. ASSUME NEW r \in Req, ConnectionLost(r) \/ PipeReset(r) \/ PipeClosed(r) PROVE Inv'
  BY <1>2, ConnectionLostInv, PipeResetInv, PipeStopsInv
<1>3. ASSUME NEW r \in Req, ServiceAnswers(r) \/ EndSwipe(r) PROVE Inv'
  BY <1>3, ServiceAnswersInv, EndSwipeInv
<1>4. CASE UNCHANGED vars
  BY <1>4 DEF vars, inputVars, serviceVars, Inv, TypeOK, Untouched, Unanswered, HeadSent, Unbegun,
              Finished, Allowed, DoneForTheAllowed, AnswersAreTrue, CutTogether
<1> QED
  BY <1>1, <1>2, <1>3, <1>4 DEF Next

LEMMA Invariance == Spec => []Inv
  BY InitInv, NextInv, PTL DEF Spec

-----------------------------------------------------------------------------
(* Requests, services and answers keep their types. *)
THEOREM TypeCorrect == Spec => []TypeOK
<1>1. Inv => TypeOK
  BY DEF Inv
<1> QED
  BY <1>1, Invariance, PTL

(* Whatever fails and however late the answer: success was the service's,  *)
(* and says that the handler has run to its end where it is awaited, that  *)
(* it was started for a swipe, and nothing for a registration; what the    *)
(* gateway has refused is not done and will not be.                        *)
THEOREM Truthful == Spec => []AnswersAreTrue
<1>1. Inv => AnswersAreTrue
  BY DEF Inv
<1> QED
  BY <1>1, Invariance, PTL

(* JwtMiddleware is for the user routes, GlobalMiddleware for all services *)
(* but one: between them nothing is done without a good token but what is  *)
(* done to get one.                                                        *)
THEOREM OnlyForTheAllowed == Spec => []DoneForTheAllowed
<1>1. Inv => DoneForTheAllowed
  BY DEF Inv
<1> QED
  BY <1>1, Invariance, PTL

(* Only an upload that fails after its head cuts others off. *)
THEOREM OnlyUploadsCut == Spec => []CutTogether
<1>1. Inv => CutTogether
  BY DEF Inv
<1> QED
  BY <1>1, Invariance, PTL
-----------------------------------------------------------------------------
(* A process that lives when it does something is either alive afterwards  *)
(* or was killed with all it was handling.                                 *)
LEMMA WaitingKept ==
    ASSUME Inv, NobodyWaitsInVain, NEW r \in Req, NEW p \in PC \ {"cut"}, Up,
           pc[r] # "cut", pc' = [pc EXCEPT ![r] = p],
           \A u \in Req \ {r} : service'[u] = service[u] /\ answer'[u] = answer[u],
           p = "forwarded" => service'[r] # "none" /\ answer'[r] = "none",
           p \in {"done", "hanging"} => answer'[r] # "none",
           p = "hanging" => route[r] \in Streamed,
           UNCHANGED route
    PROVE  NobodyWaitsInVain' /\ Up'
<1>1. Up'
  BY DEF Up, Inv, TypeOK
<1> QED
  BY <1>1 DEF NobodyWaitsInVain, Inv, TypeOK

LEMMA AtWorkIsUp ==
    ASSUME NobodyWaitsInVain, NEW r \in Req, pc[r] \in {"verify", "forwarded", "streaming"}
    PROVE  Up
  BY DEF NobodyWaitsInVain

LEMMA HandleWaits ==
    ASSUME Inv, NobodyWaitsInVain, Up, NEW r \in Req, pc[r] \in {"idle", "verify"}, Handle(r),
           UNCHANGED inputVars
    PROVE  NobodyWaitsInVain'
<1>0. answer[r] = "none"
  BY DEF Inv, Unanswered
<1>1. CASE (Send(r, "badRequest") \/ Send(r, "redirect")) /\ UNCHANGED serviceVars
  BY <1>1, WaitingKept DEF Send, Goto, inputVars, serviceVars, Inv, TypeOK, PC
<1>2. CASE /\ service' = [service EXCEPT ![r] = "working"]
           /\ Goto(r, "forwarded")
           /\ UNCHANGED <<work, answer>>
  BY <1>0, <1>2, WaitingKept DEF Goto, inputVars, serviceVars, Inv, TypeOK, PC
<1> QED
  BY <1>1, <1>2 DEF Handle

LEMMA AnswerWaits ==
    ASSUME Inv, NobodyWaitsInVain, NEW r \in Req, pc[r] \in {"verify", "forwarded"},
           NEW a \in Answer \ {"none"}, Send(r, a), UNCHANGED inputVars,
           \A u \in Req \ {r} : service'[u] = service[u]
    PROVE  NobodyWaitsInVain'
  BY WaitingKept, AtWorkIsUp DEF Send, Goto, inputVars, serviceVars, Inv, TypeOK, PC

LEMMA NextWaits == Inv /\ NobodyWaitsInVain /\ [Next]_vars => NobodyWaitsInVain'
<1> SUFFICES ASSUME Inv, NobodyWaitsInVain, [Next]_vars PROVE NobodyWaitsInVain'
  OBVIOUS
<1> USE DEF inputVars, serviceVars, PC
<1>1. ASSUME NEW r \in Req, Receive(r) PROVE NobodyWaitsInVain'
  <2>1. CASE Goto(r, "verify") /\ UNCHANGED <<serviceVars, answer>>
    BY <1>1, <2>1, WaitingKept DEF Receive, Goto
  <2>2. CASE Handle(r)
    BY <1>1, <2>2, HandleWaits DEF Receive
  <2> QED
    BY <1>1, <2>1, <2>2 DEF Receive
<1>2. ASSUME NEW r \in Req, Verify(r) PROVE NobodyWaitsInVain'
  <2>1. CASE Send(r, "unauthorized") /\ UNCHANGED serviceVars
    BY <1>2, <2>1, AnswerWaits DEF Verify, Answer
  <2>2. CASE Handle(r)
    BY <1>2, <2>2, HandleWaits, AtWorkIsUp
       DEF Verify
  <2> QED
    BY <1>2, <2>1, <2>2 DEF Verify
<1>3. ASSUME NEW r \in Req, Reply(r) PROVE NobodyWaitsInVain'
  BY <1>3, AnswerWaits, ErrorFact DEF Reply, Answer
<1>4. ASSUME NEW r \in Req, ConnectionLost(r) PROVE NobodyWaitsInVain'
  <2>1. \A u \in Req \ {r} : service'[u] = service[u]
    BY <1>4 DEF ConnectionLost, Inv, TypeOK
  <2> QED
    BY <1>4, <2>1, AnswerWaits, ErrorFact
       DEF ConnectionLost, Answer
<1>5. ASSUME NEW r \in Req, PipeHead(r) PROVE NobodyWaitsInVain'
  BY <1>5, WaitingKept, AtWorkIsUp DEF PipeHead, Goto, Inv, TypeOK
<1>6. ASSUME NEW r \in Req, PipeEnd(r) \/ PipeClosed(r) PROVE NobodyWaitsInVain'
  BY <1>6, WaitingKept, AtWorkIsUp DEF PipeEnd, PipeClosed, Goto, Inv, TypeOK, HeadSent
<1>7. ASSUME NEW r \in Req, PipeReset(r) PROVE NobodyWaitsInVain'
  BY <1>7 DEF PipeReset, Die, NobodyWaitsInVain, Inv, TypeOK
<1>8. ASSUME NEW r \in Req, ServiceAnswers(r) \/ EndSwipe(r) PROVE NobodyWaitsInVain'
  BY <1>8 DEF ServiceAnswers, Serve, Register, AcceptSwipe, Refuse, Result, EndSwipe,
              NobodyWaitsInVain, Up, Inv, TypeOK
<1>9. CASE UNCHANGED vars
  BY <1>9 DEF vars, NobodyWaitsInVain, Up
<1> QED
  BY <1>1, <1>2, <1>3, <1>4, <1>5, <1>6, <1>7, <1>8, <1>9
     DEF Next, Advance

(* Behind every wait there is somebody to end it: the safety half of       *)
(* EveryoneIsAnswered.                                                     *)
THEOREM Awaited == Spec => []NobodyWaitsInVain
<1>1. Init => NobodyWaitsInVain
  BY DEF Init, NobodyWaitsInVain
<1> QED
  BY <1>1, NextWaits, Invariance, PTL DEF Spec

(* A request is answered at most once, and never by a process that died.   *)
THEOREM OneAnswer == Spec => AnsweredOnce
<1>1. Inv /\ NobodyWaitsInVain /\ [Next]_vars =>
          [\A r \in Req : answer'[r] # answer[r] => answer[r] = "none" /\ Up]_vars
  <2> SUFFICES ASSUME Inv, NobodyWaitsInVain, Next, NEW r \in Req, answer'[r] # answer[r]
               PROVE  answer[r] = "none" /\ Up
    OBVIOUS
  <2>1. PICK u \in Req : \/ Receive(u) \/ Advance(u) \/ ServiceAnswers(u) \/ EndSwipe(u)
                         \/ ConnectionLost(u) \/ PipeReset(u) \/ PipeClosed(u)
    BY DEF Next
  <2>2. u = r /\ pc[r] \in {"idle", "verify", "forwarded"}
    BY <2>1
       DEF Receive, Handle, Advance, Verify, Reply, PipeHead, PipeEnd, ServiceAnswers, Serve,
           Register, AcceptSwipe, Refuse, Result, EndSwipe, ConnectionLost, PipeReset, PipeClosed,
           Send, Goto, Inv, TypeOK
  <2>3. answer[r] = "none"
    BY <2>2 DEF Inv, Unanswered
  <2>4. pc[r] = "idle" => Up
    BY <2>1, <2>2
       DEF Receive, Advance, Verify, Reply, PipeHead, PipeEnd, ServiceAnswers, Serve, Register,
           AcceptSwipe, Refuse, Result, EndSwipe, ConnectionLost, PipeReset, PipeClosed
  <2> QED
    BY <2>2, <2>3, <2>4, AtWorkIsUp
<1> QED
  BY <1>1, Invariance, Awaited, PTL DEF Spec, AnsweredOnce
=============================================================================
