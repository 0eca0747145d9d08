------------------------ MODULE SwipePipelineProofs ------------------------
(***************************************************************************)
(* The safety properties of SwipePipeline, proved for every set of users   *)
(* and requests and with or without faults.  Everything rests on one       *)
(* inductive invariant, Inv, which ties the documents to the control state *)
(* of the handlers and follows a match event from place to place.          *)
(***************************************************************************)
EXTENDS SwipePipeline, TLAPS

(* How far a handler is, by the documents it has made and found and the    *)
(* like it still has to send.                                              *)
Stage ==
    \A r \in Req :
        /\ NotifyLike(r) \in pending => pc[r] = "emitLike"
        /\ r \in swipes => pc[r] \in {"findReverse", "emitLike", "done", "killed"}
        /\ pc[r] = "findReverse" => r \in swipes
        /\ isMatched[r] => /\ r \in swipes
                           /\ \E s \in swipes : Opposite(r, s)
                           /\ pc[r] \in {"emitLike", "done", "killed"}

(* The match of r is announced: somewhere there is its event, its handler  *)
(* or its document.                                                        *)
Traced(r) == MatchCreate(r) \in pending \cup matchQueue \/ r \in creating \cup matches

TraceIsMatched == \A r \in Req : Traced(r) => isMatched[r]
MatchedIsTraced == ~Faults => \A r \in Req : isMatched[r] => Traced(r)

Inv ==
    /\ TypeOK
    /\ Stage
    /\ MutualLikeDetected
    /\ TraceIsMatched
    /\ EventInOnePlace
    /\ MatchedIsTraced

-----------------------------------------------------------------------------
(* Facts about events. *)

LEMMA EventShape ==
    /\ \A e \in MatchEvent : e.by \in Req /\ e = MatchCreate(e.by)
    /\ \A r \in Req : /\ MatchCreate(r) \in MatchEvent
                      /\ MatchCreate(r) \notin NotifEvent
                      /\ MatchCreate(r).by = r
                      /\ NotifyLike(r) \in NotifEvent
                      /\ NotifyMatched(r) \in NotifEvent
                      /\ NotifyLike(r) \notin MatchEvent
    /\ \A r, s \in Req : MatchCreate(r) = MatchCreate(s) => r = s
    /\ \A r, s \in Req : NotifyLike(r) = NotifyLike(s) => r = s
    /\ \A r, s \in Req : /\ MatchCreate(r) # NotifyLike(s)
                         /\ MatchCreate(r) # NotifyMatched(s)
                         /\ NotifyLike(r) # NotifyMatched(s)
<1>1. \A e \in MatchEvent : e.by \in Req /\ e = MatchCreate(e.by)
  BY DEF MatchEvent, Event, MatchCreate
<1>2. \A r \in Req : /\ MatchCreate(r) \in MatchEvent
                     /\ NotifyLike(r) \in NotifEvent
                     /\ NotifyMatched(r) \in NotifEvent
  BY DEF MatchEvent, NotifEvent, Event, MatchCreate, NotifyLike, NotifyMatched
<1>3. \A r : /\ MatchCreate(r).by = r /\ NotifyLike(r).by = r
            /\ MatchCreate(r).pattern = "match.create"
            /\ NotifyLike(r).pattern = "notification_message"
            /\ NotifyMatched(r).pattern = "notification_matched"
  BY DEF MatchCreate, NotifyLike, NotifyMatched
<1>4. \A e \in NotifEvent : e.pattern # "match.create"
  BY DEF NotifEvent, Event
<1>5. \A e \in MatchEvent : e.pattern = "match.create"
  BY DEF MatchEvent, Event
<1>6. QED
  BY <1>1, <1>2, <1>3, <1>4, <1>5

LEMMA PongShape == Pong \notin MatchEvent /\ Pong \notin NotifEvent
<1>1. Pong.pattern = "pong"
  BY DEF Pong
<1>2. \A e \in MatchEvent \cup NotifEvent : e.pattern # "pong"
  BY DEF MatchEvent, NotifEvent, Event
<1>3. QED
  BY <1>1, <1>2

(* What MatchInTransit says of one request. *)
LEMMA InTransit ==
    ASSUME NEW Q, NEW C, NEW r \in Req
    PROVE  r \in {e.by : e \in {f \in Q : f \in MatchEvent}} \cup C
             <=> MatchCreate(r) \in Q \/ r \in C
<1>1. ASSUME NEW e \in MatchEvent, e.by = r
      PROVE  e = MatchCreate(r)
  BY <1>1, EventShape
<1>2. MatchCreate(r) \in MatchEvent /\ MatchCreate(r).by = r
  BY EventShape
<1>3. QED
  BY <1>1, <1>2

-----------------------------------------------------------------------------
(* Types. *)

(* A proxy keeps each event on the queue it is registered for. *)
LEMMA EnqueueType ==
    ASSUME BrokerTypeOK, NEW e \in MatchEvent \cup NotifEvent \cup {Pong}, Enqueue(e)
    PROVE  BrokerTypeOK'
BY PongShape DEF BrokerTypeOK, Enqueue

LEMMA TypeStep == TypeOK /\ [Next]_vars => TypeOK'
<1>. SUFFICES ASSUME TypeOK, [Next]_vars PROVE TypeOK'
  OBVIOUS
<1>. USE DEF TypeOK, SwipeTypeOK, MatchTypeOK
<1>1. CASE Start /\ UNCHANGED matchVars
  BY <1>1, EnqueueType DEF Start, matchVars
<1>2. ASSUME NEW r \in Req, Swipe(r), UNCHANGED matchVars
      PROVE  TypeOK'
  BY <1>2 DEF Swipe, matchVars, brokerVars, BrokerTypeOK, SwipePC, HandlerPC
<1>3. ASSUME NEW r \in Req, FindExisting(r), UNCHANGED matchVars
      PROVE  TypeOK'
  BY <1>3, EventShape
     DEF FindExisting, matchVars, brokerVars, BrokerTypeOK, SwipePC, HandlerPC
<1>4. ASSUME NEW r \in Req, CreateSwipe(r), UNCHANGED matchVars
      PROVE  TypeOK'
  BY <1>4 DEF CreateSwipe, matchVars, brokerVars, BrokerTypeOK, SwipePC, HandlerPC
<1>5. ASSUME NEW r \in Req, FindReverse(r), UNCHANGED matchVars
      PROVE  TypeOK'
  <2>. /\ pc' \in [Req -> SwipePC]
       /\ isMatched' \in [Req -> BOOLEAN]
    BY <1>5 DEF FindReverse, SwipePC, HandlerPC
  <2>. pending' \subseteq MatchEvent \cup NotifEvent
    BY <1>5, EventShape DEF FindReverse
  <2>. QED
    BY <1>5 DEF FindReverse, matchVars, brokerVars, BrokerTypeOK
<1>6. ASSUME NEW e \in pending, Publish(e), UNCHANGED matchVars
      PROVE  TypeOK'
  <2>. BrokerTypeOK'
    BY <1>6, EnqueueType DEF Publish
  <2>. pc' \in [Req -> SwipePC]
    BY <1>6 DEF Publish, SwipePC
  <2>. QED
    BY <1>6 DEF Publish, matchVars
<1>7. ASSUME NEW e \in pending, PublishFails(e), UNCHANGED matchVars
      PROVE  TypeOK'
  BY <1>7 DEF PublishFails, matchVars, brokerVars, BrokerTypeOK
<1>8. CASE Crash /\ UNCHANGED matchVars
  BY <1>8 DEF Crash, matchVars, brokerVars, BrokerTypeOK, SwipePC
<1>9. ASSUME NEW e \in matchQueue, Deliver(e), UNCHANGED swipeVars
      PROVE  TypeOK'
  BY <1>9, EventShape DEF Deliver, swipeVars, BrokerTypeOK
<1>10. ASSUME NEW r \in creating, CreateMatch(r), UNCHANGED swipeVars
       PROVE  TypeOK'
  BY <1>10 DEF CreateMatch, swipeVars, brokerVars, BrokerTypeOK
<1>11. CASE CreateMatchFails /\ UNCHANGED swipeVars
  BY <1>11 DEF CreateMatchFails, swipeVars, brokerVars, BrokerTypeOK
<1>12. CASE BrokerRestart /\ UNCHANGED <<swipeVars, matchVars>>
  BY <1>12 DEF BrokerRestart, swipeVars, matchVars, BrokerTypeOK
<1>13. CASE UNCHANGED vars
  BY <1>13 DEF vars, swipeVars, matchVars, brokerVars, BrokerTypeOK
<1>14. QED
  BY <1>1, <1>2, <1>3, <1>4, <1>5, <1>6, <1>7, <1>8, <1>9, <1>10, <1>11, <1>12, <1>13
     DEF Next, SwipeNext, MatchNext, Handle

(* Every variable of the pipeline keeps its type. *)
THEOREM TypeCorrect == Spec => []TypeOK
<1>1. Init => TypeOK
  BY DEF Init, SwipeInit, BrokerInit, MatchInit, TypeOK, SwipeTypeOK, BrokerTypeOK,
         MatchTypeOK, SwipePC
<1>2. QED
  BY <1>1, TypeStep, PTL DEF Spec

-----------------------------------------------------------------------------
(* The invariant. *)

(* Whether two requests are opposite is settled by their payloads. *)
LEMMA PayloadStays ==
    ASSUME payload' = payload
    PROVE  /\ \A r, s : Opposite(r, s)' = Opposite(r, s)
           /\ \A r, s : SamePair(r, s)' = SamePair(r, s)
BY DEF Opposite, SamePair, Likes

LEMMA OppositeSymmetric ==
    ASSUME TypeOK, NEW r \in Req, NEW s \in Req, Opposite(r, s)
    PROVE  Opposite(s, r)
BY DEF Opposite, Likes

(* An event that moves or vanishes leaves the handlers and the swipes alone; *)
(* what the invariant says of them is kept.                                  *)
LEMMA HandlersStay ==
    ASSUME Stage, MutualLikeDetected, UNCHANGED <<payload, pc, isMatched, swipes>>,
           pending' \subseteq pending
    PROVE  Stage' /\ MutualLikeDetected'
BY PayloadStays DEF Stage, MutualLikeDetected, Checked

LEMMA InvInit == Init => Inv
<1>. SUFFICES ASSUME Init PROVE Inv
  OBVIOUS
<1>. USE DEF Init, SwipeInit, BrokerInit, MatchInit
<1>1. TypeOK
  BY DEF TypeOK, SwipeTypeOK, BrokerTypeOK, MatchTypeOK, SwipePC
<1>2. Stage /\ MutualLikeDetected
  BY DEF Stage, MutualLikeDetected, Checked
<1>3. TraceIsMatched /\ EventInOnePlace /\ MatchedIsTraced
  BY DEF TraceIsMatched, EventInOnePlace, MatchedIsTraced, Traced
<1>4. QED
  BY <1>1, <1>2, <1>3 DEF Inv

LEMMA InvStep == Inv /\ [Next]_vars => Inv'
<1>. SUFFICES ASSUME Inv, [Next]_vars PROVE Inv'
  OBVIOUS
<1>. /\ TypeOK /\ TypeOK' /\ Stage /\ MutualLikeDetected
     /\ TraceIsMatched /\ EventInOnePlace /\ MatchedIsTraced
  BY TypeStep DEF Inv
<1>. DEFINE Handlers == Stage /\ MutualLikeDetected
            Events == TraceIsMatched /\ EventInOnePlace /\ MatchedIsTraced
<1>. HIDE DEF Handlers, Events
<1>. SUFFICES Handlers' /\ Events'
  BY DEF Inv, Handlers, Events
<1>. USE DEF Handlers, Events
<1>1. CASE Start /\ UNCHANGED matchVars
  <2>1. Handlers'
    BY <1>1, HandlersStay DEF Start
  <2>2. /\ UNCHANGED <<pending, isMatched, creating, matches>>
        /\ \A r \in Req : MatchCreate(r) \in matchQueue' <=> MatchCreate(r) \in matchQueue
    BY <1>1, EventShape, PongShape DEF Start, Enqueue, matchVars
  <2>3. QED
    BY <2>1, <2>2 DEF TraceIsMatched, EventInOnePlace, MatchedIsTraced, Traced
<1>2. ASSUME NEW r \in Req, Swipe(r), UNCHANGED matchVars
      PROVE  Handlers' /\ Events'
  <2>1. /\ pc[r] = "idle" /\ pc'[r] = "findExisting"
        /\ \A s \in Req \ {r} : pc'[s] = pc[s]
        /\ UNCHANGED <<payload, isMatched, swipes, pending, matchQueue, creating, matches>>
    BY <1>2 DEF Swipe, TypeOK, SwipeTypeOK, brokerVars, matchVars
  <2>2. Handlers'
    BY <2>1, PayloadStays DEF Stage, MutualLikeDetected, Checked
  <2>3. QED
    BY <2>1, <2>2 DEF TraceIsMatched, EventInOnePlace, MatchedIsTraced, Traced
<1>3. ASSUME NEW r \in Req, FindExisting(r), UNCHANGED matchVars
      PROVE  Handlers' /\ Events'
  <2>1. /\ pc[r] = "findExisting" /\ pc'[r] \in {"create", "emitLike"}
        /\ \A s \in Req \ {r} : pc'[s] = pc[s]
        /\ UNCHANGED <<payload, isMatched, swipes, matchQueue, creating, matches>>
        /\ \A s \in Req : MatchCreate(s) \in pending' <=> MatchCreate(s) \in pending
        /\ \A s \in Req : NotifyLike(s) \in pending'
                        => NotifyLike(s) \in pending \/ (s = r /\ pc'[r] = "emitLike")
    BY <1>3, EventShape DEF FindExisting, TypeOK, SwipeTypeOK, brokerVars, matchVars
  <2>2. r \notin swipes
    BY <2>1 DEF Stage
  <2>3. Handlers'
    BY <2>1, <2>2, PayloadStays DEF Stage, MutualLikeDetected, Checked
  <2>4. QED
    BY <2>1, <2>3 DEF TraceIsMatched, EventInOnePlace, MatchedIsTraced, Traced
<1>4. ASSUME NEW r \in Req, CreateSwipe(r), UNCHANGED matchVars
      PROVE  Handlers' /\ Events'
  <2>1. /\ pc[r] = "create" /\ pc'[r] = "findReverse"
        /\ \A s \in Req \ {r} : pc'[s] = pc[s]
        /\ swipes' = swipes \cup {r}
        /\ UNCHANGED <<payload, isMatched, pending, matchQueue, creating, matches>>
    BY <1>4 DEF CreateSwipe, TypeOK, SwipeTypeOK, brokerVars, matchVars
  <2>2. Handlers'
    BY <2>1, PayloadStays DEF Stage, MutualLikeDetected, Checked
  <2>3. QED
    BY <2>1, <2>2 DEF TraceIsMatched, EventInOnePlace, MatchedIsTraced, Traced
<1>5. ASSUME NEW r \in Req, FindReverse(r), UNCHANGED matchVars
      PROVE  Handlers' /\ Events'
  <2>1. /\ pc[r] = "findReverse" /\ pc'[r] = "emitLike"
        /\ \A s \in Req \ {r} : pc'[s] = pc[s] /\ isMatched'[s] = isMatched[s]
        /\ isMatched'[r] = (\E s \in swipes : Opposite(r, s))
        /\ UNCHANGED <<payload, swipes, matchQueue, creating, matches>>
    BY <1>5 DEF FindReverse, Reverse, TypeOK, SwipeTypeOK, brokerVars, matchVars
  <2>2. \A s \in Req : MatchCreate(s) \in pending'
                      <=> MatchCreate(s) \in pending \/ (s = r /\ isMatched'[r])
    BY <1>5, <2>1, EventShape DEF FindReverse, Reverse
  <2>3. r \in swipes /\ ~isMatched[r] /\ ~Traced(r)
    BY <2>1 DEF Stage, TraceIsMatched
  <2>4. Stage'
    <3>1. \A s \in Req : NotifyLike(s) \in pending' => pc'[s] = "emitLike"
      BY <1>5, <2>1, EventShape DEF FindReverse, Stage
    <3>2. QED
      BY <2>1, <2>3, <3>1, PayloadStays DEF Stage
  \* The one that looks last finds the other's document, its own being there.
  <2>5. MutualLikeDetected'
    <3>1. SUFFICES ASSUME NEW p \in Req, NEW q \in Req,
                          Checked(p)', Checked(q)', Opposite(p, q)
                   PROVE  isMatched'[p] \/ isMatched'[q]
      BY <2>1, PayloadStays DEF MutualLikeDetected
    <3>2. CASE p = r
      BY <2>1, <3>1, <3>2 DEF Checked
    <3>3. CASE q = r
      BY <2>1, <3>1, <3>3, OppositeSymmetric DEF Checked
    <3>4. CASE p # r /\ q # r
      BY <2>1, <3>1, <3>4 DEF MutualLikeDetected, Checked
    <3>5. QED
      BY <3>2, <3>3, <3>4
  <2>6. Events'
    BY <2>1, <2>2, <2>3 DEF TraceIsMatched, EventInOnePlace, MatchedIsTraced, Traced
  <2>7. QED
    BY <2>4, <2>5, <2>6
<1>6. ASSUME NEW e \in pending, Publish(e), UNCHANGED matchVars
      PROVE  Handlers' /\ Events'
  <2>1. /\ UNCHANGED <<payload, isMatched, swipes, creating, matches>>
        /\ pc' = [s \in Req |-> IF e = NotifyLike(s) THEN "done" ELSE pc[s]]
        /\ pending' = pending \ {e}
        /\ Enqueue(e)
        /\ e \in MatchEvent \cup NotifEvent
    BY <1>6 DEF Publish, matchVars, TypeOK, SwipeTypeOK
  \* Only a handler at its last await is moved, and only to its end.
  <2>2. \A s \in Req : pc'[s] = pc[s] \/ (pc[s] = "emitLike" /\ pc'[s] = "done")
    BY <2>1 DEF Stage
  <2>3. \A s \in Req : NotifyLike(s) \in pending' => pc'[s] = "emitLike"
    BY <2>1 DEF Stage
  <2>4. Stage'
    BY <2>1, <2>2, <2>3, PayloadStays DEF Stage
  <2>5. MutualLikeDetected'
    BY <2>1, <2>2, PayloadStays DEF MutualLikeDetected, Checked
  <2>6. \A s \in Req : MatchCreate(s) \in matchQueue'
                      <=> MatchCreate(s) \in matchQueue \/ MatchCreate(s) = e
    BY <2>1, EventShape DEF Enqueue
  <2>7. Events'
    BY <1>6, <2>1, <2>6 DEF TraceIsMatched, EventInOnePlace, MatchedIsTraced, Traced
  <2>8. QED
    BY <2>4, <2>5, <2>7
<1>7. ASSUME NEW e \in pending, PublishFails(e), UNCHANGED matchVars
      PROVE  Handlers' /\ Events'
  <2>1. Handlers'
    BY <1>7, HandlersStay DEF PublishFails
  <2>2. /\ Faults
        /\ UNCHANGED <<isMatched, matchQueue, creating, matches>>
        /\ pending' \subseteq pending
    BY <1>7 DEF PublishFails, brokerVars, matchVars
  <2>3. QED
    BY <2>1, <2>2 DEF TraceIsMatched, EventInOnePlace, MatchedIsTraced, Traced
<1>8. CASE Crash /\ UNCHANGED matchVars
  <2>1. /\ Faults
        /\ \A s \in Req : pc'[s] = IF pc[s] \in HandlerPC THEN "killed" ELSE pc[s]
        /\ pending' = {}
        /\ UNCHANGED <<payload, isMatched, swipes, matchQueue, creating, matches>>
    BY <1>8 DEF Crash, TypeOK, SwipeTypeOK, brokerVars, matchVars
  <2>2. Handlers'
    BY <2>1, PayloadStays DEF Stage, MutualLikeDetected, Checked, HandlerPC
  <2>3. QED
    BY <2>1, <2>2 DEF TraceIsMatched, EventInOnePlace, MatchedIsTraced, Traced
<1>9. ASSUME NEW e \in matchQueue, Deliver(e), UNCHANGED swipeVars
      PROVE  Handlers' /\ Events'
  <2>1. Handlers'
    BY <1>9, HandlersStay DEF swipeVars
  <2>2. /\ UNCHANGED <<isMatched, pending, matches>>
        /\ matchQueue' = matchQueue \ {e}
        /\ creating' = creating \cup (IF e = Pong THEN {} ELSE {e.by})
    BY <1>9 DEF Deliver, swipeVars
  <2>3. \A s \in Req : /\ MatchCreate(s) \in matchQueue'
                           <=> MatchCreate(s) \in matchQueue /\ MatchCreate(s) # e
                      /\ s \in creating' <=> s \in creating \/ MatchCreate(s) = e
    BY <2>2, EventShape, PongShape DEF TypeOK, BrokerTypeOK
  <2>4. QED
    BY <2>1, <2>2, <2>3 DEF TraceIsMatched, EventInOnePlace, MatchedIsTraced, Traced
<1>10. ASSUME NEW r \in creating, CreateMatch(r), UNCHANGED swipeVars
       PROVE  Handlers' /\ Events'
  <2>1. Handlers'
    BY <1>10, HandlersStay DEF swipeVars
  <2>2. /\ UNCHANGED <<isMatched, pending, matchQueue>>
        /\ creating' = creating \ {r}
        /\ matches' = matches \cup {r}
    BY <1>10 DEF CreateMatch, swipeVars, brokerVars
  <2>3. QED
    BY <2>1, <2>2 DEF TraceIsMatched, EventInOnePlace, MatchedIsTraced, Traced
<1>11. CASE CreateMatchFails /\ UNCHANGED swipeVars
  <2>1. Handlers'
    BY <1>11, HandlersStay DEF swipeVars
  <2>2. /\ Faults
        /\ UNCHANGED <<isMatched, pending, matchQueue, matches>>
        /\ creating' \subseteq creating
    BY <1>11 DEF CreateMatchFails, swipeVars, brokerVars
  <2>3. QED
    BY <2>1, <2>2 DEF TraceIsMatched, EventInOnePlace, MatchedIsTraced, Traced
<1>12. CASE BrokerRestart /\ UNCHANGED <<swipeVars, matchVars>>
  <2>1. Handlers'
    BY <1>12, HandlersStay DEF swipeVars
  <2>2. /\ Faults
        /\ UNCHANGED <<isMatched, pending, creating, matches>>
        /\ matchQueue' = {}
    BY <1>12 DEF BrokerRestart, swipeVars, matchVars
  <2>3. QED
    BY <2>1, <2>2 DEF TraceIsMatched, EventInOnePlace, MatchedIsTraced, Traced
<1>13. CASE UNCHANGED vars
  BY <1>13, HandlersStay
     DEF vars, swipeVars, matchVars, brokerVars,
         TraceIsMatched, EventInOnePlace, MatchedIsTraced, Traced
<1>14. QED
  BY <1>1, <1>2, <1>3, <1>4, <1>5, <1>6, <1>7, <1>8, <1>9, <1>10, <1>11, <1>12, <1>13
     DEF Next, SwipeNext, MatchNext, Handle

LEMMA Invariance == Spec => []Inv
BY InvInit, InvStep, PTL DEF Spec

-----------------------------------------------------------------------------
(* The invariants the runs check. *)

(* Overlapping opposite swipes cannot both miss each other. *)
THEOREM Detected == Spec => []MutualLikeDetected
<1>1. Inv => MutualLikeDetected
  BY DEF Inv
<1>2. QED
  BY <1>1, Invariance, PTL

(* Nothing becomes a match without a swipe document in each direction. *)
THEOREM Mutual == Spec => []MatchesAreMutual
<1>1. Inv => MatchesAreMutual
  <2>1. SUFFICES ASSUME Inv, NEW r \in matches \cup MatchInTransit
                 PROVE  r \in swipes /\ Reverse(r) # {}
    BY DEF MatchesAreMutual
  <2>2. {e.by : e \in {f \in pending \cup matchQueue : f \in MatchEvent}} \subseteq Req
    BY EventShape
  <2>3. r \in Req
    BY <2>1, <2>2 DEF Inv, TypeOK, MatchTypeOK, MatchInTransit
  <2>4. Traced(r)
    BY <2>1, <2>3, InTransit DEF MatchInTransit, Traced
  <2>5. r \in swipes /\ \E s \in swipes : Opposite(r, s)
    BY <2>1, <2>3, <2>4 DEF Inv, TraceIsMatched, Stage
  <2>6. QED
    BY <2>5 DEF Reverse
<1>2. QED
  BY <1>1, Invariance, PTL

(* A match event is handled once: one swipe, at most one match document. *)
THEOREM OnePlace == Spec => []EventInOnePlace
<1>1. Inv => EventInOnePlace
  BY DEF Inv
<1>2. QED
  BY <1>1, Invariance, PTL

(* Without faults a detected match is on its way or stored ... *)
LEMMA InvAccounts == Inv => MatchAccountedFor
<1>1. SUFFICES ASSUME Inv, ~Faults, NEW r \in Req, isMatched[r]
               PROVE  r \in MatchInTransit \cup matches
  BY DEF MatchAccountedFor
<1>2. Traced(r)
  BY <1>1 DEF Inv, MatchedIsTraced
<1>3. QED
  BY <1>2, InTransit DEF Traced, MatchInTransit

THEOREM AccountedFor == Spec => []MatchAccountedFor
BY InvAccounts, Invariance, PTL

(* ... so that both services at rest means every mutual like is a match. *)
THEOREM Resting == Spec => []RestingMatched
<1>1. Inv => RestingMatched
  <2>1. SUFFICES ASSUME Inv, ~Faults, AtRest,
                        NEW r \in swipes, NEW s \in swipes, Opposite(r, s)
                 PROVE  \E m \in matches : SamePair(r, m)
    BY DEF RestingMatched
  <2>2. r \in Req /\ s \in Req
    BY <2>1 DEF Inv, TypeOK, SwipeTypeOK
  <2>3. Checked(r) /\ Checked(s)
    BY <2>1, <2>2 DEF Inv, Stage, AtRest, Checked
  <2>4. isMatched[r] \/ isMatched[s]
    BY <2>1, <2>2, <2>3 DEF Inv, MutualLikeDetected
  <2>5. r \in matches \/ s \in matches
    BY <2>1, <2>2, <2>4, InvAccounts DEF MatchAccountedFor, AtRest
  <2>6. SamePair(r, r) /\ SamePair(r, s)
    BY <2>1 DEF SamePair
  <2>7. QED
    BY <2>5, <2>6
<1>2. QED
  BY <1>1, Invariance, PTL

-----------------------------------------------------------------------------
(* A settled pair is not announced again. *)

(* r can no longer detect a match: what it would write is there already. *)
Barred(r) ==
    /\ pc[r] \notin {"create", "findReverse"}
    /\ \E s \in swipes : payload[s] = payload[r]
    /\ ~isMatched[r]

LEMMA SettledIsBarred ==
    ASSUME Inv, NEW r \in Req, NEW s \in Req,
           isMatched[s], SamePair(r, s), NotYetLookedUp(r)
    PROVE  Barred(r)
<1>1. PICK t \in swipes : Opposite(s, t)
  BY DEF Inv, Stage
<1>2. s \in swipes /\ t \in Req
  BY DEF Inv, Stage, TypeOK, SwipeTypeOK
<1>3. CASE payload[s] = payload[r]
  BY <1>2, <1>3 DEF Barred, NotYetLookedUp, Inv, Stage
<1>4. CASE Opposite(r, s)
  <2>1. payload[t] = payload[r]
    BY <1>1, <1>2, <1>4 DEF Opposite, Likes, Inv, TypeOK, SwipeTypeOK, Payload
  <2>2. QED
    BY <2>1 DEF Barred, NotYetLookedUp, Inv, Stage
<1>5. QED
  BY <1>3, <1>4 DEF SamePair

LEMMA StaysBarred ==
    ASSUME Inv, NEW r \in Req, Barred(r), [Next]_vars
    PROVE  Barred(r)'
<1>1. payload' = payload /\ swipes \subseteq swipes'
  BY DEF Next, SwipeNext, MatchNext, Start, Swipe, Handle, FindExisting, CreateSwipe,
         FindReverse, Publish, PublishFails, Crash, BrokerRestart, vars, swipeVars
<1>2. /\ pc'[r] \notin {"create", "findReverse"}
      /\ ~isMatched'[r]
  <2>1. ASSUME NEW s \in Req, Swipe(s) \/ FindExisting(s) \/ CreateSwipe(s) \/ FindReverse(s)
        PROVE  pc'[r] \notin {"create", "findReverse"} /\ ~isMatched'[r]
    BY <2>1 DEF Barred, Inv, TypeOK, SwipeTypeOK, Existing,
                Swipe, FindExisting, CreateSwipe, FindReverse
  <2>2. ASSUME NEW e, Publish(e) \/ PublishFails(e)
        PROVE  pc'[r] \notin {"create", "findReverse"} /\ ~isMatched'[r]
    BY <2>2 DEF Barred, Inv, TypeOK, SwipeTypeOK, Publish, PublishFails
  <2>3. CASE Crash
    BY <2>3 DEF Barred, Inv, TypeOK, SwipeTypeOK, Crash
  <2>4. CASE UNCHANGED <<pc, isMatched>>
    BY <2>4 DEF Barred
  <2>5. QED
    BY <2>1, <2>2, <2>3, <2>4
       DEF Next, SwipeNext, Handle, Start, vars, swipeVars
<1>3. QED
  BY <1>1, <1>2, TypeStep DEF Barred, Inv

(* A request that comes to a matched pair late never announces it again,   *)
(* whatever else happens, crashes and lost events included.                *)
THEOREM Settled == Spec => MatchedOnceSettled
<1>1. ASSUME NEW r \in Req, NEW s \in Req
      PROVE  Spec => [](isMatched[s] /\ SamePair(r, s) /\ NotYetLookedUp(r)
                          => [](~isMatched[r]))
  <2>1. Inv /\ isMatched[s] /\ SamePair(r, s) /\ NotYetLookedUp(r) => Barred(r)
    BY SettledIsBarred
  <2>2. Inv /\ Barred(r) /\ [Next]_vars => Barred(r)'
    BY StaysBarred
  <2>3. Barred(r) => ~isMatched[r]
    BY DEF Barred
  <2>4. QED
    BY <2>1, <2>2, <2>3, Invariance, PTL DEF Spec
<1>2. QED
  BY <1>1 DEF MatchedOnceSettled

-----------------------------------------------------------------------------
(* The pipeline implements MatchMaking: a swipe document is a like, a match *)
(* document a match, and every other step is invisible.                     *)

THEOREM Implements == Spec => KeepsPromise
<1>1. Init => Promise!Init
  BY DEF Init, SwipeInit, MatchInit, Promise!Init, likesOf, matchedOf
<1>2. Inv /\ [Next]_vars => [Promise!Next]_<<likesOf, matchedOf>>
  <2>. SUFFICES ASSUME Inv, [Next]_vars
                PROVE  [Promise!Next]_<<likesOf, matchedOf>>
    OBVIOUS
  <2>. TypeOK
    BY DEF Inv
  <2>1. ASSUME NEW r \in Req, CreateSwipe(r), UNCHANGED matchVars
        PROVE  [Promise!Next]_<<likesOf, matchedOf>>
    <3>1. /\ swipes' = swipes \cup {r}
          /\ UNCHANGED <<payload, matches>>
      BY <2>1 DEF CreateSwipe, matchVars
    <3>2. payload[r].sendFromUser \in User /\ payload[r].targetUser \in User
      BY DEF TypeOK, SwipeTypeOK, Payload
    <3>3. Promise!Like(payload[r].sendFromUser, payload[r].targetUser)
      BY <3>1 DEF Promise!Like, likesOf, matchedOf
    <3>4. QED
      BY <3>2, <3>3 DEF Promise!Next
  <2>2. ASSUME NEW r \in creating, CreateMatch(r), UNCHANGED swipeVars
        PROVE  [Promise!Next]_<<likesOf, matchedOf>>
    <3>1. /\ matches' = matches \cup {r}
          /\ UNCHANGED <<payload, swipes>>
      BY <2>2 DEF CreateMatch, swipeVars
    <3>2. r \in Req /\ payload[r].sendFromUser \in User /\ payload[r].targetUser \in User
      BY DEF TypeOK, SwipeTypeOK, MatchTypeOK, Payload
    <3>3. r \in swipes /\ \E s \in swipes : Opposite(r, s)
      BY <3>2 DEF Inv, TraceIsMatched, Traced, Stage
    <3>4. Promise!Mutual(payload[r].sendFromUser, payload[r].targetUser)
      BY <3>3 DEF Promise!Mutual, likesOf, Opposite, Likes
    <3>5. Promise!Match(payload[r].sendFromUser, payload[r].targetUser)
      BY <3>1, <3>4 DEF Promise!Match, Promise!Pair, likesOf, matchedOf
    <3>6. QED
      BY <3>2, <3>5 DEF Promise!Next
  <2>3. CASE UNCHANGED <<payload, swipes, matches>>
    BY <2>3 DEF likesOf, matchedOf
  <2>4. QED
    BY <2>1, <2>2, <2>3
       DEF Next, SwipeNext, MatchNext, Start, Swipe, Handle, FindExisting, FindReverse,
           Publish, PublishFails, Crash, Deliver, CreateMatchFails, BrokerRestart,
           vars, swipeVars, matchVars
<1>3. QED
  BY <1>1, <1>2, Invariance, PTL DEF Spec, KeepsPromise, Promise!Spec

=============================================================================
