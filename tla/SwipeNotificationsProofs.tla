---------------------- MODULE SwipeNotificationsProofs ----------------------
(***************************************************************************)
(* The composition of swipe-service and notification-service, for every    *)
(* set of requests, users and devices.  Fresh says that swipe-service has  *)
(* an event in its hands at most once, which makes it the environment that *)
(* NotificationService assumes; so the invariants proved there carry over. *)
(* Recorded follows what an event claims back to the collection "swipes".  *)
(***************************************************************************)
EXTENDS SwipeNotifications, NotificationServiceProofs

Before == {"idle", "findExisting", "create", "findReverse"}

Fresh ==
    /\ pending \cap emitted = {}
    /\ \A r \in Req : pc[r] \in Before =>
          {NotifyLike(r), NotifyMatched(r)} \cap (pending \cup emitted) = {}

Claim(e) == S!Existing(e.by) # {} /\ (IsMatch(e) => S!Reverse(e.by) # {})

Recorded ==
    /\ \A e \in NotifEvent : e \in pending \cup emitted => Claim(e)
    /\ \A r \in Req : pc[r] = "findReverse" => r \in swipes

JointInv == Inv /\ Shown /\ S!SwipeTypeOK /\ Fresh /\ Recorded

-----------------------------------------------------------------------------
(* Events and queues are the same on both sides. *)
LEMMA SameEvents ==
    /\ S!MatchEvent = MatchEvent
    /\ S!NotifEvent = NotifEvent
    /\ S!Pong = Pong
    /\ \A r \in Req : /\ S!NotifyLike(r) = NotifyLike(r)
                      /\ S!NotifyMatched(r) = NotifyMatched(r)
                      /\ S!MatchCreate(r) = MatchCreate(r)
  BY DEF S!MatchEvent, MatchEvent, S!NotifEvent, NotifEvent, S!Event, Event, S!Pong, Pong,
         S!NotifyLike, NotifyLike, S!NotifyMatched, NotifyMatched, S!MatchCreate, MatchCreate

LEMMA EventFact ==
    /\ \A r \in Req : /\ NotifyLike(r) \in NotifEvent /\ NotifyMatched(r) \in NotifEvent
                      /\ MatchCreate(r) \in MatchEvent
                      /\ NotifyLike(r).by = r /\ NotifyMatched(r).by = r
                      /\ ~IsMatch(NotifyLike(r)) /\ IsMatch(NotifyMatched(r))
    /\ \A e \in NotifEvent : \E r \in Req : e \in {NotifyLike(r), NotifyMatched(r)}
    /\ NotifEvent \cap (MatchEvent \cup {Pong}) = {}
  BY DEF NotifEvent, MatchEvent, Event, Pong, NotifyLike, NotifyMatched, MatchCreate, IsMatch

(* A step of swipe-service that puts no event into notification_queue. *)
LEMMA QueueKeptInv ==
    ASSUME Inv, Shown, matchQueue' \subseteq MatchEvent \cup {Pong}, emitted' = emitted,
           UNCHANGED <<notifQueue, payload, steady, notifVars>>
    PROVE  Inv' /\ Shown'
  BY ShownKept
     DEF Inv, TypeOK, BrokerTypeOK, notifVars, tokenVars, noteVars, Tracked, Silent,
         Unlisted, Complete, NotesOf, Recipients, IsMatch

(* What SwipeStep leaves alone. *)
LEMMA SwipeStepFrame ==
    SwipeStep => /\ emitted' = emitted \cup (notifQueue' \ notifQueue)
                 /\ UNCHANGED <<steady, notifVars>>
  BY DEF SwipeStep

-----------------------------------------------------------------------------
(* The steps of swipe-service.  Every one keeps the claims of events whose *)
(* swipes stay: nothing deletes a swipe.                                   *)
LEMMA ClaimKept ==
    ASSUME swipes \subseteq swipes', payload' = payload, NEW e, Claim(e) PROVE Claim(e)'
  BY DEF Claim, S!Existing, S!Reverse, S!Opposite, S!Likes, IsMatch

(* A step that changes handlers and pending events, not the queue. *)
HandlerMoves(r, q, new) ==
    /\ pc[r] \in S!HandlerPC \cup {"idle"}
    /\ q \in S!SwipePC
    /\ pc' = [pc EXCEPT ![r] = q]
    /\ new \subseteq MatchEvent \cup NotifEvent
    /\ pending' = pending \cup new
    /\ new = {} \/ (pc[r] \in Before /\ q \notin Before)
    /\ q \in Before => pc[r] \in Before
    /\ q = "findReverse" => r \in swipes'
    /\ swipes \subseteq swipes' /\ swipes' \subseteq Req
    /\ \A e \in new \cap NotifEvent : e.by = r /\ Claim(e)'
    /\ isMatched' \in [Req -> BOOLEAN]
    /\ UNCHANGED <<up, payload, brokerVars, emitted, steady, notifVars>>

LEMMA HandlerStep ==
    ASSUME JointInv, NEW r \in Req, NEW q, NEW new, HandlerMoves(r, q, new) PROVE JointInv'
<1> USE DEF JointInv, HandlerMoves
<1>1. Inv' /\ Shown'
  BY QueueKeptInv DEF Inv, TypeOK, BrokerTypeOK, brokerVars
<1>2. S!SwipeTypeOK'
  BY SameEvents DEF S!SwipeTypeOK, S!Payload
<1>3. Fresh'
  <2>1. pc \in [Req -> S!SwipePC] /\ emitted \subseteq NotifEvent
    BY DEF S!SwipeTypeOK, Inv, TypeOK
  <2>2. \A s \in Req : pc'[s] \in Before => pc[s] \in Before
    BY <2>1
  <2>3. \A e \in new \cap emitted : FALSE
    <3> SUFFICES ASSUME NEW e \in new \cap emitted PROVE FALSE
      OBVIOUS
    <3>1. e \in {NotifyLike(r), NotifyMatched(r)}
      BY <2>1, EventFact
    <3> QED
      BY <3>1 DEF Fresh
  <2>4. \A s \in Req : pc'[s] \in Before =>
            {NotifyLike(s), NotifyMatched(s)} \cap (pending' \cup emitted') = {}
    <3> SUFFICES ASSUME NEW s \in Req, pc'[s] \in Before,
                        NEW e \in {NotifyLike(s), NotifyMatched(s)}
                 PROVE  e \notin pending' \cup emitted'
      OBVIOUS
    <3>1. e \notin pending \cup emitted
      BY <2>2 DEF Fresh
    <3>2. e \notin new
      <4>1. CASE new = {}
        BY <4>1
      <4>2. CASE q \notin Before
        <5>1. s # r
          BY <2>1, <4>2
        <5>2. e.by = s /\ e \in NotifEvent
          BY EventFact
        <5> QED
          BY <5>1, <5>2
      <4> QED
        BY <4>1, <4>2
    <3> QED
      BY <3>1, <3>2
  <2> QED
    BY <2>3, <2>4 DEF Fresh
<1>4. Recorded'
  <2>1. \A e \in NotifEvent : e \in pending' \cup emitted' => Claim(e)'
    BY ClaimKept DEF Recorded
  <2>2. \A s \in Req : pc'[s] = "findReverse" => s \in swipes'
    BY DEF Recorded, S!SwipeTypeOK
  <2> QED
    BY <2>1, <2>2 DEF Recorded
<1> QED
  BY <1>1, <1>2, <1>3, <1>4

LEMMA SwipeInv ==
    ASSUME JointInv, NEW r \in Req, S!Swipe(r), SwipeStep PROVE JointInv'
<1>1. pc' = [pc EXCEPT ![r] = "findExisting"] /\ pc[r] = "idle"
  BY DEF S!Swipe
<1>2. UNCHANGED <<up, payload, brokerVars, isMatched, swipes, pending>>
  BY DEF S!Swipe, S!brokerVars, brokerVars
<1>3. UNCHANGED <<emitted, steady, notifVars>>
  BY <1>2, SwipeStepFrame DEF brokerVars
<1>4. HandlerMoves(r, "findExisting", {})
  BY <1>1, <1>2, <1>3
     DEF HandlerMoves, JointInv, S!SwipeTypeOK, S!SwipePC, S!HandlerPC, Before
<1> QED
  BY <1>4, HandlerStep

LEMMA FindExistingInv ==
    ASSUME JointInv, NEW r \in Req, S!FindExisting(r), SwipeStep PROVE JointInv'
<1>1. pc[r] = "findExisting" /\ UNCHANGED <<up, payload, brokerVars, isMatched, swipes>>
  BY DEF S!FindExisting, S!brokerVars, brokerVars
<1>2. UNCHANGED <<emitted, steady, notifVars>>
  BY <1>1, SwipeStepFrame DEF brokerVars
<1>3. CASE S!Existing(r) # {} /\ pc' = [pc EXCEPT ![r] = "emitLike"]
                             /\ pending' = pending \cup {S!NotifyLike(r)}
  <2> DEFINE new == {NotifyLike(r)}
  <2>1. pending' = pending \cup new /\ new \in SUBSET (MatchEvent \cup NotifEvent)
    BY <1>3, SameEvents, EventFact
  <2>2. \A e \in new : e.by = r /\ Claim(e)'
    BY <1>1, <1>3, EventFact
       DEF Claim, S!Existing, S!Reverse, S!Opposite, S!Likes, IsMatch, NotifyLike
  <2> HIDE DEF new
  <2>3. HandlerMoves(r, "emitLike", new)
    BY <1>1, <1>2, <1>3, <2>1, <2>2
       DEF HandlerMoves, JointInv, S!SwipeTypeOK, S!SwipePC, S!HandlerPC, Before
  <2> QED
    BY <2>3, HandlerStep
<1>4. CASE pc' = [pc EXCEPT ![r] = "create"] /\ pending' = pending
  <2>1. HandlerMoves(r, "create", {})
    BY <1>1, <1>2, <1>4
       DEF HandlerMoves, JointInv, S!SwipeTypeOK, S!SwipePC, S!HandlerPC, Before
  <2> QED
    BY <2>1, HandlerStep
<1> QED
  BY <1>3, <1>4 DEF S!FindExisting

LEMMA CreateSwipeInv ==
    ASSUME JointInv, NEW r \in Req, S!CreateSwipe(r), SwipeStep PROVE JointInv'
<1>1. pc[r] = "create" /\ pc' = [pc EXCEPT ![r] = "findReverse"] /\ swipes' = swipes \cup {r}
  BY DEF S!CreateSwipe
<1>2. UNCHANGED <<up, payload, brokerVars, isMatched, pending>>
  BY DEF S!CreateSwipe, S!brokerVars, brokerVars
<1>3. UNCHANGED <<emitted, steady, notifVars>>
  BY <1>2, SwipeStepFrame DEF brokerVars
<1>4. HandlerMoves(r, "findReverse", {})
  BY <1>1, <1>2, <1>3
     DEF HandlerMoves, JointInv, S!SwipeTypeOK, S!SwipePC, S!HandlerPC, Before
<1> QED
  BY <1>4, HandlerStep

LEMMA FindReverseInv ==
    ASSUME JointInv, NEW r \in Req, S!FindReverse(r), SwipeStep PROVE JointInv'
<1> DEFINE new == {NotifyLike(r)} \cup
                  (IF S!Reverse(r) # {} THEN {MatchCreate(r), NotifyMatched(r)} ELSE {})
<1>1. /\ pc[r] = "findReverse"
      /\ pc' = [pc EXCEPT ![r] = "emitLike"]
      /\ UNCHANGED <<up, payload, brokerVars, swipes>>
      /\ isMatched' = [isMatched EXCEPT ![r] = S!Reverse(r) # {}]
  BY DEF S!FindReverse, S!brokerVars, brokerVars
<1>2. UNCHANGED <<emitted, steady, notifVars>>
  BY <1>1, SwipeStepFrame DEF brokerVars
<1>3. pending' = pending \cup new
  BY SameEvents DEF S!FindReverse
<1>4. new \in SUBSET (MatchEvent \cup NotifEvent)
  BY EventFact
<1>5. \A e \in new \cap NotifEvent : e.by = r /\ Claim(e)'
  <2>1. r \in swipes
    BY <1>1 DEF JointInv, Recorded
  <2>2. S!Existing(r)' # {} /\ S!Reverse(r)' = S!Reverse(r)
    BY <1>1, <2>1 DEF S!Existing, S!Reverse, S!Opposite, S!Likes
  <2>3. Claim(NotifyLike(r))'
    BY <2>2, EventFact DEF Claim, IsMatch, NotifyLike
  <2>4. S!Reverse(r) # {} => Claim(NotifyMatched(r))'
    BY <2>2, EventFact DEF Claim, IsMatch, NotifyMatched
  <2> QED
    BY <2>3, <2>4, EventFact
<1>6. isMatched' \in [Req -> BOOLEAN] /\ swipes \subseteq Req
  BY <1>1 DEF JointInv, S!SwipeTypeOK
<1> HIDE DEF new
<1>7. HandlerMoves(r, "emitLike", new)
  BY <1>1, <1>2, <1>3, <1>4, <1>5, <1>6 DEF HandlerMoves, S!SwipePC, S!HandlerPC, Before
<1> QED
  BY <1>7, HandlerStep

(* What takes events out of swipe-service's hands, or gives them to the    *)
(* queue. *)
LEMMA PublishEvent ==
    ASSUME JointInv, NEW e \in pending, S!Publish(e), SwipeStep
    PROVE  /\ e \in NotifEvent => Emit(e)
           /\ e \notin NotifEvent => emitted' = emitted /\ notifQueue' = notifQueue
           /\ matchQueue' \subseteq MatchEvent \cup {Pong}
<1>1. pending \subseteq MatchEvent \cup NotifEvent /\ matchQueue \subseteq MatchEvent \cup {Pong}
  BY SameEvents DEF JointInv, S!SwipeTypeOK, Inv, TypeOK, BrokerTypeOK
<1>2. S!Enqueue(e) /\ payload' = payload
  BY DEF S!Publish
<1>3. emitted' = emitted \cup (notifQueue' \ notifQueue) /\ UNCHANGED <<steady, notifVars>>
  BY SwipeStepFrame
<1>4. CASE e \in NotifEvent
  <2>1. Enqueue(e)
    BY <1>2, <1>4, SameEvents DEF S!Enqueue, Enqueue
  <2>2. e \notin emitted /\ notifQueue \subseteq emitted
    BY DEF JointInv, Fresh, Inv, Tracked
  <2>3. emitted' = emitted \cup {e}
    BY <1>3, <1>4, <2>1, <2>2 DEF Enqueue
  <2> QED
    BY <1>1, <1>2, <1>3, <1>4, <2>1, <2>2, <2>3 DEF Emit, Enqueue
<1>5. CASE e \notin NotifEvent
  BY <1>1, <1>2, <1>3, <1>5, SameEvents DEF S!Enqueue
<1> QED
  BY <1>4, <1>5

LEMMA PublishInv ==
    ASSUME JointInv, NEW e \in pending, S!Publish(e), SwipeStep PROVE JointInv'
<1> USE DEF JointInv
<1>1. /\ pending' = pending \ {e}
      /\ pc' = [r \in Req |-> IF e = S!NotifyLike(r) THEN "done" ELSE pc[r]]
      /\ UNCHANGED <<up, payload, isMatched, swipes>>
  BY DEF S!Publish
<1>2. UNCHANGED <<steady, notifVars>>
  BY SwipeStepFrame
<1>3. emitted \subseteq emitted' /\ emitted' \subseteq emitted \cup {e}
  BY PublishEvent DEF Emit
<1>4. Inv' /\ Shown'
  <2>1. CASE e \in NotifEvent
    BY <2>1, PublishEvent, EmitInv, ShownKept, <1>1, <1>2 DEF notifVars, noteVars
  <2>2. CASE e \notin NotifEvent
    BY <2>2, PublishEvent, QueueKeptInv, <1>1, <1>2
  <2> QED
    BY <2>1, <2>2
<1>5. S!SwipeTypeOK'
  BY <1>1 DEF S!SwipeTypeOK, S!SwipePC, S!Payload
<1>6. Fresh'
  <2>1. \A r \in Req : pc'[r] \in Before => pc[r] \in Before
    BY <1>1 DEF S!SwipeTypeOK, Before
  <2> QED
    BY <1>1, <1>3, <2>1 DEF Fresh
<1>7. Recorded'
  <2>1. \A r \in Req : pc'[r] = "findReverse" => r \in swipes'
    BY <1>1 DEF Recorded, S!SwipeTypeOK
  <2>2. \A f \in NotifEvent : f \in pending' \cup emitted' => Claim(f)'
    BY <1>1, <1>3, ClaimKept DEF Recorded
  <2> QED
    BY <2>1, <2>2 DEF Recorded
<1> QED
  BY <1>4, <1>5, <1>6, <1>7

(* Events are dropped and handlers killed. *)
LEMMA LossInv ==
    ASSUME JointInv, pending' \subseteq pending, up' \in BOOLEAN, pc' \in [Req -> S!SwipePC],
           \A r \in Req : pc'[r] \in Before => pc'[r] = pc[r],
           matchQueue' \subseteq MatchEvent \cup {Pong},
           UNCHANGED <<payload, isMatched, swipes, notifQueue, emitted, steady, notifVars>>
    PROVE  JointInv'
<1> USE DEF JointInv
<1>1. Inv' /\ Shown'
  BY QueueKeptInv
<1>2. S!SwipeTypeOK'
  BY DEF S!SwipeTypeOK, S!Payload
<1>3. Fresh'
  BY DEF Fresh
<1>4. Recorded'
  <2>1. \A e \in NotifEvent : e \in pending' \cup emitted' => Claim(e)'
    BY ClaimKept DEF Recorded
  <2>2. \A r \in Req : pc'[r] = "findReverse" => r \in swipes'
    BY DEF Recorded, Before
  <2> QED
    BY <2>1, <2>2 DEF Recorded
<1> QED
  BY <1>1, <1>2, <1>3, <1>4

LEMMA StartInv == ASSUME JointInv, S!Start, SwipeStep PROVE JointInv'
<1>1. /\ up' = TRUE /\ UNCHANGED <<payload, pc, isMatched, swipes, pending>>
      /\ matchQueue' = matchQueue \cup {Pong} /\ notifQueue' = notifQueue
  BY SameEvents, EventFact DEF S!Start, S!Enqueue
<1>2. UNCHANGED <<emitted, steady, notifVars>>
  BY <1>1, SwipeStepFrame
<1> QED
  BY <1>1, <1>2, LossInv DEF JointInv, S!SwipeTypeOK, Inv, TypeOK, BrokerTypeOK

LEMMA PublishFailsInv ==
    ASSUME JointInv, NEW e \in pending, S!PublishFails(e), SwipeStep PROVE JointInv'
<1>1. /\ pending' \subseteq pending /\ UNCHANGED <<up, payload, pc, isMatched, swipes>>
      /\ matchQueue' = matchQueue /\ notifQueue' = notifQueue
  BY DEF S!PublishFails, S!brokerVars
<1>2. UNCHANGED <<emitted, steady, notifVars>>
  BY <1>1, SwipeStepFrame
<1> QED
  BY <1>1, <1>2, LossInv DEF JointInv, S!SwipeTypeOK, Inv, TypeOK, BrokerTypeOK

LEMMA CrashInv == ASSUME JointInv, S!Crash, SwipeStep PROVE JointInv'
<1>1. /\ pending' = {} /\ up' = FALSE /\ UNCHANGED <<payload, isMatched, swipes>>
      /\ pc' = [r \in Req |-> IF pc[r] \in S!HandlerPC THEN "killed" ELSE pc[r]]
      /\ matchQueue' = matchQueue /\ notifQueue' = notifQueue
  BY DEF S!Crash, S!brokerVars
<1>2. UNCHANGED <<emitted, steady, notifVars>>
  BY <1>1, SwipeStepFrame
<1>3. pc' \in [Req -> S!SwipePC] /\ \A r \in Req : pc'[r] \in Before => pc'[r] = pc[r]
  BY <1>1 DEF JointInv, S!SwipeTypeOK, S!SwipePC, Before
<1> QED
  BY <1>1, <1>2, <1>3, LossInv DEF JointInv, Inv, TypeOK, BrokerTypeOK

LEMMA SwipeStepInv == JointInv /\ SwipeStep => JointInv'
  BY StartInv, SwipeInv, FindExistingInv, CreateSwipeInv, FindReverseInv, PublishInv,
     PublishFailsInv, CrashInv DEF SwipeStep, S!Handle

-----------------------------------------------------------------------------
(* The steps of notification-service leave swipe-service alone. *)
LEMMA ServeInv == JointInv /\ Serve /\ UNCHANGED serviceVars => JointInv'
<1> SUFFICES ASSUME JointInv, Serve, UNCHANGED serviceVars PROVE JointInv'
  OBVIOUS
<1> USE DEF JointInv
<1>1. Inv' /\ Shown'
  BY NextInv, ShownNext DEF Next
<1>2. payload' = payload /\ emitted' = emitted
  BY DEF Serve, HandleEvent, UpdateFcmToken, TokenExpires, Uninstall, Receive, GetTokens, Push,
         Store, HandlerFails, MarkAsRead, QueueLost, sourceVars
<1>3. UNCHANGED <<up, pc, isMatched, swipes, pending>>
  BY DEF serviceVars
<1>4. S!SwipeTypeOK' /\ Fresh'
  BY <1>2, <1>3 DEF S!SwipeTypeOK, S!Payload, Fresh
<1>5. Recorded'
  BY <1>2, <1>3, ClaimKept DEF Recorded
<1> QED
  BY <1>1, <1>4, <1>5

LEMMA JointStutterInv == JointInv /\ UNCHANGED allVars => JointInv'
<1> SUFFICES ASSUME JointInv, UNCHANGED allVars PROVE JointInv'
  OBVIOUS
<1> USE DEF JointInv
<1>1. UNCHANGED vars /\ UNCHANGED <<up, pc, isMatched, swipes, pending, payload, emitted>>
  BY DEF allVars, serviceVars, vars, sourceVars
<1>2. Inv' /\ Shown'
  BY <1>1, NextInv, ShownNext
<1>3. S!SwipeTypeOK' /\ Fresh'
  BY <1>1 DEF S!SwipeTypeOK, S!Payload, Fresh
<1>4. Recorded'
  BY <1>1, ClaimKept DEF Recorded
<1> QED
  BY <1>2, <1>3, <1>4

LEMMA JointInitInv == JointInit => JointInv
<1> SUFFICES ASSUME JointInit PROVE JointInv
  OBVIOUS
<1>1. Inv /\ Shown
  BY InitInv DEF JointInit, Init, Shown
<1>2. S!SwipeTypeOK
  BY DEF JointInit, S!SwipeInit, S!SwipeTypeOK, S!SwipePC
<1>3. Fresh /\ Recorded
  BY DEF JointInit, Init, S!SwipeInit, Fresh, Recorded
<1> QED
  BY <1>1, <1>2, <1>3 DEF JointInv

LEMMA JointInvariance == JointSpec => []JointInv
<1>1. JointInv /\ [JointNext]_allVars => JointInv'
  BY SwipeStepInv, ServeInv, JointStutterInv DEF JointNext
<1> QED
  BY <1>1, JointInitInv, PTL DEF JointSpec

(* Both services keep their types. *)
THEOREM JointTypeCorrect == JointSpec => []JointTypeOK
<1>1. JointInv => JointTypeOK
  BY DEF JointInv, Inv, JointTypeOK
<1> QED
  BY <1>1, JointInvariance, PTL

(* What is proved of notification-service for any environment holds of it  *)
(* behind swipe-service: nobody is notified twice, the pair finds the      *)
(* match together, and what was shown is listed.                           *)
THEOREM JointOnce == JointSpec => []NotifiedOnce
<1>1. JointInv => NotifiedOnce
  BY OnceFact DEF JointInv
<1> QED
  BY <1>1, JointInvariance, PTL

THEOREM JointTogether == JointSpec => []PairListedTogether
<1>1. JointInv => PairListedTogether
  BY TogetherFact DEF JointInv
<1> QED
  BY <1>1, JointInvariance, PTL

THEOREM JointShown == JointSpec => []PushIsListed
<1>1. JointInv => PushIsListed
  BY ShownFact DEF JointInv
<1> QED
  BY <1>1, JointInvariance, PTL

THEOREM JointAtOnce == JointSpec => NotifiedAtOnce
<1>1. JointInv /\ [JointNext]_allVars => [\A e \in NotifEvent : AtOnce(e)]_vars
  <2> SUFFICES ASSUME JointInv, [JointNext]_allVars, NEW e \in NotifEvent
               PROVE  AtOnce(e) \/ UNCHANGED vars
    OBVIOUS
  <2>1. CASE UNCHANGED allVars
    BY <2>1 DEF allVars
  <2>2. CASE Serve
    BY <2>2, AtOnceFact DEF JointInv, Next
  <2>3. CASE SwipeStep
    <3>1. payload' = payload
      BY <2>3
         DEF SwipeStep, S!Start, S!Swipe, S!Handle, S!FindExisting, S!CreateSwipe,
             S!FindReverse, S!Publish, S!PublishFails, S!Crash
    <3> QED
      BY <2>3, <3>1, SwipeStepFrame
         DEF AtOnce, ShownBy, NotesMade, NotesOf, Recipients, IsMatch, notifVars, noteVars
  <2> QED
    BY <2>1, <2>2, <2>3 DEF JointNext
<1> QED
  BY <1>1, JointInvariance, PTL DEF JointSpec, NotifiedAtOnce

(* A listed like has its swipe, and a listed match has one each way. *)
THEOREM ListedHasSwipe == JointSpec => []ListedIsRecorded
<1>1. JointInv => ListedIsRecorded
  <2> SUFFICES ASSUME JointInv, NEW e \in NotifEvent, NotesOf(e) \cap notes # {} PROVE Claim(e)
    BY DEF ListedIsRecorded, Claim
  <2>1. e \in emitted
    BY DEF JointInv, Inv, Unlisted, Tracked
  <2> QED
    BY <2>1 DEF JointInv, Recorded
<1> QED
  BY <1>1, JointInvariance, PTL

-----------------------------------------------------------------------------
(* Every step is one that NotificationService allows its environment or    *)
(* itself, match_queue being hidden.                                       *)
LEMMA HiddenQueue ==
    ASSUME UNCHANGED <<notifQueue, payload, emitted, steady, notifVars>>
    PROVE  UNCHANGED N!vars
  BY DEF notifVars, tokenVars, noteVars, N!vars, N!sourceVars, N!brokerVars, N!notifVars,
         N!tokenVars, N!noteVars

LEMMA EmitMaps ==
    ASSUME NEW e \in NotifEvent, Emit(e) PROVE N!Next
<1>1. e \in N!NotifEvent
  BY DEF NotifEvent, Event, N!NotifEvent, N!Event
<1>2. N!Emit(e)
  BY <1>1 DEF Emit, Enqueue, notifVars, tokenVars, noteVars, N!Emit, N!Enqueue, N!notifVars,
         N!tokenVars, N!noteVars
<1> QED
  BY <1>1, <1>2 DEF N!Next

LEMMA QueueLostMaps == QueueLost => [N!Next]_(N!vars)
<1> SUFFICES ASSUME QueueLost PROVE [N!Next]_(N!vars)
  OBVIOUS
<1>1. CASE notifQueue = {}
  BY <1>1, HiddenQueue DEF QueueLost, BrokerRestart, sourceVars
<1>2. CASE notifQueue # {}
  <2>1. N!QueueLost
    BY <1>2 DEF QueueLost, BrokerRestart, sourceVars, notifVars, tokenVars, noteVars,
       N!QueueLost, N!BrokerRestart, N!sourceVars, N!notifVars, N!tokenVars, N!noteVars
  <2> QED
    BY <2>1 DEF N!Next, N!Serve
<1> QED
  BY <1>1, <1>2

LEMMA HandleMaps ==
    ASSUME NEW e \in NotifEvent, HandleEvent(e) \/ HandlerFails(e) PROVE N!Next
<1>1. e \in N!NotifEvent
  BY DEF NotifEvent, Event, N!NotifEvent, N!Event
<1> USE DEF sourceVars, tokenVars, noteVars, brokerVars, N!sourceVars, N!tokenVars,
            N!noteVars, N!brokerVars
<1>2. Receive(e) => N!Receive(e)
  BY DEF Receive, N!Receive
<1>3. GetTokens(e) => N!GetTokens(e)
  BY DEF GetTokens, N!GetTokens, TokensOf, N!TokensOf, Recipients, N!Recipients, IsMatch,
         N!IsMatch, Range, N!Range
<1>4. Push(e) => N!Push(e)
  BY DEF Push, N!Push, IsMatch, N!IsMatch
<1>5. Store(e) => N!Store(e)
  BY DEF Store, N!Store, NotesOf, N!NotesOf, Recipients, N!Recipients, IsMatch, N!IsMatch
<1>6. HandlerFails(e) => N!HandlerFails(e)
  BY DEF HandlerFails, N!HandlerFails, Recipients, N!Recipients, IsMatch, N!IsMatch,
         NoteHandlerPC, N!NoteHandlerPC
<1> QED
  BY <1>1, <1>2, <1>3, <1>4, <1>5, <1>6 DEF HandleEvent, N!Next, N!Serve, N!HandleEvent

LEMMA ServeMaps == Serve => [N!Next]_(N!vars)
<1> SUFFICES ASSUME Serve PROVE [N!Next]_(N!vars)
  OBVIOUS
<1> USE DEF sourceVars, tokenVars, noteVars, brokerVars, N!sourceVars, N!tokenVars,
            N!noteVars, N!brokerVars
<1>1. CASE \E u \in User : TokenExpires(u) \/ \E d \in Device : UpdateFcmToken(u, d)
  BY <1>1 DEF TokenExpires, N!TokenExpires, UpdateFcmToken, N!UpdateFcmToken, N!Next, N!Serve
<1>2. CASE \E d \in Device : Uninstall(d)
  BY <1>2 DEF Uninstall, N!Uninstall, N!Next, N!Serve
<1>3. CASE \E e \in NotifEvent : HandleEvent(e) \/ HandlerFails(e)
  BY <1>3, HandleMaps
<1>4. CASE \E n \in notes : MarkAsRead(n)
  BY <1>4 DEF MarkAsRead, N!MarkAsRead, N!Next, N!Serve
<1> QED
  BY <1>1, <1>2, <1>3, <1>4, QueueLostMaps DEF Serve

LEMMA SwipeStepMaps == JointInv /\ SwipeStep => [N!Next]_(N!vars)
<1> SUFFICES ASSUME JointInv, SwipeStep PROVE [N!Next]_(N!vars)
  OBVIOUS
<1>1. UNCHANGED <<steady, notifVars>> /\ emitted' = emitted \cup (notifQueue' \ notifQueue)
  BY SwipeStepFrame
<1>2. CASE \E e \in pending : S!Publish(e)
  <2>1. PICK e \in pending : S!Publish(e)
    BY <1>2
  <2>2. CASE e \in NotifEvent
    BY <2>1, <2>2, PublishEvent, EmitMaps
  <2>3. CASE e \notin NotifEvent
    BY <1>1, <2>1, <2>3, PublishEvent, HiddenQueue DEF S!Publish
  <2> QED
    BY <2>2, <2>3
<1>3. CASE notifQueue' = notifQueue /\ payload' = payload
  BY <1>1, <1>3, HiddenQueue
<1>4. (\E r \in Req : S!Swipe(r) \/ S!Handle(r)) \/ (\E e \in pending : S!PublishFails(e))
        \/ S!Start \/ S!Crash => notifQueue' = notifQueue /\ payload' = payload
  BY SameEvents, EventFact
     DEF S!Swipe, S!Handle, S!FindExisting, S!CreateSwipe, S!FindReverse, S!PublishFails,
         S!Start, S!Crash, S!Enqueue, S!brokerVars
<1> QED
  BY <1>2, <1>3, <1>4 DEF SwipeStep

(* Swipe-service emits an event once and takes nothing back, whatever      *)
(* crashes, and notification-service does in the composition what it does  *)
(* alone.                                                                  *)
THEOREM EmitsOnce == JointSpec => KeepsEnvironment
<1>1. JointInv /\ [JointNext]_allVars => [N!Next]_(N!vars)
  <2>1. UNCHANGED allVars => UNCHANGED N!vars
    BY HiddenQueue DEF allVars, vars, sourceVars, brokerVars
  <2> QED
    BY <2>1, SwipeStepMaps, ServeMaps DEF JointNext
<1> QED
  BY <1>1, JointInvariance, PTL DEF JointSpec, KeepsEnvironment
-----------------------------------------------------------------------------
(* What both services owe each other while nothing fails, which leaves     *)
(* nothing missing from the lists at rest.                                 *)

(* How far a handler of swipe-service is, by its document and its like. *)
Progress ==
    \A r \in Req :
        /\ NotifyLike(r) \in pending => pc[r] = "emitLike"
        /\ r \in swipes => pc[r] \in {"findReverse", "emitLike", "done", "killed"}

(* Of two opposite swipes that were both looked up, one saw the other. *)
Looked(r) == r \in swipes /\ pc[r] \in {"emitLike", "done"}
Detected ==
    \A r, s \in Req : Looked(r) /\ Looked(s) /\ S!Opposite(r, s) => isMatched[r] \/ isMatched[s]

(* What swipe-service has to announce it is about to, or has. *)
Owed ==
    steady => \A r \in Req :
        /\ pc[r] \in {"emitLike", "done"} => NotifyLike(r) \in pending \cup emitted
        /\ isMatched[r] => NotifyMatched(r) \in pending \cup emitted

(* What was announced has been handled or will be. *)
Handled ==
    steady => \A e \in NotifEvent :
        /\ e \in emitted => e \in notifQueue \/ hpc[e] # "none"
        /\ hpc[e] = "push" => IsMatch(e) \/ tokens[e] # {}
        /\ hpc[e] = "done" => NotesOf(e) \subseteq notes
        /\ hpc[e] = "failed" => ~IsMatch(e) /\ Silenced(e)

RestInv == Progress /\ Detected /\ Owed /\ Handled

LEMMA LikesDiffer ==
    \A r, s \in Req : /\ NotifyLike(r) = NotifyLike(s) => r = s
                      /\ NotifyMatched(r) # NotifyLike(s) /\ MatchCreate(r) # NotifyLike(s)
  BY DEF NotifyLike, NotifyMatched, MatchCreate

(* A handler that goes from p to q, makes a document at "create" and finds *)
(* what it finds at "findReverse".                                         *)
Advances(r, q, new) ==
    /\ pc' = [pc EXCEPT ![r] = q]
    /\ pending' = pending \cup new
    /\ UNCHANGED <<payload, emitted, steady>>
    /\ \A s \in Req : NotifyLike(s) \in new => s = r /\ q = "emitLike"

LEMMA AdvanceProgress ==
    ASSUME JointInv, Progress, NEW r \in Req, NEW q, NEW new, Advances(r, q, new),
           pc[r] \notin {"emitLike", "done"},
           swipes' = swipes \/ (swipes' = swipes \cup {r} /\ q = "findReverse"),
           r \in swipes => q \in {"findReverse", "emitLike"}
    PROVE  Progress'
  BY DEF JointInv, S!SwipeTypeOK, Progress, Advances, NotifyLike

LEMMA AdvanceOwed ==
    ASSUME JointInv, Owed, NEW r \in Req, NEW q, NEW new, Advances(r, q, new),
           q \in {"emitLike", "done"} => NotifyLike(r) \in new,
           \/ isMatched' = isMatched
           \/ \E b \in BOOLEAN : /\ isMatched' = [isMatched EXCEPT ![r] = b]
                                 /\ b => NotifyMatched(r) \in new
    PROVE  Owed'
<1>1. pc \in [Req -> S!SwipePC] /\ isMatched \in [Req -> BOOLEAN]
  BY DEF JointInv, S!SwipeTypeOK
<1>2. \A s \in Req : NotifyLike(s)' = NotifyLike(s) /\ NotifyMatched(s)' = NotifyMatched(s)
  BY DEF NotifyLike, NotifyMatched
<1> SUFFICES ASSUME steady, NEW s \in Req
             PROVE  /\ pc'[s] \in {"emitLike", "done"} => NotifyLike(s) \in pending' \cup emitted'
                    /\ isMatched'[s] => NotifyMatched(s) \in pending' \cup emitted'
  BY <1>2 DEF Owed, Advances
<1>3. CASE s = r
  BY <1>1, <1>3 DEF Owed, Advances
<1>4. CASE s # r
  BY <1>1, <1>4 DEF Owed, Advances
<1> QED
  BY <1>3, <1>4

LEMMA SwipeRest ==
    ASSUME JointInv, RestInv, NEW r \in Req, S!Swipe(r), SwipeStep
    PROVE  Progress' /\ Detected' /\ Owed'
<1>1. /\ pc[r] = "idle" /\ pc' = [pc EXCEPT ![r] = "findExisting"]
      /\ UNCHANGED <<payload, isMatched, swipes, pending, notifQueue>>
  BY DEF S!Swipe, S!brokerVars
<1>2. Advances(r, "findExisting", {})
  BY <1>1, SwipeStepFrame DEF Advances
<1>3. r \notin swipes
  BY <1>1 DEF RestInv, Progress
<1>4. Progress'
  BY <1>1, <1>2, <1>3, AdvanceProgress DEF RestInv
<1>5. Detected'
  BY <1>1, <1>3 DEF RestInv, Detected, Looked, S!Opposite, S!Likes, JointInv, S!SwipeTypeOK
<1>6. Owed'
  BY <1>1, <1>2, AdvanceOwed DEF RestInv
<1> QED
  BY <1>4, <1>5, <1>6

LEMMA FindExistingRest ==
    ASSUME JointInv, RestInv, NEW r \in Req, S!FindExisting(r), SwipeStep
    PROVE  Progress' /\ Detected' /\ Owed'
<1>1. /\ pc[r] = "findExisting"
      /\ UNCHANGED <<payload, isMatched, swipes, notifQueue>>
  BY DEF S!FindExisting, S!brokerVars
<1>2. PICK q \in {"emitLike", "create"}, new \in {{}, {NotifyLike(r)}} :
         /\ pc' = [pc EXCEPT ![r] = q] /\ pending' = pending \cup new
         /\ new = {NotifyLike(r)} <=> q = "emitLike"
  BY SameEvents DEF S!FindExisting
<1>3. Advances(r, q, new)
  BY <1>1, <1>2, SwipeStepFrame, LikesDiffer DEF Advances
<1>4. r \notin swipes
  BY <1>1 DEF RestInv, Progress
<1>5. Progress'
  BY <1>1, <1>2, <1>3, <1>4, AdvanceProgress DEF RestInv
<1>6. Detected'
  BY <1>1, <1>2, <1>4 DEF RestInv, Detected, Looked, S!Opposite, S!Likes, JointInv, S!SwipeTypeOK
<1>7. Owed'
  BY <1>1, <1>2, <1>3, AdvanceOwed DEF RestInv
<1> QED
  BY <1>5, <1>6, <1>7

LEMMA CreateSwipeRest ==
    ASSUME JointInv, RestInv, NEW r \in Req, S!CreateSwipe(r), SwipeStep
    PROVE  Progress' /\ Detected' /\ Owed'
<1>1. /\ pc[r] = "create" /\ pc' = [pc EXCEPT ![r] = "findReverse"]
      /\ swipes' = swipes \cup {r}
      /\ UNCHANGED <<payload, isMatched, pending, notifQueue>>
  BY DEF S!CreateSwipe, S!brokerVars
<1>2. Advances(r, "findReverse", {})
  BY <1>1, SwipeStepFrame DEF Advances
<1>3. Progress'
  BY <1>1, <1>2, AdvanceProgress DEF RestInv
<1>4. Detected'
  BY <1>1 DEF RestInv, Detected, Looked, S!Opposite, S!Likes, JointInv, S!SwipeTypeOK
<1>5. Owed'
  BY <1>1, <1>2, AdvanceOwed DEF RestInv
<1> QED
  BY <1>3, <1>4, <1>5

(* The one step that looks: whoever is looked up already is found. *)
LEMMA FindReverseRest ==
    ASSUME JointInv, RestInv, NEW r \in Req, S!FindReverse(r), SwipeStep
    PROVE  Progress' /\ Detected' /\ Owed'
<1> DEFINE found == S!Reverse(r) # {}
           new == {NotifyLike(r)} \cup (IF found THEN {MatchCreate(r), NotifyMatched(r)} ELSE {})
<1>1. /\ pc[r] = "findReverse" /\ pc' = [pc EXCEPT ![r] = "emitLike"]
      /\ isMatched' = [isMatched EXCEPT ![r] = found]
      /\ UNCHANGED <<payload, swipes, notifQueue>>
  BY DEF S!FindReverse, S!brokerVars
<1>2. pending' = pending \cup new
  BY SameEvents DEF S!FindReverse
<1>3. \A s \in Req : NotifyLike(s) \in new => s = r
  BY LikesDiffer
<1>4. NotifyLike(r) \in new /\ (found => NotifyMatched(r) \in new) /\ found \in BOOLEAN
  OBVIOUS
<1>5. Detected'
  <2> SUFFICES ASSUME NEW s \in Req, NEW t \in Req, Looked(s)', Looked(t)', S!Opposite(s, t)'
               PROVE  isMatched'[s] \/ isMatched'[t]
    BY DEF Detected
  <2>1. isMatched \in [Req -> BOOLEAN] /\ pc \in [Req -> S!SwipePC]
    BY DEF JointInv, S!SwipeTypeOK
  <2>2. S!Opposite(s, t) /\ S!Opposite(t, s) /\ s \in swipes /\ t \in swipes
    BY <1>1 DEF S!Opposite, S!Likes, Looked
  <2>3. CASE s # r /\ t # r
    BY <1>1, <2>1, <2>2, <2>3 DEF RestInv, Detected, Looked
  <2>4. CASE s = r \/ t = r
    <3>1. found
      BY <2>2, <2>4 DEF S!Reverse
    <3> HIDE DEF found
    <3> QED
      BY <1>1, <2>1, <2>4, <3>1
  <2> QED
    BY <2>3, <2>4
<1> HIDE DEF found, new
<1>6. Advances(r, "emitLike", new)
  BY <1>1, <1>2, <1>3, SwipeStepFrame DEF Advances
<1>7. Progress'
  BY <1>1, <1>6, AdvanceProgress DEF RestInv
<1>8. Owed'
  BY <1>1, <1>4, <1>6, AdvanceOwed DEF RestInv
<1> QED
  BY <1>5, <1>7, <1>8

LEMMA PublishRest ==
    ASSUME JointInv, RestInv, NEW e \in pending, S!Publish(e), SwipeStep
    PROVE  Progress' /\ Detected' /\ Owed'
<1>1. /\ pending' = pending \ {e}
      /\ pc' = [r \in Req |-> IF e = NotifyLike(r) THEN "done" ELSE pc[r]]
      /\ UNCHANGED <<payload, isMatched, swipes>>
  BY SameEvents DEF S!Publish
<1>2. UNCHANGED steady
  BY SwipeStepFrame
<1>3. \A r \in Req : e = NotifyLike(r) => pc[r] = "emitLike"
  BY DEF RestInv, Progress
<1>4. Progress'
  BY <1>1, <1>3, LikesDiffer DEF RestInv, Progress, NotifyLike
<1>5. Detected'
  BY <1>1, <1>3 DEF RestInv, Detected, Looked, S!Opposite, S!Likes
<1>6. \A f \in NotifEvent : f \in pending \cup emitted => f \in pending' \cup emitted'
  BY <1>1, PublishEvent, SwipeStepFrame DEF Emit
<1>7. Owed'
  BY <1>1, <1>2, <1>3, <1>6, EventFact DEF RestInv, Owed, NotifyLike, NotifyMatched
<1> QED
  BY <1>4, <1>5, <1>7
(* Nothing is lost but in a behaviour that is not steady. *)
LEMMA LossRest ==
    ASSUME JointInv, RestInv, pending' \subseteq pending, steady => pending' = pending,
           \/ pc' = pc
           \/ ~steady /\ pending' = {} /\
              pc' = [r \in Req |-> IF pc[r] \in S!HandlerPC THEN "killed" ELSE pc[r]],
           UNCHANGED <<payload, isMatched, swipes, emitted, steady>>
    PROVE  Progress' /\ Detected' /\ Owed'
<1>1. Progress'
  BY DEF RestInv, Progress, NotifyLike, JointInv, S!SwipeTypeOK, S!HandlerPC
<1>2. Detected'
  BY DEF RestInv, Detected, Looked, S!Opposite, S!Likes, JointInv, S!SwipeTypeOK, S!HandlerPC
<1>3. Owed'
  BY DEF RestInv, Owed, NotifyLike, NotifyMatched
<1> QED
  BY <1>1, <1>2, <1>3

LEMMA LossesRest ==
    ASSUME JointInv, RestInv, SwipeStep,
           \/ S!Start
           \/ ~steady /\ \E e \in pending : S!PublishFails(e)
           \/ ~steady /\ S!Crash
    PROVE  Progress' /\ Detected' /\ Owed'
<1>1. UNCHANGED <<payload, isMatched, swipes, notifQueue>>
  BY SameEvents, EventFact DEF S!Start, S!Enqueue, S!PublishFails, S!Crash, S!brokerVars
<1>2. UNCHANGED <<emitted, steady>>
  BY <1>1, SwipeStepFrame
<1>3. CASE S!Start
  BY <1>1, <1>2, <1>3, LossRest DEF S!Start
<1>4. CASE ~steady /\ \E e \in pending : S!PublishFails(e)
  BY <1>1, <1>2, <1>4, LossRest DEF S!PublishFails
<1>5. CASE ~steady /\ S!Crash
  BY <1>1, <1>2, <1>5, LossRest DEF S!Crash
<1> QED
  BY <1>3, <1>4, <1>5

(* The handlers of notification-service. *)
LEMMA HandledKept ==
    ASSUME Handled, emitted' \subseteq emitted, notifQueue' = notifQueue,
           \A e \in NotifEvent : hpc[e] # "none" => hpc'[e] # "none",
           steady => \A e \in NotifEvent :
               /\ hpc'[e] = "push" => \/ IsMatch(e) \/ tokens'[e] # {}
                                      \/ hpc[e] = "push" /\ tokens'[e] = tokens[e]
               /\ hpc'[e] = "done" => hpc[e] = "done" \/ NotesOf(e) \subseteq notes'
               /\ hpc'[e] = "failed" =>
                     \/ hpc[e] = "failed"
                     \/ ~IsMatch(e) /\ tokens[e] # {} /\ tokens[e] \subseteq stale
               /\ hpc[e] = "failed" => tokens'[e] = tokens[e]
               /\ hpc'[e] = "failed" => tokens'[e] = tokens[e],
           notes \subseteq notes', stale \subseteq stale', UNCHANGED <<payload, steady>>
    PROVE  Handled'
  BY DEF Handled, Silenced, NotesOf, Recipients, IsMatch

LEMMA ServeHandled ==
    ASSUME Inv, Handled, Serve PROVE Handled'
<1> USE DEF sourceVars, tokenVars, noteVars, brokerVars, notifVars
<1>1. CASE \E u \in User : TokenExpires(u) \/ \E d \in Device : UpdateFcmToken(u, d)
  BY <1>1, HandledKept DEF TokenExpires, UpdateFcmToken
<1>2. CASE \E d \in Device : Uninstall(d)
  BY <1>2, HandledKept DEF Uninstall
<1>3. CASE \E n \in notes : MarkAsRead(n)
  BY <1>3, HandledKept DEF MarkAsRead
<1>4. CASE QueueLost
  BY <1>4 DEF QueueLost, Handled
<1>5. CASE \E e \in NotifEvent : HandlerFails(e)
  BY <1>5 DEF HandlerFails, Handled
<1>6. ASSUME NEW e \in NotifEvent, Receive(e) PROVE Handled'
  <2>1. /\ hpc' = [hpc EXCEPT ![e] = "getTokens"] /\ notifQueue' = notifQueue \ {e}
        /\ UNCHANGED <<payload, emitted, steady, stale, tokens, notes>>
        /\ hpc \in [NotifEvent -> NotePC]
    BY <1>6 DEF Receive, Inv, TypeOK
  <2> QED
    BY <2>1 DEF Handled, Silenced, NotesOf, Recipients, IsMatch
<1>7. ASSUME NEW e \in NotifEvent, GetTokens(e) PROVE Handled'
  <2>1. /\ hpc[e] = "getTokens"
        /\ tokens' = [tokens EXCEPT ![e] = TokensOf(e)]
        /\ \E q \in {"push", "store"} :
              /\ hpc' = [hpc EXCEPT ![e] = q]
              /\ q = "push" => IsMatch(e) \/ tokens'[e] # {}
        /\ UNCHANGED <<payload, emitted, steady, stale, notes, notifQueue>>
        /\ hpc \in [NotifEvent -> NotePC] /\ tokens \in [NotifEvent -> SUBSET Device]
    BY <1>7 DEF GetTokens, Inv, TypeOK
  <2> QED
    BY <2>1, HandledKept
<1>8. ASSUME NEW e \in NotifEvent, Push(e) PROVE Handled'
  <2>1. /\ hpc[e] = "push"
        /\ hpc' = [hpc EXCEPT ![e] =
              IF IsMatch(e) \/ tokens[e] \ stale # {} THEN "store" ELSE "failed"]
        /\ UNCHANGED <<payload, emitted, steady, stale, tokens, notes, notifQueue>>
        /\ hpc \in [NotifEvent -> NotePC] /\ tokens \in [NotifEvent -> SUBSET Device]
    BY <1>8 DEF Push, Inv, TypeOK
  <2>2. steady => IsMatch(e) \/ tokens[e] # {}
    BY <2>1 DEF Handled
  <2> QED
    BY <2>1, <2>2, HandledKept
<1>9. ASSUME NEW e \in NotifEvent, Store(e) PROVE Handled'
  <2>1. /\ hpc[e] = "store" /\ notes' = notes \cup NotesOf(e)
        /\ hpc' = [hpc EXCEPT ![e] = "done"]
        /\ UNCHANGED <<payload, emitted, steady, stale, tokens, notifQueue>>
        /\ hpc \in [NotifEvent -> NotePC]
    BY <1>9 DEF Store, Inv, TypeOK
  <2> QED
    BY <2>1, HandledKept
<1> QED
  BY <1>1, <1>2, <1>3, <1>4, <1>5, <1>6, <1>7, <1>8, <1>9 DEF Serve, HandleEvent
LEMMA EmitHandled ==
    ASSUME Handled, NEW e \in NotifEvent, Emit(e) PROVE Handled'
  BY DEF Handled, Emit, Enqueue, notifVars, tokenVars, noteVars, Silenced, NotesOf, Recipients,
         IsMatch

LEMMA QuietHandled ==
    ASSUME Handled, UNCHANGED <<emitted, notifQueue, payload, steady, notifVars>> PROVE Handled'
  BY DEF Handled, notifVars, tokenVars, noteVars, Silenced, NotesOf, Recipients, IsMatch

LEMMA SwipeStepRest ==
    ASSUME JointInv, RestInv, SwipeStep PROVE RestInv'
<1>1. Progress' /\ Detected' /\ Owed'
  BY SwipeRest, FindExistingRest, CreateSwipeRest, FindReverseRest, PublishRest, LossesRest
     DEF SwipeStep, S!Handle
<1>2. Handled'
  <2>1. UNCHANGED <<steady, notifVars>> /\ payload' = payload
    BY SwipeStepFrame
       DEF SwipeStep, S!Start, S!Swipe, S!Handle, S!FindExisting, S!CreateSwipe, S!FindReverse,
           S!Publish, S!PublishFails, S!Crash
  <2>2. CASE \E e \in pending : S!Publish(e)
    BY <2>1, <2>2, PublishEvent, EmitHandled, QuietHandled DEF RestInv
  <2>3. CASE notifQueue' = notifQueue
    BY <2>1, <2>3, SwipeStepFrame, QuietHandled DEF RestInv
  <2>4. \/ \E e \in pending : S!Publish(e)
        \/ notifQueue' = notifQueue
    BY SameEvents, EventFact
       DEF SwipeStep, S!Start, S!Swipe, S!Handle, S!FindExisting, S!CreateSwipe, S!FindReverse,
           S!PublishFails, S!Crash, S!Enqueue, S!brokerVars
  <2> QED
    BY <2>2, <2>3, <2>4
<1> QED
  BY <1>1, <1>2 DEF RestInv

LEMMA ServiceIdle ==
    ASSUME RestInv, UNCHANGED <<serviceVars, payload, emitted, steady>>
    PROVE  Progress' /\ Detected' /\ Owed'
  BY DEF RestInv, serviceVars, Progress, Detected, Looked, S!Opposite, S!Likes, Owed,
         NotifyLike, NotifyMatched

LEMMA ServeRest ==
    ASSUME JointInv, RestInv, Serve, UNCHANGED serviceVars PROVE RestInv'
<1>1. UNCHANGED <<payload, emitted, steady>>
  BY DEF Serve, HandleEvent, UpdateFcmToken, TokenExpires, Uninstall, Receive, GetTokens, Push,
         Store, HandlerFails, MarkAsRead, QueueLost, sourceVars
<1> QED
  BY <1>1, ServiceIdle, ServeHandled DEF RestInv, JointInv

LEMMA RestInvariance == JointSpec => []RestInv
<1>1. JointInit => RestInv
  BY DEF JointInit, Init, S!SwipeInit, RestInv, Progress, Detected, Looked, Owed, Handled
<1>2. JointInv /\ RestInv /\ [JointNext]_allVars => RestInv'
  <2>1. RestInv /\ UNCHANGED allVars => RestInv'
    BY ServiceIdle, QuietHandled DEF allVars, vars, sourceVars, brokerVars, RestInv
  <2> QED
    BY <2>1, SwipeStepRest, ServeRest DEF JointNext
<1> QED
  BY <1>1, <1>2, JointInvariance, PTL DEF JointSpec

(* At rest nothing is missing: an event is handled as soon as it has left  *)
(* the hands of swipe-service and the queue.                               *)
LEMMA HandledAtRest ==
    ASSUME JointInv, RestInv, steady, AtRest, NEW e \in NotifEvent, e \in pending \cup emitted
    PROVE  Listed(e) \/ (~IsMatch(e) /\ Silenced(e))
<1>1. hpc[e] \in {"done", "failed"}
  BY DEF AtRest, RestInv, Handled, JointInv, Inv, TypeOK, NotePC, NoteHandlerPC
<1>2. NotesOf(e) \subseteq notes => Listed(e)
  BY DEF NotesOf, Listed, GetNotification
<1> QED
  BY <1>1, <1>2 DEF RestInv, Handled

(* Lists are complete at rest, unless something failed.  This is what a    *)
(* fair behaviour arrives at.                                              *)
THEOREM CompleteAtRest == JointSpec => []RestingListed
<1>1. JointInv /\ RestInv => RestingListed
  <2> SUFFICES ASSUME JointInv, RestInv, steady, AtRest, NEW r \in Req, pc[r] = "done"
               PROVE  /\ Listed(NotifyLike(r)) \/ Silenced(NotifyLike(r))
                      /\ Mutual(r) => \E m \in Req :
                            /\ payload[m] = payload[r] \/ S!Opposite(r, m)
                            /\ Listed(NotifyMatched(m))
    BY DEF RestingListed
  <2>1. \A s \in Req : pc[s] = "done" => NotifyLike(s) \in pending \cup emitted
    BY DEF RestInv, Owed
  <2>2. Listed(NotifyLike(r)) \/ Silenced(NotifyLike(r))
    BY <2>1, EventFact, HandledAtRest
  <2>3. ASSUME Mutual(r)
        PROVE  \E m \in Req : /\ payload[m] = payload[r] \/ S!Opposite(r, m)
                              /\ Listed(NotifyMatched(m))
    <3>1. PICK s \in Req : S!Opposite(r, s) /\ pc[s] = "done"
      BY <2>3 DEF Mutual, AtRest
    (* Each like has a document, if not its own. *)
    <3>2. \A t \in Req : pc[t] = "done" =>
             \E d \in Req : Looked(d) /\ payload[d] = payload[t]
      <4> SUFFICES ASSUME NEW t \in Req, pc[t] = "done"
                   PROVE  \E d \in Req : Looked(d) /\ payload[d] = payload[t]
        OBVIOUS
      <4>1. Claim(NotifyLike(t)) /\ NotifyLike(t).by = t
        BY <2>1, EventFact DEF JointInv, Recorded
      <4>2. PICK d \in swipes : payload[d] = payload[t]
        BY <4>1 DEF Claim, S!Existing
      <4>3. d \in Req /\ pc[d] \in {"findReverse", "emitLike", "done", "killed"}
        BY DEF JointInv, S!SwipeTypeOK, RestInv, Progress
      <4> QED
        BY <4>2, <4>3 DEF Looked, AtRest
    <3>3. PICK d \in Req : Looked(d) /\ payload[d] = payload[r]
      BY <3>2
    <3>4. PICK c \in Req : Looked(c) /\ payload[c] = payload[s]
      BY <3>1, <3>2
    <3>5. S!Opposite(d, c)
      BY <3>1, <3>3, <3>4 DEF S!Opposite, S!Likes
    <3>6. PICK m \in {d, c} : isMatched[m]
      BY <3>3, <3>4, <3>5 DEF RestInv, Detected
    <3>7. NotifyMatched(m) \in pending \cup emitted
      BY <3>6 DEF RestInv, Owed
    <3>8. Listed(NotifyMatched(m))
      BY <3>7, EventFact, HandledAtRest
    <3>9. payload[m] = payload[r] \/ S!Opposite(r, m)
      BY <3>1, <3>3, <3>4 DEF S!Opposite, S!Likes
    <3> QED
      BY <3>8, <3>9
  <2> QED
    BY <2>2, <2>3
<1> QED
  BY <1>1, JointInvariance, RestInvariance, PTL
-----------------------------------------------------------------------------
(* The lists implement MatchMaking.                                        *)
LEMMA PromiseInit == JointInit => Promise!Init
  BY DEF JointInit, Init, S!SwipeInit, Promise!Init, likesOf, listedOf

LEMMA PromiseStutter ==
    ASSUME UNCHANGED <<swipes, payload, notes>> PROVE UNCHANGED <<likesOf, listedOf>>
  BY DEF likesOf, listedOf, NotesOf, Recipients, IsMatch

LEMMA CreateSwipeKeepsPromise ==
    ASSUME JointInv, NEW r \in Req, S!CreateSwipe(r), UNCHANGED notes PROVE Promise!Next
<1>1. swipes' = swipes \cup {r} /\ payload' = payload /\ payload[r] \in Payload
  BY DEF S!CreateSwipe, JointInv, Inv, TypeOK
<1>2. listedOf' = listedOf
  BY <1>1 DEF listedOf, NotesOf, Recipients, IsMatch
<1>3. likesOf' = likesOf \cup {<<payload[r].sendFromUser, payload[r].targetUser>>}
  BY <1>1 DEF likesOf
<1>4. Promise!Like(payload[r].sendFromUser, payload[r].targetUser)
  BY <1>2, <1>3 DEF Promise!Like
<1>5. payload[r].sendFromUser \in User /\ payload[r].targetUser \in User
  BY <1>1 DEF Payload
<1> QED
  BY <1>4, <1>5 DEF Promise!Next

(* Documents of one event: a match that its swipes bear out, or no match.  *)
LEMMA NotesKeepPromise ==
    ASSUME JointInv, NEW e \in NotifEvent, e \in emitted, NEW new \in SUBSET NotesOf(e),
           notes' = notes \cup new, UNCHANGED <<payload, swipes>>
    PROVE  [Promise!Next]_<<likesOf, listedOf>>
<1> DEFINE pair == {payload[e.by].sendFromUser, payload[e.by].targetUser}
           a == payload[e.by].sendFromUser
           b == payload[e.by].targetUser
<1>1. likesOf' = likesOf
  BY DEF likesOf
<1>2. \A f \in NotifEvent : /\ NotesOf(f)' = NotesOf(f)
                            /\ f # e => NotesOf(f) \cap notes' = NotesOf(f) \cap notes
  BY NotesFact DEF NotesOf, Recipients, IsMatch
<1>3. CASE ~IsMatch(e) \/ new = {}
  <2>1. listedOf' = listedOf
    BY <1>2, <1>3 DEF listedOf, IsMatch
  <2> QED
    BY <1>1, <2>1
<1>4. CASE IsMatch(e) /\ new # {}
  <2>1. NotesOf(e) \cap notes' # {}
    BY <1>4
  <2>2. listedOf' = listedOf \cup {pair}
    BY <1>2, <1>4, <2>1 DEF listedOf, IsMatch
  <2>3. e.by \in Req /\ a \in User /\ b \in User
    BY DEF NotifEvent, Event, JointInv, Inv, TypeOK, Payload
  <2>4. S!Existing(e.by) # {} /\ S!Reverse(e.by) # {}
    BY <1>4 DEF JointInv, Recorded, Claim
  <2>5. <<a, b>> \in likesOf
    BY <2>4 DEF likesOf, S!Existing
  <2>6. <<b, a>> \in likesOf
    BY <2>4 DEF likesOf, S!Reverse, S!Opposite, S!Likes
  <2>7. Promise!Match(a, b)
    BY <1>1, <2>2, <2>5, <2>6 DEF Promise!Match, Promise!Mutual, Promise!Pair
  <2> QED
    BY <2>3, <2>7 DEF Promise!Next
<1> QED
  BY <1>3, <1>4

LEMMA StoreNotes ==
    ASSUME Inv, NEW e \in NotifEvent, HandleEvent(e) \/ HandlerFails(e)
    PROVE  /\ \E new \in SUBSET NotesOf(e) : notes' = notes \cup new
           /\ notes' # notes => e \in emitted
<1>1. CASE Receive(e) \/ GetTokens(e) \/ Push(e)
  BY <1>1 DEF Receive, GetTokens, Push, noteVars
<1>2. CASE Store(e)
  BY <1>2 DEF Store, Inv, Tracked
<1>3. CASE HandlerFails(e)
  <2>1. e \in emitted
    BY <1>3 DEF HandlerFails, NoteHandlerPC, Inv, Tracked
  <2>2. ASSUME NEW n \in DOMAIN Recipients(e), notes' = notes \cup {<<e, i>> : i \in 1..n}
        PROVE  \E new \in SUBSET NotesOf(e) : notes' = notes \cup new
    <3>1. 1..n \subseteq DOMAIN Recipients(e)
      BY RecipientsFact
    <3>2. {<<e, i>> : i \in 1..n} \in SUBSET NotesOf(e)
      BY <3>1 DEF NotesOf
    <3> QED
      BY <2>2, <3>2
  <2>3. notes' = notes => {} \in SUBSET NotesOf(e) /\ notes' = notes \cup {}
    OBVIOUS
  <2> QED
    BY <1>3, <2>1, <2>2, <2>3 DEF HandlerFails
<1> QED
  BY <1>1, <1>2, <1>3 DEF HandleEvent

LEMMA SwipeStepKeepsPromise ==
    ASSUME JointInv, SwipeStep PROVE [Promise!Next]_<<likesOf, listedOf>>
<1>1. notes' = notes
  BY SwipeStepFrame DEF notifVars, noteVars
<1>2. (\E r \in Req : S!CreateSwipe(r)) \/ UNCHANGED <<payload, swipes>>
  BY DEF SwipeStep, S!Start, S!Swipe, S!Handle, S!FindExisting, S!FindReverse, S!Publish,
         S!PublishFails, S!Crash
<1> QED
  BY <1>1, <1>2, CreateSwipeKeepsPromise, PromiseStutter

LEMMA ServeKeepsPromise ==
    ASSUME JointInv, Serve, UNCHANGED serviceVars PROVE [Promise!Next]_<<likesOf, listedOf>>
<1>1. UNCHANGED <<payload, swipes>>
  BY DEF Serve, HandleEvent, UpdateFcmToken, TokenExpires, Uninstall, Receive, GetTokens, Push,
         Store, HandlerFails, MarkAsRead, QueueLost, sourceVars, serviceVars
<1>2. CASE notes' = notes
  BY <1>1, <1>2, PromiseStutter
<1>3. CASE notes' # notes
  <2>1. PICK e \in NotifEvent : HandleEvent(e) \/ HandlerFails(e)
    BY <1>3 DEF Serve, UpdateFcmToken, TokenExpires, Uninstall, MarkAsRead, QueueLost, noteVars,
       notifVars
  <2> QED
    BY <1>1, <1>3, <2>1, StoreNotes, NotesKeepPromise DEF JointInv
<1> QED
  BY <1>2, <1>3

(* What the users read is a history MatchMaking allows, whatever fails. *)
THEOREM ListsImplement == JointSpec => ListsKeepPromise
<1>1. JointInv /\ [JointNext]_allVars => [Promise!Next]_<<likesOf, listedOf>>
  <2>1. UNCHANGED allVars => UNCHANGED <<likesOf, listedOf>>
    BY PromiseStutter DEF allVars, vars, sourceVars, notifVars, noteVars, serviceVars
  <2> QED
    BY <2>1, SwipeStepKeepsPromise, ServeKeepsPromise DEF JointNext
<1> QED
  BY <1>1, PromiseInit, JointInvariance, PTL DEF JointSpec, ListsKeepPromise, Promise!Spec
=============================================================================
