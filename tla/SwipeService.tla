---------------------------- MODULE SwipeService ----------------------------
(***************************************************************************)
(* The right swipes of swipe-service: SwipeController.swipe,               *)
(* SwipeService.handleSwipe, handleSwipeRight and createSwipe, the         *)
(* collection "swipes" and the two client proxies.                         *)
(*                                                                         *)
(* handleSwipe does not await handleSwipeRight, so the client is answered  *)
(* at once and the handler floats; handlers of different requests          *)
(* interleave at every await, and there is one action per stretch between  *)
(* two awaits.  An exception in a floating handler is an unhandled         *)
(* rejection, which ends the Node 18 process with every handler in flight: *)
(* Crash stands for all of them, and for the death of the container.       *)
(***************************************************************************)
EXTENDS Broker

CONSTANT User

VARIABLES
    up,         \* the process has finished onModuleInit
    payload,    \* payload[r]: who swipes right on whom in request r
    pc,         \* pc[r]: where the handler of request r is
    isMatched,  \* isMatched[r]: createSwipe found the opposite swipe
    swipes,     \* documents in "swipes", named by the request that made them
    pending     \* events emitted and not yet written to the broker

swipeVars == <<up, payload, pc, isMatched, swipes, pending>>

Payload == [sendFromUser : User, targetUser : User]
HandlerPC == {"findExisting", "create", "findReverse", "emitLike"}
SwipePC == HandlerPC \cup {"idle", "done", "killed"}

SwipeTypeOK ==
    /\ up \in BOOLEAN
    /\ payload \in [Req -> Payload]
    /\ pc \in [Req -> SwipePC]
    /\ isMatched \in [Req -> BOOLEAN]
    /\ swipes \subseteq Req
    /\ pending \subseteq MatchEvent \cup NotifEvent

(* payload is what the clients will send: chosen once, never changed. *)
SwipeInit ==
    /\ up = FALSE
    /\ payload \in [Req -> Payload]
    /\ pc = [r \in Req |-> "idle"]
    /\ isMatched = [r \in Req |-> FALSE]
    /\ swipes = {}
    /\ pending = {}

Likes(r, a, b) == payload[r].sendFromUser = a /\ payload[r].targetUser = b
Opposite(r, s) == Likes(s, payload[r].targetUser, payload[r].sendFromUser)

(* The two findOne queries of createSwipe for the swipe of request r. *)
Existing(r) == {s \in swipes : payload[s] = payload[r]}
Reverse(r) == {s \in swipes : Opposite(r, s)}

-----------------------------------------------------------------------------
(* onModuleInit: the process listens once the event "pong" is out. *)
Start ==
    /\ ~up
    /\ up' = TRUE
    /\ Enqueue(Pong)
    /\ UNCHANGED <<payload, pc, isMatched, swipes, pending>>

(* POST /swipe/action with type RIGHT: answered 201 whatever happens next. *)
Swipe(r) ==
    /\ up
    /\ pc[r] = "idle"
    /\ pc' = [pc EXCEPT ![r] = "findExisting"]
    /\ UNCHANGED <<up, payload, isMatched, swipes, pending, brokerVars>>

(* Mutant: no lookup before the create. *)
FindExistingSkipped(r) ==
    /\ pc[r] = "findExisting"
    /\ pc' = [pc EXCEPT ![r] = "create"]
    /\ UNCHANGED <<up, payload, isMatched, swipes, pending, brokerVars>>

(* A swipe that exists ends createSwipe early; handleSwipeRight still emits *)
(* the like.                                                                *)
FindExisting(r) ==
    /\ pc[r] = "findExisting"
    /\ \/ /\ Existing(r) # {}
          /\ pc' = [pc EXCEPT ![r] = "emitLike"]
          /\ pending' = pending \cup {NotifyLike(r)}
       \/ /\ Existing(r) = {}
          /\ pc' = [pc EXCEPT ![r] = "create"]
          /\ UNCHANGED pending
    /\ UNCHANGED <<up, payload, isMatched, swipes, brokerVars>>

CreateSwipe(r) ==
    /\ pc[r] = "create"
    /\ swipes' = swipes \cup {r}
    /\ pc' = [pc EXCEPT ![r] = "findReverse"]
    /\ UNCHANGED <<up, payload, isMatched, pending, brokerVars>>

(* Mutant: createSwipe runs in a transaction, so the lookup does not see a  *)
(* swipe whose handler has not committed.                                  *)
FindReverseInTransaction(r) ==
    LET found == \E s \in Reverse(r) : pc[s] # "findReverse"
    IN  /\ pc[r] = "findReverse"
        /\ isMatched' = [isMatched EXCEPT ![r] = found]
        /\ pending' = pending \cup {NotifyLike(r)} \cup
                      (IF found THEN {MatchCreate(r), NotifyMatched(r)} ELSE {})
        /\ pc' = [pc EXCEPT ![r] = "emitLike"]
        /\ UNCHANGED <<up, payload, swipes, brokerVars>>

(* Mutant: the lookup asks for any swipe of the target user. *)
FindReverseOfAnyone(r) ==
    LET found == \E s \in swipes : payload[s].sendFromUser = payload[r].targetUser
    IN  /\ pc[r] = "findReverse"
        /\ isMatched' = [isMatched EXCEPT ![r] = found]
        /\ pending' = pending \cup {NotifyLike(r)} \cup
                      (IF found THEN {MatchCreate(r), NotifyMatched(r)} ELSE {})
        /\ pc' = [pc EXCEPT ![r] = "emitLike"]
        /\ UNCHANGED <<up, payload, swipes, brokerVars>>

(* Mutant: the users are told of the match and match-service is not. *)
FindReverseOnlyNotifies(r) ==
    /\ pc[r] = "findReverse"
    /\ isMatched' = [isMatched EXCEPT ![r] = Reverse(r) # {}]
    /\ pending' = pending \cup {NotifyLike(r)} \cup
                  (IF Reverse(r) # {} THEN {NotifyMatched(r)} ELSE {})
    /\ pc' = [pc EXCEPT ![r] = "emitLike"]
    /\ UNCHANGED <<up, payload, swipes, brokerVars>>

(* The match is announced on both proxies without waiting for either; the  *)
(* like follows in the same turn of the event loop.                        *)
FindReverse(r) ==
    /\ pc[r] = "findReverse"
    /\ isMatched' = [isMatched EXCEPT ![r] = Reverse(r) # {}]
    /\ pending' = pending \cup {NotifyLike(r)} \cup
                  (IF Reverse(r) # {} THEN {MatchCreate(r), NotifyMatched(r)}
                                      ELSE {})
    /\ pc' = [pc EXCEPT ![r] = "emitLike"]
    /\ UNCHANGED <<up, payload, swipes, brokerVars>>

(* Mutant: the proxy keeps an event it has written, and writes it again.   *)
PublishAgain(e) ==
    /\ e \in pending
    /\ Enqueue(e)
    /\ pc' = [r \in Req |-> IF e = NotifyLike(r) THEN "done" ELSE pc[r]]
    /\ UNCHANGED <<up, payload, isMatched, swipes, pending>>

(* A proxy writes an emitted event to its queue.  Only the like is awaited: *)
(* its handler is done when it is out.                                      *)
Publish(e) ==
    /\ e \in pending
    /\ pending' = pending \ {e}
    /\ Enqueue(e)
    /\ pc' = [r \in Req |-> IF e = NotifyLike(r) THEN "done" ELSE pc[r]]
    /\ UNCHANGED <<up, payload, isMatched, swipes>>

(* Nobody subscribes to the result of the first two emits: an error there  *)
(* is dropped with the event.                                              *)
PublishFails(e) ==
    /\ Faults
    /\ e \in pending
    /\ e.pattern # "notification_message"
    /\ pending' = pending \ {e}
    /\ UNCHANGED <<up, payload, pc, isMatched, swipes, brokerVars>>

(* Mutant: what an interrupted handler wrote is rolled back. *)
CrashRollsBack ==
    /\ Faults
    /\ up
    /\ up' = FALSE
    /\ pc' = [r \in Req |-> IF pc[r] \in HandlerPC THEN "killed" ELSE pc[r]]
    /\ pending' = {}
    /\ swipes' = {r \in swipes : pc[r] \notin HandlerPC}
    /\ UNCHANGED <<payload, isMatched, brokerVars>>

(* Unhandled rejection or kill: handlers and unwritten events are gone, the *)
(* collection stays.                                                        *)
Crash ==
    /\ Faults
    /\ up
    /\ up' = FALSE
    /\ pc' = [r \in Req |-> IF pc[r] \in HandlerPC THEN "killed" ELSE pc[r]]
    /\ pending' = {}
    /\ UNCHANGED <<payload, isMatched, swipes, brokerVars>>

Handle(r) == FindExisting(r) \/ CreateSwipe(r) \/ FindReverse(r)

SwipeNext ==
    \/ Start
    \/ \E r \in Req : Swipe(r) \/ Handle(r)
    \/ \E e \in pending : Publish(e) \/ PublishFails(e)
    \/ Crash

SwipeFairness ==
    /\ WF_<<swipeVars, brokerVars>>(Start)
    /\ \A r \in Req : WF_<<swipeVars, brokerVars>>(Handle(r))
    /\ \A e \in MatchEvent \cup NotifEvent : WF_<<swipeVars, brokerVars>>(Publish(e))

-----------------------------------------------------------------------------
(* GET /swipe/unread for user u: the swipes on u that u has not answered.  *)
(* The $lookup names its foreign collection ' swipes', with a leading      *)
(* blank; the schema stores in 'swipes', so the stage joins nothing.       *)
LookupCollection == {}
UnreadSwipes(u) ==
    {r \in swipes : /\ payload[r].targetUser = u
                    /\ \A s \in LookupCollection : ~Opposite(r, s)}
=============================================================================
