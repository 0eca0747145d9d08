------------------------- MODULE SwipeNotifications -------------------------
(***************************************************************************)
(* From a right swipe to the lists of two users: swipe-service emits what  *)
(* notification-service consumes.  The environment of NotificationService  *)
(* is replaced by SwipeService, which shares payload and the queues with   *)
(* it; match.create stays in its queue, which nobody else reads.           *)
(***************************************************************************)
EXTENDS NotificationService

VARIABLES up, pc, isMatched, swipes, pending

S == INSTANCE SwipeService

serviceVars == <<up, pc, isMatched, swipes, pending>>
allVars == <<vars, serviceVars>>

(* An event counts as emitted once it is in the queue. *)
SwipeStep ==
    /\ \/ S!Start
       \/ \E r \in Req : S!Swipe(r) \/ S!Handle(r)
       \/ \E e \in pending : S!Publish(e)
       \/ ~steady /\ \E e \in pending : S!PublishFails(e)
       \/ ~steady /\ S!Crash
    /\ emitted' = emitted \cup (notifQueue' \ notifQueue)
    /\ UNCHANGED <<steady, notifVars>>

JointInit == Init /\ S!SwipeInit
JointNext == SwipeStep \/ (Serve /\ UNCHANGED serviceVars)

(* The event loop, the proxies, the broker and the drivers go on. *)
JointFairness == S!SwipeFairness /\ Fairness

JointSpec == JointInit /\ [][JointNext]_allVars

JointTypeOK == TypeOK /\ S!SwipeTypeOK

-----------------------------------------------------------------------------
(* Swipe-service is an environment as NotificationService takes it to be:  *)
(* whatever crashes, it emits an event once and takes nothing back, so all *)
(* that is proved of NotificationService holds here.  (Nothing is said of  *)
(* match_queue, which is another service's.)                               *)
N == INSTANCE NotificationService WITH matchQueue <- {}
KeepsEnvironment == [][N!Next]_(N!vars)

(* Nobody reads in their list of a like or a match that the collection     *)
(* "swipes" does not bear out, whatever has crashed in between.            *)
ListedIsRecorded ==
    \A e \in NotifEvent : NotesOf(e) \cap notes # {} =>
        /\ S!Existing(e.by) # {}
        /\ IsMatch(e) => S!Reverse(e.by) # {}

(* Two users who like each other both find the match in their lists, as    *)
(* long as nothing fails and whatever becomes of their tokens.             *)
Mutual(r) == \E s \in Req : S!Opposite(r, s) /\ "idle" \notin {pc[r], pc[s]}
MutualLikeListed ==
    \A r \in Req : steady /\ Mutual(r) ~>
        \E m \in Req : /\ payload[m] = payload[r] \/ S!Opposite(r, m)
                      /\ Listed(NotifyMatched(m))

(* A like is not so lucky: once the client was told 201 it gets into the   *)
(* list, unless its recipient's token was stale, and for no other reason   *)
(* as long as nothing fails.                                               *)
LikeListed ==
    \A r \in Req : steady /\ pc[r] # "idle" ~>
        Listed(NotifyLike(r)) \/ Silenced(NotifyLike(r))

(* Once both services have come to rest without a failure, the lists are   *)
(* complete: a mutual like is in both, and the one like that is missing is *)
(* one whose recipient's token was stale.                                  *)
AtRest ==
    /\ \A r \in Req : pc[r] \in {"idle", "done"}
    /\ \A e \in NotifEvent : hpc[e] \notin NoteHandlerPC
    /\ pending \cup notifQueue = {}
RestingListed ==
    steady /\ AtRest =>
        \A r \in Req : pc[r] = "done" =>
            /\ Listed(NotifyLike(r)) \/ Silenced(NotifyLike(r))
            /\ Mutual(r) => \E m \in Req : /\ payload[m] = payload[r] \/ S!Opposite(r, m)
                                          /\ Listed(NotifyMatched(m))

-----------------------------------------------------------------------------
(* The promise of MatchMaking, read off the swipes and the lists.          *)
likesOf == {<<payload[r].sendFromUser, payload[r].targetUser>> : r \in swipes}
listedOf ==
    {{payload[e.by].sendFromUser, payload[e.by].targetUser} :
        e \in {f \in NotifEvent : IsMatch(f) /\ NotesOf(f) \cap notes # {}}}

Promise == INSTANCE MatchMaking WITH likes <- likesOf, matched <- listedOf

(* What users find in their lists is a history of likes and of matches     *)
(* between users who like each other, one at a time, whatever fails.       *)
ListsKeepPromise == Promise!Spec
=============================================================================
