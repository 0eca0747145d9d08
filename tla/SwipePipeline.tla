---------------------------- MODULE SwipePipeline ----------------------------
(***************************************************************************)
(* From a right swipe to a match document: swipe-service, the broker and   *)
(* match-service together.                                                 *)
(***************************************************************************)
EXTENDS SwipeService, MatchService

vars == <<swipeVars, brokerVars, matchVars>>

Init == SwipeInit /\ BrokerInit /\ MatchInit

Next ==
    \/ SwipeNext /\ UNCHANGED matchVars
    \/ MatchNext /\ UNCHANGED swipeVars
    \/ BrokerRestart /\ UNCHANGED <<swipeVars, matchVars>>

Spec == Init /\ [][Next]_vars
FairSpec == Spec /\ SwipeFairness /\ MatchFairness

TypeOK == SwipeTypeOK /\ BrokerTypeOK /\ MatchTypeOK

-----------------------------------------------------------------------------
SamePair(r, s) == payload[s] = payload[r] \/ Opposite(r, s)

(* The reverse lookup of r is over and r's process survived it. *)
Checked(r) == r \in swipes /\ pc[r] \in {"emitLike", "done"}

(* Two opposite swipes whose handlers ran side by side cannot both miss    *)
(* each other: createSwipe writes its own document before it looks for the *)
(* other's, so whoever looks second finds the first.                       *)
MutualLikeDetected ==
    \A r, s \in Req :
        Checked(r) /\ Checked(s) /\ Opposite(r, s) => isMatched[r] \/ isMatched[s]

(* Events on their way to a match document, in whichever place. *)
MatchInTransit ==
    {e.by : e \in {f \in pending \cup matchQueue : f \in MatchEvent}} \cup creating

(* No match document, and no event that will become one, without a swipe   *)
(* document in each direction, whatever crashed in between.                *)
MatchesAreMutual ==
    \A r \in matches \cup MatchInTransit : r \in swipes /\ Reverse(r) # {}

(* An event is in one place at a time and never returns to one it has      *)
(* left, so no swipe gives two match documents.                            *)
EventInOnePlace ==
    \A r \in Req :
        /\ MatchCreate(r) \in pending => MatchCreate(r) \notin matchQueue
        /\ MatchCreate(r) \in pending \cup matchQueue => r \notin creating \cup matches
        /\ r \in creating => r \notin matches

(* While nothing fails, a detected match is in transit or stored. *)
MatchAccountedFor ==
    ~Faults => \A r \in Req : isMatched[r] => r \in MatchInTransit \cup matches

(* Once both services have come to rest without a failure, every mutual    *)
(* like has its match document.                                            *)
AtRest == (\A r \in Req : pc[r] \in {"idle", "done"}) /\ MatchInTransit = {}
RestingMatched ==
    ~Faults /\ AtRest =>
        \A r, s \in swipes : Opposite(r, s) => \E m \in matches : SamePair(r, m)

(* Two match documents for one pair come only from handlers that overlap:  *)
(* a request that has not passed its lookup when its pair is matched never *)
(* announces that pair again.                                              *)
NotYetLookedUp(r) == pc[r] \in {"idle", "findExisting"}
MatchedOnceSettled ==
    \A r, s \in Req :
        [](isMatched[s] /\ SamePair(r, s) /\ NotYetLookedUp(r) => [](~isMatched[r]))

-----------------------------------------------------------------------------
(* The promise of MatchMaking, read off the two collections. *)
likesOf == {<<payload[r].sendFromUser, payload[r].targetUser>> : r \in swipes}
matchedOf == {{payload[r].sendFromUser, payload[r].targetUser} : r \in matches}

Promise == INSTANCE MatchMaking WITH likes <- likesOf, matched <- matchedOf

(* Every step of the services is a like, a match of two users who like     *)
(* each other, or invisible: nothing recorded is ever lost or invented.    *)
KeepsPromise == Promise!Spec

(* Without failures every mutual like also becomes a match. *)
KeepsFairPromise == Promise!FairSpec

-----------------------------------------------------------------------------
(* What the program is written to do and does not. *)

(* swipe.service.ts:171-175 keeps the swipes whose $lookup came back empty: *)
(* those the user has not answered with a swipe of their own.  A swipe on   *)
(* oneself, which is its own answer, is left aside.                         *)
UnreadIsUnanswered ==
    \A u \in User : \A r \in UnreadSwipes(u) :
        payload[r].sendFromUser # u => Reverse(r) = {}
=============================================================================
