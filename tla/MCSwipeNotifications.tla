------------------------ MODULE MCSwipeNotifications ------------------------
(* Model-checking instances of SwipeNotifications. *)
EXTENDS SwipeNotifications

CONSTANT gone  \* the device that may be stale from the start

(* Requests and users are numbers.  User 2 has liked user 1, which has     *)
(* been listed, and user 1 is about to like user 2.  Where things fail,    *)
(* one of the two devices is out of use already, and may be the token of   *)
(* both users: one of them may get another, or none.                       *)
AfterFirstLike ==
    /\ payload = [r \in Req |-> [sendFromUser |-> 3 - r, targetUser |-> r]]
    /\ steady \in BOOLEAN
    /\ up = TRUE
    /\ pc = [r \in Req |-> IF r = 1 THEN "done" ELSE "idle"]
    /\ isMatched = [r \in Req |-> FALSE]
    /\ swipes = {1}
    /\ pending = {}
    /\ matchQueue = {}
    /\ notifQueue = {}
    /\ emitted = {NotifyLike(1)}
    /\ token \in {[u \in User |-> NoToken], [u \in User |-> gone]}
    /\ steady => token[1] = NoToken
    /\ stale = IF steady THEN {} ELSE {gone}
    /\ hpc = [e \in NotifEvent |-> IF e = NotifyLike(1) THEN "done" ELSE "none"]
    /\ tokens = [e \in NotifEvent |-> {}]
    /\ pushed = {}
    /\ notes = {<<NotifyLike(1), 1>>}
    /\ read = notes

AfterFirstLikeFairSpec == AfterFirstLike /\ [][JointNext]_allVars /\ JointFairness
=============================================================================
