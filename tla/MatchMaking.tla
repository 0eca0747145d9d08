----------------------------- MODULE MatchMaking -----------------------------
(***************************************************************************)
(* What swiping promises, without services, queues or documents: users     *)
(* like each other one at a time, and two users become a match only once   *)
(* each likes the other.  Nothing is taken back.  A pair is an unordered   *)
(* set, so who swiped last and how many documents say so is not part of    *)
(* the promise.                                                            *)
(***************************************************************************)
CONSTANT User

VARIABLES
    likes,   \* <<a, b>>: a likes b
    matched  \* {a, b}: a and b are a match

Pair(a, b) == {a, b}
Mutual(a, b) == <<a, b>> \in likes /\ <<b, a>> \in likes

Init ==
    /\ likes = {}
    /\ matched = {}

Like(a, b) ==
    /\ likes' = likes \cup {<<a, b>>}
    /\ UNCHANGED matched

Match(a, b) ==
    /\ Mutual(a, b)
    /\ matched' = matched \cup {Pair(a, b)}
    /\ UNCHANGED likes

Next == \E a, b \in User : Like(a, b) \/ Match(a, b)

Spec == Init /\ [][Next]_<<likes, matched>>

(* With working machinery no mutual like stays unmatched. *)
FairSpec ==
    /\ Spec
    /\ \A a, b \in User : WF_<<likes, matched>>(Match(a, b))
=============================================================================
