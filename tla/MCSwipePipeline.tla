-------------------------- MODULE MCSwipePipeline --------------------------
(* Model-checking instances of SwipePipeline. *)
EXTENDS SwipePipeline, Naturals, FiniteSets, TLC

(* Users are interchangeable, and so are requests. *)
Symmetry == Permutations(User) \cup Permutations(Req)

(* The same by hand, for the runs whose properties are temporal: TLC's own *)
(* symmetry is unsound there.  Requests and users are numbers; of the      *)
(* behaviours that differ only in their names it is enough to start from   *)
(* the one whose payloads ascend and in which user 1 sends the most.       *)
Rank(r) == 10 * payload[r].sendFromUser + payload[r].targetUser
SentBy(u) == Cardinality({r \in Req : payload[r].sendFromUser = u})
Representative ==
    /\ \A r, s \in Req : r < s => Rank(r) <= Rank(s)
    /\ \A u, v \in User : u < v => SentBy(u) >= SentBy(v)

RepresentativeInit == Init /\ Representative
RepresentativeFairSpec ==
    RepresentativeInit /\ [][Next]_vars /\ SwipeFairness /\ MatchFairness
=============================================================================
