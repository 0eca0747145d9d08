--------------------------- MODULE MCProfileCache ---------------------------
(* Model-checking instances of ProfileCache. *)
EXTENDS ProfileCache

(* Requests are numbers; of the behaviours that differ only in their names *)
(* it is enough to start from the one whose operations are in order.       *)
Rank == [getProfileById |-> 1, getUserByIds |-> 2, updateProfile |-> 3,
         updatePhotos |-> 4, deleteAccount |-> 5]
RepresentativeInit == Init /\ \A r, s \in Req : r < s => Rank[op[r]] <= Rank[op[s]]
RepresentativeSpec == RepresentativeInit /\ [][Next]_vars
=============================================================================
