-------------------------- MODULE MCChatListPaging --------------------------
(* Model-checking instances of ChatListPaging. *)
EXTENDS ChatListPaging

(* Sends are numbers and, as long as there are no sockets, differ only in  *)
(* their names, for the way one comes in changes nothing: one arrangement  *)
(* stands for all.                                                         *)
RepresentativeInit ==
    /\ PagingInit
    /\ request = [m \in Send |-> [to |-> 1, via |-> IF m = 1 THEN "ws" ELSE "http"]]
RepresentativeFairSpec == RepresentativeInit /\ [][PagingNext]_pagingVars /\ Fairness
=============================================================================
