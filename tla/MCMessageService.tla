-------------------------- MODULE MCMessageService --------------------------
(* Model-checking instances of MessageService. *)
EXTENDS MessageService, TLC

Symmetry == Permutations(Send) \cup Permutations(User) \cup Permutations(Socket)
=============================================================================
