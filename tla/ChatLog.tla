------------------------------- MODULE ChatLog -------------------------------
(***************************************************************************)
(* What a conversation promises to those who read it page by page: it is a *)
(* log.  A message is put at its end, once, and stays where it is.         *)
(***************************************************************************)
EXTENDS Sequences, Functions

CONSTANTS Conversation, Message

VARIABLE log  \* log[c]: the messages of c, oldest first

Init == log = [c \in Conversation |-> <<>>]

Append1(c, m) ==
    /\ \A d \in Conversation : m \notin Range(log[d])
    /\ log' = [log EXCEPT ![c] = Append(@, m)]

Next == \E c \in Conversation, m \in Message : Append1(c, m)

Spec == Init /\ [][Next]_log
=============================================================================
