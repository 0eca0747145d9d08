--------------------------- MODULE ChatListPaging ---------------------------
(***************************************************************************)
(* GET /messages, page by page, while messages are sent                    *)
(* (MessageController.getMessage, MessageService.getMessageByUserId).  A   *)
(* client asks for one page after the other until one comes back empty.    *)
(*                                                                         *)
(* The list is sorted by lastMessageAt, the newest first, and paged by     *)
(* skip and limit, so it moves under the client.  lastMessageAt is the     *)
(* process's date when the transaction updates the conversation, and is    *)
(* visible from the commit on.  Dates are taken to be all different.       *)
(***************************************************************************)
EXTENDS MessageService

CONSTANT Limit  \* conversations on a page

ASSUME LimitAssumption == Limit \in Nat \ {0}
ASSUME SendAssumption == IsFiniteSet(Send)

VARIABLES
    sentAt,    \* sentAt[m]: the date m gives its conversation
    clock,     \* the process's date
    page,      \* the page the client asks for next, 0 after an empty one
    snapshot,  \* the chat list when it asked for the first
    seen       \* the conversations it was shown

dateVars == <<sentAt, clock>>
readerVars == <<page, snapshot, seen>>
pagingVars == <<vars, dateVars, readerVars>>

PagingTypeOK ==
    /\ TypeOK
    /\ sentAt \in [Send -> Nat]
    /\ clock \in Nat \ {0}
    /\ page \in Nat
    /\ snapshot \subseteq Send \X Send
    /\ seen \subseteq Send

PagingInit ==
    /\ Init
    /\ sentAt = [m \in Send |-> 0]
    /\ clock = 1
    /\ page = 1
    /\ snapshot = {}
    /\ seen = {}

(* updateOne sets lastMessageAt with lastMessageId. *)
Dates(m) == pc[m] = "update" /\ pc'[m] = "commit"
SetLastMessageAt ==
    /\ sentAt' = [m \in Send |-> IF Dates(m) THEN clock ELSE sentAt[m]]
    /\ clock' = IF \E m \in Send : Dates(m) THEN clock + 1 ELSE clock

lastMessageAt(c) == sentAt[lastMessageId[c]]

(* Mutant: sort({ lastMessageAt: 1 }). *)
AheadAscending(c) == {d \in conversations : lastMessageAt(d) < lastMessageAt(c)}

(* sort({ lastMessageAt: -1 }): what comes before c. *)
Ahead(c) == {d \in conversations : lastMessageAt(d) > lastMessageAt(c)}

(* skip and limit *)
Skip(n) == (n - 1) * Limit
Page(n) == {c \in conversations : Cardinality(Ahead(c)) \in Skip(n)..(Skip(n) + Limit - 1)}

GetPage ==
    /\ page # 0
    /\ snapshot' = IF page = 1 THEN ChatList ELSE snapshot
    /\ seen' = seen \cup Page(page)
    /\ page' = IF Skip(page) < Cardinality(conversations) THEN page + 1 ELSE 0
    /\ UNCHANGED <<vars, dateVars>>

PagingNext ==
    \/ Next /\ SetLastMessageAt /\ UNCHANGED readerVars
    \/ GetPage

PagingSpec == PagingInit /\ [][PagingNext]_pagingVars

-----------------------------------------------------------------------------
(* Paging skips nothing: whoever reads to the end has seen every           *)
(* conversation of the list they began with that has had no message since. *)
(* (Those that have had one moved to the front, behind the reader's back.) *)
PagingSkipsNothing ==
    page = 0 => \A entry \in snapshot \cap ChatList : entry[1] \in seen
=============================================================================
