--------------------------- MODULE MessageService ---------------------------
(***************************************************************************)
(* message-service: sending a message between two users, over HTTP         *)
(* (MessageController.sendMessage) or over a web socket                    *)
(* (MessageGateway.handleSendMessage), MessageService.create and its       *)
(* transaction, the sockets of MessageGateway and the event to             *)
(* notification-service.                                                   *)
(*                                                                         *)
(* Every send is between the same two users: other pairs have              *)
(* conversations of their own, and nothing is shared.  MongoDB is modelled *)
(* as the code uses it.  A transaction reads the snapshot of its first     *)
(* operation; a write to a document that another open transaction has      *)
(* written fails at once.  The upsert of an existing conversation is such  *)
(* a write, because the schema's timestamps add updatedAt to it; the       *)
(* upsert of a new one inserts a document, and no index makes participants *)
(* unique.                                                                 *)
(***************************************************************************)
EXTENDS Naturals, FiniteSets

CONSTANTS
    Send,    \* requests to send a message; also names the documents they make
    User,    \* the two users
    Socket,  \* socket ids
    Faults   \* TRUE: the database, the broker and the process may fail

ASSUME UserAssumption == Cardinality(User) = 2
ASSUME FaultsAssumption == Faults \in BOOLEAN

VARIABLES
    request,        \* request[m]: the receiver and the way m comes in
    pc,             \* pc[m]: where its handler is
    conversation,   \* conversation[m]: the one its transaction has written
    id,             \* id[m]: the message's _id, 0 before it has one
    conversations,  \* committed conversations
    lastMessageId,  \* lastMessageId[c], as committed
    stored,         \* committed messages
    nextId,         \* the driver's ObjectId counter
    userSocketMap,  \* userSocketMap[u]: the sockets of u
    received,       \* received[m][s]: copies of m socket s was sent
    pending,        \* events emitted and not yet written to the broker
    notified        \* events that have reached "notification_queue"

txnVars == <<conversation, id, nextId>>
dbVars == <<conversations, lastMessageId, stored>>
outVars == <<userSocketMap, received, pending, notified>>
vars == <<request, pc, txnVars, dbVars, outVars>>

Request == [to : User, via : {"http", "ws"}]
Open == {"insert", "update", "commit", "orphan"}
PC == {"idle", "find", "announce", "done", "failed", "killed"} \cup Open

TypeOK ==
    /\ request \in [Send -> Request]
    /\ pc \in [Send -> PC]
    /\ conversation \in [Send -> Send]
    /\ id \in [Send -> Nat]
    /\ conversations \subseteq Send
    /\ lastMessageId \in [Send -> Send]
    /\ stored \subseteq Send
    /\ nextId \in Nat \ {0}
    /\ userSocketMap \in [User -> SUBSET Socket]
    /\ received \in [Send -> [Socket -> 0..2]]
    /\ pending \subseteq Send
    /\ notified \subseteq Send

(* conversation[m] and lastMessageId[c] mean nothing before they are written. *)
Init ==
    /\ request \in [Send -> Request]
    /\ pc = [m \in Send |-> "idle"]
    /\ conversation = [m \in Send |-> m]
    /\ id = [m \in Send |-> 0]
    /\ conversations = {}
    /\ lastMessageId = [c \in Send |-> c]
    /\ stored = {}
    /\ nextId = 1
    /\ userSocketMap = [u \in User |-> {}]
    /\ received = [m \in Send |-> [s \in Socket |-> 0]]
    /\ pending = {}
    /\ notified = {}

Goto(m, p) == pc' = [pc EXCEPT ![m] = p]

(* The open transaction of m has written conversation c. *)
Holds(m, c) == pc[m] \in Open /\ conversation[m] = c

-----------------------------------------------------------------------------
(* startSession and startTransaction. *)
Begin(m) ==
    /\ pc[m] = "idle"
    /\ Goto(m, "find")
    /\ UNCHANGED <<request, txnVars, dbVars, outVars>>

(* Mutant: timestamps: false, so that finding a conversation writes nothing. *)
FindOrCreateUnlocked(m) ==
    /\ pc[m] = "find"
    /\ \E c \in IF conversations = {} THEN {m} ELSE conversations :
          conversation' = [conversation EXCEPT ![m] = c]
    /\ Goto(m, "insert")
    /\ UNCHANGED <<request, id, nextId, dbVars, outVars>>

(* Mutant: a write conflict aborts the transactions on both sides of it. *)
FindOrCreateAbortsBoth(m) ==
    /\ pc[m] = "find"
    /\ \E c \in IF conversations = {} THEN {m} ELSE conversations :
          LET others == {n \in Send \ {m} : Holds(n, c)}
          IN  /\ conversation' = [conversation EXCEPT ![m] = c]
              /\ pc' = [n \in Send |-> CASE n \in others -> "failed"
                                        [] n = m -> IF others = {} THEN "insert" ELSE "failed"
                                        [] OTHER -> pc[n]]
    /\ UNCHANGED <<request, id, nextId, dbVars, outVars>>

(* findOneAndUpdate with upsert.  A write conflict aborts the transaction, *)
(* and nothing retries it.                                                 *)
FindOrCreate(m) ==
    /\ pc[m] = "find"
    /\ \/ /\ conversations = {}
          /\ conversation' = [conversation EXCEPT ![m] = m]
          /\ Goto(m, "insert")
       \/ \E c \in conversations :
             \/ /\ \A n \in Send : ~Holds(n, c)
                /\ conversation' = [conversation EXCEPT ![m] = c]
                /\ Goto(m, "insert")
             \/ /\ \E n \in Send : Holds(n, c)
                /\ Goto(m, "failed")
                /\ UNCHANGED conversation
    /\ UNCHANGED <<request, id, nextId, dbVars, outVars>>

(* messageModel.create: the driver numbers the document, then inserts it.  *)
(* The numbers of one process ascend; those of the next start with a later *)
(* second, a restart taking longer than one.                               *)
InsertMessage(m) ==
    /\ pc[m] = "insert"
    /\ id' = [id EXCEPT ![m] = nextId]
    /\ nextId' = nextId + 1
    /\ Goto(m, "update")
    /\ UNCHANGED <<request, conversation, dbVars, outVars>>

(* Mutant: the event goes out before the commit. *)
UpdateAndAnnounce(m) ==
    /\ pc[m] = "update"
    /\ pending' = pending \cup {m}
    /\ Goto(m, "commit")
    /\ UNCHANGED <<request, txnVars, dbVars, userSocketMap, received, notified>>

(* updateOne on a conversation that the transaction has written already. *)
UpdateConversation(m) ==
    /\ pc[m] = "update"
    /\ Goto(m, "commit")
    /\ UNCHANGED <<request, txnVars, dbVars, outVars>>

(* Mutant: lastMessageId gets the number, not the message. *)
StoreNumber(m) ==
    /\ conversations' = conversations \cup {conversation[m]}
    /\ lastMessageId' = [lastMessageId EXCEPT ![conversation[m]] = id[m]]
    /\ stored' = stored \cup {m}

(* Mutant: the updateOne is left out of the transaction, and lost. *)
StoreWithoutLast(m) ==
    /\ conversations' = conversations \cup {conversation[m]}
    /\ stored' = stored \cup {m}
    /\ UNCHANGED lastMessageId

Store(m) ==
    /\ conversations' = conversations \cup {conversation[m]}
    /\ lastMessageId' = [lastMessageId EXCEPT ![conversation[m]] = m]
    /\ stored' = stored \cup {m}

Commit(m) ==
    /\ pc[m] = "commit"
    /\ Store(m)
    /\ Goto(m, "announce")
    /\ UNCHANGED <<request, txnVars, outVars>>

(* Mutant: a message that came over a socket needs no push. *)
AnnounceToSockets(m) ==
    LET ws == request[m].via = "ws"
    IN  /\ pc[m] = "announce"
        /\ pending' = IF ws THEN pending ELSE pending \cup {m}
        /\ received' = [received EXCEPT ![m] =
                [s \in Socket |-> IF s \in userSocketMap[request[m].to] THEN 2 ELSE 0]]
        /\ Goto(m, "done")
        /\ UNCHANGED <<request, txnVars, dbVars, userSocketMap, notified>>

(* Back from the commit, in one turn of the event loop: the event goes out *)
(* and the receiver's sockets get the message, once from notifyReceiver    *)
(* and, when it came over a socket, once more from handleSendMessage.      *)
Announce(m) ==
    LET copies == IF request[m].via = "ws" THEN 2 ELSE 1
    IN  /\ pc[m] = "announce"
        /\ pending' = pending \cup {m}
        /\ received' = [received EXCEPT ![m] =
                [s \in Socket |-> IF s \in userSocketMap[request[m].to] THEN copies ELSE 0]]
        /\ Goto(m, "done")
        /\ UNCHANGED <<request, txnVars, dbVars, userSocketMap, notified>>

Publish(m) ==
    /\ m \in pending
    /\ pending' = pending \ {m}
    /\ notified' = notified \cup {m}
    /\ UNCHANGED <<request, pc, txnVars, dbVars, userSocketMap, received>>

-----------------------------------------------------------------------------
(* handleConnection, for a socket that names its user, and handleDisconnect. *)
Connect(u, s) ==
    /\ \A v \in User : s \notin userSocketMap[v]
    /\ userSocketMap' = [userSocketMap EXCEPT ![u] = @ \cup {s}]
    /\ UNCHANGED <<request, pc, txnVars, dbVars, received, pending, notified>>

Disconnect(s) ==
    /\ \E u \in User : s \in userSocketMap[u]
    /\ userSocketMap' = [u \in User |-> userSocketMap[u] \ {s}]
    /\ UNCHANGED <<request, pc, txnVars, dbVars, received, pending, notified>>

-----------------------------------------------------------------------------
(* An operation of the transaction rejects: create aborts it and rethrows. *)
Abort(m) ==
    /\ Faults
    /\ pc[m] \in {"find", "insert", "update", "commit"}
    /\ Goto(m, "failed")
    /\ UNCHANGED <<request, txnVars, dbVars, outVars>>

(* The commit is applied and its answer is lost: abortTransaction throws   *)
(* too, the sender is told of a failure and nothing is announced.          *)
CommitUnanswered(m) ==
    /\ Faults
    /\ pc[m] = "commit"
    /\ Store(m)
    /\ Goto(m, "failed")
    /\ UNCHANGED <<request, txnVars, outVars>>

PublishFails(m) ==
    /\ Faults
    /\ m \in pending
    /\ pending' = pending \ {m}
    /\ UNCHANGED <<request, pc, txnVars, dbVars, userSocketMap, received, notified>>

(* The process dies with its handlers, sockets and unwritten events.  The  *)
(* database keeps its open transactions until it gives up on them.         *)
Crash ==
    /\ Faults
    /\ pc' = [m \in Send |-> CASE pc[m] \in Open -> "orphan"
                               [] pc[m] \in {"find", "announce"} -> "killed"
                               [] OTHER -> pc[m]]
    /\ userSocketMap' = [u \in User |-> {}]
    /\ pending' = {}
    /\ UNCHANGED <<request, txnVars, dbVars, received, notified>>

OrphanAborted(m) ==
    /\ pc[m] = "orphan"
    /\ Goto(m, "killed")
    /\ UNCHANGED <<request, txnVars, dbVars, outVars>>

-----------------------------------------------------------------------------
Handle(m) == \/ FindOrCreate(m) \/ InsertMessage(m) \/ UpdateConversation(m)
             \/ Commit(m) \/ Announce(m)

Next ==
    \/ \E m \in Send : \/ Begin(m) \/ Handle(m) \/ Publish(m)
                       \/ Abort(m) \/ CommitUnanswered(m) \/ PublishFails(m)
                       \/ OrphanAborted(m)
    \/ \E u \in User, s \in Socket : Connect(u, s)
    \/ \E s \in Socket : Disconnect(s)
    \/ Crash

Spec == Init /\ [][Next]_vars
Fairness == \A m \in Send : WF_vars(Handle(m)) /\ WF_vars(Publish(m))
FairSpec == Spec /\ Fairness

-----------------------------------------------------------------------------
(* getConversationMessages *)
In(c) == {m \in stored : conversation[m] = c}

(* getMessageByUserId: the conversations of a user, each with the message   *)
(* that lastMessageId is populated with.                                   *)
ChatList == {<<c, lastMessageId[c]>> : c \in conversations}
NewestIn(c, m) == m \in In(c) /\ \A n \in In(c) : id[n] <= id[m]

(* No conversation is visible without a message, no message without its    *)
(* conversation, and lastMessageId, which the chat list shows, is the      *)
(* newest message of the conversation by _id.                              *)
LastMessageIsNewest ==
    /\ \A m \in stored : conversation[m] \in conversations
    /\ \A entry \in ChatList : NewestIn(entry[1], entry[2])

(* The history pages back by _id (getConversationMessages, before).  That  *)
(* is sound only if no message ever turns up below one that is visible:    *)
(* the transactions of a conversation exclude each other from before they  *)
(* number their message until it is committed.                             *)
NoLateArrival ==
    [][\A m \in stored' \ stored : \A n \in stored :
          conversation'[n] = conversation'[m] => id'[n] < id'[m]]_vars

(* Nobody is told of a message that could still be rolled back, and a      *)
(* message goes out to the sockets only if its event does.                 *)
AnnouncedIsStored ==
    \A m \in Send : /\ m \in pending \cup notified => m \in stored
                    /\ (\E s \in Socket : received[m][s] > 0) => m \in stored

(* The event of a message is emitted once: what has been written to the    *)
(* queue is never again in the hands of the proxy.  It is what             *)
(* NotificationService takes for granted of those who emit its events.     *)
EmittedOnce == [](pending \cap notified = {}) /\ [][notified \subseteq notified']_vars

(* Without failures a stored message is announced or about to be, and a    *)
(* send that failed left nothing behind.                                   *)
StoredIsAnnounced ==
    ~Faults => \A m \in Send :
        /\ m \in stored => pc[m] = "announce" \/ m \in pending \cup notified
        /\ pc[m] = "failed" => m \notin stored

(* Write conflicts do not refuse all of several concurrent sends: however  *)
(* many messages are stored, if a send is at work there will be one more,  *)
(* that send's or one it gave way to.                                      *)
AtWork == \E m \in Send : pc[m] \in {"find"} \cup Open
SomeoneGetsThrough ==
    \A k \in 0..Cardinality(Send) :
        Cardinality(stored) = k /\ AtWork ~> Cardinality(stored) > k

(* In other words, as long as nothing fails the sends at work cannot all   *)
(* have ended and left what was stored as it was.                          *)
GiveWayToOne ==
    ~Faults => \A X \in SUBSET Send : [](AtWork /\ stored = X => [](stored = X => AtWork))

(* When all is quiet and nothing has failed, the messages are those of the *)
(* handlers that are done, each with its event, and there are some if any  *)
(* send began.                                                             *)
AtRest == pending = {} /\ \A m \in Send : pc[m] \in {"idle", "done", "failed"}
RestingNotified ==
    ~Faults /\ AtRest =>
        /\ stored = {m \in Send : pc[m] = "done"}
        /\ notified = stored
        /\ (\E m \in Send : pc[m] # "idle") => stored # {}

(* A conversation as it is read: each message at the place its _id gives it. *)
Older(m) == {n \in In(conversation[m]) : id[n] < id[m]}
Place(m) == Cardinality(Older(m)) + 1
logOf(c) == [i \in 1..Cardinality(In(c)) |-> CHOOSE m \in In(c) : Place(m) = i]

Log == INSTANCE ChatLog
    WITH Conversation <- Send, Message <- Send, log <- [c \in Send |-> logOf(c)]

(* Each conversation, read in the order of _id, only ever grows at its end. *)
KeepsLog == Log!Spec

(* What the code and its documents say and the service does not do. *)

(* findOneAndUpdate with upsert and $setOnInsert is there to find or create *)
(* the conversation of a pair of participants.                              *)
OneConversation == Cardinality(conversations) <= 1
=============================================================================
