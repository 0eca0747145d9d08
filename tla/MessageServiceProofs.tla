------------------------- MODULE MessageServiceProofs -------------------------
(***************************************************************************)
(* The safety properties of MessageService and, further down, of the pages *)
(* of the chat list.  Those of MessageService are proved for every number  *)
(* of concurrent sends and sockets, with or without faults.  The argument  *)
(* is mutual exclusion: the write of findOneAndUpdate is a lock on the     *)
(* conversation that is held until the transaction ends, so the _id a      *)
(* transaction takes while it holds the lock is above every committed one  *)
(* of the conversation, and still is when it commits.                      *)
(***************************************************************************)
EXTENDS ChatListPaging, SequenceTheorems, FiniteSetTheorems, TLAPS

(* Which documents exist at which stage of the handlers. *)
Placed ==
    /\ \A m \in stored : /\ pc[m] \in {"announce", "done", "failed", "killed"}
                         /\ conversation[m] \in conversations
    /\ \A c \in conversations : c \in stored /\ conversation[c] = c
    /\ \A m \in Send : pc[m] \in Open =>
          conversation[m] = m \/ conversation[m] \in conversations

(* The lock: one open transaction per conversation. *)
Exclusive ==
    \A m, n \in Send : m # n /\ pc[m] \in Open /\ pc[n] \in Open
                           => conversation[m] # conversation[n]

(* A transaction that has numbered its message is above its conversation. *)
Numbered ==
    /\ \A m \in Send : id[m] < nextId
    /\ \A m \in Send : pc[m] \in {"update", "commit"} =>
          \A n \in stored : conversation[n] = conversation[m] => id[n] < id[m]

(* LastMessageIsNewest, without the detour through the chat list. *)
Newest ==
    /\ \A m \in stored : conversation[m] \in conversations
    /\ \A c \in conversations :
          /\ lastMessageId[c] \in In(c)
          /\ \A m \in In(c) : id[m] <= id[lastMessageId[c]]

DbInv == TypeOK /\ Placed /\ Exclusive /\ Numbered /\ Newest

-----------------------------------------------------------------------------
(* Types. *)

LEMMA TypeInit == Init => TypeOK
BY DEF Init, TypeOK, PC

LEMMA TypeStep == TypeOK /\ [Next]_vars => TypeOK'
<1>. SUFFICES ASSUME TypeOK, [Next]_vars PROVE TypeOK'
  OBVIOUS
<1>. USE DEF TypeOK, txnVars, dbVars, outVars, Goto
<1>1. ASSUME NEW m \in Send, Begin(m) \/ UpdateConversation(m) \/ Abort(m) \/ OrphanAborted(m)
      PROVE  TypeOK'
  BY <1>1 DEF Begin, UpdateConversation, Abort, OrphanAborted, PC, Open
<1>2. ASSUME NEW m \in Send, FindOrCreate(m)
      PROVE  TypeOK'
  <2>1. pc' \in [Send -> PC]
    BY <1>2 DEF FindOrCreate, PC, Open
  <2>2. conversation' \in [Send -> Send]
    BY <1>2 DEF FindOrCreate
  <2>3. QED
    BY <1>2, <2>1, <2>2 DEF FindOrCreate
<1>3. ASSUME NEW m \in Send, InsertMessage(m)
      PROVE  TypeOK'
  BY <1>3 DEF InsertMessage, PC, Open
<1>4. ASSUME NEW m \in Send, Commit(m) \/ CommitUnanswered(m)
      PROVE  TypeOK'
  <2>1. pc' \in [Send -> PC] /\ Store(m)
    BY <1>4 DEF Commit, CommitUnanswered, PC
  <2>2. /\ conversations' \subseteq Send
        /\ lastMessageId' \in [Send -> Send]
        /\ stored' \subseteq Send
    BY <2>1 DEF Store
  <2>3. QED
    BY <1>4, <2>1, <2>2 DEF Commit, CommitUnanswered
<1>5. ASSUME NEW m \in Send, Announce(m)
      PROVE  TypeOK'
  <2>1. received' \in [Send -> [Socket -> 0..2]]
    BY <1>5 DEF Announce
  <2>2. pc' \in [Send -> PC] /\ pending' \subseteq Send
    BY <1>5 DEF Announce, PC
  <2>3. QED
    BY <1>5, <2>1, <2>2 DEF Announce
<1>6. ASSUME NEW m \in Send, Publish(m) \/ PublishFails(m)
      PROVE  TypeOK'
  BY <1>6 DEF Publish, PublishFails
<1>7. ASSUME NEW u \in User, NEW s \in Socket, Connect(u, s)
      PROVE  TypeOK'
  <2>1. userSocketMap' \in [User -> SUBSET Socket]
    BY <1>7 DEF Connect
  <2>2. QED
    BY <1>7, <2>1 DEF Connect
<1>8. ASSUME NEW s \in Socket, Disconnect(s)
      PROVE  TypeOK'
  BY <1>8 DEF Disconnect
<1>9. CASE Crash
  BY <1>9 DEF Crash, PC, Open
<1>10. CASE UNCHANGED vars
  BY <1>10 DEF vars
<1>. HIDE DEF TypeOK
<1>11. QED
  BY <1>1, <1>2, <1>3, <1>4, <1>5, <1>6, <1>7, <1>8, <1>9, <1>10 DEF Next, Handle

(* Every variable of message-service keeps its type. *)
THEOREM TypeCorrect == Spec => []TypeOK
BY TypeInit, TypeStep, PTL DEF Spec

-----------------------------------------------------------------------------
(* The database. *)

LEMMA DbInit == Init => DbInv
<1>1. Init => Placed /\ Exclusive /\ Newest
  BY DEF Init, Placed, Exclusive, Newest, Open
<1>2. Init => Numbered
  BY DEF Init, Numbered
<1>3. QED
  BY <1>1, <1>2, TypeInit DEF DbInv

(* Steps of handlers and transactions that neither open, number nor commit *)
(* anything.                                                               *)
LEMMA DbStays ==
    ASSUME DbInv, TypeOK', UNCHANGED <<txnVars, dbVars>>,
           \A m \in Send : \/ pc'[m] = pc[m]
                           \/ pc'[m] \in {"done", "failed", "killed"}
                           \/ pc[m] = "idle" /\ pc'[m] = "find"
                           \/ pc[m] = "update" /\ pc'[m] = "commit"
                           \/ pc[m] \in Open /\ pc'[m] = "orphan"
    PROVE  DbInv'
<1>. USE DEF txnVars, dbVars
<1>1. \A m \in Send : pc'[m] \in Open => pc[m] \in Open
  BY DEF Open
<1>2. Placed'
  BY <1>1 DEF DbInv, Placed, Open, TypeOK
<1>3. Exclusive'
  BY <1>1 DEF DbInv, Exclusive
<1>4. Numbered'
  BY DEF DbInv, Numbered, TypeOK
<1>5. Newest'
  BY DEF DbInv, Newest, In
<1>6. QED
  BY <1>2, <1>3, <1>4, <1>5 DEF DbInv

LEMMA FindStep ==
    ASSUME DbInv, TypeOK', NEW m \in Send, FindOrCreate(m)
    PROVE  DbInv'
<1>. USE DEF DbInv, TypeOK
<1>0. pc[m] = "find" /\ m \notin stored /\ m \notin conversations
  BY DEF FindOrCreate, Placed
<1>1. CASE pc' = [pc EXCEPT ![m] = "failed"] /\ UNCHANGED <<txnVars, dbVars>>
  BY <1>1, DbStays
<1>2. ASSUME NEW c \in Send, c = m \/ c \in conversations, \A n \in Send : ~Holds(n, c),
             pc' = [pc EXCEPT ![m] = "insert"],
             conversation' = [conversation EXCEPT ![m] = c],
             UNCHANGED <<id, nextId, dbVars>>
      PROVE  DbInv'
  <2>1. \A n \in stored : conversation'[n] = conversation[n] /\ pc'[n] = pc[n]
    BY <1>0, <1>2
  <2>2. Placed'
    BY <1>0, <1>2, <2>1 DEF Placed, Open, dbVars
  <2>3. Exclusive'
    BY <1>2 DEF Exclusive, Holds, Open
  <2>4. Numbered'
    BY <1>2, <2>1 DEF Numbered, dbVars
  <2>5. Newest'
    BY <1>2, <2>1 DEF Newest, In, dbVars
  <2>6. QED
    BY <2>2, <2>3, <2>4, <2>5
<1>3. conversations = {} => \A n \in Send : ~Holds(n, m)
  BY <1>0 DEF Holds, Placed, Open
<1>4. QED
  BY <1>1, <1>2, <1>3 DEF FindOrCreate, Goto, txnVars

LEMMA InsertStep ==
    ASSUME DbInv, TypeOK', NEW m \in Send, InsertMessage(m)
    PROVE  DbInv'
<1>. USE DEF DbInv, TypeOK
<1>1. /\ pc[m] = "insert" /\ pc' = [pc EXCEPT ![m] = "update"]
      /\ id' = [id EXCEPT ![m] = nextId] /\ nextId' = nextId + 1
      /\ UNCHANGED <<conversation, dbVars>>
  BY DEF InsertMessage, Goto
<1>2. m \notin stored
  BY <1>1 DEF Placed
<1>3. Placed' /\ Exclusive'
  BY <1>1, <1>2 DEF Placed, Exclusive, Open, dbVars
<1>4. Numbered'
  <2>1. \A n \in Send : id'[n] < nextId'
    BY <1>1 DEF Numbered
  <2>2. \A n \in stored' : id'[n] = id[n] /\ id[n] < nextId
    BY <1>1, <1>2 DEF Numbered, dbVars
  <2>3. \A k \in Send \ {m} : pc'[k] = pc[k] /\ id'[k] = id[k]
    BY <1>1
  <2>4. \A k \in Send : pc'[k] \in {"update", "commit"} =>
          \A n \in stored' : conversation'[n] = conversation'[k] => id'[n] < id'[k]
    BY <1>1, <2>2, <2>3 DEF Numbered, dbVars
  <2>5. QED
    BY <2>1, <2>4 DEF Numbered
<1>5. Newest'
  <2>1. \A c \in conversations : lastMessageId[c] \in stored
    BY DEF Newest, In
  <2>2. \A n \in stored : id'[n] = id[n]
    BY <1>1, <1>2
  <2>3. QED
    BY <1>1, <2>1, <2>2 DEF Newest, In, dbVars
<1>6. QED
  BY <1>3, <1>4, <1>5

LEMMA StoreStep ==
    ASSUME DbInv, TypeOK', NEW m \in Send, pc[m] = "commit", Store(m),
           NEW p \in {"announce", "failed"}, pc' = [pc EXCEPT ![m] = p],
           UNCHANGED txnVars
    PROVE  DbInv'
<1>. USE DEF DbInv, TypeOK, txnVars
<1>. DEFINE c == conversation[m]
<1>1. /\ conversations' = conversations \cup {c}
      /\ lastMessageId' = [lastMessageId EXCEPT ![c] = m]
      /\ stored' = stored \cup {m}
      /\ c \in Send /\ m \notin stored
      /\ c = m \/ c \in conversations
  BY DEF Store, Placed, Open
<1>2. \A n \in stored : conversation[n] = c => id[n] < id[m]
  BY DEF Numbered
<1>3. \A n \in Send : n # m /\ pc[n] \in Open => conversation[n] # c
  BY DEF Exclusive, Open
<1>. HIDE DEF c
<1>4. Placed'
  BY <1>1 DEF Placed, Open, c
<1>5. Exclusive'
  BY DEF Exclusive, Open
<1>6. Numbered'
  <2>1. \A k \in Send : pc'[k] \in {"update", "commit"} => k # m /\ pc[k] = pc'[k]
    OBVIOUS
  <2>2. \A k \in Send : pc'[k] \in {"update", "commit"} =>
          \A n \in stored' : conversation[n] = conversation[k] => id[n] < id[k]
    BY <1>1, <1>3, <2>1 DEF Numbered, Open, c
  <2>3. QED
    BY <2>2 DEF Numbered
<1>7. Newest'
  <2>1. \A n \in stored' : conversation[n] \in conversations'
    BY <1>1 DEF Newest, c
  <2>2. lastMessageId'[c] = m /\ \A n \in stored' : conversation[n] = c => id[n] <= id[m]
    BY <1>1, <1>2
  <2>3. \A d \in conversations' \ {c} :
          /\ lastMessageId'[d] \in stored' /\ conversation'[lastMessageId'[d]] = d
          /\ \A n \in stored' : conversation'[n] = d => id'[n] <= id'[lastMessageId'[d]]
    BY <1>1 DEF Newest, In, c
  <2>4. /\ lastMessageId'[c] \in stored' /\ conversation'[lastMessageId'[c]] = c
        /\ \A n \in stored' : conversation'[n] = c => id'[n] <= id'[lastMessageId'[c]]
    BY <1>1, <2>2 DEF c
  <2>5. QED
    BY <1>1, <2>1, <2>3, <2>4 DEF Newest, In
<1>8. QED
  BY <1>4, <1>5, <1>6, <1>7

LEMMA DbStep == DbInv /\ [Next]_vars => DbInv'
<1>. SUFFICES ASSUME DbInv, [Next]_vars PROVE DbInv'
  OBVIOUS
<1>. TypeOK /\ TypeOK'
  BY TypeStep DEF DbInv
<1>1. ASSUME NEW m \in Send, \/ Begin(m) \/ UpdateConversation(m) \/ Announce(m)
                             \/ Abort(m) \/ OrphanAborted(m)
      PROVE  DbInv'
  <2>1. UNCHANGED <<txnVars, dbVars>>
    BY <1>1 DEF Begin, UpdateConversation, Announce, Abort, OrphanAborted
  <2>2. /\ \A n \in Send \ {m} : pc'[n] = pc[n]
        /\ \/ pc'[m] \in {"done", "failed", "killed"}
           \/ pc[m] = "idle" /\ pc'[m] = "find"
           \/ pc[m] = "update" /\ pc'[m] = "commit"
    BY <1>1 DEF Begin, UpdateConversation, Announce, Abort, OrphanAborted, Goto, TypeOK
  <2>3. QED
    BY <2>1, <2>2, DbStays
<1>2. ASSUME NEW m \in Send, FindOrCreate(m)
      PROVE  DbInv'
  BY <1>2, FindStep
<1>3. ASSUME NEW m \in Send, InsertMessage(m)
      PROVE  DbInv'
  BY <1>3, InsertStep
<1>4. ASSUME NEW m \in Send, Commit(m) \/ CommitUnanswered(m)
      PROVE  DbInv'
  BY <1>4, StoreStep DEF Commit, CommitUnanswered, Goto
<1>5. CASE Crash
  BY <1>5, DbStays DEF Crash, TypeOK, Open
<1>6. CASE UNCHANGED <<pc, txnVars, dbVars>>
  BY <1>6, DbStays
<1>7. QED
  BY <1>1, <1>2, <1>3, <1>4, <1>5, <1>6
     DEF Next, Handle, Publish, PublishFails, Connect, Disconnect, vars

LEMMA DbInvariance == Spec => []DbInv
BY DbInit, DbStep, PTL DEF Spec

(* lastMessageId is the newest message of its conversation, and there is   *)
(* one.                                                                    *)
THEOREM LastIsNewest == Spec => []LastMessageIsNewest
<1>1. DbInv => LastMessageIsNewest
  BY DEF DbInv, Newest, LastMessageIsNewest, ChatList, NewestIn
<1> QED
  BY <1>1, DbInvariance, PTL

(* Paging back by _id is sound: what becomes visible is above everything   *)
(* that was.                                                               *)
THEOREM PagingIsSound == Spec => NoLateArrival
<1>1. DbInv /\ [Next]_vars =>
        [\A m \in stored' \ stored : \A n \in stored :
            conversation'[n] = conversation'[m] => id'[n] < id'[m]]_vars
  <2>. SUFFICES ASSUME DbInv, Next,
                       NEW m \in stored' \ stored, NEW n \in stored,
                       conversation'[n] = conversation'[m]
                PROVE  id'[n] < id'[m]
    OBVIOUS
  <2>1. ASSUME NEW k \in Send, Commit(k) \/ CommitUnanswered(k)
        PROVE  id'[n] < id'[m]
    <3>1. k = m /\ pc[k] = "commit" /\ UNCHANGED txnVars
      BY <2>1 DEF Commit, CommitUnanswered, Store
    <3>2. QED
      BY <3>1 DEF DbInv, Numbered, TypeOK, txnVars
  <2>2. CASE stored' = stored
    BY <2>2
  <2>3. QED
    BY <2>1, <2>2
       DEF Next, Handle, Begin, FindOrCreate, InsertMessage, UpdateConversation, Announce,
           Publish, PublishFails, Abort, OrphanAborted, Connect, Disconnect, Crash,
           dbVars
<1>2. QED
  BY <1>1, DbInvariance, PTL DEF Spec, NoLateArrival

-----------------------------------------------------------------------------
(***************************************************************************)
(* A conversation, read in the order of _id, is an append-only log.  The   *)
(* messages of a conversation have one place each, 1 to their number, so   *)
(* logOf finds at a place the message that has it (Ranked, LogAt); a       *)
(* commit puts its message at the next place and leaves the others theirs. *)
(***************************************************************************)
Ranked ==
    \A c \in Send : \A i \in 1..Cardinality(In(c)) :
        \E m \in In(c) : Place(m) = i /\ \A n \in In(c) : Place(n) = i => n = m

LEMMA InFinite ==
    ASSUME TypeOK, NEW c \in Send
    PROVE  IsFiniteSet(In(c)) /\ Cardinality(In(c)) \in Nat
<1>1. In(c) \subseteq Send
  BY DEF In, TypeOK
<1>. QED
  BY <1>1, SendAssumption, FS_Subset, FS_CardinalityType

LEMMA PlaceIsInside ==
    ASSUME TypeOK, NEW c \in Send, NEW m \in In(c)
    PROVE  Place(m) \in 1..Cardinality(In(c))
<1>1. conversation[m] = c /\ id[m] \in Nat
  BY DEF In, TypeOK
<1>2. Older(m) \subseteq In(c) \ {m}
  BY <1>1 DEF Older
<1>3. /\ IsFiniteSet(In(c) \ {m}) /\ Cardinality(In(c) \ {m}) = Cardinality(In(c)) - 1
      /\ Cardinality(In(c)) \in Nat
  BY InFinite, FS_RemoveElement
<1>4. Cardinality(Older(m)) \in Nat /\ Cardinality(Older(m)) <= Cardinality(In(c)) - 1
  BY <1>2, <1>3, FS_Subset, FS_CardinalityType
<1>. QED
  BY <1>3, <1>4 DEF Place

Located ==
    \A c \in Send : \A m \in In(c) :
        Place(m) \in 1..Cardinality(In(c)) => logOf(c)[Place(m)] = m

LEMMA LogAt == Ranked => Located
<1>. SUFFICES ASSUME Ranked, NEW c \in Send, NEW m \in In(c),
                     Place(m) \in 1..Cardinality(In(c))
              PROVE  logOf(c)[Place(m)] = m
  BY DEF Located
<1>. DEFINE i == Place(m)
<1>1. PICK k \in In(c) : Place(k) = i /\ \A n \in In(c) : Place(n) = i => n = k
  BY DEF Ranked
<1>2. k = m
  BY <1>1
<1>3. (CHOOSE n \in In(c) : Place(n) = i) \in In(c)
      /\ Place(CHOOSE n \in In(c) : Place(n) = i) = i
  BY <1>1
<1>4. (CHOOSE n \in In(c) : Place(n) = i) = m
  BY <1>1, <1>2, <1>3
<1>. QED
  BY <1>4 DEF logOf

LEMMA LogAtNext == Ranked' => Located'
BY LogAt, PTL

LEMMA LogType ==
    ASSUME TypeOK, Ranked, NEW c \in Send
    PROVE  /\ logOf(c) \in Seq(In(c)) /\ Len(logOf(c)) = Cardinality(In(c))
           /\ Range(logOf(c)) \subseteq In(c)
<1>. DEFINE n == Cardinality(In(c))
<1>1. n \in Nat
  BY InFinite
<1>2. \A i \in 1..n : logOf(c)[i] \in In(c)
  <2>. TAKE i \in 1..n
  <2>1. PICK m \in In(c) : Place(m) = i
    BY DEF Ranked
  <2>. QED
    BY <2>1, LogAt DEF Located
<1>3. logOf(c) = [i \in 1..n |-> logOf(c)[i]]
  BY DEF logOf
<1>4. logOf(c) \in [1..n -> In(c)]
  BY <1>2, <1>3
<1>. QED
  BY <1>1, <1>4 DEF Range

-----------------------------------------------------------------------------
(* What the database looks like after a step, as far as logs go. *)
Stores(m) == pc[m] = "commit" /\ Store(m) /\ UNCHANGED txnVars
StoresNothing ==
    /\ stored' = stored
    /\ \A n \in stored : conversation'[n] = conversation[n] /\ id'[n] = id[n]

LEMMA LogCases ==
    ASSUME DbInv, [Next]_vars PROVE StoresNothing \/ \E m \in Send : Stores(m)
<1>. USE DEF DbInv, TypeOK, txnVars, dbVars
<1>1. ASSUME NEW m \in Send, Commit(m) \/ CommitUnanswered(m) PROVE Stores(m)
  BY <1>1 DEF Commit, CommitUnanswered, Stores
<1>2. ASSUME NEW m \in Send, FindOrCreate(m) \/ InsertMessage(m) PROVE StoresNothing
  <2>1. m \notin stored
    BY <1>2 DEF FindOrCreate, InsertMessage, Placed
  <2>2. UNCHANGED stored /\ \A n \in Send \ {m} : conversation'[n] = conversation[n] /\ id'[n] = id[n]
    BY <1>2 DEF FindOrCreate, InsertMessage
  <2>. QED
    BY <2>1, <2>2 DEF StoresNothing
<1>3. ASSUME NEW m \in Send, \/ Begin(m) \/ UpdateConversation(m) \/ Announce(m) \/ Publish(m)
                             \/ Abort(m) \/ PublishFails(m) \/ OrphanAborted(m)
      PROVE  StoresNothing
  BY <1>3 DEF Begin, UpdateConversation, Announce, Publish, Abort, PublishFails, OrphanAborted,
              StoresNothing
<1>4. CASE \/ \E u \in User, s \in Socket : Connect(u, s)
           \/ \E s \in Socket : Disconnect(s)
           \/ Crash
           \/ UNCHANGED vars
  BY <1>4 DEF Connect, Disconnect, Crash, vars, StoresNothing
<1>. QED
  BY <1>1, <1>2, <1>3, <1>4 DEF Next, Handle

(* A step that stores nothing leaves the logs as they are. *)
LEMMA LogStays ==
    ASSUME TypeOK, Ranked, StoresNothing
    PROVE  Ranked' /\ \A c \in Send : logOf(c)' = logOf(c)
<1>1. \A c \in Send : In(c)' = In(c)
  BY DEF In, StoresNothing, TypeOK
<1>2. ASSUME NEW c \in Send, NEW m \in In(c)
      PROVE  Place(m)' = Place(m)
  <2>1. m \in stored /\ conversation'[m] = c /\ conversation[m] = c
    BY DEF In, StoresNothing
  <2>2. \A n \in In(c) : id'[n] = id[n]
    BY DEF In, StoresNothing
  <2>3. Older(m)' = Older(m)
    BY <1>1, <2>1, <2>2 DEF Older
  <2>. QED
    BY <2>3 DEF Place
<1>3. Ranked'
  BY <1>1, <1>2 DEF Ranked
<1>4. ASSUME NEW c \in Send PROVE logOf(c)' = logOf(c)
  <2>. DEFINE n == Cardinality(In(c))
  <2>1. Located'
    BY <1>3, LogAtNext
  <2>2. \A i \in 1..n : logOf(c)'[i] = logOf(c)[i]
    <3>. TAKE i \in 1..n
    <3>1. PICK m \in In(c) : Place(m) = i
      BY DEF Ranked
    <3>2. logOf(c)[i] = m
      BY <3>1, LogAt DEF Located
    <3>3. logOf(c)'[i] = m
      BY <3>1, <1>1, <1>2, <2>1 DEF Located
    <3>. QED
      BY <3>2, <3>3
  <2>3. /\ logOf(c) = [i \in 1..n |-> logOf(c)[i]]
        /\ logOf(c)' = [i \in 1..n |-> logOf(c)'[i]]
    BY <1>1 DEF logOf
  <2>. QED
    BY <2>2, <2>3
<1>. QED
  BY <1>3, <1>4

(* A commit is an Append to its conversation's log. *)
LEMMA LogGrows ==
    ASSUME DbInv, TypeOK', Ranked, NEW m \in Send, Stores(m),
           NEW k \in Send, conversation[m] = k
    PROVE  /\ Ranked'
           /\ \A c \in Send \ {k} : logOf(c)' = logOf(c)
           /\ logOf(k)' = Append(logOf(k), m)
           /\ \A c \in Send : m \notin Range(logOf(c))
<1>. USE DEF DbInv
<1>0. PICK n \in Nat : n = Cardinality(In(k))
  BY InFinite
<1>1. /\ m \notin stored /\ stored' = stored \cup {m}
      /\ UNCHANGED <<conversation, id>>
      /\ \A x \in In(k) : id[x] < id[m]
  BY DEF Stores, Store, Placed, Numbered, In, TypeOK, txnVars
<1>2. In(k)' = In(k) \cup {m} /\ \A c \in Send \ {k} : In(c)' = In(c)
  BY <1>1 DEF In
<1>3. \A c \in Send : m \notin In(c)
  BY <1>1 DEF In
<1>4. Cardinality(In(k)') = n + 1
  BY <1>0, <1>2, <1>3, InFinite, FS_AddElement
<1>5. ASSUME NEW c \in Send, NEW x \in In(c)
      PROVE  Place(x)' = Place(x)
  <2>1. conversation[x] = c /\ conversation'[x] = c /\ x \in Send /\ id[x] \in Nat /\ id[m] \in Nat
    BY <1>1 DEF In, TypeOK
  <2>2. c = k => ~(id[m] < id[x])
    BY <1>1, <2>1
  <2>3. Older(x)' = Older(x)
    BY <1>1, <1>2, <2>1, <2>2 DEF Older
  <2>. QED
    BY <2>3 DEF Place
<1>6. Place(m)' = n + 1
  <2>1. ~(id[m] < id[m])
    BY DEF TypeOK
  <2>2. Older(m)' = In(k)
    BY <1>1, <1>2, <2>1 DEF Older
  <2>. QED
    BY <1>0, <2>2 DEF Place
<1>7. \A x \in In(k) : Place(x) \in 1..n
  BY <1>0, PlaceIsInside
<1>8. Ranked'
  <2>1. ASSUME NEW c \in Send \ {k}, NEW i \in 1..Cardinality(In(c)')
        PROVE  \E x \in In(c)' : Place(x)' = i /\ \A y \in In(c)' : Place(y)' = i => y = x
    BY <1>2, <1>5 DEF Ranked
  <2>2. ASSUME NEW i \in 1..n
        PROVE  \E x \in In(k)' : Place(x)' = i /\ \A y \in In(k)' : Place(y)' = i => y = x
    <3>1. PICK x \in In(k) : Place(x) = i /\ \A y \in In(k) : Place(y) = i => y = x
      BY <1>0 DEF Ranked
    <3>2. x \in In(k)' /\ Place(x)' = i
      BY <1>1, <1>2, <1>5, <3>1
    <3>3. ASSUME NEW y \in In(k)', Place(y)' = i PROVE y = x
      <4>1. y # m
        BY <1>4, <1>6, <3>3
      <4>2. y \in In(k) /\ Place(y) = i
        BY <1>1, <1>2, <1>5, <3>3, <4>1
      <4>. QED
        BY <3>1, <4>2
    <3>. QED
      BY <3>2, <3>3
  <2>3. m \in In(k)' /\ Place(m)' = n + 1 /\ \A y \in In(k)' : Place(y)' = n + 1 => y = m
    <3>1. ASSUME NEW y \in In(k) PROVE Place(y)' # n + 1
      BY <1>1, <1>4, <1>5, <1>7, <3>1
    <3>. QED
      BY <1>2, <1>6, <3>1
  <2>4. \A i \in 1..Cardinality(In(k)') : i \in 1..n \/ i = n + 1
    BY <1>4
  <2>5. \A i \in 1..Cardinality(In(k)') :
           \E x \in In(k)' : Place(x)' = i /\ \A y \in In(k)' : Place(y)' = i => y = x
    BY <2>2, <2>3, <2>4
  <2>6. \A c \in Send : \A i \in 1..Cardinality(In(c)') :
           \E x \in In(c)' : Place(x)' = i /\ \A y \in In(c)' : Place(y)' = i => y = x
    BY <2>1, <2>5
  <2>. QED
    BY <2>6 DEF Ranked
<1>9. Located'
  BY <1>8, LogAtNext
<1>10. ASSUME NEW c \in Send, NEW i \in 1..Cardinality(In(c))
       PROVE  logOf(c)'[i] = logOf(c)[i]
  <2>1. PICK x \in In(c) : Place(x) = i
    BY DEF Ranked
  <2>2. logOf(c)[i] = x
    BY <2>1, LogAt DEF Located
  <2>3. x \in In(c)' /\ Place(x)' = i
    BY <1>2, <1>5, <2>1
  <2>5. i \in 1..Cardinality(In(c)')
    <3>1. CASE c = k
      BY <1>0, <1>4, <3>1
    <3>2. CASE c # k
      BY <1>2, <3>2
    <3>. QED
      BY <3>1, <3>2
  <2>4. logOf(c)'[i] = x
    BY <1>9, <2>3, <2>5 DEF Located
  <2>. QED
    BY <2>2, <2>4
<1>11. ASSUME NEW c \in Send \ {k} PROVE logOf(c)' = logOf(c)
  <2>1. /\ logOf(c) = [i \in 1..Cardinality(In(c)) |-> logOf(c)[i]]
        /\ logOf(c)' = [i \in 1..Cardinality(In(c)) |-> logOf(c)'[i]]
    BY <1>2 DEF logOf
  <2>. QED
    BY <1>10, <2>1
<1>12. logOf(k)' = Append(logOf(k), m)
  <2>1. logOf(k)'[n + 1] = m
    <3>1. m \in In(k)' /\ Place(m)' \in 1..Cardinality(In(k)')
      BY <1>2, <1>4, <1>6
    <3>. QED
      BY <1>1, <1>6, <1>9, <3>1 DEF Located
  <2>2. logOf(k)' = [i \in 1..n + 1 |-> logOf(k)'[i]]
    BY <1>4 DEF logOf
  <2>3. Len(logOf(k)) = n /\ logOf(k) \in Seq(Send)
    <3>1. Len(logOf(k)) = n /\ logOf(k) \in Seq(In(k))
      BY <1>0, LogType
    <3>2. In(k) \subseteq Send
      BY DEF In, TypeOK
    <3>. QED
      BY <3>1, <3>2
  <2>4. /\ Append(logOf(k), m) \in Seq(Send) /\ Len(Append(logOf(k), m)) = n + 1
        /\ \A i \in 1..n + 1 :
              Append(logOf(k), m)[i] = IF i <= n THEN logOf(k)[i] ELSE m
    BY <2>3
  <2>5. \A i \in 1..n + 1 : logOf(k)'[i] = Append(logOf(k), m)[i]
    BY <1>0, <1>10, <2>1, <2>4
  <2>6. \A i \in 1..n + 1 : logOf(k)'[i] \in Send
    BY <2>4, <2>5
  <2>7. logOf(k)' \in [1..n + 1 -> Send]
    BY <2>2, <2>6
  <2>8. logOf(k)' \in Seq(Send) /\ Len(logOf(k)') = n + 1
    BY <2>7
  <2>. HIDE DEF logOf
  <2>. QED
    BY <2>4, <2>5, <2>8, SeqEqual
<1>13. \A c \in Send : m \notin Range(logOf(c))
  BY <1>3, LogType
<1>. QED
  BY <1>8, <1>11, <1>12, <1>13

LEMMA RankedInvariance == Spec => []Ranked
<1>1. Init => Ranked
  <2>. SUFFICES ASSUME Init PROVE Ranked
    OBVIOUS
  <2>1. \A c \in Send : Cardinality(In(c)) = 0
    BY FS_EmptySet DEF Init, In
  <2>. QED
    BY <2>1 DEF Ranked
<1>2. DbInv /\ Ranked /\ [Next]_vars => Ranked'
  <2>. SUFFICES ASSUME DbInv, Ranked, [Next]_vars PROVE Ranked'
    OBVIOUS
  <2>1. TypeOK /\ TypeOK'
    BY TypeStep DEF DbInv
  <2>2. ASSUME NEW m \in Send, Stores(m) PROVE Ranked'
    <3>1. PICK k \in Send : conversation[m] = k
      BY <2>1 DEF TypeOK
    <3>. QED
      BY <2>1, <2>2, <3>1, LogGrows
  <2>. QED
    BY <2>1, <2>2, LogCases, LogStays
<1>. QED
  BY <1>1, <1>2, DbInvariance, PTL DEF Spec

(* Each conversation is a log to those who read it in the order of _id: a  *)
(* message that becomes visible does so at the end, once, and stays there. *)
THEOREM LogKept == Spec => KeepsLog
<1>1. Init => Log!Init
  <2>. SUFFICES ASSUME Init, NEW c \in Send PROVE logOf(c) = <<>>
    BY DEF Log!Init
  <2>1. Cardinality(In(c)) = 0
    BY FS_EmptySet DEF Init, In
  <2>. QED
    BY <2>1 DEF logOf
<1>2. DbInv /\ Ranked /\ [Next]_vars => [Log!Next]_([c \in Send |-> logOf(c)])
  <2>. SUFFICES ASSUME DbInv, Ranked, [Next]_vars
                PROVE  [Log!Next]_([c \in Send |-> logOf(c)])
    OBVIOUS
  <2>1. CASE StoresNothing
    BY <2>1, LogStays DEF DbInv
  <2>2. ASSUME NEW m \in Send, Stores(m) PROVE Log!Next
    <3>1. PICK k \in Send : conversation[m] = k
      BY DEF DbInv, TypeOK
    <3>2. /\ \A c \in Send \ {k} : logOf(c)' = logOf(c)
          /\ logOf(k)' = Append(logOf(k), m)
          /\ \A c \in Send : m \notin Range(logOf(c))
      BY <2>2, <3>1, LogGrows, TypeStep DEF DbInv
    <3>3. Log!Append1(k, m)
      BY <3>2 DEF Log!Append1, Log!Range, Range
    <3>. QED
      BY <3>3 DEF Log!Next
  <2>. QED
    BY <2>1, <2>2, LogCases
<1>. QED
  BY <1>1, <1>2, DbInvariance, RankedInvariance, PTL DEF Spec, KeepsLog, Log!Spec

-----------------------------------------------------------------------------
(* The announcements. *)

Told(m) == m \in pending \cup notified \/ \E s \in Socket : received[m][s] > 0

AnnounceInv ==
    /\ \A m \in Send : pc[m] = "announce" \/ Told(m) => m \in stored
    /\ StoredIsAnnounced

(* Steps that store nothing and tell nobody. *)
LEMMA NothingTold ==
    ASSUME TypeOK, Placed, AnnounceInv, NEW m \in Send, UNCHANGED <<dbVars, outVars>>,
           \A n \in Send \ {m} : pc'[n] = pc[n],
           pc[m] \notin {"announce", "done"}, pc'[m] \notin {"announce", "done"},
           pc'[m] = "failed" => pc[m] \in {"find"} \cup Open
    PROVE  AnnounceInv'
<1>1. \A n \in Send : pc'[n] = "announce" <=> pc[n] = "announce"
  OBVIOUS
<1>2. UNCHANGED <<stored, pending, notified, received>>
  BY DEF dbVars, outVars
<1>3. \A n \in Send : Told(n)' <=> Told(n)
  BY <1>2 DEF Told
<1>4. pc'[m] = "failed" => m \notin stored
  BY DEF Placed, Open
<1>5. QED
  BY <1>1, <1>2, <1>3, <1>4 DEF AnnounceInv, StoredIsAnnounced

LEMMA AnnounceStep == DbInv /\ AnnounceInv /\ [Next]_vars => AnnounceInv'
<1>. SUFFICES ASSUME DbInv, AnnounceInv, [Next]_vars PROVE AnnounceInv'
  OBVIOUS
<1>. TypeOK /\ Placed
  BY DEF DbInv
<1>1. ASSUME NEW m \in Send, \/ Begin(m) \/ FindOrCreate(m) \/ InsertMessage(m)
                             \/ UpdateConversation(m) \/ Abort(m) \/ OrphanAborted(m)
      PROVE  AnnounceInv'
  <2>1. /\ UNCHANGED <<dbVars, outVars>>
        /\ \A n \in Send \ {m} : pc'[n] = pc[n]
        /\ pc[m] \notin {"announce", "done"} /\ pc'[m] \notin {"announce", "done"}
        /\ pc'[m] = "failed" => pc[m] \in {"find"} \cup Open
    BY <1>1 DEF Begin, FindOrCreate, InsertMessage, UpdateConversation, Abort,
                OrphanAborted, Goto, TypeOK, Open
  <2>2. QED
    BY <2>1, NothingTold
<1>2. ASSUME NEW m \in Send, Commit(m)
      PROVE  AnnounceInv'
  <2>1. /\ pc' = [pc EXCEPT ![m] = "announce"] /\ stored' = stored \cup {m}
        /\ UNCHANGED outVars
    BY <1>2 DEF Commit, Store, Goto
  <2>2. \A n \in Send : Told(n)' <=> Told(n)
    BY <2>1 DEF Told, outVars
  <2>3. QED
    BY <2>1, <2>2 DEF AnnounceInv, StoredIsAnnounced, outVars, TypeOK
<1>3. ASSUME NEW m \in Send, Announce(m)
      PROVE  AnnounceInv'
  <2>1. /\ pc[m] = "announce" /\ pc' = [pc EXCEPT ![m] = "done"]
        /\ pending' = pending \cup {m} /\ UNCHANGED <<stored, notified>>
        /\ \A n \in Send \ {m} : received'[n] = received[n]
    BY <1>3 DEF Announce, Goto, dbVars, TypeOK
  <2>2. m \in stored
    BY <2>1 DEF AnnounceInv
  <2>3. \A n \in Send \ {m} : Told(n)' <=> Told(n)
    BY <2>1 DEF Told
  <2>4. QED
    BY <2>1, <2>2, <2>3 DEF AnnounceInv, StoredIsAnnounced, TypeOK
<1>4. ASSUME NEW m \in Send, Publish(m)
      PROVE  AnnounceInv'
  <2>1. /\ pending' \cup notified' = pending \cup notified
        /\ UNCHANGED <<pc, stored, received>>
    BY <1>4 DEF Publish, dbVars
  <2>2. \A n \in Send : Told(n)' <=> Told(n)
    BY <2>1 DEF Told
  <2>3. QED
    BY <2>1, <2>2 DEF AnnounceInv, StoredIsAnnounced
<1>5. CASE Crash \/ \E m \in Send : CommitUnanswered(m) \/ PublishFails(m)
  <2>1. /\ Faults /\ stored \subseteq stored'
        /\ \A n \in Send : pc'[n] = "announce" => pc[n] = "announce"
        /\ pending' \subseteq pending /\ UNCHANGED <<notified, received>>
    BY <1>5 DEF CommitUnanswered, Store, Goto, PublishFails, Crash, dbVars, outVars, TypeOK
  <2>2. \A n \in Send : Told(n)' => Told(n)
    BY <2>1 DEF Told
  <2>3. QED
    BY <2>1, <2>2 DEF AnnounceInv, StoredIsAnnounced
<1>6. CASE UNCHANGED <<pc, stored, pending, notified, received>>
  <2>1. \A n \in Send : Told(n)' <=> Told(n)
    BY <1>6 DEF Told
  <2>2. QED
    BY <1>6, <2>1 DEF AnnounceInv, StoredIsAnnounced
<1>7. QED
  BY <1>1, <1>2, <1>3, <1>4, <1>5, <1>6
     DEF Next, Handle, Connect, Disconnect, vars, dbVars, outVars

LEMMA AnnounceInvariance == Spec => []AnnounceInv
<1>1. Init => AnnounceInv
  BY DEF Init, AnnounceInv, StoredIsAnnounced, Told
<1>2. QED
  BY <1>1, AnnounceStep, DbInvariance, PTL DEF Spec

(* Nobody hears of a message that is not committed. *)
THEOREM Announced == Spec => []AnnouncedIsStored
<1>1. AnnounceInv => AnnouncedIsStored
  BY DEF AnnounceInv, AnnouncedIsStored, Told
<1>2. QED
  BY <1>1, AnnounceInvariance, PTL

(* Without faults a committed message is announced and a refused one gone. *)
THEOREM Stored == Spec => []StoredIsAnnounced
BY AnnounceInvariance, PTL DEF AnnounceInv

-----------------------------------------------------------------------------
(* An event is emitted by the last step of its handler, which has no other. *)
Emitted ==
    /\ \A m \in pending \cup notified : pc[m] = "done"
    /\ pending \cap notified = {}

LEMMA EmittedStep == TypeOK /\ Emitted /\ [Next]_vars => Emitted' /\ notified \subseteq notified'
<1>. SUFFICES ASSUME TypeOK, Emitted, [Next]_vars PROVE Emitted' /\ notified \subseteq notified'
  OBVIOUS
<1>. pc \in [Send -> PC] /\ pending \subseteq Send /\ notified \subseteq Send
  BY DEF TypeOK
<1>1. ASSUME NEW m \in Send, \/ Begin(m) \/ FindOrCreate(m) \/ InsertMessage(m)
                             \/ UpdateConversation(m) \/ Commit(m) \/ Abort(m)
                             \/ CommitUnanswered(m) \/ OrphanAborted(m)
      PROVE  Emitted' /\ notified' = notified
  <2>1. pc[m] # "done" /\ UNCHANGED <<pending, notified>>
    BY <1>1 DEF Begin, FindOrCreate, InsertMessage, UpdateConversation, Commit, Abort,
                CommitUnanswered, OrphanAborted, outVars
  <2>2. \A n \in Send \ {m} : pc'[n] = pc[n]
    BY <1>1 DEF Begin, FindOrCreate, InsertMessage, UpdateConversation, Commit, Abort,
                CommitUnanswered, OrphanAborted, Goto
  <2>. QED
    BY <2>1, <2>2 DEF Emitted
<1>2. ASSUME NEW m \in Send, Announce(m) PROVE Emitted' /\ notified' = notified
  <2>1. /\ pc[m] = "announce" /\ pc' = [pc EXCEPT ![m] = "done"]
        /\ pending' = pending \cup {m} /\ notified' = notified
    BY <1>2 DEF Announce, Goto
  <2>. QED
    BY <2>1 DEF Emitted
<1>3. ASSUME NEW m \in Send, Publish(m) \/ PublishFails(m)
      PROVE  Emitted' /\ notified \subseteq notified'
  BY <1>3 DEF Publish, PublishFails, Emitted
<1>4. CASE Crash
  BY <1>4 DEF Crash, Emitted, Open
<1>5. CASE UNCHANGED <<pc, pending, notified>>
  BY <1>5 DEF Emitted
<1>. QED
  BY <1>1, <1>2, <1>3, <1>4, <1>5 DEF Next, Handle, Connect, Disconnect, vars, outVars

(* Whatever fails, the event of a message is not emitted twice. *)
THEOREM Once == Spec => EmittedOnce
<1>1. Init => Emitted
  BY DEF Init, Emitted
<1>2. Emitted => pending \cap notified = {}
  BY DEF Emitted
<1>3. TypeOK /\ Emitted /\ [Next]_vars => [notified \subseteq notified']_vars
  BY EmittedStep
<1>. QED
  BY <1>1, <1>2, <1>3, EmittedStep, TypeCorrect, PTL DEF Spec, EmittedOnce

-----------------------------------------------------------------------------
(* Without faults: nobody is killed, whoever is done has announced, and    *)
(* whoever was refused found a message there.                              *)
Settled ==
    ~Faults => \A m \in Send :
        /\ pc[m] \notin {"orphan", "killed"}
        /\ pc[m] = "done" => m \in pending \cup notified
        /\ pc[m] = "failed" => stored # {}

LEMMA SettledStep == DbInv /\ Settled /\ [Next]_vars => Settled'
<1>. SUFFICES ASSUME DbInv, Settled, [Next]_vars, ~Faults PROVE Settled'
  BY DEF Settled
<1>. pc \in [Send -> PC]
  BY DEF DbInv, TypeOK
<1>1. ASSUME NEW m \in Send, \/ Begin(m) \/ InsertMessage(m) \/ UpdateConversation(m)
                             \/ Announce(m) \/ Commit(m)
      PROVE  Settled'
  BY <1>1 DEF Begin, InsertMessage, UpdateConversation, Announce, Commit, Store, Goto, Settled,
              dbVars, outVars
<1>2. ASSUME NEW m \in Send, FindOrCreate(m) PROVE Settled'
  <2>1. /\ UNCHANGED <<stored, pending, notified>>
        /\ \/ pc' = [pc EXCEPT ![m] = "insert"]
           \/ conversations # {} /\ pc' = [pc EXCEPT ![m] = "failed"]
    BY <1>2 DEF FindOrCreate, Goto, dbVars, outVars
  <2>2. conversations # {} => stored # {}
    BY DEF DbInv, Placed
  <2>. QED
    BY <2>1, <2>2 DEF Settled
<1>3. ASSUME NEW m \in Send, Publish(m) PROVE Settled'
  BY <1>3 DEF Publish, dbVars, Settled
<1>4. ASSUME NEW m \in Send,
             Abort(m) \/ CommitUnanswered(m) \/ PublishFails(m) \/ OrphanAborted(m) \/ Crash
      PROVE  FALSE
  BY <1>4 DEF Abort, CommitUnanswered, PublishFails, OrphanAborted, Crash, Settled
<1>5. CASE UNCHANGED <<pc, stored, pending, notified>>
  BY <1>5 DEF Settled
<1>6. CASE Crash
  BY <1>6 DEF Crash
<1>. QED
  BY <1>1, <1>2, <1>3, <1>4, <1>5, <1>6
     DEF Next, Handle, Connect, Disconnect, vars, dbVars, outVars

LEMMA SettledInvariance == Spec => []Settled
<1>1. Init => Settled
  BY DEF Init, Settled
<1>. QED
  BY <1>1, SettledStep, DbInvariance, PTL DEF Spec

(* At rest every message is notified, nothing else is, and of the sends    *)
(* that ran one got through.                                               *)
THEOREM Resting == Spec => []RestingNotified
<1>1. DbInv /\ AnnounceInv /\ Settled => RestingNotified
  <2>. SUFFICES ASSUME DbInv, AnnounceInv, Settled, ~Faults, AtRest
                PROVE  /\ stored = {m \in Send : pc[m] = "done"}
                       /\ notified = stored
                       /\ (\E m \in Send : pc[m] # "idle") => stored # {}
    BY DEF RestingNotified
  <2>1. stored \subseteq Send /\ notified \subseteq Send /\ pending = {}
    BY DEF DbInv, TypeOK, AtRest
  <2>2. \A m \in notified : m \in stored
    BY <2>1 DEF AnnounceInv, Told
  <2>3. \A m \in stored : m \in notified /\ pc[m] = "done"
    BY <2>1 DEF AnnounceInv, StoredIsAnnounced, AtRest, DbInv, Placed
  <2>4. \A m \in Send : pc[m] = "done" => m \in notified
    BY <2>1 DEF Settled
  <2>5. stored = {m \in Send : pc[m] = "done"} /\ notified = stored
    BY <2>1, <2>2, <2>3, <2>4
  <2>6. ASSUME NEW m \in Send, pc[m] # "idle" PROVE stored # {}
    BY <2>2, <2>4, <2>6 DEF AtRest, Settled
  <2>. QED
    BY <2>5, <2>6
<1>. QED
  BY <1>1, DbInvariance, AnnounceInvariance, SettledInvariance, PTL

(* A send leaves for "failed" only while another holds its conversation,   *)
(* and for "announce" only with a message that was not there.              *)
Pursued(X) == X \subseteq stored /\ (stored = X => AtWork)

LEMMA PursuedStep ==
    ASSUME ~Faults, NEW X, DbInv, Settled, Pursued(X), [Next]_vars PROVE Pursued(X)'
<1>. pc \in [Send -> PC]
  BY DEF DbInv, TypeOK
<1>1. ASSUME NEW m \in Send, \/ Begin(m) \/ InsertMessage(m) \/ UpdateConversation(m)
      PROVE  Pursued(X)'
  BY <1>1 DEF Begin, InsertMessage, UpdateConversation, Goto, Pursued, AtWork, Open, dbVars
<1>2. ASSUME NEW m \in Send, FindOrCreate(m) PROVE Pursued(X)'
  <2>1. /\ pc[m] = "find" /\ UNCHANGED stored
        /\ \/ pc' = [pc EXCEPT ![m] = "insert"]
           \/ pc' = [pc EXCEPT ![m] = "failed"] /\ \E n \in Send : pc[n] \in Open
    BY <1>2 DEF FindOrCreate, Goto, dbVars, Holds
  <2>. QED
    BY <2>1 DEF Pursued, AtWork, Open
<1>3. ASSUME NEW m \in Send, Commit(m) PROVE Pursued(X)'
  <2>1. stored' = stored \cup {m} /\ m \notin stored
    BY <1>3 DEF Commit, Store, DbInv, Placed
  <2>. QED
    BY <2>1 DEF Pursued
<1>4. ASSUME NEW m \in Send, Announce(m) PROVE Pursued(X)'
  <2>1. /\ pc[m] = "announce" /\ pc' = [pc EXCEPT ![m] = "done"] /\ UNCHANGED stored
    BY <1>4 DEF Announce, Goto, dbVars
  <2>. QED
    BY <2>1 DEF Pursued, AtWork, Open
<1>5. ASSUME NEW m \in Send,
             Abort(m) \/ CommitUnanswered(m) \/ PublishFails(m) \/ OrphanAborted(m)
      PROVE  FALSE
  BY <1>5 DEF Abort, CommitUnanswered, PublishFails, OrphanAborted, Settled
<1>6. CASE UNCHANGED <<pc, stored>>
  BY <1>6 DEF Pursued, AtWork
<1>7. ASSUME NEW m \in Send, Publish(m) PROVE Pursued(X)'
  BY <1>6, <1>7 DEF Publish, dbVars
<1>8. ~Crash
  BY DEF Crash
<1>. QED
  BY <1>1, <1>2, <1>3, <1>4, <1>5, <1>6, <1>7, <1>8
     DEF Next, Handle, Connect, Disconnect, vars, dbVars

(* Sends do not refuse each other down to the last: the safety half of     *)
(* SomeoneGetsThrough, for any number of sends.                            *)
THEOREM OneIsLeft == Spec => GiveWayToOne
<1>1. ASSUME ~Faults, NEW X \in SUBSET Send
      PROVE  Spec => [](AtWork /\ stored = X => [](stored = X => AtWork))
  <2>1. AtWork /\ stored = X => Pursued(X)
    BY DEF Pursued
  <2>2. DbInv /\ Settled /\ Pursued(X) /\ [Next]_vars => Pursued(X)'
    BY <1>1, PursuedStep
  <2>3. Pursued(X) => (stored = X => AtWork)
    BY DEF Pursued
  <2>. QED
    BY <2>1, <2>2, <2>3, DbInvariance, SettledInvariance, PTL DEF Spec
<1>. QED
  BY <1>1 DEF GiveWayToOne

-----------------------------------------------------------------------------
(***************************************************************************)
(* Paging through the chat list skips nothing, for every number of sends   *)
(* and every page size.  A conversation without new messages only ever     *)
(* moves down the list: what was ahead of it stays ahead, for the lock on  *)
(* a conversation makes its dates ascend in the order of the commits.  So  *)
(* it cannot slip from the pages to come into those that have been read.   *)
(***************************************************************************)
(* A transaction that is about to commit is later than its conversation. *)
Dated ==
    /\ \A m \in Send : sentAt[m] < clock
    /\ \A m \in Send : pc[m] = "commit" =>
          \A n \in stored : conversation[n] = conversation[m] => sentAt[n] < sentAt[m]

(* What the reader has yet to see is on the pages to come. *)
Ahead0(c) == Cardinality(Ahead(c))
Promised ==
    /\ page = 1 => snapshot = {}
    /\ \A e \in snapshot :
          /\ e[1] \in conversations /\ e[2] \in stored
          /\ e \in ChatList => e[1] \in seen \/ (page # 0 /\ Ahead0(e[1]) >= Skip(page))

PagingInv == PagingTypeOK /\ DbInv /\ Dated /\ Promised

-----------------------------------------------------------------------------
LEMMA AheadFinite ==
    ASSUME PagingTypeOK, NEW c \in conversations
    PROVE  /\ IsFiniteSet(conversations) /\ IsFiniteSet(Ahead(c))
           /\ Ahead0(c) \in Nat /\ Cardinality(conversations) \in Nat
           /\ Ahead0(c) < Cardinality(conversations)
<1>1. IsFiniteSet(conversations)
  BY SendAssumption, FS_Subset DEF PagingTypeOK, TypeOK
<1>2. Ahead(c) \subseteq conversations \ {c}
  <2>1. lastMessageAt(c) \in Nat
    BY DEF PagingTypeOK, TypeOK, lastMessageAt
  <2> QED
    BY <2>1 DEF Ahead
<1>3. /\ IsFiniteSet(conversations \ {c})
      /\ Cardinality(conversations \ {c}) = Cardinality(conversations) - 1
  BY <1>1, FS_RemoveElement
<1>4. IsFiniteSet(Ahead(c)) /\ Cardinality(Ahead(c)) <= Cardinality(conversations \ {c})
  BY <1>2, <1>3, FS_Subset
<1> QED
  BY <1>1, <1>3, <1>4, FS_CardinalityType DEF Ahead0

LEMMA SkipFact ==
    ASSUME NEW n \in Nat \ {0}
    PROVE  Skip(n) \in Nat /\ Skip(n + 1) = Skip(n) + Limit /\ Skip(1) = 0
  BY LimitAssumption DEF Skip

-----------------------------------------------------------------------------
(* A step of the service, as far as committed documents and dates go. *)
Writes(m) ==
    /\ pc[m] = "commit" /\ pc'[m] # "commit"
    /\ Store(m) /\ UNCHANGED <<conversation, sentAt>>
Quiet == UNCHANGED <<conversations, lastMessageId, stored>>

LEMMA Cases ==
    ASSUME PagingTypeOK, Next, SetLastMessageAt PROVE Quiet \/ \E m \in Send : Writes(m)
<1> USE DEF PagingTypeOK
<1>1. ASSUME NEW m \in Send, Commit(m) \/ CommitUnanswered(m) PROVE Writes(m)
  <2>1. pc[m] = "commit" /\ Store(m) /\ conversation' = conversation
    BY <1>1 DEF Commit, CommitUnanswered, txnVars
  <2>2. \A n \in Send : ~Dates(n)
    BY <1>1 DEF Dates, Commit, CommitUnanswered, Goto, TypeOK
  <2>3. sentAt' = [n \in Send |-> sentAt[n]]
    BY <2>2 DEF SetLastMessageAt
  <2>4. pc'[m] # "commit"
    BY <1>1 DEF Commit, CommitUnanswered, Goto, TypeOK
  <2> QED
    BY <2>1, <2>2, <2>3, <2>4 DEF Writes
<1>2. ASSUME NEW m \in Send, ~Commit(m), ~CommitUnanswered(m),
             Begin(m) \/ Handle(m) \/ Publish(m) \/ Abort(m) \/ PublishFails(m)
               \/ OrphanAborted(m)
      PROVE  Quiet
  BY <1>2 DEF Handle, Begin, FindOrCreate, InsertMessage, UpdateConversation, Announce, Publish,
     Abort, PublishFails, OrphanAborted, Quiet, dbVars
<1>3. ASSUME Crash \/ (\E u \in User, s \in Socket : Connect(u, s))
                   \/ (\E s \in Socket : Disconnect(s))
      PROVE  Quiet
  BY <1>3 DEF Crash, Connect, Disconnect, Quiet, dbVars
<1> QED
  BY <1>1, <1>2, <1>3 DEF Next, Handle

(* How a handler gets to its commit. *)
LEMMA ToCommit ==
    ASSUME DbInv, Next, NEW m \in Send, pc'[m] = "commit"
    PROVE  /\ pc[m] \in {"update", "commit"}
           /\ \A n \in stored \cup {m} : conversation'[n] = conversation[n]
<1> USE DEF DbInv, TypeOK, Goto, txnVars
<1>1. ASSUME NEW k \in Send, FindOrCreate(k)
      PROVE  /\ pc[m] = "commit"
             /\ \A n \in stored \cup {m} : conversation'[n] = conversation[n]
  <2>1. pc[k] = "find" /\ k \notin stored
    BY <1>1 DEF FindOrCreate, Placed
  <2>2. pc'[k] # "commit" /\ \A n \in Send \ {k} : pc'[n] = pc[n]
    BY <1>1 DEF FindOrCreate
  <2>3. \A n \in Send \ {k} : conversation'[n] = conversation[n]
    BY <1>1 DEF FindOrCreate
  <2> QED
    BY <2>1, <2>2, <2>3
<1>2. ASSUME NEW k \in Send, ~FindOrCreate(k),
             \/ Begin(k) \/ Handle(k) \/ Publish(k) \/ Abort(k) \/ CommitUnanswered(k)
             \/ PublishFails(k) \/ OrphanAborted(k)
      PROVE  pc[m] \in {"update", "commit"} /\ conversation' = conversation
  BY <1>2 DEF Handle, Begin, InsertMessage, UpdateConversation, Commit, Announce, Publish,
     Abort, CommitUnanswered, PublishFails, OrphanAborted
<1>3. ASSUME \/ \E u \in User, s \in Socket : Connect(u, s)
             \/ \E s \in Socket : Disconnect(s)
      PROVE  pc[m] = "commit" /\ conversation' = conversation
  BY <1>3 DEF Connect, Disconnect
<1>4. ASSUME Crash PROVE pc[m] = "commit" /\ conversation' = conversation
  <2>1. pc'[m] = CASE pc[m] \in Open -> "orphan"
                   [] pc[m] \in {"find", "announce"} -> "killed"
                   [] OTHER -> pc[m]
    BY <1>4 DEF Crash
  <2>2. pc'[m] \in {"orphan", "killed", pc[m]}
    BY <2>1
  <2> QED
    BY <1>4, <2>2 DEF Crash
<1> QED
  BY <1>1, <1>2, <1>3, <1>4 DEF Next, Handle

LEMMA StoredKeepsDate ==
    ASSUME PagingInv, SetLastMessageAt, NEW m \in Send, pc[m] # "update"
    PROVE  sentAt'[m] = sentAt[m]
  BY DEF SetLastMessageAt, Dates

LEMMA DatedStep == ASSUME PagingInv, Next, SetLastMessageAt PROVE Dated'
<1> USE DEF PagingInv, PagingTypeOK
<1>1. \A m \in Send : sentAt'[m] < clock' /\ (Dates(m) => sentAt'[m] = clock)
  BY DEF SetLastMessageAt, Dated
<1>2. ASSUME NEW m \in Send, pc'[m] = "commit",
             NEW n \in stored', conversation'[n] = conversation'[m]
      PROVE  sentAt'[n] < sentAt'[m]
  <2>1. pc[m] \in {"update", "commit"} /\ conversation'[m] = conversation[m]
    BY <1>2, ToCommit
  <2>2. CASE n \in stored
    <3>1. pc[n] # "update" /\ n \in Send
      BY <2>2 DEF DbInv, Placed, TypeOK
    <3>2. sentAt'[n] = sentAt[n] /\ conversation[n] = conversation[m]
      BY <1>2, <2>1, <2>2, <3>1, ToCommit, StoredKeepsDate
    <3>3. CASE pc[m] = "commit"
      BY <2>2, <3>2, <3>3, StoredKeepsDate DEF Dated
    <3>4. CASE pc[m] = "update"
      BY <1>1, <1>2, <3>1, <3>2, <3>4 DEF Dates, Dated
    <3> QED
      BY <2>1, <3>3, <3>4
  <2>3. CASE n \notin stored
    <3>1. Writes(n) /\ n \in Send
      BY <2>3, Cases DEF Writes, Quiet, Store
    <3>2. m # n /\ pc[n] = "commit" /\ conversation[n] = conversation[m]
      BY <1>2, <3>1, <2>1 DEF Writes
    <3> QED
      BY <2>1, <3>1, <3>2 DEF DbInv, Exclusive, Open
  <2> QED
    BY <2>2, <2>3
<1> QED
  BY <1>1, <1>2 DEF Dated

(* Conversations stay, and their dates ascend. *)
LEMMA DatesAscend ==
    ASSUME PagingInv, Next, SetLastMessageAt, NEW c \in conversations
    PROVE  /\ c \in conversations' /\ stored \subseteq stored'
           /\ lastMessageAt(c) \in Nat
           /\ lastMessageAt(c)' >= lastMessageAt(c)
           /\ lastMessageId'[c] = lastMessageId[c] => lastMessageAt(c)' = lastMessageAt(c)
           /\ lastMessageId'[c] # lastMessageId[c] => lastMessageId'[c] \notin stored
<1> USE DEF PagingInv, PagingTypeOK, TypeOK
<1>1. /\ lastMessageId[c] \in stored /\ lastMessageId[c] \in Send
      /\ conversation[lastMessageId[c]] = c
  BY DEF DbInv, Newest, In
<1>2. pc[lastMessageId[c]] # "update"
  BY <1>1 DEF DbInv, Placed
<1>3. sentAt'[lastMessageId[c]] = sentAt[lastMessageId[c]] /\ sentAt[lastMessageId[c]] \in Nat
  BY <1>1, <1>2, StoredKeepsDate
<1>4. CASE Quiet
  BY <1>1, <1>3, <1>4 DEF Quiet, lastMessageAt
<1>5. ASSUME NEW m \in Send, Writes(m)
      PROVE  /\ c \in conversations' /\ stored \subseteq stored'
             /\ lastMessageAt(c)' >= lastMessageAt(c)
             /\ lastMessageId'[c] = lastMessageId[c] => lastMessageAt(c)' = lastMessageAt(c)
             /\ lastMessageId'[c] # lastMessageId[c] => lastMessageId'[c] \notin stored
  <2>1. c \in conversations' /\ stored \subseteq stored' /\ sentAt' = sentAt /\ m \notin stored
    BY <1>5 DEF Writes, Store, DbInv, Placed
  <2>2. lastMessageId' = [lastMessageId EXCEPT ![conversation[m]] = m]
    BY <1>5 DEF Writes, Store
  <2>3. CASE conversation[m] = c
    <3>1. sentAt[lastMessageId[c]] < sentAt[m]
      BY <1>1, <1>5, <2>3 DEF Writes, Dated
    <3> QED
      BY <1>1, <2>1, <2>2, <2>3, <3>1 DEF lastMessageAt
  <2>4. CASE conversation[m] # c
    <3>1. lastMessageId'[c] = lastMessageId[c]
      BY <2>2, <2>4
    <3> QED
      BY <1>3, <2>1, <3>1 DEF lastMessageAt
  <2> QED
    BY <2>3, <2>4
<1> QED
  BY <1>3, <1>4, <1>5, Cases DEF lastMessageAt

-----------------------------------------------------------------------------
(* A conversation without new messages moves down the list, if at all. *)
LEMMA AheadGrows ==
    ASSUME PagingInv, Next, SetLastMessageAt, PagingTypeOK',
           NEW c \in conversations, lastMessageId'[c] = lastMessageId[c]
    PROVE  Ahead0(c)' >= Ahead0(c)
<1>1. lastMessageAt(c)' = lastMessageAt(c) /\ c \in conversations'
  BY DatesAscend
<1>2. Ahead(c) \subseteq Ahead(c)'
  <2> SUFFICES ASSUME NEW d \in conversations, lastMessageAt(d) > lastMessageAt(c)
               PROVE  d \in conversations' /\ lastMessageAt(d)' > lastMessageAt(c)'
    BY DEF Ahead
  <2>1. /\ d \in conversations' /\ lastMessageAt(d)' >= lastMessageAt(d)
        /\ lastMessageAt(d) \in Nat /\ lastMessageAt(c) \in Nat
    BY DatesAscend
  <2>2. lastMessageAt(d)' \in Nat
    BY <2>1 DEF lastMessageAt, PagingTypeOK, TypeOK
  <2> QED
    BY <1>1, <2>1, <2>2
<1>3. IsFiniteSet(Ahead(c)')
  <2>1. Ahead(c)' \subseteq Send
    BY DEF Ahead, PagingTypeOK, TypeOK
  <2> QED
    BY <2>1, SendAssumption, FS_Subset
<1>4. Cardinality(Ahead(c)) <= Cardinality(Ahead(c)')
  BY <1>2, <1>3, FS_Subset
<1> QED
  BY <1>4 DEF Ahead0

LEMMA PagingTypeStep == PagingTypeOK /\ [PagingNext]_pagingVars => PagingTypeOK'
<1> SUFFICES ASSUME PagingTypeOK, [PagingNext]_pagingVars PROVE PagingTypeOK'
  OBVIOUS
<1> USE DEF PagingTypeOK
<1>1. TypeOK'
  <2>1. [Next]_vars
    BY DEF PagingNext, GetPage, pagingVars
  <2> QED
    BY <2>1, TypeStep
<1>2. CASE Next /\ SetLastMessageAt /\ UNCHANGED readerVars
  BY <1>1, <1>2 DEF SetLastMessageAt, readerVars
<1>3. CASE GetPage
  <2>1. ChatList \subseteq Send \X Send /\ Page(page) \subseteq Send
    BY DEF ChatList, Page, TypeOK
  <2> QED
    BY <1>1, <1>3, <2>1 DEF GetPage, dateVars
<1>4. CASE UNCHANGED pagingVars
  BY <1>1, <1>4 DEF pagingVars, dateVars, readerVars
<1> QED
  BY <1>2, <1>3, <1>4 DEF PagingNext

LEMMA PromisedNext ==
    ASSUME PagingInv, Next, SetLastMessageAt, UNCHANGED readerVars, PagingTypeOK' PROVE Promised'
<1> USE DEF PagingInv
<1>1. page' = page /\ snapshot' = snapshot /\ seen' = seen
  BY DEF readerVars
<1>2. ASSUME NEW e \in snapshot
      PROVE  /\ e[1] \in conversations' /\ e[2] \in stored'
             /\ e \in ChatList' => e[1] \in seen \/ (page # 0 /\ Ahead0(e[1])' >= Skip(page))
  <2>1. e[1] \in conversations /\ e[2] \in stored /\ e = <<e[1], e[2]>>
    BY DEF Promised, PagingTypeOK
  <2>2. e[1] \in conversations' /\ e[2] \in stored'
    BY <2>1, DatesAscend
  <2>3. ASSUME e \in ChatList', e[1] \notin seen
        PROVE  page # 0 /\ Ahead0(e[1])' >= Skip(page)
    <3>1. lastMessageId'[e[1]] = e[2]
      BY <2>1, <2>3 DEF ChatList
    <3>2. lastMessageId[e[1]] = e[2]
      BY <2>1, <3>1, DatesAscend
    <3>3. e \in ChatList
      BY <2>1, <3>2 DEF ChatList
    <3>4. page # 0 /\ Ahead0(e[1]) >= Skip(page)
      BY <2>3, <3>3 DEF Promised
    <3>5. Ahead0(e[1])' >= Ahead0(e[1])
      BY <2>1, <3>1, <3>2, AheadGrows
    <3>6. Ahead0(e[1]) \in Nat /\ Ahead0(e[1])' \in Nat /\ Skip(page) \in Nat
      <4>1. Ahead0(e[1]) \in Nat
        BY <2>1, AheadFinite
      <4>2. IsFiniteSet(Ahead(e[1])')
        <5>1. Ahead(e[1])' \subseteq Send
          BY DEF Ahead, PagingTypeOK, TypeOK
        <5> QED
          BY <5>1, SendAssumption, FS_Subset
      <4>3. Ahead0(e[1])' \in Nat
        BY <4>2, FS_CardinalityType DEF Ahead0
      <4> QED
        BY <3>4, <4>1, <4>3, SkipFact DEF PagingTypeOK
    <3> QED
      BY <3>4, <3>5, <3>6
  <2> QED
    BY <2>2, <2>3
<1>3. Skip(page)' = Skip(page)
  BY <1>1 DEF Skip
<1> QED
  BY <1>1, <1>2, <1>3 DEF Promised

LEMMA PromisedPage == ASSUME PagingInv, GetPage PROVE Promised'
<1> USE DEF PagingInv, PagingTypeOK
<1>1. UNCHANGED <<conversations, lastMessageId, stored, sentAt>>
  BY DEF GetPage, vars, dbVars, dateVars
<1>2. /\ ChatList' = ChatList
      /\ \A c \in conversations : Ahead0(c)' = Ahead0(c)
  BY <1>1 DEF ChatList, Ahead0, Ahead, lastMessageAt
<1>3. page \in Nat \ {0} /\ Skip(page) \in Nat /\ Skip(page + 1) = Skip(page) + Limit
  BY SkipFact DEF GetPage
<1>4. ASSUME NEW e \in snapshot'
      PROVE  /\ e[1] \in conversations /\ e[2] \in stored
             /\ e \in ChatList => e[1] \in seen \/ Ahead0(e[1]) >= Skip(page)
  <2>1. CASE page = 1
    <3>1. e \in ChatList
      BY <1>4, <2>1 DEF GetPage
    <3>2. PICK c \in conversations : e = <<c, lastMessageId[c]>>
      BY <3>1 DEF ChatList
    <3>3. lastMessageId[c] \in stored
      BY <3>2 DEF DbInv, Newest, In
    <3>4. Ahead0(c) \in Nat /\ Skip(page) = 0
      BY <2>1, SkipFact, AheadFinite
    <3> QED
      BY <3>2, <3>3, <3>4
  <2>2. CASE page # 1
    BY <1>3, <1>4, <2>2 DEF GetPage, Promised
  <2> QED
    BY <2>1, <2>2
<1>5. ASSUME NEW e \in snapshot', e \in ChatList
      PROVE  e[1] \in seen' \/ (page' # 0 /\ Ahead0(e[1]) >= Skip(page'))
  <2>1. e[1] \in conversations
    BY <1>4, <1>5
  <2>2. /\ Ahead0(e[1]) \in Nat /\ Cardinality(conversations) \in Nat
        /\ Ahead0(e[1]) < Cardinality(conversations)
    BY <2>1, AheadFinite
  <2>3. seen' = seen \cup Page(page)
    BY DEF GetPage
  <2>4. CASE e[1] \in seen
    BY <2>3, <2>4
  <2>5. CASE Ahead0(e[1]) >= Skip(page)
    <3>1. page' = page + 1
      BY <1>3, <2>2, <2>5 DEF GetPage
    <3>2. CASE Ahead0(e[1]) < Skip(page) + Limit
      <4>1. Ahead0(e[1]) \in Skip(page)..(Skip(page) + Limit - 1)
        BY <1>3, <2>2, <2>5, <3>2, LimitAssumption
      <4>2. e[1] \in Page(page)
        BY <2>1, <4>1 DEF Page, Ahead0
      <4> QED
        BY <2>3, <4>2
    <3>3. CASE Ahead0(e[1]) >= Skip(page) + Limit
      BY <1>3, <3>1, <3>3
    <3> QED
      BY <1>3, <2>2, <3>2, <3>3, LimitAssumption
  <2> QED
    BY <1>4, <1>5, <2>4, <2>5
<1>6. page' # 1
  BY <1>3 DEF GetPage
<1>7. \A n : Skip(n)' = Skip(n)
  BY DEF Skip
<1> QED
  BY <1>1, <1>2, <1>4, <1>5, <1>6, <1>7 DEF Promised, Skip

LEMMA PagingStep == PagingInv /\ [PagingNext]_pagingVars => PagingInv'
<1> SUFFICES ASSUME PagingInv, [PagingNext]_pagingVars PROVE PagingInv'
  OBVIOUS
<1> USE DEF PagingInv
<1>1. PagingTypeOK'
  BY PagingTypeStep
<1>2. DbInv'
  <2>1. [Next]_vars
    BY DEF PagingNext, GetPage, pagingVars
  <2> QED
    BY <2>1, DbStep
<1>3. CASE Next /\ SetLastMessageAt /\ UNCHANGED readerVars
  BY <1>1, <1>2, <1>3, DatedStep, PromisedNext
<1>4. CASE GetPage
  <2>1. Dated'
    BY <1>4 DEF GetPage, vars, txnVars, dbVars, dateVars, Dated
  <2> QED
    BY <1>1, <1>2, <1>4, <2>1, PromisedPage
<1>5. CASE UNCHANGED pagingVars
  BY <1>1, <1>2, <1>5
     DEF pagingVars, vars, txnVars, dbVars, dateVars, readerVars, Dated, Promised, ChatList,
         Ahead0, Ahead, lastMessageAt, Skip
<1> QED
  BY <1>3, <1>4, <1>5 DEF PagingNext

(* Whoever pages to the end of the chat list has seen every conversation   *)
(* they began with and that has had no message since.                      *)
THEOREM NothingSkipped == PagingSpec => []PagingSkipsNothing
<1>1. PagingInit => PagingInv
  <2> SUFFICES ASSUME PagingInit PROVE PagingInv
    OBVIOUS
  <2>1. DbInv
    BY DbInit DEF PagingInit
  <2>2. PagingTypeOK /\ Promised
    BY <2>1 DEF PagingInit, PagingTypeOK, DbInv, Promised
  <2>3. Dated
    BY DEF PagingInit, Init, Dated
  <2> QED
    BY <2>1, <2>2, <2>3 DEF PagingInv
<1>2. PagingInv => PagingSkipsNothing
  BY DEF PagingInv, Promised, PagingSkipsNothing
<1> QED
  BY <1>1, <1>2, PagingStep, PTL DEF PagingSpec
=============================================================================
