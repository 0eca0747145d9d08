------------------------- MODULE NotificationService -------------------------
(***************************************************************************)
(* notification-service: the handlers of "notification_matched" and        *)
(* "notification_message" behind "notification_queue", the FCM tokens in   *)
(* Redis (fcmToken:<user>, which live for a week) and the collection       *)
(* "notifications".                                                        *)
(*                                                                         *)
(* A handler reads tokens, pushes, and only then stores.  Firebase is      *)
(* external: send rejects for a device that has dropped the application;   *)
(* sendEach reports such a message, or one without a token, and goes on.   *)
(* The services that emit the events are an environment here: each event   *)
(* is emitted at most once.  SwipeNotifications puts swipe-service in its  *)
(* place and shows that it is such an environment.  A new message takes    *)
(* the same path as a like.                                                *)
(***************************************************************************)
EXTENDS Broker, Naturals, Sequences, Functions

CONSTANTS
    User,
    Device,  \* FCM tokens
    NoToken  \* what GET answers for a key that is not there

ASSUME NoTokenAssumption == NoToken \notin Device

VARIABLES
    payload,  \* payload[r]: who swipes on whom, or writes to whom, in request r
    emitted,  \* events that have been emitted
    steady,   \* nothing fails in this behaviour; chosen once
    token,    \* token[u]: the value of fcmToken:u
    stale,    \* devices that have dropped the application
    hpc,      \* hpc[e]: where the handler of event e is
    tokens,   \* tokens[e]: the tokens it has read
    pushed,   \* <<e, d>>: the push of e has reached d
    notes,    \* <<e, i>>: the document of e for its i-th recipient
    read      \* those marked as read

tokenVars == <<token, stale>>
noteVars == <<notes, read>>
sourceVars == <<payload, emitted, steady>>
notifVars == <<tokenVars, hpc, tokens, pushed, noteVars>>
vars == <<sourceVars, brokerVars, notifVars>>

Payload == [sendFromUser : User, targetUser : User]

NoteHandlerPC == {"getTokens", "push", "store"}
NotePC == NoteHandlerPC \cup {"none", "done", "failed"}
Note == NotifEvent \X {1, 2}

TypeOK ==
    /\ BrokerTypeOK
    /\ payload \in [Req -> Payload]
    /\ emitted \subseteq NotifEvent
    /\ steady \in BOOLEAN
    /\ token \in [User -> Device \cup {NoToken}]
    /\ stale \subseteq Device
    /\ hpc \in [NotifEvent -> NotePC]
    /\ tokens \in [NotifEvent -> SUBSET Device]
    /\ pushed \subseteq NotifEvent \X Device
    /\ notes \subseteq Note
    /\ read \subseteq notes

Init ==
    /\ BrokerInit
    /\ payload \in [Req -> Payload]
    /\ emitted = {}
    /\ steady \in BOOLEAN
    /\ token = [u \in User |-> NoToken]
    /\ stale = {}
    /\ hpc = [e \in NotifEvent |-> "none"]
    /\ tokens = [e \in NotifEvent |-> {}]
    /\ pushed = {}
    /\ notes = {}
    /\ read = {}

IsMatch(e) == e.pattern = "notification_matched"

(* Whom an event is for, in the order of the handler's documents. *)
Recipients(e) ==
    IF IsMatch(e) THEN <<payload[e.by].sendFromUser, payload[e.by].targetUser>>
                  ELSE <<payload[e.by].targetUser>>
NotesOf(e) == {<<e, i>> : i \in DOMAIN Recipients(e)}

(* getUserFcmToken: a missing token is left out, which moves the other to  *)
(* the first place; as both users get the same text, places do not matter. *)
TokensOf(e) == {token[u] : u \in Range(Recipients(e))} \ {NoToken}

-----------------------------------------------------------------------------
(* POST /notifications/fcm-token *)
UpdateFcmToken(u, d) ==
    /\ d \notin stale
    /\ token' = [token EXCEPT ![u] = d]
    /\ UNCHANGED <<sourceVars, stale, hpc, tokens, pushed, noteVars, brokerVars>>

TokenExpires(u) ==
    /\ token[u] # NoToken
    /\ token' = [token EXCEPT ![u] = NoToken]
    /\ UNCHANGED <<sourceVars, stale, hpc, tokens, pushed, noteVars, brokerVars>>

(* The application is removed from device d, whose token nobody revokes. *)
Uninstall(d) ==
    /\ d \notin stale
    /\ stale' = stale \cup {d}
    /\ UNCHANGED <<sourceVars, token, hpc, tokens, pushed, noteVars, brokerVars>>

-----------------------------------------------------------------------------
(* Mutant: the event is acknowledged after its handler (noAck: false). *)
ReceiveUnacknowledged(e) ==
    /\ e \in notifQueue
    /\ hpc' = [hpc EXCEPT ![e] = "getTokens"]
    /\ UNCHANGED <<sourceVars, tokenVars, tokens, pushed, noteVars, brokerVars>>

(* The queue acknowledges on delivery; the handler runs to its first await. *)
Receive(e) ==
    /\ e \in notifQueue
    /\ notifQueue' = notifQueue \ {e}
    /\ hpc' = [hpc EXCEPT ![e] = "getTokens"]
    /\ UNCHANGED <<matchQueue, sourceVars, tokenVars, tokens, pushed, noteVars>>

(* Mutant: no filter. *)
GetTokensUnfiltered(e) ==
    /\ hpc[e] = "getTokens"
    /\ tokens' = [tokens EXCEPT ![e] = {token[u] : u \in Range(Recipients(e))}]
    /\ hpc' = [hpc EXCEPT ![e] = IF IsMatch(e) \/ tokens'[e] # {} THEN "push" ELSE "store"]
    /\ UNCHANGED <<sourceVars, tokenVars, pushed, noteVars, brokerVars>>

(* Mutant: a push without looking whether there is a token. *)
GetTokensUnguarded(e) ==
    /\ hpc[e] = "getTokens"
    /\ tokens' = [tokens EXCEPT ![e] = TokensOf(e)]
    /\ hpc' = [hpc EXCEPT ![e] = "push"]
    /\ UNCHANGED <<sourceVars, tokenVars, pushed, noteVars, brokerVars>>

(* sendNotification pushes only if there is a token; the condition of       *)
(* sendMatchedNotification, an array, is always true.                       *)
GetTokens(e) ==
    /\ hpc[e] = "getTokens"
    /\ tokens' = [tokens EXCEPT ![e] = TokensOf(e)]
    /\ hpc' = [hpc EXCEPT ![e] = IF IsMatch(e) \/ tokens'[e] # {} THEN "push" ELSE "store"]
    /\ UNCHANGED <<sourceVars, tokenVars, pushed, noteVars, brokerVars>>

(* Mutant: a match is pushed one by one, as a like is. *)
PushToAll(e) ==
    /\ hpc[e] = "push"
    /\ LET ds == tokens[e] \ stale
       IN  /\ pushed' = pushed \cup {<<e, d>> : d \in ds}
           /\ hpc' = [hpc EXCEPT ![e] = IF ds = tokens[e] THEN "store" ELSE "failed"]
    /\ UNCHANGED <<sourceVars, tokenVars, tokens, noteVars, brokerVars>>

(* send throws for a stale token, and sendEach does not. *)
Push(e) ==
    /\ hpc[e] = "push"
    /\ LET ds == tokens[e] \ stale
       IN  /\ pushed' = pushed \cup {<<e, d>> : d \in ds}
           /\ hpc' = [hpc EXCEPT ![e] = IF IsMatch(e) \/ ds # {} THEN "store" ELSE "failed"]
    /\ UNCHANGED <<sourceVars, tokenVars, tokens, noteVars, brokerVars>>

(* Mutant: a document for the first user only. *)
StoreOne(e) ==
    /\ hpc[e] = "store"
    /\ notes' = notes \cup {<<e, 1>>}
    /\ hpc' = [hpc EXCEPT ![e] = "done"]
    /\ UNCHANGED <<sourceVars, tokenVars, tokens, pushed, read, brokerVars>>

(* create, or insertMany for the two of a match. *)
Store(e) ==
    /\ hpc[e] = "store"
    /\ notes' = notes \cup NotesOf(e)
    /\ hpc' = [hpc EXCEPT ![e] = "done"]
    /\ UNCHANGED <<sourceVars, tokenVars, tokens, pushed, read, brokerVars>>

(* Redis, FCM or MongoDB fails, or the process dies.  What was sent or     *)
(* stored until then stays: any of the pushes, and the first documents of  *)
(* an ordered insertMany.                                                  *)
HandlerFails(e) ==
    /\ ~steady
    /\ hpc[e] \in NoteHandlerPC
    /\ hpc' = [hpc EXCEPT ![e] = "failed"]
    /\ \/ UNCHANGED <<pushed, notes>>
       \/ /\ hpc[e] = "push"
          /\ \E ds \in SUBSET (tokens[e] \ stale) :
                pushed' = pushed \cup {<<e, d>> : d \in ds}
          /\ UNCHANGED notes
       \/ /\ hpc[e] = "store"
          /\ \E n \in DOMAIN Recipients(e) : notes' = notes \cup {<<e, i>> : i \in 1..n}
          /\ UNCHANGED pushed
    /\ UNCHANGED <<sourceVars, tokenVars, tokens, read, brokerVars>>

(* PATCH /notifications/:id/read *)
MarkAsRead(n) ==
    /\ n \in notes
    /\ read' = read \cup {n}
    /\ UNCHANGED <<sourceVars, tokenVars, hpc, tokens, pushed, notes, brokerVars>>

-----------------------------------------------------------------------------
(* swipe-service (swipe.service.ts:71-76, 136) or message-service          *)
(* (message.service.ts:188-200) emits e, whenever it likes: in its place   *)
(* SwipeNotifications puts the steps of swipe-service.                     *)
Emit(e) ==
    /\ e \notin emitted
    /\ emitted' = emitted \cup {e}
    /\ Enqueue(e)
    /\ UNCHANGED <<payload, steady, notifVars>>

QueueLost ==
    /\ ~steady
    /\ BrokerRestart
    /\ UNCHANGED <<sourceVars, notifVars>>

HandleEvent(e) == Receive(e) \/ GetTokens(e) \/ Push(e) \/ Store(e)

(* All that happens here but what the other services emit. *)
Serve ==
    \/ \E u \in User : TokenExpires(u) \/ \E d \in Device : UpdateFcmToken(u, d)
    \/ \E d \in Device : Uninstall(d)
    \/ \E e \in NotifEvent : HandleEvent(e) \/ HandlerFails(e)
    \/ \E n \in notes : MarkAsRead(n)
    \/ QueueLost

Next == Serve \/ \E e \in NotifEvent : Emit(e)

Spec == Init /\ [][Next]_vars
Fairness == \A e \in NotifEvent : WF_vars(HandleEvent(e))

(* GET /notifications/get *)
GetNotification(u) == {n \in notes : Recipients(n[1])[n[2]] = u}

-----------------------------------------------------------------------------
Listed(e) ==
    \A i \in DOMAIN Recipients(e) : <<e, i>> \in GetNotification(Recipients(e)[i])

(* The queue has forgotten an event before its handler can push or store   *)
(* anything, so whatever fails, nobody is notified of it twice.            *)
NotifiedOnce ==
    \A e \in notifQueue :
        /\ \A d \in Device : <<e, d>> \notin pushed
        /\ NotesOf(e) \cap notes = {}

(* All the devices that show an event do so at once, before it is listed,  *)
(* and all its documents come at once: nothing is retried and nothing      *)
(* completed later.                                                        *)
ShownBy(e) == {d \in Device : <<e, d>> \in pushed}
NotesMade(e) == NotesOf(e) \cap notes
AtOnce(e) ==
    /\ ShownBy(e)' # ShownBy(e) => ShownBy(e) = {} /\ NotesMade(e) = {}
    /\ NotesMade(e)' # NotesMade(e) => NotesMade(e) = {}
NotifiedAtOnce == [][\A e \in NotifEvent : AtOnce(e)]_vars

(* If one of a pair finds the match in the list and the other does not,    *)
(* the handler failed at its last step: a missing or stale token of either *)
(* never divides them.                                                     *)
PairListedTogether ==
    \A e \in NotifEvent :
        NotesOf(e) \cap notes # {} /\ ~Listed(e) => hpc[e] = "failed" /\ ~steady

(* What a device has shown can be looked up: a push is followed by its     *)
(* documents unless the handler fails between the two.  That a device is   *)
(* stale is no such failure.                                               *)
PushIsListed ==
    \A p \in pushed : LET e == p[1] IN
        Listed(e) \/ hpc[e] = "store" \/ (hpc[e] = "failed" /\ ~steady)

(* The one handler that ends early without a failure of the services.      *)
Silenced(e) == hpc[e] = "failed" /\ tokens[e] # {} /\ tokens[e] \subseteq stale
=============================================================================
