------------------------------- MODULE Broker -------------------------------
(***************************************************************************)
(* RabbitMQ as the services use it (external: the broker is not in the     *)
(* repository).  Every queue is declared with durable: false and consumed  *)
(* with the default noAck: true, so                                        *)
(*   - a broker restart forgets whatever is queued;                        *)
(*   - an event leaves its queue when it is delivered, before its handler  *)
(*     has run, and is never redelivered.                                  *)
(* No prefetch limit is set: a consumer starts a handler for every event   *)
(* at once and the handlers overlap at their first await, so the order in  *)
(* a queue is not observable and a queue is a set.                         *)
(***************************************************************************)
CONSTANTS
    Req,    \* the client requests that may cause events
    Faults  \* TRUE: processes, the broker and the database may fail

ASSUME FaultsAssumption == Faults \in BOOLEAN

VARIABLES
    matchQueue,  \* events in "match_queue"
    notifQueue   \* events in "notification_queue"

brokerVars == <<matchQueue, notifQueue>>

(* An event is its pattern and the request whose handler emitted it; the   *)
(* users it names are those of that request's payload.                     *)
Event(pattern) == [pattern : {pattern}, by : Req]
MatchCreate(r) == [pattern |-> "match.create", by |-> r]
NotifyMatched(r) == [pattern |-> "notification_matched", by |-> r]
NotifyLike(r) == [pattern |-> "notification_message", by |-> r]
Pong == [pattern |-> "pong"]

MatchEvent == Event("match.create")
NotifEvent == Event("notification_matched") \cup Event("notification_message")

BrokerTypeOK ==
    /\ matchQueue \subseteq MatchEvent \cup {Pong}
    /\ notifQueue \subseteq NotifEvent

BrokerInit ==
    /\ matchQueue = {}
    /\ notifQueue = {}

(* Mutant: one proxy, on "match_queue", for every event. *)
EnqueueOnOneProxy(e) ==
    /\ matchQueue' = matchQueue \cup {e}
    /\ UNCHANGED notifQueue

(* The client proxy hands event e to the queue its proxy was registered for. *)
Enqueue(e) ==
    IF e \in NotifEvent
    THEN notifQueue' = notifQueue \cup {e} /\ UNCHANGED matchQueue
    ELSE matchQueue' = matchQueue \cup {e} /\ UNCHANGED notifQueue

(* Non-durable queues do not survive the broker. *)
BrokerRestart ==
    /\ Faults
    /\ matchQueue \cup notifQueue # {}
    /\ matchQueue' = {}
    /\ notifQueue' = {}
=============================================================================
