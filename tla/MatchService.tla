---------------------------- MODULE MatchService ----------------------------
(***************************************************************************)
(* match-service: MatchController and MatchService.create behind           *)
(* "match_queue", and the collection "matches".                            *)
(***************************************************************************)
EXTENDS Broker

VARIABLES
    creating,  \* requests whose match.create handler awaits the insert
    matches    \* documents in "matches", named by the request they come from

matchVars == <<creating, matches>>

MatchTypeOK ==
    /\ creating \subseteq Req
    /\ matches \subseteq Req

MatchInit ==
    /\ creating = {}
    /\ matches = {}

(* Mutant: noAck: false and no ack, so the broker keeps the event. *)
DeliverUnacknowledged(e) ==
    /\ e \in matchQueue
    /\ creating' = creating \cup (IF e = Pong THEN {} ELSE {e.by})
    /\ UNCHANGED <<brokerVars, matches>>

(* An event is taken off the queue and its handler runs to its first await. *)
(* pong() only logs.                                                        *)
Deliver(e) ==
    /\ e \in matchQueue
    /\ matchQueue' = matchQueue \ {e}
    /\ creating' = creating \cup (IF e = Pong THEN {} ELSE {e.by})
    /\ UNCHANGED <<notifQueue, matches>>

(* Mutant: the insert's error is swallowed. *)
CreateMatchSwallowed(r) ==
    /\ r \in creating
    /\ creating' = creating \ {r}
    /\ UNCHANGED <<matches, brokerVars>>

(* matchDocument.create: no unique index and no lookup before the insert. *)
CreateMatch(r) ==
    /\ r \in creating
    /\ creating' = creating \ {r}
    /\ matches' = matches \cup {r}
    /\ UNCHANGED brokerVars

(* The insert fails and the exception is logged, or the process dies while *)
(* handlers await: the events were acknowledged on delivery and are gone.  *)
CreateMatchFails ==
    /\ Faults
    /\ \E gone \in SUBSET creating \ {{}} : creating' = creating \ gone
    /\ UNCHANGED <<matches, brokerVars>>

MatchNext ==
    \/ \E e \in matchQueue : Deliver(e)
    \/ \E r \in creating : CreateMatch(r)
    \/ CreateMatchFails

MatchFairness ==
    /\ \A e \in MatchEvent \cup {Pong} : WF_<<matchVars, brokerVars>>(Deliver(e))
    /\ \A r \in Req : WF_<<matchVars, brokerVars>>(CreateMatch(r))
=============================================================================
