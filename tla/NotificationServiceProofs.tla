---------------------- MODULE NotificationServiceProofs ----------------------
(***************************************************************************)
(* The safety properties of NotificationService, proved for every set of   *)
(* requests, users and devices.  The inductive invariant Inv follows an    *)
(* event: it is queued before it is handled, pushes come after the tokens  *)
(* have been read, and documents after the last step of the handler.       *)
(***************************************************************************)
EXTENDS NotificationService, TLAPS

(* An event is emitted, then queued, then handled. *)
Tracked ==
    /\ notifQueue \subseteq emitted
    /\ \A e \in NotifEvent : hpc[e] # "none" => e \in emitted
    /\ \A e \in notifQueue : hpc[e] = "none"

(* What a handler has done by the time it is where it is. *)
Silent ==
    \A e \in NotifEvent : hpc[e] = "none" => \A d \in Device : <<e, d>> \notin pushed
Unlisted ==
    \A e \in NotifEvent : hpc[e] \in {"none"} \cup NoteHandlerPC => NotesOf(e) \cap notes = {}
Complete ==
    \A e \in NotifEvent :
        NotesOf(e) \cap notes # {} => \/ hpc[e] = "done" /\ NotesOf(e) \subseteq notes
                                      \/ hpc[e] = "failed" /\ ~steady

Inv == TypeOK /\ Tracked /\ Silent /\ Unlisted /\ Complete

-----------------------------------------------------------------------------
LEMMA RecipientsFact ==
    \A e \in NotifEvent : /\ DOMAIN Recipients(e) \subseteq {1, 2}
                          /\ \A i \in DOMAIN Recipients(e) : 1..i \subseteq DOMAIN Recipients(e)
  BY DEF Recipients

LEMMA NotesFact ==
    \A e \in NotifEvent : /\ NotesOf(e) \subseteq Note
                          /\ \A f \in NotifEvent : e # f => NotesOf(e) \cap NotesOf(f) = {}
  BY RecipientsFact DEF NotesOf, Note

LEMMA QueuedFact == NotifEvent \cap (MatchEvent \cup {Pong}) = {}
  BY DEF NotifEvent, MatchEvent, Event, Pong

LEMMA InitInv == Init => Inv
  BY DEF Init, Inv, TypeOK, BrokerInit, BrokerTypeOK, Tracked, Silent, Unlisted, Complete,
         NotePC, Note, Payload

-----------------------------------------------------------------------------
(* Tokens and devices: no event is touched. *)
LEMMA TokenInv ==
    ASSUME Inv, token' \in [User -> Device \cup {NoToken}], stale' \subseteq Device,
           UNCHANGED <<sourceVars, brokerVars, hpc, tokens, pushed, noteVars>>
    PROVE  Inv'
  BY DEF Inv, TypeOK, BrokerTypeOK, brokerVars, sourceVars, noteVars, Tracked, Silent,
         Unlisted, Complete, NotesOf, Recipients, IsMatch

LEMMA UpdateFcmTokenInv ==
    ASSUME Inv, NEW u \in User, NEW d \in Device, UpdateFcmToken(u, d) PROVE Inv'
<1>1. token' \in [User -> Device \cup {NoToken}] /\ stale' \subseteq Device
  BY DEF UpdateFcmToken, Inv, TypeOK
<1> QED
  BY <1>1, TokenInv DEF UpdateFcmToken

LEMMA TokenExpiresInv ==
    ASSUME Inv, NEW u \in User, TokenExpires(u) PROVE Inv'
<1>1. token' \in [User -> Device \cup {NoToken}] /\ stale' \subseteq Device
  BY DEF TokenExpires, Inv, TypeOK
<1> QED
  BY <1>1, TokenInv DEF TokenExpires

LEMMA UninstallInv ==
    ASSUME Inv, NEW d \in Device, Uninstall(d) PROVE Inv'
<1>1. token' \in [User -> Device \cup {NoToken}] /\ stale' \subseteq Device
  BY DEF Uninstall, Inv, TypeOK
<1> QED
  BY <1>1, TokenInv DEF Uninstall

-----------------------------------------------------------------------------
(* The queue. *)
LEMMA EmitInv ==
    ASSUME Inv, NEW e \in NotifEvent, Emit(e) PROVE Inv'
<1> USE DEF Inv, Emit, Enqueue, notifVars, tokenVars, noteVars
<1>1. TypeOK'
  BY DEF TypeOK, BrokerTypeOK
<1>2. Tracked'
  BY DEF Tracked
<1>3. Silent' /\ Unlisted' /\ Complete'
  BY DEF Silent, Unlisted, Complete, NotesOf, Recipients, IsMatch
<1> QED
  BY <1>1, <1>2, <1>3

LEMMA QueueLostInv ==
    ASSUME Inv, QueueLost PROVE Inv'
<1> USE DEF Inv, QueueLost, BrokerRestart, sourceVars, notifVars, tokenVars, noteVars
<1>1. TypeOK'
  BY DEF TypeOK, BrokerTypeOK
<1>2. Tracked'
  BY DEF Tracked
<1>3. Silent' /\ Unlisted' /\ Complete'
  BY DEF Silent, Unlisted, Complete, NotesOf, Recipients, IsMatch
<1> QED
  BY <1>1, <1>2, <1>3

LEMMA ReceiveInv ==
    ASSUME Inv, NEW e \in NotifEvent, Receive(e) PROVE Inv'
<1> USE DEF Inv, Receive, sourceVars, tokenVars, noteVars
<1>1. TypeOK'
  BY DEF TypeOK, BrokerTypeOK, NotePC, NoteHandlerPC
<1>2. Tracked'
  BY DEF Tracked, TypeOK
<1>3. Silent' /\ Unlisted' /\ Complete'
  BY DEF Silent, Unlisted, Complete, NotesOf, Recipients, IsMatch, Tracked, TypeOK,
         NoteHandlerPC
<1> QED
  BY <1>1, <1>2, <1>3

-----------------------------------------------------------------------------
(* The steps of a handler. *)
LEMMA GetTokensInv ==
    ASSUME Inv, NEW e \in NotifEvent, GetTokens(e) PROVE Inv'
<1> USE DEF Inv, GetTokens, sourceVars, tokenVars, noteVars, brokerVars
<1>1. TokensOf(e) \subseteq Device
  <2>1. Range(Recipients(e)) \subseteq User
    BY DEF TypeOK, Recipients, Range, Payload, NotifEvent, Event
  <2> QED
    BY <2>1 DEF TokensOf, TypeOK
<1>2. TypeOK'
  BY <1>1 DEF TypeOK, BrokerTypeOK, NotePC, NoteHandlerPC
<1>3. Tracked'
  BY DEF Tracked, TypeOK
<1>4. Silent' /\ Unlisted' /\ Complete'
  BY DEF Silent, Unlisted, Complete, NotesOf, Recipients, IsMatch, TypeOK, NoteHandlerPC
<1> QED
  BY <1>2, <1>3, <1>4

(* A handler that may have pushed and has stored nothing goes on or ends. *)
LEMMA PushedInv ==
    ASSUME Inv, NEW e \in NotifEvent, hpc[e] \in NoteHandlerPC,
           NEW p \in {"store", "failed"}, hpc' = [hpc EXCEPT ![e] = p],
           NEW ds \in SUBSET Device, pushed' = pushed \cup {<<e, d>> : d \in ds},
           UNCHANGED <<sourceVars, tokenVars, tokens, noteVars, brokerVars>>
    PROVE  Inv'
<1> USE DEF Inv, sourceVars, tokenVars, noteVars, brokerVars
<1>1. TypeOK'
  BY DEF TypeOK, BrokerTypeOK, NotePC, NoteHandlerPC
<1>2. Tracked'
  BY DEF Tracked, TypeOK, NoteHandlerPC
<1>3. Silent'
  BY DEF Silent, TypeOK
<1>4. Unlisted' /\ Complete'
  BY DEF Unlisted, Complete, NotesOf, Recipients, IsMatch, TypeOK, NoteHandlerPC
<1> QED
  BY <1>1, <1>2, <1>3, <1>4

LEMMA PushInv ==
    ASSUME Inv, NEW e \in NotifEvent, Push(e) PROVE Inv'
<1>1. tokens[e] \ stale \in SUBSET Device
  BY DEF Inv, TypeOK
<1>2. \E p \in {"store", "failed"} : hpc' = [hpc EXCEPT ![e] = p]
  BY DEF Push
<1>3. pushed' = pushed \cup {<<e, d>> : d \in tokens[e] \ stale}
  BY DEF Push
<1>4. hpc[e] \in NoteHandlerPC
  BY DEF Push, NoteHandlerPC
<1>5. UNCHANGED <<sourceVars, tokenVars, tokens, noteVars, brokerVars>>
  BY DEF Push
<1> QED
  BY <1>1, <1>2, <1>3, <1>4, <1>5, PushedInv

(* The last step stores all, or fails with some. *)
LEMMA StoredInv ==
    ASSUME Inv, NEW e \in NotifEvent, hpc[e] = "store",
           NEW ns \in SUBSET NotesOf(e), notes' = notes \cup ns,
           NEW p \in {"done", "failed"}, hpc' = [hpc EXCEPT ![e] = p],
           p = "done" => ns = NotesOf(e),
           p = "failed" => ~steady,
           UNCHANGED <<sourceVars, tokenVars, tokens, pushed, read, brokerVars>>
    PROVE  Inv'
<1> USE DEF Inv, sourceVars, tokenVars, brokerVars
<1>1. TypeOK'
  BY NotesFact DEF TypeOK, BrokerTypeOK, NotePC
<1>2. Tracked'
  BY DEF Tracked, TypeOK
<1>3. Silent'
  BY DEF Silent, TypeOK
<1>4. \A f \in NotifEvent : NotesOf(f)' = NotesOf(f)
  BY DEF NotesOf, Recipients, IsMatch
<1>5. \A f \in NotifEvent : f # e =>
        hpc'[f] = hpc[f] /\ NotesOf(f) \cap notes' = NotesOf(f) \cap notes
  BY NotesFact DEF TypeOK
<1>6. hpc'[e] = p
  BY DEF TypeOK
<1>7. Unlisted'
  <2> SUFFICES ASSUME NEW f \in NotifEvent, hpc'[f] \in {"none"} \cup NoteHandlerPC
               PROVE  NotesOf(f) \cap notes' = {}
    BY <1>4 DEF Unlisted
  <2>1. f # e
    BY <1>6 DEF NoteHandlerPC
  <2> QED
    BY <2>1, <1>5 DEF Unlisted
<1>8. Complete'
  <2> SUFFICES ASSUME NEW f \in NotifEvent, NotesOf(f) \cap notes' # {}
               PROVE  \/ hpc'[f] = "done" /\ NotesOf(f) \subseteq notes'
                      \/ hpc'[f] = "failed" /\ ~steady
    BY <1>4 DEF Complete
  <2>1. CASE f = e
    BY <2>1, <1>6
  <2>2. CASE f # e
    BY <2>2, <1>5 DEF Complete
  <2> QED
    BY <2>1, <2>2
<1> QED
  BY <1>1, <1>2, <1>3, <1>7, <1>8

LEMMA StoreInv ==
    ASSUME Inv, NEW e \in NotifEvent, Store(e) PROVE Inv'
  BY StoredInv DEF Store

LEMMA HandlerFailsInv ==
    ASSUME Inv, NEW e \in NotifEvent, HandlerFails(e) PROVE Inv'
<1> USE DEF HandlerFails
<1>1. CASE UNCHANGED <<pushed, notes>>
  <2> DEFINE none == {}
  <2>1. pushed' = pushed \cup {<<e, d>> : d \in none}
    BY <1>1
  <2>2. none \in SUBSET Device
    OBVIOUS
  <2>3. UNCHANGED <<sourceVars, tokenVars, tokens, noteVars, brokerVars>>
    BY <1>1 DEF noteVars
  <2> HIDE DEF none
  <2> QED
    BY <2>1, <2>2, <2>3, PushedInv
<1>2. CASE /\ hpc[e] = "push"
           /\ \E ds \in SUBSET (tokens[e] \ stale) :
                 pushed' = pushed \cup {<<e, d>> : d \in ds}
           /\ UNCHANGED notes
  <2>1. PICK ds \in SUBSET (tokens[e] \ stale) :
               pushed' = pushed \cup {<<e, d>> : d \in ds}
    BY <1>2
  <2>2. ds \in SUBSET Device
    BY DEF Inv, TypeOK
  <2> QED
    BY <1>2, <2>1, <2>2, PushedInv DEF noteVars
<1>3. CASE /\ hpc[e] = "store"
           /\ \E n \in DOMAIN Recipients(e) : notes' = notes \cup {<<e, i>> : i \in 1..n}
           /\ UNCHANGED pushed
  <2>1. PICK n \in DOMAIN Recipients(e) : notes' = notes \cup {<<e, i>> : i \in 1..n}
    BY <1>3
  <2>2. {<<e, i>> : i \in 1..n} \in SUBSET NotesOf(e)
    BY RecipientsFact DEF NotesOf
  <2> QED
    BY <1>3, <2>1, <2>2, StoredInv
<1> QED
  BY <1>1, <1>2, <1>3

LEMMA MarkAsReadInv ==
    ASSUME Inv, NEW n \in notes, MarkAsRead(n) PROVE Inv'
  BY DEF Inv, MarkAsRead, TypeOK, BrokerTypeOK, brokerVars, sourceVars, tokenVars, Tracked,
         Silent, Unlisted, Complete, NotesOf, Recipients, IsMatch

LEMMA StutterInv == Inv /\ UNCHANGED vars => Inv'
  BY DEF vars, notifVars, Inv, TypeOK, BrokerTypeOK, brokerVars, sourceVars, tokenVars,
         noteVars, Tracked, Silent, Unlisted, Complete, NotesOf, Recipients, IsMatch

LEMMA NextInv == Inv /\ [Next]_vars => Inv'
  BY UpdateFcmTokenInv, TokenExpiresInv, UninstallInv, EmitInv, QueueLostInv, ReceiveInv,
     GetTokensInv, PushInv, StoreInv, HandlerFailsInv, MarkAsReadInv, StutterInv
     DEF Next, Serve, HandleEvent

LEMMA Invariance == Spec => []Inv
  BY InitInv, NextInv, PTL DEF Spec

-----------------------------------------------------------------------------
(* Events, tokens and documents keep their types. *)
THEOREM TypeCorrect == Spec => []TypeOK
<1>1. Inv => TypeOK
  BY DEF Inv
<1> QED
  BY <1>1, Invariance, PTL

LEMMA OnceFact == Inv => NotifiedOnce
  BY DEF Inv, Tracked, Silent, Unlisted, NotifiedOnce, TypeOK, BrokerTypeOK

(* An event that can still be delivered has pushed and stored nothing, so  *)
(* nobody is notified of it twice.                                         *)
THEOREM Once == Spec => []NotifiedOnce
  BY OnceFact, Invariance, PTL

LEMMA TogetherFact == Inv => PairListedTogether
<1> SUFFICES ASSUME Inv, NEW e \in NotifEvent, NotesOf(e) \cap notes # {}, ~Listed(e)
             PROVE  hpc[e] = "failed" /\ ~steady
  BY DEF PairListedTogether
<1>1. ~(NotesOf(e) \subseteq notes)
  BY DEF Listed, GetNotification, NotesOf
<1> QED
  BY <1>1 DEF Inv, Complete

(* A match is listed for both of a pair or for neither, unless a failure   *)
(* interrupts the insert itself.                                           *)
THEOREM Together == Spec => []PairListedTogether
  BY TogetherFact, Invariance, PTL

-----------------------------------------------------------------------------
(* A second invariant, which rests on Inv: who has pushed is about to      *)
(* store, has stored, or was interrupted.                                  *)
Shown ==
    \A e \in NotifEvent : (\E d \in Device : <<e, d>> \in pushed) =>
        \/ hpc[e] = "store"
        \/ hpc[e] = "done" /\ NotesOf(e) \subseteq notes
        \/ hpc[e] = "failed" /\ ~steady

LEMMA ShownReceive == ASSUME Inv, Shown, NEW e \in NotifEvent, Receive(e) PROVE Shown'
  BY DEF Shown, Inv, TypeOK, Tracked, Silent, Receive, sourceVars, noteVars, NotesOf,
         Recipients, IsMatch

LEMMA ShownGetTokens == ASSUME Inv, Shown, NEW e \in NotifEvent, GetTokens(e) PROVE Shown'
  BY DEF Shown, Inv, TypeOK, GetTokens, sourceVars, noteVars, NotesOf, Recipients, IsMatch

LEMMA ShownPush == ASSUME Inv, Shown, NEW e \in NotifEvent, Push(e) PROVE Shown'
<1> DEFINE ds == tokens[e] \ stale
<1>1. pushed' = pushed \cup {<<e, d>> : d \in ds} /\ notes' = notes /\ hpc[e] = "push"
  BY DEF Push, noteVars
<1>2. hpc' = [hpc EXCEPT ![e] = IF IsMatch(e) \/ ds # {} THEN "store" ELSE "failed"]
  BY DEF Push
<1>3. UNCHANGED <<payload, steady>> /\ hpc \in [NotifEvent -> NotePC]
  BY DEF Push, sourceVars, Inv, TypeOK
<1> HIDE DEF ds
<1>4. CASE hpc'[e] = "store"
  BY <1>1, <1>2, <1>3, <1>4 DEF Shown, NotesOf, Recipients, IsMatch
<1>5. CASE hpc'[e] # "store"
  <2>1. ds = {}
    BY <1>2, <1>3, <1>5
  <2>2. pushed' = pushed
    BY <1>1, <2>1
  <2> QED
    BY <1>1, <1>2, <1>3, <2>2 DEF Shown, NotesOf, Recipients, IsMatch
<1> QED
  BY <1>4, <1>5

LEMMA ShownStore == ASSUME Inv, Shown, NEW e \in NotifEvent, Store(e) PROVE Shown'
  BY DEF Shown, Inv, TypeOK, Store, sourceVars, NotesOf, Recipients, IsMatch

LEMMA ShownFails == ASSUME Inv, Shown, NEW e \in NotifEvent, HandlerFails(e) PROVE Shown'
<1>1. \A f \in NotifEvent : NotesOf(f)' = NotesOf(f)
  BY DEF HandlerFails, sourceVars, NotesOf, Recipients, IsMatch
<1>2. notes \subseteq notes' /\ steady' = steady /\ ~steady
  BY DEF HandlerFails, sourceVars
<1>3. hpc'[e] = "failed" /\ \A f \in NotifEvent \ {e} : hpc'[f] = hpc[f]
  BY DEF HandlerFails, Inv, TypeOK
<1>4. \A f \in NotifEvent \ {e}, d \in Device : <<f, d>> \in pushed' => <<f, d>> \in pushed
  BY DEF HandlerFails
<1> QED
  BY <1>1, <1>2, <1>3, <1>4 DEF Shown

(* What is left touches neither handlers nor pushes nor documents. *)
LEMMA ShownKept ==
    ASSUME Shown, UNCHANGED <<payload, steady, hpc, pushed, notes>> PROVE Shown'
  BY DEF Shown, NotesOf, Recipients, IsMatch

LEMMA ShownNext == Inv /\ Shown /\ [Next]_vars => Shown'
<1> SUFFICES ASSUME Inv, Shown, [Next]_vars PROVE Shown'
  OBVIOUS
<1>1. CASE \E e \in NotifEvent : HandleEvent(e) \/ HandlerFails(e)
  BY <1>1, ShownReceive, ShownGetTokens, ShownPush, ShownStore, ShownFails DEF HandleEvent
<1>2. CASE \E u \in User : TokenExpires(u) \/ \E d \in Device : UpdateFcmToken(u, d)
  BY <1>2, ShownKept DEF TokenExpires, UpdateFcmToken, sourceVars, noteVars
<1>3. CASE \E d \in Device : Uninstall(d)
  BY <1>3, ShownKept DEF Uninstall, sourceVars, noteVars
<1>4. CASE \E n \in notes : MarkAsRead(n)
  BY <1>4, ShownKept DEF MarkAsRead, sourceVars
<1>5. CASE QueueLost
  BY <1>5, ShownKept DEF QueueLost, sourceVars, notifVars, noteVars
<1>6. CASE \E e \in NotifEvent : Emit(e)
  BY <1>6, ShownKept DEF Emit, notifVars, noteVars
<1>7. CASE UNCHANGED vars
  BY <1>7, ShownKept DEF vars, sourceVars, notifVars, noteVars
<1> QED
  BY <1>1, <1>2, <1>3, <1>4, <1>5, <1>6, <1>7 DEF Next, Serve

LEMMA ShownFact == Inv /\ Shown => PushIsListed
<1> SUFFICES ASSUME Inv, Shown, NEW p \in pushed
             PROVE  \/ Listed(p[1])
                    \/ hpc[p[1]] = "store"
                    \/ hpc[p[1]] = "failed" /\ ~steady
  BY DEF PushIsListed
<1>1. PICK e \in NotifEvent, d \in Device : p = <<e, d>>
  BY DEF Inv, TypeOK
<1>2. CASE NotesOf(e) \subseteq notes
  BY <1>1, <1>2 DEF Listed, GetNotification, NotesOf
<1> QED
  BY <1>1, <1>2 DEF Shown

(* Whatever a device has shown is listed, unless the handler was           *)
(* interrupted between the push and the insert.                            *)
THEOREM ShownIsListed == Spec => []PushIsListed
<1>1. Init => Shown
  BY DEF Init, Shown
<1> QED
  BY <1>1, ShownFact, ShownNext, Invariance, PTL DEF Spec
-----------------------------------------------------------------------------
(* Pushes and documents of one event come from its handler alone. *)
LEMMA OwnHandler ==
    ASSUME Next, NEW e \in NotifEvent, ShownBy(e)' # ShownBy(e) \/ NotesMade(e)' # NotesMade(e)
    PROVE  Push(e) \/ Store(e) \/ HandlerFails(e)
<1>1. NotesOf(e)' = NotesOf(e)
  BY DEF Next, Serve, HandleEvent, Emit, UpdateFcmToken, TokenExpires, Uninstall, Receive,
         GetTokens, Push, Store, HandlerFails, MarkAsRead, QueueLost, sourceVars, NotesOf,
         Recipients, IsMatch
<1>2. ~(pushed' = pushed /\ notes' = notes)
  BY <1>1 DEF ShownBy, NotesMade
<1>3. PICK f \in NotifEvent : Push(f) \/ Store(f) \/ HandlerFails(f)
  BY <1>2 DEF Next, Serve, HandleEvent, Emit, UpdateFcmToken, TokenExpires, Uninstall, Receive,
              GetTokens, MarkAsRead, QueueLost, notifVars, noteVars
<1>4. CASE f # e
  <2>1. \A d \in Device : <<e, d>> \in pushed' <=> <<e, d>> \in pushed
    BY <1>3, <1>4 DEF Push, Store, HandlerFails
  <2>2. \A i : <<e, i>> \in notes' <=> <<e, i>> \in notes
    BY <1>3, <1>4 DEF Push, Store, HandlerFails, noteVars, NotesOf
  <2>3. NotesOf(e) \cap notes' = NotesOf(e) \cap notes
    BY <2>2 DEF NotesOf
  <2> QED
    BY <1>1, <2>1, <2>3 DEF ShownBy, NotesMade
<1> QED
  BY <1>3, <1>4

LEMMA AtOnceFact == ASSUME Inv, Shown, Next, NEW e \in NotifEvent PROVE AtOnce(e)
<1>1. hpc[e] = "push" => ShownBy(e) = {}
  BY DEF Shown, ShownBy
<1>2. hpc[e] \in NoteHandlerPC => NotesMade(e) = {}
  BY DEF Inv, Unlisted, NotesMade
<1>3. ASSUME Push(e) \/ Store(e) \/ HandlerFails(e)
      PROVE  hpc[e] \in NoteHandlerPC /\ (ShownBy(e)' # ShownBy(e) => hpc[e] = "push")
  BY <1>3 DEF Push, Store, HandlerFails, NoteHandlerPC, ShownBy
<1> QED
  BY <1>1, <1>2, <1>3, OwnHandler DEF AtOnce

(* Nobody is shown an event in two goes, or finds one later that others    *)
(* have found before.                                                      *)
THEOREM ShownAtOnce == Spec => NotifiedAtOnce
<1>1. Init => Shown
  BY DEF Init, Shown
<1>2. Inv /\ Shown /\ [Next]_vars => [\A e \in NotifEvent : AtOnce(e)]_vars
  BY AtOnceFact
<1> QED
  BY <1>1, <1>2, ShownNext, Invariance, PTL DEF Spec, NotifiedAtOnce
=============================================================================
