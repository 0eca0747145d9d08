---------------------------- MODULE ProfileCache ----------------------------
(***************************************************************************)
(* The profile of one user in user-service: the document in "users" and    *)
(* the Redis key user:profile:<id>, which has no time to live.             *)
(* getProfileById reads through the key, getUserByIds fills it, and        *)
(* updateProfile writes the fields it was sent over it; updatePhotos and   *)
(* deleteAccount leave it alone.  (updatePrefenrences has no caller.)      *)
(*                                                                         *)
(* The two fills are not awaited: they float on after the answer.  Of a    *)
(* document the model keeps two version numbers: of the fields that        *)
(* updateProfile sets, every update being taken to send all of them, and   *)
(* of the photos.                                                          *)
(***************************************************************************)
EXTENDS Naturals

CONSTANTS
    Req,    \* requests to user-service about the user
    None,   \* no document, no key, or null in the key
    Faults  \* TRUE: Redis, MongoDB, the photo store and the process may fail

ASSUME FaultsAssumption == Faults \in BOOLEAN
ASSUME NoneAssumption == None \notin [edited : Nat, photos : Nat] \cup [edited : Nat]

VARIABLES
    op,       \* op[r]: what request r calls
    pc,       \* pc[r]: where its handler is
    copy,     \* copy[r]: what it puts into the cache
    answer,   \* answer[r]: the profile it answers
    doc,      \* the document, or None
    cache,    \* the value of the key, or None
    edits,    \* calls of updateOne for the fields of the profile
    uploads   \* ... and for the photos

handlerVars == <<op, pc, copy, answer>>
versionVars == <<edits, uploads>>
vars == <<handlerVars, doc, cache, versionVars>>

Op == {"getProfileById", "getUserByIds", "updateProfile", "updatePhotos", "deleteAccount"}
Awaiting == {"cacheGet", "find", "updateOne", "cacheSet", "delete"}
PC == Awaiting \cup {"idle", "floating", "done", "failed"}

User == [edited : Nat, photos : Nat]
Profile == [edited : Nat]

TypeOK ==
    /\ op \in [Req -> Op]
    /\ pc \in [Req -> PC]
    /\ copy \in [Req -> User \cup Profile \cup {None}]
    /\ answer \in [Req -> User \cup Profile \cup {None}]
    /\ doc \in User \cup {None}
    /\ cache \in User \cup Profile \cup {None}
    /\ edits \in Nat
    /\ uploads \in Nat

Init ==
    /\ op \in [Req -> Op]
    /\ pc = [r \in Req |-> "idle"]
    /\ copy = [r \in Req |-> None]
    /\ answer = [r \in Req |-> None]
    /\ doc = [edited |-> 0, photos |-> 0]
    /\ cache = None
    /\ edits = 0
    /\ uploads = 0

Goto(r, p) == pc' = [pc EXCEPT ![r] = p]

FirstAwait ==
    [getProfileById |-> "cacheGet", getUserByIds |-> "find", updateProfile |-> "updateOne",
     updatePhotos |-> "updateOne", deleteAccount |-> "delete"]

Begin(r) ==
    /\ pc[r] = "idle"
    /\ Goto(r, FirstAwait[op[r]])
    /\ UNCHANGED <<op, copy, answer, doc, cache, versionVars>>

-----------------------------------------------------------------------------
(* getProfileById: a hit is answered as it is. *)
CacheGet(r) ==
    /\ pc[r] = "cacheGet"
    /\ answer' = [answer EXCEPT ![r] = cache]
    /\ Goto(r, IF cache = None THEN "find" ELSE "done")
    /\ UNCHANGED <<op, copy, doc, cache, versionVars>>

(* findById or find: what is found is answered, and cached after that.     *)
(* Only getProfileById caches that nothing was found.                      *)
Find(r) ==
    /\ pc[r] = "find"
    /\ answer' = [answer EXCEPT ![r] = doc]
    /\ copy' = [copy EXCEPT ![r] = doc]
    /\ Goto(r, IF op[r] = "getUserByIds" /\ doc = None THEN "done" ELSE "floating")
    /\ UNCHANGED <<op, doc, cache, versionVars>>

CacheFill(r) ==
    /\ pc[r] = "floating"
    /\ cache' = copy[r]
    /\ Goto(r, "done")
    /\ UNCHANGED <<op, copy, answer, doc, versionVars>>

(* updateOne on a document that may be gone: it then changes nothing, and  *)
(* is no error.                                                            *)
SetProfile ==
    /\ edits' = edits + 1
    /\ doc' = IF doc = None THEN None ELSE [doc EXCEPT !.edited = edits']
    /\ UNCHANGED uploads
SetPhotos ==
    /\ uploads' = uploads + 1
    /\ doc' = IF doc = None THEN None ELSE [doc EXCEPT !.photos = uploads']
    /\ UNCHANGED edits

(* Mutant: updateOne with upsert. *)
UpdateProfileUpserts(r) ==
    /\ pc[r] = "updateOne"
    /\ op[r] = "updateProfile"
    /\ edits' = edits + 1
    /\ doc' = IF doc = None THEN [edited |-> edits', photos |-> 0]
                            ELSE [doc EXCEPT !.edited = edits']
    /\ copy' = [copy EXCEPT ![r] = [edited |-> edits']]
    /\ Goto(r, "cacheSet")
    /\ UNCHANGED <<op, answer, cache, uploads>>

(* updateProfile: the fields sent are stored ... *)
UpdateProfile(r) ==
    /\ pc[r] = "updateOne"
    /\ op[r] = "updateProfile"
    /\ SetProfile
    /\ copy' = [copy EXCEPT ![r] = [edited |-> edits']]
    /\ Goto(r, "cacheSet")
    /\ UNCHANGED <<op, answer, cache>>

(* Mutant: the key is set only if it is not there. *)
CacheProfileIfEmpty(r) ==
    /\ pc[r] = "cacheSet"
    /\ cache' = IF cache = None THEN copy[r] ELSE cache
    /\ Goto(r, "done")
    /\ UNCHANGED <<op, copy, answer, doc, versionVars>>

(* ... and cached in place of the user. *)
CacheProfile(r) ==
    /\ pc[r] = "cacheSet"
    /\ cache' = copy[r]
    /\ Goto(r, "done")
    /\ UNCHANGED <<op, copy, answer, doc, versionVars>>

(* Mutant: the new photos are cached in place of the user. *)
UpdatePhotosInPlace(r) ==
    /\ pc[r] = "updateOne"
    /\ op[r] = "updatePhotos"
    /\ SetPhotos
    /\ cache' = [photos |-> uploads']
    /\ Goto(r, "done")
    /\ UNCHANGED <<op, copy, answer>>

(* The upload to the photo store, then updateOne. *)
UpdatePhotos(r) ==
    /\ pc[r] = "updateOne"
    /\ op[r] = "updatePhotos"
    /\ SetPhotos
    /\ Goto(r, "done")
    /\ UNCHANGED <<op, copy, answer, cache>>

DeleteAccount(r) ==
    /\ pc[r] = "delete"
    /\ doc' = None
    /\ Goto(r, "done")
    /\ UNCHANGED <<op, copy, answer, cache, versionVars>>

-----------------------------------------------------------------------------
(* An await rejects, and the catch answers 400.  The write that was asked  *)
(* for may have been done.                                                 *)
Fail(r) ==
    /\ Faults
    /\ pc[r] \in Awaiting
    /\ Goto(r, "failed")
    /\ \/ UNCHANGED <<doc, cache, versionVars>>
       \/ pc[r] = "updateOne" /\ op[r] = "updateProfile" /\ SetProfile /\ UNCHANGED cache
       \/ pc[r] = "updateOne" /\ op[r] = "updatePhotos" /\ SetPhotos /\ UNCHANGED cache
       \/ pc[r] = "cacheSet" /\ cache' = copy[r] /\ UNCHANGED <<doc, versionVars>>
       \/ pc[r] = "delete" /\ doc' = None /\ UNCHANGED <<cache, versionVars>>
    /\ UNCHANGED <<op, copy, answer>>

(* The fill of getUserByIds catches its error. *)
FillFails(r) ==
    /\ Faults
    /\ pc[r] = "floating"
    /\ op[r] = "getUserByIds"
    /\ Goto(r, "done")
    /\ UNCHANGED <<op, copy, answer, doc, cache, versionVars>>

(* That of getProfileById does not: the process dies, as it may for any    *)
(* other reason, with every handler in flight.                             *)
Crash ==
    /\ Faults
    /\ \E r \in Req : pc[r] \in Awaiting \cup {"floating"}
    /\ pc' = [r \in Req |-> IF pc[r] \in Awaiting THEN "failed"
                            ELSE IF pc[r] = "floating" THEN "done" ELSE pc[r]]
    /\ UNCHANGED <<op, copy, answer, doc, cache, versionVars>>

(* Redis restarts empty. *)
CacheLost ==
    /\ Faults
    /\ cache # None
    /\ cache' = None
    /\ UNCHANGED <<handlerVars, doc, versionVars>>

Handle(r) ==
    \/ CacheGet(r) \/ Find(r) \/ CacheFill(r)
    \/ UpdateProfile(r) \/ CacheProfile(r)
    \/ UpdatePhotos(r)
    \/ DeleteAccount(r)

Next ==
    \/ \E r \in Req : Begin(r) \/ Handle(r) \/ Fail(r) \/ FillFails(r)
    \/ Crash
    \/ CacheLost

Spec == Init /\ [][Next]_vars

-----------------------------------------------------------------------------
(* r is about to put a profile into the cache that is older than u's. *)
HoldsOlder(r, u) ==
    /\ pc[r] \in {"floating", "cacheSet"}
    /\ None \notin {copy[r], copy[u]}
    /\ copy[r].edited < copy[u].edited

AsNewAs(a, u) == None \notin {a, copy[u]} => a.edited >= copy[u].edited

(* An update sticks: if nobody carries an older profile to the cache when  *)
(* the update has been stored, then whoever asks once it has been answered *)
(* gets that profile or a newer one, whatever comes after and whatever     *)
(* fails.                                                                  *)
UpdateSticks ==
    \A u, r \in Req : op[u] = "updateProfile" /\ u # r =>
        []((pc[u] = "cacheSet" /\ \A s \in Req : ~HoldsOlder(s, u)) =>
             [](pc[u] = "done" /\ pc[r] = "idle" => []AsNewAs(answer[r], u)))

(* A deleted user does not come back: once neither the cache nor a handler *)
(* has a copy of the document, nobody is answered with a user again.       *)
Forgotten ==
    /\ doc = None
    /\ cache \notin User
    /\ \A s \in Req : pc[s] = "floating" => copy[s] = None
DeletedStaysDeleted ==
    \A r \in Req : [](Forgotten /\ pc[r] = "idle" => [](answer[r] \notin User))

(* New photos get seen: once neither the cache nor a handler has a copy    *)
(* from before the upload, nobody is shown the old photos again, though    *)
(* updatePhotos leaves the cache alone.                                    *)
Uncopied == cache \notin User /\ \A s \in Req : pc[s] = "floating" => copy[s] = None
OldPhotosGone(r, v) ==
    [](Uncopied /\ uploads >= v /\ pc[r] = "idle" =>
         [](answer[r] \in User => answer[r].photos >= v))
PhotosStick == \A r \in Req : OldPhotosGone(r, 1)
=============================================================================
