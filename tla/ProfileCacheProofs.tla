------------------------- MODULE ProfileCacheProofs -------------------------
(***************************************************************************)
(* The properties of ProfileCache, proved for every set of requests.  Inv  *)
(* ties the version numbers together: the document is at the last one, and *)
(* no copy is ahead of it.  From the moment an update cannot be overtaken, *)
(* Sticking holds until the end; from the moment a deleted user is         *)
(* forgotten, Forgotten does.                                              *)
(***************************************************************************)
EXTENDS ProfileCache, TLAPS

Versions ==
    /\ doc # None => doc.edited = edits
    /\ \A s \in Req : copy[s] # None => copy[s].edited <= edits

Carried == \A s \in Req : pc[s] = "cacheSet" => copy[s] \in Profile

Unanswered == \A s \in Req : pc[s] = "idle" => answer[s] = None

Inv == TypeOK /\ Versions /\ Carried /\ Unanswered

LEMMA NoneFact == None \notin User /\ None \notin Profile
  BY NoneAssumption DEF User, Profile

LEMMA ShapeFact == User \cap Profile = {}
<1> SUFFICES ASSUME NEW x \in User, x \in Profile PROVE FALSE
  OBVIOUS
<1>1. DOMAIN x = {"edited", "photos"}
  BY DEF User
<1>2. DOMAIN x = {"edited"}
  BY DEF Profile
<1> QED
  BY <1>1, <1>2

LEMMA InitInv == Init => Inv
  BY NoneFact DEF Init, Inv, TypeOK, Versions, Carried, Unanswered, User, Profile, PC

LEMMA FirstAwaitFact == \A o \in Op : FirstAwait[o] \in Awaiting \ {"cacheSet"}
  BY DEF FirstAwait, Op, Awaiting

(* What updateOne makes of the document, and what updateProfile caches. *)
LEMMA WriteFact ==
    ASSUME Inv
    PROVE  /\ SetProfile => /\ edits' \in Nat /\ edits' = edits + 1 /\ uploads' = uploads
                            /\ doc' \in User \cup {None}
                            /\ doc' # None => doc # None /\ doc'.edited = edits'
                            /\ [edited |-> edits'] \in Profile
           /\ SetPhotos => /\ uploads' \in Nat /\ edits' = edits
                           /\ doc' \in User \cup {None}
                           /\ doc' # None => doc # None /\ doc'.edited = doc.edited
  BY NoneFact DEF Inv, TypeOK, SetProfile, SetPhotos, User, Profile

-----------------------------------------------------------------------------
(* One step per action. *)

LEMMA TypeStep ==
    ASSUME Inv, [Next]_vars
    PROVE  TypeOK'
<1> USE NoneFact, WriteFact, FirstAwaitFact DEF Inv, TypeOK, Carried, Goto, PC, Awaiting
<1>1. ASSUME NEW q \in Req, Begin(q) PROVE TypeOK'
  BY <1>1 DEF Begin, versionVars
<1>2. ASSUME NEW q \in Req, CacheGet(q) PROVE TypeOK'
  BY <1>2 DEF CacheGet, versionVars
<1>3. ASSUME NEW q \in Req, Find(q) PROVE TypeOK'
  BY <1>3 DEF Find, versionVars
<1>4. ASSUME NEW q \in Req, CacheFill(q) PROVE TypeOK'
  BY <1>4 DEF CacheFill, versionVars
<1>5. ASSUME NEW q \in Req, UpdateProfile(q) PROVE TypeOK'
  BY <1>5 DEF UpdateProfile
<1>6. ASSUME NEW q \in Req, CacheProfile(q) PROVE TypeOK'
  BY <1>6 DEF CacheProfile, versionVars
<1>7. ASSUME NEW q \in Req, UpdatePhotos(q) PROVE TypeOK'
  BY <1>7 DEF UpdatePhotos
<1>8. ASSUME NEW q \in Req, DeleteAccount(q) PROVE TypeOK'
  BY <1>8 DEF DeleteAccount, versionVars
<1>9. ASSUME NEW q \in Req, Fail(q) PROVE TypeOK'
  BY <1>9 DEF Fail, Awaiting, versionVars
<1>10. ASSUME NEW q \in Req, FillFails(q) PROVE TypeOK'
  BY <1>10 DEF FillFails, versionVars
<1>11. CASE Crash
  BY <1>11 DEF Crash, versionVars
<1>12. CASE CacheLost
  BY <1>12 DEF CacheLost, handlerVars, versionVars
<1>13. CASE UNCHANGED vars
  BY <1>13 DEF vars, handlerVars, versionVars
<1> HIDE DEF Inv, TypeOK, Carried, Goto, PC, Awaiting
<1> QED
  BY <1>1, <1>2, <1>3, <1>4, <1>5, <1>6, <1>7, <1>8, <1>9, <1>10, <1>11, <1>12, <1>13 DEF Next, Handle

LEMMA VersionsStep ==
    ASSUME Inv, [Next]_vars
    PROVE  Versions'
<1> USE NoneFact, WriteFact DEF Inv, TypeOK, Versions, User, Profile
<1>1. ASSUME NEW q \in Req, Begin(q) PROVE Versions'
  BY <1>1 DEF Begin, versionVars
<1>2. ASSUME NEW q \in Req, CacheGet(q) PROVE Versions'
  BY <1>2 DEF CacheGet, versionVars
<1>3. ASSUME NEW q \in Req, Find(q) PROVE Versions'
  BY <1>3 DEF Find, versionVars
<1>4. ASSUME NEW q \in Req, CacheFill(q) PROVE Versions'
  BY <1>4 DEF CacheFill, versionVars
<1>5. ASSUME NEW q \in Req, UpdateProfile(q) PROVE Versions'
  BY <1>5 DEF UpdateProfile
<1>6. ASSUME NEW q \in Req, CacheProfile(q) PROVE Versions'
  BY <1>6 DEF CacheProfile, versionVars
<1>7. ASSUME NEW q \in Req, UpdatePhotos(q) PROVE Versions'
  BY <1>7 DEF UpdatePhotos
<1>8. ASSUME NEW q \in Req, DeleteAccount(q) PROVE Versions'
  BY <1>8 DEF DeleteAccount, versionVars
<1>9. ASSUME NEW q \in Req, Fail(q) PROVE Versions'
  BY <1>9 DEF Fail, Awaiting, versionVars
<1>10. ASSUME NEW q \in Req, FillFails(q) PROVE Versions'
  BY <1>10 DEF FillFails, versionVars
<1>11. CASE Crash
  BY <1>11 DEF Crash, versionVars
<1>12. CASE CacheLost
  BY <1>12 DEF CacheLost, handlerVars, versionVars
<1>13. CASE UNCHANGED vars
  BY <1>13 DEF vars, handlerVars, versionVars
<1> HIDE DEF Inv, TypeOK, Versions, User, Profile
<1> QED
  BY <1>1, <1>2, <1>3, <1>4, <1>5, <1>6, <1>7, <1>8, <1>9, <1>10, <1>11, <1>12, <1>13 DEF Next, Handle

LEMMA CarriedStep ==
    ASSUME Inv, [Next]_vars
    PROVE  Carried'
<1> USE WriteFact, FirstAwaitFact DEF Inv, TypeOK, Carried, Goto, Awaiting
<1>1. ASSUME NEW q \in Req, Begin(q) PROVE Carried'
  BY <1>1 DEF Begin, versionVars
<1>2. ASSUME NEW q \in Req, CacheGet(q) PROVE Carried'
  BY <1>2 DEF CacheGet, versionVars
<1>3. ASSUME NEW q \in Req, Find(q) PROVE Carried'
  BY <1>3 DEF Find, versionVars
<1>4. ASSUME NEW q \in Req, CacheFill(q) PROVE Carried'
  BY <1>4 DEF CacheFill, versionVars
<1>5. ASSUME NEW q \in Req, UpdateProfile(q) PROVE Carried'
  BY <1>5 DEF UpdateProfile
<1>6. ASSUME NEW q \in Req, CacheProfile(q) PROVE Carried'
  BY <1>6 DEF CacheProfile, versionVars
<1>7. ASSUME NEW q \in Req, UpdatePhotos(q) PROVE Carried'
  BY <1>7 DEF UpdatePhotos
<1>8. ASSUME NEW q \in Req, DeleteAccount(q) PROVE Carried'
  BY <1>8 DEF DeleteAccount, versionVars
<1>9. ASSUME NEW q \in Req, Fail(q) PROVE Carried'
  BY <1>9 DEF Fail, Awaiting, versionVars
<1>10. ASSUME NEW q \in Req, FillFails(q) PROVE Carried'
  BY <1>10 DEF FillFails, versionVars
<1>11. CASE Crash
  BY <1>11 DEF Crash, versionVars
<1>12. CASE CacheLost
  BY <1>12 DEF CacheLost, handlerVars, versionVars
<1>13. CASE UNCHANGED vars
  BY <1>13 DEF vars, handlerVars, versionVars
<1> HIDE DEF Inv, TypeOK, Carried, Goto, Awaiting
<1> QED
  BY <1>1, <1>2, <1>3, <1>4, <1>5, <1>6, <1>7, <1>8, <1>9, <1>10, <1>11, <1>12, <1>13 DEF Next, Handle

LEMMA UnansweredStep ==
    ASSUME Inv, [Next]_vars
    PROVE  Unanswered'
<1> USE FirstAwaitFact DEF Inv, TypeOK, Unanswered, Goto, Awaiting
<1>1. ASSUME NEW q \in Req, Begin(q) PROVE Unanswered'
  BY <1>1 DEF Begin, versionVars
<1>2. ASSUME NEW q \in Req, CacheGet(q) PROVE Unanswered'
  BY <1>2 DEF CacheGet, versionVars
<1>3. ASSUME NEW q \in Req, Find(q) PROVE Unanswered'
  BY <1>3 DEF Find, versionVars
<1>4. ASSUME NEW q \in Req, CacheFill(q) PROVE Unanswered'
  BY <1>4 DEF CacheFill, versionVars
<1>5. ASSUME NEW q \in Req, UpdateProfile(q) PROVE Unanswered'
  BY <1>5 DEF UpdateProfile
<1>6. ASSUME NEW q \in Req, CacheProfile(q) PROVE Unanswered'
  BY <1>6 DEF CacheProfile, versionVars
<1>7. ASSUME NEW q \in Req, UpdatePhotos(q) PROVE Unanswered'
  BY <1>7 DEF UpdatePhotos
<1>8. ASSUME NEW q \in Req, DeleteAccount(q) PROVE Unanswered'
  BY <1>8 DEF DeleteAccount, versionVars
<1>9. ASSUME NEW q \in Req, Fail(q) PROVE Unanswered'
  BY <1>9 DEF Fail, Awaiting, versionVars
<1>10. ASSUME NEW q \in Req, FillFails(q) PROVE Unanswered'
  BY <1>10 DEF FillFails, versionVars
<1>11. CASE Crash
  BY <1>11 DEF Crash, versionVars
<1>12. CASE CacheLost
  BY <1>12 DEF CacheLost, handlerVars, versionVars
<1>13. CASE UNCHANGED vars
  BY <1>13 DEF vars, handlerVars, versionVars
<1> HIDE DEF Inv, TypeOK, Unanswered, Goto, Awaiting
<1> QED
  BY <1>1, <1>2, <1>3, <1>4, <1>5, <1>6, <1>7, <1>8, <1>9, <1>10, <1>11, <1>12, <1>13 DEF Next, Handle

LEMMA NextInv == Inv /\ [Next]_vars => Inv'
  BY TypeStep, VersionsStep, CarriedStep, UnansweredStep DEF Inv

LEMMA Invariance == Spec => []Inv
  BY InitInv, NextInv, PTL DEF Spec

-----------------------------------------------------------------------------
(* UpdateSticks.  Once nobody carries an older copy, nobody ever will: who  *)
(* reads the document reads an edit at least as new.                       *)
NoOlder(u) == \A s \in Req : ~HoldsOlder(s, u)

Sticking(u) ==
    /\ copy[u] \in Profile
    /\ \/ pc[u] = "failed"
       \/ pc[u] = "cacheSet" /\ NoOlder(u)
       \/ pc[u] = "done" /\ NoOlder(u) /\ AsNewAs(cache, u)

Stuck(u, r) ==
    /\ copy[u] \in Profile
    /\ pc[u] = "done" /\ NoOlder(u) /\ AsNewAs(cache, u)
    /\ AsNewAs(answer[r], u)

(* A handler past its write keeps its copy. *)
KeepsCopy(u) ==
    /\ copy'[u] = copy[u]
    /\ pc[u] = "done" => pc'[u] = "done"
    /\ pc[u] = "failed" => pc'[u] = "failed"
    /\ pc[u] = "cacheSet" => pc'[u] \in {"cacheSet", "failed", "done"}

LEMMA CopyStep ==
    ASSUME Inv, NEW u \in Req, pc[u] \in {"cacheSet", "done", "failed"}, [Next]_vars
    PROVE  KeepsCopy(u)
<1> USE DEF Inv, TypeOK, Goto, Awaiting, KeepsCopy
<1>1. ASSUME NEW q \in Req, Begin(q) PROVE KeepsCopy(u)
  BY <1>1 DEF Begin, versionVars
<1>2. ASSUME NEW q \in Req, CacheGet(q) PROVE KeepsCopy(u)
  BY <1>2 DEF CacheGet, versionVars
<1>3. ASSUME NEW q \in Req, Find(q) PROVE KeepsCopy(u)
  BY <1>3 DEF Find, versionVars
<1>4. ASSUME NEW q \in Req, CacheFill(q) PROVE KeepsCopy(u)
  BY <1>4 DEF CacheFill, versionVars
<1>5. ASSUME NEW q \in Req, UpdateProfile(q) PROVE KeepsCopy(u)
  BY <1>5 DEF UpdateProfile
<1>6. ASSUME NEW q \in Req, CacheProfile(q) PROVE KeepsCopy(u)
  BY <1>6 DEF CacheProfile, versionVars
<1>7. ASSUME NEW q \in Req, UpdatePhotos(q) PROVE KeepsCopy(u)
  BY <1>7 DEF UpdatePhotos
<1>8. ASSUME NEW q \in Req, DeleteAccount(q) PROVE KeepsCopy(u)
  BY <1>8 DEF DeleteAccount, versionVars
<1>9. ASSUME NEW q \in Req, Fail(q) PROVE KeepsCopy(u)
  BY <1>9 DEF Fail, Awaiting, versionVars
<1>10. ASSUME NEW q \in Req, FillFails(q) PROVE KeepsCopy(u)
  BY <1>10 DEF FillFails, versionVars
<1>11. CASE Crash
  BY <1>11 DEF Crash, versionVars
<1>12. CASE CacheLost
  BY <1>12 DEF CacheLost, handlerVars, versionVars
<1>13. CASE UNCHANGED vars
  BY <1>13 DEF vars, handlerVars, versionVars
<1> HIDE DEF Inv, TypeOK, Goto, Awaiting, KeepsCopy
<1> QED
  BY <1>1, <1>2, <1>3, <1>4, <1>5, <1>6, <1>7, <1>8, <1>9, <1>10, <1>11, <1>12, <1>13 DEF Next, Handle

LEMMA NoOlderStep ==
    ASSUME Inv, NEW u \in Req, copy[u] \in Profile, pc[u] \in {"cacheSet", "done"}, NoOlder(u), [Next]_vars
    PROVE  NoOlder(u)'
<1> USE NoneFact, WriteFact, FirstAwaitFact, CopyStep DEF Inv, TypeOK, Versions, NoOlder, HoldsOlder, Goto, Awaiting, User, Profile
<1>1. ASSUME NEW q \in Req, Begin(q) PROVE NoOlder(u)'
  BY <1>1 DEF Begin, versionVars
<1>2. ASSUME NEW q \in Req, CacheGet(q) PROVE NoOlder(u)'
  BY <1>2 DEF CacheGet, versionVars
<1>3. ASSUME NEW q \in Req, Find(q) PROVE NoOlder(u)'
  BY <1>3 DEF Find, versionVars
<1>4. ASSUME NEW q \in Req, CacheFill(q) PROVE NoOlder(u)'
  BY <1>4 DEF CacheFill, versionVars
<1>5. ASSUME NEW q \in Req, UpdateProfile(q) PROVE NoOlder(u)'
  BY <1>5 DEF UpdateProfile
<1>6. ASSUME NEW q \in Req, CacheProfile(q) PROVE NoOlder(u)'
  BY <1>6 DEF CacheProfile, versionVars
<1>7. ASSUME NEW q \in Req, UpdatePhotos(q) PROVE NoOlder(u)'
  BY <1>7 DEF UpdatePhotos
<1>8. ASSUME NEW q \in Req, DeleteAccount(q) PROVE NoOlder(u)'
  BY <1>8 DEF DeleteAccount, versionVars
<1>9. ASSUME NEW q \in Req, Fail(q) PROVE NoOlder(u)'
  BY <1>9 DEF Fail, Awaiting, versionVars
<1>10. ASSUME NEW q \in Req, FillFails(q) PROVE NoOlder(u)'
  BY <1>10 DEF FillFails, versionVars
<1>11. CASE Crash
  BY <1>11 DEF Crash, versionVars
<1>12. CASE CacheLost
  BY <1>12 DEF CacheLost, handlerVars, versionVars
<1>13. CASE UNCHANGED vars
  BY <1>13 DEF vars, handlerVars, versionVars
<1> HIDE DEF Inv, TypeOK, Versions, NoOlder, HoldsOlder, Goto, Awaiting, User, Profile
<1> QED
  BY <1>1, <1>2, <1>3, <1>4, <1>5, <1>6, <1>7, <1>8, <1>9, <1>10, <1>11, <1>12, <1>13 DEF Next, Handle

LEMMA CacheStep ==
    ASSUME Inv, NEW u \in Req, copy[u] \in Profile, pc[u] \in {"cacheSet", "done"}, NoOlder(u), pc[u] = "done", AsNewAs(cache, u), [Next]_vars
    PROVE  AsNewAs(cache', u)
<1> USE NoneFact, WriteFact DEF Inv, TypeOK, Versions, Carried, NoOlder, HoldsOlder, AsNewAs, Goto, User, Profile
<1>1. ASSUME NEW q \in Req, Begin(q) PROVE AsNewAs(cache', u)
  BY <1>1 DEF Begin, versionVars
<1>2. ASSUME NEW q \in Req, CacheGet(q) PROVE AsNewAs(cache', u)
  BY <1>2 DEF CacheGet, versionVars
<1>3. ASSUME NEW q \in Req, Find(q) PROVE AsNewAs(cache', u)
  BY <1>3 DEF Find, versionVars
<1>4. ASSUME NEW q \in Req, CacheFill(q) PROVE AsNewAs(cache', u)
  BY <1>4 DEF CacheFill, versionVars
<1>5. ASSUME NEW q \in Req, UpdateProfile(q) PROVE AsNewAs(cache', u)
  BY <1>5 DEF UpdateProfile
<1>6. ASSUME NEW q \in Req, CacheProfile(q) PROVE AsNewAs(cache', u)
  BY <1>6 DEF CacheProfile, versionVars
<1>7. ASSUME NEW q \in Req, UpdatePhotos(q) PROVE AsNewAs(cache', u)
  BY <1>7 DEF UpdatePhotos
<1>8. ASSUME NEW q \in Req, DeleteAccount(q) PROVE AsNewAs(cache', u)
  BY <1>8 DEF DeleteAccount, versionVars
<1>9. ASSUME NEW q \in Req, Fail(q) PROVE AsNewAs(cache', u)
  BY <1>9 DEF Fail, Awaiting, versionVars
<1>10. ASSUME NEW q \in Req, FillFails(q) PROVE AsNewAs(cache', u)
  BY <1>10 DEF FillFails, versionVars
<1>11. CASE Crash
  BY <1>11 DEF Crash, versionVars
<1>12. CASE CacheLost
  BY <1>12 DEF CacheLost, handlerVars, versionVars
<1>13. CASE UNCHANGED vars
  BY <1>13 DEF vars, handlerVars, versionVars
<1> HIDE DEF Inv, TypeOK, Versions, Carried, NoOlder, HoldsOlder, AsNewAs, Goto, User, Profile
<1> QED
  BY <1>1, <1>2, <1>3, <1>4, <1>5, <1>6, <1>7, <1>8, <1>9, <1>10, <1>11, <1>12, <1>13 DEF Next, Handle

LEMMA ArrivalStep ==
    ASSUME Inv, NEW u \in Req, copy[u] \in Profile, pc[u] = "cacheSet", NoOlder(u), [Next]_vars
    PROVE  pc'[u] = "done" => AsNewAs(cache', u)
<1> USE NoneFact, WriteFact DEF Inv, TypeOK, Versions, Carried, NoOlder, HoldsOlder, AsNewAs, Goto, Awaiting, User, Profile
<1>1. ASSUME NEW q \in Req, Begin(q) PROVE pc'[u] = "done" => AsNewAs(cache', u)
  BY <1>1 DEF Begin, versionVars
<1>2. ASSUME NEW q \in Req, CacheGet(q) PROVE pc'[u] = "done" => AsNewAs(cache', u)
  BY <1>2 DEF CacheGet, versionVars
<1>3. ASSUME NEW q \in Req, Find(q) PROVE pc'[u] = "done" => AsNewAs(cache', u)
  BY <1>3 DEF Find, versionVars
<1>4. ASSUME NEW q \in Req, CacheFill(q) PROVE pc'[u] = "done" => AsNewAs(cache', u)
  BY <1>4 DEF CacheFill, versionVars
<1>5. ASSUME NEW q \in Req, UpdateProfile(q) PROVE pc'[u] = "done" => AsNewAs(cache', u)
  BY <1>5 DEF UpdateProfile
<1>6. ASSUME NEW q \in Req, CacheProfile(q) PROVE pc'[u] = "done" => AsNewAs(cache', u)
  BY <1>6 DEF CacheProfile, versionVars
<1>7. ASSUME NEW q \in Req, UpdatePhotos(q) PROVE pc'[u] = "done" => AsNewAs(cache', u)
  BY <1>7 DEF UpdatePhotos
<1>8. ASSUME NEW q \in Req, DeleteAccount(q) PROVE pc'[u] = "done" => AsNewAs(cache', u)
  BY <1>8 DEF DeleteAccount, versionVars
<1>9. ASSUME NEW q \in Req, Fail(q) PROVE pc'[u] = "done" => AsNewAs(cache', u)
  BY <1>9 DEF Fail, Awaiting, versionVars
<1>10. ASSUME NEW q \in Req, FillFails(q) PROVE pc'[u] = "done" => AsNewAs(cache', u)
  BY <1>10 DEF FillFails, versionVars
<1>11. CASE Crash
  BY <1>11 DEF Crash, versionVars
<1>12. CASE CacheLost
  BY <1>12 DEF CacheLost, handlerVars, versionVars
<1>13. CASE UNCHANGED vars
  BY <1>13 DEF vars, handlerVars, versionVars
<1> HIDE DEF Inv, TypeOK, Versions, Carried, NoOlder, HoldsOlder, AsNewAs, Goto, Awaiting, User, Profile
<1> QED
  BY <1>1, <1>2, <1>3, <1>4, <1>5, <1>6, <1>7, <1>8, <1>9, <1>10, <1>11, <1>12, <1>13 DEF Next, Handle

LEMMA AnswerStep ==
    ASSUME Inv, NEW u \in Req, NEW r \in Req, copy[u] \in Profile, AsNewAs(cache, u), AsNewAs(answer[r], u), [Next]_vars
    PROVE  AsNewAs(answer'[r], u)
<1> USE NoneFact, WriteFact DEF Inv, TypeOK, Versions, AsNewAs, Goto, User, Profile
<1>1. ASSUME NEW q \in Req, Begin(q) PROVE AsNewAs(answer'[r], u)
  BY <1>1 DEF Begin, versionVars
<1>2. ASSUME NEW q \in Req, CacheGet(q) PROVE AsNewAs(answer'[r], u)
  BY <1>2 DEF CacheGet, versionVars
<1>3. ASSUME NEW q \in Req, Find(q) PROVE AsNewAs(answer'[r], u)
  BY <1>3 DEF Find, versionVars
<1>4. ASSUME NEW q \in Req, CacheFill(q) PROVE AsNewAs(answer'[r], u)
  BY <1>4 DEF CacheFill, versionVars
<1>5. ASSUME NEW q \in Req, UpdateProfile(q) PROVE AsNewAs(answer'[r], u)
  BY <1>5 DEF UpdateProfile
<1>6. ASSUME NEW q \in Req, CacheProfile(q) PROVE AsNewAs(answer'[r], u)
  BY <1>6 DEF CacheProfile, versionVars
<1>7. ASSUME NEW q \in Req, UpdatePhotos(q) PROVE AsNewAs(answer'[r], u)
  BY <1>7 DEF UpdatePhotos
<1>8. ASSUME NEW q \in Req, DeleteAccount(q) PROVE AsNewAs(answer'[r], u)
  BY <1>8 DEF DeleteAccount, versionVars
<1>9. ASSUME NEW q \in Req, Fail(q) PROVE AsNewAs(answer'[r], u)
  BY <1>9 DEF Fail, Awaiting, versionVars
<1>10. ASSUME NEW q \in Req, FillFails(q) PROVE AsNewAs(answer'[r], u)
  BY <1>10 DEF FillFails, versionVars
<1>11. CASE Crash
  BY <1>11 DEF Crash, versionVars
<1>12. CASE CacheLost
  BY <1>12 DEF CacheLost, handlerVars, versionVars
<1>13. CASE UNCHANGED vars
  BY <1>13 DEF vars, handlerVars, versionVars
<1> HIDE DEF Inv, TypeOK, Versions, AsNewAs, Goto, User, Profile
<1> QED
  BY <1>1, <1>2, <1>3, <1>4, <1>5, <1>6, <1>7, <1>8, <1>9, <1>10, <1>11, <1>12, <1>13 DEF Next, Handle

LEMMA StickingStep ==
    ASSUME Inv, NEW u \in Req, Sticking(u), [Next]_vars
    PROVE  Sticking(u)'
<1>1. CASE pc[u] = "failed"
  <2>1. copy'[u] = copy[u] /\ pc'[u] = "failed"
    BY <1>1, CopyStep DEF KeepsCopy
  <2> QED
    BY <2>1 DEF Sticking
<1>2. CASE pc[u] = "cacheSet" /\ NoOlder(u)
  <2>1. /\ copy'[u] = copy[u]
        /\ pc'[u] \in {"cacheSet", "failed", "done"}
    BY <1>2, CopyStep DEF KeepsCopy
  <2>2. copy[u] \in Profile
    BY DEF Sticking
  <2>3. NoOlder(u)'
    BY <1>2, <2>2, NoOlderStep
  <2>4. pc'[u] = "done" => AsNewAs(cache', u)
    BY <1>2, <2>2, ArrivalStep
  <2> QED
    BY <2>1, <2>2, <2>3, <2>4 DEF Sticking, AsNewAs
<1>3. CASE pc[u] = "done" /\ NoOlder(u) /\ AsNewAs(cache, u)
  <2>1. copy'[u] = copy[u] /\ pc'[u] = "done"
    BY <1>3, CopyStep DEF KeepsCopy
  <2>2. copy[u] \in Profile
    BY DEF Sticking
  <2>3. NoOlder(u)'
    BY <1>3, <2>2, NoOlderStep
  <2>4. AsNewAs(cache', u)
    BY <1>3, <2>2, CacheStep
  <2> QED
    BY <2>1, <2>2, <2>3, <2>4 DEF Sticking, AsNewAs
<1> QED
  BY <1>1, <1>2, <1>3 DEF Sticking

LEMMA StuckStep ==
    ASSUME Inv, NEW u \in Req, NEW r \in Req, Stuck(u, r), [Next]_vars
    PROVE  Stuck(u, r)'
<1>1. copy'[u] = copy[u] /\ pc'[u] = "done"
  BY CopyStep DEF KeepsCopy, Stuck
<1>2. NoOlder(u)'
  BY NoOlderStep DEF Stuck
<1>3. AsNewAs(cache', u)
  BY CacheStep DEF Stuck
<1>4. AsNewAs(answer'[r], u)
  BY AnswerStep DEF Stuck
<1> QED
  BY <1>1, <1>2, <1>3, <1>4 DEF Stuck, AsNewAs

(* The documents and their copies are of the kinds the module names,       *)
(* whatever the requests are.                                              *)
THEOREM TypeCorrect == Spec => []TypeOK
<1>1. Inv => TypeOK
  BY DEF Inv
<1> QED
  BY <1>1, Invariance, PTL

(* Once updateProfile has stored an update that nobody can overtake, no    *)
(* request that begins after it is answered with an older profile, for any *)
(* number of requests, with every failure.                                 *)
THEOREM Sticks == Spec => UpdateSticks
<1> SUFFICES ASSUME NEW u \in Req, NEW r \in Req
             PROVE  Spec => []((pc[u] = "cacheSet" /\ \A s \in Req : ~HoldsOlder(s, u)) =>
                                 [](pc[u] = "done" /\ pc[r] = "idle" => []AsNewAs(answer[r], u)))
  BY DEF UpdateSticks
<1>1. Inv /\ pc[u] = "cacheSet" /\ (\A s \in Req : ~HoldsOlder(s, u)) => Sticking(u)
  BY DEF Inv, Carried, Sticking, NoOlder
<1>2. Inv /\ Sticking(u) /\ [Next]_vars => Sticking(u)'
  BY StickingStep
<1>3. Inv /\ Sticking(u) /\ pc[u] = "done" /\ pc[r] = "idle" => Stuck(u, r)
  BY DEF Inv, Unanswered, Sticking, Stuck, AsNewAs
<1>4. Inv /\ Stuck(u, r) /\ [Next]_vars => Stuck(u, r)'
  BY StuckStep
<1>5. Stuck(u, r) => AsNewAs(answer[r], u)
  BY DEF Stuck
<1> QED
  BY <1>1, <1>2, <1>3, <1>4, <1>5, Invariance, PTL DEF Spec

-----------------------------------------------------------------------------
(* DeletedStaysDeleted.  With no document, the only copies are of profiles *)
(* being updated, and those are no users.                                  *)
Unseen(r) == Forgotten /\ answer[r] \notin User

LEMMA UnseenStep ==
    ASSUME Inv, NEW r \in Req, Unseen(r), [Next]_vars
    PROVE  Unseen(r)'
<1> USE NoneFact, ShapeFact, FirstAwaitFact DEF Inv, TypeOK, Carried, Unseen, Forgotten, Goto, Awaiting, SetProfile, SetPhotos
<1>1. ASSUME NEW q \in Req, Begin(q) PROVE Unseen(r)'
  BY <1>1 DEF Begin, versionVars
<1>2. ASSUME NEW q \in Req, CacheGet(q) PROVE Unseen(r)'
  BY <1>2 DEF CacheGet, versionVars
<1>3. ASSUME NEW q \in Req, Find(q) PROVE Unseen(r)'
  BY <1>3 DEF Find, versionVars
<1>4. ASSUME NEW q \in Req, CacheFill(q) PROVE Unseen(r)'
  BY <1>4 DEF CacheFill, versionVars
<1>5. ASSUME NEW q \in Req, UpdateProfile(q) PROVE Unseen(r)'
  BY <1>5 DEF UpdateProfile
<1>6. ASSUME NEW q \in Req, CacheProfile(q) PROVE Unseen(r)'
  BY <1>6 DEF CacheProfile, versionVars
<1>7. ASSUME NEW q \in Req, UpdatePhotos(q) PROVE Unseen(r)'
  BY <1>7 DEF UpdatePhotos
<1>8. ASSUME NEW q \in Req, DeleteAccount(q) PROVE Unseen(r)'
  BY <1>8 DEF DeleteAccount, versionVars
<1>9. ASSUME NEW q \in Req, Fail(q) PROVE Unseen(r)'
  BY <1>9 DEF Fail, Awaiting, versionVars
<1>10. ASSUME NEW q \in Req, FillFails(q) PROVE Unseen(r)'
  BY <1>10 DEF FillFails, versionVars
<1>11. CASE Crash
  BY <1>11 DEF Crash, versionVars
<1>12. CASE CacheLost
  BY <1>12 DEF CacheLost, handlerVars, versionVars
<1>13. CASE UNCHANGED vars
  BY <1>13 DEF vars, handlerVars, versionVars
<1> HIDE DEF Inv, TypeOK, Carried, Unseen, Forgotten, Goto, Awaiting, SetProfile, SetPhotos
<1> QED
  BY <1>1, <1>2, <1>3, <1>4, <1>5, <1>6, <1>7, <1>8, <1>9, <1>10, <1>11, <1>12, <1>13 DEF Next, Handle

(* After a deletion, once no copy of the document is left, no later        *)
(* request is answered with a user, for any number of requests, with every *)
(* failure.                                                                *)
THEOREM StaysDeleted == Spec => DeletedStaysDeleted
<1> SUFFICES ASSUME NEW r \in Req
             PROVE  Spec => [](Forgotten /\ pc[r] = "idle" => [](answer[r] \notin User))
  BY DEF DeletedStaysDeleted
<1>1. Inv /\ Forgotten /\ pc[r] = "idle" => Unseen(r)
  BY NoneFact DEF Inv, Unanswered, Unseen
<1>2. Inv /\ Unseen(r) /\ [Next]_vars => Unseen(r)'
  BY UnseenStep
<1>3. Unseen(r) => answer[r] \notin User
  BY DEF Unseen
<1> QED
  BY <1>1, <1>2, <1>3, Invariance, PTL DEF Spec

-----------------------------------------------------------------------------
(* PhotosStick.  The document has the photos of the last upload, and once  *)
(* no copy has older ones, none ever has.                                  *)
LastUpload == doc # None => doc.photos = uploads

LEMMA LastUploadStep ==
    ASSUME Inv, LastUpload, [Next]_vars
    PROVE  LastUpload'
<1> USE NoneFact, FirstAwaitFact DEF Inv, TypeOK, LastUpload, Goto, Awaiting, SetProfile, SetPhotos, User
<1>1. ASSUME NEW q \in Req, Begin(q) PROVE LastUpload'
  BY <1>1 DEF Begin, versionVars
<1>2. ASSUME NEW q \in Req, CacheGet(q) PROVE LastUpload'
  BY <1>2 DEF CacheGet, versionVars
<1>3. ASSUME NEW q \in Req, Find(q) PROVE LastUpload'
  BY <1>3 DEF Find, versionVars
<1>4. ASSUME NEW q \in Req, CacheFill(q) PROVE LastUpload'
  BY <1>4 DEF CacheFill, versionVars
<1>5. ASSUME NEW q \in Req, UpdateProfile(q) PROVE LastUpload'
  BY <1>5 DEF UpdateProfile
<1>6. ASSUME NEW q \in Req, CacheProfile(q) PROVE LastUpload'
  BY <1>6 DEF CacheProfile, versionVars
<1>7. ASSUME NEW q \in Req, UpdatePhotos(q) PROVE LastUpload'
  BY <1>7 DEF UpdatePhotos
<1>8. ASSUME NEW q \in Req, DeleteAccount(q) PROVE LastUpload'
  BY <1>8 DEF DeleteAccount, versionVars
<1>9. ASSUME NEW q \in Req, Fail(q) PROVE LastUpload'
  BY <1>9 DEF Fail, Awaiting, versionVars
<1>10. ASSUME NEW q \in Req, FillFails(q) PROVE LastUpload'
  BY <1>10 DEF FillFails, versionVars
<1>11. CASE Crash
  BY <1>11 DEF Crash, versionVars
<1>12. CASE CacheLost
  BY <1>12 DEF CacheLost, handlerVars, versionVars
<1>13. CASE UNCHANGED vars
  BY <1>13 DEF vars, handlerVars, versionVars
<1> HIDE DEF Inv, TypeOK, LastUpload, Goto, Awaiting, SetProfile, SetPhotos, User
<1> QED
  BY <1>1, <1>2, <1>3, <1>4, <1>5, <1>6, <1>7, <1>8, <1>9, <1>10, <1>11, <1>12, <1>13 DEF Next, Handle

LEMMA UploadInvariance == Spec => [](Inv /\ LastUpload)
<1>1. Init => LastUpload
  BY DEF Init, LastUpload
<1> QED
  BY <1>1, LastUploadStep, Invariance, PTL DEF Spec

NotBefore(value, v) == value \in User => value.photos >= v
Renewed(r, v) ==
    /\ uploads >= v
    /\ NotBefore(cache, v)
    /\ \A s \in Req : pc[s] = "floating" => NotBefore(copy[s], v)
    /\ NotBefore(answer[r], v)

LEMMA RenewedStep ==
    ASSUME Inv, LastUpload, NEW r \in Req, NEW v \in Nat, Renewed(r, v), [Next]_vars
    PROVE  Renewed(r, v)'
<1> USE NoneFact, ShapeFact, FirstAwaitFact
    DEF Inv, TypeOK, Carried, LastUpload, Renewed, NotBefore, Goto, Awaiting, SetProfile, SetPhotos
<1>1. ASSUME NEW q \in Req, Begin(q) PROVE Renewed(r, v)'
  BY <1>1 DEF Begin, versionVars
<1>2. ASSUME NEW q \in Req, CacheGet(q) PROVE Renewed(r, v)'
  BY <1>2 DEF CacheGet, versionVars
<1>3. ASSUME NEW q \in Req, Find(q) PROVE Renewed(r, v)'
  BY <1>3 DEF Find, versionVars
<1>4. ASSUME NEW q \in Req, CacheFill(q) PROVE Renewed(r, v)'
  BY <1>4 DEF CacheFill, versionVars
<1>5. ASSUME NEW q \in Req, UpdateProfile(q) PROVE Renewed(r, v)'
  BY <1>5 DEF UpdateProfile
<1>6. ASSUME NEW q \in Req, CacheProfile(q) PROVE Renewed(r, v)'
  BY <1>6 DEF CacheProfile, versionVars
<1>7. ASSUME NEW q \in Req, UpdatePhotos(q) PROVE Renewed(r, v)'
  BY <1>7 DEF UpdatePhotos
<1>8. ASSUME NEW q \in Req, DeleteAccount(q) PROVE Renewed(r, v)'
  BY <1>8 DEF DeleteAccount, versionVars
<1>9. ASSUME NEW q \in Req, Fail(q) PROVE Renewed(r, v)'
  BY <1>9 DEF Fail, Awaiting, versionVars
<1>10. ASSUME NEW q \in Req, FillFails(q) PROVE Renewed(r, v)'
  BY <1>10 DEF FillFails, versionVars
<1>11. CASE Crash
  BY <1>11 DEF Crash, versionVars
<1>12. CASE CacheLost
  BY <1>12 DEF CacheLost, handlerVars, versionVars
<1>13. CASE UNCHANGED vars
  BY <1>13 DEF vars, handlerVars, versionVars
<1> HIDE DEF Inv, TypeOK, Carried, LastUpload, Renewed, NotBefore, Goto, Awaiting, SetProfile, SetPhotos
<1> QED
  BY <1>1, <1>2, <1>3, <1>4, <1>5, <1>6, <1>7, <1>8, <1>9, <1>10, <1>11, <1>12, <1>13 DEF Next, Handle

(* The same of the photos before any upload, the v-th: from when no copy   *)
(* of them is left, no later request is answered with them.                *)
LEMMA Renewal ==
    ASSUME NEW r \in Req, NEW v \in Nat
    PROVE  Spec => OldPhotosGone(r, v)
<1>1. Inv /\ Uncopied /\ uploads >= v /\ pc[r] = "idle" => Renewed(r, v)
  BY NoneFact DEF Inv, Unanswered, Uncopied, Renewed, NotBefore
<1>2. Inv /\ LastUpload /\ Renewed(r, v) /\ [Next]_vars => Renewed(r, v)'
  BY RenewedStep
<1>3. Renewed(r, v) => (answer[r] \in User => answer[r].photos >= v)
  BY DEF Renewed, NotBefore
<1> QED
  BY <1>1, <1>2, <1>3, UploadInvariance, PTL DEF Spec, OldPhotosGone

(* After an upload, once no copy of the user is left from before it, no    *)
(* later request is answered with the old photos, for any number of        *)
(* requests, with every failure.                                           *)
THEOREM PhotosAreSeen == Spec => PhotosStick
<1>1. \A r \in Req : Spec => OldPhotosGone(r, 1)
  BY Renewal
<1> QED
  BY <1>1 DEF PhotosStick
(* The same of every upload there is: whichever was the last when no copy  *)
(* was left, nobody is shown the photos of one before it.                  *)
THEOREM EveryUploadIsSeen == Spec => \A r \in Req : \A v \in Nat : OldPhotosGone(r, v)
  BY Renewal
=============================================================================
