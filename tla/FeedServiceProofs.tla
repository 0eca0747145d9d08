-------------------------- MODULE FeedServiceProofs --------------------------
(***************************************************************************)
(* The safety properties of FeedService, proved for every number of        *)
(* candidates and requests and all limits with QueryLimit <= FeedLimit.    *)
(* The residue bound is inductive once pages are known to be short; the    *)
(* two facts about times to live are inductive once it is known that an    *)
(* absent key has none.                                                    *)
(***************************************************************************)
EXTENDS FeedService, FiniteSetTheorems, SequenceTheorems, TLAPS

(* No page in a handler is longer than the limit of the query or the cache. *)
ShortPages == \A r \in FeedReq : pc[r] = "rPush" => Len(ids[r]) <= FeedLimit

AbsentKeysHaveNoTTL == (feed = <<>> => ~feedTTL) /\ (left = {} => ~leftTTL)

Inv ==
    /\ TypeOK
    /\ ShortPages
    /\ AbsentKeysHaveNoTTL
    /\ FeedResidueBound
    /\ ImmortalFeedHasCulprit
    /\ ImmortalLeftHasCulprit

-----------------------------------------------------------------------------
(* Facts about pages. *)

LEMMA AnswerIsPage ==
    ASSUME TypeOK, NEW x, NEW s \in Answers(x)
    PROVE  s \in Seq(Candidate) /\ Len(s) <= QueryLimit
<1>1. PICK n \in 0..QueryLimit : s \in [1..n -> users \ x]
  BY DEF Answers
<1>2. s \in [1..n -> Candidate] /\ n \in Nat
  BY <1>1, LimitAssumption DEF TypeOK
<1>3. s \in Seq(Candidate) /\ Len(s) = n
  BY <1>2
<1>4. QED
  BY <1>1, <1>3, LimitAssumption

LEMMA FirstPageType ==
    ASSUME NEW s \in Seq(Candidate)
    PROVE  /\ FirstPage(s) \in Seq(Candidate)
           /\ Range(FirstPage(s)) \subseteq Range(s) /\ Range(s) \subseteq Candidate
BY LimitAssumption DEF FirstPage, Range

(* A trim takes a page, or all there is. *)
LEMMA TrimLength ==
    ASSUME NEW s \in Seq(Candidate)
    PROVE  /\ SubSeq(s, FeedLimit + 1, Len(s)) \in Seq(Candidate)
           /\ Len(SubSeq(s, FeedLimit + 1, Len(s)))
                = IF Len(s) > FeedLimit THEN Len(s) - FeedLimit ELSE 0
BY LimitAssumption

-----------------------------------------------------------------------------
(* Types. *)

LEMMA TypeInit == Init => TypeOK
<1>. SUFFICES ASSUME Init PROVE TypeOK
  OBVIOUS
<1>1. <<>> \in Seq(Candidate)
  OBVIOUS
<1>2. feed \in Seq(Candidate) /\ ids \in [FeedReq -> Seq(Candidate)]
  BY <1>1 DEF Init
<1>3. QED
  BY <1>2 DEF Init, TypeOK, LeftPC, FeedPC

LEMMA TypeStep == TypeOK /\ [Next]_vars => TypeOK'
<1>. SUFFICES ASSUME TypeOK, [Next]_vars PROVE TypeOK'
  OBVIOUS
<1>. USE DEF TypeOK, leftVars, feedVars, reqVars
<1>1. ASSUME NEW c \in Candidate,
             SwipeLeft(c) \/ SAdd(c) \/ LeftExpire(c) \/ LeftFails(c) \/ DeleteAccount(c)
      PROVE  TypeOK'
  BY <1>1 DEF SwipeLeft, SAdd, LeftExpire, LeftFails, DeleteAccount, LeftPC
<1>2. ASSUME NEW r \in FeedReq, GetFeed(r)
      PROVE  TypeOK'
  BY <1>2 DEF GetFeed, Goto, FeedPC
<1>3. ASSUME NEW r \in FeedReq, LRange(r)
      PROVE  TypeOK'
  <2>1. FirstPage(feed) \in Seq(Candidate)
    BY FirstPageType
  <2>2. pc' \in [FeedReq -> FeedPC] /\ ids' \in [FeedReq -> Seq(Candidate)]
    BY <1>3, <2>1 DEF LRange, Goto, FeedPC
  <2>3. QED
    BY <1>3, <2>2 DEF LRange
<1>4. ASSUME NEW r \in FeedReq, TrimHit(r)
      PROVE  TypeOK'
  BY <1>4, TrimLength DEF TrimHit, TrimPage, Goto, FeedPC
<1>5. ASSUME NEW r \in FeedReq, FindUsers(r)
      PROVE  TypeOK'
  BY <1>5 DEF FindUsers, Goto, FeedPC
<1>6. ASSUME NEW r \in FeedReq, SMembers(r)
      PROVE  TypeOK'
  BY <1>6 DEF SMembers, Goto, FeedPC
<1>7. ASSUME NEW r \in FeedReq, Find(r)
      PROVE  TypeOK'
  BY <1>7, AnswerIsPage DEF Find, Goto, FeedPC
<1>8. ASSUME NEW r \in FeedReq, RPush(r)
      PROVE  TypeOK'
  BY <1>8 DEF RPush, Goto, FeedPC
<1>9. ASSUME NEW r \in FeedReq, FeedExpire(r)
      PROVE  TypeOK'
  BY <1>9 DEF FeedExpire, Goto, FeedPC
<1>10. ASSUME NEW r \in FeedReq, TrimMiss(r)
       PROVE  TypeOK'
  <2>1. feed' \in Seq(Candidate) /\ feedTTL' \in BOOLEAN
    BY <1>10, TrimLength DEF TrimMiss, TrimPage
  <2>2. Range(FirstPage(ids[r])) \subseteq Candidate
    BY FirstPageType
  <2>3. QED
    BY <1>10, <2>1, <2>2 DEF TrimMiss, Goto, FeedPC
<1>11. ASSUME NEW r \in FeedReq, Fail(r)
       PROVE  TypeOK'
  BY <1>11 DEF Fail
<1>12. CASE LeftKeyExpires \/ UNCHANGED vars
  BY <1>12 DEF LeftKeyExpires, vars
<1>13. CASE FeedKeyExpires
  <2>1. feed' \in Seq(Candidate)
    BY <1>13 DEF FeedKeyExpires
  <2>2. QED
    BY <1>13, <2>1 DEF FeedKeyExpires
<1>. HIDE DEF TypeOK, leftVars, feedVars, reqVars
<1>14. QED
  BY <1>1, <1>2, <1>3, <1>4, <1>5, <1>6, <1>7, <1>8, <1>9, <1>10, <1>11, <1>12, <1>13
     DEF Next, Step

(* Every variable of the feed keeps its type. *)
THEOREM TypeCorrect == Spec => []TypeOK
BY TypeInit, TypeStep, PTL DEF Spec

-----------------------------------------------------------------------------
(* The residue bound. *)

LEMMA UntrimmedIsFinite == IsFiniteSet(Untrimmed)
BY FeedReqAssumption, FS_Subset DEF Untrimmed

(* The feed may lose entries as long as nobody trims, ... *)
LEMMA BoundKept ==
    ASSUME TypeOK, FeedResidueBound, Len(feed') <= Len(feed), Len(feed') \in Nat,
           Untrimmed' = Untrimmed
    PROVE  FeedResidueBound'
<1>1. Cardinality(Untrimmed) \in Nat
  BY UntrimmedIsFinite, FS_CardinalityType
<1>2. FeedLimit * Cardinality(Untrimmed) \in Nat
  BY <1>1, LimitAssumption
<1>3. QED
  BY <1>2 DEF FeedResidueBound, TypeOK

(* ... a push adds a page and a request that owes a trim, ... *)
LEMMA BoundPush ==
    ASSUME TypeOK, FeedResidueBound, NEW r \in FeedReq, r \notin Untrimmed,
           Untrimmed' = Untrimmed \cup {r},
           Len(feed') <= Len(feed) + FeedLimit, Len(feed') \in Nat
    PROVE  FeedResidueBound'
<1>. DEFINE n == Cardinality(Untrimmed)
<1>1. n \in Nat
  BY UntrimmedIsFinite, FS_CardinalityType
<1>2. Cardinality(Untrimmed') = n + 1
  BY UntrimmedIsFinite, FS_AddElement
<1>. HIDE DEF n
<1>3. FeedLimit * (n + 1) = FeedLimit * n + FeedLimit /\ FeedLimit * n \in Nat
  BY <1>1, LimitAssumption
<1>4. Len(feed) <= FeedLimit * n
  BY DEF FeedResidueBound, n
<1>5. QED
  BY <1>2, <1>3, <1>4, LimitAssumption DEF FeedResidueBound, TypeOK

(* ... and a trim takes a page for the request that owed it. *)
LEMMA BoundTrim ==
    ASSUME TypeOK, FeedResidueBound, NEW r \in Untrimmed,
           Untrimmed' = Untrimmed \ {r}, TrimPage
    PROVE  FeedResidueBound'
<1>. DEFINE n == Cardinality(Untrimmed)
<1>1. n \in Nat
  BY UntrimmedIsFinite, FS_CardinalityType
<1>2. Cardinality(Untrimmed') = n - 1
  BY UntrimmedIsFinite, FS_RemoveElement
<1>3. n # 0
  BY UntrimmedIsFinite, FS_EmptySet
<1>. HIDE DEF n
<1>4. FeedLimit * (n - 1) = FeedLimit * n - FeedLimit /\ FeedLimit * (n - 1) \in Nat
  BY <1>1, <1>3, LimitAssumption
<1>5. Len(feed) <= FeedLimit * n
  BY DEF FeedResidueBound, n
<1>6. Len(feed') = IF Len(feed) > FeedLimit THEN Len(feed) - FeedLimit ELSE 0
  BY TrimLength DEF TrimPage, TypeOK
<1>7. QED
  BY <1>1, <1>2, <1>4, <1>5, <1>6, LimitAssumption DEF FeedResidueBound, TypeOK

-----------------------------------------------------------------------------
(* The invariant. *)

LEMMA InvInit == Init => Inv
<1>. SUFFICES ASSUME Init PROVE Inv
  OBVIOUS
<1>1. TypeOK
  BY TypeInit
<1>2. FeedResidueBound
  <2>1. Untrimmed = {}
    BY DEF Init, Untrimmed
  <2>2. Len(feed) = 0 /\ Cardinality(Untrimmed) = 0
    BY <2>1, FS_EmptySet DEF Init
  <2>3. QED
    BY <2>2, LimitAssumption DEF FeedResidueBound
<1>3. QED
  BY <1>1, <1>2 DEF Init, Inv, ShortPages, AbsentKeysHaveNoTTL,
                     ImmortalFeedHasCulprit, ImmortalLeftHasCulprit

(* What the invariant says of the left swipes depends on nothing else. *)
LeftInv == (left = {} => ~leftTTL) /\ ImmortalLeftHasCulprit
FeedInv == /\ ShortPages
           /\ feed = <<>> => ~feedTTL
           /\ FeedResidueBound
           /\ ImmortalFeedHasCulprit

LEMMA InvParts == Inv <=> TypeOK /\ LeftInv /\ FeedInv
BY DEF Inv, LeftInv, FeedInv, AbsentKeysHaveNoTTL

LEMMA LeftStep == TypeOK /\ LeftInv /\ [Next]_vars => LeftInv'
<1>. SUFFICES ASSUME TypeOK, LeftInv, [Next]_vars PROVE LeftInv'
  OBVIOUS
<1>. USE DEF LeftInv, ImmortalLeftHasCulprit
<1>1. ASSUME NEW c \in Candidate, SwipeLeft(c)
      PROVE  LeftInv'
  BY <1>1 DEF SwipeLeft, TypeOK
<1>2. ASSUME NEW c \in Candidate, SAdd(c)
      PROVE  LeftInv'
  BY <1>2 DEF SAdd, TypeOK
<1>3. ASSUME NEW c \in Candidate, LeftExpire(c)
      PROVE  LeftInv'
  BY <1>3 DEF LeftExpire, TypeOK
<1>4. ASSUME NEW c \in Candidate, LeftFails(c)
      PROVE  LeftInv'
  BY <1>4 DEF LeftFails, TypeOK
<1>5. CASE LeftKeyExpires
  BY <1>5 DEF LeftKeyExpires
<1>6. CASE UNCHANGED leftVars
  BY <1>6 DEF leftVars
<1>. HIDE DEF LeftInv, ImmortalLeftHasCulprit
<1>7. QED
  BY <1>1, <1>2, <1>3, <1>4, <1>5, <1>6
     DEF Next, Step, GetFeed, LRange, TrimHit, FindUsers, SMembers, Find, RPush,
         FeedExpire, TrimMiss, Fail, FeedKeyExpires, DeleteAccount, vars, leftVars

(* A handler step that leaves the list alone and starts or ends nothing    *)
(* between push and trim.                                                  *)
LEMMA ListAlone ==
    ASSUME TypeOK, TypeOK', FeedInv, ShortPages', UNCHANGED feedVars,
           \A r \in FeedReq : pc'[r] # pc[r] =>
               {pc[r], pc'[r]} \cap {"expire", "trimMiss"} = {}
    PROVE  FeedInv'
<1>1. Untrimmed' = Untrimmed
  BY DEF Untrimmed
<1>2. FeedResidueBound'
  BY <1>1, BoundKept DEF FeedInv, feedVars, TypeOK
<1>3. ImmortalFeedHasCulprit'
  BY DEF FeedInv, ImmortalFeedHasCulprit, feedVars
<1>4. QED
  BY <1>2, <1>3 DEF FeedInv, feedVars

LEMMA FeedStep == TypeOK /\ FeedInv /\ [Next]_vars => FeedInv'
<1>. SUFFICES ASSUME TypeOK, FeedInv, [Next]_vars PROVE FeedInv'
  OBVIOUS
<1>. TypeOK'
  BY TypeStep
<1>1. ASSUME NEW r \in FeedReq, \/ GetFeed(r) \/ LRange(r) \/ FindUsers(r)
                                \/ SMembers(r) \/ Fail(r)
      PROVE  FeedInv'
  <2>1. /\ UNCHANGED feedVars
        /\ \A s \in FeedReq \ {r} : pc'[s] = pc[s] /\ ids'[s] = ids[s]
        /\ \/ pc'[r] = pc[r] /\ ids'[r] = ids[r]
           \/ {pc[r], pc'[r]} \cap {"rPush", "expire", "trimMiss"} = {}
    BY <1>1 DEF GetFeed, LRange, FindUsers, SMembers, Fail, At, Goto, TypeOK
  <2>2. ShortPages'
    BY <2>1 DEF FeedInv, ShortPages
  <2>3. QED
    BY <2>1, <2>2, ListAlone
<1>2. ASSUME NEW r \in FeedReq, TrimHit(r)
      PROVE  FeedInv'
  <2>1. /\ pc[r] = "trimHit" /\ pc'[r] = "findUsers"
        /\ \A s \in FeedReq \ {r} : pc'[s] = pc[s]
        /\ ids' = ids
    BY <1>2 DEF TrimHit, At, Goto, TypeOK
  <2>2. ShortPages'
    BY <2>1 DEF FeedInv, ShortPages
  <2>3. /\ Len(feed') <= Len(feed) /\ Len(feed') \in Nat
        /\ feed = <<>> => feed' = <<>>
        /\ feedTTL' = (feedTTL /\ feed' # <<>>)
    BY <1>2, TrimLength, LimitAssumption DEF TrimHit, TrimPage, TypeOK
  <2>4. Untrimmed' = Untrimmed
    BY <2>1 DEF Untrimmed
  <2>5. FeedResidueBound'
    BY <2>3, <2>4, BoundKept DEF FeedInv
  <2>6. ImmortalFeedHasCulprit'
    BY <2>1, <2>3 DEF FeedInv, ImmortalFeedHasCulprit
  <2>7. QED
    BY <2>2, <2>3, <2>5, <2>6 DEF FeedInv
<1>3. ASSUME NEW r \in FeedReq, Find(r)
      PROVE  FeedInv'
  <2>1. PICK found \in Answers(excluded[r]) :
            /\ ids' = [ids EXCEPT ![r] = found]
            /\ Goto(r, IF found = <<>> THEN "done" ELSE "rPush")
    BY <1>3 DEF Find
  <2>2. /\ UNCHANGED feedVars
        /\ pc[r] = "find" /\ pc'[r] \in {"done", "rPush"} /\ ids'[r] = found
        /\ \A s \in FeedReq \ {r} : pc'[s] = pc[s] /\ ids'[s] = ids[s]
    BY <1>3, <2>1 DEF Find, At, Goto, TypeOK
  <2>3. Len(found) \in Nat /\ Len(found) <= FeedLimit
    BY AnswerIsPage, LimitAssumption
  <2>4. ShortPages'
    BY <2>2, <2>3 DEF FeedInv, ShortPages
  <2>5. QED
    BY <2>2, <2>4, ListAlone
<1>4. ASSUME NEW r \in FeedReq, RPush(r)
      PROVE  FeedInv'
  <2>1. /\ pc[r] = "rPush" /\ pc'[r] = "expire"
        /\ \A s \in FeedReq \ {r} : pc'[s] = pc[s]
        /\ ids' = ids /\ feedTTL' = feedTTL
        /\ feed' = feed \o ids[r]
    BY <1>4 DEF RPush, At, Goto, TypeOK
  <2>2. ShortPages'
    BY <2>1 DEF FeedInv, ShortPages
  <2>3. r \notin Untrimmed /\ Untrimmed' = Untrimmed \cup {r}
    BY <2>1 DEF Untrimmed
  <2>4. /\ ids[r] \in Seq(Candidate) /\ feed \in Seq(Candidate)
        /\ Len(ids[r]) <= FeedLimit
    BY <2>1 DEF FeedInv, ShortPages, TypeOK
  <2>5. /\ Len(feed') = Len(feed) + Len(ids[r]) /\ Len(feed') \in Nat
        /\ feed' = <<>> => feed = <<>>
    BY <2>1, <2>4
  <2>6. Len(feed') <= Len(feed) + FeedLimit
    BY <2>4, <2>5, LimitAssumption
  <2>7. FeedResidueBound'
    BY <2>3, <2>5, <2>6, BoundPush DEF FeedInv
  <2>8. QED
    BY <2>1, <2>2, <2>5, <2>7 DEF FeedInv, ImmortalFeedHasCulprit
<1>5. ASSUME NEW r \in FeedReq, FeedExpire(r)
      PROVE  FeedInv'
  <2>1. /\ pc[r] = "expire" /\ pc'[r] = "trimMiss"
        /\ \A s \in FeedReq \ {r} : pc'[s] = pc[s]
        /\ ids' = ids /\ feed' = feed
        /\ feedTTL' = (feed # <<>>)
    BY <1>5 DEF FeedExpire, At, Goto, TypeOK
  <2>2. Untrimmed' = Untrimmed
    BY <2>1 DEF Untrimmed
  <2>3. FeedResidueBound'
    BY <2>1, <2>2, BoundKept DEF FeedInv, TypeOK
  <2>4. QED
    BY <2>1, <2>3 DEF FeedInv, ShortPages, ImmortalFeedHasCulprit
<1>6. ASSUME NEW r \in FeedReq, TrimMiss(r)
      PROVE  FeedInv'
  <2>1. /\ pc[r] = "trimMiss" /\ pc'[r] = "done"
        /\ \A s \in FeedReq \ {r} : pc'[s] = pc[s] /\ ids'[s] = ids[s]
        /\ TrimPage
    BY <1>6 DEF TrimMiss, At, Goto, TypeOK
  <2>2. ShortPages'
    BY <2>1 DEF FeedInv, ShortPages
  <2>3. r \in Untrimmed /\ Untrimmed' = Untrimmed \ {r}
    BY <2>1 DEF Untrimmed
  <2>4. FeedResidueBound'
    BY <2>1, <2>3, BoundTrim DEF FeedInv
  <2>5. /\ feed = <<>> => feed' = <<>>
        /\ feedTTL' = (feedTTL /\ feed' # <<>>)
    BY <2>1, TrimLength, LimitAssumption DEF TrimPage, TypeOK
  <2>6. QED
    BY <2>1, <2>2, <2>4, <2>5 DEF FeedInv, ImmortalFeedHasCulprit
<1>7. CASE FeedKeyExpires
  <2>1. feed' = <<>> /\ ~feedTTL' /\ UNCHANGED <<pc, ids>>
    BY <1>7 DEF FeedKeyExpires, reqVars
  <2>2. Len(feed') = 0 /\ Untrimmed' = Untrimmed
    BY <2>1 DEF Untrimmed
  <2>3. FeedResidueBound'
    BY <2>2, BoundKept DEF FeedInv, TypeOK
  <2>4. QED
    BY <2>1, <2>3 DEF FeedInv, ShortPages, ImmortalFeedHasCulprit
<1>8. CASE UNCHANGED <<feedVars, pc, ids>>
  <2>1. ShortPages'
    BY <1>8 DEF FeedInv, ShortPages
  <2>2. QED
    BY <1>8, <2>1, ListAlone
<1>9. QED
  BY <1>1, <1>2, <1>3, <1>4, <1>5, <1>6, <1>7, <1>8
     DEF Next, Step, SwipeLeft, SAdd, LeftExpire, LeftFails, LeftKeyExpires,
         DeleteAccount, vars, reqVars

LEMMA Invariance == Spec => []Inv
<1>1. Inv /\ [Next]_vars => Inv'
  BY InvParts, TypeStep, LeftStep, FeedStep DEF Inv, LeftInv, FeedInv, AbsentKeysHaveNoTTL
<1>2. QED
  BY <1>1, InvInit, PTL DEF Spec

-----------------------------------------------------------------------------
(* The invariants the runs check. *)

(* Never more than a page per request between its push and its trim. *)
THEOREM Residue == Spec => []FeedResidueBound
BY Invariance, PTL DEF Inv

LEMMA EmptyCache == ASSUME Inv, Untrimmed = {} PROVE feed = <<>>
<1>1. Cardinality(Untrimmed) = 0
  BY FS_EmptySet
<1>2. Len(feed) <= 0 /\ feed \in Seq(Candidate)
  BY <1>1, LimitAssumption DEF Inv, FeedResidueBound, TypeOK
<1>3. QED
  BY <1>2

(* With no such request the cache is empty: a feed request that runs alone *)
(* can neither find anything cached nor leave anything behind.             *)
THEOREM CacheIsTransient == Spec => [](Untrimmed = {} => feed = <<>>)
BY EmptyCache, Invariance, PTL

(* Only a request caught between push and expire makes a feed immortal,    *)
(* and only a left swipe caught between its commands, a left set.          *)
THEOREM Mortality == Spec => []ImmortalHasCulprit
BY Invariance, PTL DEF Inv, ImmortalHasCulprit

-----------------------------------------------------------------------------
(* Left swipes and the pages that follow them.  From the moment a request  *)
(* is made with c among the left swipes, and while it stays there, c is    *)
(* Barred from what the query finds for r; and while nobody else leaves a  *)
(* page in the cache r goes by the query, so c is Unserved.                *)
Barred(c, r) ==
    /\ pc[r] = "find" => c \in excluded[r]
    /\ pc[r] \in {"rPush", "expire", "trimMiss"} => c \notin Range(ids[r])

Unserved(c, r) ==
    /\ Barred(c, r)
    /\ pc[r] \notin {"trimHit", "findUsers"}
    /\ c \notin served[r]

NoneServedYet == \A r \in FeedReq : pc[r] = "idle" => served[r] = {}

(* What a step that is not r's leaves alone. *)
LEMMA OthersAlone ==
    ASSUME TypeOK, [Next]_vars, NEW r \in FeedReq, ~GetFeed(r), ~Step(r)
    PROVE  /\ pc'[r] = pc[r] /\ excluded'[r] = excluded[r]
           /\ ids'[r] = ids[r] /\ served'[r] = served[r]
<1>. USE DEF TypeOK, reqVars
<1>1. ASSUME NEW q \in FeedReq, q # r, GetFeed(q) \/ Step(q)
      PROVE  /\ pc'[r] = pc[r] /\ excluded'[r] = excluded[r]
             /\ ids'[r] = ids[r] /\ served'[r] = served[r]
  BY <1>1 DEF GetFeed, Step, LRange, TrimHit, FindUsers, SMembers, Find, RPush, FeedExpire,
              TrimMiss, Goto
<1>2. ASSUME NEW q \in FeedReq, Fail(q)
      PROVE  UNCHANGED <<pc, excluded, ids, served>>
  BY <1>2 DEF Fail
<1>3. CASE UNCHANGED reqVars
  BY <1>3
<1>. QED
  BY <1>1, <1>2, <1>3
     DEF Next, SwipeLeft, SAdd, LeftExpire, LeftFails, DeleteAccount, LeftKeyExpires,
         FeedKeyExpires, vars

LEMMA BarredStep ==
    ASSUME TypeOK, [Next]_vars, NEW c \in Candidate, NEW r \in FeedReq,
           c \in left, Barred(c, r)
    PROVE  Barred(c, r)'
<1>. USE DEF Barred, At, Goto, TypeOK
<1>1. CASE GetFeed(r) \/ LRange(r) \/ TrimHit(r) \/ FindUsers(r) \/ TrimMiss(r)
  BY <1>1 DEF GetFeed, LRange, TrimHit, FindUsers, TrimMiss
<1>2. CASE SMembers(r)
  BY <1>2 DEF SMembers
<1>3. CASE Find(r)
  <2>1. PICK found \in Answers(excluded[r]) :
            /\ ids' = [ids EXCEPT ![r] = found]
            /\ pc' = [pc EXCEPT ![r] = IF found = <<>> THEN "done" ELSE "rPush"]
    BY <1>3 DEF Find
  <2>2. c \in excluded[r]
    BY <1>3 DEF Find
  <2>3. PICK n \in 0..QueryLimit : found \in [1..n -> users \ excluded[r]]
    BY DEF Answers
  <2>4. c \notin Range(found)
    BY <2>2, <2>3 DEF Range
  <2>5. ids'[r] = found /\ pc'[r] # "find"
    BY <2>1
  <2>. QED
    BY <2>4, <2>5
<1>4. CASE RPush(r) \/ FeedExpire(r)
  BY <1>4 DEF RPush, FeedExpire
<1>5. CASE ~GetFeed(r) /\ ~Step(r)
  BY <1>5, OthersAlone
<1>. QED
  BY <1>1, <1>2, <1>3, <1>4, <1>5 DEF Step

LEMMA UnservedStep ==
    ASSUME Inv, [Next]_vars, NEW c \in Candidate, NEW r \in FeedReq,
           c \in left, Untrimmed \subseteq {r}, Unserved(c, r)
    PROVE  Unserved(c, r)'
<1>. TypeOK
  BY DEF Inv
<1>1. Barred(c, r)'
  BY BarredStep DEF Unserved
<1>2. CASE LRange(r)
  <2>1. pc[r] = "lRange"
    BY <1>2 DEF LRange, At
  <2>2. Untrimmed = {}
    BY <2>1 DEF Untrimmed
  <2>3. feed = <<>>
    BY <2>2, EmptyCache
  <2>. QED
    BY <1>1, <1>2, <2>3 DEF LRange, Goto, Unserved, TypeOK
<1>3. CASE TrimMiss(r)
  <2>1. served'[r] = Range(FirstPage(ids[r])) /\ pc'[r] = "done" /\ pc[r] = "trimMiss"
    BY <1>3 DEF TrimMiss, At, Goto, TypeOK
  <2>2. c \notin Range(ids[r])
    BY <2>1 DEF Unserved, Barred
  <2>3. c \notin Range(FirstPage(ids[r]))
    BY <2>2, FirstPageType DEF TypeOK
  <2>. QED
    BY <1>1, <2>1, <2>3 DEF Unserved
<1>4. CASE \/ GetFeed(r) \/ TrimHit(r) \/ FindUsers(r) \/ SMembers(r) \/ Find(r)
           \/ RPush(r) \/ FeedExpire(r)
  BY <1>1, <1>4 DEF GetFeed, TrimHit, FindUsers, SMembers, Find, RPush, FeedExpire, At, Goto,
                    Unserved, TypeOK
<1>5. CASE ~GetFeed(r) /\ ~Step(r)
  BY <1>1, <1>5, OthersAlone DEF Unserved
<1>. QED
  BY <1>2, <1>3, <1>4, <1>5 DEF Step

LEMMA NoneServedYetInvariance == Spec => []NoneServedYet
<1>1. Init => NoneServedYet
  BY DEF Init, NoneServedYet
<1>2. ASSUME TypeOK, NoneServedYet, [Next]_vars, NEW r \in FeedReq, pc'[r] = "idle"
      PROVE  served'[r] = {}
  <2>1. CASE GetFeed(r) \/ Step(r)
    BY <1>2, <2>1 DEF GetFeed, Step, LRange, TrimHit, FindUsers, SMembers, Find, RPush,
                      FeedExpire, TrimMiss, Goto, TypeOK
  <2>2. CASE ~GetFeed(r) /\ ~Step(r)
    BY <1>2, <2>2, OthersAlone DEF NoneServedYet
  <2>. QED
    BY <2>1, <2>2
<1>3. TypeOK /\ NoneServedYet /\ [Next]_vars => NoneServedYet'
  BY <1>2 DEF NoneServedYet
<1>. QED
  BY <1>1, <1>3, TypeCorrect, PTL DEF Spec

(* Whoever was swiped left before a request arrived is not found for it    *)
(* while the key lives, nor served unless another request leaves a page in *)
(* the cache.                                                              *)
THEOREM SwipedStaysAway == Spec => LeftStaysAway
<1>1. ASSUME NEW c \in Candidate, NEW r \in FeedReq
      PROVE  Spec => [](c \in left /\ pc[r] = "idle" =>
                 /\ [](c \in left) => [](pc[r] \in {"rPush", "expire", "trimMiss"}
                                          => c \notin Range(ids[r]))
                 /\ [](c \in left /\ Untrimmed \subseteq {r}) => [](c \notin served[r]))
  <2>1. NoneServedYet /\ pc[r] = "idle" => Barred(c, r) /\ Unserved(c, r)
    BY DEF NoneServedYet, Barred, Unserved
  <2>2. Inv /\ c \in left /\ Barred(c, r) /\ [Next]_vars => Barred(c, r)'
    BY BarredStep DEF Inv
  <2>3. Barred(c, r) => (pc[r] \in {"rPush", "expire", "trimMiss"} => c \notin Range(ids[r]))
    BY DEF Barred
  <2>4. Inv /\ (c \in left /\ Untrimmed \subseteq {r}) /\ Unserved(c, r) /\ [Next]_vars
          => Unserved(c, r)'
    BY UnservedStep
  <2>5. Unserved(c, r) => c \notin served[r]
    BY DEF Unserved
  <2>. QED
    BY <2>1, <2>2, <2>3, <2>4, <2>5, Invariance, NoneServedYetInvariance, PTL DEF Spec
<1>. QED
  BY <1>1 DEF LeftStaysAway
=============================================================================
