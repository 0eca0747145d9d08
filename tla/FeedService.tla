----------------------------- MODULE FeedService -----------------------------
(***************************************************************************)
(* The feed of one viewer: FeedService.getNextFeed, the query it sends to  *)
(* user-service (findUserByCondition) and the left swipes of swipe-service *)
(* that the query leaves out.  The three services share two Redis keys,    *)
(*   feeds:userId:<viewer>  the list "feed", written and trimmed here,     *)
(*   swipe:left:<viewer>    the set "left", written by swipe-service,      *)
(* each with a time to live that is set by a command of its own.  Requests *)
(* of the viewer overlap; there is one action per stretch between awaits.  *)
(***************************************************************************)
EXTENDS Naturals, Sequences, FiniteSets, Functions

CONSTANTS
    Candidate,   \* the other accounts
    FeedReq,     \* the viewer's POST /feed/get requests
    FeedLimit,   \* FEED_LIMIT
    QueryLimit,  \* the limit user-service is called with
    Faults       \* TRUE: Redis, MongoDB, HTTP calls and processes may fail

(* Both limits are 10. *)
ASSUME LimitAssumption ==
    /\ FeedLimit \in Nat \ {0}
    /\ QueryLimit \in Nat
    /\ QueryLimit <= FeedLimit
ASSUME FeedReqAssumption == IsFiniteSet(FeedReq)
ASSUME FaultsAssumption == Faults \in BOOLEAN

VARIABLES
    users,    \* accounts that exist
    left,     \* the set swipe:left
    leftTTL,  \* it has a time to live
    lpc,      \* lpc[c]: where the handler of the viewer's left swipe on c is
    feed,     \* the list feeds:userId
    feedTTL,  \* it has a time to live
    pc,       \* pc[r]: where feed request r is
    gone,     \* requests whose handler failed at pc[r]
    excluded, \* excluded[r]: left, as r's query read it (until it is used)
    ids,      \* ids[r]: the ids r has read or found (until it answers)
    served    \* served[r]: whom r has answered with

leftVars == <<left, leftTTL, lpc>>
feedVars == <<feed, feedTTL>>
reqVars == <<pc, gone, excluded, ids, served>>
vars == <<users, leftVars, feedVars, reqVars>>

FeedPC == {"idle", "lRange", "trimHit", "findUsers", "sMembers", "find",
           "rPush", "expire", "trimMiss", "done"}
LeftPC == {"idle", "sAdd", "expire", "done", "gone"}

TypeOK ==
    /\ users \subseteq Candidate
    /\ left \subseteq Candidate
    /\ leftTTL \in BOOLEAN
    /\ lpc \in [Candidate -> LeftPC]
    /\ feed \in Seq(Candidate)
    /\ feedTTL \in BOOLEAN
    /\ pc \in [FeedReq -> FeedPC]
    /\ gone \subseteq FeedReq
    /\ excluded \in [FeedReq -> SUBSET Candidate]
    /\ ids \in [FeedReq -> Seq(Candidate)]
    /\ served \in [FeedReq -> SUBSET Candidate]

Init ==
    /\ users = Candidate
    /\ left = {}
    /\ leftTTL = FALSE
    /\ lpc = [c \in Candidate |-> "idle"]
    /\ feed = <<>>
    /\ feedTTL = FALSE
    /\ pc = [r \in FeedReq |-> "idle"]
    /\ gone = {}
    /\ excluded = [r \in FeedReq |-> {}]
    /\ ids = [r \in FeedReq |-> <<>>]
    /\ served = [r \in FeedReq |-> {}]

-----------------------------------------------------------------------------
(* handleSwipeLeft: not awaited by handleSwipe.  SADD keeps a time to live *)
(* the key may have.                                                       *)
SwipeLeft(c) ==
    /\ lpc[c] = "idle"
    /\ lpc' = [lpc EXCEPT ![c] = "sAdd"]
    /\ UNCHANGED <<users, left, leftTTL, feedVars, reqVars>>

SAdd(c) ==
    /\ lpc[c] = "sAdd"
    /\ left' = left \cup {c}
    /\ lpc' = [lpc EXCEPT ![c] = "expire"]
    /\ UNCHANGED <<users, leftTTL, feedVars, reqVars>>

LeftExpire(c) ==
    /\ lpc[c] = "expire"
    /\ leftTTL' = (left # {})
    /\ lpc' = [lpc EXCEPT ![c] = "done"]
    /\ UNCHANGED <<users, left, feedVars, reqVars>>

(* Redis fails or swipe-service dies: nobody takes the rejection. *)
LeftFails(c) ==
    /\ Faults
    /\ lpc[c] \in {"sAdd", "expire"}
    /\ lpc' = [lpc EXCEPT ![c] = "gone"]
    /\ UNCHANGED <<users, left, leftTTL, feedVars, reqVars>>

LeftKeyExpires ==
    /\ leftTTL
    /\ left' = {}
    /\ leftTTL' = FALSE
    /\ UNCHANGED <<users, lpc, feedVars, reqVars>>

-----------------------------------------------------------------------------
At(r, p) == pc[r] = p /\ r \notin gone
Goto(r, p) == pc' = [pc EXCEPT ![r] = p]

(* LRANGE key 0 FEED_LIMIT-1, or what slice(0, FEED_LIMIT) keeps. *)
FirstPage(s) == SubSeq(s, 1, IF Len(s) < FeedLimit THEN Len(s) ELSE FeedLimit)

(* LTRIM key FEED_LIMIT -1.  Redis drops an empty list with its time to live. *)
TrimPage ==
    /\ feed' = SubSeq(feed, FeedLimit + 1, Len(feed))
    /\ feedTTL' = (feedTTL /\ feed' # <<>>)

GetFeed(r) ==
    /\ At(r, "idle")
    /\ Goto(r, "lRange")
    /\ UNCHANGED <<users, leftVars, feedVars, gone, excluded, ids, served>>

LRange(r) ==
    /\ At(r, "lRange")
    /\ \/ feed # <<>> /\ Goto(r, "trimHit")
       \/ feed = <<>> /\ Goto(r, "sMembers")
    /\ ids' = [ids EXCEPT ![r] = FirstPage(feed)]
    /\ UNCHANGED <<users, leftVars, feedVars, gone, excluded, served>>

(* A cached page is cut off before its users are looked up ... *)
TrimHit(r) ==
    /\ At(r, "trimHit")
    /\ TrimPage
    /\ Goto(r, "findUsers")
    /\ UNCHANGED <<users, leftVars, gone, excluded, ids, served>>

(* ... and served without asking for the left swipes again. *)
FindUsers(r) ==
    /\ At(r, "findUsers")
    /\ served' = [served EXCEPT ![r] = Range(ids[r]) \cap users]
    /\ ids' = [ids EXCEPT ![r] = <<>>]
    /\ Goto(r, "done")
    /\ UNCHANGED <<users, leftVars, feedVars, gone, excluded>>

(* user-service, findUserByCondition. *)
SMembers(r) ==
    /\ At(r, "sMembers")
    /\ excluded' = [excluded EXCEPT ![r] = left]
    /\ Goto(r, "find")
    /\ UNCHANGED <<users, leftVars, feedVars, gone, ids, served>>

(* Mutant: no $nin. *)
AnswersUnfiltered(x) == {s \in UNION {[1..n -> users] : n \in 0..QueryLimit} : IsInjective(s)}

(* The lists a query may return: who fits the condition, and in which      *)
(* order, is left open; the $sample that follows an empty answer is one of *)
(* them.                                                                   *)
Answers(x) == {s \in UNION {[1..n -> users \ x] : n \in 0..QueryLimit} : IsInjective(s)}

Find(r) ==
    /\ At(r, "find")
    /\ \E found \in Answers(excluded[r]) :
          /\ ids' = [ids EXCEPT ![r] = found]
          /\ Goto(r, IF found = <<>> THEN "done" ELSE "rPush")
    /\ excluded' = [excluded EXCEPT ![r] = {}]
    /\ UNCHANGED <<users, leftVars, feedVars, gone, served>>

(* Mutant: the array is pushed as one element. *)
RPushNested(r) ==
    /\ At(r, "rPush")
    /\ feed' = Append(feed, ids[r])
    /\ Goto(r, "expire")
    /\ UNCHANGED <<users, leftVars, feedTTL, gone, excluded, ids, served>>

(* Back in getNextFeed. *)
RPush(r) ==
    /\ At(r, "rPush")
    /\ feed' = feed \o ids[r]
    /\ Goto(r, "expire")
    /\ UNCHANGED <<users, leftVars, feedTTL, gone, excluded, ids, served>>

(* Mutant: a time to live only for a list that was not there before. *)
FeedExpireOfOwn(r) ==
    /\ At(r, "expire")
    /\ feedTTL' = (feedTTL \/ feed = ids[r])
    /\ Goto(r, "trimMiss")
    /\ UNCHANGED <<users, leftVars, feed, gone, excluded, ids, served>>

(* Mutant: the page is answered and stays cached. *)
TrimMissForgotten(r) ==
    /\ At(r, "trimMiss")
    /\ served' = [served EXCEPT ![r] = Range(FirstPage(ids[r]))]
    /\ ids' = [ids EXCEPT ![r] = <<>>]
    /\ Goto(r, "done")
    /\ UNCHANGED <<users, leftVars, feedVars, gone, excluded>>

FeedExpire(r) ==
    /\ At(r, "expire")
    /\ feedTTL' = (feed # <<>>)
    /\ Goto(r, "trimMiss")
    /\ UNCHANGED <<users, leftVars, feed, gone, excluded, ids, served>>

TrimMiss(r) ==
    /\ At(r, "trimMiss")
    /\ TrimPage
    /\ served' = [served EXCEPT ![r] = Range(FirstPage(ids[r]))]
    /\ ids' = [ids EXCEPT ![r] = <<>>]
    /\ Goto(r, "done")
    /\ UNCHANGED <<users, leftVars, gone, excluded>>

(* An await rejects (the catch answers 400) or the process dies.  What the *)
(* handler wrote stays.                                                    *)
Fail(r) ==
    /\ Faults
    /\ pc[r] \notin {"idle", "done"}
    /\ r \notin gone
    /\ gone' = gone \cup {r}
    /\ UNCHANGED <<users, leftVars, feedVars, pc, excluded, ids, served>>

FeedKeyExpires ==
    /\ feedTTL
    /\ feed' = <<>>
    /\ feedTTL' = FALSE
    /\ UNCHANGED <<users, leftVars, reqVars>>

(* user-service, deleteAccount: it touches none of the keys. *)
DeleteAccount(c) ==
    /\ c \in users
    /\ users' = users \ {c}
    /\ UNCHANGED <<leftVars, feedVars, reqVars>>

-----------------------------------------------------------------------------
Step(r) == \/ LRange(r) \/ TrimHit(r) \/ FindUsers(r)
           \/ SMembers(r) \/ Find(r) \/ RPush(r) \/ FeedExpire(r) \/ TrimMiss(r)

Next ==
    \/ \E c \in Candidate : \/ SwipeLeft(c) \/ SAdd(c) \/ LeftExpire(c) \/ LeftFails(c)
                            \/ DeleteAccount(c)
    \/ \E r \in FeedReq : GetFeed(r) \/ Step(r) \/ Fail(r)
    \/ LeftKeyExpires
    \/ FeedKeyExpires

Spec == Init /\ [][Next]_vars

-----------------------------------------------------------------------------
(* Requests that have pushed a page and not trimmed one, for whatever reason. *)
Untrimmed == {r \in FeedReq : pc[r] \in {"expire", "trimMiss"}}

(* The feed never holds more than a page per request that is between its   *)
(* push and its trim or died there: as a page is trimmed for every page    *)
(* pushed, the list is empty whenever no request is on its way, and only   *)
(* requests that overlap can meet in the cache.                            *)
FeedResidueBound == Len(feed) <= FeedLimit * Cardinality(Untrimmed)

(* Redis keeps neither of the user's keys for ever, unless a handler is     *)
(* between writing it and setting its time to live, or died there: what it *)
(* wrote to "left" is then still in the set.                               *)
ImmortalFeedHasCulprit ==
    feed # <<>> /\ ~feedTTL => \E r \in FeedReq : pc[r] = "expire"
ImmortalLeftHasCulprit ==
    left # {} /\ ~leftTTL => \E c \in left : lpc[c] \in {"expire", "gone"}
ImmortalHasCulprit == ImmortalFeedHasCulprit /\ ImmortalLeftHasCulprit

(* Whoever was swiped left before a request arrived is not in the page     *)
(* that user-service finds for it, unless the key has expired since, and   *)
(* is not served either unless another request leaves a page in the cache: *)
(* a cached page is served without asking for the left swipes again.       *)
LeftStaysAway ==
    \A c \in Candidate, r \in FeedReq :
        [](c \in left /\ pc[r] = "idle" =>
             /\ [](c \in left) => [](pc[r] \in {"rPush", "expire", "trimMiss"}
                                      => c \notin Range(ids[r]))
             /\ [](c \in left /\ Untrimmed \subseteq {r}) => [](c \notin served[r]))
=============================================================================
