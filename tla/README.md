# Verification of fakelingo-server

TLA+ models of the services of this repository, the TLC runs that check them on small
instances and the TLAPS proofs that hold for instances of every size. `PROJECT.json`
lists the components, the runs, the source lines behind each definition, the hazards and
the theorems.

## 1. The system

Eight NestJS services share one MongoDB, one Redis and one RabbitMQ.

```
 client ──HTTP──> api-gateway ──HTTP──> auth ──HTTP──> user ──┐
                       │                                      ├── MongoDB users
                       ├──────> feed ──HTTP──> user           │
                       │          └── Redis feeds:userId:*    ├── Redis user:profile:*
                       └──────> swipe ── Redis swipe:left:* <─┘   (and swipe:left:*, read)
                                  │  └── MongoDB swipes
                                  ├── match_queue ────────> match ── MongoDB matches
                                  └── notification_queue ─> notification ── FCM, MongoDB
 client ──HTTP, web socket──> message ── notification_queue ──┘
                                 └── MongoDB conversations, messages
```

| component | state | operations | what makes it hard | what makes it correct |
|---|---|---|---|---|
| swipe-service | collection `swipes`, set `swipe:left:<u>`, two client proxies | `POST /swipe/action`, `GET /swipe/unread` | the handler is not awaited: the client is answered first; `findOne`, `create`, `findOne` of two users interleave; emits are not awaited; a rejection in the floating handler ends the process | two users who like each other are found out, once, and only they |
| match-service | collection `matches` | events `pong`, `match.create` | events are acknowledged on delivery; no unique index | one match per detected match, none invented |
| RabbitMQ | `match_queue`, `notification_queue` | | not durable, no acknowledgement, no prefetch limit | an event is in one place |
| feed-service | list `feeds:userId:<u>` | `POST /feed/get` | read, trim, push and expire are separate commands of overlapping requests | what was swiped away stays away; the cache is bounded and mortal |
| user-service, accounts | collection `users`, unique `email` and `userName` | `create`, `find-or-create`, `delete` | look up, then insert; `googleId` has no index | one account per person, tokens only for one's own |
| user-service, profiles | `user:profile:<u>` | profile, update, update-photos, get-by-ids, find-by-condition | a read-through cache written without being awaited, and never invalidated | an update that is answered is not undone by an older copy; a deleted user stays away |
| auth-service | none | register, login, Google login | forwards to user-service | |
| message-service | collections `conversations`, `messages`; the map of sockets | `POST /messages/create`, `send_message`, connect, disconnect, chat list, history | a transaction with an upsert, write conflicts, a lost commit answer; the process dies between commit and announcement | a conversation is an append-only log, and what is announced is stored |
| notification-service | `fcmToken:<u>`, collection `notifications` | two events, token update, list, mark as read | tokens are missing, or for devices that dropped the application; the push comes before the document | nobody is notified twice; a match is listed for both users or, unless the insert fails half way, for neither; what was pushed can be looked up |
| api-gateway | none | every endpoint: token, validation, forwarding, the answer to an error | a streamed upload that fails after its head; a process all requests share; no timeout | an answer is true; nobody is left without one; one request's failure is not another's |

There is no test of any of this in the repository beyond the generated "Hello World" ones.

## 2. The modules

| module | models |
|---|---|
| `Broker` | RabbitMQ as the services declare and consume their queues |
| `SwipeService` | right swipes: `handleSwipe`, `handleSwipeRight`, `createSwipe`, `onModuleInit`; the unread list |
| `MatchService` | match-service |
| `SwipePipeline` | the three together, and their properties |
| `MatchMaking` | the abstract specification of the pipeline: likes and matches, nothing else |
| `FeedService` | `getNextFeed`, `findUserByCondition` and `handleSwipeLeft`, joined by two Redis keys |
| `MessageService` | sending a message: transaction, sockets, event |
| `ChatListPaging` | a client that pages through the chat list while messages are sent |
| `ChatLog` | the abstract specification of a conversation: an append-only log |
| `NotificationService` | the two event handlers, the tokens, the collection `notifications`; who emits the events is an environment |
| `SwipeNotifications` | `SwipeService` in the place of that environment: from a swipe to the lists of two users |
| `ProfileCache` | the document and the cached profile of one user: read, list, update, photos, deletion |
| `Accounts` | `createUser`, `findOrCreateByGoogle`, `login`, `deleteAccount` behind auth-service |
| `Gateway` | api-gateway: the way of a request to a service and back |
| `MC*` | instances for TLC: symmetry, representative initial states |
| `*Proofs` | the theorems about a module |

`SwipeService` and `MatchService` extend `Broker`, so that the queues are shared variables;
`SwipePipeline` extends both and lets one service step at a time. `NotificationService` extends
`Broker` too, with an environment (`Emit`) in place of the services that emit its events.
`SwipeNotifications` extends `NotificationService` and takes the actions of `SwipeService` with
`INSTANCE`, for the two share only the queues and `payload`; an event counts as emitted from the
moment it is in the queue. `KeepsEnvironment` says that the composition is still a
`NotificationService`. `ChatListPaging` extends `MessageService` and adds a reader to it.

A definition marked "Mutant" is a plausible bug in the definition that follows it. No
specification uses it; it is there to show that a property can be violated.

### How an asynchronous handler becomes actions

Node runs a handler without interruption from one `await` to the next. Each such stretch is
one action, and `pc[r]` says at which `await` the handler of request `r` stands. What a
stretch emits without awaiting goes to `pending`, and from there to the broker or nowhere.
Handlers of different requests interleave at every `await`.

**Swipes.** `Swipe` (201 at once), `FindExisting` (lines 47-54 of `swipe.service.ts`),
`CreateSwipe` (56), `FindReverse` (58-77, and the `emit` of `handleSwipeRight` that follows in
the same turn), `Publish` (the proxy's write; a like is the one emit that is awaited). Swipe
documents are named by the request that made them, since two documents of one pair can exist.
`Crash` covers a killed container as well as an unhandled rejection: `handleSwipe` does not
await `handleSwipeRight`, so its `try` catches nothing of it, and Node 18 ends a process on
an unhandled rejection.

**Matches.** `Deliver` takes an event off the queue and starts its handler; `CreateMatch` is
the insert. `CreateMatchFails` lets any number of handlers come to nothing.

**Feed.** One viewer: the keys of different viewers are disjoint. `LRange`, `TrimHit`,
`FindUsers` are the path of a cached page (35-45 of `feeds.service.ts`), `SMembers`, `Find`,
`RPush`, `FeedExpire`, `TrimMiss` that of a query. A time to live is a flag; a key with one may
expire at any moment. Which users fit the query's condition, and in which order they come, is
left open (`Answers`), which covers the `$or`, `$near` and `$sample` of the code.

**Messages.** `Begin`, `FindOrCreate`, `InsertMessage`, `UpdateConversation`, `Commit`,
`Announce` follow `create` in `message.service.ts` and its two callers. Of MongoDB the model has
what the code depends on: a transaction's writes are visible from its commit on; a write to a
document written by another open transaction aborts the later writer; an upsert that finds
nothing inserts, and there is no unique index on `participants`. The upsert of a conversation
that exists is a write, for Mongoose adds `updatedAt` to it (`timestamps: true`). A commit whose
answer is lost (`CommitUnanswered`) is applied and reported as a failure. `received[m][s]`
counts the copies a socket gets: a message that comes in over a socket goes out twice, from
`handleSendMessage` and from `notifyReceiver`.

**Accounts.** `CreateUser`, `GoogleLogin` and `Login` are the lookups, `Insert` the insert and the
token. `createUser` inserts when its lookup *finds* an account; the model does too. A Google
account's user name is `user<googleId>`, so the id stands for the name. Whether a password is the
right one is left open; that an account has one is not. The collection is empty at first: an account
with a password then comes about only through a Google login, a registration that finds its account,
and a deletion between that lookup and the insert, which the instance is large enough to reach.

**Notifications.** `Receive`, `GetTokens`, `Push`, `Store` are the handlers of both events (the one of
a message is that of a like). `sendNotification` skips the push if there is no token, and ends if
the push throws; `sendMatchedNotification` always calls `sendEach`, which reports a bad message and
goes on to the next. Only the set of the tokens matters, for both users get the same text. `Push` and
`Store` take both messages and both documents of a match in one step, since each pair is one call of a
library, `sendEach` and `insertMany`, and nothing of the service runs in between; that such a call may
get half way and fail is in `HandlerFails`. A reader who looks while an `insertMany` is at work may see
one document before the other: so short a division the model leaves out. `Emit` is what
swipe-service and message-service do, at any time and in any order.
`steady`, chosen at the start, says whether anything fails in a behaviour, so that one run can
hold both the safety properties under failures and liveness without.

**Profiles.** One user: the keys of different users are disjoint. A profile is known by the version
number its last update gave it, photos by another, and the shape of a value tells a user
(`[edited, photos]`) from the bare profile that `updateProfile` caches (`[edited]`). `CacheGet`,
`Find` and `CacheFill` are the read: the fill floats on after the answer, so the handler has
answered while `pc` is `"floating"`. `UpdateProfile` and `CacheProfile` are the two awaits of an
update.

**The chat list.** `GetPage` asks for the next page until one comes back empty. `SetLastMessageAt` goes
with every `UpdateConversation`, whose `updateOne` also sets `lastMessageAt`; like `lastMessageId` it is
visible from the commit on, so the list can be reordered long after the date was taken. The list is
not stored: `Page` computes it from the dates, as the query does.

**The gateway.** `Receive`, `Verify` (`JwtMiddleware`, for `user` routes only), `Handle`
(`ValidationPipe` and the controller), `Reply` (axios) or `PipeHead` and `PipeEnd` (the stream).
`ErrorAnswer` is what the controllers and the filter make of an error: 502 for most, 401 for a login
whatever the error is, 500 where a controller has no `catch`. A connection that is lost before the
head is answered in the same way (`ConnectionLost`), whether or not the service has had the request.
After the head there are two ways to fail, and Node has them differ: a reset (`PipeReset`) is an
`error` of `proxyReq`, whose listener sets a header on a response that has been sent and throws, which
ends the process with all it is handling; an early close (`PipeClosed`) is no error of `proxyReq`, and
`pipe` does not end the response. A request is told from others by its endpoint, by whether its token
and its body are good, and nothing else.

The services behind the gateway have their own modules; here they appear in two variables, because an
answer and the work it speaks of are two things. `service` is the answer and `work` how far the handler has
come. `Serve` is a handler that is awaited: it answers when it has run to its end. `AcceptSwipe` is
`handleSwipe`, which starts a handler and answers 201; that handler, `floating` from then on, ends or
fails later (`EndSwipe`) and nobody is told. An unknown type of swipe starts nothing and is answered 201
too. `Register` may have done nothing and succeed, for `createUser` returns a message where it does not
return a token. `Refuse` is a handler that answers with an error, having done nothing or, when a late
step of it failed (`updateProfile` stores and then caches), something.

### Assumptions the models make

- ObjectIds of one message-service process ascend, and those of its successor are higher (a
  restart takes more than the second that is their leading part). One process runs.
- What the clients will send is chosen in the initial state; when is left open.
- RabbitMQ's queues are sets: without a prefetch limit every event queued starts a handler at
  once and the order of a queue is not observable.
- An aggregation reads its collection in one step; two queries of a handler never do.
- FCM: `send` rejects for a token that is no longer registered, `sendEach` (as of the firebase-admin
  version the service depends on) does not. A device that dropped the application does not come back.
- An ordered `insertMany` that fails leaves a prefix of its documents.
- A profile update sends every field it can (one that sends fewer caches fewer; `UpdateSticks` says
  nothing of the fields it leaves out).
- No two updates of a conversation carry the same date; the sort leaves such ties open, and between two
  queries may break them differently. The conversations in `ChatListPaging` are the twins that a pair
  can have, as `MessageService` models one pair; the list treats all conversations alike.
- `verifyToken` of fakelingo-token rejects a bad token. A client of the gateway stays until it is answered.
- A `findById` or an `updateOne` on one document is atomic, as is each Redis command.

## 3. The runs

All passing runs say `CHECK_DEADLOCK FALSE` except `chat_faults`: the requests are finite and
when they are served the model stops, as the services then do.

| run | instance | states | checks |
|---|---|---|---|
| `swipe_faults` | 2 users, 3 swipes, failures | 817,426 | `TypeOK`, `MutualLikeDetected`, `MatchesAreMutual`, `EventInOnePlace`; refinement `KeepsPromise` |
| `swipe_fair` | 2 users, 3 swipes, no failures | 96,802 | `MatchAccountedFor`, `MatchedOnceSettled`, `KeepsFairPromise` |
| `swipe_unread` | 2 users, 2 swipes | | violates `UnreadIsUnanswered` |
| `feed` | 2 candidates, 2 requests, failures | 563,604 | `TypeOK`, `FeedResidueBound`, `ImmortalHasCulprit`, `LeftStaysAway` |
| `chat_faults` | 3 sends, 1 socket, failures | 1,014,228 | `TypeOK`, `LastMessageIsNewest`, `AnnouncedIsStored`, `NoLateArrival` |
| `chat_fair` | 3 sends and a reader, pages of 1, no failures | 111,252 | `StoredIsAnnounced`, `PagingSkipsNothing`, `SomeoneGetsThrough`; refinement `KeepsLog` |
| `chat_twice` | 2 sends | | violates `OneConversation` |
| `notifications` | 2 users, 2 devices, the second of two opposite likes and the match, with and without failures | 198,744 | `JointTypeOK`, `NotifiedOnce`, `PairListedTogether`, `PushIsListed`, `ListedIsRecorded`, `MutualLikeListed`, `LikeListed`; refinement `KeepsEnvironment` |
| `accounts` | 4 requests, 2 emails, 2 names, failures | 49,210 | `TypeOK`, `OneAccountPerGoogleId`, `TokensAreOwned` |
| `accounts_register` | 2 requests, no failures | | violates `ExistsMeansTaken` |
| `profiles` | 4 calls on one user, failures | 271,690 | `TypeOK`, `UpdateSticks`, `DeletedStaysDeleted`, `PhotosStick` |
| `gateway` | 2 requests to any of 14 endpoints, failures | 163,953 | `TypeOK`, `AnswersAreTrue`, `CutTogether`, `AnsweredOnce`, `EveryoneIsAnswered` |

### What they show

- *Swiping.* `createSwipe` has no transaction and no lock, and needs none to find every mutual
  like: it writes before it looks, so of two opposite handlers the one that looks last finds the
  other's document (`MutualLikeDetected`). Put the pair into a transaction and both miss; that is
  one of the mutants. What it does not prevent is that both find each other: a pair then has two
  match documents. `MatchedOnceSettled` confines that to handlers that overlap. A match can be
  lost to a crash, a failed publish or a restarted broker, and a retried swipe does not repair it
  because it returns early; without failures none is lost (`MatchAccountedFor`,
  `KeepsFairPromise`, the theorem `Resting`).
- *Feed.* A page is trimmed for every page pushed, and the page is trimmed by the request that
  pushed it and served it. So the cache is empty whenever no request is between the two: it never
  serves a later request, and a hit happens only between overlapping requests or after one died
  (`FeedResidueBound`; the theorem `CacheIsTransient`). Each key without a time to live is the
  work of a handler between its two commands, or one that died there. A candidate swiped away is not
  found by any request that arrives from then on, while the key lives, and is not served by it either
  unless another request has a page in the cache meanwhile (`LeftStaysAway`).
- *Messages.* The conversation's document works as a lock that is taken before the message gets
  its `_id` and held to the commit. This is what makes paging by `_id` sound (`NoLateArrival`) and
  `lastMessageId` right. It hangs on `timestamps: true`: without it the upsert of a conversation
  that exists writes nothing, and the mutant that drops it violates both. The price is that the
  second of two concurrent sends is refused and not retried, though never all of them
  (`SomeoneGetsThrough`; of its safety half, that sends at work never end with nothing more stored, the
  theorem `OneIsLeft`). A conversation read by `_id` is an append-only log (`KeepsLog`).
  What is announced is stored (`AnnouncedIsStored`); the converse holds without failures only: a crash
  between the commit and the emit leaves a message that is in the history and nobody is told of.
- *The chat list.* Paging by skip and limit under writes is known for skipping entries. Here it cannot:
  a message only moves its conversation to the front, so what has not been read yet only moves back,
  towards the reader (`PagingSkipsNothing`). What it does cost is entries shown twice, and a sort the
  other way round, the mutant, skips. Twins, one conversation stored twice, are in the instance.
- *Accounts.* The index on `userName` does the work of the missing one on `googleId`. A lookup and the
  insert, or the token, that follows it are separate steps, and what was found may be deleted or
  replaced by somebody else's account in between; a token is nevertheless always for an account the
  request is entitled to (`TokensAreOwned`). Registration itself does not work: the condition
  of `createUser` is inverted, and who is new is told that the account exists (the run
  `accounts_register`, under Findings).
- *From a swipe to the list.* An event is acknowledged before its handler does anything, so what fails
  is lost and never repeated (`NotifiedOnce`), and what a device has shown is in the list unless the
  insert itself fails (`PushIsListed`). Without failures of the infrastructure the two handlers differ: a
  mutual like reaches both lists whatever becomes of the tokens on the way (`MutualLikeListed`), while a
  like whose recipient has dropped the application is neither pushed nor listed (`LikeListed` says that
  this is the only case). A pair's documents are divided only by a failure of the insert. With failures
  a list may miss things, and yet shows nothing that the collection `swipes` does not bear out
  (`ListedIsRecorded`): the write comes before the event. The theorem `ListsImplement` says it in the
  terms of `MatchMaking`: swipes are the likes, listed matches the matches, and no failure makes the
  lists show a history that `MatchMaking` does not allow.
- *Profiles.* A fill or another update that copied the profile before an update may put the older
  copy into the cache after it, where it stays for good, as the key does not expire. `UpdateSticks`
  states what remains: if no such copy is on its way when the update has been stored, it holds for
  every later read, through crashes, failed writes and a Redis that loses its data; the order in
  which the document and the key are written is what it takes. `DeletedStaysDeleted` is the same for
  a deletion: it is final once the last copy of the user is gone, and nothing brings the user back.
  `PhotosStick` is the same for photos, of which the cache is never told: they are seen once the last
  copy from before the upload is gone; as the key does not expire, that takes an update, a list that
  includes the user, or a Redis that loses its data.
- *Gateway.* Its answers are true (`AnswersAreTrue`) as far as they say anything. Success means that the
  handler has run to its end, for somebody with a good token; but of a swipe only that its handler has been
  started, which may fail yet, and of a registration nothing at all. What the gateway itself refuses
  has not been tried and will not be. An error of a service tells nothing, for a
  request that was lost on its way back has been done, or is done later. No answer is taken back
  (`AnsweredOnce`). All requests share a process, and
  `CutTogether` finds the one failure that takes others with it, the reset of an upload. Everyone is
  answered, for as long as the services answer, but for a client whose upload is closed half way
  (`EveryoneIsAnswered`).

### Findings

`swipe_unread`, `chat_twice` and `accounts_register` each show the code at odds with
what it, a comment or the README says; PROJECT.json quotes the lines. The last is the gravest: nobody new
can register (`user.service.ts:74`), so that, but for the race above, there is no account with a password
to log in to, while the README has auth-service handle both. Not made into runs: the feed serves users the viewer is
matched with, which the comment at `feeds.service.ts:48` says user-service leaves out
(`findUserByCondition` does not, and nothing fills or reads `match:<userId>`); a
repeated swipe is told "you have already been matched" whether or not it has been
(`swipe.service.ts:53`; `handleSwipeRight` drops the message); a
like to a user with a stale token leaves no trace; a device token stays with the user who had
the device before; photos that were uploaded are not in the cached profile; after an update the
profile routes answer the bare profile that was sent, in place of the user that
`user.service.ts:145` promises, until `getUserByIds` fills the key; the gateway's `DELETE` goes to a
route that user-service does not have; an upload whose connection is reset after the head ends the
gateway, and one whose connection is closed hangs (`proxy.service.ts:84-94`); a login is answered
401 when auth-service is down (`auth.controller.ts:52`); `GET /swipe/unread` ignores `page` and `limit`.

### Bounds, and why they are enough

- *Two users, three swipes.* Users interact in pairs only. Three requests give both directions and
  a repeat of one of them, which is what the duplicate cases need; self-swipes are included, as
  the code does not forbid them.
- *Two feed requests, two candidates.* A request leaves behind at most what it pushed and did not
  trim, and two overlap in every way a pair can; `QueryLimit` equals `FeedLimit`, as in the code (10
  and 10), and as the query may find fewer, a trim may take more than its own request pushed.
- *Three sends.* The first makes the conversation, two more compete for it; or two make one each
  and the third meets either. One socket shows who is told, and Disconnect and Crash race with it.
- *Four account requests.* An account to find, its deletion, and two that race for its place; or
  three, and a login.
- *One like to come, two devices.* User 2 has liked user 1 and the like is listed; user 1 now likes user 2, so
  both events of a match, and both handlers, happen. Handlers of different events share nothing but the
  tokens; with two devices both users have one, either, the same or none. Where things fail, one device
  (`gone`) may be out of use from the start, and either may become so. That the likes overlap is
  `swipe_faults`' case, where the users' lists play no part.
- *One reader, pages of one conversation.* The smallest page gives the most steps between two pages. Three
  sends make up to three conversations, or move one to the front twice.
- *Four profile calls.* The update, an older copy that is on its way, something that clears or
  overwrites the key, and the read that comes after.
- *Two gateway requests.* One to fail and one to be dragged along; requests share nothing else.
- The failure constants (`Faults`) allow any number of failures at any point.

`SYMMETRY` is declared for names that the specifications treat alike, and only in runs without
temporal properties beyond refinement. The others use an initial-state predicate instead
(`RepresentativeInit` and the like) that keeps one of the initial states that differ only by a
renaming of requests (and users).

### Fairness

Weak fairness of each handler's steps, of the proxies' writes and of delivery: the event loop
runs every ready continuation, the drivers answer or reject, and the broker delivers to a
connected consumer. None is assumed of clients (requests need not come), of sockets, of expiring
keys or deletions, or of failures; liveness is claimed only where nothing fails: with `Faults = FALSE`, or in the
`steady` behaviours of `SwipeNotifications`. `Gateway` is the exception: it is fair to what the gateway
does and to the services' answers (`ServiceAnswers`), and its liveness holds among failing connections; that
the services answer is an assumption, as there is no timeout. That the handler of a swipe ever ends is not
assumed.

## 4. The proofs

TLAPS 1.4.5 checks each `*Proofs` module. The theorems hold for all sets of requests, users,
candidates, sockets, and for both values of `Faults`; the assumptions are the `ASSUME`s of the
modules.

- `SwipePipelineProofs`. The inductive invariant `Inv` adds to the stated invariants `Stage` (what
  the documents say about where a handler is: only handlers past the create have one, and
  `isMatched` implies an opposite document) and `TraceIsMatched` (an event, a handler or a match
  document exists only for a detected match). Without `Stage`, `MutualLikeDetected` is not inductive:
  one must know that whoever has looked has already written. `Settled` needs a second invariant,
  `Barred`, which no step of a barred request breaks. `Implements` is the refinement: each action
  maps to `Like`, `Match` or a stutter.
- `FeedServiceProofs`. `FeedResidueBound` counts requests: its proof follows `Cardinality(Untrimmed)`
  through each step and needs `ShortPages` (a query's answer is at most a page). The two mortality
  theorems need that an absent key has no time to live. `SwipedStaysAway` is about a
  candidate and a request that arrives after the swipe: the candidate is `Barred` from what the query
  finds for it and, while no other request has a page in the cache, `Unserved`. The latter rests on
  `EmptyCache`, a form of `FeedResidueBound`: the request then finds the cache empty and has to query.
- `MessageServiceProofs`. `Exclusive` (of the open transactions on a conversation that is visible, at
  most one) and `Numbered` (ids are below the counter, and an open transaction's is above all that is
  stored in its conversation) carry `LastMessageIsNewest` and `NoLateArrival`; a second invariant
  carries the two about announcements. `LogKept` is the refinement of `ChatLog`: the message at place
  `i` of a log is the one with `i - 1` older ones, of which `Ranked` (ids of a conversation differ) leaves
  one each, and a commit adds the last place and moves none, as `NoLateArrival` says; so it is an
  `Append`, and any other step a stutter. `Settled` (without faults whoever was refused found a message)
  and `Pursued` (as long as nothing more is stored, somebody is at work: a send is refused only by
  another's open transaction) give `RestingNotified` (once all is quiet the stored messages are those of the handlers that are done,
  each with its event) and `GiveWayToOne`. `Once`: an event is emitted by the
  last step of its handler, so message-service, too, is what `NotificationService` assumes.
  `NothingSkipped`, of `ChatListPaging`, is in its second half. There the invariant counts: whatever of
  the snapshot has kept still and is not yet seen has at least as many conversations ahead of it as the
  reader has skipped, and the number ahead never falls, as `Exclusive` makes a conversation's dates ascend.
- `AccountsProofs`. `Unique` (the indexes) gives `OneGoogleAccount`. `Owned` needs `UnderWay`: a handler
  before its insert has no account and no token, and is that of a registration or a Google login, so that
  the account it makes is one its request is entitled to.
- `NotificationServiceProofs`. `Tracked` (what is queued has been emitted and no handler has it), `Silent`
  and `Unlisted` (no push and no document before the handler gets there) give `NotifiedOnce`,
  `Complete` (whoever has stored one of an event's documents is done, or failed) `Together`: a match is
  listed for both or for neither, unless the insert of its documents fails half way.
  `PushIsListed` follows from its own invariant of a handler's stages, and so does the action property
  `NotifiedAtOnce`: no device shows an event after another has, in a later step, and no document of it
  is added to one that is there.
- `SwipeNotificationsProofs`. The joint invariant takes over that of `NotificationServiceProofs` with its
  lemmas, for a step of swipe-service is an `Emit` to them or touches nothing of theirs; hence `JointOnce`,
  `JointTogether` and `JointShown`. `Fresh` (whatever a handler is yet to emit has never been emitted) is
  what makes it so, and `EmitsOnce` states it as a refinement. `Recorded` (what an event on its way says is
  borne out by the documents) gives `ListedHasSwipe` and, step by step, `ListsImplement`: of the steps of
  both services only a create is a `Like`, only the insert of a match's documents a `Match`.
  `CompleteAtRest` is the safety half of the two liveness properties: what is missing from the lists at
  rest was lost to a failure or to a stale token. Its invariant follows a like through both services:
  `Detected` (of two opposite swipes that were looked up one has seen the other, for which `Progress` says
  that whoever has looked has written), `Owed` (its events are in hand or emitted) and `Handled` (and then
  queued, being handled, or done; a handler that failed was that of a like with a stale token).
- `GatewayProofs`. The answers rest on what each stage knows: a service hears of a request from the
  controller only (`Untouched`), a stage before the answer has none (`Unanswered`), only a streamed request
  is between head and end (`HeadSent`), no handler gets anywhere before it is called (`Unbegun`), and where a
  service has answered with success its handler has come as far as that says (`Finished`). `Truthful` follows;
  `OnlyForTheAllowed` says that nothing is ever begun for a token that is not good.
  `Awaited` is the safety half of `EveryoneIsAnswered`: a request the gateway waits with is with a
  service, one it is done with has an answer, and a dead process waits with none. With it, `OneAnswer`:
  no status is sent twice, or by a process that died.
- `ProfileCacheProofs`. The properties speak of all later states, so the proof has stages
  besides the invariant: from the moment the update cannot be overtaken `Sticking` holds for good,
  from the moment a later request has not begun `Stuck` does, after a deletion `Unseen`, and from the
  moment no copy has the old photos `Renewed`. `PhotosStick` speaks of the first upload, to keep the run
  short; `EveryUploadIsSeen` has it for each. The
  invariant ties the version numbers together: the document is at the last one (`Versions`), so
  whoever reads it takes nothing older than what has been stored.

Only model-checked: what holds under fairness alone, since TLAPS has no ENABLED (`KeepsFairPromise`,
`SomeoneGetsThrough`, `MutualLikeListed`, `LikeListed`, `EveryoneIsAnswered`). Of each the safety half is
a theorem: `Resting`, `OneIsLeft`, `CompleteAtRest`, `Awaited`. They say that a behaviour which comes to
rest has got where it should; that it comes to rest is what TLC checks on an instance. Every other
property of a run is a theorem. The theorems no run has a property for (`CacheIsTransient`, both `Resting`,
`OneIsLeft`, `Once` of `MessageServiceProofs`, `ShownAtOnce`, `CompleteAtRest`,
`ListsImplement`, `Awaited`, `OnlyForTheAllowed`) follow from the same invariants or extend them.

## 5. Not modelled, and the plan

Left out for good: configuration, DTOs, decorators, logging, password hashing, token contents,
the packages fakelingo-token and cache-lib (external, modelled where the services call them), the Cloudinary
upload behind `updatePhotos`, dead code (`getMatchedUsers`, `findOrCreateConversation`,
`modules/notification` of message-service).

Left out of modelled parts, because no order of steps matters to them: the pages of the unread list
(`page` and `limit` are ignored), the chat list of a conversation with oneself (`message.service.ts:132`,
an expression that fails on one document), `updateUserFcmToken` (a field nothing reads). A client of the gateway
that goes away, and the time a service may take, are left out of `Gateway`.

Done, in this order: the pipeline from swipe to match, because it is what the product is about
and spans three processes; the feed; messages; accounts with logins; notifications; profiles; swipes
and notifications composed; the pages of the chat list; the gateway. Next:

1. Proofs: a bound on the number of match documents per pair by its overlapping handlers.
2. `MessageService` as the environment of `NotificationService`, as `SwipeService` is now.
