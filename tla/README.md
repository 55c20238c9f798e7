# TLA+ specifications of grapery

grapery is a Go server for telling stories together: users form groups, write
stories as trees of storyboards, have pictures rendered for them, comment, like
and chat with the roles of a story, and pay for subscriptions. The server keeps
hardly any state of its own (the MCP service's tables and the queue's channels):
nearly all is in MySQL rows written through gorm (`models/`), in Redis channels
(`pkg/message`), and at payment providers. Requests run in goroutines of their
own, on as many servers as are started.

What makes the code hard to get right is the same nearly everywhere:

* **No transactions.** Only `pkg/message/store.go` opens one. A handler is a
  sequence of separate database calls; any of them may fail, and a crash may
  come between any two.
* **Read, compute, write back.** Handlers read a row, compute in Go, and write
  later: sometimes one column (`UPDATE ... SET quota_used = ?`), sometimes every
  column of the row that was read (`DB().Save`), sometimes every non-zero column
  (`Updates(struct)`). Whatever another request wrote meanwhile is lost or
  resurrected.
* **Outside calls in the middle.** Payment and image services are called between
  the read and the write; providers post callbacks again until they are
  answered.
* **UPDATEs that match nothing are no errors**, conditions given after an
  `Update` are ignored, and zero values are skipped or replaced by column
  defaults: what the library does with a call is part of what the code does.

So every module here models a handler as one step per call, keeps the locals of
a request in a record `task[t]`, lets requests interleave freely, and lets any
step fail.

## Contents

1. [The system](#1-the-system)
2. [Modules](#2-modules)
3. [Correspondence with the code](#3-correspondence-with-the-code)
4. [Runs, bounds and what they show](#4-runs-bounds-and-what-they-show)
5. [Fairness](#5-fairness)
6. [Proofs](#6-proofs)
7. [What the code does that no property forbids](#7-what-the-code-does-that-no-property-forbids)
8. [Abstractions](#8-abstractions)
9. [Not modelled](#9-not-modelled)

## 1. The system

Paths are relative to `src/`.

### Payments and callbacks — `pkg/pay`, `models/order.go`, `models/payment_record.go`, `service/pay/payment_handler.go`

* State: `orders` (status, expire_time, payment_time), `payment_records` (order,
  provider id, status, expire_time), and the payments held at Stripe, Alipay and
  WeChat.
* Operations: `CreatePayment`, `ProcessPaymentCallback` with
  `handlePaymentSuccess`, `CancelOrder`, `ProcessExpiredOrders`,
  `ProcessExpiredPayments`, `GetPaymentURL`. `QueryPaymentStatus` and `RefundPayment`
  change nothing: both begin with `GetPaymentRecordsByOrderID`, which sorts by a
  column created_at (`models/payment_record.go:312`) where the rows have create_at
  (`models/database.go:114`), and always answer `ErrPaymentNotFound`.
* Interaction: a provider opens a payment when asked, captures or closes it when
  the payer acts, and posts a callback until it gets a success answer. A
  callback of a subscription order inserts a `subscriptions` row.
* Hard: callbacks repeated and racing the sweeps and each other; failures
  between the three writes of `handlePaymentSuccess`.
* Correct when: nothing is paid, granted or acknowledged that the provider does
  not stand for; what was acknowledged stays recorded; and everything captured
  is applied in the end.

### Products and stock — `CreateOrder`, `models/product.go`

* State: the stock and sold_count columns of a product row, -1 meaning
  unlimited; the orders inserted.
* Operations: `CreateOrder` (check, insert order, decrease stock, count),
  `IncreaseStock`, `UpdateProduct`, `DeleteProduct`.
* Hard: the check is made on a row read before other orders took their units;
  an edit saves a stale row; a failure leaves an order with no stock taken.
* Correct when: a limited product stays limited, no unit disappears, nothing is
  sold twice.

### Subscriptions and quota — `models/subscription.go`, `payment_service_impl.go:525-745`

* State: a row per purchase: status, product, end_time, quota_limit, quota_used.
* Operations: `CreateSubscription`, `ConsumeUserQuota`, `RenewSubscription`,
  `UpgradeSubscription`, `CancelSubscription`, `ProcessExpiredSubscriptions`.
* Hard: three different kinds of write to one row, each from a row read earlier.
* Correct when: quota used stays within the limit and within what was granted,
  no time is given away, nothing ends before the time paid for is over.

### Storyboards — `pkg/story/storyboard.go`, `models/storyboard.go`, `models/like.go`

* State: `story_board` rows (story, prev_id, status, like_num, comment_num,
  fork_num), `root_board_id` of a story, `like_item` rows.
* Operations: create, fork, delete (children are handed to the board before),
  like, take back a like, comment, publish, take back a publication.
* Hard: re-parenting races creation, forking and other deletions; likes and
  comments save a stale row, prev_id and status included; the board to continue
  is whichever the client names (`pkg/story/storyboard.go:27`), of another story too.
* Correct when: the boards form trees that walks can climb, no branch is moved
  to another, a story that has boards has one of its own as its root, counts are
  not invented, a deleted board stays deleted.

### The services around stories

| component | state | operations | hard behaviour | correct when |
|---|---|---|---|---|
| Scenes (`pkg/story/storyboard.go:1300-1800`, `models/storyboard.go`) | `story_board_sence` rows | create, render, update, delete a scene | the scene is saved as read before an image service was called for seconds (`storyboard.go:1663`) | an edit or a hiding made during a rendering survives it |
| Renderings (`pkg/story`, `models/storygen.go`) | `story_gen` rows | eight handlers that insert an empty row, ask a model and fill it in | the error of the look-up for an earlier row is thrown away (`story.go:476`), an empty row of a failed request is found by later ones; boards are looked up by what none of their rows has (`storygen.go:105`) | a text is written once and found again |
| Stories and roles (`pkg/story/story.go`, `storyrole.go`), likes and watches (`models/like.go`) | `story`, `story_role`, `like_item`, `watch_item` rows, counters of profiles | create, change status, watch, like, follow and their opposites | `WatchStory` counts before it looks for an earlier watch (`story.go:349`); rows saved after reads; no unique index (`like.go:103`); the story id that comes with a role is the client's, and an unfollow that names another story deletes nothing and counts all the same (`storyrole.go:119`) | counts agree with the items they count |
| Groups (`pkg/group/group.go`, `models/group.go`, `UserInit`) | `group`, `group_member`, `group_profile` rows | create, join, leave, delete, default group | a member is counted twice on joining (`group.go:361`); deleting marks every group (`models/group.go:179`) | the member count is the number of members |
| Comments (`pkg/comment/comment.go`) | comment rows with reply and like counts | create, reply, delete, like, dislike | a reply is read after its deletion (`comment.go:228`) | a thread's count is the number of its replies |
| Chats with roles (`pkg/story/storyrole.go`, `service/message/message.go`, `models/chats.go`) | chats and messages | open a chat, talk, stream | look-up and insertion without an index (`storyrole.go:501`); a stored message whose reply fails (`:549`) | every reply follows its message in the user's chat |
| Message queue (`pkg/message/redis.go`, `store.go`) | channels per topic, message rows | publish, subscribe, replay, cancel, close, save | two goroutines close or send on one channel (`redis.go:232`), a second `Close` closes a closed one (`:220`); ids read and incremented without a lock (`store.go:89`) | no panic; every message delivered and numbered |
| MCP service (`service/mcps/`) | one lock, tables of stories, tools, prompts, resources | `HandleRequest` and its handlers, tools | the handler takes the lock its caller holds (`mcp.go:247`) | every request is answered |
| Accounts and tokens (`pkg/auth/auth.go`, `models/auth.go`) | user, auth and profile rows; tokens | register, log in, refresh | three inserts, no transaction (`auth.go:94`); the token names the id of the auth row | a token names the user of its account |
| Edits of users, groups, roles, boards, projects, items | one row each | about twenty UPDATEs | conditions after the UPDATE; whole rows saved after reads (`models/user.go:308`) | the row that was named holds what was asked for, and no other changes |
| Listings (all packages), activity feed | any table | forty queries read page by page | rows move between two pages; the number a client sends means a page, a page less one, or a row | nothing is missed, nothing is shown twice |

### The rest

VIP accounts (`pkg/pay/vip_service_impl.go`: an interface over a store that only a
test implements), the older Stripe pay service (`service/pay/pay.go`, no caller; its list of orders is in
`Listings`),
request handlers that pass calls on (`service/group`, `service/server.go`),
prompts and discussions (texts, stubs), clients of external services
(`pkg/client`, `pkg/cloud`, `pkg/thirdpart`), database access
(`models/database.go`, whose `deleted = 0` every module takes into account),
utilities, configuration and programs. Section 9 says why they are left out.

`PROJECT.json` lists the same components with their sources, and every hazard at
the line where it bites.

## 2. Modules

| module | what it is |
|---|---|
| `Payments` | the life of an order once it exists: payments, callbacks, cancellation, sweeps |
| `PaymentLedger` | the abstract specification that `Payments` implements: owners, captures, orders paid, subscriptions granted, callbacks answered |
| `PaymentsProofs` | invariant, safety theorems and the refinement, for any instance |
| `Checkout` | how an order comes to exist: `CreateOrder` against one product row |
| `CheckoutProofs` | its invariant and theorems |
| `Subscriptions` | subscription rows under purchase, quota, renewal, upgrade, cancellation, sweep |
| `SubscriptionsProofs` | its invariant and theorems |
| `Storyboards` | the trees of boards, the roots of stories, and the counts of boards |
| `StoryboardsProofs` | its invariant and theorems |
| `Requests` | how a request of the services around stories is served: goroutines, one step per call, failures, requests that overlap |
| `Audience` | watches and likes of stories and roles, and the counts beside them |
| `Groups` | groups, members, profile counts, the default group |
| `Comments` | comments, replies, likes, counts |
| `Rendering` | `story_gen` rows and the look-ups that decide whether to render |
| `Scenes` | scenes under edits and image calls |
| `Accounts` | registration, login, tokens |
| `McpService` | the maps of the MCP server and their reader-writer lock |
| `Messages` | one topic of the Redis queue, its subscriptions, and the message store |
| `Listings` | the queries and handlers that answer pages, and a client that walks them |
| `Edits` | the edits of a row, of every row, and of a row that was read before |
| `Chats` | chats with roles, their messages and replies |
| `RequestsProofs` | lemmas about `Requests` that the services' proofs share: how a step moves one goroutine, what stays of the others, and that some id is the lowest |
| `CommunityProofs` | invariants and theorems of `Groups`, `Comments`, `Chats`, `Accounts`, `Messages`, `Listings` |
| `StoriesProofs` | invariants and theorems of `Audience`, `Edits`, `McpService`, `Scenes`, `Rendering` |
| `MCPayments`, `MCCheckout`, `MCSubscriptions`, `MCStoryboards`, `MCServices` | model values, small sets and symmetry for TLC; the last composes the services |
| `ServicesProofs` | `MCServices` serves each service as its module specifies it, and everything has its type |

The modules follow the life of a purchase: `Checkout` ends where `Payments`
begins (an order row with status Pending), and `Payments` ends where
`Subscriptions` begins (a subscriptions row). They share no other state, so each
is checked alone and the hand-over is in their `Init`: `Payments` starts with all
orders inserted, `Subscriptions` inserts a row at any time. A bug that lies in
the hand-over is still seen where it shows: the second subscription of a
repeated callback is a step of `Payments`.

The services around stories all extend `Requests`: they share its goroutines, its
bound on failures and its record of requests that overlapped, and each adds
tables of its own. `MCServices` puts them into one next-state relation: the first
state chooses the service that is served, the tables of the others stay as they
are. They share goroutines and a database server, and two kinds of row. Story rows
are saved by `Audience` and by comments: `Comments` has `ChangeSubject` for the other
handlers that save the row, `Audience` leaves the comment's save out, since it
writes counts as they were read, as `SaveStory` does. Rows of boards and profiles
have their counts in `Storyboards` and `Audience` and their own columns in `Edits`,
which has the handlers that save whole rows of them.

Each module is written to be proved about as well as checked: constants with a
named assumption, one action per call of a handler, a type invariant,
history variables only where a property relates a state to earlier ones
(`repeats`, `granted`, `bought`, `born`, `line`, `liked`,
`published`, `asked`, `astray`, `joined`, `uncounted`, `left`, `given`, `writes`, `unsure`, `edited`, `crossed`,
`shared`, `wanted`, `disturbed`, `moves`), no recursive
operators.

## 3. Correspondence with the code

`PROJECT.json` maps every definition to the lines it stands for. In outline:

**Payments.** `order`, `paymentTime` are columns of `orders`; `rec` the
`payment_records` rows, keyed by the provider's id of the payment, which is what
callbacks look them up by; `subs` the number of `subscriptions` rows inserted for
an order; `listed` the products that are not deleted. `intent` is the provider's
side. `task[t]` holds the locals of a request; its `pc` names the call it makes
next.

| code | actions |
|---|---|
| `CreatePayment` | `CreatePayment` (read order, check), `OpenIntent` or `IntentRefused` (provider), `CreatePaymentRecord` |
| `ProcessPaymentCallback`, `handlePaymentSuccess`, `CreateSubscription` | `ProcessPaymentCallback` (parse), `GetPaymentRecordByProviderOrderID`, `MarkRecordSuccess`, `MarkOrderPaid`, `ReadProduct`, `CreateSubscription`, `AnswerCallback` |
| `CancelOrder` | one conditional UPDATE |
| `ProcessExpiredOrders`, `ProcessExpiredPayments` | one step for the list, one per row (`ExpireOrder`, `ExpirePayment`), any of which may fail and be skipped |
| provider, payer | `Capture`, `Close`, and the posts that start `ProcessPaymentCallback` |
| failed call, panic, crash | `Fault(t)` at any step of `t` |
| `QueryPaymentStatus`, `RefundPayment` | none: they end at their look-up (`GetPaymentRecordsByOrderID` in `Listings`) |

**Checkout.** `stock`, `sold`, `listed` are columns of one product; `request[r]` is
how far the call `r` of `CreateOrder` came, `placed` the orders inserted, `edits`
the rows read by operators who have not saved them. `InsertOrder`,
`DecreaseStock`, `IncrementSoldCount` are the three writes of `CreateOrder`;
`CallFails` their failures, of which the last is only logged. `ReadProduct` and
`UpdateProduct` are an operator's edit: what is saved is every column of the row
that was read.

**Subscriptions.** `row` are the rows; a task holds the row it read. Two kinds of
write: `UpdateSubscriptionQuota` (one column, computed from the row read) and
`UpdateSubscription` (every column of it). `granted`, `bought` and `born` record what
properties compare the row with.

**Storyboards.** `board` are the rows, `root` the column of the stories, `likes` the
like items; tasks hold the rows they read. `Updates(old, new)` is gorm's
`Updates(struct)`, which leaves out zero fields. `line`, `liked` and `published`
record which boards a board was created after and what was asked for on it; a
fork inherits all three, as it copies the row. `CreateStoryboard` takes any board
that was ever inserted as the one to continue, deleted or of another story, as the
handler looks at none of it.

**Requests.** `worker[w]` is a goroutine: `pc` the call it makes next, `user`, `op` and `on`
the request, `got` what it has read. `Begins` receives a request, `Goes` and
`GoesWith` make a call, `Logs` is a call that fails and is only logged, `CutOff` one
that fails and makes the handler return, or a process that stops. `Serves` is a
handler of one call. `overlapped` remembers that two requests of one user were in
flight at once (nobody is logged in while registering, so any two
registrations overlap).

| module | code | actions |
|---|---|---|
| `Audience` | `CreateStory` | `CreateStory`, `IncGroupProfileStoryCount`, `IncrementCreatedStoryNum`, `IncrementWatchingStoryNum`, `CountWatches`, `InsertWatch` |
| | `WatchStory` | `WatchStory`, `CountFollower`, `GetWatchItemByStoryAndUser`, `CountWatches`, `InsertWatch`, `IncrementWatchingStoryNum` |
| | `LikeStory`, `UnLikeStory` | `CreateLikeStoryItem`, `GetStory`, `SaveStory`, `DeleteLikeItem`, `CountLikedStory` |
| | `CreateStoryRole`, `FollowStoryRole`, `LikeStoryRole` and opposites | `InsertRole`, `CountRoleWatches`, `WatchStoryRole`, `UnWatchStoryRole`, `CountRole`, `CountProfile`; the story id a client sends with a role is any or none (`NamedStories`) |
| `Groups` | `CreateGroup`, `UserInit` | `FindGroup`, `InsertGroup`, `CreateGroupProfile`, `FindMember`, `InsertMember`, `IncMembers` |
| | `JoinGroup`, `LeaveGroup`, `DeleteGroup` | `FindMember`, `InsertMember`, `IncMembers`, `IncMembersAgain`; `DeleteMember`, `DecMembers`; one UPDATE |
| `Comments` | `CreateStoryComment`, `CreateStoryBoardComment` | `CreateComment`, `GetSubject`, `SaveSubject` |
| | replies; likes | `InsertReply`, `IncreaseReplyCount`, `FindReply`; `LikeComment`, `DislikeComment`, `DeleteLike`, `CountLike` |
| `Rendering` | `RenderStory` and seven more | `FindGens` (found, not found, or failed and taken for not found), `CreateStoryGen`, `AskModel`, `RejectAnswer`, `UpdateStoryGen`, in the handler's order |
| `Scenes` | `RenderStoryBoardSence(s)`, `UpdateStoryBoardSence` | `MarkScene`, `DrawImages`, `SaveScene` |
| `Accounts` | `Register`, `Login`, `RefreshToken` | `InsertUser`, `InsertAuth`, `InsertProfile`; one step each |
| `McpService` | `HandleRequest`; tools and prompts | `RLock`, `Lock`, `WaitForReaders`, `Handle`, `LockAgain`, `RefuseFields`; the same without the second lock |
| `Messages` | `Publish`, `Subscribe`, `handleMessages`, `handleHistoricalMessages`, `Close`, `SaveMessage` | `Publish`, `PublishLive`; `Forward`, `Cancel`, `Leave`; `ReadHistory`; `Close`, `CloseStreams`, `CloseAgain`; `SaveMessage`, `Commit` |
| `Listings` | some forty handlers, as records | `TurnPage` answers a page of the handler that was chosen, `LoseRow` one in which a call failed; `AddRow`, `TurnRow`, `TouchRow` are what other requests do between |
| `Edits` | some twenty handlers, as records | `Alter` (one UPDATE), `SaveRow` (a whole row), `UpdateUserInfoOfAll`, `IncrementCreatedBoardNum` |
| `Chats` | `CreateStoryRoleChat`, `ChatWithStoryRole`, `StreamChatMessage` | `CreateChatContext`, `StoreMessage`, `StoreReply`, `ChatRecieveMessage` |

In `Listings` a query is what it shows, what it makes of the number it is given, and
its order; a handler is a query, the rows it reads and does not answer, what it
answers as the next offset, and whether a call that fails loses one row. That is
all that tells forty handlers apart, so each is one line. `Edits` describes an
UPDATE in the same way: table, columns, who may, and whether its condition comes
too late.

## 4. Runs, bounds and what they show

Each run is one question. Passing runs terminate with every action taken.

| run | instance | distinct question |
|---|---|---|
| `Payments_one` | 1 order (subscription), 2 payments, 2 requests at once, Stripe, clock 0..2 with a time to live of 1, 1 fault, 1 repeated callback | do the rows, the provider and the acknowledgements agree when handlers of an order's payments race, fail and repeat? |
| `Payments_orders` | 2 orders (one of a subscription product), 2 payments, 2 requests at once, no faults, clock 0..1 with a time to live of 0 | is every step one of the ledger's, so that no payment or acknowledgement reaches another order? |
| `Payments_live` | 1 order, 1 payment, 2 requests, 1 fault, fair | is a captured payment applied and acknowledged in the end? |
| `Payments_duplicate` (violated) | as `Payments_one`, 1 payment | a repeated callback grants a second subscription |
| `Payments_expired` (violated) | the same, no fault, no repeat | the sweep expires an order that was paid |
| `Payments_envelope` (violated) | the same, Stripe and WeChat, callbacks in the documented envelope | a post is acknowledged and nothing is applied |
| `Checkout_race` | 3 calls (one asks for 2 units), stock entered as -1, 0, 1, 2 or 3, 1 restock, 2 edits, 1 fault | does racing ever take a limited product to "unlimited", lose units or count sales that are not? |
| `Checkout_oversell` (violated) | 2 calls, 1 unit | both are placed |
| `Subscriptions_rows` | 2 rows of one user, 2 requests, durations 1 and 2, limits 2 and 1, amounts 1 and 2, clock 0..2, 2 units bought, 1 fault; two rows race only in the plain case (`Focus`), one row sees plan changes and faults | do rows stay within their limits and purchases, and what holds when plans change? |
| `Storyboards_tree` | up to 3 boards of 2 stories, 1 user, 2 requests at once, up to 2 likes and publications, up to 1 fault, 4 of these together | do the trees, and the roots of the stories, survive racing creations, deletions, forks and stale saves? |
| `Storyboards_deleted` (violated) | 1 board, 2 requests | a stale save brings a deleted board back |
| `Services` | one service at a time; 2 users, 2 requests at once, 1 fault, 3 or 4 repeatable requests and faults together; 2 groups, 2 scenes, 2 rows, 2 e-mail accounts and 1 other, 1 story, 1 role, 1 board, 1 chat role; channels of 1; pages of 2 over 3 rows and what is added, up to 4 of them | what do rows, counts, channels, locks and pages still agree on when requests interleave? (about 1.1 million states) |

Why the bounds are enough for the cases that matter:

* **Two requests at once.** Every hazard listed is a race of two: one that read and
  has not yet written, and one that writes in between. A third request adds
  nothing that the second cannot do by running several handlers one after the
  other while the first is stopped, which these runs contain.
* **One fault** cuts a handler off at each of its steps in turn; two faults in one
  behaviour are two handlers cut off, each of which leaves what one leaves.
* **Clock.** With a time to live of 1 and a clock to 2 there are times before, at
  and after the expiry; with one of 0 and a clock to 1 every order and record
  may be swept as soon as it is there.
* **Two payments** of one order let one be captured while the other is opened,
  closed or swept; those of two orders show that none reaches the other.
* **Stock** to 3 and quantities 1, 1 and 2 allow enough, exactly enough and too
  little; 0 is the value that the column's default replaces.
* **One service at a time** loses nothing: services share no row but those named in
  section 2, and the number of states is a sum and not a product.
* **Three or four requests** are two that overlap and one or two that prepare the
  rows or look at what they left: a group created, joined twice and left; a scene
  created, edited, rendered and edited again. Creating a story or a role is not
  counted, as there are only so many. In `Audience` two requests of one user that
  overlap are all there is: what is claimed of the counts of a story does not
  depend on whose requests they are, and three of two users are checked.
* **Pages of 2 over 3 rows** and those added make a first, a middle and a last page,
  full and not; each row can leave, be put in front or move between any two.
* **A channel of 1** is empty or full; the historical reader reads a message before,
  between and after the live one.
* **Three boards** allow a board, the one it continues and the one that continues
  it (deletion in the middle), a fork next to its original, two first boards, and
  with two stories a board that continues one of another story.

The bounds are `MaxTime`, `MaxFaults`, `MaxRepeats` (Payments); `MaxRestocks`, `MaxEdits`,
`MaxFaults` (Checkout); `MaxTime`, `MaxFaults`, `MaxBought`, `MaxGranted` (Subscriptions);
`MaxBoards`, `MaxCounted`,
`MaxFaults` and `MaxWork`, a bound on the three together (Storyboards): three boards
with a like or with a fault, or two boards with two likes, but not all at once;
`MaxFaults`, `MaxWork` (faults and requests that can be repeated without end,
together; one less, `Lighter`, where requests make many calls, and in `Audience` one
less again, `Lightest`, once two requests of one user overlapped), `Capacity`,
`MaxPages`, `MaxMessages` (services). Goroutines are interchangeable
and are a symmetry set in the safety runs, as are checkout calls of the same
quantity; the liveness run uses no symmetry. Runs of Payments, Storyboards and
the services do not check for deadlock: their behaviours stop when the bounds are
used up, and the MCP server also when a request waits for itself.
Theorems hold for all values of these bounds (section 6).

The properties, by what they are about:

* money: `PaidOrderWasCaptured`, `SubscriptionWasPaidFor`;
* the answer that ends redelivery: `AcknowledgedIsSettled`, `AcknowledgedIsRecorded`,
  `CapturedIsPaid`, `CapturedIsAcknowledged`;
* all of these step by step, as one refinement: `KeepsLedger`;
* stock: `LimitedStaysLimited`, `StockWasOrdered`, `SoldWasOrdered`;
* subscriptions: `UsedWithinLimit`, `ChargedWasGranted`, `TimeWasBought`,
  `ExpiredWasDue`;
* boards: `ContinuesAncestor`, `StoryHasItsRoot`, `CountsWereEarned`;
* counts of the services: `RoleCountsAgree`, `StoryCountsStayEarned`, `JoinsCountTwice`,
  `CommentCountsAgree`, and who is given a default group: `DefaultGroupAfterLeaving`;
* what is written and found again: `StoryIsWrittenOnce`, `BoardRenderIsNeverFound`,
  `EditKeptUnlessCrossed`, `HiddenStaysHidden`, `EditsStandUnlessDisturbed`;
* accounts: `TokenNamesTheUser`;
* the MCP server and the queue: `StuckForGood`, `DeliveredTwiceAtMost`,
  `PanicsOnlyAfterTheEnd`, `NumberedOnceUnlessShared`;
* pages and chats: `NothingMissedUnlessLeft`, `NothingTwiceUnlessInFront`,
  `RepliesStayInTheirChat`.

One more, `WalkEnds`, is proved for every instance and not run.

Much of this code does lose updates, and its authors count as one what it counts
as two. The properties of the services therefore say exactly how far the code can
be relied on: the interference that is needed before a count, an edit or a page
is wrong (`Undisturbed`, `astray`, `crossed`, `disturbed`, `moves`, `shared`, `unsure`), and
what is still true under it. A client of a listing whose numbering the query does not follow
(pages counted from 1 for a query that counts from 0) is walked only where it
reads a page twice (`Repeats`); that it misses pages needs no model.

For every property of a passing run `PROJECT.json` names a mutant: a plausible bug
in a mapped definition under which TLC finds the property violated. Mutated
forms stand beside the definitions they replace and are marked as such.

### Findings

Five runs show the code doing other than what its documentation or comments say.

1. `Payments_duplicate` — `handlePaymentSuccess` (`payment_service_impl.go:905`) never
   looks at what the order was before: a callback delivered twice creates two
   active subscriptions.
2. `Payments_expired` — `ProcessExpiredOrders` (`:814`) writes Expired over an order
   that was paid after it was listed; the captured order ends as lapsed.
3. `Payments_envelope` — the documented callback body (`docs/payment_system.md:245`)
   nests the provider's fields in `data`, and the handler passes the whole body to
   the parser (`payment_handler.go:426`): WeChat's reads "not successful" and the
   post is answered with success, with nothing applied.
4. `Checkout_oversell` — the stock is checked on an earlier read, and the UPDATE
   that finds no stock is no error (`payment_service_impl.go:234`): two orders for
   the last unit are both placed.
5. `Storyboards_deleted` — liking and commenting save the status of the row that
   was read (`models/storyboard.go:248`): a board deleted meanwhile is back.

## 5. Fairness

Only `Payments_live` needs fairness, and `FairSpec` assumes two things:

* `WF_vars(Step(t))` for each goroutine: the Go scheduler runs every runnable
  goroutine, and a database or provider call returns, with an answer or an
  error. A step that stays enabled is taken (or the request ends by `Fault`).
* `SF_vars` on the posts of a callback that is not acknowledged: a provider posts
  again until it gets a success answer, and `net/http` starts a goroutine for each
  post. Strong fairness is needed only because the model has few goroutines,
  which may all be busy when a post is made; in the code there is always one
  free.

Nothing is assumed of clients, operators, timers, the payer, the clock, or of
faults, which are bounded: a provider that fails for ever is never answered.
The sweeps are not assumed to run. `CapturedIsPaid` says that the time of payment
gets set, not that the status stays Paid; `CapturedIsAcknowledged` excludes orders
whose product is deleted, for which `handlePaymentSuccess` fails at every delivery.
Both speak of payments whose record was inserted: one for which the insert
failed is never applied (`payment_service_impl.go:376`).

## 6. Proofs

Every theorem is checked by TLAPS for all values of the constants that satisfy
the module's assumption: any number of orders, payments, requests, products,
boards and users, any bounds. Each proof module has the same shape:
an inductive invariant `IInv`, a lemma that says which facts only grow (`Grows`,
`Keeps`), a lemma per action, `Invariance == Spec => []IInv`, and the properties as
consequences. `CommunityProofs` and `StoriesProofs` do this once for each service, with
its name in front (`GroupsInv`, `GroupsInitHolds`, `GroupsNextKeeps`, `GroupsInvariance`).

**PaymentsProofs.** The properties are not inductive: whether a callback may mark
an order as paid depends on what its task found several steps before. `IInv` adds

* what each program counter of a callback implies about the locals (`Sound`): a
  task that marks a record or an order holds a captured payment of that order; once
  past the record it holds a record that is `Marked`; one that subscribes holds a
  paid order,
* that a payment is opened once, belongs to one order, and keeps order and
  method, and that its record agrees with it,
* that a payment which is about to be recorded has no record yet and that one
  request alone is about to record it (`FreshInv`): no insertion resets a status,
* that what a sweep has listed has lapsed, so an Expired written over a Success
  comes only after the record's time,
* that orders in `paymentTime` have a captured payment.

Since captures, owners, marks and payment times only grow (`Grows`), a fact found
at one step is still true at the next whatever others do; that is the lemma on
which all interleavings rest. Results: `TypeCorrect`, `NoPaymentNoOrder`,
`NoPaymentNoSubscription`; and, under the assumption `~ Enveloped`, `Acknowledged`,
`RecordIsKept` and `Refinement` (every behaviour of `Payments` is one of
`PaymentLedger`). Without that assumption the last three fail: that is the finding of
`Payments_envelope`.

**CheckoutProofs.** `IInv` says that a product entered with a positive stock has a
non-negative stock column in the row and in every row an operator holds, and
that `sold`, in the row and in those rows, is at most the number of calls that
reached their end, each with an order. For `StockWasOrdered` it adds `Taken`: what
left the stock, in the row and in the rows being edited, is at most the units of
the calls that got past the UPDATE of the stock (`Past`). A saved row may be
older than a restock, so the bound on the row needs one of the two not to have
happened, and the bound on edited rows that nothing was restocked: hence the
premise of the property. Units are the pairs of `UnitsOf`, so that adding a call is
adding a disjoint set (`UnitsAdd`). Results: `TypeCorrect`, `StaysLimited`,
`StockIsOrdered`, `SoldIsOrdered`.

**SubscriptionsProofs.** `GoodRow` says of a row *or of any copy of it that a task
holds* that its used quota is granted, its end accounted for and, if it is
expired, its purchase over. A save of a stale copy then keeps the invariant
however old it is, because grants, purchases and the clock only grow. Results:
`TypeCorrect`, `WithinLimit`, `ChargesAreGranted`, `TimeIsBought`, `ExpiryIsDue`.

**StoryboardsProofs.** `IInv` says of every row, and of every image a request holds,
that its `prev` is in the `line` of its board, that it keeps its story and that its
counts were earned; and that lines are closed and descend to earlier boards, of
whatever story. `line` is set at insertion and never changes, which is why a
stale `prev` does no harm and re-parenting to the deleted board's `prev` is safe.
For the roots, `IInv` says that a root is a board of its story, since whoever will
write it holds the row it inserted; that a story with boards has one is
an invariant of its own on top (`RootsInv`): a request that found a root set keeps it
set, since nothing takes a root back, and one that found none writes one unless a
call fails. Results: `TypeCorrect`, `NoBranchIsMoved`, `WalksEnd`, `CountsAreEarned`,
`RootsAreOfStories`.

**CommunityProofs**, one paragraph for each service.

*Groups.* A count is right only at rest; while requests run, it is the *tally*: the
members whose insertion was counted, and those that left and were not yet taken
off (`JoinCounted`). `CountOf` says that the first profile of a group counts its
tally, its creation and its joins. That each call then moves the count by one
needs that a request knows whether its user is a member (`MembersOf`), which holds
because undisturbed no other request of that user is under way (`AloneInv`). For
the default group, `CreatorIsIn` says that its creator is a member, left, or is
being added, and `FoundOf` what a request that found a group may conclude; a user
is given a group only when the one it had is lost (`Lost`). Results:
`JoinsAreCountedTwice`, `DefaultGroupIsForThoseWhoLeft`, `GroupsAreTyped`.

*Comments.* Reply and like counts are right up to the requests that are about to
count (`Repliers`, `Likers`, `Dislikers`), and a request that takes a like off knows
that the like is there (`LikeIsThere`). The count of a story or board is saved as it
was read, so `MadeCounted` bounds the row *and every count that a request read* by
the comments made, less those whose makers have still to count: each later save
writes at most one more. Results: `CommentsAreCounted`, `CommentsAreTyped`.

*Chats.* `Answered` counts, for every chat and message, the replies stored together
with the requests that ask the model for one, against the messages before;
`EachIsAnswered` the same for the whole table with the faults. `OneChat`: undisturbed,
a request that is about to insert a chat knows that there is none. Rows are only
appended, so what was counted stays (`ContextsStay`). Results:
`RepliesFollowMessages`, `ChatsAreTyped`.

*Accounts.* `AccountsInv` says that the `uid` of an auth row is a user of its account,
that there is one row for each kind of account, and that undisturbed the two
tables count alike (`CountsAlike`): a registration is between them at most once, and
a refused one takes an id from both. Result: `TokensAreOfUsers`.

*Messages.* `ClosedByOne` says that a channel is closed while its goroutine still
runs only by a `Close` that came to its end or after a second one, so before that a
closed channel has no forwarding goroutine; `StoreInv` says that every number up to the last one was given
(`Given`), also for what an open transaction has read, and that without shared
transactions the i-th record has number i (`Unshared`). For deliveries, `KnownRow`
budgets each message of each subscription: one copy from the goroutine that
forwards, unless the message is still on its way to it (`OnWay`), and one from the
historical reader once it has read past it. That needs that a message is
published by one request and that Redis hands it on once (`PublishedOnce`). It is
proved of `[MessagesNext]` on top of `MessagesInv`. Results: `PanicsHaveFewCauses`,
`NumbersAreGivenOnce`, `MessagesAreSentTwiceAtMost`.

*Listings.* What was missed or answered twice at the end is no invariant before the
end. `Skipped` are the rows that the client has not seen and that stand behind its
place, `Repeatable` those it has seen and that stand before it. `ListingsInv`: there are
at most as many rows in `Skipped` as rows that left the pages or were lost, and at
most as many answered twice or in `Repeatable` as rows that came in front. A page
moves rows between neither, since the place moves with the answer; a row that is
added, turned or touched shifts the others by one place, so at most one of them
crosses the client's place, and the step counts it. The lemmas are about the
place of a row (`Rank`, as the size of the set `UpTo`): that places are given once and
without gaps, and what one moved row does to them. Results: `FewAreMissed`,
`FewAreAnsweredTwice`, `ListingsAreTyped`.

**StoriesProofs**, likewise.

*Audience.* Story rows are saved as they were read, so `EarnedBy` holds of the row
and of every copy, and what was asked for only grows. The counts of roles and
profiles are tallies again (`RoleTally`, `ProfileTally`), with two deadlines: a request
that changes a follow counts it at the role first and at the profile later, and both are less by the unfollows that left their user a follower
(`astray`, with `RoleDue` and `ProfileDue` for the counts without them). A sum of
likes over all roles is the size of the set of its units (`Summed`), so that a like
adds one pair; `Halfway` are the requests whose like is at the role and not yet at
a profile. Undisturbed no two requests of one user race, which `Knows` turns into
what a request knows of its own watches. Results: `StoryCountsAreEarned`,
`RoleCountsAreRight`, `AudienceIsTyped`.

*Edits.* `RowsStand` is the property; it is inductive with `ImageIsFresh`: the row that
a request holds and will save agrees with the table wherever nothing disturbed
the column since. A write either finds no other request holding the row, or
disturbs the columns that it writes. `ImageIsOwn` says whose profile a held row
is. Whether an UPDATE names a column of its table is a fact of each of the twenty
handlers (`FitsTable`). Results: `EditsStand`, `EditsAreTyped`.

*Scenes.* A rendering holds the row of a scene while images are drawn, and
saves it. `ScenesInv` says that such an image has the prompt of the scene's last
edit unless the scene is in `crossed`, and that its scene was inserted. An edit
either finds nobody holding the row, and every later reader holds the new prompt,
or it puts the scene into `crossed`: so the save of an image disturbs no scene
outside it. Results: `ScenesTypeCorrect`, `EditsAreKept`,
`HiddenIsForGood`; the last needs only that the UPDATE asks for a scene that is shown.

*Rendering.* `RenderingInv` follows the requests for one story from the
look-up to the model: unless two were in flight together or a look-up failed (`unsure`)
there is one of them at a time (`AloneWriting`), nothing was written before it while
it has not asked (`Serving`), and once something was written there is a row to be
found (`WritesInv`).
Rows of a board have status 0 (`RowsInv`). Results: `WrittenOnce`,
`BoardsAreNeverFound`.

*McpService.* `LockInv` says of every request which lock it holds at which
call (`HoldsLock`): whoever is inside holds it once, a writer inside is alone, a reader
inside only reads. A request that waits for its second lock keeps the first; if a
writer has or awaits the lock then, nobody enters and nobody inside writes.
Results: `McpTypeCorrect`, `StuckIsForGood`.

**ServicesProofs.** `EachIsServed`: with `part = "groups"` in the first state, a behaviour of
`ServicesSpec` is one of `GroupsSpec`, and so for the eleven services. The
theorems above are therefore theorems about what the run `Services` checks.
`ServicesAreTyped` combines the eleven: the tables that are not served keep the
types they start with, the others have the invariant of their service.

The assumptions are those in the modules, and each is what the code or MySQL
gives: ids are positive, e-mail addresses are no telephone numbers, `None` is no id,
quantities, page sizes and channel capacities are positive, bounds are
natural numbers. Only `Checkout` assumes that there are finitely many calls; in the
services that what is counted is finite is part of the invariant, for it is made
one request at a time.

**Only model-checked**: the liveness properties `CapturedIsPaid` and
`CapturedIsAcknowledged` (liveness under fairness and ENABLED are beyond the prover),
and the violations. Every other property of a passing run is a theorem.

Definitions were stated so that the provers can reason about them: places in
`Listings` as sizes of sets instead of a walk along the table, sums in `Audience` and
units in `Checkout` as sizes of sets of pairs, copies of a message in `Messages` as the
size of the set of its places, the lowest id of a set by `CHOOSE`. Where a proof
needs the least or first of some rows, `SomeIsLowest` gives it from well-foundedness
of `<`.

## 7. What the code does that no property forbids

Met while modelling; each is a behaviour of the models, allowed by the
properties, and not carried as a run of its own:

* two overlapping `ConsumeUserQuota` calls are both granted and one is forgotten
  (`payment_service_impl.go:731`): `granted` may exceed `used`;
* a renewal or an upgrade saves the status it read, so a subscription cancelled
  or expired in between is active again (`models/subscription.go:160`), and of two
  overlapping renewals one is lost (`payment_service_impl.go:660`);
* the sweep expires a row renewed after it was listed (`:844`);
* a product without a duration, "permanent" ones included, gives a year (`:595`);
* a product entered with stock 0 becomes unlimited by its column default
  (`models/product.go:52`);
* `QueryPaymentStatus` and `RefundPayment` always answer `ErrPaymentNotFound`, and the
  lists of a user's orders, records and subscriptions always fail: there is no
  column created_at (`models/payment_record.go:312`); so no payment is ever refunded;
* WeChat's parser takes a post without a result for a payment that failed
  (`pkg/pay/wechat_provider.go:89`), where the others return an error: `Lenient`;
* a board may continue a board of another story, as nothing compares the two
  (`pkg/story/storyboard.go:27`), or one that is deleted by the time it is inserted; a
  board added while its parent is being deleted stays under it;
* a fork of a deleted board inserts an empty row; a fork carries the counts of
  the board it copies;
* taking back one like deletes every like item (`models/like.go:112`); likes that
  overlap are lost from like_num; `CancelStoryboard` counts down whether or not the
  board was published;
* `LikeStory`, `UnLikeStory` and `CreateStoryComment` save stale story rows,
  root_board_id included.

Stories, groups, accounts:

* `WatchStory` counts a follower again each time it is asked to (`story.go:349`); the
  last like of a story cannot be taken off, as a zero is not written;
* an unfollow of a role that names another story than the follow did deletes
  nothing and lowers the counts of role and profile (`storyrole.go:119`), as often as it
  is sent; likes of roles are counted whether or not an item was there;
* `DeleteProject` writes `deleted = false`; deleting a scene or an item names a column
  that is called "status = ?" or "delete = ? ", and fails every time;
* `UpdateUser`, `UpdateUserInfo` and `UpdateItem` give their condition after the UPDATE
  and write every row of the table; a "description" in an edit of a profile makes
  the whole edit fail (no such column);
* `UpdateStoryboard` and `UpdateStoryRolePrompt` compare the creator with the id of the
  row, and so let nearly nobody edit;
* `GetGroup` never reads the group it answers about; `UserInit` answers with an
  error to whoever is a member of its default group, so a default group is only ever
  given after it was left or deleted;
* a login answers with the id of the auth row (`auth.go:153`); the empty e-mail
  address and the empty telephone number are unique, so there is one account of
  each kind; accounts with a telephone number are given no token.

Pictures and texts:

* a story whose earlier row could not be looked up is written again: the error is
  thrown away (`story.go:476`);
* `story_gen` rows of boards are never found, so `GetStoryBoardRender` and
  `GenStoryboardImages` only answer "storyboard is not rendering"; an empty row that a
  failed `RenderStory` left answers "story is rendering" for ever, and a role's row
  with the same id does so as well;
* `GetStoryBoardSenceGenerate` answers "already generating" for every scene.

Servers:

* every request to `HandleRequest` that writes waits for itself, except
  `create_resource`; a read waits for itself if a writer comes between;
* a second `Close` of the queue closes a closed channel and panics (`redis.go:220`);
* the historical reader of a subscription never returns and may send on the
  closed channel (`redis.go:179`); messages are delivered by both readers;
* the reply that `StreamChatMessage` sends is the user's own last message with the
  role as its sender; `cleanupInactiveClients` works on a map that nothing fills;
  `InitChatContext` and `ChatReplyMessage` have no caller.

Pages: what "page" means differs from query to query (a page, a page less one, the
number of a row); some `Limit` and `Offset` calls come after the `Find` they are meant
for, and the whole table is answered; `GetGroupByName`, `GetUserJoinedGroups`,
`GetUserWatchingProjects`, `GetStoryItemByGroup` and the feeds by story and by role never
answer a row; `GetProjectItems` and `GetGroupItems` answer nothing when there are rows;
`GetUserItems` asks for the project that has the user's id; deleted story comments
stay listed; unpublished boards appear in the feed of watchers; chat messages
beyond the first hundred are never shown.

## 8. Abstractions

All modules:

* a database call is one atomic step, and a call that fails has no effect. A
  request that fails, panics or crashes ends where it stands (`Fault`);
* `models/database.go` adds `deleted = 0` to queries and updates: rows that are
  deleted are not found, as `Found`, `listed` and the records of the models say;
* functions that only the service's interface offers, with no caller in the
  repository (`IncreaseStock`, `RenewSubscription`, `UpgradeSubscription`,
  `ConsumeUserQuota`, the sweeps), are taken to be called at any time, as the
  interface allows; `PaymentHandler` is complete although `service/server.go` does
  not register it.

Payments: expiry of an order is counted from time 0; amounts and the retry, risk
and dispute columns are left out, as nothing here decides by them; so are
statistics; callbacks come flat, with the provider's name beside the provider's own
fields, unless `Enveloped`. Posts come from the providers: what `VerifyCallback`
decides is not modelled. Providers differ only in how they read a post with
nothing in it (`Lenient`: WeChat).

Checkout: one product; SKUs, prices, the sale window and view counts are left
out; restocks add one unit at a time; `StockWasOrdered` is silent when a product
was both restocked and edited, since an edit may undo a restock.

Subscriptions: products are not edited; the product that `RenewSubscription`
reads is read in the same step as the row; roles, contexts and models of a plan
are copied and never read.

Storyboards: clients name a board that was inserted as the one to continue, of any
story, which may be deleted by then; stories stay open; creator, stage, role rows, profile
counters and the activity feed are left out; comment_num behaves as like_num and
is abstracted away; a handler that runs into a nil row panics and has no further
effect; counting and inserting a like item is one step.

Services:

* Audience: one like or watch item stands for equal ones, as every query asks
  whether there is any; requests name roles that exist, and with them any story or
  none; texts of stories and roles are left out.
* Groups: a user gives all groups it creates one name; requests name groups that
  exist or existed; edits of groups are in `Edits`.
* Comments: texts are left out; `ChangeSubject` stands for the other handlers that
  save the row commented on.
* Rendering: what the model writes is either JSON or not; rows have no time, and
  their order is that of their ids. Scenes: prompts and images are versions.
* Accounts: passwords and signatures are left out, and with them `ResetPassword`;
  `Expire` is the passing of three days.
* McpService: the lists of characters and points inside a story are left out;
  requests of the websocket and of tools are the same but for the lock; the
  websocket server itself (`server.go`) is constructed by nobody.
* Messages: one topic; Redis keeps the order of what it is given and forwards all
  of it to a connected subscriber; consumer offsets are left out.
* Listings: rows created at the same time keep the order of insertion; a board
  watched through several roles is listed once for each, which the model shows
  once; the column to order boards by is the client's, one of those of the
  enumeration that the generated code holds, which is not in the repository, and
  may be one that the table does not have; a client walks one listing from its first page, and nothing moves before.
* Edits: user ids are row ids, and all rows belong to user 1; columns that behave
  as another one (location and email as avatar, a role's character and images as its
  prompt) are left out.
* Chats: the messages of a request name its user and role; reading the role and
  asking the model are one step with waiting for the reply.
* `init.sql` names its columns created_at where the models say create_at: the
  tables are taken to be those that `AutoMigrate` makes, everywhere: a query that
  names created_at fails.

## 9. Not modelled

* **VIP accounts**: an interface over a store that only a test implements; what its
  code would do is what `Subscriptions` does.
* **Stripe pay service** (`service/pay/pay.go`): inserts an order after a payment
  intent and never marks it paid; nothing calls it. Its list of orders is in
  `Listings`.
* **Payments**: `GetPaymentURL`, statistics, order items, risk and retry columns
  (the lists are in `Listings`); `UpdateOrderStatus` and `UpdateOrderRefund`
  (`payment_service_impl.go:267`, `:271`) and `UpdateSubscriptionQuota` of the service
  (`:631`), which the interface offers and nothing calls: each would write a column
  with whatever it is given, so no property of that column would be left.
  **Products**: SKU rows and prices.
* **Storyboards**: role rows of a board and the profile counters changed beside it;
  the feed rows that many handlers insert at their end.
* **Projects**: watching one inserts a row and then fails on a column that does not
  exist, so nothing depends on it. Members, followers of users and item likes are
  stubs.
* **Message queue**: consumer offsets, which nothing reads back, and `rmq.go`, a
  client example.
* **Request handlers** that pass calls on; **prompts and discussions**, texts and
  stubs; **clients** of external services and the cloud SDKs, pure I/O; **database
  access**, whose effect is in every module; **configuration, conversions, programs**;
  how tokens are signed.

What would come next: a ledger for quota that `Subscriptions` is shown to implement
(`ChargedWasGranted` is its safety half), and an abstract log that the subscriptions
of `Messages` are readers of.
