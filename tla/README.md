# TLA+ models of viecz

viecz is a marketplace of small jobs. Users post tasks, others apply, the requester accepts an applicant,
pays the price into escrow, and releases it when the work is done. Money enters wallets through PayOS
payment links and leaves through PayOS payouts. The server is one Go process (`server/`) over one
PostgreSQL database; an Angular web client and its mobile wrapper call its HTTP endpoints.

Two parts of the program are hard. On the server, the handlers are many goroutines over one database, with few
transactions: money operations lock the rows they use, most others read rows, decide, and write whole rows
back later, while PayOS calls in, polls are answered late, and clients hang up. In the web client, one thread
runs many callbacks: no request is ever cancelled, timers outlive their pages, a page and the session that
opened it may be gone when an answer comes, and the socket is shared by all of it. These modules model both
parts, check them with TLC and prove the central invariants with TLAPS.

## Inventory

| Component | State | Operations | Hard behaviour | What makes it correct |
|---|---|---|---|---|
| Wallet ledger (`services/wallet.go`, `models/wallet.go`) | balance, escrow balance and four lifetime totals of each user | Deposit, Withdraw, HoldInEscrow, ReleaseFromEscrow, RefundFromEscrow | many operations on one row; two rows in a release | no field negative, money is conserved, totals explain balances |
| Escrow payments (`services/payment.go`) | transactions of a task, status of the task | CreateEscrowPayment, ReleasePayment (idempotent), RefundPayment | retries, tasks reopened by stale saves | charged once, paid once, paid or refunded, books agree |
| Tasks and applications (`services/task.go`) | task rows, application rows | CreateTask, UpdateTask, DeleteTask, ApplyForTask, AcceptApplication, CompleteTask | check-then-act without a transaction, whole-row saves | tasker is an accepted applicant, settled tasks stay settled |
| Available balance (`wallet.go`, `task_gorm.go`) | computed: balance - escrow - open tasks | GetAvailableBalance | two reads, then a decision | open tasks never exceed what can be paid |
| Deposits and webhook (`handlers/wallet.go`, `handlers/webhook.go`) | deposit rows, payment references, PayOS links | Deposit, HandleWebhook | repeated, overlapping, reordered calls; crashes between commits | each bank transfer credited exactly once, to the payer of its order |
| Withdrawals and poller (`handlers/wallet.go`, `services/payout_poller.go`) | withdrawal rows, PayOS payouts | HandleWithdrawal, pollPendingPayouts | payout before debit, lost answers, poller against handler, restarts | payouts debited, failures refunded once |
| WebSocket hub (`websocket/`) | clients, rooms, channels of each client | register, unregister, join, broadcast, send | closing channels others send on, reconnects, full buffers | no send on a closed channel, who is connected is online |
| Messages (`services/message.go`) | conversations, messages | chat, typing, read, join, create | a message mutated after it was handed over | every stored message reaches the connected participants |
| Rate limiters (`middleware/ratelimit.go`, `auth/rate_limiter.go`) | counters per client | allow, clean up | one mutex; they only refuse | - |
| Notifications, search index | rows, Meilisearch documents | create, index, delete | best effort, after the commit | the badge counts what is unread |
| Authentication, verification codes, users, bank accounts, categories | user and code rows | log in, refresh, verify, edit | none shared | - |
| Proxies, uploads, configuration, demo, docs | - | - | - | - |

The web client (`web/src/app/`):

| Component | State | Operations | Hard behaviour | What makes it correct |
|---|---|---|---|---|
| Session (`core/auth.*`, guards, interceptors) | tokens and user in `localStorage`, the user on screen | sign in and out, reload, request, refresh, retry, verify | answers that outlive the session, several refreshes at once | what is remembered belongs together, private pages have a token |
| Phone and e-mail sign-in (`auth/`, `core/firebase.service.ts`, `verify-email/`, `payment-return/`) | number or address, the code asked for | send, resend, verify, change the number | one service shared by two pages, awaits that go on after the page | a code is for what is on screen |
| Socket and chat page (`core/websocket.service.ts`, `chat/`) | socket, retries, timers, messages | connect, reconnect, join, send, history | three callers connect, history against socket | one socket, each message once and in order |
| Marketplace and map (`marketplace/`) | filter, pages of tasks, camera, area | type, filter, near me, scroll, search an area | late answers, flights of the camera | the list is of the filter, the circle is the area |
| Task page (`task-detail/`) | task, cards, dialog | accept and pay, complete, delete | two calls with time in between | what is charged was agreed |
| Forms and profile gate (`task-form/`, `apply-task/`, `core/profile-gate.service.ts`) | form, drawer | submit, complete the profile, submit again | automatic second submission | one post per press |
| Wallet page and checkout (`wallet/`, `payment-checkout/`) | history, calls; countdowns, polls | load, deposit, withdraw; poll, redirect | overlapping pages, late polls, timers nobody clears | history without a gap; paid stays paid |
| Lists, bell, profile (`my-jobs/`, `notifications/`, `chat/conversation-list`, `layout/`, `profile/`) | rows, badge, profile | load, page, mark, push, save | answers of other tabs, pushes against counts | shows what is stored |
| Frame (`layout/`, theme, language, snackbar), pickers, landing page | pill, theme; place, deadline; slides | navigate; pick; scroll | scheduled updates, animations started twice | in step with the page, the pick, the scroll |
| Report, widgets, pictures | - | - | - | - |

Interaction: the HTTP handlers call the services; `PaymentService` calls `WalletService` inside its own
database transaction; `TaskService.CompleteTask` calls `PaymentService.ReleasePayment`; the webhook, the
withdrawal handler and the poller goroutine call `WalletService` in transactions of their own; the hub
goroutine is reached through channels. All else is shared through the database. In the client, every page
calls the endpoints through the interceptors of the session; the shell and the chat page share the socket; the
two pages that verify a phone share one service; the forms share the profile gate.

## Modules

| Module | Models | Uses |
|---|---|---|
| `Wallet` | the operations on one wallet row, as functions with the condition under which they commit | |
| `Escrow` | tasks, applications, transactions, wallets: `TaskService` step by step, `PaymentService` and `WalletService` by transaction | `Wallet` |
| `EscrowPromise` | abstract: what the parties of a task are promised about their money | |
| `Deposits` | deposit endpoint, PayOS links and transfers, webhook step by step | `Wallet` |
| `DepositPromise` | abstract: whose money a bank transfer is, and that it is credited once | |
| `Withdrawals` | withdrawal endpoint step by step, PayOS payouts, poller goroutine | `Wallet` |
| `WithdrawalPromise` | abstract: the life of a withdrawal between wallet and bank | |
| `Chat` | hub goroutine, reader and writer goroutine of each connection, channels, chat messages, notifications | |
| `Session` | tokens, users, requests with refresh and retry, guards | |
| `PhoneAuth`, `Account` | sign-in by phone and the profile's dialog; sign-in by e-mail and two pages opened by links | |
| `Realtime` | the socket of the client, the chat page, and the server as they see it | |
| `Marketplace`, `MarketMap` | the list of tasks; the map | |
| `Hire`, `TaskForms` | the page of a task; posting, editing, applying, and the profile gate | |
| `WalletPage`, `Checkout` | the wallet page; the page that waits for a payment | |
| `Lists`, `Shell`, `Profile` | my jobs, notifications, conversations; the bell and the user menu; the profile | |
| `Frame`, `Pickers`, `Landing` | bars, theme, language, snackbar; place and deadline; the two sections told by scrolling | |
| `MCEscrow`, `MCDeposits`, `MCWithdrawals`, `MCChat` | fee functions, owners, symmetry for TLC | the above |
| `MCWebSession`, `MCWebPages` | the web modules, one per scene, and their joint properties | the above |
| `WalletProofs`, `EscrowProofs`, `DepositsProofs`, `WithdrawalsProofs`, `ChatProofs` | theorems about the server and their proofs | `Wallet`, `Escrow`, `Deposits`, `Withdrawals`, `Chat` |
| `WebSessionProofs` | theorems about sessions, the two sign-ins, the socket and the chat page | `MCWebSession` |
| `PagesProofs`, `ScreenProofs` | theorems about the pages: what the user does there; what they show by themselves | `MCWebPages` |

### How the state and the actions correspond to the code

**Wallet.** A row is a record of six numbers. `CanX` is the condition under which operation X commits,
`AfterX` the row it commits. A missing row is the row of zeros: `GetOrCreate` inserts that row, and the
operations that require an existing wallet are refused by the zero row as well (insufficient balance or
escrow). `CanRefund` includes `spent >= amount`, because the update hook validates that no total is negative.
Amounts are unbounded integers: VND amounts are far below 2^63, and every addition is of amounts that the
deposit endpoint or a price has bounded.

**Escrow, transactions.** `CreateEscrowPayment`, `ReleasePayment` and `RefundPayment` each run in one
database transaction that takes the task's row lock with its first statement and keeps it to the commit, then
takes wallet locks. Everything it decides on is under a lock, and every error rolls all of it back (the
"failed" transaction row included), so each is one atomic action, guarded by the conditions of its successful
path. The one read on another connection, the applications in `CreateEscrowPayment`, is ordered at that read;
its failure is ignored by the code, which then charges the task's price (`DbMayFail`). A successful escrow is
unique by a check and by a partial unique index created in `database/gorm.go`. `CompleteTask` repeats the
checks of `ReleasePayment` and calls it, and adds no behaviour; the release of an already released
task is `ReleaseAgain` (or nothing, if the task is completed).

**Escrow, handlers.** `TaskService` uses no transaction for creating, updating, applying and accepting.
Each handler is split at the reads and writes between which other requests run; `slot[h]` holds the local
variables of handler `h`, its `op` is the program counter. `UpdateTask` and `AssignTasker` save every column
of the row they read: `SaveTask` writes the record in the slot, status and tasker included. Consecutive reads
with no write between them are combined where the second concerns data that the decision treats
independently (application and task in `AcceptApplication`; task and existing application in
`ApplyForTask`; wallet and open tasks in `GetAvailableBalance`). Checks that only refuse requests (profile,
deadline, category) are left out: more is allowed. `Abandon` is the cancellation of a request's
context: the database calls that remain fail. Notifications and search come last and change nothing here.
Nothing in the server keeps two requests on a task apart, and nothing in the model does. `stale` is a ghost: the tasks
over whose status a handler has saved another one that it had read before.

**Escrow, deletion.** `DeleteTask` is the one handler that keeps the task's row lock over several steps: from its
checks (op `delete`) on. `Free(t)` says that no deletion holds the lock; it guards every action that locks or writes the row, or
inserts a row that refers to it. The update of the status, `SaveTask` like the two others, goes through the repository's
own connection, not the transaction's, so it is guarded by `Free` as well and waits for the lock of its own request:
the handler ends only by `Abandon`. `delete_never_ends` shows it. What would follow, the cancelled task without a
payment and the rejected applications, is in `SaveTask` and `RejectOther`, and `StatusMatchesMoney` allows it.

**Deposits.** `order` are the deposit rows, `link` and `transfer` what PayOS and the bank know, `refs` the
payment references. The webhook has no transaction around its steps: claim the reference (unique index),
read the order, mark it, credit the wallet (one transaction), close the link. `slot` is as above. A transfer
has the amount of its link. PayOS sends a reference with every transfer. It always is answered
"success": also when the reference cannot be inserted (`ClaimFails`) or the credit is refused, so that no further call has
to come. `lost` is a ghost: the transfers of which a call failed or stopped that way.

**Withdrawals.** `row` are withdrawal rows, `payout` what PayOS did, `slot` the requests, `poller` the one
poller goroutine with the list it has read. Both save whole rows, so that the later save wins. A payout
request whose answer is lost (`Timeouts`) is a payout without an id. `debited` and `refunds` are read off
the wallet's ledger rows. `Restart` stops handlers and poller; the database and PayOS keep their state.
`DebitRefused` is any failed debit: too little money, or an error of the database. `spoiled` is a ghost: the rows that met a
stop, a lost answer, or a save, a debit or a refund that failed, which the code does not repair.

**Chat.** `clients` and `rooms` are the two maps of the hub, `send[c]` and `broadcast` the channels, `closed`
the connections whose channel is closed. `hub`, `reader[c]` and `notifier` are program counters with the local
variables of the hub goroutine, of a `readPump` and of a request that sends a notification; a writer has none
but the channel and the socket (`open`). What runs under the exclusive lock is one action with `LockFree` as a
guard; a broadcast runs under the shared lock and is one action per receiver, so that readers and
`SendToUser` act in between. `Register` and `Unregister` are unbuffered: `Connect` and `Leave` happen when the
hub takes the connection. A send on a closed channel by a hub or reader goroutine sets `panicked`; in a request
handler gin recovers it. `DropClient` writes the maps under the shared lock, and Go's runtime may notice a
concurrent read and end the process: that outcome is a choice of the action. A message is one object that
receivers and sender share: `message[m].type` changes in `Confirm`, and `WriteFrame` writes what it is by then
(a torn read of the type, also possible, is not modelled). Frames without a message are all `OtherFrame`. A ping
does nothing but notice a closed socket, which `Disconnect` does at any moment. Conversations and their
members are given. `MaxInputs` bounds the frames read and the notifications sent, `MaxMessages` the messages
among them.

**Web client, all modules.** One tab. The client's thread runs one callback to its end: a click, an answer, a timer
or a navigation is one action. A request is an element of a small set (`Calls`, `Queries`, ...) with what it
asked for and, once the server has served it, what it was answered: the server's step, and the step that
applies the answer, are different actions, so that answers come in any order, fail, or are lost. Nothing
in the client cancels a request, and a subscription outlives its page; where a page is destroyed, the actions
that write only fields of the page are gone with it, and those that write a service or navigate are kept. Fields
that only choose words or pictures are left out.

**Ghosts.** Some properties hold only until something happens that the code does not handle; a ghost records that it
has, and the property excepts it. These ghosts mark real faults and races of the code, not circumstances that never
matter: without the exception TLC finds the property violated. A property with such a ghost says that nothing else
breaks it. They are, with what they record:

| Ghost | Records |
|---|---|
| `Escrow.stale` | a handler saved a status over another than it had read |
| `Deposits.lost`, `Withdrawals.spoiled` | a call that stopped, failed or was refused halfway, which nothing repeats or repairs |
| `Session.mixed` | an answer outlived the session that asked for it; never reset |
| `PhoneAuth.late`, `overtaken`; `Account.typedOver` | a code that came after a later one was sent for; an address changed while its code was being asked for |
| `Realtime.overlap` | the history held a message that the socket was still to bring, which is then shown twice |
| `Marketplace.overlapped`, `Lists.rushed` | a request was sent before the last one was answered, or the browser went back: the late answer is shown |
| `Lists.moved` | notifications were made or deleted since the first page was loaded: later pages are shifted |
| `WalletPage.overlappedLoads`, `booked` | two loads of the history at once; a row booked since the page was opened |
| `Shell.missed` | a push was overwritten by the answer of a count or of a mark of all, a notification was made while the socket was closed, or a count failed |
| `Profile.crossedOver` | two answers of the profile were on their way at once, or one was lost |
| `Hire.repriced` | the task was given another price from elsewhere while its page was open |
| `TaskForms.savedTwice` | the profile was saved in the drawer a second time while it was being saved |
| `Checkout.rewritten` | the order was settled one way, then the other |
| `MarketMap.early`; `picked` | an area was asked for before the map was loaded; the place picked last, forgotten where a flight is stopped |
| `Pickers.hasty` | a place was chosen while the name of another was asked for, or without a map |

**Session.** `access`, `refresh` and `stored` are the keys of `localStorage`, `current` is `AuthService.currentUser`;
`call[c]` follows a request through `authInterceptor`: sent, refused, refreshing, repeated once. A token is the account it
was issued to. `route` is public, for guests or private, and the guards are in `Navigate`.

**PhoneAuth, Account.** `firebase` is the service's confirmation, one for the application; `step` the awaits that go on.
The sign-in page by e-mail is the form, the code and the answers; the pages a mail and a bank link to are state
machines of their own.

**Realtime.** `ws` is the service's socket and `sock` what the browser knows of it, `timers` counts reconnect timers that are
not cleared. `up` and `wire` are the frames in each direction, `hub` the messages the server has yet to broadcast: the
same hub as in `Chat`, seen by one client. `history` is the page's request, and what it holds is fixed when the
server reads it.

**Hire.** The server's part (`status`, `price`, `offer`, `verdict`, `held`) is what `Escrow` says of one task: an acceptance
is three steps (`CheckAccept`, `TakeApplication`, `RejectOthers`), a payment charges the proposal of an accepted
application or the task's price, and a deletion locks the row and waits (`Locked`). An open task starts with
applications in any state: one accepted and never paid is what a refused payment leaves behind. `executeAcceptApp` is a chain
of calls, accept, escrow, top up, each a request of its own with its own failure. `agreed` is the amount on the
dialog that was confirmed for an application.

**Checkout.** `counting` and `polling` are the two intervals, `redirects` counts the redirect countdowns that
run, and `handle` says whether `redirectInterval` can still stop one of them.

**TaskForms.** The gate holds a callback to the form's `onSubmit`: `SubmitProfile` and its answer submit again, also
when the form is left.

**Marketplace, MarketMap, WalletPage, Lists, Shell, Profile.** Rows are numbers or pages of a filter, so that a list tells
where each row comes from; the server's rows grow in between. `MarketMap` has two areas: a place is a
neighbourhood. The notifications of the server appear twice, for the two pages that work on them: in `Lists` with the marks
and deletions of their own page, in `Shell` with those of the bell, and there `PageReadsAll`, `PageReads` and `PageDeletes` stand
for the other page, which changes what is unread and tells the badge nothing.

**Frame, Pickers, Landing.** Theme and language are stored and read back; the deadline chips are computed in hours of days
of the week, as the code computes them; an animation is the list of script positions that its timers
have still to play.

## Runs

Passing:

| Run | Instance | Shows |
|---|---|---|
| `escrow` | 3 users, 2 tasks, 2 overlapping handlers, 3 rows of tasks and applications together, prices 1 and 2 (fee 0 and 1), failing reads and updates | `TypeOK`, `Conservation`, `LifetimeTotals`, `EscrowBacked`, `EarningsBacked`, `ChargedAndPaidOnce`, `StatusMatchesMoney`, `TaskerWasAccepted`, `SettledIsFinal`, and `PromiseKept`: every step implements `EscrowPromise` |
| `deposits` | 1 user, 2 orders, 2 transfers, 2 webhook calls, crashes, references that cannot be inserted, maximum balance, fairness | `DepositsTypeOK`, `NeverOverCredited`, `EveryTransferCredited`, and `DepositKept`: every step implements `DepositPromise` |
| `withdrawals` | 1 user, 2 overlapping requests, lost answers, failing updates, restarts, maximum balance, fairness | `WithdrawalsTypeOK`, `Solvent`, `WithdrawalSettles`, and `WithdrawalKept`: every step implements `WithdrawalPromise` |
| `chat` | 3 connections of 2 users, 2 conversations, 2 messages, 3 inputs, queues of 1 frame and 2 posts | `ChatTypeOK`, `PanicOnlyAfterDrop`, `ClientsAreUsable`, `InOrder` |
| `chat_delivers` | 2 connections of 2 users, 1 conversation, 2 messages, 4 inputs, fairness | `EveryoneInRoomGetsIt` |
| `web_session` | scenes `session`, `phone`, `realtime`, `email`, `links`; 2 accounts, 2 requests each, 2 retries, 3 messages, fairness | `WebTypeOK`, `RememberedTogether`, `PrivatePageHasToken`, `AccountsStayApart`, `CodeIsForWhatIsShown`, `OneSocket`, `ShownOnceInOrder`, `EveryCallEnds`, `ReconnectingEnds` |
| `web_pages` | 17 scenes, one per page or half of one, from every state in which it opens; 2 requests each; 2 applicants, 3 notifications | `PagesTypeOK`, `ListsFollowTheirFilter`, `ShownIsStored`, `ChargedIsAgreed`, `OnePerPress`, `PickedIsUsed`, `SceneryFollows`, `PaidStaysPaid` |

The two web runs compose modules that share no state. A behaviour picks a scene at its start and plays only that
one, so the states of the scenes add up instead of multiplying; a property of several modules is the conjunction
of theirs. Each scene that is not on stays in one initial state.

Violated, where the code does what a document or comment of the repository denies:

| Run | Property | What happens |
|---|---|---|
| `paid_twice` | `NeverPaidTwice` | a task is charged; an acceptance under way then reads its row, the payment is refunded, and the acceptance saves what it read: the cancelled task is in progress again, and a release pays the tasker from the escrow of other tasks |
| `delete_never_ends` | `DeletedIsCancelled` | a deletion that passed its checks waits for the row lock of its own transaction; the task never becomes cancelled |
| `deposit_credit_lost` | `ProcessedIsCredited` | the reference is committed, the credit refused; repeated calls are skipped |
| `payout_not_debited` | `PaidOutIsDebited` | two payouts are created before either debit, the second debit fails |
| `reconnect_goes_offline` | `ConnectedIsOnline` | a user reconnects; when the old connection ends, the new one is removed from the map |

Other divergences seen while modelling, without a run: the fee of a released task stays in the payer's escrow
balance; two overlapping acceptances leave a tasker whose application is rejected, or two accepted applications; a restart between the
poller's save of a failed payout and its refund loses the refund; receivers of a message may be written
its confirmation (`message_sent`), because the object is shared; a reader that waits to send an error to its own
full queue stays for ever when its writer is gone; a connection dropped by the hub still reads, and its next
answer ends the process; a task can be charged before anybody is accepted and is
then in progress without a tasker (`CreateEscrowPayment` does not look at the tasker); a stale
`UpdateTask` reopens a settled task; overlapping applications of one user insert two rows; a second
application can be accepted while the task is open, and the price charged is the first one's; a row
marked failed after a failed debit is not polled, although a comment says that the poller will detect it. In the
client: an access token refreshed after the user signed out stays, and keeps a guest from the sign-in page; an answer
that verifies an e-mail marks whoever is signed in by then; a page that opens its own socket never joins its
conversation, nor does one that reconnects, and a message sent meanwhile is dropped; a history that overlaps with the
socket shows messages twice; overlapping lists show the answer that came last; a profile saved twice in the drawer
posts twice; an application that was accepted and never paid is charged at its own price when another one is accepted
and paid; the badge keeps counting what the page of notifications has marked or deleted; a suggestion on the map whose
flight is stopped is searched for where it was stopped; a code sent from the profile's dialog is taken for another page's,
and the number there can be typed over; on a Saturday the chip for the weekend is a deadline that may have passed; the profile's late answer
takes the sign-in page's confirmation away; a checkout left while its animation
runs, or whose countdown was started twice, redirects from wherever the user is.

**Bounds.** Two tasks are the least that share an escrow balance, three users the least with two
applicants, two handlers the least that overlap; two prices, one with a fee and one without, decide
both branches of the fee, and applicants propose nothing or the lower price (`Offers`). `MaxRows` has one task with two
applications, or two tasks with one. `DepositCap` bounds lifetime deposits, `MaxApps`, `MaxRequests`, `Orders` and
`Transfers` the rows that can be created. The properties compare sums and statuses, so that larger amounts
bring no new case; the proofs confirm it for those they cover. Two transfers, to one order or to two,
cover a first, an additional and a concurrent payment; two withdrawals with an opening balance for one
cover the overlap. A user with two connections is the least that replaces
an entry of the map; two conversations the least in which a dropped connection stays in one; queues of capacity
1 are full after one frame. In the web scenes two requests in flight are the least of which one can overtake the
other, two accounts the least that can be mixed up, two retries the least with a delay that grows, and two pages
or two rows the least with an order; counters that only delimit a list (`MaxRows`, `MaxNotices`, `MaxVersion`) allow
one more than fits on a page. `MCWebPages` bounds `wallet` to a ledger of one row, because `history` has the
ledger, `suggestions` to a map without its panel, `notices` to one mark under way at a time, and `hire` (`HireBound`) to one edit
of the price and a page that its requester leaves for the form or the checkout only; one of its two applicants proposes no price. Countdowns of two seconds end like those of 300. Deadlock is not
checked: a run in which every row is used up, or whose page is left, stops.

**Fairness.** `Escrow!FairSpec`, for `delete_never_ends` only: a handler that can go on does; nobody has to give up.
`Deposits!FairSpec`: a webhook call that has begun runs on (weak fairness; goroutines are scheduled), and
PayOS calls for a transfer until it is answered, so that one call reaches the webhook (weak fairness of `ReceivePaid`).
Whether that call can insert the reference is not assumed: the failure is logged and answered with success
(`webhook.go:97-99`, `158-161`), and no other call has to come. `Withdrawals!FairSpec`: requests and the
poller run on (the ticker fires for ever), PayOS settles every payout, and reading a settled payout
succeeds sooner or later, although any single read may fail (strong fairness of `CheckPayout`). Users need not
act. A row that was stopped, or whose save failed, is `spoiled` and is not promised anything; a transfer that
could not be recorded, or whose call stopped after recording it, is `lost`: the money is indeed not credited. `Chat!FairSpec`: the hub and the writers run on and a notification under the shared lock is
sent (weak fairness); clients need not read, connect or leave. `SessionFairness`: the server or the network's failure
answers every request (weak fairness; a browser ends every request). `RealtimeFairness`: the browser settles every
socket that is opened and fires every timer (weak fairness); users need not do anything, and no attempt need succeed.

## Proofs

`EscrowProofs` proves, for any finite sets of users and tasks, any prices, fees not above the price, handlers and
bounds, with overlapping requests and with or without failing reads:

- `TypeCorrect`: `Spec => []TypeOK`. In particular no wallet field becomes negative.
- `LifetimeTotalsHold`: `Spec => []LifetimeTotals`.
- `ChargedAndPaidOnceHolds`: `Spec => []ChargedAndPaidOnce`.
- `ConservationHolds`, `EscrowBackedHolds`, `EarningsBackedHolds`: the three sums of the books.
- `Invariance`: the inductive invariant `IInv` the first three follow from.

The argument. Neither `LifetimeTotals` nor `ChargedAndPaidOnce` is inductive alone: that a field stays a natural
number needs the conditions of the wallet operations and the types of the transaction the amounts come from, and that
a release is the only one needs that an escrow comes first. `IInv` is `TypeOK`, `Explained` of every wallet row and
`Lawful` of every history. `Lawful(s)` says of one sequence that escrow is exactly its first row and release occurs
once at most; lemmas say that a first escrow, a refund, a release with or without its fee keep it so. What is proved is
independent of task rows: whatever stale row a handler saves, only its type matters. `WalletProofs` proves once, per
wallet operation, that the row keeps its type and its totals; `TxFacts` what the transactions contain. `NextIInv` has
one lemma per action. The assumptions are those that `Wallet` and `Escrow` name, and TLC evaluates them in every run.

The sums need more. `BInv` is `IInv` with `Owned` (a task that has a history has the requester its escrow row names) and
`BooksAgree` (per user, escrow and earnings are the sums over that user's tasks, and over all users the totals
agree). A payment changes one task's summand and one wallet by the same amount; the lemmas of `WalletProofs` on `Total` say
that a sum over a finite set changes by what one summand does, which is where finiteness is assumed: the code's tables
are finite, and a sum over an infinite set has no value.

About tasks and their status it proves besides, with no assumption on how requests overlap:

- `TaskerWasAcceptedHolds`: `Spec => []TaskerWasAccepted`, from `HInv`.
- `StatusMatchesMoneyHolds`: `Spec => []StatusMatchesMoney`, and `SettledIsFinalHolds`: `Spec => SettledIsFinal`, from
  `MInv == BInv /\ HInv /\ MoneyAgrees`.
- `PromiseKeptHolds`: `Spec => PromiseKept`: `Escrow` implements `EscrowPromise`.

The argument. `HInv` says that applications are for existing tasks of others and that whoever is a tasker, in a row or in the
copy of one that a handler holds, has an application that was decided (`RowsHire`, `Hires`). That some application is accepted is not
inductive by itself, because an overlapping acceptance may reject an accepted one. `Certain` is: an application that
is accepted and that no request in flight goes on to reject. The handler that marks one last makes it certain, and it stays so,
because only pending ones are listed (`ListOthers`). `Hired` extends the claim from tasks with a tasker to those for which a handler is about to save one.

`MoneyAgrees` says of a status, of a row and of every copy in a handler's hands alike, what must have happened before: a task in progress was
charged, a completed one released (`Tells`). Histories only grow, so that a stale copy remains right in this direction; that
is why it needs no assumption on overlaps. The converse (`Told`) is claimed for tasks that are not `stale`, and a stale one was
at least charged. `Priced` says that an escrow row divides a price in fee and net. `DeleteWaits` is the fact that no deletion gets to
its write. For the refinement, the deal of a task is a function of its history, its row and whether it is stale (`DealOf`);
each payment is the step of the promise with its name, wallets alone make a transfer, `SaveTask` over another status is
`Overwrite` (`OverwritePromise`), and so is the idempotent release (`ReleaseAgainPromise`); all else stutters (`SameDeals`). What the promise still
says then is that a task is charged once, paid once at most, to somebody else and less the fee, and that what was settled moves
again only after its status was overwritten: a second return, or a payment after a return, as `paid_twice` shows.

`ChatProofs` proves, for any users, connections, conversations and capacities:

- `TypeCorrect`: `Spec => []ChatTypeOK`: no channel over its capacity, no frame of a message that is not stored.
- `PanicOnlyAfterDropHolds`: `Spec => []PanicOnlyAfterDrop`.
- `ClientsAreUsableHolds`: `Spec => []ClientsAreUsable`.
- `Invariance`: `IInv == TypeInv /\ Safe`.
- `InOrderHolds`: `Spec => []InOrder`, and `NoneIsLostHolds`: `Spec => NoneIsLost`.

The argument. A type like "every written frame has a message" needs that each frame on its way (in the hub's
queue, in the hub's hands, in a send queue, in a reader's hands) is at most `Len(message)`: `KnownFrames`, inductive
because messages are only appended. `Writers` says which actions change which variable, and one lemma per
variable does the rest. For the safety part the key is `ClosedIsGone`: a connection closed by `unregisterClient`
has ended its reader, is in no conversation, in no delivery under way and is not about to unregister again, so no
goroutine can reach its channel; only connections in `dropped` are closed and reachable. It holds because
`UnregistersDone`, `JoinedIsNotNew`, `NewIsOpen` and `RegistersOpen` order a connection's life: new, registered,
reading, done. `NextSafe` has one lemma per action. TLC checked `TypeInv` and `Safe` on the instance of
`chat` before they were proved.

`InOrder` speaks of what arrived; its invariant `OrderInv` follows a message from the reader that stored it, through
the hub's queue, the delivery under way and the line of the connection, to the socket. At every one of these places
the messages of one sender stand in order, and each place is ahead of the one before it. That a message that is
confirmed to its sender is not delivered to that connection besides is part of it.

`NoneIsLostHolds` is the safety part of `EveryoneInRoomGetsIt`: a message on its way to a connection (`OnItsWay`: awaited in the hub's
queue, under delivery, in the connection's queue, written) stays on it with every step, until the connection closes or is
dropped. `KeptInv` adds to `IInv` that a post has the conversation and the sender of the message it carries (`PostsAreAbout`), so
that the hub delivers to the right connections, and that a reader that is done has a closed socket (`DoneIsShut`), so that
who unregisters loses nothing it could still be written. What is left to TLC is that hub and writers go on.

`WithdrawalsProofs` proves, for any users, requests, handlers, amounts, failures and restarts: `WithdrawalsTypeCorrect`,
`RefundedOnceHolds` and `SettledStaysSettledHolds`. The invariant `PayoutInv` adds to the types that a request in flight has a row
of its own, pending and without a payout's id until the handler stores one (`RequestsApart`), and that the rows of the
poll under way have an id and no refund, and none is in the poll twice (`PolledOnce`). So the poller's stale list is
harmless: a row can only have been settled by the poller itself, and a refunded one is failed, hence in no
later list. `SettledStaysSettled` needs that a handler saves "pending" only before it has stored the id. `SolventHolds` follows from `MoneyInv`:
`PayoutInv`, that a transfer is sent once per row (`SentOnce`), and the books of a user (`Books`): wallet, debits under way, transfers and
refunds add up, as sums over the finite set of that user's rows.

`WithdrawalKeptHolds`: `Spec => WithdrawalKept`: `Withdrawals` implements `WithdrawalPromise`, where a withdrawal is asked for,
sent, taken from the purse, closed and returned, each once at most. The mapping reads the purse off the balance, what is
taken and returned off the ledger, and the state of a withdrawal off its row: open while it is pending, closed once it is a
success or a failure. A save is then `Close` or a stutter (`SavePromise`), and that it is never a reopening is where the
stale copies of handler and poller matter. Taking needs one fact more than `MoneyInv`: a handler that is about to debit has
sent the money (`SentBeforeDebit`); the two make `KeptInv`. `RefundedOnce` and `SettledStaysSettled` follow from
`WithdrawalKept` and are in no run; their theorems stay, as they need `PayoutInv` only. The promise leaves
out what the code does not keep: that what was sent is taken, and that what is returned was taken (the violated run
`payout_not_debited`, and the poller's refund before the debit).

`SettledAreSquareHolds` is the safety part of `WithdrawalSettles`: once nobody has anything left to do (`AtRest`), every settled
withdrawal that was not itself spoiled was paid and debited, refused before the debit, or debited and paid back. The poller
may refund before the handler debits, so nothing can be said of one row's debit and refund while both are under way. Instead
`SquareRow` says of a row that was not spoiled: a success has a payout that succeeded; a failure has one that was never made or that
failed, and in the second case it was refunded or the poller is about to. `SentOnce` adds that what was sent is debited or
its handler is about to, and `SquareInv` that only what was sent is debited; at rest the two meet. There is one lemma per
action for `SquareInv`, and `EndInv` joins it to `KeptInv`. What is left to TLC is that
a withdrawal gets settled.

`DepositsProofs` proves `DepositsTypeCorrect` and `NeverOverCreditedHolds`, for any finite set of transfers. `DInv` adds to the types
that links, transfers and references are of stored orders (`Rows`); that the transfer a call holds is recorded and not yet
credited, and no two calls hold the same one (`Calls`), because only the call that inserts a reference goes on; and that the
deposits of a user are the sum of what the credited transfers are worth (`Ledger`). `DepositKeptHolds`: `Spec => DepositKept`:
`Deposits` implements `DepositPromise`. A row is a deal for good, because the webhook saves whole rows of which only the status
changes (`SaveKeepsDeals`), so a credit is the amount of the order to its payer although the call read them before; every
step of the webhook but the credit stutters, and a claimed transfer is credited once (`Calls`).
`ProcessedIsAccountedForHolds` is the safety part of `EveryTransferCredited`: a recorded reference was credited, is held by the call that
will credit it, met the maximum balance, or belongs to a call that stopped; what is left to TLC is that calls go on. It is
the part of `ProcessedIsCredited`, violated in `deposit_credit_lost`, that the code keeps.

`WebSessionProofs` proves, for any accounts, numbers, addresses, sockets, timers, retries, messages and number of requests:

- `SessionInvariance`, `RememberedTogetherHolds`, `PrivatePageHasTokenHolds`, `AccountsStayApartHolds`. `SessionInv` adds what
  requests in flight carry: who sent them, and that an answer that grants a verification follows the server's own row of
  that account.
- `OneSocketHolds`, from `SocketInv` (the variables of the service alone), and `ShownOnceInOrderHolds`, from `FrameInv`: frames carry
  saved messages; what is on the wire is ahead of what the hub has, in the order in which each side's messages were
  saved; what is shown is ahead of both, unless the history overlapped. Each is a relation `Before` between two sequences,
  and the lemmas say what appending to one, taking the head of one and concatenating two do to it.
- `CodeIsForWhatIsShownHolds`, about the two sign-in pages; the profile's dialog, which takes what the shared service has for its own,
  is not in it. For the phone, `PhoneInv` says that a call belongs to the page on screen or to nobody, and that the code sent
  for last, which no other has overtaken, is for the number shown; so is the confirmation, unless the answer that came last was
  overtaken. For the mail, `EmailInv` says that codes are asked for the address on screen while it is not typed over.
- `WebTypesHold`: all types, the numbers of frames among those of the messages (`PageTypes` with `FrameInv`).

`PagesProofs` proves what the pages promise to whoever acts on them:

- `PaidStaysPaidHolds` from `PaidInv`: once the page says paid, or the animation runs, the countdown is stopped, and answers on
  their way say what the order still is.
- `ChargedIsAgreedHolds` from `HireInv`: while nobody edits the task from elsewhere, the page's price is the task's, the amount
  of an open dialog is what its applicant costs, and who was accepted before is not offered for acceptance (`PageKnows`); every
  agreement is to what is due, and an escrow is asked for only when somebody agreed to is accepted (`Agreements`). So the amount the server
  charges is due to an accepted application: one that was agreed to, or one accepted and unpaid from before.
- `OnePerPressHolds` from `FormInv`: a press is spent once. What was posted, the calls that may still post (`Pending`) and the drawer
  that waits never exceed the presses; each answer hands its share on or ends it.
- `ListsFollowTheirFilterHolds` from `MarketInv` and `JobsInv`: while requests did not overlap one request at a time is
  awaited (`Alone`), and when no change of the filter waits (`Settled`) the pieces on screen are the pages of one filter from
  the first, and an answer under way continues them (`ListGrows`); the tasks of my jobs, on screen or on their way, are of the
  tab in the address while none was `rushed`. Of what overlapping requests leave nothing is proved: the page shows whichever answers last.
- `PickedIsUsedHolds` from `CircleInv`, `PickInv`, `PlaceInv` and `PresetInv`: the circle is the area asked for; what was picked last is
  where the flight under way goes, or what the tasks were asked for around (`PickInv`); after a choice that was not hasty a name that is
  still asked for is that of the marked point; a chip that is marked gave its time, and the time is later
  than the moment the form was opened (`PresetIsLater`, calendar arithmetic on days and hours), but for the next weekend on a Saturday.

`ScreenProofs` proves what the pages show by themselves:

- `SceneryFollowsHolds` from `FrameInv` and `LandingInv`. A script tells a set of elements (`Tells`, `ToldBy`) when its stretches show these
  and no others; `ScriptsAreTold` says it of every script of the two sections. `Promised` then says of a step that was played
  that what is shown and what its runs are still to show is the whole slide, whatever resets and plays crossed.
- `ShownIsStoredHolds` from `HistInv` (the rows on screen leave no gap, and only rows booked meanwhile can repeat), `NoticesInv` (the
  rows are the newest ones, up to the offset and the pages asked for), `BellInv` (the badge, once the first count has come, and every answer that will overwrite it make up, with the pushes under
  way, for all that is unread, as long as none was `missed`; marks and deletions only lower what is unread) and `ProfileInv` (the
  last answer taken, or the one about to be, is what the server holds).
- `PagesTypesHold` from `ShownTyped`, which has the types of each page. Where a counter or an index is only in range because
  of something else, the invariant says so: the badge, the pushes under way and the notifications still to be made are at most
  twice the notifications (`BadgeBound`); the total of the notifications only goes down by what is on screen or being deleted
  (`NoticesTyped`); a row of the
  history is a row of the ledger; the profile's forms hold no later version than the server; the dot of the landing page is one
  of its slides wherever the page is scrolled to. `Ascending` of a finite set of numbers lists it
  (`RanksAreTaken`: how many are below a number is its place, by injection into `1..Cardinality(S)`).

A behaviour of `MCWebPages` plays one scene; the lemmas `PagesPlay...` project it onto each page (`WebPlays` those of `MCWebSession`), so the
theorems are about the specification that the run checks.

Every one of these invariants was checked by TLC on the instance of its run before it was proved. The assumptions
are those the modules name (`SocketsAssumption`, `PricesAssumption`, `NobodyAssumption`, ...); TLC evaluates them in the runs. They say that sets
that stand for rows are finite, that values that stand for nothing are no values, that limits are numbers, and, for
the clock of the deadline, that days and hours are those of a calendar.

Every safety invariant and every safety action property of the passing runs is stated by a theorem. Only model-checked is
liveness (`EveryTransferCredited`, `WithdrawalSettles`, `EveryoneInRoomGetsIt`, `EveryCallEnds`, `ReconnectingEnds`),
which is out of the prover's reach. The safety parts of the first three, `ProcessedIsAccountedFor`, `SettledAreSquare` and
`NoneIsLost`, are proved; they are in no run, but TLC checked them on the instances of `deposits`, `withdrawals` and `chat`
before that (`NoneIsLost` fails there, as it should, when `Deliver` skips a connection whose queue is full).

## Not modelled

- Connections of the pool, row locks and their deadlocks, the creation race of a wallet: below the grain of `Escrow`, whose
  transactions are atomic because they take their locks first. The hazards of that kind are listed with this reason.
- The webhook's branch for escrow orders: no code creates an escrow row with an order code.
- `CreateConversation`, read flags, the last message of a conversation; `LeaveConversation`, `Close` and `SendJSON`,
  which nothing calls; `createConversation` of the client, which no page calls.
- Rate limiters and the search index: the first only refuse, the second is a copy that nothing decides on.
- Authentication on the server with its verification codes, user rows, proxies, uploads, configuration: no shared
  state whose interleaving matters here. What the client does with their answers is in `Session`, `PhoneAuth`, `Account`.
- In the client: drawing (charts, pictures, tiles, the canvas, the spinner), inputs that pass a value on, the sections of
  the landing page without a story, the button that sends a verification mail again, server-side rendering, and the stories and
  tests. The mobile client is a wrapper of the same pages.
- Several tabs: `localStorage` is shared, `currentUser` is not; `Session` has one tab.

## What could follow

1. `Connections`: pool, row locks and lock order of `CreateEscrowPayment` and `ReleasePayment`, with `Escrow`'s
   atomic actions as the abstract specification of its transactions.
2. The two reads of `GetAvailableBalance` against `CreateTask`, `UpdateTask`, payments and withdrawals.
3. `Hire` over `Escrow`, and `Realtime` over `Chat`, as refinements.
