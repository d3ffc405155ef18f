# Serenity backend: TLA+ models, model checking and proofs

The Serenity backend (NestJS, TypeORM on PostgreSQL) takes food orders and event
bookings, is paid through a payment service provider (PSP), and hands orders to
a kitchen point of sale (Petpooja) that calls back with their status. This
directory models the parts of it that share mutable state: payments and refunds,
checkout, the life of an order, event bookings, the exchange with the kitchen and
the payment gateways, accounts, sessions and one-time codes, and what
administrators edit while customers order. Paths below are relative to
the repository's root, lines refer to its one commit.

1. [The system](#1-the-system)
2. [How the code is modelled](#2-how-the-code-is-modelled)
3. [Modules](#3-modules)
4. [Runs](#4-runs)
5. [Proofs](#5-proofs)
6. [What the code does that its comments do not say](#6-what-the-code-does-that-its-comments-do-not-say)
7. [Not modelled](#7-not-modelled)
8. [Plan](#8-plan)

## 1. The system

| Component | State it keeps | Operations | Interacts with |
|---|---|---|---|
| `PaymentsService` (`src/serenity/services/payments.service.ts`) | `payment_intent` rows (status, provider reference), `payment_webhook_event` rows | `createIntent`, `confirmIntent`, `applyProviderWebhook`, `assertSucceededForOrder`, `lockPaymentIntent`, `refundForOrderCancel`, `attemptPspRefund` | PSP over HTTP, outbox, checkout, bookings |
| `PaymentOutboxService` (`src/serenity/payments/outbox/`) | `payment_outbox` rows; a running flag per process | `enqueueRefund`, `processDue` (15 s timer), `processOne`, `failAttempt`, `retry` | calls `attemptPspRefund` |
| Gateway adapters (mock, Razorpay, Stripe, PayU) | the references a provider is known by | confirm, parse webhook, refund | PSP |
| `PaymentGatewayConfigService` | a row per provider with encrypted credentials and its active flag | `upsert`, `activate`, the choice of the active provider | environment, payments |
| Checkout: `OrdersService.create` | `serenity_order`, stock of menu items, coupon counter, loyalty ledger | replay by idempotency key, quote, payment check, transaction, points, push | payments, coupons, loyalty, kitchen |
| The quote: `OrdersService.quote`, DIY pricing, coupon and loyalty rules | menu rows, coupon row, settings | price, discounts, tax, fee; invoice; reorder | payments, checkout, kitchen |
| Order cancel and feedback: `OrdersService` | order status, kitchen sync status, stock, ledger | `cancel`, `settleKitchenCancel`, `claimOrderCancel`, `reverseLoyaltyForCancel`, `submitFeedback` | payments, kitchen, notifications |
| Kitchen callbacks: `PetpoojaSerenityOrderService` | order status, the kitchen's order id | `applyOrderCallback`, `applyStoreStatus` | `settleKitchenCancel`, outlets |
| Kitchen push: `PetpoojaOrderOutboundService` | bridge row, kitchen sync status | `pushSerenityOrder` with retries, `cancelSerenityOrder` | Petpooja over HTTP |
| Menu sync, item stock | `menu_item` rows | `syncFromPayload`, `updateStockByPetpoojaIds` | kitchen, stock of orders |
| Counter: `SupportService` | order row | `collectPayment`, `markServed` | - |
| Coupons: `CouponService` | coupon row with `redeemedCount` | `validate`, `redeem`, `upsert` | checkout |
| Loyalty: rules, `LoyaltyService` | `loyalty_transaction` rows | clamp, expiry, earn, debit, reversal | checkout, cancel |
| Events: `EventsService` | event row, `event_booking` rows | `createBooking`, `cancelBooking`, `confirmWaitlistedBooking`; `create`, `adminUpdate`, `adminReject` | payments, notices to the host |
| Outlets, store status | `outlet` and `store_status` rows | create, update, default, open and close | kitchen, orders |
| `AuthService`: one-time codes | `phone_otp`, `auth_rate_limit` rows, accounts, guest orders | request and verify a code, Firebase login, claim guest orders, e-mail limit | users, orders |
| `AuthService`, `UsersService`, `SessionService` | user and session rows | login, refresh, reset and change of the password, logout, deletion | - |
| Devices, notifications, profile | device tokens, profile row | register, unregister, dispatch, opt out, `ensureProfile` | users |
| Seeds (`src/database/seeds/relational`) | rows of every table above | `run`, at each release | the running application |
| Content, saved bowls, files, mail, identity providers, configuration | rows without interaction, side effects | CRUD, sending | - |

What makes it hard:

* **Concurrency.** Node runs one callback at a time, but every `await` lets other
  requests run, and nothing stops several processes from sharing the database.
  Several operations read a row in one statement and write all of it in a later
  one, over whatever happened in between. Others are a conditional `UPDATE`, an
  advisory lock or a `SELECT ... FOR UPDATE`: those have to carry the guarantees.
* **Failure.** A process may die between any two calls; what a transaction had
  open is rolled back, what it did before stays. The PSP may refuse, or refund
  and lose its answer; no idempotency key is sent. The kitchen calls back late,
  twice and out of order, and so does the PSP.
* **Retries.** Clients repeat orders under an idempotency key, the outbox repeats
  refunds up to eight times, admins repeat given-up refunds by hand.
* **Limits.** Stock, coupon caps, point balances, seats, attempts at a code or a login,
  and the connection pool.

What makes it correct, per component:

* *Payments*: a payment is refunded once; a refund is not reported unless it was
  made; an intent is spendable only when the money was taken; a failed refund is
  eventually made, or given up where an operator can see it.
* *Checkout*: one payment pays for one thing; stock is neither oversold nor lost;
  the coupon cap and the point balance hold; a retry gets the same order; every
  request ends.
* *Order life cycle*: a cancel gives stock and points back once and leads to a
  refund; nothing is refunded that was not cancelled; a delivered order stays.
* *Bookings*: seats within capacity; every cancelled deposit is asked back, and
  only those.
* *The quote*: what was paid for can be ordered unless somebody edited it, and its
  lines, discounts, tax and fee add up wherever they are shown.
* *Kitchen*: one ticket per order and answer; a cancel stops it; a menu sync loses no stock.
* *Gateways*: a capture that is told makes the intent `succeeded`, under a name that can be
  refunded; payments go to the gateway that was activated last.
* *Accounts*: a code lets in one login; a token pair is exchanged once; sessions end
  with their password; a rate limit holds under overlapping attempts.
* *Administration*: an outlet is as open as the kitchen said; a default outlet remains;
  a host knows what became of the event; a user who opted out is sent nothing.
* *Seeds*: running them again adds nothing twice and undoes nobody's work.

`PROJECT.json` lists the hazards behind these, each at its line, with the
properties that would catch it going wrong.

## 2. How the code is modelled

* **Threads and steps.** A request (or timer tick, or webhook delivery) is a
  thread with a program counter. It takes one step per awaited database or PSP
  call, and any other thread may run in between. Local decisions between two
  calls belong to the step of the earlier call.
* **Writes.** `repository.save(row)` compares with the row in the table and so ends up
  writing every column that differs from the row read earlier: it is modelled as
  a write of the whole earlier row (its own internal read is merged with its
  write). `update(criteria, patch)` is one conditional statement.
* **Transactions.** In `Checkout` the tables hold committed values only. What an open
  transaction has written and which rows it has locked are functions of its step
  (`HasIntent`, `HasRow`, `HasItem`, `HasCoupon`), so a rollback just ends the request,
  and a statement that needs a locked row waits. In `OrderLifecycle` the claim of a cancel
  is one transaction whose first statement decides everything, one step. In
  `EventBookings` the row lock on the event is a function of the steps as well.
* **Crashes.** A crash ends a thread between two of its steps; a bounded number happens.
* **Data.** An order, an item, an intent, a key or a user is a model value. One line of an
  order is one unit; the price of a cart is ten per line less coupon and points, so
  that two carts can cost the same. Notices, logs, history rows, rider details and
  provider payloads are left out. Which pending outbox rows are due is left open,
  which stands for any back-off delay.
* **History variables** (`lost`, `over`, `revived`, `forgot`, `left`, `crashes`) only count
  what happened; no guard but the bounds reads them.

## 3. Modules

The core, each in runs of its own:

| Module | Models | State | Actions |
|---|---|---|---|
| `PaymentIntents` | `PaymentsService` and `PaymentOutboxService` | `intent`, `recorded`, `job` are the rows; `captured`, `refunds`, `events` are the PSP's; `pc`, `tgt`, `poll`, `conf`, `hook`, `adm` are the threads | `attemptPspRefund` is `AttemptRead, AttemptClaim, AttemptRecheck, PspRefund, AttemptMark, AttemptRevert`, run by requests (then `EnqueueFind, EnqueueInsert`) and by pollers (`PollDue, JobClaim, JobLoad, JobDone, FailAttempt`); `Confirm*`, `Hook*`, `Retry*` are the readers that save stale rows |
| `RefundLedger` | what refunds promise, without threads, rows or queues | `charged, state, open, paidBack, mishaps` | `Charge, Claim, PayBack, PayBackUnheard, Settle, Forget, Release, Overwrite` |
| `OrderLifecycle` | cancel, kitchen callback, counter, feedback | `order`, `restored` (stock give-backs), `ledger`, `asked`, `told`, `notices` | `CancelRead, Claim, Reread, AskRefund, TellKitchen, Notify`; `CallbackRead, CallbackWrite, CallbackMark`; `DeskRead, DeskSave`; `Place, RecordLoyalty` |
| `Checkout` | `OrdersService.create`, the paid branch of `createBooking`, `CouponService.redeem/upsert` | `committed`, `stock`, `redeemed`, `balance`, `pushed`, `req` | `FindKey, QuoteOrder, Precheck, Begin, LockIntent, Check, Insert, Reserve, RedeemCoupon, Commit, Raced, RecordLoyalty, PushToKitchen`, `DeadlockVictim` |
| `EventBookings` | seats of an event | `event`, `status`, `asked` | `Book*`, `Cancel*`, `Confirm*`, `Edit*` |

What customers and administrators do, checked together by `MCFront`:

| Module | Models | What meets on which rows |
|---|---|---|
| `PhoneLogin` | `requestPhoneOtp`, `consumePhoneOtp`, registration and login by phone or Firebase, `claimGuestOrders` | checks that read, compare and save one `phone_otp` row; two accounts made for one phone |
| `Accounts` | login, refresh, reset, change of the password, logout, deletion; `UsersService.update` | sessions opened and revoked around a change of the password; whole user rows saved with the hash read earlier |
| `AuthRate` | `assertEmailAuthRate` | overlapping attempts for one e-mail count hits under an advisory lock |
| `Devices` | `PushService`, `ensureProfile` and the writers of a profile | a token that changes hands while a push reads, sends and deletes it; an opt-out under a stale save |
| `Outlets` | `OutletsService`, `StoreService`, `applyStoreStatus` | the rows of `store_status`, the shared row 1, the default outlet |
| `GatewayConfig` | `PaymentGatewayConfigService` | `upsert` and `activate` on rows read earlier |
| `HostedEvents` | hosting and review of an event | two admins decide, the host is told by what each read |
| `Bill` | `quote`, `create`, invoice, kitchen's copy, reorder | a quote that is paid, then read again line by line while it is edited |

What partners tell the tables, checked together by `MCPartners`:

| Module | Models | What meets on which rows |
|---|---|---|
| `KitchenSync` | `pushSerenityOrder` with its retries, `orderCallback`, `cancelSerenityOrder` | the bridge row and the kitchen's id on the order |
| `MenuStock` | `syncFromPayload`, `updateStockByPetpoojaIds`, reservations | a sync saves rows it read before orders took stock |
| `GatewayNotices` | `parseWebhook` and `verifyClientConfirmation` of each adapter, as used by `PaymentsService` | the reference a payment is known by, in whatever order notices come |
| `Seeding` | the seeds run by each release | runs that die and the application in between |

`MC<module>` gives each one its instances for TLC. The theorems are in `<module>_proofs` for each
module of the core; in `Access_proofs` for `Accounts`, `AuthRate`, `PhoneLogin` and `Devices`; in
`Front_proofs` for `Outlets`, `GatewayConfig`, `HostedEvents`, `Bill` and `MCFront`; and in
`Partners_proofs` for `KitchenSync`, `MenuStock`, `GatewayNotices`, `Seeding` and `MCPartners`. The modules meet at narrow interfaces and are checked apart:
`Checkout` sees an intent as paid or not (`StatusChanges`, which may also take the
payment away, as a late webhook in `PaymentIntents` does), and a quote as a price, whose
making is in `Bill`; `OrderLifecycle` and
`EventBookings` end at `refundForOrderCancel` (`asked`), where `StartRequest` of
`PaymentIntents` begins, any number of times per intent; `OrderLifecycle` tells the kitchen
of a cancel (`told`) where `KitchenSync`'s `stop` begins.

**Scenes.** The modules that `MCFront` and `MCPartners` put together share no
variable, and no property relates two of them. Their product would only multiply states,
so each behaviour chooses a `scene` and runs that module alone: the
reachable states are the sum of the modules', and an invariant of one holds in every scene if
it holds in its own. The requests of all scenes are one set of model values, so
that one symmetry serves them.

**Refinement.** `PaymentIntents!Promise` maps the rows and the PSP's books to
`RefundLedger`: `open` counts the attempts between their claim and the PSP's
answer and those that are about to give the claim back, whether or not the PSP has made
the refund unheard. `RefundsFollowLedger` says that every step of every request,
worker, retry, webhook and crash is one step of the ledger or none. The ledger allows money to be
paid back only by an open claim and a claim only of money that is kept; whatever breaks
that in the code (an answer lost, a row saved by somebody who knows nothing of the refund) has to
be one of its counted mishaps.

Definitions named `<Action>_<Fault>` (for example `AttemptClaim_Unconditional`) are
not used by any specification: each is an operation with one plausible mistake
in it. Putting it in place of the operation must make TLC report the property
that `PROJECT.json` pairs it with, which shows that the property depends on
that line of the code.

## 4. Runs

Runs that pass:

| Run | Instance | What it shows |
|---|---|---|
| `pay_refund` | 1 intent, 1 cancel request (repeated), 2 pollers, 1 admin, 1 webhook delivery, 2 jobs, 2 attempts; one lost answer, one overwriting save, one crash | However they interleave, refunds beyond the first are owed to lost answers and overwriting saves (`RefundsAccounted`); a claim has an owner unless a thread died (`PendingRefundHasOwner`); all of it implements the abstract ledger (`RefundsFollowLedger`) |
| `pay_events` | 1 intent, a request, a poller, a confirmation, a delivery, events `captured`, `failed`, `wrong_amount`; no crashes, fair | No status says paid without a capture (`PaidMeansCaptured`), a queued refund is made or given up (`QueuedRefundSettles`) |
| `order_cancel` | 1 order with points, 2 customer cancels, 2 callbacks (accept, deliver, cancel), 1 counter request, one crash | Stock and points given back once per cancel, cancel leads to refund, refund only after cancel |
| `co_requests` | 2 shoppers, 1 guest, 2 users, 2 keys, carts that take two items in opposite order, 3 payments, pool of 4; fair | One payment buys one thing, stock adds up, retries agree, every request is answered |
| `co_coupon` | 3 shoppers of one user, a coupon good once, 3 points, a coupon edit, one crash | Cap and balance hold |
| `ev_bookings` | 3 bookings (parties 2, 1, 1) for 2 seats, 2 cancels, 1 confirmation, 1 edit, one crash | Nobody is seated beyond capacity; cancels and refunds match |
| `partners` | 2 callbacks, 2 pushes of the order, a cancel; 2 menu syncs, 2 dishes, seeded or not, 2 codes, 1 outlet with a restaurant id, 1 unit held; 2 tries to pay, 2 handlers, 4 gateways; 2 runs of the seeds, 2 demo orders, one death, one touch by the application | The kitchen cooks once per answer it gave (`TicketsAccounted`), is found by its id (`KitchenIdKept`) and stops (`CancelStopsKitchen`); stock outlives a sync (`StockOutlivesSync`), which lists what it was sent (`SyncListsItems`); a paid intent can be refunded and is noticed (`RefundFindsPayment`, `CaptureIsNoticed`); seeds repeat nothing (`SeededOnce`) |
| `front` | 3 requests in every scene; 2 codes of one phone, 1 guest order; 1 user, 2 passwords; 2 e-mails, 2 hits; 2 owners of 1 device; 2 outlets; 2 gateways, one of them in the environment; 1 event; 2 dishes with the forms they may take, 4 coupons, 2 settings, 3 carts, one edit | One property or two per module, named in section 3's order: `CodesAreAccounted`, `OrdersStayClaimed`; `RefreshedOnce`, `SessionsFollowPassword`, `PasswordIntact`; `HitsWithinLimit`; `RegisteredStays`, `OptOutRespected`; `StoreAsTold`, `DefaultKept`; `PaymentsGoAsChosen`; `HostKnows`; `BillAddsUp`, `PaidQuoteBecomesOrder` |

Runs that end in a violation, each with one property that quotes the code:

| Run | Quoted line | What TLC finds |
|---|---|---|
| `pay_idempotent` | `payments.service.ts:435` "Idempotent when intent already refunded" | A webhook read the row before the refund and saves `succeeded` over `refunded`; the next cancel request refunds again |
| `pay_crash_live` | `payments.service.ts:424` "Persist for automatic retry" | A worker dies with its job `processing`; `processDue` only selects `pending` |
| `order_stock` | `orders.service.ts:687` "must not restore stock again" | A callback judged before a cancel reopens the order; the next cancel restores stock a second time |
| `ev_confirm` | `events.service.ts:422` "expected waitlisted" | A guest cancels while an admin confirms; the confirmation saves the old row as `confirmed` |

**Properties with exceptions.** Many of these operations read a row, wait, and
save it whole, and the code promises nothing about who then wins. The
properties of the newer modules are therefore of the form "this holds, but where that happened",
and the exception is a history variable set by the step that reads or writes over another's work
(`crossed`, `overlap`, `wiped`, `unheeded`, ...). They pin down the only ways in which the result can
go wrong: any other interleaving, or any other bug in those lines, is reported.

**Bounds.** `MaxLost`, `MaxOver`, `MaxCrash` cap how often an answer is lost, a save
overwrites a refund's status, or a thread dies. `MaxAttempts` is 2 instead of 8: one
attempt that may be repeated and one that may not. The outbox has two row ids
in `pay_refund`: a second row appears once the first is given up, and an admin who
retries the first makes both live. One intent and one order are enough in `PaymentIntents` and
`OrderLifecycle`, whose threads only meet on the same row; two users and three intents are used
where requests meet through keys, items and payments. The theorems of section 5
do not depend on these bounds. `Pool` is one more than the transactions of
`co_requests`: with exactly as many, every transaction can hold a connection and
wait for a second one to check its payment (`orders.service.ts:290`), and TLC
reports that `RequestsAnswered` fails; the code's default is 100 connections.
In `front` and `partners` three requests (two where each takes many steps) on the
same row are one that is late, one that overtakes it and one that sees the result. `MaxPushes` is 2:
a push whose answer is lost and its repetition. `MaxCodes` is 2: a code and the one that replaces it.
Limits (`EmailMax`, `RateMax`, `MaxAttempts` of `PhoneLogin`) are one or two instead of the
configured ones, so that they are met. `MaxHeld`, `MaxStores`, `MaxEdits`, `MaxDeaths`, `MaxTouches`,
`MaxRateCrash`, `MaxAccountCrash` and `MaxKitchenCrash` bound what would otherwise repeat without end.

**Deadlock** is not checked, since every thread ends and the instances then stop.

**Fairness.** `PaymentIntents!FairSpec` is weakly fair in the steps of refunding
threads and of the outbox: the runtime carries on with a handler it has started,
HTTP calls end in an answer or a timeout, and the timer keeps ticking.
`Checkout!FairSpec` is weakly fair in each request's next step: the runtime and
the database carry on, a lock that is free is granted. Customers, the PSP's
decisions, admins and crashes are never fair.

**Symmetry** is used in safety runs only, over threads of one kind (in `partners` also over
dishes and codes), which the specifications never tell apart.

## 5. Proofs

The theorems hold for every number of orders, requests, callbacks, items,
users, intents, bookings, sessions and bounds, under the named assumptions of the modules (threads of
different kinds are different, payloads are well-formed, bounds are naturals). One of them is stronger:
`BillForms` takes the kitchen's prices to be no less than zero, which `parsePrice` does not test.
Every safety property and every action property that a passing run checks is a theorem.

**`OrderLifecycle_proofs`.** `TypeCorrect`; `StockIsAccounted`, `PointsAreReversedOnce`,
`RefundsAndCancelsMatch`, `DeliveredStays`.
`StockAccounted` alone is not inductive: that a claim finds an order which is not
yet cancelled depends on the status it read. `Judged` says what a thread knows
about the status it read when it claims, `RefundersCancelled` that a thread about
to ask for a refund works on an order whose stock was given back; together with
`TypeOK` and `StockAccounted` they form `IInv`. `DeliveredStays` follows from
`IInv` because a claim's `UPDATE` tests a status from before delivery.

**`Checkout_proofs`.** `TypeCorrect`, `PaymentsSpentOnce`, `RetriesGetOneOrder`, `CouponCapHolds`,
`PointsStay`, `StockAddsUp`: every safety property of its runs. No unique index spans orders and bookings, so that one payment buys one thing rests on the advisory lock.
`IInv` adds to it: two transactions past `LockIntent` have different intents
(`LockExcludes`), a transaction past `Check` has an intent nobody has spent
(`CheckedUnspent`), and a committed request is past its transaction
(`CommittedPast`). A step changes one request only, so the proof reduces each action to the
change of its step (`StepShape`) and shows once that such a change keeps `IInv`. Each of the others
has an invariant of its own on top, for the lock that takes the part of the advisory one:

* `KeyInv`: two requests with one key never both have a row (`RowsDiffer`), what is committed has
  another key than a row on its way (`RowsAreNew`) and than anything else committed (`KeysDiffer`), and
  an answer names an order that is committed and sends the same (`AnswersTrue`).
* `CouponInv`: who holds the coupon's row found the counter below the cap (`HolderBelowCap`), and the
  counter with what edits made it forget counts the orders (`OrdersCounted`).
* `PointsNotOverdrawn` needs none: the balance is read again under the lock of the step that debits.
* `StockInv`: a transaction takes its cart's lines in their order (`LinesInOrder`), an item's row is held
  by one (`HeldOnce`) and still holds what its holder took (`HeldInStock`). What was sold is the set of the
  committed orders' lines, to which a commit adds those of its own cart; sums over orders, which need
  induction, do not occur.

**`PaymentIntents_proofs`.** `TypeCorrect`, `RefundsAreAccounted`, `ClaimIsExclusive`,
`PendingRefundsAreOwned`, `RefundsAreReal`, `PaidIsCaptured`, `JobsInProgressAreOwned`,
`GivenUpAfterAttempts`: the safety properties of the two passing runs, and four more
(`OneClaimant`, `NoPhantomRefund`, `ProcessingHasOwner`, `DeadOnlyAfterMaxAttempts`) that are
only proved. Every step is
`Aside` (no claim and no intent changes), `Outside` (customers, the PSP, webhooks, confirmations:
a row that they move in or out of a refund is counted in `over`) or one of the five
steps of a claim (`StepShape`); most lemmas then only look at these kinds. Three strengthenings matter:

* `Ledger` for `RefundsAccounted`. A bound on `refunds` alone says nothing about
  an attempt that is about to call the PSP or about to give its claim back. `Holders(i)` are those
  attempts, and refunds plus holders are at most one more than faults, and no
  more than faults while the row shows no refund: a claim turns the second
  bound into the first, giving it back does the reverse, and `lost` or `over` grows with everything else.
* `RowsBacked` for `PaidMeansCaptured`: rows that a confirmation or a webhook read and
  will save are as true as the table, and events only speak of captured payments unless they say `failed`.
* `Made` for `NoPhantomRefund`: the same for refunds, and for the threads that
  are about to record one.

`ProcessingHasOwner` and `DeadOnlyAfterMaxAttempts` are inductive with `TypeOK`; requests and
pollers have to be different threads, since `attemptPspRefund` returns to different code in each.

**`PaymentIntents_proofs`, the refinement.** `RefundsImplementLedger`: `Spec => RefundsFollowLedger`, the
refinement of section 3. Initial books are `Promise!Init`; then one lemma per kind of step says which
action of the ledger it is: a claim is `Claim` (`ClaimInBooks`), the PSP's answer `PayBack` or
`PayBackUnheard` (`PspInBooks`), a mark `Settle`, or `Forget` if it is refused (`MarkInBooks`), giving a
claim back `Release` (`RevertInBooks`), the death of a holder `Release` or, with the refund made,
`PayBack` (`CrashInBooks`), a save of a row read earlier
`Overwrite` or nothing (`SaveInBooks`), and every other step leaves the books alone (`Unmoved`). It uses
`TypeOK` and `Made`: only an attempt whose refund was made marks a row.

**`EventBookings_proofs`.** `BookingsTypeSafe`, `BookingRefundsMatch`, `SeatsAreWithinCapacity`.
`CancelledByGuest` carries the refunds: a row says `cancelled` only if its guest cancelled, and so
does that of a request past its claim, so that a second cancel that finds the row cancelled may leave
the refund to the first. `SeatInv` carries the seats: one transaction at most has the event (`OneHolder`),
and what it counted is no less than what is taken while it has it, since only a cancel may come in between
(`CountedEnough`). The seats taken are the size of the set of the heads of the confirmed parties
(`Heads`), so that no sum has to be taken apart.

**`Access_proofs`.**

* `Accounts`: `PairsExchangedOnce`, `OldSessionsDie`, `NobodyLockedOut`. The hash of a
  session was made by a request under way (`Fresh`), who opened a session never acts again (`Ended`), and a
  session's hash is never again one that was exchanged (`Spent`). Steps are `Quiet`, open a session, or
  exchange a pair (`StepShape`). `OldSessionsDie` and `NobodyLockedOut` rest on `PasswordInv`, which says of
  every request what it has read and done so far: a row about to be written back has the table's password
  unless somebody saved another (`RowTrue`), and what lives of the sessions that a reset or a change has
  revoked is excused until it saves (`RevokedFirst`). Most steps leave passwords and rows alone
  (`PasswordsStay`).
* `AuthRate`: `LimitHolds`. A request counts hits in one step and stores its own in another;
  `CountHolds` says that the count is still below the limit when it does, which holds because the
  advisory lock is one request's at a time (`TurnsTaken`) and hits only ever leave the window meanwhile;
  `HitsPassed` says that a request past its check has its hit only once.
* `PhoneLogin`: `PhoneTypeSafe`, `CodesAreCounted`, `OrdersStay`. What was guessed at a code is bounded by
  its row's own count and the late saves together (`CodeCounted`): the row alone forgets, the property
  alone does not say what a save adds. A check that compares read a row with a guess left (`Comparing`).
* `Devices`: `DevicesTypeSafe`, `DevicesStay`, `OptOutsStand`. Who wished to be left alone and was not saved
  over has it in the profile (`WishesKept`), and whom a push took to be willing did not wish so when it read
  (`CallOk`).

**`Partners_proofs`.**

* `KitchenSync`: `KitchenTypeSafe`, `OneTicketEach`, `IdIsKept`, `CancelReachesKitchen`. Before the kitchen
  has answered, each of its tickets is an answer that was lost (`Unanswered`): that leaves room for the
  ticket of the next try. A cancel that got through came after the push was over (`StoppedInTime`), so no
  ticket is made after it.
* `MenuStock`: `MenuTypeSafe`, `StockIsKept`, `ItemsAreListed`. The maps of a sync lead to rows in its
  memory, which are rows of the table (`MapsLead`), and a row whose name is still to be listed is found by
  it (`NameFinds`); hence a sync that makes a row has seen none under its name. `ItemsAreListed` adds
  `Lists`: for each item done some row shows it and has the name of an item done, or its code has just been
  taken from a row to give it to the next. The attempt to prove it found the property too strong for a menu
  that the seeds have not filled: an item whose name no row has takes the row of its code, which keeps its
  old name, and the next item of that name takes the row over. The instance had begun with every dish
  seeded and could not meet it. Now `MenuInit` leaves open which dishes have rows, and `Renamed` is named
  as an exception.
* `GatewayNotices`: `NoticesTypeSafe`, `RefundsFindPayments`, `CapturesAreNoticed`. A success about to be
  written names a payment that its gateway can refund (`Witnessed`), the row in a handler's hands is of
  the payment's own gateway (`SameGateway`), and a capture that was heard has been written, overwritten, or
  is in a handler's hands (`HeardCapture`).
* `Seeding`: `SeedingTypeSafe`, `SeedsAreSownOnce`. One run is at work at a time, since a release waits
  for its seeds; `RunSound` says what it has passed, found empty and left half done, and `OrdersDone` that
  nobody writes the demo orders once a run has ended.
* `PartnersTypeSafe`: whichever of them runs keeps its invariant.

**`Front_proofs`.**

* `Outlets`: `OutletsTypeSafe`, `DefaultOutletStays`, `OpenAsTold`. `AtDesk` says what an edit that clears
  the default has asked for and read; a row of `store_status` that is not there says nothing, so that who
  makes it changes what is told of its own outlet only.
* `GatewayConfig`: `GatewayTypeSafe`, `ChosenGatewayTakes`. What a request read is what stands unless
  another wrote since (`RowFresh`), and the one active row is the one chosen but between the two statements
  of an activation (`OneActive`).
* `HostedEvents`: `HostedTypeSafe`, `HostsAreTold`. The notice says what the row says or somebody is about
  to tell (`AwareOrWill`); a review that tells nobody leaves a row that says what it said.
* `Bill`: `BillTypeSafe`, `BillsAddUp`, `QuotesAreKept`. What is added up is the fold of the priced lines:
  `SumsGrow`, that a sum of natural numbers is one and a part of the lines comes to no more than all, is
  proved without an induction theorem, by the smallest set of lines that would break it (`SmallestOf`,
  from the well-foundedness of strict inclusion). Products stay opaque terms behind `ProductIsNat`,
  `PointsWithin` and the like. While nothing is edited every read finds what the quote found
  (`Unedited`), so the order comes to the bill that was paid.
* `FrontTypeSafe`: whichever module runs keeps its invariant.

**`RefundLedger_proofs`.** `MoneyGoesBackOnce`, about the ledger alone. Counting what was paid back
is not inductive: `ClaimsCounted` bounds refunds and open claims together, by one less
while the row still says that the money is kept.

**Only model-checked**: liveness (`QueuedRefundSettles`, `RequestsAnswered`), which depends on
fairness and `ENABLED`, out of the prover's reach. The violation runs are counterexamples and need no proof.

## 6. What the code does that its comments do not say

The four violation runs are recorded as findings. Writing the modules showed more
places where the models do what a reader of the code may not expect. No run
claims them, since no line of the repository promises the opposite:

* A callback judged on an old status moves an order backward
  (`petpooja-serenity-order.service.ts:96`, after the test of `petpooja-order.mapper.ts:117`).
* A kitchen cancel that loses its claim to another update is dropped, with a notice
  'Order cancelled' sent all the same (`orders.service.ts:641`, `:655`).
* A counter request can save a row read before a cancel and so revive the order
  (`support.service.ts:219`).
* A cancel between the commit of an order and the record of its points leaves the
  earned points with the customer (`orders.service.ts:336`).
* A request refused for too few points after the commit leaves its order in place,
  discounted (`orders.service.ts:1089`).
* Editing a coupon writes back a `redeemedCount` read earlier (`coupon.service.ts:167`); `forgot`
  counts it.
* A booking passes the registration check before it locks the event, so an event
  closed in between is booked (`events.service.ts:149`).
* A retry that overlaps its first attempt, with the same payment, may be answered
  409 `PAYMENT_INTENT_REUSED` instead of the order: the unique idempotency key is global,
  the lookup is per user and sees committed rows only.
* The settings let a point be worth any whole number of rupees while the number of points is capped
  at a share of the total (`loyalty.rules.ts:38`): value times share beyond 1 makes a total negative.
* The default outlet serves orders that name none, whether it is active or not
  (`outlets.service.ts:61`); a named one must be active.
* The kitchen's copy of an order sums the tax of its lines before discounts, and carries
  the order's own tax as its total (`petpooja-order.mapper.ts:140`, `:158`).
* An item that the kitchen renames keeps its row's old name (`petpooja-menu-sync.service.ts:71`); a later item of
  the old name takes that row over, and the renamed one is on no row.
* A menu push sets the restaurant's own status to open (`petpooja-webhook.service.ts:45`) while the
  `store_status` row that customers are shown stays closed.
* Each run of the seeds sets the stock of every item without a count, which is sold without
  limit, to 100 (`serenity-seed.service.ts:117`).
* A run of the seeds that dies among the demo orders leaves them incomplete for good: the next one
  finds some and skips the rest.

## 7. Not modelled

* Gateway adapters' signatures, HTTP and payload formats: `GatewayNotices` has the references
  and outcomes they carry. The encryption of credentials is an opaque conversion.
* Rider details, the fields of the kitchen's payload, and the count of failed pushes.
* Points expire by the clock, and coupons have a window of dates: the models have no clock. The
  hazard of expired earnings whose redemptions stay (`orders.service.ts:1197`) therefore has no property.
* Three more hazards have no property since the code loses the race and promises nothing else: a webhook
  that dies between its record and its effect (`payments.service.ts:332`), points refused after the commit
  (`orders.service.ts:336`), a death between the commit and the push (`orders.service.ts:346`). The
  models contain all three behaviours.
* Saved bowls, saved lists, content, diagnostics: rows of one user or one administrator, written and
  read by themselves. In-app notices are rows that nothing else reads.
* Files, mail, identity providers (Apple, Facebook, Google, Supabase): external I/O. What a verified
  identity opens is in `Accounts`.
* Configuration, boot guards, logging, health, i18n, migrations, the document database's seeds.
* Branches without a `DataSource`, which exist for unit tests; the COD branch of payments,
  since no caller can create a COD intent; lists, which only read.

## 8. Plan

Done: the modules of section 3, their runs, the refinement, and the proofs of section 5. What is left, in order:

1. A clock for points and coupons: expiry against redemption, the window of a coupon that ends
   between the quote and the order, with the invariants that carry over to it.
2. More refinements: `EventBookings` and `MenuStock` reduced to one atomic booking and one atomic sync,
   as `PaymentIntents` is to `RefundLedger`.
3. `KitchenSync` under fairness: a push that is retried ends synced or failed.
