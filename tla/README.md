# A TLA+ verification project for MiSArch (Go)

MiSArch is a web shop cut into some twenty services. Each keeps its own database
and they talk through GraphQL (questions) and Dapr pub/sub (facts). This project
models the services that carry the order saga, their composition, and the
customer-facing and master-data services around it, model-checks them with TLC on
small instances and proves with TLAPS, for every size, every property that needs no fairness.

Contents: [the system](#the-system) · [modules](#the-modules) · [runs](#the-runs) ·
[bounds and fairness](#bounds) · [proofs](#the-proofs) ·
[what the models show about the code](#what-the-models-show-about-the-code) ·
[not modelled](#what-is-not-modelled) · [plan](#plan)

## The system

### Components, state and operations

| component | state it keeps | operations that change it |
|---|---|---|
| **order** (Mongo) | orders with a status PENDING/PLACED/REJECTED, compensations, replicas of variants, tax rates, coupons, users, addresses | `createOrder` (asks five services, stores PENDING), `placeOrder` (PENDING → PLACED or REJECTED, publishes `order/created`), `shipment/creation-failed` → compensation, replica events |
| **inventory** (Mongo) | one document per physical unit: status, variant, holding order | reserve on `order/created`; release on `payment-failed`, `validation-failed`; status updates on `payment-enabled`, shipment events; employees' create, update, delete, reserve |
| **discount** (Postgres, triggers) | discounts, usages per user, coupons and their caps | validate an order on `reservation-succeeded`, publish success or failure; coupon and discount mutations |
| **payment** (Mongo) | payments, open orders (the saga context to publish later), payment informations | start on `validation-succeeded`; callbacks of the provider; two schedulers for overdue payments; deletions |
| **simulation** (RabbitMQ, memory) | two durable queues, records, counters, limits | registrations, rate-limited consumption, timed callbacks, manual updates, minute reset with reconnect, limit changes |
| **shipment** (Postgres) | shipments, join rows, order items, addresses, methods | one shipment per method of an order on `payment-enabled`, hand-over to the provider, status updates, return shipments |
| **invoice**, **return** | invoices; returns with refunds | build an invoice on `validation-succeeded`; `createReturn` over replicas |
| **shoppingcart**, **wishlist**, **review** (Mongo) | one document per user, list or review | check-then-write mutations over replicas of users and variants |
| **catalog**, **tax**, **address**, **user** | products and versions, tax rates and versions, addresses, users | create, update, archive; publish after the commit |
| **notification**, **media** | notifications; files in an object store | insert and mark read; put |
| **pkg/dapr** | none | publish, subscribe, invoke; a handler error is answered 500 and Dapr delivers again |

### How they interact

```
placeOrder -> order/created -> inventory -> reservation-succeeded -> discount
   -> validation-succeeded -> payment -> (register) simulation -> (callback) payment
   -> payment-enabled -> inventory, shipment -> (register) simulation -> (callback) shipment
   -> shipment created / status-updated -> inventory
failures:  reservation-failed | validation-failed -> inventory
           payment-failed -> inventory | shipment/creation-failed -> order (compensation)
```

Every arrow is a message that Dapr delivers at least once, in any order with
respect to others, to a handler that runs in a goroutine of its own.

### What is hard here

* **Interleaving.** No service locks across two database calls (inventory's
  `ReserveBatch` is the one transaction on the path), so check-then-write pairs of
  two handlers, a handler and a scheduler, or a handler and an employee interleave.
* **Delivery.** Messages repeat; most handlers keep no record of what they served.
* **Partial failure.** Publishes are best effort: a broker error is logged, or
  ignored, after the database was written.
* **Time.** An order may be placed for an hour, a prepayment is overdue after a
  week; the simulation works through its queues minute by minute.
* **Progress.** Every order must get an answer although the provider owes none.

### What makes each component correct

* inventory: a unit on sale belongs to nobody; a unit never passes from one order
  to another without a release; a confirmed order holds exactly what it ordered, a
  refused or released one nothing; every order is answered.
* payment: one charge per order; no prepaid goods before payment; the context that
  later events need is there as long as it is needed; every order is answered.
* simulation: a registration on its queue is never lost, and is answered.
* order: one saga per order; rejected is final; a placed order is announced; refunds
  stay within the order and are stored before they are announced.
* discount: no user goes over the limit of a discount; usages are taken exactly for
  announced orders; every reserved order is answered; a coupon is counted only for
  redemptions; the event of an update carries what the tables hold.
* shipment: `created` is the truth about rows and provider; status updates name every
  item; an item is sent once per delivery of its event; nothing is refunded that a
  failed check could have kept from the provider; every group is answered.
* the saga as a whole: no unit is promised, charged or shipped to two orders; the
  steps of an order come in one order; every placed order comes to an end.
* cart, review, wishlist: what was deleted never returns; one item or review per user
  and variant; what leaves a cart leaves for a reason, and what was ordered leaves.
* return: an item is refunded once, and only if it was delivered and can be returned;
  each item learns of its order and its shipment whichever event comes first.
* catalog, tax: version numbers are unique; the order service charges the version
  its owner shows; an update keeps the fields it does not name.
* address, user, notification: replicas and notifications arrive in the end; the
  order service lists exactly the addresses that are not archived.

## The modules

| module | models | state ↔ code |
|---|---|---|
| `Inventory` | `inventory/events/handlers.go`, `inventory/store/*.go`, `inventory/graph/schema.resolvers.go` | `status`, `variant`, `orderId` are the fields of a product item document; `job[w]` is a handler call between two database calls; `inbox` what Dapr still has to deliver; `results` what was published; `SendAgain` is the shipment service publishing for a further shipment of the order (`Resent` says on which topics) |
| `Payment` | `payment/service/*.go`, `payment/handlers.go`, `payment/store/*.go` | `payment`, `openOrders`, `infos` are the collections; `job[p]` is a goroutine of a start or a callback request, `cron[m]` a scheduler tick; `registered`, `callbacks`, `reported` the provider's side; `erased` remembers deletions and `lost` the events whose publish failed, which the code only logs |
| `Simulation` | `simulation/queue/queue.go`, `simulation/store/store.go`, `simulation/handlers.go` | `ready`, `unacked` are the broker's queue; `held`, `counts`, `allowed`, `reset`, `consuming` the processor; `record` the in-memory repository; `reg`, `upd` requests between two calls |
| `Order` | `order/graph/helpers.go`, `order/graph/schema.resolvers.go`, `order/events/compensation.go`, `order/store/{order,compensation}.go` | `order` is the document, `request[r]` a `placeOrder` between two calls, `handler[h]` a delivery of `creation-failed`; `announced`, `refunds` published events; `refunded` the sum of stored compensations; `overtaken[o]` (the mutations that another one overtook between their check for PENDING and their write) and `cutOff` are history |
| `Discount` | `discount/graph/{validate,helpers,schema.resolvers}.go`, `discount/events/incoming.go`, `discount/store/{validate,applicable,discount_mutations,coupon_mutations,replicas}.go`, the triggers of `discount/store/migrations` | `limit`, `applies`, `usages`, `couponMax`, `couponUsages`, `redeemed` are columns and tables; `job[h]` is a delivery of `reservation-succeeded`, `edit[e]` an update and `reg[s]` a redemption between two SQL statements; `Written(h)` the rows a transaction has written, and locked, but not committed; `limits` is history |
| `Shipment` | `shipment/service/*.go`, `shipment/handlers/*.go`, `shipment/provider/provider.go`, `shipment/store/*.go`, `shipment/ecs/ecs.go` | `shipment`, `sentWith`, `joined`, `methods`, `versions`, `addresses` are tables; `worker[w]` is a delivery of `payment-enabled` or `return/created`, `callback[c]` a POST of the provider; `accepted` the provider's side; `created`, `failed`, `updated` published events; `doubtful`, `deliveries` are history |
| `Saga` | the subscriptions in `inventory`, `payment` and `shipment/main.go` | the variables of `Inventory`, `Payment` and `Shipment`, instantiated side by side; `validated` is the answer of the discount service |
| `Sale` | — | abstract specification of the saga: `phase[o]` |
| `Shop` | — | what the modules below share: users, variants, requests |
| `Lifecycle` | — | abstract specification of a collection of documents: `life[i]`, `about[i]` |
| `ShoppingCart` | `shoppingcart/graph`, `shoppingcart/store`, `shoppingcart/events` | `cartItem` the items of the user documents, `cartReq[r]` a mutation between two calls, `cartInbox` undelivered `order/created`; `cartTwice` is history |
| `Review`, `Wishlist` | `review/graph`, `review/store`; `wishlist/graph`, `wishlist/store` | the collection, the request between two calls, the ids made so far |
| `Return` | `return/main.go`, `return/store`, `return/graph`, the triggers of `return/store/migrations` | `retItem`, `retParcel`, `returned` are tables, `retReq[r]` a `createReturn` transaction, `retEvents` what the broker holds; `retShared`, `retCut` are history |
| `Versions` | `tax/store`, `catalog/store` (versions), `order/store/readmodel.go` | `versionRow`, `current` at the owner; `verInbox`; `orderCurrent` in the order service; `verOverlap`, `verCrossed`, `verLost` are history |
| `Products` | `catalog/store/update.go`, `catalog/store/mutation.go` | `product`, `variant` rows; `prodReq[r]` an update that has loaded its row |
| `Accounts` | `user/main.go`, `address/graph`, `address/store`, `order/store/readmodel.go` | `userRow`, `address` at the owners, `addrUsers`, `orderUser` the replicas, `acctInbox` the events under way |
| `Notification` | `notification/main.go`, `notification/graph`, `notification/store` | `notification` rows, `notifUsers` the replica, `notifReq[r]` an update that has loaded its row |
| `MC*` | — | the instances for TLC |
| `InventoryProofs`, `PaymentProofs`, `OrderProofs`, `DiscountProofs`, `ShipmentProofs`, `SagaProofs`, `StorefrontProofs` | — | theorems and proofs (`StorefrontProofs` those of the simulation too) |
| `Sums` | — | lemmas: induction over numbers and finite sets, folds and sums over finite sets |

### How the modules compose

`Saga` instantiates `Inventory`, `Payment` and `Shipment` and leaves out the actions in
which each of them assumes events of the others; instead, what one service adds to its
published events is in the same step put into the inboxes of its subscribers, where
it waits for a handler in any order. An order of several shipments publishes
`shipment/created` for each of them, with the same contents as far as the inventory
reads them; each is put into the inbox again. The discount service is represented by its
answer (`Validate`). Of the faults of the services `Saga` has none: a single failing
call or repeated message is a matter of the service's own module.

That nothing is lost by leaving those assumed actions out is a theorem: in `Saga` each
service behaves as its own module says (`ServicesAsSpecified`).

`Saga` implements `Sale`: the phase of an order is read off the events that were
published, and a reservation may be announced only while the units are not promised
to another order. `ShoppingCart`, `Review` and `Wishlist` implement `Lifecycle`.

The services of `MCStorefront` share no variable (they communicate with services that
are not in it), so each behaviour of `MCStorefront` has one of them `on` and the others
at rest: any interleaving of two of them projects to this.

A check-then-write without a lock keeps its promise only while requests do not
overlap. The modules record the overlap itself in a history variable (`cartTwice`,
`reviewTwice`, `retShared`, `verOverlap`, `overtaken` of `Order`, or the field `alone` of
a request) and the properties say that *only* an overlap breaks the promise: every other cause, however
many steps it takes, would violate them.

One action is one handler step: everything up to and including one database,
broker or provider call. A call that fails (the constant `Faults` allows it) has taken
effect or not: only its answer may be lost, and the code takes its own error path in
both cases. In the start of a payment, whose error path compensates, each step has both
outcomes (`CreatePayment`, `CreateOpenOrder`, `SetPending`), and so have the two transactions
whose lost commit answer the caller handles as a failure (`ReserveLine`, where the line counts as
failed with its units reserved, and `CommitUnanswered` of `Discount`). Elsewhere a step with effect followed
by the failure of the next one stands for a lost answer, since the handler or request
goes on to the same error path (`HandlerFails`, `RequestFails`), or the error is only
logged (`Register`, `DeleteOpenOrder`, `FailOverdue`, every publish). Each module names the variant of
an operation that a plausible bug would produce right before the operation itself
(for example `ReleaseOneKeepsOrder` before `ReleaseOne`); these variants are not
part of any specification and serve to show that the properties can fail.

Details worth knowing when comparing with the code:

* `ReserveBatch` is one step, because it runs in a snapshot transaction whose write
  conflicts abort it. `UpdateMany` is one step per document.
* `Found` models Mongo's `SetLimit`: 0 is no limit, a negative limit its absolute value.
* `CreatePayment` succeeds only without a payment: its `_id` is the order id.
* `UpdateCreditCard` keeps the branch for exhausted retries although nothing ever
  writes the counter.
* `ResetMessageCounts` reconnects only if a paused queue has a limit above zero, and
  clears the pause either way, as the code does.
* `PlaceOrder` reads the clock before the document, so the age of an order is judged
  by an earlier moment than its status.
* `Discount` interleaves transactions statement by statement as READ COMMITTED allows:
  a statement sees what is committed when it starts, a row that another transaction
  has written makes it wait, and a cycle of waiting transactions loses one member
  (`DeadlockDetected`). `CheckDiscountUsages` is the trigger of the upsert: it fires for
  the insert with the new amount alone and, on a conflict, for the update with the sum.
* `TotalByDiscount` and `DiscountOrder` are the two folds of `validate.go` over the items
  of an order. `Mentions[o]` is what these two nested loops run over: the discount ids of
  the items one after another, each with the count of its item. That the folds yield a
  sum per discount and a sequence without duplicates of the discounts named is proved
  (`Grouping`, `OrderNames`, `UnnamedIsZero`).
* `Shipment` has no transaction around the creation of a shipment: what was written
  before a failing step stays. `PostFails` separates a POST that reached the provider
  from one that did not; the number of repetitions is read once per send.
* `LeastExpensive` includes archived methods, as the query of the code does, and only
  the weight part of a fee is cut to an integer (`CalculateFees`).
* `Return` reads and writes as READ COMMITTED allows; `TriggersPass` are the database's
  triggers, which check less than the resolver does.
* `Blocking` counts the compensations that share *no* item with the event, as the code's
  comment says of its (apparently inverted) query.

## The runs

| run | asks |
|---|---|
| `inventory_once` (`InventoryOnce.cfg`) | Two orders compete for the last unit, each message once, no faults. `SucceededOrderHoldsItsLines`, `RefusedOrReleasedHoldsNothing`, and under fairness `OrdersSettle`. |
| `inventory_faults` (`InventoryFaults.cfg`) | A repeated delivery, failing handlers, lost publishes, shipment statuses, employees. `StockIsUnheld`, `UnheldIsStock` (no unit is stranded outside the stock without an order), `NoItemChangesHands`, `TypeOK`. |
| `payment_once` (`PaymentOnce.cfg`) | A card order and a prepaid one, events once, no faults, the card's information possibly missing, up to two callbacks each with any of the five statuses: `OrdersAnswered` under fairness, also if the provider never calls back. |
| `payment_faults` (`PaymentFaults.cfg`) | Events twice, any call failing, documents deleted, lost answers, callbacks with every valid status and an invalid one: `ChargedOnce`, `PendingIsAccounted` (no payment waits in silence), `PrepaidBeforeEnabled`, `TypeOK`. |
| `simulation` (`Simulation.cfg`) | Connections close or fail, limits change, operators interfere: `NoRegistrationLost`, and `EnqueuedIsAnswered` while no limit is zero and the consumers come back. |
| `order` (`Order.cfg`) | Two mutations at a time, failing anywhere, before and after the timeout; two failed shipments reported concurrently and repeatedly: `SagasAreBounded` (one saga per order, and one more at most per mutation overtaken between check and write), `RejectedUnlessOvertaken`, `PlacedIsAnnounced`, `RefundedWithinOrder`. |
| `discount_faults` (`DiscountFaults.cfg`) | Two orders of one user name the same two discounts in opposite orders, with a repeated delivery and a failing call or crash anywhere: `UsagesWithinALimit`, `UsagesMatchAnnounced` (`UsagesAreAnnounced` and `AnnouncedIsRecorded`), and under fairness `ValidationsSettle`, through deadlocks, refusals by the trigger and a user replica that comes late. |
| `discount_tables` (`DiscountTables.cfg`) | Two employees update a discount and a coupon while two users redeem it, with a failing call: `CouponUsagesAreRedeemed`, `UpdatedCarriesAllTargets`, `TypeOK`. |
| `shipment` (`Shipment.cfg`) | An order of two groups and a return of one of its items; any call fails or any event repeats once, replicas come late, the provider calls back at any time: `AnnouncementsAreTrue` (`CreatedIsComplete` and `UpdateNamesAllItems`), `SentOnce`, `SentWithItsOrder`, `RefundedIsNotSent`, `TypeOK`, and under fairness `OwnersAnswered`. |
| `saga` (`Saga.cfg`) | Two orders want the same unit, one prepaid and one on account, from `order/created` to the shipment: `SoldIsHeld`, `SaleImplemented` (the refinement of `Sale`), and under fairness `OrdersEnd`. |
| `storefront` (`Storefront.cfg`) | The services around the saga; each property names what its parts have in common. `DoublesNeedOverlap`: a second item of a variant in a cart, a second review, a second refund of an item or a second version with the same number needs two requests that overlap (`OneItemPerVariant`, `ReviewedOnce`, `ReturnedOnce`, `NumbersAreUnique`). `ReferencesHold`: `DefaultIsOwn`, `OrderChargesCurrent`, `OrderListsAddresses`. `DocumentsLive`: cart items, reviews and wishlists refine `Lifecycle`, and `ItemsLeaveForAReason`. `UpdatesKeepTheRest`: `UpdatesApply`, `FieldsKept`, `FirstReadKept`. `EventsTakeEffect`, under fairness: ordered items leave the cart, the return service catches up with orders and shipments, users and notifications arrive. `RefundedWasDelivered`, and `StorefrontTypeOK`. |

One run shows a disagreement between the code and what it says of itself:
`discount_coupon_cap` (`DiscountCouponCap.cfg`, `CouponCapHolds`): two redemptions at
once get past the maximum of a coupon, since the trigger reads the counter without a
lock and writes the number it computed.

### Bounds

* Inventory: two orders and two handler calls, so that any two handlers of one or of
  two orders meet. `inventory_once` has two units and an order with two lines (a
  partial reservation and its release); `inventory_faults` has one unit, which
  employees create, because its properties speak of one unit at a time and units meet
  only in `ReserveBatch`. `MaxRedeliveries` = 1 covers a repetition of any one message;
  the proofs cover the rest. `inventory_once` has no shipment events, which change no
  order's units; in `inventory_faults` and `saga` an order's
  `shipment/created` may come again. Orders that ask for the same and handler calls are
  symmetric there; no symmetry is used under fairness.
* Payment: `payment_faults` has one order, since orders share only their processes, and
  three processes: two starts of the order and a callback at the same time.
  Two callbacks allow FAILED after SUCCEEDED and the reverse. `payment_once` has a card
  order and a prepaid one, with two callbacks of every valid status; an order on account
  starts as the card order does, and `saga` has one. No line of the code tells INKASSO
  from OPEN, so `saga`, the largest run, reports OPEN for both, and leaves out
  PENDING, which the payment has anyway.
* Simulation: two messages on a queue with a limit of one, so that one is held back,
  and one change of the limit. One queue: the second queue's share in it, a reconnect
  it did not ask for, is what closing and failing connections do to the first.
* Order: one order, since orders share nothing but the requests and handlers, with two
  mutations in progress at once, so that each can overtake the other, and again
  and again; two items shipped apart, two handlers, every failure reported up to twice.
  More than two mutations at once are left to the proof.
* Discount: two orders of one user that ask together for three of `d1` (limit two) and
  two of `d2`, so that the trigger has to refuse one although the check before the
  transaction lets both pass, and whose upserts can wait for each other; one
  repetition and one fault at any step. A limit that changes during a validation is
  left to the proof, which covers it. The tables run has no orders (usages and
  redemptions share no row): two updates, two redemptions, two targets; users,
  employees, requests and targets are symmetric there.
* Shipment: three items, two of which ship together, so that there is a group of two
  (a loop that fails half way) and a second group; one delivery at a time, which a
  repetition follows or interrupts; one fault of any kind, and a provider that may be
  asked twice (`Retries` of 0 and 1). An order without items, whose loop ends at once
  (`LoopOver`), is left to the proof.
* Saga: one unit and two orders for it, two handler calls of the inventory, one process
  of the payment, one worker of the shipment. The weight of the second order's
  item never arrives, so its shipment fails; the first order's succeeds. Status
  reports of the shipment provider come after the end of the saga and are left out.
* Storefront: two requests per service, so that any two meet; one user and one variant,
  since nothing relates two of them; three cart items (two additions and a
  replacement), two reviews of one pair, two shipments of one item (a second sending
  between validation and commit), three versions of two entities (two that overlap,
  and one before), two addresses of one user, and one fault (two for accounts) at any
  step.

Runs that may stop (every message handled, every bound reached) say so with
`CHECK_DEADLOCK FALSE`; in `Simulation` and `Order` some step is always possible.

### Fairness

Weak fairness is assumed for what the Go runtime and the clock guarantee: a goroutine,
request or handler that was started is run on, tickers tick, Dapr delivers what it
holds, payments grow old. Nothing obliges a provider to call back, an operator
to act, a customer to place an order, or a broker to close a connection. The reconnect
of the simulation is fair as a whole, so a failing attempt is allowed to end it.
An upsert of `Discount` is strongly fair: it is disabled while somebody else holds the
row, and Postgres hands a row to those who wait for it in turn.
In `Shipment` the replicas arrive in the end. `Saga` asks only that *some* service goes
on while one of them has something to do. In `MCStorefront` the event handlers of the
cart, return, user, address, order and notification services are fair, and
requests of users are not: a broken-off request must not spoil anything.

## The proofs

All for every value of the constants that satisfies the module's ASSUME, from
`Spec`, that is with faults, repetitions and any number of processes. The ASSUMEs give
the types of the constants and say that `None` is not one of the values it stands
beside; beyond that they state what makes the code's loops end (finite sets of items,
of orders and of cart entries) and what the owners of the data guarantee (an item
belongs to one order, `ReturnAssumption`; a variant to one product,
`ReviewAssumption`). TLC evaluates them on every instance. A hypothesis of a single
theorem is named below and stands in its statement.

* **`InventoryProofs`.** `InventoryTypes`: the invariant is `TypeOK` together with
  `MessagesNameOrders` (a handler in a bulk write has a message with an order id),
  without which a release could write the order id of no order. `StockUnheld`
  (`StockIsUnheld`) strengthens the statement to items outside the collection,
  because a created item starts from one; `ItemsDoNotChangeHands`
  (`NoItemChangesHands`) then follows since a reservation only takes items that are
  on sale. Both assume `NoManualRestock`: employees do not set IN_STORAGE through
  `updateProductItem`, which leaves the order id in place. `NoUnitStranded`
  (`UnheldIsStock`) is the converse and needs no hypothesis.
  `OrdersReleaseTheirUnits` (`RefusedOrReleasedHoldsNothing`) and
  `SucceededOrdersHoldTheirLines` (`SucceededOrderHoldsItsLines`) hold under `Once`
  (no repetition, no failing call, no employee; the setting of `inventory_once`), the
  latter also under `PositiveCounts`, since a count of 0 reserves every unit. Neither
  is inductive. `OnceInv` says which call may still change what an order holds: a
  message is handled by one call and then gone (`HandledOnce`), an order is answered
  when its call is through, and released only after a success (`AnsweredOnce`), and
  units are held for a call under way or a success, while a release in progress is
  about exactly what is held (`HeldForAReason`). `LinesInv` counts: after each line the
  units held of a variant are as many as the lines before it asked for, and a success
  carries that to the end of the loop.
* **`PaymentProofs`.** `PaymentTypes`, `ChargedAtMostOnce` (`ChargedOnce`),
  `PaidBeforeEnabled` (`PrepaidBeforeEnabled`) and `NoneWaitsInSilence`
  (`PendingIsAccounted`), without assumptions on the
  environment. `ChargedOnce` is not inductive: that the provider has not been asked
  must be known of everybody who may still ask. The invariant says that such a
  goroutine has inserted the payment and the provider was not asked before
  (`ChargingIsNew`), that there is one of them per order (`OneCharges`), and that an
  order without a payment was never charged (`ChargedHasPayment`); the duplicate key
  of the insert establishes all three, and a deletion by an administrator is the only
  way out. `PrepaidBeforeEnabled` rests on the create flow of a prepayment having no
  enabling step and on callbacks carrying reported statuses only.
  `NothingWithoutDelivery` says that a service that was told nothing of an order has
  done nothing about it; the saga needs it to know that payments follow validations.
  `PendingIsAccounted` is not inductive either: PENDING is written by the last step of a
  start and by callbacks, long after the order context was stored. `AccountInv` therefore speaks of
  every payment that waits or may still be made to (`Awaited`: it was registered, or a
  start of it is past the order context): its context is there or its
  failure is told (`Accounted`). That is stable because the one step that takes a context
  away (`DeleteOpenOrder`, also on behalf of another delivery) is on its way to publish the failure,
  and because callbacks are about registered payments (`CallsAreRegistered`).
* **`OrderProofs`.** `SagaStartsAreBounded` (`SagasAreBounded`) and `RejectedStays`
  (`RejectedUnlessOvertaken`), for any finite number of `placeOrder` mutations served
  at the same time. The bound is not inductive, for a mutation announces three steps after
  its check. `DueIsBounded` counts those who have announced together with those who are `Due`
  to: between the write and the event, or before the write but overtaken already. The first
  write of a saga finds the order PENDING and overtakes everybody else who has, so from
  then on a mutation that is about to place an order that is not PENDING is one of the
  overtaken (`PlacesPending`), and each of them is counted once; which of them are
  overtaken is the only thing left to the property. `RefundsWithinOrder`
  (`RefundedWithinOrder`) assumes `GroupsApart`: no two failed shipments of an order
  share an item. The shipment service makes one group per method, so they do not
  (`ItemsAreSentOnce`). The invariant is an equation: what was refunded is the sum over
  the items of the compensations stored (`RefundsAreDue`), each stored once
  (`CompensatedOnce`); that this is at most the whole is a fact about sums of natural
  numbers (`Sums`).
* **`DiscountProofs`.** `DiscountTypes`, with an invariant that also says that
  transactions name rows that exist and that the limit in force is one the discount
  has had. `UsagesBounded` (`UsagesWithinALimit`) is not inductive: a commit adds what
  the trigger judged several steps earlier. The invariant carries the judgement from the
  upsert to the commit (`WrittenFits`: what a transaction has written fits on top
  of what is committed), and says that nobody else can commit to that row in between
  (`WrittenOnce`: no row is written by two open transactions, which is the row lock). The
  limit may be lowered meanwhile, so the bound is a limit the discount has had.
  `UsagesAccounted` (`UsagesMatchAnnounced`) compares with a sum over the orders of a
  user, under `PositiveCounts` (no item counts less than 0). Success is announced before the
  commit, so the invariant speaks of both moments: where no transaction is about to
  commit, the usages account for what was announced, and where one is, they do once its
  part is added. `UpdatesCarryAllTargets` (`UpdatedCarriesAllTargets`): at
  most one update holds the lock of a discount, and what it has read for the
  event is what its commit leaves. `CouponsAreRedeemed` (`CouponUsagesAreRedeemed`): a
  redemption's trigger has counted at most one more than there are redemptions when it
  writes, and holds the row until it commits.
* **`ShipmentProofs`.** One invariant for the five theorems. `RowsOK` relates the
  tables; `AcceptedOK` and `CallbackOK` say what the provider knows of and answers
  about; for each delivery in progress, `ProgressOK` says what the steps before have
  written, `TellingOK` when the provider may know of its row, and `ApartOK` that the
  groups it has still to send share no item with those that are sent or failed. The
  last is where the properties come from that speak of one delivery per event:
  `CountedOK` finds a second delivery wherever two calls work on one owner.
  `ShipmentTypes`, `ShipmentAnnouncesTheTruth` (`AnnouncementsAreTrue`),
  `ItemsAreSentOnce` (`SentOnce`), `RefundsAreNotSent` (`RefundedIsNotSent`) and
  `ItemsKeepTheirShipment` (the action property `SentWithItsOrder`).
  `ShipmentsFollowEvents` needs no more than that rows are only added by the service's
  own steps (`StepGrows`): no shipment of an order before its payment was enabled.
* **`SagaProofs`.** What is proved of the three services alone is taken over, by
  instantiating `InventoryProofs`, `PaymentProofs` and `ShipmentProofs`, and not proved
  again; their ASSUMEs are derived from `SagaAssumption` (`InventoryConstants`,
  `PaymentConstants`, `ShipmentConstants`). For that the saga's steps must be steps of these modules
  (`ServicesAsSpecified`). Payment and shipment are quick. `Inventory` however *assumes*
  an order of the events it is sent (a release only after a success, goods only after a
  payment); in the saga this is a consequence of what three services do. `SagaInv`
  carries it: the broker holds of each service's events what was published and nothing
  else (`BrokerTells`), and the events of an order come in one order (`InOrder`). It is
  proved from the payment's and the shipment's invariants (`PaymentInv`,
  `NothingWithoutDelivery`, `ShipmentsFollowEvents`) *before* the inventory's can be used.
  Then `SoldUnitsAreHeld` (`SoldIsHeld`) follows from `HeldForAReason` and
  `LinesReserved` of `InventoryProofs`, and `SagaImplementsSale` (`SaleImplemented`) step
  by step: every step moves one order to the phase `Sale` allows next or stutters
  (`SignsInOrder`, `Advances`, `Stays`), and a promise fits the stock because the units of
  the promising orders are disjoint sets, as large as the orders need (`UnitsSuffice`,
  with `SumOfParts` of `Sums`). Both assume `PositiveCounts`, as the theorem of the
  inventory they use does; that events come once and that no call fails is part of `Saga`.
* **`StorefrontProofs`.** Eight invariants, one per service (`CartInv`, `ReviewInv`,
  `WishInv`, `RetInv`, `VerInv`, `ProdInv`, `AcctInv`, `NotifInv`), each with its own
  proof that the service's steps keep it. Every one of them says what a request still
  relies on when it writes although it looked it up earlier, and what is known of a request that no
  other one has overlapped: it is the only one on its row, and the row is as it
  was loaded. `ShopInvariant` puts them together for services that run *at the same time*
  (`ShopStep`); the specification of the run, in which one of them is `on`, is an
  instance of it (`StorefrontStep`). From it follow `StorefrontTypes`,
  `DoublesOverlapped` (`DoublesNeedOverlap`), `ReferencesAreTrue` (`ReferencesHold`),
  `UpdatesAreKept` (`UpdatesKeepTheRest`), `RefundsAreDelivered`
  (`RefundedWasDelivered`), and `DocumentsImplementLifecycle` (`DocumentsLive`): the
  refinement of `Lifecycle` by carts, reviews and wishlists, where each step is shown
  to insert, delete or keep each document. The module ends with the simulation, whose
  queues share nothing with these services: `SimulationTypes` (`TypeOK` of
  `Simulation`, which no run checks) and `RegistrationsAreKept` (`NoRegistrationLost`).
  A registration is handed from the broker's queue to the consumer, to a timer and to a
  handler; the invariant says that a message the consumer works on is unacknowledged as
  long as its channel is open (`HeldIsUnacked`), so that closing it puts the message
  back, and that a record is blocked only by an operator who sends the status
  (`BlockedIsAnswered`).
* **`Sums`.** The library's induction theorems cannot be instantiated by the provers,
  since they take an operator. Induction is restated for a *set* of numbers or of
  finite subsets (`Induction`, `FiniteInduction`), from the existence of a least
  element (`WFMin`). With it `FoldExists` shows that the fold of the community modules
  over a finite set is the value its recursion describes, and the lemmas after it
  what a sum over a finite set does when an element is taken out, a set split, or the
  terms compared.

Only model-checked is everything under fairness (`OrdersSettle`, `OrdersAnswered`,
`EnqueuedIsAnswered`, `PlacedIsAnnounced`, `ValidationsSettle`, `OwnersAnswered`,
`OrdersEnd`, `EventsTakeEffect`): liveness needs ENABLED, which is out of the prover's
reach. Every other property of a passing run is a theorem, with the hypothesis
named above where there is one. `CouponCapHolds` is neither: it is false.

## What the models show about the code

Beside the run above, building the models brought to light behaviour that the
properties are stated around; each is visible in the action named.

* A repeated release frees the units of another order: it finds the ids, the first
  release frees them, the other order reserves them, and the write goes by id
  (`ReleaseOne`), although the comment of `ReleaseBatch` says that it releases what is
  "reserved for orderId" (`store/productitem.go:221`).
* An item put back IN_STORAGE by hand keeps its order id and is for sale while an
  order holds it (`UpdateProductItem`).
* Two concurrent `placeOrder` mutations of one order both pass the check for PENDING and
  start the saga twice, and one that judged the order fresh places it although another
  one has rejected it meanwhile (`SetStatusPlaced`, `order/graph/helpers.go:36`). `SagasAreBounded` and
  `RejectedUnlessOvertaken` say that it takes such an overlap.
* A count of 0 reserves every unit of a variant (`Found`, `store/productitem.go:176`).
* The scheduler fails a payment that succeeded after its query: the update does not
  look at the status again (`cron[m]` in `Payment`).
* A prepayment that is paid stays PENDING and is failed a week later (`UpdatePrepayment`).
* A message held back while a queue's limit is zero is not redelivered when the limit
  rises (`ResetMessageCounts`); a failed acknowledgement leads to a second callback
  (`Simulation`).
* A start that fails after the payment was registered deletes the open order while the
  payment is at the provider. If only the answer to its last update was lost, the payment
  is PENDING without its order context (`SetPending`, `payment/service/service.go:71`); so
  it is if an operator then posts PENDING (the simulation passes on any status,
  `simulation/handlers.go:104`), or if a second delivery fails on the duplicate key
  and deletes the context of the first. Nothing can be published about such a payment
  any more; `PendingIsAccounted` says that its order was told before.
* A provider status that arrives between `Register` and `SetPending` is overwritten
  by PENDING (`payment/service/service.go:121`).
* A failed card payment is neither retried nor failed: the retry posts to a path the
  provider does not serve and the counter is never written (`UpdateCreditCard`).
* A prepayment reported FAILED, OPEN or INKASSO (the callback accepts every status of the
  enumeration, `payment/handlers.go:69`) is stored and never announced, and the
  scheduler, which looks for PENDING ones, does not find it again: its order is
  neither enabled nor failed (`UpdatePrepayment`). `OrdersAnswered` and `OrdersEnd` except it.
  The status of an invoice is stored likewise, but its order was enabled before
  (`UpdateInvoice`).
* If an order's start fails after `payment-enabled` went out, `payment-failed` follows
  (`DeleteOpenOrder`).
* A consumer that ends because the broker closed the channel is not started again, and
  a failed reconnect is not repeated (`BrokerCloses`, `ReconnectFails`).
* A registration during a reconnect is answered 200 and reaches no queue (`Publish`).
* A manual status can be followed by the automatic one (`Block`, `Consume`).
* `placeOrder` repeated for a placed order after the timeout rejects it while its saga
  runs on (`SetStatusPlaced`); an event the broker refuses leaves an order placed and
  unannounced for good (`RequestFails`); a repeated `creation-failed` is compensated
  twice, while the second failed shipment of an order is blocked (`Blocking`).
* An error during validation publishes `validation-failed` and answers 500, so Dapr
  delivers again and the same order may then be announced as succeeded
  (`ValidateOrderFails`); success is published before the commit, which may still fail
  (`PublishValidationSucceeded`, `CallFails`); a repeated delivery records the usages
  again (`HandleReservationSucceeded`).
* Two validations of one user may deadlock on the usage rows, since each takes them in
  the order of its items (`DeadlockDetected`).
* `updateDiscount` and `updateCoupon` write back every field as they read it, so of two
  concurrent patches of different fields one is lost (`Patched`).
* An overdue invoice, and a prepayment that was paid (its status stays PENDING), are
  failed by the scheduler whether the goods are on the way or not, and the inventory
  then puts units on sale that have left the house; a prepayment reported paid
  after it was failed is enabled all the same and its order shipped without
  units (`Saga`: `SoldIsHeld` excepts cancelled orders for this reason). A repeated
  `validation-succeeded` fails on the duplicate key and cancels a good order.
* The inventory does not subscribe to `shipment/creation-failed`: the units of a refunded
  order stay IN_FULFILLMENT and held. It applies `payment-enabled` after
  `shipment/created` if they come in that order, and the unit is IN_FULFILLMENT again.
* A repeated `payment-enabled` creates every shipment of an order again; the items keep
  the shipment they were first sent with (`UpsertOrderItem`).
* A broker that fails after the POST makes the shipment service announce
  `creation-failed`, and the order service refund, for goods that are on the way
  (`PublishCreatedFails`; these shipments are `doubtful`). Archived shipment methods are
  still chosen for returns.
* Two `createReturn` requests at once refund an item twice (`CommitReturn`). The table of
  product variant versions that `canBeReturned` reads is filled by no handler, so in
  production every return is refused. A `shipment/created` that comes before its
  `order/created` leaves the row of the shipment behind, and the primary key then fails
  every repetition: the items never learn of their shipment (`HandleShipmentCreated`).
* Two new versions of a tax rate or a variant at once get the same number
  (`NextNumber`); versions that reach the order service out of order, or are lost after
  the commit, leave it charging another price until the next version
  (`UpdateProductVariantVersion`).
* An update of a product or variant writes back the whole row it loaded, so of two
  concurrent updates of different fields one is lost (`WriteRow`).
* A user whose `user/created` could not be published is never announced, because the
  repetition fails on the primary key (`CreateUser`); an address event that overtakes
  its user or its own creation is lost for the order service (`PushUserAddress`).
* Overlapping additions put two items of a variant into a cart, and overlapping
  `createReview` make two reviews; no index stands behind the checks.
* Replicas are stored with a plain INSERT: a repeated event fails for ever
  (`RegisterUser`, `RegisterTarget`).

## What is not modelled

* `findApplicableDiscounts` and the assembly of an order in `createOrder`: questions to
  other services and arithmetic on their answers, which change nothing before the one
  insert that `Order` models. The amounts are products of floats cut to integers,
  which TLA+ has no counterpart for.
* The replicas of coupons and shipment methods in the order service, categories and
  characteristics of the catalog with their trigger, media references, vendor addresses,
  `updateTaxRate` and `updateUser`: single statements that no other step depends on.
* The invoice service: its handler fails at the lookup of the address in the present
  code, before anything is stored.
* GraphQL queries, pagination, filters and mapping (they change nothing), generated
  code (most of the repository's lines: it dispatches to the resolvers that are
  modelled), authorisation (it only decides whether an action happens), card number
  checks, telemetry and HTTP wiring, media (a pass-through to an object store), and
  the gateway, frontend, identity and experiment submodules, which are not part of
  this repository.
* Crashes are modelled where they lead to a repetition (`Inventory!HandlerFails`,
  `Shipment!DeliveryFails`, `Discount!CallFails`). A crash of the payment service after
  the event was acknowledged (`payment/handlers.go:43`), or of the simulation in the
  middle of its in-memory work, loses that work; no property could say otherwise.

## Plan

Done: the services of the table, their composition, and a proof of every property of
the passing runs that needs no fairness. What would extend the project:

1. Faults in the saga. `Saga` has no failing calls and no repeated events; each service
   is checked and proved with them in its own module. Together they break `SoldIsHeld`
   in the ways [listed above](#what-the-models-show-about-the-code), so that the question
   is which of its exceptions are enough, and for which orders it still holds.
2. `validated` as the `Discount` module instead of its answer. The transactions of
   `Discount` multiply the states of `saga` beyond a run of minutes; the proof would take
   the discount service over as it does the other three.
3. The parts listed under [not modelled](#what-is-not-modelled) that hold state of their
   own: the characteristics of the catalog with their trigger, and the replicas of coupons
   and shipment methods in the order service.
