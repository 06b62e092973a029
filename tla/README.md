# A verification project for maco-backend

maco-backend is the server of a salon: customers book services and products of
a shop, pay online or in person, staff serve them. It is a NestJS application
on MikroORM 6 and PostgreSQL. This directory holds TLA+ models of the parts of
it whose correctness depends on the order in which things happen, the TLC
configurations that check them, and proofs that TLAPS checks. Paths below are
relative to `src/src/` unless they begin with `test/`.

## 1. The system

### What every part shares

* **One entity manager per request.** A handler reads rows into an identity map
  of its own, checks and changes the copies, and calls `flush`. A flush writes
  only the columns that differ from what was read, by primary key. No entity
  has a version column, and no query takes a lock.
* **READ COMMITTED.** `em.transactional` wraps some handlers (webhook, expiry,
  the insertion of a booking), at PostgreSQL's default isolation: it makes a
  handler's writes one unit but does not keep two handlers from reading the
  same row before either writes.
* **One event loop, many awaits.** Handlers of one process interleave at every
  `await`, and those of several processes anyhow.
* **What stands behind the checks** are the primary keys, the foreign keys and
  the unique indexes that the migrations leave in place. One that used to stand
  behind the calendar, `sale_orders_active_slot_unique`, is dropped by
  `migrations/Migration20260509000000.ts`.

### Components

| component | state | operations | talks to |
|---|---|---|---|
| Order lifecycle (`commerce/commerce.service.ts`) | `sale_orders` (state, timestamps, reason), `sale_order_items` | createBooking, cancelOrder, markPickedUp, checkIn, start, complete, noShow | Payments (startCheckout inside the booking's transaction), catalog, staff calendar |
| Payments (`payments/`) | `payments` (state, session, expiry) | startCheckout, handleWebhookEvent, expirePending (cron every minute, or forced) | writes the order of the session; provider by HTTP |
| Payment providers (`payments/providers/`) | none of ours | post outcomes | the webhook |
| Staff calendar (`commerce/`, `scheduling/`) | order window and mirror (`staff_id`, `service_id`), item slots and staff, `staff_schedules`, `staff_qualifications` | createBooking, rescheduleOrder, changeStaff | reads catalog and orders |
| Availability (`scheduling/scheduling.service.ts`) | none | listings of free slots, of eligible staff | reads the same tables |
| Cart, quote, pricing (`commerce/`, `catalog/combo-pricing.helper.ts`) | none | quoteBooking, resolveLines | reads the catalog |
| Agenda (`commerce/commerce.service.ts`) | none | getAgenda | reads orders, items, schedules |
| Sessions (`tenancy/auth/auth.service.ts`) | `refresh_tokens` | login, refresh | users |
| Login by phone (same file) | `magic_link_attempts`, `magic_link_rate_limits`, `users`, `user_roles` | startPhoneLogin, verifyPhoneLogin | message provider, sessions |
| Guards (`tenancy/auth/*.guard.ts`) | none | decide on one request | users, the token's roles |
| Users (`tenancy/tenancy.controller.ts`, `create-user.handler.ts`) | `users`, `user_roles` | updateMe, createUser | the e-mails that login by phone looks for |
| Tenant registration (`tenancy/`) | `tenants`, `roles`, `users`, `tenant_configs` | sign up, create as administrator, activate after payment, onboarding handler | event bus, Stripe webhook |
| Event bus (`shared/cqrs/`) | events in memory | publish, handle with three retries | |
| Catalog (`catalog/catalog.service.ts`) | products, categories, services, dependencies, consumptions, combos | create, update, delete, reorder | referenced by orders and qualifications |
| Shop profile (`shop/shop.service.ts`) | none | getShopProfile | reads catalog and qualifications |
| Messaging, and six empty modules (finance, inventory, notification, pricing, subscription, support) | none | none that change state | |

### What is hard, and what correct means

**Orders and payments.** An order that is paid online and its payment session
are two rows that three kinds of actors write: people (cancel, check in, ...),
the provider (events that come late, twice, in contradiction, never) and the
cron. Each works on what it read. Correct means: a session ends once; no order
waits for a session that has ended nor is served while it is open; what must be
paid is not served unpaid; an order's timestamps tell how it came to its state;
and every session is resolved in the end.

**The staff calendar.** Who is busy when is spread over order rows, item rows
and a JSON column; two different checks look at different parts of it; the check
and the insertion are apart in time; rescheduling checks nothing. Correct means:
nobody serves two orders at once, whoever is put down is qualified, and the copy
of the first service's staff on the order agrees with the item.

**Catalog and cart.** An order is put together by many queries while the catalog
is edited. Correct means: its total is the sum of its rows, its slots fill its
window, nothing is in it twice, and it is charged as quoted if nothing changed;
a combo has the parts somebody gave it; what is referenced is not deleted.

**Sessions.** A refresh token is exchanged once, a replay ends all sessions of
its user. The look-up is by the hash of a text that is a function of user,
roles and second.

**Login by phone.** Up to five flushes in two requests, none of them in a
transaction: a link must log in once, a phone must not be sent links without
limit, a failure must not lose the link or leave half a customer.

**Accounts.** E-mails are unique in a tenant, and a customer who signs in by
phone has one that stands for the phone: login, profile and the reception write
the same column. Tokens carry roles, the guard reads the name: who has not said
who they are must get nowhere.

**Coming into being of a shop.** A name is asked for by a query and inserted by
a later flush, Stripe delivers again, events live in memory. Correct means: one
payment, one shop; who has paid gets it; it is configured as often as anybody
can know.

The hazards, each with its line and the property that watches it, are in
`PROJECT.json`.

## 2. The modules

| module | models | extends / instantiates |
|---|---|---|
| `CheckoutContract` | what booking and paying promise, without handlers | |
| `OrderPayment` | order lifecycle and payments, read and flush apart | refines `CheckoutContract` |
| `OrderPaymentProofs` | the theorems | `OrderPayment`, `TLAPS` |
| `StaffCalendar` | who is booked when | takes its order states from `CheckoutContract` |
| `Availability` | the listings of free slots and of free staff | extends `StaffCalendar` |
| `Agenda` | the day's agenda, a column for each member of the staff | extends `StaffCalendar` |
| `Catalog` | the catalog and its edits | |
| `Cart` | how a cart becomes an order's rows, while the catalog is edited | extends `Catalog` |
| `Storefront` | the shop's page and the quote | extends `Cart` |
| `StaffCalendarProofs` | the theorems about the calendar | `StaffCalendar`, `SumTheorems` |
| `ListingProofs` | those about the listings and the agenda | `Availability`, `Agenda`, `StaffCalendarProofs` |
| `CartProofs` | those about the catalog, orders and quotes | `Storefront`, `SumTheorems` |
| `SumTheorems` | lemmas on sums and concatenations of any length | `Functions`, `SequencesExt`, `TLAPS` |
| `SessionContract` | what refresh tokens promise | |
| `RefreshTokens` | login, refresh | refines `SessionContract` |
| `RefreshTokenProofs` | its theorems | `RefreshTokens`, `FiniteSetTheorems`, `TLAPS` |
| `PhoneLogin` | login by a link sent to a phone | |
| `Accounts` | guards, profiles, customers created by the staff | extends `PhoneLogin` |
| `AccountsProofs` | the theorems about both | `Accounts`, `SequenceTheorems`, `TLAPS` |
| `Registration` | sign-up, creation, activation by payment, onboarding | |
| `RegistrationProofs` | its theorems | `Registration`, `TLAPS` |
| `MC*` | instances for TLC | |

### OrderPayment

`order`, `payment` are the two tables (the columns the operations look at),
`due` says which `expires_at` have passed, `sent` what the provider has posted
so far, `txn[h]` what handler `h` has read (`seen`) and wants to write (`want`,
`pay`). Every operation of the services is an action that stands for the handler
from its first query to its last assignment, with its guards; `Flush` is the
UPDATE: `Column` leaves a column alone when the copy did not change it, and this
is what makes late flushes interesting: the expiry of an order that was already
cancelled when it was read does not write `state` at all. `Abort` is a crash or
a database error, before the commit. `createBooking` is one step because
nothing can see the rows it inserts before its transaction commits.

`Served`, `StagesOf` and the rest of the second half are properties.
`InFlightOK` says what a handler in flight may rely on when it flushes; it is
the part of the inductive invariant that is about handlers, and proved.

### StaffCalendar

`booking[o]` holds the calendar columns of an order (window, first service,
mirrored staff) and its items with their staff; items carry their slot. A cart
is a sequence of lines, those of a combo expanded, each with the staff asked for.
`IsStaffFreeAt` (commerce) and `IsStaffAvailable` (scheduling) are the two
checks as the code has them, differences included: the first looks at orders
and items, the second only at the orders `LoadOrderSlots` has fetched, which are
those that begin on one of the days asked for. `CheckBooking` /
`InsertBooking`, `CheckSwap` / `WriteSwap`, `CheckReschedule` /
`WriteReschedule` are the two halves of createBooking, changeStaff and
rescheduleOrder. In the code the checking half is several queries; here they
see one state. Whether an order is active is the business of
`CheckoutContract`, whose actions are conjoined (`BookTo...`) or stand alone
(`Proceed`). This is where the components meet: `OrderPayment` is shown to
implement that contract, and `StaffCalendar` assumes no more than the contract.

`swapped` and `strayed` are history: orders whose staff was changed, and orders
that were rescheduled or revived by a payment. The properties name them because
the code gives no guarantee for them.

### Availability

The listings change nothing, so they are operators on the calendar of
`StaffCalendar`, and what they promise are invariants of its runs:
`ComputeBookingSlots` (a service, for one or more days), `ComputeRescheduleSlots`
(an order that is to be moved), `GetPublicAvailabilitySingleSlot` (who is free at
one time, as asked while a visit of several services is put together),
`GetQualifiedStaff` and `GetPublicQualifiedStaff` (whom a receptionist or a
customer may choose), `ListEligibleStaffForChange` (to whom a part of an order
may be handed over). `CanBook` is the
first step of the booking that follows, with the check of the other service.
The two checks never disagree to the customer's loss by hiding a slot
(`FreeIsListed`); a listed slot can be refused when the slot is taken by the
second service of another order or by an order that runs over from the day
before, and `ListedIsBookable` says that these and moved orders are all the
cases. `ListedIsMovable` is what stands between a rescheduling, which consults
no calendar, and a clash. `ListingsAgree` compares the listings with one another:
for orders within a day, and, of the list of staff to hand over to, for the
services ordered, because an included service has the slot of the one it comes
with even where its own duration is longer. `NoOrderAssumption` says that nobody
is no order: listings that ignore no order ask for that one.

`Agenda` is the same kind of module for `getAgenda` and
`toAppointmentDtoForItems`: `AgendaOrders` is the query by local date (`Offset`
is the tenant's time zone; everything else goes by UTC), `ShownWith` the column
an item falls in, `Appointment` the block. Nothing in the code connects what
blocks a stylist (the order's window and staff, her items' slots) with what is
shown as hers; `BusyIsShown` says that swaps and bookings keep the two together
(for an order that was moved, by the new window that its block carries along),
and `ColumnsNeverOverlap` that no column shows two customers at once. A block
reaches from the first to the last item of a stylist, over gaps in which another
serves the order and she may be booked, so the second is about orders without
such a gap (`IsUnbroken`).

### Catalog and Cart

`Catalog` has the tables of the catalog and one action per operation. Most are
one step, at the moment of the write: ids are not used again, rows of goods and
combos are never deleted, flushes write the columns that changed, and foreign
keys and unique indexes refuse the rest, so a step at that moment has all the
outcomes. Two act on what they have read and are split: deleteCategory
(`CountProducts`, `RemoveCategory`) and updateCombo (`ReadCombo`, `SaveCombo`,
which removes the parts that were read, by id). `clock` counts the changes;
`updated` stands for `updated_at`, `at` and `since` tell when a part was stored
and when the request that stored it had read. `IsCatalog` is what the keys, the
indexes and the input DTOs leave possible: the catalogs to begin with (`Stocks`)
are assumed to be such, and the proofs show that they stay so.

`Cart` adds createBooking as it looks from here: `BeginBooking` (the cart is
well formed), `ResolveLine` once per line, `ResolveIncluded` once per service of
the visit, `InsertOrder`, with edits of the catalog anywhere in between. Each
service's dependencies are a query of their own, as in
`resolveAutoIncludeDepsForLines`, so that dependencies may come and go while they
are collected; what keeps a service from being included twice is what the loop
remembers, not what it reads (`IncludedWith`; its mutant asks again). A line of a
combo (`ComboLine`) keeps a `Snapshot` of its parts. The slots (`Cursor`), the window
(`duration`) and the total are computed apart, as in the code, and the
properties say that they agree nevertheless. Prices are integers in cents;
where floating point may round an exact half to either side, `Discounted` allows
both. `Storefront` has what a customer sees before: `ShopProfile` is
getShopProfile, `Quotes` is quoteBooking (`ResolveLines` is the loop of
resolveLines, `IncludedSoFar` that of resolveAutoIncludeDepsForLines, both by
recursion). Each is one look at the catalog, though quoteBooking, too, asks query
by query: a quote that overlaps an edit may mix two catalogs, and is none that an
order could be held to.
`QuotedIsCharged` compares quotes and orders of a catalog that stands still. The edits of the
catalog are grouped by the sections of its controller (`EditCategories`,
`EditProducts`, ...).

### RefreshTokens, PhoneLogin and Accounts

`rows` is `refresh_tokens` in order of insertion; two rows of a user with one
`issued` second are one text. `FindToken` is the query by hash, which may return
either; `Rotate` is the flush that revokes and inserts, `RevokeAll` the answer
to a replay.

In `PhoneLogin` each flush and each query a decision depends on is a step:
`ReadLimit`, `WriteLimit`, `SendLink` for startPhoneLogin; `ReadLink`,
`FindUser`, `CreateUser`, `CreateRole`, `IssueSession` for verifyPhoneLogin.
`consumed_at` is set in memory at `ReadLink` and stored by whichever of
`CreateUser` and `IssueSession` comes first, as in the code. `sent` and
`creators` are history.

`Accounts` adds what a session is good for. `Pass` is a request through
ProfileCompleteGuard and RolesGuard, to a handler open to all or to one of the
staff's; `anonymous` records whom the guards let through without a name.
`ReadMe`/`WriteMe` is updateMe, `ReadNewUser`/`InsertNewUser` CreateUserHandler,
each with its query for the e-mail and its flush; they share `WithEmail` with
the login, since all three rest on one unique key.

### Registration

`tenants` is the table in order of insertion (its roles and its owner go by the
same flush), `onboarding[t]` the event of a row and the insertions into
`tenant_configs` made on it, `checkout` Stripe's sessions, `txn` what a request
is about to do. Three operations differ in their command only: `RegisterTenant`,
`AdminCreateTenant`, `ActivateTenantAfterPayment`, all ending in `Execute`, which
is RegisterTenantHandler up to its query by name; `Insert` is the flush, guarded
by the unique index on the name and the primary key (`Stores`); `Announce`
publishes the event and answers, and Stripe may or may not hear it. A flush may
also fail (`Abort`), or be committed without an answer (`InsertGoesUnanswered`):
the handler then ends with an error, before it comes to publish, and the event of
that row is `unannounced` for good. `Seed`, `SeedFails`,
`SeedGoesUnanswered` are an attempt of BaseEventHandler: done, failed, or
committed without an answer. `Crash` loses events and requests, at any time.

## 3. What is checked

| run | shows | bounds |
|---|---|---|
| `order_race` | TypeOK, PendingTogether, PaidBeforeServed, TrailComplete, SessionsResolve with overlapping handlers | one order, two requests, one cron |
| `order_serial` | SettledTogether, OneOutcomePerSession, and the refinement of CheckoutContract, for handlers that do not overlap | two orders, one request, one cron |
| `calendar_serial` | TypeOK, BookedOnce, SinglesNeverClash, ListedIsMovable, ColumnsNeverOverlap for requests that do not overlap | two orders, two stylists, four carts, three start times, two days |
| `calendar_race` | MirrorFollowsFirst, DependenciesFollow, OnlyQualified, FreeIsListed, ListedIsBookable, ListingsAgree, BusyIsShown with overlap | one order, three stylists, six carts, two requests, two start times |
| `cart_race` | TypeOK, NeverBare, ListsMixOnlyOnOverlap, DeletedUnused, TotalExplained, SlotsFillVisit, IncludedOnce, QuotedIsCharged with overlap | one booking, two requests, one category, a product, three services, a combo, three carts, two changes of the catalog |
| `tokens_serial` | TypeOK, and the refinement of SessionContract | two users, five rows, three seconds |
| `phone_serial` | TypeOK, RateLimitHolds, SingleUse, UsedUpForSomething, NamelessHaveNoRole for requests that do not overlap but fail anywhere | one phone, three links, two attempts a window, one e-mail |
| `registration_race` | TypeOK, OneShopPerPurchase, SeededAsAnswered, PaidGetsShop, ShopSettles with overlap, repeated delivery, failures and crashes | one name, two sessions, two requests, three retries |

**Why the bounds are enough.** The operations on orders touch one order each;
only the cron's batch touches several, which two orders show (`order_serial`;
the theorems hold for any number). A lost update needs two handlers, and the
runs with overlap have two requests and the cron. A clash needs two orders; the
carts include one stylist, several, nobody (pending pool), any free, a combo, a
service that includes another, and the second day begins where the first ends,
so an order may span both. One order is enough for the listings in
`calendar_race`: both checks ask of each order by itself whether it is in the
way, and the start times let it end at midnight, end before it and run over it,
by the clock of UTC and by that of the tenant, which is `Offset` behind.
`Grid` is 2, the duration of the longer service, where the code has a constant
of 30 minutes; in a block of 5 the last start then fits only the
shorter service, and the end is off the grid. `CheckBooking` stops when the ids have run out, the
only bound in that module. In `cart_race` `MaxClock` is
2: a booking of two lines has two queries between which something can change; the
combo of two services that includes three times has two queries for
dependencies, and two changes take a dependency away from one service and give
it to another between them; a combo mixes with two updates, one of them begun
before the other ends. A category is counted before the first change, a product
is put into it by the first, and the second deletes it under the product: for
that, one of the catalogs to begin with has a product outside of a category; from one
inside, moving it out and in again and deleting would take three changes. Of the
others one sells everything, and in one most is still to be created. Discounts
are a third and a half, so that prices need rounding, the half of 25 and of 35
lying exactly between two cents. Rotation needs a token, its successor and another
login in one second: three rows. `MaxRows`, `MaxTime` bound rows and clock; with
`Ttl` 2 and `MaxTime` 3 a token expires within the run. `MaxAttempts` is 2 where
the code has 3, to keep three links enough to go over it. One phone is enough
there: rows of two phones have different keys, and meet only in the e-mails of
their users, of which there is a foreign one to be taken by the customer or by
the reception. In `registration_race` one name is enough for the same reason:
what names share is a session that is used for one name only; two requests and
two sessions race for it, and `Retries` is 3 as in the code.
`CHECK_DEADLOCK FALSE` is everywhere but in `registration_race`: the other
instances stop when ids, links or seconds run out and every order is over.

**Fairness** is assumed in two runs. *`order_race`, `SessionsResolve`.* Time passes (weak fairness
of `ExpiryPasses`). A request in flight ends, with a commit or without. The cron
is called every minute whatever the requests do: strong fairness of its start,
since requests may resolve and the expiry may find nothing again and again; and
strong fairness of its flush: the database does not refuse it for ever. The
errors of a cron run are logged and swallowed (`payments/payments.cron.ts`), so
the next minute's run starts as if nothing had happened: `Abort` of the cron is
allowed any number of times. Nothing is assumed of the provider, of customers
or of staff. *`registration_race`.* A request in flight ends, by its flush or
without (`ShopSettles` needs no more of it, and says what becomes of every row
whose flush was answered), and an event that is pending is
handled and its retries, which are timers, fire: weak fairness, for each of the
rows there can be. `PaidGetsShop` needs strong fairness: Stripe repeats a
delivery while it is not acknowledged, some delivery finds a request free, and
not every flush of a delivery fails. Nothing keeps the process from crashing.

### Where the code does not do what it says

Each is a run whose property TLC violates, with the line it contradicts in
`PROJECT.json`:

* `one_outcome_race`: two events, or an event and the expiry, that read a
  session as pending are both applied, though the second should get 410.
* `booking_race`: two bookings of one slot that were both checked before either
  was inserted are both inserted; the handler still expects a unique violation.
* `swap_clash`: without any race, the swap offers a stylist who has the slot as
  the second stylist of another order.
* `replay_same_second`: a token signed in the second of its predecessor is the
  same text; the replay of the old one may be accepted.

Others the models show but no run is spent on:

* *Orders.* A check-in that read its order before a cancellation committed puts
  the order back to `checked_in`. A rescheduled order lands on any slot, with no
  calendar consulted, and the agenda goes on showing it at its old hours, for its
  items keep them.
* *Staff.* The agenda shows a combo in the column of the order's own staff, for
  its row has no staff, where the comment at `commerce/commerce.service.ts:1548-1551`
  has it in the column of whoever performs it. The block of a stylist who does the
  first and the last of three services covers the second, in which she may be
  booked for another order (`toAppointmentDtoForItems`). The list of staff to swap to
  leaves out "every staff currently holding ANY of the subset's items"
  (`commerce.service.ts:541-546`), but the source itself is on it when its items
  are those nobody has taken.
* *Shop.* Services that nobody is qualified for are hidden; combos made of them
  are shown.
* *Sessions.* Of two overlapping verifications of one link both succeed, though
  the comment on verifyPhoneLogin says single-use (`auth.service.ts:113`): with
  `Serial` FALSE and two requests, TLC finds `SingleUse` violated. Two overlapping
  refreshes with one token both get a successor. A
  refresh in flight inserts a live token after a replay has revoked all. A
  refresh asks neither for the user's state nor for the tenant's status.
* *Accounts.* A verification that finds the user before its role is inserted (or
  after a crash in between) logs in a customer without a role; nothing adds the
  role later, and ProfileCompleteGuard lets such a user through without a name
  (`NamelessHaveNoRole` says that no other gets through, and to nothing of the
  staff's). A customer who changes the e-mail that stands for the phone is not
  found by the next login by phone, which creates a second account.
* *Catalog.* Two overlapping updates of a combo leave it with the parts of both
  (the later PATCH does not replace the items, as `test/catalog.e2e-spec.ts:749`
  has it). A category is deleted under a product that was put in it after the
  count, and under services always. A combo goes on selling a service that is
  archived.
* *Registration.* A flush that was committed but not answered, a crash between the
  flush and the publication, or one before the last retry leaves a shop without configuration, and nothing looks for such
  shops. A seeding that was committed but not answered is repeated, and
  `tenant_configs` has no unique key to stop it. Of two purchases of one name the
  second is paid and never gets a shop: every delivery is answered with 409.

They are why the properties of the serial runs are stated for requests that do
not overlap.

## 4. What is proved

`OrderPaymentProofs` has no bounds: any sets of orders, requests and cron
processes. It assumes `HandlersAssumption` (a request is not a cron process),
and for the second part `Serial`.

*However handlers interleave.* `Invariance` shows that `IInv` is inductive:
`TypeOK`, `PendingTogether`, `PaidBeforeServed`, `TrailComplete` and
`InFlightOK`. The first four are not inductive without the last: a flush writes
values decided at an earlier state, so one must know that nothing since could
make them wrong. `HeldOK` lists what stays true under the steps of others:
timestamps only grow; no handler wants to go back to `pending_payment`; a
handler that leaves `state` alone did so because the order was past waiting; one
that wants a served state of an order to be paid has seen a posted success; one
that leaves the payment alone and does not cancel has seen a session that is no
longer open, and sessions do not reopen. The theorems `TypeCorrect`,
`PendingTogetherHolds`, `PaidBeforeServedHolds`, `TrailCompleteHolds` follow.

*When handlers do not overlap.* `SerialInvariance` adds that at most one handler
is in flight, that what it read is still what is stored, and what it wants is
one of the moves of the code. From it: `SettledTogetherHolds`,
`OneOutcomeHolds`, and `ContractImplemented`, that `OrderPayment` implements
`CheckoutContract` (initial states map to initial states, and each flush to one
step of the contract, everything else but a booking to a stutter).

`RegistrationProofs` is about any names, sessions, requests and any number of
retries, and assumes `NoneAssumption` (nothing is no session) and
`RetriesAssumption` (a natural number). `OneShopPerPurchase` is not inductive:
it holds because a session has one name (`RowsOfSessions` and
`CommandsOfSessions`: a row, and a command still on its way, have the name of
the session they come from; `NamedOnceOpen`: sessions do not change it) and
names are unique (`NamesOnce`, which `Stores` keeps, not the check in `Execute`).
A flush that goes unanswered stores a row like any other (`Stored`). That an acknowledged session has its shop needs `AnnouncedOnce`:
who answers Stripe is about to announce a row of that very session. For
`SeededAsAnswered` the columns of an event are counted together (`Counted`).
The steps of `IInv` are one lemma per action (`AttemptInv` for the three ways an
attempt ends), and `OnePurchaseOneShop`, `SeededAsAnsweredAlways` and
`TypeCorrect` follow.

`RefreshTokenProofs` is about any users, requests, life time and bounds, and for
its second theorem assumes `Serial`. Its `IInv` is `TypeOK`, the types of requests
at work, and `FoundIsLive`: under `Serial` nobody else is at work, and the row a
refresh has found is live still, for logins and the clock revoke nothing. That
is what `SessionsImplemented` needs, the refinement of `SessionContract`: live
rows are counted with the theorems about finite sets; a login adds one of its
user's, a rotation takes one away and adds one, a replay leaves none.

`StaffCalendarProofs` is about any orders, requests, staff, services, carts of any
length, schedules and start times. It assumes what `StaffCalendar` names: services
take time, starts and blocks are natural numbers and a block ends with its day,
carts are sequences of lines that are not empty, only services are included in
services. `IInv` is `TypeOK`, `RowsOK` and `TxnOK`. An order's row is good
(`GoodRow`) from the moment it is decided on: its mirror follows the first service
(`Mirrors`), dependencies follow their service (`Follow`), all are qualified
(`Skilled`), and its slots are in a row (`Slots`); until it is rescheduled its
window spans them (`Spans`) and lies in one block of work if it is of a single
service. None of this is inductive by itself: a swap writes staff and mirror
decided at an earlier state, so `SwapOK` says what remains true of its decision
whatever is written meanwhile; the slots of a row never change, which is why the
items it names are still the same. From it follow `TypeCorrect`,
`MirrorFollowsFirstAlways`, `DependenciesFollowAlways` and `OnlyQualifiedAlways`,
however requests interleave. Assuming `Serial`, `SerialInv` adds that one
request is at work (`Alone`) and that what it has found free is free still
(`BookStillFree`, `SwapStillFree`): `BookedOnceAlways` and
`SinglesNeverClashAlways`. That the check of a booking means what it says about
every other order, those that begin on another day included, needs `Spans`,
`InOneBlock` and the arithmetic of days (`DaysApart`, `WithinDaysApart`).

`ListingProofs` uses the same invariants for the operators that list and show:
`FreeIsListedAlways`, `ListedIsBookableAlways`, `ListingsAgreeAlways`,
`ListedIsMovableAlways` and `BusyIsShownAlways` hold however requests interleave,
`ColumnsNeverOverlapAlways` when they do not; for any grid and any difference
between the tenant's clock and UTC.

`AccountsProofs` is about any phones, links, e-mails, requests and number of
attempts. However requests overlap or fail, `IInv` (the types of the tables and
of each request at work, `UnsentUnused`, `UsedUpForSomething`) is inductive:
`TypeCorrect`, `UsedUpForSomethingAlways`. That a token holds no role its user
lacks is part of the types. Assuming `Serial`, `InHand` says that what a request
has read is true still, and `TablesAgree` what that keeps: no more links sent
than counted, a link that has logged in is used up, a token has exactly the
roles of its user. From it `RateLimitAlways`, `SingleUseAlways`,
`NamelessHaveNoRoleAlways`. A failure between two flushes of a request leaves
tables that satisfy the same invariant, which is the point: nothing is
assumed about requests that end in the middle.

`CartProofs` is about any goods, combos, lists, carts of any length, catalogs to
begin with and number of changes, with edits, bookings and failures interleaved
in any way. It assumes that what is nothing is no row (`NoneAssumption`), that
catalogs begin as the handlers leave them (`StocksAssumption`), and what the
input DTOs see to. `CInv` keeps the foreign keys and unique indexes (`Tables`,
`GoodOK`, `ComboOK`) and, in `WorkOK`, what a deletion or an update that is under
way still knows of what it read; what others do in between is summed up in
`Later`, so each action is compared with each request once. `NeverBareAlways`,
`ListsMixAlways`, `DeletedUnusedAlways` follow. `Bookings` is the part about
orders: the services of the lines resolved so far are a `Chain`, each slot
beginning where the one before it ends, whatever durations were when they
were read. A chain covers every minute once (`ChainCovers`), and its end is the
sum of its durations (`ChainSum`), which is what `cursorMinutes` and
`computeAppointmentEnd` compute apart. `TypeCorrect`, `TotalAlwaysExplained`,
`SlotsAlwaysFillVisit` follow. Included services are collected by several steps,
with edits in between, so what holds of them holds of what has been collected so
far (`IncludedOK` in `BookOK`), and `IncludedMore` adds one more service to it
whatever its dependencies are by then: `IncludedAlwaysOnce`. For `QuotedAlwaysCharged`,
`Fresh` says that a booking since whose beginning the catalog has not changed is
one that `ResolveLines` finds, at every turn of its loop (`ResolveLinesSteps`), and
so with the included services (`IncludedSoFarSteps`);
the quote and the profile add up in other ways than the order (over all
lines, over the rows of combo parts), so sums are compared term by term.

`SumTheorems` has what these need and the library has no theorem for:
`SumFunction` splits and is unchanged when terms are renamed (`SumBijection`),
prolonged (`SumPrefix`) or zero (`SumZeros`); `FlattenSeq` of one more sequence is
a concatenation (`FlattenPrefix`). All are inductions, and the library's theorems
of induction take a predicate, which these provers cannot instantiate.
`SetInduction` puts it as a fact about sets instead: a set of naturals that has 0
and with n also n + 1 is all of them. It is proved from the least element of a
finite set. `StartOf`, a recursive function of `StaffCalendar`, and
`ResolveLines` and `IncludedSoFar` are unfolded in the same way.

**Only model-checked:** liveness (`SessionsResolve`, `PaidGetsShop`,
`ShopSettles`), for fairness and ENABLED are out of this prover's reach. Every
other property that a passing run checks is a theorem, under the assumptions on
constants that the module declares, which TLC evaluates in the runs. What the
proofs do not say is that the models are the code: the bound on changes of the
catalog (`MaxClock`) and on rows and seconds (`MaxRows`, `MaxTime`) are constants
of any size, and `Serial` is a choice of what overlaps, not a promise of the code.

## 5. What is left out

* In `OrderPayment`, the total: `createBooking` takes whether it is positive as an
  input. In `StaffCalendar`, products: they take no staff and no time.
* In `Catalog`, names, descriptions, the order of categories, and service
  consumptions: nothing the models look at reads them.
* Ownership and role checks (`ForbiddenException`): they restrict who may call
  an operation, not what it does, and the models let anybody call, except in
  `Accounts`, which is about who gets through. `TenantGuard` is applied to no
  route; JwtAuthGuard's comparison of header and token needs a second tenant.
* Users created with roles other than customer, and the queries `me`,
  `listUsers`, `listMyOrders`, `getOrder` and the lists of the catalog.
* `CreateTenantHandler`: its event has no handler, and it stores nothing. Nothing
  sets `tenants.slug`, by which shops are found in public.
* The name, address and staff on the shop's page; names and totals in the agenda.
* Users' state and the tenant's status: no operation changes a user's state or
  suspends a tenant; both are taken to be active.
* `cancellation_reason` is one of four values; an event's `cancelled` outcome is
  handled as `failure` by the code except for the wording of the reason.
* The listing for several services in a row when no order is given: it returns
  every half hour from 9 to 18, whoever works then.
* Messaging (a failure to send is swallowed, and `PhoneLogin` shows that it makes
  no difference to what is stored), the six empty modules, seeds.

## 6. Plan

Done, in this order: `CheckoutContract`, `OrderPayment`, its proofs,
`StaffCalendar`, `Availability`, `SessionContract`, `RefreshTokens`, `PhoneLogin`,
`Catalog`, `Cart`, `Registration`, `Accounts`, `Agenda`, `Storefront`,
`RegistrationProofs`, `RefreshTokenProofs`, `StaffCalendarProofs`, `ListingProofs`,
`AccountsProofs`, `SumTheorems`, `CartProofs`.

Next:

1. How many overlapping requests it takes: the clash of `booking_race` needs two
   bookings, and a serial invariant for bookings that overlap only with swaps of
   other staff would say more than `Serial` does.
2. What holds for the calendar when one request is a rescheduling from the
   listing of `ComputeRescheduleSlots`, so that `BookedOnce` need not leave such
   orders out.
