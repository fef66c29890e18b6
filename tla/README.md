# A TLA+ verification of racerlab-api

racerlab-api is the server of a multi-tenant management system for car
workshops: NestJS 11 controllers and services over Prisma 6 and PostgreSQL at
its default isolation level, READ COMMITTED. There is no queue, no background
job and no state in the server's memory that outlives a request: everything
that can go wrong between two requests goes wrong in the database. The models
are therefore models of **transactions**: what each one reads, under which lock,
what it decides from what it read, and what it writes.

Paths below are relative to the repository (`src/modules/...`,
`prisma/...`, `openspec/...`).

## 1. Inventory

| Component | State | Operations that change it | Talks to |
|---|---|---|---|
| **Quotes** `src/modules/quotes` | `quotes`, `quote_items`: status, version, source, items and totals | `create`, `createVersion`, `update`, `changeStatus` | locks `service_orders`, moves the order's status, appends to its history |
| **Service orders** `src/modules/service-orders` | `service_orders` (status, closedAt, code, technician), `service_order_status_history` | `create`, `update`, `changeStatus`, `assignTechnician` | cancels open quotes; reads customers, vehicles, memberships |
| **Inventory** `src/modules/inventory` | `inventory_products` (stock, active, category), `inventory_movements`, `inventory_categories` | movements `create`; products `create`, `update`; categories `create`, `update` | movements may name a service order |
| **Sessions and tokens** `src/modules/auth` | `auth_sessions`, `refresh_tokens`, `users.password_hash`, `must_change_password` | `signup`, `login`, `refresh`, `selectWorkshop`, `changePassword`, `logout`, `logoutAll` | memberships bind a session to a workshop |
| **Guards** `jwt.strategy.ts`, `src/common/guards` | none: every request re-reads session, user and membership | – | sessions, memberships |
| **Memberships** `src/modules/memberships` | `memberships`, `users` | `create`, `update`, `resetPassword` | locks `workshops`, revokes sessions |
| **Workshops** `src/modules/workshops`, tenancy migration | `workshops.owner_user_id`, `memberships.role_id` | `create`, `updateCurrent`, `transferOwnership`; triggers `lock_membership_workshop`, `*_owner_invariant` | rebinds the caller's session after the commit |
| **Customers, vehicles** | `customers`, `vehicles` | `create`, `update`, `remove` | foreign keys between them and from orders |
| **Diagnoses** | `diagnoses` | `create`, `update`, `remove` | checks the order in a transaction of its own |
| Configuration, validation, health, hashing, test support | none | – | – |

What is hard here:

* *Two requests on one aggregate.* Quotes and stock are protected by `SELECT ...
  FOR UPDATE` on the order row and on the product row. Other writers of the same
  rows (`ServiceOrdersService.changeStatus`, `InventoryProductsService.update`)
  read first and take the row lock only when their `UPDATE` runs.
* *Stale checks.* A status, a category, a role, a password is checked in one
  statement and relied upon in a later one.
* *Failure in the middle.* An interactive transaction can end at any statement:
  a thrown exception, Prisma's transaction timeout, a lost connection, a crash.
* *Two components in one commit.* A quote decision moves the order too, and the
  cancellation of an order sweeps its quotes.
* *Repetition.* Refresh tokens are sent twice, by two tabs or by a retry, and
  the server tells a duplicate from a theft by a grace window of time.

What makes each component correct:

* Quotes: at most one draft and one live (active or approved) quote per order;
  versions unique and linked in one chain; only drafts editable; decisions
  follow the transition table; a decision and the order move together; a
  cancelled order has nothing open.
* Orders: statuses follow their table, final ones are final, each change is
  recorded with the status it started from.
* Inventory: stock is the sum of its ledger, within `0..MAX_QUANTITY`; inactive
  products do not move; inactive categories are not assigned.
* Sessions: one usable refresh token per session; reuse outside the window
  revokes; nothing issued outlives a revocation or a password reset.
* Workshops: exactly one active OWNER, the one the workshop row names, after
  every commit and through every race of transfers and updates.
* Registry: orders and vehicles never refer to deleted rows, and a refused
  deletion says why.

`PROJECT.json` lists each hazard at its source line with the property that
covers it, or with the reason why none does.

## 2. Modules

Order of the modules, the most important behaviour first. Each detailed module
implements the abstract one named before it.

| # | Modules | Subject |
|---|---|---|
| 1 | `QuoteBook`, `QuoteWorkflow`, `MCQuoteWorkflow`, `QuoteWorkflowProofs` | quotes of one order and the order's status |
| 2 | `StockAccount`, `InventoryLedger`, `MCInventoryLedger`, `InventoryLedgerProofs` | stock of one product and its ledger |
| 3 | `SessionRegister`, `AuthSessions`, `MCAuthSessions`, `AuthSessionsProofs` | sessions and refresh tokens of one user: rotation, grace window, revocation |
| 4 | `Ownership`, `WorkshopTenancy`, `MCWorkshopTenancy`, `WorkshopTenancyProofs` | memberships, transfer of ownership, deferred owner constraint |
| 5 | `Access`, `AccountAccess`, `MCAccountAccess`, `AccountAccessProofs` | password of one user, the workshop a session is bound to, access tokens and guards |
| 6 | `Archive`, `Registry`, `MCRegistry`, `RegistryProofs` | customers, vehicles, orders and diagnoses, and the foreign keys between them |
| 7 | `Desk`, `OrderDesk`, `MCOrderDesk`, `OrderDeskProofs` | codes of orders, edits, technicians |
| 8 | `QuoteTotals`, `MCQuoteTotals`, `QuoteTotalsProofs` | the arithmetic of `computeTotals`, edits and copies |

Components meet in shared rows, and each module says what the others do to its
rows: `QuoteWorkflow` holds quotes and orders together because one commit changes
both; `AccountAccess` composes sessions with passwords and memberships, so that
what a login, a reset, a move between workshops and an administrator do at once can
be seen in one place; `Registry` composes the four services whose rows refer to
each other; `OrderDesk` takes from `QuoteWorkflow` that a delivered order may come
back (`ChangeStatus`).

Each is proved to implement its abstract module, except `QuoteTotals`, which has none:
`StoredAsComputed` is its promise. Section 6 says what is left to TLC.

## 3. How a transaction is modelled

Each slot of `Requests` serves one request at a time; `txn[r]` records where its
transaction is (`pc`) and the values it has read and still relies on (`seen`).

* **Lock.** `LockServiceOrder` and `LockProduct` are `SELECT ... FOR UPDATE`: they
  wait for `rowLock = NoRequest`. PostgreSQL evaluates the row again after the
  wait, so what they read is the current committed row.
* **Check.** What a transaction reads after the lock is a step of its own, and
  what it decided is not looked at again when it writes. Where the lock fails to
  protect a read, the model shows it (each `...Unlocked` operator is that
  experiment).
* **Write and commit.** The writes of a transaction become visible together at
  its commit and they start with or under the row lock, so all of them, including
  the status of the order, its history row and the sweep of the quotes, are one
  action. An `UPDATE` that was not preceded by `FOR UPDATE` also waits for
  `rowLock = NoRequest`; between its read and its write anything may happen.
* **Failure.** `Rollback` may strike any transaction at any point before its
  commit. It stands for crashes, timeouts, lost connections and for refusals
  that depend on data the model leaves out (an unknown member, an inconsistent
  approval method, a discount above the subtotal, a duplicate SKU).
* **Refusals** that depend on modelled state are the ELSE branches: the
  transaction ends and changes nothing.

A read that opens a transaction and the arrival of its request are one action
(`ReadOrder`, `ArriveUpdate`): before its first read a transaction influences
nothing. Every request runs in its own slot, so a client's retry is one more
request and needs no action of its own.

### QuoteWorkflow

`orderStatus`, `closedAt` and `lastHistory` are columns of `service_orders` and the
newest row of its history; `quotes` maps ids to rows (`ABSENT` before the insert).
Items, discount, tax, totals and currency of a quote are one `content`: only
whether they change matters to the properties.

| Action | Code |
|---|---|
| `Arrive`, `ReadOrder` | `QuotesController` handlers; the unlocked read and check of `ServiceOrdersService.changeStatus` |
| `LockServiceOrder` | `lockServiceOrder`, with the status check of `lockQuotableServiceOrder` for the three drafting operations |
| `Validate` | the reads and checks of the four operations: `CanCreate`, `CanCreateVersion`, `CanUpdate`, `CanChangeQuoteStatus` |
| `Create`, `CreateVersion`, `Update` | the writes of `create`, `createVersion`, `update` |
| `ChangeQuoteStatus` | supersession, then transition (`Statements`, in this order), then `advanceOrder` |
| `ChangeOrderStatus` | the writes of `ServiceOrdersService.changeStatus`, with the sweep of open quotes |

The partial unique indexes and the one on versions are not part of the model.
`IndexesNeverNeeded` (checked and proved) says that no statement would ever violate
one, so the P2002 branch of `translateWriteConflict` is unreachable through these
operations and leaving the indexes out loses no behaviour. An index that is not
deferred looks between the statements of a transaction, too: `Statements` holds the
book after each of the two that a transition consists of, and the property looks at
the first one for every request that is about to take it.

One lock is modelled, that of the order row. Each transaction that writes quotes
takes it before it writes one: `lockServiceOrder` begins with it, and
`ServiceOrdersService.changeStatus` updates the order (line 321) before it sweeps its
quotes (line 340). A circle of waits needs a second lock that is taken first
somewhere, so the order of locks is not a question the model asks. `RequestsEnd` is
about a row that is not released.

### InventoryLedger

`product` is the row of one product, `movements` its ledger in commit order,
`categoryActive` the flags of the categories. Decimal(12,3) quantities are
naturals, counted in thousandths. `RESERVATION` and `RELEASE` exist in the enum and
are written by no code, so they do not occur.

| Action | Code |
|---|---|
| `ArriveMovement` | `InventoryMovementsService.create` up to the lock: DTO and `assertMovementShape` |
| `LockProduct` | `lockProduct` and the check of `isActive` |
| `RecordMovement` | `computeStockChange`, the update of the product and the insert of the movement |
| `ArriveCreate`, `CreateProduct` | `InventoryProductsService.create`, opening stock and its first movement |
| `ArriveUpdate`, `UpdateProduct` | `InventoryProductsService.update`; only the fields of the body are written |
| `AssertAssignableCategory` | the unlocked read of the category |
| `UpdateCategory` | `InventoryCategoriesService.update` |

`late` in a request is no state of the program but a note for `OnlyLateAssignments`:
whether the category it asks for was deactivated, or the product taken out of it, since
the request looked. No guard reads it.

### AuthSessions

The sessions of one user: `session` maps ids to rows of `auth_sessions`, `token` to
rows of `refresh_tokens`, and `now` is the clock of the server, which `Tick`
advances at any moment. Dates are naturals. A family is the set of tokens that name
one session. `users.is_active` is written by no code and left out.

| Action | Code |
|---|---|
| `Login` | `issueSession`, one nested insert; its clock reading lies in the past by the time the insert commits |
| `ArriveRefresh` | the default argument `now = new Date()` of `rotateRefreshToken` |
| `ReadToken` | `findRefreshToken`, `assertUsableSession` and the checks before the transaction |
| `Rotate` | the transaction of `rotateRefreshToken` |
| `ReadAgain` | what the loser of the guarded consume does: second read, second clock |
| `ResolveConcurrentReplacement` (in the two reads) | the same replacement within the grace window, otherwise on to `revokeSession` |
| `ArriveLogout`, `RevokeSession` | `revokeByRefreshToken`, `revokeSession` |
| `BeginSweep`, `LockRows`, `FinishSweep` | `revokeAllUserSessions`, the transactions of `changePassword` and of `resetPassword` |

Choices worth knowing:

* The clock of a refresh is read when it arrives and used to its end, the token
  is read later: the two may be in any order with respect to another tab.
* `Rotate` is one step, because its first statement locks the session row and
  every other writer of that session's tokens that could be seen half way waits
  for the same row. It can still end in the middle: then nothing was written,
  and that is `Rollback`.
* A sweep is not one step. Its first `UPDATE` takes a snapshot (`BeginSweep`),
  waits for rows locked by others and evaluates them again (`LockRows`); only
  then does the second `UPDATE` take its own snapshot of the tokens. What commits
  between the two is seen by the second and not by the first.
* A `findUnique` with `include` is one read. Prisma sends several `SELECT`s for
  it; a token and its session that differ by one commit are not represented.

### WorkshopTenancy

The members of one workshop: `ownerUser` is `workshops.owner_user_id`,
`membership` holds the role of each user and whether it is active (`NONE`: no row),
`mustChangePassword` the flag on `users`. `txn[r]` also records who asks and about
whom.

| Action | Code |
|---|---|
| `CreateWorkshop` | `WorkshopsService.create` |
| `Arrive` | the routes with `JwtStrategy`, `JwtAuthGuard`, `RolesGuard`: what they look at is not looked at again (`Authorised`) |
| `LockWorkshop` | `lockWorkshop` and the first statement of `transferOwnership` |
| `ReadRows` | the reads and checks of `create`, `update`, `resetPassword` (`CanProceed`), the reads of `transferOwnership` (`seen`) |
| `WriteAndCommit` | their writes; `IsInconsistent` is `demoted.count # 1`, `OwnerConstraint` the deferred constraint triggers |
| `ChangePassword` | `AuthService.changePassword`, as far as the flag goes |

Choices worth knowing:

* `OwnerConstraint` is evaluated on what the commit would leave, since the triggers
  are `DEFERRABLE INITIALLY DEFERRED`; if it is false nothing is written. The
  trigger `memberships_lock_workshop` takes the lock that each writer of
  memberships already holds, so it adds no step.
* A membership created by an administrator is of a new user; here that is a user
  who is not a member yet. Being a member of another workshop, which
  `resetPassword` refuses, is a cause of `Rollback`.
* The session that `create` and `transferOwnership` bind after their commit is in
  `AccountAccess`.

### AccountAccess

One user: `mustChangePassword`, her `membership`s (any number of workshops), the rows
of `auth_sessions` with the membership each is bound to, and `tokens`, the access
tokens in the hands of clients. Passwords have no value: `current` says who has
verified the one that is stored now, requests under way and sessions opened by such
a request, and a change or a reset of the password empties it.

| Action | Code |
|---|---|
| `Init` (`SignedUp`, `Hired`) | `signup`; `MembershipsService.create` |
| `Admit` | `JwtStrategy.validate` (`Accepts`), `JwtAuthGuard` and `WorkshopContextGuard` with the decorators of the routes (`PassesGuards`) |
| `ArriveLogin`, `IssueSession` | `findUserForLogin` and the verification; `issueSession` |
| `ArriveRefresh` | `refresh`, which signs what it read of the session |
| `ReadMembership`, `CreateWorkshop` | `selectWorkshop`; the reads after `transferOwnership` and the commit of `WorkshopsService.create` |
| `ActivateMembership`, `SignAccessToken` | `activateMembershipForSession` and every other signature |
| `VerifyPassword`, `ArriveReset` | the checks of `changePassword` and `resetPassword` |
| `BeginSweep`, `FinishSweep` | their transactions, and `revokeAllUserSessions` |
| `EndSession`, `ExpireToken`, `Administer` | logout, expiry or reuse; the end of a token; `MembershipsService.update` |

Choices worth knowing:

* Expiry, logout and reuse of a refresh token are one action: a session that ends
  never comes back, and how it ended makes no difference to what it gives access
  to. `AuthSessions` has them apart.
* `user.update` holds the row of the user until the commit, so two transactions that
  write the password exclude each other (`UserLocked`); a login reads without a
  lock and goes on.
* The sessions that a sweep closes are those its `UPDATE` has seen: a session
  inserted after that is not one of them.

### Registry

Four tables and which row refers to which. A row is `UNUSED`, `FILED` or `DELETED`,
and its key is not used twice. Nothing is locked: each request finds its row in one
step and writes in a later one.

| Action | Code |
|---|---|
| `FindCustomer`, `FindVehicle`, `FindOrder`, `FindDiagnosis` | the first statement of each operation, with the counts that `remove` looks at |
| `FindOrderCustomer`, `FindOrderVehicle` | `assertCustomerExists`, `assertVehicleBelongsToCustomer` |
| `CreateCustomer`, `UpdateCustomer`, `RemoveCustomer` | `CustomersService` |
| `CreateVehicle`, `UpdateVehicle`, `RemoveVehicle` | `VehiclesService` |
| `CreateOrder` | `ServiceOrdersService.create`, as far as customer and vehicle go |
| `CreateDiagnosis`, `UpdateDiagnosis`, `RemoveDiagnosis` | `DiagnosesService` |

The foreign keys and unique indexes are guards of the writes (`CanDeleteCustomer`,
`OrdersOf`, `DocumentIsFree`, `PlateIsFree`), since here the code relies on them. A
write that one of them refuses, or whose row is gone by now (P2025), does not happen,
and the request ends by `Rollback`.

### OrderDesk

The orders of one workshop by the number in their code. Of the nine statuses only
DELIVERED makes a difference; everything an edit may change is one value.

| Action | Code |
|---|---|
| `ArriveCreate`, `GenerateCode`, `InsertOrder` | `create`: the technician, `generateCode`, the insert and its unique index |
| `ArriveUpdate`, `UpdateOrder` | `update` |
| `ArriveAssign`, `ResolveTechnician`, `AssignTechnician` | `assignTechnician` |
| `ChangeStatus`, `Administer` | what `changeStatus` and `MembershipsService.update` do meanwhile |

`generateCode` reads the greatest code as text. `Before` is that order: a number is
filled with zeros on the right to one digit more than `Width` (`Aligned`), and of a
text and its continuation the shorter comes first. `ComparesAsText` says, of the texts
themselves, that this is right. `missed` is the one variable
part that is not in the code: it records that a request could not see a delivery or a
dismissal any more, and guards nothing.

### QuoteTotals

The figures of the latest quote of an order. Money is in cents and a quantity in
`1/Scale` units, as their columns hold them (`DECIMAL(12, 2)` and `DECIMAL(12, 3)`,
with the same number of decimals demanded by the DTOs), so that
`toDecimalPlaces(2)`, which rounds halves up, is `Round` on integers. The order's lock
makes every operation one step. `Create` and `Update` are `computeTotals` with what
they store of it, `CreateVersion` copies, `Decide` ends a draft.

## 4. Runs

| Run | Instance | Distinct states | Shows |
|---|---|---|---|
| `QuoteBookRun` | 2 requests, 3 quotes, 1 content, orders taken to DIAGNOSIS, QUOTED, CANCELLED | 703,597 | `TypeOK`, `IndexesNeverNeeded`, `DraftIsLatest`, `LineageIsAChain`, `SupersededHasSuccessor`, `ImplementsBook` |
| `QuoteDecisions` | 2 requests, 2 quotes, 2 contents, all nine stages | 710,596 | `NoOpenQuoteOnCancelledOrder`, `EveryQuoteMoveIsAllowed`, `OnlyDraftsEdited`, `ApprovalMovesOrder`, `StatusIsRecorded`, `ActivationNeverMovesBack` |
| `QuoteLiveness` | 2 requests, 1 quote, `FairSpec` | 10,067 | `RequestsEnd` |
| `InventoryLedgerRun` | 2 requests, 1 category, stock up to 2, 3 movements | 1,381,822 | `TypeOK`, `LedgerExplainsStock`, `ImplementsStockAccount`, `OnlyLateAssignments` |
| `AuthSessionsRun` | 2 requests, 2 sessions, 3 tokens, TTL 2, window 1, clock 0..3 | 548,239 | `TypeOK`, `FamilyIsAChain`, `ClosingReachesEveryToken`, `ImplementsRegister`, `WindowKeepsSession` |
| `WorkshopTenancyRun` | 2 requests, 3 users | 707,548 | `TypeOK`, `ConstraintStopsOnlyRepeats`, `OwnerKeepsPassword`, `ImplementsOwnership` |
| `AccountAccessRun` | 2 requests, 2 sessions, 2 memberships, 2 tokens | 714,872 | `TypeOK`, `TemporaryPasswordReachesNothing`, `ImplementsAccess` |
| `RegistryRun` | 2 requests, 2 customers, 2 vehicles, 2 orders, 1 diagnosis, 1 document, 2 plates, 2 texts | 28,388 | `TypeOK`, `OrderVehicleIsCustomers`, `ImplementsArchive` |
| `OrderDeskRun` | 2 requests, 1 technician, 2 details, codes of 1 digit to base 3 | 561,911 | `TypeOK`, `CodesEndAtWidth`, `ImplementsDesk`, `OnlyLateWritesSlipThrough` |
| `QuoteTotalsRun` | 1 or 2 items, 3 quantities, 2 prices, 3 amounts, columns up to 24 cents | 1,805 | `TypeOK`, `FiguresAddUp`, `TotalCoversTax`, `SubtotalNearExact` |
| `QuoteCancelledIsFinal` | 2 requests, 1 quote | violation | a status change that read the order before it was cancelled revives it |
| `WorkshopStaleOwner` | 2 requests, 3 users | violation | a transfer that waited for another one takes the workshop from its new owner |

The two violations are disagreements between the code and the sentences quoted
with them in `PROJECT.json` (`findings`); all other properties hold. Section 5 names
more places where the code does less than a sentence of its documents promises,
which the passing properties are weakened to admit.

**Bounds.** Two requests are enough for every race of two transactions, and a
third would have to wait for the same row lock as the second; the theorems of
section 6 hold for any number. Three quotes are the shortest book in which one
is superseded, one is live and one is a draft at once, and in which a clone of a
clone exists. `QuoteIds` bounds the number of versions through `HasRoom`; a
request for one more version cannot begin its write, but can end by `Rollback`.
`AskedStatuses` bounds which statuses clients ask for: the book does not depend
on the stages after APPROVED, which `QuoteDecisions` covers with two quotes. A
stock of 2 has a bottom, a middle and a top, so that underflow, overflow and a
count without difference all occur. `MaxMovements` bounds the ledger; three are
an opening stock and two racing movements. Two sessions
are one that is swept and one that opens while it is; three tokens are a chain
with a consumed end, a consumed middle and a tip, or a rotation beside a second
login. TTL 2 and window 1 on a clock of 0..3 let a token be fresh, within the
window, past it, expired and renewed beyond its first expiry. Three users are the
owner, the one who is made the owner, and one more whom the other request is
about. In `AccountAccess` two sessions are one that a change of the password spares
and one that it closes, or one that a sweep has seen and one opened after it; with
two memberships a session can be in one while the user leaves or enters the other;
two tokens are the old and the new one of a session that moves. `Registry` has two
of each row that is referred to, so that an order can name the vehicle of another
customer, and one diagnosis that two requests want. Codes of one digit to base 3
with numbers up to 4 are the smallest numbering in which the first code beyond its
padding is reached (3, written 10) and in which comparing texts and comparing numbers
differ, as `SO-9999` and `SO-10000` do. The quantities of `QuoteTotalsRun` times its
prices give results that are exact, that are halves and that round down, in sums
that reach and exceed the column, and the amounts lie below, between and above the
subtotals. `MaxTokens`, `MaxVersions` and the numbers of keys bound the models only. No
bound exists in the code, except `MaxQuantity`, which stands for `MAX_QUANTITY` of
`inventory-limits.ts`, and `MaxMoney` for the columns.

**Symmetry.** Requests, primary keys, contents and users are interchangeable in the safety
runs; the liveness run uses no symmetry.

**Deadlock** is checked: a request can always arrive or fail. Two runs switch the check
off because their bounds let the model really stop: in `RegistryRun` every key may be
used up with everything deleted that can be, in `QuoteTotalsRun` the last version may be
decided.

**Fairness.** `FairSpec` assumes weak fairness for steps that only need the Node
event loop and an answer from PostgreSQL, and strong fairness for the two steps
that wait for the row lock: PostgreSQL grants a row lock to its waiters in turn,
so a waiter is not overtaken for ever. Arrivals and failures are not fair: no
conclusion depends on a client coming or on a transaction timing out.

## 5. Properties worth knowing

* `IndexesNeverNeeded` – the lock alone makes drafts, live quotes and versions
  unique (`lockQuotableServiceOrder` calls the indexes "the final guard"), also
  between superseding the active quote and activating the new one. With these two
  statements swapped every commit would leave the same book, and the index would
  refuse the activation all the same.
* `NoOpenQuoteOnCancelledOrder` – although cancelling reads without a lock, its
  `UPDATE` waits for quote transactions in flight and sweeps what they left, and
  those that come later see a cancelled order: drafting is refused, and there is
  no open quote left to decide on.
* `EveryQuoteMoveIsAllowed` – also for requests that validated long before they
  wrote.
* `StatusIsRecorded` – the history row of a quote decision names the stage the
  order really had. For `ServiceOrdersService.changeStatus` only the status reached
  is claimed: its `previousStatus` may be stale, for the same reason
  `CancelledIsFinal` fails.
* `LedgerExplainsStock`, `ImplementsStockAccount` – no lost update, and no
  movement on a product that was deactivated while the request was under way.
* `OnlyLateAssignments` – `assertAssignableCategory` reads the category without a lock,
  so a category deactivated after that is assigned although "Inactive inventory
  categories cannot be assigned to products." (`inventory-products.service.ts:253`);
  a request that had no need to look, because the product was in the category already,
  brings it back there when another edit has taken it out meanwhile. The property says
  that there is no third way.
* `FamilyIsAChain` – two tabs, a retry and a crash in the middle of a rotation
  leave one unconsumed token per session, which ends with it, and a chain of
  replacements without a fork and without a ring apart from it.
* `ClosingReachesEveryToken` – a token rotated in while its session was being
  closed is revoked too. The administrator's reset is excepted: it closes sessions
  only, and `ImplementsRegister` says that this is enough to keep them closed.
* `WindowKeepsSession` – a refresh that comes within the grace window keeps its
  session, with one exception, which the property spells out: when the clock of the
  request was read before the other tab consumed the token. Then `consumedAgo` is
  negative, `consumedAgo >= 0` fails, and a good session is revoked
  (`session.spec.ts:122` says "returns the same replacement during the five-second
  concurrency window"). The property is about the session only. What the loser of
  the race is answered is not part of it; there the code returns the
  replacement, where `openspec/specs/user-auth/spec.md:105` has "the losing request is
  unauthenticated".
* `ActivationNeverMovesBack` – a draft activated after the order moved on leaves the
  order where it is. The order is not moved back, and that is what holds; the
  activation is silent about it, where
  `openspec/changes/complete-quote-workflow/design.md:16` says "State drift returns
  `409`, never a silent no-op".
* `ConstraintStopsOnlyRepeats` – the workshop's lock and the checks under it are
  sound by themselves; the deferred constraint matters in one case. A transfer
  to somebody who owns the workshop by now promotes and then demotes the same row,
  `demoted.count` is 1, and only the trigger refuses to commit a workshop without
  an owner. The client gets an unhandled error for what is a conflict.
* `OwnerKeepsPassword` – a reset and a transfer to its target cannot overlap, in
  either order. `ImplementsOwnership` adds that nobody sees a workshop with no
  owner or with two.
* `OnlyOwnerHandsOver` – fails: `transferOwnership` does not look at its caller
  again after the wait for the lock.
* `TemporaryPasswordReachesNothing` – says what survives of the promise that a reset
  shuts everybody out. A login that verified the old password before the reset
  opens its session after it, and a change of the password that did so overwrites
  the temporary one. Neither lets anybody who came with the *temporary* password
  into a workshop before it is changed. Such a session may still read its own
  bootstrap state: `GET /auth/me` is marked `AllowPasswordChangeRequired`
  (`auth.controller.ts:196`), changes nothing and is no request of the model.
* `ImplementsAccess` – each token is checked against the present binding of its
  session, so that moving to a workshop, losing it and closing the session take
  effect at once on all tokens, the ones still being signed included. A neutral
  token that a refresh signs for a session bound to a suspended membership gives
  access to nothing.
* `OrderVehicleIsCustomers`, `ImplementsArchive` – between the check and the write of
  an order, its vehicle and its customer may go. The keys of the schema want each to
  be there but do not tie them together; the pair is safe because a vehicle never
  changes its owner and a key is never used again.
* `ImplementsDesk` – crossing edits of one order keep each other's columns, although
  nothing is locked, because every write names only what it changes; two creations
  with one number end with one order and one refusal.
* `CodesEndAtWidth` – states a limit of the program, not a virtue: after the first
  code that is longer than its padding no order can be created any more. Up to there
  the numbers have no gap. A repair of `generateCode` that compares numbers would lift
  the limit and break the first half.
* `OnlyLateWritesSlipThrough` – edits of delivered orders and assignments of
  dismissed technicians do happen (`service-orders.service.ts:471` says "Delivered
  orders cannot be modified."); the property bounds them to requests that were under
  way at that moment.
* `TotalCoversTax` – the discount of a draft is compared again whenever its items
  are replaced, so that no sequence of edits gets a total below the tax.
* `StoredAsComputed`, a part of `FiguresAddUp` – `update` computes from what it
  reads and from what the body brings, and writes only what changed; what results is
  always what computing the stored quote anew would give, so an edit that changes
  nothing changes no figure.

Two more departures have no property. A session opened between the two statements of
`revokeAllUserSessions` stays live with its refresh token revoked; a refresh that
had read this token finds `consumedAt` null where `session.ts:290` takes it for
granted, and answers 503. And `rethrowWriteError` of the vehicles answers "Customer
not found." to every foreign key that refuses, the deletion of a vehicle with an
order included.

## 6. Proofs

tlapm checks eight modules of proofs, one for each model. The theorems hold for all
values of the constants under the named assumptions of the models: sentinels are not
members of the sets they extend, the keys of different tables are different,
`QuoteIds` is finite and not empty, `MaxQuantity` is a positive natural, the TTL is
positive and the window and the bounds are naturals, and codes have at least one
digit to a base of at least three and at most one more than they are padded to
(further the numbers do not get).

Where a fact needs induction over numbers, the library's induction theorems cannot be
used: they take a predicate as a parameter, which no installed prover can instantiate.
They are replaced by a fact about *sets* of naturals: one that holds 0 and, with a
number, its successor, is the whole (`SetInduction` in `QuoteTotalsProofs` and
`OrderDeskProofs`). It follows from the well-foundedness of `<` on the naturals. Taken
with the set of numbers up to which a function with the recursive equation exists, it
shows that a recursive function is what its equation says; with the set of numbers for
which a claim holds, the claim.

**QuoteWorkflowProofs** – `Invariance: Spec => []IInv` with
`IInv == TypeOK /\ LockInv /\ BookInv`.

None of the properties is inductive by itself: a transaction that has passed
`Validate` writes without looking again. `LockInv` says what such a transaction may
still rely on. A request past the lock *is* the lock holder; the stage it has
seen is the order's stage; and once validated, what `Validate` checked is still
true, because every other action that writes needs the lock. `BookInv` collects
what the book itself needs: uniqueness of drafts, live quotes and versions,
drafts on top, nothing open after cancellation. The proof has one lemma per action for each
part, and a lemma `CommitKeepsLockInv` for all actions that end a transaction.
From `IInv` follow

* the invariants `TypeCorrect`, `LockSuffices`, `DraftsAreLatest`,
  `CancellationClosesQuotes`. `LockSuffices` adds to `BookInv` that the first statement
  of a transition only takes quotes out of what the indexes count;
* the action properties `MovesAreAllowed`, `EditsTouchDraftsOnly` and
  `ApprovalsMoveOrders`, by a lemma that sorts every change of a quote into
  inserted, edited or moved;
* `ActivationsAdvance` and `ChangesAreRecorded`, by a lemma that finds, for a quote
  that goes live, the one request that decided so, which still knows the stage.

A second invariant, inductive relative to the first, holds what the rows tell of the
past: `HistoryInv == LineageIsAChain /\ SupersededHasSuccessor /\ NumbersInv`. A
superseded quote finds its successor in the draft activated with it: that was the
latest, and versions are unique. `NumbersInv` carries along that one row has the
highest number, so that the maximum in `LatestVersion` exists without an induction
over finite sets. `VersionsAreChained`, `SuccessorsExist` and the refinement
`BookImplemented` follow.

**InventoryLedgerProofs** – `Invariance` strengthens the chain of the ledger with
what a lock holder has seen (`seen` is still the stock, and the product still
active). `TypeCorrect` and `LedgerIsComplete` follow; `AccountImplemented` proves
the refinement of `StockAccount`, step by step. `LateAssignmentsOnly` has an
invariant of its own, `LookedInv`: a request that is past its check and not `late`
asks for a category that is active, or for the one the product is in. Each of the
two can be undone, by `UpdateCategory` and by another `UpdateProduct`, and those are
the steps that make a request late.

**AuthSessionsProofs** – `Invariance` with `IInv == TypeOK /\ TxnInv /\ LockInv /\
LinkInv /\ EndsInv /\ AbsentInv`. `FamilyIsAChain` speaks of sets of tokens and is
awkward to carry through a step; `LinkInv` (every link leads from a consumed token
to another of its session, no two to the same) and `EndsInv` (one unconsumed token,
one that replaces nothing) say the same token by token. One thing cannot be said so,
that there is no ring of replacements beside the chain: for that `ReachInv` says
that whatever set of tokens holds the tip of a family and, with a token, those it
has replaced, holds the whole family. A rotation keeps it, because a set closed
after it is, without the new tip, closed before it; `FamiliesAreChains` takes it as
its last part. `TxnInv` holds what makes a sweep complete: the rows it has locked
are still live and all their tokens are in its second statement, because whoever
would add one must lock the same row; `LockInv` says that rows are locked by one
sweep at a time. It also holds why renewing never shortens a session: until it has
tried to rotate, a request's clock is no older than its token. `FamiliesAreChains`,
`ClosingIsComplete` and the refinement `RegisterImplemented` follow. `WindowKeeps`
needs a second invariant, `WindowInv`: no request has read a clock that is ahead,
and a token that replaces another lasts for the TTL from the exchange. It also needs
that the TTL exceeds the grace window, which is a hypothesis of this theorem alone:
the TTL is what `JWT_REFRESH_TOKEN_TTL` says, 30 days if it says nothing, and the
window is five seconds.

**WorkshopTenancyProofs** – `Invariance` with `IInv == TypeOK /\ LockInv /\
OwnerInv`. `OwnerInv` is the owner constraint made inductive: before the workshop is
founded it has no members at all; afterwards the OWNER role, active or not, is held
by exactly the user the workshop names (the constraint counts active owners only,
and would let an inactive OWNER be reactivated into a second one). `LockInv` says
that what a request checked is still true when it writes. Two lemmas describe what a
transfer (`TransferEffect`) and any other write (`GenericEffect`) make of the
memberships. `ConstraintIsLastGuard`, `OwnersKeepPasswords` and the refinement
`OwnershipImplemented` follow.

**AccountAccessProofs** – `Invariance` with
`IInv == TypeOK /\ KeysInv /\ TemporaryPasswordReachesNothing`. The safety property is
inductive but for one thing, which `KeysInv` adds: requests and tokens only know
sessions that were opened. Otherwise a login could be handed a session that somebody
is already in. `TemporaryPassword` follows, and `AccessImplemented` by computing,
for each write, what it makes of the contexts that tokens of a session are accepted
for: nothing but the binding of the session and the state of that membership matters,
whatever tokens there are.

**RegistryProofs** – `Invariance` with `IInv == TypeOK /\ KnowInv /\
OrderVehicleIsCustomers`. There is no lock to rely on, so `KnowInv` says what outlives
the check without one: the vehicle found with its customer is still hers or was
deleted, since no update writes the owner and no key is used again. If it was deleted,
the foreign key stops the order. `OrdersAgree` and the refinement
`ArchiveImplemented` follow; for the latter each deletion is shown to leave no
reference behind.

**OrderDeskProofs** – `Invariance` with `IInv == TypeOK /\ FiledInv /\ KnowInv`.
`FiledInv` says that the numbers filed have no gap and stop at `Full`, the first number
with more digits than its padding. `Power` is a recursive function; that it is defined
and grows is proved by induction (`PowersExist`, `FullFacts`). The lemma `LastIsShort`
is the heart of it: the greatest text is never the first number beyond the padding,
because the number before that one, padded to the same length, is greater. That `Before`
is the order of texts at all is `TextOrderIsBefore`: leading parts of two texts compare
as the numbers read from them (`PartsCompare`, by induction), a text of `Width` digits
is the number times `Base` when it is filled up, and every number has one text
(`ShortTexts`, `TextsExist`). TLC evaluates the same statement on the instance, as an
assumption of `MCOrderDesk`. `KnowInv` says that the predecessor of a generated number
is filed, and that what a request could not see of deliveries and dismissals is in
`missed`. `NumberingEnds`, `LateWritesOnly` and the refinement `DeskImplemented` follow.

**QuoteTotalsProofs** – `Invariance` with an invariant that is one word, `Settled`:
the quote is what computing it anew from its own items would give, and acceptable.
That an update which keeps the items finds their totals unchanged is `PricedAgain`:
pricing what is priced changes nothing. `RoundNearest` bounds what rounding a line
costs, and `SumsNear`, by induction along the items, what it costs the sum.
`TypeCorrect`, `StoredIsComputed`, `FiguresAlwaysAddUp`, `TotalAlwaysCoversTax` and
`SubtotalAlwaysNearExact` follow, for quotes of any length.

**Only model-checked:** `RequestsEnd`; liveness under fairness is outside the
prover's reach. Two refuted properties, `CancelledIsFinal` and `OnlyOwnerHandsOver`,
have no theorem.

## 7. Not modelled

* `WorkshopsService.updateCurrent`, which writes a name that no decision reads.
* User agents and addresses of sessions; `users.is_active`, which no code writes.
* Reads (lists, searches, pages) and the shape of responses: they change nothing.
* Names, SKU uniqueness and prices of products; currencies and descriptions of items;
  names, addresses and notes of customers, vehicles and members.
* Other workshops, and other users than the one of `AuthSessions` and
  `AccountAccess`. Every statement filters by `workshopId`, or names one user or one
  session.
* Repair tasks, evidences, comments and permissions: they have tables and no code.
* The matrix of roles per route (`workshop-role-policy.ts`): a static table.
* Data migrations: they run once, before the program.
* Configuration, Swagger, health, logging, hashing: without state.

## 8. Running

```
tlc -workers 2 -config QuoteBookRun.cfg MCQuoteWorkflow
tlapm QuoteWorkflowProofs.tla
```

Every `.cfg` names its run. Operators whose comment starts with "Faulty" are
plausible mistakes in the definition they precede; `PROJECT.json` (`mutants`)
pairs each with the property that detects it.
