# A verification project for HostPanel

HostPanel is a hosting, billing and client-management application: a Next.js
web application (`apps/web`) whose server actions call domain services
(`packages/billing`, `packages/core`) over one PostgreSQL database through
Prisma, and a worker (`apps/worker`) that sends the mail those services queue in
Redis. This directory holds TLA+ models of it, the TLC configurations that check
them, and TLAPS proofs about them.

## The system

| Component | State it keeps | Operations | What is hard about it |
|---|---|---|---|
| Orders, invoices, manual payments (`packages/billing`, `apps/web/src/lib/actions/orders.ts`) | `Order`, `Invoice`, `Counter`, `StatusHistory` | `createOrder`, `issueInvoiceForOrder`, `markInvoicePaidManually`, `cancelInvoice`, `transitionOrderStatus`, `nextSequenceNumber` | reads without locks before writes by id; two transactions per placement; retries; gapless numbers |
| Catalogue and prices (`core/catalog.ts`) | `Product`, `ProductGroup`, `ProductPrice` | `createProduct`, `setProductPrice`, `getCurrentPrice`, listings | price rows are versioned by validity interval; two price changes at once; future-dated prices |
| Client accounts (`core/clients.ts`) | `Client`, `ClientContact`, verification and reset tokens | register, verify email, request/set password, authenticate, change status, edit profile, notes | one-time tokens read outside the transaction that consumes them; status changes that race; several commits per operation |
| Staff accounts (`core/staff.ts`) | `StaffUser`, `Role`, permissions, tokens | create, disable, set/reset password, authenticate, two-factor | as above, and disabling against open sessions |
| First-run setup and seed data (`core/setup.ts`, `packages/seed`) | `Tenant`, `Role`, `Permission`, first `StaffUser`; demonstration rows | `bootstrapSuperAdmin`, `seed.ts` | count-then-create by two submissions; statements that commit one by one and may stop anywhere |
| Sessions (`core/sessions.ts`, `apps/web/src/auth.ts`, `lib/session.ts`) | `StaffSession`, `ClientSession`, the signed cookie | create, validate, revoke | expiry, revocation and the account's status read at different moments |
| Login guard (`core/login-guard.ts`) | `LoginEvent`, `lockedUntil` | record an attempt, decide on a lockout | count, window and lock are three steps |
| Email delivery (`packages/jobs`, `apps/worker`, `packages/notifications`) | `EmailLog`, the BullMQ queue | `queueEmail`, the worker's processor and its `completed`/`failed` handlers | two stores, retries, stalled jobs, lost updates of the log |
| Settings (`core/settings.ts`) | `SystemSetting` | read, update company profile | read-modify-write |
| Money (`shared/money`) | none | `add`, `multiply`, `allocate`, `percentageBps`, parsing | rounding, sums that must not lose a cent, 32-bit columns |
| Permissions (`shared/permissions`, `auth/rbac.ts`) | none | `requirePermission`, role defaults | checked on an actor loaded before the command runs |
| Pages and components (`apps/web/src/app`, `components`) | none | rendering | – |
| Hashing, TOTP, encryption, tokens (`packages/auth`, `shared/ids`) | none | pure cryptography | – |
| Configuration, logging, error classes | none | – | – |

Components meet in the database: `createOrder` reads the price that
`setProductPrice` wrote, `markInvoicePaidManually` moves the order that
`issueInvoiceForOrder` billed, every operation that mails calls `queueEmail`,
whose row the worker updates, and every request is served on the session row a
login created, for an account whose status somebody else may change meanwhile. PostgreSQL runs at its default isolation, READ
COMMITTED, and nothing in the code reads `FOR UPDATE`; so a row read in a
transaction may change before the transaction writes it. Interactive
transactions are aborted by Prisma after a timeout.

What makes each component correct, and hard to test, is listed per line of code
under `hazards` in `PROJECT.json`.

## Modules

| Module | What it is | Extends |
|---|---|---|
| `StatusMaps` | `ORDER_TRANSITIONS`, `INVOICE_TRANSITIONS`, `CLIENT_TRANSITIONS` and their lookups | – |
| `Billing` | orders, invoices and manual payments as interleaved transactions | `StatusMaps` |
| `OrderLedger` | the abstract ledger `Billing` implements | – |
| `BillingSerial` | `Billing` with staff taking turns, and the properties that need it | `Billing` |
| `BillingProofs` | theorems about `Billing`: numbers, keys, orders, locks, and that it implements `OrderLedger` | `Billing` |
| `InvoiceProofs` | theorems about invoices, their histories and payments, in `Billing` and in `BillingSerial` | `BillingProofs`, `BillingSerial` |
| `Prices` | versioned prices and the lookup of an order | – |
| `Catalogue` | groups, products and their first price, the products page, and the order it offers | `Prices` |
| `PricesProofs` | theorems about both, and that `Catalogue` implements `Prices` | `Catalogue` |
| `Setup` | first-run setup | – |
| `Seed` | the seed script beside it | `Setup` |
| `SetupProofs` | theorems about both | `Seed` |
| `EmailDelivery`, `EmailProofs` | mail from `queueEmail` to the worker's handlers | – |
| `Accounts` | client and staff accounts, mailed links, client status | `StatusMaps` |
| `AccountsProofs` | theorems about `Accounts` | `Accounts` |
| `Access` | the permission catalogue, role defaults and access checks | – |
| `Logins`, `LoginsProofs` | login guard, logins, sessions and what a request makes of them | `Access`, `StatusMaps` |
| `Money`, `MoneyProofs` | the money functions, one call at a time | – |
| `MCBilling`, `MCPrices`, `MCSetup`, `MCEmail`, `MCAccounts`, `MCLogins`, `MCMoney` | small instances for TLC | |

Definitions whose names begin with `Fault_` are no part of a specification: each
is an action or helper as a plausible bug would have it, kept next to the one it
stands in for. Replacing one by the other must make TLC reject the property
`PROJECT.json` names for it under `mutants`, which shows the property depends on
that code.

### Billing

A *request* is one server action, run once. It places an order
(`placeOrderAction`: `createOrder`, then `issueInvoiceForOrder` in a transaction
of its own), records a payment (`markInvoicePaidManually`) or cancels an invoice
(`cancelInvoice`). An order or an invoice carries the name of the request that
creates it; a retry is another request with the same key.

| Variable | Code |
|---|---|
| `orders`, `invoices` | committed `Order` and `Invoice` rows: status, number, key, amounts |
| `counters` | the `Counter` rows `order_number` and `invoice_number` |
| `orderHistory`, `invoiceHistory` | committed `StatusHistory` rows, with the amount a payment's metadata records |
| `pc` | the SQL statement a request runs next |
| `tx` | what it has read and not yet committed |

There is one action per statement that reads or locks rows other requests see.
A transaction's writes stay in `tx` until its commit action publishes all of them
at once; what others notice meanwhile are locks: the row locks of `Counter`,
`Order` and `Invoice` and the entries of the unique indexes, all read off `pc`
(`HoldsOrderCounter`, `HoldsInvoice`, ...). `Blocks(q, r)` says that `q` holds a lock
the next statement of `r` needs, and `Unblocked(r)` that nobody does. That is READ COMMITTED: each read sees
what is committed when it runs, an update waits for the row's lock and then
writes the values worked out before. `Abort` ends a request anywhere: a crash, a
lost connection, or the timeout of an interactive transaction.

Left out: line items (an order is its total), snapshots of names and addresses,
currencies, tenants, permission checks (a constant table looked up first), and
`transitionOrderStatus` for targets nothing in `src/` asks for.

`OrderLedger` says what billing promises about orders in three indivisible steps:
`PlaceOrder`, `IssueInvoice`, `SettleOrder`. The refinement maps the ledger's
variables to committed columns; every commit of `Billing` is one ledger step and
every other action a stutter. Payments and cancellations of invoices are not part
of it, because what the code does to them is *not* equivalent to any atomic order
of operations; see the findings.

`BillingSerial` is `Billing` with the restriction that at most one payment or
cancellation is open. The code does not enforce it; it separates what holds
anyway from what holds only because staff rarely act at the same time.

### Prices

`row[c]` is the `ProductPrice` row that change `c` inserts, for one product,
currency and billing cycle, with its client group and its interval. `SubmitPrice`
fixes `effectiveFrom` before the transaction, as the code does; `ReadOpenRow` is
the unlocked `findFirst`; `CommitPrice` the close-by-id, the insert and the
commit, `AbortPrice` its rollback. A lookup is `getCurrentPrice`: the present is read once, then the group's
price is queried, then the default. The clock is a variable with an action of its
own. A price's amount plays no part in any branch and is left out.

### Catalogue

`Catalogue` composes the creation of products with `Prices`. A submission of the
new-product form commits the product (`CreateProduct`) and, if the form gave a price,
goes on as the price change of the same name (`PriceProduct`), which `LoseCreation` may
prevent: `createProductAction` calls two services, each with its own transaction. The
products page is a lookup for no group; an order is a lookup for the client's group,
made any time after the page offered it. `Catalogue` adds variables to `Prices`
and constrains when its actions happen; each of its steps is a step of `Prices` or a stutter.

### Setup and seed data

One action per committed statement of `bootstrapSuperAdmin`: the upserts of
tenant, permissions, roles and grants are transactions by themselves, so a
submission may stop after any of them (`Fail`). The order of the upserts within
one loop does not matter to anything and is left open. The last transaction counts staff
(`CountStaff`), inserts (`CreateStaffUser`, which waits for an uncommitted row
with the same address) and commits.

A run of the seed script takes the same upserts of the catalogue, looking at no staff,
and goes on in `Seed`: staff, demonstration rows, products, the look for an open price
(`FindNoPrice`) and its creation (`CreatePrice`), the order by its idempotency key and, only
for a run that found none, the invoice. `createOrder` and `issueInvoiceForOrder` are one
action each here; their statements are in `Billing`.

### Email delivery

`CreateLog` and `Enqueue` are the two writes of `queueEmail`; `Take`, `Send`,
`AttemptFails`, `Complete`, `Fail` and `Backoff` a job's way through the worker;
`WriteLog` the update an event handler has started without anybody awaiting it.
BullMQ, Redis and the mail providers are external: a job is taken by one worker,
retried after a delay while attempts are left, put back when its worker is gone
and failed for good when it is to be put back more than `MaxStalls` times. Redis is
taken to keep what it was given; with the snapshots `docker-compose.yml` configures
(`--save 60 1`) its own crash may lose jobs added since, which is not modelled. `Recover` includes what
the `failed` handler makes of such a job: it returns early as long as attempts are
left, so the row stays QUEUED. `troubles` counts what went wrong, by kind, so that
properties can say which trouble explains what. Retrying or removing jobs by hand
on the Bull Board page is left out.

### Accounts

A *call* runs one service of `core/clients.ts` or `core/staff.ts` once; the token it
issues carries its name.

| Variable | Code |
|---|---|
| `account` | `Client` with its contact, or `StaffUser`: status, verified address, origin of the password, last profile edit |
| `history` | the client's `StatusHistory` rows |
| `link` | `EmailVerificationToken`, `PasswordResetToken` rows of either table: kind, account, expiry, whether mailed, `consumedAt` |
| `presents`, `move` | the token a call has found good; the status it has read and will write |

Account, token and mail of a registration or invitation are three actions, as they
are three commits. A token is read and found good by `PresentLink`, and consumed with
its effect by `SetPassword` or `CommitVerification`, with the hashing of a password or
the statements of the verification in between. `changeClientStatus` is an unlocked read
and an update by id. `Lose` ends a call anywhere. Two tables of tokens are one
set of links, of which each service takes those of its own kind and table.

Every form is one of the server actions of `actions/auth.ts` or the profile's; one that
is incomplete ends the call before any query (`RefuseForm`).

`SingleUse` says of a link what `SECURITY.md` says of the set-password link: it has its
effect once. Two uses that overlap break it (`accounts_double_use`), since nothing asks
again between reading a token and consuming it. `BearersSpec` is `Accounts` with the
restriction the services silently rely on, that nobody takes a link up while somebody else is
about to use it; there `SingleUse` holds, by proof. For verifications the contact's row
lock does some of that work without any restriction: of two that overlap, the second still goes
through, but only one activates the client (`ActivatedOnce`).

### Logins

An *attempt* is one submission of a login form: the account is read and judged
(`TurnAway`, `GuessWrong`, `OmitCode`, `MistypeCode`, `GuessRight`), failures in the window
are counted, the lock is set, the `LoginEvent` is recorded, the lock is cleared and the
session row is created, each in a statement of its own that overlaps with everybody else's. A
*visit* is one request with a session token: `proxy.ts` reads session and account,
the page or action reads both again, and then a command runs on what was read. The
commands that take access away, `disableStaffUser` (row lock, revocation of the sessions its
statement sees, commit) and `changeClientStatus`, are modelled statement by statement;
every other command is `ServePage`. `Access` holds the permission data they consult.

`by` is chosen at the start from `Casts` and never changes: which account an attempt
names is an input, and fixing it keeps instances small. `Parallel` bounds how many
attempts and visits are under way at once; the code has no such bound, and
`GuessesBounded` is stated in terms of it.

### Money

`call` is one call with its arguments, `answer` what it returns. Amounts are integers, as
in the code. The one place where floating point is inexact for amounts in use,
`parseFloat(value) * factor`, may round a half either way (`Parsed`). The loops of `sum`
and `allocate` and the powers of ten are recursive functions, so that they can be proved
about; the last loop of `allocate` is `Extra`, how often it comes by each share.

## What the runs show

| Run | Instance | Shows |
|---|---|---|
| `billing_race` | 4 requests, 2 keys, totals 0 and 3, payments 0–3 | numbers without gap or repeat, one order per key, amounts that agree with status, PENDING exactly while unbilled, PAID exactly if settled, legal moves of orders, no circular wait for locks, and the refinement of `OrderLedger`, with no turn-taking and aborts anywhere |
| `billing_serial` | 5 requests, 1 key, staff take turns | recorded payments add up to `amountPaid`; histories chained; invoices move along their map; one settled invoice per order however often a placement is retried |
| `prices_race` | 4 changes of which 2 create a product (immediate or two instants ahead), 1 page, 1 order, 1 group, 3 instants | every row that ends is followed by one that begins there; what the page offers can be ordered; a product without a price goes back to a form without one or a call cut off |
| `setup_race` | 2 submissions, 2 seed runs, 2 addresses, 1 product, 2 cycles, 2 roles, 2 permissions | the catalogue is whole before anybody can sign in; a seed run that ended left everything, whatever stopped half-way beside it; an unbilled demonstration order goes back to a run that was cut off |
| `email_troubles` | 2 mails, 2 attempts, 1 stall, 1 slot, up to 6 troubles | no failure reported while an attempt is left, duplicates accounted for, a job's report lost only to a stopped worker or a failed update, every job ends, every mail is reported unless something was interrupted |
| `accounts_race` | 4 calls, 1 customer, 1 colleague, 2 instants; long links last 1, short ones 0 | an account without a mailed link goes back to a call under way or lost; passwords and verifications come from the account's own links and are never torn from them; statuses are explained; a closed client stays closed once nobody is about to write an older decision; verifications that overlap activate a client once |
| `logins_race` | 5 attempts, 2 visits, an administrator, an agent and a customer, 1 failure to a lock, two requests at a time | guesses within a window are bounded; locks are earned at the account they lock; a disabled staff user is not served again; a status moves only by a visit whose own session is an entitled staff user's, and it is the status of the account that visit commands |
| `money` | currencies of 0, 2 and 3 decimals, amounts −7 to 12, up to 3 ratios of −1 to 3 | shares add up to their total and each is within a unit of the exact one; each rounding is to the nearest unit; a dollar amount survives form and parser |

Runs that end in a counterexample, each a disagreement of the code with what the
repository says of it (`findings` in `PROJECT.json` quotes the lines):

| Run | The behaviour found |
|---|---|
| `billing_lost_payment` | two payments read the invoice before either commits; the second overwrites the first's `amountPaid`, and StatusHistory holds both |
| `prices_scheduled` | one change after the other, none at the same time: an immediate change after a scheduled one closes the scheduled row, and the row in force stays open next to the new one |
| `setup_two_admins` | two submissions with different addresses both pass the count and both commit |
| `accounts_double_use` | two uses of one set-password link read it unused and both set a password; `SECURITY.md` calls the link single-use |

### Behaviours worth knowing

The models show these as well; they have no run of their own. Where a document says
otherwise it is named.

- *Billing.* Two commands that overlap may take a PAID invoice back to PARTIALLY_PAID
  or CANCELLED and a CANCELLED one to PAID: the map is checked on an earlier read, and
  validating against it is how `ARCHITECTURE.md` says a status changes. With staff
  taking turns (`billing_serial`) neither happens. A placement retried after payment issues a second
  invoice for the paid order; `SettledOnce` says it cannot be settled. A second
  submission that looks its key up before the first commits fails on the unique index
  (`InsertOrder`, outcome `duplicate`) instead of getting the first order back. The portal's
  order form sends no `idempotencyKey`, so `placeOrderAction` makes up a fresh one and
  submitting twice places two orders. A second part payment records a move from PARTIALLY_PAID to
  PARTIALLY_PAID, which the map does not list.
- *Logins.* `shouldLockOut` counts before the failure at hand is recorded, so the lock
  comes with the sixth failure where `SECURITY.md` speaks of five. A login that
  overlaps a lock sets `lockedUntil` to null. A suspended or closed client's session
  goes on until it expires: `loadClientPortalActor` looks at the contact only.
- *Email.* On SIGTERM the worker exits before the update of its `completed` handler
  arrives: the mail is sent and its row QUEUED for good, where `email.ts` says the worker
  updates it (`FinishedIsLogged` allows for it by `ReportCutOff`). So does a job that
  stalled too often: its `failed` handler takes it for one that is retried (`Recover`).
- *Accounts.* A move of a client that overlaps its closing re-opens it: the map
  `ARCHITECTURE.md` speaks of is checked on an earlier read here too. Two edits of a profile
  from pages loaded earlier overwrite each other whole, and `updateClientProfile`
  records the patch itself as the state before.
- *Seed.* Two runs side by side may create one price twice. A run cut off between the
  order and its invoice leaves an order no later run bills (`UnbilledExplained`).
- *Money.* A ratio of zero may receive a unit of the remainder. The payment form reads
  what it shows as dollars whatever the invoice's currency, so the 500 due on an invoice in
  yen come back as 50000 minor units. `parseUsdAmount` accepts a negative price. `allocate` and
  `percentageBps` have no caller but their tests.

### Why the bounds are enough

- *Billing.* A violation needs an order, an invoice and two requests that race for
  it: three requests. With four, a retried placement races two payments, or two
  keys race for the counter while another order is billed. Three units of money allow one,
  two or three payments and one too large; a total of 0 is an invoice that cannot
  be paid. The properties of `billing_race` and
  `billing_serial` are also proved for any number of requests, keys and amounts.
- *Prices.* The third change is the one that finds two rows, or a closed one where
  it read an open one; the fourth allows both creations to race for the slug beside two
  changes. Three instants put a lookup before, at and after a boundary. A scheduled
  price two instants ahead leaves an instant for the change in between. Proved for
  any number.
- *Setup.* Two submissions and two scripts, each of which may stop anywhere, meet
  every half-finished catalogue one could leave to another. Two cycles separate a product
  with one price from one with all. Proved for any number.
- *Email.* Two attempts show one that is retried and a last one; two kills of the
  worker put a job back and then fail it; two mails share the single slot. The
  code's 5 attempts and 5 slots repeat these cases. Safety is proved for any number.

- *Accounts.* An account takes a call, its verification or a second link one or two, which
  leaves one or two to overlap them. With links that last 1 and 0 instants and a clock that
  ticks once, every link can expire before or after it is read. Proved for any number.
- *Logins.* A lock after one recorded failure needs two wrong guesses; five attempts by
  one customer overtake the bound of `GuessesBounded` when locks are too short. The casts
  put an administrator beside an agent who tries to gain from a disabling, beside a
  customer, or leave one customer alone; sessions expire after an instant. Proved for any
  number of attempts, any limit and any window.
- *Money.* Functions of a few small integers: remainders of 0, 1 and 2 units, both signs,
  halves, and ratios that are refused all occur. Proved for all amounts, ratios and decimal
  strings.

Symmetry is used in runs that check only invariants and box-action properties, for
requests, keys, changes (creations and others apart), submissions, seed runs,
calls, attempts and visits, which no definition tells apart;
runs with liveness properties use none.

Deadlock is checked for Billing, where `Quiescent` is the only rest, and
`SomebodyCanGoOn` says there that of the requests under way one always finds the locks its
next statement needs free. The other modules stop when their finite sets of operations are used up, and are
checked with `CHECK_DEADLOCK FALSE`; that nothing stops earlier is what
`EveryJobEnds` and `EveryMailSettles` say of mail.

### Fairness

Only mail has liveness properties. Elsewhere an operation is a request that its
server may lose at any statement, so nothing can be promised of its end, and
`SomebodyCanGoOn` states for Billing what would be at stake, that no locks are waited for in a circle.

- `EmailDelivery!FairSpec`: weak fairness of `Enqueue(m)` (an async function goes
  on unless its process stops), of `Process(m)` (a worker that is up takes jobs, runs
  them on and looks for stalled ones; BullMQ promotes delayed jobs), and of
  `Exit \/ Restart` (`close()` returns when the jobs have, and whoever stopped the
  worker starts it again: the SIGTERM handler in `apps/worker/src/index.ts` is written
  for that. The repository configures no supervisor, so this is an assumption on the
  deployment). No fairness of any trouble. One provider outcome is not preferred over the other.

## What is proved

All theorems hold for every value of the constants under the named assumptions
(`BillingAssumption`, `PricesAssumption`, `CatalogueAssumption`, `SetupAssumption`,
`SeedAssumption`, `EmailAssumption`, `AccountsAssumption`, `LoginsAssumption`,
`MoneyAssumption`), which only say that sentinels differ from real values, that sets of
names do not overlap where the code keeps them apart, that arguments have the types the
code declares, and that bounds and amounts are numbers. `LoginsAssumption` also asks
that the failures to a lock and the window are at least 1; `login-guard.ts` has 5
failures and 15 minutes.

**Billing.** `TypeInv` joins `TypeOK` with `RowsInHand`: the statement a request is at
fits its operation, and the rows it refers to exist. The invariants then build on each
other:

- `CounterInv` adds that one request at most holds each counter, that the holder's
  number is the counter's next, and that a request that has yet to commit has no row.
  From it, `NumbersAreGapless`.
- `KeyInv` adds that a request about to commit an order has found its key free, which
  stays so because it holds the order counter. From it, `OrderPerKey`.
- `MoveInv` adds what a placement and a payment know of the order they are about to
  move. The counter lock is what makes the stale copy harmless: an order leaves PENDING
  only by a commit that holds the invoice counter, and an order in AWAITING_PAYMENT is
  left only by a payment that holds the order. From it, `PendingOrders` and
  `OrdersMoveLegally`.
- `MoneyInv` (`InvoiceProofs`) adds that a payment's total is its invoice's and its new
  amount paid lies above 0 and up to the total: values stale as a whole but never
  inconsistent among each other. From it, `InvoicesBalance`.
- `SettleInv` adds that a payment drives the order exactly if it settles the invoice.
  From it, `PaidOrdersSettled`.
- `BillingImplementsLedger`: by `KeyInv` and `MoveInv` each commit is a step of
  `OrderLedger` and everything else a stutter.
- `NobodyWaitsInACircle` gives the locks an order. Whoever waits for an order's row or
  for an entry of the order index waits for a request that needs no lock for its next
  statement; whoever waits for an invoice's row or an entry of the invoice index waits
  for one of those; and whoever waits for a counter waits for any of them. So a chain of
  waits ends.
- `RecordedInv` adds to `SettleInv` that a payment under way writes at most what is
  recorded by then and its own amount. From it, `NothingInvented`: where an invoice and
  its history differ on what was paid, payments have been lost, as in
  `billing_lost_payment`; the invoice never says more than the history.

**Billing with turns.** `SerialInv` adds to `SettleInv` that what the one open payment
or cancellation read of its invoice, and a payment of its order, still stands
(`StaffInHand`), and that each history is chained and ends in the status its row has
(`HistoriesTell`). From it, `HistoriesChained`, `InvoicesMoveLegally`, and
`OrdersSettledOnce`, since an order with a settled invoice is PAID (`SettleInv`) and the
map has no move from PAID to PAID. `PaymentsAlwaysAddUp` needs what one more row adds to
the sum over a history (`RecordedAppend`), which is shown by induction.

**Prices.** `TypeInv` adds to `TypeOK` that a change has no row before it commits and
that the row it read is one of its own scope. `AlwaysInForce` is `PriceNeverLapses` for
every instant instead of those at which a row begins, which is what makes it inductive:
closing a row where another begins moves cover from one row to the other and never takes
it away, whichever of two racing changes does it. `NoGap` and `OrdersFindAPrice` follow.
`CatalogueImplementsPrices` shows each step of `Catalogue` to be a step of `Prices` or a
stutter, so what holds of prices holds there; `OffersHold` then needs that a page which
found a price looked for everybody's, and `UnpricedProducts` that the creation whose
product is there fixed its price's scope.

`prices_scheduled` shows that turns alone do not keep a scope to one price at a time.
`OnePriceInOrder` shows that turns do if no change is dated before a row already there
(`OrderlySpec`): the rows then stay apart, at most one is open, and it is the one the
next change closes (`OrderlyInv`). A row that was closed before ends where a successor
begins (`HandedOver`), so no later than the new row does.

**Setup.** `SetupInv` says what a submission may rely on at each step: the catalogue
only grows, so what it has seen complete stays complete. `DistinctEmails`, that no two
inserted rows share an address, is added for `OneAdminPerAddress`. All is proved of
`SeedSpec`, in which scripts run beside submissions; for the scripts, `ScriptCompletes`
rests on the same monotonicity, step by step of the script, and `DemoOrderBilled` on the
order being named after the run that made it.

**Email.** `EmailInv` relates queue, memory and log of each mail; a row is the last
thing written, so what it claims has happened. `CopiesInv` counts copies: at most one
per killed worker and attempt of unknown outcome, and one that is being or has been
reported. From these, `SentWasAccepted`, `FailedWasGivenUp`, `RecordedFirst`,
`RestartsAreGraceful`, `CopiesExplained`. `ForgottenInv` adds that a worker that is not
up goes back to an interruption; with it, `MailsLookedAfter` says that without
interruptions a QUEUED row always has somebody to change it. `LoggedInv` does the same for
`EndsAreLogged`: a finished job has its report or an update that writes it, unless the
worker was stopped or an update failed. `JobsRunDown` gives each job a rank, three
for every attempt and stall left and the stage within an attempt, which every change of
its state lowers, whatever crashes.

**Accounts.** `AccountsInv` joins `TypeOK` with what each call knows at its step (the
link it presents was mailed to its target and is of the kind its page takes; the status
it read was one the map allows to leave), with what each link and each account says of
the other, and with `StatusExplained`. `Grows` is the fact the calls rest on: accounts
are never deleted, and links, once created, only turn to mailed and used. `KeptAlone`
says that a call keeps what it has found out, in that sense, while others move.
`VerifyInv` says that verifications of one address take turns from their first update to
their commit, that an activated client is never pending again and that no call still
means to activate it; `VerifiedOnce` follows. `SingleUseInTurns` needs `UnspentInv`, that
no link about to be used is consumed, which holds as long as bearers do not overlap: a step
that consumes a link leaves nobody else holding it.

**Logins.** A lock, set or about to be, rests on recorded failures, and those are never
deleted (`LocksAreEarned`). `GuessesRunOut` counts sets of attempts that change class as
they go. As long as an account is not locked, the failures recorded within the window or
about to be stay below the limit, but for those that overlap and those a lifted lock has
let in (`Budget`); once it is locked, those that will still be in the window when the
lock runs out are at most the ones under way when it was set (`Left`), as lock and
window are equally long. Only a login under way can lift the lock, and it takes a place
that no guess has; each such login makes room for `Parallel - 1` more. `GuessInv` says
so of one account, on top of `StepInv`, what each attempt's row says at its step, and
`RoomInv`, that at most `Parallel` are under way; the proof is over six kinds of step
(`Ways`). A staff user disabled is never enabled by anything in `src/`, and the path to
being served reads the account after the session (`DisabledStaysOut`). A command under
way remembers its own session, which was that of a staff user whose role may
(`Found`, `OnlyStaffRun`), and stays so until it commits: sessions are revoked but not
deleted, and roles are constants. So `OnlyTheEntitled` says of each status that moves
whose visit moved it.

**Money.** The arguments of the call are the ones the specification was given, so each
theorem is one about a function. `SharesAreExact` follows the loops: after `k` shares
the sum of the floors lies less than `k` units below the exact one, so the remainder is
less than the number of shares, is handed out in one round, and no share is more than a
unit from its exact part. `FractionsRoundedOnce` rests on what `Round` does to a half of
either sign and on `10^n` being positive.

Sums and powers are recursive functions, and what they compute is shown by induction
over the naturals, from the library's theorem that every non-empty set of naturals has a
least element (`Induction`): a set that holds 0 and each successor of its members misses
none. That a recursive function satisfies its equation is shown the same way, from
finite pieces (`TallyExists`, `PowersExist`, `SumsExist`).

**Only model-checked.** Liveness, `EveryJobEnds` and `EveryMailSettles`: fairness and
ENABLED are beyond the prover. What they rest on is proved: no job runs in circles, and
no mail is lost sight of (`JobsRunDown`, `MailsLookedAfter`); fairness brings the rest.
Every invariant and every other temporal property the
runs check is also proved. The properties of the runs that end in a counterexample are
false.

## What is not modelled

The sources of each part are listed under `components` in `PROJECT.json`, and hazards
without a property carry the reason in their `note`.

- *Settings*: one upsert and its audit row; a model would restate the assignment. Of the
  two, only the audit row's state before can be stale, and nothing reads it.
- *Staff two-factor enrolment* (`beginStaff2FAEnrollment`, `confirmStaff2FAEnrollment`,
  `disableStaff2FA`): nothing in the repository calls them. Whether a staff user has a
  second factor is a free choice at each login.
- *Hashing, one-time codes, encryption, identifiers*: pure functions of cryptographic
  libraries; the models take their answers as choices.
- *Pages, components, mail templates*: rendering.
- *Database client, configuration, logging, error classes*: no state two requests share.
- *Bull Board*: retrying or removing a job by hand.
- *The connection pool*: `getCurrentPrice` asks for a second connection inside an open
  transaction. The pool's size is a deployment setting; the transaction timeout that
  ends such a wait is `Abort`.
- *Redis snapshots*: Redis is taken to be durable.
- *Line items, snapshots of names and addresses, tenants*: no branch depends on them once the
  rows exist. An invoice line adds the setup fee to a total that includes it already; nothing
  adds the lines up again.
- *Integers beyond 2^53 and the 32-bit columns of amounts*: `Money` computes with exact integers.

What a further step would be: `Prices` under `Billing`, so that an order carries the price
in force when it was placed, and a connection pool with a size.
