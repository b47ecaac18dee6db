# A verification project for the shop

TLA+ models of the parts of this multi-vendor shop (Django, PostgreSQL, Redis,
Celery) whose correctness depends on the order of steps: baskets and their
checkout, orders and their stock, units with serial numbers, the cost of sales
and their returns, one-time codes and the accounts they act on, catalog
submissions and their review, the points ledger, text messages, import jobs.
TLC checks the models on small instances; TLAPS proves
the central safety properties for every value of the constants.

| file | what it is |
| --- | --- |
| `OrderFlow.tla` | orders from checkout to delivery, payment, cancellation and expiry, with the stock they hold |
| `StockHold.tla` | the abstract promise about an order's stock, which `OrderFlow` implements |
| `MCOrderFlow.tla` | finite values for `OrderFlow`: baskets, stock, symmetry, the table of cancellable statuses |
| `Checkout.tla`, `MCCheckout.tla` | the lines of a basket and their sellers, and the transactions of a checkout and of a cancellation, row lock by row lock |
| `StockBook.tla` | the abstract promise about the stock rows, which `Checkout` implements |
| `UnitStock.tla` | the stock of one variant: units with serial numbers, counted stock, conversion between the two, vendor edits and receipts under open orders |
| `MCUnitStock.tla` | symmetry of the orders of `UnitStock` |
| `SupplyLayers.tla`, `MCSupplyLayers.tla` | what a sale cost: purchase batches consumed first in, first out, given back by cancellations and return requests |
| `Accounts.tla`, `MCAccounts.tla` | an account between the database and the one-time codes in Redis |
| `Submissions.tla`, `MCSubmissions.tla` | a vendor's staged copy of a product, its review, and the catalog's own edits of the product |
| `PointsLedger.tla`, `MCPointsLedger.tla` | the points of one vendor: a ledger and the balances cached beside it |
| `SmsQueue.tla` | a text message between the web process, the broker, the workers and the provider |
| `ImportJob.tla` | one Digikala import job: the manifest file, the task, cancel requests |
| `OrderFlowProofs.tla`, `CheckoutProofs.tla`, `UnitStockProofs.tla`, `AccountsProofs.tla`, `SubmissionsProofs.tla`, `SmsQueueProofs.tla`, `ImportJobProofs.tla` | the theorems about one module each |
| `LedgerProofs.tla` | the theorems whose properties are sums: stock (`OrderFlow`), cost layers (`SupplyLayers`), points (`PointsLedger`) |
| `*.cfg` | the TLC runs |
| `PROJECT.json` | which definition stands for which lines, the runs, hazards, findings, theorems; for every property a plausible bug (the operators commented "Mutant of ...") that a run would notice |

`tlc -config X.cfg M` checks a run (the pairs are under "runs" in
`PROJECT.json`), `tlapm M.tla` the proofs of a module.


## 1. Inventory of the system

The web process and the Celery workers share one PostgreSQL database (READ
COMMITTED, no `ATOMIC_REQUESTS`: a statement outside `transaction.atomic`
commits at once), one Redis (codes, cache, broker) and a runtime directory of
import jobs. Nothing in the repository schedules work: there is no Celery beat,
so lapsed reservations are expired by whoever reads an order, by the payment
endpoint, or by the command `expire_orders` that an operator runs.

### Core

**Order lifecycle** (`domains/order/flow.py`, `services.py`;
`domains/marketplace/services/order_service.py` inherits it).
*State:* `order.status`, `reservation_expires_at`, items, reservation rows.
*Operations:* list and read (both expire lazily), `execute_action` (cancel,
confirm, prepare, pack, ship, deliver), `expire_orders`.
*Interacts with* inventory (release, consume), payments (review moves the
order), supply layers (cost of a sale).
*Hard:* expiry acts on rows read before and no longer locked; cancel releases
whatever became of the hold; which status follows which is data.
*Correct when* a hold is settled once, no order is fulfilled unpaid, terminal
statuses stay, nothing stays reserved for a payment that never comes.

**Payments** (`domains/payments/services.py`, and the business and marketplace
services on top). *State:* payment rows, documents. *Operations:* submit a
manual payment (two transactions), review it, configure methods and channels.
*Hard:* the expiry check commits before the acceptance. *Correct when* an order
collects one payment and a sale happens exactly with an accepted one.

**Cart and checkout** (`domains/cart`, marketplace cart and offers). *State:*
cart rows, offers. *Operations:* edit the cart, checkout, in the marketplace
seller by seller. *Hard:* the cart is read unlocked, offers move between the
statements of a checkout, rows are locked in the cart's order. *Correct when* a
checkout holds all its lines with one seller or none, no row promises more than
it sells, every checkout ends, and one cart makes one order.

**Inventory** (`domains/inventory/services/inventory_service.py` and its
siblings). *State:* per-warehouse rows with quantity, sellable and reserved
counters under CHECK constraints; units with serial numbers and a state.
*Operations:* reserve, release and consume for orders; snapshot edit, normal
edit, conversion between serialized and normal, receipt of supplies, refresh.
The direct operations on a row (`sell_stock`, `reserve_stock`, `return_stock`,
`transfer_stock`, ...) have no caller in the program. *Hard:* counters
summarise units and are saved without the lock of the row; type and counters
change under open orders; an oldest-row rule for businesses. *Correct when* no
unit is in two hands and the counters agree with units and reservations.

**Supply layers** (`inventory_supply_service.py`). *State:* supplies with their
remaining quantity, consumption rows. *Operations:* create, update, delete,
receive, consume first-in-first-out, reverse. *Hard:* layers are chosen before
they are locked; units may have a supply or not. *Correct when* what was
consumed plus what remains is what was received, per layer, and the cost of an
item is taken once.

**Returns** (`domains/order/return_flow.py`). *State:* requests, items.
*Operations:* create, admin actions. *Correct when* no unit is claimed by two
active requests and none that was not delivered.

### Background work

**Notifications** (`domains/notifications`). *State:* `SentNotification` rows,
tasks at the broker. *Operations:* send, process, check delivery, erase.
*Hard:* at-least-once delivery, stale claims, a crash between two statements.
*Correct when* a text goes out once, settles, and leaves no code behind.

**Digikala import jobs** (`domains/importing`). *State:* `job.json` manifests
and listings on disk, two file locks. *Operations:* collect a listing, import a
selection, cancel, retry failures. *Hard:* read-modify-write on a file, second
deliveries, cancellation between products. *Correct when* a job resumes without
repeating work, stops on request, and its verdict is true.

### Accounts and codes

**Confirmed requests** (`core/services/confirmed_request.py`). *State:* Redis
keys with time limits. *Operations:* generate, get, check, cancel, as Lua
scripts. *Hard:* a second request races the answer to the first. *Correct when*
a code works once, for its own request, within its attempts.

**Vendor and customer accounts** (`domains/vendor`, `domains/customer`).
*State:* accounts, pending registrations. *Operations:* registration, login,
change of phone and password, each with a code. *Hard:* Redis and the database
do not commit together. *Correct when* an account changes only after its code.

### Catalog and the rest

**Catalog submissions** (`vendor_product_submission_service.py`, the file
views and `product_file_service.py`). *State:* a staging copy of a product with
a status. *Operations:* draft, update, submit, discard; confirm, publish the
ticked fields, send back; staged files. *Hard:* ticked and unticked fields,
copies of the live product without a lock, files beside the lock. *Correct
when* a review publishes what was sent and what a submission calls confirmed is
what the catalog has.

**Vendors club points** (`points.py`). *State:* a ledger and two cached
balances. *Operations:* award, record, reconcile. *Hard:* retries, edits of an
activity between them, a sum saved beside new rows. *Correct when* the balances
are the ledger's totals and an award counts once.

**Public cache** (`core/services/cache.py`): rebuild under a lock with a
time limit; correct when one rebuild runs and stale values end. **Files**: rows
beside an object store. **Catalog administration, admin users, packages,
businesses, shipment, wishlist, preorder, content, locations, banks**:
validated CRUD with uniqueness constraints or one lock. **Business status
gate, API layer, settings, seed commands**: no state of their own.

The file `PROJECT.json` lists each with its sources and status, and the
hazards with their lines.


## 2. Plan

In the order of importance; a module is written together with its run and its
mutants, then proved about.

| # | module | what it adds | abstract specification, theorems |
| --- | --- | --- | --- |
| 1 | `OrderFlow` (done) | orders, payments, expiry, stock holds | implements `StockHold`; type, payment, sale and hold invariants |
| 2 | `SmsQueue` (done) | claim, send, record, erase under at-least-once delivery | one send, text as written |
| 3 | `ImportJob` (done) | the manifest, locks, cancellation | resumes once, stops in time, true verdict |
| 4 | `UnitStock` (done) | units with serial numbers, conversion, vendor edits, receipts, refresh | one holder per unit, holds are kept, history stays |
| 5 | `SupplyLayers` (done) | supplies, FIFO consumption and its reversal, return requests | layers conserve quantity; an item is costed once; no more is returned than was sold |
| 6 | `Checkout` (done) | baskets, offers, row locks and deadlocks | implements `StockBook`; rows are never oversold |
| 7 | `Accounts` (done) | codes between Redis and the database | a code is spent once, only the latest, for what it was asked for |
| 8 | `Submissions` (done) | staging and live product | published is sent; confirmed agrees; details fit |
| 9 | `PointsLedger` (done) | ledger and balances | an award counts once; balances are totals |
| 10 | `LedgerProofs` (done) | finite sums, and every property that is one | stock, reservations, cost layers and balances add up |
| 11 | the public cache | single-flight rebuild under a lock with a time limit | |

Modules that are proved about declare no recursive operator; sums over orders
and rows use the folds of the community modules. `SupplyLayers` and
`PointsLedger` prefix the names they would share with `OrderFlow` (`LayersNext`,
`PointsNext`, ...), so that one module can prove about all three.


## 3. How the models correspond to the code

An action is one database transaction where the code locks what it tests
(`select_for_update` inside `transaction.atomic`); it is one statement, or one
file update, where the code commits on its own. Where the code decides on
something it read earlier, the reading and the acting are two actions.

### OrderFlow

| state | code |
| --- | --- |
| `status`, `deadline` | `order.status`, `order.reservation_expires_at` as null, ahead or passed |
| `lines` | the quantities of the order's reservation rows, which nothing deletes |
| `stock` | quantity, sellable, reserved of inventory rows of normal stock |
| `pays` | the order's payment rows, counted by status |
| `cost` | whether the order's supply layers are consumed or were given back |
| `cleared` | payment requests past `_expire_stale_order` and not yet in `_confirm_manual_payment` |
| `batch` | orders a read or the command found stale and will expire |
| `released`, `consumed` | history of the two ways a hold ends |

`Checkout` is the whole transaction of `checkout_from_cart`. `PayCheck`,
`PayFindsStale`, `PayConfirm` and `PayRefused` are the two transactions of
`confirm_manual_payment`; `Approve` and `Reject` are `review_payment`;
`Cancel` and `Advance` are `execute_action`. `FindStale` reads, and
`ExpireBatch` or, when a CHECK aborts the transaction, `ExpireRefused` acts:
`expire_orders` does not lock or test the rows again. The CHECK constraints of
the table are `InventoryRow`; an operation that would break one does not
happen (`Accepted`).

`CancelFrom` is the part of the table `order_status_action` that says which
statuses "cancel" accepts; the runs give it what the seeder writes
(`SeededCancel`), the proofs hold for any table. `released` and
`consumed` count what became of the hold of an order and are history;
`Oversettled(o)` says that it was settled more than once.

### Checkout

A basket is `cart[c]`, a set of lines; shop and marketplace baskets differ by
`MarketCarts`. `price[v][s]` are the offers, `OfferOf` the choice of
`attach_offers`: the pinned seller while it still offers the variant, else the
first in the shop's order (in stock, cheapest, lowest id). `AddLine`,
`ReadLine`/`SaveLine` and `RemoveLine` are the cart service; a line is read and
saved whole, and a save inserts a line that was deleted meanwhile.

`tx[q]` is the transaction of a checkout: `Load` and `Select` read the lines
without a lock and keep those of the seller that was asked for, `Validate`
attaches the offers again and tests what is available, each `Reserve` locks one
row, reads it afresh and takes from it, `Commit` writes the order and deletes
the lines that were read. `Abandon` is any failure on the way. `Cancel`,
`Release`, `Cancelled` are a cancellation, which locks the rows in the order
the database returns them. What a transaction took (`tx[q].take`) is visible to
others after the commit only; a row is locked until then (`tx[q].locked`), and
`BreakDeadlock` is PostgreSQL's detector. A seller may have several rows of one
variant (warehouses): `Available` sums them, `RowFor` is the oldest.

`StockBook` has two steps: an order takes pieces of rows, out of what nobody
else holds, or gives all of them back. `held` maps each request to what its
committed order holds; with it every step of `Checkout` is a step of
`StockBook` or changes nothing there.

### UnitStock

One variant of one business with one inventory row. `row`, `unit` are the
tables `inventory_inventory` and `inventory_unit`, `received` the sum of
received supplies, `link` and `amount` the reservation rows of an order, `cart`
what `_validate_lines` has let through and then the quantity of the order item,
`status` the order folded to what matters here: open (pending or processing),
sold, ended.

`Validate` reads the row without a lock; `PlaceUnits`, `PlaceAmount` and
`PlaceRefused` are `reserve_variant_stock` under the row lock. Releasing and
consuming units (`release_reserved_stock`, `consume_reserved_stock`) lock the
units, count, and save the row at the end, so they are two steps
(`BeginSettle`, `CommitSettle`); `settle[o][by]` is what was counted. Counted stock is
settled in one relative UPDATE (`SettleAmount`). The snapshot edit
(`_apply_serialized_snapshot`, also the way from normal to serialized) locks
all units but not the row and is two steps too (`BeginEdit`, `CommitEdit`);
`edit.to` is what it is about to write. `ToNormal` is
`_convert_serialized_to_normal` with the refresh at its end, `SetNormal`
`_apply_normal`, `ReceiveUnits` and `ReceiveAmount` `receive_supply`, `Refresh`
`refresh_variant_inventory`. A transaction that has to wait for a unit is not
enabled while the unit is locked; one that is rolled back (a deadlock, a
duplicate serial number) is `AbortSettle` or `AbortEdit`. Edits exclude each
other by the lock of the variant. A first receipt may bring serial numbers to a
variant without an inventory row (`Made` gives it one).

Who settles an order is `By`. Payment, rejection, cancellation and the expiry
found at payment hold the order's lock and have looked at its status
(`"lock"`). An expiry batch (`flow.py:127`, `"batch"`) read the order while it
was pending and past its deadline and looks at nothing again: it releases the
order whatever became of it, also when it has ended and its units are by now
reserved for another order (`MaySettle`), and waits for the order's lock only
where it saves the status (`MaySave`). `freed` remembers the units such a second
release put back. The orders in `Overdue` are those a batch may have read; any
number of batches may come for one of them, one after the other. A batch over
several orders is their settlements here; that it commits or fails as one is in
`OrderFlow`.

### SupplyLayers

One variant in the warehouse it is sold from: `reserve_variant_stock` takes
counted stock from one row, and `_consume_fifo` looks at the supplies of that
row's warehouse only. A row of `InventorySupply` is `supply[s]`; the consumption
rows of an order's item, of which the unique constraint allows one per supply,
are `taken[o]`, their `reversed_quantity` is `restored[o]` and the order in
which they were written (`created_at`, `id`) `turn[o]`. `Create`, `Update`,
`Delete`, `Receive` are the operations on supplies. `BeginApprove` is the query
of `_consume_fifo`, `ApproveAmount` and `ApproveRefused` what it does once its
layers are locked; PostgreSQL then shows their latest `remaining_quantity`, and
leaves out those with nothing left, but adds none and does not sort again.
`ApproveUnits` is `_consume_new_serialized_layers`, which locks one supply
after the other by id. `Fifo` and `GiveBack` state without a loop what the two
loops compute: a layer gives what the older ones lack, and gets back what the
later ones could not take. `CancelSale` is the cancel action of
`execute_action` (and, before there is a cost, a rejected payment), which gives
all layers back; `ExpireSale` is `expire_orders` on an order it read while the
payment was pending and that was sold, delivered or cancelled since: it
releases the reservation (`Release`), overwrites the status and never calls
`reverse_order_supply_consumption`. `RequestReturn`, `Decide`, `Complete` are
`create` and `execute_admin_action`. `create` reads the requests without
locking them, but a request that is not active never changes again and the
order's lock keeps new ones out, so it is one step. That the return window of
three days closes is left out: it only keeps requests away, which may stay away
anyhow, so the safety properties hold with it as well.

An order is one item; that several items are consumed in one transaction is in
`OrderFlow`. What is on the shelf is not modelled: a vendor may register any
number of pieces there, with or without a supply, and the number of serial
numbers that arrive with a supply is compared with its quantity neither in
`receive_supply` nor in its serializers, although `inventory_structure.md:212`
says "requires exactly `supply.quantity` serial items".

### Accounts

`live`, `active`, `cooling`, `latest` and `nextCode` stand for the keys of
`confirmed_request.py`: each of its Lua scripts is one step (`Generate`;
`Usable`, `Guess` and `Consume` for the check with and without consumption;
`Drop` in `Cancel`), and time limits end a key (`CoolDown`, `Expire`). A code
is its number; its six digits, hashes and key names are left out, and a wrong
guess of any request is `Guess`.

`row` is the account, `job[h]` one handler between its statements. Registration
reads the pending row unlocked and saves it whole (`BeginRegister`,
`SaveRegistration`), then asks for a code. Registration and login consume the
code first and read the row then (`Present`, `ReadRow`, `Activate`);
verification of the phone and the password reset check it, lock the row,
consume it and write (`Check`, `LockRow`, `ConsumeLocked`, `Write`).
`job[h].password` is the fingerprint that binds a code to a password.
`BeginEdit`/`SaveEdit` are the profile and the admin's edits, which save
every column as read, and the change of a password, which saves that column
only. `Crash` ends a handler anywhere: the database rolls back,
Redis does not. Customers have the same flows except registration by code.

### Submissions

One product `live` and its submission `sub`; a field's content is a value
(`"name"` stands for all columns of the product's row), `Fitting` says which
details fit which categories. Every service method that locks the submission's
row and tests its status under the lock is one action: `Update`, `Submit`,
`DiscardDraft`, `Confirm`, `Apply` (publish the ticked fields and stage the
others again as they are live), `Decide`. Three kinds of work are not under that lock
and are several: the endpoints of the staged files (`BeginFile` tests the
status, `WriteFile` attaches or detaches), the copies of the live product table
by table (`BeginBaseline`, `BeginDiscard`, `CopyNext`, and their saves), and the
admin's edit of the columns (`BeginBasic`, `SaveBasic`). `UpdateComplete`,
`AddDetail` and `ProductFile` are the other catalog endpoints, and
`ImportProduct` is the importer's next run over a product it knows: it replaces
the columns, adds categories and details and attaches files. That is one step,
because `import_product` locks the product before it writes and commits once;
adding to a field is writing any content of it, as only equality of contents
counts. `author`, `sent` and `unchecked` are history: whether the review or the
catalog wrote a field of the product last, what the vendor submitted, and
whether the last writer of categories or details left out the test of what they
require of each other (`Paired`), as `AddDetail` and `ImportProduct` do.

### PointsLedger

`ledger[m]` counts the committed rows of one kind of movement, `member` is the
row with the balances. `BeginAward` reads the activity and its points,
`BeginRecord` is a movement an admin enters, `Lock` is
`get_or_create` and `select_for_update` of the membership, `Refuse` and
`Insert` the tests and the insert under the unique index (`SameAward`),
`CommitMove` the relative update of the balances and the commit.
`BeginReconcile`, `SumLedger`, `CommitReconcile` are `_reconcile`.
`EditActivity` changes points or switches an activity off at any time.

### SmsQueue

`Send` is `SMSService.send`, `Publish` and `PublishFails` are the `apply_async`
of `_enqueue`; when it raises, whether or not the broker took the task, the row
fails if it is pending (`FailUnqueued`) and a second statement erases a code
(`BlankUnqueued`). A worker takes a delivery with the conditional update of `process` (`Claim`), or
finds the row claimed (`Retry`) or settled (`Skip`), and then proceeds
statement by statement: `Read`, `Lapse` or `CallProvider`, `RecordSent` or
`RecordFailed`, `Erase`, `QueueCheck`, `Finish`. `Poll` is
`refresh_sms_delivery_status`, which asks and writes whatever the status is;
`CleanUp` is `expire_sensitive_notification`.
The broker (external code, modelled from the settings
`CELERY_TASK_ACKS_LATE` and `CELERY_TASK_REJECT_ON_WORKER_LOST`) gives the task
of a dead worker back (`Crash`) and may deliver a running one again
(`Redeliver`); it does the same with delivery checks (`Acknowledge`). `age` is the time since `started_at` in minutes, up to the
minute after which the claim may be taken over.

### ImportJob

`job`, `results` are the manifest; `update_job` and `update_result` hold the
lock of that file, so each is one step, while `get_job` returns a copy, so what
is decided on it is another step (`AskCancel`/`SetCancel`,
`ReadCounters`/`Count`, `Judge`/`Close`). `lock` is the lock "import" around
the loop, which the operating system drops when the process dies. `Accept` and
`Drop` are the head of `import_digikala_products`, `Begin` its first update,
`Continue`, `Stop`, `Skip`, `Import`, `Record`, `ReadCounters`, `Count` the
loop, `Leave`, `Judge`, `Close`, `Abort` what follows it. `Import` is the one
catalog transaction of `import_product`, or its failure. Whether an import
creates or updates a product is not distinguished.


## 4. What TLC checks

| run | instance | states | what it shows |
| --- | --- | --- | --- |
| `orders` | 2 shop orders, 1 market order, 2 rows of 2 units, 2 reading requests, every interleaving, the seeded cancel table | 377 189 | one payment per order, sales exactly with accepted payments, open orders keep their hold, nothing ships unpaid, units are conserved, `StockHold` is implemented; who settles a hold a second time, and that `reserved` is exact and ended orders stay ended where nobody does |
| `orders_decided` | 2 shop orders, 1 market order, 1 row of 2 units, 1 request that reads and commands | 256 121 | every pending shop order is decided, unless an order was settled twice |
| `checkout` | 2 baskets, 2 requests, 4 rows of 2 sellers and 2 variants, 1 edit in flight, 1 moving offer | 102 286 | no row promises more than it sells, an order holds its lines in full with one seller, `StockBook` is implemented, every checkout ends |
| `double_order` | the same | violated | two checkouts order the same lines of one basket |
| `units` | 3 orders of which 1 is overdue (2 pieces), 2 units, quantities up to 2, 2 settlements at a time, everything overlapping | 1 259 666 | unless a late batch freed it from an order that had ended, a unit is promised to one open order and stays off the shelf until that order is settled; no unit is reserved for nobody; sold units stay sold |
| `layers` | 2 orders, 2 supplies, 2 dates, quantities up to 2, 2 return requests | 2 655 695 | every piece of a supply is there or in the cost of one sale; a sale is costed wholly, from received supplies, and loses that cost to its cancellation or its returns only, also when a late batch expires it; no more is returned than was sold |
| `accounts` | 2 requests at a time, 2 passwords, 2 codes, 2 attempts, all four flows, all edits | 1 802 450 | a code brings about one thing; a replaced code is never accepted; a reset writes over the password it was asked for only |
| `reregister` | registration only | violated | a confirmed account becomes pending again |
| `submissions` | 2 requests beside the review, 2 contents per field | 877 715 | a review publishes what was sent or leaves what was there; "confirmed" agrees with the catalog in every text field the review wrote last; categories and details fit unless a writer that does not test it (one detail, the importer) wrote last |
| `points` | 2 requests, 2 amounts, 1 reference, 3 rows | 443 276 | the balances are the ledger's totals and never negative; an award counts once |
| `sms` | 1 message with a code, 2 workers, 2 deliveries, 1 crash, 1 retry, a check with 1 retry and any redeliveries | 1 025 264 | no repeated text is sent without a takeover, nor an erased one unless the broker refused a task it had; an erasure is never forgotten but by a crash; a delivered message changes by a takeover or a repeated check only; published messages settle |
| `imports` | 2 products, 2 workers, 1 crash, 1 second delivery | 112 098 | a product is written once per crash at most, at most one after cancel, "completed" is true, counters agree without crashes, the verdict is final, published jobs end |

The two violated runs are the findings of `PROJECT.json`; each quotes the
document that says otherwise.

**Bounds.** Two orders of one flow compete for stock and appear together in a
batch; the third belongs to the other flow, which the command does not see.
Baskets are chosen so that they do not all fit and so that one spans two rows
(a transaction can fail on its second row). Two requests suffice for two
expiries of the same order; liveness is checked on one row with one request,
which already brings payments and cancellations between its read and its batch. Each of payments, holds and releases happens at
most a handful of times per order, so no counter needs a bound. For units, two
give a checkout a choice and two settlements different units, and the third
order takes what one of the others gave back; `MaxUnit` bounds the units ever
registered and `MaxQuantity` the quantities people enter, both at 2; `MaxSettle` = 2
lets a batch run beside a payment, a cancellation or another order's
settlement, and the order it comes for has two pieces, so that the second
release finds one or two of them with other orders. For checkouts, two lines of two
variants give the two lock orders, the second request either shares the basket
of the first or comes from the other flow, and seller 1 has a second warehouse
of a variant that validation counts and reservation passes by; one of its
offers appears and goes. `MaxLine` and `MaxEdits` bound the lines ever inserted
and the edits in flight, `Edited` and `Moving` say what is edited. For
accounts, two codes are a code and its replacement or two of different flows,
and two handlers present, replace or expire one beside each other; two attempts
show a wrong guess that leaves a code and one that ends it. For submissions two
values per field tell staged from live and fitting from not; the constraint
`Few` keeps two requests from copying beside each other unless both open a
baseline (only one copies under the submission's lock anyway), and edits of the
catalog, which are no requests, run beside any copy. For points, three rows
hold an award, its retry and a spend between them; `MaxEntries` stops new
movements when the ledger is full. For costs,
two supplies with two dates put a sale across two layers in either order of
their ids, two orders draw on one layer between each other's query and lock,
and a quantity of two allows a return in two parts; `MaxRequests` bounds the
requests of both orders together. For messages,
which do not interact with each other, one is enough; two workers and two
deliveries give a takeover and a redelivery beside it; `StaleAfter = 0` (a
claim may be taken over from the next minute on) and `MaxRetries = 1` keep what
matters of the code's five minutes and ten retries a minute apart, that the
retries outlast the claim of one dead worker. Products of a job are taken in order, so two show a redelivered task
among imported, failed and untouched ones; one crash and one second delivery
bring two tasks into the loop's queue. Crashes and redeliveries are bounded by
`MaxCrashes` and `MaxRedeliveries` (for messages, redeliveries by the free
`Copies`); the proofs hold for any bounds.

**Deadlock.** `units` and `points` check it: in both somebody may always take a
step, if only to refresh a row or edit an activity. The other systems may,
when all orders have ended, all codes are used up, all messages settled or the
job is over, and their runs do not check it. That requests waiting for each
other's row locks get on is `CheckoutEnds`.

**Fairness.** For orders: the clock runs, a read that has started its expiry
ends, and the operator keeps running `expire_orders` (its reason to exist);
customers and admins owe nothing. For checkouts: a worker goes on with the
request it began, PostgreSQL grants a row lock to those who queue for it in
turn (strong fairness of a request's steps, since a step waiting for a lock is
enabled and disabled by others) and breaks deadlocks (`deadlock_timeout`);
nobody has to edit, check out or cancel. For messages: the workers and the broker
run, calls to the provider return or fail (the client has timeouts), time
passes; nobody has to send. For jobs: workers take tasks and proceed, a cancel
request that has read the status writes it; nobody has to publish or cancel.
All other fairness is weak. Crashes are bounded, hence never fair.


## 5. What the models show beside the properties

Behaviour of the code that is in the models and that no property excludes,
because no document promises more or because the properties are stated around
it. A reader who changes this code will want to know it.

*Orders.* `expire_orders` acts on rows read before (`flow.py:127`): an order
that another request expired meanwhile is released a second time, and one that
was paid meanwhile is expired (`ExpireBatch`). A sold order may be cancelled by
the seeded table; it releases what was consumed, `reserved` then lacks what
other orders hold, and once the CHECK of a row refuses a release, the whole
batch of `expire_orders` is rolled back at every later attempt
(`ExpireRefused`). `docs/api/commerce/order.md:136` lets a customer cancel while
`payment_pending` only; the code asks the seeded table, and so do the models. The command looks at shop orders only; a marketplace order
is expired when somebody reads it.

*Checkout.* `checkout_business_from_cart` chooses its lines by the offers of
one moment and prices them by those of the next: all of them may have moved to
another seller by then, and the order is that seller's.
What the warehouses other than the oldest row hold is shown as available and
never sold; `docs/api/commerce/order.md:34` speaks of the default warehouse row,
which the code does not look for.

*Units.* A late batch that releases an order which had ended puts back on the
shelf what `release_reserved_stock` still finds reserved, and does not ask for
whom: a third order may then reserve the unit while the second still holds it,
and both may be paid, so one serial number is sold twice. `PromisedOnce` and
`HoldKept` exclude the units in `freed`; without that exception TLC finds both
traces. `sellable` of a serialized row leaves reserved units out, and what is
available subtracts them again (`Summary`, `Available`): with one of two units
reserved the cart refuses the other.

*Costs.* `expire_orders` on an order that was sold meanwhile takes its status
and leaves its cost layers consumed (`ExpireSale`): an expired order is then in
the books with a cost that no cancellation gives back, while a return that was
open goes on. The return of an item of which only some units have a supply can be
taken in and never completed (`Complete` asks for more consumed pieces than
there are).

*Accounts.* `update_profile` saves the whole row as the session read it, and so
undoes a password reset or a verification committed meanwhile. A registration
that is throttled has already replaced the pending row's password, and the
earlier code no longer fits it.

*Submissions.* The staged files may change while a review is open: the file
views test the status without the lock and the service does not test it again,
although the docstring of `require_editable` says it does. The text of the class
"confirmed means the staging content equals the live content" holds until an
admin edits the product beside it; `ConfirmedAgrees` says what is left. A draft
with details cannot be discarded, as their rows are protected. Two writers of
the catalog do not test what categories require: `AddDetail` validates one
detail and not the others, and the importer adds categories and details to a
product without asking for the details those categories require
(`ImportProduct`). Either may leave a product whose categories and details do not
fit; `LiveFits` excludes what they wrote until a review or a full edit tests the
pair again. A PATCH of the columns saves the row as it
was read.

*Points.* A hand-entered award without an activity is told from no other by the
unique index, since one of its columns is NULL, and may be repeated, although
the docstring of `record_transaction` says a repeat is refused.

*Messages.* A process that dies between the outcome and the erasure leaves the
code in a settled row that nothing visits again (`abandoned`): a worker in
`process`, or the web process in `_enqueue` (`notification_service.py:199-208`).
If `apply_async` raises although the broker has the task, the web process may
erase a text a worker is about to read, and the customer gets the word
"[redacted]"; `PlainTextSent` excludes the messages erased this way. A delivery
check that comes again asks about a delivered message and may turn it into a
failed one, since `refresh_delivery_status` does not look at the status
(`notification_service.py:280-295`); a worker whose claim was taken over writes
over the outcome of the other one. `DeliveredStays` and `NoDoubleSend` say that
these are the only ways.


## 6. What is proved

All theorems hold for any sets, finite or not unless an assumption says so, and
any bounds that satisfy the `ASSUME`s of the modules: the two flows have
different ids and baskets and stock are natural numbers (`OrderFlow`), limits are natural numbers
(`SmsQueue`), at least one product and natural bounds (`ImportJob`), a natural
number of units and a positive largest quantity (`UnitStock`), rows and sellers
are numbers and baskets begin with finitely many lines, one per variant, as
the unique key of the table has it (`Checkout`), codes are
numbered and stand at least one attempt (`Accounts`), no rows are a content of
a field (`Submissions`), amounts are positive (`PointsLedger`), orders are
finitely many and bounds natural (`SupplyLayers`).

**OrderFlowProofs.** `TypeOK` is inductive because a transaction that breaks a
CHECK is not committed. The other invariants are conjuncts of `IInv`, which
says for each status what happened to the order: nothing before it exists;
while it is open neither released nor consumed; while it awaits payment no
payment row; while it is being reviewed one pending row; when it is fulfilled
one accepted row and one sale. It has to allow for stale batches, which move
an order from any status to `payment_expired`, so the other statuses are
described by inequalities: an order that expired, failed or was cancelled was
settled at least once. `Invariance` proves it; `Typed`, `OnePayment`,
`SoldOncePaid`, `HoldUntilSettled`, `NoUnpaidFulfilment` follow, and the action
properties `SettledAgainOnlySo` and `EndedOrdersStay`: every other action finds
the order open, hence not settled yet.
`ImplementsStockHold` shows that every step is a step of `StockHold` or a
stutter under the mapping `hold`: a batch gives back the holds that are still
held, and sold ones stay sold.

**UnitStockProofs.** `OneHolder`, `HoldsAreKept`, `NoOrphanHold`,
`HistoryKept`, `UnitTyped`. The argument never looks at the counters, which may
be wrong at any time: a checkout takes units in stock, the units of open and
sold orders are not in stock, so nobody gets them twice. For that the invariant
adds what the steps in progress rely on: a running settlement touches units of
its order only, a release ones still reserved, and a sale finds the order still
open (`SettleReady`); no two of the running settlements and the edit have locked
the same unit (`LocksApart`); what an edit is about to move is still in stock and
locked or not yet registered (`EditReady`); nothing is held before the order
exists and what is held was registered (`CartFirst`). A batch keeps nothing of
its order's status: if the order has ended when it commits, the units it puts
back are remembered in `freed`. `NoOrphanHold` needs for each reserved unit an
open order all of whose running settlements have touched it (`Holder`). The CHECKs need one lemma about cardinalities
(`SummaryType`).

**SmsQueueProofs.** `OneSend` and `SentAsWritten`. The invariant says who works
on a message with which delivery, and for a message whose claim was never
taken over that one worker at most works on it, and what the row says at each
of its statements. It is needed because neither property mentions the claim on
which both rest: `started_at` is never cleared, so the conditional update
succeeds once. The text it read
was the one written at first, unless the web process erased it, which it does
to a settled row only (`Begun`). `SecretsErased` rests on two facts: an erased
text never comes back, and nobody asks about a message before its sender has
erased it. `DeliveryIsFinal` holds because only a sent message becomes
delivered, a worker whose claim was not taken over has nothing left to write by
then, and the one check of a message that was not delivered again ends with the
verdict it writes (`Answered`).

**ImportJobProofs.** `ResumesOnce`, `StopsInTime`, `CompletedMeansImported`.
The lock makes the worker in the loop the only writer of results and counters,
so it knows of every product behind it that it is imported or that a failure
is counted; it keeps that knowledge after it gave the lock back, because
imported products stay imported and the failure counter never returns to zero.
A product not recorded and in nobody's hand was written at most once per
crash, which makes the next write the last one. Whoever is past the head of the loop
passed it with the flag down. `VerdictIsFinal`: whoever comes after a verdict
drops the task. `CountersAgree`: results and counters change only by the
holder of the lock, one product at a time, so two lemmas on the cardinality of
the recorded products carry it.

**CheckoutProofs.** The argument is that of two-phase locking: a row is locked
by one transaction at most (`Exclusive`), whatever an open checkout has taken is of rows it has locked
(`LockedFirst`), and every item was matched with a row of its seller before it
is reserved (`Stored`). So what `Reserve` reads under the
lock is still true at `Commit`, and `NeverOversold` and each step of
`StockBook` follow without a word about validation, which may be stale.
`OrdersHoldTheirLines` adds that a basket never has two lines of a variant, so
no two items of an order share a row and what is taken so far is exactly what
the items already done ask for. `CheckoutEnds` is left to TLC.

**AccountsProofs.** A code that was consumed is in no key, one that a handler
holds after consuming it has not been used and is held by nobody else, and a
handler about to write has the row locked, with the password it compared. From
these follow `SpentOnce`, `LatestOnly` and `ResetReplacesKnown`.

**SubmissionsProofs.** The three properties are conjuncts of an invariant that
adds what they rest on: what a withdrawal has copied so far agrees with the
product wherever the review was the last to write, which an edit or an import
beside it keeps, as it makes the catalog the last writer; and while a review is
open the text of the submission is what was sent.

**LedgerProofs.** Properties that compare a column with a sum over a finite set.
The module has four parts, the first of which serves the other three.

*Finite sums.* `SumFunctionOnSet` is a fold that picks its elements by CHOOSE.
What is proved about it is what sums are used for: a sum is an integer and does
not depend on the order of the picks, an element may be taken out of it
(`SumRemove`), two sums add (`SumAdd`), a change at one element
moves it by the difference, a sum over a larger set of zeros is the same
(`SumSupport`). Each goes by induction over the finite set, as a smallest
counterexample: the subsets for which a statement fails have a minimal member,
by the well-foundedness of strict inclusion (`SmallestSubset`,
`SubsetInduction`). Nothing is assumed beyond the library.

*Points.* `AwardsCountOnce`: what a request is about to insert or has inserted
under the lock is no repeat of a recorded award (`PointsInv`).
`BalancesAreTotals` adds in `Balanced` that only finitely many movements are
recorded, that whoever has the membership locked has read it as it is, and that
a summed ledger is still the ledger (`ReadHolds`): only then may
`CommitReconcile` overwrite the row with what it summed earlier.

*Stock.* `GoodsConserved` and `ReservedIsHeld`, by `GoodsInv` on top of the
invariant of `OrderFlowProofs`. It adds that no order enters a return status
and that open and sold orders are finitely many, which `OrderFlow` need not assume
of the set of all orders. Each step takes a hold, returns one, sells one,
settles one again, or moves no goods (`OrderMoves`).

*Cost layers.* `LayersInv` describes an order by three parts. `RowsOf`: what it
took, holds in units or has chosen are received supplies, which nobody deletes
or resizes any more, and its rows have different turns. `CostOf`: its cost
is that of what it sold, gone from a cancelled order and kept by an expired one.
`ReturnsOf`: what it got back is what its completed returns
claim, or everything where a cancelled order was expired on top. The three properties are read off these; `LayersBalance` needs them
because a step moves one order's rows and the sum over orders moves by exactly
that (`SunkMoves`). The two loops of the code, first in first out and its
reversal, are one lemma: if elements are told apart by rank and each gives
what those before it lack, together they give all that was asked for or all
they have (`SumShare`, cited by `FifoShares` and `BackShares`). The layers a review chose
before it had their locks are only known to be received; that the sum of what is left covers the sale is tested
under the locks, and this suffices.

**Only model-checked:** the liveness properties (`ShopOrdersDecided`,
`CheckoutEnds`, `PublishedSettles`, `JobEnds`), which the prover does not reach.
The type invariants are proved, with the invariants that rest on them, and not
run again.

## 7. What is not modelled, and why

*Orders:* history rows, prices, addresses and messages; editing payment
methods and channels; the layers behind `cost` (see `SupplyLayers`). The rows of `OrderFlow` are
normal stock, units with serial numbers are in `UnitStock`. Return statuses are listed in
`StatusActions` but nothing enters `return_reviewing`, so they are never
taken.

*Units:* several warehouses and businesses of one variant; attributes and
serial numbers themselves; the purge of retired units after 90 days; the
operations nothing calls (sell, return, damage, transfer). `receive_supply`
looks up the type of the variant just before it locks the row; the model does
both at once. No property says that the counters agree with the units: they do
not while settlements overlap, and after a conversion with open orders they do
not come back until somebody edits or refreshes.

*Costs:* prices (the landed unit cost is arithmetic on the supply's row and its
cost rows, and is copied into the consumption row), other warehouses, evidence
files and refund details of a return. Goods that come back are not put on the
shelf by any operation of the program. Layers may be fewer than the pieces on
the shelf, since vendors enter stock without supplies; a sale they do not cover
is refused at review (`ApproveRefused`).

*Messages:* checks of the same message after as many retries are one, which
the broker may deliver any number of times; a check is one step, at the moment
the answer is written; the choice of provider and its error texts.

*Import jobs:* collecting a listing and the mapping file; dry runs; a listing
that changes on disk after the job was made (`tasks.py:94-102`; listings are
written once); errors of the runtime directory other than at the head of the
loop; progress and events. A job whose selection is refused, and one whose
broker was away in the view that retries failures, stay queued: both are in
the model, and `JobEnds` does not speak of them because no text says what
should become of them.

*Checkout:* addresses, the descriptions an order copies, charges and shipment
prices, payment channels: they refuse a checkout (`Abandon`) or are arithmetic
on it. Pieces with serial numbers, which are in `UnitStock`; a guest's
validation, which writes nothing.

*Accounts:* tokens and sessions, preferences, addresses; sending the message,
which is `SmsQueue`; one account only, as accounts share nothing.

*Submissions:* deletion of the product, which unlinks its submission; several
submissions of one vendor; changes of what a category asks for; the importer's
first run over a product, which creates another one; variants, brands and the
definitions of categories and details, which are validated CRUD.

*Points:* several vendors and activities, which share nothing; lists and the
dashboard; what a row that is no award refers to, which nothing reads.

*Elsewhere:* the public cache, whose rebuild may outlive its lock
(`cache.py:105`; the last step of the plan), and the components whose behaviour is one validated
write. Catalog administration has one exception: `_validate_category` walks the
ancestors of the new parent without a lock, so two moves at once can close a
cycle; it is not modelled. PostgreSQL, Redis, Celery, the provider and the object store are
modelled from how the code uses them.
