----------------------------- MODULE UnitStock -----------------------------
(***************************************************************************)
(* One variant of one business whose stock may be counted (normal) or      *)
(* registered unit by unit with serial numbers (serialized): its inventory *)
(* row, its units, the orders that hold them, and what vendors do to it    *)
(* meanwhile (domains/inventory/services/inventory_service.py).            *)
(*                                                                         *)
(* Transactions that lock the inventory row before they look at it are one *)
(* step.  Two kinds are not: release_reserved_stock and                    *)
(* consume_reserved_stock of an order with units, and the snapshot edit of *)
(* a serialized variant.  They lock units, count, and only then save the   *)
(* row, so what others commit to the row in between is overwritten.        *)
(*                                                                         *)
(* An order has two kinds of settlement: one that holds its lock and has   *)
(* looked at its status, and a late expiry batch, which has read the order *)
(* while it was pending and looks at nothing again.                        *)
(***************************************************************************)
EXTENDS Integers, FiniteSets

CONSTANTS
    Orders,         \* order ids a checkout may create
    Overdue,        \* those some expiry batch has read pending past the deadline
    MaxUnit,        \* bound: units registered in the variant's life
    MaxQuantity,    \* bound: what vendors enter and receive
    Demand,         \* Demand[o]: quantities the customer of o may ask for
    MaxSettle       \* bound: settlements that run at a time

ASSUME OrdersType == Overdue \subseteq Orders /\ Demand \in [Orders -> SUBSET (Nat \ {0})]
ASSUME BoundsType == {MaxUnit, MaxQuantity, MaxSettle} \subseteq Nat

Units == 1 .. MaxUnit       \* ids of InventoryUnit, given in this order

VARIABLES
    row,        \* the inventory row: its type and its three counters
    unit,       \* unit[u]: InventoryUnit.state, "absent" before and "deleted" after
    received,   \* quantity of the variant's received supplies
    cart,       \* cart[o]: the quantity a checkout has validated, then that of o's item
    status,     \* status[o]: "none", "open", "sold" or "ended"
    link,       \* link[o]: the units o's reservation rows were made for
    amount,     \* amount[o]: quantity of its reservation row of normal stock
    settle,     \* settle[o][by]: a settlement of o in progress, or NoTx
    edit,       \* the vendor's snapshot in progress
    withheld,   \* history: units a vendor took off sale
    freed       \* history: units a batch freed after their order had ended

orderVars == <<cart, status, link, amount>>
txVars == <<settle, edit>>
historyVars == <<withheld, freed>>
vars == <<row, unit, received, orderVars, txVars, historyVars>>

\* Who settles an order: whoever has its lock (payment, rejection, cancellation
\* and the expiry the payment endpoint finds), or an expiry batch.
By == {"lock", "batch"}

\* Nothing in the program gives a unit one of the other historical states
\* (returned, damaged, lost, frozen).
Live == {"in_stock", "reserved"}
Historical == {"sold", "changed_type"}
State == {"absent", "deleted"} \union Live \union Historical

In(f, s) == {u \in Units : f[u] = s}
Existing == {u \in Units : unit[u] \in Live \union Historical}

\* Columns of the row and its CHECK constraints; no row has type "absent".
InventoryRow ==
    { r \in [type : {"absent", "normal", "serialized"}, quantity : Nat, sellable : Nat, reserved : Nat] :
        r.sellable <= r.quantity }

\* The table, or full_clean in save, refuses any other row.
Accepted(r) == r \in InventoryRow

NoRow == [type |-> "absent", quantity |-> 0, sellable |-> 0, reserved |-> 0]
Settlement ==
    [how : {"none", "release", "consume"}, units : SUBSET Units, row : InventoryRow]
NoTx == [how |-> "none", units |-> {}, row |-> NoRow]
NoEdit == [busy |-> FALSE, to |-> [u \in {} |-> "absent"], locks |-> {}, row |-> NoRow]

\* _is_serialized_inventory and _detect_inventory_type: declared so, or live
\* units left.
Serialized == row.type = "serialized" \/ \E u \in Units : unit[u] \in Live

Available == row.sellable - row.reserved

\* _sync_inventory_summary: the counters of a row of type t with the units f.
Summary(f, t) ==
    [type |-> t,
     quantity |-> Cardinality({u \in Units : f[u] \in Live \union {"sold"}}),
     sellable |-> Cardinality(In(f, "in_stock")),
     reserved |-> Cardinality(In(f, "reserved"))]

\* linked_unit of o's reservation rows: a deleted unit leaves its row without one
\* (SET_NULL), and what settles the row then takes it for an amount of 1.
Linked(o) == {u \in link[o] : unit[u] # "deleted"}
Amount(o) == amount[o] + Cardinality(link[o] \ Linked(o))

\* Mutant of Touched: the release does not test the state of the unit.
TouchedAnyState(o, how) == Linked(o)

\* The units of o that a settlement updates: a release those still reserved,
\* a sale all of them.
Touched(o, how) ==
    IF how = "release" THEN {u \in Linked(o) : unit[u] = "reserved"} ELSE Linked(o)

\* Mutant of Settled: a release only refreshes the counters.
SettledOnlySold(S, how) ==
    [u \in Units |-> IF how = "consume" /\ u \in S THEN "sold" ELSE unit[u]]

\* The units after release_reserved_stock or consume_reserved_stock of S.
Settled(S, how) ==
    [u \in Units |->
        IF u \notin S THEN unit[u] ELSE IF how = "release" THEN "in_stock" ELSE "sold"]

\* Settlements in progress.
Settling == {t \in Orders \X By : settle[t[1]][t[2]] # NoTx}

\* Units whose rows a running transaction has locked.
Locked == edit.locks \union UNION {settle[o][by].units : o \in Orders, by \in By}

\* The next n ids of the table; a running edit has taken some already.
Fresh(n) ==
    LET free == {u \in Units : unit[u] = "absent" /\ u \notin DOMAIN edit.to}
    IN  {u \in free : Cardinality({v \in free : v <= u}) <= n}

-----------------------------------------------------------------------------
Init ==
    /\ row = NoRow
    /\ unit = [u \in Units |-> "absent"]
    /\ received = 0
    /\ cart = [o \in Orders |-> 0]
    /\ status = [o \in Orders |-> "none"]
    /\ link = [o \in Orders |-> {}]
    /\ amount = [o \in Orders |-> 0]
    /\ settle = [o \in Orders |-> [by \in By |-> NoTx]]
    /\ edit = NoEdit
    /\ withheld = {}
    /\ freed = {}

-----------------------------------------------------------------------------
(* Checkout.                                                               *)

\* _validate_lines: the cart is tested against the row without a lock.
Validate(o, n) ==
    /\ status[o] = "none" /\ cart[o] = 0
    /\ n <= Available
    /\ cart' = [cart EXCEPT ![o] = n]
    /\ UNCHANGED <<row, unit, received, status, link, amount, txVars, historyVars>>

\* Mutant of Lowest: reserved units are not left out.
LowestLive(n) ==
    LET S == {u \in Units : unit[u] \in Live}
    IN  {u \in S : Cardinality({v \in S : v <= u}) <= n}

\* The first n units in stock, by id.
Lowest(n) ==
    LET S == In(unit, "in_stock")
    IN  {u \in S : Cardinality({v \in S : v <= u}) <= n}

\* A validated cart becomes an order.
Placed(o) ==
    /\ status[o] = "none" /\ cart[o] > 0
    /\ status' = [status EXCEPT ![o] = "open"]

\* reserve_variant_stock of serialized stock, under the row lock.  A unit
\* somebody has locked makes it wait.
PlaceUnits(o) ==
    /\ Placed(o)
    /\ Serialized
    /\ Cardinality(Lowest(cart[o])) = cart[o]
    /\ Lowest(cart[o]) \intersect Locked = {}
    /\ unit' = [u \in Units |-> IF u \in Lowest(cart[o]) THEN "reserved" ELSE unit[u]]
    /\ row' = Summary(unit', row.type)
    /\ link' = [link EXCEPT ![o] = Lowest(cart[o])]
    /\ UNCHANGED <<received, cart, amount, txVars, historyVars>>

\* reserve_variant_stock of normal stock, under the row lock.
PlaceAmount(o) ==
    /\ Placed(o)
    /\ ~Serialized
    /\ cart[o] <= Available
    /\ row' = [row EXCEPT !.reserved = @ + cart[o]]
    /\ amount' = [amount EXCEPT ![o] = cart[o]]
    /\ UNCHANGED <<unit, received, cart, link, txVars, historyVars>>

\* Not enough is left when the row is locked, or a unit the checkout waited for
\* is gone: it is rolled back.
PlaceRefused(o) ==
    /\ status[o] = "none" /\ cart[o] > 0
    /\ IF Serialized
       THEN \/ Cardinality(Lowest(cart[o])) < cart[o]
            \/ Lowest(cart[o]) \intersect Locked # {}
       ELSE cart[o] > Available
    /\ cart' = [cart EXCEPT ![o] = 0]
    /\ UNCHANGED <<row, unit, received, status, link, amount, txVars, historyVars>>

-----------------------------------------------------------------------------
(* The end of a hold: expiry, rejection and cancellation release it, an    *)
(* accepted payment consumes it.                                           *)

\* Under the order's lock: an open order may go either way; a sold one may
\* still be cancelled, which releases its reservation rows once more.  A batch
\* releases whatever the status is by now: every order was pending once, and
\* any number of batches may have found it past its deadline then.
MaySettle(o, by, how) ==
    /\ settle[o][by] = NoTx
    /\ \/ by = "lock" /\ status[o] = "open"
       \/ by = "lock" /\ status[o] = "sold" /\ how = "release"
       \/ by = "batch" /\ o \in Overdue /\ status[o] # "none" /\ how = "release"

\* A batch saves the status of an order nobody has locked.
MaySave(o, by) == by = "batch" => settle[o]["lock"] = NoTx

\* The new status; a release of an order that had ended frees S once too often.
Outcome(o, how, S) ==
    /\ status' = [status EXCEPT ![o] = IF how = "release" THEN "ended" ELSE "sold"]
    /\ freed' = freed \union IF status[o] = "ended" THEN S ELSE {}

\* The units are updated and counted, the row is not saved yet.
BeginSettle(o, by, how) ==
    /\ MaySettle(o, by, how)
    /\ Cardinality(Settling) < MaxSettle
    /\ Linked(o) # {} /\ Amount(o) = 0
    /\ Touched(o, how) \intersect Locked = {}
    /\ settle' = [settle EXCEPT ![o][by] =
                    [how |-> how, units |-> Touched(o, how),
                     row |-> Summary(Settled(Touched(o, how), how), row.type)]]
    /\ UNCHANGED <<row, unit, received, orderVars, edit, historyVars>>

\* _resync_inventories saves what it counted, and the transaction commits.
CommitSettle(o, by) ==
    LET tx == settle[o][by]
    IN  /\ tx # NoTx
        /\ MaySave(o, by)
        /\ unit' = Settled(tx.units, tx.how)
        /\ row' = tx.row
        /\ Outcome(o, tx.how, tx.units)
        /\ settle' = [settle EXCEPT ![o][by] = NoTx]
        /\ UNCHANGED <<received, cart, link, amount, edit, withheld>>

\* Any other ending (a deadlock, a lost connection) leaves nothing.
AbortSettle(o, by) ==
    /\ settle[o][by] # NoTx
    /\ settle' = [settle EXCEPT ![o][by] = NoTx]
    /\ UNCHANGED <<row, unit, received, orderVars, edit, historyVars>>

\* One relative UPDATE of the row.
AfterSettle(o, how) ==
    IF how = "release"
    THEN [row EXCEPT !.reserved = @ - Amount(o)]
    ELSE [row EXCEPT !.reserved = @ - Amount(o), !.sellable = @ - Amount(o),
                     !.quantity = @ - Amount(o)]

\* An order with a reservation row that names no unit: a CHECK may refuse the
\* UPDATE, which locks the row; if other rows name units it is then recounted.
SettleAmount(o, by, how) ==
    /\ MaySettle(o, by, how) /\ MaySave(o, by)
    /\ Amount(o) > 0
    /\ Touched(o, how) \intersect Locked = {}
    /\ Accepted(AfterSettle(o, how))
    /\ unit' = Settled(Touched(o, how), how)
    /\ row' = IF Linked(o) = {} THEN AfterSettle(o, how) ELSE Summary(unit', row.type)
    /\ Outcome(o, how, Touched(o, how))
    /\ UNCHANGED <<received, cart, link, amount, txVars, withheld>>

-----------------------------------------------------------------------------
(* The vendor.                                                             *)

\* Mutant of Editable: a reserved row is edited like any other.
EditableLive == {u \in Units : unit[u] \in Live}

\* _is_editable.
Editable == In(unit, "in_stock")

\* _apply_serialized_snapshot on a serialized variant, or on a normal one that
\* becomes serialized: drop disappears from the list, hold goes off sale, new is
\* the state of one more line, or "none".  Reserved units stay as they are,
\* historical ones are left alone.  All units are locked, the row is not.
BeginEdit(drop, hold, new) ==
    /\ Serialized \/ row.quantity = 0 \/ new # "none"
    /\ new = "none" \/ Fresh(1) # {}
    /\ LET line == IF new = "none" THEN {} ELSE Fresh(1)
           to == [u \in drop \union hold \union line |->
                    IF u \in drop THEN "deleted" ELSE IF u \in hold THEN "reserved" ELSE new]
           after == [u \in Units |-> IF u \in DOMAIN to THEN to[u] ELSE unit[u]]
       IN  edit' = [busy |-> TRUE, to |-> to, locks |-> Existing,
                    row |-> Summary(after, "serialized")]
    /\ UNCHANGED <<row, unit, received, orderVars, settle, historyVars>>

\* One edit at a time: it locks the variant and then all its units.
Edit ==
    /\ ~edit.busy
    /\ Existing \intersect Locked = {}
    /\ \E drop \in SUBSET Editable, new \in {"none"} \union Live :
        \E hold \in SUBSET (Editable \ drop) : BeginEdit(drop, hold, new)

\* The row is saved with the counts taken before and the edit commits.
CommitEdit ==
    /\ edit.busy
    /\ unit' = [u \in Units |-> IF u \in DOMAIN edit.to THEN edit.to[u] ELSE unit[u]]
    /\ row' = edit.row
    /\ withheld' = withheld \union
                    {u \in DOMAIN edit.to : edit.to[u] = "reserved"}
    /\ edit' = NoEdit
    /\ UNCHANGED <<received, orderVars, settle, freed>>

AbortEdit ==
    /\ edit.busy
    /\ edit' = NoEdit
    /\ UNCHANGED <<row, unit, received, orderVars, settle, historyVars>>

\* The quantities _convert_serialized_to_normal writes and the refresh it ends
\* with checks.
Converted ==
    LET reserved == Cardinality(In(unit, "reserved"))
        live == Cardinality(In(unit, "in_stock")) + reserved
    IN  [type |-> "normal", quantity |-> received, sellable |-> live, reserved |-> reserved]

\* _convert_serialized_to_normal under the locks of the row and all units.
ToNormal ==
    /\ Serialized /\ ~edit.busy
    /\ Existing \intersect Locked = {}
    /\ Converted.sellable <= row.quantity
    /\ Accepted(Converted)
    /\ unit' = [u \in Units |-> IF unit[u] \in Live THEN "changed_type" ELSE unit[u]]
    /\ row' = Converted
    /\ UNCHANGED <<received, orderVars, txVars, historyVars>>

\* The row as get_or_create finds or makes it, of the default type.
Made == [row EXCEPT !.type = IF @ = "absent" THEN "normal" ELSE @]

\* _apply_normal: the vendor's numbers replace the row's.
SetNormal(q, s) ==
    /\ ~Serialized /\ ~edit.busy
    /\ row.reserved <= s /\ s <= q
    /\ row' = [Made EXCEPT !.quantity = q, !.sellable = s]
    /\ UNCHANGED <<unit, received, orderVars, txVars, historyVars>>

\* receive_supply of q pieces with the serial numbers of k of them: nothing
\* compares the two.  The first receipt of a variant may bring numbers too; the
\* row it makes is of the default type, whatever it holds.
ReceiveUnits(q, k) ==
    /\ Serialized \/ row.type = "absent"
    /\ Cardinality(Fresh(k)) = k
    /\ unit' = [u \in Units |-> IF u \in Fresh(k) THEN "in_stock" ELSE unit[u]]
    /\ row' = [Made EXCEPT !.quantity = @ + k, !.sellable = @ + k]
    /\ received' = received + q
    /\ UNCHANGED <<orderVars, txVars, historyVars>>

ReceiveAmount(q) ==
    /\ ~Serialized
    /\ row' = [Made EXCEPT !.quantity = @ + q]
    /\ received' = received + q
    /\ UNCHANGED <<unit, orderVars, txVars, historyVars>>

\* A row an edit is about to insert makes the receipt wait.
Receive ==
    /\ edit.busy => row.type # "absent"
    /\ \E q \in 1 .. MaxQuantity :
            /\ received + q <= MaxQuantity
            /\ ReceiveAmount(q) \/ \E k \in 0 .. q : ReceiveUnits(q, k)

\* refresh_variant_inventory: recount the units, or take the received total as
\* the quantity if what is on sale and reserved fits.
Refresh ==
    /\ IF Serialized
       THEN row' = Summary(unit, row.type)
       ELSE /\ row.reserved <= received /\ row.sellable <= received
            /\ row' = [row EXCEPT !.quantity = received]
    /\ UNCHANGED <<unit, received, orderVars, txVars, historyVars>>

-----------------------------------------------------------------------------
OrderStep(o) ==
    \/ \E n \in Demand[o] : Validate(o, n)
    \/ PlaceUnits(o) \/ PlaceAmount(o) \/ PlaceRefused(o)
    \/ \E by \in By :
        \/ \E how \in {"release", "consume"} :
            BeginSettle(o, by, how) \/ SettleAmount(o, by, how)
        \/ CommitSettle(o, by) \/ AbortSettle(o, by)

VendorStep ==
    \/ Edit \/ CommitEdit \/ AbortEdit \/ ToNormal
    \/ \E q, s \in 0 .. MaxQuantity : SetNormal(q, s)
    \/ Receive \/ Refresh

Next == (\E o \in Orders : OrderStep(o)) \/ VendorStep

Spec == Init /\ [][Next]_vars

-----------------------------------------------------------------------------
\* Every column keeps its range; for the row this is what the CHECKs enforce.
TypeOK ==
    /\ row \in InventoryRow
    /\ unit \in [Units -> State]
    /\ received \in Nat
    /\ cart \in [Orders -> Nat]
    /\ status \in [Orders -> {"none", "open", "sold", "ended"}]
    /\ link \in [Orders -> SUBSET Units]
    /\ amount \in [Orders -> Nat]
    /\ settle \in [Orders -> [By -> Settlement]]
    /\ edit.busy \in BOOLEAN
    /\ edit.locks \in SUBSET Units
    /\ edit.row \in InventoryRow
    /\ withheld \in SUBSET Units
    /\ freed \in SUBSET Units

\* A serial number is promised to one order at a time and sold to one for
\* ever, although reservations, settlements, edits and conversions overlap and
\* the row they are admitted by may be wrong (_reserve_units).  Only a unit that
\* a late batch freed a second time, for an order that had ended already
\* (expire_orders), may have been promised again.
PromisedOnce ==
    \A o, p \in Orders :
        /\ o # p
        /\ {status[o], status[p]} \subseteq {"open", "sold"}
        => link[o] \intersect link[p] \subseteq freed

\* An open order holds what was ordered, and its units stay off the shelf until
\* it is settled: no edit moves or deletes them, a conversion only retires
\* them, and of the settlements of other orders only the second release of an
\* ended one frees them.  The units of a sold order are sold, and no later
\* release undoes that; one freed and then deleted by a vendor is not there.
HoldKept ==
    \A o \in Orders :
        /\ status[o] = "open" =>
            /\ Cardinality(link[o]) + amount[o] = cart[o]
            /\ \A u \in link[o] \ freed : unit[u] \in {"reserved", "changed_type"}
        /\ status[o] = "sold" =>
            \A u \in link[o] : unit[u] = "sold" \/ (u \in freed /\ unit[u] = "deleted")

\* No unit is off the shelf for nobody: it is reserved because an open order
\* holds it or because a vendor took it off sale.
ReservedForSomebody ==
    \A u \in In(unit, "reserved") :
        u \in withheld \/ \E o \in Orders : status[o] = "open" /\ u \in link[o]

KeepsHistory ==
    \A u \in Units :
        /\ unit[u] = "sold" => unit'[u] = "sold"
        /\ unit[u] = "changed_type" /\ unit'[u] # "changed_type"
            => /\ unit'[u] = "sold"
               /\ \E o \in Orders : u \in link[o] /\ status[o] = "open" /\ status'[o] = "sold"

\* History is not rewritten: a sold unit never returns, whatever is released
\* late, edited or converted, and a retired one can only be sold by the order
\* that holds it.
HistoryStays == [][KeepsHistory]_vars

=============================================================================
