------------------------------ MODULE Checkout ------------------------------
(***************************************************************************)
(* Baskets and the checkout of a basket, of both flows: the lines of a     *)
(* basket and the requests that edit them, the seller a line is priced     *)
(* from, and the transaction that turns lines into an order while it locks *)
(* one stock row after the other.  The stock is normal stock; serialized   *)
(* pieces are in UnitStock, what becomes of the order in OrderFlow.        *)
(*                                                                         *)
(* A transaction is a record: what it reserved so far, tx[q].take, is      *)
(* visible to others only after its commit, and tx[q].locked are the rows  *)
(* it keeps locked until then.  PostgreSQL runs it in READ COMMITTED: each *)
(* statement sees what was committed before the statement.                 *)
(***************************************************************************)
EXTENDS Integers, FiniteSets
LOCAL INSTANCE Functions

CONSTANTS
    Carts,              \* the baskets; a customer has one per flow
    MarketCarts,        \* those of the marketplace flow, sold seller by seller
    Requests,           \* the checkout requests that may be made
    MayAsk,             \* MayAsk[q]: the <<basket, seller>> pairs q may be for
    Variants,
    Sellers,            \* business ids, numbers: they break ties between offers
    Rows,               \* stock row ids, numbers: the oldest row is locked
    RowVariant,         \* RowVariant[r]: the variant row r holds
    RowSeller,          \* RowSeller[r]: the business row r belongs to
    Sellable,           \* Sellable[r]: the pieces of row r that may be sold
    MaxPrice,           \* bound: prices are 1..MaxPrice
    MaxQuantity,        \* bound on the quantity of a line
    MaxLine,            \* bound: ids of the basket lines ever inserted
    MaxEdits,           \* bound on the line edits in flight
    Edited,             \* bound: the baskets that are edited
    Moving,             \* bound: the offers <<v, s>> that change
    StartCart,          \* StartCart[c]: the lines basket c begins with
    Nobody              \* no seller: an unpinned line, a variant without offer

ASSUME CheckoutAssumption ==
    /\ Sellers \subseteq Nat /\ Nobody \notin Sellers
    /\ Rows \subseteq Nat
    /\ RowVariant \in [Rows -> Variants]
    /\ RowSeller \in [Rows -> Sellers]
    /\ Sellable \in [Rows -> Nat]
    /\ MarketCarts \subseteq Carts /\ Edited \subseteq Carts
    /\ MayAsk \in [Requests -> SUBSET ((Carts \ MarketCarts) \X {Nobody}
                                      \cup MarketCarts \X Sellers)]
    /\ MaxPrice \in Nat \ {0} /\ MaxQuantity \in Nat \ {0} /\ MaxLine \in Nat

VARIABLES
    cart,               \* cart[c]: the committed lines of basket c
    nextLine,           \* the id of the next line inserted
    edits,              \* lines read by a request that will save them
    price,              \* price[v][s]: what seller s asks for v, 0: not offered
    reserved,           \* reserved[r]: the committed column of row r
    tx                  \* tx[q]: the transaction of request q

vars == <<cart, nextLine, edits, price, reserved, tx>>

Line == [id : 1..MaxLine, variant : Variants,
         quantity : 1..MaxQuantity, offer : Sellers \cup {Nobody}]

\* A line an order takes, and the seller it is priced from once validated.
Item == [line : Line, seller : Sellers \cup {Nobody}]

Nothing == [r \in Rows |-> 0]

NoTx == [pc |-> "new", cart |-> Nobody, asked |-> Nobody, items |-> {},
         todo |-> {}, take |-> Nothing, locked |-> {}]

ASSUME StartAssumption ==
    /\ StartCart \in [Carts -> SUBSET Line]
    /\ IsFiniteSet(UNION {StartCart[c] : c \in Carts})
    /\ \A c \in Carts : \A k, l \in StartCart[c] : k.variant = l.variant => k = l

Init ==
    /\ cart = StartCart
    /\ nextLine = 1 + Cardinality(UNION {StartCart[c] : c \in Carts})
    /\ edits = {}
    /\ price = [v \in Variants |-> [s \in Sellers |->
                    IF \E r \in Rows : RowVariant[r] = v /\ RowSeller[r] = s
                    THEN 1 ELSE 0]]
    /\ reserved = Nothing
    /\ tx = [q \in Requests |-> NoTx]

----------------------------------------------------------------------------
\* The seller of a line.

\* What a seller can still sell of v: the sum over the seller's rows.
Stocked(v, s) == {r \in Rows : RowVariant[r] = v /\ RowSeller[r] = s}

Available(v, s) ==
    IF Stocked(v, s) = {} THEN 0 ELSE
    SumFunctionOnSet([r \in Rows |-> Sellable[r] - reserved[r]], Stocked(v, s))

Offered(v) == {s \in Sellers : price[v][s] > 0}

\* s is shown before t: what is in stock, then the cheapest, then by id.
ShownBefore(v, s, t) ==
    LET in(u) == Available(v, u) > 0
    IN  IF in(s) # in(t) THEN in(s)
        ELSE price[v][s] < price[v][t] \/ (price[v][s] = price[v][t] /\ s < t)

BestOffer(v) ==
    IF Offered(v) = {} THEN Nobody
    ELSE CHOOSE s \in Offered(v) : \A t \in Offered(v) \ {s} : ShownBefore(v, s, t)

\* The pinned seller if it still offers the variant; without a pin, the best.
OfferOf(l) ==
    IF l.offer = Nobody THEN BestOffer(l.variant)
    ELSE IF l.offer \in Offered(l.variant) THEN l.offer ELSE Nobody

----------------------------------------------------------------------------
\* Editing a basket.

\* A line for a variant the basket does not have.
AddLine(c, v, n, s) ==
    /\ nextLine <= MaxLine
    /\ \A l \in cart[c] : l.variant # v
    /\ s \in Offered(v) \cup {Nobody}
    /\ cart' = [cart EXCEPT ![c] = @ \cup
                   {[id |-> nextLine, variant |-> v, quantity |-> n, offer |-> s]}]
    /\ nextLine' = nextLine + 1
    /\ UNCHANGED <<edits, price, reserved, tx>>

\* The row is read, changed in memory, and saved later.
ReadLine(c, l, n, s) ==
    /\ Cardinality(edits) < MaxEdits
    /\ s \in Offered(l.variant) \cup {l.offer}
    /\ edits' = edits \cup {[cart |-> c, line |-> [l EXCEPT !.quantity = n, !.offer = s]]}
    /\ UNCHANGED <<cart, nextLine, price, reserved, tx>>

\* save() writes every field of the row and inserts the row again when it is
\* gone, unless another row has the variant by now.
SaveLine(e) ==
    LET others == {l \in cart[e.cart] : l.id # e.line.id}
    IN  /\ cart' = [cart EXCEPT ![e.cart] =
                      IF \E l \in others : l.variant = e.line.variant
                      THEN @ ELSE others \cup {e.line}]
        /\ edits' = edits \ {e}
        /\ UNCHANGED <<nextLine, price, reserved, tx>>

RemoveLine(c, l) ==
    /\ cart' = [cart EXCEPT ![c] = @ \ {l}]
    /\ UNCHANGED <<nextLine, edits, price, reserved, tx>>

\* A seller lists, reprices or retires an offer.
Reprice(v, s, p) ==
    /\ <<v, s>> \in Moving
    /\ price' = [price EXCEPT ![v][s] = p]
    /\ UNCHANGED <<cart, nextLine, edits, reserved, tx>>

----------------------------------------------------------------------------
\* The transaction of a checkout.

Set(q, t) ==
    /\ tx' = [tx EXCEPT ![q] = t]
    /\ UNCHANGED <<cart, nextLine, edits, price, reserved>>

\* A failed transaction leaves nothing behind, whatever it had reserved.
RolledBack == [NoTx EXCEPT !.pc = "refused"]

Active == {"loaded", "selected", "reserving"}

\* The lines are read without a lock.
Load(q, c, s) ==
    /\ tx[q].pc = "new"
    /\ cart[c] # {}
    /\ Set(q, [NoTx EXCEPT !.pc = "loaded", !.cart = c, !.asked = s,
                   !.items = [line : cart[c], seller : {Nobody}]])

\* A marketplace checkout keeps the lines of the seller it was asked for.
Select(q) ==
    LET mine == {i \in tx[q].items :
                    tx[q].asked = Nobody \/ OfferOf(i.line) = tx[q].asked}
    IN  /\ tx[q].pc = "loaded"
        /\ Set(q, IF mine = {} THEN RolledBack
                  ELSE [tx[q] EXCEPT !.pc = "selected", !.items = mine])

\* The offers are attached again, to every line that was kept.
Priced(q) == {[line |-> i.line, seller |-> OfferOf(i.line)] : i \in tx[q].items}

Buyable(i) ==
    /\ i.seller # Nobody
    /\ i.line.quantity <= Available(i.line.variant, i.seller)

\* A marketplace order belongs to one seller.
OfOneSeller(S) == \A i, j \in S : i.seller = j.seller

\* Mutant of Validate: the seller is taken from the first line.
ValidateAnySeller(q) ==
    /\ tx[q].pc = "selected"
    /\ Set(q, IF \A i \in Priced(q) : Buyable(i)
              THEN [tx[q] EXCEPT !.pc = "reserving", !.items = Priced(q),
                                 !.todo = Priced(q)]
              ELSE RolledBack)

Validate(q) ==
    /\ tx[q].pc = "selected"
    /\ Set(q, IF /\ \A i \in Priced(q) : Buyable(i)
                 /\ tx[q].cart \in MarketCarts => OfOneSeller(Priced(q))
              THEN [tx[q] EXCEPT !.pc = "reserving", !.items = Priced(q),
                                 !.todo = Priced(q)]
              ELSE RolledBack)

\* Lines are reserved by id, each from its seller's oldest row.
NextItem(q) == CHOOSE i \in tx[q].todo : \A j \in tx[q].todo : i.line.id <= j.line.id

RowFor(i) ==
    LET rows == Stocked(i.line.variant, i.seller)
    IN  CHOOSE r \in rows : \A s \in rows : r <= s

\* Mutant of LockedByOther: the rows are read without a lock.
NeverLocked(q, r) == FALSE

LockedByOther(q, r) == \E p \in Requests \ {q} : r \in tx[p].locked

\* The next row request q locks waits for another transaction.
Waits(q, p) ==
    /\ p # q /\ tx[q].todo # {}
    /\ \/ tx[q].pc = "reserving" /\ RowFor(NextItem(q)) \in tx[p].locked
       \/ tx[q].pc = "cancelling" /\ \A i \in tx[q].todo : RowFor(i) \in tx[p].locked

\* Mutant of Reserve: the row is locked, but what validation saw is trusted.
ReserveBlind(q) ==
    /\ tx[q].pc = "reserving" /\ tx[q].todo # {}
    /\ LET i == NextItem(q)
       IN  /\ ~LockedByOther(q, RowFor(i))
           /\ Set(q, [tx[q] EXCEPT !.todo = @ \ {i},
                                   !.take[RowFor(i)] = @ + i.line.quantity,
                                   !.locked = @ \cup {RowFor(i)}])

\* Mutant of Reserve: a line without stock is tried again, the rows locked.
ReserveRetries(q) ==
    /\ tx[q].pc = "reserving" /\ tx[q].todo # {}
    /\ LET i == NextItem(q)
           r == RowFor(i)
       IN  /\ ~LockedByOther(q, r)
           /\ i.line.quantity <= Sellable[r] - reserved[r] - tx[q].take[r]
           /\ Set(q, [tx[q] EXCEPT !.todo = @ \ {i},
                                   !.take[r] = @ + i.line.quantity,
                                   !.locked = @ \cup {r}])

\* The row is locked, read afresh, and reserved from if it has enough.
Reserve(q) ==
    /\ tx[q].pc = "reserving" /\ tx[q].todo # {}
    /\ LET i == NextItem(q)
           r == RowFor(i)
       IN  /\ ~LockedByOther(q, r)
           /\ Set(q, IF i.line.quantity <= Sellable[r] - reserved[r] - tx[q].take[r]
                     THEN [tx[q] EXCEPT !.todo = @ \ {i},
                                        !.take[r] = @ + i.line.quantity,
                                        !.locked = @ \cup {r}]
                     ELSE RolledBack)

\* The order exists, and the lines that were read leave the basket.
Commit(q) ==
    LET sold == {i.line.id : i \in tx[q].items}
    IN  /\ tx[q].pc = "reserving" /\ tx[q].todo = {}
        /\ tx' = [tx EXCEPT ![q].pc = "ordered", ![q].locked = {}]
        /\ reserved' = [r \in Rows |-> reserved[r] + tx[q].take[r]]
        /\ cart' = [cart EXCEPT ![tx[q].cart] = {l \in @ : l.id \notin sold}]
        /\ UNCHANGED <<nextLine, edits, price>>

\* No payment channel, a charge or a delivery that cannot be calculated, a
\* lost connection: the transaction is rolled back wherever it is.
Abandon(q) ==
    /\ tx[q].pc \in Active
    /\ Set(q, RolledBack)

----------------------------------------------------------------------------
\* The transaction that cancels an order and gives its stock back.

Cancel(q) ==
    /\ tx[q].pc = "ordered"
    /\ Set(q, [tx[q] EXCEPT !.pc = "cancelling", !.todo = tx[q].items])

Release(q, i) ==
    /\ tx[q].pc = "cancelling"
    /\ ~LockedByOther(q, RowFor(i))
    /\ Set(q, [tx[q] EXCEPT !.todo = @ \ {i}, !.locked = @ \cup {RowFor(i)}])

Cancelled(q) ==
    /\ tx[q].pc = "cancelling" /\ tx[q].todo = {}
    /\ tx' = [tx EXCEPT ![q].pc = "cancelled", ![q].locked = {}]
    /\ reserved' = [r \in Rows |-> reserved[r] - tx[q].take[r]]
    /\ UNCHANGED <<cart, nextLine, edits, price>>

\* PostgreSQL ends one of the transactions that wait for each other.  An
\* order whose cancellation it ends stays an order.
Deadlocked(q) ==
    \E D \in SUBSET Requests :
        /\ q \in D
        /\ \A p \in D : /\ \E o \in D : Waits(p, o)
                        /\ \E o \in D : Waits(o, p)

BreakDeadlock(q) ==
    /\ Deadlocked(q)
    /\ Set(q, IF tx[q].pc = "cancelling"
              THEN [tx[q] EXCEPT !.pc = "ordered", !.todo = {}, !.locked = {}]
              ELSE RolledBack)

----------------------------------------------------------------------------
Edit ==
    \/ \E c \in Edited, n \in 1..MaxQuantity, s \in Sellers \cup {Nobody} :
          \/ \E v \in Variants : AddLine(c, v, n, s)
          \/ \E l \in cart[c] : ReadLine(c, l, n, s)
    \/ \E e \in edits : SaveLine(e)
    \/ \E c \in Edited : \E l \in cart[c] : RemoveLine(c, l)
    \/ \E v \in Variants, s \in Sellers, p \in 0..MaxPrice : Reprice(v, s, p)

\* What a request does by itself once it began.
Step(q) ==
    \/ Select(q) \/ Validate(q) \/ Reserve(q) \/ Commit(q)
    \/ (\E i \in tx[q].todo : Release(q, i)) \/ Cancelled(q)

Next ==
    \/ Edit
    \/ \E q \in Requests :
          \/ \E ask \in MayAsk[q] : Load(q, ask[1], ask[2])
          \/ Step(q) \/ Abandon(q) \/ Cancel(q) \/ BreakDeadlock(q)

\* A worker goes on with its request; PostgreSQL gives a row to those who
\* wait for it in turn, hence the strong fairness, and looks for deadlocks.
\* Nothing makes a customer edit, check out or cancel.
Fairness ==
    \A q \in Requests : SF_vars(Step(q)) /\ WF_vars(BreakDeadlock(q))

Spec == Init /\ [][Next]_vars /\ Fairness

----------------------------------------------------------------------------
\* Types, and the records a transaction leaves when it ends.
TxType ==
    [pc : Active \cup {"new", "ordered", "cancelling", "cancelled", "refused"},
     cart : Carts \cup {Nobody}, asked : Sellers \cup {Nobody},
     items : SUBSET Item, todo : SUBSET Item,
     take : [Rows -> Nat], locked : SUBSET Rows]

TypeOK ==
    /\ cart \in [Carts -> SUBSET Line]
    /\ nextLine \in Nat \ {0}
    /\ edits \subseteq [cart : Carts, line : Line]
    /\ price \in [Variants -> [Sellers -> 0..MaxPrice]]
    /\ reserved \in [Rows -> Int]
    /\ tx \in [Requests -> TxType]

\* domains/cart/checkout.py:257 and inventory_service.py:1398: whatever the
\* order in which the rows are locked, no row ever promises more than it
\* sells, counting what open transactions are about to promise.
NeverOversold ==
    \A r \in Rows :
        /\ reserved[r] <= Sellable[r]
        /\ \A q \in Requests :
              tx[q].pc = "reserving" => reserved[r] + tx[q].take[r] <= Sellable[r]

\* An order holds each of its lines in full in a row of the seller it was
\* priced from and nothing else; one basket of the marketplace never became
\* an order of two sellers, although offers change while it is checked out.
OrdersHeld ==
    \A q \in Requests : tx[q].pc \in {"ordered", "cancelling"} =>
        /\ tx[q].items # {}
        /\ tx[q].cart \in MarketCarts => OfOneSeller(tx[q].items)
        /\ \A r \in Rows :
              tx[q].take[r] =
                 LET here == {i \in tx[q].items : RowFor(i) = r}
                 IN  IF here = {} THEN 0 ELSE (CHOOSE i \in here : TRUE).line.quantity
        /\ \A i \in tx[q].items : /\ RowVariant[RowFor(i)] = i.line.variant
                                  /\ RowSeller[RowFor(i)] = i.seller

\* Seen from the stock, a checkout and a cancel are one step each.
held == [q \in Requests |->
            IF tx[q].pc \in {"ordered", "cancelling"} THEN tx[q].take ELSE Nothing]

Book == INSTANCE StockBook WITH Orders <- Requests, held <- held

BookSpec == Book!Spec

\* Every checkout that began ends, also when two of them lock the rows of the
\* same variants in opposite orders.
CheckoutEnds ==
    \A q \in Requests : tx[q].pc \in Active ~> tx[q].pc \in {"ordered", "refused"}

\* docs/api/commerce/order.md: a checkout "creates an order from the current
\* authenticated customer's cart, then empties the cart": what was ordered
\* cannot be ordered again.
LineOrderedOnce ==
    \A p, q \in Requests : p # q =>
        LET ids(o) == IF tx[o].pc = "ordered" THEN {i.line.id : i \in tx[o].items} ELSE {}
        IN  ids(p) \cap ids(q) = {}

=============================================================================
