--------------------------- MODULE CheckoutProofs ---------------------------
(***************************************************************************)
(* Checkout, for any number of baskets, requests, sellers and stock rows.  *)
(* The argument is two-phase locking: a transaction reserves from a row    *)
(* only after it locked the row and keeps the lock until it commits, so    *)
(* what it saw available is still available when its reservation counts.   *)
(***************************************************************************)
EXTENDS Checkout, FiniteSetTheorems, WellFoundedInduction, TLAPS

(***************************************************************************)
(* The inductive invariant.                                                *)
(***************************************************************************)

\* A row is locked by one transaction at a time.
Exclusive ==
    \A p, q \in Requests : p # q => tx[p].locked \cap tx[q].locked = {}

\* What a transaction reserves from is locked; only open ones lock rows.
LockedFirst ==
    \A q \in Requests :
        /\ tx[q].pc = "reserving" => \A r \in Rows : tx[q].take[r] > 0 => r \in tx[q].locked
        /\ tx[q].pc \notin {"reserving", "cancelling"} => tx[q].locked = {}
        /\ tx[q].pc \in {"new", "loaded", "selected", "refused"} => tx[q].take = Nothing

\* Every item of an order was validated against a row of its seller.
Stored ==
    \A q \in Requests : tx[q].pc \in {"reserving", "ordered", "cancelling"} =>
        /\ tx[q].todo \subseteq tx[q].items
        /\ \A i \in tx[q].items : Stocked(i.line.variant, i.seller) # {}

IInv == TypeOK /\ Exclusive /\ LockedFirst /\ Stored /\ NeverOversold

(***************************************************************************)
(* Types.                                                                  *)
(***************************************************************************)

\* A nonempty set of row ids has a least element.
LEMMA LeastRow ==
    ASSUME NEW S, S \subseteq Nat, S # {}
    PROVE  \E r \in S : \A s \in S : r <= s
<1>1. PICK r \in S : \A s \in S : ~ (<<s, r>> \in OpToRel(<, Nat))
  BY NatLessThanWellFounded, WFMin
<1>2. ASSUME NEW s \in S PROVE r <= s
  <2>1. s \in Nat /\ r \in Nat
    OBVIOUS
  <2>2. ~ (s < r)
    BY <1>1, <2>1 DEF OpToRel
  <2> QED BY <2>1, <2>2
<1> QED BY <1>2

\* A validated item is reserved from a row of the variant and of the seller.
LEMMA RowForType ==
    ASSUME NEW i, Stocked(i.line.variant, i.seller) # {}
    PROVE  /\ RowFor(i) \in Rows
           /\ RowVariant[RowFor(i)] = i.line.variant
           /\ RowSeller[RowFor(i)] = i.seller
<1>. DEFINE S == Stocked(i.line.variant, i.seller)
<1>1. S \subseteq Nat /\ S # {}
  BY CheckoutAssumption DEF Stocked
<1>2. \E r \in S : \A s \in S : r <= s
  BY <1>1, LeastRow
<1>3. RowFor(i) \in S
  BY <1>2 DEF RowFor
<1> QED BY <1>3 DEF Stocked

\* The next item of a set of items is one of them.
LEMMA NextItemType ==
    ASSUME TypeOK, NEW q \in Requests, tx[q].todo # {}
    PROVE  NextItem(q) \in tx[q].todo
<1>. DEFINE ids == {i.line.id : i \in tx[q].todo}
<1>1. tx[q].todo \subseteq Item
  BY DEF TypeOK, TxType
<1>2. ids \subseteq Nat /\ ids # {}
  BY <1>1, CheckoutAssumption DEF Item, Line
<1>3. PICK n \in ids : \A m \in ids : n <= m
  BY <1>2, LeastRow
<1>4. PICK i \in tx[q].todo : n = i.line.id
  OBVIOUS
<1>5. \A j \in tx[q].todo : i.line.id <= j.line.id
  BY <1>3, <1>4
<1> QED BY <1>5 DEF NextItem

\* The order of the offers has a first: a variant that is offered has a
\* best offer.
LEMMA BestOfferType ==
    ASSUME TypeOK, NEW v \in Variants
    PROVE  /\ BestOffer(v) \in Offered(v) \cup {Nobody}
           /\ Offered(v) # {} => BestOffer(v) \in Offered(v)
<1>1. CASE Offered(v) = {}
  BY <1>1 DEF BestOffer
<1>2. CASE Offered(v) # {}
  <2>. DEFINE Here == {s \in Offered(v) : Available(v, s) > 0}
              Top == IF Here # {} THEN Here ELSE Offered(v)
              Prices == {price[v][s] : s \in Top}
  <2>1. /\ Top \subseteq Offered(v) /\ Top # {}
        /\ Offered(v) \subseteq Sellers /\ Sellers \subseteq Nat
    BY <1>2, CheckoutAssumption DEF Offered
  <2>2. Prices \subseteq Nat /\ Prices # {}
    <3>1. \A s \in Sellers : price[v][s] \in Nat
      BY CheckoutAssumption DEF TypeOK
    <3>. HIDE DEF Top
    <3> QED BY <2>1, <3>1
  <2>3. PICK p \in Prices : \A x \in Prices : p <= x
    BY <2>2, LeastRow
  <2>. DEFINE Cheap == {s \in Top : price[v][s] = p}
  <2>4. Cheap \subseteq Nat /\ Cheap # {}
    BY <2>1, <2>3
  <2>5. PICK b \in Cheap : \A s \in Cheap : b <= s
    BY <2>4, LeastRow
  <2>6. ASSUME NEW t \in Offered(v) \ {b} PROVE ShownBefore(v, b, t)
    <3>1. CASE t \in Top
      <4>1. (Available(v, b) > 0) = (Available(v, t) > 0)
        BY <3>1, <2>1
      <4>2. price[v][b] = p /\ p <= price[v][t] /\ price[v][t] \in Nat /\ p \in Nat
        BY <3>1, <2>2, <2>3
      <4>3. price[v][t] = p => b < t
        BY <3>1, <2>1, <2>4, <2>5
      <4> QED BY <4>1, <4>2, <4>3 DEF ShownBefore
    <3>2. CASE t \notin Top
      <4>1. Here # {} /\ b \in Here /\ t \notin Here
        BY <3>2
      <4>2. Available(v, b) > 0 /\ ~ (Available(v, t) > 0)
        BY <4>1
      <4> QED BY <4>2 DEF ShownBefore
    <3> QED BY <3>1, <3>2
  <2>7. BestOffer(v) \in Offered(v)
    BY <1>2, <2>1, <2>6 DEF BestOffer
  <2> QED BY <2>7
<1> QED BY <1>1, <1>2

\* The seller a line is priced from offers the variant, or there is none.
LEMMA OfferType ==
    ASSUME TypeOK, NEW l \in Line
    PROVE  OfferOf(l) \in Sellers \cup {Nobody}
<1>1. l.variant \in Variants
  BY DEF Line
<1> QED BY <1>1, BestOfferType DEF OfferOf, Offered

\* A transaction that is rolled back is a transaction that did nothing.
LEMMA RolledBackType == RolledBack \in TxType /\ NoTx \in TxType
BY DEF RolledBack, NoTx, TxType, Nothing, Active

\* A record put in place of a transaction's leaves the table typed.
LEMMA SetType ==
    ASSUME TypeOK, NEW q \in Requests, NEW t \in TxType, Set(q, t)
    PROVE  TypeOK'
BY DEF TypeOK, Set

(***************************************************************************)
(* Each step keeps the invariant.                                          *)
(***************************************************************************)

LEMMA InitInv == Init => IInv
<1>. SUFFICES ASSUME Init PROVE IInv
  OBVIOUS
<1>. USE DEF Init
<1>1. TypeOK
  <2>1. nextLine \in Nat \ {0}
    BY StartAssumption, FS_CardinalityType
  <2>2. tx \in [Requests -> TxType]
    BY RolledBackType
  <2>3. /\ cart \in [Carts -> SUBSET Line]
        /\ edits \subseteq [cart : Carts, line : Line]
        /\ reserved \in [Rows -> Int]
    BY StartAssumption DEF Nothing
  <2>4. price \in [Variants -> [Sellers -> 0..MaxPrice]]
    BY CheckoutAssumption
  <2> QED BY <2>1, <2>2, <2>3, <2>4 DEF TypeOK
<1>2. Exclusive /\ LockedFirst /\ Stored
  BY DEF Exclusive, LockedFirst, Stored, NoTx, Nothing
<1>3. NeverOversold
  BY CheckoutAssumption DEF NeverOversold, NoTx, Nothing
<1> QED BY <1>1, <1>2, <1>3 DEF IInv

\* Editing baskets and offers touches neither stock nor transactions.
LEMMA EditType ==
    ASSUME TypeOK, Edit
    PROVE  TypeOK' /\ UNCHANGED <<reserved, tx>>
<1>1. ASSUME NEW c \in Edited, NEW n \in 1..MaxQuantity,
             NEW s \in Sellers \cup {Nobody}, NEW v \in Variants, AddLine(c, v, n, s)
      PROVE  TypeOK' /\ UNCHANGED <<reserved, tx>>
  <2>1. [id |-> nextLine, variant |-> v, quantity |-> n, offer |-> s] \in Line
    BY <1>1, CheckoutAssumption DEF TypeOK, AddLine, Line
  <2>2. c \in Carts /\ cart[c] \in SUBSET Line
    BY CheckoutAssumption DEF TypeOK
  <2>3. cart' \in [Carts -> SUBSET Line]
    BY <1>1, <2>1, <2>2 DEF TypeOK, AddLine
  <2>4. nextLine' \in Nat \ {0}
    BY <1>1 DEF TypeOK, AddLine
  <2> QED BY <1>1, <2>3, <2>4 DEF TypeOK, AddLine
<1>2. ASSUME NEW c \in Edited, NEW n \in 1..MaxQuantity,
             NEW s \in Sellers \cup {Nobody}, NEW l \in cart[c], ReadLine(c, l, n, s)
      PROVE  TypeOK' /\ UNCHANGED <<reserved, tx>>
  <2>1. c \in Carts /\ l \in Line
    BY CheckoutAssumption DEF TypeOK
  <2>2. [l EXCEPT !.quantity = n, !.offer = s] \in Line
    BY <2>1 DEF Line
  <2> QED BY <1>2, <2>1, <2>2 DEF TypeOK, ReadLine
<1>3. ASSUME NEW e \in edits, SaveLine(e)
      PROVE  TypeOK' /\ UNCHANGED <<reserved, tx>>
  <2>1. e.cart \in Carts /\ e.line \in Line
    BY DEF TypeOK
  <2> QED BY <1>3, <2>1 DEF TypeOK, SaveLine
<1>4. ASSUME NEW c \in Edited, NEW l \in cart[c], RemoveLine(c, l)
      PROVE  TypeOK' /\ UNCHANGED <<reserved, tx>>
  BY <1>4 DEF TypeOK, RemoveLine
<1>5. ASSUME NEW v \in Variants, NEW s \in Sellers, NEW p \in 0..MaxPrice,
             Reprice(v, s, p)
      PROVE  TypeOK' /\ UNCHANGED <<reserved, tx>>
  BY <1>5 DEF TypeOK, Reprice
<1> QED BY <1>1, <1>2, <1>3, <1>4, <1>5 DEF Edit

\* A transaction that is put back, or that has not reserved yet.
Idle(t) ==
    /\ t \in TxType
    /\ t.pc \in {"new", "loaded", "selected", "refused"}
    /\ t.take = Nothing /\ t.locked = {}

LEMMA IdleInv ==
    ASSUME IInv, NEW q \in Requests, NEW t, Idle(t), Set(q, t)
    PROVE  IInv'
<1>1. TypeOK'
  BY SetType DEF IInv, Idle
<1>2. tx' = [tx EXCEPT ![q] = t] /\ reserved' = reserved /\ tx \in [Requests -> TxType]
  BY DEF Set, IInv, TypeOK
<1>3. Exclusive' /\ LockedFirst' /\ Stored'
  BY <1>2 DEF IInv, Exclusive, LockedFirst, Stored, Idle
<1>4. NeverOversold'
  BY <1>2 DEF IInv, NeverOversold, Idle
<1> QED BY <1>1, <1>3, <1>4 DEF IInv

\* Rolling back is such a step.
LEMMA RolledBackIdle == Idle(RolledBack)
BY RolledBackType DEF Idle, RolledBack, NoTx

LEMMA LoadInv ==
    ASSUME IInv, NEW q \in Requests, NEW ask \in MayAsk[q], Load(q, ask[1], ask[2])
    PROVE  IInv'
<1>. DEFINE c == ask[1]
            s == ask[2]
            t == [NoTx EXCEPT !.pc = "loaded", !.cart = c, !.asked = s,
                     !.items = [line : cart[c], seller : {Nobody}]]
<1>1. c \in Carts /\ s \in Sellers \cup {Nobody}
  BY CheckoutAssumption
<1>2. [line : cart[c], seller : {Nobody}] \subseteq Item
  BY <1>1 DEF IInv, TypeOK, Item
<1>3. Idle(t)
  BY <1>1, <1>2, RolledBackType DEF Idle, NoTx, TxType, Active, Nothing
<1> QED BY <1>3, IdleInv DEF Load

LEMMA SelectInv ==
    ASSUME IInv, NEW q \in Requests, Select(q)
    PROVE  IInv'
<1>. DEFINE mine == {i \in tx[q].items :
                        tx[q].asked = Nobody \/ OfferOf(i.line) = tx[q].asked}
            t == [tx[q] EXCEPT !.pc = "selected", !.items = mine]
<1>1. tx[q] \in TxType /\ tx[q].pc = "loaded"
  BY DEF IInv, TypeOK, Select
<1>2. tx[q].take = Nothing /\ tx[q].locked = {}
  BY <1>1 DEF IInv, LockedFirst
<1>3. mine \subseteq Item
  BY <1>1 DEF TxType
<1>. HIDE DEF mine
<1>4. Idle(t)
  BY <1>1, <1>2, <1>3 DEF Idle, TxType, Active
<1>5. Set(q, IF mine = {} THEN RolledBack ELSE t)
  BY DEF Select, mine
<1> QED BY <1>4, <1>5, RolledBackIdle, IdleInv

LEMMA ValidateInv ==
    ASSUME IInv, NEW q \in Requests, Validate(q)
    PROVE  IInv'
<1>. DEFINE t == [tx[q] EXCEPT !.pc = "reserving", !.items = Priced(q), !.todo = Priced(q)]
<1>1. CASE Set(q, RolledBack)
  BY <1>1, RolledBackIdle, IdleInv
<1>2. CASE Set(q, t) /\ \A i \in Priced(q) : Buyable(i)
  <2>1. tx[q] \in TxType /\ tx[q].pc = "selected" /\ TypeOK
    BY DEF IInv, TypeOK, Validate
  <2>2. tx[q].take = Nothing /\ tx[q].locked = {}
    BY <2>1 DEF IInv, LockedFirst
  <2>3. Priced(q) \subseteq Item
    <3>1. \A i \in tx[q].items : i.line \in Line
      BY <2>1 DEF TxType, Item
    <3>2. \A i \in tx[q].items : OfferOf(i.line) \in Sellers \cup {Nobody}
      BY <2>1, <3>1, OfferType
    <3> QED BY <3>1, <3>2 DEF Priced, Item
  <2>4. \A i \in Priced(q) : Stocked(i.line.variant, i.seller) # {}
    <3>. SUFFICES ASSUME NEW i \in Priced(q), Stocked(i.line.variant, i.seller) = {}
                  PROVE  FALSE
      OBVIOUS
    <3>1. Available(i.line.variant, i.seller) = 0
      BY DEF Available
    <3>2. i.line.quantity \in 1..MaxQuantity
      BY <2>3 DEF Item, Line
    <3> QED BY <1>2, <3>1, <3>2, CheckoutAssumption DEF Buyable
  <2>5. t \in TxType
    BY <2>1, <2>3 DEF TxType, Active
  <2>6. TypeOK'
    BY <1>2, <2>1, <2>5, SetType
  <2>7. tx' = [tx EXCEPT ![q] = t] /\ reserved' = reserved /\ tx \in [Requests -> TxType]
    BY <1>2, <2>1 DEF Set, TypeOK
  <2>8. /\ t.pc = "reserving" /\ t.take = Nothing /\ t.locked = {}
        /\ t.items = Priced(q) /\ t.todo = Priced(q)
    BY <2>1, <2>2 DEF TxType
  <2>. HIDE DEF t
  <2>9. Exclusive' /\ LockedFirst' /\ Stored'
    BY <2>4, <2>7, <2>8 DEF IInv, Exclusive, LockedFirst, Stored, Nothing
  <2>10. NeverOversold'
    BY <2>1, <2>7, <2>8 DEF IInv, TypeOK, NeverOversold, Nothing
  <2> QED BY <2>6, <2>9, <2>10 DEF IInv
<1> QED BY <1>1, <1>2 DEF Validate

LEMMA ReserveInv ==
    ASSUME IInv, NEW q \in Requests, Reserve(q)
    PROVE  IInv'
<1>. DEFINE i == NextItem(q)
            r == RowFor(i)
            t == [tx[q] EXCEPT !.todo = @ \ {i}, !.take[r] = @ + i.line.quantity,
                               !.locked = @ \cup {r}]
<1>1. /\ tx[q].pc = "reserving" /\ tx[q].todo # {} /\ ~ LockedByOther(q, r)
      /\ tx[q] \in TxType /\ tx \in [Requests -> TxType] /\ TypeOK
  BY DEF Reserve, IInv, TypeOK
<1>2. CASE Set(q, RolledBack)
  BY <1>2, RolledBackIdle, IdleInv
<1>3. CASE Set(q, t) /\ i.line.quantity <= Sellable[r] - reserved[r] - tx[q].take[r]
  <2>1. i \in tx[q].todo
    BY <1>1, NextItemType
  <2>2. i \in tx[q].items /\ i \in Item /\ Stocked(i.line.variant, i.seller) # {}
    BY <1>1, <2>1 DEF IInv, Stored, TxType
  <2>3. r \in Rows
    BY <2>2, RowForType
  <2>4. i.line.quantity \in Nat
    BY <2>2, CheckoutAssumption DEF Item, Line
  <2>. HIDE DEF i, r
  <2>5. /\ tx[q].take \in [Rows -> Nat] /\ tx[q].locked \subseteq Rows
        /\ tx[q].todo \subseteq Item
    BY <1>1 DEF TxType
  <2>. DEFINE n == tx[q].take[r] + i.line.quantity
              mytake == [tx[q].take EXCEPT ![r] = n]
  <2>6. n \in Nat /\ mytake \in [Rows -> Nat]
    BY <2>3, <2>4, <2>5
  <2>7. t = [tx[q] EXCEPT !.todo = tx[q].todo \ {i}, !.take = mytake,
                          !.locked = tx[q].locked \cup {r}]
    BY <1>1 DEF TxType
  <2>8. /\ t \in TxType /\ t.pc = "reserving" /\ t.take = mytake
        /\ t.locked = tx[q].locked \cup {r} /\ t.todo = tx[q].todo \ {i}
        /\ t.items = tx[q].items
    BY <1>1, <2>3, <2>5, <2>6, <2>7 DEF TxType
  <2>. HIDE DEF t
  <2>9. TypeOK'
    BY <1>1, <1>3, <2>8, SetType
  <2>10. tx' = [tx EXCEPT ![q] = t] /\ reserved' = reserved
    BY <1>3 DEF Set
  <2>11. Exclusive'
    BY <1>1, <2>8, <2>10 DEF IInv, Exclusive, LockedByOther
  <2>12. LockedFirst' /\ Stored'
    <3>1. \A x \in Rows : x # r => mytake[x] = tx[q].take[x]
      BY <2>5
    <3>. HIDE DEF mytake
    <3>2. \A x \in Rows : t.take[x] > 0 => x \in t.locked
      BY <1>1, <2>8, <3>1 DEF IInv, LockedFirst
    <3>3. LockedFirst'
      BY <1>1, <2>8, <2>10, <3>2 DEF IInv, LockedFirst
    <3>4. Stored'
      BY <1>1, <2>8, <2>10 DEF IInv, Stored
    <3> QED BY <3>3, <3>4
  <2>13. NeverOversold'
    <3>1. reserved \in [Rows -> Int] /\ Sellable \in [Rows -> Nat]
      BY <1>1, CheckoutAssumption DEF TypeOK
    <3>2. reserved[r] + n <= Sellable[r]
      BY <1>3, <2>3, <2>4, <2>5, <3>1
    <3>3. \A x \in Rows : x # r => mytake[x] = tx[q].take[x]
      BY <2>5
    <3>4. mytake[r] = n
      BY <2>3, <2>5
    <3>. HIDE DEF mytake, n
    <3>5. \A x \in Rows : reserved[x] + mytake[x] <= Sellable[x]
      BY <1>1, <3>2, <3>3, <3>4 DEF IInv, NeverOversold
    <3> QED BY <1>1, <2>8, <2>10, <3>5 DEF IInv, NeverOversold
  <2> QED BY <2>9, <2>11, <2>12, <2>13 DEF IInv
<1> QED BY <1>2, <1>3 DEF Reserve

\* The commit counts what was reserved under locks it still has: another open
\* transaction that reserved from a row this one took from would have it locked.
LEMMA CommitInv ==
    ASSUME IInv, NEW q \in Requests, Commit(q)
    PROVE  IInv'
<1>1. /\ tx[q].pc = "reserving" /\ tx[q].todo = {}
      /\ tx' = [tx EXCEPT ![q].pc = "ordered", ![q].locked = {}]
      /\ reserved' = [r \in Rows |-> reserved[r] + tx[q].take[r]]
      /\ UNCHANGED <<nextLine, edits, price>>
  BY DEF Commit
<1>2. /\ TypeOK /\ tx[q] \in TxType /\ tx \in [Requests -> TxType]
      /\ reserved \in [Rows -> Int] /\ tx[q].take \in [Rows -> Nat]
  BY DEF IInv, TypeOK, TxType
<1>. DEFINE t == [tx[q] EXCEPT !.pc = "ordered", !.locked = {}]
<1>3. /\ t \in TxType /\ t.pc = "ordered" /\ t.take = tx[q].take /\ t.locked = {}
      /\ t.todo = tx[q].todo /\ t.items = tx[q].items
      /\ tx' = [tx EXCEPT ![q] = t]
  BY <1>1, <1>2 DEF TxType
<1>. HIDE DEF t
<1>4. TypeOK'
  <2>1. cart' \in [Carts -> SUBSET Line]
    BY <1>2 DEF Commit, TypeOK
  <2>2. reserved' \in [Rows -> Int]
    BY <1>1, <1>2
  <2>3. tx' \in [Requests -> TxType]
    BY <1>2, <1>3
  <2> QED BY <1>1, <1>2, <2>1, <2>2, <2>3 DEF TypeOK
<1>5. Exclusive'
  BY <1>2, <1>3 DEF IInv, Exclusive
<1>6. LockedFirst' /\ Stored'
  BY <1>1, <1>2, <1>3 DEF IInv, LockedFirst, Stored
<1>7. NeverOversold'
  <2>. SUFFICES ASSUME NEW r \in Rows
                PROVE  /\ reserved'[r] <= Sellable[r]
                       /\ \A p \in Requests : tx'[p].pc = "reserving" =>
                             reserved'[r] + tx'[p].take[r] <= Sellable[r]
    BY DEF NeverOversold
  <2>1. reserved'[r] = reserved[r] + tx[q].take[r] /\ reserved'[r] <= Sellable[r]
    BY <1>1 DEF IInv, NeverOversold
  <2>2. ASSUME NEW p \in Requests, tx'[p].pc = "reserving"
        PROVE  reserved'[r] + tx'[p].take[r] <= Sellable[r]
    <3>1. p # q /\ tx'[p] = tx[p] /\ tx[p].pc = "reserving"
      BY <1>2, <1>3, <2>2
    <3>2. tx[p].take[r] \in Nat /\ tx[q].take[r] \in Nat /\ reserved[r] \in Int
          /\ Sellable[r] \in Nat
      BY <1>2, CheckoutAssumption DEF TxType
    <3>3. tx[p].take[r] = 0 \/ tx[q].take[r] = 0
      BY <1>1, <3>1, <3>2 DEF IInv, LockedFirst, Exclusive
    <3>4. reserved[r] + tx[p].take[r] <= Sellable[r]
      BY <3>1 DEF IInv, NeverOversold
    <3> QED BY <2>1, <3>1, <3>2, <3>3, <3>4
  <2> QED BY <2>1, <2>2
<1> QED BY <1>4, <1>5, <1>6, <1>7 DEF IInv

\* A step of a cancellation that keeps its order: new locks, or none.
LEMMA OrderInv ==
    ASSUME IInv, NEW q \in Requests, NEW t \in TxType, Set(q, t),
           tx[q].pc \in {"ordered", "cancelling"}, t.pc \in {"ordered", "cancelling"},
           t.pc = "ordered" => t.locked = {}, t.items = tx[q].items,
           t.todo \subseteq tx[q].items,
           \A p \in Requests \ {q} : t.locked \cap tx[p].locked = {}
    PROVE  IInv'
<1>1. TypeOK'
  BY SetType DEF IInv
<1>2. tx' = [tx EXCEPT ![q] = t] /\ reserved' = reserved /\ tx \in [Requests -> TxType]
  BY DEF Set, IInv, TypeOK
<1>3. Exclusive'
  BY <1>2 DEF IInv, Exclusive
<1>4. LockedFirst' /\ Stored'
  BY <1>2 DEF IInv, LockedFirst, Stored
<1>5. NeverOversold'
  BY <1>2 DEF IInv, NeverOversold
<1> QED BY <1>1, <1>3, <1>4, <1>5 DEF IInv

LEMMA CancelInv ==
    ASSUME IInv, NEW q \in Requests, Cancel(q)
    PROVE  IInv'
<1>. DEFINE t == [tx[q] EXCEPT !.pc = "cancelling", !.todo = tx[q].items]
<1>1. tx[q] \in TxType /\ tx[q].pc = "ordered" /\ Set(q, t)
  BY DEF IInv, TypeOK, Cancel
<1>2. tx[q].locked = {}
  BY <1>1 DEF IInv, LockedFirst
<1>3. /\ t \in TxType /\ t.pc = "cancelling" /\ t.locked = {}
      /\ t.items = tx[q].items /\ t.todo = tx[q].items
  BY <1>1, <1>2 DEF TxType
<1> QED BY <1>1, <1>3, OrderInv

LEMMA ReleaseInv ==
    ASSUME IInv, NEW q \in Requests, NEW i \in tx[q].todo, Release(q, i)
    PROVE  IInv'
<1>. DEFINE t == [tx[q] EXCEPT !.todo = @ \ {i}, !.locked = @ \cup {RowFor(i)}]
<1>1. /\ tx[q] \in TxType /\ tx[q].pc = "cancelling" /\ Set(q, t)
      /\ ~ LockedByOther(q, RowFor(i))
  BY DEF IInv, TypeOK, Release
<1>2. tx[q].todo \subseteq tx[q].items /\ Stocked(i.line.variant, i.seller) # {}
  BY <1>1 DEF IInv, Stored
<1>3. RowFor(i) \in Rows
  BY <1>2, RowForType
<1>4. /\ t \in TxType /\ t.pc = "cancelling" /\ t.items = tx[q].items
      /\ t.locked = tx[q].locked \cup {RowFor(i)} /\ t.todo = tx[q].todo \ {i}
  BY <1>1, <1>3 DEF TxType
<1>5. \A p \in Requests \ {q} : t.locked \cap tx[p].locked = {}
  BY <1>1, <1>4 DEF IInv, Exclusive, LockedByOther
<1>. HIDE DEF t
<1> QED BY <1>1, <1>2, <1>4, <1>5, OrderInv

LEMMA CancelledInv ==
    ASSUME IInv, NEW q \in Requests, Cancelled(q)
    PROVE  IInv'
<1>1. /\ tx[q].pc = "cancelling"
      /\ tx' = [tx EXCEPT ![q].pc = "cancelled", ![q].locked = {}]
      /\ reserved' = [r \in Rows |-> reserved[r] - tx[q].take[r]]
      /\ UNCHANGED <<cart, nextLine, edits, price>>
  BY DEF Cancelled
<1>2. /\ TypeOK /\ tx[q] \in TxType /\ tx \in [Requests -> TxType]
      /\ reserved \in [Rows -> Int] /\ tx[q].take \in [Rows -> Nat]
  BY DEF IInv, TypeOK, TxType
<1>. DEFINE t == [tx[q] EXCEPT !.pc = "cancelled", !.locked = {}]
<1>3. /\ t \in TxType /\ t.pc = "cancelled" /\ t.locked = {}
      /\ tx' = [tx EXCEPT ![q] = t]
  BY <1>1, <1>2 DEF TxType
<1>. HIDE DEF t
<1>4. TypeOK'
  <2>1. reserved' \in [Rows -> Int]
    BY <1>1, <1>2
  <2>2. tx' \in [Requests -> TxType]
    BY <1>2, <1>3
  <2> QED BY <1>1, <1>2, <2>1, <2>2 DEF TypeOK
<1>5. Exclusive' /\ LockedFirst' /\ Stored'
  BY <1>2, <1>3 DEF IInv, Exclusive, LockedFirst, Stored
<1>6. NeverOversold'
  <2>. SUFFICES ASSUME NEW r \in Rows
                PROVE  /\ reserved'[r] <= Sellable[r]
                       /\ \A p \in Requests : tx'[p].pc = "reserving" =>
                             reserved'[r] + tx'[p].take[r] <= Sellable[r]
    BY DEF NeverOversold
  <2>1. /\ reserved'[r] \in Int /\ reserved'[r] <= reserved[r] /\ reserved[r] \in Int
        /\ Sellable[r] \in Nat /\ reserved[r] <= Sellable[r]
    BY <1>1, <1>2, CheckoutAssumption DEF IInv, NeverOversold
  <2>2. ASSUME NEW p \in Requests, tx'[p].pc = "reserving"
        PROVE  reserved'[r] + tx'[p].take[r] <= Sellable[r]
    <3>1. p # q /\ tx'[p] = tx[p] /\ tx[p].pc = "reserving"
      BY <1>2, <1>3, <2>2
    <3>2. tx[p].take[r] \in Nat
      BY <1>2 DEF TxType
    <3>3. reserved[r] + tx[p].take[r] <= Sellable[r]
      BY <3>1 DEF IInv, NeverOversold
    <3> QED BY <2>1, <3>1, <3>2, <3>3
  <2> QED BY <2>1, <2>2
<1> QED BY <1>4, <1>5, <1>6 DEF IInv

LEMMA BreakDeadlockInv ==
    ASSUME IInv, NEW q \in Requests, BreakDeadlock(q)
    PROVE  IInv'
<1>. DEFINE t == [tx[q] EXCEPT !.pc = "ordered", !.todo = {}, !.locked = {}]
<1>1. CASE Set(q, RolledBack)
  BY <1>1, RolledBackIdle, IdleInv
<1>2. CASE Set(q, t) /\ tx[q].pc = "cancelling"
  <2>1. tx[q] \in TxType
    BY DEF IInv, TypeOK
  <2>2. /\ t \in TxType /\ t.pc = "ordered" /\ t.locked = {}
        /\ t.items = tx[q].items /\ t.todo = {}
    BY <2>1 DEF TxType
  <2>. HIDE DEF t
  <2> QED BY <1>2, <2>2, OrderInv
<1> QED BY <1>1, <1>2 DEF BreakDeadlock

\* No step of anybody breaks the invariant.
LEMMA NextInv == IInv /\ [Next]_vars => IInv'
<1>. SUFFICES ASSUME IInv, [Next]_vars PROVE IInv'
  OBVIOUS
<1>1. CASE UNCHANGED vars
  <2>1. tx' = tx /\ reserved' = reserved /\ TypeOK'
    BY <1>1 DEF vars, IInv, TypeOK
  <2> QED BY <2>1 DEF IInv, Exclusive, LockedFirst, Stored, NeverOversold
<1>2. CASE Edit
  <2>1. TypeOK' /\ tx' = tx /\ reserved' = reserved
    BY <1>2, EditType DEF IInv
  <2> QED BY <2>1 DEF IInv, Exclusive, LockedFirst, Stored, NeverOversold
<1>3. ASSUME NEW q \in Requests, Step(q) PROVE IInv'
  BY <1>3, SelectInv, ValidateInv, ReserveInv, CommitInv, ReleaseInv, CancelledInv DEF Step
<1>4. ASSUME NEW q \in Requests, Abandon(q) PROVE IInv'
  BY <1>4, RolledBackIdle, IdleInv DEF Abandon
<1> QED BY <1>1, <1>2, <1>3, <1>4, LoadInv, CancelInv, BreakDeadlockInv DEF Next

\* The invariant of two-phase locking: who has which rows locked, and what
\* open transactions may add to them.
THEOREM LockingInvariance == Spec => []IInv
BY InitInv, NextInv, PTL DEF Spec

\* Transactions, baskets and edits stay what they are.
THEOREM CheckoutTyped == Spec => []TypeOK
BY LockingInvariance, PTL DEF IInv

\* No order of locks, no deadlock and no stale validation makes a row promise
\* more than it sells.
THEOREM RowsNeverOversold == Spec => []NeverOversold
BY LockingInvariance, PTL DEF IInv

(***************************************************************************)
(* Seen from the stock a checkout is one step.                             *)
(***************************************************************************)

LEMMA InitBook == Init => Book!Init
BY DEF Init, Book!Init, held, NoTx, Book!Nothing, Nothing

\* Before its commit and after its cancellation nobody sees a transaction.
LEMMA HiddenStep ==
    ASSUME IInv, NEW q \in Requests, NEW t \in TxType, Set(q, t),
           \/ /\ tx[q].pc \notin {"ordered", "cancelling"}
              /\ t.pc \notin {"ordered", "cancelling"}
           \/ /\ tx[q].pc \in {"ordered", "cancelling"}
              /\ t.pc \in {"ordered", "cancelling"}
              /\ t.take = tx[q].take
    PROVE  UNCHANGED <<reserved, held>>
<1>1. tx' = [tx EXCEPT ![q] = t] /\ reserved' = reserved /\ tx \in [Requests -> TxType]
  BY DEF Set, IInv, TypeOK
<1>2. \A p \in Requests : held'[p] = held[p]
  BY <1>1 DEF held
<1>3. held' = [p \in Requests |-> held'[p]] /\ held = [p \in Requests |-> held[p]]
  BY DEF held
<1> QED BY <1>1, <1>2, <1>3

\* Committing an order places it; the end of a cancellation gives it back.
LEMMA CommitPlaces ==
    ASSUME IInv, NEW q \in Requests, Commit(q)
    PROVE  Book!Place(q)
<1>1. /\ tx[q].pc = "reserving"
      /\ tx' = [tx EXCEPT ![q].pc = "ordered", ![q].locked = {}]
      /\ reserved' = [r \in Rows |-> reserved[r] + tx[q].take[r]]
  BY DEF Commit
<1>2. /\ tx[q] \in TxType /\ tx \in [Requests -> TxType]
      /\ tx[q].take \in [Rows -> Nat]
  BY DEF IInv, TypeOK, TxType
<1>3. /\ held[q] = Nothing
      /\ held'[q] = tx[q].take
      /\ \A p \in Requests \ {q} : held'[p] = held[p]
  BY <1>1, <1>2 DEF held, TxType
<1>4. held' = [held EXCEPT ![q] = held'[q]]
  <2>1. held' = [p \in Requests |-> held'[p]] /\ held = [p \in Requests |-> held[p]]
    BY DEF held
  <2> QED BY <1>3, <2>1
<1>5. \A r \in Rows : reserved[r] + tx[q].take[r] <= Sellable[r]
  BY <1>1 DEF IInv, NeverOversold
<1> QED BY <1>1, <1>2, <1>3, <1>4, <1>5 DEF Book!Place, Book!Nothing, Nothing

LEMMA CancelledGivesBack ==
    ASSUME IInv, NEW q \in Requests, Cancelled(q)
    PROVE  Book!GiveBack(q)
<1>1. /\ tx[q].pc = "cancelling"
      /\ tx' = [tx EXCEPT ![q].pc = "cancelled", ![q].locked = {}]
      /\ reserved' = [r \in Rows |-> reserved[r] - tx[q].take[r]]
  BY DEF Cancelled
<1>2. tx[q] \in TxType /\ tx \in [Requests -> TxType]
  BY DEF IInv, TypeOK
<1>3. /\ held[q] = tx[q].take
      /\ held'[q] = Nothing
      /\ \A p \in Requests \ {q} : held'[p] = held[p]
  BY <1>1, <1>2 DEF held, TxType
<1>4. held' = [held EXCEPT ![q] = Nothing]
  <2>1. held' = [p \in Requests |-> held'[p]] /\ held = [p \in Requests |-> held[p]]
    BY DEF held
  <2> QED BY <1>3, <2>1
<1> QED BY <1>1, <1>3, <1>4 DEF Book!GiveBack, Book!Nothing, Nothing

LEMMA NextBook == IInv /\ [Next]_vars => [Book!Next]_<<reserved, held>>
<1>. SUFFICES ASSUME IInv, [Next]_vars PROVE [Book!Next]_<<reserved, held>>
  OBVIOUS
<1>0. /\ tx \in [Requests -> TxType]
      /\ RolledBack \in TxType /\ RolledBack.pc = "refused"
  BY RolledBackIdle DEF IInv, TypeOK, Idle, RolledBack, NoTx
<1>1. CASE UNCHANGED vars
  BY <1>1 DEF vars, held
<1>2. CASE Edit
  <2>1. UNCHANGED <<reserved, tx>>
    BY <1>2, EditType DEF IInv
  <2> QED BY <2>1 DEF held
<1>3. ASSUME NEW q \in Requests, Commit(q) PROVE Book!Next
  BY <1>3, CommitPlaces DEF Book!Next
<1>4. ASSUME NEW q \in Requests, Cancelled(q) PROVE Book!Next
  BY <1>4, CancelledGivesBack DEF Book!Next
<1>5. ASSUME NEW q \in Requests, Set(q, RolledBack),
             tx[q].pc \notin {"ordered", "cancelling"}
      PROVE  UNCHANGED <<reserved, held>>
  BY <1>0, <1>5, HiddenStep
<1>6. \A q \in Requests : tx[q] \in TxType
  BY <1>0
<1>7. tx' \in [Requests -> TxType]
  BY NextInv DEF IInv, TypeOK
<1>9. ASSUME NEW q \in Requests, NEW ask \in MayAsk[q], Load(q, ask[1], ask[2])
      PROVE  UNCHANGED <<reserved, held>>
  <2>1. tx'[q].pc = "loaded" /\ tx[q].pc = "new" /\ tx' = [tx EXCEPT ![q] = tx'[q]]
    BY <1>0, <1>9 DEF Load, Set, NoTx
  <2>2. tx'[q] \in TxType /\ Set(q, tx'[q])
    BY <1>7, <1>9, <2>1 DEF Load, Set
  <2> QED BY <2>1, <2>2, HiddenStep
<1>10. ASSUME NEW q \in Requests, Select(q) \/ Validate(q) \/ Reserve(q)
       PROVE  UNCHANGED <<reserved, held>>
  <2>1. tx[q].pc \notin {"ordered", "cancelling"}
    BY <1>10 DEF Select, Validate, Reserve
  <2>2. PICK t : Set(q, t) /\ t.pc \notin {"ordered", "cancelling"}
    <3>1. CASE Select(q)
      <4>. DEFINE mine == {i \in tx[q].items :
                             tx[q].asked = Nobody \/ OfferOf(i.line) = tx[q].asked}
                  t == [tx[q] EXCEPT !.pc = "selected", !.items = mine]
      <4>1. t.pc = "selected"
        BY <1>6 DEF TxType
      <4>2. Set(q, t) \/ Set(q, RolledBack)
        BY <3>1 DEF Select
      <4>. HIDE DEF t
      <4> QED BY <1>0, <4>1, <4>2
    <3>2. CASE Validate(q)
      <4>. DEFINE t == [tx[q] EXCEPT !.pc = "reserving", !.items = Priced(q),
                                     !.todo = Priced(q)]
      <4>1. t.pc = "reserving"
        BY <1>6 DEF TxType
      <4>2. Set(q, t) \/ Set(q, RolledBack)
        BY <3>2 DEF Validate
      <4>. HIDE DEF t
      <4> QED BY <1>0, <4>1, <4>2
    <3>3. CASE Reserve(q)
      <4>1. tx[q] \in TxType /\ tx[q].pc = "reserving"
        BY <1>6, <3>3 DEF Reserve
      <4>. DEFINE i == NextItem(q)
                  r == RowFor(i)
                  t == [tx[q] EXCEPT !.todo = @ \ {i}, !.take[r] = @ + i.line.quantity,
                                     !.locked = @ \cup {r}]
      <4>2. t.pc = "reserving"
        BY <4>1 DEF TxType
      <4>3. Set(q, t) \/ Set(q, RolledBack)
        BY <3>3 DEF Reserve
      <4> QED BY <1>0, <4>2, <4>3
    <3> QED BY <1>10, <3>1, <3>2, <3>3
  <2>3. t = tx'[q] /\ t \in TxType
    BY <1>0, <1>7, <2>2 DEF Set
  <2> QED BY <2>1, <2>2, <2>3, HiddenStep
<1>11. ASSUME NEW q \in Requests, Abandon(q) PROVE UNCHANGED <<reserved, held>>
  BY <1>5, <1>11 DEF Abandon, Active
<1>12. ASSUME NEW q \in Requests, Cancel(q) PROVE UNCHANGED <<reserved, held>>
  <2>. DEFINE t == [tx[q] EXCEPT !.pc = "cancelling", !.todo = tx[q].items]
  <2>1. tx[q] \in TxType /\ tx[q].pc = "ordered" /\ Set(q, t)
    BY <1>6, <1>12 DEF Cancel
  <2>2. t \in TxType /\ t.pc = "cancelling" /\ t.take = tx[q].take
    BY <2>1 DEF TxType
  <2> QED BY <2>1, <2>2, HiddenStep
<1>13. ASSUME NEW q \in Requests, NEW i \in tx[q].todo, Release(q, i)
       PROVE  UNCHANGED <<reserved, held>>
  <2>. DEFINE t == [tx[q] EXCEPT !.todo = @ \ {i}, !.locked = @ \cup {RowFor(i)}]
  <2>1. tx[q] \in TxType /\ tx[q].pc = "cancelling" /\ Set(q, t)
    BY <1>6, <1>13 DEF Release
  <2>2. t.pc = "cancelling" /\ t.take = tx[q].take
    BY <2>1 DEF TxType
  <2>. HIDE DEF t
  <2>3. t = tx'[q] /\ t \in TxType
    BY <1>0, <1>7, <2>1 DEF Set
  <2> QED BY <2>1, <2>2, <2>3, HiddenStep
<1>14. ASSUME NEW q \in Requests, BreakDeadlock(q) PROVE UNCHANGED <<reserved, held>>
  <2>1. tx[q] \in TxType /\ tx[q].pc \in {"reserving", "cancelling"}
    BY <1>6, <1>14 DEF BreakDeadlock, Deadlocked, Waits
  <2>2. CASE tx[q].pc = "cancelling"
    <3>. DEFINE t == [tx[q] EXCEPT !.pc = "ordered", !.todo = {}, !.locked = {}]
    <3>1. Set(q, t)
      BY <1>14, <2>2 DEF BreakDeadlock
    <3>2. t \in TxType /\ t.pc = "ordered" /\ t.take = tx[q].take
      BY <2>1 DEF TxType
    <3> QED BY <2>2, <3>1, <3>2, HiddenStep
  <2>3. CASE tx[q].pc = "reserving"
    BY <1>5, <1>14, <2>3 DEF BreakDeadlock
  <2> QED BY <2>1, <2>2, <2>3
<1> QED
  BY <1>1, <1>2, <1>3, <1>4, <1>9, <1>10, <1>11, <1>12, <1>13, <1>14 DEF Next, Step

\* Whatever the locks and interleavings, an order's stock is reserved in one
\* step or not at all, and given back in one step.
THEOREM ImplementsStockBook == Spec => BookSpec
<1>1. Init => Book!Init
  BY InitBook
<1>2. IInv /\ [Next]_vars => [Book!Next]_<<reserved, held>>
  BY NextBook
<1> QED BY <1>1, <1>2, LockingInvariance, PTL DEF Spec, BookSpec, Book!Spec, Book!vars

(***************************************************************************)
(* What an order holds.                                                    *)
(***************************************************************************)

\* A basket has one line of a variant, as the table's unique key says.
OneLineEach == \A c \in Carts : \A k, l \in cart[c] : k.variant = l.variant => k = l

Distinct(S) == \A i, j \in S : i.line.variant = j.line.variant => i = j

\* What is reserved so far is exactly what the items done ask for.
Filled(t) ==
    /\ t.pc \in {"loaded", "selected", "reserving", "ordered", "cancelling"} =>
           t.items # {} /\ Distinct(t.items)
    /\ t.pc \in {"reserving", "ordered", "cancelling"} =>
           /\ t.cart \in MarketCarts => OfOneSeller(t.items)
           /\ \A r \in Rows : t.take[r] # 0 => \E i \in t.items : RowFor(i) = r
    /\ t.pc = "reserving" =>
           \A i \in t.items : t.take[RowFor(i)] = IF i \in t.todo THEN 0 ELSE i.line.quantity
    /\ t.pc \in {"ordered", "cancelling"} =>
           \A i \in t.items : t.take[RowFor(i)] = i.line.quantity

Whole == OneLineEach /\ \A q \in Requests : Filled(tx[q])

\* Two items of an order are reserved from two rows.
LEMMA RowsApart ==
    ASSUME IInv, Whole, NEW q \in Requests, tx[q].pc \in {"reserving", "ordered", "cancelling"},
           NEW i \in tx[q].items, NEW j \in tx[q].items, RowFor(i) = RowFor(j)
    PROVE  i = j
<1>1. /\ Stocked(i.line.variant, i.seller) # {}
      /\ Stocked(j.line.variant, j.seller) # {}
  BY DEF IInv, Stored
<1>2. i.line.variant = j.line.variant
  BY <1>1, RowForType
<1> QED BY <1>2 DEF Whole, Filled, Distinct

LEMMA SetWhole ==
    ASSUME IInv, Whole, NEW q \in Requests, NEW t, Filled(t), Set(q, t)
    PROVE  Whole'
<1>1. cart' = cart /\ \A p \in Requests : tx'[p] = IF p = q THEN t ELSE tx[p]
  BY DEF Set, IInv, TypeOK
<1>2. OneLineEach'
  BY <1>1 DEF Whole, OneLineEach
<1>3. \A p \in Requests : Filled(tx'[p])
  BY <1>1 DEF Whole
<1> QED BY <1>2, <1>3 DEF Whole

LEMMA RolledBackFilled == Filled(RolledBack) /\ Filled(NoTx)
BY DEF Filled, RolledBack, NoTx

\* Every edit of a basket leaves it one line of a variant.
LEMMA EditWhole ==
    ASSUME IInv, Whole, Edit
    PROVE  Whole'
<1>1. tx' = tx
  BY EditType DEF IInv
<1>2. OneLineEach'
  <2>. USE DEF Whole, OneLineEach
  <2>0. cart \in [Carts -> SUBSET Line] /\ edits \subseteq [cart : Carts, line : Line]
    BY DEF IInv, TypeOK
  <2>1. ASSUME NEW c \in Edited, NEW n, NEW s, NEW v, AddLine(c, v, n, s)
        PROVE  OneLineEach'
    <3>. DEFINE l == [id |-> nextLine, variant |-> v, quantity |-> n, offer |-> s]
    <3>1. cart' = [cart EXCEPT ![c] = cart[c] \cup {l}] /\ \A k \in cart[c] : k.variant # l.variant
      BY <2>1 DEF AddLine
    <3>. HIDE DEF l
    <3> QED BY <2>0, <3>1
  <2>2. ASSUME NEW e \in edits, SaveLine(e)
        PROVE  OneLineEach'
    <3>. DEFINE others == {l \in cart[e.cart] : l.id # e.line.id}
    <3>1. cart' = [cart EXCEPT ![e.cart] =
                      IF \E l \in others : l.variant = e.line.variant
                      THEN @ ELSE others \cup {e.line}]
      BY <2>2 DEF SaveLine
    <3> QED BY <2>0, <3>1
  <2>3. ASSUME NEW c \in Edited, NEW l, RemoveLine(c, l)
        PROVE  OneLineEach'
    BY <2>0, <2>3 DEF RemoveLine
  <2>4. CASE UNCHANGED cart
    BY <2>4
  <2> QED BY <2>1, <2>2, <2>3, <2>4 DEF Edit, ReadLine, Reprice
<1> QED BY <1>1, <1>2 DEF Whole

LEMMA LoadWhole ==
    ASSUME IInv, Whole, NEW q \in Requests, NEW ask \in MayAsk[q], Load(q, ask[1], ask[2])
    PROVE  Whole'
<1>. DEFINE c == ask[1]
            read == [line : cart[c], seller : {Nobody}]
            t == [NoTx EXCEPT !.pc = "loaded", !.cart = c, !.asked = ask[2], !.items = read]
<1>1. c \in Carts /\ cart[c] # {} /\ Set(q, t)
  BY CheckoutAssumption DEF Load
<1>2. read # {} /\ Distinct(read)
  <2>1. PICK l \in cart[c] : TRUE
    BY <1>1
  <2>2. [line |-> l, seller |-> Nobody] \in read
    OBVIOUS
  <2>3. ASSUME NEW i \in read, NEW j \in read, i.line.variant = j.line.variant
        PROVE  i = j
    <3>1. /\ i = [line |-> i.line, seller |-> Nobody] /\ i.line \in cart[c]
          /\ j = [line |-> j.line, seller |-> Nobody] /\ j.line \in cart[c]
      OBVIOUS
    <3>2. i.line = j.line
      BY <1>1, <2>3, <3>1 DEF Whole, OneLineEach
    <3> QED BY <3>1, <3>2
  <2> QED BY <2>2, <2>3 DEF Distinct
<1>3. t.pc = "loaded" /\ t.items = read
  BY DEF NoTx
<1>. HIDE DEF t, read
<1>4. Filled(t)
  BY <1>2, <1>3 DEF Filled
<1> QED BY <1>1, <1>4, SetWhole

LEMMA SelectWhole ==
    ASSUME IInv, Whole, NEW q \in Requests, Select(q)
    PROVE  Whole'
<1>. DEFINE mine == {i \in tx[q].items :
                        tx[q].asked = Nobody \/ OfferOf(i.line) = tx[q].asked}
            t == [tx[q] EXCEPT !.pc = "selected", !.items = mine]
<1>1. tx[q] \in TxType /\ tx[q].pc = "loaded"
  BY DEF IInv, TypeOK, Select
<1>2. Distinct(mine)
  BY <1>1 DEF Whole, Filled, Distinct
<1>3. Set(q, IF mine = {} THEN RolledBack ELSE t)
  BY DEF Select
<1>4. t.pc = "selected" /\ t.items = mine
  BY <1>1 DEF TxType
<1>. HIDE DEF t, mine
<1>5. mine # {} => Filled(t)
  BY <1>2, <1>4 DEF Filled
<1> QED BY <1>3, <1>5, RolledBackFilled, SetWhole

LEMMA ValidateWhole ==
    ASSUME IInv, Whole, NEW q \in Requests, Validate(q)
    PROVE  Whole'
<1>. DEFINE t == [tx[q] EXCEPT !.pc = "reserving", !.items = Priced(q), !.todo = Priced(q)]
<1>1. tx[q] \in TxType /\ tx[q].pc = "selected" /\ TypeOK
  BY DEF IInv, TypeOK, Validate
<1>2. tx[q].take = Nothing
  BY <1>1 DEF IInv, LockedFirst
<1>3. CASE Set(q, RolledBack)
  BY <1>3, RolledBackFilled, SetWhole
<1>4. CASE /\ Set(q, t)
           /\ \A i \in Priced(q) : Buyable(i)
           /\ tx[q].cart \in MarketCarts => OfOneSeller(Priced(q))
  <2>1. Priced(q) # {} /\ Distinct(Priced(q))
    <3>1. tx[q].items # {} /\ Distinct(tx[q].items)
      BY <1>1 DEF Whole, Filled
    <3>2. ASSUME NEW i \in Priced(q), NEW j \in Priced(q), i.line.variant = j.line.variant
          PROVE  i = j
      <4>1. PICK k \in tx[q].items : i = [line |-> k.line, seller |-> OfferOf(k.line)]
        BY DEF Priced
      <4>2. PICK l \in tx[q].items : j = [line |-> l.line, seller |-> OfferOf(l.line)]
        BY DEF Priced
      <4>3. k = l
        BY <3>1, <3>2, <4>1, <4>2 DEF Distinct
      <4> QED BY <4>1, <4>2, <4>3
    <3> QED BY <3>1, <3>2 DEF Priced, Distinct
  <2>2. \A i \in Priced(q) : Stocked(i.line.variant, i.seller) # {}
    <3>. SUFFICES ASSUME NEW i \in Priced(q), Stocked(i.line.variant, i.seller) = {}
                  PROVE  FALSE
      OBVIOUS
    <3>1. Available(i.line.variant, i.seller) = 0
      BY DEF Available
    <3>2. i.line.quantity \in 1..MaxQuantity
      BY <1>1 DEF Priced, TxType, Item, Line
    <3> QED BY <1>4, <3>1, <3>2, CheckoutAssumption DEF Buyable
  <2>3. \A i \in Priced(q) : RowFor(i) \in Rows
    BY <2>2, RowForType
  <2>4. /\ t.pc = "reserving" /\ t.items = Priced(q) /\ t.todo = Priced(q)
        /\ t.take = Nothing /\ t.cart = tx[q].cart
    BY <1>1, <1>2 DEF TxType
  <2>. HIDE DEF t
  <2>5. Filled(t)
    BY <1>4, <2>1, <2>3, <2>4 DEF Filled, Nothing
  <2> QED BY <1>4, <2>5, SetWhole
<1> QED BY <1>3, <1>4 DEF Validate

LEMMA ReserveWhole ==
    ASSUME IInv, Whole, NEW q \in Requests, Reserve(q)
    PROVE  Whole'
<1>. DEFINE i == NextItem(q)
            r == RowFor(i)
            t == [tx[q] EXCEPT !.todo = @ \ {i}, !.take[r] = @ + i.line.quantity,
                               !.locked = @ \cup {r}]
<1>1. CASE Set(q, RolledBack)
  BY <1>1, RolledBackFilled, SetWhole
<1>2. CASE Set(q, t)
  <2>1. /\ tx[q].pc = "reserving" /\ tx[q] \in TxType
        /\ i \in tx[q].todo
    BY NextItemType DEF Reserve, IInv, TypeOK
  <2>2. i \in tx[q].items /\ i \in Item /\ Stocked(i.line.variant, i.seller) # {}
    BY <2>1 DEF IInv, Stored, TxType
  <2>3. r \in Rows /\ i.line.quantity \in Nat /\ tx[q].take \in [Rows -> Nat]
    <3>1. r \in Rows
      BY <2>2, RowForType
    <3>2. i.line.quantity \in Nat
      BY <2>2, CheckoutAssumption DEF Item, Line
    <3>3. tx[q].take \in [Rows -> Nat]
      BY <2>1 DEF TxType
    <3> QED BY <3>1, <3>2, <3>3
  <2>4. tx[q].take[r] = 0
    BY <2>1, <2>2 DEF Whole, Filled
  <2>5. \A j \in tx[q].items : RowFor(j) = r => j = i
    BY <2>1, <2>2, RowsApart
  <2>6. \A j \in tx[q].items : RowFor(j) \in Rows
    BY <2>1, RowForType DEF IInv, Stored
  <2>. HIDE DEF i, r
  <2>7. /\ t.pc = "reserving" /\ t.items = tx[q].items /\ t.cart = tx[q].cart
        /\ t.todo = tx[q].todo \ {i}
        /\ t.take = [tx[q].take EXCEPT ![r] = @ + i.line.quantity]
    <3>. DEFINE n == tx[q].take[r] + i.line.quantity
                mytake == [tx[q].take EXCEPT ![r] = n]
    <3>1. t = [tx[q] EXCEPT !.todo = tx[q].todo \ {i}, !.take = mytake,
                            !.locked = tx[q].locked \cup {r}]
      BY <2>1 DEF TxType
    <3>. HIDE DEF mytake, t
    <3>2. /\ t.pc = "reserving" /\ t.items = tx[q].items /\ t.cart = tx[q].cart
          /\ t.todo = tx[q].todo \ {i} /\ t.take = mytake
      BY <2>1, <3>1 DEF TxType
    <3> QED BY <3>2 DEF mytake
  <2>. HIDE DEF t
  <2>8. t.take[r] = i.line.quantity /\ \A x \in Rows : x # r => t.take[x] = tx[q].take[x]
    BY <2>3, <2>4, <2>7
  <2>9. \A j \in t.items : t.take[RowFor(j)] = IF j \in t.todo THEN 0 ELSE j.line.quantity
    <3>. SUFFICES ASSUME NEW j \in tx[q].items
                  PROVE  t.take[RowFor(j)] = IF j \in t.todo THEN 0 ELSE j.line.quantity
      BY <2>7
    <3>1. CASE j = i
      BY <2>7, <2>8, <3>1 DEF r
    <3>2. CASE j # i
      <4>1. t.take[RowFor(j)] = tx[q].take[RowFor(j)]
        BY <2>5, <2>6, <2>8, <3>2
      <4>2. tx[q].take[RowFor(j)] = IF j \in tx[q].todo THEN 0 ELSE j.line.quantity
        BY <2>1 DEF Whole, Filled
      <4> QED BY <2>7, <3>2, <4>1, <4>2
    <3> QED BY <3>1, <3>2
  <2>10. \A x \in Rows : t.take[x] # 0 => \E j \in t.items : RowFor(j) = x
    <3>. SUFFICES ASSUME NEW x \in Rows, t.take[x] # 0
                  PROVE  \E j \in tx[q].items : RowFor(j) = x
      BY <2>7
    <3>1. CASE x = r
      BY <2>2, <3>1 DEF r
    <3>2. CASE x # r
      BY <2>1, <2>8, <3>2 DEF Whole, Filled
    <3> QED BY <3>1, <3>2
  <2>11. /\ t.items # {} /\ Distinct(t.items)
         /\ t.cart \in MarketCarts => OfOneSeller(t.items)
    BY <2>1, <2>7 DEF Whole, Filled
  <2>12. Filled(t)
    BY <2>7, <2>9, <2>10, <2>11 DEF Filled
  <2> QED BY <1>2, <2>12, SetWhole
<1> QED BY <1>1, <1>2 DEF Reserve

LEMMA CommitWhole ==
    ASSUME IInv, Whole, NEW q \in Requests, Commit(q)
    PROVE  Whole'
<1>1. /\ tx[q].pc = "reserving" /\ tx[q].todo = {} /\ tx[q] \in TxType
      /\ tx \in [Requests -> TxType] /\ cart \in [Carts -> SUBSET Line]
      /\ tx' = [tx EXCEPT ![q].pc = "ordered", ![q].locked = {}]
  BY DEF Commit, IInv, TypeOK
<1>. DEFINE t == [tx[q] EXCEPT !.pc = "ordered", !.locked = {}]
<1>2. /\ t.pc = "ordered" /\ t.take = tx[q].take /\ t.items = tx[q].items
      /\ t.cart = tx[q].cart
      /\ tx' = [tx EXCEPT ![q] = t]
  BY <1>1 DEF TxType
<1>. HIDE DEF t
<1>3. Filled(t)
  BY <1>1, <1>2 DEF Whole, Filled
<1>4. OneLineEach'
  <2>1. \A c \in Carts : cart'[c] \subseteq cart[c]
    BY <1>1 DEF Commit
  <2> QED BY <2>1 DEF Whole, OneLineEach
<1>5. \A p \in Requests : tx'[p] = IF p = q THEN t ELSE tx[p]
  BY <1>1, <1>2
<1>6. \A p \in Requests : Filled(tx'[p])
  BY <1>3, <1>5 DEF Whole
<1> QED BY <1>4, <1>6 DEF Whole

\* A cancellation that has not committed leaves the order what it holds.
LEMMA OrderFilled ==
    ASSUME Whole, NEW q \in Requests, tx[q].pc \in {"ordered", "cancelling"}, NEW t,
           t.pc \in {"ordered", "cancelling"}, t.items = tx[q].items,
           t.take = tx[q].take, t.cart = tx[q].cart
    PROVE  Filled(t)
BY DEF Whole, Filled

LEMMA CancellationWhole ==
    ASSUME IInv, Whole, NEW q \in Requests,
           \/ Cancel(q) \/ (\E i \in tx[q].todo : Release(q, i)) \/ BreakDeadlock(q)
    PROVE  Whole'
<1>0. tx[q] \in TxType
  BY DEF IInv, TypeOK
<1>1. CASE Cancel(q)
  <2>. DEFINE t == [tx[q] EXCEPT !.pc = "cancelling", !.todo = tx[q].items]
  <2>1. /\ tx[q].pc = "ordered" /\ Set(q, t)
        /\ t.pc = "cancelling" /\ t.items = tx[q].items
        /\ t.take = tx[q].take /\ t.cart = tx[q].cart
    BY <1>0, <1>1 DEF Cancel, TxType
  <2>. HIDE DEF t
  <2> QED BY <2>1, OrderFilled, SetWhole
<1>2. ASSUME NEW i \in tx[q].todo, Release(q, i) PROVE Whole'
  <2>. DEFINE t == [tx[q] EXCEPT !.todo = @ \ {i}, !.locked = @ \cup {RowFor(i)}]
  <2>1. /\ tx[q].pc = "cancelling" /\ Set(q, t)
        /\ t.pc = "cancelling" /\ t.items = tx[q].items
        /\ t.take = tx[q].take /\ t.cart = tx[q].cart
    BY <1>0, <1>2 DEF Release, TxType
  <2>. HIDE DEF t
  <2> QED BY <2>1, OrderFilled, SetWhole
<1>3. CASE BreakDeadlock(q)
  <2>. DEFINE t == [tx[q] EXCEPT !.pc = "ordered", !.todo = {}, !.locked = {}]
  <2>1. CASE Set(q, RolledBack)
    BY <2>1, RolledBackFilled, SetWhole
  <2>2. CASE Set(q, t) /\ tx[q].pc = "cancelling"
    <3>1. /\ t.pc = "ordered" /\ t.items = tx[q].items
          /\ t.take = tx[q].take /\ t.cart = tx[q].cart
      BY <1>0 DEF TxType
    <3>. HIDE DEF t
    <3> QED BY <2>2, <3>1, OrderFilled, SetWhole
  <2> QED BY <1>3, <2>1, <2>2 DEF BreakDeadlock
<1> QED BY <1>1, <1>2, <1>3

LEMMA CancelledWhole ==
    ASSUME IInv, Whole, NEW q \in Requests, Cancelled(q)
    PROVE  Whole'
<1>1. /\ tx[q] \in TxType /\ tx \in [Requests -> TxType] /\ cart' = cart
      /\ tx' = [tx EXCEPT ![q].pc = "cancelled", ![q].locked = {}]
  BY DEF Cancelled, IInv, TypeOK
<1>2. \A p \in Requests : p # q => tx'[p] = tx[p]
  BY <1>1
<1>3. tx'[q].pc = "cancelled"
  BY <1>1 DEF TxType
<1>4. \A p \in Requests : Filled(tx'[p])
  BY <1>2, <1>3 DEF Whole, Filled
<1> QED BY <1>1, <1>4 DEF Whole, OneLineEach

LEMMA NextWhole == IInv /\ Whole /\ [Next]_vars => Whole'
<1>. SUFFICES ASSUME IInv, Whole, [Next]_vars PROVE Whole'
  OBVIOUS
<1>1. CASE UNCHANGED vars
  BY <1>1 DEF vars, Whole, OneLineEach
<1>2. CASE Edit
  BY <1>2, EditWhole
<1>3. ASSUME NEW q \in Requests, Step(q) PROVE Whole'
  BY <1>3, SelectWhole, ValidateWhole, ReserveWhole, CommitWhole, CancellationWhole,
     CancelledWhole DEF Step
<1>4. ASSUME NEW q \in Requests, Abandon(q) PROVE Whole'
  BY <1>4, RolledBackFilled, SetWhole DEF Abandon
<1> QED BY <1>1, <1>2, <1>3, <1>4, LoadWhole, CancellationWhole DEF Next

\* From the commit of a checkout to the end of its cancellation an order
\* holds every line in full, from one row of the seller it was priced from,
\* and a marketplace order is of one seller.
THEOREM OrdersHoldTheirLines == Spec => []OrdersHeld
<1>1. Init => Whole
  BY StartAssumption, RolledBackFilled DEF Init, Whole, OneLineEach
<1>2. IInv /\ Whole => OrdersHeld
  <2>. SUFFICES ASSUME IInv, Whole, NEW q \in Requests, tx[q].pc \in {"ordered", "cancelling"}
                PROVE  /\ tx[q].items # {}
                       /\ tx[q].cart \in MarketCarts => OfOneSeller(tx[q].items)
                       /\ \A r \in Rows :
                             tx[q].take[r] =
                                LET here == {i \in tx[q].items : RowFor(i) = r}
                                IN  IF here = {} THEN 0
                                    ELSE (CHOOSE i \in here : TRUE).line.quantity
                       /\ \A i \in tx[q].items : /\ RowVariant[RowFor(i)] = i.line.variant
                                                 /\ RowSeller[RowFor(i)] = i.seller
    BY DEF OrdersHeld
  <2>1. Filled(tx[q])
    BY DEF Whole
  <2>2. ASSUME NEW r \in Rows, {i \in tx[q].items : RowFor(i) = r} # {}
        PROVE  tx[q].take[r]
                   = (CHOOSE i \in {j \in tx[q].items : RowFor(j) = r} : TRUE).line.quantity
    <3>. DEFINE i == CHOOSE i \in {j \in tx[q].items : RowFor(j) = r} : TRUE
    <3>1. i \in tx[q].items /\ RowFor(i) = r
      BY <2>2
    <3>. HIDE DEF i
    <3>2. tx[q].take[r] = i.line.quantity
      BY <2>1, <3>1 DEF Filled
    <3> QED BY <3>2 DEF i
  <2>3. ASSUME NEW r \in Rows, {i \in tx[q].items : RowFor(i) = r} = {}
        PROVE  tx[q].take[r] = 0
    BY <2>1, <2>3 DEF Filled
  <2>4. \A i \in tx[q].items : /\ RowVariant[RowFor(i)] = i.line.variant
                               /\ RowSeller[RowFor(i)] = i.seller
    BY RowForType DEF IInv, Stored
  <2> QED BY <2>1, <2>2, <2>3, <2>4 DEF Filled
<1> QED BY <1>1, <1>2, NextWhole, LockingInvariance, PTL DEF Spec

=============================================================================
