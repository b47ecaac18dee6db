--------------------------- MODULE UnitStockProofs ---------------------------
(***************************************************************************)
(* UnitStock, for any number of orders and units and any quantities.  The  *)
(* row of the variant may be saved with old counts at any time; what is    *)
(* proved does not depend on it, because units change hands by their own   *)
(* states: a checkout takes units in stock, a release touches reserved     *)
(* ones only, an edit moves nothing but what is in stock.                  *)
(***************************************************************************)
EXTENDS UnitStock, FiniteSetTheorems, TLAPS

(***************************************************************************)
(* The inductive invariant.                                                *)
(***************************************************************************)

\* Before the order nothing is held, and what is held has been registered.
CartFirst ==
    \A o \in Orders :
        /\ status[o] = "none" => link[o] = {} /\ amount[o] = 0
        /\ \A u \in link[o] : unit[u] # "absent"

\* A settlement in progress has updated units of its order which it has locked,
\* and the lock of the order keeps the status a sale has looked at.
TxReady(o, by) ==
    /\ status[o] # "none"
    /\ settle[o][by].units \subseteq Linked(o)
    /\ \/ /\ settle[o][by].how = "release"
          /\ \A u \in settle[o][by].units : unit[u] = "reserved"
       \/ /\ settle[o][by].how = "consume"
          /\ by = "lock" /\ status[o] = "open"
          /\ settle[o][by].units = Linked(o)

SettleReady ==
    \A o \in Orders, by \in By : settle[o][by] # NoTx => TxReady(o, by)

\* No two transactions hold the lock of a unit.
LocksApart ==
    /\ \A o, p \in Orders, by, b \in By :
        o # p \/ by # b => settle[o][by].units \intersect settle[p][b].units = {}
    /\ \A o \in Orders, by \in By : settle[o][by].units \intersect edit.locks = {}

\* What an edit in progress is about to move is still in stock, and locked, or
\* not yet registered.
EditReady ==
    edit.busy =>
        /\ DOMAIN edit.to \subseteq Units
        /\ \A u \in DOMAIN edit.to :
            /\ edit.to[u] \in {"deleted", "in_stock", "reserved"}
            /\ unit[u] = "absent" \/ (unit[u] = "in_stock" /\ u \in edit.locks)

Holds == PromisedOnce /\ HoldKept /\ CartFirst
Running == SettleReady /\ LocksApart /\ EditReady
Safe == Holds /\ Running

IInv == TypeOK /\ Safe

(***************************************************************************)
(* Types.                                                                  *)
(***************************************************************************)

\* What _sync_inventory_summary counts passes the CHECKs, whatever the units.
LEMMA SummaryType ==
    ASSUME NEW f, NEW t \in {"absent", "normal", "serialized"}
    PROVE  Summary(f, t) \in InventoryRow
<1>. DEFINE All == {u \in Units : f[u] \in Live \union {"sold"}}
<1>1. IsFiniteSet(Units)
  BY FS_Interval, BoundsType DEF Units
<1>2. IsFiniteSet(All) /\ In(f, "in_stock") \in SUBSET All
  BY <1>1, FS_Subset DEF In, Live
<1>3. /\ Cardinality(All) \in Nat
      /\ Cardinality(In(f, "in_stock")) \in Nat
      /\ Cardinality(In(f, "in_stock")) <= Cardinality(All)
  BY <1>2, FS_Subset, FS_CardinalityType
<1>4. In(f, "reserved") \in SUBSET Units
  BY DEF In
<1>5. Cardinality(In(f, "reserved")) \in Nat
  BY <1>1, <1>4, FS_Subset, FS_CardinalityType
<1>. QED  BY <1>3, <1>5 DEF Summary, InventoryRow

LEMMA NoRowType == NoRow \in InventoryRow
BY DEF NoRow, InventoryRow

LEMMA NoTxType ==
    NoTx \in Settlement
BY NoRowType DEF NoTx, Settlement

LEMMA InitType == Init => TypeOK
BY NoRowType, NoTxType DEF Init, TypeOK, State, NoEdit

\* A settlement gives units a state the enum has.
LEMMA SettledType ==
    ASSUME unit \in [Units -> State], NEW S, NEW how
    PROVE  Settled(S, how) \in [Units -> State]
BY DEF Settled, State, Live, Historical

LEMMA TouchedType ==
    ASSUME TypeOK, NEW o \in Orders, NEW how
    PROVE  Touched(o, how) \subseteq Linked(o) /\ Linked(o) \subseteq link[o] /\ link[o] \subseteq Units
BY DEF Touched, Linked, TypeOK

\* Every step of an order keeps the types.
LEMMA OrderType ==
    ASSUME TypeOK, NEW o \in Orders, OrderStep(o)
    PROVE  TypeOK'
<1>. USE DEF TypeOK, orderVars, txVars, historyVars
<1>0. row.type \in {"absent", "normal", "serialized"}
  BY DEF InventoryRow
<1>1. ASSUME NEW n \in Demand[o], Validate(o, n) PROVE TypeOK'
  <2>1. n \in Nat
    BY OrdersType
  <2>. QED  BY <1>1, <2>1 DEF Validate
<1>2. CASE PlaceUnits(o)
  <2>1. row' \in InventoryRow
    BY <1>0, <1>2, SummaryType DEF PlaceUnits
  <2>2. unit' \in [Units -> State] /\ link' \in [Orders -> SUBSET Units]
    BY <1>2 DEF PlaceUnits, State, Live, Lowest, In
  <2>. QED  BY <1>2, <2>1, <2>2 DEF PlaceUnits, Placed
<1>3. CASE PlaceAmount(o)
  <2>1. row' \in InventoryRow
    BY <1>3 DEF PlaceAmount, InventoryRow
  <2>. QED  BY <1>3, <2>1 DEF PlaceAmount, Placed
<1>4. CASE PlaceRefused(o)
  BY <1>4 DEF PlaceRefused
<1>5. ASSUME NEW by \in By, NEW how \in {"release", "consume"}, BeginSettle(o, by, how)
      PROVE  TypeOK'
  <2>. DEFINE tx == [how |-> how, units |-> Touched(o, how),
                     row |-> Summary(Settled(Touched(o, how), how), row.type)]
  <2>1. Summary(Settled(Touched(o, how), how), row.type) \in InventoryRow
    BY <1>0, SummaryType
  <2>2. Touched(o, how) \in SUBSET Units
    BY TouchedType
  <2>3. tx \in Settlement
    BY <2>1, <2>2 DEF Settlement
  <2>4. settle' = [settle EXCEPT ![o][by] = tx]
    BY <1>5 DEF BeginSettle
  <2>. HIDE DEF tx
  <2>5. settle' \in [Orders -> [By -> Settlement]]
    BY <2>3, <2>4
  <2>. QED  BY <1>5, <2>5 DEF BeginSettle
<1>6. ASSUME NEW by \in By, NEW how \in {"release", "consume"}, SettleAmount(o, by, how)
      PROVE  TypeOK'
  <2>1. unit' \in [Units -> State]
    BY <1>6, SettledType DEF SettleAmount
  <2>2. row' \in InventoryRow
    BY <1>0, <1>6, SummaryType DEF SettleAmount, Accepted
  <2>3. freed' \in SUBSET Units
    BY <1>6, TouchedType DEF SettleAmount, Outcome
  <2>. QED  BY <1>6, <2>1, <2>2, <2>3 DEF SettleAmount, Outcome
<1>7. ASSUME NEW by \in By, CommitSettle(o, by) PROVE TypeOK'
  <2>1. unit' \in [Units -> State]
    BY <1>7, SettledType DEF CommitSettle
  <2>2. settle' = [settle EXCEPT ![o][by] = NoTx] /\ row' = settle[o][by].row
    BY <1>7 DEF CommitSettle
  <2>4. settle[o][by] \in Settlement
    OBVIOUS
  <2>5. settle[o][by].row \in InventoryRow /\ settle[o][by].units \in SUBSET Units
    BY <2>4 DEF Settlement
  <2>6. settle' \in [Orders -> [By -> Settlement]]
    BY <2>2, NoTxType
  <2>3. /\ settle' \in [Orders -> [By -> Settlement]]
        /\ row' \in InventoryRow
        /\ settle[o][by].units \in SUBSET Units
    BY <2>2, <2>5, <2>6
  <2>. QED  BY <1>7, <2>1, <2>3 DEF CommitSettle, Outcome
<1>8. ASSUME NEW by \in By, AbortSettle(o, by) PROVE TypeOK'
  <2>1. settle' \in [Orders -> [By -> Settlement]]
    BY <1>8, NoTxType DEF AbortSettle
  <2>. QED  BY <1>8, <2>1 DEF AbortSettle
<1>. QED  BY <1>1, <1>2, <1>3, <1>4, <1>5, <1>6, <1>7, <1>8 DEF OrderStep

\* A row that is found or made passes the CHECKs.
LEMMA MadeType ==
    ASSUME TypeOK
    PROVE  /\ Made \in InventoryRow
           /\ Made = [type |-> Made.type, quantity |-> row.quantity,
                      sellable |-> row.sellable, reserved |-> row.reserved]
BY DEF Made, TypeOK, InventoryRow

\* A vendor's step keeps the types; what an edit commits is what it prepared.
LEMMA VendorType ==
    ASSUME TypeOK, EditReady, VendorStep
    PROVE  TypeOK'
<1>. USE DEF TypeOK, orderVars, txVars, historyVars
<1>0. row.type \in {"absent", "normal", "serialized"}
  BY DEF InventoryRow
<1>1. NoEdit.busy \in BOOLEAN /\ NoEdit.locks \in SUBSET Units /\ NoEdit.row \in InventoryRow
  BY NoRowType DEF NoEdit
<1>2. ASSUME NEW drop, NEW hold, NEW new, BeginEdit(drop, hold, new)
      PROVE  TypeOK'
  <2>. DEFINE line == IF new = "none" THEN {} ELSE Fresh(1)
              to == [u \in drop \union hold \union line |->
                        IF u \in drop THEN "deleted"
                        ELSE IF u \in hold THEN "reserved" ELSE new]
              after == [u \in Units |-> IF u \in DOMAIN to THEN to[u] ELSE unit[u]]
  <2>1. edit' = [busy |-> TRUE, to |-> to, locks |-> Existing, row |-> Summary(after, "serialized")]
    BY <1>2 DEF BeginEdit
  <2>2. Summary(after, "serialized") \in InventoryRow
    BY SummaryType
  <2>3. Existing \in SUBSET Units
    BY DEF Existing
  <2>4. edit'.busy \in BOOLEAN /\ edit'.locks \in SUBSET Units /\ edit'.row \in InventoryRow
    BY <2>1, <2>2, <2>3
  <2>. QED  BY <1>2, <2>4 DEF BeginEdit
<1>3. CASE CommitEdit
  <2>1. unit' \in [Units -> State]
    BY <1>3 DEF CommitEdit, EditReady, State, Live
  <2>2. withheld' \in SUBSET Units
    BY <1>3 DEF CommitEdit, EditReady
  <2>. QED  BY <1>1, <1>3, <2>1, <2>2 DEF CommitEdit
<1>4. CASE AbortEdit
  BY <1>1, <1>4 DEF AbortEdit
<1>5. CASE ToNormal
  <2>1. unit' \in [Units -> State]
    BY <1>5 DEF ToNormal, State, Historical
  <2>. QED  BY <1>5, <2>1 DEF ToNormal, Accepted
<1>6. ASSUME NEW q \in 0 .. MaxQuantity, NEW s \in 0 .. MaxQuantity, SetNormal(q, s)
      PROVE  TypeOK'
  <2>1. row' \in InventoryRow
    <3>1. q \in Nat /\ s \in Nat /\ s <= q
      BY <1>6, BoundsType DEF SetNormal
    <3>2. row' = [Made EXCEPT !.quantity = q, !.sellable = s]
      BY <1>6 DEF SetNormal
    <3>. QED  BY <3>1, <3>2, MadeType DEF InventoryRow
  <2>. QED  BY <1>6, <2>1 DEF SetNormal
<1>7. ASSUME NEW q \in 1 .. MaxQuantity, NEW k \in 0 .. q, ReceiveUnits(q, k)
      PROVE  TypeOK'
  <2>0. q \in Nat /\ k \in Nat
    BY BoundsType
  <2>1. row' \in InventoryRow
    <3>1. row' = [Made EXCEPT !.quantity = @ + k, !.sellable = @ + k]
      BY <1>7 DEF ReceiveUnits
    <3>2. row' = [type |-> Made.type, quantity |-> row.quantity + k,
                  sellable |-> row.sellable + k, reserved |-> row.reserved]
      <4>. DEFINE m == [type |-> Made.type, quantity |-> row.quantity,
                        sellable |-> row.sellable, reserved |-> row.reserved]
      <4>1. row' = [m EXCEPT !.quantity = @ + k, !.sellable = @ + k]
        BY <3>1, MadeType
      <4>. QED  BY <4>1
    <3>3. /\ Made.type \in {"absent", "normal", "serialized"}
          /\ row.quantity + k \in Nat /\ row.sellable + k \in Nat /\ row.reserved \in Nat
          /\ row.sellable + k <= row.quantity + k
      BY <2>0, MadeType DEF InventoryRow
    <3>. QED  BY <3>2, <3>3 DEF InventoryRow
  <2>2. unit' \in [Units -> State]
    BY <1>7 DEF ReceiveUnits, State, Live
  <2>. QED  BY <1>7, <2>0, <2>1, <2>2 DEF ReceiveUnits
<1>8. ASSUME NEW q \in 1 .. MaxQuantity, ReceiveAmount(q)
      PROVE  TypeOK'
  <2>1. row' = [Made EXCEPT !.quantity = @ + q] /\ q \in Nat
    BY <1>8, BoundsType DEF ReceiveAmount
  <2>2. row' = [type |-> Made.type, quantity |-> row.quantity + q,
                sellable |-> row.sellable, reserved |-> row.reserved]
    <3>. DEFINE m == [type |-> Made.type, quantity |-> row.quantity,
                      sellable |-> row.sellable, reserved |-> row.reserved]
    <3>1. row' = [m EXCEPT !.quantity = @ + q]
      BY <2>1, MadeType
    <3>. QED  BY <3>1
  <2>4. /\ Made.type \in {"absent", "normal", "serialized"}
        /\ row.quantity + q \in Nat /\ row.sellable \in Nat /\ row.reserved \in Nat
        /\ row.sellable <= row.quantity + q
    BY <2>1, MadeType DEF InventoryRow
  <2>3. row' \in InventoryRow
    BY <2>2, <2>4 DEF InventoryRow
  <2>. QED  BY <1>8, <2>1, <2>3 DEF ReceiveAmount
<1>9. CASE Refresh
  <2>1. row' \in InventoryRow
    <3>2. CASE Serialized
      BY <1>0, <1>9, <3>2, SummaryType DEF Refresh
    <3>3. CASE ~Serialized
      BY <1>9, <3>3 DEF Refresh, InventoryRow
    <3>. QED  BY <3>2, <3>3
  <2>. QED  BY <1>9, <2>1 DEF Refresh
<1>. QED  BY <1>2, <1>3, <1>4, <1>5, <1>6, <1>7, <1>8, <1>9 DEF VendorStep, Receive, Edit

(***************************************************************************)
(* Orders keep the safety invariant.                                       *)
(***************************************************************************)

\* What nobody has locked no transaction is about to move.
LEMMA LockedDef ==
    ASSUME NEW S, S \intersect Locked = {}
    PROVE  /\ S \intersect edit.locks = {}
           /\ \A o \in Orders, by \in By : settle[o][by].units \intersect S = {}
BY DEF Locked

\* A settlement moves the units it is given and nothing else.
LEMMA SettledElsewhere ==
    ASSUME NEW S, NEW how, NEW u \in Units
    PROVE  /\ u \notin S => Settled(S, how)[u] = unit[u]
           /\ u \in S => Settled(S, how)[u] = IF how = "release" THEN "in_stock" ELSE "sold"
BY DEF Settled

LEMMA InitSafe == Init => Safe
<1>. SUFFICES ASSUME Init PROVE Safe
  OBVIOUS
<1>1. Holds
  BY DEF Init, Holds, PromisedOnce, HoldKept, CartFirst
<1>2. \A o \in Orders, by \in By : settle[o][by] = NoTx /\ settle[o][by].units = {}
  BY DEF Init, NoTx
<1>3. Running
  BY <1>2 DEF Init, Running, SettleReady, LocksApart, EditReady, NoEdit
<1>. QED  BY <1>1, <1>3 DEF Safe

\* The settlement S of order o leaves the promises and the holds of the other
\* orders alone, but for what a second release frees.
LEMMA SettleApplied ==
    ASSUME TypeOK, Holds, NEW o \in Orders, NEW how \in {"release", "consume"},
           NEW S \in SUBSET Linked(o),
           status[o] # "none",
           how = "release" => \A u \in S : unit[u] = "reserved",
           how = "consume" => status[o] = "open" /\ S = Linked(o),
           unit' = Settled(S, how),
           Outcome(o, how, S),
           UNCHANGED <<cart, link, amount>>
    PROVE  Holds'
<1>. USE DEF TypeOK
<1>0. S \subseteq link[o] /\ link[o] \subseteq Units /\ \A u \in S : unit[u] # "deleted"
  BY DEF Linked
<1>1. /\ status' = [status EXCEPT ![o] = IF how = "release" THEN "ended" ELSE "sold"]
      /\ freed \subseteq freed'
      /\ status[o] = "ended" => S \subseteq freed'
  BY DEF Outcome
<1>2. \A u \in Units : u \notin S => unit'[u] = unit[u]
  BY SettledElsewhere
<1>3. \A u \in S : unit'[u] = IF how = "release" THEN "in_stock" ELSE "sold"
  BY <1>0, SettledElsewhere
<1>4. PromisedOnce'
  BY <1>1 DEF Holds, PromisedOnce
<1>5. ASSUME NEW p \in Orders, status'[p] = "open"
      PROVE  /\ Cardinality(link'[p]) + amount'[p] = cart'[p]
             /\ \A u \in link'[p] \ freed' : unit'[u] \in {"reserved", "changed_type"}
  <2>1. p # o /\ status[p] = "open"
    BY <1>1, <1>5
  <2>2. ASSUME NEW u \in link[p], u \notin freed' PROVE u \notin S
    <3>1. status[o] \in {"open", "sold"} => u \notin link[o]
      BY <1>1, <2>1, <2>2 DEF Holds, PromisedOnce
    <3>. QED  BY <1>0, <1>1, <2>2, <3>1
  <2>. QED  BY <1>0, <1>1, <1>2, <2>1, <2>2 DEF Holds, HoldKept
<1>6. ASSUME NEW p \in Orders, status'[p] = "sold", NEW u \in link'[p]
      PROVE  unit'[u] = "sold" \/ (u \in freed' /\ unit'[u] = "deleted")
  <2>1. u \in Units /\ u \in link[p]
    OBVIOUS
  <2>2. CASE p = o
    <3>1. how = "consume" /\ status[o] = "open" /\ S = Linked(o)
      BY <1>1, <1>6, <2>2
    <3>2. CASE u \in S
      BY <1>3, <3>1, <3>2
    <3>3. CASE u \notin S
      <4>1. unit[u] = "deleted" /\ unit'[u] = unit[u]
        BY <1>2, <2>1, <2>2, <3>1, <3>3 DEF Linked
      <4>2. u \in freed
        BY <2>1, <2>2, <3>1, <4>1 DEF Holds, HoldKept
      <4>. QED  BY <1>1, <4>1, <4>2
    <3>. QED  BY <3>2, <3>3
  <2>3. CASE p # o
    <3>1. status[p] = "sold"
      BY <1>1, <1>6, <2>3
    <3>2. unit[u] = "sold" \/ (u \in freed /\ unit[u] = "deleted")
      BY <2>1, <3>1 DEF Holds, HoldKept
    <3>3. u \in S => how = "consume"
      BY <3>2
    <3>. QED  BY <1>0, <1>1, <1>2, <1>3, <2>1, <3>2, <3>3
  <2>. QED  BY <2>2, <2>3
<1>7. HoldKept'
  BY <1>5, <1>6 DEF HoldKept
<1>8. ASSUME NEW p \in Orders, NEW u \in link[p] PROVE unit'[u] # "absent"
  BY <1>2, <1>3 DEF Holds, CartFirst
<1>9. CartFirst'
  BY <1>1, <1>8 DEF Holds, CartFirst
<1>. QED  BY <1>4, <1>7, <1>9 DEF Holds

\* No settlement makes a unit appear or disappear.
LEMMA LinkedStays ==
    ASSUME TypeOK, NEW o \in Orders, NEW S \in SUBSET Linked(o), NEW how,
           unit' = Settled(S, how), link' = link
    PROVE  \A p \in Orders : Linked(p)' = Linked(p)
<1>1. \A u \in Units : (unit'[u] = "deleted") = (unit[u] = "deleted")
  BY SettledElsewhere DEF Linked
<1>. QED  BY <1>1 DEF Linked, TypeOK

\* A running settlement of p is not disturbed by one of o that moves other units.
LEMMA SettleReadyStays ==
    ASSUME TypeOK, Holds, SettleReady,
           NEW o \in Orders, NEW S \in SUBSET Linked(o), NEW how \in {"release", "consume"},
           unit' = Settled(S, how), Outcome(o, how, S), link' = link,
           NEW p \in Orders, NEW b \in By,
           settle'[p][b] = settle[p][b], settle[p][b] # NoTx,
           settle[p][b].units \intersect S = {},
           p = o => b = "batch"
    PROVE  TxReady(p, b)'
<1>1. Linked(p)' = Linked(p)
  BY LinkedStays
<1>2. \A u \in settle[p][b].units : u \in Units /\ unit'[u] = unit[u]
  <2>1. settle[p][b].units \subseteq Units
    BY DEF SettleReady, TxReady, Linked, TypeOK
  <2>. QED  BY <2>1, SettledElsewhere
<1>3. p # o => status'[p] = status[p]
  BY DEF Outcome, TypeOK
<1>4. p = o => status'[p] # "none" /\ b # "lock"
  BY DEF Outcome, TypeOK
<1>. QED  BY <1>1, <1>2, <1>3, <1>4 DEF SettleReady, TxReady

\* Nor is a running edit.
LEMMA EditReadyStays ==
    ASSUME TypeOK, Holds, EditReady, NEW o \in Orders, NEW S \in SUBSET Linked(o), NEW how,
           unit' = Settled(S, how), edit' = edit, S \intersect edit.locks = {}
    PROVE  EditReady'
<1>1. ASSUME edit.busy, NEW u \in DOMAIN edit.to PROVE u \in Units /\ u \notin S
  <2>1. unit[u] = "absent" => u \notin link[o]
    BY DEF Holds, CartFirst
  <2>. QED  BY <1>1, <2>1 DEF EditReady, Linked
<1>2. ASSUME edit.busy, NEW u \in DOMAIN edit.to PROVE unit'[u] = unit[u]
  BY <1>1, <1>2, SettledElsewhere
<1>. QED  BY <1>2 DEF EditReady

\* A checkout takes units in stock, which no open or sold order has (but for one
\* freed too often) and no transaction is about to move.
LEMMA PlaceUnitsSafe ==
    ASSUME TypeOK, Safe, NEW o \in Orders, PlaceUnits(o)
    PROVE  Safe'
<1>. DEFINE taken == Lowest(cart[o])
<1>. USE DEF TypeOK
<1>1. /\ taken \subseteq Units
      /\ \A u \in taken : unit[u] = "in_stock"
      /\ taken \intersect Locked = {}
      /\ Cardinality(taken) = cart[o]
  BY DEF PlaceUnits, Lowest, In
<1>2. /\ status[o] = "none" /\ link[o] = {} /\ amount[o] = 0
      /\ \A by \in By : settle[o][by] = NoTx
  BY DEF PlaceUnits, Placed, Safe, Holds, CartFirst, Running, SettleReady, TxReady
<1>3. /\ status' = [status EXCEPT ![o] = "open"]
      /\ link' = [link EXCEPT ![o] = taken]
      /\ unit' = [u \in Units |-> IF u \in taken THEN "reserved" ELSE unit[u]]
      /\ UNCHANGED <<cart, amount, settle, edit, freed>>
  BY DEF PlaceUnits, Placed, txVars, historyVars
<1>. HIDE DEF taken
<1>4. \A p \in Orders : p # o /\ status[p] \in {"open", "sold"} => link[p] \intersect taken \subseteq freed
  BY <1>1 DEF Safe, Holds, HoldKept
<1>5. PromisedOnce'
  BY <1>2, <1>3, <1>4 DEF Safe, Holds, PromisedOnce
<1>6. ASSUME NEW p \in Orders, status'[p] = "open"
      PROVE  /\ Cardinality(link'[p]) + amount'[p] = cart'[p]
             /\ \A u \in link'[p] \ freed' : unit'[u] \in {"reserved", "changed_type"}
  <2>1. CASE p = o
    BY <1>1, <1>2, <1>3, <2>1
  <2>2. CASE p # o
    BY <1>1, <1>3, <1>6, <2>2 DEF Safe, Holds, HoldKept
  <2>. QED  BY <2>1, <2>2
<1>7. ASSUME NEW p \in Orders, status'[p] = "sold", NEW u \in link'[p]
      PROVE  unit'[u] = "sold" \/ (u \in freed' /\ unit'[u] = "deleted")
  BY <1>1, <1>3, <1>7 DEF Safe, Holds, HoldKept
<1>8. HoldKept'
  BY <1>6, <1>7 DEF HoldKept
<1>9. CartFirst'
  BY <1>1, <1>2, <1>3 DEF Safe, Holds, CartFirst
<1>10. LocksApart'
  BY <1>3 DEF Safe, Running, LocksApart
<1>11. EditReady'
  <2>1. taken \intersect edit.locks = {}
    BY <1>1, LockedDef
  <2>. QED  BY <1>1, <1>3, <2>1 DEF Safe, Running, EditReady
<1>12. ASSUME NEW p \in Orders, NEW b \in By, settle'[p][b] # NoTx
       PROVE  /\ p # o
              /\ link'[p] = link[p] /\ status'[p] = status[p] /\ settle'[p][b] = settle[p][b]
              /\ Linked(p)' = Linked(p)
              /\ \A u \in settle[p][b].units : unit'[u] = unit[u]
  <2>1. p # o
    BY <1>2, <1>3, <1>12
  <2>2. Linked(p)' = Linked(p)
    BY <1>1, <1>3, <2>1 DEF Linked
  <2>3. settle[p][b].units \intersect taken = {}
    BY <1>1, LockedDef
  <2>4. settle[p][b].units \subseteq Units
    BY <1>3, <1>12 DEF Safe, Running, SettleReady, TxReady, Linked
  <2>. QED  BY <1>3, <2>1, <2>2, <2>3, <2>4
<1>13. SettleReady'
  BY <1>3, <1>12 DEF Safe, Running, SettleReady, TxReady
<1>. QED  BY <1>5, <1>8, <1>9, <1>10, <1>11, <1>13 DEF Safe, Holds, Running

\* A settlement that starts has looked at the order and locks what nobody has.
LEMMA BeginSettleSafe ==
    ASSUME TypeOK, Safe, NEW o \in Orders, NEW by \in By, NEW how \in {"release", "consume"},
           BeginSettle(o, by, how)
    PROVE  Safe'
<1>. DEFINE S == Touched(o, how)
            tx == [how |-> how, units |-> S, row |-> Summary(Settled(S, how), row.type)]
<1>. USE DEF TypeOK
<1>1. /\ settle' = [settle EXCEPT ![o][by] = tx]
      /\ UNCHANGED <<unit, cart, status, link, amount, edit, freed>>
      /\ S \intersect Locked = {}
  BY DEF BeginSettle, orderVars, historyVars
<1>2. /\ status[o] # "none"
      /\ how = "consume" => by = "lock" /\ status[o] = "open"
  BY DEF BeginSettle, MaySettle
<1>3. /\ S \subseteq Linked(o)
      /\ how = "release" => \A u \in S : unit[u] = "reserved"
      /\ how = "consume" => S = Linked(o)
  BY DEF Touched
<1>4. tx.how = how /\ tx.units = S
  OBVIOUS
<1>5. /\ S \intersect edit.locks = {}
      /\ \A p \in Orders, b \in By : settle[p][b].units \intersect S = {}
  BY <1>1, LockedDef
<1>. HIDE DEF S, tx
<1>6. settle'[o][by] = tx
  BY <1>1
<1>7. \A p \in Orders, b \in By : p # o \/ b # by => settle'[p][b] = settle[p][b]
  BY <1>1
<1>8. \A p \in Orders : Linked(p)' = Linked(p)
  BY <1>1 DEF Linked
<1>9. SettleReady'
  <2>. SUFFICES ASSUME NEW p \in Orders, NEW b \in By, settle'[p][b] # NoTx
                PROVE  TxReady(p, b)'
    BY DEF SettleReady
  <2>1. CASE p = o /\ b = by
    BY <1>1, <1>2, <1>3, <1>4, <1>6, <1>8, <2>1 DEF TxReady
  <2>2. CASE p # o \/ b # by
    BY <1>1, <1>7, <1>8, <2>2 DEF Safe, Running, SettleReady, TxReady
  <2>. QED  BY <2>1, <2>2
<1>10. LocksApart'
  <2>1. \A p \in Orders, b \in By : settle'[p][b].units \intersect edit'.locks = {}
    BY <1>1, <1>4, <1>5, <1>6, <1>7 DEF Safe, Running, LocksApart
  <2>2. ASSUME NEW p \in Orders, NEW q \in Orders, NEW b \in By, NEW c \in By, p # q \/ b # c
        PROVE  settle'[p][b].units \intersect settle'[q][c].units = {}
    <3>1. CASE p = o /\ b = by
      BY <1>4, <1>5, <1>6, <1>7, <2>2, <3>1
    <3>2. CASE q = o /\ c = by
      BY <1>4, <1>5, <1>6, <1>7, <2>2, <3>2
    <3>3. CASE (p # o \/ b # by) /\ (q # o \/ c # by)
      BY <1>7, <2>2, <3>3 DEF Safe, Running, LocksApart
    <3>. QED  BY <3>1, <3>2, <3>3
  <2>. QED  BY <2>1, <2>2 DEF LocksApart
<1>11. Holds' /\ EditReady'
  BY <1>1 DEF Safe, Holds, Running, PromisedOnce, HoldKept, CartFirst, EditReady
<1>. QED  BY <1>9, <1>10, <1>11 DEF Safe, Running

\* A settlement that commits moves the units it locked, and its order.
LEMMA CommitSettleSafe ==
    ASSUME TypeOK, Safe, NEW o \in Orders, NEW by \in By, CommitSettle(o, by)
    PROVE  Safe'
<1>. DEFINE how == settle[o][by].how
            S == settle[o][by].units
<1>. USE DEF TypeOK
<1>1. /\ settle[o][by] # NoTx
      /\ by = "batch" => settle[o]["lock"] = NoTx
      /\ unit' = Settled(S, how)
      /\ Outcome(o, how, S)
      /\ settle' = [settle EXCEPT ![o][by] = NoTx]
      /\ UNCHANGED <<cart, link, amount, edit>>
  BY DEF CommitSettle, MaySave
<1>2. /\ status[o] # "none"
      /\ S \subseteq Linked(o)
      /\ how \in {"release", "consume"}
      /\ how = "release" => \A u \in S : unit[u] = "reserved"
      /\ how = "consume" => by = "lock" /\ status[o] = "open" /\ S = Linked(o)
  BY <1>1 DEF Safe, Running, SettleReady, TxReady
<1>3. /\ S \intersect edit.locks = {}
      /\ \A p \in Orders, b \in By : p # o \/ b # by => settle[p][b].units \intersect S = {}
  BY DEF Safe, Running, LocksApart
<1>. HIDE DEF how, S
<1>4. /\ settle'[o][by] = NoTx
      /\ \A p \in Orders, b \in By : p # o \/ b # by => settle'[p][b] = settle[p][b]
  BY <1>1
<1>5. Holds'
  BY <1>1, <1>2, SettleApplied DEF Safe
<1>6. ASSUME NEW p \in Orders, NEW b \in By, settle'[p][b] # NoTx
      PROVE  TxReady(p, b)'
  <2>1. p # o \/ b # by
    BY <1>4, <1>6
  <2>2. settle'[p][b] = settle[p][b] /\ settle[p][b] # NoTx
    BY <1>4, <1>6, <2>1
  <2>3. settle[p][b].units \intersect S = {}
    BY <1>3, <2>1
  <2>4. p = o => b = "batch"
    BY <1>1, <2>1, <2>2 DEF By
  <2>5. Holds /\ SettleReady
    BY DEF Safe, Running
  <2>6. S \in SUBSET Linked(o) /\ how \in {"release", "consume"} /\ link' = link
    BY <1>1, <1>2
  <2>. QED  BY <1>1, <2>2, <2>3, <2>4, <2>5, <2>6, SettleReadyStays
<1>7. SettleReady'
  BY <1>6 DEF SettleReady
<1>8. LocksApart'
  <2>1. NoTx.units = {}
    BY DEF NoTx
  <2>2. \A p \in Orders, b \in By : settle'[p][b].units \subseteq settle[p][b].units
    BY <1>4, <2>1
  <2>. QED  BY <1>1, <2>2 DEF Safe, Running, LocksApart
<1>9. EditReady'
  <2>1. Holds /\ EditReady
    BY DEF Safe, Running
  <2>. QED  BY <1>1, <1>2, <1>3, <2>1, EditReadyStays
<1>. QED  BY <1>5, <1>7, <1>8, <1>9 DEF Safe, Running

\* The same in one step, for an order that also has a row of normal stock.
LEMMA SettleAmountSafe ==
    ASSUME TypeOK, Safe, NEW o \in Orders, NEW by \in By, NEW how \in {"release", "consume"},
           SettleAmount(o, by, how)
    PROVE  Safe'
<1>. DEFINE S == Touched(o, how)
<1>. USE DEF TypeOK
<1>1. /\ settle[o][by] = NoTx
      /\ by = "batch" => settle[o]["lock"] = NoTx
      /\ unit' = Settled(S, how)
      /\ Outcome(o, how, S)
      /\ UNCHANGED <<cart, link, amount, settle, edit>>
      /\ S \intersect Locked = {}
  BY DEF SettleAmount, MaySettle, MaySave, txVars
<1>2. /\ status[o] # "none"
      /\ how = "consume" => by = "lock" /\ status[o] = "open"
  BY DEF SettleAmount, MaySettle
<1>3. /\ S \subseteq Linked(o)
      /\ how = "release" => \A u \in S : unit[u] = "reserved"
      /\ how = "consume" => S = Linked(o)
  BY DEF Touched
<1>. HIDE DEF S
<1>4. /\ S \intersect edit.locks = {}
      /\ \A p \in Orders, b \in By : settle[p][b].units \intersect S = {}
  BY <1>1, LockedDef
<1>5. Holds'
  BY <1>1, <1>2, <1>3, SettleApplied DEF Safe
<1>6. ASSUME NEW p \in Orders, NEW b \in By, settle'[p][b] # NoTx
      PROVE  TxReady(p, b)'
  <2>1. settle'[p][b] = settle[p][b] /\ settle[p][b] # NoTx
    BY <1>1, <1>6
  <2>2. p = o => b = "batch"
    BY <1>1, <2>1 DEF By
  <2>3. Holds /\ SettleReady
    BY DEF Safe, Running
  <2>4. S \in SUBSET Linked(o) /\ link' = link
    BY <1>1, <1>3
  <2>5. settle[p][b].units \intersect S = {}
    BY <1>4
  <2>. QED  BY <1>1, <2>1, <2>2, <2>3, <2>4, <2>5, SettleReadyStays
<1>7. SettleReady'
  BY <1>6 DEF SettleReady
<1>8. LocksApart'
  BY <1>1 DEF Safe, Running, LocksApart
<1>9. EditReady'
  <2>1. Holds /\ EditReady
    BY DEF Safe, Running
  <2>. QED  BY <1>1, <1>3, <1>4, <2>1, EditReadyStays
<1>. QED  BY <1>5, <1>7, <1>8, <1>9 DEF Safe, Running

LEMMA OrderSafe ==
    ASSUME TypeOK, Safe, NEW o \in Orders, OrderStep(o)
    PROVE  Safe'
<1>. USE DEF TypeOK, orderVars, txVars, historyVars
<1>1. ASSUME UNCHANGED <<unit, status, link, amount, settle, edit, freed>>,
             \A p \in Orders : cart'[p] # cart[p] => status[p] = "none"
      PROVE  Safe'
  <2>1. Holds'
    BY <1>1 DEF Safe, Holds, PromisedOnce, HoldKept, CartFirst
  <2>2. \A p \in Orders : Linked(p)' = Linked(p)
    BY <1>1 DEF Linked
  <2>3. SettleReady' /\ LocksApart' /\ EditReady'
    BY <1>1, <2>2 DEF Safe, Running, SettleReady, TxReady, LocksApart, EditReady
  <2>. QED  BY <2>1, <2>3 DEF Safe, Running
<1>2. ASSUME NEW n \in Demand[o], Validate(o, n) PROVE Safe'
  BY <1>1, <1>2 DEF Validate
<1>3. CASE PlaceRefused(o)
  BY <1>1, <1>3 DEF PlaceRefused
<1>4. CASE PlaceAmount(o)
  <2>1. /\ status[o] = "none" /\ link[o] = {}
        /\ \A by \in By : settle[o][by] = NoTx
        /\ status' = [status EXCEPT ![o] = "open"]
        /\ amount' = [amount EXCEPT ![o] = cart[o]]
        /\ UNCHANGED <<unit, cart, link, settle, edit, freed>>
    BY <1>4 DEF PlaceAmount, Placed, Safe, Holds, CartFirst, Running, SettleReady, TxReady
  <2>2. Cardinality(link'[o]) + amount'[o] = cart'[o]
    <3>1. Cardinality({}) = 0
      BY FS_EmptySet
    <3>2. link'[o] = {} /\ amount'[o] = cart[o] /\ cart'[o] = cart[o] /\ cart[o] \in Nat
      BY <2>1
    <3>. QED  BY <3>1, <3>2
  <2>3. Holds'
    BY <2>1, <2>2 DEF Safe, Holds, PromisedOnce, HoldKept, CartFirst
  <2>4. \A p \in Orders : Linked(p)' = Linked(p)
    BY <2>1 DEF Linked
  <2>5. SettleReady' /\ LocksApart' /\ EditReady'
    BY <2>1, <2>4 DEF Safe, Running, SettleReady, TxReady, LocksApart, EditReady
  <2>. QED  BY <2>3, <2>5 DEF Safe, Running
<1>5. ASSUME NEW by \in By, AbortSettle(o, by) PROVE Safe'
  <2>1. /\ settle' = [settle EXCEPT ![o][by] = NoTx]
        /\ UNCHANGED <<unit, cart, status, link, amount, edit, freed>>
    BY <1>5 DEF AbortSettle
  <2>2. NoTx.units = {}
    BY DEF NoTx
  <2>3. \A p \in Orders, b \in By : settle'[p][b] \in {settle[p][b], NoTx}
    BY <2>1
  <2>4. Holds' /\ EditReady'
    BY <2>1 DEF Safe, Holds, Running, PromisedOnce, HoldKept, CartFirst, EditReady
  <2>5. \A p \in Orders : Linked(p)' = Linked(p)
    BY <2>1 DEF Linked
  <2>6. SettleReady'
    BY <2>1, <2>3, <2>5 DEF Safe, Running, SettleReady, TxReady
  <2>7. LocksApart'
    BY <2>1, <2>2, <2>3 DEF Safe, Running, LocksApart
  <2>. QED  BY <2>4, <2>6, <2>7 DEF Safe, Running
<1>. QED  BY <1>2, <1>3, <1>4, <1>5, PlaceUnitsSafe, BeginSettleSafe, CommitSettleSafe,
             SettleAmountSafe DEF OrderStep

(***************************************************************************)
(* Vendors keep it as well.                                                *)
(***************************************************************************)

\* A vendor moves units that nobody has reserved and no settlement has locked,
\* or retires reserved ones while nothing runs.
LEMMA UnitsOnly ==
    ASSUME TypeOK, Safe,
           UNCHANGED <<cart, status, link, amount, settle, freed>>,
           NEW W \in SUBSET Units,
           \A u \in Units : u \notin W => unit'[u] = unit[u],
           \A u \in W : \/ unit[u] = "absent"
                        \/ /\ \A o \in Orders, by \in By : u \notin settle[o][by].units
                           /\ unit'[u] # "absent"
                           /\ \/ unit[u] = "in_stock"
                              \/ unit[u] = "reserved" /\ unit'[u] = "changed_type"
    PROVE  Holds' /\ SettleReady'
<1>. USE DEF TypeOK
<1>1. PromisedOnce'
  BY DEF Safe, Holds, PromisedOnce
<1>2. HoldKept' /\ CartFirst'
  <2>1. ASSUME NEW o \in Orders, NEW u \in link[o]
        PROVE  /\ unit[u] # "absent" /\ unit'[u] # "absent"
               /\ \/ unit'[u] = unit[u]
                  \/ unit[u] = "in_stock"
                  \/ unit[u] = "reserved" /\ unit'[u] = "changed_type"
    <3>1. u \in Units /\ unit[u] # "absent"
      BY DEF Safe, Holds, CartFirst
    <3>. QED  BY <3>1
  <2>2. HoldKept'
    BY <2>1 DEF Safe, Holds, HoldKept
  <2>3. CartFirst'
    BY <2>1 DEF Safe, Holds, CartFirst
  <2>. QED  BY <2>2, <2>3
<1>3. ASSUME NEW o \in Orders, NEW by \in By, settle[o][by] # NoTx, NEW u \in Units
      PROVE  /\ u \in settle[o][by].units => u \notin W
             /\ u \in Linked(o)' => u \in Linked(o)
  <2>1. u \in settle[o][by].units => u \in Linked(o)
    BY <1>3 DEF Safe, Running, SettleReady, TxReady
  <2>2. u \in link[o] => unit[u] # "absent"
    BY DEF Safe, Holds, CartFirst
  <2>. QED  BY <2>1, <2>2 DEF Linked
<1>4. ASSUME NEW o \in Orders, NEW by \in By, settle[o][by] # NoTx
      PROVE  /\ settle[o][by].units \subseteq Linked(o)'
             /\ settle[o][by].how = "consume" => settle[o][by].units = Linked(o)'
             /\ \A u \in settle[o][by].units : unit'[u] = unit[u]
  <2>1. settle[o][by].units \subseteq Units
    BY <1>4 DEF Safe, Running, SettleReady, TxReady, Linked
  <2>2. \A u \in settle[o][by].units : u \notin W /\ unit'[u] = unit[u]
    BY <1>3, <1>4, <2>1
  <2>3. settle[o][by].units \subseteq Linked(o)'
    BY <1>4, <2>2 DEF Safe, Running, SettleReady, TxReady, Linked
  <2>4. Linked(o)' \subseteq Linked(o)
    BY <1>3, <1>4 DEF Linked
  <2>5. settle[o][by].how = "consume" => settle[o][by].units = Linked(o)
    BY <1>4 DEF Safe, Running, SettleReady, TxReady
  <2>6. ASSUME settle[o][by].how = "consume" PROVE settle[o][by].units = Linked(o)'
    <3>1. settle[o][by].units = Linked(o)
      BY <2>5, <2>6
    <3>2. Linked(o) \subseteq Linked(o)'
      BY <2>3, <3>1
    <3>. QED  BY <2>4, <3>1, <3>2
  <2>. QED  BY <2>2, <2>3, <2>6
<1>5. SettleReady'
  BY <1>4 DEF Safe, Running, SettleReady, TxReady
<1>. QED  BY <1>1, <1>2, <1>5 DEF Holds

\* A step that leaves units, orders and transactions alone.
LEMMA NothingMoved ==
    ASSUME TypeOK, Safe, UNCHANGED <<unit, cart, status, link, amount, settle, edit, freed>>
    PROVE  Safe'
<1>0. {} \in SUBSET Units
  OBVIOUS
<1>1. Holds' /\ SettleReady'
  BY <1>0, UnitsOnly
<1>2. LocksApart' /\ EditReady'
  BY DEF Safe, Running, LocksApart, EditReady
<1>. QED  BY <1>1, <1>2 DEF Safe, Running

LEMMA EditSafe ==
    ASSUME TypeOK, Safe, Edit
    PROVE  Safe'
<1>. USE DEF TypeOK
<1>1. PICK drop \in SUBSET Editable, new \in {"none"} \union Live :
        \E hold \in SUBSET (Editable \ drop) : BeginEdit(drop, hold, new)
  BY DEF Edit
<1>2. PICK hold \in SUBSET (Editable \ drop) : BeginEdit(drop, hold, new)
  BY <1>1
<1>. DEFINE line == IF new = "none" THEN {} ELSE Fresh(1)
            to == [u \in drop \union hold \union line |->
                      IF u \in drop THEN "deleted" ELSE IF u \in hold THEN "reserved" ELSE new]
            after == [u \in Units |-> IF u \in DOMAIN to THEN to[u] ELSE unit[u]]
<1>3. edit' = [busy |-> TRUE, to |-> to, locks |-> Existing, row |-> Summary(after, "serialized")]
  BY <1>2 DEF BeginEdit
<1>4. UNCHANGED <<unit, cart, status, link, amount, settle, freed>>
  BY <1>2 DEF BeginEdit, orderVars, historyVars
<1>5. \A u \in drop \union hold : u \in Units /\ unit[u] = "in_stock" /\ u \in Existing
  BY DEF Editable, In, Existing, Live
<1>6. \A u \in line : u \in Units /\ unit[u] = "absent" /\ new \in Live
  BY DEF Fresh
<1>7. EditReady'
  <2>1. DOMAIN to \subseteq Units
    BY <1>5, <1>6
  <2>2. ASSUME NEW u \in DOMAIN to
        PROVE  /\ to[u] \in {"deleted", "in_stock", "reserved"}
               /\ unit[u] = "absent" \/ (unit[u] = "in_stock" /\ u \in Existing)
    BY <1>5, <1>6 DEF Live
  <2>. QED  BY <1>3, <1>4, <2>1, <2>2 DEF EditReady
<1>8. LocksApart'
  <2>1. \A o \in Orders, by \in By : settle[o][by].units \intersect Existing = {}
    BY LockedDef DEF Edit
  <2>2. edit'.locks = Existing
    BY <1>3
  <2>. QED  BY <1>4, <2>1, <2>2 DEF Safe, Running, LocksApart
<1>9. Holds' /\ SettleReady'
  <2>1. {} \in SUBSET Units
    OBVIOUS
  <2>. QED  BY <1>4, <2>1, UnitsOnly
<1>. QED  BY <1>7, <1>8, <1>9 DEF Safe, Running

LEMMA VendorSafe ==
    ASSUME TypeOK, Safe, VendorStep
    PROVE  Safe'
<1>. USE DEF TypeOK, orderVars, txVars, historyVars
<1>1. CASE CommitEdit
  <2>1. EditReady /\ LocksApart /\ edit.busy
    BY <1>1 DEF Safe, Running, CommitEdit
  <2>2. /\ unit' = [u \in Units |-> IF u \in DOMAIN edit.to THEN edit.to[u] ELSE unit[u]]
        /\ edit' = NoEdit
        /\ UNCHANGED <<cart, status, link, amount, settle, freed>>
    BY <1>1 DEF CommitEdit
  <2>3. DOMAIN edit.to \in SUBSET Units
    BY <2>1 DEF EditReady
  <2>4. ASSUME NEW u \in DOMAIN edit.to
        PROVE  \/ unit[u] = "absent"
               \/ /\ \A o \in Orders, by \in By : u \notin settle[o][by].units
                  /\ unit'[u] # "absent"
                  /\ unit[u] = "in_stock"
    BY <2>1, <2>2, <2>3 DEF EditReady, LocksApart
  <2>5. Holds' /\ SettleReady'
    BY <2>2, <2>3, <2>4, UnitsOnly
  <2>6. EditReady' /\ LocksApart'
    BY <2>1, <2>2 DEF NoEdit, EditReady, LocksApart
  <2>. QED  BY <2>5, <2>6 DEF Safe, Running
<1>2. CASE AbortEdit
  <2>3. {} \in SUBSET Units
    OBVIOUS
  <2>1. Holds' /\ SettleReady'
    BY <1>2, <2>3, UnitsOnly DEF AbortEdit
  <2>2. EditReady' /\ LocksApart'
    BY <1>2 DEF AbortEdit, NoEdit, EditReady, Safe, Running, LocksApart
  <2>. QED  BY <2>1, <2>2 DEF Safe, Running
<1>3. CASE ToNormal
  <2>. DEFINE W == {u \in Units : unit[u] \in Live}
  <2>1. /\ unit' = [u \in Units |-> IF u \in W THEN "changed_type" ELSE unit[u]]
        /\ UNCHANGED <<cart, status, link, amount, settle, edit, freed>>
        /\ W \subseteq Existing
    BY <1>3 DEF ToNormal, Existing
  <2>2. \A o \in Orders, by \in By : settle[o][by].units \intersect W = {}
    BY <1>3, <2>1, LockedDef DEF ToNormal
  <2>3. Holds' /\ SettleReady'
    <3>1. \A u \in W : unit[u] \in {"in_stock", "reserved"} /\ unit'[u] = "changed_type"
      BY <2>1 DEF Live
    <3>2. \A u \in Units : u \notin W => unit'[u] = unit[u]
      BY <2>1
    <3>. HIDE DEF W
    <3>3. W \in SUBSET Units
      BY DEF W
    <3>. QED  BY <2>1, <2>2, <3>1, <3>2, <3>3, UnitsOnly
  <2>4. EditReady' /\ LocksApart'
    BY <1>3, <2>1 DEF ToNormal, EditReady, Safe, Running, LocksApart
  <2>. QED  BY <2>3, <2>4 DEF Safe, Running
<1>4. ASSUME NEW q \in 1 .. MaxQuantity, NEW k \in 0 .. q, ReceiveUnits(q, k) PROVE Safe'
  <2>1. \A u \in Fresh(k) : u \in Units /\ unit[u] = "absent" /\ u \notin DOMAIN edit.to
    BY DEF Fresh
  <2>2. /\ unit' = [u \in Units |-> IF u \in Fresh(k) THEN "in_stock" ELSE unit[u]]
        /\ UNCHANGED <<cart, status, link, amount, settle, edit, freed>>
    BY <1>4 DEF ReceiveUnits
  <2>3. Holds' /\ SettleReady'
    BY <2>1, <2>2, UnitsOnly
  <2>4. EditReady' /\ LocksApart'
    BY <2>1, <2>2 DEF EditReady, Safe, Running, LocksApart
  <2>. QED  BY <2>3, <2>4 DEF Safe, Running
<1>5. ASSUME NEW q \in 1 .. MaxQuantity, ReceiveAmount(q) PROVE Safe'
  BY <1>5, NothingMoved DEF ReceiveAmount
<1>6. ASSUME NEW q \in 0 .. MaxQuantity, NEW s \in 0 .. MaxQuantity, SetNormal(q, s) PROVE Safe'
  BY <1>6, NothingMoved DEF SetNormal
<1>7. CASE Refresh
  BY <1>7, NothingMoved DEF Refresh
<1>. QED  BY <1>1, <1>2, <1>3, <1>4, <1>5, <1>6, <1>7, EditSafe DEF VendorStep, Receive

(***************************************************************************)
(* The theorems.                                                           *)
(***************************************************************************)

\* The strengthened invariant: holds, carts, settlements and edits in progress.
THEOREM UnitInvariance == Spec => []IInv
<1>1. Init => IInv
  BY InitType, InitSafe DEF IInv
<1>2. IInv /\ [Next]_vars => IInv'
  <2>. SUFFICES ASSUME IInv, [Next]_vars PROVE IInv'
    OBVIOUS
  <2>1. CASE UNCHANGED vars
    <3>1. TypeOK'
      BY <2>1 DEF vars, orderVars, txVars, historyVars, IInv, TypeOK
    <3>2. Safe'
      BY <2>1, NothingMoved DEF vars, orderVars, txVars, historyVars, IInv
    <3>. QED  BY <3>1, <3>2 DEF IInv
  <2>2. CASE VendorStep
    BY <2>2, VendorType, VendorSafe DEF IInv, Safe, Running
  <2>3. ASSUME NEW o \in Orders, OrderStep(o) PROVE IInv'
    BY <2>3, OrderType, OrderSafe DEF IInv
  <2>. QED  BY <2>1, <2>2, <2>3 DEF Next
<1>. QED  BY <1>1, <1>2, PTL DEF Spec

\* The CHECKs of the row hold although it is saved from old counts.
THEOREM UnitTyped == Spec => []TypeOK
<1>1. IInv => TypeOK
  BY DEF IInv
<1>. QED  BY <1>1, UnitInvariance, PTL

\* Only a unit that a late batch freed for an order that had ended already is
\* ever promised to two orders, open or sold (_reserve_units, expire_orders).
THEOREM OneHolder == Spec => []PromisedOnce
<1>1. IInv => PromisedOnce
  BY DEF IInv, Safe, Holds
<1>. QED  BY <1>1, UnitInvariance, PTL

\* No edit or conversion takes a held unit, and of the settlements of other
\* orders only the second release of an ended one does.
THEOREM HoldsAreKept == Spec => []HoldKept
<1>1. IInv => HoldKept
  BY DEF IInv, Safe, Holds
<1>. QED  BY <1>1, UnitInvariance, PTL

\* o holds u, and whoever is settling o is about to move u.
Holder(o, u) ==
    /\ status[o] = "open" /\ u \in link[o]
    /\ \A by \in By : settle[o][by] # NoTx => u \in settle[o][by].units

\* A reserved unit has such an order, or a vendor took it off sale.
Held == \A u \in In(unit, "reserved") : u \in withheld \/ \E o \in Orders : Holder(o, u)

\* What leaves a unit that stays reserved with its holder.
LEMMA HolderStays ==
    ASSUME NEW o \in Orders, NEW u,
           status'[o] = status[o], link'[o] = link[o],
           \A by \in By : settle'[o][by] \in {settle[o][by], NoTx},
           Holder(o, u)
    PROVE  Holder(o, u)'
BY DEF Holder

LEMMA HeldStep ==
    ASSUME IInv, Held, Next
    PROVE  Held'
<1>. USE DEF IInv, TypeOK, Held, In, orderVars, txVars, historyVars
<1>1. ASSUME \A u \in Units : unit'[u] = "reserved" => unit[u] = "reserved" \/ u \in withheld',
             withheld \subseteq withheld',
             UNCHANGED <<status, link>>,
             \A o \in Orders, by \in By : settle'[o][by] \in {settle[o][by], NoTx}
      PROVE  Held'
  <2>. SUFFICES ASSUME NEW u \in Units, unit'[u] = "reserved", u \notin withheld'
                PROVE  \E o \in Orders : Holder(o, u)'
    OBVIOUS
  <2>1. PICK o \in Orders : Holder(o, u)
    BY <1>1
  <2>. QED  BY <1>1, <2>1, HolderStays
<1>2. ASSUME NEW o \in Orders, OrderStep(o) PROVE Held'
  <2>1. ASSUME NEW n \in Demand[o], Validate(o, n) PROVE Held'
    BY <1>1, <2>1 DEF Validate
  <2>2. CASE PlaceUnits(o)
    <3>. DEFINE taken == Lowest(cart[o])
    <3>1. /\ status[o] = "none"
          /\ \A by \in By : settle[o][by] = NoTx
          /\ status' = [status EXCEPT ![o] = "open"]
          /\ link' = [link EXCEPT ![o] = taken]
          /\ unit' = [u \in Units |-> IF u \in taken THEN "reserved" ELSE unit[u]]
          /\ UNCHANGED <<settle, withheld>>
      BY <2>2 DEF PlaceUnits, Placed, Safe, Running, SettleReady, TxReady
    <3>. HIDE DEF taken
    <3>. SUFFICES ASSUME NEW u \in Units, unit'[u] = "reserved", u \notin withheld'
                  PROVE  \E p \in Orders : Holder(p, u)'
      OBVIOUS
    <3>2. CASE u \in taken
      BY <3>1, <3>2 DEF Holder
    <3>3. CASE u \notin taken
      <4>1. PICK p \in Orders : Holder(p, u)
        BY <3>1, <3>3
      <4>2. p # o
        BY <3>1, <4>1 DEF Holder
      <4>. QED  BY <3>1, <4>1, <4>2 DEF Holder
    <3>. QED  BY <3>2, <3>3
  <2>3. CASE PlaceAmount(o)
    <3>1. /\ status[o] = "none"
          /\ status' = [status EXCEPT ![o] = "open"]
          /\ UNCHANGED <<unit, link, settle, withheld>>
      BY <2>3 DEF PlaceAmount, Placed
    <3>. SUFFICES ASSUME NEW u \in Units, unit'[u] = "reserved", u \notin withheld'
                  PROVE  \E p \in Orders : Holder(p, u)'
      OBVIOUS
    <3>2. PICK p \in Orders : Holder(p, u)
      BY <3>1
    <3>. QED  BY <3>1, <3>2 DEF Holder
  <2>4. CASE PlaceRefused(o)
    BY <1>1, <2>4 DEF PlaceRefused
  <2>5. ASSUME NEW by \in By, NEW how \in {"release", "consume"}, BeginSettle(o, by, how)
        PROVE  Held'
    <3>. DEFINE S == Touched(o, how)
                tx == [how |-> how, units |-> S, row |-> Summary(Settled(S, how), row.type)]
    <3>1. /\ settle' = [settle EXCEPT ![o][by] = tx]
          /\ UNCHANGED <<unit, status, link, withheld>>
      BY <2>5 DEF BeginSettle
    <3>2. \A u \in Units : u \in link[o] /\ unit[u] = "reserved" => u \in tx.units
      BY DEF Touched, Linked
    <3>. HIDE DEF tx
    <3>. SUFFICES ASSUME NEW u \in Units, unit'[u] = "reserved", u \notin withheld'
                  PROVE  \E p \in Orders : Holder(p, u)'
      OBVIOUS
    <3>3. PICK p \in Orders : Holder(p, u)
      BY <3>1
    <3>. QED  BY <3>1, <3>2, <3>3 DEF Holder
  <2>6. ASSUME NEW by \in By, NEW how \in {"release", "consume"}, SettleAmount(o, by, how)
        PROVE  Held'
    <3>. DEFINE S == Touched(o, how)
    <3>1. /\ unit' = Settled(S, how)
          /\ status' = [status EXCEPT ![o] = IF how = "release" THEN "ended" ELSE "sold"]
          /\ UNCHANGED <<link, settle, withheld>>
      BY <2>6 DEF SettleAmount, Outcome
    <3>2. \A u \in link[o] : unit[u] = "reserved" => u \in S
      BY DEF Touched, Linked
    <3>3. \A u \in Units : unit'[u] = "reserved" => u \notin S /\ unit[u] = "reserved"
      BY <3>1, SettledElsewhere
    <3>. HIDE DEF S
    <3>. SUFFICES ASSUME NEW u \in Units, unit'[u] = "reserved", u \notin withheld'
                  PROVE  \E p \in Orders : Holder(p, u)'
      OBVIOUS
    <3>4. PICK p \in Orders : Holder(p, u)
      BY <3>1, <3>3
    <3>5. p # o
      BY <3>2, <3>3, <3>4 DEF Holder
    <3>. QED  BY <3>1, <3>4, <3>5 DEF Holder
  <2>7. ASSUME NEW by \in By, CommitSettle(o, by) PROVE Held'
    <3>. DEFINE how == settle[o][by].how
                S == settle[o][by].units
    <3>1. /\ settle[o][by] # NoTx
          /\ unit' = Settled(S, how)
          /\ status' = [status EXCEPT ![o] = IF how = "release" THEN "ended" ELSE "sold"]
          /\ settle' = [settle EXCEPT ![o][by] = NoTx]
          /\ UNCHANGED <<link, withheld>>
      BY <2>7 DEF CommitSettle, Outcome
    <3>3. \A u \in Units : unit'[u] = "reserved" => u \notin S /\ unit[u] = "reserved"
      BY <3>1, SettledElsewhere
    <3>. SUFFICES ASSUME NEW u \in Units, unit'[u] = "reserved", u \notin withheld'
                  PROVE  \E p \in Orders : Holder(p, u)'
      OBVIOUS
    <3>4. PICK p \in Orders : Holder(p, u)
      BY <3>1, <3>3
    <3>5. p # o
      BY <3>1, <3>3, <3>4 DEF Holder
    <3>. QED  BY <3>1, <3>4, <3>5 DEF Holder
  <2>8. ASSUME NEW by \in By, AbortSettle(o, by) PROVE Held'
    <3>1. /\ settle' = [settle EXCEPT ![o][by] = NoTx]
          /\ UNCHANGED <<unit, status, link, withheld>>
      BY <2>8 DEF AbortSettle
    <3>2. \A p \in Orders, b \in By : settle'[p][b] \in {settle[p][b], NoTx}
      BY <3>1
    <3>. QED  BY <1>1, <3>1, <3>2
  <2>. QED  BY <1>2, <2>1, <2>2, <2>3, <2>4, <2>5, <2>6, <2>7, <2>8 DEF OrderStep
<1>3. CASE VendorStep
  <2>1. CASE CommitEdit
    <3>1. /\ withheld' = withheld \union {u \in DOMAIN edit.to : edit.to[u] = "reserved"}
          /\ unit' = [u \in Units |-> IF u \in DOMAIN edit.to THEN edit.to[u] ELSE unit[u]]
          /\ UNCHANGED <<status, link, settle>>
      BY <2>1 DEF CommitEdit
    <3>. QED  BY <1>1, <3>1
  <2>2. CASE ToNormal
    BY <1>1, <2>2 DEF ToNormal, Live
  <2>3. ASSUME NEW q \in 1 .. MaxQuantity, NEW k \in 0 .. q, ReceiveUnits(q, k) PROVE Held'
    BY <1>1, <2>3 DEF ReceiveUnits
  <2>4. ASSUME UNCHANGED <<unit, status, link, settle, withheld>> PROVE Held'
    BY <1>1, <2>4
  <2>. QED  BY <1>3, <2>1, <2>2, <2>3, <2>4
            DEF VendorStep, Receive, ReceiveAmount, SetNormal, Refresh, Edit, BeginEdit, AbortEdit
<1>. QED  BY <1>2, <1>3 DEF Next

\* No unit stays off the shelf for an order that ended.
THEOREM NoOrphanHold == Spec => []ReservedForSomebody
<1>1. Init => Held
  BY DEF Init, Held, In
<1>2. IInv /\ Held /\ [Next]_vars => Held'
  <2>1. ASSUME Held, UNCHANGED vars PROVE Held'
    BY <2>1 DEF vars, orderVars, txVars, historyVars, Held, Holder, In
  <2>. QED  BY <2>1, HeldStep
<1>3. Held => ReservedForSomebody
  BY DEF Held, Holder, ReservedForSomebody
<1>. QED  BY <1>1, <1>2, <1>3, UnitInvariance, PTL DEF Spec

\* Which steps move a historical unit: a sale of the order that holds it.
LEMMA HistoryStep ==
    ASSUME IInv, Next
    PROVE  KeepsHistory
<1>. USE DEF IInv, TypeOK, orderVars, txVars, historyVars
<1>. SUFFICES ASSUME NEW u \in Units, unit[u] \in Historical
              PROVE  \/ unit'[u] = unit[u]
                      \/ /\ unit'[u] = "sold"
                         /\ \E o \in Orders : u \in link[o] /\ status[o] = "open" /\ status'[o] = "sold"
  BY DEF KeepsHistory, Historical
<1>1. ASSUME NEW o \in Orders, OrderStep(o), unit'[u] # unit[u]
      PROVE  /\ unit'[u] = "sold"
             /\ u \in link[o] /\ status[o] = "open" /\ status'[o] = "sold"
  <2>1. ASSUME NEW by \in By, CommitSettle(o, by)
        PROVE  /\ unit'[u] = "sold"
               /\ u \in link[o] /\ status[o] = "open" /\ status'[o] = "sold"
    <3>. DEFINE how == settle[o][by].how
                S == settle[o][by].units
    <3>1. /\ TxReady(o, by)
          /\ unit' = Settled(S, how)
          /\ status' = [status EXCEPT ![o] = IF how = "release" THEN "ended" ELSE "sold"]
      BY <2>1 DEF CommitSettle, Outcome, Safe, Running, SettleReady
    <3>2. u \in S /\ unit[u] # "reserved"
      BY <1>1, <3>1, SettledElsewhere DEF Historical
    <3>3. how = "consume" /\ status[o] = "open" /\ u \in link[o]
      BY <3>1, <3>2 DEF TxReady, Linked
    <3>4. unit'[u] = "sold"
      BY <3>1, <3>2, <3>3, SettledElsewhere
    <3>. QED  BY <3>1, <3>3, <3>4
  <2>2. CASE PlaceUnits(o)
    BY <1>1, <2>2 DEF PlaceUnits, Lowest, In, Historical
  <2>3. ASSUME NEW by \in By, NEW how \in {"release", "consume"}, SettleAmount(o, by, how)
        PROVE  /\ unit'[u] = "sold"
               /\ u \in link[o] /\ status[o] = "open" /\ status'[o] = "sold"
    <3>. DEFINE S == Touched(o, how)
    <3>1. /\ unit' = Settled(S, how)
          /\ status' = [status EXCEPT ![o] = IF how = "release" THEN "ended" ELSE "sold"]
          /\ how = "consume" => status[o] = "open"
      BY <2>3 DEF SettleAmount, Outcome, MaySettle
    <3>2. u \in S
      BY <1>1, <3>1, SettledElsewhere
    <3>3. how = "consume" /\ u \in link[o]
      BY <3>2 DEF Touched, Linked, Historical
    <3>4. unit'[u] = "sold"
      BY <3>1, <3>2, <3>3, SettledElsewhere
    <3>. QED  BY <3>1, <3>3, <3>4
  <2>. QED  BY <1>1, <2>1, <2>2, <2>3
            DEF OrderStep, Validate, PlaceAmount, PlaceRefused, BeginSettle, AbortSettle
<1>2. ASSUME VendorStep PROVE unit'[u] = unit[u]
  <2>1. CASE CommitEdit
    BY <2>1 DEF CommitEdit, Safe, Running, EditReady, Historical
  <2>2. CASE ToNormal
    BY <2>2 DEF ToNormal, Live, Historical
  <2>3. ASSUME NEW q \in 1 .. MaxQuantity, NEW k \in 0 .. q, ReceiveUnits(q, k)
        PROVE  unit'[u] = unit[u]
    BY <2>3 DEF ReceiveUnits, Fresh, Historical
  <2>. QED  BY <1>2, <2>1, <2>2, <2>3
            DEF VendorStep, Receive, ReceiveAmount, SetNormal, Refresh, Edit, BeginEdit, AbortEdit
<1>. QED  BY <1>1, <1>2 DEF Next

\* A sold unit never returns, a retired one leaves by its own order's sale.
THEOREM HistoryKept == Spec => HistoryStays
<1>1. IInv /\ [Next]_vars => [KeepsHistory]_vars
  BY HistoryStep
<1>. QED  BY <1>1, UnitInvariance, PTL DEF Spec, HistoryStays

=============================================================================
