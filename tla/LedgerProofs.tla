----------------------------- MODULE LedgerProofs -----------------------------
(***************************************************************************)
(* What has to balance: the stock of OrderFlow, the cost layers of         *)
(* SupplyLayers and the points of PointsLedger.  Their properties compare  *)
(* a column with a sum over a finite set, and the lemmas about such sums   *)
(* come first.                                                             *)
(*                                                                         *)
(* Induction over a finite set is by a smallest counterexample: the        *)
(* theorems of the library that do so are stated for a relation and need   *)
(* no operator as a parameter.                                             *)
(***************************************************************************)
EXTENDS OrderFlowProofs, SupplyLayers, PointsLedger, FiniteSetTheorems,
        SequenceTheorems, TLAPS

(***************************************************************************)
(* Finite sums.                                                            *)
(***************************************************************************)

\* A nonempty family of subsets of a finite set has a minimal member.
LEMMA SmallestSubset ==
  ASSUME NEW S, IsFiniteSet(S), NEW F \in SUBSET (SUBSET S), F # {}
  PROVE  \E A \in F : \A B \in F : B \subseteq A => B = A
<1>1. IsWellFoundedOn(StrictSubsetOrdering(S), SUBSET S)
  BY FS_StrictSubsetOrderingWellFounded, FS_FiniteSubsetsOfFinite
<1>2. PICK A \in F : \A B \in F : ~ (<<B, A>> \in StrictSubsetOrdering(S))
  BY <1>1, WFMin
<1> QED BY <1>2 DEF StrictSubsetOrdering

\* Induction: G holds the empty set and every set all of whose proper subsets
\* it holds.
LEMMA SubsetInduction ==
  ASSUME NEW S, IsFiniteSet(S), NEW G,
         \A T \in SUBSET S : (\A U \in SUBSET T : U # T => U \in G) => T \in G
  PROVE  S \in G
<1>. DEFINE F == {T \in SUBSET S : T \notin G}
<1>. SUFFICES ASSUME S \notin G PROVE FALSE
  OBVIOUS
<1>1. F \in SUBSET (SUBSET S) /\ F # {}
  OBVIOUS
<1>2. PICK T \in F : \A B \in F : B \subseteq T => B = T
  <2>. HIDE DEF F
  <2>. QED BY <1>1, SmallestSubset
<1> QED BY <1>2

Pick(s) == CHOOSE x \in s : TRUE

\* g adds up f, as the fold of the community modules does.
Adds(g, f, T) ==
    g = [s \in SUBSET T |-> IF s = {} THEN 0 ELSE f[Pick(s)] + g[s \ {Pick(s)}]]

LEMMA PickIn == ASSUME NEW s, s # {} PROVE Pick(s) \in s
BY DEF Pick

\* Induction along the choices of the fold.
LEMMA PickInduction ==
  ASSUME NEW S, IsFiniteSet(S), NEW G, {} \in G,
         \A T \in SUBSET S : T # {} /\ T \ {Pick(T)} \in G => T \in G
  PROVE  S \in G
<1>1. ASSUME NEW T \in SUBSET S, \A U \in SUBSET T : U # T => U \in G
      PROVE  T \in G
  BY <1>1, PickIn
<1>. QED BY <1>1, SubsetInduction

LEMMA Unfold ==
  ASSUME NEW f, NEW S
  PROVE  SumFunctionOnSet(f, S) = (CHOOSE g : Adds(g, f, S))[S]
BY DEF SumFunctionOnSet, FoldFunctionOnSet, MapThenFoldSet, Adds, Pick

LEMMA AddsAt ==
  ASSUME NEW f, NEW T, NEW g, Adds(g, f, T), NEW s \in SUBSET T
  PROVE  g[s] = IF s = {} THEN 0 ELSE f[Pick(s)] + g[s \ {Pick(s)}]
<1>. DEFINE body(x) == IF x = {} THEN 0 ELSE f[Pick(x)] + g[x \ {Pick(x)}]
<1>1. g = [x \in SUBSET T |-> body(x)]
  BY DEF Adds
<1>2. g[s] = body(s)
  <2>. HIDE DEF body
  <2>. QED BY <1>1
<1> QED BY <1>2

\* Two functions that add up f agree where both are defined.
LEMMA AddsUnique ==
  ASSUME NEW f, NEW T, IsFiniteSet(T), NEW g, Adds(g, f, T),
         NEW U, T \subseteq U, NEW h, Adds(h, f, U)
  PROVE  g[T] = h[T]
<1>. DEFINE G == {s \in SUBSET T : g[s] = h[s]}
<1>1. {} \in G
  <2>1. g[{}] = 0 /\ h[{}] = 0
    BY AddsAt
  <2>. QED BY <2>1
<1>2. ASSUME NEW A \in SUBSET T, A # {}, A \ {Pick(A)} \in G PROVE A \in G
  BY <1>2, AddsAt
<1>3. T \in G
  <2>. HIDE DEF G
  <2>. QED BY <1>1, <1>2, PickInduction
<1> QED BY <1>3

\* The recursion of the fold defines a function: that for T is put together
\* from those for the proper subsets of T.
LEMMA AddsExists ==
  ASSUME NEW f, NEW S, IsFiniteSet(S)
  PROVE  \E g : Adds(g, f, S)
<1>. DEFINE G == {T \in SUBSET S : \E g : Adds(g, f, T)}
<1>1. ASSUME NEW T \in SUBSET S, \A U \in SUBSET T : U # T => U \in G
      PROVE  T \in G
  <2>. DEFINE at(U) == CHOOSE g : Adds(g, f, U)
              H(U) == at(U)[U]
              g == [s \in SUBSET T |-> IF s = {} THEN 0 ELSE f[Pick(s)] + H(s \ {Pick(s)})]
  <2>1. ASSUME NEW U \in SUBSET T, U # T PROVE Adds(at(U), f, U) /\ IsFiniteSet(U)
    <3>1. \E h : Adds(h, f, U)
      BY <1>1, <2>1
    <3>. QED BY <3>1, FS_Subset
  <2>2. ASSUME NEW U \in SUBSET T, U # T PROVE g[U] = H(U)
    <3>. DEFINE V == U \ {Pick(U)}
    <3>1. H(U) = IF U = {} THEN 0 ELSE f[Pick(U)] + at(U)[V]
      <4>1. Adds(at(U), f, U) /\ U \in SUBSET U
        BY <2>1, <2>2
      <4>. HIDE DEF at
      <4>. QED BY <4>1, AddsAt
    <3>2. H(V) = at(U)[V]
      <4>1. V \in SUBSET T /\ V # T /\ V \subseteq U
        BY <2>2
      <4>2. Adds(at(V), f, V) /\ IsFiniteSet(V) /\ Adds(at(U), f, U)
        BY <2>1, <2>2, <4>1
      <4>. HIDE DEF V, at
      <4>. QED BY <4>1, <4>2, AddsUnique
    <3>. QED BY <3>1, <3>2
  <2>. DEFINE old(s) == IF s = {} THEN 0 ELSE f[Pick(s)] + H(s \ {Pick(s)})
              new(s) == IF s = {} THEN 0 ELSE f[Pick(s)] + g[s \ {Pick(s)}]
  <2>3. \A s \in SUBSET T : old(s) = new(s)
    <3>1. ASSUME NEW s \in SUBSET T, s # {} PROVE g[s \ {Pick(s)}] = H(s \ {Pick(s)})
      <4>1. s \ {Pick(s)} \in SUBSET T /\ s \ {Pick(s)} # T
        BY <3>1, PickIn
      <4>. QED BY <2>2, <4>1
    <3>. HIDE DEF g, H
    <3>. QED BY <3>1
  <2>4. g = [s \in SUBSET T |-> old(s)]
    OBVIOUS
  <2>5. g = [s \in SUBSET T |-> new(s)]
    <3>. HIDE DEF g, H, old, new
    <3>. QED BY <2>3, <2>4
  <2>. QED BY <2>5 DEF Adds
<1>2. S \in G
  <2>1. \A T \in SUBSET S : (\A U \in SUBSET T : U # T => U \in G) => T \in G
    BY <1>1
  <2>. HIDE DEF G
  <2>. QED BY <2>1, SubsetInduction
<1> QED BY <1>2

LEMMA SumEmpty == ASSUME NEW f PROVE SumFunctionOnSet(f, {}) = 0
<1>. DEFINE g == CHOOSE g : Adds(g, f, {})
<1>1. Adds(g, f, {})
  BY AddsExists, FS_EmptySet
<1>. HIDE DEF g
<1>2. g[{}] = 0
  BY <1>1, AddsAt
<1> QED BY <1>2, Unfold DEF g

LEMMA SumPick ==
  ASSUME NEW f, NEW S, IsFiniteSet(S), S # {}
  PROVE  /\ Pick(S) \in S
         /\ SumFunctionOnSet(f, S) = f[Pick(S)] + SumFunctionOnSet(f, S \ {Pick(S)})
<1>. DEFINE at(U) == CHOOSE g : Adds(g, f, U)
            B == S \ {Pick(S)}
<1>0. IsFiniteSet(B)
  BY FS_Subset
<1>1. Adds(at(S), f, S) /\ Adds(at(B), f, B)
  BY <1>0, AddsExists
<1>2. SumFunctionOnSet(f, S) = at(S)[S] /\ SumFunctionOnSet(f, B) = at(B)[B]
  BY Unfold
<1>. HIDE DEF at
<1>3. at(S)[S] = f[Pick(S)] + at(S)[B]
  BY <1>1, AddsAt
<1>4. B \subseteq S
  OBVIOUS
<1>5. at(B)[B] = at(S)[B]
  <2>. HIDE DEF B
  <2>. QED BY <1>0, <1>1, <1>4, AddsUnique
<1> QED BY <1>2, <1>3, <1>5, PickIn

LEMMA SumType ==
  ASSUME NEW S, IsFiniteSet(S), NEW f, NEW Type \in {Nat, Int}, \A x \in S : f[x] \in Type
  PROVE  SumFunctionOnSet(f, S) \in Type
<1>. DEFINE G == {T \in SUBSET S : SumFunctionOnSet(f, T) \in Type}
<1>1. {} \in G
  BY SumEmpty
<1>2. ASSUME NEW T \in SUBSET S, T # {}, T \ {Pick(T)} \in G PROVE T \in G
  <2>1. IsFiniteSet(T)
    BY FS_Subset
  <2>2. /\ Pick(T) \in T
        /\ SumFunctionOnSet(f, T) = f[Pick(T)] + SumFunctionOnSet(f, T \ {Pick(T)})
    BY <1>2, <2>1, SumPick
  <2>3. CASE Type = Nat
    BY <1>2, <2>2, <2>3
  <2>4. CASE Type = Int
    BY <1>2, <2>2, <2>4
  <2>. QED BY <2>3, <2>4
<1>3. S \in G
  <2>. HIDE DEF G
  <2>. QED BY <1>1, <1>2, PickInduction
<1> QED BY <1>3

\* The sum does not depend on the order in which the elements are taken.
LEMMA SumRemove ==
  ASSUME NEW S, IsFiniteSet(S), NEW f, \A x \in S : f[x] \in Int, NEW a \in S
  PROVE  SumFunctionOnSet(f, S) = f[a] + SumFunctionOnSet(f, S \ {a})
<1>. DEFINE G == {T \in SUBSET S : \A x \in T :
                    SumFunctionOnSet(f, T) = f[x] + SumFunctionOnSet(f, T \ {x})}
<1>1. ASSUME NEW T \in SUBSET S, \A U \in SUBSET T : U # T => U \in G, NEW x \in T
      PROVE  SumFunctionOnSet(f, T) = f[x] + SumFunctionOnSet(f, T \ {x})
  <2>. DEFINE y == Pick(T)
              B == T \ {y}
              C == T \ {x}
              D == T \ {x, y}
  <2>1. IsFiniteSet(T) /\ IsFiniteSet(D)
    BY FS_Subset
  <2>2. y \in T /\ SumFunctionOnSet(f, T) = f[y] + SumFunctionOnSet(f, B)
    BY <2>1, SumPick
  <2>3. CASE x = y
    BY <2>2, <2>3
  <2>4. CASE x # y
    <3>1. SumFunctionOnSet(f, B) = f[x] + SumFunctionOnSet(f, D)
      <4>1. B \in G /\ x \in B /\ B \ {x} = D
        BY <1>1, <2>2, <2>4
      <4>. QED BY <4>1
    <3>2. SumFunctionOnSet(f, C) = f[y] + SumFunctionOnSet(f, D)
      <4>1. C \in G /\ y \in C /\ C \ {y} = D
        BY <1>1, <2>2, <2>4
      <4>. QED BY <4>1
    <3>3. SumFunctionOnSet(f, D) \in Int /\ f[x] \in Int /\ f[y] \in Int
      BY <2>1, <2>2, SumType
    <3>. QED BY <2>2, <3>1, <3>2, <3>3
  <2>. QED BY <2>3, <2>4
<1>2. S \in G
  <2>1. \A T \in SUBSET S : (\A U \in SUBSET T : U # T => U \in G) => T \in G
    BY <1>1
  <2>. HIDE DEF G
  <2>. QED BY <2>1, SubsetInduction
<1> QED BY <1>2

LEMMA SumAdd ==
  ASSUME NEW S, IsFiniteSet(S), NEW f, NEW g, NEW h,
         \A x \in S : f[x] \in Int /\ g[x] \in Int /\ h[x] = f[x] + g[x]
  PROVE  SumFunctionOnSet(h, S) = SumFunctionOnSet(f, S) + SumFunctionOnSet(g, S)
<1>. DEFINE G == {T \in SUBSET S : SumFunctionOnSet(h, T) =
                    SumFunctionOnSet(f, T) + SumFunctionOnSet(g, T)}
<1>1. {} \in G
  BY SumEmpty
<1>2. ASSUME NEW T \in SUBSET S, T # {}, T \ {Pick(T)} \in G PROVE T \in G
  <2>. DEFINE B == T \ {Pick(T)}
  <2>1. IsFiniteSet(T) /\ IsFiniteSet(B)
    BY FS_Subset
  <2>2. /\ Pick(T) \in T
        /\ SumFunctionOnSet(h, T) = h[Pick(T)] + SumFunctionOnSet(h, B)
        /\ SumFunctionOnSet(f, T) = f[Pick(T)] + SumFunctionOnSet(f, B)
        /\ SumFunctionOnSet(g, T) = g[Pick(T)] + SumFunctionOnSet(g, B)
    BY <1>2, <2>1, SumPick
  <2>3. SumFunctionOnSet(f, B) \in Int /\ SumFunctionOnSet(g, B) \in Int
    BY <2>1, SumType
  <2>. QED BY <1>2, <2>2, <2>3
<1>3. S \in G
  <2>. HIDE DEF G
  <2>. QED BY <1>1, <1>2, PickInduction
<1> QED BY <1>3

LEMMA SumZero ==
  ASSUME NEW S, IsFiniteSet(S), NEW f, \A x \in S : f[x] = 0
  PROVE  SumFunctionOnSet(f, S) = 0
<1>1. SumFunctionOnSet(f, S) = SumFunctionOnSet(f, S) + SumFunctionOnSet(f, S)
  BY SumAdd
<1> QED BY <1>1, SumType

LEMMA SumSame ==
  ASSUME NEW S, IsFiniteSet(S), NEW f, NEW g, \A x \in S : f[x] \in Int /\ g[x] = f[x]
  PROVE  SumFunctionOnSet(g, S) = SumFunctionOnSet(f, S)
<1>. DEFINE z == [x \in S |-> 0]
<1>1. \A x \in S : z[x] \in Int /\ z[x] = 0 /\ g[x] = f[x] + z[x]
  OBVIOUS
<1>. HIDE DEF z
<1>2. SumFunctionOnSet(g, S) = SumFunctionOnSet(f, S) + SumFunctionOnSet(z, S)
  BY <1>1, SumAdd
<1>3. SumFunctionOnSet(z, S) = 0
  BY <1>1, SumZero
<1> QED BY <1>2, <1>3, SumType

\* No part exceeds the sum, so nothing is there when the sum is zero.
LEMMA SumBound ==
  ASSUME NEW S, IsFiniteSet(S), NEW f, \A x \in S : f[x] \in Nat, NEW a \in S
  PROVE  f[a] <= SumFunctionOnSet(f, S)
<1>1. SumFunctionOnSet(f, S) = f[a] + SumFunctionOnSet(f, S \ {a})
  BY SumRemove
<1>2. SumFunctionOnSet(f, S \ {a}) \in Nat
  BY FS_Subset, SumType
<1> QED BY <1>1, <1>2

\* One element changes: the sum changes by as much.
LEMMA SumUpdate ==
  ASSUME NEW S, IsFiniteSet(S), NEW f, NEW g, NEW a \in S,
         \A x \in S : f[x] \in Int /\ g[x] \in Int,
         \A x \in S : x # a => g[x] = f[x]
  PROVE  SumFunctionOnSet(g, S) = SumFunctionOnSet(f, S) - f[a] + g[a]
<1>. DEFINE B == S \ {a}
<1>1. IsFiniteSet(B)
  BY FS_Subset
<1>2. /\ SumFunctionOnSet(f, S) = f[a] + SumFunctionOnSet(f, B)
      /\ SumFunctionOnSet(g, S) = g[a] + SumFunctionOnSet(g, B)
  BY SumRemove
<1>3. SumFunctionOnSet(f, B) = SumFunctionOnSet(g, B)
  BY <1>1, SumSame
<1>4. SumFunctionOnSet(f, B) \in Int
  BY <1>1, SumType
<1> QED BY <1>2, <1>3, <1>4

LEMMA SumJoin ==
  ASSUME NEW S, NEW T, IsFiniteSet(S), IsFiniteSet(T), S \cap T = {},
         NEW f, \A x \in S \cup T : f[x] \in Int
  PROVE  SumFunctionOnSet(f, S \cup T) = SumFunctionOnSet(f, S) + SumFunctionOnSet(f, T)
<1>. DEFINE G == {U \in SUBSET T : SumFunctionOnSet(f, S \cup U) =
                    SumFunctionOnSet(f, S) + SumFunctionOnSet(f, U)}
<1>0. SumFunctionOnSet(f, S) \in Int
  BY SumType
<1>1. {} \in G
  BY <1>0, SumEmpty
<1>2. ASSUME NEW U \in SUBSET T, U # {}, U \ {Pick(U)} \in G PROVE U \in G
  <2>. DEFINE y == Pick(U)
              B == U \ {y}
  <2>1. y \in U /\ IsFiniteSet(U) /\ IsFiniteSet(B) /\ IsFiniteSet(S \cup U)
    BY <1>2, PickIn, FS_Subset, FS_Union
  <2>2. SumFunctionOnSet(f, S \cup U) = f[y] + SumFunctionOnSet(f, S \cup B)
    <3>1. y \in S \cup U /\ (S \cup U) \ {y} = S \cup B /\ \A x \in S \cup U : f[x] \in Int
      BY <2>1
    <3>2. SumFunctionOnSet(f, S \cup U) = f[y] + SumFunctionOnSet(f, (S \cup U) \ {y})
      BY <2>1, <3>1, SumRemove
    <3>. QED BY <3>1, <3>2
  <2>3. SumFunctionOnSet(f, U) = f[y] + SumFunctionOnSet(f, B)
    BY <2>1, SumRemove
  <2>4. SumFunctionOnSet(f, B) \in Int
    BY <2>1, SumType
  <2>. QED BY <1>0, <1>2, <2>1, <2>2, <2>3, <2>4
<1>3. T \in G
  <2>. HIDE DEF G
  <2>. QED BY <1>1, <1>2, PickInduction
<1> QED BY <1>3

(***************************************************************************)
(* PointsLedger: an award counts once, for any requests, activities and    *)
(* references.                                                             *)
(***************************************************************************)

\* Between the second statement and the commit a request has the lock.
LockHeld ==
    \A q \in Writers : tx[q].pc \in {"check", "inserted", "sum", "summed"} => lock = q

Known ==
    \A q \in Writers : tx[q].pc \in {"move", "check", "inserted"} => tx[q].move \in Movements

\* What a request has inserted is not in the ledger yet, under any points.
InsertedIsNew == \A q \in Writers : tx[q].pc = "inserted" => ~Repeated(tx[q].move)

PointsInv == PointsTypeOK /\ LockHeld /\ Known /\ InsertedIsNew /\ EarnedOnce

LEMMA PointsInitInv == PointsInit => PointsInv
<1>. SUFFICES ASSUME PointsInit PROVE PointsInv
  OBVIOUS
<1>1. Recorded = {}
  BY DEF PointsInit, Recorded
<1>2. PointsTypeOK /\ LockHeld /\ Known
  BY DEF PointsInit, PointsTypeOK, LockHeld, Known, Idle, Stage
<1>3. InsertedIsNew /\ EarnedOnce
  BY <1>1 DEF PointsInit, InsertedIsNew, Idle, Stage, EarnedOnce
<1> QED BY <1>2, <1>3 DEF PointsInv

\* A step of one request that writes nothing.
LEMMA OnlyTx ==
  ASSUME PointsInv, NEW q \in Writers, NEW p, NEW m, NEW b,
         Become(q, Stage(p, m, b)), UNCHANGED <<activity, ledger>>,
         p \in {"idle", "move", "reconcile", "check", "inserted", "sum", "summed"},
         m \in Movements \cup {NoMove},
         p \in {"move", "check", "inserted"} => m \in Movements,
         p = "inserted" => ~Repeated(m),
         \/ lock = Nobody /\ lock' = q
         \/ lock = q /\ lock' \in {q, Nobody} /\ (lock' = Nobody => p = "idle")
         \/ lock' = lock /\ p \in {"idle", "move", "reconcile"}
  PROVE  PointsInv'
<1>1. /\ tx'[q] = Stage(p, m, b) /\ \A r \in Writers \ {q} : tx'[r] = tx[r]
      /\ tx' = [tx EXCEPT ![q] = Stage(p, m, b)]
  BY DEF PointsInv, PointsTypeOK, Become
<1>2. PointsTypeOK'
  <2>1. /\ tx'[q] = Stage(tx'[q].pc, tx'[q].move, tx'[q].read)
        /\ tx'[q].pc = p /\ tx'[q].move = m
    BY <1>1 DEF Stage
  <2>2. tx' = [r \in Writers |-> Stage(tx'[r].pc, tx'[r].move, tx'[r].read)]
    BY <1>1, <2>1 DEF PointsInv, PointsTypeOK
  <2> QED BY <1>1, <2>1, <2>2 DEF PointsInv, PointsTypeOK
<1>3. LockHeld'
  BY <1>1, PointsAssumption DEF PointsInv, LockHeld, Stage
<1>4. Known' /\ EarnedOnce'
  BY <1>1 DEF PointsInv, Known, EarnedOnce, Recorded, Stage
<1>5. InsertedIsNew'
  BY <1>1 DEF PointsInv, InsertedIsNew, Repeated, Recorded, Stage
<1> QED BY <1>2, <1>3, <1>4, <1>5 DEF PointsInv

LEMMA BeginInv ==
  ASSUME PointsInv, NEW q \in Writers,
         \/ \E r \in References \cup {NoReference} : BeginAward(q, r)
         \/ \E m \in Movements : BeginRecord(q, m)
         \/ BeginReconcile(q)
  PROVE  PointsInv'
<1>1. ASSUME NEW r \in References \cup {NoReference}, BeginAward(q, r) PROVE PointsInv'
  <2>. DEFINE m == [type |-> "earn", points |-> activity.points, named |-> TRUE, reference |-> r]
  <2>1. m \in Movements
    BY DEF Movements, Types, PointsInv, PointsTypeOK
  <2>2. Become(q, Stage("move", m, NoMember)) /\ UNCHANGED <<activity, ledger, lock>>
    BY <1>1 DEF BeginAward
  <2>. HIDE DEF m
  <2> QED BY <2>1, <2>2, OnlyTx
<1>2. ASSUME NEW m \in Movements, BeginRecord(q, m) PROVE PointsInv'
  <2>1. Become(q, Stage("move", m, NoMember)) /\ UNCHANGED <<activity, ledger, lock>>
    BY <1>2 DEF BeginRecord
  <2> QED BY <2>1, OnlyTx
<1>3. CASE BeginReconcile(q)
  <2>1. Become(q, Stage("reconcile", NoMove, NoMember)) /\ UNCHANGED <<activity, ledger, lock>>
    BY <1>3 DEF BeginReconcile
  <2> QED BY <2>1, OnlyTx
<1> QED BY <1>1, <1>2, <1>3

LEMMA LockedInv ==
  ASSUME PointsInv, NEW q \in Writers,
         Lock(q) \/ Refuse(q) \/ Insert(q) \/ SumLedger(q) \/ CommitReconcile(q) \/ Crash(q)
  PROVE  PointsInv'
<1>0. /\ tx[q] = Stage(tx[q].pc, tx[q].move, tx[q].read)
      /\ tx[q].move \in Movements \cup {NoMove}
  BY DEF PointsInv, PointsTypeOK
<1>1. CASE Lock(q)
  <2>. DEFINE p == IF tx[q].pc = "move" THEN "check" ELSE "sum"
  <2>1. Become(q, Stage(p, tx[q].move, member)) /\ UNCHANGED <<activity, ledger>>
    BY <1>1 DEF Lock
  <2>2. lock = Nobody /\ lock' = q /\ (p = "check" => tx[q].move \in Movements)
    BY <1>1 DEF Lock, PointsInv, Known
  <2> QED BY <1>0, <2>1, <2>2, OnlyTx
<1>2. CASE Refuse(q) \/ CommitReconcile(q) \/ Crash(q)
  <2>1. Become(q, Stage("idle", NoMove, NoMember)) /\ UNCHANGED <<activity, ledger>>
    BY <1>2 DEF Refuse, CommitReconcile, Crash, Idle
  <2>2. (lock = q /\ lock' = Nobody) \/ lock' = lock
    BY <1>2 DEF Refuse, CommitReconcile, Crash, PointsInv, LockHeld
  <2> QED BY <2>1, <2>2, OnlyTx
<1>3. CASE Insert(q)
  <2>1. Become(q, Stage("inserted", tx[q].move, tx[q].read)) /\ UNCHANGED <<activity, ledger, lock>>
    BY <1>3 DEF Insert
  <2>2. lock = q /\ tx[q].move \in Movements /\ ~Repeated(tx[q].move)
    BY <1>3 DEF Insert, PointsInv, LockHeld, Known
  <2> QED BY <2>1, <2>2, OnlyTx
<1>4. CASE SumLedger(q)
  <2>1. Become(q, Stage("summed", tx[q].move, Totals)) /\ UNCHANGED <<activity, ledger, lock>>
    BY <1>4 DEF SumLedger
  <2>2. lock = q
    BY <1>4 DEF SumLedger, PointsInv, LockHeld
  <2> QED BY <1>0, <2>1, <2>2, OnlyTx
<1> QED BY <1>1, <1>2, <1>3, <1>4

\* The one step that writes the ledger: its row is the first of its award.
LEMMA CommitInv ==
  ASSUME PointsInv, NEW q \in Writers, CommitMove(q)
  PROVE  PointsInv'
<1>. DEFINE m == tx[q].move
<1>1. /\ m \in Movements /\ ~Repeated(m) /\ lock = q
      /\ ledger' = [ledger EXCEPT ![m] = @ + 1]
      /\ Become(q, Idle) /\ lock' = Nobody /\ activity' = activity
  BY DEF CommitMove, PointsInv, Known, InsertedIsNew, LockHeld
<1>. HIDE DEF m
<1>2. /\ ledger \in [Movements -> Nat] /\ ledger' \in [Movements -> Nat]
      /\ ledger'[m] = ledger[m] + 1 /\ \A n \in Movements \ {m} : ledger'[n] = ledger[n]
  BY <1>1 DEF PointsInv, PointsTypeOK
<1>3. /\ tx'[q] = Stage("idle", NoMove, NoMember) /\ \A r \in Writers \ {q} : tx'[r] = tx[r]
      /\ DOMAIN tx' = Writers
  BY <1>1 DEF PointsInv, PointsTypeOK, Become, Idle, Stage
<1>4. \A r \in Writers : tx'[r].pc \notin {"check", "inserted", "sum", "summed"}
  BY <1>1, <1>3, PointsAssumption DEF PointsInv, PointsTypeOK, LockHeld, Stage
<1>5. PointsTypeOK'
  <2>1. /\ tx'[q] = Stage(tx'[q].pc, tx'[q].move, tx'[q].read)
        /\ tx'[q].pc = "idle" /\ tx'[q].move = NoMove
    BY <1>3 DEF Stage
  <2>2. tx' = [r \in Writers |-> Stage(tx'[r].pc, tx'[r].move, tx'[r].read)]
    BY <1>1, <1>3, <2>1 DEF PointsInv, PointsTypeOK, Become
  <2> QED BY <1>1, <1>2, <1>3, <2>1, <2>2 DEF PointsInv, PointsTypeOK
<1>6. LockHeld' /\ InsertedIsNew'
  BY <1>4 DEF LockHeld, InsertedIsNew
<1>7. Known'
  BY <1>3 DEF PointsInv, Known, Stage
<1>8. EarnedOnce'
  <2>1. Recorded' = Recorded \cup {m}
    BY <1>1, <1>2 DEF Recorded
  <2>2. \A n \in Recorded : ~SameAward(m, n) /\ ~SameAward(n, m)
    BY <1>1 DEF Repeated, SameAward
  <2>3. m \in Recorded => ~Identified(m)
    BY <2>2 DEF SameAward
  <2>4. Identified(m) => ledger'[m] = 1
    BY <1>1, <1>2, <2>3 DEF Recorded
  <2>. SUFFICES ASSUME NEW a \in Recorded', NEW b \in Recorded', SameAward(a, b)
                PROVE  a = b /\ ledger'[a] = 1
    BY DEF EarnedOnce, SameAward, Identified
  <2>5. CASE a = m \/ b = m
    BY <2>1, <2>2, <2>4, <2>5 DEF SameAward
  <2>6. CASE a # m /\ b # m
    BY <1>2, <2>1, <2>6 DEF PointsInv, EarnedOnce, Recorded
  <2> QED BY <2>5, <2>6
<1> QED BY <1>5, <1>6, <1>7, <1>8 DEF PointsInv

LEMMA PointsStepInv == PointsInv /\ [PointsNext]_pointsVars => PointsInv'
<1>. SUFFICES ASSUME PointsInv, [PointsNext]_pointsVars PROVE PointsInv'
  OBVIOUS
<1>1. ASSUME NEW q \in Writers, WriterStep(q) PROVE PointsInv'
  BY <1>1, BeginInv, LockedInv, CommitInv DEF WriterStep
<1>2. CASE \/ CreateMember
           \/ \E a \in [points : Amounts, active : BOOLEAN] : EditActivity(a)
           \/ UNCHANGED pointsVars
  <2>1. UNCHANGED <<ledger, lock, tx>> /\ activity' \in [points : Amounts, active : BOOLEAN]
    BY <1>2 DEF CreateMember, EditActivity, pointsVars, PointsInv, PointsTypeOK
  <2> QED BY <2>1 DEF PointsInv, PointsTypeOK, LockHeld, Known, InsertedIsNew, Repeated, EarnedOnce, Recorded
<1> QED BY <1>1, <1>2 DEF PointsNext

\* The inductive invariant: who has the lock, and that what is inserted is new.
THEOREM LedgerInvariance == PointsSpec => []PointsInv
BY PointsInitInv, PointsStepInv, PTL DEF PointsSpec

\* Ledger, lock and requests keep their types.
THEOREM PointsTyped == PointsSpec => []PointsTypeOK
BY LedgerInvariance, PTL DEF PointsInv

\* However awards are retried and entered by hand, each counts once.
THEOREM AwardsCountOnce == PointsSpec => []EarnedOnce
BY LedgerInvariance, PTL DEF PointsInv

(***************************************************************************)
(* PointsLedger: the balances.                                             *)
(***************************************************************************)

\* What a request has read under the lock is still so, and what it is about
\* to commit takes no balance below zero.
ReadHolds ==
    \A q \in Writers :
        /\ tx[q].pc \in {"check", "inserted"} => tx[q].read = member
        /\ tx[q].pc = "inserted" => ~Overdraws(q)
        /\ tx[q].pc = "summed" => tx[q].read = Totals

Balanced == IsFiniteSet(Recorded) /\ BalanceIsLedger /\ ReadHolds

LEMMA DirectionType ==
    /\ LifetimeDirection \in [Types -> Int]
    /\ AvailableDirection \in [Types -> Int]
BY DEF LifetimeDirection, AvailableDirection, Types

LEMMA MovementType ==
  ASSUME NEW m \in Movements
  PROVE  m.points \in Nat /\ m.type \in Types
BY PointsAssumption DEF Movements

\* A sum over the ledger is an integer.
LEMMA EffectType ==
  ASSUME PointsTypeOK, IsFiniteSet(Recorded), NEW direction \in [Types -> Int]
  PROVE  /\ \A m \in Recorded : Effect(direction)[m] \in Int
         /\ SumFunction(Effect(direction)) \in Int
<1>1. ASSUME NEW m \in Recorded PROVE Effect(direction)[m] \in Int
  <2>1. m \in Movements /\ ledger[m] \in Nat
    BY DEF Recorded, PointsTypeOK
  <2>2. m.points \in Nat /\ direction[m.type] \in Int
    BY <2>1, MovementType
  <2>3. ledger[m] * m.points \in Int
    BY <2>1, <2>2
  <2>4. ledger[m] * m.points * direction[m.type] \in Int
    BY <2>2, <2>3
  <2>. QED BY <2>4 DEF Effect
<1>2. DOMAIN Effect(direction) = Recorded
  BY DEF Effect
<1>. QED BY <1>1, <1>2, SumType DEF SumFunction

\* One more row moves a sum over the ledger by its own points.
LEMMA EffectMoves ==
  ASSUME PointsTypeOK, IsFiniteSet(Recorded), NEW m \in Movements,
         ledger' = [ledger EXCEPT ![m] = @ + 1], NEW direction \in [Types -> Int]
  PROVE  /\ IsFiniteSet(Recorded')
         /\ SumFunction(Effect(direction))' =
              SumFunction(Effect(direction)) + m.points * direction[m.type]
<1>. DEFINE f == Effect(direction)
            g == Effect(direction)'
            d == direction[m.type]
<1>1. /\ ledger \in [Movements -> Nat] /\ ledger'[m] = ledger[m] + 1
      /\ \A n \in Movements \ {m} : ledger'[n] = ledger[n]
  BY DEF PointsTypeOK
<1>2. Recorded' = Recorded \cup {m} /\ IsFiniteSet(Recorded')
  <2>1. Recorded' = Recorded \cup {m}
    BY <1>1 DEF Recorded
  <2>. QED BY <2>1, FS_AddElement
<1>3. m.points \in Nat /\ d \in Int
  BY MovementType
<1>4. /\ f = [n \in Recorded |-> ledger[n] * n.points * direction[n.type]]
      /\ g = [n \in Recorded' |-> ledger'[n] * n.points * direction[n.type]]
  BY DEF Effect
<1>5. /\ \A n \in Recorded : f[n] \in Int
      /\ \A n \in Recorded \ {m} : g[n] = f[n]
      /\ g[m] = (ledger[m] + 1) * m.points * d
      /\ m \in Recorded => f[m] = ledger[m] * m.points * d
  <2>1. \A n \in Recorded : f[n] \in Int
    BY EffectType
  <2>2. \A n \in Recorded \ {m} : g[n] = f[n]
    <3>1. \A n \in Recorded \ {m} : n \in Movements
      BY DEF Recorded
    <3>. HIDE DEF f, g
    <3>. QED BY <1>1, <1>2, <1>4, <3>1
  <2>3. g[m] = ledger'[m] * m.points * d
    <3>. HIDE DEF f, g
    <3>. QED BY <1>2, <1>4
  <2>4. m \in Recorded => f[m] = ledger[m] * m.points * d
    BY <1>4
  <2>. QED BY <1>1, <2>1, <2>2, <2>3, <2>4
<1>6. g[m] = ledger[m] * m.points * d + m.points * d
  <2>1. ledger[m] \in Int /\ m.points \in Int
    BY <1>1, <1>3
  <2>2. (ledger[m] + 1) * m.points = ledger[m] * m.points + m.points
    BY <2>1
  <2>3. ledger[m] * m.points \in Int
    BY <2>1
  <2>4. (ledger[m] * m.points + m.points) * d = ledger[m] * m.points * d + m.points * d
    BY <1>3, <2>1, <2>3
  <2>. QED BY <1>5, <2>2, <2>4
<1>7. /\ m.points * d \in Int /\ ledger[m] * m.points * d \in Int
  <2>1. ledger[m] * m.points \in Int
    BY <1>1, <1>3
  <2>. QED BY <1>3, <2>1
<1>. DEFINE one == m.points * d
            before == ledger[m] * m.points * d
<1>8. /\ one \in Int /\ before \in Int /\ g[m] = before + one
      /\ m \in Recorded => f[m] = before
      /\ ledger[m] = 0 => before = 0
  <2>1. ledger[m] = 0 => before = 0
    BY <1>3
  <2>. QED BY <1>5, <1>6, <1>7, <2>1
<1>. HIDE DEF f, g, d, one, before
<1>9. SumFunctionOnSet(g, Recorded') = SumFunctionOnSet(f, Recorded) + one
  <2>1. \A n \in Recorded' : g[n] \in Int
    BY <1>2, <1>5, <1>8
  <2>2. SumFunctionOnSet(g, Recorded') = g[m] + SumFunctionOnSet(g, Recorded' \ {m})
    <3>1. m \in Recorded'
      BY <1>2
    <3>. QED BY <1>2, <2>1, <3>1, SumRemove
  <2>3. CASE m \in Recorded
    <3>1. SumFunctionOnSet(f, Recorded) = f[m] + SumFunctionOnSet(f, Recorded \ {m})
      BY <1>5, <2>3, SumRemove
    <3>2. Recorded' \ {m} = Recorded \ {m} /\ IsFiniteSet(Recorded \ {m})
      BY <1>2, <2>3, FS_Subset
    <3>3. /\ SumFunctionOnSet(g, Recorded \ {m}) = SumFunctionOnSet(f, Recorded \ {m})
          /\ SumFunctionOnSet(f, Recorded \ {m}) \in Int
      BY <1>5, <3>2, SumSame, SumType
    <3>. QED BY <1>8, <2>2, <2>3, <3>1, <3>2, <3>3
  <2>4. CASE m \notin Recorded
    <3>1. Recorded' \ {m} = Recorded
      BY <1>2, <2>4
    <3>2. SumFunctionOnSet(g, Recorded) = SumFunctionOnSet(f, Recorded)
          /\ SumFunctionOnSet(f, Recorded) \in Int
      BY <1>5, <2>4, SumSame, SumType
    <3>3. g[m] = one
      <4>1. ledger[m] = 0
        BY <1>1, <2>4 DEF Recorded
      <4>. QED BY <1>8, <4>1
    <3>4. SumFunctionOnSet(g, Recorded') = g[m] + SumFunctionOnSet(f, Recorded)
      BY <2>2, <3>1, <3>2
    <3>. QED BY <1>8, <3>2, <3>3, <3>4
  <2>. QED BY <2>3, <2>4
<1>10. DOMAIN f = Recorded /\ DOMAIN g = Recorded'
  BY <1>4
<1> QED BY <1>2, <1>9, <1>10 DEF f, g, d, one, SumFunction

\* In both cases of BalanceIsLedger the balances are the sums.
LEMMA BalanceSums ==
  ASSUME BalanceIsLedger
  PROVE  /\ member = [exists |-> member.exists, lifetime |-> member.lifetime,
                      available |-> member.available]
         /\ member.lifetime = SumFunction(Effect(LifetimeDirection))
         /\ member.available = SumFunction(Effect(AvailableDirection))
         /\ Recorded # {} => member.exists
<1>1. CASE Recorded = {}
  <2>1. /\ SumFunction(Effect(LifetimeDirection)) = 0
        /\ SumFunction(Effect(AvailableDirection)) = 0
    BY <1>1, SumEmpty DEF SumFunction, Effect
  <2>2. member = [NewMember EXCEPT !.exists = member.exists]
    BY <1>1 DEF BalanceIsLedger
  <2>. QED BY <1>1, <2>1, <2>2 DEF NewMember
<1>2. CASE Recorded # {}
  BY <1>2 DEF BalanceIsLedger, Totals
<1> QED BY <1>1, <1>2

LEMMA BalancedInit == PointsInit => Balanced
<1>. SUFFICES ASSUME PointsInit PROVE Balanced
  OBVIOUS
<1>1. Recorded = {}
  BY DEF PointsInit, Recorded
<1>2. BalanceIsLedger
  BY <1>1 DEF BalanceIsLedger, PointsInit, NoMember, NewMember
<1>3. ReadHolds
  BY DEF ReadHolds, PointsInit, Idle, Stage
<1> QED BY <1>1, <1>2, <1>3, FS_EmptySet DEF Balanced

\* A step that writes neither the ledger nor the membership.
LEMMA BalancedReader ==
  ASSUME PointsInv, Balanced, NEW q \in Writers, UNCHANGED <<ledger, member>>,
         NEW t, Become(q, t),
         /\ t.pc \in {"check", "inserted"} => t.read = member
         /\ t.pc = "inserted" =>
              LET b == Moved(t.read, t.move) IN ~(b.lifetime < 0 \/ b.available < 0)
         /\ t.pc = "summed" => t.read = Totals
  PROVE  Balanced'
<1>1. Recorded' = Recorded /\ Totals' = Totals
  BY DEF Recorded, Totals, Effect
<1>2. BalanceIsLedger'
  BY <1>1 DEF Balanced, BalanceIsLedger
<1>3. tx'[q] = t /\ \A r \in Writers \ {q} : tx'[r] = tx[r]
  BY DEF Become, PointsInv, PointsTypeOK
<1>4. ReadHolds'
  <2>. SUFFICES ASSUME NEW r \in Writers
                PROVE  /\ tx'[r].pc \in {"check", "inserted"} => tx'[r].read = member'
                       /\ tx'[r].pc = "inserted" => ~Overdraws(r)'
                       /\ tx'[r].pc = "summed" => tx'[r].read = Totals'
    BY DEF ReadHolds
  <2>1. CASE r = q
    BY <1>1, <1>3, <2>1 DEF Overdraws
  <2>2. CASE r # q
    BY <1>1, <1>3, <2>2 DEF Overdraws, Balanced, ReadHolds
  <2>. QED BY <2>1, <2>2
<1> QED BY <1>1, <1>2, <1>4 DEF Balanced

\* When the writer of a balance commits, nobody else has read one.
LEMMA BalancedWriter ==
  ASSUME PointsInv, NEW q \in Writers, lock = q, Become(q, Idle)
  PROVE  ReadHolds'
<1>1. tx'[q] = Idle /\ \A r \in Writers \ {q} : tx'[r] = tx[r]
  BY DEF Become, PointsInv, PointsTypeOK
<1>2. \A r \in Writers : tx'[r].pc \notin {"check", "inserted", "summed"}
  BY <1>1 DEF PointsInv, LockHeld, Idle, Stage
<1> QED BY <1>2 DEF ReadHolds

LEMMA BalancedMove ==
  ASSUME PointsInv, Balanced, NEW q \in Writers, CommitMove(q)
  PROVE  Balanced'
<1>. DEFINE m == tx[q].move
<1>1. /\ m \in Movements /\ lock = q /\ Become(q, Idle)
      /\ ledger' = [ledger EXCEPT ![m] = @ + 1] /\ member' = Moved(member, m)
      /\ tx[q].read = member /\ ~Overdraws(q)
  BY DEF CommitMove, PointsInv, Known, LockHeld, Balanced, ReadHolds
<1>2. member'.lifetime >= 0 /\ member'.available >= 0
  <2>1. m.points \in Nat /\ LifetimeDirection[m.type] \in Int /\ AvailableDirection[m.type] \in Int
    BY <1>1, MovementType, DirectionType
  <2>2. member.lifetime \in Int /\ member.available \in Int
    <3>1. IsFiniteSet(Recorded) /\ BalanceIsLedger /\ PointsTypeOK
      BY DEF Balanced, PointsInv
    <3>. QED BY <3>1, EffectType, DirectionType, BalanceSums
  <2>. DEFINE one == m.points * LifetimeDirection[m.type]
              two == m.points * AvailableDirection[m.type]
  <2>3. one \in Int /\ two \in Int
    BY <2>1
  <2>4. member' = [exists |-> TRUE, lifetime |-> member.lifetime + one, available |-> member.available + two]
    BY <1>1 DEF Moved
  <2>5. ~(member'.lifetime < 0) /\ ~(member'.available < 0)
    BY <1>1 DEF Overdraws
  <2>. HIDE DEF one, two, m
  <2>. QED BY <2>2, <2>3, <2>4, <2>5
<1>3. /\ IsFiniteSet(Recorded')
      /\ SumFunction(Effect(LifetimeDirection))' =
           SumFunction(Effect(LifetimeDirection)) + m.points * LifetimeDirection[m.type]
      /\ SumFunction(Effect(AvailableDirection))' =
           SumFunction(Effect(AvailableDirection)) + m.points * AvailableDirection[m.type]
  <2>1. IsFiniteSet(Recorded) /\ PointsTypeOK
    BY DEF Balanced, PointsInv
  <2>. HIDE DEF m
  <2>. QED BY <1>1, <2>1, DirectionType, EffectMoves
<1>4. m \in Recorded'
  BY <1>1 DEF Recorded, PointsInv, PointsTypeOK
<1>5. member' = Totals'
  <2>1. /\ member.lifetime = SumFunction(Effect(LifetimeDirection))
        /\ member.available = SumFunction(Effect(AvailableDirection))
    BY BalanceSums DEF Balanced
  <2>. HIDE DEF m
  <2>. QED BY <1>1, <1>3, <2>1 DEF Moved, Totals
<1>6. BalanceIsLedger'
  BY <1>2, <1>4, <1>5 DEF BalanceIsLedger
<1> QED BY <1>1, <1>3, <1>6, BalancedWriter DEF Balanced

LEMMA BalancedReconcile ==
  ASSUME PointsInv, Balanced, NEW q \in Writers, CommitReconcile(q)
  PROVE  Balanced'
<1>1. /\ lock = q /\ Become(q, Idle) /\ ledger' = ledger /\ member' = Totals
  BY DEF CommitReconcile, PointsInv, LockHeld, Balanced, ReadHolds
<1>2. Recorded' = Recorded /\ Totals' = Totals
  BY <1>1 DEF Recorded, Totals, Effect
<1>3. BalanceIsLedger'
  <2>1. member.lifetime >= 0 /\ member.available >= 0
    BY DEF Balanced, BalanceIsLedger
  <2>2. member'.lifetime >= 0 /\ member'.available >= 0
    BY <1>1, <2>1, BalanceSums DEF Balanced, Totals
  <2>3. CASE Recorded = {}
    <3>1. SumFunction(Effect(LifetimeDirection)) = 0 /\ SumFunction(Effect(AvailableDirection)) = 0
      BY <2>3, SumEmpty DEF SumFunction, Effect
    <3>2. member' = [exists |-> TRUE, lifetime |-> 0, available |-> 0] /\ Recorded' = {}
      BY <1>1, <1>2, <2>3, <3>1 DEF Totals
    <3>. QED BY <2>2, <3>2 DEF BalanceIsLedger, NewMember
  <2>4. CASE Recorded # {}
    BY <1>1, <1>2, <2>2, <2>4 DEF BalanceIsLedger
  <2>. QED BY <2>3, <2>4
<1> QED BY <1>1, <1>2, <1>3, BalancedWriter DEF Balanced

LEMMA BalancedStep == PointsInv /\ Balanced /\ [PointsNext]_pointsVars => Balanced'
<1>. SUFFICES ASSUME PointsInv, Balanced, [PointsNext]_pointsVars PROVE Balanced'
  OBVIOUS
<1>1. ASSUME NEW q \in Writers, WriterStep(q) PROVE Balanced'
  <2>1. ASSUME NEW p \in {"idle", "move", "reconcile", "sum"}, NEW m, NEW b,
               Become(q, Stage(p, m, b)), UNCHANGED <<ledger, member>>
        PROVE  Balanced'
    <3>1. Stage(p, m, b).pc = p
      BY DEF Stage
    <3>. QED BY <2>1, <3>1, BalancedReader
  <2>2. CASE \E r \in References \cup {NoReference} : BeginAward(q, r)
    BY <2>1, <2>2 DEF BeginAward
  <2>3. CASE \/ \E m \in Movements : BeginRecord(q, m)
             \/ BeginReconcile(q) \/ Refuse(q) \/ Crash(q)
    BY <2>1, <2>3 DEF BeginRecord, BeginReconcile, Refuse, Crash, Idle
  <2>4. CASE Lock(q)
    <3>. DEFINE t == Stage(IF tx[q].pc = "move" THEN "check" ELSE "sum", tx[q].move, member)
    <3>1. Become(q, t) /\ UNCHANGED <<ledger, member>>
      BY <2>4 DEF Lock
    <3>2. t.pc \in {"check", "sum"} /\ t.read = member
      BY DEF Stage
    <3>. HIDE DEF t
    <3>. QED BY <3>1, <3>2, BalancedReader
  <2>5. CASE Insert(q)
    <3>. DEFINE t == Stage("inserted", tx[q].move, tx[q].read)
    <3>1. Become(q, t) /\ UNCHANGED <<ledger, member>>
      BY <2>5 DEF Insert
    <3>2. t.pc = "inserted" /\ t.read = member
      BY <2>5 DEF Stage, Insert, Balanced, ReadHolds
    <3>3. LET b == Moved(t.read, t.move) IN ~(b.lifetime < 0 \/ b.available < 0)
      BY <2>5 DEF Stage, Insert, Overdraws
    <3>. HIDE DEF t
    <3>. QED BY <3>1, <3>2, <3>3, BalancedReader
  <2>6. CASE SumLedger(q)
    <3>. DEFINE t == Stage("summed", tx[q].move, Totals)
    <3>1. Become(q, t) /\ UNCHANGED <<ledger, member>>
      BY <2>6 DEF SumLedger
    <3>2. t.pc = "summed" /\ t.read = Totals
      BY DEF Stage
    <3>. HIDE DEF t
    <3>. QED BY <3>1, <3>2, BalancedReader
  <2>. QED BY <1>1, <2>2, <2>3, <2>4, <2>5, <2>6, BalancedMove, BalancedReconcile DEF WriterStep
<1>2. CASE CreateMember
  <2>1. /\ member' = NewMember /\ UNCHANGED <<ledger, lock, tx>>
        /\ lock = Nobody /\ ~member.exists
    BY <1>2 DEF CreateMember
  <2>2. Recorded = {} /\ Recorded' = {}
    BY <2>1, BalanceSums DEF Balanced, Recorded
  <2>3. BalanceIsLedger'
    <3>1. member' = [exists |-> TRUE, lifetime |-> 0, available |-> 0]
      BY <2>1 DEF NewMember
    <3>2. member' = [NewMember EXCEPT !.exists = member'.exists]
      BY <3>1 DEF NewMember
    <3>. QED BY <2>2, <3>1, <3>2 DEF BalanceIsLedger
  <2>4. \A r \in Writers : tx'[r].pc \notin {"check", "inserted", "summed"}
    BY <2>1, PointsAssumption DEF PointsInv, LockHeld
  <2>. QED BY <2>2, <2>3, <2>4, FS_EmptySet DEF Balanced, ReadHolds
<1>3. CASE UNCHANGED <<member, ledger, tx>>
  <2>1. Recorded' = Recorded /\ Totals' = Totals
    BY <1>3 DEF Recorded, Totals, Effect
  <2>. QED BY <1>3, <2>1 DEF Balanced, BalanceIsLedger, ReadHolds, Overdraws
<1> QED BY <1>1, <1>2, <1>3 DEF PointsNext, EditActivity, pointsVars

\* Whoever writes beside whom, and whoever rebuilds the balances meanwhile:
\* the balances of a member are the totals of the ledger, and not below zero.
THEOREM BalancesAreTotals == PointsSpec => []BalanceIsLedger
<1>1. PointsInit => PointsInv /\ Balanced
  BY PointsInitInv, BalancedInit
<1>2. PointsInv /\ Balanced /\ [PointsNext]_pointsVars => (PointsInv /\ Balanced)'
  BY PointsStepInv, BalancedStep
<1>3. Balanced => BalanceIsLedger
  BY DEF Balanced
<1> QED BY <1>1, <1>2, <1>3, PTL DEF PointsSpec

(***************************************************************************)
(* OrderFlow: the goods and the reservations, for any orders, rows and     *)
(* baskets.                                                                *)
(***************************************************************************)

\* Held, of any reservation rows.
HeldIn(l, S, r) == SumFunction([o \in S |-> l[o][r]])

LEMMA HeldSum ==
  ASSUME NEW l, NEW S, NEW r
  PROVE  HeldIn(l, S, r) = SumFunctionOnSet([o \in S |-> l[o][r]], S)
BY DEF HeldIn, SumFunction

LEMMA HeldType ==
  ASSUME NEW l, NEW S, IsFiniteSet(S), NEW r, \A o \in S : l[o][r] \in Nat
  PROVE  HeldIn(l, S, r) \in Nat
<1>. DEFINE f == [o \in S |-> l[o][r]]
<1>1. \A o \in S : f[o] \in Nat
  OBVIOUS
<1>. HIDE DEF f
<1>2. SumFunctionOnSet(f, S) \in Nat
  BY <1>1, SumType
<1> QED BY <1>2, HeldSum DEF f

LEMMA HeldSame ==
  ASSUME NEW l, NEW k, NEW S, IsFiniteSet(S), NEW r,
         \A o \in S : l[o][r] \in Nat /\ k[o][r] = l[o][r]
  PROVE  HeldIn(k, S, r) = HeldIn(l, S, r)
<1>1. [o \in S |-> l[o][r]] = [o \in S |-> k[o][r]]
  OBVIOUS
<1> QED BY <1>1 DEF HeldIn

\* The orders T among the orders S.
LEMMA HeldSplit ==
  ASSUME NEW l, NEW S, IsFiniteSet(S), NEW T \in SUBSET S, NEW r, \A o \in S : l[o][r] \in Nat
  PROVE  HeldIn(l, S, r) = HeldIn(l, S \ T, r) + HeldIn(l, T, r)
<1>. DEFINE f == [o \in S |-> l[o][r]]
            R == S \ T
            g == [o \in R |-> l[o][r]]
            h == [o \in T |-> l[o][r]]
<1>1. /\ \A o \in S : f[o] \in Nat
      /\ \A o \in R : f[o] \in Nat /\ g[o] = f[o]
      /\ \A o \in T : f[o] \in Nat /\ h[o] = f[o]
  OBVIOUS
<1>2. IsFiniteSet(R) /\ IsFiniteSet(T) /\ R \cap T = {} /\ R \cup T = S
  BY FS_Subset
<1>3. HeldIn(l, S, r) = SumFunctionOnSet(f, S)
  BY HeldSum
<1>4. HeldIn(l, R, r) = SumFunctionOnSet(g, R)
  BY HeldSum
<1>5. HeldIn(l, T, r) = SumFunctionOnSet(h, T)
  BY HeldSum
<1>. HIDE DEF f, g, h, R
<1>6. SumFunctionOnSet(f, S) = SumFunctionOnSet(f, R) + SumFunctionOnSet(f, T)
  BY <1>1, <1>2, SumJoin
<1>7. SumFunctionOnSet(g, R) = SumFunctionOnSet(f, R)
  BY <1>1, <1>2, SumSame
<1>8. SumFunctionOnSet(h, T) = SumFunctionOnSet(f, T)
  BY <1>1, <1>2, SumSame
<1> QED BY <1>3, <1>4, <1>5, <1>6, <1>7, <1>8 DEF R

LEMMA HeldOne ==
  ASSUME NEW l, NEW o, NEW r, l[o][r] \in Nat
  PROVE  HeldIn(l, {o}, r) = l[o][r]
<1>. DEFINE f == [p \in {o} |-> l[p][r]]
<1>1. f[o] \in Int /\ f[o] = l[o][r]
  OBVIOUS
<1>2. HeldIn(l, {o}, r) = SumFunctionOnSet(f, {o})
  BY HeldSum
<1>. HIDE DEF f
<1>3. SumFunctionOnSet(f, {o}) = f[o] + SumFunctionOnSet(f, {o} \ {o})
  BY <1>1, FS_Singleton, SumRemove
<1>4. {o} \ {o} = {}
  OBVIOUS
<1> QED BY <1>1, <1>2, <1>3, <1>4, SumEmpty

LEMMA HeldNone == ASSUME NEW l, NEW r PROVE HeldIn(l, {}, r) = 0
BY HeldSum, SumEmpty

OpenOrders == {o \in Orders : status[o] \in Open}
SoldOrders == {o \in Orders : consumed[o] > 0}

\* No order is ever in one of the return statuses: nothing enters the first.
NeverReturned ==
    \A o \in Orders : status[o] \in {"none"} \union Open \union Fulfilled \union Final

\* What makes the two sums inductive.  The orders that count are finitely
\* many, however many ids there are.
GoodsInv ==
    /\ NeverReturned
    /\ IsFiniteSet(OpenOrders) /\ IsFiniteSet(SoldOrders)
    /\ StockConserved /\ LedgerExact

\* What a step of order o does to the goods: it takes a hold, gives it back,
\* sells it, gives back what it had settled, or none of these.
TakesHold(o) ==
    /\ status[o] = "none" /\ status'[o] \in Open
    /\ \E b \in [Rows -> Nat] :
          /\ lines' = [lines EXCEPT ![o] = b]
          /\ stock' = [r \in Rows |-> [stock[r] EXCEPT !.reserved = @ + b[r]]]
    /\ UNCHANGED <<released, consumed>>

ReturnsHold(o) ==
    /\ status[o] \in Open /\ status'[o] \notin Open
    /\ stock' = AfterRelease({o}) /\ UNCHANGED <<lines, consumed>>

SellsHold(o) ==
    /\ status[o] \in Open /\ status'[o] \notin Open
    /\ stock' = AfterConsume(o) /\ consumed' = [consumed EXCEPT ![o] = @ + 1]
    /\ UNCHANGED lines

SettlesAgain(o) ==
    /\ status[o] \notin Open \union {"none"} /\ status'[o] \notin Open /\ Oversettled(o)'
    /\ stock' = AfterRelease({o}) /\ UNCHANGED <<lines, consumed>>

MovesNothing(o) ==
    /\ status[o] \in Open <=> status'[o] \in Open
    /\ UNCHANGED <<lines, stock, released, consumed>>

LEMMA OrderMoves ==
  ASSUME IInv, NeverReturned, NEW o \in Orders, OrderStep(o)
  PROVE  /\ TakesHold(o) \/ ReturnsHold(o) \/ SellsHold(o) \/ SettlesAgain(o) \/ MovesNothing(o)
         /\ status'[o] \in {"none"} \union Open \union Fulfilled \union Final
<1>. USE Kinds DEF IInv, TypeOK, OrderInv, Untouched, orderVars, historyVars, NeverReturned
<1>1. ASSUME NEW b \in Baskets, Checkout(o, b)
      PROVE  TakesHold(o) /\ status'[o] \in Open
  <2>1. b \in [Rows -> Nat]
    BY BasketType
  <2>. QED BY <1>1, <2>1 DEF Checkout, Reserve, TakesHold
<1>2. CASE ReservationLapses(o) \/ PayCheck(o) \/ PayRefused(o)
  BY <1>2 DEF ReservationLapses, PayCheck, PayRefused, MovesNothing
<1>3. CASE PayFindsStale(o)
  BY <1>3 DEF PayFindsStale, Stale, ReleaseAll, ReturnsHold
<1>4. CASE PayConfirm(o)
  BY <1>4 DEF PayConfirm, MovesNothing
<1>5. CASE Approve(o)
  BY <1>5 DEF Approve, AwaitsReview, SellsHold
<1>6. CASE Reject(o)
  BY <1>6 DEF Reject, AwaitsReview, ReleaseAll, ReturnsHold
<1>7. CASE Cancel(o)
  <2>1. status[o] \in Open \union Fulfilled /\ status'[o] = "cancelled"
    BY <1>7, CancelType DEF Cancel
  <2>2. /\ stock' = AfterRelease({o}) /\ UNCHANGED <<lines, consumed>>
        /\ released'[o] = released[o] + 1
    BY <1>7 DEF Cancel, ReleaseAll
  <2>3. status[o] \in Fulfilled => Oversettled(o)'
    BY <2>1, <2>2 DEF Oversettled
  <2>. QED BY <2>1, <2>2, <2>3 DEF ReturnsHold, SettlesAgain
<1>8. CASE Advance(o)
  BY <1>8 DEF Advance, StatusActions, MovesNothing
<1>. QED BY <1>1, <1>2, <1>3, <1>4, <1>5, <1>6, <1>7, <1>8 DEF OrderStep

LEMMA Sums ==
    /\ StockConserved <=>
         \A r \in Rows : stock[r].quantity + HeldIn(lines, SoldOrders, r) = InitialStock[r]
    /\ LedgerExact <=> ((\A o \in Orders : ~Oversettled(o)) =>
         \A r \in Rows : stock[r].reserved = HeldIn(lines, OpenOrders, r))
    /\ StockConserved' <=>
         \A r \in Rows : stock'[r].quantity + HeldIn(lines', SoldOrders', r) = InitialStock[r]
    /\ LedgerExact' <=> ((\A o \in Orders : ~Oversettled(o)') =>
         \A r \in Rows : stock'[r].reserved = HeldIn(lines', OpenOrders', r))
BY DEF StockConserved, LedgerExact, Held, HeldIn, SoldOrders, OpenOrders

LEMMA RowType ==
  ASSUME TypeOK, NEW r \in Rows
  PROVE  /\ stock[r].quantity \in Nat /\ stock[r].reserved \in Nat
         /\ stock[r] = [quantity |-> stock[r].quantity, sellable |-> stock[r].sellable,
                        reserved |-> stock[r].reserved]
         /\ \A o \in Orders : lines[o][r] \in Nat
         /\ InitialStock[r] \in Nat
<1>1. stock[r] \in InventoryRow
  BY DEF TypeOK
<1>2. \A o \in Orders : lines[o][r] \in Nat
  BY DEF TypeOK
<1> QED BY <1>1, <1>2, BasketType DEF InventoryRow

\* Once settled twice, always so.
LEMMA OversettledStays ==
  ASSUME IInv, NEW o \in Orders, released'[o] >= released[o], consumed'[o] >= consumed[o],
         released'[o] \in Nat, consumed'[o] \in Nat, Oversettled(o)
  PROVE  Oversettled(o)'
BY DEF IInv, TypeOK, Oversettled

\* A release by the orders S, all of them open, keeps reserved exact.
LEMMA ExactRelease ==
  ASSUME TypeOK, NEW S \in SUBSET OpenOrders, IsFiniteSet(OpenOrders),
         OpenOrders' = OpenOrders \ S, UNCHANGED lines, stock' = AfterRelease(S),
         NEW r \in Rows, stock[r].reserved = HeldIn(lines, OpenOrders, r)
  PROVE  stock'[r].reserved = HeldIn(lines', OpenOrders', r)
<1>1. stock'[r].reserved = stock[r].reserved - HeldIn(lines, S, r)
  <2>. DEFINE x == stock[r].reserved - Held(S, r)
  <2>1. stock'[r] = [stock[r] EXCEPT !.reserved = x]
    BY DEF AfterRelease
  <2>. HIDE DEF x
  <2>2. stock'[r].reserved = x
    BY <2>1, RowType
  <2>. QED BY <2>2 DEF x, Held, HeldIn
<1>2. \A o \in OpenOrders : lines[o][r] \in Nat
  BY RowType DEF OpenOrders
<1>3. HeldIn(lines, OpenOrders, r) = HeldIn(lines, OpenOrders \ S, r) + HeldIn(lines, S, r)
  BY <1>2, HeldSplit
<1>4. HeldIn(lines, S, r) \in Nat /\ HeldIn(lines, OpenOrders \ S, r) \in Nat
  BY <1>2, FS_Subset, HeldType
<1> QED BY <1>1, <1>3, <1>4

\* A release leaves the units alone.
LEMMA UnitsRelease ==
  ASSUME TypeOK, NEW S, stock' = AfterRelease(S), NEW r \in Rows
  PROVE  stock'[r].quantity = stock[r].quantity
<1>. DEFINE x == stock[r].reserved - Held(S, r)
<1>1. stock'[r] = [stock[r] EXCEPT !.reserved = x]
  BY DEF AfterRelease
<1>. HIDE DEF x
<1> QED BY <1>1, RowType

LEMMA ConservedTakes ==
  ASSUME IInv, IInv', GoodsInv, NEW o \in Orders, TakesHold(o),
         \A p \in Orders \ {o} : UNCHANGED <<status[p], released[p], consumed[p]>>
  PROVE  /\ IsFiniteSet(OpenOrders') /\ IsFiniteSet(SoldOrders')
         /\ StockConserved' /\ LedgerExact'
<1>. USE DEF GoodsInv
<1>1. PICK b \in [Rows -> Nat] :
          /\ lines' = [lines EXCEPT ![o] = b]
          /\ stock' = [r \in Rows |-> [stock[r] EXCEPT !.reserved = @ + b[r]]]
  BY DEF TakesHold
<1>2. /\ OpenOrders' = OpenOrders \cup {o} /\ o \notin OpenOrders
      /\ SoldOrders' = SoldOrders /\ o \notin SoldOrders
  BY Kinds DEF TakesHold, OpenOrders, SoldOrders, IInv, OrderInv, Untouched
<1>3. ASSUME NEW r \in Rows
      PROVE  /\ stock'[r].quantity = stock[r].quantity
             /\ stock'[r].reserved = stock[r].reserved + b[r]
             /\ lines'[o][r] = b[r] /\ b[r] \in Nat
             /\ \A p \in Orders : lines[p][r] \in Nat /\ lines'[p][r] \in Nat
             /\ \A p \in Orders \ {o} : lines'[p][r] = lines[p][r]
  <2>1. TypeOK /\ TypeOK'
    BY DEF IInv
  <2>2. /\ stock'[r].quantity = stock[r].quantity
        /\ stock'[r].reserved = stock[r].reserved + b[r]
    <3>1. stock'[r] = [stock[r] EXCEPT !.reserved = @ + b[r]]
      BY <1>1
    <3>2. stock[r] = [quantity |-> stock[r].quantity, sellable |-> stock[r].sellable,
                      reserved |-> stock[r].reserved]
      BY <2>1, RowType
    <3>3. stock'[r] = [quantity |-> stock[r].quantity, sellable |-> stock[r].sellable,
                       reserved |-> stock[r].reserved + b[r]]
      BY <3>1, <3>2
    <3>. QED BY <3>3
  <2>. QED BY <1>1, <2>1, <2>2 DEF TypeOK
<1>4. ASSUME NEW r \in Rows
      PROVE  stock'[r].quantity + HeldIn(lines', SoldOrders', r) = InitialStock[r]
  <2>1. \A p \in SoldOrders : lines[p][r] \in Nat /\ lines'[p][r] = lines[p][r]
    BY <1>2, <1>3 DEF SoldOrders
  <2>2. HeldIn(lines', SoldOrders, r) = HeldIn(lines, SoldOrders, r)
    BY <2>1, HeldSame
  <2>. QED BY <1>2, <1>3, <2>2, Sums
<1>5. ASSUME NEW r \in Rows, stock[r].reserved = HeldIn(lines, OpenOrders, r)
      PROVE  stock'[r].reserved = HeldIn(lines', OpenOrders', r)
  <2>1. \A p \in OpenOrders : lines[p][r] \in Nat /\ lines'[p][r] = lines[p][r]
    BY <1>2, <1>3 DEF OpenOrders
  <2>2. HeldIn(lines', OpenOrders, r) = HeldIn(lines, OpenOrders, r)
    BY <2>1, HeldSame
  <2>3. \A p \in OpenOrders' : lines'[p][r] \in Nat
    BY <1>3 DEF OpenOrders
  <2>4. IsFiniteSet(OpenOrders') /\ OpenOrders' \ {o} = OpenOrders /\ {o} \in SUBSET OpenOrders'
    BY <1>2, FS_AddElement
  <2>5. HeldIn(lines', OpenOrders', r) = HeldIn(lines', OpenOrders' \ {o}, r) + HeldIn(lines', {o}, r)
    BY <2>3, <2>4, HeldSplit
  <2>6. HeldIn(lines', {o}, r) = b[r]
    <3>1. lines'[o][r] \in Nat /\ lines'[o][r] = b[r]
      BY <1>3
    <3>. QED BY <3>1, HeldOne
  <2>. QED BY <1>3, <1>5, <2>2, <2>4, <2>5, <2>6
<1>6. ASSUME \A p \in Orders : ~Oversettled(p)' PROVE \A p \in Orders : ~Oversettled(p)
  BY <1>6 DEF TakesHold, Oversettled
<1> QED BY <1>2, <1>4, <1>5, <1>6, Sums, FS_AddElement

\* The units stay where they are and no order is sold.
LEMMA ConservedIdle ==
  ASSUME IInv, GoodsInv, UNCHANGED <<lines, consumed>>,
         \A r \in Rows : stock'[r].quantity = stock[r].quantity
  PROVE  IsFiniteSet(SoldOrders') /\ StockConserved'
<1>1. SoldOrders' = SoldOrders
  BY DEF SoldOrders
<1> QED BY <1>1, Sums DEF GoodsInv

\* Orders are settled, each for the first time.
LEMMA ConservedReturns ==
  ASSUME IInv, GoodsInv, NEW S \in SUBSET OpenOrders, OpenOrders' = OpenOrders \ S,
         stock' = AfterRelease(S), UNCHANGED <<lines, consumed>>,
         (\A p \in Orders : ~Oversettled(p)') => (\A p \in Orders : ~Oversettled(p))
  PROVE  /\ IsFiniteSet(OpenOrders') /\ IsFiniteSet(SoldOrders')
         /\ StockConserved' /\ LedgerExact'
<1>1. TypeOK /\ IsFiniteSet(OpenOrders)
  BY DEF IInv, GoodsInv
<1>2. IsFiniteSet(SoldOrders') /\ StockConserved'
  BY <1>1, UnitsRelease, ConservedIdle
<1>3. LedgerExact'
  BY <1>1, ExactRelease, Sums DEF GoodsInv
<1> QED BY <1>1, <1>2, <1>3, FS_Subset

LEMMA ConservedSells ==
  ASSUME IInv, GoodsInv, NEW o \in Orders, SellsHold(o),
         \A p \in Orders \ {o} : UNCHANGED <<status[p], released[p], consumed[p]>>
  PROVE  /\ IsFiniteSet(OpenOrders') /\ IsFiniteSet(SoldOrders')
         /\ StockConserved' /\ LedgerExact'
<1>. USE DEF GoodsInv
<1>1. /\ OpenOrders' = OpenOrders \ {o} /\ o \in OpenOrders
      /\ SoldOrders' = SoldOrders \cup {o} /\ o \notin SoldOrders
  <2>1. status[o] \in Open /\ consumed[o] = 0 /\ consumed'[o] = 1 /\ status'[o] \notin Open
    BY Kinds DEF SellsHold, IInv, TypeOK, OrderInv, Untouched
  <2>. QED BY <2>1 DEF OpenOrders, SoldOrders
<1>2. ASSUME NEW r \in Rows
      PROVE  /\ stock'[r].quantity = stock[r].quantity - lines[o][r]
             /\ stock'[r].reserved = stock[r].reserved - lines[o][r]
             /\ lines'[o][r] = lines[o][r]
             /\ stock[r].quantity \in Nat /\ stock[r].reserved \in Nat /\ InitialStock[r] \in Nat
             /\ \A p \in Orders : lines[p][r] \in Nat
  <2>1. TypeOK
    BY DEF IInv
  <2>. QED BY <2>1, RowType DEF SellsHold, AfterConsume
<1>3. IsFiniteSet(OpenOrders') /\ IsFiniteSet(SoldOrders') /\ UNCHANGED lines
  BY <1>1, FS_Subset, FS_AddElement DEF SellsHold
<1>4. ASSUME NEW r \in Rows
      PROVE  stock'[r].quantity + HeldIn(lines', SoldOrders', r) = InitialStock[r]
  <2>1. \A p \in SoldOrders' : lines[p][r] \in Nat
    BY <1>2, <1>4 DEF SoldOrders
  <2>2. SoldOrders' \ {o} = SoldOrders /\ {o} \in SUBSET SoldOrders'
    BY <1>1
  <2>3. HeldIn(lines, SoldOrders', r) = HeldIn(lines, SoldOrders' \ {o}, r) + HeldIn(lines, {o}, r)
    BY <1>3, <2>1, <2>2, HeldSplit
  <2>4. lines[o][r] \in Nat
    BY <1>2, <1>4
  <2>5. HeldIn(lines, {o}, r) = lines[o][r]
    BY <2>4, HeldOne
  <2>6. HeldIn(lines, SoldOrders, r) \in Nat
    BY <1>3, <2>1, <2>2, FS_Subset, HeldType
  <2>7. stock[r].quantity + HeldIn(lines, SoldOrders, r) = InitialStock[r]
    BY Sums
  <2>8. /\ stock'[r].quantity = stock[r].quantity - lines[o][r]
        /\ stock[r].quantity \in Nat
    BY <1>2, <1>4
  <2>9. HeldIn(lines, SoldOrders', r) = HeldIn(lines, SoldOrders, r) + lines[o][r]
    BY <2>2, <2>3, <2>5
  <2>10. stock'[r].quantity + HeldIn(lines, SoldOrders', r) = InitialStock[r]
    BY <2>4, <2>6, <2>7, <2>8, <2>9
  <2>. QED BY <1>3, <2>10
<1>5. ASSUME NEW r \in Rows, stock[r].reserved = HeldIn(lines, OpenOrders, r)
      PROVE  stock'[r].reserved = HeldIn(lines', OpenOrders', r)
  <2>1. \A p \in OpenOrders : lines[p][r] \in Nat
    BY <1>2, <1>5 DEF OpenOrders
  <2>2. {o} \in SUBSET OpenOrders
    BY <1>1
  <2>3. HeldIn(lines, OpenOrders, r) = HeldIn(lines, OpenOrders \ {o}, r) + HeldIn(lines, {o}, r)
    BY <2>1, <2>2, HeldSplit
  <2>4. lines[o][r] \in Nat
    BY <1>2, <1>5
  <2>5. HeldIn(lines, {o}, r) = lines[o][r]
    BY <2>4, HeldOne
  <2>6. HeldIn(lines, OpenOrders \ {o}, r) \in Nat
    BY <2>1, FS_Subset, HeldType
  <2>. QED BY <1>1, <1>2, <1>3, <1>5, <2>3, <2>4, <2>5, <2>6
<1>6. ASSUME \A p \in Orders : ~Oversettled(p)' PROVE \A p \in Orders : ~Oversettled(p)
  <2>1. ~Oversettled(o)
    BY <1>1, Kinds DEF IInv, OrderInv, Untouched, Oversettled, OpenOrders
  <2>. QED BY <1>6, <2>1 DEF Oversettled
<1> QED BY <1>3, <1>4, <1>5, <1>6, Sums

LEMMA GoodsOrder ==
  ASSUME IInv, IInv', GoodsInv, NEW o \in Orders, OrderStep(o)
  PROVE  GoodsInv'
<1>1. /\ TakesHold(o) \/ ReturnsHold(o) \/ SellsHold(o) \/ SettlesAgain(o) \/ MovesNothing(o)
      /\ status'[o] \in {"none"} \union Open \union Fulfilled \union Final
  BY OrderMoves DEF GoodsInv
<1>2. \A p \in Orders \ {o} : UNCHANGED <<status[p], released[p], consumed[p]>>
  BY Frame DEF IInv
<1>3. NeverReturned'
  BY <1>1, <1>2 DEF GoodsInv, NeverReturned
<1>4. TypeOK /\ OpenOrders \subseteq Orders
  BY DEF IInv, OpenOrders
<1>5. CASE TakesHold(o)
  BY <1>2, <1>3, <1>5, ConservedTakes DEF GoodsInv
<1>6. CASE ReturnsHold(o)
  <2>1. {o} \in SUBSET OpenOrders /\ OpenOrders' = OpenOrders \ {o}
    BY <1>2, <1>6 DEF ReturnsHold, OpenOrders
  <2>2. ~Oversettled(o)
    BY <1>6, Kinds DEF ReturnsHold, IInv, OrderInv, Untouched, Oversettled
  <2>3. (\A p \in Orders : ~Oversettled(p)') => (\A p \in Orders : ~Oversettled(p))
    BY <1>2, <2>2 DEF Oversettled
  <2>4. stock' = AfterRelease({o}) /\ UNCHANGED <<lines, consumed>>
    BY <1>6 DEF ReturnsHold
  <2>. QED BY <1>3, <2>1, <2>3, <2>4, ConservedReturns DEF GoodsInv
<1>7. CASE SellsHold(o)
  BY <1>2, <1>3, <1>7, ConservedSells DEF GoodsInv
<1>8. CASE SettlesAgain(o)
  <2>1. OpenOrders' = OpenOrders
    BY <1>2, <1>8 DEF SettlesAgain, OpenOrders
  <2>2. IsFiniteSet(SoldOrders') /\ StockConserved'
    BY <1>4, <1>8, UnitsRelease, ConservedIdle DEF SettlesAgain
  <2>3. LedgerExact'
    BY <1>8 DEF SettlesAgain, LedgerExact
  <2>. QED BY <1>3, <2>1, <2>2, <2>3 DEF GoodsInv
<1>9. CASE MovesNothing(o)
  <2>1. OpenOrders' = OpenOrders
    BY <1>2, <1>9 DEF MovesNothing, OpenOrders
  <2>2. IsFiniteSet(SoldOrders') /\ StockConserved'
    BY <1>9, ConservedIdle DEF MovesNothing
  <2>3. LedgerExact'
    BY <1>9, <2>1, Sums DEF MovesNothing, Oversettled, GoodsInv
  <2>. QED BY <1>3, <2>1, <2>2, <2>3 DEF GoodsInv
<1> QED BY <1>1, <1>5, <1>6, <1>7, <1>8, <1>9

\* A batch settles some order a second time, or every order of it is open.
LEMMA GoodsRequest ==
  ASSUME IInv, IInv', GoodsInv, NEW q \in Requests, RequestStep(q)
  PROVE  GoodsInv'
<1>1. CASE ReadOrders(q) \/ RunCommand(q) \/ ExpireRefused(q)
  <2>1. UNCHANGED <<status, lines, stock, historyVars>>
    BY <1>1 DEF ReadOrders, RunCommand, FindStale, ExpireRefused, orderVars, historyVars
  <2>2. OpenOrders' = OpenOrders /\ SoldOrders' = SoldOrders
    BY <2>1 DEF OpenOrders, SoldOrders, historyVars
  <2>. QED BY <2>1, <2>2, Sums DEF GoodsInv, NeverReturned, Oversettled, historyVars
<1>2. CASE ExpireBatch(q)
  <2>. DEFINE S == batch[q]
  <2>1. /\ stock' = AfterRelease(S) /\ UNCHANGED <<lines, consumed>> /\ S \subseteq Orders
        /\ status' = [o \in Orders |-> IF o \in S THEN "payment_expired" ELSE status[o]]
        /\ released' = [o \in Orders |-> IF o \in S THEN released[o] + 1 ELSE released[o]]
        /\ \A o \in S : status[o] # "none"
    BY <1>2 DEF ExpireBatch, ReleaseAll, IInv, TypeOK, BatchInv
  <2>. HIDE DEF S
  <2>2. NeverReturned'
    BY <2>1 DEF GoodsInv, NeverReturned, Final
  <2>3. OpenOrders' = OpenOrders \ S
    BY <2>1, Kinds DEF OpenOrders
  <2>4. TypeOK /\ IsFiniteSet(OpenOrders)
    BY DEF IInv, GoodsInv
  <2>5. (\A p \in Orders : ~Oversettled(p)') => (\A p \in Orders : ~Oversettled(p))
    <3>1. ASSUME NEW p \in Orders PROVE Oversettled(p) => Oversettled(p)'
      <4>1. released[p] \in Nat /\ consumed[p] \in Nat
        BY <2>4 DEF TypeOK
      <4>. QED BY <2>1, <4>1 DEF Oversettled
    <3>. QED BY <3>1
  <2>6. CASE S \subseteq OpenOrders
    <3>1. /\ IsFiniteSet(OpenOrders') /\ IsFiniteSet(SoldOrders')
          /\ StockConserved' /\ LedgerExact'
      BY <2>1, <2>3, <2>5, <2>6, ConservedReturns
    <3>. QED BY <2>2, <3>1 DEF GoodsInv
  <2>7. CASE ~(S \subseteq OpenOrders)
    <3>1. PICK o \in S : o \in Orders /\ status[o] \in Fulfilled \union Final
      BY <2>1, <2>7 DEF OpenOrders, GoodsInv, NeverReturned
    <3>2. Oversettled(o)'
      <4>1. released[o] \in Nat /\ consumed[o] \in Nat
        BY <2>4, <3>1 DEF TypeOK
      <4>2. released[o] + consumed[o] >= 1
        BY <3>1, <4>1 DEF IInv, OrderInv
      <4>. QED BY <2>1, <3>1, <4>1, <4>2 DEF Oversettled
    <3>3. LedgerExact'
      BY <3>1, <3>2 DEF LedgerExact
    <3>4. IsFiniteSet(SoldOrders') /\ StockConserved'
      BY <2>1, <2>4, UnitsRelease, ConservedIdle
    <3>. QED BY <2>2, <2>3, <2>4, <3>3, <3>4, FS_Subset DEF GoodsInv
  <2>. QED BY <2>6, <2>7
<1> QED BY <1>1, <1>2 DEF RequestStep

LEMMA GoodsInit == Init => GoodsInv
<1>. SUFFICES ASSUME Init PROVE GoodsInv
  OBVIOUS
<1>1. OpenOrders = {} /\ SoldOrders = {} /\ NeverReturned
  BY Kinds DEF Init, OpenOrders, SoldOrders, NeverReturned
<1>2. StockConserved /\ LedgerExact
  BY <1>1, HeldNone, Sums, BasketType DEF Init
<1> QED BY <1>1, <1>2, FS_EmptySet DEF GoodsInv

LEMMA GoodsStep == IInv /\ IInv' /\ GoodsInv /\ [Next]_vars => GoodsInv'
<1>. SUFFICES ASSUME IInv, IInv', GoodsInv, [Next]_vars PROVE GoodsInv'
  OBVIOUS
<1>1. CASE UNCHANGED vars
  <2>1. UNCHANGED <<status, lines, stock, released, consumed>>
    BY <1>1 DEF vars, orderVars, historyVars
  <2>2. OpenOrders' = OpenOrders /\ SoldOrders' = SoldOrders
    BY <2>1 DEF OpenOrders, SoldOrders
  <2>. QED BY <2>1, <2>2, Sums DEF GoodsInv, NeverReturned, Oversettled
<1> QED BY <1>1, GoodsOrder, GoodsRequest DEF Next

\* The goods and the reservations add up throughout.
THEOREM GoodsInvariance == Spec => []GoodsInv
BY GoodsInit, GoodsStep, Invariance, PTL DEF Spec

\* Whatever is released twice or cancelled late: a unit leaves its row by a
\* sale, and nothing else takes or makes one.
THEOREM GoodsConserved == Spec => []StockConserved
BY GoodsInvariance, PTL DEF GoodsInv

\* While no order was settled twice, what a row says is reserved is what the
\* open orders hold of it.
THEOREM ReservedIsHeld == Spec => []LedgerExact
BY GoodsInvariance, PTL DEF GoodsInv

(***************************************************************************)
(* SupplyLayers: what its sums and its two ways of sharing amount to.      *)
(***************************************************************************)

LEMMA ClipRange ==
  ASSUME NEW n \in Int, NEW high \in Nat
  PROVE  /\ Clip(n, 0, high) \in 0 .. high
         /\ n <= 0 => Clip(n, 0, high) = 0
         /\ n \in 0 .. high => Clip(n, 0, high) = n
         /\ n >= high => Clip(n, 0, high) = high
BY DEF Clip

\* Where nothing is, nothing adds to a sum.
LEMMA SumSupport ==
  ASSUME NEW T, IsFiniteSet(T), NEW S \in SUBSET T, NEW f,
         \A x \in T : f[x] \in Int, \A x \in T \ S : f[x] = 0
  PROVE  SumFunctionOnSet(f, T) = SumFunctionOnSet(f, S)
<1>. DEFINE R == T \ S
<1>1. IsFiniteSet(S) /\ IsFiniteSet(R) /\ S \cap R = {} /\ S \cup R = T
  BY FS_Subset
<1>2. \A x \in S \cup R : f[x] \in Int
  OBVIOUS
<1>3. \A x \in R : f[x] = 0
  OBVIOUS
<1>. HIDE DEF R
<1>4. SumFunctionOnSet(f, S \cup R) = SumFunctionOnSet(f, S) + SumFunctionOnSet(f, R)
  BY <1>1, <1>2, SumJoin
<1>5. SumFunctionOnSet(f, R) = 0 /\ SumFunctionOnSet(f, S) \in Int
  BY <1>1, <1>2, <1>3, SumZero, SumType
<1>6. SumFunctionOnSet(f, T) = SumFunctionOnSet(f, S) + SumFunctionOnSet(f, R)
  BY <1>1, <1>4
<1> QED BY <1>5, <1>6

\* A part of the set has no more than the whole.
LEMMA SumPart ==
  ASSUME NEW T, IsFiniteSet(T), NEW S \in SUBSET T, NEW f, \A x \in T : f[x] \in Nat
  PROVE  /\ SumFunctionOnSet(f, S) \in Nat /\ SumFunctionOnSet(f, T) \in Nat
         /\ SumFunctionOnSet(f, S) <= SumFunctionOnSet(f, T)
<1>. DEFINE R == T \ S
<1>1. IsFiniteSet(S) /\ IsFiniteSet(R) /\ S \cap R = {} /\ S \cup R = T
  BY FS_Subset
<1>2. \A x \in S \cup R : f[x] \in Nat
  OBVIOUS
<1>. HIDE DEF R
<1>3. SumFunctionOnSet(f, S \cup R) = SumFunctionOnSet(f, S) + SumFunctionOnSet(f, R)
  BY <1>1, <1>2, SumJoin
<1>4. SumFunctionOnSet(f, S) \in Nat /\ SumFunctionOnSet(f, R) \in Nat
  BY <1>1, <1>2, SumType
<1>5. SumFunctionOnSet(f, T) = SumFunctionOnSet(f, S) + SumFunctionOnSet(f, R)
  BY <1>1, <1>3
<1> QED BY <1>4, <1>5

\* R orders S strictly and totally.
Ranks(R, S) ==
    /\ \A a, b, c \in S : <<a, b>> \in R /\ <<b, c>> \in R => <<a, c>> \in R
    /\ \A a \in S : <<a, a>> \notin R
    /\ \A a, b \in S : a # b => <<a, b>> \in R \/ <<b, a>> \in R

Before(R, S, a) == {b \in S : <<b, a>> \in R}

\* The last of finitely many.
LEMMA LastOne ==
  ASSUME NEW S, IsFiniteSet(S), NEW R, Ranks(R, S), NEW T \in SUBSET S, T # {}
  PROVE  \E m \in T : \A x \in T \ {m} : <<x, m>> \in R
<1>. DEFINE rest(a) == {x \in T : <<x, a>> \notin R}
            F == {rest(a) : a \in T}
<1>1. F \in SUBSET (SUBSET S) /\ F # {}
  OBVIOUS
<1>2. PICK A \in F : \A B \in F : B \subseteq A => B = A
  <2>. HIDE DEF F
  <2>. QED BY <1>1, SmallestSubset
<1>3. PICK m \in T : A = rest(m)
  BY <1>2
<1>4. ASSUME NEW x \in T, <<m, x>> \in R PROVE FALSE
  <2>1. rest(x) \subseteq rest(m)
    BY <1>4 DEF Ranks
  <2>2. rest(x) = rest(m)
    BY <1>2, <1>3, <2>1
  <2>3. m \in rest(m) /\ m \notin rest(x)
    BY <1>4 DEF Ranks
  <2>. QED BY <2>2, <2>3
<1>5. \A x \in T \ {m} : <<x, m>> \in R
  BY <1>4 DEF Ranks
<1> QED BY <1>5

\* One after the other, each takes what those before it left of n, up to what
\* it has: together they take n, or all they have.
LEMMA SumShare ==
  ASSUME NEW S, IsFiniteSet(S), NEW R, Ranks(R, S), NEW n \in Nat,
         NEW v, \A a \in S : v[a] \in Nat,
         NEW share,
         \A a \in S : share[a] = Clip(n - SumFunctionOnSet(v, Before(R, S, a)), 0, v[a])
  PROVE  SumFunctionOnSet(share, S) =
           IF n < SumFunctionOnSet(v, S) THEN n ELSE SumFunctionOnSet(v, S)
<1>. DEFINE Closed(T) == \A a \in T : Before(R, S, a) \subseteq T
            G == {T \in SUBSET S : Closed(T) =>
                    SumFunctionOnSet(share, T) =
                      IF n < SumFunctionOnSet(v, T) THEN n ELSE SumFunctionOnSet(v, T)}
<1>1. \A a \in S : share[a] \in Nat
  <2>1. ASSUME NEW a \in S PROVE share[a] \in Nat
    <3>1. Before(R, S, a) \in SUBSET S
      BY DEF Before
    <3>2. SumFunctionOnSet(v, Before(R, S, a)) \in Nat
      BY <3>1, SumPart
    <3>. DEFINE x == n - SumFunctionOnSet(v, Before(R, S, a))
    <3>3. x \in Int /\ share[a] = Clip(x, 0, v[a])
      BY <3>2
    <3>. HIDE DEF x
    <3>. QED BY <3>3, ClipRange
  <2>. QED BY <2>1
<1>2. ASSUME NEW T \in SUBSET S, \A U \in SUBSET T : U # T => U \in G, Closed(T)
      PROVE  SumFunctionOnSet(share, T) =
               IF n < SumFunctionOnSet(v, T) THEN n ELSE SumFunctionOnSet(v, T)
  <2>1. CASE T = {}
    BY <2>1, SumEmpty
  <2>2. CASE T # {}
    <3>1. PICK m \in T : \A x \in T \ {m} : <<x, m>> \in R
      BY <2>2, LastOne
    <3>. DEFINE B == T \ {m}
    <3>2. Before(R, S, m) = B
      BY <1>2, <3>1 DEF Before, Ranks
    <3>3. Closed(B)
      BY <1>2, <3>1 DEF Before, Ranks
    <3>4. B \in G
      BY <1>2, <3>1
    <3>5. SumFunctionOnSet(share, B) =
            IF n < SumFunctionOnSet(v, B) THEN n ELSE SumFunctionOnSet(v, B)
      BY <3>3, <3>4
    <3>6. share[m] = Clip(n - SumFunctionOnSet(v, B), 0, v[m])
      BY <1>2, <3>2
    <3>7. IsFiniteSet(T)
      BY FS_Subset
    <3>8. /\ SumFunctionOnSet(share, T) = share[m] + SumFunctionOnSet(share, B)
          /\ SumFunctionOnSet(v, T) = v[m] + SumFunctionOnSet(v, B)
      BY <1>1, <3>7, SumRemove
    <3>9. SumFunctionOnSet(v, B) \in Nat /\ v[m] \in Nat
      <4>1. B \in SUBSET T
        OBVIOUS
      <4>. QED BY <3>7, <4>1, SumPart
    <3>. HIDE DEF B
    <3>. QED BY <3>5, <3>6, <3>8, <3>9 DEF Clip
  <2>. QED BY <2>1, <2>2
<1>3. S \in G
  <2>1. \A T \in SUBSET S : (\A U \in SUBSET T : U # T => U \in G) => T \in G
    BY <1>2
  <2>. HIDE DEF G
  <2>. QED BY <2>1, SubsetInduction
<1>4. Closed(S)
  BY DEF Before
<1> QED BY <1>3, <1>4

ReturnStatuses == Active \union {"rejected", "completed"}
ReturnRow == [status : ReturnStatuses, quantity : Nat]

OrderStatuses == {"none", "placed", "approving", "sold", "delivered", "ended", "expired"}

\* The columns, with the types a database gives them.
Columns ==
    /\ supply \in [Layers -> [state : {"none", "recorded", "received", "deleted"},
                              quantity : Nat, remaining : Nat, at : Nat]]
    /\ booked \in [OrderIds -> [amount : Nat, units : [Layers -> Nat], loose : Nat]]
    /\ orderStatus \in [OrderIds -> OrderStatuses]
    /\ DOMAIN seen = OrderIds
    /\ \A o \in OrderIds : \A s \in DOMAIN seen[o] : s \in Layers /\ seen[o][s] \in Nat
    /\ taken \in [OrderIds -> [Layers -> Nat]]
    /\ restored \in [OrderIds -> [Layers -> Nat]]
    /\ turn \in [OrderIds -> [Layers -> 0 .. MaxLayer]]
    /\ requests \in [OrderIds -> Seq(ReturnRow)]

\* A supply has no more left than it was bought with.
Stocked(s) ==
    /\ supply[s].remaining <= supply[s].quantity
    /\ supply[s].state \in {"recorded", "received"} =>
         supply[s].quantity \in 1 .. MaxQuantity /\ supply[s].at \in 1 .. MaxTime

\* What o took it took from received supplies, which nobody deletes or
\* resizes any more, and in an order that tells its rows apart.
RowsOf(o) ==
    \A s \in Layers :
        /\ restored[o][s] <= taken[o][s]
        /\ taken[o][s] > 0 \/ booked[o].units[s] > 0 \/ s \in DOMAIN seen[o] =>
             supply[s].state = "received"
        /\ turn[o][s] = 0 <=> taken[o][s] = 0
        /\ \A r \in Layers :
             /\ r # s /\ taken[o][r] > 0 /\ taken[o][s] > 0 => turn[o][r] # turn[o][s]
             /\ turn[o][r] < turn[o][s] /\ restored[o][r] > 0 => restored[o][s] = taken[o][s]

\* The cost of o follows its status.
CostOf(o) ==
    /\ orderStatus[o] \in {"none", "placed", "approving"} => taken[o] = NoPieces
    /\ orderStatus[o] = "approving" => booked[o].amount > 0
    /\ Costed(o) =>
         IF booked[o].amount > 0 THEN Total(taken[o]) = booked[o].amount
                               ELSE taken[o] = booked[o].units
    /\ orderStatus[o] \in {"none", "placed", "approving", "sold"} => restored[o] = NoPieces
    /\ orderStatus[o] = "ended" => restored[o] = taken[o]

\* The returns of o follow its cost.
ReturnsOf(o) ==
    /\ orderStatus[o] \notin {"delivered", "expired"} => requests[o] = << >>
    /\ Costed(o) /\ orderStatus[o] \notin {"ended", "expired"} =>
         Total(restored[o]) = Claimed(o, {"completed"})
    /\ Costed(o) /\ orderStatus[o] = "expired" =>
         \/ Total(restored[o]) = Claimed(o, {"completed"})
         \/ restored[o] = taken[o] /\ requests[o] = << >>
    /\ Claimed(o, CountedStatuses) <= Quantity(o)
    /\ \A i, j \in DOMAIN requests[o] :
         requests[o][i].status \in Active /\ requests[o][j].status \in Active => i = j

LayersInv ==
    /\ Columns /\ LayersBalance
    /\ \A s \in Layers : Stocked(s)
    /\ \A o \in OrderIds : RowsOf(o) /\ CostOf(o) /\ ReturnsOf(o)

LEMMA LayersFinite ==
    /\ IsFiniteSet(Layers) /\ Layers \subseteq Nat
    /\ Cardinality(Layers) = MaxLayer
BY FS_Interval, LayerBounds DEF Layers

LEMMA TotalOf ==
  ASSUME NEW S, NEW f, f = [s \in S |-> f[s]]
  PROVE  Total(f) = SumFunctionOnSet(f, S)
<1>1. DOMAIN f = S
  OBVIOUS
<1> QED BY <1>1 DEF Total, SumFunction

\* The places of the rows that f and before make: one per row, in order.
Places(f, before) ==
    [s \in Layers |-> IF f[s] = 0 THEN 0 ELSE 1 + Cardinality({r \in before[s] : f[r] > 0})]

LEMMA PlacesDiffer ==
  ASSUME NEW f \in [Layers -> Nat], NEW before \in [Layers -> SUBSET Layers],
         \A s \in Layers : s \notin before[s],
         \A r, s \in Layers : r \in before[s] => before[r] \subseteq before[s],
         \A r, s \in Layers : r # s /\ f[r] > 0 /\ f[s] > 0 => r \in before[s] \/ s \in before[r]
  PROVE  /\ Places(f, before) \in [Layers -> 0 .. MaxLayer]
         /\ \A s \in Layers : Places(f, before)[s] = 0 <=> f[s] = 0
         /\ \A r, s \in Layers :
              r # s /\ f[r] > 0 /\ f[s] > 0 => Places(f, before)[r] # Places(f, before)[s]
<1>. DEFINE P == Places(f, before)
            rows(s) == {r \in before[s] : f[r] > 0}
<1>1. ASSUME NEW s \in Layers
      PROVE  /\ IsFiniteSet(rows(s)) /\ Cardinality(rows(s)) \in Nat
             /\ Cardinality(rows(s)) < MaxLayer
  <2>1. rows(s) \in SUBSET Layers /\ rows(s) # Layers
    OBVIOUS
  <2>. HIDE DEF rows
  <2>2. /\ IsFiniteSet(rows(s)) /\ Cardinality(rows(s)) <= Cardinality(Layers)
        /\ Cardinality(rows(s)) # Cardinality(Layers)
    BY <2>1, LayersFinite, FS_Subset
  <2>3. Cardinality(rows(s)) \in Nat
    BY <2>2, FS_CardinalityType
  <2>. QED BY <2>2, <2>3, LayersFinite, LayerBounds
<1>2. \A s \in Layers : P[s] = IF f[s] = 0 THEN 0 ELSE 1 + Cardinality(rows(s))
  BY DEF Places
<1>3. ASSUME NEW r \in Layers, NEW s \in Layers, r \in before[s], f[r] > 0
      PROVE  Cardinality(rows(r)) < Cardinality(rows(s))
  <2>1. rows(r) \in SUBSET rows(s) /\ r \in rows(s) /\ r \notin rows(r)
    BY <1>3
  <2>. HIDE DEF rows
  <2>2. /\ Cardinality(rows(r)) <= Cardinality(rows(s))
        /\ Cardinality(rows(r)) # Cardinality(rows(s))
    BY <1>1, <2>1, FS_Subset
  <2>. QED BY <1>1, <2>2
<1>4. P = [s \in Layers |-> P[s]]
  BY DEF Places
<1>. HIDE DEF P, rows
<1>5. \A s \in Layers : P[s] \in 0 .. MaxLayer /\ (P[s] = 0 <=> f[s] = 0)
  <2>1. ASSUME NEW s \in Layers PROVE P[s] \in 0 .. MaxLayer /\ (P[s] = 0 <=> f[s] = 0)
    BY <1>1, <1>2, LayerBounds
  <2>. QED BY <2>1
<1>6. ASSUME NEW r \in Layers, NEW s \in Layers, r # s, f[r] > 0, f[s] > 0
      PROVE  P[r] # P[s]
  <2>1. P[r] = 1 + Cardinality(rows(r)) /\ P[s] = 1 + Cardinality(rows(s))
    BY <1>2, <1>6
  <2>2. Cardinality(rows(r)) # Cardinality(rows(s))
    BY <1>1, <1>3, <1>6
  <2>. QED BY <1>1, <2>1, <2>2
<1>7. P \in [Layers -> 0 .. MaxLayer]
  BY <1>4, <1>5
<1> QED BY <1>5, <1>6, <1>7 DEF P

\* The query of a sale and its locks.
LEMMA OlderRanks ==
  ASSUME Columns, NEW o \in OrderIds
  PROVE  /\ Older(o) \in [Layers -> SUBSET Layers]
         /\ \A s \in Layers : s \notin Older(o)[s] /\ Older(o)[s] \subseteq DOMAIN seen[o]
         /\ \A r, s \in Layers : r \in Older(o)[s] => Older(o)[r] \subseteq Older(o)[s]
         /\ \A r, s \in DOMAIN seen[o] : r # s => r \in Older(o)[s] \/ s \in Older(o)[r]
         /\ \A s \in Layers \ DOMAIN seen[o] : Older(o)[s] = {}
<1>1. \A s \in DOMAIN seen[o] : s \in Layers /\ s \in Nat /\ seen[o][s] \in Nat
  BY LayersFinite DEF Columns
<1> QED BY <1>1 DEF Older

\* _consume_fifo: the layers that were chosen give what is sold, or all they
\* have left, and no layer more than it has.
LEMMA FifoShares ==
  ASSUME Columns, NEW o \in OrderIds
  PROVE  /\ Left(o) \in [Layers -> Nat] /\ Fifo(o) \in [Layers -> Nat]
         /\ \A s \in Layers : Fifo(o)[s] <= Left(o)[s] /\ Left(o)[s] <= supply[s].remaining
         /\ \A s \in Layers : s \notin DOMAIN seen[o] => Fifo(o)[s] = 0
         /\ Total(Left(o)) >= booked[o].amount => Total(Fifo(o)) = booked[o].amount
<1>. DEFINE S == DOMAIN seen[o]
            R == {p \in S \X S : p[1] \in Older(o)[p[2]]}
            v == Left(o)
            f == Fifo(o)
            n == booked[o].amount
<1>1. /\ S \in SUBSET Layers /\ n \in Nat
      /\ \A s \in Layers : supply[s].remaining \in Nat
  BY DEF Columns
<1>2. v \in [Layers -> Nat] /\ \A s \in Layers : v[s] <= supply[s].remaining
  BY <1>1 DEF Left
<1>3. \A s \in Layers \ S : v[s] = 0
  BY DEF Left
<1>4. ASSUME NEW s \in Layers
      PROVE  /\ f[s] = Clip(n - SumFunctionOnSet(v, Older(o)[s]), 0, v[s])
             /\ f[s] \in 0 .. v[s]
  <2>1. f[s] = Clip(n - SumFunctionOnSet(v, Older(o)[s]), 0, v[s])
    BY DEF Fifo
  <2>2. Older(o)[s] \in SUBSET Layers
    BY OlderRanks
  <2>3. SumFunctionOnSet(v, Older(o)[s]) \in Nat /\ v[s] \in Nat
    <3>. HIDE DEF v
    <3>. QED BY <1>2, <2>2, LayersFinite, SumPart
  <2>. DEFINE x == n - SumFunctionOnSet(v, Older(o)[s])
  <2>4. x \in Int
    BY <1>1, <2>3
  <2>. HIDE DEF x, v, n
  <2>. QED BY <2>1, <2>3, <2>4, ClipRange DEF x
<1>5. f \in [Layers -> Nat]
  <2>1. f = [s \in Layers |-> f[s]]
    BY DEF Fifo
  <2>. HIDE DEF f, v
  <2>. QED BY <1>2, <1>4, <2>1
<1>6. \A s \in Layers : f[s] <= v[s]
  <2>. HIDE DEF f, v
  <2>. QED BY <1>2, <1>4
<1>7. \A s \in Layers \ S : f[s] = 0
  <2>. HIDE DEF f, v
  <2>. QED BY <1>3, <1>4
<1>8. ASSUME Total(v) >= n PROVE Total(f) = n
  <2>1. Ranks(R, S)
    BY <1>1, OlderRanks DEF Ranks
  <2>2. \A s \in S : Before(R, S, s) = Older(o)[s]
    BY <1>1, OlderRanks DEF Before
  <2>3. Total(v) = SumFunctionOnSet(v, Layers) /\ Total(f) = SumFunctionOnSet(f, Layers)
    <3>1. v = [s \in Layers |-> v[s]] /\ f = [s \in Layers |-> f[s]]
      BY DEF Left, Fifo
    <3>. HIDE DEF v, f
    <3>. QED BY <3>1, TotalOf
  <2>. HIDE DEF S, R, v, f, n
  <2>4. /\ SumFunctionOnSet(v, Layers) = SumFunctionOnSet(v, S)
        /\ SumFunctionOnSet(f, Layers) = SumFunctionOnSet(f, S)
    <3>1. \A s \in Layers : v[s] \in Int /\ f[s] \in Int
      BY <1>2, <1>5
    <3>. QED BY <1>1, <1>3, <1>7, <3>1, LayersFinite, SumSupport
  <2>5. SumFunctionOnSet(f, S) =
          IF n < SumFunctionOnSet(v, S) THEN n ELSE SumFunctionOnSet(v, S)
    <3>1. IsFiniteSet(S)
      BY <1>1, LayersFinite, FS_Subset
    <3>2. \A s \in S : v[s] \in Nat
      BY <1>1, <1>2
    <3>3. \A s \in S : f[s] = Clip(n - SumFunctionOnSet(v, Before(R, S, s)), 0, v[s])
      BY <1>1, <1>4, <2>2
    <3>. QED BY <1>1, <2>1, <3>1, <3>2, <3>3, SumShare
  <2>6. SumFunctionOnSet(v, S) \in Nat
    BY <1>1, <1>2, LayersFinite, SumPart
  <2>. QED BY <1>1, <1>8, <2>3, <2>4, <2>5, <2>6
<1> QED BY <1>2, <1>5, <1>6, <1>7, <1>8

\* reverse_order_item_consumption: a row gives back no more than it can, the
\* latest first, and together they give back what is asked for if they can.
LEMMA BackShares ==
  ASSUME Columns, NEW o \in OrderIds, RowsOf(o), NEW n \in Nat
  PROVE  /\ Reversible(o) \in [Layers -> Nat] /\ GiveBack(o, n) \in [Layers -> Nat]
         /\ \A s \in Layers : GiveBack(o, n)[s] <= Reversible(o)[s]
         /\ n <= Total(Reversible(o)) => Total(GiveBack(o, n)) = n
         /\ n = Total(Reversible(o)) => GiveBack(o, n) = Reversible(o)
         /\ \A r, s \in Layers : turn[o][r] < turn[o][s] /\ GiveBack(o, n)[r] > 0 =>
              GiveBack(o, n)[s] = Reversible(o)[s]
<1>. DEFINE v == Reversible(o)
            f == GiveBack(o, n)
            later(s) == {r \in Layers : turn[o][r] > turn[o][s]}
            S == {s \in Layers : turn[o][s] > 0}
            R == {p \in S \X S : turn[o][p[1]] > turn[o][p[2]]}
<1>1. /\ \A s \in Layers : turn[o][s] \in Nat /\ taken[o][s] \in Nat /\ restored[o][s] \in Nat
      /\ \A s \in Layers : turn[o][s] = 0 <=> taken[o][s] = 0
      /\ \A r, s \in Layers : r # s /\ taken[o][r] > 0 /\ taken[o][s] > 0 =>
              turn[o][r] # turn[o][s]
      /\ \A s \in Layers : restored[o][s] <= taken[o][s]
  BY DEF Columns, RowsOf
<1>2. v \in [Layers -> Nat] /\ \A s \in Layers \ S : v[s] = 0
  BY <1>1 DEF Reversible
<1>3. \A s \in Layers : f[s] = Clip(n - SumFunctionOnSet(v, later(s)), 0, v[s])
  BY DEF GiveBack
<1>4. /\ \A s \in Layers : later(s) \in SUBSET Layers
      /\ \A r, s \in Layers : turn[o][r] < turn[o][s] =>
           later(s) \cup {s} \in SUBSET later(r) /\ s \notin later(s)
      /\ \A s \in Layers : s \notin later(s)
  BY <1>1
<1>5. /\ f = [s \in Layers |-> f[s]] /\ v = [s \in Layers |-> v[s]]
  BY DEF GiveBack, Reversible
<1>6. Ranks(R, S) /\ S \in SUBSET Layers
  BY <1>1 DEF Ranks
<1>7. \A s \in S : Before(R, S, s) = later(s)
  BY <1>1 DEF Before
<1>. HIDE DEF v, f, later, S, R
<1>8. ASSUME NEW s \in Layers
      PROVE  /\ SumFunctionOnSet(v, later(s)) \in Nat /\ v[s] \in Nat
             /\ SumFunctionOnSet(v, Layers) \in Nat
             /\ f[s] \in 0 .. v[s]
             /\ n - SumFunctionOnSet(v, later(s)) <= 0 => f[s] = 0
             /\ n - SumFunctionOnSet(v, later(s)) >= v[s] => f[s] = v[s]
  <2>1. /\ SumFunctionOnSet(v, later(s)) \in Nat /\ v[s] \in Nat
        /\ SumFunctionOnSet(v, Layers) \in Nat
    BY <1>2, <1>4, LayersFinite, SumPart
  <2>. DEFINE x == n - SumFunctionOnSet(v, later(s))
  <2>2. x \in Int
    BY <2>1
  <2>3. f[s] = Clip(x, 0, v[s])
    BY <1>3
  <2>4. f[s] \in 0 .. v[s] /\ (x <= 0 => f[s] = 0) /\ (x >= v[s] => f[s] = v[s])
    <3>. HIDE DEF x
    <3>1. /\ Clip(x, 0, v[s]) \in 0 .. v[s]
          /\ x <= 0 => Clip(x, 0, v[s]) = 0
          /\ x >= v[s] => Clip(x, 0, v[s]) = v[s]
      BY <2>1, <2>2, ClipRange
    <3>. QED BY <2>3, <3>1
  <2>. QED BY <2>1, <2>4
\* What later rows have and what s has is no more than a set with both has.
<1>9. ASSUME NEW s \in Layers, NEW T \in SUBSET Layers, later(s) \cup {s} \in SUBSET T
      PROVE  /\ SumFunctionOnSet(v, T) \in Nat
             /\ SumFunctionOnSet(v, later(s)) + v[s] <= SumFunctionOnSet(v, T)
  <2>. DEFINE U == later(s) \cup {s}
  <2>1. U \ {s} = later(s) /\ s \in U /\ U \in SUBSET Layers
    BY <1>4, <1>9
  <2>2. IsFiniteSet(U) /\ IsFiniteSet(T) /\ \A x \in T : v[x] \in Nat
    BY <1>2, <1>9, <2>1, LayersFinite, FS_Subset
  <2>3. \A x \in U : v[x] \in Int
    BY <1>2, <2>1
  <2>4. SumFunctionOnSet(v, U) = v[s] + SumFunctionOnSet(v, U \ {s})
    <3>. HIDE DEF U
    <3>. QED BY <2>1, <2>2, <2>3, SumRemove
  <2>5. SumFunctionOnSet(v, U) <= SumFunctionOnSet(v, T) /\ SumFunctionOnSet(v, T) \in Nat
    BY <1>9, <2>2, SumPart
  <2>. HIDE DEF U
  <2>6. SumFunctionOnSet(v, U) = v[s] + SumFunctionOnSet(v, later(s))
    BY <2>1, <2>4
  <2>. QED BY <1>8, <2>5, <2>6
<1>10. f \in [Layers -> Nat] /\ \A s \in Layers : f[s] <= v[s]
  BY <1>5, <1>8
<1>11. Total(v) = SumFunctionOnSet(v, Layers) /\ Total(f) = SumFunctionOnSet(f, Layers)
  BY <1>5, TotalOf
<1>12. ASSUME n <= Total(v) PROVE Total(f) = n
  <2>1. \A s \in Layers \ S : f[s] = 0
    BY <1>2, <1>8
  <2>2. /\ SumFunctionOnSet(v, Layers) = SumFunctionOnSet(v, S)
        /\ SumFunctionOnSet(f, Layers) = SumFunctionOnSet(f, S)
    <3>1. \A s \in Layers : v[s] \in Int /\ f[s] \in Int
      BY <1>2, <1>10
    <3>. QED BY <1>2, <1>6, <2>1, <3>1, LayersFinite, SumSupport
  <2>3. SumFunctionOnSet(f, S) =
          IF n < SumFunctionOnSet(v, S) THEN n ELSE SumFunctionOnSet(v, S)
    <3>1. IsFiniteSet(S)
      BY <1>6, LayersFinite, FS_Subset
    <3>2. \A s \in S : v[s] \in Nat
      BY <1>2, <1>6
    <3>3. \A s \in S : f[s] = Clip(n - SumFunctionOnSet(v, Before(R, S, s)), 0, v[s])
      BY <1>3, <1>6, <1>7
    <3>. QED BY <1>6, <3>1, <3>2, <3>3, SumShare
  <2>4. SumFunctionOnSet(v, S) \in Nat
    BY <1>2, <1>6, LayersFinite, SumPart
  <2>. QED BY <1>11, <1>12, <2>2, <2>3, <2>4
<1>13. ASSUME n = Total(v) PROVE f = v
  <2>1. ASSUME NEW s \in Layers PROVE f[s] = v[s]
    <3>1. later(s) \cup {s} \in SUBSET Layers
      BY <1>4, <2>1
    <3>2. SumFunctionOnSet(v, later(s)) + v[s] <= SumFunctionOnSet(v, Layers)
      BY <1>9, <3>1
    <3>3. n - SumFunctionOnSet(v, later(s)) >= v[s]
      BY <1>8, <1>11, <1>13, <3>2
    <3>. QED BY <1>8, <3>3
  <2>. QED BY <1>5, <2>1
<1>14. ASSUME NEW r \in Layers, NEW s \in Layers, turn[o][r] < turn[o][s], f[r] > 0
       PROVE  f[s] = v[s]
  <2>1. later(s) \cup {s} \in SUBSET later(r) /\ later(r) \in SUBSET Layers
    BY <1>4, <1>14
  <2>2. SumFunctionOnSet(v, later(s)) + v[s] <= SumFunctionOnSet(v, later(r))
    BY <1>9, <2>1
  <2>3. n - SumFunctionOnSet(v, later(r)) > 0
    BY <1>8, <1>14
  <2>4. n - SumFunctionOnSet(v, later(s)) >= v[s]
    BY <1>8, <2>2, <2>3
  <2>. QED BY <1>8, <2>4
<1> QED BY <1>2, <1>10, <1>12, <1>13, <1>14 DEF v, f

(***************************************************************************)
(* SupplyLayers: the invariant, step by step.                              *)
(***************************************************************************)

\* A step that is not about order p leaves it as it was.
LEMMA OrderFrame ==
  ASSUME NEW p \in OrderIds, RowsOf(p), CostOf(p), ReturnsOf(p),
         UNCHANGED <<booked[p], orderStatus[p], seen[p], taken[p], restored[p], turn[p], requests[p]>>,
         \A s \in Layers : supply[s].state = "received" => supply'[s].state = "received"
  PROVE  RowsOf(p)' /\ CostOf(p)' /\ ReturnsOf(p)'
<1>1. RowsOf(p)'
  BY DEF RowsOf
<1>2. CostOf(p)'
  BY DEF CostOf, Costed, NoPieces
<1>3. ReturnsOf(p)'
  BY DEF ReturnsOf, Costed, Claimed, Quantity, CountedStatuses, Active
<1> QED BY <1>1, <1>2, <1>3

\* What layer s has in the cost of orders.
Sunk(s) == Total([o \in OrderIds |-> Reversible(o)[s]])

LEMMA SunkSum ==
  ASSUME Columns, \A o \in OrderIds : RowsOf(o), NEW s \in Layers
  PROVE  /\ \A o \in OrderIds : Reversible(o)[s] \in Nat
         /\ Sunk(s) = SumFunctionOnSet([o \in OrderIds |-> Reversible(o)[s]], OrderIds)
         /\ Sunk(s) \in Nat
         /\ supply[s].state # "received" => Sunk(s) = 0
<1>. DEFINE f == [o \in OrderIds |-> Reversible(o)[s]]
<1>1. \A o \in OrderIds :
        /\ Reversible(o)[s] \in Nat
        /\ supply[s].state # "received" => Reversible(o)[s] = 0
  BY DEF Columns, RowsOf, Reversible
<1>2. Sunk(s) = SumFunctionOnSet(f, OrderIds)
  <2>1. f = [o \in OrderIds |-> f[o]]
    OBVIOUS
  <2>2. Sunk(s) = Total(f)
    BY DEF Sunk
  <2>. HIDE DEF f
  <2>. QED BY <2>1, <2>2, TotalOf
<1>3. /\ \A o \in OrderIds : f[o] \in Nat
      /\ supply[s].state # "received" => \A o \in OrderIds : f[o] = 0
  BY <1>1
<1>4. /\ SumFunctionOnSet(f, OrderIds) \in Nat
      /\ supply[s].state # "received" => SumFunctionOnSet(f, OrderIds) = 0
  <2>. HIDE DEF f
  <2>. QED BY <1>3, FiniteOrders, SumType, SumZero
<1> QED BY <1>1, <1>2, <1>4

\* One order consumes or gives back.
LEMMA SunkMoves ==
  ASSUME Columns, \A p \in OrderIds : RowsOf(p), NEW o \in OrderIds,
         \A p \in OrderIds \ {o} : UNCHANGED <<taken[p], restored[p]>>,
         NEW s \in Layers, NEW x \in Int, Reversible(o)'[s] = Reversible(o)[s] + x
  PROVE  Sunk(s)' = Sunk(s) + x
<1>. DEFINE f == [p \in OrderIds |-> Reversible(p)[s]]
            g == [p \in OrderIds |-> Reversible(p)'[s]]
<1>1. \A p \in OrderIds : Reversible(p)[s] \in Nat
  BY SunkSum
<1>2. \A p \in OrderIds \ {o} : Reversible(p)'[s] = Reversible(p)[s]
  BY DEF Reversible
<1>3. /\ \A p \in OrderIds : f[p] \in Int /\ g[p] \in Int
      /\ \A p \in OrderIds : p # o => g[p] = f[p]
      /\ g[o] = f[o] + x
  BY <1>1, <1>2
<1>4. Sunk(s) = SumFunctionOnSet(f, OrderIds)
  BY SunkSum
<1>5. Sunk(s)' = SumFunctionOnSet(g, OrderIds)
  <2>1. g = [p \in OrderIds |-> g[p]]
    OBVIOUS
  <2>2. Sunk(s)' = Total(g)
    BY DEF Sunk, Total
  <2>. HIDE DEF g
  <2>. QED BY <2>1, <2>2, TotalOf
<1>. HIDE DEF f, g
<1>6. SumFunctionOnSet(g, OrderIds) = SumFunctionOnSet(f, OrderIds) - f[o] + g[o]
  <2>1. \A p \in OrderIds : f[p] \in Int /\ g[p] \in Int
    BY <1>3
  <2>2. \A p \in OrderIds : p # o => g[p] = f[p]
    BY <1>3
  <2>. QED BY <2>1, <2>2, FiniteOrders, SumUpdate
<1>7. SumFunctionOnSet(f, OrderIds) \in Int
  BY <1>3, FiniteOrders, SumType
<1> QED BY <1>3, <1>4, <1>5, <1>6, <1>7

LEMMA SunkSame ==
  ASSUME UNCHANGED <<taken, restored>>, NEW s \in Layers
  PROVE  Sunk(s)' = Sunk(s)
BY DEF Sunk, Reversible

LEMMA BalanceOf ==
    /\ LayersBalance <=> \A s \in Layers : supply[s].quantity = supply[s].remaining + Sunk(s)
    /\ LayersBalance' <=> \A s \in Layers : supply'[s].quantity = supply'[s].remaining + Sunk(s)'
BY DEF LayersBalance, Sunk

\* What may become of the row of supply s: a quantity changes while nothing
\* was taken from it.
SupplyMoves(s) ==
    \E row \in [state : {"recorded", "received", "deleted"},
                quantity : Nat, remaining : Nat, at : Nat] :
        /\ supply' = [supply EXCEPT ![s] = row]
        /\ supply[s].state = "received" => row.state = "received"
        /\ row.state \in {"recorded", "received"} =>
             row.quantity \in 1 .. MaxQuantity /\ row.at \in 1 .. MaxTime
        /\ \/ /\ row.quantity = supply[s].quantity
              /\ row.remaining = supply[s].remaining
           \/ supply[s].state # "received" /\ row.quantity = row.remaining

\* create_supply, update_supply, delete_supply and receive_supply.
LEMMA SupplyKeeps ==
  ASSUME LayersInv, NEW s \in Layers, SupplyStep(s)
  PROVE  LayersInv'
<1>0. /\ Columns /\ LayersBalance
      /\ supply \in [Layers -> [state : {"none", "recorded", "received", "deleted"},
                                quantity : Nat, remaining : Nat, at : Nat]]
      /\ \A o \in OrderIds : RowsOf(o)
  BY DEF LayersInv, Columns
<1>1. /\ UNCHANGED <<booked, orderStatus, seen, taken, restored, turn, requests>>
      /\ SupplyMoves(s)
  <2>1. ASSUME NEW q \in 1 .. MaxQuantity, NEW t \in 1 .. MaxTime, Create(s, q, t)
        PROVE  SupplyMoves(s)
    <3>. DEFINE row == [state |-> "recorded", quantity |-> q, remaining |-> q, at |-> t]
    <3>1. supply' = [supply EXCEPT ![s] = row] /\ supply[s].state = "none"
      BY <2>1 DEF Create
    <3>2. row \in [state : {"recorded", "received", "deleted"},
                   quantity : Nat, remaining : Nat, at : Nat]
      BY LayerBounds
    <3>. QED BY <3>1, <3>2 DEF SupplyMoves
  <2>2. ASSUME NEW q \in 1 .. MaxQuantity, NEW t \in 1 .. MaxTime, Update(s, q, t)
        PROVE  SupplyMoves(s)
    <3>. DEFINE row == [state |-> supply[s].state, quantity |-> q, at |-> t,
                        remaining |-> IF q = supply[s].quantity THEN supply[s].remaining ELSE q]
    <3>1. /\ supply[s].state \in {"recorded", "received"}
          /\ q # supply[s].quantity => supply[s].state = "recorded"
      BY <2>2 DEF Update, MayResize
    <3>2. supply' = [supply EXCEPT ![s] = row]
      BY <2>2 DEF Update
    <3>3. row \in [state : {"recorded", "received", "deleted"},
                   quantity : Nat, remaining : Nat, at : Nat]
      BY <1>0, <3>1, LayerBounds
    <3>. QED BY <3>1, <3>2, <3>3 DEF SupplyMoves
  <2>3. ASSUME Delete(s) PROVE SupplyMoves(s)
    <3>. DEFINE row == NoSupply("deleted")
    <3>1. supply' = [supply EXCEPT ![s] = row] /\ supply[s].state = "recorded"
      BY <2>3 DEF Delete, MayResize
    <3>2. /\ row \in [state : {"recorded", "received", "deleted"},
                      quantity : Nat, remaining : Nat, at : Nat]
          /\ row.state = "deleted" /\ row.quantity = row.remaining
      BY DEF NoSupply
    <3>. HIDE DEF row
    <3>. QED BY <3>1, <3>2 DEF SupplyMoves
  <2>4. ASSUME Receive(s) PROVE SupplyMoves(s)
    <3>. DEFINE row == [supply[s] EXCEPT !.state = "received"]
    <3>1. supply' = [supply EXCEPT ![s] = row] /\ supply[s].state = "recorded"
      BY <2>4 DEF Receive
    <3>2. /\ row \in [state : {"recorded", "received", "deleted"},
                      quantity : Nat, remaining : Nat, at : Nat]
          /\ row.state = "received" /\ row.quantity = supply[s].quantity
          /\ row.remaining = supply[s].remaining /\ row.at = supply[s].at
      BY <1>0
    <3>3. Stocked(s)
      BY DEF LayersInv
    <3>. HIDE DEF row
    <3>. QED BY <3>1, <3>2, <3>3 DEF Stocked, SupplyMoves
  <2>5. UNCHANGED <<booked, orderStatus, seen, taken, restored, turn, requests>>
    BY DEF SupplyStep, Create, Update, Delete, Receive, costVars
  <2>. QED BY <2>1, <2>2, <2>3, <2>4, <2>5 DEF SupplyStep
<1>2. PICK row \in [state : {"recorded", "received", "deleted"},
                    quantity : Nat, remaining : Nat, at : Nat] :
           /\ supply' = [supply EXCEPT ![s] = row]
           /\ supply[s].state = "received" => row.state = "received"
           /\ row.state \in {"recorded", "received"} =>
                row.quantity \in 1 .. MaxQuantity /\ row.at \in 1 .. MaxTime
           /\ \/ /\ row.quantity = supply[s].quantity
                 /\ row.remaining = supply[s].remaining
              \/ supply[s].state # "received" /\ row.quantity = row.remaining
  BY <1>1 DEF SupplyMoves
<1>3. supply'[s] = row /\ \A r \in Layers \ {s} : supply'[r] = supply[r]
  BY <1>0, <1>2
<1>4. Columns'
  <2>1. supply' \in [Layers -> [state : {"none", "recorded", "received", "deleted"},
                                quantity : Nat, remaining : Nat, at : Nat]]
    BY <1>0, <1>2
  <2>. QED BY <1>0, <1>1, <2>1 DEF Columns
<1>5. ASSUME NEW r \in Layers
      PROVE  Stocked(r)' /\ supply'[r].quantity = supply'[r].remaining + Sunk(r)'
  <2>1. Sunk(r)' = Sunk(r) /\ Sunk(r) \in Nat /\ (supply[r].state # "received" => Sunk(r) = 0)
    BY <1>0, <1>1, SunkSame, SunkSum
  <2>2. supply[r].quantity = supply[r].remaining + Sunk(r) /\ Stocked(r)
    BY <1>0, BalanceOf DEF LayersInv
  <2>. QED BY <1>2, <1>3, <2>1, <2>2 DEF Stocked
<1>6. \A r \in Layers : supply[r].state = "received" => supply'[r].state = "received"
  BY <1>2, <1>3
<1>7. \A o \in OrderIds : RowsOf(o)' /\ CostOf(o)' /\ ReturnsOf(o)'
  BY <1>1, <1>6, OrderFrame DEF LayersInv
<1> QED BY <1>4, <1>5, <1>7, BalanceOf DEF LayersInv

\* Claimed, of any requests.
ClaimedIn(rs, S) ==
    Total([i \in DOMAIN rs |-> IF rs[i].status \in S THEN rs[i].quantity ELSE 0])

LEMMA ClaimedOf ==
  ASSUME NEW o, NEW S
  PROVE  Claimed(o, S) = ClaimedIn(requests[o], S) /\ Claimed(o, S)' = ClaimedIn(requests'[o], S)
BY DEF Claimed, ClaimedIn, Total

LEMMA ClaimedSum ==
  ASSUME NEW rs \in Seq(ReturnRow), NEW S
  PROVE  /\ ClaimedIn(rs, S) =
              SumFunctionOnSet([i \in 1 .. Len(rs) |->
                                  IF rs[i].status \in S THEN rs[i].quantity ELSE 0], 1 .. Len(rs))
         /\ \A i \in 1 .. Len(rs) : rs[i] \in ReturnRow
         /\ Len(rs) \in Nat /\ DOMAIN rs = 1 .. Len(rs) /\ IsFiniteSet(1 .. Len(rs))
         /\ ClaimedIn(rs, S) \in Nat
<1>. DEFINE f == [i \in 1 .. Len(rs) |-> IF rs[i].status \in S THEN rs[i].quantity ELSE 0]
<1>1. /\ \A i \in 1 .. Len(rs) : rs[i] \in ReturnRow
      /\ Len(rs) \in Nat /\ DOMAIN rs = 1 .. Len(rs)
  BY LenProperties, ElementOfSeq
<1>2. IsFiniteSet(1 .. Len(rs))
  BY <1>1, FS_Interval
<1>3. \A i \in 1 .. Len(rs) : f[i] \in Nat
  BY <1>1 DEF ReturnRow
<1>4. ClaimedIn(rs, S) = SumFunctionOnSet(f, 1 .. Len(rs))
  <2>1. ClaimedIn(rs, S) = Total(f) /\ f = [i \in 1 .. Len(rs) |-> f[i]]
    BY <1>1 DEF ClaimedIn
  <2>. HIDE DEF f
  <2>. QED BY <2>1, TotalOf
<1>5. SumFunctionOnSet(f, 1 .. Len(rs)) \in Nat
  <2>. HIDE DEF f
  <2>. QED BY <1>2, <1>3, SumType
<1> QED BY <1>1, <1>2, <1>4, <1>5

LEMMA ClaimedNone == ASSUME NEW S PROVE ClaimedIn(<< >>, S) = 0
<1>1. << >> \in Seq(ReturnRow) /\ Len(<< >>) = 0
  BY EmptySeq
<1>2. 1 .. Len(<< >>) = {}
  BY <1>1
<1> QED BY <1>1, <1>2, ClaimedSum, SumEmpty

\* What one request adds to what is claimed.
ClaimOf(row, S) == IF row.status \in S THEN row.quantity ELSE 0

LEMMA ClaimedAppend ==
  ASSUME NEW rs \in Seq(ReturnRow), NEW row \in ReturnRow, NEW S
  PROVE  /\ Append(rs, row) \in Seq(ReturnRow)
         /\ ClaimedIn(Append(rs, row), S) = ClaimedIn(rs, S) + ClaimOf(row, S)
<1>. DEFINE ts == Append(rs, row)
            k == Len(rs) + 1
            f == [i \in 1 .. Len(rs) |-> IF rs[i].status \in S THEN rs[i].quantity ELSE 0]
            g == [i \in 1 .. Len(ts) |-> IF ts[i].status \in S THEN ts[i].quantity ELSE 0]
<1>1. /\ ts \in Seq(ReturnRow) /\ Len(ts) = k /\ ts[k] = row
      /\ \A i \in 1 .. Len(rs) : ts[i] = rs[i]
  BY AppendProperties
<1>2. /\ ClaimedIn(rs, S) = SumFunctionOnSet(f, 1 .. Len(rs)) /\ ClaimedIn(rs, S) \in Nat
      /\ IsFiniteSet(1 .. Len(rs)) /\ \A i \in 1 .. Len(rs) : rs[i] \in ReturnRow
      /\ Len(rs) \in Nat
  BY ClaimedSum
<1>3. /\ ClaimedIn(ts, S) = SumFunctionOnSet(g, 1 .. Len(ts))
      /\ IsFiniteSet(1 .. Len(ts)) /\ \A i \in 1 .. Len(ts) : ts[i] \in ReturnRow
  <2>. HIDE DEF ts
  <2>. QED BY <1>1, ClaimedSum
<1>. HIDE DEF ts
<1>4. /\ k \in 1 .. Len(ts) /\ (1 .. Len(ts)) \ {k} = 1 .. Len(rs)
      /\ g[k] = ClaimOf(row, S)
      /\ \A i \in 1 .. Len(ts) : g[i] \in Nat
      /\ \A i \in 1 .. Len(rs) : f[i] \in Nat /\ g[i] = f[i]
  BY <1>1, <1>2, <1>3 DEF ClaimOf, ReturnRow
<1>. HIDE DEF f, g, k
<1>5. SumFunctionOnSet(g, 1 .. Len(ts)) = g[k] + SumFunctionOnSet(g, (1 .. Len(ts)) \ {k})
  <2>1. \A i \in 1 .. Len(ts) : g[i] \in Int
    BY <1>4
  <2>2. IsFiniteSet(1 .. Len(ts)) /\ k \in 1 .. Len(ts)
    BY <1>3, <1>4
  <2>. QED BY <2>1, <2>2, SumRemove
<1>6. SumFunctionOnSet(g, 1 .. Len(rs)) = SumFunctionOnSet(f, 1 .. Len(rs))
  BY <1>2, <1>4, SumSame
<1>7. ClaimedIn(ts, S) = ClaimOf(row, S) + ClaimedIn(rs, S) /\ ClaimOf(row, S) \in Nat
  BY <1>2, <1>3, <1>4, <1>5, <1>6
<1> QED BY <1>1, <1>2, <1>7 DEF ts

\* A request changes its status.
LEMMA ClaimedMoves ==
  ASSUME NEW rs \in Seq(ReturnRow), NEW i \in DOMAIN rs, NEW t \in ReturnStatuses, NEW ts,
         ts = [rs EXCEPT ![i].status = t], NEW S
  PROVE  /\ ts \in Seq(ReturnRow) /\ DOMAIN ts = DOMAIN rs
         /\ ts[i].status = t /\ ts[i].quantity = rs[i].quantity
         /\ \A j \in DOMAIN rs \ {i} : ts[j] = rs[j]
         /\ ClaimedIn(ts, S) =
              ClaimedIn(rs, S) - ClaimOf(rs[i], S) + (IF t \in S THEN rs[i].quantity ELSE 0)
<1>. DEFINE row == [rs[i] EXCEPT !.status = t]
            f == [j \in 1 .. Len(rs) |-> IF rs[j].status \in S THEN rs[j].quantity ELSE 0]
            g == [j \in 1 .. Len(rs) |-> IF ts[j].status \in S THEN ts[j].quantity ELSE 0]
<1>1. /\ ClaimedIn(rs, S) = SumFunctionOnSet(f, 1 .. Len(rs)) /\ ClaimedIn(rs, S) \in Nat
      /\ IsFiniteSet(1 .. Len(rs)) /\ \A j \in 1 .. Len(rs) : rs[j] \in ReturnRow
      /\ Len(rs) \in Nat /\ DOMAIN rs = 1 .. Len(rs)
  BY ClaimedSum
<1>2. /\ row \in ReturnRow /\ row.status = t /\ row.quantity = rs[i].quantity
  BY <1>1 DEF ReturnRow
<1>3. /\ ts = [rs EXCEPT ![i] = row] /\ DOMAIN ts = DOMAIN rs
      /\ ts[i] = row /\ \A j \in DOMAIN rs \ {i} : ts[j] = rs[j]
  <2>1. ts = [rs EXCEPT ![i] = row]
    OBVIOUS
  <2>. HIDE DEF row
  <2>2. DOMAIN ts = DOMAIN rs /\ ts[i] = row /\ \A j \in DOMAIN rs \ {i} : ts[j] = rs[j]
    BY <2>1
  <2>. QED BY <2>1, <2>2
<1>. HIDE DEF row
<1>4. ts \in Seq(ReturnRow) /\ Len(ts) = Len(rs)
  BY <1>1, <1>2, <1>3, ExceptSeq
<1>5. ClaimedIn(ts, S) = SumFunctionOnSet(g, 1 .. Len(rs))
  <2>. DEFINE h == [j \in 1 .. Len(ts) |-> IF ts[j].status \in S THEN ts[j].quantity ELSE 0]
  <2>1. ClaimedIn(ts, S) = SumFunctionOnSet(h, 1 .. Len(ts))
    BY <1>4, ClaimedSum
  <2>2. h = g
    BY <1>4
  <2>. HIDE DEF g, h
  <2>. QED BY <1>4, <2>1, <2>2
<1>6. /\ \A j \in 1 .. Len(rs) : f[j] \in Int /\ g[j] \in Int
      /\ f[i] = ClaimOf(rs[i], S) /\ g[i] = IF t \in S THEN rs[i].quantity ELSE 0
  BY <1>1, <1>2, <1>3 DEF ClaimOf, ReturnRow
<1>7. \A j \in 1 .. Len(rs) : j # i => g[j] = f[j]
  BY <1>1, <1>3
<1>. HIDE DEF f, g
<1>8. SumFunctionOnSet(g, 1 .. Len(rs)) = SumFunctionOnSet(f, 1 .. Len(rs)) - f[i] + g[i]
  <2>1. i \in 1 .. Len(rs) /\ IsFiniteSet(1 .. Len(rs))
    BY <1>1
  <2>. DEFINE D == 1 .. Len(rs)
  <2>2. \A j \in D : f[j] \in Int /\ g[j] \in Int
    BY <1>6
  <2>3. \A j \in D : j # i => g[j] = f[j]
    BY <1>7
  <2>4. i \in D /\ IsFiniteSet(D)
    BY <2>1
  <2>5. SumFunctionOnSet(g, D) = SumFunctionOnSet(f, D) - f[i] + g[i]
    <3>. HIDE DEF D
    <3>. QED BY <2>2, <2>3, <2>4, SumUpdate
  <2>. QED BY <2>5
<1>9. ClaimedIn(ts, S) =
        ClaimedIn(rs, S) - ClaimOf(rs[i], S) + (IF t \in S THEN rs[i].quantity ELSE 0)
  BY <1>1, <1>5, <1>6, <1>8
<1> QED BY <1>2, <1>3, <1>4, <1>9

LEMMA NoTotal == Total(NoPieces) = 0
<1>1. NoPieces = [s \in Layers |-> NoPieces[s]] /\ \A s \in Layers : NoPieces[s] = 0
  BY DEF NoPieces
<1>2. Total(NoPieces) = SumFunctionOnSet(NoPieces, Layers)
  <2>. HIDE DEF NoPieces
  <2>. QED BY <1>1, TotalOf
<1> QED BY <1>1, <1>2, LayersFinite, SumZero

\* A sale that takes f, in the order before.
LEMMA ConsumeKeeps ==
  ASSUME LayersInv, NEW o \in OrderIds, orderStatus[o] \in {"placed", "approving"},
         NEW f \in [Layers -> Nat], NEW before \in [Layers -> SUBSET Layers],
         \A s \in Layers : s \notin before[s],
         \A r, s \in Layers : r \in before[s] => before[r] \subseteq before[s],
         \A r, s \in Layers : r # s /\ f[r] > 0 /\ f[s] > 0 => r \in before[s] \/ s \in before[r],
         \A s \in Layers : f[s] <= supply[s].remaining,
         \A s \in Layers : f[s] > 0 => supply[s].state = "received",
         IF booked[o].amount > 0 THEN f = NoPieces \/ Total(f) = booked[o].amount
                               ELSE f = booked[o].units,
         Consume(o, f, before), orderStatus' = [orderStatus EXCEPT ![o] = "sold"],
         seen' = seen \/ seen' = [seen EXCEPT ![o] = << >>],
         UNCHANGED <<booked, restored, requests>>
  PROVE  LayersInv'
<1>1. /\ Columns /\ LayersBalance /\ RowsOf(o) /\ CostOf(o) /\ ReturnsOf(o)
      /\ \A p \in OrderIds : RowsOf(p)
      /\ taken[o] = NoPieces /\ restored[o] = NoPieces /\ requests[o] = << >>
  BY DEF LayersInv, CostOf, ReturnsOf
<1>2. /\ taken' = [taken EXCEPT ![o] = f] /\ turn' = [turn EXCEPT ![o] = Places(f, before)]
      /\ supply' = [s \in Layers |-> [supply[s] EXCEPT !.remaining = @ - f[s]]]
  BY DEF Consume, Places
<1>3. ASSUME NEW s \in Layers
      PROVE  /\ supply[s] \in [state : {"none", "recorded", "received", "deleted"},
                               quantity : Nat, remaining : Nat, at : Nat]
             /\ supply'[s] = [supply[s] EXCEPT !.remaining = supply[s].remaining - f[s]]
             /\ supply'[s].state = supply[s].state /\ supply'[s].quantity = supply[s].quantity
             /\ supply'[s].at = supply[s].at
             /\ supply'[s].remaining = supply[s].remaining - f[s]
             /\ supply[s].remaining - f[s] \in Nat
  <2>1. supply[s] \in [state : {"none", "recorded", "received", "deleted"},
                       quantity : Nat, remaining : Nat, at : Nat]
    BY <1>1 DEF Columns
  <2>2. supply[s].remaining - f[s] \in Nat
    BY <2>1
  <2>. DEFINE x == supply[s].remaining - f[s]
  <2>3. supply'[s] = [supply[s] EXCEPT !.remaining = x]
    BY <1>2
  <2>. HIDE DEF x
  <2>4. /\ supply'[s].state = supply[s].state /\ supply'[s].quantity = supply[s].quantity
        /\ supply'[s].at = supply[s].at /\ supply'[s].remaining = x
    BY <2>1, <2>3
  <2>. QED BY <2>1, <2>2, <2>3, <2>4 DEF x
<1>4. /\ Places(f, before) \in [Layers -> 0 .. MaxLayer]
      /\ \A s \in Layers : Places(f, before)[s] = 0 <=> f[s] = 0
      /\ \A r, s \in Layers :
            r # s /\ f[r] > 0 /\ f[s] > 0 => Places(f, before)[r] # Places(f, before)[s]
  BY PlacesDiffer
<1>5. /\ taken'[o] = f /\ turn'[o] = Places(f, before) /\ orderStatus'[o] = "sold"
      /\ DOMAIN seen'[o] \subseteq DOMAIN seen[o]
      /\ \A p \in OrderIds \ {o} :
            UNCHANGED <<taken[p], turn[p], orderStatus[p], seen[p]>>
  <2>1. DOMAIN << >> = {}
    OBVIOUS
  <2>. QED BY <1>1, <1>2, <2>1 DEF Columns
<1>6. Columns'
  <2>1. supply' \in [Layers -> [state : {"none", "recorded", "received", "deleted"},
                                quantity : Nat, remaining : Nat, at : Nat]]
    <3>1. \A s \in Layers : supply'[s] \in [state : {"none", "recorded", "received", "deleted"},
                                quantity : Nat, remaining : Nat, at : Nat]
      BY <1>3
    <3>2. supply' = [s \in Layers |-> supply'[s]]
      BY <1>2
    <3>. QED BY <3>1, <3>2
  <2>2. /\ taken' \in [OrderIds -> [Layers -> Nat]]
        /\ turn' \in [OrderIds -> [Layers -> 0 .. MaxLayer]]
        /\ orderStatus' \in [OrderIds -> OrderStatuses]
    BY <1>1, <1>2, <1>4 DEF Columns, OrderStatuses
  <2>3. DOMAIN seen' = OrderIds
    BY <1>1 DEF Columns
  <2>4. \A p \in OrderIds : \A s \in DOMAIN seen'[p] : s \in Layers /\ seen'[p][s] \in Nat
    <3>1. DOMAIN << >> = {}
      OBVIOUS
    <3>. QED BY <1>1, <3>1 DEF Columns
  <2>. QED BY <1>1, <2>1, <2>2, <2>3, <2>4 DEF Columns
<1>7. ASSUME NEW s \in Layers
      PROVE  Stocked(s)' /\ supply'[s].quantity = supply'[s].remaining + Sunk(s)'
  <2>1. Reversible(o)'[s] = Reversible(o)[s] + f[s]
    BY <1>1, <1>5 DEF Reversible, NoPieces
  <2>2. f[s] \in Int /\ \A p \in OrderIds \ {o} : UNCHANGED <<taken[p], restored[p]>>
    BY <1>5
  <2>3. Sunk(s)' = Sunk(s) + f[s]
    BY <1>1, <2>1, <2>2, SunkMoves
  <2>4. Sunk(s) \in Nat /\ supply[s].quantity = supply[s].remaining + Sunk(s) /\ Stocked(s)
    BY <1>1, SunkSum, BalanceOf DEF LayersInv
  <2>5. /\ supply[s].quantity \in Nat /\ supply[s].remaining \in Nat /\ f[s] \in Nat
        /\ supply'[s].state = supply[s].state /\ supply'[s].quantity = supply[s].quantity
        /\ supply'[s].at = supply[s].at /\ supply'[s].remaining = supply[s].remaining - f[s]
    BY <1>3
  <2>. QED BY <2>3, <2>4, <2>5 DEF Stocked
<1>8. RowsOf(o)'
  <2>1. restored' = restored /\ booked' = booked /\ \A s \in Layers : restored[o][s] = 0
    BY <1>1 DEF NoPieces
  <2>2. \A s \in Layers :
          taken[o][s] > 0 \/ booked[o].units[s] > 0 \/ s \in DOMAIN seen[o] =>
             supply[s].state = "received"
    BY <1>1 DEF RowsOf
  <2>3. \A s \in Layers : supply'[s].state = supply[s].state
    BY <1>3
  <2>4. \A s \in Layers : restored'[o][s] <= taken'[o][s]
    BY <1>5, <2>1
  <2>5. \A s \in Layers :
          taken'[o][s] > 0 \/ booked'[o].units[s] > 0 \/ s \in DOMAIN seen'[o] =>
             supply'[s].state = "received"
    BY <1>5, <2>1, <2>2, <2>3
  <2>6. \A s \in Layers : turn'[o][s] = 0 <=> taken'[o][s] = 0
    BY <1>4, <1>5
  <2>7. \A r, s \in Layers :
          r # s /\ taken'[o][r] > 0 /\ taken'[o][s] > 0 => turn'[o][r] # turn'[o][s]
    BY <1>4, <1>5
  <2>. QED BY <2>1, <2>4, <2>5, <2>6, <2>7 DEF RowsOf
<1>9. CostOf(o)'
  BY <1>1, <1>5 DEF CostOf, Costed, NoPieces
<1>10. ReturnsOf(o)'
  <2>1. /\ Claimed(o, {"completed"})' = 0 /\ Claimed(o, CountedStatuses)' = Claimed(o, CountedStatuses)
        /\ Quantity(o)' = Quantity(o)
    BY <1>1, ClaimedOf, ClaimedNone DEF Quantity
  <2>2. Total(restored'[o]) = 0
    BY <1>1, NoTotal
  <2>3. requests'[o] = << >> /\ DOMAIN << >> = {}
    BY <1>1
  <2>. QED BY <1>1, <1>5, <2>1, <2>2, <2>3 DEF ReturnsOf
<1>11. ASSUME NEW p \in OrderIds \ {o} PROVE RowsOf(p)' /\ CostOf(p)' /\ ReturnsOf(p)'
  <2>1. UNCHANGED <<booked[p], orderStatus[p], seen[p], taken[p], restored[p], turn[p], requests[p]>>
    BY <1>5
  <2>. QED BY <1>3, <2>1, OrderFrame DEF LayersInv
<1> QED BY <1>6, <1>7, <1>8, <1>9, <1>10, <1>11, BalanceOf DEF LayersInv

\* The sale of counted stock and of units.
LEMMA ApproveKeeps ==
  ASSUME LayersInv, NEW o \in OrderIds, ApproveAmount(o) \/ ApproveUnits(o)
  PROVE  LayersInv'
<1>1. Columns /\ RowsOf(o) /\ CostOf(o)
  BY DEF LayersInv
<1>2. CASE ApproveAmount(o)
  <2>1. /\ Consume(o, Fifo(o), Older(o)) /\ orderStatus[o] = "approving"
        /\ orderStatus' = [orderStatus EXCEPT ![o] = "sold"]
        /\ seen' = [seen EXCEPT ![o] = << >>]
        /\ UNCHANGED <<booked, restored, requests>>
        /\ Supplied("received") = {} \/ Total(Left(o)) >= booked[o].amount
    BY <1>2 DEF ApproveAmount
  <2>2. booked[o].amount > 0
    BY <1>1, <2>1 DEF CostOf
  <2>3. /\ Fifo(o) \in [Layers -> Nat] /\ Left(o) \in [Layers -> Nat]
        /\ \A s \in Layers : Fifo(o)[s] <= Left(o)[s] /\ Left(o)[s] <= supply[s].remaining
        /\ \A s \in Layers : Fifo(o)[s] > 0 => s \in DOMAIN seen[o]
        /\ Total(Left(o)) >= booked[o].amount => Total(Fifo(o)) = booked[o].amount
        /\ \A s \in Layers : supply[s].remaining \in Nat
    BY <1>1, FifoShares DEF Columns
  <2>4. \A s \in Layers : s \in DOMAIN seen[o] => supply[s].state = "received"
    BY <1>1 DEF RowsOf
  <2>5. Fifo(o) = NoPieces \/ Total(Fifo(o)) = booked[o].amount
    <3>1. CASE Supplied("received") = {}
      <4>1. \A s \in Layers : Fifo(o)[s] = 0
        BY <2>3, <2>4, <3>1 DEF Supplied
      <4>. QED BY <2>3, <4>1 DEF NoPieces
    <3>. QED BY <2>1, <2>3, <3>1
  <2>6. \A s \in Layers : Fifo(o)[s] <= supply[s].remaining
    BY <2>3
  <2>7. /\ Older(o) \in [Layers -> SUBSET Layers]
        /\ \A s \in Layers : s \notin Older(o)[s]
        /\ \A r, s \in Layers : r \in Older(o)[s] => Older(o)[r] \subseteq Older(o)[s]
        /\ \A r, s \in Layers : r # s /\ Fifo(o)[r] > 0 /\ Fifo(o)[s] > 0 =>
              r \in Older(o)[s] \/ s \in Older(o)[r]
    BY <1>1, <2>3, OlderRanks
  <2>8. \A s \in Layers : Fifo(o)[s] > 0 => supply[s].state = "received"
    BY <2>3, <2>4
  <2>. QED BY <2>1, <2>2, <2>3, <2>5, <2>6, <2>7, <2>8, ConsumeKeeps
<1>3. CASE ApproveUnits(o)
  <2>. DEFINE f == booked[o].units
              before == [s \in Layers |-> 1 .. s - 1]
  <2>1. /\ Consume(o, f, before) /\ orderStatus[o] = "placed" /\ booked[o].amount = 0
        /\ orderStatus' = [orderStatus EXCEPT ![o] = "sold"]
        /\ UNCHANGED <<booked, seen, restored, requests>>
        /\ \A s \in Layers : f[s] <= supply[s].remaining
    BY <1>3 DEF ApproveUnits
  <2>2. f \in [Layers -> Nat] /\ \A s \in Layers : f[s] > 0 => supply[s].state = "received"
    BY <1>1 DEF Columns, RowsOf
  <2>3. /\ before \in [Layers -> SUBSET Layers]
        /\ \A s \in Layers : s \notin before[s]
        /\ \A r, s \in Layers : r \in before[s] => before[r] \subseteq before[s]
        /\ \A r, s \in Layers : r # s => r \in before[s] \/ s \in before[r]
    BY LayerBounds DEF Layers
  <2>4. IF booked[o].amount > 0 THEN f = NoPieces \/ Total(f) = booked[o].amount
                                ELSE f = booked[o].units
    BY <2>1
  <2>. HIDE DEF f, before
  <2>. QED BY <2>1, <2>2, <2>3, <2>4, ConsumeKeeps
<1> QED BY <1>2, <1>3

\* What giving back n pieces does to the rows of an order and to the layers.
LEMMA ReverseGives ==
  ASSUME LayersInv, NEW o \in OrderIds, NEW n \in Nat, Reverse(o, n)
  PROVE  /\ supply' \in [Layers -> [state : {"none", "recorded", "received", "deleted"},
                                   quantity : Nat, remaining : Nat, at : Nat]]
         /\ restored' \in [OrderIds -> [Layers -> Nat]] /\ UNCHANGED <<taken, turn>>
         /\ \A s \in Layers :
              /\ supply'[s].state = supply[s].state /\ Stocked(s)'
              /\ supply'[s].quantity = supply'[s].remaining + Sunk(s)'
              /\ restored'[o][s] <= taken[o][s]
         /\ \A r, s \in Layers : turn[o][r] < turn[o][s] /\ restored'[o][r] > 0 =>
              restored'[o][s] = taken[o][s]
         /\ \A p \in OrderIds \ {o} : restored'[p] = restored[p]
         /\ n <= Total(Reversible(o)) => Total(restored'[o]) = Total(restored[o]) + n
         /\ n = Total(Reversible(o)) => restored'[o] = taken[o]
<1>. DEFINE back == GiveBack(o, n)
            left == Reversible(o)
            new == [s \in Layers |-> restored[o][s] + back[s]]
<1>1. /\ Columns /\ LayersBalance /\ RowsOf(o) /\ \A p \in OrderIds : RowsOf(p)
      /\ \A s \in Layers : Stocked(s)
  BY DEF LayersInv
<1>2. /\ left \in [Layers -> Nat] /\ back \in [Layers -> Nat]
      /\ \A s \in Layers : back[s] <= left[s]
      /\ n <= Total(left) => Total(back) = n
      /\ n = Total(left) => back = left
      /\ \A r, s \in Layers : turn[o][r] < turn[o][s] /\ back[r] > 0 => back[s] = left[s]
  BY <1>1, BackShares
<1>3. /\ UNCHANGED <<taken, turn>> /\ restored' = [restored EXCEPT ![o] = new]
      /\ supply' = [s \in Layers |-> [supply[s] EXCEPT !.remaining = @ + back[s]]]
  BY DEF Reverse
<1>4. /\ restored \in [OrderIds -> [Layers -> Nat]] /\ taken \in [OrderIds -> [Layers -> Nat]]
      /\ \A s \in Layers : restored[o][s] <= taken[o][s] /\ left[s] = taken[o][s] - restored[o][s]
      /\ \A r, s \in Layers : turn[o][r] < turn[o][s] /\ restored[o][r] > 0 =>
              restored[o][s] = taken[o][s]
  BY <1>1 DEF Columns, RowsOf, Reversible
<1>. HIDE DEF back, left
<1>5. new \in [Layers -> Nat] /\ \A s \in Layers : new[s] = restored[o][s] + back[s]
  BY <1>2, <1>4
<1>6. /\ restored' \in [OrderIds -> [Layers -> Nat]] /\ restored'[o] = new
      /\ \A p \in OrderIds \ {o} : restored'[p] = restored[p]
  <2>. HIDE DEF new
  <2>. QED BY <1>3, <1>4, <1>5
<1>7. ASSUME NEW s \in Layers
      PROVE  /\ supply'[s] \in [state : {"none", "recorded", "received", "deleted"},
                                quantity : Nat, remaining : Nat, at : Nat]
             /\ supply'[s].state = supply[s].state /\ supply'[s].quantity = supply[s].quantity
             /\ supply'[s].at = supply[s].at
             /\ supply'[s].remaining = supply[s].remaining + back[s]
             /\ supply[s].remaining \in Nat /\ supply[s].quantity \in Nat
  <2>1. supply[s] \in [state : {"none", "recorded", "received", "deleted"},
                       quantity : Nat, remaining : Nat, at : Nat]
    BY <1>1 DEF Columns
  <2>. DEFINE x == supply[s].remaining + back[s]
  <2>2. x \in Nat
    BY <1>2, <2>1
  <2>3. supply'[s] = [supply[s] EXCEPT !.remaining = x]
    BY <1>3
  <2>. HIDE DEF x
  <2>4. /\ supply'[s].state = supply[s].state /\ supply'[s].quantity = supply[s].quantity
        /\ supply'[s].at = supply[s].at /\ supply'[s].remaining = x
        /\ supply'[s] \in [state : {"none", "recorded", "received", "deleted"},
                          quantity : Nat, remaining : Nat, at : Nat]
    BY <2>1, <2>2, <2>3
  <2>. QED BY <2>1, <2>4 DEF x
<1>8. supply' \in [Layers -> [state : {"none", "recorded", "received", "deleted"},
                             quantity : Nat, remaining : Nat, at : Nat]]
  <2>1. supply' = [s \in Layers |-> supply'[s]]
    BY <1>3
  <2>. QED BY <1>7, <2>1
<1>9. ASSUME NEW s \in Layers
      PROVE  Stocked(s)' /\ supply'[s].quantity = supply'[s].remaining + Sunk(s)'
  <2>. DEFINE f == [p \in OrderIds |-> Reversible(p)[s]]
  <2>1. back[s] \in Nat /\ left[s] \in Nat /\ back[s] <= left[s]
    BY <1>2
  <2>2. Reversible(o)'[s] = Reversible(o)[s] + (0 - back[s])
    <3>1. Reversible(o)'[s] = taken[o][s] - new[s] /\ Reversible(o)[s] = taken[o][s] - restored[o][s]
      BY <1>3, <1>6 DEF Reversible
    <3>2. taken[o][s] \in Nat /\ restored[o][s] \in Nat /\ new[s] = restored[o][s] + back[s]
      BY <1>4, <1>5
    <3>. QED BY <2>1, <3>1, <3>2
  <2>3. Sunk(s)' = Sunk(s) + (0 - back[s])
    <3>1. 0 - back[s] \in Int /\ \A p \in OrderIds \ {o} : UNCHANGED <<taken[p], restored[p]>>
      BY <1>3, <1>6, <2>1
    <3>. QED BY <1>1, <2>2, <3>1, SunkMoves
  <2>4. left[s] <= Sunk(s) /\ Sunk(s) \in Nat
    <3>1. /\ \A p \in OrderIds : Reversible(p)[s] \in Nat
          /\ Sunk(s) = SumFunctionOnSet(f, OrderIds) /\ Sunk(s) \in Nat
      BY <1>1, SunkSum
    <3>2. (\A p \in OrderIds : f[p] \in Nat) /\ f[o] = left[s]
      BY <3>1 DEF left
    <3>3. f[o] <= SumFunctionOnSet(f, OrderIds)
      <4>. HIDE DEF f
      <4>. QED BY <3>2, FiniteOrders, SumBound
    <3>. QED BY <3>1, <3>2, <3>3
  <2>5. supply[s].quantity = supply[s].remaining + Sunk(s) /\ Stocked(s)
    BY <1>1, BalanceOf
  <2>6. supply'[s].quantity = supply'[s].remaining + Sunk(s)'
    BY <1>7, <2>1, <2>3, <2>4, <2>5
  <2>7. supply'[s].remaining <= supply'[s].quantity
    BY <1>7, <2>1, <2>4, <2>5
  <2>. QED BY <1>7, <2>5, <2>6, <2>7 DEF Stocked
<1>10. \A s \in Layers : restored'[o][s] <= taken[o][s]
  <2>1. ASSUME NEW s \in Layers PROVE restored'[o][s] <= taken[o][s]
    <3>1. restored'[o][s] = restored[o][s] + back[s] /\ left[s] = taken[o][s] - restored[o][s]
      BY <1>4, <1>5, <1>6
    <3>2. /\ taken[o][s] \in Nat /\ restored[o][s] \in Nat /\ back[s] \in Nat
          /\ back[s] <= left[s]
      BY <1>2, <1>4
    <3>. QED BY <3>1, <3>2
  <2>. QED BY <2>1
<1>11. ASSUME NEW r \in Layers, NEW s \in Layers, turn[o][r] < turn[o][s], restored'[o][r] > 0
       PROVE  restored'[o][s] = taken[o][s]
  <2>1. /\ restored'[o][r] = restored[o][r] + back[r] /\ restored'[o][s] = restored[o][s] + back[s]
        /\ left[s] = taken[o][s] - restored[o][s]
    BY <1>4, <1>5, <1>6
  <2>2. /\ restored[o][r] \in Nat /\ back[r] \in Nat /\ restored[o][s] \in Nat
        /\ back[s] \in Nat /\ back[s] <= left[s] /\ taken[o][s] \in Nat
    BY <1>2, <1>4
  <2>3. restored[o][r] > 0 \/ back[r] > 0
    BY <1>11, <2>1, <2>2
  <2>4. CASE restored[o][r] > 0
    <3>1. restored[o][s] = taken[o][s]
      BY <1>4, <1>11, <2>4
    <3>. QED BY <2>1, <2>2, <3>1
  <2>5. CASE back[r] > 0
    <3>1. back[s] = left[s]
      BY <1>2, <1>11, <2>5
    <3>. QED BY <2>1, <2>2, <3>1
  <2>. QED BY <2>3, <2>4, <2>5
<1>12. ASSUME n <= Total(left) PROVE Total(restored'[o]) = Total(restored[o]) + n
  <2>. DEFINE old == restored[o]
  <2>1. old \in [Layers -> Nat]
    BY <1>4
  <2>2. /\ \A s \in Layers : old[s] \in Int /\ back[s] \in Int /\ new[s] = old[s] + back[s]
    BY <1>2, <1>5, <2>1
  <2>3. /\ old = [s \in Layers |-> old[s]] /\ back = [s \in Layers |-> back[s]]
        /\ new = [s \in Layers |-> new[s]]
    BY <1>2, <1>5, <2>1
  <2>. HIDE DEF old, new
  <2>4. /\ Total(old) = SumFunctionOnSet(old, Layers)
        /\ Total(back) = SumFunctionOnSet(back, Layers)
        /\ Total(new) = SumFunctionOnSet(new, Layers)
    BY <2>3, TotalOf
  <2>5. SumFunctionOnSet(new, Layers) = SumFunctionOnSet(old, Layers) + SumFunctionOnSet(back, Layers)
    BY <2>2, LayersFinite, SumAdd
  <2>6. Total(new) = Total(old) + n
    BY <1>2, <1>12, <2>4, <2>5
  <2>. QED BY <1>6, <2>6 DEF old
<1>13. ASSUME n = Total(left) PROVE restored'[o] = taken[o]
  <2>1. ASSUME NEW s \in Layers PROVE new[s] = taken[o][s]
    <3>1. new[s] = restored[o][s] + back[s] /\ back[s] = left[s]
      BY <1>2, <1>5, <1>13
    <3>2. left[s] = taken[o][s] - restored[o][s] /\ taken[o][s] \in Nat /\ restored[o][s] \in Nat
      BY <1>4
    <3>. QED BY <3>1, <3>2
  <2>2. new = [s \in Layers |-> new[s]] /\ taken[o] = [s \in Layers |-> taken[o][s]]
    BY <1>4, <1>5
  <2>. HIDE DEF new
  <2>. QED BY <1>6, <2>1, <2>2
<1> QED BY <1>3, <1>6, <1>7, <1>8, <1>9, <1>10, <1>11, <1>12, <1>13 DEF left

\* A step of order o that moves no piece.
LEMMA OrderKeeps ==
  ASSUME LayersInv, NEW o \in OrderIds, UNCHANGED <<supply, costVars>>, Columns',
         \A p \in OrderIds \ {o} : UNCHANGED <<booked[p], orderStatus[p], seen[p], requests[p]>>,
         RowsOf(o)', CostOf(o)', ReturnsOf(o)'
  PROVE  LayersInv'
<1>1. UNCHANGED <<taken, restored, turn>>
  BY DEF costVars
<1>2. \A s \in Layers : Stocked(s)' /\ supply'[s].quantity = supply'[s].remaining + Sunk(s)'
  BY <1>1, SunkSame, BalanceOf DEF LayersInv, Stocked
<1>3. \A p \in OrderIds \ {o} : RowsOf(p)' /\ CostOf(p)' /\ ReturnsOf(p)'
  <2>1. ASSUME NEW p \in OrderIds \ {o} PROVE RowsOf(p)' /\ CostOf(p)' /\ ReturnsOf(p)'
    <3>1. /\ UNCHANGED <<booked[p], orderStatus[p], seen[p], taken[p], restored[p], turn[p], requests[p]>>
          /\ \A s \in Layers : supply[s].state = "received" => supply'[s].state = "received"
      BY <1>1
    <3>. QED BY <3>1, OrderFrame DEF LayersInv
  <2>. QED BY <2>1
<1> QED BY <1>2, <1>3, BalanceOf DEF LayersInv

\* Nothing was returned of an order that was not delivered.
LEMMA NotReturned ==
  ASSUME LayersInv, NEW o \in OrderIds, orderStatus[o] \notin {"delivered", "expired"},
         UNCHANGED requests
  PROVE  /\ requests[o] = << >> /\ requests'[o] = << >> /\ DOMAIN requests'[o] = {}
         /\ \A S : Claimed(o, S) = 0 /\ Claimed(o, S)' = 0
<1>1. requests[o] = << >> /\ requests'[o] = << >>
  BY DEF LayersInv, ReturnsOf
<1>2. DOMAIN << >> = {}
  OBVIOUS
<1>3. \A S : Claimed(o, S) = 0 /\ Claimed(o, S)' = 0
  BY <1>1, ClaimedOf, ClaimedNone
<1> QED BY <1>1, <1>2, <1>3

LEMMA PlaceKeeps ==
  ASSUME LayersInv, NEW o \in OrderIds, Place(o)
  PROVE  LayersInv'
<1>1. PICK h \in Bookings : booked' = [booked EXCEPT ![o] = h]
  BY DEF Place
<1>2. /\ orderStatus[o] = "none" /\ orderStatus' = [orderStatus EXCEPT ![o] = "placed"]
      /\ UNCHANGED <<supply, seen, taken, restored, turn, requests>>
  BY DEF Place, costVars
<1>3. Columns /\ RowsOf(o) /\ CostOf(o)
  BY DEF LayersInv
<1>4. /\ h \in [amount : Nat, units : [Layers -> Nat], loose : Nat]
      /\ h.amount + Total(h.units) + h.loose \in Nat
      /\ \A s \in Layers : h.units[s] > 0 => supply[s].state = "received"
  BY LayerBounds DEF Bookings, Supplied
<1>5. booked'[o] = h /\ orderStatus'[o] = "placed"
  BY <1>1, <1>2, <1>3 DEF Columns
<1>6. Columns'
  <2>1. booked' \in [OrderIds -> [amount : Nat, units : [Layers -> Nat], loose : Nat]]
    BY <1>1, <1>3, <1>4 DEF Columns
  <2>2. orderStatus' \in [OrderIds -> OrderStatuses]
    BY <1>2, <1>3 DEF Columns, OrderStatuses
  <2>. QED BY <1>2, <1>3, <2>1, <2>2 DEF Columns
<1>7. RowsOf(o)'
  <2>1. \A s \in Layers :
          taken'[o][s] > 0 \/ booked'[o].units[s] > 0 \/ s \in DOMAIN seen'[o] =>
             supply'[s].state = "received"
    BY <1>2, <1>3, <1>4, <1>5 DEF RowsOf
  <2>. QED BY <1>2, <1>3, <2>1 DEF RowsOf
<1>8. CostOf(o)'
  <2>1. ~Costed(o)'
    BY <1>2, <1>3 DEF CostOf, Costed, NoPieces
  <2>. QED BY <1>2, <1>3, <1>5, <2>1 DEF CostOf
<1>9. ReturnsOf(o)'
  <2>1. /\ \A S : Claimed(o, S)' = 0
        /\ requests'[o] = << >> /\ DOMAIN requests'[o] = {}
    BY <1>2, NotReturned
  <2>2. Quantity(o)' \in Nat
    BY <1>4, <1>5 DEF Quantity, Total
  <2>3. restored'[o] = NoPieces
    BY <1>2, <1>3 DEF CostOf
  <2>. QED BY <2>1, <2>2, <2>3, NoTotal DEF ReturnsOf
<1>10. \A p \in OrderIds \ {o} : UNCHANGED <<booked[p], orderStatus[p], seen[p], requests[p]>>
  BY <1>1, <1>2, <1>3 DEF Columns
<1> QED BY <1>2, <1>6, <1>7, <1>8, <1>9, <1>10, OrderKeeps DEF costVars

\* A review opens or is refused, or the order is delivered.
LEMMA StatusKeeps ==
  ASSUME LayersInv, NEW o \in OrderIds, BeginApprove(o) \/ ApproveRefused(o) \/ Deliver(o)
  PROVE  LayersInv'
<1>1. Columns /\ RowsOf(o) /\ CostOf(o) /\ ReturnsOf(o)
  BY DEF LayersInv
<1>2. UNCHANGED <<supply, booked, taken, restored, turn, requests>>
  BY DEF BeginApprove, ApproveRefused, Deliver, costVars
<1>3. /\ orderStatus[o] \in {"placed", "approving", "sold"}
      /\ \E to \in {"approving", "placed", "delivered"} :
            /\ orderStatus' = [orderStatus EXCEPT ![o] = to]
            /\ to = "delivered" <=> orderStatus[o] = "sold"
            /\ to = "approving" => booked[o].amount > 0
  BY DEF BeginApprove, ApproveRefused, Deliver
<1>4. /\ DOMAIN seen' = OrderIds
      /\ \A p \in OrderIds : \A s \in DOMAIN seen'[p] : s \in Layers /\ seen'[p][s] \in Nat
      /\ \A p \in OrderIds \ {o} : seen'[p] = seen[p]
      /\ \A s \in DOMAIN seen'[o] : supply[s].state = "received"
  <2>1. CASE BeginApprove(o)
    <3>. DEFINE c == [s \in {r \in Supplied("received") : supply[r].remaining > 0} |-> supply[s].at]
    <3>1. seen' = [seen EXCEPT ![o] = c]
      BY <2>1 DEF BeginApprove
    <3>2. \A s \in DOMAIN c : s \in Layers /\ c[s] \in Nat /\ supply[s].state = "received"
      BY <1>1 DEF Columns, Supplied
    <3>. HIDE DEF c
    <3>. QED BY <1>1, <3>1, <3>2 DEF Columns
  <2>2. CASE ApproveRefused(o)
    <3>1. seen' = [seen EXCEPT ![o] = << >>] /\ DOMAIN << >> = {}
      BY <2>2 DEF ApproveRefused
    <3>. QED BY <1>1, <3>1 DEF Columns
  <2>3. CASE Deliver(o)
    BY <1>1, <2>3 DEF Deliver, Columns, RowsOf
  <2>. QED BY <2>1, <2>2, <2>3
<1>5. PICK to \in {"approving", "placed", "delivered"} :
            /\ orderStatus' = [orderStatus EXCEPT ![o] = to]
            /\ to = "delivered" <=> orderStatus[o] = "sold"
            /\ to = "approving" => booked[o].amount > 0
  BY <1>3
<1>6. /\ orderStatus'[o] = to /\ \A p \in OrderIds \ {o} : orderStatus'[p] = orderStatus[p]
      /\ orderStatus' \in [OrderIds -> OrderStatuses]
  BY <1>1, <1>5 DEF Columns, OrderStatuses
<1>7. Columns'
  BY <1>1, <1>2, <1>4, <1>6 DEF Columns
<1>8. RowsOf(o)'
  <2>1. \A s \in Layers :
          taken'[o][s] > 0 \/ booked'[o].units[s] > 0 \/ s \in DOMAIN seen'[o] =>
             supply'[s].state = "received"
    BY <1>1, <1>2, <1>4 DEF RowsOf
  <2>. QED BY <1>1, <1>2, <2>1 DEF RowsOf
<1>9. CostOf(o)'
  BY <1>1, <1>2, <1>3, <1>5, <1>6 DEF CostOf, Costed, NoPieces
<1>10. ReturnsOf(o)'
  <2>1. /\ \A S : Claimed(o, S)' = 0
        /\ requests'[o] = << >> /\ DOMAIN requests'[o] = {}
    BY <1>2, <1>3, NotReturned
  <2>2. Quantity(o)' = Quantity(o) /\ \A S : Claimed(o, S) = 0
    BY <1>2, <1>3, NotReturned DEF Quantity, Total
  <2>3. restored'[o] = NoPieces
    BY <1>1, <1>2, <1>3 DEF CostOf
  <2>. QED BY <1>1, <2>1, <2>2, <2>3, NoTotal DEF ReturnsOf
<1> QED BY <1>2, <1>4, <1>6, <1>7, <1>8, <1>9, <1>10, OrderKeeps DEF costVars

\* A step of order o that gives n pieces back.
LEMMA GivingKeeps ==
  ASSUME LayersInv, NEW o \in OrderIds, NEW n \in Nat, Reverse(o, n), Columns',
         \A p \in OrderIds \ {o} : UNCHANGED <<booked[p], orderStatus[p], seen[p], requests[p]>>,
         booked'[o].units = booked[o].units \/ booked'[o].units = NoPieces,
         UNCHANGED seen[o], CostOf(o)', ReturnsOf(o)'
  PROVE  LayersInv'
<1>1. /\ UNCHANGED <<taken, turn>>
      /\ \A s \in Layers :
           /\ supply'[s].state = supply[s].state /\ Stocked(s)'
           /\ supply'[s].quantity = supply'[s].remaining + Sunk(s)'
           /\ restored'[o][s] <= taken[o][s]
      /\ \A r, s \in Layers : turn[o][r] < turn[o][s] /\ restored'[o][r] > 0 =>
           restored'[o][s] = taken[o][s]
      /\ \A p \in OrderIds \ {o} : restored'[p] = restored[p]
  BY ReverseGives
<1>2. RowsOf(o)'
  <2>1. RowsOf(o)
    BY DEF LayersInv
  <2>2. \A s \in Layers : booked'[o].units[s] > 0 => booked[o].units[s] > 0
    BY DEF NoPieces
  <2>. QED BY <1>1, <2>1, <2>2 DEF RowsOf
<1>3. \A p \in OrderIds \ {o} : RowsOf(p)' /\ CostOf(p)' /\ ReturnsOf(p)'
  <2>1. ASSUME NEW p \in OrderIds \ {o} PROVE RowsOf(p)' /\ CostOf(p)' /\ ReturnsOf(p)'
    <3>1. /\ UNCHANGED <<booked[p], orderStatus[p], seen[p], taken[p], restored[p], turn[p], requests[p]>>
          /\ \A s \in Layers : supply[s].state = "received" => supply'[s].state = "received"
      BY <1>1
    <3>. QED BY <3>1, OrderFrame DEF LayersInv
  <2>. QED BY <2>1
<1> QED BY <1>1, <1>2, <1>3, BalanceOf DEF LayersInv

\* release_reservations: what o's item holds is kept or empty.
LEMMA ReleaseLeaves ==
  ASSUME Columns, NEW o \in OrderIds, Release(o), orderStatus[o] # "none"
  PROVE  /\ booked' \in [OrderIds -> [amount : Nat, units : [Layers -> Nat], loose : Nat]]
         /\ \A p \in OrderIds \ {o} : booked'[p] = booked[p]
         /\ orderStatus[o] = "placed" => booked'[o] = NoBooking /\ Quantity(o)' = 0
         /\ orderStatus[o] # "placed" => booked'[o] = booked[o] /\ Quantity(o)' = Quantity(o)
         /\ booked'[o].units = booked[o].units \/ booked'[o].units = NoPieces
<1>1. /\ NoBooking \in [amount : Nat, units : [Layers -> Nat], loose : Nat]
      /\ NoBooking.units = NoPieces /\ NoBooking.amount = 0 /\ NoBooking.loose = 0
  BY DEF NoBooking, NoPieces
<1>2. CASE orderStatus[o] = "placed"
  <2>1. booked' = [booked EXCEPT ![o] = NoBooking]
    BY <1>2 DEF Release
  <2>2. booked'[o] = NoBooking
    BY <2>1 DEF Columns
  <2>3. Quantity(o)' = 0
    <3>1. Quantity(o)' = NoBooking.amount + Total(NoBooking.units) + NoBooking.loose
      BY <2>2 DEF Quantity, Total
    <3>. QED BY <1>1, <3>1, NoTotal
  <2>. QED BY <1>1, <1>2, <2>1, <2>2, <2>3 DEF Columns
<1>3. CASE orderStatus[o] # "placed"
  <2>1. booked' = booked
    BY <1>3 DEF Release, Columns
  <2>2. Quantity(o)' = Quantity(o)
    BY <2>1 DEF Quantity, Total
  <2>. QED BY <1>3, <2>1, <2>2 DEF Columns
<1> QED BY <1>2, <1>3

\* cancel, or a rejection.
LEMMA CancelSaleKeeps ==
  ASSUME LayersInv, NEW o \in OrderIds, CancelSale(o)
  PROVE  LayersInv'
<1>. DEFINE n == Total(Reversible(o))
<1>1. Columns /\ RowsOf(o) /\ CostOf(o) /\ ReturnsOf(o)
  BY DEF LayersInv
<1>2. n \in Nat
  <2>1. Reversible(o) \in [Layers -> Nat]
    BY <1>1 DEF Columns, RowsOf, Reversible
  <2>2. n = SumFunctionOnSet(Reversible(o), Layers)
    <3>1. Reversible(o) = [s \in Layers |-> Reversible(o)[s]]
      BY <2>1
    <3>. QED BY <3>1, TotalOf
  <2>. QED BY <2>1, <2>2, LayersFinite, SumType
<1>3. /\ Reverse(o, n) /\ orderStatus[o] \in {"placed", "sold"} /\ Release(o)
      /\ orderStatus' = [orderStatus EXCEPT ![o] = "ended"] /\ UNCHANGED <<seen, requests>>
  BY DEF CancelSale
<1>. HIDE DEF n
<1>4. /\ supply' \in [Layers -> [state : {"none", "recorded", "received", "deleted"},
                                quantity : Nat, remaining : Nat, at : Nat]]
      /\ restored' \in [OrderIds -> [Layers -> Nat]] /\ UNCHANGED <<taken, turn>>
      /\ restored'[o] = taken[o]
  BY <1>2, <1>3, ReverseGives DEF n
<1>5. /\ booked' \in [OrderIds -> [amount : Nat, units : [Layers -> Nat], loose : Nat]]
      /\ \A p \in OrderIds \ {o} : booked'[p] = booked[p]
      /\ orderStatus[o] = "placed" => booked'[o] = NoBooking /\ Quantity(o)' = 0
      /\ orderStatus[o] # "placed" => booked'[o] = booked[o] /\ Quantity(o)' = Quantity(o)
      /\ booked'[o].units = booked[o].units \/ booked'[o].units = NoPieces
  BY <1>1, <1>3, ReleaseLeaves
<1>6. /\ orderStatus'[o] = "ended" /\ orderStatus' \in [OrderIds -> OrderStatuses]
      /\ \A p \in OrderIds \ {o} : orderStatus'[p] = orderStatus[p]
  BY <1>1, <1>3 DEF Columns, OrderStatuses
<1>7. Columns'
  BY <1>1, <1>3, <1>4, <1>5, <1>6 DEF Columns
<1>8. CostOf(o)'
  <2>1. CASE orderStatus[o] = "placed"
    <3>1. ~Costed(o)'
      BY <1>1, <1>4, <2>1 DEF CostOf, Costed, NoPieces
    <3>. QED BY <1>4, <1>6, <3>1 DEF CostOf
  <2>2. CASE orderStatus[o] = "sold"
    BY <1>1, <1>4, <1>5, <1>6, <2>2 DEF CostOf, Costed, Total
  <2>. QED BY <1>3, <2>1, <2>2
<1>9. ReturnsOf(o)'
  <2>1. /\ \A S : Claimed(o, S) = 0 /\ Claimed(o, S)' = 0
        /\ requests'[o] = << >> /\ DOMAIN requests'[o] = {}
    BY <1>3, NotReturned
  <2>2. Claimed(o, CountedStatuses)' <= Quantity(o)'
    BY <1>1, <1>5, <2>1 DEF ReturnsOf
  <2>. QED BY <1>6, <2>1, <2>2 DEF ReturnsOf
<1>10. \A p \in OrderIds \ {o} : UNCHANGED <<booked[p], orderStatus[p], seen[p], requests[p]>>
  BY <1>3, <1>5, <1>6
<1> QED BY <1>2, <1>3, <1>5, <1>7, <1>8, <1>9, <1>10, GivingKeeps

\* A late batch of expire_orders: the cost stays where it is.
LEMMA ExpireSaleKeeps ==
  ASSUME LayersInv, NEW o \in OrderIds, ExpireSale(o)
  PROVE  LayersInv'
<1>1. Columns /\ RowsOf(o) /\ CostOf(o) /\ ReturnsOf(o)
  BY DEF LayersInv
<1>2. /\ orderStatus[o] \in {"placed", "sold", "delivered", "ended"} /\ Release(o)
      /\ orderStatus' = [orderStatus EXCEPT ![o] = "expired"]
      /\ UNCHANGED <<supply, seen, taken, restored, turn, requests>>
  BY DEF ExpireSale, costVars
<1>3. /\ booked' \in [OrderIds -> [amount : Nat, units : [Layers -> Nat], loose : Nat]]
      /\ \A p \in OrderIds \ {o} : booked'[p] = booked[p]
      /\ orderStatus[o] = "placed" => booked'[o] = NoBooking /\ Quantity(o)' = 0
      /\ orderStatus[o] # "placed" => booked'[o] = booked[o] /\ Quantity(o)' = Quantity(o)
      /\ booked'[o].units = booked[o].units \/ booked'[o].units = NoPieces
  BY <1>1, <1>2, ReleaseLeaves
<1>4. /\ orderStatus'[o] = "expired" /\ orderStatus' \in [OrderIds -> OrderStatuses]
      /\ \A p \in OrderIds \ {o} : orderStatus'[p] = orderStatus[p]
  BY <1>1, <1>2 DEF Columns, OrderStatuses
<1>5. Columns'
  BY <1>1, <1>2, <1>3, <1>4 DEF Columns
<1>6. RowsOf(o)'
  <2>1. \A s \in Layers : booked'[o].units[s] > 0 => booked[o].units[s] > 0
    BY <1>3 DEF NoPieces
  <2>2. \A s \in Layers :
          taken'[o][s] > 0 \/ booked'[o].units[s] > 0 \/ s \in DOMAIN seen'[o] =>
             supply'[s].state = "received"
    BY <1>1, <1>2, <2>1 DEF RowsOf
  <2>. QED BY <1>1, <1>2, <2>2 DEF RowsOf
<1>7. CostOf(o)'
  <2>1. CASE orderStatus[o] = "placed"
    <3>1. ~Costed(o)'
      BY <1>1, <1>2, <2>1 DEF CostOf, Costed, NoPieces
    <3>. QED BY <1>4, <3>1 DEF CostOf
  <2>2. CASE orderStatus[o] # "placed"
    BY <1>1, <1>2, <1>3, <1>4, <2>2 DEF CostOf, Costed, Total
  <2>. QED BY <2>1, <2>2
<1>8. ReturnsOf(o)'
  <2>1. \A S : Claimed(o, S)' = Claimed(o, S)
    BY <1>2 DEF Claimed, Total
  <2>2. Claimed(o, CountedStatuses)' <= Quantity(o)'
    <3>1. CASE orderStatus[o] = "placed"
      <4>1. \A S : Claimed(o, S) = 0
        BY <1>2, <3>1, NotReturned
      <4>. QED BY <1>3, <2>1, <3>1, <4>1
    <3>2. CASE orderStatus[o] # "placed"
      BY <1>1, <1>3, <2>1, <3>2 DEF ReturnsOf
    <3>. QED BY <3>1, <3>2
  <2>3. Costed(o)' =>
          \/ Total(restored'[o]) = Claimed(o, {"completed"})'
          \/ restored'[o] = taken'[o] /\ requests'[o] = << >>
    <3>1. CASE orderStatus[o] = "ended"
      BY <1>1, <1>2, <3>1 DEF CostOf, ReturnsOf
    <3>2. CASE orderStatus[o] # "ended"
      BY <1>1, <1>2, <2>1, <3>2 DEF ReturnsOf, Costed
    <3>. QED BY <3>1, <3>2
  <2>4. \A i, j \in DOMAIN requests'[o] :
          requests'[o][i].status \in Active /\ requests'[o][j].status \in Active => i = j
    BY <1>1, <1>2 DEF ReturnsOf
  <2>. QED BY <1>4, <2>2, <2>3, <2>4 DEF ReturnsOf, Total
<1>9. \A p \in OrderIds \ {o} : UNCHANGED <<booked[p], orderStatus[p], seen[p], requests[p]>>
  BY <1>2, <1>3, <1>4
<1> QED BY <1>2, <1>5, <1>6, <1>7, <1>8, <1>9, OrderKeeps DEF costVars

LEMMA RequestReturnKeeps ==
  ASSUME LayersInv, NEW o \in OrderIds, NEW n \in 1 .. MaxQuantity, RequestReturn(o, n)
  PROVE  LayersInv'
<1>. DEFINE rs == requests[o]
            row == [status |-> "requested", quantity |-> n]
<1>1. Columns /\ RowsOf(o) /\ CostOf(o) /\ ReturnsOf(o)
  BY DEF LayersInv
<1>2. /\ orderStatus[o] = "delivered" /\ \A i \in DOMAIN rs : rs[i].status \notin Active
      /\ n <= Quantity(o) - Claimed(o, CountedStatuses)
      /\ requests' = [requests EXCEPT ![o] = Append(rs, row)]
      /\ UNCHANGED <<supply, booked, orderStatus, seen, taken, restored, turn>>
  BY DEF RequestReturn, Eligible, costVars
<1>3. row \in ReturnRow /\ row.status = "requested" /\ row.quantity = n
  BY LayerBounds DEF ReturnRow, ReturnStatuses, Active
<1>4. rs \in Seq(ReturnRow) /\ requests'[o] = Append(rs, row)
  BY <1>1, <1>2 DEF Columns
<1>. HIDE DEF rs, row
<1>5. /\ Append(rs, row) \in Seq(ReturnRow)
      /\ \A S : ClaimedIn(Append(rs, row), S) = ClaimedIn(rs, S) + ClaimOf(row, S)
  BY <1>3, <1>4, ClaimedAppend
<1>6. Columns'
  <2>1. requests' \in [OrderIds -> Seq(ReturnRow)]
    BY <1>1, <1>2, <1>5 DEF Columns
  <2>. QED BY <1>1, <1>2, <2>1 DEF Columns
<1>7. RowsOf(o)' /\ CostOf(o)'
  BY <1>1, <1>2 DEF RowsOf, CostOf, Costed, NoPieces
<1>8. ReturnsOf(o)'
  <2>1. /\ Claimed(o, {"completed"})' = Claimed(o, {"completed"})
        /\ Claimed(o, CountedStatuses)' = Claimed(o, CountedStatuses) + n
    <3>1. ClaimOf(row, {"completed"}) = 0 /\ ClaimOf(row, CountedStatuses) = n
      BY <1>3 DEF ClaimOf, CountedStatuses, Active
    <3>2. ClaimedIn(rs, {"completed"}) \in Nat
      BY <1>4, ClaimedSum
    <3>3. \A S : /\ Claimed(o, S)' = ClaimedIn(Append(rs, row), S)
                 /\ Claimed(o, S) = ClaimedIn(rs, S)
      BY <1>4, ClaimedOf DEF rs
    <3>4. ClaimedIn(Append(rs, row), {"completed"}) = ClaimedIn(rs, {"completed"})
      <4>1. ClaimedIn(Append(rs, row), {"completed"}) = ClaimedIn(rs, {"completed"}) + 0
        BY <1>5, <3>1
      <4>. QED BY <3>2, <4>1
    <3>5. ClaimedIn(Append(rs, row), CountedStatuses) = ClaimedIn(rs, CountedStatuses) + n
      BY <1>5, <3>1
    <3>. QED BY <3>3, <3>4, <3>5
  <2>2. Claimed(o, CountedStatuses) \in Nat
    <3>1. ClaimedIn(rs, CountedStatuses) \in Nat
      BY <1>4, ClaimedSum
    <3>. QED BY <3>1, ClaimedOf DEF rs
  <2>3. Quantity(o)' = Quantity(o) /\ Quantity(o) \in Int
    <3>1. booked[o] \in [amount : Nat, units : [Layers -> Nat], loose : Nat]
      BY <1>1 DEF Columns
    <3>2. Total(booked[o].units) \in Nat
      <4>1. booked[o].units = [s \in Layers |-> booked[o].units[s]]
        BY <3>1
      <4>2. \A s \in Layers : booked[o].units[s] \in Nat
        BY <3>1
      <4>. QED BY <4>1, <4>2, TotalOf, LayersFinite, SumType
    <3>3. Quantity(o) \in Nat
      BY <3>1, <3>2 DEF Quantity
    <3>. QED BY <1>2, <3>3 DEF Quantity, Total
  <2>4. Claimed(o, CountedStatuses)' <= Quantity(o)'
    BY <1>2, <2>1, <2>2, <2>3
  <2>5. ASSUME NEW i \in DOMAIN requests'[o], requests'[o][i].status \in Active
        PROVE  i = Len(rs) + 1
    <3>1. /\ DOMAIN Append(rs, row) = 1 .. Len(Append(rs, row)) /\ DOMAIN rs = 1 .. Len(rs)
          /\ Len(Append(rs, row)) = Len(rs) + 1 /\ Len(rs) \in Nat
          /\ \A j \in 1 .. Len(rs) : Append(rs, row)[j] = rs[j]
      BY <1>3, <1>4, <1>5, AppendProperties, LenProperties
    <3>2. i \in 1 .. Len(rs) + 1
      BY <1>4, <2>5, <3>1
    <3>3. i \notin 1 .. Len(rs)
      BY <1>2, <1>4, <2>5, <3>1 DEF rs
    <3>. QED BY <3>1, <3>2, <3>3
  <2>. QED BY <1>1, <1>2, <2>1, <2>4, <2>5 DEF ReturnsOf, Costed, Total
<1>9. \A p \in OrderIds \ {o} : UNCHANGED <<booked[p], orderStatus[p], seen[p], requests[p]>>
  BY <1>1, <1>2 DEF Columns
<1> QED BY <1>2, <1>6, <1>7, <1>8, <1>9, OrderKeeps DEF costVars

\* An open request moves on.
Redecided(o, i, t) == [requests EXCEPT ![o][i].status = t]

LEMMA ReturnMoves ==
  ASSUME Columns, NEW o \in OrderIds, ReturnsOf(o), NEW i \in DOMAIN requests[o],
         requests[o][i].status \in Active, NEW t \in ReturnStatuses,
         requests' = Redecided(o, i, t), UNCHANGED booked[o]
  PROVE  /\ requests' \in [OrderIds -> Seq(ReturnRow)]
         /\ \A p \in OrderIds \ {o} : requests'[p] = requests[p]
         /\ Claimed(o, CountedStatuses)' <= Quantity(o)'
         /\ Claimed(o, {"completed"})' =
              Claimed(o, {"completed"}) + (IF t = "completed" THEN requests[o][i].quantity ELSE 0)
         /\ \A j, k \in DOMAIN requests'[o] :
              requests'[o][j].status \in Active /\ requests'[o][k].status \in Active => j = k
         /\ orderStatus[o] \in {"delivered", "expired"}
         /\ requests[o][i].quantity \in Nat
<1>. DEFINE rs == requests[o]
            ts == [rs EXCEPT ![i].status = t]
<1>1. rs \in Seq(ReturnRow) /\ requests' = [requests EXCEPT ![o] = ts]
  BY DEF Columns, Redecided
<1>2. /\ ts \in Seq(ReturnRow) /\ DOMAIN ts = DOMAIN rs
      /\ ts[i].status = t /\ \A j \in DOMAIN rs \ {i} : ts[j] = rs[j]
      /\ \A S : ClaimedIn(ts, S) =
              ClaimedIn(rs, S) - ClaimOf(rs[i], S) + (IF t \in S THEN rs[i].quantity ELSE 0)
  <2>. HIDE DEF rs
  <2>. QED BY <1>1, ClaimedMoves DEF rs
<1>. HIDE DEF ts
<1>3. /\ requests' \in [OrderIds -> Seq(ReturnRow)] /\ requests'[o] = ts
      /\ \A p \in OrderIds \ {o} : requests'[p] = requests[p]
  <2>1. requests \in [OrderIds -> Seq(ReturnRow)]
    BY DEF Columns
  <2>2. ts \in Seq(ReturnRow)
    BY <1>2
  <2>. HIDE DEF rs
  <2>. QED BY <1>1, <2>1, <2>2
<1>4. rs[i].quantity \in Nat /\ \A S : ClaimedIn(rs, S) \in Nat
  BY <1>1, ClaimedSum DEF ReturnRow
<1>5. ClaimOf(rs[i], CountedStatuses) = rs[i].quantity /\ ClaimOf(rs[i], {"completed"}) = 0
  BY DEF ClaimOf, CountedStatuses, Active
<1>. HIDE DEF rs
<1>6. ClaimedIn(ts, CountedStatuses) <= ClaimedIn(rs, CountedStatuses)
  BY <1>2, <1>4, <1>5
<1>7. ClaimedIn(ts, {"completed"}) =
        ClaimedIn(rs, {"completed"}) + (IF t = "completed" THEN rs[i].quantity ELSE 0)
  BY <1>2, <1>4, <1>5
<1>8. Claimed(o, CountedStatuses)' <= Quantity(o)'
  <2>1. Claimed(o, CountedStatuses) <= Quantity(o) /\ Quantity(o)' = Quantity(o)
    BY DEF ReturnsOf, Quantity, Total
  <2>2. Quantity(o) \in Int
    <3>1. booked[o] \in [amount : Nat, units : [Layers -> Nat], loose : Nat]
      BY DEF Columns
    <3>2. Total(booked[o].units) \in Nat
      <4>1. booked[o].units = [s \in Layers |-> booked[o].units[s]]
        BY <3>1
      <4>2. \A s \in Layers : booked[o].units[s] \in Nat
        BY <3>1
      <4>. QED BY <4>1, <4>2, TotalOf, LayersFinite, SumType
    <3>. QED BY <3>1, <3>2 DEF Quantity
  <2>3. ClaimedIn(ts, CountedStatuses) \in Nat /\ ClaimedIn(rs, CountedStatuses) \in Nat
    BY <1>2, <1>4, ClaimedSum
  <2>4. /\ Claimed(o, CountedStatuses)' = ClaimedIn(ts, CountedStatuses)
        /\ Claimed(o, CountedStatuses) = ClaimedIn(rs, CountedStatuses)
    BY <1>3, ClaimedOf DEF rs
  <2>. QED BY <1>6, <2>1, <2>2, <2>3, <2>4
<1>9. Claimed(o, {"completed"})' =
        Claimed(o, {"completed"}) + (IF t = "completed" THEN rs[i].quantity ELSE 0)
  BY <1>3, <1>7, ClaimedOf DEF rs
<1>10. \A j, k \in DOMAIN ts : ts[j].status \in Active /\ ts[k].status \in Active => j = k
  <2>1. \A j \in DOMAIN ts : ts[j].status \in Active => rs[j].status \in Active
    BY <1>2 DEF rs
  <2>2. \A j, k \in DOMAIN rs : rs[j].status \in Active /\ rs[k].status \in Active => j = k
    BY DEF ReturnsOf, rs
  <2>. QED BY <1>2, <2>1, <2>2
<1>11. orderStatus[o] \in {"delivered", "expired"}
  <2>1. DOMAIN << >> = {}
    OBVIOUS
  <2>. QED BY <2>1 DEF ReturnsOf
<1> QED BY <1>3, <1>4, <1>8, <1>9, <1>10, <1>11 DEF rs

LEMMA DecideKeeps ==
  ASSUME LayersInv, NEW o \in OrderIds, NEW i \in DOMAIN requests[o], Decide(o, i)
  PROVE  LayersInv'
<1>1. Columns /\ RowsOf(o) /\ CostOf(o) /\ ReturnsOf(o)
  BY DEF LayersInv
<1>2. PICK to \in ReturnStatuses :
         /\ requests[o][i].status \in Active /\ to # "completed"
         /\ requests' = Redecided(o, i, to)
  <2>1. PICK t \in Transitions :
           /\ requests[o][i].status = t[1]
           /\ requests' = [requests EXCEPT ![o][i].status = t[2]]
    BY DEF Decide
  <2>2. requests[o][i].status \in Active /\ t[2] \in ReturnStatuses /\ t[2] # "completed"
    BY <2>1 DEF Transitions, Active, ReturnStatuses
  <2>3. requests' = Redecided(o, i, t[2])
    BY <2>1 DEF Redecided
  <2>. QED BY <2>2, <2>3
<1>4. UNCHANGED <<supply, booked, orderStatus, seen, taken, restored, turn>>
  BY DEF Decide, costVars
<1>3. UNCHANGED booked[o]
  BY <1>4
<1>5. /\ requests' \in [OrderIds -> Seq(ReturnRow)]
      /\ \A p \in OrderIds \ {o} : requests'[p] = requests[p]
      /\ Claimed(o, CountedStatuses)' <= Quantity(o)'
      /\ Claimed(o, {"completed"})' =
           Claimed(o, {"completed"}) + (IF to = "completed" THEN requests[o][i].quantity ELSE 0)
      /\ \A j, k \in DOMAIN requests'[o] :
           requests'[o][j].status \in Active /\ requests'[o][k].status \in Active => j = k
      /\ orderStatus[o] \in {"delivered", "expired"}
  BY <1>1, <1>2, <1>3, ReturnMoves
<1>6. Columns'
  BY <1>1, <1>4, <1>5 DEF Columns
<1>7. RowsOf(o)' /\ CostOf(o)'
  BY <1>1, <1>4 DEF RowsOf, CostOf, Costed, NoPieces
<1>8. ReturnsOf(o)'
  <2>1. Claimed(o, {"completed"}) \in Nat
    <3>1. requests[o] \in Seq(ReturnRow)
      BY <1>1 DEF Columns
    <3>2. ClaimedIn(requests[o], {"completed"}) \in Nat
      BY <3>1, ClaimedSum
    <3>. QED BY <3>2, ClaimedOf
  <2>2. Claimed(o, {"completed"})' = Claimed(o, {"completed"})
    BY <1>2, <1>5, <2>1
  <2>. QED BY <1>1, <1>4, <1>5, <2>2 DEF ReturnsOf, Costed, Total
<1>9. \A p \in OrderIds \ {o} : UNCHANGED <<booked[p], orderStatus[p], seen[p], requests[p]>>
  BY <1>4, <1>5
<1> QED BY <1>4, <1>6, <1>7, <1>8, <1>9, OrderKeeps DEF costVars

LEMMA CompleteKeeps ==
  ASSUME LayersInv, NEW o \in OrderIds, NEW i \in DOMAIN requests[o], Complete(o, i)
  PROVE  LayersInv'
<1>. DEFINE n == requests[o][i].quantity
<1>1. Columns /\ RowsOf(o) /\ CostOf(o) /\ ReturnsOf(o)
  BY DEF LayersInv
<1>2. /\ requests[o][i].status \in Active /\ "completed" \in ReturnStatuses
      /\ requests' = Redecided(o, i, "completed")
      /\ UNCHANGED <<booked, orderStatus, seen>>
  BY DEF Complete, Active, ReturnStatuses, Redecided
<1>3. /\ requests' \in [OrderIds -> Seq(ReturnRow)]
      /\ \A p \in OrderIds \ {o} : requests'[p] = requests[p]
      /\ Claimed(o, CountedStatuses)' <= Quantity(o)'
      /\ Claimed(o, {"completed"})' = Claimed(o, {"completed"}) + n
      /\ \A j, k \in DOMAIN requests'[o] :
           requests'[o][j].status \in Active /\ requests'[o][k].status \in Active => j = k
      /\ orderStatus[o] \in {"delivered", "expired"} /\ n \in Nat
  BY <1>1, <1>2, ReturnMoves
<1>4. \A p \in OrderIds \ {o} : UNCHANGED <<booked[p], orderStatus[p], seen[p], requests[p]>>
  BY <1>2, <1>3
<1>5. CASE Costed(o)
  <2>1. n <= Total(Reversible(o)) /\ Reverse(o, n)
    BY <1>5 DEF Complete
  <2>2. /\ supply' \in [Layers -> [state : {"none", "recorded", "received", "deleted"},
                                  quantity : Nat, remaining : Nat, at : Nat]]
        /\ restored' \in [OrderIds -> [Layers -> Nat]] /\ UNCHANGED <<taken, turn>>
        /\ Total(restored'[o]) = Total(restored[o]) + n
    BY <1>3, <2>1, ReverseGives
  <2>3. Columns'
    BY <1>1, <1>2, <1>3, <2>2 DEF Columns
  <2>4. CostOf(o)'
    BY <1>1, <1>2, <1>3, <2>2 DEF CostOf, Costed, Total
  <2>5. ReturnsOf(o)'
    <3>1. Total(restored[o]) = Claimed(o, {"completed"})
      <4>1. requests[o] # << >>
        <5>1. DOMAIN << >> = {}
          OBVIOUS
        <5>. QED BY <5>1
      <4>. QED BY <1>1, <1>3, <1>5, <4>1 DEF ReturnsOf
    <3>. QED BY <1>2, <1>3, <2>2, <3>1 DEF ReturnsOf
  <2>. QED BY <1>2, <1>3, <1>4, <2>1, <2>3, <2>4, <2>5, GivingKeeps
<1>6. CASE ~Costed(o)
  <2>1. UNCHANGED <<supply, taken, restored, turn>>
    BY <1>6 DEF Complete, costVars
  <2>2. Columns'
    BY <1>1, <1>2, <1>3, <2>1 DEF Columns
  <2>3. RowsOf(o)' /\ CostOf(o)'
    BY <1>1, <1>2, <2>1 DEF RowsOf, CostOf, Costed, NoPieces
  <2>4. ReturnsOf(o)'
    BY <1>2, <1>3, <1>6, <2>1 DEF ReturnsOf, Costed
  <2>. QED BY <1>4, <2>1, <2>2, <2>3, <2>4, OrderKeeps DEF costVars
<1> QED BY <1>5, <1>6

-----------------------------------------------------------------------------
(* SupplyLayers: the theorems.                                             *)

LEMMA LayersStart == LayersInit => LayersInv
<1>. SUFFICES ASSUME LayersInit PROVE LayersInv
  OBVIOUS
<1>1. /\ NoPieces \in [Layers -> Nat] /\ NoPieces \in [Layers -> 0 .. MaxLayer]
      /\ \A s \in Layers : NoPieces[s] = 0
  BY LayerBounds DEF NoPieces
<1>2. /\ NoSupply("none") \in [state : {"none", "recorded", "received", "deleted"},
                               quantity : Nat, remaining : Nat, at : Nat]
      /\ NoBooking \in [amount : Nat, units : [Layers -> Nat], loose : Nat]
  BY <1>1 DEF NoSupply, NoBooking
<1>3. << >> \in Seq(ReturnRow) /\ DOMAIN << >> = {}
  BY EmptySeq
<1>4. /\ \A s \in Layers : supply[s] = NoSupply("none")
      /\ \A o \in OrderIds :
           /\ booked[o] = NoBooking /\ orderStatus[o] = "none" /\ seen[o] = << >>
           /\ taken[o] = NoPieces /\ restored[o] = NoPieces /\ turn[o] = NoPieces
           /\ requests[o] = << >>
  BY DEF LayersInit
<1>5. Columns
  BY <1>1, <1>2, <1>3, <1>4 DEF LayersInit, Columns, OrderStatuses
<1>6. LayersBalance
  <2>1. ASSUME NEW s \in Layers PROVE supply[s].quantity = supply[s].remaining + Sunk(s)
    <3>. DEFINE f == [o \in OrderIds |-> Reversible(o)[s]]
    <3>1. \A o \in OrderIds : f[o] = 0
      BY <1>1, <1>4 DEF Reversible
    <3>2. f = [o \in OrderIds |-> f[o]]
      OBVIOUS
    <3>3. Sunk(s) = Total(f)
      BY DEF Sunk
    <3>. HIDE DEF f
    <3>4. Total(f) = 0
      BY <3>1, <3>2, TotalOf, FiniteOrders, SumZero
    <3>. QED BY <1>4, <3>3, <3>4 DEF NoSupply
  <2>. QED BY <2>1 DEF LayersBalance, Sunk
<1>7. \A s \in Layers : Stocked(s)
  BY <1>4 DEF Stocked, NoSupply
<1>8. ASSUME NEW o \in OrderIds PROVE RowsOf(o) /\ CostOf(o) /\ ReturnsOf(o)
  <2>1. RowsOf(o)
    BY <1>1, <1>3, <1>4 DEF RowsOf, NoBooking
  <2>2. CostOf(o)
    <3>1. ~Costed(o)
      BY <1>1, <1>4 DEF Costed
    <3>. QED BY <1>4, <3>1 DEF CostOf
  <2>3. ~Costed(o)
    BY <1>1, <1>4 DEF Costed
  <2>4. Quantity(o) = 0
    <3>1. Quantity(o) = NoBooking.amount + Total(NoBooking.units) + NoBooking.loose
      BY <1>4 DEF Quantity
    <3>. QED BY <3>1, NoTotal DEF NoBooking
  <2>5. Claimed(o, CountedStatuses) = 0
    BY <1>4, ClaimedOf, ClaimedNone
  <2>. QED BY <1>3, <1>4, <2>1, <2>2, <2>3, <2>4, <2>5 DEF ReturnsOf
<1> QED BY <1>5, <1>6, <1>7, <1>8 DEF LayersInv

LEMMA LayersStay == LayersInv /\ UNCHANGED layersVars => LayersInv'
<1>. SUFFICES ASSUME LayersInv, UNCHANGED layersVars PROVE LayersInv'
  OBVIOUS
<1>1. UNCHANGED <<supply, booked, orderStatus, seen, taken, restored, turn, requests>>
  BY DEF layersVars, costVars
<1>2. Columns' /\ LayersBalance'
  BY <1>1 DEF LayersInv, Columns, LayersBalance, Reversible, Total
<1>3. \A s \in Layers : Stocked(s)'
  BY <1>1 DEF LayersInv, Stocked
<1>4. ASSUME NEW o \in OrderIds PROVE RowsOf(o)' /\ CostOf(o)' /\ ReturnsOf(o)'
  BY <1>1, OrderFrame DEF LayersInv
<1> QED BY <1>2, <1>3, <1>4 DEF LayersInv

LEMMA LayersStep == LayersInv /\ [LayersNext]_layersVars => LayersInv'
<1>. SUFFICES ASSUME LayersInv, [LayersNext]_layersVars PROVE LayersInv'
  OBVIOUS
<1>1. CASE UNCHANGED layersVars
  BY <1>1, LayersStay
<1>2. CASE \E s \in Layers : SupplyStep(s)
  BY <1>2, SupplyKeeps
<1>3. ASSUME NEW o \in OrderIds, SaleStep(o) PROVE LayersInv'
  <2>1. CASE Place(o)
    BY <2>1, PlaceKeeps
  <2>2. CASE BeginApprove(o) \/ ApproveRefused(o) \/ Deliver(o)
    BY <2>2, StatusKeeps
  <2>3. CASE ApproveAmount(o) \/ ApproveUnits(o)
    BY <2>3, ApproveKeeps
  <2>4. CASE CancelSale(o)
    BY <2>4, CancelSaleKeeps
  <2>5. CASE \E n \in 1 .. MaxQuantity : RequestReturn(o, n)
    BY <2>5, RequestReturnKeeps
  <2>6. CASE \E i \in DOMAIN requests[o] : Decide(o, i)
    BY <2>6, DecideKeeps
  <2>7. CASE \E i \in DOMAIN requests[o] : Complete(o, i)
    BY <2>7, CompleteKeeps
  <2>8. CASE ExpireSale(o)
    BY <2>8, ExpireSaleKeeps
  <2>. QED BY <1>3, <2>1, <2>2, <2>3, <2>4, <2>5, <2>6, <2>7, <2>8 DEF SaleStep
<1> QED BY <1>1, <1>2, <1>3 DEF LayersNext

\* The strengthening holds in every reachable state: the columns have their
\* types, every piece of a layer is left or sold, the consumption rows of an
\* order are of received layers and told apart by their turns, its cost follows
\* its status and its returns follow its cost.
THEOREM LayersInvariance == LayersSpec => []LayersInv
BY LayersStart, LayersStep, PTL DEF LayersSpec

\* The CHECK constraints of inventory_supplies and
\* inventory_supply_consumptions never fail: no order of sales, cancellations,
\* returns and edits drives a layer below nothing or above what was bought.
THEOREM LayersStayTyped == LayersSpec => []LayersTypeOK
<1>1. LayersInv => LayersTypeOK
  <2>. SUFFICES ASSUME LayersInv PROVE LayersTypeOK
    OBVIOUS
  <2>1. Columns
    BY DEF LayersInv
  <2>2. ASSUME NEW s \in Layers
        PROVE  /\ supply[s].state \in {"none", "recorded", "received", "deleted"}
               /\ supply[s].remaining \in 0 .. supply[s].quantity
               /\ supply[s].state \in {"recorded", "received"} =>
                    supply[s].quantity \in 1 .. MaxQuantity /\ supply[s].at \in 1 .. MaxTime
    <3>1. Stocked(s)
      BY DEF LayersInv
    <3>2. supply[s] \in [state : {"none", "recorded", "received", "deleted"},
                         quantity : Nat, remaining : Nat, at : Nat]
      BY <2>1 DEF Columns
    <3>. QED BY <3>1, <3>2 DEF Stocked
  <2>3. ASSUME NEW o \in OrderIds
        PROVE  /\ orderStatus[o] \in OrderStatuses
               /\ booked[o].amount \in Nat /\ booked[o].loose \in Nat
               /\ booked[o].units \in [Layers -> Nat]
               /\ DOMAIN seen[o] \subseteq Layers
               /\ taken[o] \in [Layers -> Nat] /\ turn[o] \in [Layers -> 0 .. MaxLayer]
               /\ \A s \in Layers : restored[o][s] \in 0 .. taken[o][s]
    <3>1. /\ booked[o] \in [amount : Nat, units : [Layers -> Nat], loose : Nat]
          /\ taken[o] \in [Layers -> Nat] /\ turn[o] \in [Layers -> 0 .. MaxLayer]
          /\ restored[o] \in [Layers -> Nat] /\ DOMAIN seen[o] \subseteq Layers
          /\ orderStatus[o] \in OrderStatuses
      BY <2>1 DEF Columns
    <3>2. \A s \in Layers : restored[o][s] <= taken[o][s]
      BY DEF LayersInv, RowsOf
    <3>3. \A s \in Layers : restored[o][s] \in 0 .. taken[o][s]
      BY <3>1, <3>2
    <3>. QED BY <3>1, <3>3
  <2>. QED BY <2>2, <2>3 DEF LayersTypeOK, OrderStatuses
<1> QED BY <1>1, LayersInvariance, PTL

\* Every piece of a supply is left on it or in the cost of a sale that stands,
\* with any number of orders, supplies and pieces: no order of sales,
\* cancellations, returns and edits loses one or sells it twice.
THEOREM LayersAddUp == LayersSpec => []LayersBalance
<1>1. LayersInv => LayersBalance
  BY DEF LayersInv
<1> QED BY <1>1, LayersInvariance, PTL

\* _consume_fifo charges a sale of counted stock for exactly its pieces, and a
\* sale of units for exactly the supplies they came with, or for nothing at all;
\* reverse_order_item_consumption gives back the pieces of the returns completed
\* so far, the latest rows first, and all of them when the order is cancelled.  A
\* late batch of expire_orders gives nothing back: the cost it finds stays.
THEOREM CostIsTheOrders == LayersSpec => []CostFollowsOrder
<1>1. LayersInv => CostFollowsOrder
  <2>. SUFFICES ASSUME LayersInv, NEW o \in OrderIds
                PROVE  /\ orderStatus[o] \in {"none", "placed", "approving"} => ~Costed(o)
                       /\ Costed(o) =>
                            IF booked[o].amount > 0 THEN Total(taken[o]) = booked[o].amount
                                                  ELSE taken[o] = booked[o].units
                       /\ \A s \in Layers : taken[o][s] > 0 => s \in Supplied("received")
                       /\ orderStatus[o] = "ended" => restored[o] = taken[o]
                       /\ orderStatus[o] \in {"sold", "delivered"} /\ Costed(o) =>
                            Total(restored[o]) = Claimed(o, {"completed"})
                       /\ orderStatus[o] = "expired" /\ Costed(o) =>
                            \/ Total(restored[o]) = Claimed(o, {"completed"})
                            \/ restored[o] = taken[o] /\ requests[o] = << >>
                       /\ \A r, s \in Layers :
                            turn[o][r] < turn[o][s] /\ restored[o][r] > 0 =>
                              restored[o][s] = taken[o][s]
    BY DEF CostFollowsOrder
  <2>1. RowsOf(o) /\ CostOf(o) /\ ReturnsOf(o)
    BY DEF LayersInv
  <2>2. taken[o] = NoPieces => ~Costed(o)
    BY DEF Costed, NoPieces
  <2>3. orderStatus[o] \in {"none", "placed", "approving"} => ~Costed(o)
    BY <2>1, <2>2 DEF CostOf
  <2>4. \A s \in Layers : taken[o][s] > 0 => s \in Supplied("received")
    BY <2>1 DEF RowsOf, Supplied
  <2>5. \A r, s \in Layers :
          turn[o][r] < turn[o][s] /\ restored[o][r] > 0 => restored[o][s] = taken[o][s]
    BY <2>1 DEF RowsOf
  <2>6. /\ orderStatus[o] \in {"sold", "delivered"} /\ Costed(o) =>
             Total(restored[o]) = Claimed(o, {"completed"})
        /\ orderStatus[o] = "expired" /\ Costed(o) =>
             \/ Total(restored[o]) = Claimed(o, {"completed"})
             \/ restored[o] = taken[o] /\ requests[o] = << >>
    BY <2>1 DEF ReturnsOf
  <2>7. /\ Costed(o) =>
             IF booked[o].amount > 0 THEN Total(taken[o]) = booked[o].amount
                                   ELSE taken[o] = booked[o].units
        /\ orderStatus[o] = "ended" => restored[o] = taken[o]
    BY <2>1 DEF CostOf
  <2>. QED BY <2>3, <2>4, <2>5, <2>6, <2>7
<1> QED BY <1>1, LayersInvariance, PTL

\* The pieces of the requests is_eligible and create let through, open and
\* completed ones together, never exceed those of the order, and no order has
\* two open requests.
THEOREM NoMoreReturned == LayersSpec => []ReturnedWithinSold
<1>1. LayersInv => ReturnedWithinSold
  <2>. SUFFICES ASSUME LayersInv, NEW o \in OrderIds
                PROVE  /\ Claimed(o, {"requested", "approved", "received", "completed"})
                             <= Quantity(o)
                       /\ Cardinality({i \in DOMAIN requests[o] :
                            requests[o][i].status \in {"requested", "approved", "received"}}) <= 1
    BY DEF ReturnedWithinSold
  <2>. DEFINE open == {i \in DOMAIN requests[o] :
                         requests[o][i].status \in {"requested", "approved", "received"}}
  <2>1. ReturnsOf(o)
    BY DEF LayersInv
  <2>2. CountedStatuses = {"requested", "approved", "received", "completed"}
    BY DEF CountedStatuses, Active
  <2>3. Claimed(o, {"requested", "approved", "received", "completed"}) <= Quantity(o)
    BY <2>1, <2>2 DEF ReturnsOf
  <2>4. \A i, j \in open : i = j
    BY <2>1 DEF ReturnsOf, Active
  <2>. HIDE DEF open
  <2>5. open = {} \/ \E i \in open : open = {i}
    BY <2>4
  <2>6. Cardinality(open) <= 1
    <3>1. CASE open = {}
      <4>1. Cardinality({}) = 0
        BY FS_EmptySet
      <4>. QED BY <3>1, <4>1
    <3>2. ASSUME NEW i, open = {i} PROVE Cardinality(open) <= 1
      <4>1. Cardinality({i}) = 1
        BY FS_Singleton
      <4>. QED BY <3>2, <4>1
    <3>. QED BY <2>5, <3>1, <3>2
  <2>. QED BY <2>3, <2>6 DEF open
<1> QED BY <1>1, LayersInvariance, PTL

=============================================================================
