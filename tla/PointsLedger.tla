---------------------------- MODULE PointsLedger ----------------------------
(***************************************************************************)
(* The point ledger of one vendor and the balances cached beside it.       *)
(* Awards, hand-entered movements and reconciliations run statement by     *)
(* statement; the row of the membership is locked from the second to the   *)
(* commit.  What a request has inserted is in its transaction until then.  *)
(***************************************************************************)
EXTENDS Integers, Functions

CONSTANTS
    Writers,            \* requests in progress at the same time
    Amounts,            \* the points an activity or a movement may have
    References,         \* what an award may be for
    NoReference,        \* an award for nothing in particular
    MaxEntries,         \* bound: no movement begins when the ledger has as many rows
    Nobody              \* no request

ASSUME PointsAssumption ==
    /\ Amounts \subseteq Nat \ {0}
    /\ NoReference \notin References /\ Nobody \notin Writers /\ MaxEntries \in Nat

VARIABLES
    activity,           \* the activity vendors are awarded for
    member,             \* the membership: is there one, and its two balances
    ledger,             \* ledger[m]: how many committed rows record movement m
    lock,               \* the request that has the row of the membership locked
    tx                  \* tx[q]: where request q is, and what it wants or has read

pointsVars == <<activity, member, ledger, lock, tx>>

Types == {"earn", "spend", "adjustment", "reversal"}

\* named: the row names the activity.  What a row other than an award is for
\* is read by nothing and left out.
Movements ==
    {m \in [type : Types, points : Amounts, named : BOOLEAN,
            reference : References \cup {NoReference}] :
        m.type = "earn" \/ (~m.named /\ m.reference = NoReference)}

LifetimeDirection == [earn |-> 1, adjustment |-> 0, spend |-> 0, reversal |-> -1]
AvailableDirection == [earn |-> 1, adjustment |-> 1, spend |-> -1, reversal |-> -1]

NewMember == [exists |-> TRUE, lifetime |-> 0, available |-> 0]
NoMember == [NewMember EXCEPT !.exists = FALSE]

NoMove == [type |-> "none", points |-> 0, named |-> FALSE, reference |-> NoReference]

\* A request at pc that is to record m and has read b.
Stage(pc, m, b) == [pc |-> pc, move |-> m, read |-> b]

Idle == Stage("idle", NoMove, NoMember)

PointsInit ==
    /\ activity \in [points : Amounts, active : BOOLEAN]
    /\ member = NoMember /\ ledger = [m \in Movements |-> 0]
    /\ lock = Nobody /\ tx = [q \in Writers |-> Idle]

\* The balances after one more row.
Moved(b, m) ==
    [exists |-> TRUE,
     lifetime |-> b.lifetime + m.points * LifetimeDirection[m.type],
     available |-> b.available + m.points * AvailableDirection[m.type]]

Recorded == {m \in Movements : ledger[m] > 0}

Entries == SumFunctionOnSet(ledger, Recorded)

\* What the rows of each movement move a balance by.
Effect(direction) ==
    [m \in Recorded |-> ledger[m] * m.points * direction[m.type]]

Totals ==
    [exists |-> TRUE,
     lifetime |-> SumFunction(Effect(LifetimeDirection)),
     available |-> SumFunction(Effect(AvailableDirection))]

\* The rows the unique index of the ledger tells apart.
Identified(m) == m.type = "earn" /\ m.reference # NoReference /\ m.named

SameAward(m, n) == Identified(m) /\ Identified(n) /\ m.reference = n.reference

Become(q, t) == tx' = [tx EXCEPT ![q] = t]

----------------------------------------------------------------------------
\* The activity is read before the lock, and its points go with the request.
BeginAward(q, r) ==
    /\ tx[q].pc = "idle" /\ activity.active /\ Entries < MaxEntries
    /\ Become(q, Stage("move", [type |-> "earn", points |-> activity.points,
                                named |-> TRUE, reference |-> r], NoMember))
    /\ UNCHANGED <<activity, member, ledger, lock>>

BeginRecord(q, m) ==
    /\ tx[q].pc = "idle" /\ Entries < MaxEntries
    /\ Become(q, Stage("move", m, NoMember))
    /\ UNCHANGED <<activity, member, ledger, lock>>

BeginReconcile(q) ==
    /\ tx[q].pc = "idle" /\ member.exists
    /\ Become(q, Stage("reconcile", NoMove, NoMember))
    /\ UNCHANGED <<activity, member, ledger, lock>>

\* Mutant of Lock: get_or_create without select_for_update.
LockNothing(q) ==
    /\ tx[q].pc \in {"move", "reconcile"}
    /\ Become(q, Stage(IF tx[q].pc = "move" THEN "check" ELSE "sum", tx[q].move, member))
    /\ UNCHANGED <<activity, member, ledger, lock>>

\* The row, created if there is none, and read under its lock.
Lock(q) ==
    /\ tx[q].pc \in {"move", "reconcile"} /\ lock = Nobody
    /\ lock' = q
    /\ Become(q, Stage(IF tx[q].pc = "move" THEN "check" ELSE "sum", tx[q].move, member))
    /\ UNCHANGED <<activity, member, ledger>>

\* Mutant of Repeated: an award whose activity has other points by now is new.
RepeatedExactly(m) == Identified(m) /\ ledger[m] > 0

Repeated(m) == \E n \in Recorded : SameAward(m, n)

Overdraws(q) ==
    LET b == Moved(tx[q].read, tx[q].move) IN b.lifetime < 0 \/ b.available < 0

Refuse(q) ==
    /\ tx[q].pc = "check"
    /\ Repeated(tx[q].move) \/ Overdraws(q)
    /\ lock' = Nobody /\ Become(q, Idle)
    /\ UNCHANGED <<activity, member, ledger>>

Insert(q) ==
    /\ tx[q].pc = "check"
    /\ ~Repeated(tx[q].move) /\ ~Overdraws(q)
    /\ Become(q, Stage("inserted", tx[q].move, tx[q].read))
    /\ UNCHANGED <<activity, member, ledger, lock>>

\* The balances move by what is in the row of the membership at that moment.
CommitMove(q) ==
    /\ tx[q].pc = "inserted"
    /\ ledger' = [ledger EXCEPT ![tx[q].move] = @ + 1]
    /\ member' = Moved(member, tx[q].move)
    /\ lock' = Nobody /\ Become(q, Idle)
    /\ UNCHANGED activity

SumLedger(q) ==
    /\ tx[q].pc = "sum"
    /\ Become(q, Stage("summed", tx[q].move, Totals))
    /\ UNCHANGED <<activity, member, ledger, lock>>

CommitReconcile(q) ==
    /\ tx[q].pc = "summed"
    /\ member' = tx[q].read
    /\ lock' = Nobody /\ Become(q, Idle)
    /\ UNCHANGED <<activity, ledger>>

\* Who asks for a membership that is not there gets an empty one.
CreateMember ==
    /\ ~member.exists /\ lock = Nobody
    /\ member' = NewMember
    /\ UNCHANGED <<activity, ledger, lock, tx>>

EditActivity(a) ==
    /\ activity' = a
    /\ UNCHANGED <<member, ledger, lock, tx>>

\* A request that dies takes its transaction with it.
Crash(q) ==
    /\ tx[q].pc # "idle"
    /\ lock' = IF lock = q THEN Nobody ELSE lock
    /\ Become(q, Idle)
    /\ UNCHANGED <<activity, member, ledger>>

----------------------------------------------------------------------------
WriterStep(q) ==
    \/ \E r \in References \cup {NoReference} : BeginAward(q, r)
    \/ \E m \in Movements : BeginRecord(q, m)
    \/ BeginReconcile(q) \/ Lock(q) \/ Refuse(q) \/ Insert(q) \/ CommitMove(q)
    \/ SumLedger(q) \/ CommitReconcile(q) \/ Crash(q)

PointsNext ==
    \/ \E q \in Writers : WriterStep(q)
    \/ CreateMember
    \/ \E a \in [points : Amounts, active : BOOLEAN] : EditActivity(a)

PointsSpec == PointsInit /\ [][PointsNext]_pointsVars

----------------------------------------------------------------------------
\* The balances are sums: BalanceIsLedger says which.
PointsTypeOK ==
    /\ activity \in [points : Amounts, active : BOOLEAN]
    /\ ledger \in [Movements -> Nat] /\ lock \in Writers \cup {Nobody}
    /\ tx = [q \in Writers |-> Stage(tx[q].pc, tx[q].move, tx[q].read)]
    /\ \A q \in Writers :
          /\ tx[q].pc \in {"idle", "move", "reconcile", "check", "inserted", "sum", "summed"}
          /\ tx[q].move \in Movements \cup {NoMove}

\* The class comment of PointsService: the balances can be rebuilt from the
\* ledger at any time, so they are its totals whoever writes beside whom; and
\* no point of the ledger's history spends what was not there.
BalanceIsLedger ==
    /\ member = IF Recorded = {} THEN [NewMember EXCEPT !.exists = member.exists] ELSE Totals
    /\ member.lifetime >= 0 /\ member.available >= 0

\* A retried award counts once: of the rows with one reference, activity and
\* type earn there is one, also when the activity's points were edited between
\* the tries, or an admin enters the award by hand meanwhile.
EarnedOnce ==
    \A m, n \in Recorded : SameAward(m, n) => m = n /\ ledger[m] = 1

=============================================================================
