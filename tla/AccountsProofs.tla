--------------------------- MODULE AccountsProofs ---------------------------
(***************************************************************************)
(* What holds of codes and accounts for any handlers, passwords and number *)
(* of codes.  A code moves in one direction: generated, usable, consumed,  *)
(* used; a handler that consumed a code is the only one that may use it.   *)
(***************************************************************************)
EXTENDS Accounts, TLAPS

\* A handler that consumed a code and has not used it yet.
Holding(h) == job[h].pc \in {"presented", "activating", "writing"}

\* A handler inside the transaction of a phone confirmation or a reset.
Inside(h) == job[h].pc \in {"locked", "writing"}

\* A code that may be used for a purpose is the last one generated for it.
ActiveIsLatest == \A p \in Purposes : active[p] # None => active[p] = latest[p]

ConsumedIsGone == \A r \in consumed : r < nextCode /\ live[r] = None

LiveGenerated == \A r \in Codes : live[r] # None => r < nextCode

UsedIsConsumed ==
    \A r \in Codes : uses[r] \in {0, 1} /\ (uses[r] # 0 => r \in consumed)

HeldUnused ==
    \A h \in Handlers : Holding(h) => job[h].code \in consumed /\ uses[job[h].code] = 0

HeldByOne ==
    \A g, h \in Handlers : Holding(g) /\ Holding(h) /\ g # h => job[g].code # job[h].code

NamesCode ==
    \A h \in Handlers : job[h].pc \in {"checked", "locked", "sending"} => job[h].code \in Codes

LockKept ==
    \A h \in Handlers : Inside(h) =>
        /\ lock = h
        /\ job[h].purpose = "reset" => row.password = job[h].password

IInv ==
    /\ TypeOK /\ NamesCode
    /\ ActiveIsLatest /\ LiveGenerated /\ ConsumedIsGone /\ UsedIsConsumed
    /\ HeldUnused /\ HeldByOne /\ LockKept

----------------------------------------------------------------------------
LEMMA InitIInv == Init => IInv
<1>. SUFFICES ASSUME Init PROVE IInv
  OBVIOUS
<1>. USE AccountsAssumption DEF Init
<1>1. TypeOK
  BY DEF TypeOK, Row, NoAccount, Statuses, JobType, Idle, Purposes, Codes
<1>2. NamesCode /\ HeldUnused /\ HeldByOne /\ LockKept
  BY DEF NamesCode, HeldUnused, HeldByOne, LockKept, Holding, Inside, Idle
<1>3. ActiveIsLatest /\ LiveGenerated /\ ConsumedIsGone /\ UsedIsConsumed
  BY DEF ActiveIsLatest, LiveGenerated, ConsumedIsGone, UsedIsConsumed
<1> QED BY <1>1, <1>2, <1>3 DEF IInv

----------------------------------------------------------------------------
\* Steps of one handler that leave the codes alone.  What a handler becomes
\* is a job of the right type that holds no code it did not hold before.

IdleType == Idle \in JobType

LEMMA IdleIsJob == IdleType
BY DEF IdleType, Idle, JobType, NoAccount, Row, Statuses, Purposes

\* Handler h becomes j without touching the codes: j holds no code and is not
\* in the transaction, unless h was.
LEMMA Quiet ==
  ASSUME IInv, NEW h \in Handlers, NEW j \in JobType, Become(h, j),
         UNCHANGED <<redis, consumed, uses>>,
         row' \in Row, lock' \in Handlers \cup {None},
         j.pc \in {"checked", "locked", "sending"} => j.code \in Codes,
         j.pc \notin {"presented", "writing"},
         j.pc = "activating" => job[h].pc = "presented" /\ j.code = job[h].code,
         j.pc = "locked" => lock' = h /\ (j.purpose = "reset" => row'.password = j.password),
         \A g \in Handlers \ {h} : Inside(g) => lock' = lock /\ row' = row
  PROVE  IInv'
<1>. USE DEF IInv
<1>1. /\ job' = [job EXCEPT ![h] = j] /\ job \in [Handlers -> JobType]
      /\ job'[h] = j /\ \A g \in Handlers \ {h} : job'[g] = job[g]
  BY DEF Become, TypeOK
<1>2. TypeOK'
  BY <1>1 DEF TypeOK, redis
<1>3. NamesCode'
  BY <1>1 DEF NamesCode, Codes
<1>4. (ActiveIsLatest /\ LiveGenerated /\ ConsumedIsGone /\ UsedIsConsumed)'
  BY DEF ActiveIsLatest, LiveGenerated, ConsumedIsGone, UsedIsConsumed, redis, Codes
<1>5. \A g \in Handlers : Holding(g)' => Holding(g) /\ job'[g].code = job[g].code
  BY <1>1 DEF Holding
<1>6. (HeldUnused /\ HeldByOne)'
  BY <1>5 DEF HeldUnused, HeldByOne
<1>7. LockKept'
  <2>. SUFFICES ASSUME NEW g \in Handlers, Inside(g)'
                PROVE  /\ lock' = g
                       /\ job'[g].purpose = "reset" => row'.password = job'[g].password
    BY DEF LockKept
  <2>1. CASE g = h
    BY <1>1, <2>1 DEF Inside
  <2>2. CASE g # h
    BY <1>1, <2>2 DEF Inside, LockKept
  <2> QED BY <2>1, <2>2
<1> QED BY <1>2, <1>3, <1>4, <1>6, <1>7

\* Steps on the codes, none of which is consumed; a handler may end its work.
LEMMA CodesOnly ==
  ASSUME IInv, UNCHANGED <<row, lock, consumed, uses>>,
         job' \in [Handlers -> JobType],
         \A h \in Handlers : job'[h] \in {job[h], Idle},
         live' \in [Codes -> Request \cup {None}],
         active' \in [Purposes -> Codes \cup {None}],
         cooling' \in [Purposes -> Codes \cup {None}],
         UNCHANGED <<latest, nextCode>>,
         \A r \in Codes : live[r] = None => live'[r] = None,
         \A p \in Purposes : active'[p] \in {None, active[p]}
  PROVE  IInv'
<1>. USE DEF IInv
<1>1. TypeOK'
  BY DEF TypeOK
<1>2. NamesCode' /\ LockKept'
  BY DEF NamesCode, LockKept, Inside, Idle, Codes
<1>3. ActiveIsLatest'
  BY DEF ActiveIsLatest
<1>5. \A h \in Handlers : Holding(h)' => Holding(h) /\ job'[h].code = job[h].code
  BY DEF Holding, Idle
<1>6. HeldUnused' /\ HeldByOne'
  BY <1>5 DEF HeldUnused, HeldByOne
<1>4. LiveGenerated' /\ ConsumedIsGone' /\ UsedIsConsumed'
  BY DEF LiveGenerated, ConsumedIsGone, UsedIsConsumed, TypeOK
<1> QED BY <1>1, <1>2, <1>3, <1>4, <1>6

LEMMA Dropped ==
  ASSUME TypeOK, NEW r \in Codes, Drop(r)
  PROVE  /\ live' \in [Codes -> Request \cup {None}]
         /\ live'[r] = None
         /\ \A q \in Codes : live[q] = None => live'[q] = None
         /\ active' \in [Purposes -> Codes \cup {None}]
         /\ \A p \in Purposes : active'[p] \in {None, active[p]}
         /\ UNCHANGED <<latest, nextCode>>
BY DEF Drop, TypeOK

\* A handler that consumes a code holds it, and nobody else does.
LEMMA Consumes ==
  ASSUME IInv, NEW h \in Handlers, NEW r \in Codes, NEW p \in Purposes,
         NEW j \in JobType, Usable(r, p), Consume(r), Become(h, j),
         UNCHANGED <<row, lock, uses>>,
         j.code = r,
         j.pc \in {"presented", "writing", "idle"},
         j.pc = "writing" => Inside(h) /\ j.purpose = job[h].purpose /\ j.password = job[h].password
  PROVE  IInv'
<1>. USE DEF IInv
<1>1. /\ job' = [job EXCEPT ![h] = j] /\ job \in [Handlers -> JobType]
      /\ job'[h] = j /\ \A g \in Handlers \ {h} : job'[g] = job[g]
  BY DEF Become, TypeOK
<1>2. Drop(r) /\ consumed' = consumed \cup {r} /\ cooling' = cooling
  BY DEF Consume
<1>3. TypeOK'
  BY <1>1, <1>2, Dropped DEF TypeOK
<1>4. r \notin consumed /\ uses[r] = 0
  BY DEF Usable, ConsumedIsGone, UsedIsConsumed
<1>5. NamesCode' /\ LockKept'
  BY <1>1 DEF NamesCode, LockKept, Inside
<1>6. ActiveIsLatest'
  BY <1>2, Dropped DEF ActiveIsLatest
<1>7. LiveGenerated' /\ ConsumedIsGone' /\ UsedIsConsumed'
  <2>1. r < nextCode
    BY DEF Usable, LiveGenerated
  <2> QED BY <1>2, <2>1, Dropped DEF LiveGenerated, ConsumedIsGone, UsedIsConsumed, TypeOK
<1>8. HeldUnused'
  BY <1>1, <1>2, <1>4 DEF HeldUnused, Holding
<1>9. HeldByOne'
  BY <1>1, <1>4 DEF HeldByOne, HeldUnused, Holding
<1> QED BY <1>3, <1>5, <1>6, <1>7, <1>8, <1>9

----------------------------------------------------------------------------
\* Asking for a code.

\* Who writes the row has it locked or nobody has: nobody else is inside.
LEMMA NobodyElseInside ==
  ASSUME IInv, NEW h \in Handlers, MayWrite(h)
  PROVE  \A g \in Handlers \ {h} : ~Inside(g)
BY AccountsAssumption DEF IInv, LockKept, MayWrite

LEMMA BeginRegisterInv ==
  ASSUME IInv, NEW h \in Handlers, NEW w \in Passwords, BeginRegister(h, w)
  PROVE  IInv'
<1>. DEFINE j == [Idle EXCEPT !.pc = "registering", !.new = w, !.copy = row]
<1>1. j \in JobType /\ j.pc = "registering"
  BY IdleIsJob DEF IInv, TypeOK, IdleType, JobType, Idle
<1>2. Become(h, j) /\ row' \in Row /\ lock' \in Handlers \cup {None}
      /\ UNCHANGED <<row, lock, redis, consumed, uses>>
  BY DEF BeginRegister, IInv, TypeOK
<1>. HIDE DEF j
<1> QED BY <1>1, <1>2, Quiet

\* The job of a handler that asks for a code.
LEMMA AsksJob ==
  ASSUME NEW h, NEW p \in Purposes, NEW w \in Passwords \cup {None}, Asks(h, p, w)
  PROVE  \E j \in JobType : j.pc = "asking" /\ Become(h, j)
<1>. DEFINE j == [Idle EXCEPT !.pc = "asking", !.purpose = p, !.password = w]
<1>1. j \in JobType /\ j.pc = "asking"
  BY IdleIsJob DEF IdleType, JobType, Idle
<1>2. Become(h, j)
  BY DEF Asks
<1> QED BY <1>1, <1>2

LEMMA SaveRegistrationInv ==
  ASSUME IInv, NEW h \in Handlers, SaveRegistration(h)
  PROVE  IInv'
<1>1. job[h] \in JobType /\ row \in Row /\ lock \in Handlers \cup {None}
  BY DEF IInv, TypeOK
<1>2. UNCHANGED <<lock, redis, consumed, uses>> /\ MayWrite(h)
  BY DEF SaveRegistration
<1>3. CASE Become(h, Idle) /\ UNCHANGED row
  BY <1>1, <1>2, <1>3, IdleIsJob, Quiet DEF IdleType, Idle
<1>4. CASE /\ row' = [job[h].copy EXCEPT !.status = "pending", !.password = job[h].new]
           /\ Asks(h, "register", job[h].new)
  <2>1. row' \in Row
    BY <1>1, <1>4 DEF JobType, Row, Statuses
  <2>2. PICK j \in JobType : j.pc = "asking" /\ Become(h, j)
    BY <1>1, <1>4, AsksJob DEF JobType, Purposes
  <2>3. \A g \in Handlers \ {h} : ~Inside(g)
    BY <1>2, NobodyElseInside
  <2> QED BY <1>1, <1>2, <2>1, <2>2, <2>3, Quiet
<1> QED BY <1>3, <1>4 DEF SaveRegistration

LEMMA AskForInv ==
  ASSUME IInv, NEW h \in Handlers, NEW p \in Purposes, AskFor(h, p)
  PROVE  IInv'
<1>1. row \in Row /\ lock \in Handlers \cup {None}
  BY DEF IInv, TypeOK
<1>2. UNCHANGED <<row, lock, redis, consumed, uses>>
  BY DEF AskFor
<1>3. PICK j \in JobType : j.pc = "asking" /\ Become(h, j)
  BY <1>1, AsksJob DEF AskFor, Row
<1> QED BY <1>1, <1>2, <1>3, Quiet

\* A handler gives up or is done; nothing else changes.
LEMMA BecomesIdle ==
  ASSUME IInv, NEW h \in Handlers, Become(h, Idle),
         UNCHANGED <<row, lock, redis, consumed, uses>>
  PROVE  IInv'
<1>1. row \in Row /\ lock \in Handlers \cup {None}
  BY DEF IInv, TypeOK
<1> QED BY <1>1, IdleIsJob, Quiet DEF IdleType, Idle

LEMMA GenerateInv ==
  ASSUME IInv, NEW h \in Handlers, Generate(h)
  PROVE  IInv'
<1>. USE DEF IInv
<1>. DEFINE p == job[h].purpose
            j == IF p \in Cancelled THEN [job[h] EXCEPT !.pc = "sending", !.code = nextCode]
                 ELSE Idle
<1>1. /\ job[h] \in JobType /\ p \in Purposes /\ nextCode \in Codes
      /\ job[h].password \in Passwords \cup {None}
  BY DEF TypeOK, JobType, Generate, Codes
<1>2. j \in JobType /\ j.pc \in {"sending", "idle"} /\ (j.pc = "sending" => j.code \in Codes)
  BY <1>1, IdleIsJob DEF IdleType, JobType, Idle
<1>3. Become(h, j) /\ UNCHANGED <<row, lock, consumed, uses>>
  BY DEF Generate
<1>. HIDE DEF j
<1>4. /\ job' = [job EXCEPT ![h] = j] /\ job \in [Handlers -> JobType]
      /\ job'[h] = j /\ \A g \in Handlers \ {h} : job'[g] = job[g]
  BY <1>3 DEF Become, TypeOK
<1>5. live' = [r \in Codes |->
                 IF r = nextCode THEN [purpose |-> p, attempts |-> MaxAttempts,
                                       password |-> job[h].password]
                 ELSE IF r = active[p] THEN None ELSE live[r]]
  BY DEF Generate
<1>6. /\ active' = [active EXCEPT ![p] = nextCode]
      /\ cooling' = [cooling EXCEPT ![p] = nextCode]
      /\ latest' = [latest EXCEPT ![p] = nextCode]
      /\ nextCode' = nextCode + 1
  BY DEF Generate
<1>7. TypeOK'
  <2>1. live' \in [Codes -> Request \cup {None}]
    BY <1>1, <1>5, AccountsAssumption DEF TypeOK, Request
  <2>2. nextCode' \in 1..(MaxCode + 1)
    BY <1>1, <1>6, AccountsAssumption DEF Codes
  <2>3. job' \in [Handlers -> JobType]
    BY <1>2, <1>4
  <2>4. /\ active' \in [Purposes -> Codes \cup {None}]
        /\ cooling' \in [Purposes -> Codes \cup {None}]
        /\ latest' \in [Purposes -> Codes \cup {None}]
    BY <1>1, <1>6 DEF TypeOK
  <2> QED BY <1>3, <2>1, <2>2, <2>3, <2>4 DEF TypeOK
<1>8. NamesCode' /\ HeldUnused' /\ HeldByOne' /\ LockKept'
  BY <1>2, <1>3, <1>4 DEF NamesCode, HeldUnused, HeldByOne, LockKept, Holding, Inside
<1>9. ActiveIsLatest'
  BY <1>1, <1>6 DEF ActiveIsLatest, TypeOK
<1>10. LiveGenerated'
  BY <1>1, <1>5, <1>6 DEF LiveGenerated, Codes
<1>11. UsedIsConsumed'
  BY <1>3 DEF UsedIsConsumed
<1>12. ConsumedIsGone'
  <2>. SUFFICES ASSUME NEW r \in consumed PROVE r < nextCode' /\ live'[r] = None
    BY <1>3 DEF ConsumedIsGone
  <2>1. r \in Codes /\ r < nextCode /\ live[r] = None
    BY DEF ConsumedIsGone, TypeOK
  <2>2. r # nextCode /\ r < nextCode + 1
    BY <1>1, <2>1 DEF Codes
  <2>3. live'[r] \in {None, live[r]}
    BY <1>5, <2>1, <2>2
  <2> QED BY <1>6, <2>1, <2>2, <2>3
<1> QED BY <1>7, <1>8, <1>9, <1>10, <1>11, <1>12

----------------------------------------------------------------------------
\* The end of a code.

LEMMA CancelInv ==
  ASSUME IInv, NEW h \in Handlers, Cancel(h)
  PROVE  IInv'
<1>1. job[h].code \in Codes /\ TypeOK
  BY DEF IInv, NamesCode, Cancel
<1>2. Drop(job[h].code) /\ UNCHANGED <<row, lock, consumed, uses>>
  BY DEF Cancel
<1>3. cooling' \in [Purposes -> Codes \cup {None}]
  BY <1>1 DEF Cancel, TypeOK
<1>4. /\ job' \in [Handlers -> JobType]
      /\ \A g \in Handlers : job'[g] \in {job[g], Idle}
  BY <1>1, IdleIsJob DEF Cancel, Become, IdleType, TypeOK
<1> QED BY <1>1, <1>2, <1>3, <1>4, Dropped, CodesOnly

LEMMA ClockInv ==
  ASSUME IInv,
         (\E p \in Purposes : CoolDown(p)) \/ (\E r \in Codes : Expire(r) \/ Guess(r))
  PROVE  IInv'
<1>1. TypeOK /\ job \in [Handlers -> JobType]
  BY DEF IInv, TypeOK
<1>2. ASSUME NEW p \in Purposes, CoolDown(p) PROVE IInv'
  <2>1. /\ cooling' \in [Purposes -> Codes \cup {None}]
        /\ UNCHANGED <<row, lock, live, active, latest, nextCode, consumed, uses, job>>
    BY <1>1, <1>2 DEF CoolDown, TypeOK
  <2> QED BY <1>1, <2>1, CodesOnly DEF TypeOK
<1>3. ASSUME NEW r \in Codes, Expire(r) PROVE IInv'
  BY <1>1, <1>3, Dropped, CodesOnly DEF Expire, TypeOK
<1>4. ASSUME NEW r \in Codes, Guess(r) PROVE IInv'
  <2>1. UNCHANGED <<row, lock, cooling, consumed, uses, job>>
    BY <1>4 DEF Guess
  <2>2. CASE Drop(r)
    BY <1>1, <2>1, <2>2, Dropped, CodesOnly DEF TypeOK
  <2>3. CASE /\ live[r].attempts # 1
             /\ live' = [live EXCEPT ![r].attempts = @ - 1]
             /\ UNCHANGED <<active, latest, nextCode>>
    <3>1. live[r] # None /\ live[r] \in Request
      BY <1>1, <1>4 DEF Guess, TypeOK
    <3>2. [live[r] EXCEPT !.attempts = @ - 1] \in Request
      BY <2>3, <3>1, AccountsAssumption DEF Request
    <3>3. /\ live' = [live EXCEPT ![r] = [live[r] EXCEPT !.attempts = @ - 1]]
      BY <2>3
    <3>4. live' \in [Codes -> Request \cup {None}]
      BY <1>1, <3>2, <3>3 DEF TypeOK
    <3>5. \A q \in Codes : live[q] = None => live'[q] = None
      BY <1>1, <3>1, <3>3 DEF TypeOK
    <3> QED BY <1>1, <2>1, <2>3, <3>4, <3>5, CodesOnly DEF TypeOK
  <2> QED BY <1>4, <2>2, <2>3 DEF Guess
<1> QED BY <1>2, <1>3, <1>4

----------------------------------------------------------------------------
\* Using a code.

\* The handler that consumed a code uses it, once, and is done.
LEMMA UsesOnce ==
  ASSUME IInv, NEW h \in Handlers, Holding(h), Used(h), Become(h, Idle),
         UNCHANGED <<redis, consumed>>,
         row' \in Row, lock' \in Handlers \cup {None},
         \A g \in Handlers \ {h} : Inside(g) => lock' = lock /\ row' = row
  PROVE  IInv'
<1>. USE DEF IInv
<1>. DEFINE c == job[h].code
<1>1. /\ c \in Codes /\ c \in consumed /\ uses[c] = 0
      /\ uses' = [uses EXCEPT ![c] = @ + 1]
  BY DEF HeldUnused, TypeOK, Used
<1>2. /\ job' = [job EXCEPT ![h] = Idle] /\ job \in [Handlers -> JobType]
      /\ job'[h] = Idle /\ \A g \in Handlers \ {h} : job'[g] = job[g]
      /\ Idle \in JobType /\ Idle.pc = "idle"
  BY IdleIsJob DEF Become, TypeOK, IdleType, Idle
<1>3. TypeOK'
  BY <1>1, <1>2 DEF TypeOK, redis
<1>4. NamesCode' /\ LockKept'
  BY <1>2 DEF NamesCode, LockKept, Inside, Codes
<1>5. ActiveIsLatest' /\ LiveGenerated' /\ ConsumedIsGone'
  BY DEF ActiveIsLatest, LiveGenerated, ConsumedIsGone, redis
<1>6. UsedIsConsumed'
  BY <1>1 DEF UsedIsConsumed, TypeOK
<1>7. \A g \in Handlers : Holding(g)' =>
         Holding(g) /\ g # h /\ job'[g].code = job[g].code /\ job[g].code # c
  BY <1>2 DEF Holding, HeldByOne
<1>8. HeldUnused' /\ HeldByOne'
  BY <1>1, <1>7 DEF HeldUnused, HeldByOne, TypeOK
<1> QED BY <1>3, <1>4, <1>5, <1>6, <1>8

LEMMA PresentInv ==
  ASSUME IInv, NEW h \in Handlers, NEW r \in Codes, NEW p \in Purposes, Present(h, r, p)
  PROVE  IInv'
<1>. DEFINE j == [Idle EXCEPT !.pc = "presented", !.purpose = p, !.code = r,
                              !.password = live[r].password]
<1>1. live[r] \in Request /\ live[r].password \in Passwords \cup {None}
  BY DEF Present, Usable, IInv, TypeOK, Request
<1>2. j \in JobType /\ j.pc = "presented" /\ j.code = r
  BY <1>1, IdleIsJob DEF IdleType, JobType, Idle
<1>3. /\ Usable(r, p) /\ Consume(r) /\ Become(h, j)
      /\ UNCHANGED <<row, lock, uses>>
  BY DEF Present
<1>. HIDE DEF j
<1> QED BY <1>2, <1>3, Consumes

LEMMA ReadRowInv ==
  ASSUME IInv, NEW h \in Handlers, ReadRow(h)
  PROVE  IInv'
<1>1. /\ row \in Row /\ lock \in Handlers \cup {None} /\ job[h] \in JobType
      /\ UNCHANGED <<row, lock, redis, consumed>> /\ job[h].pc = "presented"
  BY DEF IInv, TypeOK, ReadRow
<1>2. CASE Used(h) /\ Become(h, Idle)
  BY <1>1, <1>2, UsesOnce DEF Holding
<1>3. CASE Become(h, [job[h] EXCEPT !.pc = "activating"]) /\ UNCHANGED uses
  <2>. DEFINE j == [job[h] EXCEPT !.pc = "activating"]
  <2>1. j \in JobType /\ j.pc = "activating" /\ j.code = job[h].code
    BY <1>1 DEF JobType
  <2>. HIDE DEF j
  <2>2. Become(h, j)
    BY <1>3 DEF j
  <2> QED BY <1>1, <1>3, <2>1, <2>2, Quiet
<1>4. CASE Become(h, Idle) /\ UNCHANGED uses
  BY <1>1, <1>4, BecomesIdle
<1> QED BY <1>2, <1>3, <1>4 DEF ReadRow

LEMMA ActivateInv ==
  ASSUME IInv, NEW h \in Handlers, Activate(h)
  PROVE  IInv'
<1>1. /\ row \in Row /\ lock \in Handlers \cup {None}
      /\ UNCHANGED <<lock, redis, consumed>> /\ Become(h, Idle) /\ Holding(h)
  BY DEF IInv, TypeOK, Activate, Holding
<1>2. \A g \in Handlers \ {h} : ~Inside(g)
  BY NobodyElseInside DEF Activate
<1>3. CASE row' = [row EXCEPT !.status = "active"] /\ Used(h)
  <2>1. row' \in Row
    BY <1>1, <1>3 DEF Row, Statuses
  <2> QED BY <1>1, <1>2, <1>3, <2>1, UsesOnce
<1>4. CASE UNCHANGED <<row, uses>>
  BY <1>1, <1>4, BecomesIdle
<1> QED BY <1>3, <1>4 DEF Activate

LEMMA CheckInv ==
  ASSUME IInv, NEW h \in Handlers, NEW r \in Codes, NEW p \in Purposes,
         NEW w \in Passwords, Check(h, r, p, w)
  PROVE  IInv'
<1>. DEFINE j == [Idle EXCEPT !.pc = "checked", !.purpose = p, !.code = r,
                              !.password = live[r].password, !.new = w]
<1>1. live[r].password \in Passwords \cup {None}
      /\ row \in Row /\ lock \in Handlers \cup {None}
  BY DEF Check, Usable, IInv, TypeOK, Request
<1>2. j \in JobType /\ j.pc = "checked" /\ j.code = r
  BY <1>1, IdleIsJob DEF IdleType, JobType, Idle
<1>3. Become(h, j) /\ UNCHANGED <<row, lock, redis, consumed, uses>>
  BY DEF Check
<1>. HIDE DEF j
<1> QED BY <1>1, <1>2, <1>3, Quiet

LEMMA UseUpInv ==
  ASSUME IInv, NEW h \in Handlers, UseUp(h)
  PROVE  IInv'
<1>1. /\ job[h].code \in Codes /\ "reset" \in Purposes
      /\ Idle \in JobType /\ Idle.pc = "idle"
  BY IdleIsJob DEF IInv, NamesCode, UseUp, Purposes, IdleType, Idle
<1>2. UNCHANGED <<row, lock, uses>> /\ Become(h, Idle)
  BY DEF UseUp
<1>3. CASE Usable(job[h].code, "reset") /\ Consume(job[h].code)
  <2>. DEFINE r == job[h].code
              j == [Idle EXCEPT !.code = r]
  <2>1. Drop(r) /\ consumed' = consumed \cup {r} /\ cooling' = cooling
    BY <1>3 DEF Consume
  <2>2. r \notin consumed /\ r < nextCode
    BY <1>1, <1>3 DEF IInv, Usable, ConsumedIsGone, LiveGenerated
  <2>3. /\ job' \in [Handlers -> JobType] /\ job'[h] = Idle
        /\ \A g \in Handlers \ {h} : job'[g] = job[g]
    BY <1>1, <1>2 DEF Become, IInv, TypeOK
  <2>4. TypeOK'
    BY <1>1, <1>2, <2>1, <2>3, Dropped DEF IInv, TypeOK
  <2>5. NamesCode' /\ LockKept' /\ HeldUnused' /\ HeldByOne'
    BY <1>1, <1>2, <2>1, <2>3
    DEF IInv, NamesCode, LockKept, HeldUnused, HeldByOne, Holding, Inside
  <2>6. ActiveIsLatest' /\ LiveGenerated' /\ ConsumedIsGone' /\ UsedIsConsumed'
    BY <1>1, <1>2, <2>1, <2>2, Dropped
    DEF IInv, ActiveIsLatest, LiveGenerated, ConsumedIsGone, UsedIsConsumed, TypeOK
  <2> QED BY <2>4, <2>5, <2>6 DEF IInv
<1>4. CASE UNCHANGED <<redis, consumed>>
  BY <1>2, <1>4, BecomesIdle
<1> QED BY <1>3, <1>4 DEF UseUp

LEMMA LockRowInv ==
  ASSUME IInv, NEW h \in Handlers, LockRow(h)
  PROVE  IInv'
<1>1. /\ row \in Row /\ lock = None /\ lock \in Handlers \cup {None} /\ job[h] \in JobType
      /\ UNCHANGED <<row, redis, consumed, uses>> /\ job[h].code \in Codes
  BY DEF IInv, TypeOK, LockRow, NamesCode
<1>2. \A g \in Handlers : ~Inside(g)
  BY <1>1, AccountsAssumption DEF IInv, LockKept
<1>3. CASE /\ job[h].purpose = "reset" => row.password = job[h].password
           /\ lock' = h /\ Become(h, [job[h] EXCEPT !.pc = "locked"])
  <2>. DEFINE j == [job[h] EXCEPT !.pc = "locked"]
  <2>1. /\ j \in JobType /\ j.pc = "locked" /\ j.code = job[h].code
        /\ j.purpose = job[h].purpose /\ j.password = job[h].password
    BY <1>1 DEF JobType
  <2>2. Become(h, j)
    BY <1>3
  <2>. HIDE DEF j
  <2> QED BY <1>1, <1>2, <1>3, <2>1, <2>2, Quiet
<1>4. CASE UNCHANGED lock /\ Become(h, Idle)
  BY <1>1, <1>4, BecomesIdle
<1> QED BY <1>3, <1>4 DEF LockRow

LEMMA ConsumeLockedInv ==
  ASSUME IInv, NEW h \in Handlers, ConsumeLocked(h)
  PROVE  IInv'
<1>1. /\ job[h] \in JobType /\ job[h].pc = "locked" /\ job[h].code \in Codes
      /\ job[h].purpose \in Purposes /\ row \in Row /\ lock = h
      /\ UNCHANGED <<row, uses>>
  BY DEF IInv, TypeOK, JobType, ConsumeLocked, NamesCode, LockKept, Inside
<1>2. CASE /\ Usable(job[h].code, job[h].purpose) /\ Consume(job[h].code)
           /\ Become(h, [job[h] EXCEPT !.pc = "writing"]) /\ UNCHANGED lock
  <2>. DEFINE j == [job[h] EXCEPT !.pc = "writing"]
  <2>1. /\ j \in JobType /\ j.pc = "writing" /\ j.code = job[h].code
        /\ j.purpose = job[h].purpose /\ j.password = job[h].password
    BY <1>1 DEF JobType
  <2>2. Become(h, j)
    BY <1>2
  <2>. HIDE DEF j
  <2> QED BY <1>1, <1>2, <2>1, <2>2, Consumes DEF Inside
<1>3. CASE lock' = None /\ Become(h, Idle) /\ UNCHANGED <<redis, consumed>>
  <2>1. \A g \in Handlers \ {h} : ~Inside(g)
    BY <1>1 DEF IInv, LockKept
  <2> QED BY <1>1, <1>3, <2>1, IdleIsJob, Quiet DEF IdleType, Idle
<1> QED BY <1>2, <1>3 DEF ConsumeLocked

LEMMA WriteInv ==
  ASSUME IInv, NEW h \in Handlers, Write(h)
  PROVE  IInv' /\ (job[h].purpose = "reset" => row.password = job[h].password)
<1>1. /\ job[h] \in JobType /\ Holding(h) /\ Inside(h) /\ row \in Row
      /\ lock' = None /\ Used(h) /\ Become(h, Idle) /\ UNCHANGED <<redis, consumed>>
  BY DEF IInv, TypeOK, Write, Holding, Inside
<1>2. lock = h /\ (job[h].purpose = "reset" => row.password = job[h].password)
  BY <1>1 DEF IInv, LockKept
<1>3. \A g \in Handlers \ {h} : ~Inside(g)
  BY <1>2 DEF IInv, LockKept
<1>4. row' \in Row
  BY <1>1 DEF Write, Row, JobType
<1> QED BY <1>1, <1>2, <1>3, <1>4, UsesOnce

----------------------------------------------------------------------------
\* Edits and crashes.

LEMMA BeginEditInv ==
  ASSUME IInv, NEW h \in Handlers, BeginEdit(h)
  PROVE  IInv'
<1>1. /\ row \in Row /\ lock \in Handlers \cup {None}
      /\ UNCHANGED <<row, lock, redis, consumed, uses>>
  BY DEF IInv, TypeOK, BeginEdit
<1>2. ASSUME NEW j \in JobType, j.pc \in {"editing", "changing"}, Become(h, j) PROVE IInv'
  BY <1>1, <1>2, Quiet
<1>3. ASSUME NEW c \in Row, Become(h, [Idle EXCEPT !.pc = "editing", !.copy = c]) PROVE IInv'
  <2>. DEFINE j == [Idle EXCEPT !.pc = "editing", !.copy = c]
  <2>1. j \in JobType /\ j.pc = "editing"
    BY IdleIsJob DEF IdleType, JobType, Idle
  <2> QED BY <1>2, <1>3, <2>1
<1>4. ASSUME NEW w \in Passwords, Become(h, [Idle EXCEPT !.pc = "changing", !.new = w])
      PROVE  IInv'
  <2>. DEFINE j == [Idle EXCEPT !.pc = "changing", !.new = w]
  <2>1. j \in JobType /\ j.pc = "changing"
    BY IdleIsJob DEF IdleType, JobType, Idle
  <2> QED BY <1>2, <1>4, <2>1
<1>5. \A s \in {"active", "inactive"} : [row EXCEPT !.status = s] \in Row
  BY <1>1 DEF Row, Statuses
<1> QED BY <1>1, <1>3, <1>4, <1>5 DEF BeginEdit

LEMMA SaveEditInv ==
  ASSUME IInv, NEW h \in Handlers, SaveEdit(h)
  PROVE  IInv'
<1>1. /\ job[h] \in JobType /\ row \in Row /\ lock \in Handlers \cup {None}
      /\ UNCHANGED <<lock, redis, consumed, uses>> /\ Become(h, Idle) /\ MayWrite(h)
  BY DEF IInv, TypeOK, SaveEdit
<1>2. row' \in Row
  BY <1>1 DEF SaveEdit, JobType, Row
<1>3. \A g \in Handlers \ {h} : ~Inside(g)
  BY <1>1, NobodyElseInside
<1> QED BY <1>1, <1>2, <1>3, IdleIsJob, Quiet DEF IdleType, Idle

LEMMA CrashInv ==
  ASSUME IInv, NEW h \in Handlers, Crash(h)
  PROVE  IInv'
<1>1. /\ row \in Row /\ lock \in Handlers \cup {None}
      /\ UNCHANGED <<row, redis, consumed, uses>> /\ Become(h, Idle)
      /\ lock' = IF lock = h THEN None ELSE lock
  BY DEF IInv, TypeOK, Crash
<1>2. \A g \in Handlers \ {h} : Inside(g) => lock' = lock
  BY <1>1 DEF IInv, LockKept
<1> QED BY <1>1, <1>2, IdleIsJob, Quiet DEF IdleType, Idle

----------------------------------------------------------------------------
LEMMA NextIInv == IInv /\ [Next]_vars => IInv'
<1>. SUFFICES ASSUME IInv, [Next]_vars PROVE IInv'
  OBVIOUS
<1>1. ASSUME NEW h \in Handlers, Ask(h) PROVE IInv'
  <2>1. CASE Throttled(h) \/ Sent(h)
    BY <2>1, BecomesIdle DEF Throttled, Sent
  <2> QED BY <1>1, <2>1, BeginRegisterInv, SaveRegistrationInv, AskForInv, GenerateInv,
             CancelInv DEF Ask
<1>2. ASSUME NEW h \in Handlers, Confirm(h) PROVE IInv'
  BY <1>2, PresentInv, CheckInv, ReadRowInv, ActivateInv, UseUpInv, LockRowInv,
     ConsumeLockedInv, WriteInv DEF Confirm
<1>3. CASE UNCHANGED vars
  BY <1>3 DEF vars, redis, IInv, TypeOK, NamesCode, ActiveIsLatest, LiveGenerated,
     ConsumedIsGone, UsedIsConsumed, HeldUnused, HeldByOne, LockKept, Holding, Inside
<1> QED BY <1>1, <1>2, <1>3, BeginEditInv, SaveEditInv, CrashInv, ClockInv DEF Next

\* The inductive invariant: the way of a code, and the row lock.
THEOREM CodesInvariance == Spec => []IInv
BY InitIInv, NextIInv, PTL DEF Spec

\* Codes, handlers and the account stay what they are; a code never has less
\* than one attempt left.
THEOREM AccountsTyped == Spec => []TypeOK
BY CodesInvariance, PTL DEF IInv

\* One code brings about one thing, however many requests present it.
THEOREM CodesSpentOnce == Spec => []SpentOnce
<1>1. IInv => SpentOnce
  BY DEF IInv, UsedIsConsumed, SpentOnce
<1> QED BY <1>1, CodesInvariance, PTL

\* A code that a later one replaced is not accepted.
THEOREM OnlyLatestAccepted == Spec => LatestOnly
<1>1. ASSUME IInv, [Next]_vars
      PROVE  [\A r \in consumed' \ consumed : \E p \in Purposes : latest[p] = r]_vars
  <2>. SUFFICES ASSUME NEW r \in consumed' \ consumed, Next
                PROVE  \E p \in Purposes : latest[p] = r
    BY <1>1 DEF vars
  <2>1. PICK q \in Codes, p \in Purposes : Usable(q, p) /\ Consume(q)
    <3>1. PICK h \in Handlers : Confirm(h)
      BY DEF Next, Ask, BeginRegister, SaveRegistration, AskFor, Generate, Throttled, Sent,
         Cancel, BeginEdit, SaveEdit, Crash, CoolDown, Expire, Guess
    <3>2. /\ job[h].pc \in {"checked", "locked"} => job[h].code \in Codes
          /\ job[h].purpose \in Purposes /\ "reset" \in Purposes
      BY <1>1 DEF IInv, NamesCode, TypeOK, JobType, Purposes
    <3> QED BY <3>1, <3>2 DEF Confirm, Present, Check, ReadRow, Activate, UseUp, LockRow,
              ConsumeLocked, Write
  <2>2. r = q
    BY <2>1 DEF Consume
  <2>3. active[p] = q /\ q # None
    BY <2>1, AccountsAssumption DEF Usable, Codes
  <2> QED BY <1>1, <2>2, <2>3 DEF IInv, ActiveIsLatest
<1> QED BY <1>1, CodesInvariance, PTL DEF Spec, LatestOnly

\* A reset replaces the password its code was asked for and no other.
THEOREM ResetsReplaceKnown == Spec => ResetReplacesKnown
<1>1. ASSUME IInv, [Next]_vars
      PROVE  [\A h \in Handlers : Write(h) /\ job[h].purpose = "reset"
                                   => row.password = job[h].password]_vars
  BY <1>1, WriteInv
<1> QED BY <1>1, CodesInvariance, PTL DEF Spec, ResetReplacesKnown

=============================================================================
