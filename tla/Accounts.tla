------------------------------ MODULE Accounts ------------------------------
(***************************************************************************)
(* One-time codes and the account they act on.  A code lives in Redis,     *)
(* which runs each of its three scripts as one step; the account is a row  *)
(* of the database.  A handler goes back and forth between the two, and    *)
(* other handlers run between its steps.  There is one account, known by   *)
(* its phone: a vendor, who registers with a code, or a customer, whose    *)
(* other flows are the same.                                               *)
(*                                                                         *)
(* Time is kept only as far as it decides an order: the cooldown of a code *)
(* (30 s) ends before the code does (120 s).                               *)
(***************************************************************************)
EXTENDS Integers

CONSTANTS
    Handlers,           \* requests in progress at the same time
    Passwords,
    MaxCode,            \* bound: codes ever generated are 1..MaxCode
    MaxAttempts,        \* wrong guesses a code stands, max_attempts
    Flows,              \* bound: the purposes codes are asked for
    Edits,              \* bound: the edits of the row besides those by code
    None                \* no code, no password, no handler

Purposes == {"register", "login", "phone", "reset"}

ASSUME AccountsAssumption ==
    /\ MaxCode \in Nat /\ MaxAttempts \in Nat \ {0}
    /\ Flows \subseteq Purposes
    /\ Edits \subseteq {"profile", "password", "admin"}
    /\ None \notin Nat /\ None \notin Handlers /\ None \notin Passwords

VARIABLES
    row,                \* the account as committed
    lock,               \* the handler that has the row locked
    live,               \* live[r]: the request key of code r, or None
    active,             \* active[p]: the code that may be used for p
    cooling,            \* cooling[p]: the code for which p cools down
    latest,             \* history: the last code generated for p
    nextCode,           \* the id of the next code
    consumed,           \* history: the codes that were consumed
    uses,               \* history: uses[r]: what code r brought about
    job                 \* job[h]: what handler h is doing

redis == <<live, active, cooling, latest, nextCode>>
vars == <<row, lock, redis, consumed, uses, job>>

Codes == 1..MaxCode

Statuses == {"absent", "pending", "active", "inactive"}
Row == [status : Statuses, password : Passwords \cup {None}, verified : BOOLEAN]

NoAccount == [status |-> "absent", password |-> None, verified |-> FALSE]

Request == [purpose : Purposes, attempts : 1..MaxAttempts,
            password : Passwords \cup {None}]

Idle == [pc |-> "idle", purpose |-> "login", code |-> None,
         password |-> None, new |-> None, copy |-> NoAccount]

Init ==
    /\ row = NoAccount /\ lock = None
    /\ live = [r \in Codes |-> None]
    /\ active = [p \in Purposes |-> None]
    /\ cooling = [p \in Purposes |-> None]
    /\ latest = [p \in Purposes |-> None]
    /\ nextCode = 1
    /\ consumed = {} /\ uses = [r \in Codes |-> 0]
    /\ job = [h \in Handlers |-> Idle]

Become(h, j) == job' = [job EXCEPT ![h] = j]

\* An UPDATE of the row waits for the transaction that locked it.
MayWrite(h) == lock \in {None, h}

----------------------------------------------------------------------------
\* Asking for a code.

\* The serializer lets through who is not confirmed yet; the pending row, if
\* there is one, is read without a lock.
BeginRegister(h, w) ==
    /\ "register" \in Flows
    /\ job[h].pc = "idle" /\ row.status \in {"absent", "pending"}
    /\ Become(h, [Idle EXCEPT !.pc = "registering", !.new = w, !.copy = row])
    /\ UNCHANGED <<row, lock, redis, consumed, uses>>

\* What follows the request's own checks: a code is asked for purpose p, and
\* bound to the password w of the row that was read.
Asks(h, p, w) ==
    Become(h, [Idle EXCEPT !.pc = "asking", !.purpose = p, !.password = w])

\* The row is inserted or saved whole; a phone has one row.
SaveRegistration(h) ==
    /\ job[h].pc = "registering" /\ MayWrite(h)
    /\ \/ /\ job[h].copy.status = "absent" /\ row.status # "absent"
          /\ Become(h, Idle) /\ UNCHANGED row
       \/ /\ job[h].copy.status = "absent" => row.status = "absent"
          /\ row' = [job[h].copy EXCEPT !.status = "pending", !.password = job[h].new]
          /\ Asks(h, "register", job[h].new)
    /\ UNCHANGED <<lock, redis, consumed, uses>>

\* The password was right, the phone is not verified, or somebody forgot.
AskFor(h, p) ==
    /\ p \in Flows
    /\ job[h].pc = "idle"
    /\ \/ p = "login" /\ row.status = "active"
       \/ p = "phone" /\ row.status = "active" /\ ~row.verified
       \/ p = "reset"
    /\ Asks(h, p, IF row.status = "active" THEN row.password ELSE None)
    /\ UNCHANGED <<row, lock, redis, consumed, uses>>

\* The flows that take the code back when its SMS cannot be sent.
Cancelled == {"login", "phone"}

\* Mutant of Generate: the key of the active code is only set if there is none.
GenerateKeepsActive(h) ==
    LET p == job[h].purpose
    IN  /\ job[h].pc = "asking" /\ nextCode <= MaxCode /\ cooling[p] = None
        /\ live' = [live EXCEPT ![nextCode] = [purpose |-> p, attempts |-> MaxAttempts,
                                               password |-> job[h].password]]
        /\ active' = [active EXCEPT ![p] = IF @ = None THEN nextCode ELSE @]
        /\ cooling' = [cooling EXCEPT ![p] = nextCode]
        /\ latest' = [latest EXCEPT ![p] = nextCode]
        /\ nextCode' = nextCode + 1
        /\ Become(h, IF p \in Cancelled THEN [job[h] EXCEPT !.pc = "sending", !.code = nextCode]
                     ELSE Idle)
        /\ UNCHANGED <<row, lock, consumed, uses>>

\* A new code replaces the one before.
Generate(h) ==
    LET p == job[h].purpose
    IN  /\ job[h].pc = "asking" /\ nextCode <= MaxCode /\ cooling[p] = None
        /\ live' = [r \in Codes |->
                       IF r = nextCode
                       THEN [purpose |-> p, attempts |-> MaxAttempts,
                             password |-> job[h].password]
                       ELSE IF r = active[p] THEN None ELSE live[r]]
        /\ active' = [active EXCEPT ![p] = nextCode]
        /\ cooling' = [cooling EXCEPT ![p] = nextCode]
        /\ latest' = [latest EXCEPT ![p] = nextCode]
        /\ nextCode' = nextCode + 1
        /\ Become(h, IF p \in Cancelled THEN [job[h] EXCEPT !.pc = "sending", !.code = nextCode]
                     ELSE Idle)
        /\ UNCHANGED <<row, lock, consumed, uses>>

Throttled(h) ==
    /\ job[h].pc = "asking" /\ cooling[job[h].purpose] # None
    /\ Become(h, Idle)
    /\ UNCHANGED <<row, lock, redis, consumed, uses>>

Sent(h) ==
    /\ job[h].pc = "sending"
    /\ Become(h, Idle)
    /\ UNCHANGED <<row, lock, redis, consumed, uses>>

----------------------------------------------------------------------------
\* The end of a code.

Drop(r) ==
    /\ live' = [live EXCEPT ![r] = None]
    /\ active' = [p \in Purposes |-> IF active[p] = r THEN None ELSE active[p]]
    /\ UNCHANGED <<latest, nextCode>>

\* The SMS could not be sent.
Cancel(h) ==
    /\ job[h].pc = "sending"
    /\ Become(h, Idle)
    /\ Drop(job[h].code)
    /\ cooling' = [p \in Purposes |-> IF cooling[p] = job[h].code THEN None ELSE cooling[p]]
    /\ UNCHANGED <<row, lock, consumed, uses>>

CoolDown(p) ==
    /\ cooling[p] # None
    /\ cooling' = [cooling EXCEPT ![p] = None]
    /\ UNCHANGED <<row, lock, live, active, latest, nextCode, consumed, uses, job>>

Expire(r) ==
    /\ live[r] # None /\ cooling[live[r].purpose] # r
    /\ Drop(r)
    /\ UNCHANGED <<row, lock, cooling, consumed, uses, job>>

Usable(r, p) == live[r] # None /\ live[r].purpose = p /\ active[p] = r

\* Mutant of Guess: the attempts are counted and never run out.
GuessOn(r) ==
    /\ live[r] # None /\ Usable(r, live[r].purpose)
    /\ live' = [live EXCEPT ![r].attempts = @ - 1]
    /\ UNCHANGED <<row, lock, active, cooling, latest, nextCode, consumed, uses, job>>

\* A wrong guess, at any endpoint that takes codes for this purpose.
Guess(r) ==
    /\ live[r] # None /\ Usable(r, live[r].purpose)
    /\ IF live[r].attempts = 1
       THEN Drop(r)
       ELSE /\ live' = [live EXCEPT ![r].attempts = @ - 1]
            /\ UNCHANGED <<active, latest, nextCode>>
    /\ UNCHANGED <<row, lock, cooling, consumed, uses, job>>

\* The script's answer to the right code when it consumes it.
Consume(r) ==
    /\ Drop(r)
    /\ consumed' = consumed \cup {r}
    /\ UNCHANGED cooling

----------------------------------------------------------------------------
\* Using a code: registration and login consume it first.

Present(h, r, p) ==
    /\ p \in {"register", "login"}
    /\ job[h].pc = "idle" /\ Usable(r, p)
    /\ Consume(r)
    /\ Become(h, [Idle EXCEPT !.pc = "presented", !.purpose = p, !.code = r,
                              !.password = live[r].password])
    /\ UNCHANGED <<row, lock, uses>>

Used(h) == uses' = [uses EXCEPT ![job[h].code] = @ + 1]

\* The row is read without a lock; a login is complete then.
ReadRow(h) ==
    /\ job[h].pc = "presented"
    /\ \/ /\ job[h].purpose = "login"
          /\ row.password = job[h].password /\ row.status = "active"
          /\ Used(h) /\ Become(h, Idle)
       \/ /\ job[h].purpose = "register"
          /\ row.password = job[h].password /\ row.status = "pending"
          /\ Become(h, [job[h] EXCEPT !.pc = "activating"]) /\ UNCHANGED uses
       \/ /\ \/ row.password # job[h].password
             \/ row.status # (IF job[h].purpose = "login" THEN "active" ELSE "pending")
          /\ Become(h, Idle) /\ UNCHANGED uses
    /\ UNCHANGED <<row, lock, redis, consumed>>

\* Only the status is looked at again once the row is locked.
Activate(h) ==
    /\ job[h].pc = "activating" /\ MayWrite(h)
    /\ Become(h, Idle)
    /\ IF row.status = "pending"
       THEN row' = [row EXCEPT !.status = "active"] /\ Used(h)
       ELSE UNCHANGED <<row, uses>>
    /\ UNCHANGED <<lock, redis, consumed>>

----------------------------------------------------------------------------
\* The phone and the reset check the code, lock the row, and consume it then.

Check(h, r, p, w) ==
    /\ p \in {"phone", "reset"}
    /\ job[h].pc = "idle" /\ Usable(r, p)
    /\ p = "phone" => row.status = "active"
    /\ Become(h, [Idle EXCEPT !.pc = "checked", !.purpose = p, !.code = r,
                              !.password = live[r].password, !.new = w])
    /\ UNCHANGED <<row, lock, redis, consumed, uses>>

\* A reset of a phone that had no active account uses its code up.
Ineligible(h) == job[h].purpose = "reset" /\ job[h].password = None

UseUp(h) ==
    /\ job[h].pc = "checked" /\ Ineligible(h)
    /\ IF Usable(job[h].code, "reset") THEN Consume(job[h].code)
       ELSE UNCHANGED <<redis, consumed>>
    /\ Become(h, Idle)
    /\ UNCHANGED <<row, lock, uses>>

\* Mutant of LockRow: the password the code was asked for is not compared.
LockRowOnly(h) ==
    /\ job[h].pc = "checked" /\ ~Ineligible(h) /\ lock = None
    /\ IF row.status = "active"
       THEN lock' = h /\ Become(h, [job[h] EXCEPT !.pc = "locked"])
       ELSE UNCHANGED lock /\ Become(h, Idle)
    /\ UNCHANGED <<row, redis, consumed, uses>>

LockRow(h) ==
    /\ job[h].pc = "checked" /\ ~Ineligible(h) /\ lock = None
    /\ IF /\ row.status = "active"
          /\ job[h].purpose = "reset" => row.password = job[h].password
       THEN lock' = h /\ Become(h, [job[h] EXCEPT !.pc = "locked"])
       ELSE UNCHANGED lock /\ Become(h, Idle)
    /\ UNCHANGED <<row, redis, consumed, uses>>

\* Mutant of ConsumeLocked: the code is checked a second time, not consumed.
CheckLocked(h) ==
    /\ job[h].pc = "locked"
    /\ IF Usable(job[h].code, job[h].purpose)
       THEN /\ consumed' = consumed \cup {job[h].code}
            /\ Become(h, [job[h] EXCEPT !.pc = "writing"])
            /\ UNCHANGED <<lock, redis>>
       ELSE lock' = None /\ Become(h, Idle) /\ UNCHANGED <<redis, consumed>>
    /\ UNCHANGED <<row, uses>>

ConsumeLocked(h) ==
    /\ job[h].pc = "locked"
    /\ IF Usable(job[h].code, job[h].purpose)
       THEN /\ Consume(job[h].code)
            /\ Become(h, [job[h] EXCEPT !.pc = "writing"])
            /\ UNCHANGED lock
       ELSE lock' = None /\ Become(h, Idle) /\ UNCHANGED <<redis, consumed>>
    /\ UNCHANGED <<row, uses>>

\* The phone is verified; a reset also sets the password.
Write(h) ==
    /\ job[h].pc = "writing"
    /\ row' = [row EXCEPT !.verified = TRUE,
                          !.password = IF job[h].purpose = "reset" THEN job[h].new ELSE @]
    /\ lock' = None /\ Used(h) /\ Become(h, Idle)
    /\ UNCHANGED <<redis, consumed>>

----------------------------------------------------------------------------
\* Edits without a code, by whoever is signed in or by an admin.

BeginEdit(h) ==
    /\ job[h].pc = "idle" /\ row.status # "absent"
    /\ \/ /\ "profile" \in Edits /\ row.status = "active"
          /\ Become(h, [Idle EXCEPT !.pc = "editing", !.copy = row])
       \/ /\ "admin" \in Edits
          /\ \E s \in {"active", "inactive"} :
                Become(h, [Idle EXCEPT !.pc = "editing", !.copy = [row EXCEPT !.status = s]])
       \/ /\ "password" \in Edits /\ row.status = "active"
          /\ \E w \in Passwords :
                Become(h, [Idle EXCEPT !.pc = "changing", !.new = w])
    /\ UNCHANGED <<row, lock, redis, consumed, uses>>

\* save() writes every column as it was read; a new password writes its own.
SaveEdit(h) ==
    /\ job[h].pc \in {"editing", "changing"} /\ MayWrite(h)
    /\ row' = IF job[h].pc = "editing" THEN job[h].copy
              ELSE [row EXCEPT !.password = job[h].new]
    /\ Become(h, Idle)
    /\ UNCHANGED <<lock, redis, consumed, uses>>

\* The database takes back what it had not committed, Redis nothing.
Crash(h) ==
    /\ job[h].pc # "idle"
    /\ lock' = IF lock = h THEN None ELSE lock
    /\ Become(h, Idle)
    /\ UNCHANGED <<row, redis, consumed, uses>>

----------------------------------------------------------------------------
Ask(h) ==
    \/ \E w \in Passwords : BeginRegister(h, w)
    \/ SaveRegistration(h)
    \/ \E p \in Purposes : AskFor(h, p)
    \/ Generate(h) \/ Throttled(h) \/ Sent(h) \/ Cancel(h)

Confirm(h) ==
    \/ \E r \in Codes, p \in Purposes :
          \/ Present(h, r, p)
          \/ \E w \in Passwords : Check(h, r, p, w)
    \/ ReadRow(h) \/ Activate(h)
    \/ UseUp(h) \/ LockRow(h) \/ ConsumeLocked(h) \/ Write(h)

Next ==
    \/ \E h \in Handlers :
          Ask(h) \/ Confirm(h) \/ BeginEdit(h) \/ SaveEdit(h) \/ Crash(h)
    \/ \E p \in Purposes : CoolDown(p)
    \/ \E r \in Codes : Expire(r) \/ Guess(r)

Spec == Init /\ [][Next]_vars

----------------------------------------------------------------------------
JobType ==
    [pc : {"idle", "registering", "asking", "sending", "presented", "activating",
           "checked", "locked", "writing", "editing", "changing"},
     purpose : Purposes, code : Codes \cup {None},
     password : Passwords \cup {None}, new : Passwords \cup {None}, copy : Row]

TypeOK ==
    /\ row \in Row
    /\ lock \in Handlers \cup {None}
    /\ live \in [Codes -> Request \cup {None}]
    /\ active \in [Purposes -> Codes \cup {None}]
    /\ cooling \in [Purposes -> Codes \cup {None}]
    /\ latest \in [Purposes -> Codes \cup {None}]
    /\ nextCode \in 1..(MaxCode + 1)
    /\ consumed \subseteq Codes
    /\ uses \in [Codes -> Nat]
    /\ job \in [Handlers -> JobType]

\* core/services/confirmed_request.py:111, vendor auth_service.py:250: one code
\* opens one session, verifies one phone or resets one password, however many
\* requests present it at the same time and wherever they are interrupted.
SpentOnce ==
    \A r \in Codes : /\ uses[r] <= 1
                     /\ uses[r] = 1 => r \in consumed

\* A code that a later one replaced is never accepted again.
LatestOnly ==
    [][\A r \in consumed' \ consumed : \E p \in Purposes : latest[p] = r]_vars

\* A reset replaces the password its code was asked for: not one that was
\* chosen in the meantime, however late the reset is carried out.
ResetReplacesKnown ==
    [][\A h \in Handlers :
          Write(h) /\ job[h].purpose = "reset" => row.password = job[h].password]_vars

\* domains/vendor/serializers/vendor.py:30, "A confirmed account owns its
\* number": no registration of that number makes it pending again.
ConfirmedStays == [][row.status = "active" => row'.status # "pending"]_vars

=============================================================================
