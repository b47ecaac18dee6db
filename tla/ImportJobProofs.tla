--------------------------- MODULE ImportJobProofs --------------------------
(***************************************************************************)
(* What an import job keeps for any number of products, workers, crashes   *)
(* and second deliveries.                                                  *)
(*                                                                         *)
(* The lock "import" makes the worker in the loop the only one that writes *)
(* results and counters, so what it has seen of the products behind it     *)
(* stays true: each of them is imported, or a failure has been counted.    *)
(* It passed the head of the loop with the cancel flag down, so whatever   *)
(* is written after the flag went up is the product it has in hand.        *)
(***************************************************************************)
EXTENDS ImportJob, FiniteSetTheorems, TLAPS

\* What the worker in the loop, which holds the lock, knows of the results.
Behind(w, p) == \A q \in 1..(p - 1) : Done(q) \/ job.failed > 0

Looping(w) ==
    LET at == worker[w] IN
        /\ at.pc \in {"checking", "looking"} => Behind(w, at.product)
        /\ at.pc = "looking" => late = 0
        /\ at.pc = "recording" => Behind(w, at.product) /\ ~Done(at.product)
        /\ at.pc \in {"reading", "counting"} =>
               /\ Behind(w, at.product)
               /\ at.outcome = "imported" => Done(at.product)
        /\ at.pc = "judging" => Behind(w, N + 1)
        /\ at.pc = "closing" /\ at.verdict = "completed" => \A q \in Products : Done(q)

\* Somebody has written the product and not recorded it yet.
Unrecorded(p) ==
    \E w \in Workers :
        worker[w].pc = "recording" /\ worker[w].product = p /\ worker[w].outcome = "imported"

Written ==
    \A p \in Products :
        /\ imports[p] <= 1 + crashes
        /\ ~Done(p) /\ ~Unrecorded(p) => imports[p] <= crashes

Cancelling == late <= 1 /\ (late > 0 => job.cancel)

IInv ==
    /\ TypeOK /\ Written /\ Cancelling /\ CompletedIsComplete
    /\ \A w \in Workers : Looping(w)

-----------------------------------------------------------------------------
(* Where a worker is.                                                      *)

LEMMA Goes ==
    ASSUME TypeOK, NEW w \in Workers, NEW place \in Place, Go(w, place)
    PROVE  /\ worker' \in [Workers -> Place]
           /\ worker'[w] = place
           /\ \A v \in Workers : v # w => worker'[v] = worker[v]
    BY DEF TypeOK, Go

\* The fields a worker has at each place.
LEMMA Fields ==
    ASSUME TypeOK, NEW w \in Workers
    PROVE  /\ worker[w].pc = "checking" => worker[w].product \in 1..(N + 1)
           /\ worker[w].pc \in {"looking", "recording", "reading", "counting"} =>
                  worker[w].product \in Products
           /\ worker[w].pc \in {"recording", "reading", "counting"} =>
                  worker[w].outcome \in {"imported", "failed"}
           /\ worker[w].pc = "counting" =>
                  worker[w].processed \in Nat /\ worker[w].imported \in Nat /\ worker[w].failed \in Nat
           /\ worker[w].pc = "closing" => worker[w].verdict \in Terminal
    BY DEF TypeOK, Place

\* The places a worker can go to.
LEMMA Somewhere ==
    /\ Idle \in Place
    /\ \A pc \in {"starting", "waiting", "judging", "ended"} : At(pc) \in Place
    /\ \A p \in 1..(N + 1) : On("checking", p) \in Place
    /\ \A p \in Products : On("looking", p) \in Place
    BY DEF Place, Idle, At, On

LEMMA Alone ==
    ASSUME TypeOK, NEW v \in Workers, NEW w \in Workers, InLoop(v), InLoop(w)
    PROVE  v = w
    BY DEF TypeOK

-----------------------------------------------------------------------------
(* Types.                                                                  *)

Manifest ==
    [status : Terminal \union {"queued", "running", "cancel_requested"},
     cancel : BOOLEAN, finished : BOOLEAN, processed : Nat, imported : Nat, failed : Nat]

LEMMA CountTyped ==
    ASSUME NEW j \in Manifest, NEW a \in Nat, NEW b \in Nat
    PROVE  /\ [[j EXCEPT !.processed = a] EXCEPT !.imported = b] \in Manifest
           /\ [[j EXCEPT !.processed = a] EXCEPT !.failed = b] \in Manifest
    BY DEF Manifest

LEMMA InitTyped == Init => TypeOK
  <1>. SUFFICES ASSUME Init PROVE TypeOK
    OBVIOUS
  <1>1. job \in Manifest
    BY DEF Init, Manifest
  <1>2. /\ worker \in [Workers -> Place]
        /\ \A w \in Workers : ~InLoop(w)
    BY Somewhere DEF Init, InLoop, Idle
  <1>3. /\ results \in [Products -> {"none", "imported", "failed"}]
        /\ imports \in [Products -> Nat]
        /\ selection \in {"listed", "unlisted"} /\ published = "not yet"
        /\ lock = NoOne /\ canceller = "idle"
    BY DEF Init
  <1>4. ready \in Nat /\ late \in Nat /\ crashes \in 0..MaxCrashes /\ redeliveries \in 0..MaxRedeliveries
    <2>1. ready = 0 /\ late = 0 /\ crashes = 0 /\ redeliveries = 0
      BY DEF Init
    <2>2. 0 \in Nat /\ 0 \in 0..MaxCrashes /\ 0 \in 0..MaxRedeliveries
      BY BoundType
    <2>. QED
      BY <2>1, <2>2
  <1>5. \A w \in Workers : InLoop(w) => lock = w
    BY <1>2
  <1>6. lock \in Workers \union {NoOne} /\ published \in {"not yet", "yes", "failed"} /\ canceller \in {"idle", "granted"}
    BY <1>3
  <1>. QED
    BY <1>1, <1>2, <1>3, <1>4, <1>5, <1>6 DEF TypeOK, Manifest

\* A step of worker w to a place outside the loop, or of the one that holds
\* the lock after it.
LEMMA PlaceTyped ==
    ASSUME TypeOK, NEW w \in Workers, NEW place \in Place, Go(w, place),
           place.pc \in {"checking", "looking", "recording", "reading", "counting"} => lock' = w,
           \A v \in Workers : v # w /\ InLoop(v) => lock' = v
    PROVE  /\ worker' \in [Workers -> Place]
           /\ \A v \in Workers : InLoop(v)' => lock' = v
  <1>1. /\ worker' \in [Workers -> Place]
        /\ worker'[w] = place
        /\ \A v \in Workers : v # w => worker'[v] = worker[v]
    BY Goes
  <1>. QED
    BY <1>1 DEF InLoop

\* The worker in the loop goes on in it.
LEMMA StaysTyped ==
    ASSUME TypeOK, NEW w \in Workers, NEW place \in Place, Go(w, place), InLoop(w), UNCHANGED lock
    PROVE  /\ worker' \in [Workers -> Place]
           /\ \A v \in Workers : InLoop(v)' => lock' = v
  <1>1. lock = w /\ \A v \in Workers : v # w => ~InLoop(v)
    BY DEF TypeOK
  <1>. QED
    BY <1>1, PlaceTyped

\* Nobody but w is in the loop, and w leaves it.
LEMMA LeavesTyped ==
    ASSUME TypeOK, NEW w \in Workers, NEW place \in Place, Go(w, place), InLoop(w),
           place.pc \notin {"checking", "looking", "recording", "reading", "counting"}
    PROVE  /\ worker' \in [Workers -> Place]
           /\ \A v \in Workers : InLoop(v)' => lock' = v
  <1>1. \A v \in Workers : v # w => ~InLoop(v)
    BY DEF TypeOK
  <1>. QED
    BY <1>1, PlaceTyped

\* A step outside the loop.
LEMMA OutsideTyped ==
    ASSUME TypeOK, NEW w \in Workers, NEW place \in Place, Go(w, place), UNCHANGED lock,
           place.pc \notin {"checking", "looking", "recording", "reading", "counting"}
    PROVE  /\ worker' \in [Workers -> Place]
           /\ \A v \in Workers : InLoop(v)' => lock' = v
  <1>1. \A v \in Workers : InLoop(v) => lock' = v
    BY DEF TypeOK
  <1>. QED
    BY <1>1, PlaceTyped

LEMMA WebTyped ==
    ASSUME TypeOK, WebStep
    PROVE  TypeOK'
  <1>1. job' \in Manifest
    <2>1. CASE PublishFails
      BY <2>1 DEF TypeOK, PublishFails, Manifest, Terminal
    <2>2. CASE SetCancel
      BY <2>2 DEF TypeOK, SetCancel, Manifest
    <2>3. CASE Publish \/ AskCancel
      BY <2>3 DEF TypeOK, Publish, AskCancel, Manifest
    <2>. QED
      BY <2>1, <2>2, <2>3 DEF WebStep
  <1>2. /\ UNCHANGED <<results, selection, worker, lock, imports, late, crashes, redeliveries>>
        /\ published' \in {"not yet", "yes", "failed"}
        /\ canceller' \in {"idle", "granted"}
    BY DEF TypeOK, WebStep, Publish, PublishFails, AskCancel, SetCancel, history, faults
  <1>3. ready' \in Nat
    <2>1. ready \in Nat
      BY DEF TypeOK
    <2>2. ready' = ready \/ ready' = 1
      BY DEF WebStep, Publish, PublishFails, AskCancel, SetCancel
    <2>. QED
      BY <2>1, <2>2
  <1>. QED
    BY <1>1, <1>2, <1>3 DEF TypeOK, Manifest, InLoop

LEMMA TakeTyped ==
    ASSUME TypeOK, NEW w \in Workers, Accept(w) \/ Drop(w)
    PROVE  TypeOK'
  <1>0. ready' \in Nat
    <2>1. ready \in Nat
      BY DEF TypeOK
    <2>2. ready > 0 /\ ready' = ready - 1
      BY DEF Accept, Drop
    <2>. QED
      BY <2>1, <2>2
  <1>1. CASE Accept(w)
    <2>1. At("starting") \in Place /\ At("starting").pc = "starting"
      BY Somewhere DEF At
    <2>2. worker' \in [Workers -> Place] /\ \A v \in Workers : InLoop(v)' => lock' = v
      BY <1>1, <2>1, OutsideTyped DEF Accept
    <2>. QED
      BY <1>0, <1>1, <2>2 DEF TypeOK, Accept, web, history, faults
  <1>2. CASE Drop(w)
    BY <1>0, <1>2 DEF TypeOK, Drop, InLoop, web, history, faults
  <1>. QED
    BY <1>1, <1>2

\* The part of TypeOK that the steps of a task only read.
LEMMA RestTyped ==
    ASSUME TypeOK, UNCHANGED <<web, ready, faults>>,
           job' \in Manifest,
           results' \in [Products -> {"none", "imported", "failed"}],
           worker' \in [Workers -> Place],
           \A v \in Workers : InLoop(v)' => lock' = v,
           lock' \in Workers \union {NoOne},
           imports' \in [Products -> Nat], late' \in Nat
    PROVE  TypeOK'
    BY DEF TypeOK, web, faults, Manifest

LEMMA ProceedTyped ==
    ASSUME TypeOK, NEW w \in Workers, Proceed(w) \/ Abort(w)
    PROVE  TypeOK'
  <1>. USE Fields, Somewhere, BoundType
  <1>0. /\ job \in Manifest
        /\ results \in [Products -> {"none", "imported", "failed"}]
        /\ lock \in Workers \union {NoOne}
        /\ imports \in [Products -> Nat] /\ late \in Nat
    BY DEF TypeOK, Manifest
  <1>. DEFINE Housed == worker' \in [Workers -> Place] /\ \A v \in Workers : InLoop(v)' => lock' = v
  <1>3. CASE Begin(w)
    <2>1. Housed
      BY <1>3, OutsideTyped DEF Begin, At
    <2>2. job' \in Manifest
      BY <1>0, <1>3 DEF Begin, Manifest
    <2>. QED
      BY <1>0, <1>3, <2>1, <2>2, RestTyped DEF Begin, history
  <1>4. CASE Enter(w)
    <2>1. \A v \in Workers : ~InLoop(v)
      <3>1. lock = NoOne
        BY <1>4 DEF Enter
      <3>. QED
        BY <3>1, NoOneType DEF TypeOK
    <2>2. Go(w, On("checking", 1)) /\ On("checking", 1) \in Place /\ lock' = w
      BY <1>4 DEF Enter
    <2>3. Housed
      BY <2>1, <2>2, PlaceTyped
    <2>. QED
      BY <1>0, <1>4, <2>3, RestTyped DEF Enter, history
  <1>5. CASE Stop(w)
    <2>1. Housed
      BY <1>5, LeavesTyped DEF Stop, At, InLoop
    <2>2. job' \in Manifest
      BY <1>0, <1>5 DEF Stop, Manifest, Terminal
    <2>. QED
      BY <1>0, <1>5, <2>1, <2>2, RestTyped DEF Stop, history
  <1>6. CASE Continue(w)
    <2>1. Housed
      BY <1>6, StaysTyped DEF Continue, Current, InLoop
    <2>. QED
      BY <1>0, <1>6, <2>1, RestTyped DEF Continue, history
  <1>7. CASE Skip(w)
    <2>1. Current(w) + 1 \in 1..(N + 1)
      BY <1>7 DEF Skip, Current, Products
    <2>2. Housed
      BY <1>7, <2>1, StaysTyped DEF Skip, InLoop
    <2>. QED
      BY <1>0, <1>7, <2>2, RestTyped DEF Skip, history
  <1>8. CASE Import(w)
    <2>1. PICK o \in {"imported", "failed"} :
              Go(w, [pc |-> "recording", product |-> Current(w), outcome |-> o])
      BY <1>8 DEF Import
    <2>2. [pc |-> "recording", product |-> Current(w), outcome |-> o] \in Place
      BY <1>8 DEF Import, Place, Current
    <2>3. Housed
      BY <1>8, <2>1, <2>2, StaysTyped DEF Import, InLoop
    <2>4. imports' \in [Products -> Nat] /\ late' \in Nat
      BY <1>0, <1>8 DEF Import, history, Current
    <2>. QED
      BY <1>0, <1>8, <2>3, <2>4, RestTyped DEF Import
  <1>9. CASE Record(w)
    <2>1. [worker[w] EXCEPT !.pc = "reading"] \in Place
      <3>1. worker[w] \in [pc : {"recording", "reading"}, product : Products,
                           outcome : {"imported", "failed"}]
        BY <1>9 DEF TypeOK, Record, Place
      <3>2. [worker[w] EXCEPT !.pc = "reading"] \in [pc : {"recording", "reading"},
                           product : Products, outcome : {"imported", "failed"}]
        BY <3>1
      <3>. QED
        BY <3>2 DEF Place
    <2>2. Housed
      BY <1>9, <2>1, StaysTyped DEF Record, InLoop
    <2>3. results' \in [Products -> {"none", "imported", "failed"}]
      BY <1>0, <1>9 DEF Record, Current
    <2>. QED
      BY <1>0, <1>9, <2>2, <2>3, RestTyped DEF Record, history
  <1>10. CASE ReadCounters(w)
    <2>. DEFINE there == [pc |-> "counting", product |-> Current(w), outcome |-> worker[w].outcome,
                    processed |-> job.processed, imported |-> job.imported, failed |-> job.failed]
    <2>1. there \in Place
      BY <1>0, <1>10 DEF ReadCounters, Place, Current, Manifest
    <2>2. Housed
      BY <1>10, <2>1, StaysTyped DEF ReadCounters, InLoop
    <2>. QED
      BY <1>0, <1>10, <2>2, RestTyped DEF ReadCounters, history
  <1>11. CASE Count(w)
    <2>1. On("checking", worker[w].product + 1) \in Place
      BY <1>11 DEF Count, Products
    <2>2. Housed
      BY <1>11, <2>1, StaysTyped DEF Count, InLoop
    <2>3. job' \in Manifest
      <3>. DEFINE seen == worker[w]
      <3>1. seen.processed + 1 \in Nat /\ seen.imported + 1 \in Nat /\ seen.failed + 1 \in Nat
        BY <1>11 DEF Count
      <3>. DEFINE good == [[job EXCEPT !.processed = seen.processed + 1]
                               EXCEPT !.imported = seen.imported + 1]
                  bad == [[job EXCEPT !.processed = seen.processed + 1]
                              EXCEPT !.failed = seen.failed + 1]
      <3>2. job' = good \/ job' = bad
        BY <1>11 DEF Count
      <3>3. good \in Manifest
        BY <1>0, <3>1, CountTyped
      <3>4. bad \in Manifest
        BY <1>0, <3>1, CountTyped
      <3>. QED
        BY <3>2, <3>3, <3>4
    <2>. QED
      BY <1>0, <1>11, <2>2, <2>3, RestTyped DEF Count, history
  <1>12. CASE Leave(w)
    <2>1. Housed
      BY <1>12, LeavesTyped DEF Leave, At, InLoop
    <2>. QED
      BY <1>0, <1>12, <2>1, RestTyped DEF Leave, history
  <1>13. CASE Judge(w)
    <2>. DEFINE there == [pc |-> "closing", verdict |->
                    IF job.failed > 0 THEN "completed_with_errors" ELSE "completed"]
    <2>1. there \in Place
      BY DEF Place, Terminal
    <2>2. Housed
      BY <1>13, <2>1, OutsideTyped DEF Judge
    <2>. QED
      BY <1>0, <1>13, <2>2, RestTyped DEF Judge, history
  <1>14. CASE Close(w)
    <2>1. Housed
      BY <1>14, OutsideTyped DEF Close, At
    <2>2. job' \in Manifest
      BY <1>0, <1>14 DEF Close, Manifest
    <2>. QED
      BY <1>0, <1>14, <2>1, <2>2, RestTyped DEF Close, history
  <1>15. CASE Acknowledge(w)
    <2>1. Housed
      BY <1>15, OutsideTyped DEF Acknowledge, Idle
    <2>. QED
      BY <1>0, <1>15, <2>1, RestTyped DEF Acknowledge, history
  <1>16. CASE Abort(w)
    <2>. DEFINE there == [pc |-> "closing", verdict |-> IF job.cancel THEN "cancelled" ELSE "failed"]
    <2>1. there \in Place
      BY DEF Place, Terminal
    <2>2. Housed
      BY <1>16, <2>1, LeavesTyped DEF Abort, InLoop
    <2>. QED
      BY <1>0, <1>16, <2>2, RestTyped DEF Abort, history
  <1>. QED
    BY <1>3, <1>4, <1>5, <1>6, <1>7, <1>8, <1>9, <1>10, <1>11, <1>12, <1>13, <1>14, <1>15, <1>16
    DEF Proceed

LEMMA FailureTyped ==
    ASSUME TypeOK, NEW w \in Workers, Crash(w) \/ Redeliver(w)
    PROVE  TypeOK'
  <1>1. ready' \in Nat /\ crashes' \in 0..MaxCrashes /\ redeliveries' \in 0..MaxRedeliveries
    <2>1. ready \in Nat /\ crashes \in 0..MaxCrashes /\ redeliveries \in 0..MaxRedeliveries
      BY DEF TypeOK
    <2>2. /\ ready' = ready + 1
          /\ crashes' = crashes \/ (crashes < MaxCrashes /\ crashes' = crashes + 1)
          /\ \/ redeliveries' = redeliveries
             \/ redeliveries < MaxRedeliveries /\ redeliveries' = redeliveries + 1
      BY DEF Crash, Redeliver
    <2>. QED
      BY <2>1, <2>2, BoundType
  <1>2. UNCHANGED <<job, results, selection, published, canceller, imports, late>>
    BY DEF Crash, Redeliver, web, history
  <1>3. /\ worker' \in [Workers -> Place]
        /\ \A v \in Workers : InLoop(v)' => lock' = v
        /\ lock' \in Workers \union {NoOne}
    <2>1. CASE Crash(w)
      <3>1. \A v \in Workers : v # w /\ InLoop(v) => lock' = v
        BY <2>1 DEF TypeOK, Crash
      <3>2. Go(w, Idle) /\ Idle \in Place /\ Idle.pc = "idle"
        BY <2>1, Somewhere DEF Crash, Idle
      <3>. QED
        BY <2>1, <3>1, <3>2, PlaceTyped DEF Crash, TypeOK
    <2>2. CASE Redeliver(w)
      BY <2>2 DEF TypeOK, Redeliver, InLoop
    <2>. QED
      BY <2>1, <2>2
  <1>. QED
    BY <1>1, <1>2, <1>3 DEF TypeOK

LEMMA StepTyped ==
    ASSUME TypeOK, [Next]_vars
    PROVE  TypeOK'
  <1>1. CASE UNCHANGED vars
    BY <1>1 DEF TypeOK, vars, InLoop
  <1>2. CASE Next
    BY <1>2, WebTyped, TakeTyped, ProceedTyped, FailureTyped DEF Next
  <1>. QED
    BY <1>1, <1>2

-----------------------------------------------------------------------------
(* What a step keeps.                                                      *)

TaskStep(w) == Accept(w) \/ Drop(w) \/ Proceed(w) \/ Abort(w) \/ Crash(w) \/ Redeliver(w)

\* An imported product stays imported: the worker that records a result has
\* found that there was none.
LEMMA DoneStays ==
    ASSUME IInv, [Next]_vars, NEW p \in Products, Done(p)
    PROVE  Done(p)'
  <1>1. CASE \E w \in Workers : Record(w)
    <2>1. PICK w \in Workers : Record(w)
      BY <1>1
    <2>2. ~Done(Current(w)) /\ Current(w) \in Products
      BY <2>1, Fields DEF IInv, Looping, Record, Current
    <2>. QED
      BY <2>1, <2>2 DEF Record, Done
  <1>2. CASE ~ \E w \in Workers : Record(w)
    <2>1. UNCHANGED results
      BY <1>2 DEF vars, Next, WebStep, Publish, PublishFails, AskCancel, SetCancel, Accept, Drop,
         Proceed, Begin, Enter, Stop, Continue, Skip, Import, ReadCounters, Count, Leave, Judge,
         Close, Acknowledge, Abort, Crash, Redeliver
    <2>. QED
      BY <2>1 DEF Done
  <1>. QED
    BY <1>1, <1>2

\* A failure that was counted stays counted.
LEMMA FailedStays ==
    ASSUME TypeOK, [Next]_vars, job.failed > 0
    PROVE  job'.failed > 0
  <1>1. CASE \E w \in Workers : Count(w)
    <2>1. PICK w \in Workers : Count(w)
      BY <1>1
    <2>2. job'.failed = job.failed \/ job'.failed = worker[w].failed + 1
      BY <2>1 DEF TypeOK, Count
    <2>3. worker[w].failed \in Nat
      BY <2>1, Fields DEF Count
    <2>. QED
      BY <2>2, <2>3
  <1>2. CASE ~ \E w \in Workers : Count(w)
    <2>1. job'.failed = job.failed
      BY <1>2 DEF TypeOK, vars, Next, WebStep, Publish, PublishFails, AskCancel, SetCancel, Accept,
         Drop, Proceed, Begin, Enter, Stop, Continue, Skip, Import, Record, ReadCounters, Leave,
         Judge, Close, Acknowledge, Abort, Crash, Redeliver
    <2>. QED
      BY <2>1
  <1>. QED
    BY <1>1, <1>2

\* The cancel flag is never taken back.
LEMMA CancelStays ==
    ASSUME TypeOK, [Next]_vars, job.cancel
    PROVE  job'.cancel
    BY DEF TypeOK, vars, Next, WebStep, Publish, PublishFails, AskCancel, SetCancel, Accept,
       Drop, Proceed, Begin, Enter, Stop, Continue, Skip, Import, Record, ReadCounters, Count, Leave,
       Judge, Close, Acknowledge, Abort, Crash, Redeliver

LEMMA BehindStays ==
    ASSUME IInv, [Next]_vars, NEW w \in Workers, NEW p \in 1..(N + 1), Behind(w, p)
    PROVE  Behind(w, p)'
  <1>1. \A q \in 1..(p - 1) : q \in Products
    BY BoundType DEF Products
  <1>. QED
    BY <1>1, DoneStays, FailedStays DEF Behind, IInv

\* What a worker knows stays true while it stays where it is, if nobody
\* records or writes a product meanwhile.
LEMMA LoopingStays ==
    ASSUME IInv, [Next]_vars, NEW v \in Workers, worker'[v] = worker[v],
           InLoop(v) => UNCHANGED <<results, late>>
    PROVE  Looping(v)'
  <1>. DEFINE at == worker[v]
  <1>0. Looping(v) /\ TypeOK
    BY DEF IInv
  <1>1. at.pc \in {"checking", "looking", "recording", "reading", "counting"} =>
            at.product \in 1..(N + 1)
    BY <1>0, Fields, BoundType DEF Products
  <1>2. at.pc \in {"checking", "looking", "recording", "reading", "counting"} =>
            Behind(v, at.product)'
    BY <1>0, <1>1, BehindStays DEF Looping, InLoop
  <1>3. at.pc = "judging" => Behind(v, N + 1)'
    <2>1. N + 1 \in 1..(N + 1)
      BY BoundType
    <2>. QED
      BY <1>0, <2>1, BehindStays DEF Looping
  <1>4. at.pc = "closing" /\ at.verdict = "completed" => \A q \in Products : Done(q)'
    BY <1>0, DoneStays DEF Looping
  <1>5. at.pc \in {"recording", "reading", "counting"} => (Done(at.product) <=> Done(at.product)')
    BY DEF InLoop, Done
  <1>6. at.pc = "looking" => late' = 0
    BY <1>0 DEF InLoop, Looping
  <1>. QED
    BY <1>0, <1>2, <1>3, <1>4, <1>5, <1>6 DEF Looping, Behind, Done

\* Only the worker in the loop records or writes, so the others' knowledge
\* of the results is not disturbed.
LEMMA OthersLooping ==
    ASSUME IInv, NEW w \in Workers, TaskStep(w), NEW v \in Workers, v # w
    PROVE  Looping(v)'
  <1>1. [Next]_vars
    BY DEF TaskStep, Next
  <1>2. worker'[v] = worker[v]
    BY DEF TaskStep, Accept, Drop, Proceed, Begin, Enter, Stop, Continue, Skip, Import, Record,
       ReadCounters, Count, Leave, Judge, Close, Acknowledge, Abort, Crash, Redeliver, Go,
       IInv, TypeOK
  <1>3. ASSUME InLoop(v) PROVE UNCHANGED <<results, late>>
    <2>1. ~InLoop(w)
      BY <1>3, Alone DEF IInv
    <2>. QED
      BY <2>1 DEF InLoop, TaskStep, Accept, Drop, Proceed, Begin, Enter, Stop, Continue, Skip,
         Import, Record, ReadCounters, Count, Leave, Judge, Close, Acknowledge, Abort, Crash,
         Redeliver, history
  <1>. QED
    BY <1>1, <1>2, <1>3, LoopingStays
\* The web process touches neither the results nor a worker.
LEMMA WebLooping ==
    ASSUME IInv, WebStep, NEW v \in Workers
    PROVE  Looping(v)'
  <1>1. UNCHANGED <<worker, results, late>> /\ [Next]_vars
    BY DEF WebStep, Next, Publish, PublishFails, AskCancel, SetCancel, history
  <1>. QED
    BY <1>1, LoopingStays

\* What w knows after a step of its own.
LEMMA OwnLooping ==
    ASSUME IInv, TypeOK', NEW w \in Workers, TaskStep(w)
    PROVE  Looping(w)'
  <1>0. /\ [Next]_vars
        /\ Looping(w) /\ TypeOK
        /\ \A place : Go(w, place) => worker'[w] = place
    BY DEF TaskStep, Next, IInv, TypeOK, Go
  <1>a. \A p \in 1..(N + 1) : Behind(w, p) => Behind(w, p)'
    BY <1>0, BehindStays
  <1>b. ASSUME NEW p \in 1..(N + 1), p \in Products, Behind(w, p), Done(p)' \/ job'.failed > 0
        PROVE  Behind(w, p + 1)'
    <2>1. \A q \in 1..((p + 1) - 1) : q \in 1..(p - 1) \/ q = p
      BY <1>b DEF Products
    <2>2. Behind(w, p)'
      BY <1>a, <1>b
    <2>. QED
      BY <1>b, <2>1, <2>2 DEF Behind, Done
  <1>. DEFINE at == worker[w]
  <1>1. CASE Accept(w) \/ Begin(w) \/ Crash(w) \/ Acknowledge(w)
    <2>1. worker'[w].pc \in {"idle", "starting", "waiting"}
      BY <1>0, <1>1 DEF Accept, Begin, Crash, Acknowledge, At, Idle
    <2>. QED
      BY <2>1 DEF Looping
  <1>2. CASE Drop(w) \/ Redeliver(w)
    <2>1. UNCHANGED <<worker, results, late>>
      BY <1>2 DEF Drop, Redeliver, history
    <2>. QED
      BY <1>0, <2>1, LoopingStays
  <1>3. CASE Enter(w)
    <2>1. worker'[w].pc = "checking" /\ worker'[w].product = 1
      BY <1>0, <1>3 DEF Enter, On
    <2>2. 1..(1 - 1) = {}
      OBVIOUS
    <2>. QED
      BY <2>1, <2>2 DEF Looping, Behind
  <1>4. CASE Stop(w) \/ Leave(w)
    <2>1. worker'[w].pc = "ended" \/ (worker'[w].pc = "judging" /\ Leave(w))
      BY <1>0, <1>4 DEF Stop, Leave, At
    <2>2. ASSUME Leave(w) PROVE Behind(w, N + 1)'
      <3>1. at.pc = "checking" /\ at.product = N + 1 /\ N + 1 \in 1..(N + 1)
        BY <2>2, BoundType DEF Leave, Current
      <3>2. Behind(w, N + 1)
        BY <1>0, <3>1 DEF Looping
      <3>. QED
        BY <1>0, <3>1, <3>2, BehindStays
    <2>. QED
      BY <2>1, <2>2 DEF Looping
  <1>5. CASE Continue(w)
    <2>0. PICK p \in 1..(N + 1) : p = at.product
      BY <1>0, <1>5, Fields DEF Continue
    <2>1. worker'[w].pc = "looking" /\ worker'[w].product = p
      BY <1>0, <1>5, <2>0 DEF Continue, On, Current
    <2>2. Behind(w, p)
      BY <1>0, <1>5, <2>0 DEF Looping, Continue
    <2>3. Behind(w, p)'
      BY <1>a, <2>2
    <2>4. late' = 0
      <3>1. late' = late /\ ~job.cancel
        BY <1>5 DEF Continue, history
      <3>2. ~(late > 0)
        BY <3>1 DEF IInv, Cancelling
      <3>3. late \in Nat
        BY <1>0 DEF TypeOK
      <3>4. late = 0
        BY <3>2, <3>3
      <3>. QED
        BY <3>1, <3>4
    <2>. QED
      BY <2>1, <2>3, <2>4 DEF Looping, Behind
  <1>6. CASE Skip(w)
    <2>0. PICK p \in 1..(N + 1) : p = at.product
      BY <1>0, <1>6, Fields, BoundType DEF Skip, Products
    <2>1. worker'[w].pc = "checking" /\ worker'[w].product = p + 1
      BY <1>0, <1>6, <2>0 DEF Skip, On, Current
    <2>2. p \in Products /\ Behind(w, p) /\ Done(p) /\ UNCHANGED results
      BY <1>0, <1>6, <2>0, Fields DEF Looping, Skip, Current
    <2>3. Behind(w, p + 1)'
      BY <1>b, <2>2 DEF Done
    <2>. QED
      BY <2>1, <2>3 DEF Looping, Behind
  <1>7. CASE Import(w)
    <2>0. PICK p \in 1..(N + 1) : p = at.product
      BY <1>0, <1>7, Fields, BoundType DEF Import, Products
    <2>1. worker'[w].pc = "recording" /\ worker'[w].product = p
      BY <1>0, <1>7, <2>0 DEF Import, Current
    <2>2. Behind(w, p) /\ ~Done(p) /\ UNCHANGED results
      BY <1>0, <1>7, <2>0 DEF Looping, Import, Current
    <2>3. Behind(w, p)'
      BY <1>a, <2>2
    <2>. QED
      BY <2>1, <2>2, <2>3 DEF Looping, Behind, Done
  <1>8. CASE Record(w)
    <2>0. PICK p \in 1..(N + 1) : p = at.product
      BY <1>0, <1>8, Fields, BoundType DEF Record, Products
    <2>1. worker'[w].pc = "reading" /\ worker'[w].product = p /\ worker'[w].outcome = at.outcome
      <3>1. worker'[w] = [at EXCEPT !.pc = "reading"]
        BY <1>0, <1>8 DEF Record
      <3>2. at \in [pc : {"recording", "reading"}, product : Products, outcome : {"imported", "failed"}]
        BY <1>0, <1>8 DEF TypeOK, Record, Place
      <3>. QED
        BY <2>0, <3>1, <3>2
    <2>2. p \in Products /\ Behind(w, p)
      BY <1>0, <1>8, <2>0, Fields DEF Looping, Record
    <2>3. Behind(w, p)'
      BY <1>a, <2>2
    <2>4. at.outcome = "imported" => Done(p)'
      BY <1>0, <1>8, <2>0, <2>2 DEF Record, Current, Done, TypeOK
    <2>. QED
      BY <2>1, <2>3, <2>4 DEF Looping, Behind, Done
  <1>9. CASE ReadCounters(w)
    <2>0. PICK p \in 1..(N + 1) : p = at.product
      BY <1>0, <1>9, Fields, BoundType DEF ReadCounters, Products
    <2>1. worker'[w].pc = "counting" /\ worker'[w].product = p /\ worker'[w].outcome = at.outcome
      BY <1>0, <1>9, <2>0 DEF ReadCounters, Current
    <2>2. /\ Behind(w, p) /\ UNCHANGED results
          /\ at.outcome = "imported" => Done(p)
      BY <1>0, <1>9, <2>0 DEF Looping, ReadCounters
    <2>3. Behind(w, p)'
      BY <1>a, <2>2
    <2>. QED
      BY <2>1, <2>2, <2>3 DEF Looping, Behind, Done
  <1>10. CASE Count(w)
    <2>0. PICK p \in 1..(N + 1) : p = at.product
      BY <1>0, <1>10, Fields, BoundType DEF Count, Products
    <2>1. worker'[w].pc = "checking" /\ worker'[w].product = p + 1
      BY <1>0, <1>10, <2>0 DEF Count, On
    <2>2. /\ p \in Products /\ Behind(w, p) /\ UNCHANGED results
          /\ at.outcome \in {"imported", "failed"}
          /\ at.outcome = "imported" => Done(p)
      BY <1>0, <1>10, <2>0, Fields DEF Looping, Count
    <2>3. Done(p)' \/ job'.failed > 0
      <3>1. CASE at.outcome = "imported"
        BY <2>2, <3>1 DEF Done
      <3>2. CASE at.outcome # "imported"
        <4>1. job'.failed = at.failed + 1
          BY <1>0, <1>10, <3>2 DEF Count, TypeOK
        <4>2. at.failed \in Nat
          BY <1>0, <1>10, Fields DEF Count
        <4>. QED
          BY <4>1, <4>2
      <3>. QED
        BY <3>1, <3>2
    <2>4. Behind(w, p + 1)'
      BY <1>b, <2>2, <2>3
    <2>. QED
      BY <2>1, <2>4 DEF Looping, Behind
  <1>11. CASE Abort(w)
    <2>1. worker'[w].pc = "closing" /\ worker'[w].verdict # "completed"
      BY <1>0, <1>11 DEF Abort
    <2>. QED
      BY <2>1 DEF Looping
  <1>12. CASE Judge(w)
    <2>1. /\ worker'[w].pc = "closing"
          /\ worker'[w].verdict = "completed" => ~(job.failed > 0)
      BY <1>0, <1>12 DEF Judge
    <2>2. Behind(w, N + 1) /\ UNCHANGED results
      BY <1>0, <1>12 DEF Judge, Looping
    <2>3. \A q \in Products : q \in 1..((N + 1) - 1)
      BY BoundType DEF Products
    <2>. QED
      BY <2>1, <2>2, <2>3 DEF Looping, Behind, Done
  <1>13. CASE Close(w)
    <2>1. worker'[w].pc = "ended"
      BY <1>0, <1>13 DEF Close, At
    <2>. QED
      BY <2>1 DEF Looping
  <1>. QED
    BY <1>1, <1>2, <1>3, <1>4, <1>5, <1>6, <1>7, <1>8, <1>9, <1>10, <1>11, <1>12, <1>13
    DEF TaskStep, Proceed

LEMMA StepLooping ==
    ASSUME IInv, TypeOK', [Next]_vars, NEW v \in Workers
    PROVE  Looping(v)'
  <1>1. CASE UNCHANGED vars
    BY <1>1, LoopingStays DEF vars
  <1>2. CASE WebStep
    BY <1>2, WebLooping
  <1>3. CASE \E w \in Workers : TaskStep(w)
    BY <1>3, OthersLooping, OwnLooping
  <1>. QED
    BY <1>1, <1>2, <1>3 DEF Next, TaskStep

-----------------------------------------------------------------------------
(* What the catalog and the manifest say.                                  *)

\* Whoever closes a job as "completed" knows that every product is imported.
LEMMA StepCompleted ==
    ASSUME IInv, [Next]_vars
    PROVE  CompletedIsComplete'
  <1>. SUFFICES ASSUME job'.status = "completed", NEW p \in Products
                PROVE  Done(p)'
    BY DEF CompletedIsComplete, Done
  <1>1. job.status = "completed"
        \/ \E w \in Workers : worker[w].pc = "closing" /\ worker[w].verdict = "completed"
    <2>0. job \in Manifest
      BY DEF IInv, TypeOK, Manifest
    <2>1. CASE \E w \in Workers : Close(w)
      BY <2>0, <2>1 DEF Close, Manifest
    <2>2. CASE \E w \in Workers : Begin(w) \/ Stop(w) \/ Count(w)
      BY <2>0, <2>2 DEF Begin, Stop, Count, Manifest
    <2>3. CASE PublishFails \/ SetCancel
      BY <2>0, <2>3 DEF PublishFails, SetCancel, Manifest
    <2>4. CASE UNCHANGED job
      BY <2>4
    <2>. QED
      BY <2>1, <2>2, <2>3, <2>4 DEF vars, Next, WebStep, Publish, AskCancel, Accept, Drop, Proceed,
         Enter, Continue, Skip, Import, Record, ReadCounters, Leave, Judge, Acknowledge, Abort,
         Crash, Redeliver
  <1>2. Done(p)
    BY <1>1 DEF IInv, CompletedIsComplete, Looping
  <1>. QED
    BY <1>2, DoneStays

\* The worker that writes a product late passed the head of the loop in time,
\* and there is only one.
LEMMA StepCancelling ==
    ASSUME IInv, TypeOK', [Next]_vars
    PROVE  Cancelling'
  <1>0. late \in Nat /\ late <= 1 /\ (late > 0 => job.cancel) /\ TypeOK
    BY DEF IInv, TypeOK, Cancelling
  <1>1. CASE \E w \in Workers : Import(w)
    <2>1. PICK w \in Workers : Import(w)
      BY <1>1
    <2>2. late = 0
      BY <2>1 DEF Import, IInv, Looping
    <2>3. late' = late \/ (late' = late + 1 /\ job.cancel)
      BY <2>1 DEF Import, history
    <2>4. job.cancel => job'.cancel
      BY <2>1 DEF Import
    <2>5. late' <= 1 /\ (late' > 0 => job.cancel)
      BY <2>2, <2>3
    <2>. QED
      BY <2>4, <2>5 DEF Cancelling
  <1>2. CASE ~ \E w \in Workers : Import(w)
    <2>1. UNCHANGED late
      BY <1>2 DEF vars, Next, WebStep, Publish, PublishFails, AskCancel, SetCancel, Accept, Drop,
         Proceed, Begin, Enter, Stop, Continue, Skip, Record, ReadCounters, Count, Leave, Judge,
         Close, Acknowledge, Abort, Crash, Redeliver, history
    <2>2. job.cancel => job'.cancel
      BY <1>0, CancelStays
    <2>. QED
      BY <1>0, <2>1, <2>2 DEF Cancelling
  <1>. QED
    BY <1>1, <1>2
\* A product is written again only by a worker that found no result of it:
\* whoever wrote it before has died between writing and recording.
LEMMA StepWritten ==
    ASSUME IInv, TypeOK', [Next]_vars
    PROVE  Written'
  <1>. SUFFICES ASSUME NEW p \in Products
                PROVE  /\ imports'[p] <= 1 + crashes'
                       /\ ~Done(p)' /\ ~Unrecorded(p)' => imports'[p] <= crashes'
    BY DEF Written, Done, Unrecorded
  <1>0. /\ imports[p] \in Nat /\ crashes \in Nat
        /\ imports[p] <= 1 + crashes
        /\ ~Done(p) /\ ~Unrecorded(p) => imports[p] <= crashes
    <2>1. imports[p] \in Nat /\ crashes \in 0..MaxCrashes
      BY DEF IInv, TypeOK
    <2>2. crashes \in Nat
      BY <2>1, BoundType
    <2>3. /\ imports[p] <= 1 + crashes
          /\ ~Done(p) /\ ~Unrecorded(p) => imports[p] <= crashes
      BY DEF IInv, Written
    <2>. QED
      BY <2>1, <2>2, <2>3
  <1>t. TypeOK
    BY DEF IInv
  <1>d. Done(p) => Done(p)'
    BY DoneStays
  <1>1. CASE \E w \in Workers : Import(w)
    <2>1. PICK w \in Workers : Import(w)
      BY <1>1
    <2>2. ~Unrecorded(p)
      BY <1>t, <2>1, Alone DEF Unrecorded, Import, InLoop
    <2>3. crashes' = crashes /\ Done(p)' = Done(p)
      BY <2>1 DEF Import, faults, Done
    <2>4. CASE imports'[p] = imports[p] /\ ~Done(p)
      BY <1>0, <2>2, <2>3, <2>4
    <2>5. CASE imports'[p] = imports[p] /\ Done(p)
      BY <1>0, <2>3, <2>5
    <2>6. CASE imports'[p] # imports[p]
      <3>1. /\ ~Done(p) /\ Current(w) = p /\ imports'[p] = imports[p] + 1
            /\ Go(w, [pc |-> "recording", product |-> p, outcome |-> "imported"])
        BY <1>t, <2>1, <2>6 DEF Import, TypeOK, history
      <3>2. Unrecorded(p)'
        BY <1>t, <3>1 DEF Unrecorded, Go, TypeOK
      <3>3. imports[p] <= crashes
        BY <1>0, <2>2, <3>1
      <3>4. imports'[p] <= 1 + crashes'
        BY <1>0, <2>3, <3>1, <3>3
      <3>. QED
        BY <3>2, <3>4
    <2>. QED
      BY <2>4, <2>5, <2>6
  <1>2. CASE \E w \in Workers : Record(w)
    <2>1. PICK w \in Workers : Record(w)
      BY <1>2
    <2>2. imports' = imports /\ crashes' = crashes
      BY <2>1 DEF Record, history, faults
    <2>3. Unrecorded(p) => Done(p)'
      <3>1. ASSUME Unrecorded(p) PROVE Current(w) = p /\ worker[w].outcome = "imported"
        BY <1>t, <2>1, <3>1, Alone DEF Unrecorded, Record, InLoop, Current
      <3>. QED
        BY <1>t, <2>1, <3>1 DEF Record, Done, TypeOK
    <2>. QED
      BY <1>0, <1>d, <2>2, <2>3
  <1>3. CASE \E w \in Workers : Crash(w)
    <2>1. imports' = imports /\ crashes' = crashes + 1
      BY <1>3 DEF Crash, history
    <2>. QED
      BY <1>0, <2>1
  <1>4. CASE ~ \E w \in Workers : Import(w) \/ Record(w) \/ Crash(w)
    <2>1. imports' = imports /\ crashes' = crashes
      BY <1>4 DEF vars, Next, WebStep, Publish, PublishFails, AskCancel, SetCancel, Accept, Drop,
         Proceed, Begin, Enter, Stop, Continue, Skip, ReadCounters, Count, Leave, Judge, Close,
         Acknowledge, Abort, Redeliver, history, faults
    <2>2. \A v \in Workers : worker[v].pc = "recording" => worker'[v] = worker[v]
      <3>1. CASE UNCHANGED worker
        BY <3>1
      <3>2. CASE ~ UNCHANGED worker
        <4>1. PICK w \in Workers :
                  \/ Accept(w) \/ Begin(w) \/ Enter(w) \/ Stop(w) \/ Continue(w) \/ Skip(w)
                  \/ ReadCounters(w) \/ Count(w) \/ Leave(w) \/ Judge(w) \/ Close(w)
                  \/ Acknowledge(w) \/ Abort(w)
          BY <1>4, <3>2 DEF vars, Next, WebStep, Publish, PublishFails, AskCancel, SetCancel,
             Proceed, Drop, Redeliver
        <4>2. worker[w].pc # "recording"
          BY <4>1 DEF Accept, Begin, Enter, Stop, Continue, Skip, ReadCounters, Count, Leave,
             Judge, Close, Acknowledge, Abort, Idle
        <4>3. \A v \in Workers : v # w => worker'[v] = worker[v]
          BY <1>t, <4>1 DEF Accept, Begin, Enter, Stop, Continue, Skip, ReadCounters, Count, Leave,
             Judge, Close, Acknowledge, Abort, Go, TypeOK
        <4>. QED
          BY <4>2, <4>3
      <3>. QED
        BY <3>1, <3>2
    <2>3. Unrecorded(p) => Unrecorded(p)'
      BY <2>2 DEF Unrecorded
    <2>. QED
      BY <1>0, <1>d, <2>1, <2>3
  <1>. QED
    BY <1>1, <1>2, <1>3, <1>4

-----------------------------------------------------------------------------
(* The verdict.                                                            *)

\* Before the task is published nobody has taken it and nobody has ended it.
Unpublished ==
    published = "not yet" =>
        job.status \notin Terminal /\ ready = 0 /\ \A w \in Workers : worker[w] = Idle

LEMMA StepUnpublished ==
    ASSUME TypeOK, Unpublished, [Next]_vars
    PROVE  Unpublished'
  <1>1. CASE UNCHANGED vars
    BY <1>1 DEF vars, Unpublished
  <1>2. CASE Publish \/ PublishFails
    BY <1>2 DEF Publish, PublishFails, Unpublished
  <1>3. CASE AskCancel
    BY <1>3 DEF AskCancel, Unpublished
  <1>4. CASE SetCancel
    <2>1. job'.status \notin Terminal
      BY <1>4 DEF SetCancel, TypeOK, Terminal
    <2>. QED
      BY <1>4, <2>1 DEF SetCancel, Unpublished
  <1>5. ASSUME NEW w \in Workers, TaskStep(w)
        PROVE  Unpublished'
    <2>1. published' = published
      BY <1>5 DEF TaskStep, Accept, Drop, Proceed, Begin, Enter, Stop, Continue, Skip, Import,
         Record, ReadCounters, Count, Leave, Judge, Close, Acknowledge, Abort, Crash, Redeliver, web
    <2>2. worker[w] # Idle \/ ready # 0
      BY <1>5 DEF TaskStep, Accept, Drop, Proceed, Begin, Enter, Stop, Continue, Skip, Import,
         Record, ReadCounters, Count, Leave, Judge, Close, Acknowledge, Abort, Crash, Redeliver, Idle
    <2>3. published # "not yet"
      BY <2>2 DEF Unpublished
    <2>. QED
      BY <2>1, <2>3 DEF Unpublished
  <1>. QED
    BY <1>1, <1>2, <1>3, <1>4, <1>5 DEF Next, WebStep, TaskStep

\* Who comes after the verdict finds it and goes.
LEMMA VerdictStays ==
    ASSUME TypeOK, Unpublished, [Next]_vars, NEW verdict \in Terminal,
           job.status = verdict, Quiet
    PROVE  job'.status = verdict /\ Quiet'
  <1>1. CASE UNCHANGED vars
    BY <1>1 DEF vars, Quiet
  <1>2. CASE WebStep
    BY <1>2 DEF WebStep, Publish, PublishFails, AskCancel, SetCancel, Unpublished, Quiet
  <1>3. ASSUME NEW w \in Workers, TaskStep(w)
        PROVE  job'.status = verdict /\ Quiet'
    <2>1. worker[w] = Idle
      BY DEF Quiet
    <2>2. Drop(w)
      BY <1>3, <2>1 DEF TaskStep, Accept, Proceed, Begin, Enter, Stop, Continue, Skip, Import,
         Record, ReadCounters, Count, Leave, Judge, Close, Acknowledge, Abort, Crash, Redeliver, Idle
    <2>. QED
      BY <2>2 DEF Drop, Quiet, web
  <1>. QED
    BY <1>1, <1>2, <1>3 DEF Next, TaskStep

-----------------------------------------------------------------------------
(* The counters.                                                           *)

\* Of the results, imported ones not yet counted, and failed ones at most.
Agree(i, f) ==
    /\ Having("imported") = job.imported + i
    /\ Having("failed") <= job.failed + f

\* What the worker in the loop has recorded and not counted yet.
Counted(w) ==
    LET at == worker[w] IN
        /\ at.pc \in {"checking", "looking", "recording"} => Agree(0, 0)
        /\ at.pc \in {"reading", "counting"} =>
               IF at.outcome = "imported" THEN Agree(1, 0) ELSE Agree(0, 1)
        /\ at.pc = "counting" => at.imported = job.imported /\ at.failed = job.failed

Counting ==
    crashes = 0 => (lock = NoOne => Agree(0, 0)) /\ \A w \in Workers : Counted(w)

\* How many products have a result is a natural number.
LEMMA HavingType ==
    \A r : Having(r) \in Nat /\ IsFiniteSet({p \in Products : results[p] = r})
  <1>. SUFFICES ASSUME NEW r
                PROVE  Having(r) \in Nat /\ IsFiniteSet({p \in Products : results[p] = r})
    OBVIOUS
  <1>1. IsFiniteSet(Products)
    BY FS_Interval, BoundType DEF Products
  <1>2. IsFiniteSet({p \in Products : results[p] = r})
    BY <1>1, FS_Subset
  <1>. QED
    BY <1>2, FS_CardinalityType DEF Having

\* The result of a product that was not imported is recorded.
LEMMA RecordHaving ==
    ASSUME TypeOK, NEW p \in Products, ~Done(p), NEW r \in {"imported", "failed"},
           results' = [results EXCEPT ![p] = r]
    PROVE  /\ r = "imported" => /\ Having("imported")' = Having("imported") + 1
                                /\ Having("failed")' <= Having("failed")
           /\ r = "failed" => /\ Having("imported")' = Having("imported")
                              /\ Having("failed")' <= Having("failed") + 1
           /\ Having("failed")' \in Nat
  <1>. DEFINE I == {q \in Products : results[q] = "imported"}
              F == {q \in Products : results[q] = "failed"}
              I1 == {q \in Products : results'[q] = "imported"}
              F1 == {q \in Products : results'[q] = "failed"}
  <1>1. /\ p \notin I
        /\ results'[p] = r
        /\ \A q \in Products : q # p => results'[q] = results[q]
    BY DEF TypeOK, Done
  <1>2. r = "imported" => I1 = I \union {p} /\ F1 \subseteq F
    BY <1>1
  <1>3. r = "failed" => I1 = I /\ F1 \subseteq F \union {p}
    BY <1>1
  <1>4. IsFiniteSet(I) /\ IsFiniteSet(F)
    BY HavingType
  <1>5. /\ Having("imported") = Cardinality(I) /\ Having("failed") = Cardinality(F)
        /\ Having("imported")' = Cardinality(I1) /\ Having("failed")' = Cardinality(F1)
    BY DEF Having
  <1>. HIDE DEF I, F, I1, F1
  <1>6. /\ Cardinality(I \union {p}) = Cardinality(I) + 1
        /\ IsFiniteSet(F \union {p}) /\ Cardinality(F \union {p}) <= Cardinality(F) + 1
    <2>1. Cardinality(I \union {p}) = Cardinality(I) + 1
      BY <1>1, <1>4, FS_AddElement
    <2>2. /\ IsFiniteSet(F \union {p})
          /\ Cardinality(F \union {p})
                 = IF p \in F THEN Cardinality(F) ELSE Cardinality(F) + 1
      BY <1>4, FS_AddElement
    <2>3. Cardinality(F) \in Nat
      BY <1>4, FS_CardinalityType
    <2>. QED
      BY <2>1, <2>2, <2>3
  <1>7. r = "imported" => Cardinality(F1) <= Cardinality(F)
    BY <1>2, <1>4, FS_Subset
  <1>8. r = "failed" => Cardinality(F1) <= Cardinality(F \union {p})
    BY <1>3, <1>6, FS_Subset
  <1>9. r = "failed" => Cardinality(F1) <= Cardinality(F) + 1
    <2>. SUFFICES ASSUME r = "failed" PROVE Cardinality(F1) <= Cardinality(F) + 1
      OBVIOUS
    <2>1. IsFiniteSet(F1)
      BY <1>3, <1>6, FS_Subset
    <2>2. Cardinality(F1) \in Nat /\ Cardinality(F) \in Nat /\ Cardinality(F \union {p}) \in Nat
      BY <2>1, <1>4, <1>6, FS_CardinalityType
    <2>. QED
      BY <1>6, <1>8, <2>2
  <1>10. IsFiniteSet(F1) /\ Cardinality(F1) \in Nat
    BY <1>2, <1>3, <1>4, <1>6, FS_Subset, FS_CardinalityType
  <1>. QED
    BY <1>2, <1>3, <1>5, <1>6, <1>7, <1>9, <1>10

\* Results and counters change in two places only.
LEMMA CountersKept ==
    ASSUME TypeOK, [Next]_vars, ~ \E w \in Workers : Record(w) \/ Count(w)
    PROVE  /\ results' = results
           /\ job'.imported = job.imported /\ job'.failed = job.failed
    BY DEF Next, vars, WebStep, Publish, PublishFails, AskCancel, SetCancel, TypeOK, Accept,
       Drop, Proceed, Begin, Enter, Stop, Continue, Skip, Import, ReadCounters, Leave, Judge,
       Close, Acknowledge, Abort, Crash, Redeliver

\* A worker's own step, but for recording and counting.
LEMMA OwnCounted ==
    ASSUME IInv, NEW w \in Workers, TaskStep(w), ~Record(w), ~Count(w), crashes' = 0,
           Counting, crashes = 0, results' = results,
           job'.imported = job.imported, job'.failed = job.failed
    PROVE  Counted(w)' /\ (lock' = NoOne => Agree(0, 0))
  <1>. /\ TypeOK /\ Counted(w) /\ (lock = NoOne => Agree(0, 0))
       /\ \A place : Go(w, place) => worker'[w] = place
    BY DEF IInv, Counting, TypeOK, Go
  <1>0. \A i, f : Agree(i, f)' <=> Agree(i, f)
    BY DEF Agree, Having
  <1>1. CASE Accept(w) \/ Begin(w) \/ Judge(w) \/ Close(w) \/ Acknowledge(w)
    BY <1>1 DEF Accept, Begin, Judge, Close, Acknowledge, At, Idle, Counted
  <1>2. CASE Drop(w) \/ Redeliver(w)
    BY <1>0, <1>2 DEF Drop, Redeliver, Counted
  <1>3. CASE Enter(w)
    BY <1>0, <1>3 DEF Enter, On, Counted
  <1>4. CASE Stop(w) \/ Abort(w) \/ Leave(w)
    BY <1>4 DEF Stop, Abort, Leave, At, Counted
  <1>5. CASE Continue(w) \/ Skip(w) \/ Import(w)
    BY <1>0, <1>5 DEF Continue, Skip, Import, On, Counted
  <1>6. CASE ReadCounters(w)
    <2>1. /\ worker[w].pc = "reading" /\ lock' = lock
          /\ worker'[w] = [pc |-> "counting", product |-> Current(w),
                           outcome |-> worker[w].outcome, processed |-> job.processed,
                           imported |-> job.imported, failed |-> job.failed]
      BY <1>6 DEF ReadCounters
    <2>. QED
      BY <1>0, <2>1 DEF Counted
  <1>7. ~Crash(w)
    <2>1. Crash(w) => crashes' = crashes + 1
      BY DEF Crash
    <2>. QED
      BY <2>1
  <1>. QED
    BY <1>1, <1>2, <1>3, <1>4, <1>5, <1>6, <1>7 DEF TaskStep, Proceed

\* A worker that does not move knows what it knew.
LEMMA CountedStays ==
    ASSUME NEW v \in Workers, Counted(v), worker'[v] = worker[v],
           InLoop(v) => /\ results' = results
                        /\ job'.imported = job.imported /\ job'.failed = job.failed
    PROVE  Counted(v)'
    BY DEF Counted, Agree, Having, InLoop

LEMMA StepCounting ==
    ASSUME IInv, Counting, [Next]_vars
    PROVE  Counting'
  <1>. SUFFICES ASSUME crashes' = 0
                PROVE  (lock' = NoOne => Agree(0, 0)') /\ \A v \in Workers : Counted(v)'
    BY DEF Counting
  <1>0. TypeOK /\ crashes = 0 /\ (lock = NoOne => Agree(0, 0)) /\ \A v \in Workers : Counted(v)
    <2>0. crashes' = crashes \/ crashes' = crashes + 1
      BY DEF Next, vars, WebStep, Publish, PublishFails, AskCancel, SetCancel,
         Accept, Drop, Proceed, Begin, Enter, Stop, Continue, Skip, Import, Record,
         ReadCounters, Count, Leave, Judge, Close, Acknowledge, Abort, Crash, Redeliver, faults
    <2>1. crashes \in Nat
      <3>1. crashes \in 0..MaxCrashes
        BY DEF IInv, TypeOK
      <3>. QED
        BY <3>1, BoundType
    <2>2. crashes = 0
      BY <2>0, <2>1
    <2>. QED
      BY <2>2 DEF IInv, Counting
  <1>1. ASSUME NEW w \in Workers, Record(w)
        PROVE  (lock' = NoOne => Agree(0, 0)') /\ \A v \in Workers : Counted(v)'
    <2>. DEFINE p == Current(w)
    <2>1. /\ worker[w].pc = "recording" /\ p \in Products /\ ~Done(p)
          /\ worker[w].outcome \in {"imported", "failed"}
          /\ lock' = w /\ w # NoOne
      BY <1>0, <1>1, Fields, NoOneType DEF IInv, Looping, Record, Current, InLoop, TypeOK
    <2>2. /\ worker'[w] = [worker[w] EXCEPT !.pc = "reading"]
          /\ \A v \in Workers : v # w => worker'[v] = worker[v] /\ ~InLoop(v)
      BY <1>0, <1>1, <2>1, Alone DEF Record, Go, TypeOK, InLoop
    <2>3. worker'[w].pc = "reading" /\ worker'[w].outcome = worker[w].outcome
      <3>1. worker[w] \in [pc : {"recording", "reading"}, product : Products,
                           outcome : {"imported", "failed"}]
        BY <1>0, <2>1 DEF TypeOK, Place
      <3>. QED
        BY <2>2, <3>1
    <2>4. /\ worker[w].outcome = "imported" => Agree(1, 0)'
          /\ worker[w].outcome = "failed" => Agree(0, 1)'
      <3>1. Agree(0, 0) /\ job' = job /\ results' = [results EXCEPT ![p] = worker[w].outcome]
        BY <1>0, <1>1, <2>1 DEF Counted, Record
      <3>2. /\ worker[w].outcome = "imported" => /\ Having("imported")' = Having("imported") + 1
                                                 /\ Having("failed")' <= Having("failed")
            /\ worker[w].outcome = "failed" => /\ Having("imported")' = Having("imported")
                                               /\ Having("failed")' <= Having("failed") + 1
        BY <1>0, <2>1, <3>1, RecordHaving
      <3>3. /\ Having("imported") \in Nat /\ Having("failed") \in Nat
            /\ job.imported \in Nat /\ job.failed \in Nat
        BY <1>0, HavingType DEF TypeOK
      <3>4. Having("failed")' \in Nat
        BY <1>0, <2>1, <3>1, RecordHaving
      <3>. QED
        BY <3>1, <3>2, <3>3, <3>4 DEF Agree
    <2>5. Counted(w)'
      BY <2>1, <2>3, <2>4 DEF Counted
    <2>6. \A v \in Workers : v # w => Counted(v)'
      BY <1>0, <2>2, CountedStays
    <2>. QED
      BY <2>1, <2>5, <2>6
  <1>2. ASSUME NEW w \in Workers, Count(w)
        PROVE  (lock' = NoOne => Agree(0, 0)') /\ \A v \in Workers : Counted(v)'
    <2>1. /\ worker[w].pc = "counting" /\ results' = results
          /\ worker[w].outcome \in {"imported", "failed"}
          /\ worker[w].product \in Products
          /\ lock' = w /\ w # NoOne
      BY <1>0, <1>2, Fields, NoOneType DEF Count, InLoop, TypeOK
    <2>2. /\ worker'[w] = On("checking", worker[w].product + 1)
          /\ \A v \in Workers : v # w => worker'[v] = worker[v] /\ ~InLoop(v)
      BY <1>0, <1>2, <2>1, Alone DEF Count, Go, TypeOK, InLoop
    <2>3. Agree(0, 0)'
      <3>1. /\ worker[w].imported = job.imported /\ worker[w].failed = job.failed
            /\ IF worker[w].outcome = "imported" THEN Agree(1, 0) ELSE Agree(0, 1)
        BY <1>0, <2>1 DEF Counted
      <3>2. /\ job'.imported = IF worker[w].outcome = "imported" THEN job.imported + 1
                               ELSE job.imported
            /\ job'.failed = IF worker[w].outcome = "imported" THEN job.failed
                             ELSE job.failed + 1
        BY <1>0, <1>2, <3>1 DEF Count, TypeOK
      <3>3. job.imported \in Nat /\ job.failed \in Nat
        BY <1>0 DEF TypeOK
      <3>4. Having("imported")' = Having("imported") /\ Having("failed")' = Having("failed")
        BY <2>1 DEF Having
      <3>. QED
        BY <3>1, <3>2, <3>3, <3>4 DEF Agree
    <2>4. Counted(w)'
      BY <2>2, <2>3 DEF Counted, On
    <2>5. \A v \in Workers : v # w => Counted(v)'
      BY <1>0, <2>2, CountedStays
    <2>. QED
      BY <2>1, <2>4, <2>5
  <1>3. CASE ~ \E w \in Workers : Record(w) \/ Count(w)
    <2>1. /\ results' = results
          /\ job'.imported = job.imported /\ job'.failed = job.failed
      BY <1>0, <1>3, CountersKept
    <2>2. Agree(0, 0)' <=> Agree(0, 0)
      BY <2>1 DEF Agree, Having
    <2>3. CASE UNCHANGED vars \/ WebStep
      <3>1. worker' = worker /\ lock' = lock
        BY <2>3 DEF vars, WebStep, Publish, PublishFails, AskCancel, SetCancel
      <3>. QED
        BY <1>0, <2>1, <2>2, <3>1, CountedStays
    <2>4. ASSUME NEW w \in Workers, TaskStep(w)
          PROVE  (lock' = NoOne => Agree(0, 0)') /\ \A v \in Workers : Counted(v)'
      <3>1. Counted(w)' /\ (lock' = NoOne => Agree(0, 0))
        BY <1>0, <1>3, <2>1, <2>4, OwnCounted
      <3>2. \A v \in Workers : v # w => worker'[v] = worker[v]
        BY <1>0, <2>4 DEF TaskStep, Accept, Drop, Proceed, Begin, Enter, Stop, Continue, Skip,
           Import, Record, ReadCounters, Count, Leave, Judge, Close, Acknowledge, Abort, Crash,
           Redeliver, Go, TypeOK
      <3>3. \A v \in Workers : v # w => Counted(v)'
        BY <1>0, <2>1, <3>2, CountedStays
      <3>. QED
        BY <2>2, <3>1, <3>3
    <2>. QED
      BY <2>3, <2>4 DEF Next, TaskStep
  <1>. QED
    BY <1>1, <1>2, <1>3

-----------------------------------------------------------------------------
LEMMA InitInv == Init => IInv
  <1>. SUFFICES ASSUME Init PROVE IInv
    OBVIOUS
  <1>1. TypeOK
    BY InitTyped
  <1>2. Written
    <2>1. \A p \in Products : imports[p] = 0
      BY DEF Init
    <2>2. crashes = 0
      BY DEF Init
    <2>. QED
      BY <2>1, <2>2 DEF Written
  <1>3. Cancelling
    <2>1. late = 0
      BY DEF Init
    <2>. QED
      BY <2>1 DEF Cancelling
  <1>4. CompletedIsComplete
    BY DEF Init, CompletedIsComplete
  <1>5. \A w \in Workers : Looping(w)
    BY DEF Init, Looping, Idle
  <1>. QED
    BY <1>1, <1>2, <1>3, <1>4, <1>5 DEF IInv

\* The inductive invariant holds in every reachable state.
THEOREM ImportInvariance == Spec => []IInv
  <1>1. IInv /\ [Next]_vars => IInv'
    <2>. SUFFICES ASSUME IInv, [Next]_vars PROVE IInv'
      OBVIOUS
    <2>1. TypeOK'
      BY StepTyped DEF IInv
    <2>2. Written'
      BY <2>1, StepWritten
    <2>3. Cancelling'
      BY <2>1, StepCancelling
    <2>4. CompletedIsComplete'
      BY StepCompleted
    <2>5. \A w \in Workers : Looping(w)'
      BY <2>1, StepLooping
    <2>. QED
      BY <2>1, <2>2, <2>3, <2>4, <2>5 DEF IInv
  <1>. QED
    BY InitInv, <1>1, PTL DEF Spec

\* The manifest, the lock and every task keep their types, and who is in the
\* loop over the products holds the lock "import".
THEOREM ImportTyped == Spec => []TypeOK
  <1>1. IInv => TypeOK
    BY DEF IInv
  <1>. QED
    BY ImportInvariance, <1>1, PTL

\* A job resumes where it was: only a crash can make the task write a product
\* to the catalog once more (tasks.py skips what has a result).
THEOREM ResumesOnce == Spec => []ImportedOnce
  <1>1. IInv => ImportedOnce
    BY DEF IInv, Written, ImportedOnce
  <1>. QED
    BY ImportInvariance, <1>1, PTL

\* After the cancel flag is set at most the product in hand is written,
\* whatever is delivered or started again.
THEOREM StopsInTime == Spec => []StopsAfterCancel
  <1>1. IInv => StopsAfterCancel
    BY DEF IInv, Cancelling, StopsAfterCancel
  <1>. QED
    BY ImportInvariance, <1>1, PTL

\* The status "completed" means that every selected product was imported,
\* although the worker that says so decides on counters it reads after it
\* has given the lock back.
THEOREM CompletedMeansImported == Spec => []CompletedIsComplete
  <1>1. IInv => CompletedIsComplete
    BY DEF IInv
  <1>. QED
    BY ImportInvariance, <1>1, PTL

\* A verdict is final: no task that is delivered after it, and no cancel
\* request made after it, changes the manifest (both look at its status).
THEOREM VerdictIsFinal == Spec => EndedStays
  <1>. SUFFICES ASSUME NEW verdict \in Terminal
                PROVE  Spec => [](job.status = verdict /\ Quiet => [](job.status = verdict))
    BY DEF EndedStays
  <1>1. Init => Unpublished
    <2>. SUFFICES ASSUME Init PROVE Unpublished
      OBVIOUS
    <2>0. job = [status |-> "queued", cancel |-> FALSE, finished |-> FALSE,
                 processed |-> 0, imported |-> 0, failed |-> 0]
      BY DEF Init
    <2>1. job.status = "queued"
      BY <2>0
    <2>2. ready = 0 /\ \A w \in Workers : worker[w] = Idle
      BY DEF Init
    <2>. QED
      BY <2>1, <2>2 DEF Unpublished, Terminal
  <1>2. TypeOK /\ Unpublished /\ [Next]_vars => Unpublished'
    BY StepUnpublished
  <1>3. TypeOK /\ Unpublished /\ [Next]_vars /\ (job.status = verdict /\ Quiet)
            => (job.status = verdict /\ Quiet)'
    BY VerdictStays
  <1>. QED
    BY <1>1, <1>2, <1>3, ImportTyped, PTL DEF Spec

\* Without a crash an idle job counts its imports exactly and no failure is lost,
\* although each is read and written in two steps (tasks.py counts what
\* get_job returned).
THEOREM CountersAgree == Spec => []CountsAgree
  <1>1. Init => Counting
    <2>. SUFFICES ASSUME Init PROVE Counting
      OBVIOUS
    <2>0. job = [status |-> "queued", cancel |-> FALSE, finished |-> FALSE,
                 processed |-> 0, imported |-> 0, failed |-> 0]
      BY DEF Init
    <2>1. job.imported = 0 /\ job.failed = 0
      BY <2>0
    <2>2. \A r \in {"imported", "failed"} : {p \in Products : results[p] = r} = {}
      BY DEF Init
    <2>3. Having("imported") = 0 /\ Having("failed") = 0
      BY <2>2, FS_EmptySet DEF Having
    <2>4. \A w \in Workers : worker[w].pc = "idle"
      BY DEF Init, Idle
    <2>. QED
      BY <2>1, <2>3, <2>4 DEF Counting, Agree, Counted
  <1>2. IInv /\ Counting /\ [Next]_vars => Counting'
    BY StepCounting
  <1>3. IInv /\ Counting => CountsAgree
    <2>1. IInv => Having("failed") \in Nat /\ job.failed \in Nat /\ job.imported \in Nat
      BY HavingType DEF IInv, TypeOK
    <2>. QED
      BY <2>1 DEF Counting, Agree, CountsAgree
  <1>. QED
    BY <1>1, <1>2, <1>3, ImportInvariance, PTL DEF Spec

=============================================================================
