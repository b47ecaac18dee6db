----------------------------- MODULE ImportJob ------------------------------
(***************************************************************************)
(* One Digikala import job (domains/importing): its manifest is a file     *)
(* that the web process and the Celery task read and rewrite.  update_job  *)
(* locks the file for one read-modify-write; what is decided on an earlier *)
(* get_job is decided on a copy.  The lock "import" lets one task at a     *)
(* time into the loop over the products, on whatever worker it runs.       *)
(*                                                                         *)
(* Tasks are acknowledged late: a dead worker's task comes back, and a     *)
(* slow one's may be delivered a second time.                              *)
(***************************************************************************)
EXTENDS Integers, FiniteSets

CONSTANTS
    Workers,
    N,                  \* products selected; the task takes them as 1..N
    MaxCrashes,         \* bound: workers that die
    MaxRedeliveries     \* bound: second deliveries of a running task

ASSUME BoundType == N \in Nat \ {0} /\ MaxCrashes \in Nat /\ MaxRedeliveries \in Nat

VARIABLES
    job,            \* the manifest without its results
    results,        \* manifest["results"]
    selection,      \* "listed" if the listing has all of it, otherwise "unlisted"
    published,      \* whether apply_async returned: "not yet", "yes" or "failed"
    ready,          \* deliveries that wait for a worker
    worker,         \* worker[w]: where in import_digikala_products it is
    lock,           \* who holds the lock "import", or NoOne
    canceller,      \* a cancel request: "idle", or "granted" once it read the status
    imports,        \* history: how often each product was written to the catalog
    late,           \* history: products written after the cancel flag was set
    crashes, redeliveries

vars == <<job, results, selection, published, ready, worker, lock, canceller, imports,
          late, crashes, redeliveries>>

faults == <<crashes, redeliveries>>
web == <<selection, published, canceller>>
history == <<imports, late>>

Products == 1..N
Terminal == {"completed", "completed_with_errors", "failed", "cancelled", "queue_failed"}

NoOne == "no one"

ASSUME NoOneType == NoOne \notin Workers

Idle == [pc |-> "idle"]
At(pc) == [pc |-> pc]
On(pc, p) == [pc |-> pc, product |-> p]

\* The number of products whose result is r.
Having(r) == Cardinality({p \in Products : results[p] = r})

-----------------------------------------------------------------------------
Init ==
    /\ job = [status |-> "queued", cancel |-> FALSE, finished |-> FALSE,
              processed |-> 0, imported |-> 0, failed |-> 0]
    /\ results = [p \in Products |-> "none"]
    /\ selection \in {"listed", "unlisted"}
    /\ published = "not yet"
    /\ ready = 0
    /\ worker = [w \in Workers |-> Idle]
    /\ lock = NoOne
    /\ canceller = "idle"
    /\ imports = [p \in Products |-> 0] /\ late = 0
    /\ crashes = 0 /\ redeliveries = 0

-----------------------------------------------------------------------------
(* The web process.                                                        *)

\* The task of a new job is published.
Publish ==
    /\ published = "not yet"
    /\ published' = "yes"
    /\ ready' = 1
    /\ UNCHANGED <<job, results, selection, worker, lock, canceller, history, faults>>

\* The broker is away.  The view that retries failures leaves the job queued.
PublishFails ==
    /\ published = "not yet"
    /\ published' = "failed"
    /\ job' \in {job, [job EXCEPT !.status = "queue_failed"]}
    /\ UNCHANGED <<results, selection, canceller, ready, worker, lock, history, faults>>

\* request_cancel reads the status ...
AskCancel ==
    /\ canceller = "idle"
    /\ job.status \notin Terminal
    /\ canceller' = "granted"
    /\ UNCHANGED <<job, results, selection, published, ready, worker, lock, history, faults>>

\* ... and writes what it decided then.
SetCancel ==
    /\ canceller = "granted"
    /\ canceller' = "idle"
    /\ job' = [job EXCEPT !.cancel = TRUE, !.status = "cancel_requested"]
    /\ UNCHANGED <<results, selection, published, ready, worker, lock, history, faults>>

-----------------------------------------------------------------------------
(* The task import_digikala_products on worker w.                          *)

Go(w, place) == worker' = [worker EXCEPT ![w] = place]

\* Mutant of Accept: a job that has ended is run again.
AcceptAny(w) ==
    /\ worker[w] = Idle /\ ready > 0
    /\ selection = "listed"
    /\ ready' = ready - 1
    /\ Go(w, At("starting"))
    /\ UNCHANGED <<job, results, web, lock, history, faults>>

\* The task finds the job unfinished and its products in the listing.
Accept(w) ==
    /\ worker[w] = Idle /\ ready > 0
    /\ job.status \notin Terminal /\ selection = "listed"
    /\ ready' = ready - 1
    /\ Go(w, At("starting"))
    /\ UNCHANGED <<job, results, web, lock, history, faults>>

\* The job has ended, or selected_product_ids refuses the selection outside
\* the try: the task ends and the manifest stays as it is.
Drop(w) ==
    /\ worker[w] = Idle /\ ready > 0
    /\ job.status \in Terminal \/ selection # "listed"
    /\ ready' = ready - 1
    /\ UNCHANGED <<job, results, web, worker, lock, history, faults>>

\* Whatever the status is by now, it becomes "running".
Begin(w) ==
    /\ worker[w].pc = "starting"
    /\ job' = [job EXCEPT !.status = "running"]
    /\ Go(w, At("waiting"))
    /\ UNCHANGED <<results, web, ready, lock, history, faults>>

\* Mutant of Enter: two tasks may be in the loop.
EnterUnlocked(w) ==
    /\ worker[w].pc = "waiting"
    /\ lock' = w
    /\ Go(w, On("checking", 1))
    /\ UNCHANGED <<job, results, web, ready, history, faults>>

Enter(w) ==
    /\ worker[w].pc = "waiting"
    /\ lock = NoOne
    /\ lock' = w
    /\ Go(w, On("checking", 1))
    /\ UNCHANGED <<job, results, web, ready, history, faults>>

Current(w) == worker[w].product

\* _finish_cancelled, at the head of the loop.
Stop(w) ==
    /\ worker[w].pc = "checking" /\ Current(w) \in Products
    /\ job.cancel
    /\ job' = [job EXCEPT !.status = "cancelled", !.finished = TRUE]
    /\ lock' = NoOne
    /\ Go(w, At("ended"))
    /\ UNCHANGED <<results, web, ready, history, faults>>

\* Mutant of Continue: the flag is not looked at.
ContinueAnyway(w) ==
    /\ worker[w].pc = "checking" /\ Current(w) \in Products
    /\ Go(w, On("looking", Current(w)))
    /\ UNCHANGED <<job, results, web, ready, lock, history, faults>>

Continue(w) ==
    /\ worker[w].pc = "checking" /\ Current(w) \in Products
    /\ ~job.cancel
    /\ Go(w, On("looking", Current(w)))
    /\ UNCHANGED <<job, results, web, ready, lock, history, faults>>

\* Mutant of Done: nothing is ever skipped.
NeverDone(p) == FALSE

\* An earlier run has imported the product.
Done(p) == results[p] = "imported"

Skip(w) ==
    /\ worker[w].pc = "looking"
    /\ Done(Current(w))
    /\ Go(w, On("checking", Current(w) + 1))
    /\ UNCHANGED <<job, results, web, ready, lock, history, faults>>

\* Fetch and write the product in one database transaction, or fail.
Import(w) ==
    /\ worker[w].pc = "looking"
    /\ ~Done(Current(w))
    /\ \/ /\ Go(w, [pc |-> "recording", product |-> Current(w), outcome |-> "imported"])
          /\ imports' = [imports EXCEPT ![Current(w)] = @ + 1]
          /\ late' = IF job.cancel THEN late + 1 ELSE late
       \/ /\ Go(w, [pc |-> "recording", product |-> Current(w), outcome |-> "failed"])
          /\ UNCHANGED history
    /\ UNCHANGED <<job, results, web, ready, lock, faults>>

\* update_result.
Record(w) ==
    /\ worker[w].pc = "recording"
    /\ results' = [results EXCEPT ![Current(w)] = worker[w].outcome]
    /\ Go(w, [worker[w] EXCEPT !.pc = "reading"])
    /\ UNCHANGED <<job, web, ready, lock, history, faults>>

\* get_job reads the counters ...
ReadCounters(w) ==
    /\ worker[w].pc = "reading"
    /\ Go(w, [pc |-> "counting", product |-> Current(w), outcome |-> worker[w].outcome,
              processed |-> job.processed, imported |-> job.imported, failed |-> job.failed])
    /\ UNCHANGED <<job, results, web, ready, lock, history, faults>>

\* Mutant of Count: failures are not counted.
CountSuccess(w) ==
    /\ worker[w].pc = "counting"
    /\ LET seen == worker[w] IN
        /\ job' = IF seen.outcome = "imported"
                  THEN [job EXCEPT !.processed = seen.processed + 1, !.imported = seen.imported + 1]
                  ELSE [job EXCEPT !.processed = seen.processed + 1]
        /\ Go(w, On("checking", seen.product + 1))
    /\ UNCHANGED <<results, web, ready, lock, history, faults>>

\* ... and update_job writes them one higher.
Count(w) ==
    /\ worker[w].pc = "counting"
    /\ LET seen == worker[w] IN
        /\ job' = IF seen.outcome = "imported"
                  THEN [job EXCEPT !.processed = seen.processed + 1, !.imported = seen.imported + 1]
                  ELSE [job EXCEPT !.processed = seen.processed + 1, !.failed = seen.failed + 1]
        /\ Go(w, On("checking", seen.product + 1))
    /\ UNCHANGED <<results, web, ready, lock, history, faults>>

\* The runtime directory fails the loop: the handler looks at the flag.
Abort(w) ==
    /\ worker[w].pc = "checking" /\ Current(w) \in Products
    /\ lock' = NoOne
    /\ Go(w, [pc |-> "closing", verdict |-> IF job.cancel THEN "cancelled" ELSE "failed"])
    /\ UNCHANGED <<job, results, web, ready, history, faults>>

\* The loop is over; the lock is given back first.
Leave(w) ==
    /\ worker[w].pc = "checking" /\ Current(w) = N + 1
    /\ lock' = NoOne
    /\ Go(w, At("judging"))
    /\ UNCHANGED <<job, results, web, ready, history, faults>>

Judge(w) ==
    /\ worker[w].pc = "judging"
    /\ Go(w, [pc |-> "closing", verdict |->
                IF job.failed > 0 THEN "completed_with_errors" ELSE "completed"])
    /\ UNCHANGED <<job, results, web, ready, lock, history, faults>>

Close(w) ==
    /\ worker[w].pc = "closing"
    /\ job' = [job EXCEPT !.status = worker[w].verdict, !.finished = TRUE]
    /\ Go(w, At("ended"))
    /\ UNCHANGED <<results, web, ready, lock, history, faults>>

Acknowledge(w) ==
    /\ worker[w].pc = "ended"
    /\ Go(w, Idle)
    /\ UNCHANGED <<job, results, web, ready, lock, history, faults>>

-----------------------------------------------------------------------------
(* Failures.                                                               *)

\* Mutant of Crash: the task was acknowledged when it was taken.
CrashAcknowledged(w) ==
    /\ worker[w] # Idle
    /\ crashes < MaxCrashes
    /\ crashes' = crashes + 1
    /\ lock' = IF lock = w THEN NoOne ELSE lock
    /\ Go(w, Idle)
    /\ UNCHANGED <<job, results, web, ready, history, redeliveries>>

\* The worker dies, the system drops its lock, the broker takes the task back.
Crash(w) ==
    /\ worker[w] # Idle
    /\ crashes < MaxCrashes
    /\ crashes' = crashes + 1
    /\ ready' = ready + 1
    /\ lock' = IF lock = w THEN NoOne ELSE lock
    /\ Go(w, Idle)
    /\ UNCHANGED <<job, results, web, history, redeliveries>>

\* The broker gives up waiting for an acknowledgement.
Redeliver(w) ==
    /\ worker[w] # Idle
    /\ redeliveries < MaxRedeliveries
    /\ redeliveries' = redeliveries + 1
    /\ ready' = ready + 1
    /\ UNCHANGED <<job, results, web, worker, lock, history, crashes>>

-----------------------------------------------------------------------------
WebStep == Publish \/ PublishFails \/ AskCancel \/ SetCancel

Proceed(w) ==
    \/ Begin(w) \/ Enter(w) \/ Stop(w) \/ Continue(w) \/ Skip(w) \/ Import(w) \/ Record(w)
    \/ ReadCounters(w) \/ Count(w) \/ Leave(w) \/ Judge(w) \/ Close(w) \/ Acknowledge(w)

Next ==
    \/ WebStep
    \/ \E w \in Workers : Accept(w) \/ Drop(w) \/ Proceed(w) \/ Abort(w) \/ Crash(w) \/ Redeliver(w)

Spec == Init /\ [][Next]_vars

\* Workers take tasks and go on with them, and a cancel request that read the
\* status writes it.  Nobody has to publish or to cancel.
Fairness ==
    /\ \A w \in Workers : WF_vars(Proceed(w))
    /\ WF_vars(\E w \in Workers : Accept(w) \/ Drop(w))
    /\ WF_vars(SetCancel)

FairSpec == Spec /\ Fairness

-----------------------------------------------------------------------------
Place ==
    [pc : {"idle", "starting", "waiting", "judging", "ended"}]
    \union [pc : {"checking"}, product : 1..(N + 1)]
    \union [pc : {"looking"}, product : Products]
    \union [pc : {"recording", "reading"}, product : Products, outcome : {"imported", "failed"}]
    \union [pc : {"counting"}, product : Products, outcome : {"imported", "failed"},
             processed : Nat, imported : Nat, failed : Nat]
    \union [pc : {"closing"}, verdict : Terminal]

InLoop(w) == worker[w].pc \in {"checking", "looking", "recording", "reading", "counting"}

\* The types, and who is in the loop holds the lock.
TypeOK ==
    /\ job \in [status : Terminal \union {"queued", "running", "cancel_requested"},
               cancel : BOOLEAN, finished : BOOLEAN,
               processed : Nat, imported : Nat, failed : Nat]
    /\ results \in [Products -> {"none", "imported", "failed"}]
    /\ selection \in {"listed", "unlisted"} /\ published \in {"not yet", "yes", "failed"}
    /\ ready \in Nat
    /\ worker \in [Workers -> Place]
    /\ \A w \in Workers : InLoop(w) => lock = w
    /\ lock \in Workers \union {NoOne}
    /\ canceller \in {"idle", "granted"}
    /\ imports \in [Products -> Nat] /\ late \in Nat
    /\ crashes \in 0..MaxCrashes /\ redeliveries \in 0..MaxRedeliveries

\* "A redelivered task can resume": a product is written to the catalog once,
\* and once more at most for each worker that died, however often the task is
\* delivered.
ImportedOnce == \A p \in Products : imports[p] <= 1 + crashes

\* A cancelled job stops between products: at most the product in hand is
\* still imported, even if a new run begins afterwards.
StopsAfterCancel == late <= 1

\* A job that says "completed" has imported every product, whatever crashed
\* and whatever a second delivery did meanwhile.
CompletedIsComplete ==
    job.status = "completed" => \A p \in Products : Done(p)

\* Without a crash no import is counted twice or lost and no failure is lost,
\* although every counter is read and written in two steps.
CountsAgree ==
    lock = NoOne /\ crashes = 0 =>
        job.imported = Having("imported") /\ job.failed >= Having("failed")

\* Nobody is past a decision on the job's status.
Quiet == canceller = "idle" /\ \A w \in Workers : worker[w] = Idle

\* The verdict on a job is final: once it has ended and whoever looked at its
\* status before is done, no delivery that comes later changes it.
EndedStays ==
    \A verdict \in Terminal :
        [](job.status = verdict /\ Quiet => [](job.status = verdict))

\* A published job of a selection the listing has ends, cancelled or not,
\* although workers die.
JobEnds == published = "yes" /\ selection = "listed" ~> job.finished

=============================================================================
