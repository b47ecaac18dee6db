--------------------------- MODULE SmsQueueProofs ---------------------------
(***************************************************************************)
(* What SmsQueue guarantees for any number of messages, workers, copies    *)
(* and crashes: without a takeover a text goes out at most once, and with  *)
(* the text it was written with.                                           *)
(*                                                                         *)
(* The argument: the claim of process is taken from a row nobody claimed   *)
(* once only, since no statement clears started_at again.  The worker that *)
(* took it is alone on the message as long as the claim is not taken over, *)
(* whatever the broker redelivers, because every other copy finds the      *)
(* claim, or a settled row.                                                *)
(***************************************************************************)
EXTENDS SmsQueue, TLAPS

\* A working task is the one delivery its worker holds.
Held ==
    \A w \in Workers : worker[w].pc \in Busy =>
        /\ copy[worker[w].by].state = "held"
        /\ copy[worker[w].by].msg = worker[w].msg

Apart ==
    \A v, w \in Workers :
        v # w /\ worker[v].pc \in Busy /\ worker[w].pc \in Busy => worker[v].by # worker[w].by

\* A task exists only after the row was committed and the task published.
Unpublished ==
    \A m \in Messages :
        /\ stage[m] \in {"none", "committed"} =>
               \A c \in Copies : copy[c].state # "none" => copy[c].msg # m
        /\ stage[m] = "none" => text[m] = "plain" /\ m \notin expired

\* A committed row has a status, and is settled before the web process erases
\* its text.
Begun ==
    \A m \in Messages :
        /\ stage[m] # "none" => status[m] # "none"
        /\ stage[m] \in {"blanking", "unqueued"} => status[m] \in Settled

\* What holds of a message whose claim was never taken over.
FirstClaim(m) ==
    /\ \A v, w \in Workers : Doing(v, m) /\ Doing(w, m) => v = w
    /\ age[m] = Unclaimed =>
           /\ sends[m] = 0
           /\ \A w \in Workers : ~Doing(w, m)
           /\ status[m] \in {"none", "pending"} => text[m] = "plain"
    /\ \A w \in Workers : Doing(w, m) =>
           /\ worker[w].pc \in {"claimed", "lapsed", "sending"} => sends[m] = 0
           /\ worker[w].pc = "claimed" =>
                  text[m] = "plain" \/ m \in expired \/ stage[m] = "unqueued"
           /\ worker[w].pc = "sending" => worker[w].text = "plain" \/ stage[m] = "unqueued"
    /\ sends[m] <= 1

Once == \A m \in Messages : m \notin takeovers => FirstClaim(m)

IInv == TypeOK /\ Held /\ Apart /\ Unpublished /\ Begun /\ Once

-----------------------------------------------------------------------------
(* Workers.                                                                *)

\* A busy worker has a job, on a message, with a copy it holds.
LEMMA BusyJob ==
    ASSUME TypeOK, NEW w \in Workers, worker[w].pc \in Busy
    PROVE  /\ worker[w] \in Job
           /\ Msg(w) \in Messages
           /\ worker[w].by \in Copies
    BY DEF TypeOK, Job, Busy, Idle, Msg

\* A step of a busy worker changes nothing but where it is.
LEMMA Stepped ==
    ASSUME TypeOK, NEW w \in Workers, worker[w].pc \in Busy, NEW pc \in Busy, Step(w, pc)
    PROVE  /\ worker' \in [Workers -> {Idle} \union Job]
           /\ worker'[w].pc = pc
           /\ worker'[w].by = worker[w].by
           /\ worker'[w].msg = worker[w].msg
           /\ worker'[w].text = worker[w].text
           /\ \A v \in Workers : v # w => worker'[v] = worker[v]
  <1>1. worker[w] \in Job
    BY BusyJob
  <1>2. worker' = [worker EXCEPT ![w] = [worker[w] EXCEPT !.pc = pc]]
    BY DEF Step
  <1>3. /\ [worker[w] EXCEPT !.pc = pc] \in Job
        /\ [worker[w] EXCEPT !.pc = pc].pc = pc
        /\ [worker[w] EXCEPT !.pc = pc].by = worker[w].by
        /\ [worker[w] EXCEPT !.pc = pc].msg = worker[w].msg
        /\ [worker[w] EXCEPT !.pc = pc].text = worker[w].text
    BY <1>1 DEF Job
  <1>. QED
    BY <1>2, <1>3 DEF TypeOK

\* A worker that finishes lets its copy go.
LEMMA LetGo ==
    ASSUME TypeOK, NEW w \in Workers, worker[w].pc \in Busy,
           worker' = [worker EXCEPT ![w] = Idle],
           copy' = [copy EXCEPT ![worker[w].by] = NoCopy]
    PROVE  /\ worker' \in [Workers -> {Idle} \union Job]
           /\ copy' \in [Copies -> {NoCopy} \union Delivery]
           /\ worker'[w] = Idle
           /\ copy'[worker[w].by] = NoCopy
           /\ \A v \in Workers : v # w => worker'[v] = worker[v]
           /\ \A c \in Copies : c # worker[w].by => copy'[c] = copy[c]
    BY BusyJob DEF TypeOK

\* Giving one copy another delivery.
LEMMA Put ==
    ASSUME TypeOK, NEW c \in Copies, NEW d \in {NoCopy} \union Delivery,
           copy' = [copy EXCEPT ![c] = d]
    PROVE  /\ copy' \in [Copies -> {NoCopy} \union Delivery]
           /\ copy'[c] = d
           /\ \A b \in Copies : b # c => copy'[b] = copy[b]
    BY DEF TypeOK

-----------------------------------------------------------------------------
(* The initial states.                                                     *)

LEMMA InitInv == Init => IInv
    BY LimitType, SensitiveType
    DEF Init, IInv, TypeOK, Held, Apart, Unpublished, Begun, Once, FirstClaim, Doing, Busy, Idle,
        NoCopy, Unclaimed

-----------------------------------------------------------------------------
(* Every step keeps the types.  The steps of a worker are told by the field *)
(* pc; a claim takes a ready copy, a crash or a redelivery reads a held one. *)

LEMMA WebTyped ==
    ASSUME TypeOK, NEW m \in Messages, MessageStep(m)
    PROVE  TypeOK'
  <1>0. Task(m, "ready", 0) \in Delivery
    BY LimitType DEF Task, Delivery
  <1>1. CASE Send(m)
    BY <1>1 DEF TypeOK, Send, clockVars, historyVars
  <1>2. CASE PublishFails(m)
    <2>1. copy' \in [Copies -> {NoCopy} \union Delivery]
      BY <1>0, <1>2, Put DEF PublishFails, TypeOK
    <2>. QED
      BY <1>2, <2>1 DEF TypeOK, PublishFails, rowVars, clockVars, historyVars
  <1>3. CASE FailUnqueued(m) \/ BlankUnqueued(m)
    BY <1>3 DEF TypeOK, FailUnqueued, BlankUnqueued, clockVars, historyVars, Settled
  <1>4. CASE CleanUp(m)
    BY <1>4 DEF TypeOK, CleanUp, historyVars, Settled
  <1>5. CASE Expire(m)
    BY <1>5 DEF TypeOK, Expire, rowVars, historyVars
  <1>6. CASE WebCrash(m)
    BY <1>6, LimitType DEF TypeOK, WebCrash, rowVars
  <1>7. ASSUME NEW c \in Copies, Publish(m, c)
        PROVE  TypeOK'
    <2>1. copy' \in [Copies -> {NoCopy} \union Delivery]
      BY <1>0, <1>7, Put DEF Publish
    <2>. QED
      BY <1>7, <2>1 DEF TypeOK, Publish, rowVars, historyVars
  <1>. QED
    BY <1>1, <1>2, <1>3, <1>4, <1>5, <1>6, <1>7 DEF MessageStep

\* A delivery of a check leaves itself, its retry or nothing.
LEMMA CheckTyped ==
    ASSUME TypeOK, NEW k \in Check, Poll(k)
    PROVE  TypeOK'
  <1>1. k.msg \in Messages
    BY DEF Check
  <1>2. status' \in [Messages -> {"none", "pending"} \union Settled]
    BY <1>1 DEF TypeOK, Poll, Verdict, Settled
  <1>3. checks' \subseteq Check /\ rechecked' \subseteq Messages
    BY <1>1 DEF TypeOK, Poll, Acknowledge, Again
  <1>. QED
    BY <1>2, <1>3 DEF TypeOK, Poll, clockVars

\* A copy that waits for a worker is a delivery.
LEMMA ReadyCopy ==
    ASSUME TypeOK, NEW c \in Copies, copy[c].state \in {"ready", "waiting", "held"}
    PROVE  copy[c] \in Delivery
    BY DEF TypeOK, NoCopy, Delivery

LEMMA DeliverTyped ==
    ASSUME TypeOK, NEW w \in Workers, NEW c \in Copies,
           Claim(w, c) \/ Retry(w, c) \/ Skip(w, c)
    PROVE  TypeOK'
  <1>. copy[c] \in Delivery
    BY ReadyCopy DEF Claim, Retry, Skip
  <1>1. CASE Claim(w, c)
    <2>. DEFINE held == [copy[c] EXCEPT !.state = "held"]
                job == [pc |-> "claimed", by |-> c, msg |-> copy[c].msg, text |-> "plain"]
    <2>1. held \in Delivery
      BY DEF Delivery
    <2>2. copy' \in [Copies -> {NoCopy} \union Delivery]
      BY <1>1, <2>1, Put DEF Claim
    <2>3. job \in Job
      BY DEF Job, Busy, Delivery
    <2>4. worker' \in [Workers -> {Idle} \union Job]
      BY <1>1, <2>3 DEF Claim, TypeOK
    <2>5. age' \in [Messages -> Unclaimed..(StaleAfter + 1)]
      BY <1>1, LimitType DEF Claim, TypeOK, Delivery, Unclaimed
    <2>6. takeovers' \subseteq Messages
      BY <1>1 DEF Claim, TypeOK, Delivery
    <2>. QED
      BY <1>1, <2>2, <2>4, <2>5, <2>6 DEF TypeOK, Claim, clockVars
  <1>2. CASE Retry(w, c)
    <2>. DEFINE again == IF copy[c].tries < MaxRetries
                         THEN Task(copy[c].msg, "waiting", copy[c].tries + 1) ELSE NoCopy
    <2>1. again \in {NoCopy} \union Delivery
      BY LimitType DEF Task, Delivery
    <2>2. copy' \in [Copies -> {NoCopy} \union Delivery]
      BY <1>2, <2>1, Put DEF Retry
    <2>. QED
      BY <1>2, <2>2 DEF TypeOK, Retry, rowVars, clockVars, historyVars
  <1>3. CASE Skip(w, c)
    BY <1>3, Put DEF TypeOK, Skip, rowVars, clockVars, historyVars
  <1>. QED
    BY <1>1, <1>2, <1>3

LEMMA ProceedTyped ==
    ASSUME TypeOK, NEW w \in Workers, Proceed(w)
    PROVE  TypeOK'
  <1>0. worker[w].pc \in Busy
    BY DEF Proceed, Busy, Read, Lapse, CallProvider, RecordSent, RecordFailed, Erase,
           QueueCheck, Finish
  <1>. Msg(w) \in Messages /\ worker[w] \in Job
    BY <1>0, BusyJob
  <1>1. CASE Read(w)
    <2>. DEFINE next == IF Msg(w) \in expired THEN "lapsed" ELSE "sending"
                job == [[worker[w] EXCEPT !.pc = next] EXCEPT !.text = text[Msg(w)]]
    <2>1. job \in Job
      BY DEF Job, Busy, TypeOK
    <2>2. worker' = [worker EXCEPT ![w] = job]
      BY <1>1 DEF Read
    <2>. QED
      BY <1>1, <2>1, <2>2 DEF TypeOK, Read, rowVars, clockVars, historyVars
  <1>2. CASE Lapse(w)
    <2>1. /\ worker' \in [Workers -> {Idle} \union Job]
          /\ copy' \in [Copies -> {NoCopy} \union Delivery]
      BY <1>0, <1>2, LetGo DEF Lapse
    <2>. QED
      BY <1>2, <2>1 DEF TypeOK, Lapse, clockVars, historyVars, Settled, Job
  <1>3. CASE CallProvider(w)
    <2>1. worker' \in [Workers -> {Idle} \union Job]
      BY <1>0, <1>3, Stepped DEF CallProvider, Busy
    <2>. QED
      BY <1>3, <2>1 DEF TypeOK, CallProvider, rowVars, clockVars
  <1>4. CASE RecordSent(w)
    <2>1. worker' \in [Workers -> {Idle} \union Job]
      BY <1>0, <1>4, Stepped DEF RecordSent, Busy
    <2>. QED
      BY <1>4, <2>1 DEF TypeOK, RecordSent, clockVars, historyVars, Settled
  <1>5. CASE RecordFailed(w)
    <2>1. worker' \in [Workers -> {Idle} \union Job]
      BY <1>0, <1>5, Stepped DEF RecordFailed, Busy
    <2>. QED
      BY <1>5, <2>1 DEF TypeOK, RecordFailed, clockVars, historyVars, Settled
  <1>6. CASE Erase(w)
    <2>1. worker' \in [Workers -> {Idle} \union Job]
      BY <1>0, <1>6, Stepped DEF Erase, Busy
    <2>. QED
      BY <1>6, <2>1 DEF TypeOK, Erase, clockVars, historyVars
  <1>7. CASE QueueCheck(w)
    <2>1. worker' \in [Workers -> {Idle} \union Job]
      BY <1>0, <1>7, Stepped DEF QueueCheck, Busy
    <2>2. checks' \subseteq Check
      BY <1>7, LimitType DEF TypeOK, QueueCheck, Check
    <2>. QED
      BY <1>7, <2>1, <2>2 DEF TypeOK, QueueCheck, rowVars, clockVars, historyVars
  <1>8. CASE Finish(w)
    <2>1. /\ worker' \in [Workers -> {Idle} \union Job]
          /\ copy' \in [Copies -> {NoCopy} \union Delivery]
      BY <1>0, <1>8, LetGo DEF Finish
    <2>. QED
      BY <1>8, <2>1 DEF TypeOK, Finish, rowVars, clockVars, historyVars
  <1>. QED
    BY <1>1, <1>2, <1>3, <1>4, <1>5, <1>6, <1>7, <1>8 DEF Proceed

LEMMA FailureTyped ==
    ASSUME TypeOK, Held, NEW w \in Workers,
           Crash(w) \/ \E c \in Copies : Redeliver(w, c)
    PROVE  TypeOK'
  <1>. DEFINE b == worker[w].by
  <1>1. /\ worker[w].pc \in Busy
        /\ b \in Copies
        /\ Msg(w) \in Messages
        /\ copy[b] \in Delivery
    BY BusyJob, ReadyCopy DEF Crash, Redeliver, Held
  <1>2. CASE Crash(w)
    <2>1. [copy[b] EXCEPT !.state = "ready"] \in Delivery
      BY <1>1 DEF Delivery
    <2>2. copy' \in [Copies -> {NoCopy} \union Delivery]
      BY <1>1, <1>2, <2>1, Put DEF Crash
    <2>. QED
      BY <1>1, <1>2, <2>2, LimitType DEF TypeOK, Crash, rowVars
  <1>3. ASSUME NEW c \in Copies, Redeliver(w, c)
        PROVE  TypeOK'
    <2>1. Task(Msg(w), "ready", copy[b].tries) \in Delivery
      BY <1>1 DEF Task, Delivery
    <2>2. copy' \in [Copies -> {NoCopy} \union Delivery]
      BY <1>3, <2>1, Put DEF Redeliver
    <2>. QED
      BY <1>3, <2>2 DEF TypeOK, Redeliver, rowVars, clockVars, historyVars
  <1>. QED
    BY <1>2, <1>3

LEMMA TickTyped ==
    ASSUME TypeOK, Tick
    PROVE  TypeOK'
  <1>1. age' \in [Messages -> Unclaimed..(StaleAfter + 1)]
    BY LimitType DEF TypeOK, Tick, Unclaimed
  <1>2. ASSUME NEW c \in Copies
        PROVE  copy'[c] \in {NoCopy} \union Delivery
    <2>1. CASE copy[c].state = "waiting"
      <3>1. copy[c] \in Delivery
        BY <2>1, ReadyCopy
      <3>2. [copy[c] EXCEPT !.state = "ready"] \in Delivery
        BY <3>1 DEF Delivery
      <3>. QED
        BY <2>1, <3>2 DEF Tick
    <2>2. CASE copy[c].state # "waiting"
      BY <2>2 DEF Tick, TypeOK
    <2>. QED
      BY <2>1, <2>2
  <1>3. copy' \in [Copies -> {NoCopy} \union Delivery]
    BY <1>2 DEF Tick
  <1>. QED
    BY <1>1, <1>3 DEF TypeOK, Tick, clockVars, historyVars

LEMMA StepTyped ==
    ASSUME TypeOK, Held, [Next]_vars
    PROVE  TypeOK'
  <1>1. CASE UNCHANGED vars
    BY <1>1 DEF TypeOK, vars, rowVars, clockVars, historyVars
  <1>2. CASE Next
    BY <1>2, WebTyped, CheckTyped, DeliverTyped, ProceedTyped, FailureTyped, TickTyped
    DEF Next, Deliver
  <1>. QED
    BY <1>1, <1>2

-----------------------------------------------------------------------------
(* Every step keeps copies and workers in step with each other.            *)

Copying == Held /\ Apart /\ Unpublished

\* A new task goes into a free copy, which no worker holds.
LEMMA Placed ==
    ASSUME TypeOK, Copying, NEW m \in Messages, NEW c \in Copies, copy[c] = NoCopy,
           copy' = [copy EXCEPT ![c] = Task(m, "ready", 0)],
           stage' = [stage EXCEPT ![m] = "published"] \/ stage' = [stage EXCEPT ![m] = "refused"],
           stage[m] = "committed", UNCHANGED <<worker, text, expired>>
    PROVE  Copying'
  <1>1. /\ copy'[c] = Task(m, "ready", 0)
        /\ \A b \in Copies : b # c => copy'[b] = copy[b]
    BY DEF TypeOK
  <1>2. \A w \in Workers : worker[w].pc \in Busy => worker[w].by # c
    BY DEF Copying, Held, NoCopy
  <1>3. (Held /\ Apart)'
    BY <1>1, <1>2, BusyJob DEF Copying, Held, Apart
  <1>4. Unpublished'
    BY <1>1 DEF TypeOK, Copying, Unpublished, Task
  <1>. QED
    BY <1>3, <1>4 DEF Copying

LEMMA WebCopying ==
    ASSUME TypeOK, Copying, NEW m \in Messages, MessageStep(m)
    PROVE  Copying'
  <1>1. CASE Send(m)
    BY <1>1 DEF TypeOK, Copying, Held, Apart, Unpublished, Send, clockVars
  <1>2. CASE PublishFails(m)
    <2>1. CASE UNCHANGED copy
      BY <1>2, <2>1 DEF TypeOK, Copying, Held, Apart, Unpublished, PublishFails, rowVars, clockVars
    <2>2. CASE ~UNCHANGED copy
      BY <1>2, <2>2, Placed DEF PublishFails, rowVars, clockVars
    <2>. QED
      BY <2>1, <2>2
  <1>3. CASE FailUnqueued(m) \/ BlankUnqueued(m)
    BY <1>3 DEF TypeOK, Copying, Held, Apart, Unpublished, FailUnqueued, BlankUnqueued, clockVars
  <1>4. CASE CleanUp(m)
    <2>1. stage[m] # "none"
      BY <1>4 DEF CleanUp, Copying, Unpublished
    <2>. QED
      BY <1>4, <2>1 DEF TypeOK, Copying, Held, Apart, Unpublished, CleanUp
  <1>5. CASE Expire(m)
    BY <1>5 DEF Copying, Held, Apart, Unpublished, Expire, rowVars, clockVars
  <1>6. CASE WebCrash(m)
    BY <1>6 DEF TypeOK, Copying, Held, Apart, Unpublished, WebCrash, rowVars, clockVars
  <1>7. ASSUME NEW c \in Copies, Publish(m, c)
        PROVE  Copying'
    BY <1>7, Placed DEF Publish, rowVars, clockVars
  <1>. QED
    BY <1>1, <1>2, <1>3, <1>4, <1>5, <1>6, <1>7 DEF MessageStep

LEMMA DeliverCopying ==
    ASSUME TypeOK, Copying, NEW w \in Workers, NEW c \in Copies,
           Claim(w, c) \/ Retry(w, c) \/ Skip(w, c)
    PROVE  Copying'
  <1>1. /\ copy[c].state = "ready"
        /\ copy[c] \in Delivery
        /\ \A v \in Workers : worker[v].pc \in Busy => worker[v].by # c
    BY ReadyCopy DEF Claim, Retry, Skip, Copying, Held
  <1>2. CASE Claim(w, c)
    <2>1. /\ copy'[c].state = "held" /\ copy'[c].msg = copy[c].msg
          /\ \A b \in Copies : b # c => copy'[b] = copy[b]
          /\ worker'[w].by = c /\ worker'[w].msg = copy[c].msg
          /\ \A v \in Workers : v # w => worker'[v] = worker[v]
      BY <1>1, <1>2 DEF TypeOK, Claim, Delivery
    <2>2. (Held /\ Apart)'
      BY <1>1, <2>1, BusyJob DEF Copying, Held, Apart
    <2>3. Unpublished'
      BY <1>1, <1>2, <2>1 DEF Copying, Unpublished, Claim, clockVars
    <2>. QED
      BY <2>2, <2>3 DEF Copying
  <1>3. CASE Retry(w, c) \/ Skip(w, c)
    <2>1. /\ copy'[c].state # "none" => copy'[c].msg = copy[c].msg
          /\ \A b \in Copies : b # c => copy'[b] = copy[b]
          /\ UNCHANGED <<worker, stage, text, expired>>
      BY <1>1, <1>3 DEF TypeOK, Retry, Skip, Delivery, Task, NoCopy, rowVars, clockVars
    <2>2. (Held /\ Apart)'
      BY <1>1, <2>1, BusyJob DEF Copying, Held, Apart
    <2>3. Unpublished'
      BY <1>1, <2>1 DEF Copying, Unpublished
    <2>. QED
      BY <2>2, <2>3 DEF Copying
  <1>. QED
    BY <1>2, <1>3

LEMMA ProceedCopying ==
    ASSUME TypeOK, Copying, NEW w \in Workers, Proceed(w)
    PROVE  Copying'
  <1>1. /\ worker[w].pc \in Busy
        /\ worker[w] \in Job
        /\ Msg(w) \in Messages
        /\ stage[Msg(w)] \notin {"none", "committed"}
    <2>1. worker[w].pc \in Busy
      BY DEF Proceed, Busy, Read, Lapse, CallProvider, RecordSent, RecordFailed, Erase,
             QueueCheck, Finish
    <2>. QED
      BY <2>1, BusyJob DEF Copying, Held, Unpublished, Msg
  <1>2. CASE Lapse(w) \/ Finish(w)
    <2>1. /\ worker' = [worker EXCEPT ![w] = Idle]
          /\ copy' = [copy EXCEPT ![worker[w].by] = NoCopy]
          /\ UNCHANGED <<stage, expired>>
      BY <1>2 DEF Lapse, Finish, clockVars
    <2>2. /\ worker'[w] = Idle
          /\ copy'[worker[w].by] = NoCopy
          /\ \A v \in Workers : v # w => worker'[v] = worker[v]
          /\ \A c \in Copies : c # worker[w].by => copy'[c] = copy[c]
      BY <1>1, <2>1, LetGo
    <2>3. (Held /\ Apart)'
      BY <1>1, <2>2, BusyJob DEF Copying, Held, Apart, Idle, Busy
    <2>4. Unpublished'
      BY <1>1, <1>2, <2>1, <2>2 DEF TypeOK, Copying, Unpublished, Lapse, Finish, rowVars, clockVars,
         NoCopy, Msg
    <2>. QED
      BY <2>3, <2>4 DEF Copying
  <1>3. CASE Read(w) \/ CallProvider(w) \/ RecordSent(w) \/ RecordFailed(w) \/ Erase(w)
             \/ QueueCheck(w)
    <2>1. /\ worker'[w].by = worker[w].by
          /\ worker'[w].msg = worker[w].msg
          /\ \A v \in Workers : v # w => worker'[v] = worker[v]
          /\ UNCHANGED <<copy, stage, expired>>
      <3>1. CASE Read(w)
        BY <1>1, <3>1 DEF TypeOK, Read, Job, clockVars
      <3>2. CASE CallProvider(w)
        BY <1>1, <3>2, Stepped DEF CallProvider, Busy, clockVars
      <3>3. CASE RecordSent(w) \/ RecordFailed(w) \/ Erase(w) \/ QueueCheck(w)
        BY <1>1, <3>3, Stepped DEF RecordSent, RecordFailed, Erase, QueueCheck, Busy, clockVars
      <3>. QED
        BY <1>3, <3>1, <3>2, <3>3
    <2>2. (Held /\ Apart)'
      BY <1>1, <2>1 DEF Copying, Held, Apart
    <2>3. \A m \in Messages : m # Msg(w) => text'[m] = text[m]
      BY <1>1, <1>3 DEF TypeOK, Read, CallProvider, RecordSent, RecordFailed, Erase, QueueCheck,
         rowVars, clockVars
    <2>4. Unpublished'
      BY <1>1, <2>1, <2>3 DEF Copying, Unpublished
    <2>. QED
      BY <2>2, <2>4 DEF Copying
  <1>. QED
    BY <1>2, <1>3 DEF Proceed

LEMMA FailureCopying ==
    ASSUME TypeOK, Copying, NEW w \in Workers,
           Crash(w) \/ \E c \in Copies : Redeliver(w, c)
    PROVE  Copying'
  <1>. DEFINE b == worker[w].by
  <1>1. /\ worker[w].pc \in Busy
        /\ b \in Copies
        /\ Msg(w) \in Messages
        /\ copy[b] \in Delivery
        /\ copy[b].state = "held" /\ copy[b].msg = Msg(w)
        /\ stage[Msg(w)] \notin {"none", "committed"}
    <2>1. worker[w].pc \in Busy
      BY DEF Crash, Redeliver
    <2>2. copy[b].state = "held" /\ copy[b].msg = Msg(w) /\ b \in Copies /\ Msg(w) \in Messages
      BY <2>1, BusyJob DEF Copying, Held, Msg
    <2>. QED
      BY <2>1, <2>2, ReadyCopy DEF Copying, Unpublished
  <1>2. CASE Crash(w)
    <2>1. /\ worker'[w] = Idle
          /\ copy'[b].msg = Msg(w)
          /\ \A v \in Workers : v # w => worker'[v] = worker[v]
          /\ \A c \in Copies : c # b => copy'[c] = copy[c]
          /\ UNCHANGED <<stage, text, expired>>
      BY <1>1, <1>2 DEF TypeOK, Crash, Delivery, rowVars, clockVars
    <2>2. (Held /\ Apart)'
      BY <1>1, <2>1, BusyJob DEF Copying, Held, Apart, Idle, Busy
    <2>3. Unpublished'
      BY <1>1, <2>1 DEF Copying, Unpublished
    <2>. QED
      BY <2>2, <2>3 DEF Copying
  <1>3. ASSUME NEW c \in Copies, Redeliver(w, c)
        PROVE  Copying'
    <2>1. /\ copy'[c].msg = Msg(w)
          /\ \A a \in Copies : a # c => copy'[a] = copy[a]
          /\ UNCHANGED <<worker, stage, text, expired>>
          /\ copy[c].state = "none"
      BY <1>1, <1>3 DEF TypeOK, Redeliver, Task, rowVars, clockVars, NoCopy
    <2>2. (Held /\ Apart)'
      BY <2>1, BusyJob DEF Copying, Held, Apart
    <2>3. Unpublished'
      BY <1>1, <2>1 DEF Copying, Unpublished
    <2>. QED
      BY <2>2, <2>3 DEF Copying
  <1>. QED
    BY <1>2, <1>3

LEMMA StepCopying ==
    ASSUME TypeOK, Copying, [Next]_vars
    PROVE  Copying'
  <1>1. CASE UNCHANGED vars
    BY <1>1 DEF Copying, Held, Apart, Unpublished, vars, rowVars, clockVars
  <1>2. CASE Tick
    <2>1. /\ \A c \in Copies : copy[c].state = "waiting" \/ copy'[c] = copy[c]
          /\ \A c \in Copies : copy[c].state = "waiting" => copy'[c].msg = copy[c].msg
          /\ UNCHANGED <<worker, stage, text, expired>>
      BY <1>2, ReadyCopy DEF Tick, Delivery, clockVars
    <2>2. (Held /\ Apart)'
      BY <2>1, BusyJob DEF Copying, Held, Apart
    <2>3. Unpublished'
      BY <2>1 DEF Copying, Unpublished
    <2>. QED
      BY <2>2, <2>3 DEF Copying
  <1>3. CASE \E k \in Check : Poll(k)
    BY <1>3 DEF Copying, Held, Apart, Unpublished, Poll, clockVars
  <1>4. CASE Next /\ ~Tick /\ ~\E k \in Check : Poll(k)
    BY <1>4, WebCopying, DeliverCopying, ProceedCopying, FailureCopying DEF Next, Deliver
  <1>. QED
    BY <1>1, <1>2, <1>3, <1>4

-----------------------------------------------------------------------------
(* A row gets its status when it is committed, and keeps a settled one.    *)

LEMMA StepBegun ==
    ASSUME TypeOK, Begun, [Next]_vars
    PROVE  Begun'
  <1>1. ASSUME NEW m \in Messages, MessageStep(m)
        PROVE  Begun'
    <2>1. CASE Send(m)
      BY <2>1 DEF TypeOK, Begun, Send
    <2>2. CASE PublishFails(m) \/ WebCrash(m) \/ Expire(m) \/ \E c \in Copies : Publish(m, c)
      BY <2>2 DEF TypeOK, Begun, PublishFails, WebCrash, Expire, Publish, rowVars
    <2>3. CASE FailUnqueued(m)
      BY <2>3 DEF TypeOK, Begun, FailUnqueued, Settled
    <2>4. CASE BlankUnqueued(m)
      BY <2>4 DEF TypeOK, Begun, BlankUnqueued
    <2>5. CASE CleanUp(m)
      BY <2>5 DEF TypeOK, Begun, CleanUp, Settled
    <2>. QED
      BY <1>1, <2>1, <2>2, <2>3, <2>4, <2>5 DEF MessageStep
  <1>2. ASSUME NEW k \in Check, Poll(k)
        PROVE  Begun'
    BY <1>2 DEF TypeOK, Begun, Poll, Verdict, Settled
  <1>3. ASSUME NEW w \in Workers, Proceed(w)
        PROVE  Begun'
    BY <1>3 DEF TypeOK, Begun, Proceed, Read, Lapse, CallProvider, RecordSent, RecordFailed, Erase,
       QueueCheck, Finish, Settled, rowVars
  <1>4. CASE UNCHANGED <<status, stage>>
    BY <1>4 DEF Begun
  <1>. QED
    BY <1>1, <1>2, <1>3, <1>4 DEF Next, vars, Deliver, Claim, Retry, Skip, Crash, Redeliver, Tick,
       rowVars

-----------------------------------------------------------------------------
(* Every step keeps what is known of a claim that was not taken over.      *)

\* A step that changes neither claim, workers nor sends, nor makes an
\* unclaimed pending text anything but plain, keeps it.
LEMMA Untouched ==
    ASSUME NEW m \in Messages, FirstClaim(m),
           UNCHANGED <<age, worker, sends>>,
           expired \subseteq expired',
           status'[m] \in {"none", "pending"} =>
               text'[m] = "plain" \/ (status[m] \in {"none", "pending"} /\ text'[m] = text[m]),
           stage[m] = "unqueued" => stage'[m] = "unqueued",
           (\E w \in Workers : Doing(w, m)) =>
               text'[m] = text[m] \/ m \in expired \/ stage'[m] = "unqueued"
    PROVE  FirstClaim(m)'
    BY DEF FirstClaim, Doing

LEMMA WebOnce ==
    ASSUME TypeOK, Copying, Begun, NEW n \in Messages, MessageStep(n),
           NEW m \in Messages, FirstClaim(m)
    PROVE  FirstClaim(m)'
  <1>1. ASSUME NEW w \in Workers, Doing(w, m)
        PROVE  stage[m] \notin {"none", "committed"}
    BY <1>1, BusyJob DEF Doing, Copying, Held, Unpublished
  <1>2. CASE Send(n)
    BY <1>2, Untouched DEF TypeOK, Copying, Unpublished, Send, clockVars, historyVars
  <1>3. CASE PublishFails(n)
    BY <1>3, Untouched DEF TypeOK, PublishFails, rowVars, clockVars, historyVars
  <1>4. CASE FailUnqueued(n)
    BY <1>4, Untouched DEF TypeOK, FailUnqueued, clockVars, historyVars
  <1>5. CASE BlankUnqueued(n)
    <2>1. n = m => status[m] \in Settled /\ stage'[m] = "unqueued"
      BY <1>5 DEF TypeOK, Begun, BlankUnqueued
    <2>2. n # m => text'[m] = text[m] /\ stage'[m] = stage[m]
      BY <1>5 DEF TypeOK, BlankUnqueued
    <2>. QED
      BY <1>5, <2>1, <2>2, Untouched DEF BlankUnqueued, clockVars, historyVars, Settled
  <1>6. CASE CleanUp(n)
    BY <1>6, Untouched DEF TypeOK, CleanUp, historyVars
  <1>7. CASE Expire(n)
    BY <1>7, Untouched DEF Expire, rowVars, historyVars
  <1>8. CASE WebCrash(n)
    BY <1>8, Untouched DEF TypeOK, WebCrash, rowVars
  <1>9. CASE \E c \in Copies : Publish(n, c)
    BY <1>9, Untouched DEF TypeOK, Publish, rowVars, historyVars
  <1>. QED
    BY <1>2, <1>3, <1>4, <1>5, <1>6, <1>7, <1>8, <1>9 DEF MessageStep

LEMMA CheckOnce ==
    ASSUME TypeOK, NEW k \in Check, Poll(k), NEW m \in Messages, FirstClaim(m)
    PROVE  FirstClaim(m)'
  <1>1. status'[m] \in {"none", "pending"} => status[m] \in {"none", "pending"}
    BY DEF TypeOK, Poll, Verdict
  <1>. QED
    BY <1>1, Untouched DEF Poll, clockVars

LEMMA DeliverOnce ==
    ASSUME TypeOK, Copying, NEW w \in Workers, NEW c \in Copies,
           Claim(w, c) \/ Retry(w, c) \/ Skip(w, c),
           NEW m \in Messages, FirstClaim(m), m \notin takeovers'
    PROVE  FirstClaim(m)'
  <1>1. CASE Retry(w, c) \/ Skip(w, c)
    BY <1>1, Untouched DEF Retry, Skip, rowVars, clockVars, historyVars
  <1>2. CASE Claim(w, c)
    <2>. DEFINE n == copy[c].msg
    <2>0. n \in Messages
      BY <1>2, ReadyCopy DEF Claim, Delivery
    <2>1. /\ worker'[w] = [pc |-> "claimed", by |-> c, msg |-> n, text |-> "plain"]
          /\ \A v \in Workers : v # w => worker'[v] = worker[v]
          /\ ~Doing(w, m)
          /\ UNCHANGED <<status, text, expired, sends, stage>>
      BY <1>2 DEF TypeOK, Claim, clockVars, Doing, Busy, Idle
    <2>2. CASE n = m
      <3>1. age[m] = Unclaimed
        <4>1. ~(age[m] > StaleAfter)
          BY <1>2, <2>2 DEF TypeOK, Claim
        <4>. QED
          BY <1>2, <2>2, <4>1 DEF Claim, Claimable
      <3>2. status[m] = "pending" /\ age'[m] = 0
        BY <1>2, <2>2 DEF Claim, Claimable, TypeOK
      <3>3. \A v \in Workers : Doing(v, m)' => v = w
        BY <2>1, <3>1 DEF FirstClaim, Doing
      <3>. QED
        BY <2>1, <3>1, <3>2, <3>3 DEF FirstClaim, Unclaimed
    <2>3. CASE n # m
      <3>1. age'[m] = age[m]
        BY <1>2, <2>0, <2>3 DEF TypeOK, Claim
      <3>2. /\ \A v \in Workers : Doing(v, m)' <=> Doing(v, m)
            /\ \A v \in Workers : Doing(v, m) => worker'[v] = worker[v]
        BY <2>1, <2>3 DEF Doing
      <3>. QED
        BY <2>1, <3>1, <3>2 DEF FirstClaim
    <2>. QED
      BY <2>2, <2>3
  <1>. QED
    BY <1>1, <1>2

LEMMA ProceedOnce ==
    ASSUME TypeOK, Copying, NEW w \in Workers, Proceed(w),
           NEW m \in Messages, FirstClaim(m)
    PROVE  FirstClaim(m)'
  <1>. DEFINE n == worker[w].msg
  <1>1. /\ worker[w].pc \in Busy
        /\ worker[w] \in Job
        /\ n \in Messages
        /\ Doing(w, n)
    <2>1. worker[w].pc \in Busy
      BY DEF Proceed, Busy, Read, Lapse, CallProvider, RecordSent, RecordFailed, Erase,
             QueueCheck, Finish
    <2>. QED
      BY <2>1, BusyJob DEF Msg, Doing
  <1>2. /\ \A v \in Workers : v # w => worker'[v] = worker[v]
        /\ worker'[w].pc \in Busy => worker'[w].msg = n
        /\ UNCHANGED <<age, expired, stage>>
    <2>1. CASE Lapse(w) \/ Finish(w)
      BY <1>1, <2>1, LetGo DEF Lapse, Finish, rowVars, clockVars, Busy, Idle
    <2>2. CASE Read(w)
      BY <1>1, <2>2 DEF TypeOK, Read, Job, rowVars, clockVars
    <2>3. CASE CallProvider(w)
      BY <1>1, <2>3, Stepped DEF CallProvider, Busy, rowVars, clockVars
    <2>4. CASE RecordSent(w) \/ RecordFailed(w) \/ Erase(w) \/ QueueCheck(w)
      BY <1>1, <2>4, Stepped DEF RecordSent, RecordFailed, Erase, QueueCheck, Busy, rowVars,
         clockVars
    <2>. QED
      BY <2>1, <2>2, <2>3, <2>4 DEF Proceed
  <1>3. CASE n # m
    <2>1. status'[m] = status[m] /\ text'[m] = text[m] /\ sends'[m] = sends[m]
      BY <1>1, <1>3 DEF TypeOK, Proceed, Read, Lapse, CallProvider, RecordSent, RecordFailed,
         Erase, QueueCheck, Finish, rowVars, historyVars, Msg
    <2>2. /\ \A v \in Workers : Doing(v, m)' => Doing(v, m)
          /\ \A v \in Workers : Doing(v, m) => worker'[v] = worker[v]
      BY <1>2, <1>3 DEF Doing
    <2>. QED
      BY <1>2, <2>1, <2>2 DEF FirstClaim
  <1>4. CASE n = m
    <2>1. /\ age[m] # Unclaimed
          /\ \A v \in Workers : Doing(v, m)' => v = w
      BY <1>1, <1>2, <1>4 DEF FirstClaim, Doing
    <2>2. sends'[m] <= 1
      <3>1. CASE CallProvider(w)
        <4>1. sends[m] = 0
          BY <1>1, <1>4, <3>1 DEF CallProvider, FirstClaim
        <4>. QED
          BY <1>4, <3>1, <4>1 DEF TypeOK, CallProvider, Msg
      <3>2. CASE ~CallProvider(w)
        BY <3>2 DEF Proceed, Read, Lapse, RecordSent, RecordFailed, Erase, QueueCheck, Finish,
           historyVars, FirstClaim
      <3>. QED
        BY <3>1, <3>2
    <2>3. ASSUME Doing(w, m)'
          PROVE  /\ worker'[w].pc \in {"claimed", "lapsed", "sending"} => sends'[m] = 0
                 /\ worker'[w].pc # "claimed"
                 /\ worker'[w].pc = "sending" =>
                        worker'[w].text = "plain" \/ stage[m] = "unqueued"
      <3>1. CASE Read(w)
        <4>1. /\ worker'[w].pc = IF m \in expired THEN "lapsed" ELSE "sending"
              /\ worker'[w].text = text[m]
              /\ sends' = sends
          BY <1>1, <1>4, <3>1 DEF TypeOK, Read, Job, historyVars, Msg
        <4>2. sends[m] = 0 /\ (text[m] = "plain" \/ m \in expired \/ stage[m] = "unqueued")
          BY <1>1, <1>4, <3>1 DEF Read, FirstClaim
        <4>. QED
          BY <4>1, <4>2
      <3>2. CASE Lapse(w) \/ Finish(w)
        BY <1>1, <2>3, <3>2, LetGo DEF Lapse, Finish, Doing, Busy, Idle
      <3>3. CASE CallProvider(w)
        BY <1>1, <3>3, Stepped DEF CallProvider, Busy
      <3>4. CASE RecordSent(w) \/ RecordFailed(w) \/ Erase(w) \/ QueueCheck(w)
        BY <1>1, <3>4, Stepped DEF RecordSent, RecordFailed, Erase, QueueCheck, Busy
      <3>. QED
        BY <3>1, <3>2, <3>3, <3>4 DEF Proceed
    <2>. QED
      BY <1>2, <2>1, <2>2, <2>3 DEF FirstClaim
  <1>. QED
    BY <1>3, <1>4

\* A takeover is never forgotten.
LEMMA TakeoversStay ==
    ASSUME [Next]_vars
    PROVE  takeovers \subseteq takeovers'
    BY DEF Next, vars, MessageStep, Deliver, Proceed, Send, PublishFails, FailUnqueued,
       BlankUnqueued, Poll, CleanUp, Expire, WebCrash, Publish, Claim, Retry, Skip, Read, Lapse,
       CallProvider, RecordSent, RecordFailed, Erase, QueueCheck, Finish, Crash, Redeliver, Tick,
       historyVars

LEMMA StepOnce ==
    ASSUME TypeOK, Copying, Begun, Once, [Next]_vars
    PROVE  Once'
  <1>. SUFFICES ASSUME NEW m \in Messages, m \notin takeovers'
                PROVE  FirstClaim(m)'
    BY DEF Once
  <1>1. m \notin takeovers
    BY TakeoversStay
  <1>2. FirstClaim(m)
    BY <1>1 DEF Once
  <1>3. CASE UNCHANGED vars
    BY <1>2, <1>3, Untouched DEF vars, rowVars, clockVars, historyVars
  <1>4. CASE Tick
    <2>1. /\ age'[m] = Unclaimed => age[m] = Unclaimed
          /\ UNCHANGED <<status, text, expired, worker, sends, stage>>
      BY <1>4 DEF TypeOK, Tick, clockVars, historyVars, Unclaimed
    <2>. QED
      BY <1>2, <2>1 DEF FirstClaim, Doing
  <1>5. CASE \E w \in Workers : Crash(w) \/ \E c \in Copies : Redeliver(w, c)
    <2>1. PICK w \in Workers : Crash(w) \/ \E c \in Copies : Redeliver(w, c)
      BY <1>5
    <2>2. /\ UNCHANGED <<status, text, age, expired, sends, stage>>
          /\ \A v \in Workers : worker'[v] = worker[v] \/ worker'[v] = Idle
      BY <2>1 DEF TypeOK, Crash, Redeliver, rowVars, clockVars, historyVars
    <2>3. \A v \in Workers : Doing(v, m)' => Doing(v, m) /\ worker'[v] = worker[v]
      BY <2>2 DEF Doing, Idle, Busy
    <2>. QED
      BY <1>2, <2>2, <2>3 DEF FirstClaim
  <1>6. CASE Next /\ ~Tick /\ ~\E w \in Workers : Crash(w) \/ \E c \in Copies : Redeliver(w, c)
    BY <1>2, <1>6, WebOnce, CheckOnce, DeliverOnce, ProceedOnce DEF Next, Deliver
  <1>. QED
    BY <1>3, <1>4, <1>5, <1>6

-----------------------------------------------------------------------------
(* The erasure of a code.  A takeover may let two workers in, but each      *)
(* erases what it settled, and an erased text never comes back.            *)

\* What is known of a message with a code: nobody asks about its delivery,
\* nor is about to, before the text is erased.
Erasing(m) ==
    /\ (\E k \in checks : k.msg = m) => text[m] = "redacted"
    /\ \A w \in Workers : Doing(w, m) /\ worker[w].pc = "queueing" => text[m] = "redacted"
    /\ status[m] \in Settled /\ text[m] = "plain" =>
           \/ \E w \in Workers : Doing(w, m) /\ worker[w].pc \in {"erasing", "blanking"}
           \/ stage[m] = "blanking"
           \/ m \in abandoned

Erasure == \A m \in Sensitive : Erasing(m)

\* Where the workers are after a step of one of them.
LEMMA Proceeds ==
    ASSUME TypeOK, NEW w \in Workers, Proceed(w)
    PROVE  /\ worker[w].pc \in Busy
           /\ Msg(w) \in Messages
           /\ \A v \in Workers : v # w => worker'[v] = worker[v]
           /\ worker'[w].pc \in Busy => worker'[w].msg = worker[w].msg
           /\ \A m \in Messages : m # Msg(w) =>
                  status'[m] = status[m] /\ text'[m] = text[m]
           /\ \A k \in checks' : k \in checks \/ (QueueCheck(w) /\ k.msg = Msg(w))
           /\ checks \subseteq checks'
           /\ UNCHANGED <<stage, rechecked, abandoned>>
  <1>1. worker[w].pc \in Busy
    BY DEF Proceed, Busy, Read, Lapse, CallProvider, RecordSent, RecordFailed, Erase,
           QueueCheck, Finish
  <1>2. worker[w] \in Job /\ Msg(w) \in Messages
    BY <1>1, BusyJob
  <1>3. /\ \A v \in Workers : v # w => worker'[v] = worker[v]
        /\ worker'[w].pc \in Busy => worker'[w].msg = worker[w].msg
    <2>1. CASE Lapse(w) \/ Finish(w)
      BY <1>1, <2>1, LetGo DEF Lapse, Finish, Busy, Idle
    <2>2. CASE Read(w)
      BY <1>2, <2>2 DEF TypeOK, Read, Job
    <2>3. CASE CallProvider(w)
      BY <1>1, <2>3, Stepped DEF CallProvider, Busy
    <2>4. CASE RecordSent(w) \/ RecordFailed(w) \/ Erase(w) \/ QueueCheck(w)
      BY <1>1, <2>4, Stepped DEF RecordSent, RecordFailed, Erase, QueueCheck, Busy
    <2>. QED
      BY <2>1, <2>2, <2>3, <2>4 DEF Proceed
  <1>4. \A m \in Messages : m # Msg(w) =>
            status'[m] = status[m] /\ text'[m] = text[m]
    BY <1>2 DEF TypeOK, Proceed, Read, Lapse, CallProvider, RecordSent, RecordFailed,
       Erase, QueueCheck, Finish, rowVars
  <1>5. /\ \A k \in checks' : k \in checks \/ (QueueCheck(w) /\ k.msg = Msg(w))
        /\ checks \subseteq checks'
        /\ UNCHANGED <<stage, rechecked, abandoned>>
    BY DEF Proceed, Read, Lapse, CallProvider, RecordSent, RecordFailed, Erase, QueueCheck,
       Finish, historyVars
  <1>. QED
    BY <1>1, <1>2, <1>3, <1>4, <1>5

LEMMA WebErasing ==
    ASSUME TypeOK, NEW n \in Messages, MessageStep(n), NEW m \in Sensitive, Erasing(m)
    PROVE  Erasing(m)'
  <1>. m \in Messages
    BY SensitiveType
  <1>1. worker' = worker /\ checks' = checks /\ abandoned \subseteq abandoned'
    BY DEF MessageStep, Send, PublishFails, FailUnqueued, BlankUnqueued, CleanUp, Expire, WebCrash,
       Publish, clockVars, historyVars
  <1>2. CASE Send(n)
    BY <1>1, <1>2 DEF TypeOK, Erasing, Doing, Send, Settled
  <1>3. CASE PublishFails(n) \/ \E c \in Copies : Publish(n, c)
    BY <1>1, <1>3 DEF TypeOK, Erasing, Doing, PublishFails, Publish, rowVars
  <1>4. CASE FailUnqueued(n)
    BY <1>1, <1>4 DEF TypeOK, Erasing, Doing, FailUnqueued
  <1>5. CASE BlankUnqueued(n)
    BY <1>1, <1>5 DEF TypeOK, Erasing, Doing, BlankUnqueued
  <1>6. CASE WebCrash(n)
    BY <1>1, <1>6 DEF TypeOK, Erasing, Doing, WebCrash, rowVars
  <1>7. CASE CleanUp(n)
    BY <1>1, <1>7 DEF TypeOK, Erasing, Doing, CleanUp
  <1>8. CASE Expire(n)
    BY <1>1, <1>8 DEF Erasing, Doing, Expire, rowVars
  <1>. QED
    BY <1>2, <1>3, <1>4, <1>5, <1>6, <1>7, <1>8 DEF MessageStep

\* A check answers for a message whose text is erased.
LEMMA CheckErasing ==
    ASSUME TypeOK, NEW k \in Check, Poll(k), NEW m \in Sensitive, Erasing(m)
    PROVE  Erasing(m)'
  <1>1. m \in Messages /\ UNCHANGED <<text, worker, stage, abandoned>>
    BY SensitiveType DEF Poll
  <1>2. \A j \in checks' : \E i \in checks : i.msg = j.msg
    BY DEF Poll, Acknowledge, Again
  <1>3. k.msg # m => status'[m] = status[m]
    BY <1>1 DEF TypeOK, Poll, Verdict
  <1>4. k.msg = m => text[m] = "redacted"
    BY DEF Poll, Erasing
  <1>. QED
    BY <1>1, <1>2, <1>3, <1>4 DEF Erasing, Doing

LEMMA ProceedErasing ==
    ASSUME TypeOK, NEW w \in Workers, Proceed(w), NEW m \in Sensitive, Erasing(m)
    PROVE  Erasing(m)'
  <1>1. /\ m \in Messages
        /\ worker[w].pc \in Busy
        /\ worker[w] \in Job
        /\ Msg(w) = worker[w].msg
    BY SensitiveType, Proceeds, BusyJob DEF Msg
  <1>2. CASE Msg(w) # m
    <2>1. \A v \in Workers : Doing(v, m)' <=> Doing(v, m)
      BY <1>1, <1>2, Proceeds DEF Doing
    <2>2. \A v \in Workers : Doing(v, m) => worker'[v] = worker[v]
      BY <1>1, <1>2, Proceeds DEF Doing
    <2>. QED
      BY <1>1, <1>2, <2>1, <2>2, Proceeds DEF Erasing
  <1>3. CASE Msg(w) = m
    <2>0. \A v \in Workers : v # w => worker'[v] = worker[v]
      BY Proceeds
    <2>1. CASE Lapse(w)
      <3>1. text'[m] = "redacted"
        BY <1>1, <1>3, <2>1 DEF TypeOK, Lapse
      <3>. QED
        BY <3>1 DEF Erasing
    <2>2. CASE Read(w) \/ CallProvider(w) \/ Finish(w)
      <3>1. /\ UNCHANGED <<status, text, checks, stage, abandoned>>
            /\ worker[w].pc \notin {"erasing", "blanking"}
            /\ worker'[w].pc # "queueing"
        <4>1. CASE Read(w)
          BY <1>1, <4>1 DEF TypeOK, Read, Job, rowVars, historyVars
        <4>2. CASE CallProvider(w)
          BY <1>1, <4>2, Stepped DEF CallProvider, Busy, rowVars
        <4>3. CASE Finish(w)
          BY <1>1, <4>3, LetGo DEF Finish, Idle, rowVars, historyVars
        <4>. QED
          BY <2>2, <4>1, <4>2, <4>3
      <3>. QED
        BY <2>0, <3>1 DEF Erasing, Doing
    <2>3. CASE RecordSent(w) \/ RecordFailed(w)
      <3>1. /\ worker'[w].pc \in {"erasing", "blanking"}
            /\ worker'[w].msg = m
            /\ UNCHANGED <<text, checks>>
        BY <1>1, <1>3, <2>3, Stepped DEF RecordSent, RecordFailed, Busy
      <3>2. (\E v \in Workers : Doing(v, m) /\ worker[v].pc \in {"erasing", "blanking"})'
        BY <3>1 DEF Doing, Busy
      <3>. QED
        BY <2>0, <3>1, <3>2 DEF Erasing, Doing
    <2>4. CASE Erase(w)
      <3>1. text'[m] = "redacted"
        BY <1>1, <1>3, <2>4 DEF TypeOK, Erase
      <3>. QED
        BY <3>1 DEF Erasing
    <2>5. CASE QueueCheck(w)
      <3>1. text[m] = "redacted" /\ text' = text
        BY <1>1, <1>3, <2>5 DEF Erasing, Doing, QueueCheck, rowVars
      <3>. QED
        BY <3>1 DEF Erasing
    <2>. QED
      BY <2>1, <2>2, <2>3, <2>4, <2>5 DEF Proceed
  <1>. QED
    BY <1>2, <1>3

LEMMA StepErasure ==
    ASSUME TypeOK, Erasure, [Next]_vars
    PROVE  Erasure'
  <1>. SUFFICES ASSUME NEW m \in Sensitive PROVE Erasing(m)'
    BY DEF Erasure
  <1>. m \in Messages /\ Erasing(m)
    BY SensitiveType DEF Erasure
  <1>1. CASE UNCHANGED vars \/ Tick
    BY <1>1 DEF vars, Tick, rowVars, clockVars, historyVars, Erasing, Doing
  <1>2. CASE \E w \in Workers : Crash(w)
    <2>1. PICK w \in Workers : Crash(w)
      BY <1>2
    <2>2. /\ UNCHANGED <<status, text, checks, stage>>
          /\ worker'[w] = Idle
          /\ \A v \in Workers : v # w => worker'[v] = worker[v]
          /\ abandoned \subseteq abandoned'
          /\ worker[w].pc \in {"erasing", "blanking"} => worker[w].msg \in abandoned'
      BY <2>1 DEF TypeOK, Crash, rowVars, Msg
    <2>3. \A v \in Workers : Doing(v, m)' => Doing(v, m) /\ worker'[v] = worker[v]
      BY <2>2 DEF Doing, Idle, Busy
    <2>4. ASSUME NEW v \in Workers, Doing(v, m), worker[v].pc \in {"erasing", "blanking"}
          PROVE  m \in abandoned' \/ (Doing(v, m) /\ worker[v].pc \in {"erasing", "blanking"})'
      BY <2>2, <2>4 DEF Doing
    <2>. QED
      BY <2>2, <2>3, <2>4 DEF Erasing
  <1>3. CASE \E w \in Workers, c \in Copies :
                Redeliver(w, c) \/ Retry(w, c) \/ Skip(w, c)
    BY <1>3 DEF Redeliver, Retry, Skip, rowVars, clockVars, historyVars, Erasing, Doing
  <1>4. ASSUME NEW w \in Workers, NEW c \in Copies, Claim(w, c)
        PROVE  Erasing(m)'
    <2>1. /\ UNCHANGED <<status, text, checks, stage, abandoned>>
          /\ \A v \in Workers : v # w => worker'[v] = worker[v]
          /\ worker'[w].pc = "claimed"
          /\ worker[w] = Idle
      BY <1>4 DEF TypeOK, Claim, clockVars
    <2>. QED
      BY <2>1 DEF Erasing, Doing, Idle, Busy
  <1>5. CASE \E n \in Messages : MessageStep(n)
    BY <1>5, WebErasing
  <1>6. CASE \E w \in Workers : Proceed(w)
    BY <1>6, ProceedErasing
  <1>7. CASE \E k \in Check : Poll(k)
    BY <1>7, CheckErasing
  <1>. QED
    BY <1>1, <1>2, <1>3, <1>4, <1>5, <1>6, <1>7 DEF Next, Deliver

-----------------------------------------------------------------------------
(* What the provider says stays said.                                      *)

\* Who still decides, and who has decided that the message was sent.
Deciding == {"claimed", "lapsed", "sending", "taken", "refused"}
Decided == {"erasing", "queueing"}

Asked(m) == \E k \in checks : k.msg = m

\* Only a sent message is asked about, and by then the one worker that sent
\* it has nothing left to decide.  As long as no check of it was delivered
\* again there is one of them, and it ends with the verdict it writes.
Answered(m) ==
    /\ stage[m] = "none" => status[m] = "none"
    /\ Asked(m) => status[m] \in Settled
    /\ m \notin rechecked =>
           /\ Asked(m) => status[m] = "sent"
           /\ \A j, k \in checks : j.msg = m /\ k.msg = m => j = k
    /\ \A w \in Workers : Doing(w, m) =>
           /\ worker[w].pc \in Deciding => ~Asked(m) /\ status[m] \in {"pending", "failed"}
           /\ worker[w].pc \in Decided => ~Asked(m) /\ status[m] = "sent"

AllAnswered == \A m \in Messages : m \notin takeovers => Answered(m)

LEMMA WebAnswered ==
    ASSUME TypeOK, Copying, NEW n \in Messages, MessageStep(n),
           NEW m \in Messages, Answered(m)
    PROVE  Answered(m)'
  <1>1. /\ worker' = worker /\ checks' = checks /\ rechecked' = rechecked
        /\ Asked(m)' <=> Asked(m)
    BY DEF MessageStep, Send, PublishFails, FailUnqueued, BlankUnqueued, CleanUp, Expire, WebCrash,
       Publish, historyVars, Asked
  <1>2. ASSUME NEW w \in Workers, Doing(w, m)
        PROVE  stage[m] \notin {"none", "committed"}
    BY <1>2, BusyJob DEF Doing, Copying, Held, Unpublished
  <1>3. CASE Send(n)
    <2>1. CASE n = m
      BY <1>1, <1>2, <1>3, <2>1 DEF TypeOK, Answered, Doing, Send, Settled
    <2>2. CASE n # m
      BY <1>1, <1>3, <2>2 DEF TypeOK, Answered, Doing, Send
    <2>. QED
      BY <2>1, <2>2
  <1>4. CASE status'[m] = status[m] /\ (stage'[m] = "none" => stage[m] = "none")
    BY <1>1, <1>4 DEF Answered, Doing
  <1>5. CASE FailUnqueued(n) \/ CleanUp(n)
    <2>1. /\ status'[m] = status[m] \/ (status[m] = "pending" /\ status'[m] = "failed")
          /\ stage'[m] = "none" => stage[m] = "none"
      BY <1>5 DEF TypeOK, FailUnqueued, CleanUp
    <2>. QED
      BY <1>1, <2>1 DEF Answered, Doing, Deciding, Decided, Settled
  <1>6. CASE \/ PublishFails(n) \/ BlankUnqueued(n) \/ WebCrash(n) \/ Expire(n)
             \/ \E c \in Copies : Publish(n, c)
    <2>1. status'[m] = status[m] /\ (stage'[m] = "none" => stage[m] = "none")
      BY <1>6 DEF TypeOK, PublishFails, BlankUnqueued, WebCrash, Expire, Publish, rowVars
    <2>. QED
      BY <1>4, <2>1
  <1>. QED
    BY <1>3, <1>5, <1>6 DEF MessageStep

\* A delivery of a check that was not delivered again is the last word.
LEMMA CheckAnswered ==
    ASSUME TypeOK, NEW k \in Check, Poll(k), NEW m \in Messages, Answered(m)
    PROVE  Answered(m)'
  <1>1. /\ UNCHANGED <<worker, stage>> /\ rechecked \subseteq rechecked'
        /\ k \in checks /\ checks \subseteq Check
        /\ \A j \in checks' : j \in checks \/ (j.msg = k.msg /\ j \in Again(k))
    BY DEF TypeOK, Poll, Acknowledge, Again
  <1>2. CASE k.msg # m
    <2>1. status'[m] = status[m] /\ (m \in rechecked' <=> m \in rechecked)
      BY <1>2 DEF TypeOK, Poll, Verdict, Acknowledge
    <2>2. \A j \in checks' : j.msg = m => j \in checks
      BY <1>1, <1>2
    <2>3. Asked(m)' => Asked(m)
      BY <2>2 DEF Asked
    <2>. QED
      BY <1>1, <2>1, <2>2, <2>3 DEF Answered, Doing
  <1>3. CASE k.msg = m
    <2>1. Asked(m)
      BY <1>1, <1>3 DEF Asked
    <2>2. /\ status[m] \in Settled
          /\ stage[m] # "none"
          /\ \A w \in Workers : Doing(w, m) => worker[w].pc \notin Deciding \union Decided
      BY <2>1 DEF Answered, Settled
    <2>3. status'[m] \in Settled
      BY <1>3, <2>2 DEF TypeOK, Poll, Verdict, Settled
    <2>4. ASSUME m \notin rechecked'
          PROVE  /\ Asked(m)' => status'[m] = "sent"
                 /\ \A i, j \in checks' : i.msg = m /\ j.msg = m => i = j
      <3>1. /\ m \notin rechecked /\ status[m] = "sent"
            /\ \A j \in checks : j.msg = m => j = k
        BY <1>1, <1>3, <2>1, <2>4 DEF Answered
      <3>2. \/ checks' = (checks \ {k}) \union Again(k) /\ status'[m] = "sent"
            \/ checks' = checks \ {k}
        BY <1>3, <2>4, <3>1 DEF TypeOK, Poll, Acknowledge
      <3>3. \A i, j \in Again(k) : i = j
        BY LimitType DEF Again, Check
      <3>. QED
        BY <1>3, <3>1, <3>2, <3>3 DEF Asked
    <2>. QED
      BY <1>1, <2>2, <2>3, <2>4 DEF Answered, Doing
  <1>. QED
    BY <1>2, <1>3

\* What a worker's step makes of its own place.
LEMMA OwnPlace ==
    ASSUME TypeOK, NEW w \in Workers, Proceed(w), worker'[w].pc \in Busy
    PROVE  \/ /\ worker[w].pc \in Deciding /\ worker'[w].pc \in Deciding
              /\ UNCHANGED <<status, checks>>
           \/ RecordSent(w) /\ worker[w].pc \in Deciding /\ worker'[w].pc = "erasing"
           \/ Erase(w) /\ worker[w].pc = "erasing" /\ worker'[w].pc = "queueing"
           \/ worker'[w].pc \notin Deciding \union Decided
  <1>1. worker[w].pc \in Busy /\ worker[w] \in Job
    BY Proceeds, BusyJob
  <1>2. CASE Lapse(w) \/ Finish(w)
    BY <1>1, <1>2, LetGo DEF Lapse, Finish, Busy, Idle
  <1>3. CASE Read(w)
    BY <1>1, <1>3 DEF TypeOK, Read, Job, Deciding, rowVars
  <1>4. CASE CallProvider(w)
    BY <1>1, <1>4, Stepped DEF CallProvider, Busy, Deciding, rowVars
  <1>5. CASE RecordSent(w) \/ RecordFailed(w)
    BY <1>1, <1>5, Stepped DEF RecordSent, RecordFailed, Busy, Deciding, Decided
  <1>6. CASE Erase(w)
    BY <1>1, <1>6, Stepped DEF Erase, Busy, Deciding, Decided
  <1>7. CASE QueueCheck(w)
    BY <1>1, <1>7, Stepped DEF QueueCheck, Busy, Deciding, Decided
  <1>. QED
    BY <1>2, <1>3, <1>4, <1>5, <1>6, <1>7 DEF Proceed

LEMMA ProceedAnswered ==
    ASSUME TypeOK, Copying, NEW w \in Workers, Proceed(w),
           NEW m \in Messages, FirstClaim(m), Answered(m)
    PROVE  Answered(m)'
  <1>1. /\ worker[w].pc \in Busy
        /\ Doing(w, Msg(w)) /\ Msg(w) = worker[w].msg
        /\ UNCHANGED <<stage, rechecked>>
        /\ \A v \in Workers : v # w => worker'[v] = worker[v]
        /\ worker'[w].pc \in Busy => worker'[w].msg = Msg(w)
        /\ \A k \in checks' : k \in checks \/ (QueueCheck(w) /\ k.msg = Msg(w))
        /\ checks \subseteq checks'
    BY Proceeds DEF Doing, Msg
  <1>2. CASE Msg(w) # m
    <2>1. \A v \in Workers : Doing(v, m)' => Doing(v, m) /\ worker'[v] = worker[v]
      BY <1>1, <1>2 DEF Doing
    <2>2. status'[m] = status[m]
      BY <1>2, Proceeds
    <2>3. \A k \in checks' : k.msg = m => k \in checks
      BY <1>1, <1>2
    <2>4. Asked(m)' => Asked(m)
      BY <2>3 DEF Asked
    <2>. QED
      BY <1>1, <2>1, <2>2, <2>3, <2>4 DEF Answered
  <1>3. CASE Msg(w) = m
    <2>1. \A v \in Workers : Doing(v, m)' => v = w
      BY <1>1, <1>3 DEF FirstClaim, Doing
    <2>2. stage[m] \notin {"none", "committed"}
      BY <1>1, <1>3, BusyJob DEF Doing, Copying, Held, Unpublished
    <2>3. CASE QueueCheck(w)
      <3>1. /\ ~Asked(m) /\ status[m] = "sent" /\ status' = status
            /\ worker'[w].pc \notin Deciding \union Decided
        BY <1>1, <1>3, <2>3, Stepped DEF Answered, QueueCheck, Decided, Deciding, rowVars, Busy
      <3>2. \A k \in checks' : k.msg = m => k = [msg |-> m, tries |-> 0]
        BY <1>3, <2>3, <3>1 DEF QueueCheck, Asked
      <3>. QED
        BY <1>1, <2>1, <2>2, <3>1, <3>2 DEF Answered, Settled
    <2>4. CASE ~QueueCheck(w)
      <3>1. checks' = checks /\ (Asked(m)' <=> Asked(m))
        BY <1>1, <2>4 DEF Asked
      <3>2. Asked(m) => status'[m] = status[m]
        <4>1. CASE Read(w) \/ CallProvider(w) \/ Erase(w) \/ Finish(w)
          BY <4>1 DEF Read, CallProvider, Erase, Finish, rowVars
        <4>2. CASE Lapse(w) \/ RecordSent(w) \/ RecordFailed(w)
          BY <1>1, <1>3, <4>2 DEF Lapse, RecordSent, RecordFailed, Deciding, Answered
        <4>. QED
          BY <2>4, <4>1, <4>2 DEF Proceed
      <3>3. ASSUME Doing(w, m)'
            PROVE  /\ worker'[w].pc \in Deciding =>
                          ~Asked(m)' /\ status'[m] \in {"pending", "failed"}
                   /\ worker'[w].pc \in Decided => ~Asked(m)' /\ status'[m] = "sent"
        <4>1. worker'[w].pc \in Busy
          BY <3>3 DEF Doing
        <4>2. CASE /\ worker[w].pc \in Deciding /\ worker'[w].pc \in Deciding
                   /\ UNCHANGED <<status, checks>>
          BY <1>1, <1>3, <3>1, <4>2 DEF Answered, Deciding, Decided
        <4>3. CASE RecordSent(w) /\ worker[w].pc \in Deciding /\ worker'[w].pc = "erasing"
          BY <1>1, <1>3, <3>1, <4>3 DEF Answered, Deciding, Decided, RecordSent, TypeOK
        <4>4. CASE Erase(w) /\ worker[w].pc = "erasing" /\ worker'[w].pc = "queueing"
          BY <1>1, <1>3, <3>1, <4>4 DEF Answered, Deciding, Decided, Erase
        <4>. QED
          BY <4>1, <4>2, <4>3, <4>4, OwnPlace
      <3>. QED
        BY <1>1, <2>1, <2>2, <3>1, <3>2, <3>3 DEF Answered
    <2>. QED
      BY <2>3, <2>4
  <1>. QED
    BY <1>2, <1>3

LEMMA ClaimAnswered ==
    ASSUME TypeOK, NEW w \in Workers, NEW c \in Copies, Claim(w, c),
           NEW m \in Messages, FirstClaim(m), m \notin takeovers', Answered(m)
    PROVE  Answered(m)'
  <1>. DEFINE n == copy[c].msg
  <1>1. /\ worker'[w] = [pc |-> "claimed", by |-> c, msg |-> n, text |-> "plain"]
        /\ \A v \in Workers : v # w => worker'[v] = worker[v]
        /\ worker[w] = Idle
        /\ UNCHANGED <<status, stage, checks, rechecked>>
        /\ Asked(m)' <=> Asked(m)
    BY DEF TypeOK, Claim, Asked
  <1>2. CASE n = m
    <2>1. status[m] = "pending" /\ ~Asked(m)
      BY <1>2 DEF Claim, Claimable, Answered, Settled
    <2>2. ~(age[m] > StaleAfter)
      BY <1>2 DEF TypeOK, Claim
    <2>3. \A v \in Workers : ~Doing(v, m)
      BY <1>2, <2>2 DEF Claim, Claimable, FirstClaim
    <2>. QED
      BY <1>1, <2>1, <2>3 DEF Answered, Doing, Deciding, Decided
  <1>3. CASE n # m
    <2>1. \A v \in Workers : Doing(v, m)' => Doing(v, m) /\ worker'[v] = worker[v]
      BY <1>1, <1>3 DEF Doing
    <2>. QED
      BY <1>1, <2>1 DEF Answered
  <1>. QED
    BY <1>2, <1>3

LEMMA StepAnswered ==
    ASSUME IInv, AllAnswered, [Next]_vars
    PROVE  AllAnswered'
  <1>. SUFFICES ASSUME NEW m \in Messages, m \notin takeovers' PROVE Answered(m)'
    BY DEF AllAnswered
  <1>0. TypeOK /\ Copying /\ FirstClaim(m) /\ Answered(m)
    BY TakeoversStay DEF IInv, Copying, Once, AllAnswered
  <1>1. CASE UNCHANGED vars \/ Tick
    BY <1>0, <1>1 DEF vars, Tick, rowVars, historyVars, Answered, Asked, Doing
  <1>2. ASSUME NEW w \in Workers, Crash(w)
        PROVE  Answered(m)'
    <2>1. /\ UNCHANGED <<status, stage, checks, rechecked>>
          /\ Asked(m)' <=> Asked(m)
          /\ \A v \in Workers : worker'[v] = worker[v] \/ worker'[v] = Idle
      BY <1>0, <1>2 DEF TypeOK, Crash, rowVars, Asked
    <2>2. \A v \in Workers : Doing(v, m)' => Doing(v, m) /\ worker'[v] = worker[v]
      BY <2>1 DEF Doing, Idle, Busy
    <2>. QED
      BY <1>0, <2>1, <2>2 DEF Answered
  <1>3. CASE \E w \in Workers, c \in Copies :
                Redeliver(w, c) \/ Retry(w, c) \/ Skip(w, c)
    BY <1>0, <1>3 DEF Redeliver, Retry, Skip, rowVars, historyVars, Answered, Asked, Doing
  <1>4. CASE \E w \in Workers, c \in Copies : Claim(w, c)
    BY <1>0, <1>4, ClaimAnswered
  <1>5. CASE \E n \in Messages : MessageStep(n)
    BY <1>0, <1>5, WebAnswered
  <1>6. CASE \E w \in Workers : Proceed(w)
    BY <1>0, <1>6, ProceedAnswered
  <1>7. CASE \E k \in Check : Poll(k)
    BY <1>0, <1>7, CheckAnswered
  <1>. QED
    BY <1>1, <1>2, <1>3, <1>4, <1>5, <1>6, <1>7 DEF Next, Deliver

\* A delivered message is not decided on any more, and only a check that was
\* delivered again asks about it.
LEMMA DeliveredStep ==
    ASSUME IInv, AllAnswered, [Next]_vars, NEW m \in Messages,
           status[m] = "delivered", m \notin takeovers
    PROVE  status'[m] = "delivered" \/ (m \in rechecked /\ status'[m] = "failed")
  <1>0. /\ TypeOK /\ Answered(m)
        /\ m \notin rechecked => ~Asked(m)
        /\ stage[m] # "none"
        /\ \A w \in Workers : Doing(w, m) => worker[w].pc \notin Deciding
    BY DEF IInv, AllAnswered, Answered
  <1>1. CASE \E n \in Messages : MessageStep(n)
    BY <1>0, <1>1 DEF TypeOK, MessageStep, Send, PublishFails, FailUnqueued, BlankUnqueued, CleanUp,
       Expire, WebCrash, Publish, rowVars
  <1>2. ASSUME NEW w \in Workers, Proceed(w)
        PROVE  status'[m] = "delivered"
    <2>1. CASE Msg(w) # m
      BY <1>0, <1>2, <2>1, Proceeds
    <2>2. CASE Msg(w) = m
      <3>1. worker[w].pc \notin Deciding
        BY <1>0, <1>2, <2>2, Proceeds DEF Doing, Msg
      <3>. QED
        BY <1>2, <3>1 DEF Proceed, Read, Lapse, CallProvider, RecordSent, RecordFailed, Erase,
           QueueCheck, Finish, Deciding, rowVars
    <2>. QED
      BY <2>1, <2>2
  <1>3. ASSUME NEW k \in Check, Poll(k)
        PROVE  status'[m] = "delivered" \/ (m \in rechecked /\ status'[m] = "failed")
    <2>1. CASE k.msg = m
      <3>1. m \in rechecked
        BY <1>0, <1>3, <2>1 DEF Asked, Poll
      <3>. QED
        BY <1>0, <1>3, <2>1, <3>1 DEF TypeOK, Poll, Verdict
    <2>2. CASE k.msg # m
      BY <1>0, <1>3, <2>2 DEF TypeOK, Poll, Verdict
    <2>. QED
      BY <2>1, <2>2
  <1>4. CASE UNCHANGED status
    BY <1>4
  <1>. QED
    BY <1>1, <1>2, <1>3, <1>4 DEF Next, vars, Deliver, Claim, Retry, Skip, Crash, Redeliver, Tick,
       rowVars

-----------------------------------------------------------------------------
(* The theorems.                                                           *)

\* The inductive invariant: every busy worker holds a copy of its own, a
\* task exists only for a published row, and a claim that was not taken over
\* has one worker, one text and at most one call to the provider.
THEOREM SmsInvariance == Spec => []IInv
  <1>1. IInv /\ [Next]_vars => IInv'
    BY StepTyped, StepCopying, StepBegun, StepOnce DEF IInv, Copying
  <1>. QED
    BY <1>1, InitInv, PTL DEF Spec

\* The columns, the queue and the workers keep their types: no task is held
\* or given back that is not there.
THEOREM SmsTyped == Spec => []TypeOK
  <1>1. IInv => TypeOK
    BY DEF IInv
  <1>. QED
    BY <1>1, SmsInvariance, PTL

\* Late acknowledgement, redelivery, retries and crashes never send a text
\* twice as long as no claim is taken over.
THEOREM OneSend == Spec => []NoDoubleSend
  <1>1. IInv => NoDoubleSend
    BY DEF IInv, Once, FirstClaim, NoDoubleSend
  <1>. QED
    BY <1>1, SmsInvariance, PTL

\* A worker that was not let in by a takeover never sends an erased text,
\* unless the web process erased it because the broker took the task and
\* answered with an error (`_enqueue`).
THEOREM SentAsWritten == Spec => []PlainTextSent
  <1>1. ASSUME IInv, NEW w \in Workers, worker[w].pc = "sending", worker[w].text = "redacted"
        PROVE  Msg(w) \in takeovers \/ stage[Msg(w)] = "unqueued"
    <2>1. Doing(w, Msg(w)) /\ Msg(w) \in Messages
      BY <1>1, BusyJob DEF IInv, Doing, Msg, Busy
    <2>. QED
      BY <1>1, <2>1 DEF IInv, Once, FirstClaim
  <1>2. IInv => PlainTextSent
    BY <1>1 DEF PlainTextSent
  <1>. QED
    BY <1>2, SmsInvariance, PTL

\* The text of a code does not outlast its outcome, but for a process that
\* dies between the outcome and the erasure: `process` and `_enqueue` erase
\* in a statement of their own.
THEOREM SecretsErased == Spec => []ErasedOrErasing
  <1>1. Init => Erasure
    <2>. SUFFICES ASSUME Init, NEW m \in Sensitive PROVE Erasing(m)
      BY DEF Erasure
    <2>1. m \in Messages
      BY SensitiveType
    <2>2. checks = {} /\ status[m] = "none" /\ \A w \in Workers : worker[w].pc = "idle"
      BY <2>1 DEF Init, Idle
    <2>. QED
      BY <2>2 DEF Erasing, Settled
  <1>2. IInv /\ Erasure /\ [Next]_vars => Erasure'
    BY StepErasure DEF IInv
  <1>3. Erasure => ErasedOrErasing
    BY DEF Erasure, Erasing, ErasedOrErasing
  <1>. QED
    BY <1>1, <1>2, <1>3, SmsInvariance, PTL DEF Spec

\* What the provider said of a delivered message is written over only by a
\* worker whose claim was taken over, or by a check that was delivered again
\* (refresh_delivery_status does not look at the status before it asks).
THEOREM DeliveryIsFinal == Spec => DeliveredStays
  <1>1. Init => AllAnswered
    BY DEF Init, AllAnswered, Answered, Asked, Doing, Idle, Busy
  <1>2. IInv /\ AllAnswered /\ [Next]_vars => AllAnswered'
    BY StepAnswered
  <1>3. IInv /\ AllAnswered /\ [Next]_vars =>
            [\A m \in Messages :
                status[m] = "delivered" /\ status'[m] # "delivered" =>
                    m \in takeovers \/ (m \in rechecked /\ status'[m] = "failed")]_vars
    BY DeliveredStep
  <1>. QED
    BY <1>1, <1>2, <1>3, SmsInvariance, PTL DEF Spec, DeliveredStays

=============================================================================
