------------------------------ MODULE SmsQueue ------------------------------
(***************************************************************************)
(* How a text message reaches the provider (domains/notifications): the    *)
(* row is committed first, a task is published after the commit, a worker  *)
(* claims the row, calls the provider and records the outcome, and a text  *)
(* that holds a one-time code is erased.                                   *)
(*                                                                         *)
(* The broker delivers at least once: tasks are acknowledged late, a lost  *)
(* worker's task comes back, and a slow worker's task may be delivered to  *)
(* another worker as well.  Every statement of `_enqueue` and `process`    *)
(* commits on its own, so every statement is a step.  A delivery check is  *)
(* one step: what the provider answered is open when it is written.        *)
(* Time passes in minutes.                                                 *)
(***************************************************************************)
EXTENDS Integers

CONSTANTS
    Messages,
    Sensitive,      \* the messages whose text must not stay in the database
    Workers,
    Copies,         \* deliveries of send tasks the broker may hold at once
    StaleAfter,     \* minutes after which a claim may be taken over
    MaxRetries,     \* retries of send_sms_notification, a minute apart
    MaxPolls,       \* retries of refresh_sms_delivery_status
    MaxCrashes      \* bound: processes that die

ASSUME SensitiveType == Sensitive \subseteq Messages
ASSUME LimitType ==
    /\ StaleAfter \in Nat /\ MaxRetries \in Nat
    /\ MaxPolls \in Nat /\ MaxCrashes \in Nat

VARIABLES
    status,     \* SentNotification.status, "none" before the row exists
    text,       \* its message: "plain" or "redacted"
    age,        \* minutes since started_at, Unclaimed when it is null
    expired,    \* the messages whose expires_at has passed
    cleanup,    \* the messages expire_sensitive_notification is queued for
    stage,      \* stage[m]: how far the web process is with m
    copy,       \* copy[c]: a delivery of a send task, or NoCopy
    worker,     \* worker[w]: what it does, with which copy and which text
    checks,     \* the delivery checks the broker holds, alike ones taken as one
    crashes,    \* processes that died so far
    sends,      \* history: how often the provider took the message
    takeovers,  \* history: how often a stale claim was taken over
    rechecked,  \* history: messages one of whose checks was delivered again
    abandoned   \* history: messages whose text a process died over

rowVars == <<status, text, age>>
clockVars == <<expired, cleanup, crashes>>
historyVars == <<sends, takeovers, rechecked, abandoned>>
vars == <<rowVars, clockVars, stage, copy, worker, checks, historyVars>>

Unclaimed == -1
Settled == {"sent", "delivered", "failed"}

NoCopy == [state |-> "none"]
Task(m, s, n) == [state |-> s, msg |-> m, tries |-> n]
Idle == [pc |-> "idle"]

\* Where a worker is in process: it has claimed the row, read it, has the
\* provider's answer, or has recorded it and has still to erase the text.
Busy == {"claimed", "lapsed", "sending", "taken", "refused", "erasing", "blanking",
         "queueing", "ending"}
Job == [pc : Busy, by : Copies, msg : Messages, text : {"plain", "redacted"}]
Delivery == [state : {"ready", "waiting", "held"}, msg : Messages, tries : 0..MaxRetries]

Check == [msg : Messages, tries : 0..MaxPolls]   \* a delivery of a check

Doing(w, m) == worker[w].pc \in Busy /\ worker[w].msg = m

-----------------------------------------------------------------------------
Init ==
    /\ status = [m \in Messages |-> "none"]
    /\ text = [m \in Messages |-> "plain"]
    /\ age = [m \in Messages |-> Unclaimed]
    /\ expired = {} /\ cleanup = {}
    /\ stage = [m \in Messages |-> "none"]
    /\ copy = [c \in Copies |-> NoCopy]
    /\ worker = [w \in Workers |-> Idle]
    /\ checks = {}
    /\ crashes = 0
    /\ sends = [m \in Messages |-> 0]
    /\ takeovers = {}
    /\ rechecked = {} /\ abandoned = {}

-----------------------------------------------------------------------------
(* The web process.                                                        *)

\* SMSService.send commits the row.
Send(m) ==
    /\ stage[m] = "none"
    /\ stage' = [stage EXCEPT ![m] = "committed"]
    /\ status' = [status EXCEPT ![m] = "pending"]
    /\ UNCHANGED <<text, age, clockVars, copy, worker, checks, historyVars>>

\* _enqueue publishes the task, and for a message with a time limit the
\* cleanup, which may fail on its own.
Publish(m, c) ==
    /\ stage[m] = "committed"
    /\ copy[c] = NoCopy
    /\ stage' = [stage EXCEPT ![m] = "published"]
    /\ copy' = [copy EXCEPT ![c] = Task(m, "ready", 0)]
    /\ cleanup' \in {cleanup, cleanup \union ({m} \intersect Sensitive)}
    /\ UNCHANGED <<rowVars, expired, crashes, worker, checks, historyVars>>

\* apply_async raises: the broker is away, or its answer was lost and it has
\* the task.
PublishFails(m) ==
    /\ stage[m] = "committed"
    /\ stage' = [stage EXCEPT ![m] = "refused"]
    /\ \/ UNCHANGED copy
       \/ \E c \in Copies :
            copy[c] = NoCopy /\ copy' = [copy EXCEPT ![c] = Task(m, "ready", 0)]
    /\ UNCHANGED <<rowVars, clockVars, worker, checks, historyVars>>

\* The row fails if it is still pending.
FailUnqueued(m) ==
    /\ stage[m] = "refused"
    /\ stage' = [stage EXCEPT ![m] = "blanking"]
    /\ status' = [status EXCEPT ![m] = IF @ = "pending" THEN "failed" ELSE @]
    /\ UNCHANGED <<text, age, clockVars, copy, worker, checks, historyVars>>

\* A second statement erases a secret, whatever the status is.
BlankUnqueued(m) ==
    /\ stage[m] = "blanking"
    /\ stage' = [stage EXCEPT ![m] = "unqueued"]
    /\ text' = [text EXCEPT ![m] = IF m \in Sensitive THEN "redacted" ELSE @]
    /\ UNCHANGED <<status, age, clockVars, copy, worker, checks, historyVars>>

-----------------------------------------------------------------------------
(* A worker runs send_sms_notification.                                    *)

Msg(w) == worker[w].msg
Step(w, pc) == worker' = [worker EXCEPT ![w].pc = pc]

\* Mutants of Claimable: forgets started_at, or never gives a claim up.
ClaimableAgain(m) == status[m] = "pending"
ClaimableOnce(m) == status[m] = "pending" /\ age[m] = Unclaimed

\* Nobody works on the message, or whoever does is given up.
Claimable(m) ==
    /\ status[m] = "pending"
    /\ age[m] = Unclaimed \/ age[m] > StaleAfter

\* The conditional update of process.
Claim(w, c) ==
    /\ worker[w] = Idle
    /\ copy[c].state = "ready"
    /\ LET m == copy[c].msg IN
        /\ Claimable(m)
        /\ age' = [age EXCEPT ![m] = 0]
        /\ takeovers' = takeovers \union IF age[m] > StaleAfter THEN {m} ELSE {}
        /\ worker' = [worker EXCEPT
                ![w] = [pc |-> "claimed", by |-> c, msg |-> m, text |-> "plain"]]
    /\ copy' = [copy EXCEPT ![c].state = "held"]
    /\ UNCHANGED <<status, text, clockVars, stage, checks, sends, rechecked, abandoned>>

\* NotificationInProgress: the task is retried a minute later, MaxRetries
\* times, and then dropped.
Retry(w, c) ==
    /\ worker[w] = Idle
    /\ copy[c].state = "ready"
    /\ LET m == copy[c].msg IN
        /\ ~Claimable(m)
        /\ status[m] = "pending"
        /\ copy' = [copy EXCEPT ![c] =
                IF @.tries < MaxRetries THEN Task(m, "waiting", @.tries + 1) ELSE NoCopy]
    /\ UNCHANGED <<rowVars, clockVars, stage, worker, checks, historyVars>>

\* The message is settled: nothing to do.
Skip(w, c) ==
    /\ worker[w] = Idle
    /\ copy[c].state = "ready"
    /\ status[copy[c].msg] # "pending"
    /\ copy' = [copy EXCEPT ![c] = NoCopy]
    /\ UNCHANGED <<rowVars, clockVars, stage, worker, checks, historyVars>>

\* The claimed row is read; its status is not looked at.
Read(w) ==
    /\ worker[w].pc = "claimed"
    /\ worker' = [worker EXCEPT
            ![w].pc = IF Msg(w) \in expired THEN "lapsed" ELSE "sending",
            ![w].text = text[Msg(w)]]
    /\ UNCHANGED <<rowVars, clockVars, stage, copy, checks, historyVars>>

\* A message past its time limit fails unsent, in one update.
Lapse(w) ==
    /\ worker[w].pc = "lapsed"
    /\ status' = [status EXCEPT ![Msg(w)] = "failed"]
    /\ text' = [text EXCEPT ![Msg(w)] =
            IF Msg(w) \in Sensitive THEN "redacted" ELSE worker[w].text]
    /\ copy' = [copy EXCEPT ![worker[w].by] = NoCopy]
    /\ worker' = [worker EXCEPT ![w] = Idle]
    /\ UNCHANGED <<age, clockVars, stage, checks, historyVars>>

\* The provider takes the message, or the call fails, before or after the
\* provider took it.
CallProvider(w) ==
    /\ worker[w].pc = "sending"
    /\ \E taken \in {0, 1} :
        /\ sends' = [sends EXCEPT ![Msg(w)] = @ + taken]
        /\ \/ taken = 1 /\ Step(w, "taken")
           \/ Step(w, "refused")
    /\ UNCHANGED <<rowVars, clockVars, stage, copy, checks, takeovers, rechecked, abandoned>>

\* The outcome is written whatever the row says by now.
RecordSent(w) ==
    /\ worker[w].pc = "taken"
    /\ status' = [status EXCEPT ![Msg(w)] = "sent"]
    /\ Step(w, "erasing")
    /\ UNCHANGED <<text, age, clockVars, stage, copy, checks, historyVars>>

\* Mutant of RecordFailed: a failed message keeps its text.
RecordFailedOnly(w) ==
    /\ worker[w].pc = "refused"
    /\ status' = [status EXCEPT ![Msg(w)] = "failed"]
    /\ Step(w, "ending")
    /\ UNCHANGED <<text, age, clockVars, stage, copy, checks, historyVars>>

RecordFailed(w) ==
    /\ worker[w].pc = "refused"
    /\ status' = [status EXCEPT ![Msg(w)] = "failed"]
    /\ Step(w, "blanking")
    /\ UNCHANGED <<text, age, clockVars, stage, copy, checks, historyVars>>

\* A statement of its own erases the secret.
Erase(w) ==
    /\ worker[w].pc \in {"erasing", "blanking"}
    /\ text' = [text EXCEPT ![Msg(w)] = IF Msg(w) \in Sensitive THEN "redacted" ELSE @]
    /\ Step(w, IF worker[w].pc = "erasing" THEN "queueing" ELSE "ending")
    /\ UNCHANGED <<status, age, clockVars, stage, copy, checks, historyVars>>

\* A delivery check is queued for a message that was sent, unless the broker
\* is away.
QueueCheck(w) ==
    /\ worker[w].pc = "queueing"
    /\ checks' \in {checks, checks \union {[msg |-> Msg(w), tries |-> 0]}}
    /\ Step(w, "ending")
    /\ UNCHANGED <<rowVars, clockVars, stage, copy, historyVars>>

\* The task is acknowledged.
Finish(w) ==
    /\ worker[w].pc = "ending"
    /\ copy' = [copy EXCEPT ![worker[w].by] = NoCopy]
    /\ worker' = [worker EXCEPT ![w] = Idle]
    /\ UNCHANGED <<rowVars, clockVars, stage, checks, historyVars>>

-----------------------------------------------------------------------------
(* The delivery check and the cleanup.                                     *)

\* The retry of a check, a minute later: MaxPolls of them.
Again(k) == {r \in Check : r.msg = k.msg /\ r.tries = k.tries + 1}

\* The provider's verdict is written, whatever the status says by now.
Verdict(m) ==
    \E answer \in {"delivered", "failed", "unknown"} :
        status' = [status EXCEPT ![m] = IF answer = "unknown" THEN @ ELSE answer]

\* The broker forgets the delivery, or delivers it again, because its worker
\* was lost or is slow.
Acknowledge(k, next) ==
    \/ checks' = (checks \ {k}) \union next /\ UNCHANGED rechecked
    \/ checks' = checks \union next /\ rechecked' = rechecked \union {k.msg}

\* Mutant of Poll: goes on asking about a delivered message.
PollOn(k) ==
    /\ k \in checks
    /\ Verdict(k.msg)
    /\ Acknowledge(k, Again(k))
    /\ UNCHANGED <<text, age, clockVars, stage, copy, worker, sends, takeovers, abandoned>>

\* refresh_sms_delivery_status: asks again while the message is only sent, or
\* when the provider cannot be asked.
Poll(k) ==
    /\ k \in checks
    /\ \/ /\ Verdict(k.msg)
          /\ Acknowledge(k, IF status'[k.msg] = "sent" THEN Again(k) ELSE {})
       \/ Acknowledge(k, Again(k)) /\ UNCHANGED status
    /\ UNCHANGED <<text, age, clockVars, stage, copy, worker, sends, takeovers, abandoned>>

\* Mutant of CleanUp: runs before the time limit.
CleanUpEarly(m) ==
    /\ m \in cleanup
    /\ status[m] = "pending"
    /\ cleanup' = cleanup \ {m}
    /\ status' = [status EXCEPT ![m] = "failed"]
    /\ text' = [text EXCEPT ![m] = "redacted"]
    /\ UNCHANGED <<age, expired, crashes, stage, copy, worker, checks, historyVars>>

\* expire_sensitive_notification, five seconds after the time limit.
CleanUp(m) ==
    /\ m \in cleanup /\ m \in expired
    /\ cleanup' = cleanup \ {m}
    /\ \/ /\ status[m] = "pending"
          /\ status' = [status EXCEPT ![m] = "failed"]
          /\ text' = [text EXCEPT ![m] = "redacted"]
       \/ status[m] # "pending" /\ UNCHANGED <<status, text>>
    /\ UNCHANGED <<age, expired, crashes, stage, copy, worker, checks, historyVars>>

-----------------------------------------------------------------------------
(* Time and failures.                                                      *)

\* A minute passes: claims grow older and retries become due.
Tick ==
    /\ \E m \in Messages : age[m] \in 0..StaleAfter
       \/ \E c \in Copies : copy[c].state = "waiting"
    /\ age' = [m \in Messages |-> IF age[m] \in 0..StaleAfter THEN age[m] + 1 ELSE age[m]]
    /\ copy' = [c \in Copies |->
            IF copy[c].state = "waiting" THEN [copy[c] EXCEPT !.state = "ready"] ELSE copy[c]]
    /\ UNCHANGED <<status, text, clockVars, stage, worker, checks, historyVars>>

\* expires_at passes; only messages with a code have one.
Expire(m) ==
    /\ m \in Sensitive \ expired
    /\ stage[m] # "none"
    /\ expired' = expired \union {m}
    /\ UNCHANGED <<rowVars, cleanup, crashes, stage, copy, worker, checks, historyVars>>

\* The broker hands a task out again although its worker still runs.
Redeliver(w, c) ==
    /\ worker[w].pc \in Busy
    /\ copy[c] = NoCopy
    /\ copy' = [copy EXCEPT ![c] = Task(Msg(w), "ready", copy[worker[w].by].tries)]
    /\ UNCHANGED <<rowVars, clockVars, stage, worker, checks, historyVars>>

\* A worker dies; its task is rejected and delivered again.
Crash(w) ==
    /\ worker[w].pc \in Busy
    /\ crashes < MaxCrashes
    /\ crashes' = crashes + 1
    /\ copy' = [copy EXCEPT ![worker[w].by].state = "ready"]
    /\ worker' = [worker EXCEPT ![w] = Idle]
    /\ abandoned' = abandoned \union
            IF worker[w].pc \in {"erasing", "blanking"} THEN {Msg(w)} ELSE {}
    /\ UNCHANGED <<rowVars, expired, cleanup, stage, checks, sends, takeovers, rechecked>>

\* The web process dies after the commit, before it has done the rest.
WebCrash(m) ==
    /\ stage[m] \in {"committed", "refused", "blanking"}
    /\ crashes < MaxCrashes
    /\ crashes' = crashes + 1
    /\ stage' = [stage EXCEPT ![m] = "lost"]
    /\ abandoned' = abandoned \union IF stage[m] = "blanking" THEN {m} ELSE {}
    /\ UNCHANGED <<rowVars, expired, cleanup, copy, worker, checks, sends, takeovers, rechecked>>

-----------------------------------------------------------------------------
MessageStep(m) ==
    \/ Send(m) \/ \E c \in Copies : Publish(m, c)
    \/ PublishFails(m) \/ FailUnqueued(m) \/ BlankUnqueued(m) \/ WebCrash(m)
    \/ CleanUp(m) \/ Expire(m)

Deliver(w) == \E c \in Copies : Claim(w, c) \/ Retry(w, c) \/ Skip(w, c)

Proceed(w) ==
    \/ Read(w) \/ Lapse(w) \/ CallProvider(w) \/ RecordSent(w) \/ RecordFailed(w)
    \/ Erase(w) \/ QueueCheck(w) \/ Finish(w)

Next ==
    \/ \E m \in Messages : MessageStep(m)
    \/ \E w \in Workers : Deliver(w) \/ Proceed(w) \/ Crash(w)
    \/ \E w \in Workers, c \in Copies : Redeliver(w, c)
    \/ \E k \in Check : Poll(k)
    \/ Tick

Spec == Init /\ [][Next]_vars

\* Workers and the broker keep running, calls to the provider return, time
\* passes.  Nobody has to send.
Fairness ==
    /\ \A w \in Workers : WF_vars(Proceed(w))
    /\ WF_vars(\E w \in Workers : Deliver(w))
    /\ \A m \in Messages : WF_vars(CleanUp(m)) /\ WF_vars(Expire(m))
    /\ WF_vars(Tick)

FairSpec == Spec /\ Fairness

-----------------------------------------------------------------------------
TypeOK ==
    /\ status \in [Messages -> {"none", "pending"} \union Settled]
    /\ text \in [Messages -> {"plain", "redacted"}]
    /\ age \in [Messages -> Unclaimed..(StaleAfter + 1)]
    /\ expired \subseteq Messages /\ cleanup \subseteq Messages
    /\ stage \in [Messages ->
            {"none", "committed", "published", "refused", "blanking", "unqueued", "lost"}]
    /\ copy \in [Copies -> {NoCopy} \union Delivery]
    /\ worker \in [Workers -> {Idle} \union Job]
    /\ checks \subseteq Check
    /\ crashes \in 0..MaxCrashes
    /\ sends \in [Messages -> Nat] /\ takeovers \subseteq Messages
    /\ rechecked \subseteq Messages /\ abandoned \subseteq Messages

\* The provider takes a message twice only if its claim was taken over: late
\* acknowledgement, redelivery and retries alone never repeat a text.
NoDoubleSend == \A m \in Messages : m \notin takeovers => sends[m] <= 1

\* Nobody is sent the word "[redacted]", unless a claim was taken over or the
\* web process took a task the broker had for lost.
PlainTextSent ==
    \A w \in Workers :
        worker[w].pc = "sending" /\ worker[w].text = "redacted" =>
            Msg(w) \in takeovers \/ stage[Msg(w)] = "unqueued"

\* A settled message with a code is erased, or the process that settled it, a
\* worker or the web process, is about to do so, or it died over it.
ErasedOrErasing ==
    \A m \in Sensitive :
        status[m] \in Settled /\ text[m] = "plain" =>
            \/ \E w \in Workers : Doing(w, m) /\ worker[w].pc \in {"erasing", "blanking"}
            \/ stage[m] = "blanking"
            \/ m \in abandoned

\* There are two ways only in which a delivered message becomes anything else: a
\* worker that was given up writes what it knows, or a check that was delivered
\* again writes that the provider reports a failure after all.  No retry,
\* redelivered send task, cleanup or refused publication does it.
DeliveredStays ==
    [][\A m \in Messages :
        status[m] = "delivered" /\ status'[m] # "delivered" =>
            m \in takeovers \/ (m \in rechecked /\ status'[m] = "failed")]_vars

\* A published message settles although a worker dies: the retries of its
\* task outlast the claim the dead worker left.
PublishedSettles ==
    \A m \in Messages : stage[m] = "published" ~> status[m] \in Settled

=============================================================================
