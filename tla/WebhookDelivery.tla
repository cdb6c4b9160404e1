--------------------------- MODULE WebhookDelivery ---------------------------
(***************************************************************************)
(* Outbound webhooks (modules/webhook/webhook.service,                     *)
(* queue/processors/webhook.processor, common/utils/concurrency-limiter).  *)
(*                                                                         *)
(* Every event of a session is delivered to each webhook that matches it.  *)
(* A delivery takes a slot of a limiter, runs the plugins' hook and is     *)
(* POSTed with retries, or put on the queue for the worker to do so.  What *)
(* cannot be delivered leaves a row in webhook_delivery_failures.  The     *)
(* process may be stopped, with a bounded drain, or die.                   *)
(*                                                                         *)
(* One action is the code between two awaits.  Deliveries share nothing    *)
(* but the limiter; which event and webhook one is for is left out, and so *)
(* are payload, signature and the hooks that only observe.                 *)
(***************************************************************************)
EXTENDS Naturals, FiniteSets, Sequences

CONSTANTS
  Deliveries,   \* one per event and matching webhook
  MaxActive,    \* webhook.dispatchConcurrency
  Settings,     \* the values of queue.enabled and webhook.dispatchMaxQueued to look at
  RetryCount,   \* webhook.retryCount
  MaxFaults,    \* bound: how often something in Faults happens
  Faults        \* the failures of this instance

AllFaults == {"crash", "stop", "db", "redis"}

ASSUME WebhookAssumption ==
  /\ IsFiniteSet(Deliveries)
  /\ Settings \subseteq BOOLEAN \X Nat
  /\ MaxActive \in Nat \ {0}
  /\ RetryCount \in Nat /\ MaxFaults \in Nat
  /\ Faults \subseteq AllFaults

VARIABLES
  queued,       \* queueEnabled
  maxQueued,    \* ConcurrencyLimiter.maxQueued
  up,           \* the process: "up", "draining" (onModuleDestroy) or "drained"
  active,       \* ConcurrencyLimiter.active
  waiting,      \* ConcurrencyLimiter.waiters
  pc,           \* the await each delivery is at
  attempt,      \* the attempt its direct path is at
  job,          \* its BullMQ job
  made,         \* job.attemptsMade
  stalled,      \* its worker died once
  vetoed,       \* a plugin cancelled it
  posts,        \* (history) how often it was POSTed
  confirmed,    \* (history) how many of them the receiver answered with 2xx
  failures,     \* its rows in webhook_delivery_failures
  told,         \* the deliveries that the drain has logged as abandoned
  faults,       \* how many failures have happened
  gap           \* (history) what happened to it that may lose or repeat a delivery

vars == <<queued, maxQueued, up, active, waiting, pc, attempt, job, made, stalled, vetoed, posts, confirmed,
          failures, told, faults, gap>>
limiter == <<active, waiting>>
task == <<limiter, attempt>>
queue == <<job, made, stalled>>
outcome == <<posts, confirmed, failures>>
config == <<queued, maxQueued>>
process == <<config, up, told>>

\* In the body of the limiter's task, and so in inFlightDeliveries, ...
InBody == {"hook", "unsent", "add", "post", "stamp", "sleep", "lost"}
\* ... or about to begin it with the slot it was handed.
InSlot == InBody \cup {"woken"}
Pcs == InSlot \cup {"new", "parked", "full", "closed", "done"}
Running == {"active", "stamp", "dying", "recorded"}
JobStates == Running \cup {"none", "waiting", "exhausted", "burying", "completed", "failed"}
Gaps == {"crash", "db", "redis", "stall", "abandoned", "parked", "record", "running"}

Init ==
  /\ \E s \in Settings : queued = s[1] /\ maxQueued = s[2]
  /\ up = "up"
  /\ active = 0 /\ waiting = <<>>
  /\ pc = [d \in Deliveries |-> "new"]
  /\ attempt = [d \in Deliveries |-> 1]
  /\ job = [d \in Deliveries |-> "none"]
  /\ made = [d \in Deliveries |-> 0]
  /\ stalled = [d \in Deliveries |-> FALSE]
  /\ vetoed = [d \in Deliveries |-> FALSE]
  /\ posts = [d \in Deliveries |-> 0]
  /\ confirmed = posts /\ failures = posts
  /\ told = {} /\ faults = 0
  /\ gap = [d \in Deliveries |-> {}]

-----------------------------------------------------------------------------
(* What the steps share *)

Spend(f) == f \in Faults /\ faults < MaxFaults /\ faults' = faults + 1
Note(d, g) == gap' = [gap EXCEPT ![d] = @ \cup {g}]
Goto(d, l) == pc' = [pc EXCEPT ![d] = l]
Count(f, d) == [f EXCEPT ![d] = @ + 1]

\* recordWebhookDeliveryFailure: an insert whose failure is only logged.
Record(d) ==
  \/ failures' = Count(failures, d) /\ UNCHANGED <<faults, gap>>
  \/ Spend("db") /\ Note(d, "db") /\ UNCHANGED failures

-----------------------------------------------------------------------------
(* dispatch and the limiter *)

\* close() is for the direct mode: a parked enqueue is worth finishing.
Closed == ~queued /\ up \in {"draining", "drained"}

Admit(d) ==
  IF Closed THEN Goto(d, "closed") /\ UNCHANGED limiter
  ELSE IF active < MaxActive THEN Goto(d, "hook") /\ active' = active + 1 /\ UNCHANGED waiting
  ELSE IF Len(waiting) >= maxQueued THEN Goto(d, "full") /\ UNCHANGED limiter
  ELSE Goto(d, "parked") /\ waiting' = Append(waiting, d) /\ UNCHANGED active

\* An event happens: its webhooks are looked up and each delivery enters the limiter, ...
Dispatch(d) ==
  /\ pc[d] = "new"
  /\ Admit(d)
  /\ UNCHANGED <<process, attempt, queue, vetoed, outcome, faults, gap>>

\* ... or the lookup throws and the event is dropped.
LookupFails(d) ==
  /\ pc[d] = "new"
  /\ Spend("db") /\ Note(d, "db") /\ Goto(d, "done")
  /\ UNCHANGED <<process, task, queue, vetoed, outcome>>

\* The end of a task hands its slot to the first waiter, or frees it.
WakeNobody(d) == Goto(d, "done") /\ active' = active - 1 /\ UNCHANGED waiting
WakeAndFree(d) ==
  /\ active' = active - 1
  /\ IF waiting = <<>> THEN Goto(d, "done") /\ UNCHANGED waiting
     ELSE pc' = [pc EXCEPT ![d] = "done", ![Head(waiting)] = "woken"] /\ waiting' = Tail(waiting)
HandOver(d) ==
  IF waiting = <<>> THEN Goto(d, "done") /\ active' = active - 1 /\ UNCHANGED waiting
  ELSE /\ pc' = [pc EXCEPT ![d] = "done", ![Head(waiting)] = "woken"]
       /\ waiting' = Tail(waiting) /\ UNCHANGED active
Leave(d) == HandOver(d) /\ attempt' = [attempt EXCEPT ![d] = 1]

Resume(d) ==
  /\ pc[d] = "woken" /\ Goto(d, "hook")
  /\ UNCHANGED <<process, task, queue, vetoed, outcome, faults, gap>>

-----------------------------------------------------------------------------
(* deliverOne *)

\* preflightDelivery: a plugin may cancel, or leave a payload that cannot be sent.
Preflight(d) ==
  /\ pc[d] = "hook"
  /\ \/ Goto(d, IF queued THEN "add" ELSE "post") /\ UNCHANGED <<task, vetoed>>
     \/ Goto(d, "unsent") /\ UNCHANGED <<task, vetoed>>
     \/ Leave(d) /\ vetoed' = [vetoed EXCEPT ![d] = TRUE]
  /\ UNCHANGED <<process, queue, outcome, faults, gap>>

\* recordUndelivered for the two that hold no slot, ...
RecordRefused(d) ==
  /\ pc[d] \in {"full", "closed"} /\ Goto(d, "done")
  /\ Record(d)
  /\ UNCHANGED <<process, task, queue, vetoed, posts, confirmed>>

\* ... and for the ones that do: a failed preflight, a last attempt.
RecordLost(d) ==
  /\ pc[d] \in {"unsent", "lost"} /\ Leave(d)
  /\ Record(d)
  /\ UNCHANGED <<process, queue, vetoed, posts, confirmed>>

\* enqueueWithFallback: Redis takes the job, ...
Taken(d) ==
  /\ pc[d] = "add" /\ job[d] = "none"
  /\ job' = [job EXCEPT ![d] = "waiting"]
  /\ UNCHANGED <<process, task, pc, made, stalled, vetoed, outcome, faults, gap>>

AddResolves(d) ==
  /\ pc[d] = "add" /\ job[d] # "none"
  /\ Leave(d)
  /\ UNCHANGED <<process, queue, vetoed, outcome, faults, gap>>

\* ... or add rejects, perhaps although it did: deliver directly.
AddRejects(d) ==
  /\ pc[d] = "add" /\ Spend("redis")
  /\ IF job[d] = "none" THEN UNCHANGED gap ELSE Note(d, "redis")
  /\ Goto(d, "post")
  /\ UNCHANGED <<process, task, queue, vetoed, outcome>>

-----------------------------------------------------------------------------
(* deliverWebhook: the direct path *)

PostSucceeds(d) ==
  /\ pc[d] = "post" /\ Goto(d, "stamp")
  /\ posts' = Count(posts, d) /\ confirmed' = Count(confirmed, d)
  /\ UNCHANGED <<process, task, queue, vetoed, failures, faults, gap>>

\* lastTriggeredAt: the delivery has succeeded even if the update throws.
StampThrowsOn(d) == Goto(d, IF attempt[d] < RetryCount THEN "sleep" ELSE "lost") /\ UNCHANGED task
StampThrows(d) == Leave(d)
Stamp(d) ==
  /\ pc[d] = "stamp"
  /\ \/ Leave(d) /\ UNCHANGED faults
     \/ Spend("db") /\ StampThrows(d)
  /\ UNCHANGED <<process, queue, vetoed, outcome, gap>>

\* Any other answer, or none before the timeout.
PostFails(d) ==
  /\ pc[d] = "post"
  /\ Goto(d, IF attempt[d] < RetryCount THEN "sleep" ELSE "lost")
  /\ posts' = Count(posts, d)
  /\ UNCHANGED <<process, task, queue, vetoed, confirmed, failures, faults, gap>>

Retry(d) ==
  /\ pc[d] = "sleep" /\ Goto(d, "post")
  /\ attempt' = Count(attempt, d)
  /\ UNCHANGED <<process, limiter, queue, vetoed, outcome, faults, gap>>

-----------------------------------------------------------------------------
(* WebhookProcessor: the worker *)

JobTo(d, s) == job' = [job EXCEPT ![d] = s]
work == <<process, task, pc, stalled, vetoed>>

JobStarts(d) ==
  /\ job[d] = "waiting" /\ JobTo(d, "active")
  /\ UNCHANGED <<work, made, outcome, faults, gap>>

JobAnswered(d) ==
  /\ job[d] = "active" /\ JobTo(d, "stamp")
  /\ posts' = Count(posts, d) /\ confirmed' = Count(confirmed, d)
  /\ UNCHANGED <<work, made, failures, faults, gap>>

\* The bookkeeping never throws back; then BullMQ completes the job.
JobCompletes(d) ==
  /\ job[d] = "stamp" /\ JobTo(d, "completed")
  /\ UNCHANGED <<work, made, outcome, faults, gap>>

\* recordDeliveryFailure acts on the final attempt only; BullMQ retries the others after a backoff.
IsFinalAttempt(d) == made[d] + 1 >= RetryCount
JobFails(d) ==
  /\ job[d] = "active"
  /\ posts' = Count(posts, d)
  /\ IF IsFinalAttempt(d) THEN JobTo(d, "dying") /\ UNCHANGED made
     ELSE JobTo(d, "waiting") /\ made' = Count(made, d)
  /\ UNCHANGED <<work, confirmed, failures, faults, gap>>

JobRecords(d) ==
  /\ job[d] = "dying" /\ JobTo(d, "recorded")
  /\ Record(d)
  /\ UNCHANGED <<work, made, posts, confirmed>>

JobBuried(d) ==
  /\ job[d] = "recorded" /\ JobTo(d, "failed")
  /\ UNCHANGED <<work, made, outcome, faults, gap>>

\* onWorkerFailed: a job that stalled twice is failed without process.
StallUnheard(d) == JobTo(d, "failed")
StallHeard(d) == JobTo(d, "burying")
StallFails(d) ==
  /\ job[d] = "exhausted" /\ StallHeard(d)
  /\ UNCHANGED <<work, made, outcome, faults, gap>>

StallRecords(d) ==
  /\ job[d] = "burying" /\ JobTo(d, "failed")
  /\ Record(d)
  /\ UNCHANGED <<work, made, posts, confirmed>>

-----------------------------------------------------------------------------
(* onModuleDestroy, and the end of the process *)

Stop ==
  /\ up = "up" /\ Spend("stop")
  /\ up' = "draining"
  /\ IF queued THEN UNCHANGED <<waiting, pc>>
     ELSE /\ pc' = [d \in Deliveries |-> IF pc[d] = "parked" THEN "closed" ELSE pc[d]]
          /\ waiting' = <<>>
  /\ UNCHANGED <<config, told, active, attempt, queue, vetoed, outcome, gap>>

\* Nothing is active and no record of a closed one is being written, or the time is over: what is in
\* flight is logged.
DrainEnds ==
  /\ up = "draining" /\ \A d \in Deliveries : pc[d] # "woken"
  /\ up' = "drained" /\ told' = {d \in Deliveries : pc[d] \in InBody}
  /\ UNCHANGED <<config, task, pc, queue, vetoed, outcome, faults, gap>>

\* Whatever is in memory is gone; a running job is given back once, then only failed.  The next
\* process starts.
Lost(d) == pc[d] \notin {"new", "done"} \/ job[d] = "burying"
Dies ==
  /\ up' = "up" /\ told' = {}
  /\ active' = 0 /\ waiting' = <<>> /\ attempt' = [d \in Deliveries |-> 1]
  /\ pc' = [d \in Deliveries |-> IF pc[d] = "new" THEN "new" ELSE "done"]
  /\ job' = [d \in Deliveries |->
       IF job[d] \in Running THEN (IF stalled[d] THEN "exhausted" ELSE "waiting")
       ELSE IF job[d] = "burying" THEN "failed" ELSE job[d]]
  /\ stalled' = [d \in Deliveries |-> stalled[d] \/ job[d] \in Running]
  /\ UNCHANGED <<config, made, vetoed, outcome>>

Stalls(d) == IF job[d] \in Running THEN {"stall"} ELSE {}

Crash ==
  /\ Spend("crash") /\ Dies
  /\ gap' = [d \in Deliveries |-> gap[d] \cup Stalls(d) \cup (IF Lost(d) THEN {"crash"} ELSE {})]

\* What an orderly exit leaves behind.
Untold(d) ==
  IF d \in told THEN "abandoned"
  ELSE IF pc[d] = "parked" THEN "parked"
  ELSE IF pc[d] \in {"full", "closed"} \/ job[d] = "burying" THEN "record" ELSE "running"
Exit ==
  /\ up = "drained" /\ Dies /\ UNCHANGED faults
  /\ gap' = [d \in Deliveries |-> gap[d] \cup Stalls(d) \cup (IF Lost(d) THEN {Untold(d)} ELSE {})]

-----------------------------------------------------------------------------
(* The specification *)

Continue(d) ==
  \/ Resume(d) \/ Preflight(d) \/ RecordRefused(d) \/ RecordLost(d)
  \/ AddResolves(d) \/ AddRejects(d)
  \/ PostSucceeds(d) \/ Stamp(d) \/ PostFails(d) \/ Retry(d)
Worker(d) ==
  \/ JobStarts(d) \/ JobAnswered(d) \/ JobCompletes(d) \/ JobFails(d) \/ JobRecords(d) \/ JobBuried(d)
  \/ StallFails(d) \/ StallRecords(d)

Next ==
  \/ \E d \in Deliveries : Dispatch(d) \/ LookupFails(d) \/ Continue(d) \/ Taken(d) \/ Worker(d)
  \/ Stop \/ DrainEnds \/ Crash \/ Exit

Spec == Init /\ [][Next]_vars

\* A fetch has its timeout and a plugin's hook its own, the database and Redis answer or fail,
\* and the drain is bounded.
Fairness ==
  /\ \A d \in Deliveries : WF_vars(Continue(d)) /\ WF_vars(Taken(d)) /\ WF_vars(Worker(d))
  /\ WF_vars(DrainEnds) /\ WF_vars(Exit)
FairSpec == Spec /\ Fairness

-----------------------------------------------------------------------------
(* Properties *)

TypeOK ==
  /\ queued \in BOOLEAN /\ maxQueued \in Nat /\ up \in {"up", "draining", "drained"}
  /\ active \in Nat /\ waiting \in Seq(Deliveries)
  /\ pc \in [Deliveries -> Pcs] /\ attempt \in [Deliveries -> Nat \ {0}]
  /\ job \in [Deliveries -> JobStates] /\ made \in [Deliveries -> Nat]
  /\ stalled \in [Deliveries -> BOOLEAN] /\ vetoed \in [Deliveries -> BOOLEAN]
  /\ posts \in [Deliveries -> Nat] /\ confirmed \in [Deliveries -> Nat] /\ failures \in [Deliveries -> Nat]
  /\ told \subseteq Deliveries /\ faults \in Nat
  /\ gap \in [Deliveries -> SUBSET Gaps]

\* The limiter neither leaks nor invents a slot: as many are taken as tasks hold one, never more than
\* the limit, and somebody waits only while all are taken, so that a task that ends will wake them
\* (ConcurrencyLimiter.run: the handoff of a slot, and close()).
Holders == {d \in Deliveries : pc[d] \in InSlot}
LimiterSound ==
  /\ active = Cardinality(Holders) /\ active <= MaxActive
  /\ Len(waiting) <= maxQueued
  /\ waiting # <<>> => active = MaxActive
  /\ \A d \in Deliveries : pc[d] = "parked" <=> \E i \in DOMAIN waiting : waiting[i] = d

\* Once nothing works on it any more, a delivery that no plugin cancelled has reached its receiver or
\* has a failure row, whatever failed in between, on either path.  The known ways to lose one: a
\* crash, a database error, a delivery that the drain logged as abandoned, and a failure row that was
\* still being written at the exit.  With the queue, an exit also drops without a word the
\* deliveries that are parked, or that began after the drain's log.
Settled(d) == pc[d] = "done" /\ job[d] \in {"none", "completed", "failed"}
KnownLosses == {"crash", "db", "abandoned", "record"} \cup (IF queued THEN {"parked", "running"} ELSE {})
NothingVanishes ==
  \A d \in Deliveries : Settled(d) =>
    vetoed[d] \/ confirmed[d] > 0 \/ failures[d] > 0 \/ gap[d] \cap KnownLosses # {}

\* A delivery has one outcome: it is POSTed at most as often as its webhook allows, not again once the
\* receiver said 2xx, and has a failure row only without that answer, one at most.  Only an add that
\* rejected although Redis took the job, and a worker that died, repeat one.
Attempts == IF RetryCount = 0 THEN 1 ELSE RetryCount
OneOutcome ==
  \A d \in Deliveries :
    /\ gap[d] \cap {"redis", "stall"} = {} => confirmed[d] + failures[d] <= 1 /\ posts[d] <= Attempts
    /\ posts[d] <= 2 * Attempts + 1

\* Every delivery that was dispatched comes to its end: none stays parked behind a slot that nobody
\* frees, and none is retried for ever.
EverySettles == \A d \in Deliveries : pc[d] # "new" ~> Settled(d)
=============================================================================
