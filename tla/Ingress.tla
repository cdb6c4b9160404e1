------------------------------- MODULE Ingress -------------------------------
(***************************************************************************)
(* Inbound deliveries of the OpenWA gateway (modules/integration,          *)
(* ingress.processor.ts).  A delivery is persisted before it is            *)
(* acknowledged, then handed to BullMQ or, without a queue, dispatched     *)
(* inline.  A sweep replays the events that stay pending, a worker runs    *)
(* the jobs, dead letters keep what could not be dispatched, and an        *)
(* operator may redrive those.                                             *)
(*                                                                         *)
(* Three callers share IngressEnqueueService.enqueue: the request of each  *)
(* delivery, the sweep and the redrive.  One action is the code between    *)
(* two awaits of a caller; the process may die between any two.  A job and *)
(* a dead letter are named by a pair <<delivery, number>>: job <<d, 0>>    *)
(* has the delivery id as its jobId, job <<d, k>> is redrive:<row k>.      *)
(* An event holds its payload exactly while it is pending: each write that *)
(* sets another state sets the payload to null.                            *)
(***************************************************************************)
EXTENDS Naturals, FiniteSets

CONSTANTS
  Deliveries,   \* deliveries of one instance, each with its request
  Modes,        \* may the queue be on (TRUE), off (FALSE)?
  MaxAttempts,  \* INGRESS_RECONCILE_MAX_ATTEMPTS
  JobAttempts,  \* INGRESS_MAX_ATTEMPTS
  MaxRows,      \* bound: dead letters of a delivery
  RedriveRows,  \* bound: a redrive starts while no delivery has more dead letters
  MaxFaults,    \* bound: how often something in Faults happens
  Faults        \* the failures of this instance

AllFaults == {"crash", "stall", "redis", "db", "workerDb", "toggle", "noBackoff"}

ASSUME IngressAssumption ==
  /\ Modes \subseteq BOOLEAN
  /\ MaxAttempts \in Nat \ {0} /\ JobAttempts \in Nat \ {0}
  /\ MaxRows \in Nat /\ RedriveRows \in Nat /\ MaxFaults \in Nat
  /\ Faults \subseteq AllFaults
  /\ {"sweep", "redrive"} \cap Deliveries = {}

VARIABLES
  queued,       \* queue.enabled, and the queue resolved
  enabled,      \* the instance is enabled
  state,        \* ingress_events.dispatchState, or "absent"
  attempts,     \* ingress_events.dispatchAttempts
  recent,       \* pending since, or last attempted, within the grace period (lastDispatchAt)
  job,          \* BullMQ's jobs
  made,         \* job.attemptsMade
  stalled,      \* the job has been recovered from a stall
  letter,       \* integration_delivery_failures: "none", "open", "redriven"
  pc,           \* the await each caller is at
  cur,          \* the job id that the sweep, or the redrive, is working on
  outcome,      \* what its enqueue returned
  todo,         \* the rest of the batch that the sweep, or the redrive, has read
  seen,         \* dispatchAttempts of the rows in the sweep's batch, as it read them
  faults,       \* how many failures have happened
  delivered,    \* (history) a dispatch of the delivery has resolved
  gap           \* (history) the known ways to lose a delivery it went through

vars == <<queued, enabled, state, attempts, recent, job, made, stalled, letter, pc, cur, outcome, todo,
          seen, faults, delivered, gap>>
event == <<state, attempts, recent>>
bull == <<job, made, stalled>>
batch == <<todo, seen>>
history == <<delivered, gap>>
env == <<queued, enabled>>

Batchers == {"sweep", "redrive"}
Callers == Deliveries \cup Batchers
Rows == Deliveries \X (1..MaxRows)
Jobs == Deliveries \X (0..MaxRows)
NoJob == <<>>
Running == {"active", "dying", "buried"}    \* "dying": about to save its dead letter; "buried": saved
Live == {"waiting", "active", "dying"}
JobStates == Running \cup {"none", "waiting", "completed", "failed"}
Pcs == {"idle", "next", "add", "inline", "count", "save", "mark", "retire"}

Letters(d) == {r \in Rows : r[1] = d /\ letter[r] # "none"}
Open(d) == {r \in Rows : r[1] = d /\ letter[r] = "open"}

Init ==
  /\ queued \in Modes /\ enabled = TRUE
  /\ state = [d \in Deliveries |-> "absent"]
  /\ attempts = [d \in Deliveries |-> 0]
  /\ recent = [d \in Deliveries |-> FALSE]
  /\ job = [j \in Jobs |-> "none"]
  /\ made = [j \in Jobs |-> 0]
  /\ stalled = [j \in Jobs |-> FALSE]
  /\ letter = [r \in Rows |-> "none"]
  /\ pc = [c \in Callers |-> "idle"]
  /\ cur = [b \in Batchers |-> NoJob]
  /\ outcome = [c \in Callers |-> "failed"]
  /\ todo = [b \in Batchers |-> {}]
  /\ seen = [d \in Deliveries |-> 0]
  /\ faults = 0
  /\ delivered = [d \in Deliveries |-> FALSE]
  /\ gap = [d \in Deliveries |-> {}]

(***************************************************************************)
(* What the steps share                                                    *)
(***************************************************************************)
Spend(f) == f \in Faults /\ faults < MaxFaults /\ faults' = faults + 1

At(c) == IF c \in Deliveries THEN <<c, 0>> ELSE cur[c]

(* The new dead letter of a delivery: rows are numbered as they are saved. *)
NewLetter(d) ==
  \E k \in 1..MaxRows :
    /\ \A i \in 1..MaxRows : letter[<<d, i>>] = "none" <=> k <= i
    /\ letter' = [letter EXCEPT ![<<d, k>>] = "open"]

(* BullMQ takes a job unless one with its id is still kept, whatever that one's state. *)
Added(j) == IF job[j] = "none" THEN [job EXCEPT ![j] = "waiting"] ELSE job

(* Caller c goes on to enqueue; a batcher takes j from its batch. *)
Launch(c) == pc' = [pc EXCEPT ![c] = IF queued THEN "add" ELSE "inline"]
Take(b, j) == cur' = [cur EXCEPT ![b] = j] /\ todo' = [todo EXCEPT ![b] = @ \ {j}]

(* A batcher is through with a row: on to the next, or the batch ends. *)
Loop(b) ==
  /\ pc' = [pc EXCEPT ![b] = IF todo[b] = {} THEN "idle" ELSE "next"]
  /\ cur' = [cur EXCEPT ![b] = NoJob]
  /\ outcome' = [outcome EXCEPT ![b] = "failed"]
  /\ seen' = IF b = "sweep" THEN [seen EXCEPT ![cur[b][1]] = 0] ELSE seen

Exhausted(d) == seen[d] + 1 >= MaxAttempts

(* enqueue returns o to caller c. *)
After(c, o) ==
  IF c = "sweep" /\ o = "failed" /\ Exhausted(cur[c][1]) THEN "count" ELSE "mark"
Returns(c, o) ==
  /\ outcome' = [outcome EXCEPT ![c] = o]
  /\ pc' = [pc EXCEPT ![c] = After(c, o)]

(***************************************************************************)
(* IngressEnqueueService.enqueue                                           *)
(***************************************************************************)
AddAccepted(c) ==
  /\ pc[c] = "add"
  /\ job' = Added(At(c))
  /\ Returns(c, "queued")
  /\ UNCHANGED <<env, event, made, stalled, letter, cur, batch, faults, history>>

(* add rejects, whether or not Redis took the job: on to the inline dispatch. *)
AddRejected(c) ==
  /\ pc[c] = "add" /\ Spend("redis")
  /\ job' \in {job, Added(At(c))}
  /\ pc' = [pc EXCEPT ![c] = "inline"]
  /\ UNCHANGED <<env, event, made, stalled, letter, cur, outcome, batch, history>>

InlineResolves(c) ==
  /\ pc[c] = "inline"
  /\ delivered' = [delivered EXCEPT ![At(c)[1]] = TRUE]
  /\ Returns(c, "dispatched")
  /\ UNCHANGED <<env, event, bull, letter, cur, batch, faults, gap>>

InlineRejects(c) ==
  /\ pc[c] = "inline"
  /\ Returns(c, "failed")
  /\ UNCHANGED <<env, event, bull, letter, cur, batch, faults, history>>

(***************************************************************************)
(* The live request.  A provider's retry meets the unique key of the       *)
(* persisted event, gets "duplicate" and changes nothing.                  *)
(***************************************************************************)
Receive(d) ==
  /\ enabled /\ state[d] = "absent"
  /\ state' = [state EXCEPT ![d] = "pending"]
  /\ recent' = [recent EXCEPT ![d] = TRUE]
  /\ Launch(d)
  /\ UNCHANGED <<env, attempts, bull, letter, cur, outcome, batch, faults, history>>

(* markDispatchOutcome, best effort; a failed dispatch goes on to its dead letter. *)
AfterMark(d) ==
  /\ pc' = [pc EXCEPT ![d] = IF outcome[d] = "failed" THEN "save" ELSE "idle"]
  /\ outcome' = [outcome EXCEPT ![d] = "failed"]

LiveMarks(d) ==
  /\ pc[d] = "mark"
  /\ \/ /\ outcome[d] = "failed"
        /\ attempts' = [attempts EXCEPT ![d] = @ + 1]
        /\ recent' = [recent EXCEPT ![d] = TRUE]
        /\ UNCHANGED state
     \/ /\ outcome[d] # "failed"
        /\ state' = [state EXCEPT ![d] = "dispatched"]
        /\ UNCHANGED <<attempts, recent>>
  /\ AfterMark(d)
  /\ UNCHANGED <<env, bull, letter, cur, batch, faults, history>>

LiveMarkFails(d) ==
  /\ pc[d] = "mark" /\ Spend("db")
  /\ AfterMark(d)
  /\ UNCHANGED <<env, event, bull, letter, cur, batch, history>>

LiveSaves(d) ==
  /\ pc[d] = "save"
  /\ \/ NewLetter(d) /\ UNCHANGED faults
     \/ Spend("db") /\ UNCHANGED letter
  /\ pc' = [pc EXCEPT ![d] = "idle"]
  /\ UNCHANGED <<env, event, bull, cur, outcome, batch, history>>

(* The grace period (60 s) outlasts a live request (a dispatch times out after 5 s). *)
Cools(d) ==
  /\ recent[d] /\ pc[d] = "idle"
  /\ recent' = [recent EXCEPT ![d] = FALSE]
  /\ UNCHANGED <<env, state, attempts, bull, letter, pc, cur, outcome, batch, faults, history>>

(***************************************************************************)
(* IngressReconcilerService.sweep, one at a time (sweeping)                *)
(***************************************************************************)
Stale(d) == state[d] = "pending" /\ ~recent[d]

SweepReads ==
  /\ pc["sweep"] = "idle"
  /\ LET found == {<<d, 0>> : d \in {x \in Deliveries : Stale(x)}} IN
       /\ todo' = [todo EXCEPT !["sweep"] = found]
       /\ pc' = [pc EXCEPT !["sweep"] = IF found = {} THEN "idle" ELSE "next"]
  /\ seen' = [d \in Deliveries |-> IF Stale(d) THEN attempts[d] ELSE 0]
  /\ UNCHANGED <<env, event, bull, letter, cur, outcome, faults, history>>

(* The row's instance must exist and be enabled now; if not, or if the lookup throws, it is skipped. *)
SweepPicks ==
  /\ pc["sweep"] = "next"
  /\ \E j \in todo["sweep"] :
       \/ enabled /\ Take("sweep", j) /\ Launch("sweep") /\ UNCHANGED <<seen, faults>>
       \/ /\ (~enabled /\ UNCHANGED faults) \/ Spend("db")
          /\ todo' = [todo EXCEPT !["sweep"] = @ \ {j}]
          /\ pc' = [pc EXCEPT !["sweep"] = IF todo'["sweep"] = {} THEN "idle" ELSE "next"]
          /\ seen' = [seen EXCEPT ![j[1]] = 0]
          /\ UNCHANGED cur
  /\ UNCHANGED <<env, event, bull, letter, outcome, history>>

(* ensureDeadLetterRow: any dead letter of the delivery will do, even a redriven one. *)
SweepCountsNothing ==
  /\ pc["sweep"] = "count"
  /\ pc' = [pc EXCEPT !["sweep"] = "save"]
  /\ UNCHANGED <<env, event, bull, letter, cur, outcome, batch, faults, history>>

SweepCounts ==
  /\ pc["sweep"] = "count"
  /\ pc' = [pc EXCEPT !["sweep"] = IF Letters(cur["sweep"][1]) # {} THEN "mark" ELSE "save"]
  /\ UNCHANGED <<env, event, bull, letter, cur, outcome, batch, faults, history>>

SweepSaves ==
  /\ pc["sweep"] = "save"
  /\ NewLetter(cur["sweep"][1])
  /\ pc' = [pc EXCEPT !["sweep"] = "mark"]
  /\ UNCHANGED <<env, event, bull, cur, outcome, batch, faults, history>>

(* The event's row after a replay, from the attempts that the sweep had read. *)
NextAttemptsKept(d) == attempts[d]
NextAttempts(d) == seen[d] + 1

SweepMarks ==
  /\ pc["sweep"] = "mark"
  /\ LET d == cur["sweep"][1] IN
       \/ /\ outcome["sweep"] # "failed"
          /\ state' = [state EXCEPT ![d] = "dispatched"]
          /\ pc' = [pc EXCEPT !["sweep"] = "retire"]
          /\ UNCHANGED <<attempts, recent, cur, outcome, seen>>
       \/ /\ outcome["sweep"] = "failed"
          /\ attempts' = [attempts EXCEPT ![d] = NextAttempts(d)]
          /\ state' = IF Exhausted(d) THEN [state EXCEPT ![d] = "failed"] ELSE state
          /\ recent' = [recent EXCEPT ![d] = ~Exhausted(d)]
          /\ Loop("sweep")
  /\ UNCHANGED <<env, bull, letter, todo, faults, history>>

(* The dead letters of a replayed delivery are retired: "the replay just delivered it".  A queued  *)
(* replay has delivered nothing yet, and when its id is that of a job that already failed it never *)
(* will: that delivery is lost, and the history remembers how.                                      *)
SweepRetires ==
  /\ pc["sweep"] = "retire"
  /\ LET d == cur["sweep"][1] IN
       /\ letter' = [r \in Rows |-> IF r \in Open(d) THEN "redriven" ELSE letter[r]]
       /\ gap' = IF Open(d) # {} /\ ~delivered[d] /\ job[<<d, 0>>] \notin Live
                 THEN [gap EXCEPT ![d] = @ \cup {"retired"}] ELSE gap
  /\ Loop("sweep")
  /\ UNCHANGED <<env, event, bull, todo, faults, delivered>>

(* A bookkeeping write throws: the row is left as it is, the sweep goes on. *)
SweepThrows ==
  /\ pc["sweep"] \in {"count", "save", "mark", "retire"} /\ Spend("db")
  /\ Loop("sweep")
  /\ UNCHANGED <<env, event, bull, letter, todo, history>>

(***************************************************************************)
(* RedriveService.redriveInstance, one at a time (the keyed lock)          *)
(***************************************************************************)
RedriveReads ==
  /\ pc["redrive"] = "idle"
  /\ \A d \in Deliveries : Cardinality(Letters(d)) <= RedriveRows
  /\ LET found == UNION {Open(d) : d \in Deliveries} IN
       /\ found # {}
       /\ todo' = [todo EXCEPT !["redrive"] = found]
  /\ pc' = [pc EXCEPT !["redrive"] = "next"]
  /\ UNCHANGED <<env, event, bull, letter, cur, outcome, seen, faults, history>>

RedrivePicks ==
  /\ pc["redrive"] = "next"
  /\ \E j \in todo["redrive"] : Take("redrive", j)
  /\ Launch("redrive")
  /\ UNCHANGED <<env, event, bull, letter, outcome, seen, faults, history>>

(* A replay that was accepted retires the event first; a failed one only counts on the dead letter. *)
RetiredEventKept(d) == state
RetiredEvent(d) == IF state[d] = "pending" THEN [state EXCEPT ![d] = "dispatched"] ELSE state

RedriveMarksAny ==
  /\ pc["redrive"] = "mark"
  /\ state' = RetiredEvent(cur["redrive"][1])
  /\ pc' = [pc EXCEPT !["redrive"] = "retire"]
  /\ UNCHANGED <<env, attempts, recent, bull, letter, cur, outcome, batch, faults, history>>

RedriveMarks ==
  /\ pc["redrive"] = "mark"
  /\ \/ /\ outcome["redrive"] # "failed"
        /\ state' = RetiredEvent(cur["redrive"][1])
        /\ pc' = [pc EXCEPT !["redrive"] = "retire"]
        /\ UNCHANGED <<cur, outcome, seen>>
     \/ outcome["redrive"] = "failed" /\ Loop("redrive") /\ UNCHANGED state
  /\ UNCHANGED <<env, attempts, recent, bull, letter, todo, faults, history>>

RedriveRetires ==
  /\ pc["redrive"] = "retire"
  /\ letter' = [letter EXCEPT ![cur["redrive"]] = "redriven"]
  /\ Loop("redrive")
  /\ UNCHANGED <<env, event, bull, todo, faults, history>>

(* An exception ends the whole batch. *)
RedriveThrows ==
  /\ pc["redrive"] \in {"mark", "retire"} /\ Spend("db")
  /\ todo' = [todo EXCEPT !["redrive"] = {}]
  /\ pc' = [pc EXCEPT !["redrive"] = "idle"]
  /\ cur' = [cur EXCEPT !["redrive"] = NoJob]
  /\ outcome' = [outcome EXCEPT !["redrive"] = "failed"]
  /\ UNCHANGED <<env, event, bull, letter, seen, history>>

(***************************************************************************)
(* IngressProcessor.process, run by BullMQ's worker                        *)
(***************************************************************************)
JobMoves(j, from, to) == job[j] = from /\ job' = [job EXCEPT ![j] = to]

(* The backoff before a retry (5 s and more, unless INGRESS_RETRY_DELAY_MS = 0) outlasts the writes *)
(* that a caller makes after its enqueue.                                                           *)
BackoffOver(j) ==
  made[j] = 0 \/ "noBackoff" \in Faults \/ \A c \in Callers : pc[c] \notin {"mark", "retire"}

JobStarts(j) ==
  /\ BackoffOver(j) /\ JobMoves(j, "waiting", "active")
  /\ UNCHANGED <<env, event, made, stalled, letter, pc, cur, outcome, batch, faults, history>>

JobSucceeds(j) ==
  /\ JobMoves(j, "active", "completed")
  /\ delivered' = [delivered EXCEPT ![j[1]] = TRUE]
  /\ UNCHANGED <<env, event, made, stalled, letter, pc, cur, outcome, batch, faults, gap>>

IsFinalAttempt(j) == made[j] + 1 >= JobAttempts

(* The dispatch rejects: BullMQ retries the job, after the final attempt a dead letter is saved. *)
JobRejects(j) ==
  /\ \/ /\ ~IsFinalAttempt(j) /\ JobMoves(j, "active", "waiting")
        /\ made' = [made EXCEPT ![j] = @ + 1]
     \/ IsFinalAttempt(j) /\ JobMoves(j, "active", "dying") /\ UNCHANGED made
  /\ UNCHANGED <<env, event, stalled, letter, pc, cur, outcome, batch, faults, history>>

JobBuried(j) ==
  /\ JobMoves(j, "dying", "buried")
  /\ NewLetter(j[1])
  /\ UNCHANGED <<env, event, made, stalled, pc, cur, outcome, batch, faults, history>>

JobFails(j) ==
  /\ JobMoves(j, "buried", "failed")
  /\ UNCHANGED <<env, event, made, stalled, letter, pc, cur, outcome, batch, faults, history>>

(* The save of the dead letter throws, and nothing catches it. *)
JobUnsaved(j) ==
  /\ Spend("workerDb") /\ JobMoves(j, "dying", "failed")
  /\ gap' = [gap EXCEPT ![j[1]] = @ \cup {"unsaved"}]
  /\ UNCHANGED <<env, event, made, stalled, letter, pc, cur, outcome, batch, delivered>>

(* removeOnComplete and removeOnFail: a finished job is forgotten, and its id is free again.  That *)
(* takes an hour or a thousand newer jobs; the steps of a caller take seconds.                     *)
JobEvicted(j) ==
  /\ \A c \in Callers : pc[c] = "idle"
  /\ JobMoves(j, job[j], "none") /\ job[j] \in {"completed", "failed"}
  /\ made' = [made EXCEPT ![j] = 0] /\ stalled' = [stalled EXCEPT ![j] = FALSE]
  /\ UNCHANGED <<env, event, letter, pc, cur, outcome, batch, faults, history>>

(***************************************************************************)
(* The environment                                                         *)
(***************************************************************************)
(* The process dies and starts again.  A job it was running stalls: BullMQ gives it back once; the *)
(* second time it fails the job itself, without process() and so without a dead letter.            *)
Crash ==
  /\ Spend("crash")
  /\ "stall" \in Faults \/ \A j \in Jobs : job[j] \in Running => ~stalled[j]
  /\ pc' = [c \in Callers |-> "idle"]
  /\ cur' = [b \in Batchers |-> NoJob]
  /\ outcome' = [c \in Callers |-> "failed"]
  /\ todo' = [b \in Batchers |-> {}] /\ seen' = [d \in Deliveries |-> 0]
  /\ job' = [j \in Jobs |-> IF job[j] \notin Running THEN job[j]
                            ELSE IF stalled[j] THEN "failed" ELSE "waiting"]
  /\ stalled' = [j \in Jobs |-> stalled[j] \/ job[j] \in Running]
  /\ gap' = [d \in Deliveries |->
               IF \E j \in Jobs : j[1] = d /\ stalled[j] /\ job[j] \in {"active", "dying"}
               THEN gap[d] \cup {"stalled"} ELSE gap[d]]
  /\ UNCHANGED <<env, event, made, letter, delivered>>

(* The operator disables or enables the instance. *)
Toggle ==
  /\ Spend("toggle")
  /\ enabled' = ~enabled
  /\ UNCHANGED <<queued, event, bull, letter, pc, cur, outcome, batch, history>>

(***************************************************************************)
(* The specification                                                       *)
(***************************************************************************)
Enqueue(c) == AddAccepted(c) \/ AddRejected(c) \/ InlineResolves(c) \/ InlineRejects(c)
Request(d) == Enqueue(d) \/ LiveMarks(d) \/ LiveMarkFails(d) \/ LiveSaves(d)
Sweep ==
  Enqueue("sweep") \/ SweepReads \/ SweepPicks \/ SweepCounts \/ SweepSaves \/ SweepMarks
    \/ SweepRetires \/ SweepThrows
Redrive == Enqueue("redrive") \/ RedrivePicks \/ RedriveMarks \/ RedriveRetires \/ RedriveThrows
Worker(j) ==
  JobStarts(j) \/ JobSucceeds(j) \/ JobRejects(j) \/ JobBuried(j) \/ JobFails(j) \/ JobUnsaved(j)

Next ==
  \/ \E d \in Deliveries : Receive(d) \/ Request(d) \/ Cools(d)
  \/ Sweep \/ RedriveReads \/ Redrive
  \/ \E j \in Jobs : Worker(j) \/ JobEvicted(j)
  \/ Crash \/ Toggle

Spec == Init /\ [][Next]_vars

(* Node runs every callback, the database, Redis and the sandbox answer (each has a timeout), the *)
(* sweep's interval keeps firing, time passes.  Nothing makes a redrive or a failure happen.       *)
Fairness ==
  /\ \A d \in Deliveries : WF_vars(Request(d)) /\ WF_vars(Cools(d))
  /\ WF_vars(Sweep) /\ WF_vars(Redrive)
  /\ \A j \in Jobs : WF_vars(Worker(j))

FairSpec == Spec /\ Fairness

(***************************************************************************)
(* Properties                                                              *)
(***************************************************************************)
(* Types, and that a batch holds the row it works on, and has one more when it goes on to the next. *)
TypeOK ==
  /\ queued \in BOOLEAN /\ enabled \in BOOLEAN
  /\ state \in [Deliveries -> {"absent", "pending", "dispatched", "failed"}]
  /\ attempts \in [Deliveries -> Nat] /\ seen \in [Deliveries -> Nat]
  /\ recent \in [Deliveries -> BOOLEAN]
  /\ job \in [Jobs -> JobStates] /\ made \in [Jobs -> Nat] /\ stalled \in [Jobs -> BOOLEAN]
  /\ letter \in [Rows -> {"none", "open", "redriven"}]
  /\ pc \in [Callers -> Pcs]
  /\ cur \in [Batchers -> Jobs \cup {NoJob}]
  /\ \A b \in Batchers : pc[b] \notin {"idle", "next"} => cur[b] \in Jobs
  /\ \A b \in Batchers : pc[b] = "next" => todo[b] # {}
  /\ outcome \in [Callers -> {"queued", "dispatched", "failed"}]
  /\ todo \in [Batchers -> SUBSET Jobs] /\ todo["redrive"] \subseteq Rows
  /\ cur["redrive"] \in Rows \cup {NoJob}
  /\ faults \in Nat
  /\ delivered \in [Deliveries -> BOOLEAN]
  /\ gap \in [Deliveries -> SUBSET {"retired", "unsaved", "stalled"}]

Held(d) == delivered[d] \/ Open(d) # {} \/ \E j \in Jobs : j[1] = d /\ job[j] \in Live

(* An accepted delivery whose event has given up its payload has been dispatched, waits in a job, *)
(* or has a dead letter to redrive, whichever steps of request, sweep, redrive and worker overlap *)
(* and wherever the process dies - unless it went through one of the three gaps: a sweep retired  *)
(* the dead letter of a failed job, the worker could not save the dead letter, or the job stalled *)
(* twice.                                                                                          *)
NothingLost ==
  \A d \in Deliveries : state[d] \in {"dispatched", "failed"} => Held(d) \/ gap[d] # {}

(* An event is given up ('failed', its payload retired) only once it has a dead letter: the new   *)
(* home of the payload exists before the old one goes.                                             *)
FailedHasDeadLetter == \A d \in Deliveries : state[d] = "failed" => Letters(d) # {}

(* Once a dead letter is redriven, by an operator or because a sweep replayed the event, the event *)
(* is no longer pending: no later sweep reads it and delivers it a second time.                    *)
RedrivenIsNotSwept ==
  \A d \in Deliveries : (\E r \in Letters(d) : letter[r] = "redriven") => state[d] # "pending"

(* Without a queue a delivery gets at most one dead letter, although both the live request and an  *)
(* exhausted sweep write one (ensureDeadLetterRow: "never a second copy").                         *)
OneDeadLetter == ~queued => \A d \in Deliveries : Cardinality(Letters(d)) <= 1

(* Every accepted delivery is settled, unless its instance is disabled: dispatched, dead-lettered  *)
(* or in a gap, after a crash at any await too.                                                    *)
EverySettles ==
  \A d \in Deliveries :
    state[d] = "pending" ~>
      \/ state[d] # "pending" /\ (delivered[d] \/ Open(d) # {} \/ gap[d] # {})
      \/ ~enabled
(* Ingress implements Delivery: whatever the callers, the worker and the failures do to a delivery, *)
(* its event settles for good and only when something else keeps the payload, a dead letter is      *)
(* closed only behind a settled event, a job ends by a dispatch, a dead letter or in a gap, and a   *)
(* delivery that only its event holds is never lost.                                                *)
Phase(d) == IF state[d] = "absent" THEN "new" ELSE IF state[d] = "pending" THEN "accepted" ELSE "settled"

JobHolds(d) == \E j \in Jobs : j[1] = d /\ job[j] \in Live

HoldersOf(d) == (IF JobHolds(d) THEN {"job"} ELSE {}) \cup (IF Open(d) # {} THEN {"letter"} ELSE {})

Promise == INSTANCE Delivery WITH
  phase <- [d \in Deliveries |-> Phase(d)],
  holders <- [d \in Deliveries |-> HoldersOf(d)],
  lost <- [d \in Deliveries |-> gap[d] # {}]

KeepsPromise == Promise!Spec
=============================================================================
