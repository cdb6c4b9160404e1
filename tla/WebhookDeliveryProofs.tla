------------------------ MODULE WebhookDeliveryProofs ------------------------
(***************************************************************************)
(* Proofs about WebhookDelivery: the limiter neither leaks nor invents a   *)
(* slot, nothing vanishes, and a delivery has one outcome, for any number  *)
(* of deliveries, any limits, and every failure.                           *)
(*                                                                         *)
(* The limiter's invariant adds that no delivery waits twice.  The others  *)
(* are about one delivery at a time: what each await of its direct path    *)
(* and each state of its job say about the POSTs, answers and failure rows *)
(* so far.                                                                 *)
(***************************************************************************)
EXTENDS WebhookDelivery, FiniteSetTheorems, TLAPS

Distinct == \A i, j \in DOMAIN waiting : waiting[i] = waiting[j] => i = j

\* Past the lookup of the direct path, where a POST may have happened.
Posting == {"post", "stamp", "sleep", "lost"}

Accounted(d) == vetoed[d] \/ confirmed[d] > 0 \/ failures[d] > 0 \/ gap[d] \cap KnownLosses # {}

\* What the direct path and the job have come to.
PathAt(d) ==
  /\ pc[d] = "add" => queued
  /\ job[d] # "none" => queued /\ pc[d] \in Posting \cup {"add", "done"}
  /\ pc[d] = "stamp" => confirmed[d] > 0
  /\ job[d] \in {"stamp", "completed"} => confirmed[d] > 0
  /\ job[d] \in {"recorded", "failed"} => Accounted(d)
  /\ pc[d] = "done" /\ job[d] = "none" => Accounted(d)
  /\ Closed => pc[d] \notin {"parked", "woken"} \/ (pc[d] = "woken" /\ up = "draining")
  /\ ~queued /\ up = "drained" /\ pc[d] \in InSlot => d \in told

\* At most how many POSTs the direct path and the job have made.
Direct(d) ==
  IF pc[d] = "post" THEN attempt[d] - 1
  ELSE IF pc[d] \in {"stamp", "sleep", "lost"} THEN attempt[d]
  ELSE IF pc[d] = "done" THEN Attempts ELSE 0
Repeat(d) == IF stalled[d] THEN 1 ELSE 0
Queued(d) ==
  IF job[d] = "none" THEN 0
  ELSE IF job[d] \in {"waiting", "active"} THEN made[d] + Repeat(d)
  ELSE IF job[d] \in {"stamp", "dying", "recorded"} THEN made[d] + 1 + Repeat(d)
  ELSE Attempts + Repeat(d)

Clean(d) == gap[d] \cap {"redis", "stall"} = {}

CountAt(d) ==
  /\ attempt[d] <= Attempts /\ made[d] + 1 <= Attempts
  /\ pc[d] = "sleep" => attempt[d] < RetryCount
  /\ posts[d] <= Direct(d) + Queued(d)
  /\ stalled[d] => ~Clean(d)
  /\ Clean(d) /\ job[d] = "none" => posts[d] <= Direct(d)
  /\ Clean(d) /\ job[d] # "none" => posts[d] <= Queued(d) /\ pc[d] \in {"add", "done"}

\* At most one answer or failure row.
OutcomeAt(d) ==
  LET over == IF job[d] = "none" THEN pc[d] \in {"stamp", "done"}
              ELSE job[d] \in {"stamp", "completed", "recorded", "failed"} IN
  /\ job[d] \in {"exhausted", "burying"} => stalled[d]
  /\ Clean(d) => confirmed[d] + failures[d] <= IF over THEN 1 ELSE 0

DeliveryAt(d) == PathAt(d) /\ CountAt(d) /\ OutcomeAt(d)
WebhookInv == TypeOK /\ LimiterSound /\ Distinct /\ \A d \in Deliveries : DeliveryAt(d)
-----------------------------------------------------------------------------
(* One step *)

LEMMA AttemptsBound == Attempts \in Nat /\ Attempts >= 1 /\ RetryCount \in Nat /\ RetryCount <= Attempts
BY WebhookAssumption DEF Attempts

DeliveryStep(d) == Dispatch(d) \/ LookupFails(d) \/ Continue(d) \/ Taken(d) \/ Worker(d)

RestAt(d) ==
  /\ attempt'[d] = attempt[d] /\ job'[d] = job[d] /\ made'[d] = made[d] /\ stalled'[d] = stalled[d]
  /\ vetoed'[d] = vetoed[d] /\ posts'[d] = posts[d] /\ confirmed'[d] = confirmed[d]
  /\ failures'[d] = failures[d] /\ gap'[d] = gap[d]

\* All that a step of one delivery does to another: it may hand it a slot.
WaitsOn(d) == pc'[d] = pc[d] \/ (pc[d] = "parked" /\ pc'[d] = "woken")
Aside(d) == WaitsOn(d) /\ RestAt(d)

LEMMA AsideKeeps ==
  ASSUME NEW d \in Deliveries, DeliveryAt(d), Aside(d), UNCHANGED process
  PROVE  DeliveryAt(d)'
<1> USE DEF Aside, WaitsOn, RestAt, DeliveryAt, process, config
<1>1. PathAt(d)'
  BY DEF PathAt, Posting, Accounted, KnownLosses, Closed, InSlot, InBody
<1>2. CountAt(d)'
  BY DEF CountAt, Direct, Queued, Repeat, Clean
<1>3. OutcomeAt(d)'
  BY DEF OutcomeAt, Clean
<1> QED BY <1>1, <1>2, <1>3

\* The end of a task that holds a slot.
LEMMA LeaveEnds ==
  ASSUME TypeOK, LimiterSound, NEW d \in Deliveries, pc[d] \in InBody, Leave(d)
  PROVE  /\ pc' \in [Deliveries -> Pcs] /\ attempt' \in [Deliveries -> Nat \ {0}]
         /\ waiting' \in Seq(Deliveries) /\ active' \in Nat
         /\ pc'[d] = "done" /\ attempt'[d] = 1
         /\ \A x \in Deliveries \ {d} : WaitsOn(x) /\ attempt'[x] = attempt[x]
<1>1. attempt' \in [Deliveries -> Nat \ {0}] /\ attempt'[d] = 1
      /\ \A x \in Deliveries \ {d} : attempt'[x] = attempt[x]
  BY DEF Leave, TypeOK
<1>2. CASE waiting = <<>>
  <2>1. pc' = [pc EXCEPT ![d] = "done"] /\ active' = active - 1 /\ waiting' = waiting
    BY <1>2 DEF Leave, HandOver, Goto
  <2>2. active > 0
    <3>1. d \in Holders /\ IsFiniteSet(Holders)
      BY WebhookAssumption, FS_Subset DEF Holders, InSlot
    <3> QED BY <3>1, FS_EmptySet, FS_CardinalityType DEF LimiterSound
  <2> QED BY <1>1, <2>1, <2>2 DEF TypeOK, WaitsOn, Pcs
<1>3. CASE waiting # <<>>
  <2> DEFINE w == Head(waiting)
  <2>1. pc' = [pc EXCEPT ![d] = "done", ![w] = "woken"] /\ waiting' = Tail(waiting) /\ active' = active
    BY <1>3 DEF Leave, HandOver
  <2>2. w \in Deliveries /\ 1 \in DOMAIN waiting /\ w = waiting[1] /\ Tail(waiting) \in Seq(Deliveries)
    BY <1>3 DEF TypeOK
  <2>3. pc[w] = "parked" /\ w # d
    BY <2>2 DEF LimiterSound, InBody
  <2> HIDE DEF w
  <2>4. pc' \in [Deliveries -> Pcs] /\ pc'[d] = "done"
    BY <2>1, <2>2, <2>3 DEF TypeOK, Pcs, InSlot
  <2>5. \A x \in Deliveries \ {d} : WaitsOn(x)
    BY <2>1, <2>2, <2>3 DEF TypeOK, WaitsOn
  <2> QED BY <1>1, <2>1, <2>2, <2>4, <2>5 DEF TypeOK
<1> QED BY <1>2, <1>3

RecordAt(d) ==
  \/ failures'[d] = failures[d] + 1 /\ gap'[d] = gap[d]
  \/ failures'[d] = failures[d] /\ gap'[d] = gap[d] \cup {"db"}

LEMMA RecordCounts ==
  ASSUME TypeOK, NEW d \in Deliveries, Record(d)
  PROVE  /\ failures' \in [Deliveries -> Nat] /\ gap' \in [Deliveries -> SUBSET Gaps] /\ faults' \in Nat
         /\ RecordAt(d)
         /\ \A x \in Deliveries \ {d} : failures'[x] = failures[x] /\ gap'[x] = gap[x]
<1>1. CASE failures' = Count(failures, d) /\ UNCHANGED <<faults, gap>>
  BY <1>1 DEF TypeOK, Count, RecordAt
<1>2. CASE Spend("db") /\ Note(d, "db") /\ UNCHANGED failures
  BY <1>2 DEF TypeOK, Spend, Note, Gaps, RecordAt
<1> QED BY <1>1, <1>2 DEF Record
LEMMA RecordAccounts ==
  ASSUME TypeOK, NEW d \in Deliveries, RecordAt(d)
  PROVE  Accounted(d)'
<1>1. CASE failures'[d] = failures[d] + 1
  <2>1. failures'[d] > 0
    BY <1>1 DEF TypeOK
  <2> QED BY <2>1 DEF Accounted
<1>2. CASE gap'[d] = gap[d] \cup {"db"}
  <2>1. "db" \in KnownLosses'
    BY DEF KnownLosses
  <2> QED BY <1>2, <2>1 DEF Accounted
<1> QED BY <1>1, <1>2 DEF RecordAt

\* A step of one delivery keeps every type, and leaves the process alone and the others aside.
LEMMA StepFrame ==
  ASSUME TypeOK, LimiterSound, NEW d \in Deliveries, DeliveryStep(d)
  PROVE  /\ TypeOK' /\ UNCHANGED process
         /\ \A x \in Deliveries \ {d} : Aside(x)
<1> USE DEF process, task, limiter, queue, outcome, config, work, Aside, WaitsOn, RestAt
<1>1. CASE Dispatch(d)
  <2>1. pc' \in [Deliveries -> Pcs] /\ \A x \in Deliveries \ {d} : pc'[x] = pc[x]
    BY <1>1 DEF Dispatch, TypeOK, Admit, Goto, Pcs, InSlot, InBody
  <2>2. active' \in Nat /\ waiting' \in Seq(Deliveries)
    <3>1. waiting' = waiting \/ waiting' = Append(waiting, d)
      BY <1>1 DEF Dispatch, Admit
    <3>2. active' = active \/ active' = active + 1
      BY <1>1 DEF Dispatch, Admit
    <3>3. waiting \in Seq(Deliveries) /\ active \in Nat
      BY DEF TypeOK
    <3>4. Append(waiting, d) \in Seq(Deliveries)
      BY <3>3
    <3> QED BY <3>1, <3>2, <3>3, <3>4
  <2> QED BY <1>1, <2>1, <2>2 DEF Dispatch, TypeOK
<1>2. CASE LookupFails(d)
  BY <1>2 DEF LookupFails, TypeOK, Spend, Note, Goto, Gaps, Pcs, InSlot, InBody
<1>3. CASE Resume(d)
  BY <1>3 DEF Resume, TypeOK, Goto, Pcs, InSlot, InBody
<1>4. CASE Preflight(d)
  <2>1. CASE Leave(d) /\ vetoed' = [vetoed EXCEPT ![d] = TRUE]
    BY <1>4, <2>1, LeaveEnds DEF Preflight, TypeOK, InBody
  <2>2. CASE \E l \in {"add", "post", "unsent"} : Goto(d, l) /\ UNCHANGED <<task, vetoed>>
    BY <1>4, <2>2 DEF Preflight, TypeOK, Goto, Pcs, InSlot, InBody
  <2> QED BY <1>4, <2>1, <2>2 DEF Preflight
<1>5. CASE RecordRefused(d)
  BY <1>5, RecordCounts DEF RecordRefused, TypeOK, Goto, Pcs, InSlot, InBody
<1>6. CASE RecordLost(d)
  BY <1>6, LeaveEnds, RecordCounts DEF RecordLost, TypeOK, InBody
<1>7. CASE AddResolves(d)
  BY <1>7, LeaveEnds DEF AddResolves, TypeOK, InBody
<1>8. CASE AddRejects(d)
  <2>1. gap' \in [Deliveries -> SUBSET Gaps] /\ \A x \in Deliveries \ {d} : gap'[x] = gap[x]
    <3>1. gap' = gap \/ gap' = [gap EXCEPT ![d] = @ \cup {"redis"}]
      BY <1>8 DEF AddRejects, Note
    <3> QED BY <3>1 DEF TypeOK, Gaps
  <2>2. pc' \in [Deliveries -> Pcs] /\ faults' \in Nat /\ \A x \in Deliveries \ {d} : pc'[x] = pc[x]
    BY <1>8 DEF AddRejects, TypeOK, Spend, Goto, Pcs, InSlot, InBody
  <2> QED BY <1>8, <2>1, <2>2 DEF AddRejects, TypeOK
<1>9. CASE PostSucceeds(d)
  BY <1>9 DEF PostSucceeds, TypeOK, Goto, Count, Pcs, InSlot, InBody
<1>10. CASE Stamp(d)
  <2>1. pc[d] \in InBody /\ Leave(d) /\ faults' \in Nat
    BY <1>10 DEF Stamp, TypeOK, Spend, StampThrows, InBody
  <2> QED BY <1>10, <2>1, LeaveEnds DEF Stamp, TypeOK
<1>11. CASE PostFails(d)
  BY <1>11 DEF PostFails, TypeOK, Goto, Count, Pcs, InSlot, InBody
<1>12. CASE Retry(d)
  BY <1>12 DEF Retry, TypeOK, Goto, Count, Pcs, InSlot, InBody
<1>13. CASE Taken(d)
  BY <1>13 DEF Taken, TypeOK, JobStates, Running
<1>14. CASE JobStarts(d)
  BY <1>14 DEF JobStarts, TypeOK, JobTo, JobStates, Running
<1>15. CASE JobAnswered(d)
  <2>1. posts' \in [Deliveries -> Nat] /\ confirmed' \in [Deliveries -> Nat]
    BY <1>15 DEF JobAnswered, TypeOK, Count
  <2>2. job' \in [Deliveries -> JobStates]
    BY <1>15 DEF JobAnswered, TypeOK, JobTo, JobStates, Running
  <2> QED BY <1>15, <2>1, <2>2 DEF JobAnswered, TypeOK, JobTo, Count
<1>16. CASE JobCompletes(d)
  BY <1>16 DEF JobCompletes, TypeOK, JobTo, JobStates, Running
<1>17. CASE JobFails(d)
  <2>1. posts' \in [Deliveries -> Nat] /\ made' \in [Deliveries -> Nat]
    BY <1>17 DEF JobFails, TypeOK, Count
  <2>2. job' \in [Deliveries -> JobStates]
    <3>1. job' = [job EXCEPT ![d] = "dying"] \/ job' = [job EXCEPT ![d] = "waiting"]
      BY <1>17 DEF JobFails, JobTo
    <3> QED BY <3>1 DEF TypeOK, JobStates, Running
  <2>3. \A x \in Deliveries \ {d} : Aside(x)
    BY <1>17 DEF JobFails, TypeOK, JobTo, Count
  <2> QED BY <1>17, <2>1, <2>2, <2>3 DEF JobFails, TypeOK
<1>18. CASE JobRecords(d)
  BY <1>18, RecordCounts DEF JobRecords, TypeOK, JobTo, JobStates, Running
<1>19. CASE JobBuried(d)
  BY <1>19 DEF JobBuried, TypeOK, JobTo, JobStates, Running
<1>20. CASE StallFails(d)
  BY <1>20 DEF StallFails, TypeOK, JobTo, StallHeard, JobStates, Running
<1>21. CASE StallRecords(d)
  BY <1>21, RecordCounts DEF StallRecords, TypeOK, JobTo, JobStates, Running
<1> QED BY <1>1, <1>2, <1>3, <1>4, <1>5, <1>6, <1>7, <1>8, <1>9, <1>10, <1>11, <1>12, <1>13, <1>14, <1>15, <1>16, <1>17, <1>18, <1>19, <1>20, <1>21 DEF DeliveryStep, Continue, Worker
\* A step of the worker that makes no more POSTs than it counts.
LEMMA JobCounts ==
  ASSUME TypeOK, NEW d \in Deliveries, CountAt(d), UNCHANGED <<pc, attempt, stalled, gap>>,
         job[d] # "none", job'[d] # "none", made'[d] + 1 <= Attempts,
         posts'[d] \in Nat, Queued(d) \in Int, Queued(d)' \in Int,
         posts'[d] - posts[d] <= Queued(d)' - Queued(d)
  PROVE  CountAt(d)'
<1>1. Direct(d)' = Direct(d) /\ Direct(d) \in Int /\ posts[d] \in Nat
  BY AttemptsBound DEF TypeOK, Direct, Attempts
<1>2. Clean(d)' = Clean(d)
  BY DEF Clean
<1>3. posts'[d] <= Direct(d)' + Queued(d)' /\ (Clean(d) => posts'[d] <= Queued(d)')
  BY <1>1 DEF CountAt
<1> QED BY <1>1, <1>2, <1>3 DEF CountAt

\* What a step of a delivery leaves behind is what its new await and job state say.
LEMMA StepKeeps ==
  ASSUME TypeOK, LimiterSound, NEW d \in Deliveries, DeliveryAt(d), DeliveryStep(d)
  PROVE  DeliveryAt(d)'
<1> USE AttemptsBound DEF process, task, limiter, queue, outcome, config, work, DeliveryAt
<1>1. CASE Dispatch(d)
  <2>3. PathAt(d)'
    BY <1>1 DEF Dispatch, TypeOK, Admit, Goto, PathAt, Posting, Accounted, KnownLosses, Closed, InSlot, InBody
  <2>4. CountAt(d)'
    BY <1>1 DEF Dispatch, TypeOK, Admit, Goto, CountAt, Direct, Queued, Repeat, Clean, PathAt, Posting
  <2>5. OutcomeAt(d)'
    BY <1>1 DEF Dispatch, TypeOK, Admit, Goto, OutcomeAt, Clean, PathAt, CountAt, Posting
  <2> QED BY <2>3, <2>4, <2>5
<1>2. CASE LookupFails(d)
  <2>3. PathAt(d)'
    BY <1>2 DEF LookupFails, TypeOK, Note, Goto, PathAt, Posting, Accounted, KnownLosses, Closed, InSlot, InBody
  <2>4. CountAt(d)'
    BY <1>2 DEF LookupFails, TypeOK, Note, Goto, CountAt, Direct, Queued, Repeat, Clean, PathAt, Posting
  <2>5. OutcomeAt(d)'
    BY <1>2 DEF LookupFails, TypeOK, Note, Goto, OutcomeAt, Clean, PathAt, CountAt, Posting
  <2> QED BY <2>3, <2>4, <2>5
<1>3. CASE Resume(d)
  <2>3. PathAt(d)'
    BY <1>3 DEF Resume, TypeOK, Goto, PathAt, Posting, Accounted, KnownLosses, Closed, InSlot, InBody
  <2>4. CountAt(d)'
    BY <1>3 DEF Resume, TypeOK, Goto, CountAt, Direct, Queued, Repeat, Clean, PathAt, Posting
  <2>5. OutcomeAt(d)'
    BY <1>3 DEF Resume, TypeOK, Goto, OutcomeAt, Clean, PathAt, CountAt, Posting
  <2> QED BY <2>3, <2>4, <2>5
<1>4. CASE Preflight(d)
  <2>1. \/ pc'[d] = "unsent" /\ attempt'[d] = attempt[d] /\ vetoed'[d] = vetoed[d]
        \/ /\ pc'[d] \in {"add", "post"} /\ (pc'[d] = "add" <=> queued)
           /\ attempt'[d] = attempt[d] /\ vetoed'[d] = vetoed[d]
        \/ pc'[d] = "done" /\ attempt'[d] = 1 /\ vetoed'[d] = TRUE
    <3>1. CASE Leave(d) /\ vetoed' = [vetoed EXCEPT ![d] = TRUE]
      BY <1>4, <3>1, LeaveEnds DEF Preflight, TypeOK, InBody
    <3>2. CASE Goto(d, "unsent") /\ UNCHANGED <<task, vetoed>>
      BY <3>2 DEF TypeOK, Goto
    <3>3. CASE Goto(d, IF queued THEN "add" ELSE "post") /\ UNCHANGED <<task, vetoed>>
      BY <3>3 DEF TypeOK, Goto
    <3> QED BY <1>4, <3>1, <3>2, <3>3 DEF Preflight
  <2>2. pc[d] = "hook" /\ UNCHANGED <<process, queue, outcome, faults, gap>>
    BY <1>4 DEF Preflight
  <2>3. PathAt(d)'
    BY <2>1, <2>2 DEF TypeOK, PathAt, Posting, Accounted, KnownLosses, Closed, InSlot, InBody
  <2>4. CountAt(d)'
    BY <2>1, <2>2 DEF TypeOK, CountAt, Direct, Queued, Repeat, Clean, PathAt, Posting
  <2>5. OutcomeAt(d)'
    BY <2>1, <2>2 DEF TypeOK, OutcomeAt, Clean, PathAt, CountAt, Posting
  <2> QED BY <2>3, <2>4, <2>5
<1>5. CASE RecordRefused(d)
  <2>2. RecordAt(d)
    BY <1>5, RecordCounts DEF RecordRefused
  <2>3. Accounted(d)'
    BY <2>2, RecordAccounts
  <2>4. PathAt(d)'
    BY <1>5, <2>3 DEF RecordRefused, TypeOK, Goto, PathAt, Posting, Closed, InSlot, InBody
  <2>5. CountAt(d)'
    BY <1>5, <2>2 DEF RecordRefused, TypeOK, Goto, RecordAt, CountAt, Direct, Queued, Repeat, Clean, PathAt, Posting
  <2>6. OutcomeAt(d)'
    BY <1>5, <2>2 DEF RecordRefused, TypeOK, Goto, RecordAt, OutcomeAt, Clean, PathAt, CountAt, Posting
  <2> QED BY <2>4, <2>5, <2>6
<1>6. CASE RecordLost(d)
  <2>1. pc'[d] = "done" /\ attempt'[d] = 1
    BY <1>6, LeaveEnds DEF RecordLost, InBody
  <2>2. RecordAt(d)
    BY <1>6, RecordCounts DEF RecordLost
  <2>3. Accounted(d)'
    BY <2>2, RecordAccounts
  <2>4. PathAt(d)'
    BY <1>6, <2>1, <2>3 DEF RecordLost, TypeOK, PathAt, Posting, Closed, InSlot, InBody
  <2>5. CountAt(d)'
    BY SMTT(30), <1>6, <2>1, <2>2 DEF RecordLost, TypeOK, RecordAt, CountAt, Direct, Queued, Repeat, Clean, PathAt, Posting
  <2>6. OutcomeAt(d)'
    BY SMTT(30), <1>6, <2>1, <2>2 DEF RecordLost, TypeOK, RecordAt, OutcomeAt, Clean, PathAt, CountAt, Posting
  <2> QED BY <2>4, <2>5, <2>6
<1>7. CASE AddResolves(d)
  <2>1. pc'[d] = "done" /\ attempt'[d] = 1
    BY <1>7, LeaveEnds DEF AddResolves, InBody
  <2>3. PathAt(d)'
    BY <1>7, <2>1 DEF AddResolves, TypeOK, PathAt, Posting, Accounted, KnownLosses, Closed, InSlot, InBody
  <2>4. CountAt(d)'
    BY <1>7, <2>1 DEF AddResolves, TypeOK, CountAt, Direct, Queued, Repeat, Clean, PathAt, Posting
  <2>5. OutcomeAt(d)'
    BY <1>7, <2>1 DEF AddResolves, TypeOK, OutcomeAt, Clean, PathAt, CountAt, Posting
  <2> QED BY <2>3, <2>4, <2>5
<1>8. CASE AddRejects(d)
  <2>3. PathAt(d)'
    BY <1>8 DEF AddRejects, TypeOK, Note, Goto, PathAt, Posting, Accounted, KnownLosses, Closed, InSlot, InBody
  <2>4. CountAt(d)'
    <3>1. CASE job[d] = "none"
      BY <1>8, <3>1 DEF AddRejects, TypeOK, Goto, CountAt, Direct, Queued, Repeat, Clean, PathAt, Posting
    <3>2. CASE job[d] # "none"
      <4>1. "redis" \in gap'[d]
        BY <1>8, <3>2 DEF AddRejects, TypeOK, Note
      <4> QED BY SMTT(30), <1>8, <3>2, <4>1 DEF AddRejects, TypeOK, Goto, CountAt, Direct, Queued, Repeat, Clean, PathAt, Posting
    <3> QED BY <3>1, <3>2
  <2>5. OutcomeAt(d)'
    BY <1>8 DEF AddRejects, TypeOK, Note, Goto, OutcomeAt, Clean, PathAt, CountAt, Posting
  <2> QED BY <2>3, <2>4, <2>5
<1>9. CASE PostSucceeds(d)
  <2>3. PathAt(d)'
    BY <1>9 DEF PostSucceeds, TypeOK, Goto, Count, PathAt, Posting, Accounted, KnownLosses, Closed, InSlot, InBody
  <2>4. CountAt(d)'
    <3>1. posts'[d] = posts[d] + 1 /\ pc[d] = "post" /\ pc'[d] = "stamp"
      BY <1>9 DEF PostSucceeds, TypeOK, Goto, Count
    <3>2. UNCHANGED <<attempt, queue, gap>>
      BY <1>9 DEF PostSucceeds
    <3> QED BY SMTT(30), <3>1, <3>2 DEF TypeOK, CountAt, Direct, Queued, Repeat, Clean, PathAt, Posting
  <2>5. OutcomeAt(d)'
    BY <1>9 DEF PostSucceeds, TypeOK, Goto, Count, OutcomeAt, Clean, PathAt, CountAt, Posting
  <2> QED BY <2>3, <2>4, <2>5
<1>10. CASE Stamp(d)
  <2>1. pc'[d] = "done" /\ attempt'[d] = 1
    BY <1>10, LeaveEnds DEF Stamp, InBody, StampThrows
  <2>3. PathAt(d)'
    BY <1>10, <2>1 DEF Stamp, TypeOK, StampThrows, PathAt, Posting, Accounted, KnownLosses, Closed, InSlot, InBody
  <2>4. CountAt(d)'
    BY SMTT(30), <1>10, <2>1 DEF Stamp, TypeOK, StampThrows, CountAt, Direct, Queued, Repeat, Clean, PathAt, Posting
  <2>5. OutcomeAt(d)'
    BY <1>10, <2>1 DEF Stamp, TypeOK, StampThrows, OutcomeAt, Clean, PathAt, CountAt, Posting
  <2> QED BY <2>3, <2>4, <2>5
<1>11. CASE PostFails(d)
  <2>3. PathAt(d)'
    BY <1>11 DEF PostFails, TypeOK, Goto, Count, PathAt, Posting, Accounted, KnownLosses, Closed, InSlot, InBody
  <2>4. CountAt(d)'
    <3>1. posts'[d] = posts[d] + 1 /\ pc[d] = "post"
      BY <1>11 DEF PostFails, TypeOK, Count
    <3>2. pc'[d] \in {"sleep", "lost"} /\ (pc'[d] = "sleep" => attempt[d] < RetryCount)
      BY <1>11 DEF PostFails, TypeOK, Goto
    <3>3. UNCHANGED <<attempt, queue, gap>>
      BY <1>11 DEF PostFails
    <3> QED BY SMTT(30), <3>1, <3>2, <3>3 DEF TypeOK, CountAt, Direct, Queued, Repeat, Clean, PathAt, Posting
  <2>5. OutcomeAt(d)'
    BY <1>11 DEF PostFails, TypeOK, Goto, Count, OutcomeAt, Clean, PathAt, CountAt, Posting
  <2> QED BY <2>3, <2>4, <2>5
<1>12. CASE Retry(d)
  <2>3. PathAt(d)'
    BY <1>12 DEF Retry, TypeOK, Goto, Count, PathAt, Posting, Accounted, KnownLosses, Closed, InSlot, InBody
  <2>4. CountAt(d)'
    BY SMTT(30), <1>12 DEF Retry, TypeOK, Goto, Count, CountAt, Direct, Queued, Repeat, Clean, PathAt, Posting
  <2>5. OutcomeAt(d)'
    BY <1>12 DEF Retry, TypeOK, Goto, Count, OutcomeAt, Clean, PathAt, CountAt, Posting
  <2> QED BY <2>3, <2>4, <2>5
<1>13. CASE Taken(d)
  <2>3. PathAt(d)'
    BY <1>13 DEF Taken, TypeOK, PathAt, Posting, Accounted, KnownLosses, Closed, InSlot, InBody
  <2>4. CountAt(d)'
    BY <1>13 DEF Taken, TypeOK, CountAt, Direct, Queued, Repeat, Clean, PathAt, Posting
  <2>5. OutcomeAt(d)'
    BY <1>13 DEF Taken, TypeOK, OutcomeAt, Clean, PathAt, CountAt, Posting
  <2> QED BY <2>3, <2>4, <2>5
<1>14. CASE JobStarts(d)
  <2>3. PathAt(d)'
    BY <1>14 DEF JobStarts, TypeOK, JobTo, PathAt, Posting, Accounted, KnownLosses, Closed, InSlot, InBody
  <2>4. CountAt(d)'
    <3>1. job[d] = "waiting" /\ job'[d] = "active" /\ UNCHANGED <<pc, attempt, stalled, gap, made, posts>>
      BY <1>14 DEF JobStarts, TypeOK, JobTo
    <3>2. Queued(d) \in Int /\ Queued(d)' \in Int /\ Queued(d)' >= Queued(d)
      BY <3>1 DEF TypeOK, Queued, Repeat, CountAt
    <3>3. posts'[d] \in Nat /\ posts[d] \in Nat /\ made'[d] + 1 <= Attempts /\ CountAt(d)
      BY <3>1 DEF TypeOK, CountAt
    <3>4. posts'[d] - posts[d] <= Queued(d)' - Queued(d) /\ Queued(d)' \in Int
      BY <3>1, <3>2, <3>3
    <3>5. job[d] # "none" /\ job'[d] # "none" /\ UNCHANGED <<pc, attempt, stalled, gap>>
      BY <3>1
    <3> QED BY <3>2, <3>3, <3>4, <3>5, JobCounts
  <2>5. OutcomeAt(d)'
    BY <1>14 DEF JobStarts, TypeOK, JobTo, OutcomeAt, Clean, PathAt, CountAt, Posting
  <2> QED BY <2>3, <2>4, <2>5
<1>15. CASE JobAnswered(d)
  <2>3. PathAt(d)'
    BY <1>15 DEF JobAnswered, TypeOK, JobTo, Count, PathAt, Posting, Accounted, KnownLosses, Closed, InSlot, InBody
  <2>4. CountAt(d)'
    <3>1. /\ job[d] = "active" /\ job'[d] = "stamp" /\ posts'[d] = posts[d] + 1
          /\ UNCHANGED <<pc, attempt, stalled, gap, made>>
      BY <1>15 DEF JobAnswered, TypeOK, JobTo, Count
    <3>2. Queued(d) \in Int /\ Queued(d)' = Queued(d) + 1
      BY <3>1 DEF TypeOK, Queued, Repeat
    <3>3. posts'[d] \in Nat /\ posts[d] \in Nat /\ made'[d] + 1 <= Attempts /\ CountAt(d)
      BY <3>1 DEF TypeOK, CountAt
    <3>4. posts'[d] - posts[d] <= Queued(d)' - Queued(d) /\ Queued(d)' \in Int
      BY <3>1, <3>2, <3>3
    <3>5. job[d] # "none" /\ job'[d] # "none" /\ UNCHANGED <<pc, attempt, stalled, gap>>
      BY <3>1
    <3> QED BY <3>2, <3>3, <3>4, <3>5, JobCounts
  <2>5. OutcomeAt(d)'
    BY <1>15 DEF JobAnswered, TypeOK, JobTo, Count, OutcomeAt, Clean, PathAt, CountAt, Posting
  <2> QED BY <2>3, <2>4, <2>5
<1>16. CASE JobCompletes(d)
  <2>3. PathAt(d)'
    BY <1>16 DEF JobCompletes, TypeOK, JobTo, PathAt, Posting, Accounted, KnownLosses, Closed, InSlot, InBody
  <2>4. CountAt(d)'
    <3>1. job[d] = "stamp" /\ job'[d] = "completed" /\ UNCHANGED <<pc, attempt, stalled, gap, made, posts>>
      BY <1>16 DEF JobCompletes, TypeOK, JobTo
    <3>2. Queued(d) \in Int /\ Queued(d)' \in Int /\ Queued(d)' >= Queued(d)
      BY <3>1 DEF TypeOK, Queued, Repeat, CountAt
    <3>3. posts'[d] \in Nat /\ posts[d] \in Nat /\ made'[d] + 1 <= Attempts /\ CountAt(d)
      BY <3>1 DEF TypeOK, CountAt
    <3>4. posts'[d] - posts[d] <= Queued(d)' - Queued(d) /\ Queued(d)' \in Int
      BY <3>1, <3>2, <3>3
    <3>5. job[d] # "none" /\ job'[d] # "none" /\ UNCHANGED <<pc, attempt, stalled, gap>>
      BY <3>1
    <3> QED BY <3>2, <3>3, <3>4, <3>5, JobCounts
  <2>5. OutcomeAt(d)'
    BY <1>16 DEF JobCompletes, TypeOK, JobTo, OutcomeAt, Clean, PathAt, CountAt, Posting
  <2> QED BY <2>3, <2>4, <2>5
<1>17. CASE JobFails(d)
  <2>3. PathAt(d)'
    BY <1>17 DEF JobFails, TypeOK, JobTo, Count, IsFinalAttempt, PathAt, Posting, Accounted, KnownLosses, Closed, InSlot, InBody
  <2>4. CountAt(d)'
    <3>1. posts'[d] = posts[d] + 1 /\ job[d] = "active" /\ UNCHANGED <<pc, attempt, stalled, gap>>
      BY <1>17 DEF JobFails, TypeOK, Count
    <3>2. CASE IsFinalAttempt(d)
      <4>1. job'[d] = "dying" /\ made'[d] = made[d]
        BY <1>17, <3>2 DEF JobFails, TypeOK, JobTo
      <4>2. Queued(d) \in Int /\ Queued(d)' = Queued(d) + 1
        BY <3>1, <4>1 DEF TypeOK, Queued, Repeat
      <4>3. posts'[d] \in Nat /\ posts[d] \in Nat /\ made'[d] + 1 <= Attempts /\ CountAt(d)
        BY <3>1, <4>1 DEF TypeOK, CountAt
      <4>4. posts'[d] - posts[d] <= Queued(d)' - Queued(d) /\ Queued(d)' \in Int
        BY <3>1, <4>2, <4>3
      <4>5. job[d] # "none" /\ job'[d] # "none"
        BY <3>1, <4>1
      <4> QED BY <3>1, <4>2, <4>3, <4>4, <4>5, JobCounts
    <3>3. CASE ~IsFinalAttempt(d)
      <4>1. job'[d] = "waiting" /\ made'[d] = made[d] + 1
        BY <1>17, <3>3 DEF JobFails, TypeOK, JobTo, Count
      <4>2. Queued(d) \in Int /\ Queued(d)' = Queued(d) + 1
        BY <3>1, <4>1 DEF TypeOK, Queued, Repeat
      <4>3. posts'[d] \in Nat /\ posts[d] \in Nat /\ made'[d] + 1 <= Attempts /\ CountAt(d)
        BY <3>1, <3>3, <4>1 DEF TypeOK, IsFinalAttempt
      <4>4. posts'[d] - posts[d] <= Queued(d)' - Queued(d) /\ Queued(d)' \in Int
        BY <3>1, <4>2, <4>3
      <4>5. job[d] # "none" /\ job'[d] # "none"
        BY <3>1, <4>1
      <4> QED BY <3>1, <4>2, <4>3, <4>4, <4>5, JobCounts
    <3> QED BY <3>2, <3>3
  <2>5. OutcomeAt(d)'
    BY <1>17 DEF JobFails, TypeOK, JobTo, Count, IsFinalAttempt, OutcomeAt, Clean, PathAt, CountAt, Posting
  <2> QED BY <2>3, <2>4, <2>5
<1>18. CASE JobRecords(d)
  <2>2. RecordAt(d)
    BY <1>18, RecordCounts DEF JobRecords
  <2>3. Accounted(d)'
    BY <2>2, RecordAccounts
  <2>4. PathAt(d)'
    BY <1>18, <2>3 DEF JobRecords, TypeOK, JobTo, PathAt, Posting, Closed, InSlot, InBody
  <2>5. CountAt(d)'
    BY <1>18, <2>2 DEF JobRecords, TypeOK, JobTo, RecordAt, CountAt, Direct, Queued, Repeat, Clean, PathAt, Posting
  <2>6. OutcomeAt(d)'
    BY <1>18, <2>2 DEF JobRecords, TypeOK, JobTo, RecordAt, OutcomeAt, Clean, PathAt, CountAt, Posting
  <2> QED BY <2>4, <2>5, <2>6
<1>19. CASE JobBuried(d)
  <2>3. PathAt(d)'
    BY <1>19 DEF JobBuried, TypeOK, JobTo, PathAt, Posting, Accounted, KnownLosses, Closed, InSlot, InBody
  <2>4. CountAt(d)'
    <3>1. job[d] = "recorded" /\ job'[d] = "failed" /\ UNCHANGED <<pc, attempt, stalled, gap, made, posts>>
      BY <1>19 DEF JobBuried, TypeOK, JobTo
    <3>2. Queued(d) \in Int /\ Queued(d)' \in Int /\ Queued(d)' >= Queued(d)
      BY <3>1 DEF TypeOK, Queued, Repeat, CountAt
    <3>3. posts'[d] \in Nat /\ posts[d] \in Nat /\ made'[d] + 1 <= Attempts /\ CountAt(d)
      BY <3>1 DEF TypeOK, CountAt
    <3>4. posts'[d] - posts[d] <= Queued(d)' - Queued(d) /\ Queued(d)' \in Int
      BY <3>1, <3>2, <3>3
    <3>5. job[d] # "none" /\ job'[d] # "none" /\ UNCHANGED <<pc, attempt, stalled, gap>>
      BY <3>1
    <3> QED BY <3>2, <3>3, <3>4, <3>5, JobCounts
  <2>5. OutcomeAt(d)'
    BY <1>19 DEF JobBuried, TypeOK, JobTo, OutcomeAt, Clean, PathAt, CountAt, Posting
  <2> QED BY <2>3, <2>4, <2>5
<1>20. CASE StallFails(d)
  <2>3. PathAt(d)'
    BY <1>20 DEF StallFails, TypeOK, JobTo, StallHeard, PathAt, Posting, Accounted, KnownLosses, Closed, InSlot, InBody
  <2>4. CountAt(d)'
    BY <1>20 DEF StallFails, TypeOK, JobTo, StallHeard, CountAt, Direct, Queued, Repeat, Clean, PathAt, Posting
  <2>5. OutcomeAt(d)'
    BY <1>20 DEF StallFails, TypeOK, JobTo, StallHeard, OutcomeAt, Clean, PathAt, CountAt, Posting
  <2> QED BY <2>3, <2>4, <2>5
<1>21. CASE StallRecords(d)
  <2>2. RecordAt(d)
    BY <1>21, RecordCounts DEF StallRecords
  <2>3. Accounted(d)'
    BY <2>2, RecordAccounts
  <2>4. PathAt(d)'
    BY <1>21, <2>3 DEF StallRecords, TypeOK, JobTo, PathAt, Posting, Closed, InSlot, InBody
  <2>5. CountAt(d)'
    BY <1>21, <2>2 DEF StallRecords, TypeOK, JobTo, RecordAt, CountAt, Direct, Queued, Repeat, Clean, PathAt, Posting
  <2>6. OutcomeAt(d)'
    BY <1>21, <2>2 DEF StallRecords, TypeOK, JobTo, RecordAt, OutcomeAt, Clean, PathAt, CountAt, Posting
  <2> QED BY <2>4, <2>5, <2>6
<1> QED BY <1>1, <1>2, <1>3, <1>4, <1>5, <1>6, <1>7, <1>8, <1>9, <1>10, <1>11, <1>12, <1>13, <1>14, <1>15, <1>16, <1>17, <1>18, <1>19, <1>20, <1>21 DEF DeliveryStep, Continue, Worker
-----------------------------------------------------------------------------
(* The end of the process *)

LEMMA DiesTypes ==
  ASSUME TypeOK, Dies, gap' \in [Deliveries -> SUBSET Gaps], faults' \in Nat
  PROVE  TypeOK'
<1> USE DEF TypeOK, Dies, config, outcome
<1>1. pc' \in [Deliveries -> Pcs]
  BY DEF Pcs
<1>2. job' \in [Deliveries -> JobStates]
  <2>1. \A d \in Deliveries : job'[d] \in {"exhausted", "waiting", "failed", job[d]}
    OBVIOUS
  <2> QED BY <2>1 DEF JobStates
<1>3. stalled' \in [Deliveries -> BOOLEAN]
  OBVIOUS
<1>4. waiting' \in Seq(Deliveries) /\ attempt' \in [Deliveries -> Nat \ {0}] /\ active' \in Nat
  OBVIOUS
<1> QED BY <1>1, <1>2, <1>3, <1>4

\* A death that notes a stall of each running job, and a known loss of whatever it takes from memory.
LEMMA DiesKeeps ==
  ASSUME TypeOK, Dies, NEW d \in Deliveries, DeliveryAt(d),
         gap[d] \subseteq gap'[d], job[d] \in Running => "stall" \in gap'[d],
         Lost(d) => gap'[d] \cap KnownLosses # {}
  PROVE  DeliveryAt(d)'
<1> USE AttemptsBound DEF DeliveryAt, TypeOK
<1>1. /\ pc'[d] = (IF pc[d] = "new" THEN "new" ELSE "done") /\ attempt'[d] = 1
      /\ job'[d] = (IF job[d] \in Running THEN (IF stalled[d] THEN "exhausted" ELSE "waiting")
                    ELSE IF job[d] = "burying" THEN "failed" ELSE job[d])
      /\ stalled'[d] = (stalled[d] \/ job[d] \in Running)
      /\ up' = "up" /\ UNCHANGED <<queued, made, vetoed, posts, confirmed, failures>>
  BY DEF Dies, config, outcome
<1>2. KnownLosses' = KnownLosses
  BY <1>1 DEF KnownLosses
<1>3. Accounted(d) => Accounted(d)'
  BY <1>1, <1>2 DEF Accounted
<1>4. Lost(d) => Accounted(d)'
  BY <1>2 DEF Accounted
<1>5. PathAt(d)'
  BY <1>1, <1>3, <1>4 DEF PathAt, Posting, Closed, Lost, Running, InSlot, InBody
<1>6. Clean(d)' => Clean(d) /\ job[d] \notin Running
  BY DEF Clean
<1>7. stalled'[d] => ~Clean(d)'
  BY <1>1, <1>6 DEF Clean, CountAt
<1>8. CountAt(d)'
  <2>1. Direct(d) <= Direct(d)'
    BY <1>1 DEF Direct, CountAt, PathAt
  <2>2. Queued(d) <= Queued(d)'
    <3>1. made[d] + 1 <= Attempts /\ made'[d] = made[d]
      BY <1>1 DEF CountAt
    <3>2. CASE job[d] \notin Running
      BY <1>1, <3>1, <3>2 DEF Queued, Repeat, Running
    <3>3. CASE job[d] \in Running /\ stalled[d]
      BY <1>1, <3>1, <3>3 DEF Queued, Repeat, Running
    <3>4. CASE job[d] \in Running /\ ~stalled[d]
      <4>1. Queued(d)' = made[d] + 1
        BY <1>1, <3>1, <3>4 DEF Queued, Repeat, Running
      <4>2. Queued(d) \in {made[d], made[d] + 1}
        BY <3>4 DEF Queued, Repeat, Running
      <4> QED BY <3>1, <4>1, <4>2
    <3> QED BY <3>2, <3>3, <3>4
  <2>3. Direct(d) \in Int /\ Direct(d)' \in Int /\ Queued(d) \in Int /\ Queued(d)' \in Int
    BY <1>1 DEF Direct, Queued, Repeat
  <2>4. job'[d] = "none" <=> job[d] = "none"
    BY <1>1 DEF Running
  <2>5. posts'[d] = posts[d] /\ posts[d] \in Int
    BY <1>1
  <2>6. posts'[d] <= Direct(d)' + Queued(d)'
    BY <2>1, <2>2, <2>3, <2>5 DEF CountAt
  <2>7. Clean(d)' /\ job'[d] = "none" => posts'[d] <= Direct(d)'
    BY <2>1, <2>3, <2>4, <2>5, <1>6 DEF CountAt
  <2>8. Clean(d)' /\ job'[d] # "none" => posts'[d] <= Queued(d)' /\ pc'[d] \in {"add", "done"}
    BY <1>1, <2>2, <2>3, <2>4, <2>5, <1>6 DEF CountAt
  <2> QED BY <1>1, <1>7, <2>6, <2>7, <2>8 DEF CountAt
<1>9. OutcomeAt(d)'
  BY <1>1, <1>6 DEF OutcomeAt, Running, Clean
<1> QED BY <1>5, <1>8, <1>9

\* What an orderly exit takes from memory is a known loss: without the queue the drain has told it.
LEMMA UntoldIsKnown ==
  ASSUME TypeOK, up = "drained", NEW d \in Deliveries, DeliveryAt(d), Lost(d)
  PROVE  Untold(d) \in KnownLosses
BY DEF TypeOK, DeliveryAt, PathAt, Closed, Lost, Untold, KnownLosses, Pcs, InSlot, Posting

LEMMA StopKeeps ==
  ASSUME TypeOK, Stop, NEW d \in Deliveries, DeliveryAt(d)
  PROVE  DeliveryAt(d)'
<1> USE AttemptsBound DEF DeliveryAt, TypeOK
<1>1. /\ pc'[d] = pc[d] \/ (pc[d] = "parked" /\ pc'[d] = "closed")
      /\ ~queued => pc'[d] # "parked"
      /\ up = "up" /\ up' = "draining"
      /\ UNCHANGED <<queued, told, attempt, job, made, stalled, vetoed, posts, confirmed, failures, gap>>
  BY DEF Stop, config, queue, outcome
<1>2. PathAt(d)'
  BY <1>1 DEF PathAt, Posting, Closed, Accounted, KnownLosses, InSlot, InBody
<1>3. CountAt(d)'
  BY <1>1 DEF CountAt, Direct, Queued, Repeat, Clean
<1>4. OutcomeAt(d)'
  BY <1>1 DEF OutcomeAt, Clean
<1> QED BY <1>2, <1>3, <1>4

LEMMA DrainEndsKeeps ==
  ASSUME TypeOK, DrainEnds, NEW d \in Deliveries, DeliveryAt(d)
  PROVE  DeliveryAt(d)'
<1> USE DEF DeliveryAt
<1>1. /\ up = "draining" /\ up' = "drained" /\ pc[d] # "woken" /\ (pc[d] \in InBody => d \in told')
      /\ UNCHANGED <<queued, pc, attempt, job, made, stalled, vetoed, posts, confirmed, failures, gap>>
  BY DEF DrainEnds, config, task, queue, outcome
<1>2. PathAt(d)'
  BY <1>1 DEF PathAt, Posting, Closed, Accounted, KnownLosses, InSlot
<1>3. CountAt(d)'
  BY <1>1 DEF CountAt, Direct, Queued, Repeat, Clean
<1>4. OutcomeAt(d)'
  BY <1>1 DEF OutcomeAt, Clean
<1> QED BY <1>2, <1>3, <1>4
-----------------------------------------------------------------------------
(* The slots *)

\* What a step of a delivery does to the limiter: it enters, it leaves, or it keeps what it has.
Keeps(d) ==
  /\ UNCHANGED limiter /\ pc[d] # "parked" /\ pc'[d] # "parked"
  /\ pc[d] \in InSlot <=> pc'[d] \in InSlot
  /\ \A x \in Deliveries \ {d} : pc'[x] = pc[x]
SlotStep(d) ==
  \/ pc[d] = "new" /\ Admit(d)
  \/ pc[d] \in InBody /\ Leave(d)
  \/ Keeps(d)
  \/ UNCHANGED <<pc, limiter>>

LEMMA StepMovesSlot ==
  ASSUME TypeOK, NEW d \in Deliveries, DeliveryStep(d)
  PROVE  SlotStep(d)
<1> USE DEF TypeOK, SlotStep, Keeps, InSlot, InBody, process, task, limiter, work, Goto
<1>1. CASE Dispatch(d)
  BY <1>1 DEF Dispatch
<1>2. CASE LookupFails(d)
  BY <1>2 DEF LookupFails
<1>3. CASE Resume(d)
  BY <1>3 DEF Resume
<1>4. CASE Preflight(d)
  BY <1>4 DEF Preflight
<1>5. CASE RecordRefused(d)
  BY <1>5 DEF RecordRefused
<1>6. CASE RecordLost(d)
  BY <1>6 DEF RecordLost
<1>7. CASE AddResolves(d)
  BY <1>7 DEF AddResolves
<1>8. CASE AddRejects(d)
  BY <1>8 DEF AddRejects
<1>9. CASE PostSucceeds(d)
  BY <1>9 DEF PostSucceeds
<1>10. CASE Stamp(d)
  BY <1>10 DEF Stamp, StampThrows
<1>11. CASE PostFails(d)
  BY <1>11 DEF PostFails
<1>12. CASE Retry(d)
  BY <1>12 DEF Retry
<1>13. CASE Taken(d)
  BY <1>13 DEF Taken
<1>14. CASE Worker(d)
  BY <1>14 DEF Worker, JobStarts, JobAnswered, JobCompletes, JobFails, JobRecords, JobBuried, StallFails, StallRecords
<1> QED BY <1>1, <1>2, <1>3, <1>4, <1>5, <1>6, <1>7, <1>8, <1>9, <1>10, <1>11, <1>12, <1>13, <1>14 DEF DeliveryStep, Continue

Sound == LimiterSound /\ Distinct
Waits(x) == \E i \in DOMAIN waiting : waiting[i] = x

LEMMA HoldersFinite == IsFiniteSet(Holders) /\ Cardinality(Holders) \in Nat
BY WebhookAssumption, FS_Subset, FS_CardinalityType DEF Holders

LEMMA AdmitKeepsSlots ==
  ASSUME TypeOK, Sound, NEW d \in Deliveries, pc[d] = "new", Admit(d), UNCHANGED maxQueued
  PROVE  Sound'
<1> USE DEF Sound
<1>1. CASE \E l \in {"closed", "full"} : Goto(d, l) /\ UNCHANGED limiter
  <2>1. Holders' = Holders
    BY <1>1 DEF TypeOK, Goto, Holders, InSlot, InBody
  <2>2. \A x \in Deliveries : pc'[x] = "parked" <=> pc[x] = "parked"
    BY <1>1 DEF TypeOK, Goto
  <2> QED BY <1>1, <2>1, <2>2 DEF LimiterSound, Distinct, limiter
<1>2. CASE active < MaxActive /\ Goto(d, "hook") /\ active' = active + 1 /\ UNCHANGED waiting
  <2>1. Holders' = Holders \cup {d} /\ d \notin Holders
    BY <1>2 DEF TypeOK, Goto, Holders, InSlot, InBody
  <2>2. Cardinality(Holders') = active'
    BY <1>2, <2>1, HoldersFinite, FS_AddElement DEF LimiterSound
  <2>3. waiting = <<>> /\ active' <= MaxActive
    BY <1>2, WebhookAssumption DEF LimiterSound, TypeOK
  <2>4. \A x \in Deliveries : pc'[x] = "parked" <=> pc[x] = "parked"
    BY <1>2 DEF TypeOK, Goto
  <2> QED BY <1>2, <2>2, <2>3, <2>4 DEF LimiterSound, Distinct
<1>3. CASE /\ active >= MaxActive /\ Len(waiting) < maxQueued
           /\ Goto(d, "parked") /\ waiting' = Append(waiting, d) /\ UNCHANGED active
  <2>1. Holders' = Holders
    BY <1>3 DEF TypeOK, Goto, Holders, InSlot, InBody
  <2>2. waiting \in Seq(Deliveries) /\ Len(waiting) \in Nat
    BY DEF TypeOK
  <2>3. /\ Len(waiting') = Len(waiting) + 1 /\ DOMAIN waiting' = 1..(Len(waiting) + 1)
        /\ DOMAIN waiting = 1..Len(waiting)
        /\ waiting'[Len(waiting) + 1] = d /\ \A i \in DOMAIN waiting : waiting'[i] = waiting[i]
    BY <1>3, <2>2
  <2>4. ~Waits(d)
    BY DEF LimiterSound, Waits
  <2>5. Distinct'
    BY <2>2, <2>3, <2>4 DEF Distinct, Waits
  <2>6. \A x \in Deliveries : pc'[x] = "parked" <=> \E i \in DOMAIN waiting' : waiting'[i] = x
    <3> SUFFICES ASSUME NEW x \in Deliveries
                 PROVE  pc'[x] = "parked" <=> \E i \in DOMAIN waiting' : waiting'[i] = x
      OBVIOUS
    <3>1. CASE x = d
      <4>1. pc'[d] = "parked"
        BY <1>3 DEF TypeOK, Goto
      <4>2. Len(waiting) + 1 \in DOMAIN waiting'
        BY <2>2, <2>3
      <4> QED BY <2>3, <3>1, <4>1, <4>2
    <3>2. CASE x # d
      <4>1. pc'[x] = pc[x]
        BY <1>3, <3>2 DEF TypeOK, Goto
      <4>2. (\E i \in DOMAIN waiting' : waiting'[i] = x) <=> Waits(x)
        BY <2>2, <2>3, <3>2 DEF Waits
      <4> QED BY <4>1, <4>2 DEF LimiterSound, Waits
    <3> QED BY <3>1, <3>2
  <2>7. active = MaxActive
    BY <1>3, WebhookAssumption DEF LimiterSound, TypeOK
  <2>8. Len(waiting') <= maxQueued
    BY <1>3, <2>2, <2>3 DEF TypeOK
  <2> QED BY <1>3, <2>1, <2>5, <2>6, <2>7, <2>8 DEF LimiterSound
<1> QED
  <2>1. active \in Nat /\ MaxActive \in Nat /\ maxQueued \in Nat /\ Len(waiting) \in Nat
    BY WebhookAssumption DEF TypeOK
  <2> QED BY <1>1, <1>2, <1>3, <2>1 DEF Admit

LEMMA LeaveKeepsSlots ==
  ASSUME TypeOK, Sound, NEW d \in Deliveries, pc[d] \in InBody, Leave(d), UNCHANGED maxQueued
  PROVE  Sound'
<1> USE DEF Sound
<1>1. CASE waiting = <<>>
  <2>1. pc' = [pc EXCEPT ![d] = "done"] /\ active' = active - 1 /\ waiting' = waiting
    BY <1>1 DEF Leave, HandOver, Goto
  <2>2. Holders' = Holders \ {d} /\ d \in Holders
    BY <2>1 DEF TypeOK, Holders, InSlot, InBody
  <2>3. Cardinality(Holders') = active' /\ active' <= MaxActive
    <3>1. Cardinality(Holders') = Cardinality(Holders) - 1
      BY <2>2, HoldersFinite, FS_RemoveElement
    <3> QED BY <2>1, <3>1, WebhookAssumption DEF LimiterSound, TypeOK
  <2>4. \A x \in Deliveries : pc'[x] = "parked" <=> pc[x] = "parked"
    BY <2>1 DEF TypeOK, InBody
  <2> QED BY <1>1, <2>1, <2>3, <2>4 DEF LimiterSound, Distinct
<1>2. CASE waiting # <<>>
  <2> DEFINE w == Head(waiting)
  <2>1. pc' = [pc EXCEPT ![d] = "done", ![w] = "woken"] /\ waiting' = Tail(waiting) /\ active' = active
    BY <1>2 DEF Leave, HandOver
  <2>2. waiting \in Seq(Deliveries) /\ Len(waiting) \in Nat /\ Len(waiting) # 0
    BY <1>2 DEF TypeOK
  <2>3. /\ w \in Deliveries /\ 1 \in DOMAIN waiting /\ w = waiting[1]
        /\ DOMAIN waiting = 1..Len(waiting) /\ Len(waiting') = Len(waiting) - 1
        /\ DOMAIN waiting' = 1..(Len(waiting) - 1)
        /\ \A i \in DOMAIN waiting' : waiting'[i] = waiting[i + 1]
    BY <1>2, <2>1, <2>2
  <2>4. pc[w] = "parked" /\ w # d
    BY <2>3 DEF LimiterSound, InBody
  <2> HIDE DEF w
  <2>5. Holders' = (Holders \ {d}) \cup {w} /\ d \in Holders /\ w \notin Holders
    <3>1. pc \in [Deliveries -> Pcs] /\ w \in Deliveries
      BY <2>3 DEF TypeOK
    <3>2. \A x \in Deliveries : pc'[x] = IF x = w THEN "woken" ELSE IF x = d THEN "done" ELSE pc[x]
      BY <2>1, <2>4, <3>1
    <3> QED BY <2>3, <2>4, <3>2 DEF Holders, InSlot, InBody
  <2>6. Cardinality(Holders') = Cardinality(Holders)
    <3>1. IsFiniteSet(Holders \ {d}) /\ Cardinality(Holders \ {d}) = Cardinality(Holders) - 1
      BY <2>5, HoldersFinite, FS_RemoveElement
    <3>2. Cardinality((Holders \ {d}) \cup {w}) = Cardinality(Holders \ {d}) + 1
      BY <2>5, <3>1, FS_AddElement
    <3> QED BY <2>5, <3>1, <3>2, HoldersFinite
  <2>7. Distinct'
    BY <2>2, <2>3 DEF Distinct
  <2>8. \A x \in Deliveries : pc'[x] = "parked" <=> \E i \in DOMAIN waiting' : waiting'[i] = x
    <3> SUFFICES ASSUME NEW x \in Deliveries
                 PROVE  pc'[x] = "parked" <=> \E i \in DOMAIN waiting' : waiting'[i] = x
      OBVIOUS
    <3>1. (\E i \in DOMAIN waiting' : waiting'[i] = x) => Waits(x) /\ x # w
      BY <2>2, <2>3 DEF Distinct, Waits
    <3>2. Waits(x) /\ x # w => \E i \in DOMAIN waiting' : waiting'[i] = x
      <4> SUFFICES ASSUME NEW j \in DOMAIN waiting, waiting[j] = x, x # w
                   PROVE  \E i \in DOMAIN waiting' : waiting'[i] = x
        BY DEF Waits
      <4>1. j # 1 /\ j - 1 \in DOMAIN waiting'
        BY <2>2, <2>3
      <4> QED BY <2>2, <2>3, <4>1
    <3>3. pc'[x] = "parked" <=> pc[x] = "parked" /\ x # w
      BY <2>1, <2>3, <2>4 DEF TypeOK, InBody
    <3> QED BY <3>1, <3>2, <3>3 DEF LimiterSound, Waits
  <2>9. Len(waiting') <= maxQueued' /\ active = MaxActive
    BY <1>2, <2>2, <2>3 DEF LimiterSound, TypeOK
  <2> QED BY <2>1, <2>6, <2>7, <2>8, <2>9 DEF LimiterSound
<1> QED BY <1>1, <1>2

LEMMA SlotsKept ==
  ASSUME TypeOK, Sound, NEW d \in Deliveries, SlotStep(d), UNCHANGED maxQueued
  PROVE  Sound'
<1>1. CASE Keeps(d)
  <2>1. Holders' = Holders
    BY <1>1 DEF Keeps, Holders
  <2>2. \A x \in Deliveries : pc'[x] = "parked" <=> pc[x] = "parked"
    BY <1>1 DEF Keeps
  <2> QED BY <1>1, <2>1, <2>2 DEF Keeps, Sound, LimiterSound, Distinct, limiter
<1>2. CASE UNCHANGED <<pc, limiter>>
  BY <1>2 DEF Sound, LimiterSound, Distinct, Holders, limiter
<1> QED BY <1>1, <1>2, AdmitKeepsSlots, LeaveKeepsSlots DEF SlotStep

LEMMA NoSlotsTaken ==
  ASSUME \A d \in Deliveries : pc[d] \in {"new", "done"}, active = 0, waiting = <<>>, TypeOK
  PROVE  Sound
<1>1. Holders = {}
  BY DEF Holders, InSlot, InBody
<1>2. Cardinality(Holders) = 0
  BY <1>1, FS_EmptySet
<1>3. DOMAIN waiting = {} /\ Len(waiting) = 0
  OBVIOUS
<1>4. MaxActive \in Nat /\ MaxActive # 0 /\ maxQueued \in Nat
  BY WebhookAssumption DEF TypeOK
<1>5. \A d \in Deliveries : pc[d] = "parked" <=> \E i \in DOMAIN waiting : waiting[i] = d
  BY <1>3
<1>6. LimiterSound
  BY <1>2, <1>3, <1>4, <1>5 DEF LimiterSound
<1> QED BY <1>3, <1>6 DEF Sound, Distinct

LEMMA StopKeepsSlots ==
  ASSUME TypeOK, Sound, Stop
  PROVE  Sound'
<1>1. CASE queued
  BY <1>1 DEF Stop, config, Sound, LimiterSound, Distinct, Holders
<1>2. CASE ~queued
  <2>1. /\ \A d \in Deliveries : pc'[d] = IF pc[d] = "parked" THEN "closed" ELSE pc[d]
        /\ waiting' = <<>> /\ UNCHANGED <<active, maxQueued>>
    BY <1>2 DEF Stop, config
  <2>2. Holders' = Holders
    BY <2>1 DEF Holders, InSlot, InBody
  <2>3. DOMAIN waiting' = {} /\ Len(waiting') = 0
    BY <2>1
  <2>4. \A d \in Deliveries : pc'[d] # "parked"
    BY <2>1
  <2> QED BY <2>1, <2>2, <2>3, <2>4 DEF Sound, LimiterSound, Distinct, TypeOK
<1> QED BY <1>1, <1>2
-----------------------------------------------------------------------------
(* The invariant *)

LEMMA StepInvariant ==
  ASSUME WebhookInv, NEW d \in Deliveries, DeliveryStep(d)
  PROVE  WebhookInv'
<1>1. TypeOK' /\ UNCHANGED process /\ \A x \in Deliveries \ {d} : Aside(x)
  BY StepFrame DEF WebhookInv
<1>2. Sound'
  BY <1>1, StepMovesSlot, SlotsKept DEF WebhookInv, Sound, process, config
<1>3. DeliveryAt(d)'
  BY StepKeeps DEF WebhookInv
<1>4. ASSUME NEW x \in Deliveries \ {d} PROVE DeliveryAt(x)'
  BY <1>1, AsideKeeps DEF WebhookInv
<1> QED BY <1>1, <1>2, <1>3, <1>4 DEF WebhookInv, Sound

LEMMA DeathInvariant ==
  ASSUME WebhookInv, Dies, gap' \in [Deliveries -> SUBSET Gaps], faults' \in Nat,
         \A d \in Deliveries :
           /\ gap[d] \subseteq gap'[d] /\ (job[d] \in Running => "stall" \in gap'[d])
           /\ Lost(d) => gap'[d] \cap KnownLosses # {}
  PROVE  WebhookInv'
<1>1. TypeOK'
  BY DiesTypes DEF WebhookInv
<1>2. \A d \in Deliveries : DeliveryAt(d)'
  BY DiesKeeps DEF WebhookInv
<1>3. Sound'
  <2>1. (\A d \in Deliveries : pc'[d] \in {"new", "done"}) /\ active' = 0 /\ waiting' = <<>>
    BY DEF Dies
  <2>2. ((\A d \in Deliveries : pc[d] \in {"new", "done"}) /\ active = 0 /\ waiting = <<>> /\ TypeOK => Sound)'
    BY NoSlotsTaken, PTL
  <2> QED BY <1>1, <2>1, <2>2
<1> QED BY <1>1, <1>2, <1>3 DEF WebhookInv, Sound

LEMMA CrashInvariant ==
  ASSUME WebhookInv, Crash
  PROVE  WebhookInv'
<1> USE DEF WebhookInv, TypeOK
<1>1. Dies /\ faults' \in Nat
  BY DEF Crash, Spend
<1>2. gap' \in [Deliveries -> SUBSET Gaps]
  BY DEF Crash, Stalls, Gaps
<1>3. ASSUME NEW d \in Deliveries
      PROVE  /\ gap[d] \subseteq gap'[d] /\ (job[d] \in Running => "stall" \in gap'[d])
             /\ Lost(d) => "crash" \in gap'[d]
  BY DEF Crash, Stalls
<1>4. "crash" \in KnownLosses
  BY DEF KnownLosses
<1> QED BY <1>1, <1>2, <1>3, <1>4, DeathInvariant

LEMMA ExitInvariant ==
  ASSUME WebhookInv, Exit
  PROVE  WebhookInv'
<1>1. Dies /\ up = "drained" /\ faults' \in Nat
  BY DEF Exit, WebhookInv, TypeOK
<1>2. \A d \in Deliveries : gap'[d] = gap[d] \cup Stalls(d) \cup (IF Lost(d) THEN {Untold(d)} ELSE {})
  BY DEF Exit
<1>3. gap' \in [Deliveries -> SUBSET Gaps]
  <2>1. \A d \in Deliveries : Untold(d) \in Gaps /\ Stalls(d) \subseteq Gaps /\ gap[d] \subseteq Gaps
    BY DEF Untold, Stalls, Gaps, WebhookInv, TypeOK
  <2>2. gap' = [d \in Deliveries |-> gap[d] \cup Stalls(d) \cup (IF Lost(d) THEN {Untold(d)} ELSE {})]
    BY DEF Exit
  <2> QED BY <2>1, <2>2
<1>4. ASSUME NEW d \in Deliveries
      PROVE  /\ gap[d] \subseteq gap'[d] /\ (job[d] \in Running => "stall" \in gap'[d])
             /\ Lost(d) => gap'[d] \cap KnownLosses # {}
  <2>1. Lost(d) => Untold(d) \in KnownLosses
    BY <1>1, UntoldIsKnown DEF WebhookInv
  <2> QED BY <1>2, <2>1 DEF Stalls
<1> QED BY <1>1, <1>3, <1>4, DeathInvariant

LEMMA WebhookInvariant == Spec => []WebhookInv
<1>1. Init => WebhookInv
  <2> SUFFICES ASSUME Init PROVE WebhookInv
    OBVIOUS
  <2>1. TypeOK
    <3>1. queued \in BOOLEAN /\ maxQueued \in Nat
      BY WebhookAssumption DEF Init
    <3> QED BY <3>1 DEF Init, TypeOK, Pcs, JobStates
  <2>2. Sound
    BY <2>1, NoSlotsTaken DEF Init
  <2>3. ASSUME NEW d \in Deliveries PROVE DeliveryAt(d)
    BY AttemptsBound
    DEF Init, DeliveryAt, PathAt, CountAt, OutcomeAt, Closed, Direct, Queued, Repeat, Clean, InSlot, InBody
  <2> QED BY <2>1, <2>2, <2>3 DEF WebhookInv, Sound
<1>2. WebhookInv /\ [Next]_vars => WebhookInv'
  <2> SUFFICES ASSUME WebhookInv, [Next]_vars PROVE WebhookInv'
    OBVIOUS
  <2>1. ASSUME NEW d \in Deliveries, DeliveryStep(d) PROVE WebhookInv'
    BY <2>1, StepInvariant
  <2>2. CASE Stop
    <3>1. TypeOK'
      <4>1. pc' \in [Deliveries -> Pcs] /\ waiting' \in Seq(Deliveries)
        <5>1. CASE queued
          BY <2>2, <5>1 DEF Stop, WebhookInv, TypeOK
        <5>2. CASE ~queued
          <6>1. pc' = [d \in Deliveries |-> IF pc[d] = "parked" THEN "closed" ELSE pc[d]] /\ waiting' = <<>>
            BY <2>2, <5>2 DEF Stop
          <6>2. pc' \in [Deliveries -> Pcs]
            BY <6>1 DEF WebhookInv, TypeOK, Pcs
          <6> QED BY <6>1, <6>2
        <5> QED BY <5>1, <5>2
      <4>2. up' = "draining" /\ faults' \in Nat
        BY <2>2 DEF Stop, WebhookInv, TypeOK, Spend
      <4> QED BY <2>2, <4>1, <4>2 DEF Stop, WebhookInv, TypeOK, config, queue, outcome
    <3>2. Sound'
      BY <2>2, StopKeepsSlots DEF WebhookInv, Sound
    <3>3. \A d \in Deliveries : DeliveryAt(d)'
      BY <2>2, StopKeeps DEF WebhookInv
    <3> QED BY <3>1, <3>2, <3>3 DEF WebhookInv, Sound
  <2>3. CASE DrainEnds
    <3>1. TypeOK'
      BY <2>3 DEF DrainEnds, WebhookInv, TypeOK, config, task, limiter, queue, outcome
    <3>2. Sound'
      BY <2>3 DEF DrainEnds, WebhookInv, Sound, LimiterSound, Distinct, Holders, config, task, limiter
    <3>3. \A d \in Deliveries : DeliveryAt(d)'
      BY <2>3, DrainEndsKeeps DEF WebhookInv
    <3> QED BY <3>1, <3>2, <3>3 DEF WebhookInv, Sound
  <2>4. CASE Crash
    BY <2>4, CrashInvariant
  <2>5. CASE Exit
    BY <2>5, ExitInvariant
  <2>6. CASE UNCHANGED vars
    <3>1. TypeOK' /\ LimiterSound' /\ Distinct'
      BY <2>6 DEF vars, WebhookInv, TypeOK, LimiterSound, Distinct, Holders
    <3>2. ASSUME NEW d \in Deliveries PROVE DeliveryAt(d)'
      BY <2>6, AsideKeeps DEF vars, WebhookInv, Aside, WaitsOn, RestAt, process, config
    <3> QED BY <3>1, <3>2 DEF WebhookInv
  <2> QED BY <2>1, <2>2, <2>3, <2>4, <2>5, <2>6 DEF Next, DeliveryStep
<1> QED BY <1>1, <1>2, PTL DEF Spec

-----------------------------------------------------------------------------
(* The theorems *)

\* Every variable keeps its type; the count of taken slots never goes below zero.
THEOREM WebhookTypes == Spec => []TypeOK
<1> QED BY WebhookInvariant, PTL DEF WebhookInv

\* However tasks arrive, end, are refused or closed, each slot is held by one task, the limit is
\* kept, and a delivery waits only behind tasks that hold every slot.
THEOREM WebhookLimiterSound == Spec => []LimiterSound
<1> QED BY WebhookInvariant, PTL DEF WebhookInv

\* A delivery that nothing works on any more reached its receiver or left a failure row, unless it
\* was lost in one of the known ways.
THEOREM WebhookNothingVanishes == Spec => []NothingVanishes
<1>1. WebhookInv => NothingVanishes
  BY DEF WebhookInv, DeliveryAt, PathAt, Accounted, NothingVanishes, Settled
<1> QED BY <1>1, WebhookInvariant, PTL

\* A delivery is POSTed no more often than its webhook allows and has one outcome; a lost answer of
\* the queue and a stalled worker add one more round each.
THEOREM WebhookOneOutcome == Spec => []OneOutcome
<1>1. WebhookInv => OneOutcome
  <2> SUFFICES ASSUME WebhookInv, NEW d \in Deliveries
               PROVE  /\ Clean(d) => confirmed[d] + failures[d] <= 1 /\ posts[d] <= Attempts
                      /\ posts[d] <= 2 * Attempts + 1
    BY DEF OneOutcome, Clean
  <2>1. /\ CountAt(d) /\ OutcomeAt(d)
        /\ attempt[d] \in Nat \ {0} /\ made[d] \in Nat /\ posts[d] \in Nat
        /\ confirmed[d] \in Nat /\ failures[d] \in Nat
    BY DEF WebhookInv, TypeOK, DeliveryAt
  <2>2. Clean(d) => confirmed[d] + failures[d] <= 1
    BY <2>1 DEF OutcomeAt
  <2>3. Direct(d) \in Int /\ Direct(d) <= Attempts
    BY <2>1, AttemptsBound DEF CountAt, Direct
  <2>4. Queued(d) \in Int /\ Queued(d) <= Attempts + 1 /\ (Clean(d) => Queued(d) <= Attempts)
    BY <2>1, AttemptsBound DEF CountAt, Queued, Repeat
  <2> QED BY <2>1, <2>2, <2>3, <2>4, AttemptsBound DEF CountAt
<1> QED BY <1>1, WebhookInvariant, PTL
=============================================================================
