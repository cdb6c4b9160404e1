---------------------------- MODULE IngressProofs ----------------------------
(* Proofs about Ingress, for any number of deliveries, any budgets, bounds, mode and failures. *)
EXTENDS Ingress, FiniteSetTheorems, TLAPS

USE IngressAssumption

LEMMA TypeInit == Init => TypeOK
BY DEF Init, TypeOK, Rows, Jobs, Pcs, JobStates, Running, Callers, Batchers, NoJob

LEMMA JobNames ==
  /\ \A d \in Deliveries : <<d, 0>> \in Jobs
  /\ Rows \subseteq Jobs
  /\ \A j \in Jobs : j[1] \in Deliveries /\ j[2] \in 0..MaxRows /\ j = <<j[1], j[2]>>
  /\ NoJob \notin Jobs
  /\ \A j \in Jobs : j[2] # 0 => j \in Rows
  /\ \A b \in Batchers : b \in Callers /\ b \notin Deliveries
  /\ \A d \in Deliveries : d \in Callers /\ d \notin Batchers
BY DEF Jobs, Rows, NoJob, Callers, Batchers

LEMMA AtJob ==
  ASSUME TypeOK, NEW c \in Callers, pc[c] \notin {"idle", "next"}
  PROVE  At(c) \in Jobs /\ At(c)[1] \in Deliveries
BY JobNames DEF TypeOK, At, Callers

LEMMA TypeNewLetter ==
  ASSUME TypeOK, NEW d \in Deliveries, NewLetter(d)
  PROVE  letter' \in [Rows -> {"none", "open", "redriven"}]
BY DEF TypeOK, NewLetter, Rows

(* The types that enqueueing, and the end of a row, touch. *)
LEMMA TypeEnqueue ==
  ASSUME TypeOK, NEW c \in Callers, Enqueue(c)
  PROVE  TypeOK'
<1>0. pc[c] \in {"add", "inline"} BY DEF Enqueue, AddAccepted, AddRejected, InlineResolves, InlineRejects
<1>j. At(c) \in Jobs /\ At(c)[1] \in Deliveries BY <1>0, AtJob
<1>a. Added(At(c)) \in [Jobs -> JobStates] BY <1>j DEF TypeOK, Added, JobStates, Running
<1>1. CASE AddAccepted(c)
  BY <1>1, <1>j, <1>a, <1>0 DEF AddAccepted, TypeOK, Returns, After, Pcs, env, event, batch, history
<1>2. CASE AddRejected(c)
  BY <1>2, <1>j, <1>a, <1>0 DEF AddRejected, TypeOK, Spend, Pcs, env, event, batch, history
<1>3. CASE InlineResolves(c)
  BY <1>3, <1>j, <1>0 DEF InlineResolves, TypeOK, Returns, After, Pcs, env, event, bull, batch
<1>4. CASE InlineRejects(c)
  BY <1>4, <1>j, <1>0 DEF InlineRejects, TypeOK, Returns, After, Pcs, env, event, bull, batch, history
<1> QED BY <1>1, <1>2, <1>3, <1>4 DEF Enqueue

LEMMA TypeRequest ==
  ASSUME TypeOK, NEW d \in Deliveries,
         Receive(d) \/ LiveMarks(d) \/ LiveMarkFails(d) \/ LiveSaves(d) \/ Cools(d)
  PROVE  TypeOK'
<1>d. d \in Callers /\ d \notin Batchers BY JobNames
<1>1. CASE Receive(d)
  BY <1>1, <1>d DEF Receive, Launch, TypeOK, Pcs, env, bull, batch, history
<1>2. CASE LiveMarks(d)
  <2>1. CASE outcome[d] = "failed"
    <3>1. /\ attempts' = [attempts EXCEPT ![d] = @ + 1] /\ recent' = [recent EXCEPT ![d] = TRUE]
          /\ pc' = [pc EXCEPT ![d] = "save"] /\ outcome' = [outcome EXCEPT ![d] = "failed"]
          /\ UNCHANGED <<queued, enabled, state, job, made, stalled, letter, cur, todo, seen, faults, delivered, gap>>
      BY <1>2, <2>1 DEF LiveMarks, AfterMark, env, bull, batch, history
    <3>2. attempts' \in [Deliveries -> Nat] BY <3>1 DEF TypeOK
    <3>3. recent' \in [Deliveries -> BOOLEAN] BY <3>1 DEF TypeOK
    <3>4. pc' \in [Callers -> Pcs] /\ outcome' \in [Callers -> {"queued", "dispatched", "failed"}]
      BY <3>1 DEF TypeOK, Pcs
    <3>5. \A b \in Batchers : pc'[b] = pc[b] BY <3>1, <1>d DEF TypeOK
    <3> QED BY <3>1, <3>2, <3>3, <3>4, <3>5 DEF TypeOK
  <2>2. CASE outcome[d] # "failed"
    BY <1>2, <2>2, <1>d DEF LiveMarks, AfterMark, TypeOK, Pcs, env, bull, batch, history
  <2> QED BY <2>1, <2>2
<1>3. CASE LiveMarkFails(d)
  BY <1>3, <1>d DEF LiveMarkFails, AfterMark, Spend, TypeOK, Pcs, env, event, bull, batch, history
<1>4. CASE LiveSaves(d)
  BY <1>4, <1>d, TypeNewLetter DEF LiveSaves, Spend, TypeOK, Pcs, env, event, bull, batch, history
<1>5. CASE Cools(d)
  BY <1>5 DEF Cools, TypeOK, env, bull, batch, history
<1> QED BY <1>1, <1>2, <1>3, <1>4, <1>5

LEMMA TypeLoop ==
  ASSUME TypeOK, NEW b \in Batchers, pc[b] \notin {"idle", "next"}, Loop(b), UNCHANGED todo
  PROVE  /\ pc' \in [Callers -> Pcs] /\ cur' \in [Batchers -> Jobs \cup {NoJob}]
         /\ \A x \in Batchers : pc'[x] \notin {"idle", "next"} => cur'[x] \in Jobs
         /\ \A x \in Batchers : pc'[x] = "next" => todo'[x] # {}
         /\ cur'["redrive"] \in Rows \cup {NoJob}
         /\ outcome' \in [Callers -> {"queued", "dispatched", "failed"}]
         /\ seen' \in [Deliveries -> Nat]
<1>1. b \in Callers /\ "redrive" \in Batchers BY JobNames DEF Batchers
<1>2. pc' \in [Callers -> Pcs] BY <1>1 DEF Loop, TypeOK, Pcs
<1>3. cur' \in [Batchers -> Jobs \cup {NoJob}] /\ cur'["redrive"] \in Rows \cup {NoJob}
  BY <1>1 DEF Loop, TypeOK
<1>4. outcome' \in [Callers -> {"queued", "dispatched", "failed"}] BY <1>1 DEF Loop, TypeOK
<1>5. seen' \in [Deliveries -> Nat] BY DEF Loop, TypeOK
<1>6. ASSUME NEW x \in Batchers
      PROVE  /\ pc'[x] \notin {"idle", "next"} => cur'[x] \in Jobs
             /\ pc'[x] = "next" => todo'[x] # {}
  <2>1. x \in Callers BY JobNames
  <2>2. CASE x = b BY <1>1, <2>2 DEF Loop, TypeOK
  <2>3. CASE x # b BY <1>1, <2>1, <2>3 DEF Loop, TypeOK
  <2> QED BY <2>2, <2>3
<1> QED BY <1>2, <1>3, <1>4, <1>5, <1>6

LEMMA TypeSweep ==
  ASSUME TypeOK,
         SweepReads \/ SweepPicks \/ SweepCounts \/ SweepSaves \/ SweepMarks \/ SweepRetires \/ SweepThrows
  PROVE  TypeOK'
<1>s. "sweep" \in Callers /\ "sweep" \in Batchers /\ "redrive" \in Batchers BY DEF Callers, Batchers
<1>j. pc["sweep"] \notin {"idle", "next"} => cur["sweep"] \in Jobs /\ cur["sweep"][1] \in Deliveries
  BY <1>s, JobNames DEF TypeOK
<1>1. CASE SweepReads
  BY <1>1, <1>s, JobNames DEF SweepReads, TypeOK, Pcs, env, event, bull, history
<1>2. CASE SweepPicks
  <2>1. PICK j \in todo["sweep"] :
          \/ enabled /\ Take("sweep", j) /\ Launch("sweep") /\ UNCHANGED <<seen, faults>>
          \/ /\ (~enabled /\ UNCHANGED faults) \/ Spend("db")
             /\ todo' = [todo EXCEPT !["sweep"] = @ \ {j}]
             /\ pc' = [pc EXCEPT !["sweep"] = IF todo'["sweep"] = {} THEN "idle" ELSE "next"]
             /\ seen' = [seen EXCEPT ![j[1]] = 0]
             /\ UNCHANGED cur
    BY <1>2 DEF SweepPicks
  <2>2. j \in Jobs /\ pc["sweep"] = "next" BY <1>2, <1>s DEF TypeOK, SweepPicks
  <2>3. UNCHANGED <<env, event, bull, letter, outcome, history>> BY <1>2 DEF SweepPicks
  <2>4. CASE enabled /\ Take("sweep", j) /\ Launch("sweep") /\ UNCHANGED <<seen, faults>>
    BY <2>4, <2>2, <2>3, <1>s DEF Take, Launch, TypeOK, Pcs, env, event, bull, history
  <2>5. CASE /\ (~enabled /\ UNCHANGED faults) \/ Spend("db")
             /\ todo' = [todo EXCEPT !["sweep"] = @ \ {j}]
             /\ pc' = [pc EXCEPT !["sweep"] = IF todo'["sweep"] = {} THEN "idle" ELSE "next"]
             /\ seen' = [seen EXCEPT ![j[1]] = 0]
             /\ UNCHANGED cur
    <3>1. faults' \in Nat BY <2>5 DEF Spend, TypeOK
    <3>2. seen' \in [Deliveries -> Nat] BY <2>5 DEF TypeOK
    <3>3. pc' \in [Callers -> Pcs] BY <2>5, <1>s DEF TypeOK, Pcs
    <3>4. todo' \in [Batchers -> SUBSET Jobs] /\ todo'["redrive"] = todo["redrive"] BY <2>5, <1>s DEF TypeOK
    <3>5. \A b \in Batchers : b # "sweep" => pc'[b] = pc[b] /\ todo'[b] = todo[b]
      BY <2>5, <1>s, JobNames DEF TypeOK
    <3>6. pc'["sweep"] \in {"idle", "next"} /\ (pc'["sweep"] = "next" => todo'["sweep"] # {})
      BY <2>5, <1>s DEF TypeOK
    <3> QED BY <2>5, <2>3, <3>1, <3>2, <3>3, <3>4, <3>5, <3>6 DEF TypeOK, env, event, bull, history
  <2> QED BY <2>1, <2>4, <2>5
<1>3. CASE SweepCounts
  BY <1>3, <1>s DEF SweepCounts, TypeOK, Pcs, env, event, bull, batch, history
<1>4. CASE SweepSaves
  BY <1>4, <1>s, <1>j, TypeNewLetter DEF SweepSaves, TypeOK, Pcs, env, event, bull, batch, history
<1>5. CASE SweepMarks
  <2>1. CASE outcome["sweep"] # "failed"
    <3>1. /\ state' = [state EXCEPT ![cur["sweep"][1]] = "dispatched"]
          /\ pc' = [pc EXCEPT !["sweep"] = "retire"] /\ pc["sweep"] = "mark"
          /\ UNCHANGED <<queued, enabled, attempts, recent, job, made, stalled, letter, cur, outcome, todo,
                         seen, faults, delivered, gap>>
      BY <1>5, <2>1 DEF SweepMarks, env, bull, history
    <3> QED BY <3>1, <1>s, <1>j DEF TypeOK, Pcs
  <2>2. CASE outcome["sweep"] = "failed"
    <3>1. /\ Loop("sweep") /\ UNCHANGED <<env, bull, letter, todo, faults, history>>
          /\ attempts' = [attempts EXCEPT ![cur["sweep"][1]] = seen[cur["sweep"][1]] + 1]
          /\ state' = state \/ state' = [state EXCEPT ![cur["sweep"][1]] = "failed"]
          /\ recent' = [recent EXCEPT ![cur["sweep"][1]] = ~Exhausted(cur["sweep"][1])]
      BY <1>5, <2>2 DEF SweepMarks, NextAttempts
    <3>2. Exhausted(cur["sweep"][1]) \in BOOLEAN BY DEF Exhausted
    <3>3. pc["sweep"] = "mark" BY <1>5 DEF SweepMarks
    <3> QED BY <3>1, <3>2, <3>3, <1>s, <1>j, TypeLoop DEF TypeOK, env, bull, history
  <2> QED BY <2>1, <2>2
<1>6. CASE SweepRetires
  <2>1. pc["sweep"] = "retire" /\ Loop("sweep") /\ UNCHANGED <<env, event, bull, todo, faults, delivered>>
    BY <1>6 DEF SweepRetires
  <2>2. letter' \in [Rows -> {"none", "open", "redriven"}] BY <1>6 DEF SweepRetires, TypeOK
  <2>3. gap' \in [Deliveries -> SUBSET {"retired", "unsaved", "stalled"}]
    BY <1>6, <2>1, <1>j DEF SweepRetires, TypeOK
  <2> QED BY <2>1, <2>2, <2>3, <1>s, TypeLoop DEF TypeOK, env, event, bull
<1>7. CASE SweepThrows
  BY <1>7, <1>s, TypeLoop DEF SweepThrows, Spend, TypeOK, env, event, bull, history
<1> QED BY <1>1, <1>2, <1>3, <1>4, <1>5, <1>6, <1>7

LEMMA TypeRedrive ==
  ASSUME TypeOK,
         RedriveReads \/ RedrivePicks \/ RedriveMarks \/ RedriveRetires \/ RedriveThrows
  PROVE  TypeOK'
<1>s. "redrive" \in Callers /\ "sweep" \in Batchers /\ "redrive" \in Batchers BY DEF Callers, Batchers
<1>j. pc["redrive"] \notin {"idle", "next"} =>
        cur["redrive"] \in Jobs /\ cur["redrive"] \in Rows /\ cur["redrive"][1] \in Deliveries
  BY <1>s, JobNames DEF TypeOK
<1>1. CASE RedriveReads
  <2>1. UNION {Open(d) : d \in Deliveries} \subseteq Rows BY DEF Open
  <2> QED BY ZenonT(30), <1>1, <2>1, <1>s, JobNames DEF RedriveReads, TypeOK, Pcs, env, event, bull, history
<1>2. CASE RedrivePicks
  <2>1. PICK j \in todo["redrive"] : Take("redrive", j) BY <1>2 DEF RedrivePicks
  <2>2. j \in Rows /\ j \in Jobs BY <2>1, <1>s, JobNames DEF TypeOK
  <2> QED BY <1>2, <2>1, <2>2, <1>s DEF RedrivePicks, Take, Launch, TypeOK, Pcs, env, event, bull, history
<1>3. CASE RedriveMarks
  <2>1. state' \in [Deliveries -> {"absent", "pending", "dispatched", "failed"}]
    BY <1>3 DEF RedriveMarks, RetiredEvent, TypeOK
  <2>2. CASE outcome["redrive"] # "failed"
    <3>1. /\ pc' = [pc EXCEPT !["redrive"] = "retire"] /\ pc["redrive"] = "mark"
          /\ UNCHANGED <<queued, enabled, attempts, recent, job, made, stalled, letter, cur, outcome, todo,
                         seen, faults, delivered, gap>>
      BY <1>3, <2>2 DEF RedriveMarks, env, bull, history
    <3> QED BY <3>1, <2>1, <1>s, <1>j DEF TypeOK, Pcs
  <2>3. CASE outcome["redrive"] = "failed"
    BY <1>3, <2>1, <2>3, <1>s, TypeLoop DEF RedriveMarks, TypeOK, env, bull, history
  <2> QED BY <2>2, <2>3
<1>4. CASE RedriveRetires
  <2>1. letter' \in [Rows -> {"none", "open", "redriven"}] BY <1>4 DEF RedriveRetires, TypeOK
  <2> QED BY <1>4, <2>1, <1>s, TypeLoop DEF RedriveRetires, TypeOK, env, event, bull, history
<1>5. CASE RedriveThrows
  BY <1>5, <1>s DEF RedriveThrows, Spend, TypeOK, Pcs, NoJob, env, event, bull, history
<1> QED BY <1>1, <1>2, <1>3, <1>4, <1>5

LEMMA TypeWorker ==
  ASSUME TypeOK, NEW j \in Jobs, Worker(j) \/ JobEvicted(j)
  PROVE  TypeOK'
<1>j. j[1] \in Deliveries BY JobNames
<1>1. CASE JobStarts(j) \/ JobFails(j)
  BY <1>1 DEF JobStarts, JobFails, JobMoves, TypeOK, JobStates, Running, env, event, batch, history
<1>4. CASE JobSucceeds(j)
  BY <1>4, <1>j DEF JobSucceeds, JobMoves, TypeOK, JobStates, Running, env, event, batch
<1>5. CASE JobUnsaved(j)
  BY <1>5, <1>j DEF JobUnsaved, JobMoves, Spend, TypeOK, JobStates, Running, env, event, batch
<1>6. CASE JobEvicted(j)
  BY <1>6 DEF JobEvicted, JobMoves, TypeOK, JobStates, Running, env, event, batch, history
<1>2. CASE JobRejects(j)
  BY <1>2 DEF JobRejects, JobMoves, TypeOK, JobStates, Running, env, event, batch, history
<1>3. CASE JobBuried(j)
  BY <1>3, <1>j, TypeNewLetter DEF JobBuried, JobMoves, TypeOK, JobStates, Running, env, event, batch, history
<1> QED BY <1>1, <1>2, <1>3, <1>4, <1>5, <1>6 DEF Worker

LEMMA TypeEnvironment ==
  ASSUME TypeOK, Crash \/ Toggle
  PROVE  TypeOK'
<1>1. CASE Crash
  <2>1. gap' \in [Deliveries -> SUBSET {"retired", "unsaved", "stalled"}] BY <1>1 DEF Crash, TypeOK
  <2>2. job' \in [Jobs -> JobStates] BY <1>1 DEF Crash, TypeOK, JobStates
  <2>3. stalled' \in [Jobs -> BOOLEAN] BY <1>1 DEF Crash, TypeOK
  <2>4. /\ pc' \in [Callers -> Pcs] /\ outcome' \in [Callers -> {"queued", "dispatched", "failed"}]
        /\ seen' \in [Deliveries -> Nat] /\ faults' \in Nat
    BY <1>1 DEF Crash, Spend, TypeOK, Pcs
  <2>5. /\ cur' = [b \in Batchers |-> NoJob] /\ todo' = [b \in Batchers |-> {}]
        /\ pc' = [c \in Callers |-> "idle"] /\ UNCHANGED <<env, event, made, letter, delivered>>
    BY <1>1 DEF Crash
  <2> QED BY <2>1, <2>2, <2>3, <2>4, <2>5, JobNames DEF TypeOK, Batchers, env, event
<1>2. CASE Toggle
  BY <1>2 DEF Toggle, Spend, TypeOK, event, bull, batch, history
<1> QED BY <1>1, <1>2

LEMMA TypeNext == TypeOK /\ [Next]_vars => TypeOK'
<1> SUFFICES ASSUME TypeOK, [Next]_vars PROVE TypeOK' OBVIOUS
<1>1. CASE UNCHANGED vars BY <1>1 DEF vars, TypeOK
<1>2. CASE Next
  BY <1>2, JobNames, TypeEnqueue, TypeRequest, TypeSweep, TypeRedrive, TypeWorker, TypeEnvironment
     DEF Next, Request, Sweep, Redrive, Batchers
<1> QED BY <1>1, <1>2

(* Every variable keeps its type, for any constants. *)
THEOREM IngressTypes == Spec => []TypeOK
BY TypeInit, TypeNext, PTL DEF Spec

-----------------------------------------------------------------------------
(* Nothing is lost.  What keeps a delivery after the dead letter (or job) j: a dispatch, a gap, a  *)
(* live job, or an open dead letter that is younger than j.  "Younger" is what makes the invariant *)
(* inductive: a redrive closes a dead letter whose job has failed only because that failure wrote  *)
(* a later one, and no chain of such letters can close on itself.                                  *)
SafeAfter(j) ==
  \/ delivered[j[1]]
  \/ gap[j[1]] # {}
  \/ \E i \in Jobs : i[1] = j[1] /\ job[i] \in Live
  \/ \E r \in Rows : r[1] = j[1] /\ letter[r] = "open" /\ r[2] > j[2]

Known(j) == j[2] = 0 \/ (j \in Rows /\ letter[j] # "none")

Succeeded(c) == (pc[c] = "mark" /\ outcome[c] # "failed") \/ pc[c] = "retire"

(* Who has an open dead letter, or anything else that keeps it, at each await. *)
JobsKept == \A j \in Jobs : job[j] # "none" => Known(j) /\ SafeAfter(j)
BatchKnown ==
  /\ \A b \in Batchers : cur[b] \in Jobs => Known(cur[b])
  /\ \A b \in Batchers : \A j \in todo[b] : Known(j)
SweepAtEvents == \A j \in todo["sweep"] \cup {cur["sweep"]} : j \in Jobs => j[2] = 0
SuccessKept == \A c \in Callers : Succeeded(c) => SafeAfter(At(c))
EventKept ==
  \A d \in Deliveries : state[d] \in {"dispatched", "failed"} \/ Letters(d) # {} => SafeAfter(<<d, 0>>)
MarkedLast ==
  pc["sweep"] = "mark" /\ outcome["sweep"] = "failed" /\ Exhausted(cur["sweep"][1])
    => Letters(cur["sweep"][1]) # {}

CountsFailure == pc["sweep"] \in {"count", "save"} => outcome["sweep"] = "failed"

LossInv == TypeOK /\ JobsKept /\ BatchKnown /\ SweepAtEvents /\ SuccessKept /\ EventKept /\ MarkedLast
           /\ CountsFailure /\ FailedHasDeadLetter

(* The dead letter that a step saves is the youngest of its delivery. *)
LEMMA Youngest ==
  ASSUME TypeOK, NEW d \in Deliveries, NewLetter(d)
  PROVE  \E n \in Rows :
           /\ n[1] = d /\ letter[n] = "none" /\ letter' = [letter EXCEPT ![n] = "open"]
           /\ \A r \in Rows : r[1] = d /\ letter[r] # "none" => n[2] > r[2]
<1>1. PICK k \in 1..MaxRows :
        /\ \A i \in 1..MaxRows : letter[<<d, i>>] = "none" <=> k <= i
        /\ letter' = [letter EXCEPT ![<<d, k>>] = "open"]
  BY DEF NewLetter
<1>2. <<d, k>> \in Rows /\ letter[<<d, k>>] = "none" BY <1>1 DEF Rows
<1>3. ASSUME NEW r \in Rows, r[1] = d, letter[r] # "none" PROVE k > r[2]
  <2>1. r[2] \in 1..MaxRows /\ r = <<d, r[2]>> BY <1>3 DEF Rows
  <2> QED BY <2>1, <1>1, <1>3
<1> QED BY <1>1, <1>2, <1>3

(* Most steps only add to what keeps a delivery. *)
LEMMA SafeMono ==
  ASSUME TypeOK, NEW j \in Jobs, SafeAfter(j),
         \A d \in Deliveries : (delivered[d] => delivered'[d]) /\ (gap[d] # {} => gap'[d] # {}),
         \A r \in Rows : letter[r] = "open" => letter'[r] = "open",
         \A i \in Jobs : job[i] \in Live =>
           job'[i] \in Live \/ delivered'[i[1]] \/ gap'[i[1]] # {}
  PROVE  SafeAfter(j)'
<1>1. j[1] \in Deliveries BY JobNames
<1>2. CASE delivered[j[1]] BY <1>1, <1>2 DEF SafeAfter
<1>3. CASE gap[j[1]] # {} BY <1>1, <1>3 DEF SafeAfter
<1>4. CASE \E i \in Jobs : i[1] = j[1] /\ job[i] \in Live BY <1>4 DEF SafeAfter
<1>5. CASE \E r \in Rows : r[1] = j[1] /\ letter[r] = "open" /\ r[2] > j[2] BY <1>5 DEF SafeAfter
<1> QED BY <1>2, <1>3, <1>4, <1>5 DEF SafeAfter

LEMMA SafeSame ==
  ASSUME UNCHANGED <<job, letter, delivered, gap>>, NEW j \in Jobs, SafeAfter(j)
  PROVE  SafeAfter(j)'
BY DEF SafeAfter

(* A step leaves what keeps a delivery alone, unless it is one of these. *)
LEMMA SafeEnqueue ==
  ASSUME TypeOK, NEW c \in Callers, Enqueue(c), NEW j \in Jobs, SafeAfter(j)
  PROVE  SafeAfter(j)'
<1>0. pc[c] \in {"add", "inline"} BY DEF Enqueue, AddAccepted, AddRejected, InlineResolves, InlineRejects
<1>j. At(c) \in Jobs /\ At(c)[1] \in Deliveries BY <1>0, AtJob
<1>1. CASE AddAccepted(c) \/ AddRejected(c)
  <2>1. job' \in {job, Added(At(c))} /\ UNCHANGED <<letter, delivered, gap>>
    BY <1>1 DEF AddAccepted, AddRejected, history
  <2>2. \A i \in Jobs : job[i] \in Live => job'[i] \in Live
    BY <2>1, <1>j DEF TypeOK, Added, Live
  <2> QED BY <2>1, <2>2, SafeMono
<1>2. CASE InlineResolves(c)
  <2>1. delivered' = [delivered EXCEPT ![At(c)[1]] = TRUE] /\ UNCHANGED <<letter, job, gap>>
    BY <1>2 DEF InlineResolves, bull
  <2>2. \A d \in Deliveries : delivered[d] => delivered'[d] BY <2>1 DEF TypeOK
  <2> QED BY <2>1, <2>2, SafeMono
<1>3. CASE InlineRejects(c)
  BY <1>3, SafeSame DEF InlineRejects, bull, history
<1> QED BY <1>1, <1>2, <1>3 DEF Enqueue

LEMMA SafeNewLetter ==
  ASSUME TypeOK, NEW d \in Deliveries, NewLetter(d), UNCHANGED <<job, delivered, gap>>,
         NEW j \in Jobs, SafeAfter(j)
  PROVE  SafeAfter(j)'
<1>1. PICK n \in Rows : letter[n] = "none" /\ letter' = [letter EXCEPT ![n] = "open"] BY Youngest
<1>2. \A r \in Rows : letter[r] = "open" => letter'[r] = "open" BY <1>1 DEF TypeOK
<1> QED BY <1>2, SafeMono

LEMMA SafeRetired ==
  ASSUME LossInv, SweepRetires, NEW j \in Jobs, SafeAfter(j)
  PROVE  SafeAfter(j)'
<1> DEFINE d == cur["sweep"][1]
<1>d. d \in Deliveries /\ pc["sweep"] = "retire"
  BY JobNames DEF LossInv, TypeOK, SweepRetires, Batchers
<1>1. /\ letter' = [r \in Rows |-> IF r \in Open(d) THEN "redriven" ELSE letter[r]]
      /\ gap' = IF Open(d) # {} /\ ~delivered[d] /\ job[<<d, 0>>] \notin Live
                THEN [gap EXCEPT ![d] = @ \cup {"retired"}] ELSE gap
      /\ UNCHANGED <<job, delivered>>
  BY DEF SweepRetires, bull
<1>2. j[1] \in Deliveries BY JobNames
<1>3. \A x \in Deliveries : gap[x] # {} => gap'[x] # {}
  <2>1. SUFFICES ASSUME NEW x \in Deliveries, gap[x] # {} PROVE gap'[x] # {} OBVIOUS
  <2>2. CASE gap' = gap BY <2>1, <2>2
  <2>3. CASE gap' = [gap EXCEPT ![d] = @ \cup {"retired"}] BY <2>1, <2>3, <1>d DEF LossInv, TypeOK
  <2> QED BY <1>1, <2>2, <2>3
<1>4. CASE delivered[j[1]] \/ gap[j[1]] # {} \/ \E i \in Jobs : i[1] = j[1] /\ job[i] \in Live
  BY <1>4, <1>1, <1>2, <1>3 DEF SafeAfter
<1>5. CASE \E r \in Rows : r[1] = j[1] /\ letter[r] = "open" /\ r[2] > j[2]
  <2>1. PICK r \in Rows : r[1] = j[1] /\ letter[r] = "open" /\ r[2] > j[2] BY <1>5
  <2>2. CASE r[1] = d
    <3>1. r \in Open(d) BY <2>1, <2>2 DEF Open
    <3>2. CASE delivered[d] BY <3>2, <2>1, <2>2, <1>1 DEF SafeAfter
    <3>3. CASE job[<<d, 0>>] \in Live BY <3>3, <2>1, <2>2, <1>1, <1>d, JobNames DEF SafeAfter
    <3>4. CASE ~delivered[d] /\ job[<<d, 0>>] \notin Live
      <4>1. gap' = [gap EXCEPT ![d] = @ \cup {"retired"}] BY <3>1, <3>4, <1>1
      <4>2. gap'[d] # {} BY <4>1, <1>d DEF LossInv, TypeOK
      <4> QED BY <4>2, <2>1, <2>2 DEF SafeAfter
    <3> QED BY <3>2, <3>3, <3>4
  <2>3. CASE r[1] # d
    <3>1. r \notin Open(d) /\ letter'[r] = "open" BY <2>1, <2>3, <1>1 DEF Open
    <3> QED BY <3>1, <2>1 DEF SafeAfter
  <2> QED BY <2>2, <2>3
<1> QED BY <1>4, <1>5 DEF SafeAfter

LEMMA SafeRedriven ==
  ASSUME LossInv, RedriveRetires, NEW j \in Jobs, SafeAfter(j)
  PROVE  SafeAfter(j)'
<1> DEFINE m == cur["redrive"]
<1>1. m \in Rows /\ pc["redrive"] = "retire" /\ letter' = [letter EXCEPT ![m] = "redriven"]
      /\ UNCHANGED <<job, delivered, gap>>
  BY JobNames DEF LossInv, TypeOK, RedriveRetires, Batchers, bull, history
<1>2. SafeAfter(m) BY <1>1, JobNames DEF LossInv, SuccessKept, Succeeded, At, Batchers
<1>3. CASE delivered[j[1]] \/ gap[j[1]] # {} \/ \E i \in Jobs : i[1] = j[1] /\ job[i] \in Live
  BY <1>3, <1>1 DEF SafeAfter
<1>4. CASE \E r \in Rows : r[1] = j[1] /\ letter[r] = "open" /\ r[2] > j[2]
  <2>1. PICK r \in Rows : r[1] = j[1] /\ letter[r] = "open" /\ r[2] > j[2] BY <1>4
  <2>2. CASE r # m
    <3>1. letter'[r] = "open" BY <2>1, <2>2, <1>1 DEF LossInv, TypeOK
    <3> QED BY <3>1, <2>1 DEF SafeAfter
  <2>3. CASE r = m
    <3>1. CASE delivered[m[1]] \/ gap[m[1]] # {} \/ \E i \in Jobs : i[1] = m[1] /\ job[i] \in Live
      BY <3>1, <2>1, <2>3, <1>1 DEF SafeAfter
    <3>2. CASE \E q \in Rows : q[1] = m[1] /\ letter[q] = "open" /\ q[2] > m[2]
      <4>1. PICK q \in Rows : q[1] = m[1] /\ letter[q] = "open" /\ q[2] > m[2] BY <3>2
      <4>2. q # m /\ m[2] \in Nat /\ q[2] \in Nat /\ j[2] \in Nat BY <4>1, <1>1 DEF Rows, Jobs
      <4>3. letter'[q] = "open" BY <4>1, <4>2, <1>1 DEF LossInv, TypeOK
      <4>4. q[1] = j[1] /\ q[2] > j[2] BY <4>1, <4>2, <2>1, <2>3
      <4> QED BY <4>3, <4>4 DEF SafeAfter
    <3> QED BY <3>1, <3>2, <1>2 DEF SafeAfter
  <2> QED BY <2>2, <2>3
<1> QED BY <1>3, <1>4 DEF SafeAfter

LEMMA SafeWorker ==
  ASSUME TypeOK, NEW i \in Jobs, Worker(i) \/ JobEvicted(i), NEW j \in Jobs, Known(j), SafeAfter(j)
  PROVE  SafeAfter(j)'
<1>i. i[1] \in Deliveries BY JobNames
<1>1. CASE JobStarts(i) \/ JobRejects(i) \/ JobFails(i) \/ JobEvicted(i)
  <2>1. UNCHANGED <<letter, delivered, gap>>
    BY <1>1 DEF JobStarts, JobRejects, JobFails, JobEvicted, history
  <2>2. \A x \in Jobs : job[x] \in Live => job'[x] \in Live
    BY <1>1 DEF JobStarts, JobRejects, JobFails, JobEvicted, JobMoves, TypeOK, Live
  <2> QED BY <2>1, <2>2, SafeMono
<1>2. CASE JobSucceeds(i)
  <2>1. /\ delivered' = [delivered EXCEPT ![i[1]] = TRUE] /\ UNCHANGED <<letter, gap>>
        /\ job' = [job EXCEPT ![i] = "completed"]
    BY <1>2 DEF JobSucceeds, JobMoves
  <2>2. \A d \in Deliveries : delivered[d] => delivered'[d] BY <2>1 DEF TypeOK
  <2>3. delivered'[i[1]] BY <2>1, <1>i DEF TypeOK
  <2>4. \A x \in Jobs : job[x] \in Live => job'[x] \in Live \/ delivered'[x[1]]
    BY <2>1, <2>3 DEF TypeOK
  <2> QED BY <2>1, <2>2, <2>4, SafeMono
<1>3. CASE JobUnsaved(i)
  <2>1. /\ gap' = [gap EXCEPT ![i[1]] = @ \cup {"unsaved"}] /\ UNCHANGED <<letter, delivered>>
        /\ job' = [job EXCEPT ![i] = "failed"]
    BY <1>3 DEF JobUnsaved, JobMoves
  <2>2. gap'[i[1]] # {} /\ \A d \in Deliveries : gap[d] # {} => gap'[d] # {} BY <2>1, <1>i DEF TypeOK
  <2>3. \A x \in Jobs : job[x] \in Live => job'[x] \in Live \/ gap'[x[1]] # {}
    BY <2>1, <2>2 DEF TypeOK
  <2> QED BY <2>1, <2>2, <2>3, SafeMono
<1>4. CASE JobBuried(i)
  <2>1. /\ NewLetter(i[1]) /\ UNCHANGED <<delivered, gap>>
        /\ job[i] = "dying" /\ job' = [job EXCEPT ![i] = "buried"]
    BY <1>4 DEF JobBuried, JobMoves, history
  <2>2. PICK n \in Rows :
          /\ n[1] = i[1] /\ letter[n] = "none" /\ letter' = [letter EXCEPT ![n] = "open"]
          /\ \A r \in Rows : r[1] = i[1] /\ letter[r] # "none" => n[2] > r[2]
    BY <2>1, <1>i, Youngest
  <2>3. letter'[n] = "open" /\ \A r \in Rows : letter[r] = "open" => letter'[r] = "open"
    BY <2>2 DEF TypeOK
  <2>4. CASE j[1] = i[1]
    <3>1. n[2] > j[2] BY <2>2, <2>4, JobNames DEF Known, Rows
    <3> QED BY <3>1, <2>2, <2>3, <2>4 DEF SafeAfter
  <2>5. CASE j[1] # i[1]
    <3>1. \A x \in Jobs : x[1] = j[1] /\ job[x] \in Live => job'[x] \in Live BY <2>1, <2>5 DEF TypeOK
    <3> QED BY <3>1, <2>1, <2>3 DEF SafeAfter
  <2> QED BY <2>4, <2>5
<1> QED BY <1>1, <1>2, <1>3, <1>4 DEF Worker

LEMMA SafeCrash ==
  ASSUME TypeOK, Crash, NEW j \in Jobs, SafeAfter(j)
  PROVE  SafeAfter(j)'
<1>1. /\ job' = [i \in Jobs |-> IF job[i] \notin Running THEN job[i]
                                ELSE IF stalled[i] THEN "failed" ELSE "waiting"]
      /\ gap' = [d \in Deliveries |->
               IF \E i \in Jobs : i[1] = d /\ stalled[i] /\ job[i] \in {"active", "dying"}
               THEN gap[d] \cup {"stalled"} ELSE gap[d]]
      /\ UNCHANGED <<letter, delivered>>
  BY DEF Crash
<1>2. \A d \in Deliveries : gap[d] # {} => gap'[d] # {} BY <1>1
<1>3. ASSUME NEW i \in Jobs, job[i] \in Live PROVE job'[i] \in Live \/ gap'[i[1]] # {}
  <2>1. CASE job[i] = "waiting" BY <2>1, <1>1 DEF Running, Live
  <2>2. CASE job[i] # "waiting" /\ ~stalled[i] BY <2>2, <1>1, <1>3 DEF Running, Live
  <2>3. CASE job[i] # "waiting" /\ stalled[i] BY <2>3, <1>1, <1>3, JobNames DEF Live
  <2> QED BY <2>1, <2>2, <2>3
<1> QED BY <1>1, <1>2, <1>3, SafeMono

LEMMA SafeStable ==
  ASSUME LossInv, [Next]_vars, NEW j \in Jobs, Known(j), SafeAfter(j)
  PROVE  SafeAfter(j)'
<1>t. TypeOK BY DEF LossInv
<1>s. "sweep" \in Callers /\ "redrive" \in Callers BY DEF Callers, Batchers
<1>1. CASE \E c \in Callers : Enqueue(c) BY <1>1, <1>t, SafeEnqueue
<1>2. CASE \E d \in Deliveries : LiveSaves(d)
  <2>1. PICK d \in Deliveries : LiveSaves(d) BY <1>2
  <2>2. CASE NewLetter(d) BY <2>1, <2>2, <1>t, SafeNewLetter DEF LiveSaves, bull, history
  <2>3. CASE UNCHANGED letter BY <2>1, <2>3, SafeSame DEF LiveSaves, bull, history
  <2> QED BY <2>1, <2>2, <2>3 DEF LiveSaves
<1>3. CASE SweepSaves
  <2>1. cur["sweep"][1] \in Deliveries BY <1>3, <1>t, JobNames DEF SweepSaves, TypeOK, Batchers
  <2> QED BY <1>3, <2>1, <1>t, SafeNewLetter DEF SweepSaves, bull, history
<1>4. CASE SweepRetires BY <1>4, SafeRetired
<1>5. CASE RedriveRetires BY <1>5, SafeRedriven
<1>6. CASE \E i \in Jobs : Worker(i) \/ JobEvicted(i) BY <1>6, <1>t, SafeWorker
<1>7. CASE Crash BY <1>7, <1>t, SafeCrash
<1>8. CASE UNCHANGED vars BY <1>8, SafeSame DEF vars
<1>9. CASE \E d \in Deliveries : Receive(d) \/ LiveMarks(d) \/ LiveMarkFails(d) \/ Cools(d)
  BY <1>9, SafeSame DEF Receive, LiveMarks, LiveMarkFails, Cools, bull, history
<1>10. CASE SweepReads \/ SweepPicks \/ SweepCounts \/ SweepMarks \/ SweepThrows
  BY <1>10, SafeSame DEF SweepReads, SweepPicks, SweepCounts, SweepMarks, SweepThrows, bull, history
<1>11. CASE RedriveReads \/ RedrivePicks \/ RedriveMarks \/ RedriveThrows \/ Toggle
  BY <1>11, SafeSame DEF RedriveReads, RedrivePicks, RedriveMarks, RedriveThrows, Toggle, bull, history
<1> QED
  BY <1>1, <1>2, <1>3, <1>4, <1>5, <1>6, <1>7, <1>8, <1>9, <1>10, <1>11, <1>s, JobNames
     DEF Next, Request, Sweep, Redrive

(* A dead letter starts open, and is never deleted. *)
LEMMA LetterMoves ==
  ASSUME LossInv, [Next]_vars, NEW r \in Rows
  PROVE  \/ letter'[r] = letter[r]
         \/ letter[r] = "none" /\ letter'[r] = "open"
         \/ letter[r] # "none" /\ letter'[r] = "redriven" /\ (SweepRetires \/ RedriveRetires)
<1>t. TypeOK BY DEF LossInv
<1>s. pc["sweep"] \notin {"idle", "next"} => cur["sweep"][1] \in Deliveries
  BY JobNames DEF LossInv, TypeOK, Batchers
<1>1. CASE \E d \in Deliveries : NewLetter(d)
  BY <1>1, <1>t, Youngest DEF TypeOK
<1>2. CASE SweepRetires
  <2>1. letter' = [x \in Rows |-> IF x \in Open(cur["sweep"][1]) THEN "redriven" ELSE letter[x]]
    BY <1>2 DEF SweepRetires
  <2> QED BY <1>2, <2>1 DEF Open
<1>3. CASE RedriveRetires
  <2>1. cur["redrive"] \in Rows
    BY <1>3, <1>t, JobNames DEF RedriveRetires, TypeOK, Batchers
  <2>2. letter[cur["redrive"]] # "none"
    BY <2>1, JobNames DEF LossInv, BatchKnown, Known, Batchers, Rows
  <2>3. letter' = [letter EXCEPT ![cur["redrive"]] = "redriven"] BY <1>3 DEF RedriveRetires
  <2> QED BY <1>3, <2>1, <2>2, <2>3, <1>t DEF TypeOK
<1>4. CASE UNCHANGED letter BY <1>4
<1>5. CASE \E c \in Callers : Enqueue(c)
  BY <1>5, <1>4 DEF Enqueue, AddAccepted, AddRejected, InlineResolves, InlineRejects
<1>6. CASE \E d \in Deliveries :
             Receive(d) \/ LiveMarks(d) \/ LiveMarkFails(d) \/ LiveSaves(d) \/ Cools(d)
  BY <1>6, <1>1, <1>4 DEF Receive, LiveMarks, LiveMarkFails, LiveSaves, Cools
<1>7. CASE SweepSaves BY <1>7, <1>1, <1>s DEF SweepSaves
<1>8. CASE SweepReads \/ SweepPicks \/ SweepCounts \/ SweepMarks \/ SweepThrows
  BY <1>8, <1>4 DEF SweepReads, SweepPicks, SweepCounts, SweepMarks, SweepThrows
<1>9. CASE RedriveReads \/ RedrivePicks \/ RedriveMarks \/ RedriveThrows
  BY <1>9, <1>4 DEF RedriveReads, RedrivePicks, RedriveMarks, RedriveThrows
<1>10. CASE \E i \in Jobs : Worker(i) \/ JobEvicted(i)
  BY <1>10, <1>1, <1>4, JobNames DEF Worker, JobStarts, JobSucceeds, JobRejects, JobBuried, JobFails,
     JobUnsaved, JobEvicted
<1>11. CASE Crash \/ Toggle BY <1>11, <1>4 DEF Crash, Toggle
<1>12. CASE UNCHANGED vars BY <1>12, <1>4 DEF vars
<1>c. "sweep" \in Callers /\ "redrive" \in Callers BY DEF Callers, Batchers
<1> QED
  BY <1>2, <1>3, <1>5, <1>6, <1>7, <1>8, <1>9, <1>10, <1>11, <1>12, <1>c, JobNames
     DEF Next, Request, Sweep, Redrive

LEMMA LettersStay ==
  ASSUME LossInv, [Next]_vars, NEW r \in Rows, letter[r] # "none"
  PROVE  letter'[r] # "none"
BY LetterMoves

LEMMA KnownStays ==
  ASSUME LossInv, [Next]_vars, NEW j, Known(j)
  PROVE  Known(j)'
BY LettersStay DEF Known

(* A job appears only because a caller adds it. *)
LEMMA NewJob ==
  ASSUME TypeOK, [Next]_vars, NEW j \in Jobs, job[j] = "none", job'[j] # "none"
  PROVE  job'[j] \in Live /\ \E c \in Callers : pc[c] = "add" /\ j = At(c)
<1>1. CASE \E c \in Callers : Enqueue(c)
  <2>1. PICK c \in Callers : Enqueue(c) BY <1>1
  <2>0. pc[c] \in {"add", "inline"}
    BY <2>1 DEF Enqueue, AddAccepted, AddRejected, InlineResolves, InlineRejects
  <2>2. At(c) \in Jobs BY <2>0, AtJob
  <2>3. job' = job \/ (job' = Added(At(c)) /\ pc[c] = "add")
    BY <2>1 DEF Enqueue, AddAccepted, AddRejected, InlineResolves, InlineRejects, bull
  <2> QED BY <2>2, <2>3 DEF Added, TypeOK, Live
<1>2. CASE UNCHANGED job BY <1>2
<1>3. CASE \E i \in Jobs : Worker(i) \/ JobEvicted(i)
  BY <1>3 DEF Worker, JobStarts, JobSucceeds, JobRejects, JobBuried, JobFails,
     JobUnsaved, JobEvicted, JobMoves, TypeOK
<1>4. CASE Crash BY <1>4 DEF Crash, Running
<1>5. CASE \E d \in Deliveries :
             Receive(d) \/ LiveMarks(d) \/ LiveMarkFails(d) \/ LiveSaves(d) \/ Cools(d)
  BY <1>5, <1>2 DEF Receive, LiveMarks, LiveMarkFails, LiveSaves, Cools, bull
<1>6. CASE \/ SweepReads \/ SweepPicks \/ SweepCounts \/ SweepSaves \/ SweepMarks \/ SweepRetires
           \/ SweepThrows
  BY <1>6, <1>2 DEF SweepReads, SweepPicks, SweepCounts, SweepSaves, SweepMarks, SweepRetires,
     SweepThrows, bull
<1>7. CASE RedriveReads \/ RedrivePicks \/ RedriveMarks \/ RedriveRetires \/ RedriveThrows \/ Toggle
  BY <1>7, <1>2 DEF RedriveReads, RedrivePicks, RedriveMarks, RedriveRetires, RedriveThrows, Toggle, bull
<1>8. CASE UNCHANGED vars BY <1>8, <1>2 DEF vars
<1>c. "sweep" \in Callers /\ "redrive" \in Callers BY DEF Callers, Batchers
<1> QED
  BY <1>1, <1>3, <1>4, <1>5, <1>6, <1>7, <1>8, <1>c, JobNames DEF Next, Request, Sweep, Redrive

LEMMA JobsKeptStays ==
  ASSUME LossInv, [Next]_vars
  PROVE  JobsKept'
<1>t. TypeOK BY DEF LossInv
<1> SUFFICES ASSUME NEW j \in Jobs, job'[j] # "none" PROVE Known(j)' /\ SafeAfter(j)' BY DEF JobsKept
<1>1. CASE job[j] # "none"
  BY <1>1, KnownStays, SafeStable DEF LossInv, JobsKept
<1>2. CASE job[j] = "none"
  <2>1. PICK c \in Callers : pc[c] = "add" /\ j = At(c) BY <1>2, <1>t, NewJob
  <2>2. ASSUME c \in Deliveries PROVE Known(j)'
    <3>1. j[2] = 0 BY <2>1, <2>2 DEF At
    <3> QED BY <3>1 DEF Known
  <2>3. ASSUME c \in Batchers PROVE Known(j)'
    <3>1. j = cur[c] BY <2>1, <2>3, JobNames DEF At
    <3>2. Known(j) BY <3>1, <2>3 DEF LossInv, BatchKnown
    <3> QED BY <3>2, KnownStays
  <2>4. SafeAfter(j)' BY <1>2, <1>t, NewJob DEF SafeAfter
  <2>5. Known(j)' BY <2>2, <2>3 DEF Callers
  <2> QED BY <2>4, <2>5
<1> QED BY <1>1, <1>2

(* What a batcher holds came from its own read. *)
LEMMA BatchMoves ==
  ASSUME TypeOK, [Next]_vars, NEW b \in Batchers
  PROVE  /\ cur'[b] \in {cur[b], NoJob} \cup todo[b]
         /\ \/ todo'[b] \subseteq todo[b]
            \/ b = "sweep" /\ todo'[b] \subseteq {<<d, 0>> : d \in {x \in Deliveries : Stale(x)}}
            \/ b = "redrive" /\ \A j \in todo'[b] : j \in Rows /\ letter[j] # "none"
<1> USE DEF TypeOK
<1>1. CASE UNCHANGED <<cur, todo>> BY <1>1
<1>2. CASE \E c \in Callers : Enqueue(c)
  BY <1>2, <1>1 DEF Enqueue, AddAccepted, AddRejected, InlineResolves, InlineRejects, batch
<1>3. CASE \E d \in Deliveries :
             Receive(d) \/ LiveMarks(d) \/ LiveMarkFails(d) \/ LiveSaves(d) \/ Cools(d)
  BY <1>3, <1>1 DEF Receive, LiveMarks, LiveMarkFails, LiveSaves, Cools, batch
<1>4. CASE SweepReads
  BY <1>4, JobNames DEF SweepReads, Batchers
<1>5. CASE SweepPicks
  BY <1>5 DEF SweepPicks, Take, Batchers
<1>6. CASE SweepCounts \/ SweepSaves
  BY <1>6, <1>1 DEF SweepCounts, SweepSaves, batch
<1>7. CASE SweepMarks \/ SweepRetires \/ SweepThrows
  <2>1. todo' = todo BY <1>7 DEF SweepMarks, SweepRetires, SweepThrows
  <2>2. cur' = cur \/ cur' = [cur EXCEPT !["sweep"] = NoJob]
    BY <1>7 DEF SweepMarks, SweepRetires, SweepThrows, Loop
  <2> QED BY <2>1, <2>2
<1>8. CASE RedriveReads
  <2>1. /\ cur' = cur
        /\ todo' = [todo EXCEPT !["redrive"] = UNION {Open(d) : d \in Deliveries}]
    BY <1>8 DEF RedriveReads
  <2>2. \A j \in UNION {Open(d) : d \in Deliveries} : j \in Rows /\ letter[j] # "none" BY DEF Open
  <2>3. CASE b = "sweep" BY <2>1, <2>3
  <2>4. CASE b = "redrive"
    <3>1. todo'[b] = UNION {Open(d) : d \in Deliveries} BY <2>1, <2>4
    <3> QED BY <3>1, <2>1, <2>2, <2>4
  <2> QED BY <2>3, <2>4 DEF Batchers
<1>9. CASE RedrivePicks BY <1>9 DEF RedrivePicks, Take, Batchers
<1>10. CASE RedriveMarks \/ RedriveRetires \/ RedriveThrows
  BY <1>10 DEF RedriveMarks, RedriveRetires, RedriveThrows, Loop, batch, Batchers
<1>11. CASE \E i \in Jobs : Worker(i) \/ JobEvicted(i)
  BY <1>11, <1>1 DEF Worker, JobStarts, JobSucceeds, JobRejects, JobBuried, JobFails,
     JobUnsaved, JobEvicted, batch
<1>12. CASE Crash BY <1>12 DEF Crash
<1>13. CASE Toggle BY <1>13, <1>1 DEF Toggle, batch
<1>14. CASE UNCHANGED vars BY <1>14, <1>1 DEF vars
<1>c. "sweep" \in Callers /\ "redrive" \in Callers BY DEF Callers, Batchers
<1> QED
  BY <1>2, <1>3, <1>4, <1>5, <1>6, <1>7, <1>8, <1>9, <1>10, <1>11, <1>12, <1>13, <1>14, <1>c, JobNames
     DEF Next, Request, Sweep, Redrive

LEMMA BatchKnownStays ==
  ASSUME LossInv, [Next]_vars
  PROVE  BatchKnown' /\ SweepAtEvents'
<1>t. TypeOK /\ TypeOK' BY TypeNext DEF LossInv
<1>1. ASSUME NEW b \in Batchers, NEW j \in Jobs, j = cur'[b] PROVE Known(j)'
  <2>1. j \in {cur[b]} \cup todo[b]
    <3>1. cur'[b] \in {cur[b], NoJob} \cup todo[b] BY <1>t, BatchMoves
    <3> QED BY <3>1, <1>1, JobNames
  <2>2. Known(j) BY <2>1, <1>1 DEF LossInv, BatchKnown
  <2> QED BY <2>2, KnownStays
<1>2. ASSUME NEW b \in Batchers, NEW j \in todo'[b] PROVE Known(j)'
  <2>1. CASE j \in todo[b]
    <3>1. Known(j) BY <1>2, <2>1 DEF LossInv, BatchKnown
    <3> QED BY <3>1, KnownStays
  <2>2. CASE b = "sweep" /\ j \in {<<d, 0>> : d \in {x \in Deliveries : Stale(x)}} BY <2>2 DEF Known
  <2>3. CASE b = "redrive" /\ j \in Rows /\ letter[j] # "none"
    <3>1. Known(j) BY <2>3 DEF Known
    <3> QED BY <3>1, KnownStays
  <2> QED BY <1>2, <1>t, <2>1, <2>2, <2>3, BatchMoves
<1>3. ASSUME NEW j \in todo'["sweep"] \cup {cur'["sweep"]}, j \in Jobs PROVE j[2] = 0
  <2>s. "sweep" \in Batchers BY DEF Batchers
  <2>1. CASE j \in todo["sweep"] \cup {cur["sweep"]}
    BY <2>1, <1>3 DEF LossInv, SweepAtEvents
  <2>2. CASE j \in {<<d, 0>> : d \in {x \in Deliveries : Stale(x)}} BY <2>2
  <2> QED BY <1>3, <1>t, <2>s, <2>1, <2>2, BatchMoves, JobNames
<1>4. BatchKnown' BY <1>1, <1>2 DEF BatchKnown
<1>5. SweepAtEvents' BY <1>3 DEF SweepAtEvents
<1> QED BY <1>4, <1>5

(* How a caller comes to believe that its replay succeeded. *)
LEMMA NewSuccess ==
  ASSUME TypeOK, CountsFailure, [Next]_vars, NEW c \in Callers, Succeeded(c)'
  PROVE  /\ At(c)' = At(c) /\ At(c) \in Jobs
         /\ Succeeded(c) \/ job'[At(c)] # "none" \/ delivered'[At(c)[1]]
<1>a. CASE UNCHANGED <<pc, outcome, cur>>
  <2>1. Succeeded(c) BY <1>a DEF Succeeded
  <2>2. At(c)' = At(c) BY <1>a DEF At
  <2>3. pc[c] \notin {"idle", "next"} BY <2>1 DEF Succeeded
  <2> QED BY <2>1, <2>2, <2>3, AtJob
<1>1. CASE \E x \in Callers : Enqueue(x)
  <2>1. PICK x \in Callers : Enqueue(x) BY <1>1
  <2>2. cur' = cur /\ At(c)' = At(c)
    BY <2>1 DEF Enqueue, AddAccepted, AddRejected, InlineResolves, InlineRejects, At
  <2>0. pc[x] \in {"add", "inline"}
    BY <2>1 DEF Enqueue, AddAccepted, AddRejected, InlineResolves, InlineRejects
  <2>3. CASE x # c
    <3>1. pc'[c] = pc[c] /\ outcome'[c] = outcome[c]
      BY <2>1, <2>3 DEF Enqueue, AddAccepted, AddRejected, InlineResolves, InlineRejects, Returns, TypeOK
    <3>2. Succeeded(c) BY <3>1 DEF Succeeded
    <3>3. pc[c] \notin {"idle", "next"} BY <3>2 DEF Succeeded
    <3> QED BY <3>2, <3>3, <2>2, AtJob
  <2>4. CASE x = c
    <3>1. At(c) \in Jobs /\ At(c)[1] \in Deliveries BY <2>0, <2>4, AtJob
    <3>2. CASE AddAccepted(c)
      <4>1. job'[At(c)] # "none" BY <3>1, <3>2 DEF AddAccepted, Added, TypeOK
      <4> QED BY <4>1, <3>1, <2>2
    <3>3. CASE AddRejected(c)
      <4>1. pc'[c] = "inline" BY <3>3 DEF AddRejected, TypeOK
      <4> QED BY <4>1 DEF Succeeded
    <3>4. CASE InlineResolves(c)
      <4>1. delivered'[At(c)[1]] BY <3>1, <3>4 DEF InlineResolves, TypeOK
      <4> QED BY <4>1, <3>1, <2>2
    <3>5. CASE InlineRejects(c)
      <4>1. outcome'[c] = "failed" /\ pc'[c] \in {"mark", "count"}
        BY <3>5 DEF InlineRejects, Returns, After, TypeOK
      <4> QED BY <4>1 DEF Succeeded
    <3> QED BY <2>1, <2>4, <3>2, <3>3, <3>4, <3>5 DEF Enqueue
  <2> QED BY <2>3, <2>4
<1>2. CASE \E d \in Deliveries : Receive(d)
  <2>1. PICK d \in Deliveries : Receive(d) BY <1>2
  <2>2. cur' = cur /\ outcome' = outcome /\ At(c)' = At(c) BY <2>1 DEF Receive, At
  <2>3. pc'[c] = pc[c] BY <2>1 DEF Receive, Launch, TypeOK, Succeeded
  <2>4. Succeeded(c) BY <2>2, <2>3 DEF Succeeded
  <2>5. pc[c] \notin {"idle", "next"} BY <2>4 DEF Succeeded
  <2> QED BY <2>2, <2>4, <2>5, AtJob
<1>3. CASE \E d \in Deliveries : LiveMarks(d) \/ LiveMarkFails(d) \/ LiveSaves(d) \/ Cools(d)
  <2>1. PICK d \in Deliveries : LiveMarks(d) \/ LiveMarkFails(d) \/ LiveSaves(d) \/ Cools(d) BY <1>3
  <2>2. cur' = cur /\ At(c)' = At(c) BY <2>1 DEF LiveMarks, LiveMarkFails, LiveSaves, Cools, At
  <2>3. Succeeded(c)
    BY <2>1 DEF LiveMarks, LiveMarkFails, LiveSaves, Cools, AfterMark, TypeOK, Succeeded
  <2>5. pc[c] \notin {"idle", "next"} BY <2>3 DEF Succeeded
  <2> QED BY <2>2, <2>3, <2>5, AtJob
<1>b. ASSUME pc'[c] = pc[c], outcome'[c] = outcome[c], At(c)' = At(c) PROVE Succeeded(c) /\ At(c) \in Jobs
  <2>1. Succeeded(c) BY <1>b DEF Succeeded
  <2>2. pc[c] \notin {"idle", "next"} BY <2>1 DEF Succeeded
  <2> QED BY <2>1, <2>2, AtJob
<1>4. CASE \/ SweepReads \/ SweepPicks \/ SweepCounts \/ SweepSaves \/ SweepMarks \/ SweepRetires
           \/ SweepThrows
  <2>1. CASE c # "sweep"
    <3>1. pc'[c] = pc[c] /\ outcome'[c] = outcome[c]
      BY <1>4, <2>1 DEF SweepReads, SweepPicks, SweepCounts, SweepSaves, SweepMarks, SweepRetires,
         SweepThrows, Launch, Loop, TypeOK
    <3>2. c \in Batchers => cur'[c] = cur[c]
      BY <1>4, <2>1 DEF SweepReads, SweepPicks, SweepCounts, SweepSaves, SweepMarks, SweepRetires,
         SweepThrows, Take, Loop, TypeOK
    <3>3. At(c)' = At(c) BY <3>2 DEF At, Callers
    <3> QED BY <3>1, <3>3, <1>b
  <2>2. CASE c = "sweep" /\ SweepMarks
    <3>1. CASE outcome["sweep"] # "failed" /\ pc["sweep"] = "mark" /\ UNCHANGED <<cur, outcome>>
      <4>1. Succeeded(c) /\ At(c)' = At(c) BY <2>2, <3>1 DEF Succeeded, At
      <4>2. At(c) \in Jobs BY <2>2, <3>1, AtJob
      <4> QED BY <4>1, <4>2
    <3>2. CASE Loop("sweep") BY <2>2, <3>2 DEF Loop, TypeOK, Succeeded
    <3> QED BY <2>2, <3>1, <3>2 DEF SweepMarks
  <2>3. CASE c = "sweep" /\ (SweepCounts \/ SweepSaves)
    <3>1. outcome'[c] = "failed" /\ pc'[c] \in {"save", "mark"}
      BY <2>3 DEF SweepCounts, SweepSaves, CountsFailure, TypeOK
    <3> QED BY <3>1 DEF Succeeded
  <2>4. CASE c = "sweep" /\ (SweepReads \/ SweepPicks)
    <3>1. pc'[c] \in {"idle", "next", "add", "inline"}
      BY <2>4 DEF SweepReads, SweepPicks, Launch, TypeOK
    <3> QED BY <3>1 DEF Succeeded
  <2>5. CASE c = "sweep" /\ (SweepRetires \/ SweepThrows)
    <3>1. pc'[c] \in {"idle", "next"} BY <2>5 DEF SweepRetires, SweepThrows, Loop, TypeOK
    <3> QED BY <3>1 DEF Succeeded
  <2> QED BY <1>4, <2>1, <2>2, <2>3, <2>4, <2>5
<1>9. CASE RedriveReads \/ RedrivePicks \/ RedriveMarks \/ RedriveRetires \/ RedriveThrows
  <2>1. CASE c # "redrive"
    <3>1. pc'[c] = pc[c] /\ outcome'[c] = outcome[c]
      BY <1>9, <2>1 DEF RedriveReads, RedrivePicks, RedriveMarks, RedriveRetires, RedriveThrows,
         Launch, Loop, TypeOK
    <3>2. c \in Batchers => cur'[c] = cur[c]
      BY <1>9, <2>1 DEF RedriveReads, RedrivePicks, RedriveMarks, RedriveRetires, RedriveThrows,
         Take, Loop, TypeOK
    <3>3. At(c)' = At(c) BY <3>2 DEF At, Callers
    <3> QED BY <3>1, <3>3, <1>b
  <2>2. CASE c = "redrive" /\ RedriveMarks
    <3>1. CASE outcome["redrive"] # "failed" /\ pc["redrive"] = "mark" /\ UNCHANGED <<cur, outcome>>
      <4>1. Succeeded(c) /\ At(c)' = At(c) BY <2>2, <3>1 DEF Succeeded, At
      <4>2. At(c) \in Jobs BY <2>2, <3>1, AtJob
      <4> QED BY <4>1, <4>2
    <3>2. CASE Loop("redrive") BY <2>2, <3>2 DEF Loop, TypeOK, Succeeded
    <3> QED BY <2>2, <3>1, <3>2 DEF RedriveMarks
  <2>3. CASE c = "redrive" /\ (RedriveReads \/ RedrivePicks \/ RedriveRetires \/ RedriveThrows)
    <3>1. pc'[c] \in {"idle", "next", "add", "inline"}
      BY <2>3 DEF RedriveReads, RedrivePicks, RedriveRetires, RedriveThrows, Launch, Loop, TypeOK
    <3> QED BY <3>1 DEF Succeeded
  <2> QED BY <1>9, <2>1, <2>2, <2>3
<1>5. CASE \E i \in Jobs : Worker(i) \/ JobEvicted(i)
  BY <1>5, <1>a DEF Worker, JobStarts, JobSucceeds, JobRejects, JobBuried, JobFails,
     JobUnsaved, JobEvicted
<1>6. CASE Crash BY <1>6 DEF Crash, Succeeded
<1>7. CASE Toggle BY <1>7, <1>a DEF Toggle
<1>8. CASE UNCHANGED vars BY <1>8, <1>a DEF vars
<1>c. "sweep" \in Callers /\ "redrive" \in Callers BY DEF Callers, Batchers
<1> QED
  BY <1>1, <1>2, <1>3, <1>4, <1>5, <1>6, <1>7, <1>8, <1>9, <1>c, JobNames
     DEF Next, Request, Sweep, Redrive

LEMMA SuccessKeptStays ==
  ASSUME LossInv, [Next]_vars
  PROVE  SuccessKept'
<1>t. TypeOK /\ CountsFailure BY DEF LossInv
<1> SUFFICES ASSUME NEW c \in Callers, Succeeded(c)' PROVE SafeAfter(At(c))' BY DEF SuccessKept
<1> DEFINE j == At(c)
<1>1. /\ At(c)' = j /\ j \in Jobs
      /\ Succeeded(c) \/ job'[j] # "none" \/ delivered'[j[1]]
  BY <1>t, NewSuccess
<1>2. ASSUME NEW k \in Jobs, k = j PROVE SafeAfter(k)'
  <2>1. Known(k)
    <3>1. CASE c \in Deliveries BY <3>1, <1>2 DEF At, Known
    <3>2. CASE c \in Batchers
      <4>1. k = cur[c] BY <3>2, <1>2, JobNames DEF At
      <4> QED BY <4>1, <3>2 DEF LossInv, BatchKnown
    <3> QED BY <3>1, <3>2 DEF Callers
  <2>2. CASE Succeeded(c)
    <3>1. SafeAfter(k) BY <2>2, <1>2 DEF LossInv, SuccessKept
    <3> QED BY <3>1, <2>1, SafeStable
  <2>3. CASE job'[k] # "none" BY <2>3, JobsKeptStays DEF JobsKept
  <2>4. CASE delivered'[k[1]] BY <2>4 DEF SafeAfter
  <2> QED BY <1>1, <1>2, <2>2, <2>3, <2>4
<1>3. \A k \in Jobs : k = At(c)' => SafeAfter(k)' BY <1>1, <1>2
<1> QED BY <1>1, <1>3 DEF SafeAfter

(* What keeps a delivery after any of its dead letters keeps it after its event. *)
LEMMA SafeFromStart ==
  ASSUME NEW j \in Jobs, SafeAfter(j)
  PROVE  SafeAfter(<<j[1], 0>>)
<1>1. j[2] \in 0..MaxRows BY DEF Jobs
<1>2. CASE \E r \in Rows : r[1] = j[1] /\ letter[r] = "open" /\ r[2] > j[2]
  <2>1. PICK r \in Rows : r[1] = j[1] /\ letter[r] = "open" /\ r[2] > j[2] BY <1>2
  <2>2. r[2] > 0 BY <2>1, <1>1 DEF Rows
  <2> QED BY <2>1, <2>2 DEF SafeAfter
<1>3. CASE ~ \E r \in Rows : r[1] = j[1] /\ letter[r] = "open" /\ r[2] > j[2]
  BY <1>3 DEF SafeAfter
<1> QED BY <1>2, <1>3


(* A dead letter that appears keeps its delivery. *)
LEMMA NewLetters ==
  ASSUME LossInv, [Next]_vars, NEW d \in Deliveries, Letters(d) = {}, Letters(d)' # {}
  PROVE  SafeAfter(<<d, 0>>)'
<1>1. PICK r \in Rows : r[1] = d /\ letter'[r] # "none" BY DEF Letters
<1>2. letter[r] = "none" BY <1>1 DEF Letters
<1>3. letter'[r] = "open" BY <1>1, <1>2, LetterMoves
<1>4. r[2] > 0 BY DEF Rows
<1> QED BY <1>1, <1>3, <1>4 DEF SafeAfter

(* Who changes the state of an event, and why it may. *)
LEMMA StateMoves ==
  ASSUME LossInv, [Next]_vars, NEW d \in Deliveries, state'[d] # state[d]
  PROVE  \/ state'[d] = "dispatched" /\ \E c \in Callers :
               Succeeded(c) /\ At(c) \in Jobs /\ At(c)[1] = d
         \/ state'[d] = "failed" /\ Letters(d) # {}
         \/ state[d] = "absent" /\ state'[d] = "pending"
<1>t. TypeOK BY DEF LossInv
<1>c. "sweep" \in Callers /\ "redrive" \in Callers BY DEF Callers, Batchers
<1>1. CASE \E x \in Deliveries : LiveMarks(x)
  <2>1. PICK x \in Deliveries : LiveMarks(x) BY <1>1
  <2>2. /\ pc[x] = "mark" /\ outcome[x] # "failed"
        /\ state' = [state EXCEPT ![x] = "dispatched"]
    BY <2>1 DEF LiveMarks
  <2>3. x = d /\ state'[d] = "dispatched" BY <2>2, <1>t DEF TypeOK
  <2>4. Succeeded(x) /\ At(x) = <<x, 0>> /\ x \in Callers BY <2>2 DEF Succeeded, At, Callers
  <2>5. At(x) \in Jobs BY <2>2, <2>4, <1>t, AtJob
  <2> QED BY <2>3, <2>4, <2>5
<1>2. CASE SweepMarks
  <2> DEFINE x == cur["sweep"][1]
  <2>1. pc["sweep"] = "mark" /\ At("sweep") \in Jobs BY <1>2, <1>t, <1>c, AtJob DEF SweepMarks
  <2>2. At("sweep") = cur["sweep"] BY JobNames DEF At, Batchers
  <2>3. CASE outcome["sweep"] # "failed"
    <3>1. state' = [state EXCEPT ![x] = "dispatched"] BY <1>2, <2>3 DEF SweepMarks
    <3>2. x = d /\ state'[d] = "dispatched" BY <3>1, <1>t DEF TypeOK
    <3>3. Succeeded("sweep") BY <2>1, <2>3 DEF Succeeded
    <3> QED BY <3>2, <3>3, <2>1, <2>2, <1>c
  <2>4. CASE outcome["sweep"] = "failed"
    <3>1. state' = IF Exhausted(x) THEN [state EXCEPT ![x] = "failed"] ELSE state
      BY <1>2, <2>4 DEF SweepMarks
    <3>2. Exhausted(x) /\ state' = [state EXCEPT ![x] = "failed"] BY <3>1
    <3>3. x = d /\ state'[d] = "failed" BY <3>2, <1>t DEF TypeOK
    <3>4. Letters(d) # {} BY <3>2, <3>3, <2>1, <2>4 DEF LossInv, MarkedLast
    <3> QED BY <3>3, <3>4
  <2> QED BY <2>3, <2>4
<1>3. CASE RedriveMarks
  <2>1. pc["redrive"] = "mark" /\ At("redrive") \in Jobs BY <1>3, <1>t, <1>c, AtJob DEF RedriveMarks
  <2>2. At("redrive") = cur["redrive"] BY JobNames DEF At, Batchers
  <2>3. outcome["redrive"] # "failed" /\ state' = RetiredEvent(cur["redrive"][1])
    BY <1>3 DEF RedriveMarks
  <2>4. cur["redrive"][1] = d /\ state'[d] = "dispatched" BY <2>3, <1>t DEF RetiredEvent, TypeOK
  <2>5. Succeeded("redrive") BY <2>1, <2>3 DEF Succeeded
  <2> QED BY <2>1, <2>2, <2>4, <2>5, <1>c
<1>4. CASE \E x \in Deliveries : Receive(x) BY <1>4, <1>t DEF Receive, TypeOK
<1>u. CASE UNCHANGED state BY <1>u
<1>5. CASE \E c \in Callers : Enqueue(c)
  BY <1>5, <1>u DEF Enqueue, AddAccepted, AddRejected, InlineResolves, InlineRejects, event
<1>6. CASE \E x \in Deliveries : LiveMarkFails(x) \/ LiveSaves(x) \/ Cools(x)
  BY <1>6, <1>u DEF LiveMarkFails, LiveSaves, Cools, event
<1>7. CASE SweepReads \/ SweepPicks \/ SweepCounts \/ SweepSaves \/ SweepRetires \/ SweepThrows
  BY <1>7, <1>u DEF SweepReads, SweepPicks, SweepCounts, SweepSaves, SweepRetires, SweepThrows, event
<1>8. CASE RedriveReads \/ RedrivePicks \/ RedriveRetires \/ RedriveThrows \/ Crash \/ Toggle
  BY <1>8, <1>u DEF RedriveReads, RedrivePicks, RedriveRetires, RedriveThrows, Crash, Toggle, event
<1>9. CASE \E i \in Jobs : Worker(i) \/ JobEvicted(i)
  BY <1>9, <1>u DEF Worker, JobStarts, JobSucceeds, JobRejects, JobBuried, JobFails,
     JobUnsaved, JobEvicted, event
<1>10. CASE UNCHANGED vars BY <1>10, <1>u DEF vars
<1> QED
  BY <1>1, <1>2, <1>3, <1>4, <1>5, <1>6, <1>7, <1>8, <1>9, <1>10, <1>c, JobNames
     DEF Next, Request, Sweep, Redrive

LEMMA EventKeptStays ==
  ASSUME LossInv, [Next]_vars
  PROVE  EventKept' /\ FailedHasDeadLetter'
<1>t. TypeOK /\ TypeOK' BY TypeNext DEF LossInv
<1>s. ASSUME NEW d \in Deliveries, SafeAfter(<<d, 0>>) PROVE SafeAfter(<<d, 0>>)'
  <2>1. <<d, 0>> \in Jobs /\ Known(<<d, 0>>) BY JobNames DEF Known
  <2> QED BY <1>s, <2>1, SafeStable
<1>l. ASSUME NEW d \in Deliveries, Letters(d) # {} PROVE Letters(d)' # {}
  <2>1. PICK r \in Rows : r[1] = d /\ letter[r] # "none" BY <1>l DEF Letters
  <2>2. letter'[r] # "none" BY <2>1, LettersStay
  <2> QED BY <2>1, <2>2 DEF Letters
<1>1. ASSUME NEW d \in Deliveries, state'[d] \in {"dispatched", "failed"}
      PROVE  SafeAfter(<<d, 0>>)' /\ (state'[d] = "failed" => Letters(d)' # {})
  <2>1. CASE state'[d] = state[d]
    BY <1>1, <2>1, <1>s, <1>l DEF LossInv, EventKept, FailedHasDeadLetter
  <2>2. CASE state'[d] # state[d]
    <3>1. CASE state'[d] = "failed" /\ Letters(d) # {} BY <3>1, <1>s, <1>l DEF LossInv, EventKept
    <3>2. CASE state'[d] = "dispatched" /\ \E c \in Callers :
                 Succeeded(c) /\ At(c) \in Jobs /\ At(c)[1] = d
      <4>1. PICK c \in Callers : Succeeded(c) /\ At(c) \in Jobs /\ At(c)[1] = d BY <3>2
      <4>2. SafeAfter(At(c)) BY <4>1 DEF LossInv, SuccessKept
      <4>3. SafeAfter(<<d, 0>>) BY <4>1, <4>2, SafeFromStart
      <4> QED BY <4>3, <3>2, <1>s
    <3> QED BY <1>1, <2>2, <3>1, <3>2, StateMoves
  <2> QED BY <2>1, <2>2
<1>2. ASSUME NEW d \in Deliveries, Letters(d)' # {} PROVE SafeAfter(<<d, 0>>)'
  <2>1. CASE Letters(d) = {} BY <1>2, <2>1, NewLetters
  <2>2. CASE Letters(d) # {} BY <2>2, <1>s DEF LossInv, EventKept
  <2> QED BY <2>1, <2>2
<1> QED BY <1>1, <1>2 DEF EventKept, FailedHasDeadLetter

(* The sweep's own variables change only by its own steps, and in a crash. *)
LEMMA Elsewhere ==
  ASSUME TypeOK, [Next]_vars
  PROVE  \/ Sweep \/ Crash
         \/ /\ pc'["sweep"] = pc["sweep"] /\ outcome'["sweep"] = outcome["sweep"]
            /\ cur'["sweep"] = cur["sweep"] /\ seen' = seen
<1>c. "sweep" \in Callers /\ "sweep" \in Batchers /\ "sweep" \notin Deliveries
  BY IngressAssumption DEF Callers, Batchers
<1>1. ASSUME NEW x \in Deliveries \cup {"redrive"}, Enqueue(x)
      PROVE  /\ pc'["sweep"] = pc["sweep"] /\ outcome'["sweep"] = outcome["sweep"]
             /\ cur'["sweep"] = cur["sweep"] /\ seen' = seen
  BY <1>1, <1>c DEF Enqueue, AddAccepted, AddRejected, InlineResolves, InlineRejects, Returns, batch, TypeOK
<1>2. ASSUME NEW d \in Deliveries, Receive(d) \/ LiveMarks(d) \/ LiveMarkFails(d) \/ LiveSaves(d) \/ Cools(d)
      PROVE  /\ pc'["sweep"] = pc["sweep"] /\ outcome'["sweep"] = outcome["sweep"]
             /\ cur'["sweep"] = cur["sweep"] /\ seen' = seen
  BY <1>2, <1>c DEF Receive, Launch, LiveMarks, LiveMarkFails, LiveSaves, Cools, AfterMark, batch, TypeOK
<1>3. CASE RedriveReads \/ RedrivePicks \/ RedriveMarks \/ RedriveRetires \/ RedriveThrows
  BY <1>3, <1>c DEF RedriveReads, RedrivePicks, RedriveMarks, RedriveRetires, RedriveThrows, Launch, Take,
     Loop, TypeOK
<1>4. CASE \E i \in Jobs : Worker(i) \/ JobEvicted(i)
  BY <1>4 DEF Worker, JobStarts, JobSucceeds, JobRejects, JobBuried, JobFails, JobUnsaved, JobEvicted, batch
<1>5. CASE Toggle \/ UNCHANGED vars BY <1>5 DEF Toggle, batch, vars
<1> QED BY <1>1, <1>2, <1>3, <1>4, <1>5 DEF Next, Request, Redrive

LEMMA SweepPlan ==
  ASSUME LossInv, [Next]_vars
  PROVE  MarkedLast' /\ CountsFailure'
<1>t. TypeOK /\ CountsFailure BY DEF LossInv
<1>c. "sweep" \in Callers /\ "sweep" \in Batchers BY DEF Callers, Batchers
<1>l. ASSUME NEW d \in Deliveries, Letters(d) # {} PROVE Letters(d)' # {}
  <2>1. PICK r \in Rows : r[1] = d /\ letter[r] # "none" BY <1>l DEF Letters
  <2>2. letter'[r] # "none" BY <2>1, LettersStay
  <2> QED BY <2>1, <2>2 DEF Letters
<1>d. pc["sweep"] \notin {"idle", "next"} => cur["sweep"][1] \in Deliveries
  BY <1>t, <1>c, JobNames DEF TypeOK
<1>1. CASE /\ pc'["sweep"] = pc["sweep"] /\ outcome'["sweep"] = outcome["sweep"]
           /\ cur'["sweep"] = cur["sweep"] /\ seen' = seen
  <2>1. CountsFailure' BY <1>1, <1>t DEF CountsFailure
  <2>2. MarkedLast'
    <3>1. CASE pc["sweep"] = "mark" /\ outcome["sweep"] = "failed" /\ Exhausted(cur["sweep"][1])
      <4>1. Letters(cur["sweep"][1]) # {} BY <3>1 DEF LossInv, MarkedLast
      <4>2. \A d \in Deliveries : d = cur["sweep"][1] => Letters(d)' # {} BY <4>1, <1>l
      <4>3. \A d \in Deliveries : d = cur'["sweep"][1] => Letters(d)' # {} BY <4>2, <1>1
      <4>4. cur'["sweep"][1] \in Deliveries BY <3>1, <1>d, <1>1
      <4> QED BY <4>3, <4>4 DEF MarkedLast, Letters
    <3>2. CASE ~(pc["sweep"] = "mark" /\ outcome["sweep"] = "failed" /\ Exhausted(cur["sweep"][1]))
      BY <3>2, <1>1 DEF MarkedLast, Exhausted
    <3> QED BY <3>1, <3>2
  <2> QED BY <2>1, <2>2
<1>2. CASE Crash BY <1>2, <1>c DEF Crash, MarkedLast, CountsFailure
<1>3. CASE Enqueue("sweep")
  <2>1. cur' = cur /\ seen' = seen
    BY <1>3 DEF Enqueue, AddAccepted, AddRejected, InlineResolves, InlineRejects, batch
  <2>2. CASE AddAccepted("sweep") \/ InlineResolves("sweep")
    <3>1. outcome'["sweep"] # "failed" /\ pc'["sweep"] = "mark"
      BY <2>2, <1>t, <1>c DEF AddAccepted, InlineResolves, Returns, After, TypeOK
    <3> QED BY <3>1 DEF MarkedLast, CountsFailure
  <2>3. CASE AddRejected("sweep")
    <3>1. pc'["sweep"] = "inline" BY <2>3, <1>t, <1>c DEF AddRejected, TypeOK
    <3> QED BY <3>1 DEF MarkedLast, CountsFailure
  <2>4. CASE InlineRejects("sweep")
    <3>1. /\ outcome'["sweep"] = "failed"
          /\ pc'["sweep"] = IF Exhausted(cur["sweep"][1]) THEN "count" ELSE "mark"
      BY <2>4, <1>t, <1>c DEF InlineRejects, Returns, After, TypeOK
    <3> QED BY <3>1, <2>1 DEF MarkedLast, CountsFailure, Exhausted
  <2> QED BY <1>3, <2>2, <2>3, <2>4 DEF Enqueue
<1>4. CASE SweepCounts \/ SweepSaves
  <2>0. pc["sweep"] \in {"count", "save"} BY <1>4 DEF SweepCounts, SweepSaves
  <2>1. outcome'["sweep"] = "failed" /\ cur' = cur
    BY <1>4, <1>t DEF SweepCounts, SweepSaves, CountsFailure
  <2>2. PICK d \in Deliveries : d = cur["sweep"][1] BY <2>0, <1>d
  <2>3. CASE SweepCounts
    <3>1. CASE Letters(d) # {}
      <4>1. Letters(d)' # {} BY <3>1, <1>l
      <4> QED BY <4>1, <2>0, <2>1, <2>2 DEF MarkedLast, CountsFailure, Letters
    <3>2. CASE Letters(d) = {}
      <4>1. pc'["sweep"] = "save" BY <2>2, <2>3, <3>2, <1>t, <1>c DEF SweepCounts, TypeOK
      <4> QED BY <4>1, <2>1 DEF MarkedLast, CountsFailure
    <3> QED BY <3>1, <3>2
  <2>4. CASE SweepSaves
    <3>1. NewLetter(d) BY <2>2, <2>4 DEF SweepSaves
    <3>2. PICK n \in Rows : n[1] = d /\ letter' = [letter EXCEPT ![n] = "open"]
      BY <3>1, <2>2, <1>t, Youngest
    <3>3. letter'[n] = "open" BY <3>2, <1>t DEF TypeOK
    <3>4. Letters(d)' # {} BY <3>2, <3>3 DEF Letters
    <3> QED BY <3>4, <2>1, <2>2 DEF MarkedLast, CountsFailure, Letters
  <2> QED BY <1>4, <2>3, <2>4
<1>5. CASE SweepReads \/ SweepPicks
  <2>1. pc'["sweep"] \in {"idle", "next", "add", "inline"}
    BY <1>5, <1>t, <1>c DEF SweepReads, SweepPicks, Launch, TypeOK
  <2> QED BY <2>1 DEF MarkedLast, CountsFailure
<1>6. CASE SweepMarks \/ SweepRetires \/ SweepThrows
  <2>1. pc'["sweep"] \in {"idle", "next", "retire"}
    BY <1>6, <1>t, <1>c DEF SweepMarks, SweepRetires, SweepThrows, Loop, TypeOK
  <2> QED BY <2>1 DEF MarkedLast, CountsFailure
<1> QED BY <1>t, <1>1, <1>2, <1>3, <1>4, <1>5, <1>6, Elsewhere DEF Sweep

LEMMA LossInit == Init => LossInv
<1> SUFFICES ASSUME Init PROVE LossInv OBVIOUS
<1>1. TypeOK BY TypeInit
<1>2. JobsKept BY DEF Init, JobsKept
<1>3. BatchKnown /\ SweepAtEvents BY JobNames DEF Init, BatchKnown, SweepAtEvents, Batchers
<1>4. SuccessKept BY DEF Init, SuccessKept, Succeeded
<1>5. EventKept /\ FailedHasDeadLetter BY DEF Init, EventKept, FailedHasDeadLetter, Letters
<1>6. MarkedLast /\ CountsFailure BY DEF Init, MarkedLast, CountsFailure, Callers, Batchers
<1> QED BY <1>1, <1>2, <1>3, <1>4, <1>5, <1>6 DEF LossInv

LEMMA LossNext == LossInv /\ [Next]_vars => LossInv'
BY TypeNext, JobsKeptStays, BatchKnownStays, SuccessKeptStays, EventKeptStays, SweepPlan DEF LossInv

LEMMA LossMeans == LossInv => NothingLost
<1> SUFFICES ASSUME LossInv, NEW d \in Deliveries, state[d] \in {"dispatched", "failed"}
             PROVE  Held(d) \/ gap[d] # {}
  BY DEF NothingLost
<1>1. SafeAfter(<<d, 0>>) BY DEF LossInv, EventKept
<1>2. (\E r \in Rows : r[1] = d /\ letter[r] = "open") => Open(d) # {} BY DEF Open
<1> QED BY <1>1, <1>2 DEF SafeAfter, Held

(* No event gives up its payload while nothing else keeps the delivery, but for the three gaps.    *)
THEOREM IngressNothingLost == Spec => []NothingLost
<1>1. Spec => []LossInv BY LossInit, LossNext, PTL DEF Spec
<1> QED BY <1>1, LossMeans, PTL

(* An event that was given up has a dead letter.                                                   *)
THEOREM IngressFailedHasDeadLetter == Spec => []FailedHasDeadLetter
<1>1. Spec => []LossInv BY LossInit, LossNext, PTL DEF Spec
<1>2. LossInv => FailedHasDeadLetter BY DEF LossInv
<1> QED BY <1>1, <1>2, PTL

-----------------------------------------------------------------------------
(* A redriven dead letter belongs to a settled event.  Only a delivery that was received has a job, *)
(* a dead letter or a place in a batch, so settling its event is final.                             *)
Settled(d) == state[d] \in {"dispatched", "failed"}

RequestPresent == \A d \in Deliveries : pc[d] # "idle" => state[d] # "absent"
JobPresent == \A j \in Jobs : job[j] # "none" => state[j[1]] # "absent"
BatchPresent ==
  /\ \A b \in Batchers : cur[b] \in Jobs => state[cur[b][1]] # "absent"
  /\ \A b \in Batchers : \A j \in todo[b] : state[j[1]] # "absent"
LetterPresent == \A r \in Rows : letter[r] # "none" => state[r[1]] # "absent"
RetireSettled == \A b \in Batchers : pc[b] = "retire" => Settled(cur[b][1])
RedrivenSettled == \A r \in Rows : letter[r] = "redriven" => Settled(r[1])

RedriveInv == LossInv /\ RequestPresent /\ JobPresent /\ BatchPresent /\ LetterPresent /\ RetireSettled
              /\ RedrivenSettled

LEMMA StatesStay ==
  ASSUME LossInv, [Next]_vars, NEW d \in Deliveries
  PROVE  /\ state[d] # "absent" => state'[d] # "absent"
         /\ Settled(d) => Settled(d)'
<1>1. CASE state'[d] = state[d] BY <1>1 DEF Settled
<1>2. CASE state'[d] # state[d] BY <1>2, StateMoves DEF Settled
<1> QED BY <1>1, <1>2

(* A request begins when its delivery is received. *)
LEMMA RequestPresentStays ==
  ASSUME LossInv, RequestPresent, [Next]_vars
  PROVE  RequestPresent'
<1>t. TypeOK BY DEF LossInv
<1> SUFFICES ASSUME NEW d \in Deliveries, pc'[d] # "idle", state[d] = "absent", pc[d] = "idle"
             PROVE  state'[d] # "absent"
  BY StatesStay DEF RequestPresent
<1>c. d \in Callers /\ d \notin Batchers BY IngressAssumption DEF Callers, Batchers
<1>1. CASE \E x \in Deliveries : Receive(x)
  BY <1>1, <1>t, <1>c DEF Receive, Launch, TypeOK
<1>2. CASE \E c \in Callers : Enqueue(c)
  BY <1>2, <1>t, <1>c DEF Enqueue, AddAccepted, AddRejected, InlineResolves, InlineRejects, Returns, TypeOK
<1>3. CASE \E x \in Deliveries : LiveMarks(x) \/ LiveMarkFails(x) \/ LiveSaves(x) \/ Cools(x)
  BY <1>3, <1>t, <1>c DEF LiveMarks, LiveMarkFails, LiveSaves, Cools, AfterMark, TypeOK
<1>4. CASE \/ SweepReads \/ SweepPicks \/ SweepCounts \/ SweepSaves \/ SweepMarks \/ SweepRetires
           \/ SweepThrows
  BY <1>4, <1>t, <1>c DEF SweepReads, SweepPicks, SweepCounts, SweepSaves, SweepMarks, SweepRetires,
     SweepThrows, Launch, Loop, TypeOK, Batchers
<1>5. CASE RedriveReads \/ RedrivePicks \/ RedriveMarks \/ RedriveRetires \/ RedriveThrows
  BY <1>5, <1>t, <1>c DEF RedriveReads, RedrivePicks, RedriveMarks, RedriveRetires, RedriveThrows,
     Launch, Loop, TypeOK, Batchers
<1>6. CASE \E i \in Jobs : Worker(i) \/ JobEvicted(i)
  BY <1>6 DEF Worker, JobStarts, JobSucceeds, JobRejects, JobBuried, JobFails, JobUnsaved, JobEvicted
<1>7. CASE Crash \/ Toggle \/ UNCHANGED vars BY <1>7, <1>c DEF Crash, Toggle, vars
<1>s. "sweep" \in Callers /\ "redrive" \in Callers BY DEF Callers, Batchers
<1> QED
  BY <1>1, <1>2, <1>3, <1>4, <1>5, <1>6, <1>7, <1>c, <1>s DEF Next, Request, Sweep, Redrive, Callers

LEMMA JobPresentStays ==
  ASSUME LossInv, RequestPresent, JobPresent, BatchPresent, [Next]_vars
  PROVE  JobPresent'
<1>t. TypeOK BY DEF LossInv
<1> SUFFICES ASSUME NEW j \in Jobs, job'[j] # "none" PROVE state'[j[1]] # "absent" BY DEF JobPresent
<1>1. j[1] \in Deliveries BY JobNames
<1>2. state[j[1]] # "absent"
  <2>1. CASE job[j] # "none" BY <2>1 DEF JobPresent
  <2>2. CASE job[j] = "none"
    <3>1. PICK c \in Callers : pc[c] = "add" /\ j = At(c) BY <2>2, <1>t, NewJob
    <3>2. CASE c \in Deliveries BY <3>1, <3>2 DEF At, RequestPresent
    <3>3. CASE c \in Batchers
      <4>1. j = cur[c] BY <3>1, <3>3, JobNames DEF At
      <4> QED BY <4>1, <3>3 DEF BatchPresent
    <3> QED BY <3>2, <3>3 DEF Callers
  <2> QED BY <2>1, <2>2
<1> QED BY <1>1, <1>2, StatesStay

LEMMA BatchPresentStays ==
  ASSUME LossInv, BatchPresent, LetterPresent, [Next]_vars
  PROVE  BatchPresent'
<1>t. TypeOK BY DEF LossInv
<1>n. TypeOK' BY <1>t, TypeNext
<1>s. ASSUME NEW j \in Jobs, state[j[1]] # "absent" PROVE state'[j[1]] # "absent"
  BY <1>s, JobNames, StatesStay
<1>1. ASSUME NEW b \in Batchers, NEW j \in Jobs, j = cur'[b] PROVE state'[j[1]] # "absent"
  <2>1. j \in {cur[b]} \cup todo[b]
    <3>1. cur'[b] \in {cur[b], NoJob} \cup todo[b] BY <1>t, BatchMoves
    <3> QED BY <3>1, <1>1, JobNames
  <2>2. state[j[1]] # "absent" BY <2>1, <1>1 DEF BatchPresent
  <2> QED BY <2>2, <1>s
<1>2. ASSUME NEW b \in Batchers, NEW j \in todo'[b] PROVE state'[j[1]] # "absent"
  <2>0. j \in Jobs BY <1>2, <1>n DEF TypeOK
  <2>1. CASE j \in todo[b] BY <2>0, <2>1, <1>s DEF BatchPresent
  <2>2. CASE j \in {<<d, 0>> : d \in {x \in Deliveries : Stale(x)}} BY <2>0, <2>2, <1>s DEF Stale
  <2>3. CASE j \in Rows /\ letter[j] # "none" BY <2>0, <2>3, <1>s DEF LetterPresent
  <2> QED BY <1>2, <1>t, <2>1, <2>2, <2>3, BatchMoves
<1> QED BY <1>1, <1>2 DEF BatchPresent

LEMMA LetterPresentStays ==
  ASSUME LossInv, RequestPresent, JobPresent, BatchPresent, LetterPresent, [Next]_vars
  PROVE  LetterPresent'
<1>t. TypeOK BY DEF LossInv
<1> SUFFICES ASSUME NEW r \in Rows, letter'[r] # "none" PROVE state'[r[1]] # "absent" BY DEF LetterPresent
<1>r. r[1] \in Deliveries BY DEF Rows
<1>a. CASE letter[r] # "none" BY <1>a, <1>r, StatesStay DEF LetterPresent
<1>b. CASE state[r[1]] # "absent" BY <1>b, <1>r, StatesStay
<1>n. ASSUME NEW d \in Deliveries, NewLetter(d), state[d] # "absent" PROVE state'[r[1]] # "absent"
  <2>1. PICK n \in Rows : n[1] = d /\ letter' = [letter EXCEPT ![n] = "open"] BY <1>n, <1>t, Youngest
  <2>2. r = n \/ letter[r] # "none" BY <2>1, <1>t DEF TypeOK
  <2> QED BY <2>1, <2>2, <1>n, <1>a, <1>b
<1>u. CASE UNCHANGED letter BY <1>u, <1>a
<1>1. CASE \E d \in Deliveries : LiveSaves(d)
  <2>1. PICK d \in Deliveries : LiveSaves(d) BY <1>1
  <2>2. state[d] # "absent" BY <2>1 DEF LiveSaves, RequestPresent
  <2> QED BY <2>1, <2>2, <1>n, <1>u DEF LiveSaves
<1>2. CASE SweepSaves
  <2>1. cur["sweep"] \in Jobs BY <1>2, <1>t DEF SweepSaves, TypeOK, Batchers
  <2>2. state[cur["sweep"][1]] # "absent" BY <2>1 DEF BatchPresent, Batchers
  <2> QED BY <1>2, <2>1, <2>2, <1>n, JobNames DEF SweepSaves
<1>3. CASE SweepRetires BY <1>3, <1>a DEF SweepRetires, Open
<1>4. CASE RedriveRetires
  <2>1. cur["redrive"] \in Jobs /\ letter' = [letter EXCEPT ![cur["redrive"]] = "redriven"]
    BY <1>4, <1>t DEF RedriveRetires, TypeOK, Batchers
  <2>2. state[cur["redrive"][1]] # "absent" BY <2>1 DEF BatchPresent, Batchers
  <2>3. r = cur["redrive"] \/ letter[r] # "none" BY <2>1, <1>t DEF TypeOK
  <2> QED BY <2>2, <2>3, <1>a, <1>b
<1>5. CASE \E i \in Jobs : JobBuried(i)
  <2>1. PICK i \in Jobs : JobBuried(i) BY <1>5
  <2>2. NewLetter(i[1]) /\ state[i[1]] # "absent" BY <2>1 DEF JobBuried, JobMoves, JobPresent
  <2> QED BY <2>2, <1>n, JobNames
<1>6. CASE \E c \in Callers : Enqueue(c)
  BY <1>6, <1>u DEF Enqueue, AddAccepted, AddRejected, InlineResolves, InlineRejects
<1>7. CASE \E d \in Deliveries : Receive(d) \/ LiveMarks(d) \/ LiveMarkFails(d) \/ Cools(d)
  BY <1>7, <1>u DEF Receive, LiveMarks, LiveMarkFails, Cools
<1>8. CASE SweepReads \/ SweepPicks \/ SweepCounts \/ SweepMarks \/ SweepThrows
  BY <1>8, <1>u DEF SweepReads, SweepPicks, SweepCounts, SweepMarks, SweepThrows
<1>9. CASE RedriveReads \/ RedrivePicks \/ RedriveMarks \/ RedriveThrows \/ Crash \/ Toggle
  BY <1>9, <1>u DEF RedriveReads, RedrivePicks, RedriveMarks, RedriveThrows, Crash, Toggle
<1>10. CASE \E i \in Jobs : JobStarts(i) \/ JobSucceeds(i) \/ JobRejects(i) \/ JobFails(i)
                             \/ JobUnsaved(i) \/ JobEvicted(i)
  BY <1>10, <1>u DEF JobStarts, JobSucceeds, JobRejects, JobFails, JobUnsaved, JobEvicted
<1>11. CASE UNCHANGED vars BY <1>11, <1>u DEF vars
<1>c. "sweep" \in Callers /\ "redrive" \in Callers BY DEF Callers, Batchers
<1> QED
  BY <1>1, <1>2, <1>3, <1>4, <1>5, <1>6, <1>7, <1>8, <1>9, <1>10, <1>11, <1>c, JobNames
     DEF Next, Request, Sweep, Redrive, Worker

(* A batcher retires a dead letter only after it has settled the event. *)
LEMMA RetireSettledStays ==
  ASSUME LossInv, BatchPresent, RetireSettled, [Next]_vars
  PROVE  RetireSettled'
<1>t. TypeOK BY DEF LossInv
<1> SUFFICES ASSUME NEW b \in Batchers, pc'[b] = "retire" PROVE Settled(cur[b][1])'
  BY DEF RetireSettled
<1>b. b \in Callers /\ b \notin Deliveries BY IngressAssumption DEF Callers, Batchers
<1>a. ASSUME pc'[b] = pc[b], cur'[b] = cur[b] PROVE Settled(cur[b][1])'
  <2>1. Settled(cur[b][1]) /\ cur[b] \in Jobs BY <1>a, <1>t DEF RetireSettled, TypeOK
  <2>2. \A d \in Deliveries : Settled(d) => Settled(d)' BY StatesStay
  <2>3. \A d \in Deliveries : d = cur[b][1] => state'[d] \in {"dispatched", "failed"}
    BY <2>1, <2>2 DEF Settled
  <2>4. state'[cur'[b][1]] \in {"dispatched", "failed"} BY <2>1, <2>3, <1>a, JobNames
  <2> QED BY <2>4 DEF Settled
<1>1. CASE \E c \in Callers : Enqueue(c)
  <2>1. PICK c \in Callers : Enqueue(c) BY <1>1
  <2>2. cur' = cur BY <2>1 DEF Enqueue, AddAccepted, AddRejected, InlineResolves, InlineRejects
  <2>3. CASE c = b
    BY <2>1, <2>3, <1>t, <1>b DEF Enqueue, AddAccepted, AddRejected, InlineResolves, InlineRejects,
       Returns, After, TypeOK
  <2>4. CASE c # b
    <3>1. pc'[b] = pc[b]
      BY <2>1, <2>4, <1>t, <1>b DEF Enqueue, AddAccepted, AddRejected, InlineResolves, InlineRejects,
         Returns, TypeOK
    <3> QED BY <3>1, <2>2, <1>a
  <2> QED BY <2>3, <2>4
<1>2. CASE \E d \in Deliveries :
             Receive(d) \/ LiveMarks(d) \/ LiveMarkFails(d) \/ LiveSaves(d) \/ Cools(d)
  <2>1. cur' = cur BY <1>2 DEF Receive, LiveMarks, LiveMarkFails, LiveSaves, Cools
  <2>2. pc'[b] = pc[b]
    BY <1>2, <1>t, <1>b DEF Receive, Launch, LiveMarks, LiveMarkFails, LiveSaves, Cools, AfterMark, TypeOK
  <2> QED BY <2>1, <2>2, <1>a
<1>3. CASE \/ SweepReads \/ SweepPicks \/ SweepCounts \/ SweepSaves \/ SweepMarks \/ SweepRetires
           \/ SweepThrows
  <2>1. CASE b = "redrive"
    <3>1. pc'[b] = pc[b]
      BY <1>3, <2>1, <1>t, <1>b DEF SweepReads, SweepPicks, SweepCounts, SweepSaves, SweepMarks, SweepRetires,
         SweepThrows, Launch, Loop, TypeOK
    <3>2. cur'[b] = cur[b]
      BY <1>3, <2>1, <1>t, <1>b DEF SweepReads, SweepPicks, SweepCounts, SweepSaves, SweepMarks, SweepRetires,
         SweepThrows, Take, Loop, TypeOK
    <3> QED BY <3>1, <3>2, <1>a
  <2>2. CASE b = "sweep" /\ ~SweepMarks
    <3>1. pc'[b] # "retire"
      BY <1>3, <2>2, <1>t, <1>b DEF SweepReads, SweepPicks, SweepCounts, SweepSaves, SweepRetires,
         SweepThrows, Launch, Loop, TypeOK
    <3> QED BY <3>1
  <2>3. CASE b = "sweep" /\ SweepMarks
    <3>1. ~Loop("sweep") BY <2>3, <1>t, <1>b DEF Loop, TypeOK
    <3>2. cur' = cur /\ state' = [state EXCEPT ![cur["sweep"][1]] = "dispatched"]
      BY <2>3, <3>1 DEF SweepMarks
    <3>3. cur["sweep"][1] \in Deliveries BY <2>3, <1>t, JobNames DEF SweepMarks, TypeOK
    <3>4. state'[cur'[b][1]] = "dispatched" BY <3>2, <3>3, <2>3, <1>t DEF TypeOK
    <3> QED BY <3>4 DEF Settled
  <2> QED BY <2>1, <2>2, <2>3 DEF Batchers
<1>4. CASE RedriveReads \/ RedrivePicks \/ RedriveMarks \/ RedriveRetires \/ RedriveThrows
  <2>1. CASE b = "sweep"
    <3>1. pc'[b] = pc[b]
      BY <1>4, <2>1, <1>t, <1>b DEF RedriveReads, RedrivePicks, RedriveMarks, RedriveRetires, RedriveThrows,
         Launch, Loop, TypeOK
    <3>2. cur'[b] = cur[b]
      BY <1>4, <2>1, <1>t, <1>b DEF RedriveReads, RedrivePicks, RedriveMarks, RedriveRetires, RedriveThrows,
         Take, Loop, TypeOK
    <3> QED BY <3>1, <3>2, <1>a
  <2>2. CASE b = "redrive" /\ ~RedriveMarks
    <3>1. pc'[b] # "retire"
      BY <1>4, <2>2, <1>t, <1>b DEF RedriveReads, RedrivePicks, RedriveRetires, RedriveThrows,
         Launch, Loop, TypeOK
    <3> QED BY <3>1
  <2>3. CASE b = "redrive" /\ RedriveMarks
    <3>1. ~Loop("redrive") BY <2>3, <1>t, <1>b DEF Loop, TypeOK
    <3>2. cur' = cur /\ state' = RetiredEvent(cur["redrive"][1]) BY <2>3, <3>1 DEF RedriveMarks
    <3>3. cur["redrive"] \in Jobs BY <2>3, <1>t DEF RedriveMarks, TypeOK
    <3>4. cur["redrive"][1] \in Deliveries /\ state[cur["redrive"][1]] # "absent"
      BY <2>3, <3>3, JobNames DEF BatchPresent
    <3>5. state'[cur'[b][1]] \in {"dispatched", "failed"}
      BY <3>2, <3>4, <2>3, <1>t DEF RetiredEvent, TypeOK
    <3> QED BY <3>5 DEF Settled
  <2> QED BY <2>1, <2>2, <2>3 DEF Batchers
<1>5. CASE \E i \in Jobs : Worker(i) \/ JobEvicted(i)
  BY <1>5, <1>a DEF Worker, JobStarts, JobSucceeds, JobRejects, JobBuried, JobFails, JobUnsaved, JobEvicted
<1>6. CASE Crash BY <1>6, <1>b DEF Crash
<1>7. CASE Toggle \/ UNCHANGED vars BY <1>7, <1>a DEF Toggle, vars
<1>c. "sweep" \in Callers /\ "redrive" \in Callers BY DEF Callers, Batchers
<1>d. Deliveries \subseteq Callers BY DEF Callers
<1> QED BY <1>1, <1>2, <1>3, <1>4, <1>5, <1>6, <1>7, <1>c, <1>d DEF Next, Request, Sweep, Redrive

LEMMA RedrivenSettledStays ==
  ASSUME LossInv, RetireSettled, RedrivenSettled, [Next]_vars
  PROVE  RedrivenSettled'
<1>t. TypeOK BY DEF LossInv
<1> SUFFICES ASSUME NEW r \in Rows, letter'[r] = "redriven" PROVE Settled(r[1])' BY DEF RedrivenSettled
<1>r. r[1] \in Deliveries BY DEF Rows
<1>a. Settled(r[1]) => Settled(r[1])' BY <1>r, StatesStay
<1>1. CASE letter[r] = "redriven" BY <1>1, <1>a DEF RedrivenSettled
<1>2. CASE letter[r] # "redriven"
  <2>1. CASE SweepRetires
    <3>1. r[1] = cur["sweep"][1] BY <2>1, <1>2 DEF SweepRetires, Open
    <3>2. Settled(r[1]) BY <3>1, <2>1 DEF SweepRetires, RetireSettled, Batchers
    <3> QED BY <3>2, <1>a
  <2>2. CASE RedriveRetires
    <3>1. r = cur["redrive"] BY <2>2, <1>2, <1>t DEF RedriveRetires, TypeOK
    <3>2. Settled(r[1]) BY <3>1, <2>2 DEF RedriveRetires, RetireSettled, Batchers
    <3> QED BY <3>2, <1>a
  <2>3. SweepRetires \/ RedriveRetires BY <1>2, LetterMoves
  <2> QED BY <2>1, <2>2, <2>3
<1> QED BY <1>1, <1>2

LEMMA RedriveNext == RedriveInv /\ [Next]_vars => RedriveInv'
BY LossNext, RequestPresentStays, JobPresentStays, BatchPresentStays, LetterPresentStays,
   RetireSettledStays, RedrivenSettledStays DEF RedriveInv

LEMMA RedriveInit == Init => RedriveInv
<1> SUFFICES ASSUME Init PROVE RedriveInv OBVIOUS
<1>1. RequestPresent /\ RetireSettled
  BY DEF Init, RequestPresent, RetireSettled, Callers
<1>2. JobPresent BY DEF Init, JobPresent
<1>3. BatchPresent BY JobNames DEF Init, BatchPresent
<1>4. LetterPresent /\ RedrivenSettled BY DEF Init, LetterPresent, RedrivenSettled
<1> QED BY <1>1, <1>2, <1>3, <1>4, LossInit DEF RedriveInv

(* A sweep never reads the event of a dead letter that was redriven, whatever comes between.        *)
THEOREM IngressRedrivenIsNotSwept == Spec => []RedrivenIsNotSwept
<1>1. Spec => []RedriveInv BY RedriveInit, RedriveNext, PTL DEF Spec
<1>2. RedriveInv => RedrivenIsNotSwept
  BY DEF RedriveInv, RedrivenSettled, Settled, RedrivenIsNotSwept, Letters
<1> QED BY <1>1, <1>2, PTL
-----------------------------------------------------------------------------
(* Without a queue two callers may dead-letter one delivery: its request and the sweep.  The sweep  *)
(* cannot hold a delivery whose request is still under way (the event is recent), and it counts     *)
(* before it saves.                                                                                 *)
NoQueueUsed == (\A c \in Callers : pc[c] # "add") /\ \A j \in Jobs : job[j] = "none"
RequestAlone ==
  \A d \in Deliveries : pc[d] # "idle" =>
    recent[d] /\ Letters(d) = {} /\ <<d, 0>> \notin todo["sweep"] \cup {cur["sweep"]}
SaveFirst == pc["sweep"] = "save" => Letters(cur["sweep"][1]) = {}
AtMostOne ==
  \A r, s \in Rows : r[1] = s[1] /\ letter[r] # "none" /\ letter[s] # "none" => r = s

Direct == NoQueueUsed /\ RequestAlone /\ SaveFirst /\ AtMostOne
DirectInv == RedriveInv /\ (~queued => Direct)

LEMMA QueuedStays == [Next]_vars => queued' = queued
<1>1. CASE \E c \in Callers : Enqueue(c)
  BY <1>1 DEF Enqueue, AddAccepted, AddRejected, InlineResolves, InlineRejects, env
<1>2. CASE \E d \in Deliveries : Receive(d) \/ LiveMarks(d) \/ LiveMarkFails(d) \/ LiveSaves(d) \/ Cools(d)
  BY <1>2 DEF Receive, LiveMarks, LiveMarkFails, LiveSaves, Cools, env
<1>3. CASE \/ SweepReads \/ SweepPicks \/ SweepCounts \/ SweepSaves \/ SweepMarks \/ SweepRetires
           \/ SweepThrows
  BY <1>3 DEF SweepReads, SweepPicks, SweepCounts, SweepSaves, SweepMarks, SweepRetires, SweepThrows, env
<1>4. CASE RedriveReads \/ RedrivePicks \/ RedriveMarks \/ RedriveRetires \/ RedriveThrows
  BY <1>4 DEF RedriveReads, RedrivePicks, RedriveMarks, RedriveRetires, RedriveThrows, env
<1>5. CASE \E i \in Jobs : Worker(i) \/ JobEvicted(i)
  BY <1>5 DEF Worker, JobStarts, JobSucceeds, JobRejects, JobBuried, JobFails, JobUnsaved, JobEvicted, env
<1>6. CASE Crash \/ Toggle \/ UNCHANGED vars BY <1>6 DEF Crash, Toggle, vars, env
<1>c. "sweep" \in Callers /\ "redrive" \in Callers /\ Deliveries \subseteq Callers BY DEF Callers, Batchers
<1> QED BY <1>1, <1>2, <1>3, <1>4, <1>5, <1>6, <1>c DEF Next, Request, Sweep, Redrive

LEMMA NoQueueStays ==
  ASSUME LossInv, NoQueueUsed, ~queued, [Next]_vars
  PROVE  NoQueueUsed'
<1>t. TypeOK BY DEF LossInv
<1>1. ASSUME NEW j \in Jobs PROVE job'[j] = "none" BY <1>t, NewJob DEF NoQueueUsed
<1>2. ASSUME NEW c \in Callers PROVE pc'[c] # "add"
  <2> USE DEF NoQueueUsed, TypeOK
  <2>1. CASE \E x \in Callers : Enqueue(x)
    BY <2>1, <1>t DEF Enqueue, AddAccepted, AddRejected, InlineResolves, InlineRejects, Returns, After
  <2>2. CASE \E d \in Deliveries :
               Receive(d) \/ LiveMarks(d) \/ LiveMarkFails(d) \/ LiveSaves(d) \/ Cools(d)
    BY <2>2, <1>t DEF Receive, Launch, LiveMarks, LiveMarkFails, LiveSaves, Cools, AfterMark
  <2>3. CASE \/ SweepReads \/ SweepPicks \/ SweepCounts \/ SweepSaves \/ SweepMarks \/ SweepRetires
             \/ SweepThrows
    BY <2>3, <1>t DEF SweepReads, SweepPicks, SweepCounts, SweepSaves, SweepMarks, SweepRetires, SweepThrows,
       Launch, Loop
  <2>4. CASE RedriveReads \/ RedrivePicks \/ RedriveMarks \/ RedriveRetires \/ RedriveThrows
    BY <2>4, <1>t DEF RedriveReads, RedrivePicks, RedriveMarks, RedriveRetires, RedriveThrows, Launch, Loop
  <2>5. CASE \E i \in Jobs : Worker(i) \/ JobEvicted(i)
    BY <2>5 DEF Worker, JobStarts, JobSucceeds, JobRejects, JobBuried, JobFails, JobUnsaved, JobEvicted
  <2>6. CASE Crash \/ Toggle \/ UNCHANGED vars BY <2>6 DEF Crash, Toggle, vars
  <2>c. "sweep" \in Callers /\ "redrive" \in Callers /\ Deliveries \subseteq Callers BY DEF Callers, Batchers
  <2> QED BY <2>1, <2>2, <2>3, <2>4, <2>5, <2>6, <2>c DEF Next, Request, Sweep, Redrive
<1> QED BY <1>1, <1>2 DEF NoQueueUsed

(* Without a queue a dead letter is the first of its delivery. *)
LEMMA LetterFirst ==
  ASSUME LossInv, Direct, [Next]_vars, NEW r \in Rows, letter[r] = "none", letter'[r] # "none"
  PROVE  /\ NewLetter(r[1]) /\ Letters(r[1]) = {}
         /\ \/ pc[r[1]] = "save" /\ pc'[r[1]] = "idle"
            \/ pc["sweep"] = "save" /\ pc'["sweep"] = "mark" /\ cur["sweep"] = <<r[1], 0>>
<1>t. TypeOK BY DEF LossInv
<1>r. r[1] \in Deliveries BY DEF Rows
<1>o. ASSUME NEW d \in Deliveries, NewLetter(d) PROVE d = r[1]
  <2>1. PICK n \in Rows : n[1] = d /\ letter' = [letter EXCEPT ![n] = "open"] BY <1>o, <1>t, Youngest
  <2> QED BY <2>1, <1>t DEF TypeOK
<1>u. letter' # letter OBVIOUS
<1>1. CASE \E d \in Deliveries : LiveSaves(d)
  <2>1. PICK d \in Deliveries : LiveSaves(d) BY <1>1
  <2>2. NewLetter(d) /\ pc[d] = "save" /\ pc' = [pc EXCEPT ![d] = "idle"] BY <2>1, <1>u DEF LiveSaves
  <2>3. d = r[1] /\ d \in Callers BY <2>2, <1>o DEF Callers
  <2>4. Letters(d) = {} BY <2>2 DEF Direct, RequestAlone
  <2> QED BY <2>2, <2>3, <2>4, <1>t DEF TypeOK
<1>2. CASE SweepSaves
  <2>1. pc["sweep"] = "save" /\ pc'["sweep"] = "mark" /\ NewLetter(cur["sweep"][1])
    BY <1>2, <1>t DEF SweepSaves, TypeOK, Callers, Batchers
  <2>2. cur["sweep"] \in Jobs BY <2>1, <1>t DEF TypeOK, Batchers
  <2>3. cur["sweep"][1] \in Deliveries /\ cur["sweep"] = <<cur["sweep"][1], 0>>
    BY <2>2, JobNames DEF LossInv, SweepAtEvents
  <2>4. cur["sweep"][1] = r[1] BY <2>1, <2>3, <1>o
  <2> QED BY <2>1, <2>3, <2>4 DEF Direct, SaveFirst
<1>3. CASE \E c \in Callers : Enqueue(c)
  BY <1>3, <1>u DEF Enqueue, AddAccepted, AddRejected, InlineResolves, InlineRejects
<1>4. CASE \E d \in Deliveries : Receive(d) \/ LiveMarks(d) \/ LiveMarkFails(d) \/ Cools(d)
  BY <1>4, <1>u DEF Receive, LiveMarks, LiveMarkFails, Cools
<1>5. CASE SweepReads \/ SweepPicks \/ SweepCounts \/ SweepMarks \/ SweepThrows
  BY <1>5, <1>u DEF SweepReads, SweepPicks, SweepCounts, SweepMarks, SweepThrows
<1>6. CASE SweepRetires BY <1>6 DEF SweepRetires, Open
<1>7. CASE RedriveReads \/ RedrivePicks \/ RedriveMarks \/ RedriveThrows \/ Crash \/ Toggle
  BY <1>7, <1>u DEF RedriveReads, RedrivePicks, RedriveMarks, RedriveThrows, Crash, Toggle
<1>8. CASE RedriveRetires
  <2>1. cur["redrive"] \in Jobs /\ letter' = [letter EXCEPT ![cur["redrive"]] = "redriven"]
        /\ At("redrive") = cur["redrive"] /\ cur["redrive"] \in Rows
    BY <1>8, <1>t, JobNames DEF RedriveRetires, TypeOK, Batchers, At
  <2>2. Known(cur["redrive"]) BY <2>1 DEF LossInv, BatchKnown, Batchers
  <2>3. letter[cur["redrive"]] # "none" BY <2>1, <2>2 DEF Known, Rows
  <2> QED BY <2>1, <2>3, <1>t DEF TypeOK
<1>9. CASE \E i \in Jobs : Worker(i) \/ JobEvicted(i)
  BY <1>9 DEF Worker, JobStarts, JobSucceeds, JobRejects, JobBuried, JobFails, JobUnsaved, JobEvicted,
     JobMoves, Direct, NoQueueUsed
<1>10. CASE UNCHANGED vars BY <1>10, <1>u DEF vars
<1>c. "sweep" \in Callers /\ "redrive" \in Callers /\ Deliveries \subseteq Callers BY DEF Callers, Batchers
<1> QED
  BY <1>1, <1>2, <1>3, <1>4, <1>5, <1>6, <1>7, <1>8, <1>9, <1>10, <1>c DEF Next, Request, Sweep, Redrive

LEMMA AtMostOneStays ==
  ASSUME LossInv, Direct, [Next]_vars
  PROVE  AtMostOne'
<1>t. TypeOK BY DEF LossInv
<1> SUFFICES ASSUME NEW r \in Rows, NEW s \in Rows, r[1] = s[1], letter'[r] # "none", letter'[s] # "none"
             PROVE  r = s
  BY DEF AtMostOne
<1>1. CASE letter[r] # "none" /\ letter[s] # "none" BY <1>1 DEF Direct, AtMostOne
<1>2. ASSUME NEW x \in Rows, NEW y \in Rows, x[1] = y[1], letter[x] = "none",
             letter'[x] # "none", letter'[y] # "none"
      PROVE  x = y
  <2>1. NewLetter(x[1]) /\ Letters(x[1]) = {} BY <1>2, LetterFirst
  <2>2. x[1] \in Deliveries BY DEF Rows
  <2>3. PICK n \in Rows : letter' = [letter EXCEPT ![n] = "open"] BY <2>1, <2>2, <1>t, Youngest
  <2>4. letter[y] = "none" BY <2>1, <1>2 DEF Letters
  <2> QED BY <2>3, <2>4, <1>2, <1>t DEF TypeOK
<1> QED BY <1>1, <1>2

(* A request starts by receiving its delivery. *)
LEMMA RequestBegins ==
  ASSUME TypeOK, [Next]_vars, NEW d \in Deliveries, pc[d] = "idle", pc'[d] # "idle"
  PROVE  Receive(d)
<1>c. d \in Callers /\ d \notin Batchers BY IngressAssumption DEF Callers, Batchers
<1>s. "sweep" \in Callers /\ "redrive" \in Callers /\ d # "sweep" /\ d # "redrive"
  BY <1>c DEF Callers, Batchers
<1> USE DEF TypeOK
<1>1. CASE \E x \in Deliveries : Receive(x) BY ZenonT(30), <1>1, <1>c DEF Receive, Launch
<1>2. CASE \E c \in Callers : Enqueue(c)
  BY <1>2, <1>c DEF Enqueue, AddAccepted, AddRejected, InlineResolves, InlineRejects, Returns
<1>3. CASE \E x \in Deliveries : LiveMarks(x) \/ LiveMarkFails(x) \/ LiveSaves(x) \/ Cools(x)
  BY <1>3, <1>c DEF LiveMarks, LiveMarkFails, LiveSaves, Cools, AfterMark
<1>4. CASE \/ SweepReads \/ SweepPicks \/ SweepCounts \/ SweepSaves \/ SweepMarks \/ SweepRetires
           \/ SweepThrows
  BY <1>4, <1>c, <1>s DEF SweepReads, SweepPicks, SweepCounts, SweepSaves, SweepMarks, SweepRetires,
     SweepThrows, Launch, Loop
<1>5. CASE RedriveReads \/ RedrivePicks \/ RedriveMarks \/ RedriveRetires \/ RedriveThrows
  BY <1>5, <1>c, <1>s DEF RedriveReads, RedrivePicks, RedriveMarks, RedriveRetires, RedriveThrows,
     Launch, Loop
<1>6. CASE \E i \in Jobs : Worker(i) \/ JobEvicted(i)
  BY <1>6 DEF Worker, JobStarts, JobSucceeds, JobRejects, JobBuried, JobFails, JobUnsaved, JobEvicted
<1>7. CASE Crash \/ Toggle \/ UNCHANGED vars BY <1>7, <1>c DEF Crash, Toggle, vars
<1> QED
  BY <1>1, <1>2, <1>3, <1>4, <1>5, <1>6, <1>7, <1>c, <1>s DEF Next, Request, Sweep, Redrive, Callers

(* The event of a request under way stays recent, for the sweep is at another one. *)
LEMMA RecentStays ==
  ASSUME LossInv, [Next]_vars, NEW d \in Deliveries, pc[d] # "idle", recent[d], cur["sweep"] # <<d, 0>>
  PROVE  recent'[d]
<1>t. TypeOK BY DEF LossInv
<1>1. CASE \E x \in Deliveries : Receive(x) \/ LiveMarks(x) \/ Cools(x)
  BY <1>1, <1>t DEF Receive, LiveMarks, Cools, TypeOK
<1>2. CASE SweepMarks
  <2>1. cur["sweep"] \in Jobs BY <1>2, <1>t DEF SweepMarks, TypeOK, Batchers
  <2>2. cur["sweep"][1] # d BY <2>1, JobNames DEF LossInv, SweepAtEvents
  <2> QED BY <1>2, <2>2, <1>t DEF SweepMarks, TypeOK
<1>3. CASE \E c \in Callers : Enqueue(c)
  BY <1>3 DEF Enqueue, AddAccepted, AddRejected, InlineResolves, InlineRejects, event
<1>4. CASE \E x \in Deliveries : LiveMarkFails(x) \/ LiveSaves(x)
  BY <1>4 DEF LiveMarkFails, LiveSaves, event
<1>5. CASE SweepReads \/ SweepPicks \/ SweepCounts \/ SweepSaves \/ SweepRetires \/ SweepThrows
  BY <1>5 DEF SweepReads, SweepPicks, SweepCounts, SweepSaves, SweepRetires, SweepThrows, event
<1>6. CASE RedriveReads \/ RedrivePicks \/ RedriveMarks \/ RedriveRetires \/ RedriveThrows
  BY <1>6 DEF RedriveReads, RedrivePicks, RedriveMarks, RedriveRetires, RedriveThrows, event
<1>7. CASE \E i \in Jobs : Worker(i) \/ JobEvicted(i)
  BY <1>7 DEF Worker, JobStarts, JobSucceeds, JobRejects, JobBuried, JobFails, JobUnsaved, JobEvicted, event
<1>8. CASE Crash \/ Toggle \/ UNCHANGED vars BY <1>8 DEF Crash, Toggle, vars, event
<1>c. "sweep" \in Callers /\ "redrive" \in Callers /\ Deliveries \subseteq Callers BY DEF Callers, Batchers
<1> QED BY <1>1, <1>2, <1>3, <1>4, <1>5, <1>6, <1>7, <1>8, <1>c DEF Next, Request, Sweep, Redrive

LEMMA RequestAloneStays ==
  ASSUME RedriveInv, Direct, [Next]_vars
  PROVE  RequestAlone'
<1>l. LossInv BY DEF RedriveInv
<1>t. TypeOK BY <1>l DEF LossInv
<1> SUFFICES ASSUME NEW d \in Deliveries, pc'[d] # "idle"
             PROVE  /\ recent'[d] /\ Letters(d)' = {}
                    /\ <<d, 0>> \notin todo'["sweep"] \cup {cur'["sweep"]}
  BY DEF RequestAlone
<1>j. <<d, 0>> \in Jobs /\ <<d, 0>> # NoJob BY JobNames
<1>1. CASE pc[d] = "idle"
  <2>1. Receive(d) BY <1>1, <1>t, RequestBegins
  <2>2. state[d] = "absent" /\ recent'[d] /\ UNCHANGED <<letter, todo, cur>>
    BY <2>1, <1>t DEF Receive, batch, TypeOK
  <2>3. Letters(d)' = {} BY <2>2 DEF Letters, RedriveInv, LetterPresent
  <2>4. <<d, 0>> \notin todo["sweep"] \cup {cur["sweep"]}
    BY <2>2, <1>j DEF RedriveInv, BatchPresent, Batchers
  <2> QED BY <2>2, <2>3, <2>4
<1>2. CASE pc[d] # "idle"
  <2>1. recent[d] /\ Letters(d) = {} /\ <<d, 0>> \notin todo["sweep"] \cup {cur["sweep"]}
    BY <1>2 DEF Direct, RequestAlone
  <2>2. recent'[d] BY <2>1, <1>2, <1>l, RecentStays
  <2>3. Letters(d)' = {}
    <3> SUFFICES ASSUME NEW r \in Rows, r[1] = d, letter'[r] # "none" PROVE FALSE BY DEF Letters
    <3>1. letter[r] = "none" BY <2>1 DEF Letters
    <3> QED BY <3>1, <2>1, <1>l, LetterFirst
  <2>4. ~Stale(d) BY <2>1 DEF Stale
  <2>5. "sweep" \in Batchers BY DEF Batchers
  <2>6. /\ cur'["sweep"] \in {cur["sweep"], NoJob} \cup todo["sweep"]
        /\ \/ todo'["sweep"] \subseteq todo["sweep"]
           \/ todo'["sweep"] \subseteq {<<x, 0>> : x \in {y \in Deliveries : Stale(y)}}
    BY <2>5, <1>t, BatchMoves
  <2> QED BY <2>1, <2>2, <2>3, <2>4, <2>6, <1>j
<1> QED BY <1>1, <1>2

LEMMA SaveFirstStays ==
  ASSUME LossInv, Direct, [Next]_vars
  PROVE  SaveFirst'
<1>t. TypeOK BY DEF LossInv
<1>b. "sweep" \in Callers /\ "sweep" \in Batchers BY DEF Callers, Batchers
<1> SUFFICES ASSUME pc'["sweep"] = "save" PROVE Letters(cur["sweep"][1])' = {} BY DEF SaveFirst
<1>k. ASSUME pc["sweep"] = "save", cur'["sweep"] = cur["sweep"] PROVE Letters(cur["sweep"][1])' = {}
  <2>1. cur["sweep"] \in Jobs BY <1>k, <1>t, <1>b DEF TypeOK
  <2>2. cur["sweep"] = <<cur["sweep"][1], 0>> BY <2>1, JobNames DEF LossInv, SweepAtEvents
  <2>3. Letters(cur["sweep"][1]) = {} BY <1>k DEF Direct, SaveFirst
  <2>4. ASSUME NEW r \in Rows, r[1] = cur["sweep"][1], letter'[r] # "none" PROVE FALSE
    <3>1. letter[r] = "none" BY <2>3, <2>4 DEF Letters
    <3>2. pc[r[1]] = "save" /\ r[1] \in Deliveries BY <3>1, <2>4, LetterFirst DEF Rows
    <3> QED BY <3>2, <2>2, <2>4 DEF Direct, RequestAlone
  <2>5. \A r \in Rows : r[1] = cur'["sweep"][1] => letter'[r] = "none" BY <2>4, <1>k
  <2> QED BY <2>5 DEF Letters
<1>1. CASE SweepCounts
  <2>1. Letters(cur["sweep"][1]) = {} BY <1>1, <1>t, <1>b DEF SweepCounts, TypeOK
  <2>2. UNCHANGED <<letter, cur>> BY <1>1 DEF SweepCounts
  <2> QED BY <2>1, <2>2 DEF Letters
<1>2. CASE SweepReads \/ SweepPicks \/ SweepSaves \/ SweepMarks \/ SweepRetires \/ SweepThrows
  BY <1>2, <1>t, <1>b DEF SweepReads, SweepPicks, SweepSaves, SweepMarks, SweepRetires, SweepThrows,
     Launch, Loop, TypeOK
<1>3. CASE Enqueue("sweep")
  BY <1>3, <1>t, <1>b DEF Enqueue, AddAccepted, AddRejected, InlineResolves, InlineRejects, Returns, After,
     TypeOK
<1>4. CASE Crash BY <1>4, <1>b DEF Crash
<1>5. CASE pc'["sweep"] = pc["sweep"] /\ cur'["sweep"] = cur["sweep"] BY <1>5, <1>k
<1> QED BY <1>1, <1>2, <1>3, <1>4, <1>5, <1>t, Elsewhere DEF Sweep

LEMMA DirectNext == DirectInv /\ [Next]_vars => DirectInv'
<1> SUFFICES ASSUME DirectInv, [Next]_vars PROVE DirectInv' OBVIOUS
<1>1. RedriveInv' BY RedriveNext DEF DirectInv
<1>2. CASE queued BY <1>1, <1>2, QueuedStays DEF DirectInv
<1>3. CASE ~queued
  <2>1. RedriveInv /\ LossInv /\ Direct BY <1>3 DEF DirectInv, RedriveInv
  <2>2. NoQueueUsed' BY <1>3, <2>1, NoQueueStays DEF Direct
  <2>3. RequestAlone' /\ SaveFirst' /\ AtMostOne'
    BY <2>1, RequestAloneStays, SaveFirstStays, AtMostOneStays
  <2> QED BY <1>1, <2>2, <2>3 DEF DirectInv, Direct
<1> QED BY <1>2, <1>3

LEMMA DirectInit == Init => DirectInv
<1> SUFFICES ASSUME Init PROVE DirectInv OBVIOUS
<1>1. NoQueueUsed BY DEF Init, NoQueueUsed
<1>2. RequestAlone BY DEF Init, RequestAlone, Callers
<1>3. SaveFirst BY DEF Init, SaveFirst, Callers, Batchers
<1>4. AtMostOne BY DEF Init, AtMostOne
<1> QED BY <1>1, <1>2, <1>3, <1>4, RedriveInit DEF DirectInv, Direct

LEMMA DirectMeans == DirectInv => OneDeadLetter
<1> SUFFICES ASSUME DirectInv, ~queued, NEW d \in Deliveries PROVE Cardinality(Letters(d)) <= 1
  BY DEF OneDeadLetter
<1>1. \A r, s \in Letters(d) : r = s BY DEF DirectInv, Direct, AtMostOne, Letters
<1>2. CASE Letters(d) = {} BY <1>2, FS_EmptySet
<1>3. CASE Letters(d) # {}
  <2>1. PICK r \in Letters(d) : TRUE BY <1>3
  <2>2. Letters(d) = {r} BY <1>1, <2>1
  <2>3. Cardinality({r}) = 1 BY FS_Singleton
  <2> QED BY <2>2, <2>3
<1> QED BY <1>2, <1>3

(* Request and sweep never dead-letter one delivery twice, wherever a crash falls between them. *)
THEOREM IngressOneDeadLetter == Spec => []OneDeadLetter
<1>1. Spec => []DirectInv BY DirectInit, DirectNext, PTL DEF Spec
<1> QED BY <1>1, DirectMeans, PTL

-----------------------------------------------------------------------------
(* Ingress implements Delivery, for any number of deliveries, any bounds, mode and failures.  The   *)
(* mapping needs no more than RedriveInv.                                                            *)

LEMMA PhaseOf ==
  ASSUME TypeOK, NEW d \in Deliveries
  PROVE  /\ Phase(d) = "new" <=> state[d] = "absent"
         /\ Phase(d) = "accepted" <=> state[d] = "pending"
         /\ Phase(d) = "settled" <=> Settled(d)
BY DEF TypeOK, Phase, Settled

LEMMA HoldersAre ==
  ASSUME NEW d \in Deliveries
  PROVE  /\ "job" \in HoldersOf(d) <=> JobHolds(d)
         /\ "letter" \in HoldersOf(d) <=> Open(d) # {}
         /\ HoldersOf(d) # {} <=> JobHolds(d) \/ Open(d) # {}
BY DEF HoldersOf

(* Nothing is dispatched before it is received. *)
LEMMA DispatchMoves ==
  ASSUME RedriveInv, [Next]_vars, NEW d \in Deliveries, delivered'[d] # delivered[d]
  PROVE  state[d] # "absent" /\ delivered'[d]
<1>t. TypeOK BY DEF RedriveInv, LossInv
<1>1. CASE \E c \in Callers : InlineResolves(c)
  <2>1. PICK c \in Callers : InlineResolves(c) BY <1>1
  <2>2. pc[c] = "inline" /\ delivered' = [delivered EXCEPT ![At(c)[1]] = TRUE] BY <2>1 DEF InlineResolves
  <2>3. d = At(c)[1] /\ delivered'[d] BY <2>2, <1>t DEF TypeOK
  <2>4. At(c) \in Jobs BY <2>2, <1>t, AtJob
  <2>5. CASE c \in Deliveries BY <2>2, <2>3, <2>5 DEF At, RedriveInv, RequestPresent
  <2>6. CASE c \in Batchers
    <3>1. At(c) = cur[c] BY <2>6, JobNames DEF At
    <3> QED BY <2>3, <2>4, <2>6, <3>1 DEF RedriveInv, BatchPresent
  <2> QED BY <2>5, <2>6 DEF Callers
<1>2. CASE \E i \in Jobs : JobSucceeds(i)
  <2>1. PICK i \in Jobs : JobSucceeds(i) BY <1>2
  <2>2. job[i] = "active" /\ delivered' = [delivered EXCEPT ![i[1]] = TRUE]
    BY <2>1 DEF JobSucceeds, JobMoves
  <2>3. d = i[1] /\ delivered'[d] BY <2>2, <1>t DEF TypeOK
  <2> QED BY <2>1, <2>2, <2>3 DEF RedriveInv, JobPresent
<1>3. CASE \E c \in Callers : AddAccepted(c) \/ AddRejected(c) \/ InlineRejects(c)
  BY <1>3 DEF AddAccepted, AddRejected, InlineRejects, history
<1>4. CASE \E x \in Deliveries : Receive(x) \/ LiveMarks(x) \/ LiveMarkFails(x) \/ LiveSaves(x) \/ Cools(x)
  BY <1>4 DEF Receive, LiveMarks, LiveMarkFails, LiveSaves, Cools, history
<1>5. CASE \/ SweepReads \/ SweepPicks \/ SweepCounts \/ SweepSaves \/ SweepMarks \/ SweepRetires
           \/ SweepThrows
  BY <1>5 DEF SweepReads, SweepPicks, SweepCounts, SweepSaves, SweepMarks, SweepRetires, SweepThrows, history
<1>6. CASE RedriveReads \/ RedrivePicks \/ RedriveMarks \/ RedriveRetires \/ RedriveThrows
  BY <1>6 DEF RedriveReads, RedrivePicks, RedriveMarks, RedriveRetires, RedriveThrows, history
<1>7. CASE \E i \in Jobs : JobStarts(i) \/ JobRejects(i) \/ JobBuried(i) \/ JobFails(i) \/ JobUnsaved(i)
                            \/ JobEvicted(i)
  BY <1>7 DEF JobStarts, JobRejects, JobBuried, JobFails, JobUnsaved, JobEvicted, history
<1>8. CASE Crash \/ Toggle \/ UNCHANGED vars BY <1>8 DEF Crash, Toggle, vars, history
<1>c. "sweep" \in Callers /\ "redrive" \in Callers /\ Deliveries \subseteq Callers BY DEF Callers, Batchers
<1> QED
  BY <1>1, <1>2, <1>3, <1>4, <1>5, <1>6, <1>7, <1>8, <1>c
     DEF Next, Request, Sweep, Redrive, Enqueue, Worker

(* Only what is held can fall into a gap, and what is lost stays lost. *)
LEMMA GapMoves ==
  ASSUME LossInv, [Next]_vars, NEW d \in Deliveries, gap'[d] # gap[d]
  PROVE  gap'[d] # {} /\ HoldersOf(d) # {}
<1>t. TypeOK BY DEF LossInv
<1>1. CASE SweepRetires
  <2> DEFINE x == cur["sweep"][1]
  <2>1. x \in Deliveries BY <1>1, <1>t, JobNames DEF SweepRetires, TypeOK, Batchers
  <2>2. gap' = [gap EXCEPT ![x] = @ \cup {"retired"}] /\ Open(x) # {}
    BY <1>1, <1>t DEF SweepRetires, TypeOK
  <2>3. d = x /\ gap'[d] # {} BY <2>1, <2>2, <1>t DEF TypeOK
  <2> QED BY <2>2, <2>3, HoldersAre
<1>2. CASE \E i \in Jobs : JobUnsaved(i)
  <2>1. PICK i \in Jobs : JobUnsaved(i) BY <1>2
  <2>2. job[i] = "dying" /\ gap' = [gap EXCEPT ![i[1]] = @ \cup {"unsaved"}]
    BY <2>1 DEF JobUnsaved, JobMoves
  <2>3. d = i[1] /\ gap'[d] # {} BY <2>2, JobNames, <1>t DEF TypeOK
  <2>4. JobHolds(d) BY <2>1, <2>2, <2>3 DEF JobHolds, Live
  <2> QED BY <2>3, <2>4, HoldersAre
<1>3. CASE Crash
  <2>1. \E j \in Jobs : j[1] = d /\ job[j] \in {"active", "dying"} BY <1>3 DEF Crash
  <2>2. gap'[d] = gap[d] \cup {"stalled"} BY <1>3 DEF Crash
  <2>3. JobHolds(d) BY <2>1 DEF JobHolds, Live
  <2> QED BY <2>2, <2>3, HoldersAre
<1>4. CASE \E c \in Callers : Enqueue(c)
  BY <1>4 DEF Enqueue, AddAccepted, AddRejected, InlineResolves, InlineRejects, history
<1>5. CASE \E x \in Deliveries : Receive(x) \/ LiveMarks(x) \/ LiveMarkFails(x) \/ LiveSaves(x) \/ Cools(x)
  BY <1>5 DEF Receive, LiveMarks, LiveMarkFails, LiveSaves, Cools, history
<1>6. CASE SweepReads \/ SweepPicks \/ SweepCounts \/ SweepSaves \/ SweepMarks \/ SweepThrows
  BY <1>6 DEF SweepReads, SweepPicks, SweepCounts, SweepSaves, SweepMarks, SweepThrows, history
<1>7. CASE RedriveReads \/ RedrivePicks \/ RedriveMarks \/ RedriveRetires \/ RedriveThrows
  BY <1>7 DEF RedriveReads, RedrivePicks, RedriveMarks, RedriveRetires, RedriveThrows, history
<1>8. CASE \E i \in Jobs : JobStarts(i) \/ JobSucceeds(i) \/ JobRejects(i) \/ JobBuried(i) \/ JobFails(i)
                            \/ JobEvicted(i)
  BY <1>8 DEF JobStarts, JobSucceeds, JobRejects, JobBuried, JobFails, JobEvicted, history
<1>9. CASE Toggle \/ UNCHANGED vars BY <1>9 DEF Toggle, vars, history
<1>c. "sweep" \in Callers /\ "redrive" \in Callers /\ Deliveries \subseteq Callers BY DEF Callers, Batchers
<1> QED
  BY <1>1, <1>2, <1>3, <1>4, <1>5, <1>6, <1>7, <1>8, <1>9, <1>c DEF Next, Request, Sweep, Redrive, Worker

(* A dispatch is never undone. *)
LEMMA DispatchStays ==
  ASSUME RedriveInv, [Next]_vars, NEW d \in Deliveries, delivered[d]
  PROVE  delivered'[d]
BY DispatchMoves

(* A job that stops being live has been dispatched, has left a dead letter or has fallen into a gap. *)
LEMMA JobEnds ==
  ASSUME LossInv, [Next]_vars, NEW j \in Jobs, job[j] \in Live, job'[j] \notin Live
  PROVE  delivered'[j[1]] \/ gap'[j[1]] # {} \/ Open(j[1])' # {}
<1>t. TypeOK BY DEF LossInv
<1>d. j[1] \in Deliveries BY JobNames
<1>1. CASE \E i \in Jobs : JobSucceeds(i)
  <2>1. PICK i \in Jobs : JobSucceeds(i) BY <1>1
  <2>2. job' = [job EXCEPT ![i] = "completed"] /\ delivered' = [delivered EXCEPT ![i[1]] = TRUE]
    BY <2>1 DEF JobSucceeds, JobMoves
  <2>3. i = j BY <2>2, <1>t DEF TypeOK
  <2> QED BY <2>2, <2>3, <1>t, <1>d DEF TypeOK
<1>2. CASE \E i \in Jobs : JobBuried(i)
  <2>1. PICK i \in Jobs : JobBuried(i) BY <1>2
  <2>2. job' = [job EXCEPT ![i] = "buried"] /\ NewLetter(i[1]) BY <2>1 DEF JobBuried, JobMoves
  <2>3. i = j BY <2>2, <1>t DEF TypeOK
  <2>4. PICK n \in Rows : n[1] = j[1] /\ letter' = [letter EXCEPT ![n] = "open"]
    BY <2>2, <2>3, <1>t, <1>d, Youngest
  <2>5. letter'[n] = "open" BY <2>4, <1>t DEF TypeOK
  <2> QED BY <2>4, <2>5 DEF Open
<1>3. CASE \E i \in Jobs : JobUnsaved(i)
  <2>1. PICK i \in Jobs : JobUnsaved(i) BY <1>3
  <2>2. job' = [job EXCEPT ![i] = "failed"] /\ gap' = [gap EXCEPT ![i[1]] = @ \cup {"unsaved"}]
    BY <2>1 DEF JobUnsaved, JobMoves
  <2>3. i = j BY <2>2, <1>t DEF TypeOK
  <2> QED BY <2>2, <2>3, <1>t, <1>d DEF TypeOK
<1>4. CASE Crash
  <2>1. stalled[j] /\ job[j] \in {"active", "dying"} BY <1>4 DEF Crash, Running, Live
  <2>2. gap'[j[1]] = gap[j[1]] \cup {"stalled"} BY <1>4, <2>1, <1>d DEF Crash
  <2> QED BY <2>2
<1>5. CASE \E c \in Callers : Enqueue(c)
  <2>1. PICK c \in Callers : Enqueue(c) BY <1>5
  <2>2. job' \in {job, Added(At(c))}
    BY <2>1 DEF Enqueue, AddAccepted, AddRejected, InlineResolves, InlineRejects, bull
  <2>3. job'[j] = job[j]
    <3>1. CASE job' = job BY <3>1
    <3>2. CASE job' = Added(At(c)) BY <3>2, <1>t DEF Added, TypeOK, Live
    <3> QED BY <2>2, <3>1, <3>2
  <2> QED BY <2>3
<1>6. CASE \E x \in Deliveries : Receive(x) \/ LiveMarks(x) \/ LiveMarkFails(x) \/ LiveSaves(x) \/ Cools(x)
  BY <1>6 DEF Receive, LiveMarks, LiveMarkFails, LiveSaves, Cools, bull
<1>7. CASE \/ SweepReads \/ SweepPicks \/ SweepCounts \/ SweepSaves \/ SweepMarks \/ SweepRetires
           \/ SweepThrows
  BY <1>7 DEF SweepReads, SweepPicks, SweepCounts, SweepSaves, SweepMarks, SweepRetires, SweepThrows, bull
<1>8. CASE RedriveReads \/ RedrivePicks \/ RedriveMarks \/ RedriveRetires \/ RedriveThrows
  BY <1>8 DEF RedriveReads, RedrivePicks, RedriveMarks, RedriveRetires, RedriveThrows, bull
<1>9. CASE \E i \in Jobs : JobStarts(i) \/ JobRejects(i) \/ JobFails(i) \/ JobEvicted(i)
  BY <1>9, <1>t DEF JobStarts, JobRejects, JobFails, JobEvicted, JobMoves, TypeOK, Live
<1>10. CASE Toggle \/ UNCHANGED vars BY <1>10 DEF Toggle, vars, bull
<1>c. "sweep" \in Callers /\ "redrive" \in Callers /\ Deliveries \subseteq Callers BY DEF Callers, Batchers
<1> QED
  BY <1>1, <1>2, <1>3, <1>4, <1>5, <1>6, <1>7, <1>8, <1>9, <1>10, <1>c
     DEF Next, Request, Sweep, Redrive, Worker

(* Only its request makes an event pending. *)
LEMMA PendingFirst ==
  ASSUME TypeOK, [Next]_vars, NEW d \in Deliveries, state[d] = "absent", state'[d] = "pending"
  PROVE  \E x \in Deliveries : Receive(x)
<1>1. CASE \E x \in Deliveries : LiveMarks(x) \/ LiveMarkFails(x) \/ LiveSaves(x) \/ Cools(x)
  BY <1>1 DEF LiveMarks, LiveMarkFails, LiveSaves, Cools, event, TypeOK
<1>2. CASE \E c \in Callers : Enqueue(c)
  BY <1>2 DEF Enqueue, AddAccepted, AddRejected, InlineResolves, InlineRejects, event
<1>3. CASE SweepMarks
  BY <1>3 DEF SweepMarks, TypeOK
<1>4. CASE SweepReads \/ SweepPicks \/ SweepCounts \/ SweepSaves \/ SweepRetires \/ SweepThrows
  BY <1>4 DEF SweepReads, SweepPicks, SweepCounts, SweepSaves, SweepRetires, SweepThrows, event
<1>5. CASE RedriveMarks
  BY <1>5 DEF RedriveMarks, RetiredEvent, TypeOK
<1>6. CASE RedriveReads \/ RedrivePicks \/ RedriveRetires \/ RedriveThrows \/ Crash \/ Toggle
  BY <1>6 DEF RedriveReads, RedrivePicks, RedriveRetires, RedriveThrows, Crash, Toggle, event
<1>7. CASE \E i \in Jobs : Worker(i) \/ JobEvicted(i)
  BY <1>7 DEF Worker, JobStarts, JobSucceeds, JobRejects, JobBuried, JobFails, JobUnsaved, JobEvicted, event
<1>8. CASE UNCHANGED vars BY <1>8 DEF vars
<1>c. "sweep" \in Callers /\ "redrive" \in Callers /\ Deliveries \subseteq Callers BY DEF Callers, Batchers
<1> QED
  BY <1>1, <1>2, <1>3, <1>4, <1>5, <1>6, <1>7, <1>8, <1>c DEF Next, Request, Sweep, Redrive

(* An absent delivery has nothing, and gains nothing but its event. *)
LEMMA AbsentStep ==
  ASSUME RedriveInv, RedriveInv', [Next]_vars, NEW d \in Deliveries, state[d] = "absent"
  PROVE  /\ state'[d] \in {"absent", "pending"}
         /\ HoldersOf(d)' = HoldersOf(d) /\ delivered'[d] = delivered[d] /\ gap'[d] = gap[d]
<1>t. TypeOK BY DEF RedriveInv, LossInv
<1>l. LossInv BY DEF RedriveInv
<1>1. \A j \in Jobs : j[1] = d => job[j] = "none" BY DEF RedriveInv, JobPresent
<1>2. \A r \in Rows : r[1] = d => letter[r] = "none" BY DEF RedriveInv, LetterPresent
<1>3. ~JobHolds(d) /\ Open(d) = {} BY <1>1, <1>2 DEF JobHolds, Open, Live
<1>4. HoldersOf(d) = {} BY <1>3 DEF HoldersOf
<1>5. delivered'[d] = delivered[d] BY DispatchMoves
<1>6. gap'[d] = gap[d] BY <1>4, <1>l, GapMoves
<1>7. CASE state'[d] = "absent"
  <2>1. \A j \in Jobs : j[1] = d => job'[j] = "none" BY <1>7 DEF RedriveInv, JobPresent
  <2>2. \A r \in Rows : r[1] = d => letter'[r] = "none" BY <1>7 DEF RedriveInv, LetterPresent
  <2>3. ~JobHolds(d)' /\ Open(d)' = {} BY <2>1, <2>2 DEF JobHolds, Open, Live
  <2>4. HoldersOf(d)' = {} BY <2>3 DEF HoldersOf
  <2> QED BY <1>4, <1>5, <1>6, <1>7, <2>4
<1>8. CASE state'[d] # "absent"
  <2>1. ~\E c \in Callers : Succeeded(c) /\ At(c) \in Jobs /\ At(c)[1] = d
    <3> SUFFICES ASSUME NEW c \in Callers, Succeeded(c), At(c) \in Jobs, At(c)[1] = d PROVE FALSE OBVIOUS
    <3>1. CASE c \in Deliveries
      BY <3>1 DEF At, Succeeded, RedriveInv, RequestPresent
    <3>2. CASE c \in Batchers
      <4>1. At(c) = cur[c] BY <3>2, JobNames DEF At
      <4> QED BY <4>1, <3>2 DEF RedriveInv, BatchPresent
    <3> QED BY <3>1, <3>2 DEF Callers
  <2>2. Letters(d) = {} BY <1>2 DEF Letters
  <2>3. state'[d] = "pending" BY <1>8, <1>l, <2>1, <2>2, StateMoves
  <2>4. UNCHANGED <<job, letter>> BY <1>8, <2>3, <1>t, PendingFirst DEF Receive, bull
  <2>5. HoldersOf(d)' = HoldersOf(d) BY <2>4 DEF HoldersOf, JobHolds, Open
  <2> QED BY <2>3, <2>5, <1>5, <1>6
<1> QED BY <1>7, <1>8

LEMMA AcceptStep ==
  ASSUME RedriveInv, RedriveInv', [Next]_vars, NEW d \in Deliveries, state[d] = "absent"
  PROVE  Promise!Accept(d)
<1>t. TypeOK /\ TypeOK' BY DEF RedriveInv, LossInv
<1>1. Phase(d) = "new" /\ Phase(d)' \in {"new", "accepted"} BY AbsentStep DEF Phase
<1>2. /\ HoldersOf(d)' = HoldersOf(d) /\ delivered'[d] = delivered[d]
      /\ (gap[d] # {})' = (gap[d] # {})
  BY AbsentStep
<1> QED BY <1>1, <1>2 DEF Promise!Accept, Promise!Same

LEMMA MoveStep ==
  ASSUME RedriveInv, RedriveInv', [Next]_vars, NEW d \in Deliveries, state[d] # "absent"
  PROVE  Promise!Move(d)
<1>l. LossInv /\ LossInv' BY DEF RedriveInv
<1>t. TypeOK /\ TypeOK' BY <1>l DEF LossInv
<1>1. Phase(d) # "new" /\ Phase(d)' \in {Phase(d), "settled"}
  <2>1. state'[d] # "absent" /\ (Settled(d) => Settled(d)') BY <1>l, StatesStay
  <2> QED BY <2>1, <1>t DEF Phase, Settled, TypeOK
<1>2. Phase(d)' = "settled" <=> Settled(d)' BY <1>t DEF Phase, Settled, TypeOK
<1>3. Settled(d)' => HoldersOf(d)' # {} \/ delivered'[d] \/ gap'[d] # {}
  <2>1. NothingLost' BY <1>l, LossMeans, PTL
  <2> QED BY <2>1 DEF NothingLost, Held, Settled, HoldersOf, JobHolds
<1>4. "letter" \in HoldersOf(d) \ HoldersOf(d)' => Settled(d)'
  <2> SUFFICES ASSUME Open(d) # {}, Open(d)' = {} PROVE Settled(d)' BY DEF HoldersOf
  <2>1. PICK r \in Rows : r[1] = d /\ letter[r] = "open" BY DEF Open
  <2>2. letter'[r] # "open" BY <2>1 DEF Open
  <2>3. letter'[r] = "redriven" BY <2>1, <2>2, <1>l, LetterMoves
  <2> QED BY <2>1, <2>3 DEF RedriveInv, RedrivenSettled
<1>5. "job" \in HoldersOf(d) \ HoldersOf(d)' =>
        delivered'[d] \/ gap'[d] # {} \/ "letter" \in HoldersOf(d)'
  <2> SUFFICES ASSUME JobHolds(d), ~JobHolds(d)' PROVE delivered'[d] \/ gap'[d] # {} \/ Open(d)' # {}
    BY DEF HoldersOf
  <2>1. PICK j \in Jobs : j[1] = d /\ job[j] \in Live BY DEF JobHolds
  <2>2. job'[j] \notin Live BY <2>1 DEF JobHolds
  <2> QED BY <2>1, <2>2, <1>l, JobEnds
<1>6. delivered[d] => delivered'[d] BY DispatchStays
<1>7. gap[d] # {} => gap'[d] # {} BY <1>l, GapMoves
<1>8. gap'[d] # {} => gap[d] # {} \/ HoldersOf(d) # {} BY <1>l, GapMoves
<1> QED
  BY <1>1, <1>2, <1>3, <1>4, <1>5, <1>6, <1>7, <1>8
     DEF Promise!Move, Promise!Kept, Promise!LetterLeaves, Promise!JobLeaves

(* The pipeline keeps its promise: every step of Ingress, whichever caller, worker or failure takes *)
(* it, is a step of Delivery or changes nothing there.                                              *)
THEOREM IngressKeepsPromise == Spec => KeepsPromise
<1>1. Init => Promise!Init
  <2> SUFFICES ASSUME Init PROVE Promise!Init OBVIOUS
  <2>1. ASSUME NEW d \in Deliveries
        PROVE  Phase(d) = "new" /\ HoldersOf(d) = {} /\ ~delivered[d] /\ gap[d] = {}
    BY DEF Init, Phase, HoldersOf, JobHolds, Open, Live
  <2>2. delivered = [d \in Deliveries |-> FALSE] BY DEF Init
  <2> QED BY <2>1, <2>2 DEF Promise!Init
<1>2. RedriveInv /\ RedriveInv' /\ [Next]_vars => [Promise!Next]_(Promise!promise)
  <2> SUFFICES ASSUME RedriveInv, RedriveInv', [Next]_vars PROVE Promise!Next OBVIOUS
  <2> QED BY AcceptStep, MoveStep DEF Promise!Next
<1>3. Spec => []RedriveInv BY RedriveInit, RedriveNext, PTL DEF Spec
<1> QED BY <1>1, <1>2, <1>3, PTL DEF Spec, KeepsPromise, Promise!Spec

=============================================================================
