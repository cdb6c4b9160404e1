----------------------------- MODULE BulkMessages -----------------------------
(***************************************************************************)
(* Bulk message batches of the OpenWA gateway (bulk-message.service.ts):   *)
(* a batch is created under a cap, its run sends its messages one by one   *)
(* in the background, and it can be cancelled at any time, by this process *)
(* or, through the database, by another one.                               *)
(*                                                                         *)
(* A database read is two steps (the database answers; the call goes on    *)
(* with an answer that may be stale by then), a write is one: what its     *)
(* call does next touches nothing that another call could see in between.  *)
(***************************************************************************)
EXTENDS Naturals, FiniteSets

CONSTANTS
  Batches,      \* batch rows (and the run that drives each)
  Cancels,      \* slots for cancel requests in flight
  Sizes,        \* how many messages a batch may have
  MaxBatches,   \* BULK_MAX_CONCURRENT_BATCHES; 0 disables the cap
  SaveEvery,    \* the progress of every SaveEvery-th message is saved
  Faults        \* the failures of this instance

AllFaults == {"crash", "dbError", "foreignCancel"}

ASSUME BatchAssumption ==
  /\ IsFiniteSet(Batches)
  /\ Sizes \subseteq Nat \ {0}
  /\ MaxBatches \in Nat /\ SaveEvery \in Nat \ {0}
  /\ Faults \subseteq AllFaults

VARIABLES
  status,       \* the row's status column, or "absent"
  prog,         \* the row's progress column
  total,        \* how many messages the batch has
  stopOnError,  \* options.stopOnError
  mem,          \* the progress of the run's in-memory batch
  pc,           \* the await each run is at
  saw,          \* the status its last read returned
  final,        \* the terminal status it decided on
  flag,         \* processingBatches: "none", "on", "off"
  slots,        \* inFlightBatches
  cpc, target, got, local, \* each cancel request: its await, batch, row read, and is it in this process?
  up,           \* the process: "up", "down", or "sweep" at its start
  orphans,      \* the orphaned batches its start found and has not saved yet
  delivered,    \* (history) messages the engine has sent
  late          \* (history) messages whose send began when the row was already CANCELLED

vars == <<status, prog, total, stopOnError, mem, pc, saw, final, flag, slots, cpc, target, got, local,
          up, orphans, delivered, late>>
rowVars == <<status, prog, total, stopOnError>>
runVars == <<mem, pc, saw, final>>
cancelVars == <<cpc, target, got, local>>
process == <<up, orphans>>
history == <<delivered, late>>

Terminal == {"COMPLETED", "CANCELLED", "FAILED"}
Statuses == {"absent", "PENDING", "PROCESSING"} \cup Terminal
Reserved == {"save", "read", "got", "mark", "noEngine", "send", "progress", "sleep", "reread", "decide", "final"}
Pcs == Reserved \cup {"none", "exists", "done", "threw"}
Progress == [sent : Nat, failed : Nat, pending : Nat, cancelled : Nat]
Fresh(n) == [sent |-> 0, failed |-> 0, pending |-> n, cancelled |-> 0]
CancelRestKeepsPending(p) == [p EXCEPT !.cancelled = p.pending]
CancelRest(p) == [p EXCEPT !.cancelled = p.pending, !.pending = 0]

DataOK ==
  /\ status \in [Batches -> Statuses]
  /\ prog \in [Batches -> Progress] /\ mem \in [Batches -> Progress]
  /\ total \in [Batches -> Nat] /\ stopOnError \in [Batches -> BOOLEAN]
  /\ pc \in [Batches -> Pcs] /\ saw \in [Batches -> Statuses] /\ final \in [Batches -> Statuses]
  /\ flag \in [Batches -> {"none", "on", "off"}]
  /\ cpc \in [Cancels -> {"idle", "got", "update"}] /\ target \in [Cancels -> Batches]
  /\ got \in [Cancels -> [status : Statuses, prog : Progress]] /\ local \in [Cancels -> BOOLEAN]
  /\ up \in {"up", "down", "sweep"} /\ orphans \subseteq Batches
  /\ delivered \in [Batches -> Nat] /\ late \in [Batches -> Nat]

TypeOK == DataOK /\ slots \in Nat

Init ==
  /\ status = [b \in Batches |-> "absent"]
  /\ total \in [Batches -> Sizes] /\ stopOnError \in [Batches -> BOOLEAN]
  /\ prog = [b \in Batches |-> Fresh(total[b])] /\ mem = prog
  /\ pc = [b \in Batches |-> "none"]
  /\ saw = status /\ final = status
  /\ flag = [b \in Batches |-> "none"] /\ slots = 0
  /\ cpc = [c \in Cancels |-> "idle"] /\ local = [c \in Cancels |-> TRUE]
  /\ target \in [Cancels -> Batches]
  /\ got = [c \in Cancels |-> [status |-> "absent", prog |-> Fresh(0)]]
  /\ up = "up" /\ orphans = {}
  /\ delivered = [b \in Batches |-> 0] /\ late = [b \in Batches |-> 0]

Goto(b, l) == pc' = [pc EXCEPT ![b] = l]
SetFlag(b, f) == flag' = [flag EXCEPT ![b] = f]
\* An UPDATE guarded with status: Not(CANCELLED) finds a row to change.
NotCancelledUnchecked(b) == TRUE
NotCancelled(b) == status[b] # "CANCELLED"

\* processBatch's finally.
ReleaseKeepsSlot(b) == UNCHANGED slots
Release(b) == slots' = slots - 1

-----------------------------------------------------------------------------
(* createBatch *)

\* The session is started and the messages pass their checks: look whether the batch id exists.
Create(b) ==
  /\ up = "up" /\ pc[b] = "none" /\ Goto(b, "exists")
  /\ UNCHANGED <<rowVars, mem, saw, final, flag, slots, cancelVars, process, history>>

\* No: check the cap and reserve a slot in one turn, then save the row.
Full == MaxBatches > 0 /\ slots >= MaxBatches
Reserve(b) ==
  /\ pc[b] = "exists"
  /\ IF Full THEN Goto(b, "none") /\ UNCHANGED slots
             ELSE Goto(b, "save") /\ slots' = slots + 1
  /\ UNCHANGED <<rowVars, mem, saw, final, flag, cancelVars, process, history>>

Saved(b) ==
  /\ pc[b] = "save"
  /\ status' = [status EXCEPT ![b] = "PENDING"]
  /\ Goto(b, "read")
  /\ UNCHANGED <<prog, total, stopOnError, mem, saw, final, flag, slots, cancelVars, process, history>>

SaveFails(b) ==
  /\ pc[b] = "save" /\ "dbError" \in Faults
  /\ Release(b) /\ Goto(b, "none")
  /\ UNCHANGED <<rowVars, mem, saw, final, flag, cancelVars, process, history>>

-----------------------------------------------------------------------------
(* processBatch, executeBatch *)

\* The run ends: it frees its marker and its slot.
Leave(b, l) == Release(b) /\ SetFlag(b, "none") /\ Goto(b, l)

ReadRow(b) ==
  /\ pc[b] = "read" /\ Goto(b, "got")
  /\ saw' = [saw EXCEPT ![b] = status[b]]
  /\ UNCHANGED <<rowVars, mem, final, flag, slots, cancelVars, process, history>>

\* A cancel that landed before the pick-up is not revived.
PickUp(b) ==
  /\ pc[b] = "got"
  /\ IF flag[b] = "off" \/ saw[b] = "CANCELLED" THEN Leave(b, "done")
     ELSE SetFlag(b, "on") /\ Goto(b, "mark") /\ UNCHANGED slots
  /\ UNCHANGED <<rowVars, mem, saw, final, cancelVars, process, history>>

\* The top of the loop: send the next message unless the flag is off.
NextMessage(b) ==
  IF flag[b] = "on"
  THEN /\ Goto(b, "send")
       /\ late' = IF status'[b] = "CANCELLED" THEN [late EXCEPT ![b] = @ + 1] ELSE late
  ELSE Goto(b, "reread") /\ UNCHANGED late

\* markBatchProcessing; then the engine is there or not.
Mark(b) ==
  /\ pc[b] = "mark"
  /\ IF NotCancelled(b)
     THEN /\ status' = [status EXCEPT ![b] = "PROCESSING"]
          /\ NextMessage(b) \/ (Goto(b, "noEngine") /\ UNCHANGED late)
          /\ UNCHANGED <<flag, slots>>
     ELSE Leave(b, "done") /\ UNCHANGED <<status, late>>
  /\ UNCHANGED <<prog, total, stopOnError, mem, saw, final, cancelVars, process, delivered>>

FailBatchWithoutEngine(b) ==
  /\ pc[b] = "noEngine"
  /\ status' = IF NotCancelled(b) THEN [status EXCEPT ![b] = "FAILED"] ELSE status
  /\ Leave(b, "done")
  /\ UNCHANGED <<prog, total, stopOnError, mem, saw, final, cancelVars, process, history>>

\* After a message: the delay before the next one, or the end of the loop.
AfterMessage(b, done) == Goto(b, IF done < total[b] /\ flag[b] = "on" THEN "sleep" ELSE "reread")

\* The send of the next message settles; stopOnError ends the loop at once.
Send(b) ==
  LET i == mem[b].sent + mem[b].failed
      saves == i % SaveEvery = 0 \/ i = total[b] - 1 IN
  /\ pc[b] = "send"
  /\ \/ /\ mem' = [mem EXCEPT ![b].sent = @ + 1, ![b].pending = @ - 1]
        /\ delivered' = [delivered EXCEPT ![b] = @ + 1]
        /\ IF saves THEN Goto(b, "progress") ELSE AfterMessage(b, i + 1)
        /\ UNCHANGED final
     \/ /\ mem' = [mem EXCEPT ![b].failed = @ + 1, ![b].pending = @ - 1]
        /\ IF stopOnError[b] THEN Goto(b, "reread") /\ final' = [final EXCEPT ![b] = "FAILED"]
           ELSE (IF saves THEN Goto(b, "progress") ELSE AfterMessage(b, i + 1)) /\ UNCHANGED final
        /\ UNCHANGED delivered
  /\ UNCHANGED <<rowVars, saw, flag, slots, cancelVars, process, late>>

\* The periodic save, which also sees a cancel of another process.
SaveProgress(b) ==
  /\ pc[b] = "progress"
  /\ IF NotCancelled(b)
     THEN /\ prog' = [prog EXCEPT ![b] = mem[b]]
          /\ AfterMessage(b, mem[b].sent + mem[b].failed) /\ UNCHANGED <<mem, final>>
     ELSE /\ mem' = [mem EXCEPT ![b] = CancelRest(@)]
          /\ final' = [final EXCEPT ![b] = "CANCELLED"]
          /\ Goto(b, "final") /\ UNCHANGED prog
  /\ UNCHANGED <<status, total, stopOnError, saw, flag, slots, cancelVars, process, history>>

Wake(b) ==
  /\ pc[b] = "sleep" /\ UNCHANGED status /\ NextMessage(b)
  /\ UNCHANGED <<prog, total, stopOnError, mem, saw, final, flag, slots, cancelVars, process, delivered>>

\* finalizeBatch: re-read the row, decide, write.
Reread(b) ==
  /\ pc[b] = "reread" /\ Goto(b, "decide")
  /\ saw' = [saw EXCEPT ![b] = status[b]]
  /\ UNCHANGED <<rowVars, mem, final, flag, slots, cancelVars, process, history>>

ResolveFinalBatchStatus(b, cancelled) ==
  IF cancelled THEN "CANCELLED"
  ELSE IF final[b] = "FAILED" \/ (mem[b].failed > 0 /\ mem[b].sent = 0) THEN "FAILED" ELSE "COMPLETED"

Decide(b) ==
  LET cancelled == saw[b] = "CANCELLED" \/ flag[b] # "on" IN
  /\ pc[b] = "decide" /\ Goto(b, "final")
  /\ final' = [final EXCEPT ![b] = ResolveFinalBatchStatus(b, cancelled)]
  /\ mem' = IF cancelled THEN [mem EXCEPT ![b] = CancelRest(@)] ELSE mem
  /\ UNCHANGED <<rowVars, saw, flag, slots, cancelVars, process, history>>

\* CANCELLED is saved over whatever is there; another status only over a row not cancelled.
FinalizeBatch(b) ==
  /\ pc[b] = "final"
  /\ IF final[b] = "CANCELLED" \/ NotCancelled(b)
     THEN /\ status' = [status EXCEPT ![b] = final[b]]
          /\ prog' = [prog EXCEPT ![b] = mem[b]]
     ELSE UNCHANGED <<status, prog>>
  /\ Leave(b, "done")
  /\ UNCHANGED <<total, stopOnError, mem, saw, final, cancelVars, process, history>>

\* A database error anywhere in the run ends it; before the row was read its marker stays.
RunThrows(b) ==
  /\ "dbError" \in Faults
  /\ pc[b] \in {"read", "mark", "noEngine", "progress", "reread", "final"}
  /\ Release(b) /\ Goto(b, "threw")
  /\ IF pc[b] = "read" THEN UNCHANGED flag ELSE SetFlag(b, "none")
  /\ UNCHANGED <<rowVars, mem, saw, final, cancelVars, process, history>>

-----------------------------------------------------------------------------
(* cancelBatch *)

Cancel(c, b, here) ==
  /\ up = "up" /\ cpc[c] = "idle" /\ status[b] # "absent" /\ (here \/ "foreignCancel" \in Faults)
  /\ cpc' = [cpc EXCEPT ![c] = "got"]
  /\ target' = [target EXCEPT ![c] = b]
  /\ got' = [got EXCEPT ![c] = [status |-> status[b], prog |-> prog[b]]]
  /\ local' = [local EXCEPT ![c] = here]
  /\ UNCHANGED <<rowVars, runVars, flag, slots, process, history>>

\* A terminal batch is refused; otherwise signal this process's run, then write.
CancelSignals(c) ==
  /\ cpc[c] = "got"
  /\ IF got[c].status \in Terminal
     THEN cpc' = [cpc EXCEPT ![c] = "idle"] /\ UNCHANGED flag
     ELSE /\ cpc' = [cpc EXCEPT ![c] = "update"]
          /\ IF local[c] THEN SetFlag(target[c], "off") ELSE UNCHANGED flag
  /\ UNCHANGED <<rowVars, runVars, slots, target, got, local, process, history>>

\* The guard is in the UPDATE; the counters are those of the row as it was read.
CancellableUnchecked(b) == TRUE
Cancellable(b) == status[b] \in {"PENDING", "PROCESSING"}
CancelWrites(c) ==
  LET b == target[c] IN
  /\ cpc[c] = "update" /\ cpc' = [cpc EXCEPT ![c] = "idle"]
  /\ IF Cancellable(b)
     THEN /\ status' = [status EXCEPT ![b] = "CANCELLED"]
          /\ prog' = [prog EXCEPT ![b] = CancelRest(got[c].prog)]
     ELSE UNCHANGED <<status, prog>>
  /\ UNCHANGED <<total, stopOnError, runVars, flag, slots, target, got, local, process, history>>

-----------------------------------------------------------------------------
(* The process dies and starts again.  Another process's cancels survive it. *)

Crash ==
  /\ "crash" \in Faults /\ up = "up" /\ up' = "down"
  /\ pc' = [b \in Batches |-> IF status[b] = "absent" THEN "none" ELSE "done"]
  /\ flag' = [b \in Batches |-> "none"] /\ slots' = 0
  /\ cpc' = [c \in Cancels |-> IF local[c] THEN "idle" ELSE cpc[c]]
  /\ UNCHANGED <<rowVars, mem, saw, final, target, got, local, orphans, history>>

\* onApplicationBootstrap finds the orphaned PROCESSING rows, ...
OrphansNone == {}
Orphans == {b \in Batches : status[b] = "PROCESSING"}
FindOrphans ==
  /\ up = "down" /\ up' = "sweep"
  /\ orphans' = Orphans
  /\ mem' = [b \in Batches |-> IF b \in Orphans THEN prog[b] ELSE mem[b]]
  /\ UNCHANGED <<rowVars, pc, saw, final, flag, slots, cancelVars, history>>

\* ... and saves each as FAILED, whatever became of it meanwhile; none is resumed.
FailOrphan(b) ==
  /\ up = "sweep" /\ b \in orphans
  /\ orphans' = orphans \ {b}
  /\ status' = [status EXCEPT ![b] = "FAILED"]
  /\ prog' = [prog EXCEPT ![b] = mem[b]]
  /\ UNCHANGED <<total, stopOnError, runVars, flag, slots, cancelVars, up, history>>

Started ==
  /\ up = "sweep" /\ orphans = {} /\ up' = "up"
  /\ UNCHANGED <<rowVars, runVars, flag, slots, cancelVars, orphans, history>>

-----------------------------------------------------------------------------
RunStep(b) ==
  \/ Reserve(b) \/ Saved(b) \/ SaveFails(b) \/ ReadRow(b) \/ PickUp(b) \/ Mark(b)
  \/ FailBatchWithoutEngine(b) \/ Send(b) \/ SaveProgress(b) \/ Wake(b)
  \/ Reread(b) \/ Decide(b) \/ FinalizeBatch(b) \/ RunThrows(b)

Next ==
  \/ \E b \in Batches : Create(b) \/ RunStep(b) \/ FailOrphan(b)
  \/ \E c \in Cancels, b \in Batches, here \in BOOLEAN : Cancel(c, b, here)
  \/ \E c \in Cancels : CancelSignals(c) \/ CancelWrites(c)
  \/ Crash \/ FindOrphans \/ Started

Spec == Init /\ [][Next]_vars

(* The engine settles every send, the database answers every query, timers  *)
(* fire, and a process that is down is started again.                       *)
FairSpec ==
  /\ Spec
  /\ \A b \in Batches : WF_vars(RunStep(b)) /\ WF_vars(FailOrphan(b))
  /\ \A c \in Cancels : WF_vars(CancelSignals(c) \/ CancelWrites(c))
  /\ WF_vars(FindOrphans) /\ WF_vars(Started)

-----------------------------------------------------------------------------
(* Properties *)

\* A terminal status is exclusive: neither the run, nor a cancel that read the row before it
\* settled, changes it.  Only a start of the process that found the batch orphaned may: its save
\* is not guarded.
TerminalIsFinal ==
  [][\A b \in Batches : status[b] \in Terminal /\ b \notin orphans => status'[b] = status[b]]_vars

\* Whoever wrote the row last (the run, a cancel with the counters it read, a start), its counters
\* add up, never claim a message that was not sent, and leave nothing pending in a batch that
\* completed or was cancelled; a completed batch counts every message it sent.
CountersAddUp ==
  \A b \in Batches : status[b] # "absent" =>
    LET p == prog[b] IN
    /\ p.sent + p.failed + p.pending + p.cancelled = total[b]
    /\ p.sent <= delivered[b]
    /\ status[b] \in {"COMPLETED", "CANCELLED"} => p.pending = 0
    /\ status[b] = "COMPLETED" => p.sent = delivered[b] /\ p.cancelled = 0

\* Every exit of createBatch and of the run frees the slot exactly once, and the cap holds.
SlotsMatch ==
  /\ slots = Cardinality({b \in Batches : pc[b] \in Reserved})
  /\ MaxBatches > 0 => slots <= MaxBatches

\* After a cancel committed, by whichever process, at most SaveEvery more messages begin.
LateSends == \A b \in Batches : late[b] <= SaveEvery

\* A batch being processed settles, across crashes too, unless a database error ended its run.
EveryBatchSettles ==
  \A b \in Batches : status[b] = "PROCESSING" ~> status[b] \in Terminal \/ pc[b] = "threw"
=============================================================================
