-------------------------- MODULE BulkMessagesProofs --------------------------
(***************************************************************************)
(* Proofs about BulkMessages: the counters of a batch add up, a terminal   *)
(* status is final, slots are freed exactly once and few messages are sent *)
(* after a cancel, for any number of batches and cancels, any sizes, cap   *)
(* and save interval, and every fault.                                     *)
(*                                                                         *)
(* None of these is inductive.  The counters a run or a cancel writes are  *)
(* those it read or kept earlier, so the invariant must also say what the  *)
(* copies in memory are; a run's unconditional writes leave a terminal     *)
(* status alone only because of the statuses its row can have at each      *)
(* await; and how many messages may still be sent after a cancel depends   *)
(* on how far the next save of the progress, which sees it, is.            *)
(***************************************************************************)
EXTENDS BulkMessages, FiniteSetTheorems, TLAPS

Sum(p) == p.sent + p.failed + p.pending + p.cancelled

Unsaved == {"none", "exists", "save"}
Unsent == Unsaved \cup {"read", "got", "mark", "noEngine"}
Loop == {"send", "progress", "sleep", "reread", "decide"}

\* What the row can say at each await of the batch's run.
RowAt(b) ==
  /\ status[b] = "absent" <=> pc[b] \in Unsaved
  /\ pc[b] \in {"read", "got", "mark"} => status[b] \in {"PENDING", "CANCELLED"}
  /\ pc[b] \in Loop \cup {"noEngine", "final"} => status[b] \in {"PROCESSING", "CANCELLED"}

\* The counters of the run's in-memory batch.
MemAt(b) ==
  /\ Sum(mem[b]) = total[b] /\ total[b] # 0
  /\ mem[b].sent <= delivered[b]
  /\ pc[b] \in Reserved => mem[b].sent = delivered[b]
  /\ pc[b] \in Unsent => mem[b] = Fresh(total[b]) /\ delivered[b] = 0
  /\ pc[b] \in Loop => mem[b].cancelled = 0
  /\ pc[b] \in {"send", "sleep"} => mem[b].pending # 0
  /\ pc[b] \in {"reread", "decide"} /\ flag[b] = "on" /\ final[b] # "FAILED" => mem[b].pending = 0
  /\ pc[b] = "final" /\ final[b] \in {"COMPLETED", "CANCELLED"} => mem[b].pending = 0
  /\ pc[b] = "final" /\ final[b] = "COMPLETED" => mem[b].cancelled = 0
  /\ pc[b] = "final" => final[b] \in Terminal

\* The row's own counters.
ProgAt(b) ==
  /\ Sum(prog[b]) = total[b] /\ prog[b].sent <= delivered[b]
  /\ status[b] \in {"absent", "PENDING", "PROCESSING"} => prog[b].cancelled = 0
  /\ status[b] \in {"COMPLETED", "CANCELLED"} => prog[b].pending = 0
  /\ status[b] = "COMPLETED" => prog[b].sent = delivered[b] /\ prog[b].cancelled = 0
  /\ status[b] = "COMPLETED" => pc[b] \in {"done", "threw"}

\* The row a cancel read, whose counters it will write.
CancelAt(c) ==
  LET p == got[c].prog IN
  cpc[c] # "idle" =>
    /\ Sum(p) = total[target[c]] /\ p.sent <= delivered[target[c]]
    /\ got[c].status # "absent"
    /\ got[c].status \notin Terminal => p.cancelled = 0
    /\ cpc[c] = "update" => got[c].status \notin Terminal

\* No run is alive while the process is down or starts; an orphan it found is still one, or cancelled.
ProcessAt(b) ==
  /\ up # "up" => pc[b] \in {"none", "done"}
  /\ b \in orphans => up = "sweep" /\ pc[b] = "done" /\ status[b] \in {"PROCESSING", "CANCELLED"}

BatchAt(b) == RowAt(b) /\ MemAt(b) /\ ProgAt(b) /\ ProcessAt(b)

BatchInv ==
  /\ DataOK
  /\ \A b \in Batches : BatchAt(b)
  /\ \A c \in Cancels : CancelAt(c)


-----------------------------------------------------------------------------
(* Counters *)

\* What CancelRest does to a batch's counters.
LEMMA CancelRestMoves ==
  ASSUME NEW p \in Progress
  PROVE  /\ CancelRest(p) \in Progress
         /\ CancelRest(p).sent = p.sent /\ CancelRest(p).failed = p.failed
         /\ CancelRest(p).pending = 0 /\ CancelRest(p).cancelled = p.pending
  BY DEF Progress, CancelRest

\* An outcome takes its message from the pending ones.
LEMMA OutcomeCounts ==
  ASSUME NEW p \in Progress, p.pending # 0
  PROVE  /\ [p EXCEPT !.sent = @ + 1, !.pending = @ - 1] \in Progress
         /\ [p EXCEPT !.failed = @ + 1, !.pending = @ - 1] \in Progress
<1>1. p.sent + 1 \in Nat /\ p.failed + 1 \in Nat /\ p.pending - 1 \in Nat
  BY DEF Progress
<1> QED BY <1>1 DEF Progress

\* Fresh counters add up.
LEMMA FreshAddsUp ==
  ASSUME NEW n \in Nat
  PROVE  Fresh(n) \in Progress /\ Sum(Fresh(n)) = n
  BY DEF Fresh, Progress, Sum

-----------------------------------------------------------------------------
(* Steps of one batch's run *)

\* Everything the invariant says about x is as it was.
SameAt(x) ==
  /\ status'[x] = status[x] /\ prog'[x] = prog[x] /\ total'[x] = total[x]
  /\ mem'[x] = mem[x] /\ pc'[x] = pc[x] /\ final'[x] = final[x]
  /\ flag'[x] = flag[x] /\ delivered'[x] = delivered[x]
  /\ up' = up /\ (x \in orphans' => x \in orphans)

\* A batch that a step leaves alone keeps its part of the invariant.
LEMMA SameKeepsBatch ==
  ASSUME NEW x \in Batches, BatchAt(x), SameAt(x)
  PROVE  BatchAt(x)'
  BY DEF BatchAt, RowAt, MemAt, ProgAt, ProcessAt, SameAt, Sum

\* A step of b's run touches no other batch and no cancel request.
OnlyAt(b) ==
  /\ \A x \in Batches \ {b} : SameAt(x)
  /\ UNCHANGED <<cancelVars, total>>
  /\ delivered[b] <= delivered'[b]

\* A step of a run keeps the types, its batch's part of the invariant, and the rest of the state.
LEMMA RunStepKeeps ==
  ASSUME DataOK, NEW b \in Batches, BatchAt(b), Create(b) \/ RunStep(b) \/ FailOrphan(b)
  PROVE  DataOK' /\ BatchAt(b)' /\ OnlyAt(b)
<1> USE BatchAssumption DEF Pcs, Reserved, Statuses, Terminal
<1> DEFINE Facts == DataOK' /\ BatchAt(b)' /\ OnlyAt(b)
<1>1. CASE Create(b)
  <2> USE <1>1 DEF Create, Goto, rowVars, runVars, cancelVars, process, history, NotCancelled
  <2>1. DataOK'
    BY DEF DataOK, BatchAt, MemAt, Progress
  <2>2. OnlyAt(b)
    BY DEF DataOK, OnlyAt, SameAt
  <2>3. BatchAt(b)'
    <3>1. RowAt(b)'
      BY DEF DataOK, BatchAt, RowAt, ProcessAt, Unsaved, Loop
    <3>2. MemAt(b)'
      BY DEF DataOK, BatchAt, RowAt, MemAt, Sum, Fresh, Progress, Unsaved, Unsent, Loop
    <3>3. ProgAt(b)'
      BY DEF DataOK, BatchAt, RowAt, MemAt, ProgAt, ProcessAt, Sum, Fresh, Progress, Unsaved, Unsent, Loop
    <3>4. ProcessAt(b)'
      BY DEF DataOK, BatchAt, ProcessAt
    <3> QED BY <3>1, <3>2, <3>3, <3>4 DEF BatchAt
  <2> QED BY <2>1, <2>2, <2>3
<1>2. CASE Reserve(b)
  <2> USE <1>2 DEF Reserve, Goto, rowVars, runVars, cancelVars, process, history, NotCancelled
  <2>1. DataOK'
    BY SMTT(30) DEF DataOK, BatchAt, MemAt, Progress
  <2>2. OnlyAt(b)
    BY DEF DataOK, OnlyAt, SameAt
  <2>3. BatchAt(b)'
    <3>1. RowAt(b)'
      BY DEF DataOK, BatchAt, RowAt, ProcessAt, Unsaved, Loop
    <3>2. MemAt(b)'
      BY DEF DataOK, BatchAt, RowAt, MemAt, Sum, Fresh, Progress, Unsaved, Unsent, Loop
    <3>3. ProgAt(b)'
      BY DEF DataOK, BatchAt, RowAt, MemAt, ProgAt, ProcessAt, Sum, Fresh, Progress, Unsaved, Unsent, Loop
    <3>4. ProcessAt(b)'
      BY DEF DataOK, BatchAt, ProcessAt
    <3> QED BY <3>1, <3>2, <3>3, <3>4 DEF BatchAt
  <2> QED BY <2>1, <2>2, <2>3
<1>3. CASE Saved(b)
  <2> USE <1>3 DEF Saved, Goto, rowVars, runVars, cancelVars, process, history, NotCancelled
  <2>1. DataOK'
    BY DEF DataOK, BatchAt, MemAt, Progress
  <2>2. OnlyAt(b)
    BY DEF DataOK, OnlyAt, SameAt
  <2>3. BatchAt(b)'
    <3>1. RowAt(b)'
      BY DEF DataOK, BatchAt, RowAt, ProcessAt, Unsaved, Loop
    <3>2. MemAt(b)'
      BY DEF DataOK, BatchAt, RowAt, MemAt, Sum, Fresh, Progress, Unsaved, Unsent, Loop
    <3>3. ProgAt(b)'
      BY DEF DataOK, BatchAt, RowAt, MemAt, ProgAt, ProcessAt, Sum, Fresh, Progress, Unsaved, Unsent, Loop
    <3>4. ProcessAt(b)'
      BY DEF DataOK, BatchAt, ProcessAt
    <3> QED BY <3>1, <3>2, <3>3, <3>4 DEF BatchAt
  <2> QED BY <2>1, <2>2, <2>3
<1>4. CASE SaveFails(b)
  <2> USE <1>4 DEF SaveFails, Goto, Release, rowVars, runVars, cancelVars, process, history, NotCancelled
  <2>1. DataOK'
    BY DEF DataOK, BatchAt, MemAt, Progress
  <2>2. OnlyAt(b)
    BY DEF DataOK, OnlyAt, SameAt
  <2>3. BatchAt(b)'
    <3>1. RowAt(b)'
      BY DEF DataOK, BatchAt, RowAt, ProcessAt, Unsaved, Loop
    <3>2. MemAt(b)'
      BY DEF DataOK, BatchAt, RowAt, MemAt, Sum, Fresh, Progress, Unsaved, Unsent, Loop
    <3>3. ProgAt(b)'
      BY DEF DataOK, BatchAt, RowAt, MemAt, ProgAt, ProcessAt, Sum, Fresh, Progress, Unsaved, Unsent, Loop
    <3>4. ProcessAt(b)'
      BY DEF DataOK, BatchAt, ProcessAt
    <3> QED BY <3>1, <3>2, <3>3, <3>4 DEF BatchAt
  <2> QED BY <2>1, <2>2, <2>3
<1>5. CASE ReadRow(b)
  <2> USE <1>5 DEF ReadRow, Goto, rowVars, runVars, cancelVars, process, history, NotCancelled
  <2>1. DataOK'
    BY DEF DataOK, BatchAt, MemAt, Progress
  <2>2. OnlyAt(b)
    BY DEF DataOK, OnlyAt, SameAt
  <2>3. BatchAt(b)'
    <3>1. RowAt(b)'
      BY DEF DataOK, BatchAt, RowAt, ProcessAt, Unsaved, Loop
    <3>2. MemAt(b)'
      BY DEF DataOK, BatchAt, RowAt, MemAt, Sum, Fresh, Progress, Unsaved, Unsent, Loop
    <3>3. ProgAt(b)'
      BY DEF DataOK, BatchAt, RowAt, MemAt, ProgAt, ProcessAt, Sum, Fresh, Progress, Unsaved, Unsent, Loop
    <3>4. ProcessAt(b)'
      BY DEF DataOK, BatchAt, ProcessAt
    <3> QED BY <3>1, <3>2, <3>3, <3>4 DEF BatchAt
  <2> QED BY <2>1, <2>2, <2>3
<1>6. CASE PickUp(b)
  <2> USE <1>6 DEF PickUp, Leave, Goto, SetFlag, rowVars, runVars, cancelVars, process, history, NotCancelled
  <2>1. DataOK'
    BY ZenonT(30) DEF DataOK, BatchAt, MemAt, Progress
  <2>2. OnlyAt(b)
    BY DEF DataOK, OnlyAt, SameAt
  <2>3. BatchAt(b)'
    <3>1. RowAt(b)'
      BY DEF DataOK, BatchAt, RowAt, ProcessAt, Unsaved, Loop
    <3>2. MemAt(b)'
      BY DEF DataOK, BatchAt, RowAt, MemAt, Sum, Fresh, Progress, Unsaved, Unsent, Loop
    <3>3. ProgAt(b)'
      BY DEF DataOK, BatchAt, RowAt, MemAt, ProgAt, ProcessAt, Sum, Fresh, Progress, Unsaved, Unsent, Loop
    <3>4. ProcessAt(b)'
      BY DEF DataOK, BatchAt, ProcessAt
    <3> QED BY <3>1, <3>2, <3>3, <3>4 DEF BatchAt
  <2> QED BY <2>1, <2>2, <2>3
<1>7. CASE Mark(b)
  <2> USE <1>7 DEF Mark, Leave, Goto, SetFlag, NextMessage, rowVars, runVars, cancelVars, process, history, NotCancelled
  <2>1. DataOK'
    <3>1. late' = late \/ late' = [late EXCEPT ![b] = @ + 1]
      OBVIOUS
    <3>2. late' \in [Batches -> Nat]
      BY <3>1 DEF DataOK
    <3>3. status' \in [Batches -> Statuses] /\ flag' \in [Batches -> {"none", "on", "off"}]
      BY DEF DataOK
    <3>4. \E l \in Pcs : pc' = [pc EXCEPT ![b] = l]
      OBVIOUS
    <3> QED BY <3>2, <3>3, <3>4 DEF DataOK
  <2>2. OnlyAt(b)
    BY DEF DataOK, OnlyAt, SameAt
  <2>3. BatchAt(b)'
    <3>1. RowAt(b)'
      BY DEF DataOK, BatchAt, RowAt, ProcessAt, Unsaved, Loop
    <3>2. MemAt(b)'
      BY DEF DataOK, BatchAt, RowAt, MemAt, Sum, Fresh, Progress, Unsaved, Unsent, Loop
    <3>3. ProgAt(b)'
      BY DEF DataOK, BatchAt, RowAt, MemAt, ProgAt, ProcessAt, Sum, Fresh, Progress, Unsaved, Unsent, Loop
    <3>4. ProcessAt(b)'
      BY DEF DataOK, BatchAt, ProcessAt
    <3> QED BY <3>1, <3>2, <3>3, <3>4 DEF BatchAt
  <2> QED BY <2>1, <2>2, <2>3
<1>8. CASE FailBatchWithoutEngine(b)
  <2> USE <1>8 DEF FailBatchWithoutEngine, Leave, Goto, SetFlag, rowVars, runVars, cancelVars, process, history, NotCancelled
  <2>1. DataOK'
    BY DEF DataOK, BatchAt, MemAt, Progress
  <2>2. OnlyAt(b)
    BY DEF DataOK, OnlyAt, SameAt
  <2>3. BatchAt(b)'
    <3>1. RowAt(b)'
      BY DEF DataOK, BatchAt, RowAt, ProcessAt, Unsaved, Loop
    <3>2. MemAt(b)'
      BY DEF DataOK, BatchAt, RowAt, MemAt, Sum, Fresh, Progress, Unsaved, Unsent, Loop
    <3>3. ProgAt(b)'
      BY DEF DataOK, BatchAt, RowAt, MemAt, ProgAt, ProcessAt, Sum, Fresh, Progress, Unsaved, Unsent, Loop
    <3>4. ProcessAt(b)'
      BY DEF DataOK, BatchAt, ProcessAt
    <3> QED BY <3>1, <3>2, <3>3, <3>4 DEF BatchAt
  <2> QED BY <2>1, <2>2, <2>3
<1>9. CASE Send(b)
  <2> USE <1>9 DEF Send, AfterMessage, Goto, rowVars, runVars, cancelVars, process, history, NotCancelled
  <2>1. DataOK'
    <3>1. mem[b] \in Progress /\ mem[b].pending # 0
      BY DEF DataOK, BatchAt, MemAt
    <3>2. \/ mem' = [mem EXCEPT ![b] = [mem[b] EXCEPT !.sent = @ + 1, !.pending = @ - 1]]
          \/ mem' = [mem EXCEPT ![b] = [mem[b] EXCEPT !.failed = @ + 1, !.pending = @ - 1]]
      BY ZenonT(30) DEF DataOK
    <3>3. mem' \in [Batches -> Progress]
      <4>1. /\ [mem[b] EXCEPT !.sent = @ + 1, !.pending = @ - 1] \in Progress
            /\ [mem[b] EXCEPT !.failed = @ + 1, !.pending = @ - 1] \in Progress
        BY <3>1, OutcomeCounts
      <4> QED BY <3>2, <4>1 DEF DataOK
    <3>4. pc' \in [Batches -> Pcs] /\ final' \in [Batches -> Statuses]
      <4>1. \E l \in Pcs : pc' = [pc EXCEPT ![b] = l]
        OBVIOUS
      <4>2. final' = final \/ final' = [final EXCEPT ![b] = "FAILED"]
        OBVIOUS
      <4> QED BY <4>1, <4>2 DEF DataOK
    <3>5. delivered' \in [Batches -> Nat]
      BY DEF DataOK
    <3> QED BY <3>3, <3>4, <3>5 DEF DataOK
  <2>2. OnlyAt(b)
    BY DEF DataOK, OnlyAt, SameAt
  <2>3. BatchAt(b)'
    <3>1. RowAt(b)'
      BY DEF DataOK, BatchAt, RowAt, ProcessAt, Unsaved, Loop
    <3>2. MemAt(b)'
      BY DEF DataOK, BatchAt, RowAt, MemAt, Sum, Fresh, Progress, Unsaved, Unsent, Loop
    <3>3. ProgAt(b)'
      BY DEF DataOK, BatchAt, RowAt, MemAt, ProgAt, ProcessAt, Sum, Fresh, Progress, Unsaved, Unsent, Loop
    <3>4. ProcessAt(b)'
      BY DEF DataOK, BatchAt, ProcessAt
    <3> QED BY <3>1, <3>2, <3>3, <3>4 DEF BatchAt
  <2> QED BY <2>1, <2>2, <2>3
<1>10. CASE SaveProgress(b)
  <2> USE <1>10 DEF SaveProgress, AfterMessage, Goto, rowVars, runVars, cancelVars, process, history, NotCancelled
  <2>1. DataOK'
    <3>1. CancelRest(mem[b]) \in Progress
      BY CancelRestMoves DEF DataOK
    <3>2. mem' \in [Batches -> Progress]
      BY <3>1 DEF DataOK
    <3>3. pc' \in [Batches -> Pcs] /\ final' \in [Batches -> Statuses] /\ prog' \in [Batches -> Progress]
      <4>1. \E l \in Pcs : pc' = [pc EXCEPT ![b] = l]
        OBVIOUS
      <4>2. final' = final \/ final' = [final EXCEPT ![b] = "CANCELLED"]
        OBVIOUS
      <4>3. prog' = prog \/ prog' = [prog EXCEPT ![b] = mem[b]]
        OBVIOUS
      <4>4. prog' \in [Batches -> Progress]
        BY <4>3 DEF DataOK
      <4>5. pc' \in [Batches -> Pcs] /\ final' \in [Batches -> Statuses]
        BY <4>1, <4>2 DEF DataOK
      <4> QED BY <4>4, <4>5
    <3> QED BY <3>2, <3>3 DEF DataOK
  <2>2. OnlyAt(b)
    BY DEF DataOK, OnlyAt, SameAt
  <2>3. BatchAt(b)'
    <3>1. RowAt(b)'
      BY DEF DataOK, BatchAt, RowAt, ProcessAt, Unsaved, Loop
    <3>2. MemAt(b)'
      <4>1. mem[b] \in Progress
        BY DEF DataOK
      <4>2. \/ mem'[b] = mem[b]
            \/ /\ mem'[b] = CancelRest(mem[b]) /\ CancelRest(mem[b]) \in Progress
               /\ mem'[b].sent = mem[b].sent /\ mem'[b].failed = mem[b].failed
               /\ mem'[b].pending = 0 /\ mem'[b].cancelled = mem[b].pending
        BY <4>1, CancelRestMoves DEF DataOK
      <4>3. Sum(mem'[b]) = total'[b]
        BY <4>1, <4>2 DEF DataOK, BatchAt, MemAt, Sum, Progress, Loop
      <4>4. CASE status[b] # "CANCELLED"
        BY <4>3, <4>4 DEF DataOK, BatchAt, MemAt, Sum, Progress, Unsaved, Unsent, Loop
      <4>5. CASE status[b] = "CANCELLED"
        <5>1. pc'[b] = "final" /\ final'[b] = "CANCELLED" /\ mem'[b] = CancelRest(mem[b])
          BY <4>5 DEF DataOK
        <5> QED BY <4>1, <4>3, <5>1, CancelRestMoves DEF DataOK, BatchAt, MemAt, Unsaved, Unsent, Loop
      <4> QED BY <4>4, <4>5
    <3>3. ProgAt(b)'
      BY DEF DataOK, BatchAt, RowAt, MemAt, ProgAt, ProcessAt, Sum, Fresh, Progress, Unsaved, Unsent, Loop
    <3>4. ProcessAt(b)'
      BY DEF DataOK, BatchAt, ProcessAt
    <3> QED BY <3>1, <3>2, <3>3, <3>4 DEF BatchAt
  <2> QED BY <2>1, <2>2, <2>3
<1>11. CASE Wake(b)
  <2> USE <1>11 DEF Wake, NextMessage, Goto, rowVars, runVars, cancelVars, process, history, NotCancelled
  <2>1. DataOK'
    <3>1. late' = late \/ late' = [late EXCEPT ![b] = @ + 1]
      OBVIOUS
    <3>2. late' \in [Batches -> Nat]
      BY <3>1 DEF DataOK
    <3>3. \E l \in Pcs : pc' = [pc EXCEPT ![b] = l]
      OBVIOUS
    <3> QED BY <3>2, <3>3 DEF DataOK
  <2>2. OnlyAt(b)
    BY DEF DataOK, OnlyAt, SameAt
  <2>3. BatchAt(b)'
    <3>1. RowAt(b)'
      BY DEF DataOK, BatchAt, RowAt, ProcessAt, Unsaved, Loop
    <3>2. MemAt(b)'
      BY DEF DataOK, BatchAt, RowAt, MemAt, Sum, Fresh, Progress, Unsaved, Unsent, Loop
    <3>3. ProgAt(b)'
      BY DEF DataOK, BatchAt, RowAt, MemAt, ProgAt, ProcessAt, Sum, Fresh, Progress, Unsaved, Unsent, Loop
    <3>4. ProcessAt(b)'
      BY DEF DataOK, BatchAt, ProcessAt
    <3> QED BY <3>1, <3>2, <3>3, <3>4 DEF BatchAt
  <2> QED BY <2>1, <2>2, <2>3
<1>12. CASE Reread(b)
  <2> USE <1>12 DEF Reread, Goto, rowVars, runVars, cancelVars, process, history, NotCancelled
  <2>1. DataOK'
    BY DEF DataOK, BatchAt, MemAt, Progress
  <2>2. OnlyAt(b)
    BY DEF DataOK, OnlyAt, SameAt
  <2>3. BatchAt(b)'
    <3>1. RowAt(b)'
      BY DEF DataOK, BatchAt, RowAt, ProcessAt, Unsaved, Loop
    <3>2. MemAt(b)'
      BY DEF DataOK, BatchAt, RowAt, MemAt, Sum, Fresh, Progress, Unsaved, Unsent, Loop
    <3>3. ProgAt(b)'
      BY DEF DataOK, BatchAt, RowAt, MemAt, ProgAt, ProcessAt, Sum, Fresh, Progress, Unsaved, Unsent, Loop
    <3>4. ProcessAt(b)'
      BY DEF DataOK, BatchAt, ProcessAt
    <3> QED BY <3>1, <3>2, <3>3, <3>4 DEF BatchAt
  <2> QED BY <2>1, <2>2, <2>3
<1>13. CASE Decide(b)
  <2> USE <1>13 DEF Decide, Goto, ResolveFinalBatchStatus, rowVars, runVars, cancelVars, process, history, NotCancelled
  <2>1. DataOK'
    <3>1. CancelRest(mem[b]) \in Progress
      BY CancelRestMoves DEF DataOK
    <3>2. mem' \in [Batches -> Progress]
      BY <3>1 DEF DataOK
    <3>3. pc' \in [Batches -> Pcs] /\ final' \in [Batches -> Statuses]
      BY DEF DataOK
    <3> QED BY <3>2, <3>3 DEF DataOK
  <2>2. OnlyAt(b)
    BY DEF DataOK, OnlyAt, SameAt
  <2>3. BatchAt(b)'
    <3>1. RowAt(b)'
      BY DEF DataOK, BatchAt, RowAt, ProcessAt, Unsaved, Loop
    <3>2. MemAt(b)'
      <4>1. mem[b] \in Progress
        BY DEF DataOK
      <4>2. \/ mem'[b] = mem[b]
            \/ /\ mem'[b] = CancelRest(mem[b]) /\ CancelRest(mem[b]) \in Progress
               /\ mem'[b].sent = mem[b].sent /\ mem'[b].failed = mem[b].failed
               /\ mem'[b].pending = 0 /\ mem'[b].cancelled = mem[b].pending
        BY <4>1, CancelRestMoves DEF DataOK
      <4>3. Sum(mem'[b]) = total'[b]
        BY <4>1, <4>2 DEF DataOK, BatchAt, MemAt, Sum, Progress, Loop
      <4>4. CASE saw[b] = "CANCELLED" \/ flag[b] # "on"
        <5>1. pc'[b] = "final" /\ final'[b] = "CANCELLED" /\ mem'[b] = CancelRest(mem[b])
          BY <4>4 DEF DataOK
        <5> QED BY <4>1, <4>3, <5>1, CancelRestMoves DEF DataOK, BatchAt, MemAt, Unsaved, Unsent, Loop
      <4>5. CASE ~(saw[b] = "CANCELLED" \/ flag[b] # "on")
        <5>1. mem' = mem
          BY <4>5
        <5>2. pc'[b] = "final" /\ final'[b] \in {"FAILED", "COMPLETED"}
          BY <4>5 DEF DataOK
        <5>3. final'[b] = "COMPLETED" => final[b] # "FAILED"
          BY <4>5 DEF DataOK
        <5> QED BY <4>5, <5>1, <5>2, <5>3 DEF DataOK, BatchAt, MemAt, Unsaved, Unsent, Loop
      <4> QED BY <4>4, <4>5
    <3>3. ProgAt(b)'
      BY DEF DataOK, BatchAt, RowAt, MemAt, ProgAt, ProcessAt, Sum, Fresh, Progress, Unsaved, Unsent, Loop
    <3>4. ProcessAt(b)'
      BY DEF DataOK, BatchAt, ProcessAt
    <3> QED BY <3>1, <3>2, <3>3, <3>4 DEF BatchAt
  <2> QED BY <2>1, <2>2, <2>3
<1>14. CASE FinalizeBatch(b)
  <2> USE <1>14 DEF FinalizeBatch, Leave, Goto, SetFlag, rowVars, runVars, cancelVars, process, history, NotCancelled
  <2>1. DataOK'
    <3>1. pc' \in [Batches -> Pcs] /\ status' \in [Batches -> Statuses] /\ prog' \in [Batches -> Progress]
      BY SMTT(30) DEF DataOK
    <3>2. flag' \in [Batches -> {"none", "on", "off"}]
      BY DEF DataOK
    <3> QED BY <3>1, <3>2 DEF DataOK
  <2>2. OnlyAt(b)
    BY DEF DataOK, OnlyAt, SameAt
  <2>3. BatchAt(b)'
    <3>1. RowAt(b)'
      BY DEF DataOK, BatchAt, RowAt, MemAt, ProcessAt, Unsaved, Loop
    <3>2. MemAt(b)'
      BY DEF DataOK, BatchAt, RowAt, MemAt, Sum, Fresh, Progress, Unsaved, Unsent, Loop
    <3>3. ProgAt(b)'
      BY DEF DataOK, BatchAt, RowAt, MemAt, ProgAt, ProcessAt, Sum, Fresh, Progress, Unsaved, Unsent, Loop
    <3>4. ProcessAt(b)'
      BY DEF DataOK, BatchAt, ProcessAt
    <3> QED BY <3>1, <3>2, <3>3, <3>4 DEF BatchAt
  <2> QED BY <2>1, <2>2, <2>3
<1>15. CASE RunThrows(b)
  <2> USE <1>15 DEF RunThrows, Goto, SetFlag, rowVars, runVars, cancelVars, process, history, NotCancelled
  <2>1. DataOK'
    BY DEF DataOK, BatchAt, MemAt, Progress
  <2>2. OnlyAt(b)
    BY DEF DataOK, OnlyAt, SameAt
  <2>3. BatchAt(b)'
    <3>1. RowAt(b)'
      BY DEF DataOK, BatchAt, RowAt, ProcessAt, Unsaved, Loop
    <3>2. MemAt(b)'
      BY DEF DataOK, BatchAt, RowAt, MemAt, Sum, Fresh, Progress, Unsaved, Unsent, Loop
    <3>3. ProgAt(b)'
      BY DEF DataOK, BatchAt, RowAt, MemAt, ProgAt, ProcessAt, Sum, Fresh, Progress, Unsaved, Unsent, Loop
    <3>4. ProcessAt(b)'
      BY DEF DataOK, BatchAt, ProcessAt
    <3> QED BY <3>1, <3>2, <3>3, <3>4 DEF BatchAt
  <2> QED BY <2>1, <2>2, <2>3
<1>16. CASE FailOrphan(b)
  <2> USE <1>16 DEF FailOrphan, rowVars, runVars, cancelVars, process, history, NotCancelled
  <2>1. DataOK'
    BY DEF DataOK, BatchAt, MemAt, Progress
  <2>2. OnlyAt(b)
    BY DEF DataOK, OnlyAt, SameAt
  <2>3. BatchAt(b)'
    <3>1. RowAt(b)'
      BY DEF DataOK, BatchAt, RowAt, ProcessAt, Unsaved, Loop
    <3>2. MemAt(b)'
      BY DEF DataOK, BatchAt, RowAt, MemAt, Sum, Fresh, Progress, Unsaved, Unsent, Loop
    <3>3. ProgAt(b)'
      BY DEF DataOK, BatchAt, RowAt, MemAt, ProgAt, ProcessAt, Sum, Fresh, Progress, Unsaved, Unsent, Loop
    <3>4. ProcessAt(b)'
      BY DEF DataOK, BatchAt, ProcessAt
    <3> QED BY <3>1, <3>2, <3>3, <3>4 DEF BatchAt
  <2> QED BY <2>1, <2>2, <2>3
<1> QED BY <1>1, <1>2, <1>3, <1>4, <1>5, <1>6, <1>7, <1>8, <1>9, <1>10, <1>11, <1>12, <1>13, <1>14, <1>15, <1>16 DEF RunStep

-----------------------------------------------------------------------------
(* Steps of the cancel requests and of the process *)

\* A run's step keeps what the cancel requests read.
LEMMA RunStepKeepsCancels ==
  ASSUME DataOK, DataOK', NEW b \in Batches, OnlyAt(b), NEW c \in Cancels, CancelAt(c)
  PROVE  CancelAt(c)'
<1>1. delivered[target[c]] <= delivered'[target[c]] /\ total'[target[c]] = total[target[c]]
  BY DEF DataOK, OnlyAt, SameAt
<1>2. got' = got /\ cpc' = cpc /\ target' = target
  BY DEF OnlyAt, cancelVars
<1>3. delivered[target[c]] \in Nat /\ delivered'[target[c]] \in Nat /\ got[c].prog.sent \in Nat
  BY DEF DataOK, Progress
<1> QED BY <1>1, <1>2, <1>3 DEF CancelAt, Sum

\* A step of a cancel request.
LEMMA CancelStepKeeps ==
  ASSUME BatchInv, NEW c \in Cancels,
         (\E b \in Batches, here \in BOOLEAN : Cancel(c, b, here)) \/ CancelSignals(c) \/ CancelWrites(c)
  PROVE  BatchInv'
<1> USE DEF Statuses, Terminal
<1>1. CASE \E b \in Batches, here \in BOOLEAN : Cancel(c, b, here)
  <2>1. PICK b \in Batches, here \in BOOLEAN : Cancel(c, b, here)
    BY <1>1
  <2> USE <2>1 DEF Cancel, rowVars, runVars, history, process
  <2>2. DataOK'
    BY DEF BatchInv, DataOK
  <2>3. \A x \in Batches : BatchAt(x)'
    BY SameKeepsBatch DEF BatchInv, SameAt
  <2>4. CancelAt(c)'
    BY DEF BatchInv, BatchAt, ProgAt, DataOK, CancelAt, Sum
  <2>5. ASSUME NEW d \in Cancels \ {c} PROVE CancelAt(d)'
    BY <2>5 DEF BatchInv, DataOK, CancelAt, Sum
  <2> QED BY <2>2, <2>3, <2>4, <2>5 DEF BatchInv
<1>2. CASE CancelSignals(c)
  <2> USE <1>2 DEF CancelSignals, SetFlag, rowVars, runVars, history, process
  <2>1. DataOK'
    BY DEF BatchInv, DataOK
  <2>2. ASSUME NEW x \in Batches PROVE BatchAt(x)'
    <3>1. flag'[x] = flag[x] \/ flag'[x] = "off"
      BY DEF BatchInv, DataOK
    <3>2. BatchAt(x)
      BY DEF BatchInv
    <3> QED BY <3>1, <3>2 DEF BatchAt, RowAt, MemAt, ProgAt, ProcessAt, Sum
  <2>3. ASSUME NEW d \in Cancels PROVE CancelAt(d)'
    BY DEF BatchInv, DataOK, CancelAt, Sum
  <2> QED BY <2>1, <2>2, <2>3 DEF BatchInv
<1>3. CASE CancelWrites(c)
  <2> DEFINE b == target[c]
             p == got[c].prog
  <2> USE <1>3 DEF CancelWrites, Cancellable, runVars, history, process
  <2>1. b \in Batches /\ p \in Progress /\ CancelAt(c) /\ BatchAt(b)
    BY DEF BatchInv, DataOK
  <2>2. CancelRest(p) \in Progress
    BY <2>1, CancelRestMoves
  <2>3. DataOK'
    <3>1. cpc' \in [Cancels -> {"idle", "got", "update"}]
      BY DEF BatchInv, DataOK
    <3>2. status' = status \/ status' = [status EXCEPT ![b] = "CANCELLED"]
      OBVIOUS
    <3>3. prog' = prog \/ prog' = [prog EXCEPT ![b] = CancelRest(p)]
      OBVIOUS
    <3>4. status' \in [Batches -> Statuses]
      BY <3>2 DEF BatchInv, DataOK
    <3>5. prog' \in [Batches -> Progress]
      BY <2>2, <3>3 DEF BatchInv, DataOK
    <3> QED BY <3>1, <3>4, <3>5 DEF BatchInv, DataOK
  <2>4. ASSUME NEW x \in Batches \ {b} PROVE BatchAt(x)'
    <3>1. SameAt(x) /\ BatchAt(x)
      BY <2>4 DEF BatchInv, DataOK, SameAt
    <3> QED BY <3>1, SameKeepsBatch
  <2>5. BatchAt(b)'
    <3>1. CASE ~Cancellable(b)
      <4>1. SameAt(b)
        BY <3>1 DEF SameAt
      <4> QED BY <2>1, <4>1, SameKeepsBatch
    <3>2. CASE Cancellable(b)
      <4>1. status'[b] = "CANCELLED" /\ prog'[b] = CancelRest(p)
        BY <2>1, <3>2 DEF BatchInv, DataOK
      <4>2. Sum(p) = total[b] /\ p.sent <= delivered[b] /\ p.cancelled = 0
        BY <2>1 DEF CancelAt
      <4>3. Sum(prog'[b]) = total[b] /\ prog'[b].sent <= delivered[b] /\ prog'[b].pending = 0
        BY <2>1, <4>1, <4>2, CancelRestMoves DEF Sum, Progress
      <4> QED BY <2>1, <3>2, <4>1, <4>3 DEF BatchAt, RowAt, MemAt, ProgAt, ProcessAt, Sum, Unsaved, Unsent, Loop
    <3> QED BY <3>1, <3>2
  <2>6. ASSUME NEW d \in Cancels PROVE CancelAt(d)'
    BY DEF BatchInv, DataOK, CancelAt, Sum
  <2> QED BY <2>3, <2>4, <2>5, <2>6 DEF BatchInv
<1> QED BY <1>1, <1>2, <1>3

\* The process dies, or a step of its start.
LEMMA ProcessStepKeeps ==
  ASSUME BatchInv, Crash \/ FindOrphans \/ Started
  PROVE  BatchInv'
<1>1. CASE Crash
  <2> USE <1>1 DEF Crash, rowVars, history
  <2>1. DataOK'
    BY DEF BatchInv, DataOK, Pcs
  <2>2. ASSUME NEW x \in Batches PROVE BatchAt(x)'
    BY DEF BatchInv, DataOK, BatchAt, RowAt, MemAt, ProgAt, ProcessAt, Sum, Unsaved, Unsent, Loop, Reserved
  <2>3. ASSUME NEW d \in Cancels PROVE CancelAt(d)'
    BY DEF BatchInv, DataOK, CancelAt, Sum
  <2> QED BY <2>1, <2>2, <2>3 DEF BatchInv
<1>2. CASE FindOrphans
  <2> USE <1>2 DEF FindOrphans, Orphans, rowVars, cancelVars, history
  <2>1. DataOK'
    BY DEF BatchInv, DataOK
  <2>2. ASSUME NEW x \in Batches PROVE BatchAt(x)'
    BY DEF BatchInv, DataOK, BatchAt, RowAt, MemAt, ProgAt, ProcessAt, Sum, Unsaved, Unsent, Loop, Reserved
  <2>3. ASSUME NEW d \in Cancels PROVE CancelAt(d)'
    BY DEF BatchInv, DataOK, CancelAt, Sum
  <2> QED BY <2>1, <2>2, <2>3 DEF BatchInv
<1>3. CASE Started
  <2> USE <1>3 DEF Started, rowVars, runVars, cancelVars, history
  <2>1. DataOK'
    BY DEF BatchInv, DataOK
  <2>2. ASSUME NEW x \in Batches PROVE BatchAt(x)'
    BY DEF BatchInv, DataOK, BatchAt, RowAt, MemAt, ProgAt, ProcessAt, Sum
  <2>3. ASSUME NEW d \in Cancels PROVE CancelAt(d)'
    BY DEF BatchInv, DataOK, CancelAt, Sum
  <2> QED BY <2>1, <2>2, <2>3 DEF BatchInv
<1> QED BY <1>1, <1>2, <1>3

-----------------------------------------------------------------------------
(* The invariant, and what it gives *)

\* The invariant holds in every reachable state.
LEMMA BatchInvariant == Spec => []BatchInv
<1>1. Init => BatchInv
  <2> SUFFICES ASSUME Init PROVE BatchInv
    OBVIOUS
  <2>1. \A b \in Batches : total[b] \in Nat \ {0}
    BY BatchAssumption DEF Init
  <2>2. \A n \in Nat : Fresh(n) \in Progress /\ Sum(Fresh(n)) = n
    BY FreshAddsUp
  <2>3. DataOK
    BY <2>1, <2>2 DEF Init, DataOK, Statuses, Terminal, Pcs
  <2>4. ASSUME NEW b \in Batches PROVE BatchAt(b)
    BY <2>1, <2>2 DEF Init, BatchAt, RowAt, MemAt, ProgAt, ProcessAt, Unsaved, Unsent, Loop, Reserved, Fresh
  <2>5. ASSUME NEW c \in Cancels PROVE CancelAt(c)
    BY DEF Init, CancelAt
  <2> QED BY <2>3, <2>4, <2>5 DEF BatchInv
<1>2. BatchInv /\ [Next]_vars => BatchInv'
  <2> SUFFICES ASSUME BatchInv, [Next]_vars PROVE BatchInv'
    OBVIOUS
  <2>1. ASSUME NEW b \in Batches, Create(b) \/ RunStep(b) \/ FailOrphan(b) PROVE BatchInv'
    <3>1. DataOK' /\ BatchAt(b)' /\ OnlyAt(b)
      BY <2>1, RunStepKeeps DEF BatchInv
    <3>2. ASSUME NEW x \in Batches \ {b} PROVE BatchAt(x)'
      BY <3>1, <3>2, SameKeepsBatch DEF BatchInv, OnlyAt
    <3>3. ASSUME NEW c \in Cancels PROVE CancelAt(c)'
      BY <3>1, RunStepKeepsCancels DEF BatchInv
    <3> QED BY <3>1, <3>2, <3>3 DEF BatchInv
  <2>2. CASE UNCHANGED vars
    <3>1. DataOK'
      BY <2>2 DEF BatchInv, DataOK, vars
    <3>2. ASSUME NEW x \in Batches PROVE BatchAt(x)'
      BY <2>2, SameKeepsBatch DEF BatchInv, SameAt, vars
    <3>3. ASSUME NEW c \in Cancels PROVE CancelAt(c)'
      BY <2>2 DEF BatchInv, CancelAt, Sum, vars
    <3> QED BY <3>1, <3>2, <3>3 DEF BatchInv
  <2> QED BY <2>1, <2>2, CancelStepKeeps, ProcessStepKeeps DEF Next
<1> QED BY <1>1, <1>2, PTL DEF Spec

\* Whoever wrote a batch's row last, its counters add up to its messages and claim no message that
\* was not sent.
THEOREM BatchCountersAddUp == Spec => []CountersAddUp
<1>1. BatchInv => CountersAddUp
  BY DEF BatchInv, BatchAt, ProgAt, CountersAddUp, Sum
<1> QED BY <1>1, BatchInvariant, PTL

\* A terminal status is never changed, except by the unguarded save of a start that had found the
\* batch orphaned.
THEOREM BatchTerminalIsFinal == Spec => TerminalIsFinal
<1>1. BatchInv /\ [Next]_vars =>
        [\A b \in Batches : status[b] \in Terminal /\ b \notin orphans => status'[b] = status[b]]_vars
  <2> SUFFICES ASSUME BatchInv, Next, NEW x \in Batches, status[x] \in Terminal, x \notin orphans
               PROVE  status'[x] = status[x]
    OBVIOUS
  <2> USE DEF Terminal
  <2>1. ASSUME NEW b \in Batches, Create(b) \/ RunStep(b) \/ FailOrphan(b) PROVE status'[x] = status[x]
    <3>1. CASE b # x
      BY <2>1, <3>1, RunStepKeeps DEF BatchInv, OnlyAt, SameAt
    <3>2. CASE b = x
      <4>1. CASE UNCHANGED status
        BY <4>1
      <4>2. CASE Saved(x)
        BY <4>2 DEF Saved, BatchInv, BatchAt, RowAt, Unsaved
      <4>3. CASE Mark(x)
        BY <4>3 DEF Mark, NotCancelled, BatchInv, BatchAt, RowAt
      <4>4. CASE FailBatchWithoutEngine(x)
        BY <4>4 DEF FailBatchWithoutEngine, NotCancelled, BatchInv, BatchAt, RowAt
      <4>5. CASE FinalizeBatch(x)
        BY <4>5 DEF FinalizeBatch, NotCancelled, BatchInv, DataOK, BatchAt, RowAt
      <4>6. CASE FailOrphan(x)
        BY <4>6 DEF FailOrphan
      <4> QED
        BY <2>1, <3>2, <4>1, <4>2, <4>3, <4>4, <4>5, <4>6
        DEF Create, RunStep, Reserve, SaveFails, ReadRow, PickUp, Send, SaveProgress, Wake, Reread,
            Decide, RunThrows, rowVars
    <3> QED BY <3>1, <3>2
  <2>2. ASSUME NEW c \in Cancels, CancelWrites(c) PROVE status'[x] = status[x]
    BY <2>2 DEF CancelWrites, Cancellable, BatchInv, DataOK
  <2>3. CASE \E c \in Cancels, b \in Batches, here \in BOOLEAN : Cancel(c, b, here)
    BY <2>3 DEF Cancel, rowVars
  <2>4. CASE \E c \in Cancels : CancelSignals(c)
    BY <2>4 DEF CancelSignals, rowVars
  <2>5. CASE Crash \/ FindOrphans \/ Started
    BY <2>5 DEF Crash, FindOrphans, Started, rowVars
  <2> QED BY <2>1, <2>2, <2>3, <2>4, <2>5 DEF Next
<1> QED BY <1>1, BatchInvariant, PTL DEF Spec, TerminalIsFinal

-----------------------------------------------------------------------------
(* Slots *)

Active == {b \in Batches : pc[b] \in Reserved}

\* A batch enters the active ones with a slot and leaves them with it.
SlotMoves(b) ==
  \/ slots' = slots /\ (pc'[b] \in Reserved <=> pc[b] \in Reserved)
  \/ slots' = slots + 1 /\ ~Full /\ pc[b] \notin Reserved /\ pc'[b] \in Reserved
  \/ slots' = slots - 1 /\ pc[b] \in Reserved /\ pc'[b] \notin Reserved

LEMMA RunStepMovesSlot ==
  ASSUME DataOK, NEW b \in Batches, Create(b) \/ RunStep(b) \/ FailOrphan(b)
  PROVE  SlotMoves(b)
<1> USE DEF DataOK, SlotMoves, Reserved, Leave, Release, Goto
<1>1. CASE Create(b)
  BY <1>1 DEF Create
<1>2. CASE Reserve(b)
  BY <1>2 DEF Reserve
<1>3. CASE Saved(b)
  BY <1>3 DEF Saved
<1>4. CASE SaveFails(b)
  BY <1>4 DEF SaveFails
<1>5. CASE ReadRow(b)
  BY <1>5 DEF ReadRow
<1>6. CASE PickUp(b)
  BY <1>6 DEF PickUp
<1>7. CASE Mark(b)
  BY <1>7 DEF Mark, NextMessage
<1>8. CASE FailBatchWithoutEngine(b)
  BY <1>8 DEF FailBatchWithoutEngine
<1>9. CASE Send(b)
  BY <1>9 DEF Send, AfterMessage
<1>10. CASE SaveProgress(b)
  BY <1>10 DEF SaveProgress, AfterMessage
<1>11. CASE Wake(b)
  BY <1>11 DEF Wake, NextMessage
<1>12. CASE Reread(b)
  BY <1>12 DEF Reread
<1>13. CASE Decide(b)
  BY <1>13 DEF Decide
<1>14. CASE FinalizeBatch(b)
  BY <1>14 DEF FinalizeBatch
<1>15. CASE RunThrows(b)
  BY <1>15 DEF RunThrows
<1>16. CASE FailOrphan(b)
  BY <1>16 DEF FailOrphan, runVars
<1> QED BY <1>1, <1>2, <1>3, <1>4, <1>5, <1>6, <1>7, <1>8, <1>9, <1>10, <1>11, <1>12, <1>13, <1>14, <1>15, <1>16 DEF RunStep

\* The slots in use are the runs that hold one, and the cap bounds them.
LEMMA SlotMoveKeepsMatch ==
  ASSUME DataOK, SlotsMatch, NEW b \in Batches, SlotMoves(b),
         \A x \in Batches \ {b} : pc'[x] = pc[x]
  PROVE  SlotsMatch'
<1>1. IsFiniteSet(Active) /\ slots = Cardinality(Active) /\ Cardinality(Active) \in Nat
  BY BatchAssumption, FS_Subset, FS_CardinalityType DEF Active, SlotsMatch
<1>2. CASE slots' = slots /\ (pc'[b] \in Reserved <=> pc[b] \in Reserved)
  <2>1. Active' = Active
    BY <1>2 DEF Active
  <2> QED BY <1>2, <2>1 DEF Active, SlotsMatch
<1>3. CASE slots' = slots + 1 /\ ~Full /\ pc[b] \notin Reserved /\ pc'[b] \in Reserved
  <2>1. Active' = Active \cup {b} /\ b \notin Active
    BY <1>3 DEF Active
  <2>2. Cardinality(Active') = slots + 1
    BY <1>1, <2>1, FS_AddElement
  <2>3. MaxBatches > 0 => slots' <= MaxBatches
    BY <1>1, <1>3, BatchAssumption DEF Full
  <2> QED BY <1>3, <2>2, <2>3 DEF Active, SlotsMatch
<1>4. CASE slots' = slots - 1 /\ pc[b] \in Reserved /\ pc'[b] \notin Reserved
  <2>1. Active' = Active \ {b} /\ b \in Active
    BY <1>4 DEF Active
  <2>2. Cardinality(Active') = slots - 1
    BY <1>1, <2>1, FS_RemoveElement
  <2>3. MaxBatches > 0 => slots' <= MaxBatches
    BY <1>1, <1>4, BatchAssumption DEF SlotsMatch
  <2> QED BY <1>4, <2>2, <2>3 DEF Active, SlotsMatch
<1> QED BY <1>2, <1>3, <1>4 DEF SlotMoves

\* Every exit of createBatch and of a run frees its slot exactly once, and the cap is never exceeded,
\* for any number of batches.
THEOREM BatchSlotsMatch == Spec => []SlotsMatch
<1>1. Init => SlotsMatch
  <2> SUFFICES ASSUME Init PROVE SlotsMatch
    OBVIOUS
  <2>1. Active = {}
    BY DEF Init, Active, Reserved
  <2>2. slots = 0 /\ Cardinality(Active) = 0
    BY <2>1, FS_EmptySet DEF Init
  <2> QED BY <2>2, BatchAssumption DEF Active, SlotsMatch
<1>2. BatchInv /\ SlotsMatch /\ [Next]_vars => SlotsMatch'
  <2> SUFFICES ASSUME BatchInv, SlotsMatch, [Next]_vars PROVE SlotsMatch'
    OBVIOUS
  <2>1. ASSUME NEW b \in Batches, Create(b) \/ RunStep(b) \/ FailOrphan(b) PROVE SlotsMatch'
    <3>1. SlotMoves(b)
      BY <2>1, RunStepMovesSlot DEF BatchInv
    <3>2. \A x \in Batches \ {b} : pc'[x] = pc[x]
      BY <2>1, RunStepKeeps DEF BatchInv, OnlyAt, SameAt
    <3> QED BY <3>1, <3>2, SlotMoveKeepsMatch DEF BatchInv
  <2>2. CASE UNCHANGED <<pc, slots>>
    BY <2>2 DEF SlotsMatch
  <2>3. CASE Crash
    <3>1. Active' = {} /\ slots' = 0
      BY <2>3 DEF Crash, Active, Reserved
    <3> QED BY <3>1, FS_EmptySet, BatchAssumption DEF Active, SlotsMatch
  <2>4. CASE FindOrphans \/ Started \/ (\E c \in Cancels : CancelSignals(c) \/ CancelWrites(c))
             \/ (\E c \in Cancels, b \in Batches, here \in BOOLEAN : Cancel(c, b, here))
    BY <2>2, <2>4 DEF FindOrphans, Started, CancelSignals, CancelWrites, Cancel, runVars
  <2> QED BY <2>1, <2>2, <2>3, <2>4 DEF Next, vars
<1> QED BY <1>1, <1>2, BatchInvariant, PTL DEF Spec

\* Every variable keeps its type.
THEOREM BatchTypes == Spec => []TypeOK
<1>1. BatchInv /\ SlotsMatch => TypeOK
  <2> SUFFICES ASSUME BatchInv, SlotsMatch PROVE TypeOK
    OBVIOUS
  <2>1. IsFiniteSet(Active) /\ slots = Cardinality(Active)
    BY BatchAssumption, FS_Subset DEF Active, SlotsMatch
  <2> QED BY <2>1, FS_CardinalityType DEF BatchInv, TypeOK
<1> QED BY <1>1, BatchInvariant, BatchSlotsMatch, PTL

-----------------------------------------------------------------------------
(* Sends after a cancel.  The run sees a foreign cancel when it saves its  *)
(* progress, after each message whose index is a multiple of SaveEvery.    *)

\* How many sends may have begun since the row was cancelled when that of message i has begun.
Allowed(i) == IF i % SaveEvery = 0 THEN SaveEvery ELSE i % SaveEvery

\* The index of the message a run sends, or sends next.
Index(b) == mem[b].sent + mem[b].failed

LateAt(b) ==
  /\ late[b] <= SaveEvery
  /\ pc[b] \in Unsent \/ (pc[b] \in Reserved /\ status[b] # "CANCELLED") => late[b] = 0
  /\ pc[b] = "send" => late[b] <= Allowed(Index(b))
  /\ pc[b] = "sleep" => late[b] < Allowed(Index(b))

\* Remainders by SaveEvery and quotients, and how they determine a number.
LEMMA Remainder ==
  /\ \A i \in Nat : /\ i % SaveEvery \in 0 .. SaveEvery - 1 /\ i \div SaveEvery \in Nat
                    /\ i = SaveEvery * (i \div SaveEvery) + (i % SaveEvery)
  /\ \A q, r \in Nat : r < SaveEvery => (SaveEvery * q + r) % SaveEvery = r
  /\ \A q \in Nat : SaveEvery * q + SaveEvery = SaveEvery * (q + 1)
BY BatchAssumption

\* Unless message i is one after which the progress is saved, the next one has a place more.
LEMMA AllowedGrows ==
  ASSUME NEW i \in Nat
  PROVE  /\ Allowed(i) \in 1 .. SaveEvery
         /\ i % SaveEvery # 0 => Allowed(i) < Allowed(i + 1)
<1> DEFINE q == i \div SaveEvery
           r == i % SaveEvery
<1>1. r \in 0 .. SaveEvery - 1 /\ q \in Nat /\ i = SaveEvery * q + r /\ SaveEvery * q \in Nat
  BY Remainder, BatchAssumption
<1>2. CASE r = SaveEvery - 1
  <2>1. i + 1 = SaveEvery * (q + 1) + 0 /\ q + 1 \in Nat /\ 0 < SaveEvery
    <3>1. i + 1 = SaveEvery * q + SaveEvery /\ SaveEvery * (q + 1) \in Nat
      BY <1>1, <1>2, BatchAssumption
    <3> HIDE DEF q
    <3> QED BY <1>1, <3>1, Remainder, BatchAssumption
  <2>2. (i + 1) % SaveEvery = 0
    <3> HIDE DEF q
    <3> QED BY <2>1, Remainder
  <2> QED BY <1>1, <1>2, <2>2, BatchAssumption DEF Allowed
<1>3. CASE r # SaveEvery - 1
  <2>1. i + 1 = SaveEvery * q + (r + 1) /\ r + 1 \in Nat /\ r + 1 < SaveEvery
    BY <1>1, <1>3, BatchAssumption
  <2>2. (i + 1) % SaveEvery = r + 1
    <3> HIDE DEF q, r
    <3> QED BY <1>1, <2>1, Remainder
  <2> QED BY <1>1, <2>2, BatchAssumption DEF Allowed
<1> QED BY <1>2, <1>3

\* A step of a run keeps its batch's part of the invariant.
LEMMA RunStepKeepsLate ==
  ASSUME DataOK, NEW b \in Batches, BatchAt(b), LateAt(b), Create(b) \/ RunStep(b) \/ FailOrphan(b)
  PROVE  LateAt(b)'
<1> USE DEF DataOK, LateAt, Goto, Unsent, Unsaved, Reserved
<1>1. Index(b) \in Nat /\ late[b] \in Nat /\ SaveEvery \in Nat \ {0}
  BY BatchAssumption DEF Progress, Index
<1>2. Allowed(Index(b)) \in 1 .. SaveEvery
  BY <1>1, AllowedGrows
<1>3. ASSUME UNCHANGED <<late, mem, status>>, pc' = pc \/ (\E l \in Pcs \ {"send", "sleep"} : Goto(b, l)),
             pc[b] \in Unsent \/ (pc[b] \in Reserved /\ pc'[b] \notin Unsent)
      PROVE  LateAt(b)'
  BY <1>3 DEF Allowed, Index
<1>4. CASE Create(b) \/ Reserve(b) \/ SaveFails(b) \/ ReadRow(b) \/ PickUp(b) \/ Reread(b) \/ RunThrows(b)
  BY <1>3, <1>4 DEF Create, Reserve, SaveFails, ReadRow, PickUp, Leave, Reread, RunThrows, Pcs,
                    rowVars, history
<1>5. CASE Saved(b)
  BY <1>5 DEF Saved, history
<1>6. CASE Mark(b)
  BY <1>1, <1>2, <1>6 DEF Mark, NextMessage, Leave, Allowed, Index
<1>7. CASE FailBatchWithoutEngine(b)
  BY <1>7 DEF FailBatchWithoutEngine, Leave, history
<1>8. CASE Send(b)
  <2>1. pc[b] = "send" /\ UNCHANGED <<late, status>>
        /\ Index(b)' = Index(b) + 1
        /\ (\E l \in {"progress", "sleep", "reread"} : Goto(b, l))
        /\ (pc'[b] = "sleep" => Index(b) % SaveEvery # 0)
    BY <1>8 DEF Send, AfterMessage, Index, Progress, rowVars
  <2>2. pc'[b] = "sleep" => Allowed(Index(b)) < Allowed(Index(b) + 1)
    BY <1>1, <2>1, AllowedGrows
  <2>3. Allowed(Index(b))' = Allowed(Index(b) + 1) /\ Allowed(Index(b) + 1) \in 1 .. SaveEvery
    BY <1>1, <2>1, AllowedGrows DEF Allowed
  <2> QED BY <1>1, <1>2, <2>1, <2>2, <2>3
<1>9. CASE SaveProgress(b)
  <2>1. pc[b] = "progress" /\ UNCHANGED <<late, status>>
    BY <1>9 DEF SaveProgress, history
  <2>2. CASE NotCancelled(b)
    <3>1. late[b] = 0 /\ mem' = mem /\ (\E l \in {"sleep", "reread"} : Goto(b, l))
      BY <1>9, <2>1, <2>2 DEF SaveProgress, AfterMessage, NotCancelled
    <3>2. Allowed(Index(b))' = Allowed(Index(b))
      BY <3>1 DEF Allowed, Index
    <3> QED BY <1>1, <1>2, <2>1, <3>1, <3>2
  <2>3. CASE ~NotCancelled(b)
    BY <1>9, <2>1, <2>3 DEF SaveProgress, NotCancelled
  <2> QED BY <2>2, <2>3
<1>10. CASE Wake(b)
  <2>1. pc[b] = "sleep" /\ UNCHANGED <<mem, status>> /\ Allowed(Index(b))' = Allowed(Index(b))
    BY <1>10 DEF Wake, Allowed, Index
  <2> QED BY <1>1, <1>2, <1>10, <2>1 DEF Wake, NextMessage
<1>11. CASE Decide(b)
  BY <1>11 DEF Decide, rowVars, history
<1>12. CASE FinalizeBatch(b)
  BY <1>12 DEF FinalizeBatch, Leave, history
<1>13. CASE FailOrphan(b)
  BY <1>13 DEF FailOrphan, runVars, history, BatchAt, ProcessAt
<1> QED
  BY <1>4, <1>5, <1>6, <1>7, <1>8, <1>9, <1>10, <1>11, <1>12, <1>13 DEF RunStep

\* A batch that a step leaves alone, or only cancels, keeps it.
LEMMA CancelKeepsLate ==
  ASSUME NEW x \in Batches, LateAt(x), UNCHANGED <<mem[x], pc[x], late[x]>>,
         status'[x] = status[x] \/ status'[x] = "CANCELLED"
  PROVE  LateAt(x)'
BY DEF LateAt, Allowed, Index

\* After a cancel committed, by whichever process, at most SaveEvery more messages begin, for
\* every save interval, however many the batch has, and across crashes.
THEOREM BatchLateSends == Spec => []LateSends
<1> DEFINE LateInv == \A b \in Batches : LateAt(b)
<1>1. Init => LateInv
  BY BatchAssumption DEF Init, LateAt, Unsent, Unsaved
<1>2. BatchInv /\ LateInv /\ [Next]_vars => LateInv'
  <2> SUFFICES ASSUME BatchInv, LateInv, [Next]_vars, NEW x \in Batches PROVE LateAt(x)'
    OBVIOUS
  <2>1. ASSUME NEW b \in Batches, Create(b) \/ RunStep(b) \/ FailOrphan(b) PROVE LateAt(x)'
    <3>1. CASE x = b
      BY <2>1, <3>1, RunStepKeepsLate DEF BatchInv
    <3>2. CASE x # b
      <4>1. SameAt(x)
        BY <2>1, <3>2, RunStepKeeps DEF BatchInv, OnlyAt
      <4>2. late'[x] = late[x]
        BY <2>1, <3>2 DEF BatchInv, DataOK, Create, RunStep, Reserve, Saved, SaveFails, ReadRow, PickUp, Mark,
             NextMessage, FailBatchWithoutEngine, Send, SaveProgress, Wake, Reread, Decide,
             FinalizeBatch, RunThrows, FailOrphan, history
      <4> QED BY <4>1, <4>2, CancelKeepsLate DEF SameAt
    <3> QED BY <3>1, <3>2
  <2>2. ASSUME NEW c \in Cancels, CancelWrites(c) PROVE LateAt(x)'
    BY <2>2, CancelKeepsLate DEF CancelWrites, runVars, history, BatchInv, DataOK
  <2>3. CASE Crash
    <3>1. pc'[x] = (IF status[x] = "absent" THEN "none" ELSE "done") /\ UNCHANGED <<late, mem, status>>
      BY <2>3 DEF Crash, rowVars, history
    <3>2. status[x] = "absent" => pc[x] \in Unsaved
      BY DEF BatchInv, BatchAt, RowAt
    <3> QED BY <3>1, <3>2 DEF LateAt, Unsent, Unsaved, Reserved
  <2>4. CASE FindOrphans
    <3>1. UNCHANGED <<pc, status, late>> /\ pc[x] \in {"none", "done"}
      BY <2>4 DEF FindOrphans, rowVars, history, BatchInv, BatchAt, ProcessAt
    <3> QED BY <3>1 DEF LateAt
  <2>5. CASE UNCHANGED <<mem, pc, late, status>>
    BY <2>5, CancelKeepsLate
  <2>6. CASE \/ Started \/ (\E c \in Cancels : CancelSignals(c))
             \/ (\E c \in Cancels, b \in Batches, here \in BOOLEAN : Cancel(c, b, here))
    BY <2>5, <2>6 DEF Started, CancelSignals, Cancel, rowVars, runVars, history
  <2> QED BY <2>1, <2>2, <2>3, <2>4, <2>5, <2>6 DEF Next, vars
<1>3. LateInv => LateSends
  BY DEF LateSends, LateAt
<1> QED BY <1>1, <1>2, <1>3, BatchInvariant, PTL DEF Spec
=============================================================================
