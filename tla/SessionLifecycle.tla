--------------------------- MODULE SessionLifecycle ---------------------------
(***************************************************************************)
(* The session lifecycle of the OpenWA gateway (src/temp_openwa/src):      *)
(* who may build, launch, tear down and register the engine of a session,  *)
(* and which status the session's row ends up with.                        *)
(*                                                                         *)
(* The program is one Node process.  A call runs without interruption up   *)
(* to its next await on something unsettled; there it yields, and its      *)
(* continuation runs before any new macrotask once that something settles. *)
(* So every action here is the code between two awaits, `pc' names the     *)
(* await a call is suspended at, and Quiet makes a continuation whose      *)
(* promise is settled (Ready) run before the next request, timer, engine   *)
(* event or completed I/O.  An await of something private to the call (a   *)
(* row read, a hook, a row write) completes in the action that continues.  *)
(***************************************************************************)
EXTENDS Naturals, Sequences, FiniteSets

CONSTANTS
  Ids,          \* session ids (row keys)
  NameOf,       \* the name of each id: the key of its auth directory on disk
  Clients,      \* slots for HTTP requests in flight
  Tasks,        \* slots for disconnect handlers and reconnect attempts in flight
  Engines,      \* engine objects; a dead unreferenced one stands for a new one
  NoEngine, NoProc, NoId,
  Verbs,        \* the control verbs the clients of this instance issue
  Faults,       \* the failures of this instance
  MaxAttempts,  \* reconnect budget of session.config (maxReconnectAttempts)
  MaxSessions,  \* MAX_CONCURRENT_SESSIONS
  MaxWrites,    \* bound: requests and engine events pause while an id has this many writes in flight
  Ordered       \* TRUE: row writes land in order (SQLite); FALSE: in any order (Postgres pool)

Procs == Clients \cup Tasks
RetireVerbs == {"stop", "logout", "forceKill", "delete"}
AllVerbs == RetireVerbs \cup {"start"}
AllFaults == {"lost", "unlinked", "engineError", "initError", "dbError", "initTimeout",
              "teardownTimeout", "fenceTimeout", "statusTimeout"}

ASSUME ConstantsAssumption ==
  /\ Ids # {} /\ NoId \notin Ids
  /\ DOMAIN NameOf = Ids
  /\ Clients \cap Tasks = {} /\ NoProc \notin Procs
  /\ NoEngine \notin Engines
  /\ Verbs \subseteq AllVerbs /\ Faults \subseteq AllFaults
  /\ MaxAttempts \in Nat /\ MaxSessions \in Nat /\ MaxWrites \in Nat
  /\ Ordered \in BOOLEAN

VARIABLES
  row,          \* the session's row: "absent", "present", "deleted"
  status,       \* its status column
  phone,        \* is its phone column set (boot auto-start reads it)?
  inflight,     \* row writes issued and not yet landed, with the call awaiting each
  reg,          \* EngineRegistry.engines
  initializing, \* EngineRegistry.initializing
  stopping,     \* stoppingSessions
  rstate,       \* reconnectStates: "absent", "idle" (no timer), "armed"
  attempts,     \* reconnectStates[id].attempts
  pendInit,     \* pendingInitialStatuses[id].engine
  tracked,      \* engines whose removal of credentials pendingTeardowns holds
  owner,        \* the id each engine was built for
  phase,        \* what each engine is doing
  disk,         \* names whose auth directory holds credentials
  pc, verb, sid, \* each call: the await it is at, what it is, its session
  cap,          \* the engine it captured
  snap          \* the pending teardowns it captured at a fence

vars == <<row, status, phone, inflight, reg, initializing, stopping, rstate, attempts,
          pendInit, tracked, owner, phase, disk, pc, verb, sid, cap, snap>>
rowVars == <<row, status, phone>>
callVars == <<verb, sid>>
engineVars == <<tracked, owner, phase, disk>>
budget == <<rstate, attempts>>

Statuses == {"CREATED", "INITIALIZING", "READY", "DISCONNECTED", "FAILED"}
Phases == {"built", "launching", "open", "ready", "lost", "closing", "closed"}
Running == {"launching", "open", "ready", "lost"}
TeardownPcs == {"i_td", "s_catch", "undo", "r_td", "c_td"}
FencePcs == {"s_fence", "d_fence1", "d_fence2", "c_fence"}
Pcs == TeardownPcs \cup FencePcs \cup
       {"idle", "s_read", "s_hook", "s_failed", "s_reply", "i_write", "i_run", "i_dw", "inited", "threw", "check", "purge",
        "wipe", "r_read", "r_init", "r_dw", "r_phone", "d_hook", "d_tx", "d_purge", "d_dw", "l_read"}

\* A row write in flight: the status it sets (or "NO_PHONE", which clears the phone) and the call
\* awaiting it.
Writes == [st : Statuses \cup {"NO_PHONE"}, by : Procs \cup {NoProc}]

RowsOK ==
  /\ row \in [Ids -> {"absent", "present", "deleted"}]
  /\ status \in [Ids -> Statuses]
  /\ phone \in [Ids -> BOOLEAN]
  /\ inflight \in [Ids -> Seq(Writes)]
RegistryOK ==
  /\ reg \in [Ids -> Engines \cup {NoEngine}]
  /\ initializing \subseteq Ids /\ stopping \subseteq Ids
  /\ rstate \in [Ids -> {"absent", "idle", "armed"}]
  /\ attempts \in [Ids -> 0..MaxAttempts]
  /\ pendInit \in [Ids -> Engines \cup {NoEngine}]
EnginesOK ==
  /\ tracked \subseteq Engines
  /\ owner \in [Engines -> Ids \cup {NoId}]
  /\ phase \in [Engines -> Phases]
  /\ disk \subseteq {NameOf[i] : i \in Ids}
CallsOK ==
  /\ pc \in [Procs -> Pcs]
  /\ verb \in [Procs -> AllVerbs \cup {"none", "lost", "reconnect"}]
  /\ sid \in [Procs -> Ids \cup {NoId}]
  /\ cap \in [Procs -> Engines \cup {NoEngine}]
  /\ snap \in [Procs -> SUBSET Engines]
TypeOK == RowsOK /\ RegistryOK /\ EnginesOK /\ CallsOK

Init ==
  /\ row = [i \in Ids |-> "absent"]
  /\ status = [i \in Ids |-> "CREATED"]
  /\ phone = [i \in Ids |-> FALSE]
  /\ inflight = [i \in Ids |-> <<>>]
  /\ reg = [i \in Ids |-> NoEngine]
  /\ initializing = {} /\ stopping = {}
  /\ rstate = [i \in Ids |-> "absent"]
  /\ attempts = [i \in Ids |-> 0]
  /\ pendInit = [i \in Ids |-> NoEngine]
  /\ tracked = {}
  /\ owner = [n \in Engines |-> NoId]
  /\ phase = [n \in Engines |-> "closed"]
  /\ disk = {}
  /\ pc = [p \in Procs |-> "idle"]
  /\ verb = [p \in Procs |-> "none"]
  /\ sid = [p \in Procs |-> NoId]
  /\ cap = [p \in Procs |-> NoEngine]
  /\ snap = [p \in Procs |-> {}]

-----------------------------------------------------------------------------
(* The event loop and the parts the calls are built from. *)

Live(n) == owner[n] \in Ids /\ reg[owner[n]] = n
Pending(i) == {n \in tracked : NameOf[owner[n]] = NameOf[i]}

\* The removals a fence captures when a call enters it: those of its session's name.
FenceUnset(i) == {}
Captured(i) == Pending(i)

\* Teardown of n has completed; a logout also waits for the removal of the profile.
TornDown(p) == phase[cap[p]] = "closed" /\ (verb[p] = "logout" => cap[p] \notin tracked)

Ready(p) ==
  \/ pc[p] \in TeardownPcs /\ TornDown(p)
  \/ pc[p] \in FencePcs /\ snap[p] \cap tracked = {}
  \/ pc[p] \in {"inited", "threw"}
  \/ pc[p] = "r_init" /\ \A q \in Procs : pc[q] = "i_write" => cap[q] # cap[p]
Quiet == \A p \in Procs : ~Ready(p)

At(p, l) == pc[p] = l /\ Quiet          \* p continues with a macrotask
Resumes(p, l, fault) == pc[p] = l /\ (Ready(p) \/ (Quiet /\ fault \in Faults))
Goto(p, l) == pc' = [pc EXCEPT ![p] = l]

End(p) ==
  /\ pc' = [pc EXCEPT ![p] = "idle"]
  /\ verb' = [verb EXCEPT ![p] = "none"]
  /\ sid' = [sid EXCEPT ![p] = NoId]
  /\ cap' = [cap EXCEPT ![p] = NoEngine]
  /\ snap' = [snap EXCEPT ![p] = {}]
  /\ initializing' = IF verb[p] = "start" THEN initializing \ {sid[p]} ELSE initializing

\* engines.delete(id) and engines.deleteIfLive(id, n)
Evict(i) == reg' = [reg EXCEPT ![i] = NoEngine]
DeleteAny(i, n) == Evict(i)
DeleteIfLive(i, n) == reg' = IF reg[i] = n THEN [reg EXCEPT ![i] = NoEngine] ELSE reg

CancelReconnect(i) ==
  /\ rstate' = [rstate EXCEPT ![i] = "absent"]
  /\ attempts' = [attempts EXCEPT ![i] = 0]

\* A row write is issued by call p, or by nobody who waits for it.
Write(st, p) == [st |-> st, by |-> p]
Issue(i, ws) == inflight' = [inflight EXCEPT ![i] = @ \o ws]

CanLand(i, k) == k \in DOMAIN inflight[i] /\ (Ordered => k = 1)
Land(i, k) ==
  LET st == inflight[i][k].st IN
  /\ status' = IF row[i] = "present" /\ st # "NO_PHONE" THEN [status EXCEPT ![i] = st] ELSE status
  /\ phone' = IF row[i] = "present" /\ st \in {"READY", "NO_PHONE"}
              THEN [phone EXCEPT ![i] = (st = "READY")] ELSE phone
Without(s, k) == SubSeq(s, 1, k - 1) \o SubSeq(s, k + 1, Len(s))
\* p's own write lands; what p issues next is ws.
LandOwn(p, ws) ==
  \E k \in DOMAIN inflight[sid[p]] :
    /\ CanLand(sid[p], k) /\ inflight[sid[p]][k].by = p
    /\ Land(sid[p], k) /\ UNCHANGED row
    /\ inflight' = [inflight EXCEPT ![sid[p]] = Without(@, k) \o ws]

\* Any teardown verb of an engine: one that holds no client completes at once.
Close(n) == phase' = [phase EXCEPT ![n] = IF @ \in {"built", "closed"} THEN "closed" ELSE "closing"]
\* The adapter reports DISCONNECTED as its teardown begins, if it is still the live engine.
ClosingNotice(n) ==
  IF Live(n) /\ phase[n] \in {"launching", "open", "ready"} THEN <<Write("DISCONNECTED", NoProc)>> ELSE <<>>

\* An engine object that nothing refers to any more.
Free(n) ==
  /\ phase[n] = "closed" /\ n \notin tracked
  /\ \A i \in Ids : reg[i] # n /\ pendInit[i] # n
  /\ \A p \in Procs : cap[p] # n /\ n \notin snap[p]
\* Bound: requests and engine events pause while the session has MaxWrites writes in flight.
Calm(i) == Len(inflight[i]) < MaxWrites
\* Bound: a call that will build an engine begins only while a free object is left for it.
Room == Cardinality({n \in Engines : Free(n)}) > Cardinality({p \in Procs : verb[p] \in {"start", "reconnect"}})

-----------------------------------------------------------------------------
(* SessionService.create: the pre-check and the UNIQUE index on the name. *)

Create(i) ==
  /\ Quiet /\ row[i] = "absent"
  /\ \A j \in Ids : row[j] = "present" => NameOf[j] # NameOf[i]
  /\ row' = [row EXCEPT ![i] = "present"]
  /\ UNCHANGED <<status, phone, inflight, reg, initializing, stopping, budget, pendInit,
                 engineVars, pc, callVars, cap, snap>>

-----------------------------------------------------------------------------
(* initializeEngine, shared by start and executeReconnect. *)

\* Up to the await of the INITIALIZING write: build, register, issue the write, fence it.
InitializeEngine(p) ==
  LET i == sid[p] IN
  \E n \in Engines :
    /\ Free(n)
    /\ owner' = [owner EXCEPT ![n] = i]
    /\ phase' = [phase EXCEPT ![n] = "built"]
    /\ reg' = [reg EXCEPT ![i] = n]
    /\ pendInit' = [pendInit EXCEPT ![i] = n]
    /\ Issue(i, <<Write("INITIALIZING", p)>>)
    /\ cap' = [cap EXCEPT ![p] = n]
    /\ snap' = [snap EXCEPT ![p] = {}]
    /\ Goto(p, "i_write")

ForgetInitialStatus(p) ==
  pendInit' = [pendInit EXCEPT ![sid[p]] = IF @ = cap[p] THEN NoEngine ELSE @]

MayLaunch(i, n) == Live(n) /\ i \notin stopping

\* The INITIALIZING write landed: launch only an engine that is live and not being stopped.
InitWritten(p) ==
  LET i == sid[p] IN
  /\ At(p, "i_write")
  /\ ForgetInitialStatus(p)
  /\ IF MayLaunch(i, cap[p])
     THEN /\ LandOwn(p, <<Write("INITIALIZING", NoProc)>>)    \* the adapter's own state change
          /\ phase' = [phase EXCEPT ![cap[p]] = "launching"]
          /\ disk' = disk \cup {NameOf[i]}
          /\ Goto(p, "i_run")
     ELSE LandOwn(p, <<>>) /\ Goto(p, "inited") /\ UNCHANGED <<phase, disk>>
  /\ UNCHANGED <<reg, initializing, stopping, budget, tracked, owner, callVars, cap, snap>>

InitWriteFails(p) ==
  /\ At(p, "i_write") /\ "dbError" \in Faults
  /\ ForgetInitialStatus(p)
  /\ \E k \in DOMAIN inflight[sid[p]] :
       /\ inflight[sid[p]][k].by = p
       /\ inflight' = [inflight EXCEPT ![sid[p]] = Without(@, k)]
  /\ Goto(p, "threw")
  /\ UNCHANGED <<rowVars, reg, initializing, stopping, budget, engineVars, callVars, cap, snap>>

\* engine.initialize() resolves; under a teardown it resolves quietly.
InitResolves(p) ==
  /\ At(p, "i_run")
  /\ phase' = [phase EXCEPT ![cap[p]] = IF @ = "launching" THEN "open" ELSE @]
  /\ Goto(p, "inited")
  /\ UNCHANGED <<rowVars, inflight, reg, initializing, stopping, budget, pendInit, tracked,
                 owner, disk, callVars, cap, snap>>

\* It rejects: the adapter reports FAILED and onError first, which only a live engine may act on.
OnError(n) ==
  LET i == owner[n] IN
  IF Live(n)
  THEN CancelReconnect(i) /\ Issue(i, <<Write("FAILED", NoProc)>>) /\ Evict(i) /\ Close(n)
  ELSE UNCHANGED <<budget, inflight, reg, phase>>

InitRejects(p) ==
  /\ At(p, "i_run") /\ "initError" \in Faults
  /\ OnError(cap[p])
  /\ Goto(p, "threw")
  /\ UNCHANGED <<rowVars, initializing, stopping, pendInit, tracked, owner, disk, callVars, cap, snap>>

\* Its deadline passes: engines.delete(id), forceDestroy, a DISCONNECTED write, throw.
NoDeadline(p) == FALSE
InitDeadline(p) ==
  /\ At(p, "i_run") /\ "initTimeout" \in Faults
  /\ Evict(sid[p]) /\ Close(cap[p])
  /\ Goto(p, "i_td")
  /\ UNCHANGED <<rowVars, inflight, initializing, stopping, budget, pendInit, tracked, owner,
                 disk, callVars, cap, snap>>

InitReaped(p) ==
  /\ Resumes(p, "i_td", "teardownTimeout")
  /\ Issue(sid[p], <<Write("DISCONNECTED", p)>>)
  /\ Goto(p, "i_dw")
  /\ UNCHANGED <<rowVars, reg, initializing, stopping, budget, pendInit, engineVars, callVars, cap, snap>>

InitGaveUp(p) ==
  /\ At(p, "i_dw")
  /\ LandOwn(p, <<>>) /\ Goto(p, "threw")
  /\ UNCHANGED <<reg, initializing, stopping, budget, pendInit, engineVars, callVars, cap, snap>>

\* initializeEngine returned: isSessionRetired sees the stop mark, or goes to read the row.
Undo(p) ==
  LET n == reg[sid[p]] IN
  /\ cap' = [cap EXCEPT ![p] = n]
  /\ IF n = NoEngine
     THEN Goto(p, "purge") /\ UNCHANGED <<phase, inflight>>
     ELSE Goto(p, "undo") /\ Close(n) /\ Issue(sid[p], ClosingNotice(n))

Initialized(p) ==
  /\ pc[p] = "inited"
  /\ IF sid[p] \in stopping THEN Undo(p)
                            ELSE Goto(p, "check") /\ UNCHANGED <<cap, phase, inflight>>
  /\ UNCHANGED <<rowVars, reg, initializing, stopping, budget, pendInit, tracked, owner, disk,
                 callVars, snap>>

StillThereUnchecked(i) == TRUE
StillThere(i) == row[i] = "present"

\* executeReconnect is done; start still reads its row for the reply.
Finish(p) ==
  IF verb[p] = "start"
  THEN Goto(p, "s_reply") /\ UNCHANGED <<initializing, callVars, cap, snap>>
  ELSE End(p)

CheckRetired(p) ==
  /\ At(p, "check")
  /\ IF StillThere(sid[p])
     THEN Finish(p) /\ UNCHANGED <<phase, inflight>>
     ELSE Undo(p) /\ UNCHANGED <<initializing, callVars, snap>>
  /\ UNCHANGED <<rowVars, reg, stopping, budget, pendInit, tracked, owner, disk>>

Undone(p) ==
  /\ Resumes(p, "undo", "teardownTimeout")
  /\ DeleteIfLive(sid[p], cap[p])
  /\ Goto(p, "purge")
  /\ UNCHANGED <<rowVars, inflight, initializing, stopping, budget, pendInit, engineVars,
                 callVars, cap, snap>>

\* purgeAuthDirsIfDeleted: neither the row nor a new owner of the name exists, so wipe.
NameTaken(i) == \E j \in Ids : row[j] = "present" /\ NameOf[j] = NameOf[i]
PurgeCheck(p) ==
  /\ At(p, "purge")
  /\ IF NameTaken(sid[p])
     THEN Finish(p)
     ELSE Goto(p, "wipe") /\ UNCHANGED <<initializing, callVars, cap, snap>>
  /\ UNCHANGED <<rowVars, inflight, reg, stopping, budget, pendInit, engineVars>>

Wipe(p) ==
  /\ At(p, "wipe")
  /\ disk' = disk \ {NameOf[sid[p]]}
  /\ Finish(p)
  /\ UNCHANGED <<rowVars, inflight, reg, stopping, budget, pendInit, tracked, owner, phase>>

\* start's last row read, for its reply, still holds the reservation.
StartReplies(p) ==
  /\ At(p, "s_reply") /\ End(p)
  /\ UNCHANGED <<rowVars, inflight, reg, stopping, budget, pendInit, engineVars>>

-----------------------------------------------------------------------------
(* start *)

Reject(p) ==
  End(p) /\ UNCHANGED <<rowVars, inflight, reg, stopping, budget, pendInit, engineVars>>

MayReserve(i) == i \notin initializing

\* Reserve the id before the first await; a reserved id is refused on the spot.
Start(p, i) ==
  /\ At(p, "idle") /\ p \in Clients /\ "start" \in Verbs /\ Room /\ Calm(i)
  /\ MayReserve(i)
  /\ initializing' = initializing \cup {i}
  /\ verb' = [verb EXCEPT ![p] = "start"]
  /\ sid' = [sid EXCEPT ![p] = i]
  /\ Goto(p, "s_read")
  /\ UNCHANGED <<rowVars, inflight, reg, stopping, budget, pendInit, engineVars, cap, snap>>

RegisteredIds == {i \in Ids : reg[i] # NoEngine}
ActiveIds == {i \in Ids : reg[i] # NoEngine} \cup initializing

\* Past the duplicate check, the cap and the fence: clear the stop mark and any timer.
StartAccepted(p) ==
  /\ stopping' = stopping \ {sid[p]}
  /\ CancelReconnect(sid[p])
  /\ Goto(p, "s_hook")
  /\ UNCHANGED <<rowVars, inflight, reg, initializing, pendInit, engineVars, callVars, cap>>

AlreadyStartedUnlessStopping(i) == reg[i] # NoEngine /\ i \notin stopping
AlreadyStarted(i) == reg[i] # NoEngine
StartRefusable(i) ==
  row[i] # "present" \/ AlreadyStarted(i) \/ Cardinality(ActiveIds \ {i}) >= MaxSessions

StartRead(p) ==
  LET i == sid[p] IN
  /\ At(p, "s_read")
  /\ \/ StartRefusable(i) /\ Reject(p)
     \/ ~StartRefusable(i) /\ Captured(i) = {} /\ StartAccepted(p) /\ UNCHANGED snap
     \/ /\ ~StartRefusable(i) /\ Captured(i) # {}
        /\ snap' = [snap EXCEPT ![p] = Captured(i)]
        /\ Goto(p, "s_fence")
        /\ UNCHANGED <<rowVars, inflight, reg, initializing, stopping, budget, pendInit,
                       engineVars, callVars, cap>>

StartFenced(p) ==
  /\ pc[p] = "s_fence" /\ Ready(p)
  /\ StartAccepted(p)
  /\ snap' = [snap EXCEPT ![p] = {}]

NoReconnectState(i) == UNCHANGED budget
FreshReconnectState(i) ==
  /\ rstate' = [rstate EXCEPT ![i] = "idle"]
  /\ attempts' = [attempts EXCEPT ![i] = 0]

\* The session:starting hook returned: fresh reconnect state, then initializeEngine.
StartHooked(p) ==
  /\ At(p, "s_hook")
  /\ FreshReconnectState(sid[p])
  /\ InitializeEngine(p)
  /\ UNCHANGED <<rowVars, initializing, stopping, tracked, disk, callVars>>

\* initializeEngine threw: evict and reap the engine registered now, then write FAILED.
StartCatch(p) ==
  LET n == reg[sid[p]] IN
  /\ pc[p] = "threw" /\ verb[p] = "start"
  /\ IF n = NoEngine
     THEN End(p) /\ UNCHANGED <<reg, phase>>
     ELSE /\ Evict(sid[p]) /\ Close(n)
          /\ cap' = [cap EXCEPT ![p] = n]
          /\ Goto(p, "s_catch")
          /\ UNCHANGED <<initializing, callVars, snap>>
  /\ UNCHANGED <<rowVars, inflight, stopping, budget, pendInit, tracked, owner, disk>>

StartReaped(p) ==
  /\ Resumes(p, "s_catch", "teardownTimeout")
  /\ Issue(sid[p], <<Write("FAILED", p)>>)
  /\ Goto(p, "s_failed")
  /\ UNCHANGED <<rowVars, reg, initializing, stopping, budget, pendInit, engineVars, callVars, cap, snap>>

StartFailed(p) ==
  /\ At(p, "s_failed")
  /\ LandOwn(p, <<>>) /\ End(p)
  /\ UNCHANGED <<reg, stopping, budget, pendInit, engineVars>>

-----------------------------------------------------------------------------
(* stop, logout, forceKill and delete *)

Retire(p, v, i) ==
  /\ At(p, "idle") /\ p \in Clients /\ v \in Verbs /\ Calm(i)
  /\ verb' = [verb EXCEPT ![p] = v]
  /\ sid' = [sid EXCEPT ![p] = i]
  /\ Goto(p, "r_read")
  /\ UNCHANGED <<rowVars, inflight, reg, initializing, stopping, budget, pendInit, engineVars, cap, snap>>

\* The teardown verb begins.  A logout of a running client registers its profile removal.
BeginTeardown(p, n) ==
  LET destroysProfile == verb[p] = "logout" /\ phase[n] \notin {"built", "closed"} IN
  /\ cap' = [cap EXCEPT ![p] = n]
  /\ Issue(sid[p], ClosingNotice(n))
  /\ Close(n)
  /\ tracked' = IF destroysProfile THEN tracked \cup {n} ELSE tracked
  /\ Goto(p, "r_td")

\* After the teardown, or at once if no engine was registered: the final write, or delete's
\* second fence.
AfterTeardown(p) ==
  IF verb[p] # "delete"
  THEN Issue(sid[p], <<Write("DISCONNECTED", p)>>) /\ Goto(p, "r_dw") /\ UNCHANGED snap
  ELSE /\ snap' = [snap EXCEPT ![p] = Captured(sid[p])]
       /\ Goto(p, IF Captured(sid[p]) = {} THEN "d_hook" ELSE "d_fence2")
       /\ UNCHANGED inflight

WriteUnsettled(i, n) == FALSE
InitialWritePending(i, n) == pendInit[i] = n

\* Mark and cancel before the cleanup, then capture the engine registered now.
MarkAndTear(p) ==
  LET i == sid[p]
      n == reg[i] IN
  /\ stopping' = stopping \cup {i}
  /\ CancelReconnect(i)
  /\ \/ n = NoEngine /\ AfterTeardown(p) /\ UNCHANGED <<cap, phase, tracked>>
     \/ /\ n # NoEngine /\ InitialWritePending(i, n)
        /\ cap' = [cap EXCEPT ![p] = n]
        /\ Goto(p, "r_init")
        /\ snap' = [snap EXCEPT ![p] = {}]
        /\ UNCHANGED <<inflight, phase, tracked>>
     \/ /\ n # NoEngine /\ ~InitialWritePending(i, n)
        /\ BeginTeardown(p, n)
        /\ snap' = [snap EXCEPT ![p] = {}]
  /\ UNCHANGED <<rowVars, reg, initializing, pendInit, owner, disk, callVars>>

RetireRead(p) ==
  LET i == sid[p]
      refused == row[i] # "present" \/ (verb[p] \in {"logout", "forceKill"} /\ reg[i] = NoEngine)
      fenced == verb[p] = "delete" /\ Captured(i) # {} IN
  /\ At(p, "r_read")
  /\ \/ refused /\ Reject(p)
     \/ ~refused /\ ~fenced /\ MarkAndTear(p)
     \/ /\ ~refused /\ fenced
        /\ snap' = [snap EXCEPT ![p] = Captured(i)]
        /\ Goto(p, "d_fence1")
        /\ UNCHANGED <<rowVars, inflight, reg, initializing, stopping, budget, pendInit,
                       engineVars, callVars, cap>>

DeleteFenced1(p) == pc[p] = "d_fence1" /\ Ready(p) /\ MarkAndTear(p)

\* awaitInitialStatus settled for the captured engine, or its bound passed.
InitialStatusSettled(p) ==
  /\ Resumes(p, "r_init", "statusTimeout")
  /\ BeginTeardown(p, cap[p])
  /\ UNCHANGED <<rowVars, reg, initializing, stopping, budget, pendInit, owner, disk, callVars, snap>>

RetireTornDown(p) ==
  /\ Resumes(p, "r_td", "teardownTimeout")
  /\ DeleteIfLive(sid[p], cap[p])
  /\ AfterTeardown(p)
  /\ UNCHANGED <<rowVars, initializing, stopping, budget, pendInit, engineVars, callVars, cap>>

RetireWrittenKeepsPhone(p) ==
  /\ At(p, "r_dw")
  /\ LandOwn(p, <<>>) /\ End(p)
  /\ UNCHANGED <<reg, stopping, budget, pendInit, engineVars>>
RetireWritten(p) ==
  /\ At(p, "r_dw")
  /\ IF verb[p] = "logout"
     THEN /\ LandOwn(p, <<Write("NO_PHONE", p)>>)
          /\ Goto(p, "r_phone")
          /\ UNCHANGED <<initializing, callVars, cap, snap>>
     ELSE LandOwn(p, <<>>) /\ End(p)
  /\ UNCHANGED <<reg, stopping, budget, pendInit, engineVars>>

LogoutForgot(p) ==
  /\ At(p, "r_phone")
  /\ LandOwn(p, <<>>) /\ End(p)
  /\ UNCHANGED <<reg, stopping, budget, pendInit, engineVars>>

DeleteFenced2(p) ==
  /\ pc[p] = "d_fence2" /\ Ready(p)
  /\ snap' = [snap EXCEPT ![p] = {}]
  /\ Goto(p, "d_hook")
  /\ UNCHANGED <<rowVars, inflight, reg, initializing, stopping, budget, pendInit, engineVars, callVars, cap>>

\* Fence #2 refuses: the status is reconciled if an engine was destroyed; the mark is dropped.
DeleteRefused2(p) ==
  /\ At(p, "d_fence2") /\ "fenceTimeout" \in Faults
  /\ IF cap[p] = NoEngine
     THEN End(p) /\ stopping' = stopping \ {sid[p]} /\ UNCHANGED inflight
     ELSE /\ Issue(sid[p], <<Write("DISCONNECTED", p)>>)
          /\ Goto(p, "d_dw")
          /\ UNCHANGED <<initializing, stopping, callVars, cap, snap>>
  /\ UNCHANGED <<rowVars, reg, budget, pendInit, engineVars>>

DeleteGaveUp(p) ==
  /\ At(p, "d_dw")
  /\ LandOwn(p, <<>>)
  /\ stopping' = stopping \ {sid[p]}
  /\ End(p)
  /\ UNCHANGED <<reg, budget, pendInit, engineVars>>

DeleteHooked(p) ==
  /\ At(p, "d_hook") /\ Goto(p, "d_tx")
  /\ UNCHANGED <<rowVars, inflight, reg, initializing, stopping, budget, pendInit, engineVars,
                 callVars, cap, snap>>

DeleteCommitted(p) ==
  /\ At(p, "d_tx")
  /\ row' = [row EXCEPT ![sid[p]] = "deleted"]
  /\ Goto(p, "d_purge")
  /\ UNCHANGED <<status, phone, inflight, reg, initializing, stopping, budget, pendInit,
                 engineVars, callVars, cap, snap>>

DeletePurged(p) ==
  /\ At(p, "d_purge")
  /\ disk' = disk \ {NameOf[sid[p]]}
  /\ stopping' = stopping \ {sid[p]}
  /\ End(p)
  /\ UNCHANGED <<rowVars, inflight, reg, budget, pendInit, tracked, owner, phase>>

\* A fence that waited too long refuses with a 409 before anything was touched.
FenceRefused(p) ==
  /\ pc[p] \in {"s_fence", "d_fence1"} /\ Quiet /\ "fenceTimeout" \in Faults
  /\ Reject(p)

-----------------------------------------------------------------------------
(* Disconnects and automatic reconnects *)

\* scheduleReconnect, with decideReconnect: nothing without a state; FAILED once the budget is
\* spent; otherwise one more attempt, on the one timer of the id.  The streak so far restarts at 0
\* when five minutes have passed since the last attempt was scheduled.
Streaks(i) == {attempts[i], 0}
ExhaustedLate(i, streak) == rstate[i] # "absent" /\ streak > MaxAttempts
Exhausted(i, streak) == rstate[i] # "absent" /\ streak >= MaxAttempts
ArmReconnect(i, streak) ==
  IF rstate[i] = "absent" \/ Exhausted(i, streak) THEN UNCHANGED budget
  ELSE /\ rstate' = [rstate EXCEPT ![i] = "armed"]
       /\ attempts' = [attempts EXCEPT ![i] = streak + 1]
ExhaustedWrite(i, streak) == IF Exhausted(i, streak) THEN <<Write("FAILED", NoProc)>> ELSE <<>>

\* A running engine loses its link for good.  If it is the live one a handler takes over; a
\* remote unlink also starts removing the profile, which is tracked live or not.
Lost(n, p, unlinked) ==
  LET i == owner[n] IN
  /\ Quiet /\ "lost" \in Faults /\ (unlinked => "unlinked" \in Faults)
  /\ phase[n] \in {"launching", "open", "ready"} /\ Calm(i)
  /\ pc[p] = "idle" /\ p \in Tasks
  /\ phase' = [phase EXCEPT ![n] = "lost"]
  /\ tracked' = IF unlinked THEN tracked \cup {n} ELSE tracked
  /\ IF Live(n)
     THEN /\ Issue(i, <<Write("DISCONNECTED", NoProc)>>)
          /\ verb' = [verb EXCEPT ![p] = "lost"]
          /\ sid' = [sid EXCEPT ![p] = i]
          /\ cap' = [cap EXCEPT ![p] = n]
          /\ Goto(p, "l_read")
     ELSE UNCHANGED <<inflight, callVars, cap, pc>>
  /\ UNCHANGED <<rowVars, reg, initializing, stopping, budget, pendInit, owner, disk, snap>>

GiveUpKeepsEngine(i, n) == UNCHANGED <<reg, phase>>
GiveUp(i, n) == Evict(i) /\ Close(n)

\* handleEngineDisconnected after its row read: only a still live engine has side effects.
LostRead(p) ==
  LET i == sid[p]
      n == cap[p] IN
  /\ At(p, "l_read") /\ End(p)
  /\ IF row[i] = "present" /\ Live(n)
     THEN \E streak \in Streaks(i) :
            /\ Issue(i, <<Write("DISCONNECTED", NoProc)>> \o ExhaustedWrite(i, streak))
            /\ ArmReconnect(i, streak)
            /\ IF Exhausted(i, streak) THEN GiveUp(i, n) ELSE UNCHANGED <<reg, phase>>
     ELSE UNCHANGED <<inflight, budget, reg, phase>>
  /\ UNCHANGED <<rowVars, stopping, pendInit, tracked, owner, disk>>

AttemptForbidden(i) == i \in stopping

\* The reconnect timer fires: executeReconnect destroys the engine registered now.
ReconnectFires(i, p) ==
  LET n == reg[i]
      begins(l) == /\ verb' = [verb EXCEPT ![p] = "reconnect"]
                   /\ sid' = [sid EXCEPT ![p] = i]
                   /\ Goto(p, l) IN
  /\ Quiet /\ rstate[i] = "armed" /\ pc[p] = "idle" /\ p \in Tasks /\ Room
  /\ rstate' = [rstate EXCEPT ![i] = "idle"]
  /\ \/ AttemptForbidden(i) /\ UNCHANGED <<inflight, phase, pc, callVars, cap, snap>>
     \/ /\ ~AttemptForbidden(i) /\ n # NoEngine
        /\ cap' = [cap EXCEPT ![p] = n]
        /\ Close(n) /\ Issue(i, ClosingNotice(n))
        /\ begins("c_td") /\ UNCHANGED snap
     \/ /\ ~AttemptForbidden(i) /\ n = NoEngine
        /\ snap' = [snap EXCEPT ![p] = Captured(i)]
        /\ begins("c_fence") /\ UNCHANGED <<inflight, phase, cap>>
  /\ UNCHANGED <<rowVars, reg, initializing, stopping, attempts, pendInit, tracked, owner, disk>>

ReconnectTornDown(p) ==
  /\ Resumes(p, "c_td", "teardownTimeout")
  /\ DeleteIfLive(sid[p], cap[p])
  /\ snap' = [snap EXCEPT ![p] = Captured(sid[p])]
  /\ Goto(p, "c_fence")
  /\ UNCHANGED <<rowVars, inflight, initializing, stopping, budget, pendInit, engineVars, callVars, cap>>

ReconnectFenced(p) ==
  /\ pc[p] = "c_fence" /\ Ready(p)
  /\ InitializeEngine(p)
  /\ UNCHANGED <<rowVars, initializing, stopping, budget, tracked, disk, callVars>>

ReconnectRefused(p) ==
  /\ At(p, "c_fence") /\ "fenceTimeout" \in Faults
  /\ Goto(p, "threw")
  /\ UNCHANGED <<rowVars, inflight, reg, initializing, stopping, budget, pendInit, engineVars,
                 callVars, cap, snap>>

\* The attempt threw: evict and reap the engine registered now, then schedule another.
ReconnectCatch(p) ==
  LET i == sid[p]
      n == reg[i] IN
  /\ pc[p] = "threw" /\ verb[p] = "reconnect"
  /\ Evict(i)
  /\ IF n = NoEngine THEN UNCHANGED phase ELSE Close(n)
  /\ \E streak \in Streaks(i) : ArmReconnect(i, streak) /\ Issue(i, ExhaustedWrite(i, streak))
  /\ End(p)
  /\ UNCHANGED <<rowVars, stopping, pendInit, tracked, owner, disk>>

-----------------------------------------------------------------------------
(* Engines and the database *)

EngineReady(n) ==
  LET i == owner[n] IN
  /\ Quiet /\ phase[n] \in {"launching", "open"} /\ Calm(i)
  /\ phase' = [phase EXCEPT ![n] = "ready"]
  /\ IF Live(n)
     THEN Issue(i, <<Write("READY", NoProc)>>) /\ attempts' = [attempts EXCEPT ![i] = 0]
     ELSE UNCHANGED <<inflight, attempts>>
  /\ UNCHANGED <<rowVars, reg, initializing, stopping, rstate, pendInit, tracked, owner, disk,
                 pc, callVars, cap, snap>>

\* A terminal error of an engine that had initialized.
EngineFails(n) ==
  /\ Quiet /\ "engineError" \in Faults
  /\ phase[n] \in {"open", "ready"} /\ Calm(owner[n])
  /\ OnError(n)
  /\ UNCHANGED <<rowVars, initializing, stopping, pendInit, tracked, owner, disk, pc, callVars, cap, snap>>

EngineClosed(n) ==
  /\ Quiet /\ phase[n] = "closing"
  /\ phase' = [phase EXCEPT ![n] = "closed"]
  /\ UNCHANGED <<rowVars, inflight, reg, initializing, stopping, budget, pendInit, tracked,
                 owner, disk, pc, callVars, cap, snap>>

\* The removal of the profile settles, and with it the entry of pendingTeardowns.
CredentialsRemoved(n) ==
  /\ Quiet /\ n \in tracked
  /\ tracked' = tracked \ {n}
  /\ disk' = disk \ {NameOf[owner[n]]}
  /\ UNCHANGED <<rowVars, inflight, reg, initializing, stopping, budget, pendInit, owner, phase,
                 pc, callVars, cap, snap>>

\* A write that no call awaits lands.
WriteLands(i) ==
  /\ Quiet
  /\ \E k \in DOMAIN inflight[i] :
       /\ CanLand(i, k) /\ inflight[i][k].by = NoProc
       /\ Land(i, k)
       /\ inflight' = [inflight EXCEPT ![i] = Without(@, k)]
  /\ UNCHANGED <<row, reg, initializing, stopping, budget, pendInit, engineVars, pc, callVars, cap, snap>>

-----------------------------------------------------------------------------
(* Continuations of the call p: those the engine owes it, and those due to it from a settled    *)
(* promise, the database, a hook or a timer.  Everything else is a request or an event.         *)
EngineAnswers(p) == InitResolves(p) \/ InitRejects(p)
Continue(p) ==
  \/ InitWritten(p) \/ InitWriteFails(p) \/ InitDeadline(p)
  \/ InitReaped(p) \/ InitGaveUp(p) \/ Initialized(p) \/ CheckRetired(p) \/ Undone(p)
  \/ PurgeCheck(p) \/ Wipe(p) \/ StartReplies(p)
  \/ StartRead(p) \/ StartFenced(p) \/ StartHooked(p) \/ StartCatch(p) \/ StartReaped(p) \/ StartFailed(p)
  \/ RetireRead(p) \/ InitialStatusSettled(p) \/ RetireTornDown(p) \/ RetireWritten(p) \/ LogoutForgot(p)
  \/ DeleteFenced1(p) \/ DeleteFenced2(p) \/ DeleteRefused2(p) \/ DeleteGaveUp(p) \/ DeleteHooked(p)
  \/ DeleteCommitted(p) \/ DeletePurged(p) \/ FenceRefused(p)
  \/ LostRead(p) \/ ReconnectTornDown(p) \/ ReconnectFenced(p) \/ ReconnectRefused(p) \/ ReconnectCatch(p)

Next ==
  \/ \E p \in Procs : Continue(p) \/ EngineAnswers(p)
  \/ \E p \in Procs, i \in Ids : Start(p, i) \/ ReconnectFires(i, p)
  \/ \E p \in Procs, i \in Ids, v \in RetireVerbs : Retire(p, v, i)
  \/ \E n \in Engines, p \in Procs, unlinked \in BOOLEAN : Lost(n, p, unlinked)
  \/ \E n \in Engines : EngineReady(n) \/ EngineFails(n) \/ EngineClosed(n) \/ CredentialsRemoved(n)
  \/ \E i \in Ids : Create(i) \/ WriteLands(i)

Spec == Init /\ [][Next]_vars

-----------------------------------------------------------------------------
(* Properties *)

\* (An operator just before a definition that it resembles, and that nothing else uses, is that
\* definition with one plausible mistake in it: each property is shown to catch one.)

Busy(i) == \E p \in Procs : sid[p] = i
Idle(i) == ~Busy(i) /\ inflight[i] = <<>>

\* The reservation start() takes before its first await (initializing.add, and the finally that
\* deletes it) is held by exactly one start in flight: it neither leaks nor is shared.
StartSerialized ==
  \A i \in Ids :
    /\ i \in initializing => \E p \in Procs : verb[p] = "start" /\ sid[p] = i
    /\ \A p, q \in Procs :
         verb[p] = "start" /\ sid[p] = i /\ verb[q] = "start" /\ sid[q] = i => p = q /\ i \in initializing

\* No engine whose client runs is lost to the registry: every browser or socket that nobody is
\* tearing down can still be found, stopped and counted (engines.set, engines.delete).
NoOrphan == \A n \in Engines : phase[n] \in Running => Live(n)

\* Once nothing is in flight for a session, its registered engine is one that can serve, or one
\* that lost its link and has a reconnect pending; and its reconnect state exists, so that the
\* next loss can be recovered.  A session never sits "already started" on a dead engine.
NoZombie ==
  \A i \in Ids : Idle(i) /\ row[i] = "present" /\ reg[i] # NoEngine =>
    /\ phase[reg[i]] \in {"open", "ready", "lost"}
    /\ rstate[i] # "absent"
    /\ phase[reg[i]] = "lost" => rstate[i] = "armed"

\* Once nothing is in flight for a session whose stop mark is set, it is down: no reconnect attempt
\* or start that the stop overtook has brought an engine back (stoppingSessions).
StoppedStaysDown ==
  \A i \in Ids : i \in stopping /\ Idle(i) =>
    reg[i] = NoEngine /\ \A n \in Engines : owner[n] = i => phase[n] \notin Running

\* The three together: whatever a reconnect attempt, a start and a stop do to each other at their
\* awaits, and whichever of their steps fails, no engine runs unregistered, no dead one stays
\* registered, and none is up behind a stop mark.
EnginesAccounted == NoOrphan /\ NoZombie /\ StoppedStaysDown

\* Once nothing is in flight for a session, its row reads READY exactly when a ready engine is
\* registered: neither a late write nor a stale engine's event has the last word.
SettledReady ==
  \A i \in Ids : Idle(i) /\ row[i] = "present" =>
    (status[i] = "READY" <=> reg[i] # NoEngine /\ phase[reg[i]] = "ready")

\* Once nothing is in flight for a session, its phone column agrees with what boot makes of it: a
\* READY session has one, and a DISCONNECTED one that has it (boot would auto-start it) still has
\* its credentials on disk (logout clears the column because it removes them).
PhoneSettled ==
  \A i \in Ids : Idle(i) /\ row[i] = "present" /\ Pending(i) = {} =>
    /\ status[i] = "READY" => phone[i]
    /\ status[i] = "DISCONNECTED" /\ phone[i] => NameOf[i] \in disk

\* An engine is never launched on an auth directory whose removal is still pending for that name
\* (pendingTeardowns and the fences of start, delete and executeReconnect).
CredentialFence ==
  [][\A n \in Engines : phase[n] = "built" /\ phase'[n] = "launching" => Pending(owner[n]) = {}]_vars

\* When a retiring control issues its final DISCONNECTED write, the INITIALIZING write of the
\* engine it captured has landed (pendingInitialStatuses), in whatever order the database runs them.
NoLateInitializing ==
  \A p, q \in Procs :
    pc[p] = "r_dw" /\ cap[p] # NoEngine /\ pc[q] = "i_write" => cap[q] # cap[p]

\* Once nothing is in flight for a deleted session, no engine of it is registered or running.
DeletedStaysDown ==
  \A i \in Ids : row[i] = "deleted" /\ Idle(i) =>
    reg[i] = NoEngine /\ \A n \in Engines : owner[n] = i => phase[n] \notin Running

\* Nor are credentials left on disk under its name once nothing is in flight for any session of that
\* name, unless one of them still exists (purgeSessionData, purgeAuthDirsIfDeleted).
DeletedLeavesNoCredentials ==
  \A i \in Ids :
    LET namesakes == {j \in Ids : NameOf[j] = NameOf[i]} IN
    row[i] = "deleted" /\ NameOf[i] \in disk /\ (\A j \in namesakes : Idle(j)) =>
      \E j \in namesakes : row[j] = "present"

\* A deleted session is gone, engine and credentials, though a reconnect attempt was already past its
\* stop check and a session of the same name is left (delete, executeReconnect).
DeletedIsGone == DeletedStaysDown /\ DeletedLeavesNoCredentials

\* MAX_CONCURRENT_SESSIONS caps the sessions whose engine is running or initializing.
CapHeld == Cardinality({i \in Ids : reg[i] # NoEngine}) <= MaxSessions

\* Fairness: the event loop never starves a continuation whose I/O or timer is due, and the
\* database answers.  Engines owe nothing: they may hang in any operation for ever.
Fairness ==
  /\ \A p \in Procs : SF_vars(Continue(p))
  /\ \A i \in Ids : SF_vars(WriteLands(i))
FairSpec == Spec /\ Fairness

\* Every control call, disconnect handler and reconnect attempt finishes, however the engine
\* hangs: each await of an engine has a deadline.
CallsFinish == \A p \in Procs : pc[p] # "idle" ~> pc[p] = "idle"

=============================================================================
