------------------------ MODULE SessionLifecycleProofs ------------------------
(***************************************************************************)
(* Proofs about SessionLifecycle for any number of sessions, requests,     *)
(* tasks and engines, any set of failures, any write order and any bound.  *)
(* First the reservation of start(), which depends only on what a step     *)
(* does to the calls; then the order of a control's final write after its  *)
(* engine's INITIALIZING write, which depends on who holds which engine;   *)
(* then the types.  The next three, while no link is lost, rest on one     *)
(* account of every registered engine: that no engine is orphaned, dead    *)
(* and registered, or up behind a stop mark; the cap on sessions; and the  *)
(* fence of a launch against the removal of credentials.  Last, where      *)
(* writes land in order and neither an initialize nor a teardown gives up  *)
(* early: that the columns of a session at rest agree with its engine and  *)
(* with its credentials, which depends on every write still in flight.     *)
(***************************************************************************)
EXTENDS SessionLifecycle, SequenceTheorems, FiniteSetTheorems, TLAPS

-----------------------------------------------------------------------------
(* The calls: what a step may do to pc, verb, sid and initializing. *)

Rests == UNCHANGED <<pc, verb, sid, initializing>>
MovesOn(p) == \E l \in Pcs \ {"idle"} : Goto(p, l)
Continues(p) == pc[p] # "idle" /\ MovesOn(p) /\ UNCHANGED <<verb, sid, initializing>>
Ends(p) == pc[p] # "idle" /\ End(p)
Begins(p, i, v) ==
  /\ pc[p] = "idle" /\ MovesOn(p)
  /\ sid' = [sid EXCEPT ![p] = i]
  /\ verb' = [verb EXCEPT ![p] = v]
StartBegins(p, i) ==
  Begins(p, i, "start") /\ i \notin initializing /\ initializing' = initializing \cup {i}
OtherBegins(p, i) ==
  UNCHANGED initializing /\ \E v \in RetireVerbs \cup {"lost", "reconnect"} : Begins(p, i, v)

CallStep ==
  \/ Rests
  \/ \E p \in Procs : Continues(p) \/ Ends(p)
  \/ \E p \in Procs, i \in Ids : StartBegins(p, i) \/ OtherBegins(p, i)

\* Whatever a continuation does, its call moves on to another await or ends.
LEMMA ContinueCallStep ==
  ASSUME NEW p \in Procs, Continue(p) \/ EngineAnswers(p)
  PROVE Continues(p) \/ Ends(p)
<1> USE DEF Continues, Ends, MovesOn, At, Resumes, callVars, Pcs, TeardownPcs, FencePcs
<1>1. CASE InitWritten(p)
  BY <1>1 DEF InitWritten
<1>2. CASE InitWriteFails(p)
  BY <1>2 DEF InitWriteFails
<1>3. CASE InitDeadline(p)
  BY <1>3 DEF InitDeadline
<1>4. CASE InitReaped(p)
  BY <1>4 DEF InitReaped
<1>5. CASE InitGaveUp(p)
  BY <1>5 DEF InitGaveUp
<1>6. CASE Initialized(p)
  BY <1>6 DEF Initialized, Undo
<1>7. CASE CheckRetired(p)
  BY <1>7 DEF CheckRetired, Finish, Undo
<1>8. CASE Undone(p)
  BY <1>8 DEF Undone
<1>9. CASE PurgeCheck(p)
  BY <1>9 DEF Finish, PurgeCheck
<1>10. CASE Wipe(p)
  BY <1>10 DEF Finish, Wipe
<1>11. CASE StartReplies(p)
  BY <1>11 DEF StartReplies
<1>12. CASE StartRead(p)
  BY <1>12 DEF Reject, StartAccepted, StartRead
<1>13. CASE StartFenced(p)
  BY <1>13 DEF StartAccepted, StartFenced
<1>14. CASE StartHooked(p)
  BY <1>14 DEF InitializeEngine, StartHooked
<1>15. CASE StartCatch(p)
  BY <1>15 DEF StartCatch
<1>16. CASE StartReaped(p)
  BY <1>16 DEF StartReaped
<1>17. CASE StartFailed(p)
  BY <1>17 DEF StartFailed
<1>18. CASE RetireRead(p)
  BY <1>18 DEF AfterTeardown, BeginTeardown, MarkAndTear, Reject, RetireRead
<1>19. CASE InitialStatusSettled(p)
  BY <1>19 DEF BeginTeardown, InitialStatusSettled
<1>20. CASE RetireTornDown(p)
  BY <1>20 DEF AfterTeardown, RetireTornDown
<1>21. CASE RetireWritten(p)
  BY <1>21 DEF RetireWritten
<1>22. CASE LogoutForgot(p)
  BY <1>22 DEF LogoutForgot
<1>23. CASE DeleteFenced1(p)
  BY <1>23 DEF AfterTeardown, BeginTeardown, DeleteFenced1, MarkAndTear
<1>24. CASE DeleteFenced2(p)
  BY <1>24 DEF DeleteFenced2
<1>25. CASE DeleteRefused2(p)
  BY <1>25 DEF DeleteRefused2
<1>26. CASE DeleteGaveUp(p)
  BY <1>26 DEF DeleteGaveUp
<1>27. CASE DeleteHooked(p)
  BY <1>27 DEF DeleteHooked
<1>28. CASE DeleteCommitted(p)
  BY <1>28 DEF DeleteCommitted
<1>29. CASE DeletePurged(p)
  BY <1>29 DEF DeletePurged
<1>30. CASE FenceRefused(p)
  BY <1>30 DEF FenceRefused, Reject
<1>31. CASE LostRead(p)
  BY <1>31 DEF LostRead
<1>32. CASE ReconnectTornDown(p)
  BY <1>32 DEF ReconnectTornDown
<1>33. CASE ReconnectFenced(p)
  BY <1>33 DEF InitializeEngine, ReconnectFenced
<1>34. CASE ReconnectRefused(p)
  BY <1>34 DEF ReconnectRefused
<1>35. CASE ReconnectCatch(p)
  BY <1>35 DEF ReconnectCatch
<1>36. CASE InitResolves(p)
  BY <1>36 DEF InitResolves
<1>37. CASE InitRejects(p)
  BY <1>37 DEF InitRejects
<1> QED
  BY <1>1, <1>2, <1>3, <1>4, <1>5, <1>6, <1>7, <1>8, <1>9, <1>10, <1>11, <1>12, <1>13, <1>14,
     <1>15, <1>16, <1>17, <1>18, <1>19, <1>20, <1>21, <1>22, <1>23, <1>24, <1>25, <1>26, <1>27,
     <1>28, <1>29, <1>30, <1>31, <1>32, <1>33, <1>34, <1>35, <1>36, <1>37
     DEF Continue, EngineAnswers

\* Every step of the system does one of these things to the calls.
LEMMA NextCallStep == [Next]_vars => CallStep
<1> SUFFICES ASSUME [Next]_vars PROVE CallStep
  OBVIOUS
<1> USE DEF CallStep
<1>1. CASE \E p \in Procs : Continue(p) \/ EngineAnswers(p)
  BY <1>1, ContinueCallStep
<1>2. ASSUME NEW p \in Procs, NEW i \in Ids, Start(p, i) PROVE CallStep
  BY <1>2 DEF Start, MayReserve, At, StartBegins, Begins, MovesOn, Pcs
<1>3. ASSUME NEW p \in Procs, NEW i \in Ids, ReconnectFires(i, p) PROVE CallStep
  BY <1>3 DEF ReconnectFires, callVars, Rests, OtherBegins, Begins, MovesOn, Pcs, TeardownPcs, FencePcs
<1>4. ASSUME NEW p \in Procs, NEW i \in Ids, NEW v \in RetireVerbs, Retire(p, v, i) PROVE CallStep
  BY <1>4 DEF Retire, At, OtherBegins, Begins, MovesOn, Pcs
<1>5. ASSUME NEW n \in Engines, NEW p \in Procs, NEW unlinked \in BOOLEAN, Lost(n, p, unlinked)
      PROVE CallStep
  BY <1>5 DEF Lost, Live, callVars, Rests, OtherBegins, Begins, MovesOn, Pcs
<1>6. ASSUME NEW n \in Engines, EngineReady(n) \/ EngineFails(n) \/ EngineClosed(n) \/ CredentialsRemoved(n)
      PROVE Rests
  BY <1>6 DEF EngineReady, EngineFails, EngineClosed, CredentialsRemoved, callVars, Rests
<1>7. ASSUME NEW i \in Ids, Create(i) \/ WriteLands(i) PROVE Rests
  BY <1>7 DEF Create, WriteLands, callVars, Rests
<1>8. CASE UNCHANGED vars
  BY <1>8 DEF vars, callVars, Rests
<1> QED
  BY <1>1, <1>2, <1>3, <1>4, <1>5, <1>6, <1>7, <1>8 DEF Next

\* The reservation needs the types of the calls, and that a slot at rest is no start: without it a
\* second start could take over the slot of a first.
CallsBound ==
  /\ pc \in [Procs -> Pcs]
  /\ verb \in [Procs -> AllVerbs \cup {"none", "lost", "reconnect"}]
  /\ sid \in [Procs -> Ids \cup {NoId}]
  /\ initializing \subseteq Ids
  /\ \A p \in Procs : IF pc[p] = "idle" THEN verb[p] = "none" ELSE sid[p] \in Ids

\* CallsBound is inductive: a call in flight is for a session, and a free slot is nobody's.
LEMMA CallsBoundStep == CallsBound /\ CallStep => CallsBound'
<1> SUFFICES ASSUME CallsBound, CallStep PROVE CallsBound'
  OBVIOUS
<1> USE DEF CallsBound, AllVerbs, RetireVerbs
<1>1. CASE Rests
  BY <1>1 DEF Rests
<1>2. ASSUME NEW p \in Procs, Continues(p) PROVE CallsBound'
  BY <1>2 DEF Continues, MovesOn, Goto
<1>3. ASSUME NEW p \in Procs, Ends(p) PROVE CallsBound'
  BY <1>3 DEF Ends, End, Pcs
<1>4. ASSUME NEW p \in Procs, NEW i \in Ids, StartBegins(p, i) PROVE CallsBound'
  BY <1>4 DEF StartBegins, Begins, MovesOn, Goto
<1>5. ASSUME NEW p \in Procs, NEW i \in Ids, OtherBegins(p, i) PROVE CallsBound'
  BY <1>5 DEF OtherBegins, Begins, MovesOn, Goto
<1> QED
  BY <1>1, <1>2, <1>3, <1>4, <1>5 DEF CallStep

\* A step keeps the reservation: only a start that found the id unreserved takes it, and only the
\* start that holds it gives it back.
LEMMA StartSerializedStep == CallsBound /\ StartSerialized /\ CallStep => StartSerialized'
<1> SUFFICES ASSUME CallsBound, StartSerialized, CallStep PROVE StartSerialized'
  OBVIOUS
<1> USE DEF CallsBound, StartSerialized
<1>1. CASE Rests
  BY <1>1 DEF Rests
<1>2. ASSUME NEW p \in Procs, Continues(p) PROVE StartSerialized'
  BY <1>2 DEF Continues
<1>3. ASSUME NEW p \in Procs, Ends(p) PROVE StartSerialized'
  BY <1>3 DEF Ends, End
<1>4. ASSUME NEW p \in Procs, NEW i \in Ids, StartBegins(p, i) PROVE StartSerialized'
  BY <1>4 DEF StartBegins, Begins
<1>5. ASSUME NEW p \in Procs, NEW i \in Ids, OtherBegins(p, i) PROVE StartSerialized'
  BY <1>5 DEF OtherBegins, Begins, RetireVerbs
<1> QED
  BY <1>1, <1>2, <1>3, <1>4, <1>5 DEF CallStep

\* Every call in flight is for a session, in any behaviour.
THEOREM CallsAlwaysBound == Spec => []CallsBound
<1>1. Init => CallsBound
  BY DEF Init, CallsBound, Pcs
<1> QED
  BY <1>1, NextCallStep, CallsBoundStep, PTL DEF Spec

\* For any number of clients, sessions and failures, exactly one start in flight holds the
\* reservation of its session, and no reservation outlives its start (initializingSessions.add
\* before the first await of start(), delete in its finally).
THEOREM StartIsSerialized == Spec => []StartSerialized
<1>1. Init => StartSerialized
  BY DEF Init, StartSerialized
<1> QED
  BY <1>1, CallsAlwaysBound, NextCallStep, StartSerializedStep, PTL DEF Spec

-----------------------------------------------------------------------------
(* The INITIALIZING write of an engine and the retiring control that captured the engine: what a *)
(* step may do to the registry, the pending writes and the engines the calls hold.               *)

LaunchBegins(p) == pc[p] \notin {"i_write", "idle"} /\ InitializeEngine(p) /\ UNCHANGED sid
WriteSettles(p) ==
  /\ pc[p] = "i_write" /\ ForgetInitialStatus(p)
  /\ UNCHANGED <<reg, owner, cap>>
  /\ \E l \in {"i_run", "inited", "threw"} : Goto(p, l)

\* No call awaits the INITIALIZING write of n.
NotAwaited(n) == \A q \in Procs : pc[q] = "i_write" => cap[q] # n
Retiring == {"r_td", "r_dw"}
Uncaptured == {"idle", "r_read", "d_fence1"}
Elsewhere == Pcs \ (Retiring \cup Uncaptured \cup {"i_write"})

CapStep(p) ==
  \/ End(p)
  \/ UNCHANGED cap /\ \E l \in Elsewhere : Goto(p, l)
  \/ UNCHANGED cap /\ cap[p] = NoEngine /\ \E l \in Uncaptured : Goto(p, l)
  \/ UNCHANGED cap /\ NotAwaited(cap[p]) /\ \E l \in Retiring : Goto(p, l)
  \/ \E n \in Engines \cup {NoEngine} :
       /\ cap' = [cap EXCEPT ![p] = n]
       /\ \/ \E l \in Elsewhere : Goto(p, l)
          \/ NotAwaited(n) /\ \E l \in Retiring : Goto(p, l)

EvictsAtMostOne == UNCHANGED reg \/ \E i \in Ids : Evict(i)
EngineStep ==
  \/ \E p \in Procs : LaunchBegins(p) \/ WriteSettles(p)
  \/ /\ EvictsAtMostOne /\ UNCHANGED <<owner, pendInit>>
     /\ UNCHANGED <<pc, cap>> \/ \E p \in Procs : pc[p] # "i_write" /\ CapStep(p)

EngineRefs ==
  /\ reg \in [Ids -> Engines \cup {NoEngine}]
  /\ pendInit \in [Ids -> Engines \cup {NoEngine}]
  /\ owner \in [Engines -> Ids \cup {NoId}]
  /\ cap \in [Procs -> Engines \cup {NoEngine}]
  /\ \A i \in Ids : reg[i] # NoEngine => owner[reg[i]] = i
  /\ \A p \in Procs : pc[p] \in Uncaptured => cap[p] = NoEngine

\* NoLateInitializing is not inductive.  The strengthening: while the write of a registered engine is
\* awaited it is the one pendingInitialStatuses holds, so that the control which captures the engine
\* finds it; two launches never await the write of one engine; and the control keeps clear of the
\* write from the moment it begins the teardown.
WriteTracked ==
  /\ \A p \in Procs : pc[p] = "i_write" =>
       /\ cap[p] # NoEngine /\ owner[cap[p]] = sid[p]
       /\ reg[sid[p]] = cap[p] => pendInit[sid[p]] = cap[p]
  /\ \A p, q \in Procs :
       pc[p] \in Retiring \cup {"i_write"} /\ pc[q] = "i_write" /\ p # q => cap[q] # cap[p]
EngineInv == CallsBound /\ EngineRefs /\ WriteTracked

\* deleteIfLive evicts the captured engine or nobody (EngineRegistry.deleteIfLive).
LEMMA DeleteIfLiveEvicts ==
  ASSUME NEW i \in Ids, NEW n, DeleteIfLive(i, n)
  PROVE EvictsAtMostOne
BY DEF DeleteIfLive, Evict, EvictsAtMostOne

\* onError evicts the engine's own entry, if it is the live one (SessionEngineEventWiring.onError).
LEMMA OnErrorEvicts ==
  ASSUME NEW n, OnError(n)
  PROVE EvictsAtMostOne
BY DEF OnError, Live, EvictsAtMostOne

\* A control leaves awaitInitialStatus only when the write of its engine has settled, if it is not
\* wedged for longer than the bound of the wait.
LEMMA SettledNotAwaited ==
  ASSUME NEW p \in Procs, Resumes(p, "r_init", "statusTimeout"), "statusTimeout" \notin Faults
  PROVE NotAwaited(cap[p])
BY DEF Resumes, Ready, NotAwaited, TeardownPcs, FencePcs

\* Whatever a continuation does, it begins a launch, settles its INITIALIZING write, or moves on
\* holding an engine whose write is not awaited.
LEMMA ContinueEngineStep ==
  ASSUME NEW p \in Procs, Continue(p) \/ EngineAnswers(p), EngineInv, "statusTimeout" \notin Faults
  PROVE EngineStep
<1> USE ConstantsAssumption DEF ConstantsAssumption, EngineInv, CallsBound, EngineRefs, WriteTracked,
      EngineStep, EvictsAtMostOne, LaunchBegins, WriteSettles, CapStep, NotAwaited, Retiring, Uncaptured,
      Elsewhere, At, Resumes, callVars, engineVars, Pcs, TeardownPcs, FencePcs
<1>1. CASE InitWritten(p)
  BY <1>1 DEF InitWritten
<1>2. CASE InitWriteFails(p)
  BY <1>2 DEF InitWriteFails
<1>3. CASE InitDeadline(p)
  BY <1>3 DEF InitDeadline
<1>4. CASE InitReaped(p)
  BY <1>4 DEF InitReaped
<1>5. CASE InitGaveUp(p)
  BY <1>5 DEF InitGaveUp
<1>6. CASE Initialized(p)
  BY <1>6 DEF Initialized, Undo
<1>7. CASE CheckRetired(p)
  BY <1>7 DEF CheckRetired, Finish, Undo
<1>8. CASE Undone(p)
  BY <1>8, DeleteIfLiveEvicts DEF Undone
<1>9. CASE PurgeCheck(p)
  BY <1>9 DEF Finish, PurgeCheck
<1>10. CASE Wipe(p)
  BY <1>10 DEF Finish, Wipe
<1>11. CASE StartReplies(p)
  BY <1>11 DEF StartReplies
<1>12. CASE StartRead(p)
  BY <1>12 DEF Reject, StartAccepted, StartRead
<1>13. CASE StartFenced(p)
  BY <1>13 DEF StartAccepted, StartFenced
<1>14. CASE StartHooked(p)
  BY <1>14 DEF StartHooked
<1>15. CASE StartCatch(p)
  BY <1>15 DEF StartCatch
<1>16. CASE StartReaped(p)
  BY <1>16 DEF StartReaped
<1>17. CASE StartFailed(p)
  BY <1>17 DEF StartFailed
<1>18. CASE RetireRead(p)
  BY SMTT(30), <1>18 DEF AfterTeardown, BeginTeardown, InitialWritePending, MarkAndTear, Reject,
     RetireRead
<1>19. CASE InitialStatusSettled(p)
  BY <1>19, SettledNotAwaited DEF BeginTeardown, InitialStatusSettled
<1>20. CASE RetireTornDown(p)
  BY <1>20, DeleteIfLiveEvicts DEF AfterTeardown, RetireTornDown
<1>21. CASE RetireWritten(p)
  BY <1>21 DEF RetireWritten
<1>22. CASE LogoutForgot(p)
  BY <1>22 DEF LogoutForgot
<1>23. CASE DeleteFenced1(p)
  BY <1>23 DEF AfterTeardown, BeginTeardown, DeleteFenced1, InitialWritePending, MarkAndTear
<1>24. CASE DeleteFenced2(p)
  BY <1>24 DEF DeleteFenced2
<1>25. CASE DeleteRefused2(p)
  BY <1>25 DEF DeleteRefused2
<1>26. CASE DeleteGaveUp(p)
  BY <1>26 DEF DeleteGaveUp
<1>27. CASE DeleteHooked(p)
  BY <1>27 DEF DeleteHooked
<1>28. CASE DeleteCommitted(p)
  BY <1>28 DEF DeleteCommitted
<1>29. CASE DeletePurged(p)
  BY <1>29 DEF DeletePurged
<1>30. CASE FenceRefused(p)
  BY <1>30 DEF FenceRefused, Reject
<1>31. CASE LostRead(p)
  BY <1>31 DEF GiveUp, LostRead
<1>32. CASE ReconnectTornDown(p)
  BY <1>32, DeleteIfLiveEvicts DEF ReconnectTornDown
<1>33. CASE ReconnectFenced(p)
  BY <1>33 DEF ReconnectFenced
<1>34. CASE ReconnectRefused(p)
  BY <1>34 DEF ReconnectRefused
<1>35. CASE ReconnectCatch(p)
  BY <1>35 DEF ReconnectCatch
<1>36. CASE InitResolves(p)
  BY <1>36 DEF InitResolves
<1>37. CASE InitRejects(p)
  BY <1>37, OnErrorEvicts DEF InitRejects
<1> QED
  BY <1>1, <1>2, <1>3, <1>4, <1>5, <1>6, <1>7, <1>8, <1>9, <1>10, <1>11, <1>12, <1>13, <1>14,
     <1>15, <1>16, <1>17, <1>18, <1>19, <1>20, <1>21, <1>22, <1>23, <1>24, <1>25, <1>26, <1>27,
     <1>28, <1>29, <1>30, <1>31, <1>32, <1>33, <1>34, <1>35, <1>36, <1>37
     DEF Continue, EngineAnswers

\* So does every step of the system.
LEMMA NextEngineStep == EngineInv /\ "statusTimeout" \notin Faults /\ [Next]_vars => EngineStep
<1> SUFFICES ASSUME EngineInv, "statusTimeout" \notin Faults, [Next]_vars PROVE EngineStep
  OBVIOUS
<1> USE DEF EngineInv, CallsBound, EngineRefs, EngineStep, EvictsAtMostOne, CapStep, Uncaptured, Retiring,
      Elsewhere, callVars, engineVars, Pcs, TeardownPcs, FencePcs
<1>1. CASE \E p \in Procs : Continue(p) \/ EngineAnswers(p)
  BY <1>1, ContinueEngineStep
<1>2. ASSUME NEW p \in Procs, NEW i \in Ids, Start(p, i) PROVE EngineStep
  BY <1>2 DEF Start, At
<1>3. ASSUME NEW p \in Procs, NEW i \in Ids, ReconnectFires(i, p) PROVE EngineStep
  BY <1>3 DEF ReconnectFires
<1>4. ASSUME NEW p \in Procs, NEW i \in Ids, NEW v \in RetireVerbs, Retire(p, v, i) PROVE EngineStep
  BY <1>4 DEF Retire, At
<1>5. ASSUME NEW n \in Engines, NEW p \in Procs, NEW unlinked \in BOOLEAN, Lost(n, p, unlinked)
      PROVE EngineStep
  BY <1>5 DEF Lost
<1>6. ASSUME NEW n \in Engines, EngineReady(n) \/ EngineFails(n) \/ EngineClosed(n) \/ CredentialsRemoved(n)
      PROVE EngineStep
  BY <1>6, OnErrorEvicts DEF EngineReady, EngineFails, EngineClosed, CredentialsRemoved
<1>7. ASSUME NEW i \in Ids, Create(i) \/ WriteLands(i) PROVE EngineStep
  BY <1>7 DEF Create, WriteLands
<1>8. CASE UNCHANGED vars
  BY <1>8 DEF vars
<1> QED
  BY SMTT(30), <1>1, <1>2, <1>3, <1>4, <1>5, <1>6, <1>7, <1>8 DEF Next

\* A step keeps the references: a registered engine belongs to the id it is registered under, and a
\* call that has captured nothing holds nothing.
LEMMA EngineRefsStep == EngineInv /\ EngineStep => EngineRefs'
<1> SUFFICES ASSUME EngineInv, EngineStep PROVE EngineRefs'
  OBVIOUS
<1> USE ConstantsAssumption DEF ConstantsAssumption, EngineInv, CallsBound, EngineRefs
<1>1. ASSUME NEW p \in Procs, LaunchBegins(p) PROVE EngineRefs'
  BY <1>1 DEF LaunchBegins, InitializeEngine, Free, Goto, Uncaptured
<1>2. ASSUME NEW p \in Procs, WriteSettles(p) PROVE EngineRefs'
  BY <1>2 DEF WriteSettles, ForgetInitialStatus, Goto, Uncaptured
<1>3. ASSUME EvictsAtMostOne, UNCHANGED <<owner, pendInit>>
      PROVE /\ reg' \in [Ids -> Engines \cup {NoEngine}]
            /\ \A i \in Ids : reg'[i] # NoEngine => owner'[reg'[i]] = i
  BY <1>3 DEF EvictsAtMostOne, Evict
<1>4. ASSUME NEW p \in Procs, CapStep(p)
      PROVE /\ cap' \in [Procs -> Engines \cup {NoEngine}]
            /\ \A q \in Procs : pc'[q] \in Uncaptured => cap'[q] = NoEngine
  BY <1>4 DEF CapStep, End, Goto, Uncaptured, Retiring, Elsewhere
<1> QED
  BY <1>1, <1>2, <1>3, <1>4 DEF EngineStep

\* The session of a call changes only as the call begins or ends.
LEMMA SessionKept ==
  ASSUME CallsBound, CallStep, NEW q \in Procs, pc[q] = "i_write", pc'[q] = "i_write"
  PROVE sid'[q] = sid[q]
<1> USE DEF CallsBound
<1>1. CASE Rests
  BY <1>1 DEF Rests
<1>2. ASSUME NEW p \in Procs, Continues(p) PROVE sid'[q] = sid[q]
  BY <1>2 DEF Continues
<1>3. ASSUME NEW p \in Procs, Ends(p) PROVE sid'[q] = sid[q]
  BY <1>3 DEF Ends, End
<1>4. ASSUME NEW p \in Procs, NEW i \in Ids, StartBegins(p, i) \/ OtherBegins(p, i)
      PROVE sid'[q] = sid[q]
  BY <1>4 DEF StartBegins, OtherBegins, Begins
<1> QED
  BY <1>1, <1>2, <1>3, <1>4 DEF CallStep

\* A step keeps every INITIALIZING write known to the control that captured its engine.
LEMMA WriteTrackedStep == EngineInv /\ CallStep /\ EngineStep => WriteTracked'
<1> SUFFICES ASSUME EngineInv, CallStep, EngineStep PROVE WriteTracked'
  OBVIOUS
<1> USE ConstantsAssumption DEF ConstantsAssumption, EngineInv, CallsBound, EngineRefs, WriteTracked, Retiring
<1>1. ASSUME NEW p \in Procs, LaunchBegins(p) PROVE WriteTracked'
  BY <1>1 DEF LaunchBegins, InitializeEngine, Free, Goto
<1>2. \A q \in Procs : pc[q] = "i_write" /\ pc'[q] = "i_write" => sid'[q] = sid[q]
  BY SessionKept
<1>3. ASSUME NEW p \in Procs, WriteSettles(p) PROVE WriteTracked'
  BY <1>2, <1>3 DEF WriteSettles, ForgetInitialStatus, Goto
<1>4. ASSUME EvictsAtMostOne, UNCHANGED <<owner, pendInit>>,
             UNCHANGED <<pc, cap>> \/ \E p \in Procs : pc[p] # "i_write" /\ CapStep(p)
      PROVE WriteTracked'
  <2>1. \A i \in Ids : reg'[i] \in {reg[i], NoEngine}
    BY <1>4 DEF EvictsAtMostOne, Evict
  <2>2. CASE UNCHANGED <<pc, cap>>
    BY <1>2, <1>4, <2>1, <2>2
  <2>3. ASSUME NEW p \in Procs, pc[p] # "i_write", CapStep(p) PROVE WriteTracked'
    <3>1. \A q \in Procs \ {p} : pc'[q] = pc[q] /\ cap'[q] = cap[q]
      BY <2>3 DEF CapStep, End, Goto
    <3>2. pc'[p] # "i_write" /\ (pc'[p] \in Retiring => NotAwaited(cap'[p]))
      BY <2>3 DEF CapStep, End, Goto, Uncaptured, Elsewhere
    <3> QED
      BY <1>2, <1>4, <2>1, <3>1, <3>2 DEF NotAwaited
  <2> QED
    BY <1>4, <2>2, <2>3
<1> QED
  BY <1>1, <1>3, <1>4 DEF EngineStep

\* If the database never wedges a write for longer than the bound of awaitInitialStatus, then a
\* retiring control's final DISCONNECTED write is issued only after the INITIALIZING write of the
\* engine it captured has settled, for any number of concurrent controls, starts and reconnects and
\* in whatever order writes land ("a delayed INITIALIZING write always settles first").
THEOREM NoLateInitializingHolds ==
  ASSUME "statusTimeout" \notin Faults
  PROVE Spec => []NoLateInitializing
<1>1. Init => EngineInv
  BY ConstantsAssumption DEF Init, ConstantsAssumption, EngineInv, CallsBound, EngineRefs, WriteTracked,
     Pcs, Retiring
<1>2. EngineInv /\ [Next]_vars => EngineInv'
  BY NextCallStep, NextEngineStep, CallsBoundStep, EngineRefsStep, WriteTrackedStep DEF EngineInv
<1>3. EngineInv => NoLateInitializing
  BY ConstantsAssumption DEF ConstantsAssumption, EngineInv, EngineRefs, WriteTracked, NoLateInitializing, Retiring
<1> QED
  BY <1>1, <1>2, <1>3, PTL DEF Spec

-----------------------------------------------------------------------------
(* Types *)

\* Taking one element out of a sequence leaves a sequence of the same kind.
LEMMA WithoutIsSeq ==
  ASSUME NEW S, NEW s \in Seq(S), NEW k \in 1 .. Len(s)
  PROVE  Without(s, k) \in Seq(S)
<1>1. \A m, n \in Int : SubSeq(s, 1, k - 1) \in Seq(S) /\ SubSeq(s, k + 1, Len(s)) \in Seq(S)
  BY SMT
<1> QED BY <1>1 DEF Without

\* Issuing writes leaves queues of writes.
LEMMA IssuedOK ==
  ASSUME RowsOK, NEW i \in Ids, NEW ws \in Seq(Writes), Issue(i, ws)
  PROVE  inflight' \in [Ids -> Seq(Writes)]
BY DEF RowsOK, Issue

\* A write that lands leaves a status and a phone column.
LEMMA LandedOK ==
  ASSUME RowsOK, NEW i \in Ids, NEW k \in DOMAIN inflight[i], Land(i, k)
  PROVE  status' \in [Ids -> Statuses] /\ phone' \in [Ids -> BOOLEAN]
<1>1. inflight[i][k] \in Writes
  BY DEF RowsOK
<1>2. inflight[i][k].st \in Statuses \cup {"NO_PHONE"}
  BY <1>1 DEF Writes
<1>3. status' \in [Ids -> Statuses] 
  BY <1>2 DEF Land, RowsOK
<1>4. phone' \in [Ids -> BOOLEAN]
  BY <1>2 DEF Land, RowsOK
<1> QED BY <1>3, <1>4

\* A call's own write lands, and what it issues next is queued.
LEMMA OwnLandedOK ==
  ASSUME RowsOK, NEW p \in Procs, sid[p] \in Ids, NEW ws \in Seq(Writes), LandOwn(p, ws)
  PROVE  RowsOK'
<1>1. PICK k \in DOMAIN inflight[sid[p]] :
        /\ Land(sid[p], k) /\ UNCHANGED row
        /\ inflight' = [inflight EXCEPT ![sid[p]] = Without(@, k) \o ws]
  BY DEF LandOwn
<1>2. inflight[sid[p]] \in Seq(Writes) /\ k \in 1 .. Len(inflight[sid[p]])
  BY <1>1 DEF RowsOK
<1>3. Without(inflight[sid[p]], k) \o ws \in Seq(Writes)
  BY <1>2, WithoutIsSeq
<1>4. inflight' \in [Ids -> Seq(Writes)]
  BY <1>1, <1>3 DEF RowsOK
<1> QED BY <1>1, <1>4, LandedOK DEF RowsOK

CapturesOK ==
  /\ cap \in [Procs -> Engines \cup {NoEngine}]
  /\ snap \in [Procs -> SUBSET Engines]
  /\ \A p \in Procs : pc[p] = "r_init" => cap[p] # NoEngine

BudgetOK ==
  rstate \in [Ids -> {"absent", "idle", "armed"}] /\ attempts \in [Ids -> 0 .. MaxAttempts]

\* Every way to change a reconnect state keeps it within its clamp.
LEMMA BudgetKept ==
  ASSUME RegistryOK, NEW i \in Ids,
         \/ CancelReconnect(i) \/ FreshReconnectState(i) \/ UNCHANGED budget
         \/ \E streak \in Streaks(i) : ArmReconnect(i, streak)
         \/ rstate' = [rstate EXCEPT ![i] = "idle"] /\ UNCHANGED attempts
         \/ attempts' = [attempts EXCEPT ![i] = 0] /\ UNCHANGED rstate
  PROVE  BudgetOK'
<1> USE DEF RegistryOK, BudgetOK
<1>1. 0 \in 0 .. MaxAttempts
  BY ConstantsAssumption
<1>2. CASE CancelReconnect(i) \/ FreshReconnectState(i) \/ UNCHANGED budget
  BY <1>1, <1>2 DEF CancelReconnect, FreshReconnectState, budget
<1>3. ASSUME NEW streak \in Streaks(i), ArmReconnect(i, streak) PROVE BudgetOK'
  <2>1. streak \in 0 .. MaxAttempts
    BY <1>1, <1>3 DEF Streaks
  <2>2. streak < MaxAttempts => streak + 1 \in 0 .. MaxAttempts
    BY <2>1, ConstantsAssumption
  <2> QED BY <1>3, <2>1, <2>2, ConstantsAssumption DEF ArmReconnect, Exhausted, budget
<1> QED BY <1>1, <1>2, <1>3

\* What a fence captures are engines.
LEMMA CapturedOK ==
  ASSUME TypeOK, NEW i
  PROVE  Captured(i) \in SUBSET Engines
BY DEF TypeOK, EnginesOK, Captured, Pending

\* A control that marks its session and begins the teardown keeps the types of the registry ...
LEMMA MarkKeepsRegistry ==
  ASSUME TypeOK, NEW p \in Procs, sid[p] \in Ids, MarkAndTear(p)
  PROVE  RegistryOK'
<1>1. stopping' = stopping \cup {sid[p]} /\ CancelReconnect(sid[p]) /\ UNCHANGED <<reg, initializing, pendInit>>
  BY DEF MarkAndTear
<1>2. BudgetOK'
  BY <1>1, BudgetKept DEF TypeOK
<1> QED BY <1>1, <1>2 DEF TypeOK, RegistryOK, BudgetOK

\* ... and of the engines: what it closes is an engine of the registry.
LEMMA TeardownKeepsEngines ==
  ASSUME TypeOK, NEW p \in Procs, NEW n \in Engines, BeginTeardown(p, n), UNCHANGED <<owner, disk>>
  PROVE  EnginesOK'
BY DEF TypeOK, EnginesOK, BeginTeardown, Close, Phases

\* ... whether there was one or not.
LEMMA MarkKeepsEngines ==
  ASSUME TypeOK, NEW p \in Procs, sid[p] \in Ids, MarkAndTear(p)
  PROVE  EnginesOK'
<1>1. UNCHANGED <<phase, tracked>> \/ (reg[sid[p]] \in Engines /\ BeginTeardown(p, reg[sid[p]]))
  BY DEF MarkAndTear, TypeOK, RegistryOK
<1>2. UNCHANGED <<owner, disk>>
  BY DEF MarkAndTear
<1> QED BY <1>1, <1>2, TeardownKeepsEngines DEF TypeOK, EnginesOK

\* What a step may do to the rows and to the writes in flight.
RowMove ==
  \/ UNCHANGED <<rowVars, inflight>>
  \/ UNCHANGED rowVars /\ \E i \in Ids, ws \in Seq(Writes) : Issue(i, ws)
  \/ \E p \in Procs, ws \in Seq(Writes) : sid[p] \in Ids /\ LandOwn(p, ws)
  \/ \E i \in Ids, st \in {"present", "deleted"} :
       row' = [row EXCEPT ![i] = st] /\ UNCHANGED <<status, phone, inflight>>
  \/ \E i \in Ids : \E k \in DOMAIN inflight[i] :
       /\ UNCHANGED row /\ (UNCHANGED <<status, phone>> \/ Land(i, k))
       /\ inflight' = [inflight EXCEPT ![i] = Without(@, k)]

\* Each of these keeps the types of the rows.
LEMMA RowMoveKeeps ==
  ASSUME RowsOK, RowMove
  PROVE  RowsOK'
<1>1. CASE UNCHANGED <<rowVars, inflight>>
  BY <1>1 DEF RowsOK, rowVars
<1>2. ASSUME NEW i \in Ids, NEW ws \in Seq(Writes), Issue(i, ws), UNCHANGED rowVars PROVE RowsOK'
  BY <1>2, IssuedOK DEF RowsOK, rowVars
<1>3. ASSUME NEW p \in Procs, NEW ws \in Seq(Writes), sid[p] \in Ids, LandOwn(p, ws) PROVE RowsOK'
  BY <1>3, OwnLandedOK
<1>4. ASSUME NEW i \in Ids, NEW st \in {"present", "deleted"},
             row' = [row EXCEPT ![i] = st], UNCHANGED <<status, phone, inflight>>
      PROVE  RowsOK'
  BY <1>4 DEF RowsOK
<1>5. ASSUME NEW i \in Ids, NEW k \in DOMAIN inflight[i], UNCHANGED row,
             UNCHANGED <<status, phone>> \/ Land(i, k), inflight' = [inflight EXCEPT ![i] = Without(@, k)]
      PROVE  RowsOK'
  <2>1. inflight[i] \in Seq(Writes) /\ k \in 1 .. Len(inflight[i])
    BY <1>5 DEF RowsOK
  <2>2. inflight' \in [Ids -> Seq(Writes)]
    BY <1>5, <2>1, WithoutIsSeq DEF RowsOK
  <2>3. status' \in [Ids -> Statuses] /\ phone' \in [Ids -> BOOLEAN]
    BY <1>5, LandedOK DEF RowsOK
  <2> QED BY <1>5, <2>2, <2>3 DEF RowsOK
<1> QED BY <1>1, <1>2, <1>3, <1>4, <1>5 DEF RowMove

\* The writes that a call or an engine issues.
LEMMA IssuesWrites ==
  /\ <<>> \in Seq(Writes)
  /\ \A p \in Procs \cup {NoProc} :
       \A st \in {"INITIALIZING", "DISCONNECTED", "FAILED", "READY", "NO_PHONE"} :
         <<Write(st, p)>> \in Seq(Writes)
  /\ \A n : ClosingNotice(n) \in Seq(Writes)
  /\ \A i, k : /\ ExhaustedWrite(i, k) \in Seq(Writes)
               /\ <<Write("DISCONNECTED", NoProc)>> \o ExhaustedWrite(i, k) \in Seq(Writes)
<1>1. \A st \in {"INITIALIZING", "DISCONNECTED", "FAILED", "READY", "NO_PHONE"}, p \in Procs \cup {NoProc} :
        <<Write(st, p)>> \in Seq(Writes)
  BY DEF Write, Writes, Statuses
<1>2. \A i, k : ExhaustedWrite(i, k) \in Seq(Writes)
  BY <1>1 DEF ExhaustedWrite
<1> QED BY <1>1, <1>2 DEF ClosingNotice

\* Every action keeps the types of the registry, the marks and the reconnect states.
LEMMA RegistryStep ==
  ASSUME TypeOK, CallsBound, [Next]_vars
  PROVE  RegistryOK'
<1> USE DEF TypeOK, RowsOK, RegistryOK, EnginesOK, CallsOK, CallsBound, At, Resumes, budget, callVars,
      engineVars
<1>1. ASSUME NEW p \in Procs, InitWritten(p) PROVE RegistryOK'
  BY <1>1 DEF InitWritten, ForgetInitialStatus
<1>2. ASSUME NEW p \in Procs, InitWriteFails(p) PROVE RegistryOK'
  BY <1>2 DEF InitWriteFails, ForgetInitialStatus
<1>3. ASSUME NEW p \in Procs, InitDeadline(p) PROVE RegistryOK'
  BY <1>3 DEF InitDeadline, Evict
<1>4. ASSUME NEW p \in Procs, InitReaped(p) \/ InitGaveUp(p) \/ Initialized(p) PROVE RegistryOK'
  BY <1>4 DEF InitReaped, InitGaveUp, Initialized
<1>5. ASSUME NEW p \in Procs,
             CheckRetired(p) \/ Undone(p) \/ PurgeCheck(p) \/ Wipe(p) \/ StartReplies(p) \/
             StartCatch(p)
      PROVE RegistryOK'
  BY <1>5
  DEF CheckRetired, Finish, End, Undone, DeleteIfLive, PurgeCheck, Wipe, StartReplies, StartCatch, Evict
<1>6. ASSUME NEW p \in Procs, StartRead(p) \/ StartFenced(p) PROVE RegistryOK'
  BY <1>6, BudgetKept DEF BudgetOK, StartRead, Reject, End, StartAccepted, StartFenced
<1>7. ASSUME NEW p \in Procs, StartHooked(p) PROVE RegistryOK'
  BY <1>7, BudgetKept DEF BudgetOK, StartHooked, InitializeEngine
<1>8. ASSUME NEW p \in Procs,
             StartReaped(p) \/ StartFailed(p) \/ InitialStatusSettled(p) \/ RetireTornDown(p) \/
             RetireWritten(p) \/ LogoutForgot(p)
      PROVE RegistryOK'
  BY <1>8
  DEF StartReaped, StartFailed, End, InitialStatusSettled, RetireTornDown, DeleteIfLive, RetireWritten,
     LogoutForgot
<1>9. ASSUME NEW p \in Procs, RetireRead(p) \/ DeleteFenced1(p) PROVE RegistryOK'
  BY <1>9, MarkKeepsRegistry DEF RetireRead, Reject, End, DeleteFenced1
<1>10. ASSUME NEW p \in Procs,
             DeleteFenced2(p) \/ DeleteRefused2(p) \/ DeleteGaveUp(p) \/ DeleteHooked(p) \/
             DeleteCommitted(p) \/ DeletePurged(p)
      PROVE RegistryOK'
  BY <1>10
  DEF DeleteFenced2, DeleteRefused2, End, DeleteGaveUp, DeleteHooked, DeleteCommitted, DeletePurged
<1>11. ASSUME NEW p \in Procs, FenceRefused(p) \/ ReconnectTornDown(p) PROVE RegistryOK'
  BY <1>11 DEF FenceRefused, Reject, End, ReconnectTornDown, DeleteIfLive
<1>12. ASSUME NEW p \in Procs, LostRead(p) PROVE RegistryOK'
  <2>1. BudgetOK'
    BY <1>12, BudgetKept DEF LostRead
  <2>2. reg' \in [Ids -> Engines \cup {NoEngine}] /\ initializing' \subseteq Ids
    BY <1>12 DEF LostRead, End, GiveUp, Evict
  <2> QED BY <1>12, <2>1, <2>2 DEF LostRead, BudgetOK
<1>13. ASSUME NEW p \in Procs, ReconnectFenced(p) PROVE RegistryOK'
  BY <1>13 DEF ReconnectFenced, InitializeEngine
<1>14. ASSUME NEW p \in Procs, ReconnectRefused(p) \/ InitResolves(p) PROVE RegistryOK'
  BY <1>14 DEF ReconnectRefused, InitResolves
<1>15. ASSUME NEW p \in Procs, ReconnectCatch(p) \/ InitRejects(p) PROVE RegistryOK'
  BY <1>15, BudgetKept DEF ReconnectCatch, BudgetOK, End, Evict, InitRejects, OnError, Live
<1>16. ASSUME NEW p \in Procs, NEW i \in Ids, Start(p, i) PROVE RegistryOK'
  BY <1>16 DEF Start
<1>17. ASSUME NEW p \in Procs, NEW i \in Ids, ReconnectFires(i, p) PROVE RegistryOK'
  BY <1>17 DEF ReconnectFires
<1>18. ASSUME NEW p \in Procs, NEW i \in Ids, NEW v \in RetireVerbs, Retire(p, v, i) PROVE RegistryOK'
  BY <1>18 DEF Retire
<1>19. ASSUME NEW n \in Engines, NEW p \in Procs, NEW unlinked \in BOOLEAN, Lost(n, p, unlinked)
      PROVE RegistryOK'
  BY <1>19 DEF Lost
<1>20. ASSUME NEW n \in Engines, EngineReady(n) PROVE RegistryOK'
  BY <1>20, BudgetKept DEF BudgetOK, EngineReady, Live
<1>21. ASSUME NEW n \in Engines, EngineFails(n) PROVE RegistryOK'
  BY <1>21, BudgetKept DEF BudgetOK, EngineFails, OnError, Live, Issue, Evict, Close
<1>22. ASSUME NEW n \in Engines, EngineClosed(n) \/ CredentialsRemoved(n) PROVE RegistryOK'
  BY <1>22 DEF EngineClosed, CredentialsRemoved
<1>23. ASSUME NEW i \in Ids, Create(i) \/ WriteLands(i) PROVE RegistryOK'
  BY <1>23 DEF Create, WriteLands
<1>24. CASE UNCHANGED vars
  BY <1>24 DEF vars
<1> QED BY <1>1, <1>2, <1>3, <1>4, <1>5, <1>6, <1>7, <1>8, <1>9, <1>10, <1>11, <1>12, <1>13, <1>14,
   <1>15, <1>16, <1>17, <1>18, <1>19, <1>20, <1>21, <1>22, <1>23, <1>24 DEF Next, Continue, EngineAnswers

\* Every action keeps the types of the engines.
LEMMA EnginesStep ==
  ASSUME TypeOK, CallsBound, CapturesOK, [Next]_vars
  PROVE  EnginesOK'
<1> USE DEF TypeOK, RegistryOK, EnginesOK, CallsBound, At, Resumes, engineVars, Phases
<1>1. ASSUME NEW p \in Procs, InitWritten(p) PROVE EnginesOK'
  <2>1. sid[p] \in Ids
    BY <1>1 DEF InitWritten
  <2>2. UNCHANGED <<tracked, owner>>
    BY <1>1 DEF InitWritten
  <2>3. phase' = phase \/ phase' = [phase EXCEPT ![cap[p]] = "launching"]
    BY <1>1 DEF InitWritten
  <2>4. disk' = disk \/ disk' = disk \cup {NameOf[sid[p]]}
    BY <1>1 DEF InitWritten
  <2> QED BY <2>1, <2>2, <2>3, <2>4
<1>2. ASSUME NEW p \in Procs,
             InitWriteFails(p) \/ InitDeadline(p) \/ InitReaped(p) \/ InitGaveUp(p) \/ Initialized(p) \/
             CheckRetired(p)
      PROVE EnginesOK'
  BY <1>2
  DEF InitWriteFails, InitDeadline, Close, InitReaped, InitGaveUp, Initialized, Undo, CheckRetired
<1>3. ASSUME NEW p \in Procs,
             Undone(p) \/ PurgeCheck(p) \/ Wipe(p) \/ StartReplies(p) \/ StartRead(p) \/ StartFenced(p)
      PROVE EnginesOK'
  BY <1>3 DEF Undone, PurgeCheck, Wipe, StartReplies, StartRead, Reject, StartAccepted, StartFenced
<1>4. ASSUME NEW p \in Procs,
             StartHooked(p) \/ StartCatch(p) \/ StartReaped(p) \/ StartFailed(p) \/ RetireTornDown(p) \/
             RetireWritten(p)
      PROVE EnginesOK'
  BY <1>4
  DEF StartHooked, InitializeEngine, StartCatch, Close, StartReaped, StartFailed, RetireTornDown,
     RetireWritten
<1>5. ASSUME NEW p \in Procs, RetireRead(p) \/ DeleteFenced1(p) PROVE EnginesOK'
  BY <1>5, MarkKeepsEngines DEF RetireRead, Reject, DeleteFenced1
<1>6. ASSUME NEW p \in Procs, InitialStatusSettled(p) PROVE EnginesOK'
  BY <1>6, TeardownKeepsEngines DEF InitialStatusSettled, CapturesOK
<1>7. ASSUME NEW p \in Procs,
             LogoutForgot(p) \/ DeleteFenced2(p) \/ DeleteRefused2(p) \/ DeleteGaveUp(p) \/
             DeleteHooked(p) \/ DeleteCommitted(p)
      PROVE EnginesOK'
  BY <1>7 DEF LogoutForgot, DeleteFenced2, DeleteRefused2, DeleteGaveUp, DeleteHooked, DeleteCommitted
<1>8. ASSUME NEW p \in Procs,
             DeletePurged(p) \/ FenceRefused(p) \/ LostRead(p) \/ ReconnectTornDown(p) \/
             ReconnectFenced(p) \/ ReconnectRefused(p)
      PROVE EnginesOK'
  BY <1>8
  DEF DeletePurged, FenceRefused, Reject, LostRead, GiveUp, Close, ReconnectTornDown, ReconnectFenced,
     InitializeEngine, ReconnectRefused
<1>9. ASSUME NEW p \in Procs, ReconnectCatch(p) \/ InitResolves(p) \/ InitRejects(p) PROVE EnginesOK'
  BY <1>9 DEF ReconnectCatch, Close, InitResolves, InitRejects, OnError
<1>10. ASSUME NEW p \in Procs, NEW i \in Ids, Start(p, i) PROVE EnginesOK'
  BY <1>10 DEF Start
<1>11. ASSUME NEW p \in Procs, NEW i \in Ids, ReconnectFires(i, p) PROVE EnginesOK'
  BY <1>11 DEF ReconnectFires, Close
<1>12. ASSUME NEW p \in Procs, NEW i \in Ids, NEW v \in RetireVerbs, Retire(p, v, i) PROVE EnginesOK'
  BY <1>12 DEF Retire
<1>13. ASSUME NEW n \in Engines, NEW p \in Procs, NEW unlinked \in BOOLEAN, Lost(n, p, unlinked)
      PROVE EnginesOK'
  BY <1>13 DEF Lost
<1>14. ASSUME NEW n \in Engines,
             EngineReady(n) \/ EngineFails(n) \/ EngineClosed(n) \/ CredentialsRemoved(n)
      PROVE EnginesOK'
  BY <1>14 DEF EngineReady, EngineFails, OnError, Close, EngineClosed, CredentialsRemoved
<1>15. ASSUME NEW i \in Ids, Create(i) \/ WriteLands(i) PROVE EnginesOK'
  BY <1>15 DEF Create, WriteLands
<1>16. CASE UNCHANGED vars
  BY <1>16 DEF vars
<1> QED BY <1>1, <1>2, <1>3, <1>4, <1>5, <1>6, <1>7, <1>8, <1>9, <1>10, <1>11, <1>12, <1>13, <1>14,
   <1>15, <1>16 DEF Next, Continue, EngineAnswers

\* Every action keeps the types of what calls hold; a control awaits the write of an engine it has.
LEMMA CapturesStep ==
  ASSUME TypeOK, CallsBound, CapturesOK, [Next]_vars
  PROVE  CapturesOK'
<1> USE DEF TypeOK, RegistryOK, EnginesOK, CapturesOK, CallsBound, At, Resumes, callVars, engineVars,
      Goto
<1>1. ASSUME NEW p \in Procs, InitWritten(p) \/ InitWriteFails(p) \/ InitDeadline(p) PROVE CapturesOK'
  BY <1>1 DEF InitWritten, InitWriteFails, InitDeadline
<1>2. ASSUME NEW p \in Procs, InitReaped(p) PROVE CapturesOK'
  BY <1>2 DEF InitReaped
<1>3. ASSUME NEW p \in Procs, InitGaveUp(p) PROVE CapturesOK'
  BY <1>3 DEF InitGaveUp
<1>4. ASSUME NEW p \in Procs, Initialized(p) PROVE CapturesOK'
  BY <1>4 DEF Initialized, Undo
<1>5. ASSUME NEW p \in Procs,
             CheckRetired(p) \/ Undone(p) \/ PurgeCheck(p) \/ Wipe(p) \/ StartReplies(p) \/
             StartFenced(p)
      PROVE CapturesOK'
  BY <1>5
  DEF CheckRetired, Finish, End, Undo, Undone, PurgeCheck, Wipe, StartReplies, StartFenced,
     StartAccepted
<1>6. ASSUME NEW p \in Procs,
             StartRead(p) \/ RetireRead(p) \/ RetireTornDown(p) \/ DeleteFenced1(p) \/
             ReconnectTornDown(p)
      PROVE CapturesOK'
  BY <1>6, CapturedOK
  DEF StartRead, Reject, End, StartAccepted, RetireRead, MarkAndTear, AfterTeardown, BeginTeardown,
     RetireTornDown, DeleteFenced1, ReconnectTornDown
<1>7. ASSUME NEW p \in Procs, StartHooked(p) \/ StartCatch(p) \/ StartReaped(p) PROVE CapturesOK'
  BY <1>7 DEF StartHooked, InitializeEngine, StartCatch, End, StartReaped
<1>8. ASSUME NEW p \in Procs, StartFailed(p) PROVE CapturesOK'
  BY <1>8 DEF StartFailed, End
<1>9. ASSUME NEW p \in Procs, InitialStatusSettled(p) PROVE CapturesOK'
  BY <1>9 DEF InitialStatusSettled, BeginTeardown
<1>10. ASSUME NEW p \in Procs, RetireWritten(p) PROVE CapturesOK'
  BY <1>10 DEF RetireWritten, End
<1>11. ASSUME NEW p \in Procs, LogoutForgot(p) PROVE CapturesOK'
  BY <1>11 DEF LogoutForgot, End
<1>12. ASSUME NEW p \in Procs, DeleteFenced2(p) \/ DeleteRefused2(p) PROVE CapturesOK'
  BY <1>12 DEF DeleteFenced2, DeleteRefused2, End
<1>13. ASSUME NEW p \in Procs, DeleteGaveUp(p) \/ DeleteHooked(p) \/ DeleteCommitted(p)
      PROVE CapturesOK'
  BY <1>13 DEF DeleteGaveUp, End, DeleteHooked, DeleteCommitted
<1>14. ASSUME NEW p \in Procs,
             DeletePurged(p) \/ FenceRefused(p) \/ LostRead(p) \/ ReconnectFenced(p) \/
             ReconnectRefused(p) \/ ReconnectCatch(p)
      PROVE CapturesOK'
  BY <1>14
  DEF DeletePurged, End, FenceRefused, Reject, LostRead, ReconnectFenced, InitializeEngine,
     ReconnectRefused, ReconnectCatch
<1>15. ASSUME NEW p \in Procs, InitResolves(p) \/ InitRejects(p) PROVE CapturesOK'
  BY <1>15 DEF InitResolves, InitRejects
<1>16. ASSUME NEW p \in Procs, NEW i \in Ids, Start(p, i) PROVE CapturesOK'
  BY <1>16 DEF Start
<1>17. ASSUME NEW p \in Procs, NEW i \in Ids, ReconnectFires(i, p) PROVE CapturesOK'
  BY <1>17, CapturedOK DEF ReconnectFires
<1>18. ASSUME NEW p \in Procs, NEW i \in Ids, NEW v \in RetireVerbs, Retire(p, v, i) PROVE CapturesOK'
  BY <1>18 DEF Retire
<1>19. ASSUME NEW n \in Engines, NEW p \in Procs, NEW unlinked \in BOOLEAN, Lost(n, p, unlinked)
      PROVE CapturesOK'
  BY <1>19 DEF Lost
<1>20. ASSUME NEW n \in Engines,
             EngineReady(n) \/ EngineFails(n) \/ EngineClosed(n) \/ CredentialsRemoved(n)
      PROVE CapturesOK'
  BY <1>20 DEF EngineReady, EngineFails, EngineClosed, CredentialsRemoved
<1>21. ASSUME NEW i \in Ids, Create(i) \/ WriteLands(i) PROVE CapturesOK'
  BY <1>21 DEF Create, WriteLands
<1>22. CASE UNCHANGED vars
  BY <1>22 DEF vars
<1> QED BY <1>1, <1>2, <1>3, <1>4, <1>5, <1>6, <1>7, <1>8, <1>9, <1>10, <1>11, <1>12, <1>13, <1>14,
   <1>15, <1>16, <1>17, <1>18, <1>19, <1>20, <1>21, <1>22 DEF Next, Continue, EngineAnswers

\* Every action moves the rows and the writes in flight in one of these ways.
LEMMA RowsMove ==
  ASSUME TypeOK, CallsBound, [Next]_vars
  PROVE  RowMove
<1> USE DEF RowMove, TypeOK, RegistryOK, EnginesOK, CallsBound, At, Resumes, rowVars
<1>1. ASSUME NEW p \in Procs,
             InitWritten(p) \/ InitReaped(p) \/ InitGaveUp(p) \/ Initialized(p) \/ CheckRetired(p) \/
             StartHooked(p)
      PROVE RowMove
  BY <1>1, IssuesWrites
  DEF InitWritten, InitReaped, InitGaveUp, Initialized, Undo, CheckRetired, StartHooked,
     InitializeEngine
<1>2. ASSUME NEW p \in Procs,
             InitWriteFails(p) \/ InitDeadline(p) \/ Undone(p) \/ PurgeCheck(p) \/ Wipe(p) \/
             StartReplies(p)
      PROVE RowMove
  BY <1>2 DEF InitWriteFails, InitDeadline, Undone, PurgeCheck, Wipe, StartReplies
<1>3. ASSUME NEW p \in Procs,
             StartRead(p) \/ StartFenced(p) \/ StartCatch(p) \/ DeleteFenced2(p) \/ DeleteHooked(p) \/
             DeleteCommitted(p)
      PROVE RowMove
  BY <1>3
  DEF StartRead, Reject, StartAccepted, StartFenced, StartCatch, DeleteFenced2, DeleteHooked,
     DeleteCommitted
<1>4. ASSUME NEW p \in Procs,
             StartReaped(p) \/ StartFailed(p) \/ RetireRead(p) \/ InitialStatusSettled(p) \/
             RetireTornDown(p) \/ RetireWritten(p)
      PROVE RowMove
  BY <1>4, IssuesWrites
  DEF StartReaped, StartFailed, RetireRead, Reject, MarkAndTear, AfterTeardown, BeginTeardown,
     InitialStatusSettled, RetireTornDown, RetireWritten
<1>5. ASSUME NEW p \in Procs,
             LogoutForgot(p) \/ DeleteFenced1(p) \/ DeleteRefused2(p) \/ DeleteGaveUp(p) \/
             LostRead(p) \/ ReconnectFenced(p)
      PROVE RowMove
  BY <1>5, IssuesWrites
  DEF LogoutForgot, DeleteFenced1, MarkAndTear, AfterTeardown, BeginTeardown, DeleteRefused2,
     DeleteGaveUp, LostRead, ReconnectFenced, InitializeEngine
<1>6. ASSUME NEW p \in Procs,
             DeletePurged(p) \/ FenceRefused(p) \/ ReconnectTornDown(p) \/ ReconnectRefused(p) \/
             InitResolves(p)
      PROVE RowMove
  BY <1>6 DEF DeletePurged, FenceRefused, Reject, ReconnectTornDown, ReconnectRefused, InitResolves
<1>7. ASSUME NEW p \in Procs, ReconnectCatch(p) \/ InitRejects(p) PROVE RowMove
  BY <1>7, IssuesWrites DEF ReconnectCatch, InitRejects, OnError, Live
<1>8. ASSUME NEW p \in Procs, NEW i \in Ids, Start(p, i) PROVE RowMove
  BY <1>8 DEF Start
<1>9. ASSUME NEW p \in Procs, NEW i \in Ids, ReconnectFires(i, p) PROVE RowMove
  BY <1>9, IssuesWrites DEF ReconnectFires
<1>10. ASSUME NEW p \in Procs, NEW i \in Ids, NEW v \in RetireVerbs, Retire(p, v, i) PROVE RowMove
  BY <1>10 DEF Retire
<1>11. ASSUME NEW n \in Engines, NEW p \in Procs, NEW unlinked \in BOOLEAN, Lost(n, p, unlinked)
      PROVE RowMove
  BY <1>11, IssuesWrites DEF Lost, Live
<1>12. ASSUME NEW n \in Engines, EngineReady(n) \/ EngineFails(n) PROVE RowMove
  BY <1>12, IssuesWrites DEF EngineReady, Live, EngineFails, OnError
<1>13. ASSUME NEW n \in Engines, EngineClosed(n) \/ CredentialsRemoved(n) PROVE RowMove
  BY <1>13 DEF EngineClosed, CredentialsRemoved
<1>14. ASSUME NEW i \in Ids, Create(i) \/ WriteLands(i) PROVE RowMove
  BY <1>14 DEF Create, WriteLands
<1>15. CASE UNCHANGED vars
  BY <1>15 DEF vars
<1> QED BY <1>1, <1>2, <1>3, <1>4, <1>5, <1>6, <1>7, <1>8, <1>9, <1>10, <1>11, <1>12, <1>13, <1>14,
   <1>15 DEF Next, Continue, EngineAnswers

\* Every step keeps all types.
LEMMA TypesStep ==
  ASSUME TypeOK, CallsBound, CapturesOK, [Next]_vars
  PROVE  TypeOK' /\ CallsBound' /\ CapturesOK'
<1>1. RowsOK'
  BY RowsMove, RowMoveKeeps DEF TypeOK
<1>2. RegistryOK'
  BY RegistryStep
<1>3. EnginesOK'
  BY EnginesStep
<1>4. CapturesOK'
  BY CapturesStep
<1>5. CallsBound'
  BY NextCallStep, CallsBoundStep
<1> QED BY <1>1, <1>2, <1>3, <1>4, <1>5 DEF TypeOK, CallsOK, CapturesOK, CallsBound

\* The types hold at first.
LEMMA InitTypes == Init => TypeOK /\ CallsBound /\ CapturesOK
BY ConstantsAssumption
DEF Init, TypeOK, RowsOK, RegistryOK, EnginesOK, CallsOK, CallsBound, CapturesOK, Statuses, Phases, Pcs

\* Every variable keeps its type (SessionLifecycle!TypeOK), for any constants.  It is not inductive
\* alone: an engine is torn down by the call that captured it, which the invariant must say exists.
THEOREM SessionTypes == Spec => []TypeOK
<1>1. TypeOK /\ CallsBound /\ CapturesOK /\ [Next]_vars => (TypeOK /\ CallsBound /\ CapturesOK)'
  BY TypesStep
<1> QED BY <1>1, InitTypes, PTL DEF Spec

-----------------------------------------------------------------------------
(* Engines and the registry while no link is lost: starts, controls, failures and deadlines.     *)

StartPcs == {"s_read", "s_fence", "s_hook", "i_write", "i_run", "i_td", "i_dw", "inited", "threw", "check",
             "undo", "purge", "wipe", "s_reply", "s_catch", "s_failed"}
RetirePcs == {"r_read", "d_fence1", "r_init", "r_td", "r_dw", "r_phone", "d_fence2", "d_dw", "d_hook", "d_tx",
              "d_purge"}

\* Without a lost link there is no disconnect handler, no reconnect timer and no attempt.
NoReconnects ==
  /\ \A p \in Procs : /\ pc[p] \in StartPcs \cup RetirePcs \cup {"idle"}
                      /\ pc[p] \in StartPcs => verb[p] = "start"
                      /\ pc[p] \in RetirePcs => verb[p] \in RetireVerbs
  /\ \A i \in Ids : rstate[i] # "armed"
  /\ \A n \in Engines : phase[n] # "lost"

\* The awaits at which a start holds the engine it built.
Launched == {"i_write", "i_run", "i_td", "i_dw", "inited", "threw", "check", "undo", "s_catch", "s_failed"}
TearingDown == {"i_td", "s_catch", "undo", "r_td"}

\* The engine a call holds is one of its session's, and what it may be doing.
HolderAt(p) ==
  /\ pc[p] \in Launched \cup {"r_init", "r_td"} => cap[p] \in Engines /\ owner[cap[p]] = sid[p]
  /\ pc[p] \in TearingDown => phase[cap[p]] \in {"closing", "closed"}
  /\ pc[p] = "i_write" => phase[cap[p]] \in {"built", "closed"} /\ cap[p] \notin tracked

\* While a start is past its duplicate check no engine but its own is registered.
StartAt(p) ==
  /\ pc[p] \in {"s_fence", "s_hook"} => reg[sid[p]] = NoEngine
  /\ pc[p] \in Launched => reg[sid[p]] \in {NoEngine, cap[p]}

\* Some call holds n at one of these awaits.
Held(n, ls) == \E p \in Procs : cap[p] = n /\ pc[p] \in ls

\* A registered engine that does not serve, or that is not to stay, is held by a call that will
\* launch it or take it out.
BuiltAt(i) ==
  phase[reg[i]] = "built" =>
    Held(reg[i], {"i_write", "threw"}) \/ (Held(reg[i], {"inited"}) /\ i \in stopping)
LaunchingAt(i) == phase[reg[i]] = "launching" => Held(reg[i], {"i_run"})
ClosingAt(i) == phase[reg[i]] \in {"closing", "closed"} => Held(reg[i], {"r_td", "undo"})
StoppingAt(i) == i \in stopping => Held(reg[i], {"r_init", "r_td", "i_write", "inited", "threw", "undo"})
CancelledAt(i) == rstate[i] = "absent" => Held(reg[i], {"r_init", "r_td"})
RegisteredAt(i) ==
  reg[i] # NoEngine =>
    owner[reg[i]] = i /\ BuiltAt(i) /\ LaunchingAt(i) /\ ClosingAt(i) /\ StoppingAt(i) /\ CancelledAt(i)

Accounted ==
  /\ NoReconnects /\ NoOrphan
  /\ \A p \in Procs : HolderAt(p) /\ StartAt(p)
  /\ \A i \in Ids : RegisteredAt(i)

\* What a step may do to the engines, the registry and the calls that hold engines.
Acts(p, l) == pc[p] # "idle" /\ Goto(p, l) /\ UNCHANGED callVars
RegistryRests == UNCHANGED <<reg, owner, phase, tracked, rstate>>
MayTrack(n) == tracked' = tracked \/ (phase[n] \notin {"built", "closed"} /\ tracked' = tracked \cup {n})

EngineEvent ==
  /\ UNCHANGED <<pc, callVars, cap, snap, owner, stopping>> /\ tracked' \subseteq tracked
  /\ \/ UNCHANGED <<reg, phase, rstate>>
     \/ \E n \in Engines : /\ UNCHANGED <<reg, rstate>>
                           /\ \/ phase[n] \in {"launching", "open"} /\ phase' = [phase EXCEPT ![n] = "ready"]
                              \/ phase[n] = "closing" /\ phase' = [phase EXCEPT ![n] = "closed"]
     \/ \E n \in Engines : /\ Quiet /\ phase[n] \in {"open", "ready"} /\ Live(n)
                           /\ Evict(owner[n]) /\ Close(n)
                           /\ rstate' = [rstate EXCEPT ![owner[n]] = "absent"]

CallBegins(p) ==
  /\ pc[p] = "idle" /\ RegistryRests /\ UNCHANGED <<stopping, cap>>
  /\ \E i \in Ids, v \in RetireVerbs \cup {"start"} :
       /\ sid' = [sid EXCEPT ![p] = i] /\ verb' = [verb EXCEPT ![p] = v]
       /\ Goto(p, IF v = "start" THEN "s_read" ELSE "r_read")

\* What a start that goes past its checks has found: room under the cap, and the removals to wait for.
Checked(p) == pc[p] = "s_read" => Quiet /\ ~(Cardinality(ActiveIds \ {sid[p]}) >= MaxSessions)

\* A call that goes on, or ends, with the engine it holds left as it is.
Onward == {<<"i_write", "threw">>, <<"i_td", "i_dw">>, <<"i_dw", "threw">>, <<"check", "s_reply">>,
           <<"purge", "wipe">>, <<"purge", "s_reply">>, <<"wipe", "s_reply">>, <<"s_catch", "s_failed">>,
           <<"r_read", "d_fence1">>, <<"r_dw", "r_phone">>, <<"d_fence2", "d_hook">>, <<"d_fence2", "d_dw">>,
           <<"d_hook", "d_tx">>, <<"d_tx", "d_purge">>}
Passes(p) ==
  /\ RegistryRests
  /\ stopping' = stopping \/ (Quiet /\ stopping' \subseteq stopping)
  /\ \/ \E l \in Pcs : <<pc[p], l>> \in Onward /\ Acts(p, l) /\ UNCHANGED cap
     \/ /\ pc[p] = "s_read" /\ reg[sid[p]] = NoEngine /\ Checked(p) /\ Acts(p, "s_fence")
        /\ snap' = [snap EXCEPT ![p] = Captured(sid[p])] /\ UNCHANGED cap
     \/ pc[p] = "i_write" /\ ~MayLaunch(sid[p], cap[p]) /\ Acts(p, "inited") /\ UNCHANGED <<cap, stopping>>
     \/ pc[p] = "inited" /\ sid[p] \notin stopping /\ Acts(p, "check") /\ UNCHANGED <<cap, stopping>>
     \/ /\ pc[p] \in {"inited", "check"} /\ reg[sid[p]] = NoEngine
        /\ Acts(p, "purge") /\ cap' = [cap EXCEPT ![p] = NoEngine]
     \/ /\ pc[p] \notin {"idle", "i_write", "i_run", "inited", "undo", "r_init", "r_td"} /\ End(p)
        /\ pc[p] = "threw" => reg[sid[p]] = NoEngine

Accepts(p) ==
  /\ pc[p] \in {"s_read", "s_fence"} /\ reg[sid[p]] = NoEngine /\ Acts(p, "s_hook")
  /\ Checked(p)
  /\ IF pc[p] = "s_read" THEN Captured(sid[p]) = {} ELSE snap[p] \cap tracked = {}
  /\ stopping' = stopping \ {sid[p]}
  /\ rstate' = [rstate EXCEPT ![sid[p]] = "absent"]
  /\ UNCHANGED <<reg, owner, phase, tracked, cap>>

Registers(p) ==
  /\ pc[p] = "s_hook" /\ Quiet /\ InitializeEngine(p) /\ UNCHANGED callVars
  /\ rstate' = [rstate EXCEPT ![sid[p]] = "idle"]
  /\ UNCHANGED <<tracked, stopping>>

Launches(p) ==
  /\ pc[p] = "i_write" /\ Quiet /\ MayLaunch(sid[p], cap[p]) /\ Acts(p, "i_run")
  /\ phase' = [phase EXCEPT ![cap[p]] = "launching"]
  /\ UNCHANGED <<reg, owner, tracked, stopping, rstate, cap>>

RunEnds(p) ==
  /\ pc[p] = "i_run" /\ UNCHANGED <<owner, tracked, stopping, cap>>
  /\ \/ /\ Acts(p, "inited") /\ UNCHANGED <<reg, rstate>>
        /\ phase' = [phase EXCEPT ![cap[p]] = IF @ = "launching" THEN "open" ELSE @]
     \/ Acts(p, "threw") /\ ~Live(cap[p]) /\ UNCHANGED <<reg, rstate, phase>>
     \/ /\ Acts(p, "threw") /\ Live(cap[p]) /\ Evict(owner[cap[p]]) /\ Close(cap[p])
        /\ rstate' = [rstate EXCEPT ![owner[cap[p]]] = "absent"]
     \/ Acts(p, "i_td") /\ Evict(sid[p]) /\ Close(cap[p]) /\ UNCHANGED rstate

\* initializeEngine undoes itself, or start's catch reaps: the engine registered now is closed.
Reaps(p) ==
  LET n == reg[sid[p]] IN
  /\ n # NoEngine /\ Close(n) /\ cap' = [cap EXCEPT ![p] = n]
  /\ UNCHANGED <<owner, tracked, stopping, rstate>>
  /\ \/ pc[p] \in {"inited", "check"} /\ Acts(p, "undo") /\ UNCHANGED reg
     \/ pc[p] = "threw" /\ Acts(p, "s_catch") /\ Evict(sid[p])

Evicts(p) ==
  /\ DeleteIfLive(sid[p], cap[p]) /\ UNCHANGED <<owner, phase, tracked, stopping, rstate, cap>>
  /\ \/ pc[p] = "undo" /\ Acts(p, "purge")
     \/ pc[p] = "r_td" /\ \E l \in {"r_dw", "d_hook", "d_fence2"} : Acts(p, l)

Marks(p) ==
  LET n == reg[sid[p]] IN
  /\ pc[p] \in {"r_read", "d_fence1"} /\ UNCHANGED <<reg, owner>>
  /\ stopping' = stopping \cup {sid[p]}
  /\ rstate' = [rstate EXCEPT ![sid[p]] = "absent"]
  /\ \/ /\ n = NoEngine /\ UNCHANGED <<phase, tracked, cap>>
        /\ \E l \in {"r_dw", "d_hook", "d_fence2"} : Acts(p, l)
     \/ /\ n # NoEngine /\ cap' = [cap EXCEPT ![p] = n]
        /\ Acts(p, "r_init") /\ UNCHANGED <<phase, tracked>>
     \/ /\ n # NoEngine /\ cap' = [cap EXCEPT ![p] = n]
        /\ Acts(p, "r_td") /\ Close(n) /\ MayTrack(n)

Tears(p) ==
  /\ pc[p] = "r_init" /\ Acts(p, "r_td") /\ Close(cap[p]) /\ MayTrack(cap[p])
  /\ UNCHANGED <<reg, owner, stopping, rstate, cap>>

CallMoves(p) ==
  \/ CallBegins(p) \/ Passes(p) \/ Accepts(p) \/ Registers(p) \/ Launches(p) \/ RunEnds(p)
  \/ Reaps(p) \/ Evicts(p) \/ Marks(p) \/ Tears(p)
EngineMove ==
  \/ EngineEvent
  \/ \E p \in Procs : CallMoves(p) /\ \A q \in Procs \ {p} : snap'[q] = snap[q]

\* What a control does once it may: mark its session, and take the engine that is registered.
LEMMA MarkAndTearMarks ==
  ASSUME TypeOK, NEW p \in Procs, pc[p] \in {"r_read", "d_fence1"}, MarkAndTear(p)
  PROVE  Marks(p)
<1> DEFINE n == reg[sid[p]]
<1>1. /\ UNCHANGED <<reg, owner>> /\ UNCHANGED callVars
      /\ stopping' = stopping \cup {sid[p]}
      /\ rstate' = [rstate EXCEPT ![sid[p]] = "absent"]
  BY DEF MarkAndTear, CancelReconnect
<1>2. CASE n = NoEngine
  <2>1. UNCHANGED <<phase, tracked, cap>> /\ AfterTeardown(p)
    BY <1>2, ConstantsAssumption DEF MarkAndTear
  <2>2. \E l \in {"r_dw", "d_hook", "d_fence2"} : Acts(p, l)
    BY <1>1, <2>1 DEF AfterTeardown, Acts
  <2> QED BY <1>1, <1>2, <2>1, <2>2 DEF Marks
<1>3. CASE n # NoEngine /\ InitialWritePending(sid[p], n)
  BY <1>1, <1>3 DEF MarkAndTear, Marks, Acts
<1>4. CASE n # NoEngine /\ ~InitialWritePending(sid[p], n)
  <2>1. BeginTeardown(p, n)
    BY <1>4 DEF MarkAndTear
  <2> QED BY <1>1, <1>4, <2>1 DEF Marks, BeginTeardown, Acts, MayTrack
<1> QED BY <1>2, <1>3, <1>4

\* It leaves what other calls have captured alone.
LEMMA MarkKeepsOthers ==
  ASSUME TypeOK, NEW p \in Procs, MarkAndTear(p)
  PROVE  \A q \in Procs \ {p} : snap'[q] = snap[q]
BY DEF MarkAndTear, AfterTeardown, TypeOK, CallsOK

\* Every step of the system is one of these moves: this needs the invariant, for a start that wakes
\* from its fence still finds nothing registered.
LEMMA EngineMoves ==
  ASSUME TypeOK, CallsBound, CapturesOK, Accounted, "lost" \notin Faults, [Next]_vars
  PROVE  EngineMove
<1> USE DEF EngineMove, TypeOK, RegistryOK, EnginesOK, CallsOK, CallsBound, Accounted, NoReconnects,
      Acts, RegistryRests, At, Resumes, callVars, engineVars, budget, StartPcs, RetirePcs
<1>1. ASSUME NEW p \in Procs,
             InitWritten(p) \/ InitWriteFails(p) \/ InitDeadline(p) \/ InitReaped(p) \/ InitGaveUp(p) \/
             Initialized(p)
      PROVE EngineMove
  BY <1>1
  DEF InitWritten, CallMoves, Passes, Launches, InitWriteFails, Onward, Pcs, InitDeadline, RunEnds,
     InitReaped, InitGaveUp, Initialized, Undo, Reaps
<1>2. ASSUME NEW p \in Procs,
             CheckRetired(p) \/ Undone(p) \/ PurgeCheck(p) \/ Wipe(p) \/ StartReplies(p) \/
             StartFenced(p)
      PROVE EngineMove
  BY <1>2
  DEF CheckRetired, Finish, Undo, CallMoves, Passes, Reaps, Onward, Pcs, Undone, Evicts, PurgeCheck,
     Wipe, StartReplies, End, StartFenced, StartAccepted, CancelReconnect, Accepts, StartAt, Checked,
     Ready, TeardownPcs
<1>3. ASSUME NEW p \in Procs, StartRead(p) PROVE EngineMove
  <2>1. CASE Reject(p)
    BY <1>3, <2>1 DEF StartRead, Reject, End, CallMoves, Passes
  <2>2. CASE ~StartRefusable(sid[p]) /\ Captured(sid[p]) = {}
    BY <1>3, <2>2, ConstantsAssumption
    DEF StartRead, StartRefusable, AlreadyStarted, StartAccepted, CancelReconnect, CallMoves, Accepts, Checked
  <2>3. CASE ~StartRefusable(sid[p]) /\ Captured(sid[p]) # {}
    BY <1>3, <2>3, ConstantsAssumption
    DEF StartRead, StartRefusable, AlreadyStarted, CallMoves, Passes, Checked
  <2> QED BY <1>3, <2>1, <2>2, <2>3 DEF StartRead
<1>4. ASSUME NEW p \in Procs, StartHooked(p) PROVE EngineMove
  <2>1. Registers(p)
    BY <1>4 DEF StartHooked, FreshReconnectState, Registers
  <2>2. \A q \in Procs \ {p} : snap'[q] = snap[q]
    BY <1>4 DEF StartHooked, InitializeEngine
  <2> QED BY <2>1, <2>2 DEF CallMoves
<1>5. ASSUME NEW p \in Procs, StartCatch(p) PROVE EngineMove
  BY <1>5 DEF StartCatch, End, CallMoves, Passes, Reaps
<1>6. ASSUME NEW p \in Procs, StartReaped(p) \/ StartFailed(p) PROVE EngineMove
  BY <1>6 DEF StartReaped, CallMoves, Passes, Onward, Pcs, StartFailed, End
<1>7. ASSUME NEW p \in Procs, RetireRead(p) PROVE EngineMove
  <2>1. CASE Reject(p)
    BY <1>7, <2>1 DEF RetireRead, Reject, End, CallMoves, Passes
  <2>2. CASE MarkAndTear(p)
    <3>1. Marks(p)
      BY <1>7, <2>2, MarkAndTearMarks DEF RetireRead
    <3> QED BY <2>2, <3>1, MarkKeepsOthers DEF CallMoves
  <2>3. CASE Goto(p, "d_fence1") /\ snap' = [snap EXCEPT ![p] = Captured(sid[p])]
             /\ UNCHANGED <<reg, stopping, budget, engineVars, callVars, cap>>
    BY <1>7, <2>3 DEF RetireRead, CallMoves, Passes, Onward, Pcs, FencePcs
  <2> QED BY <1>7, <2>1, <2>2, <2>3 DEF RetireRead
<1>8. ASSUME NEW p \in Procs, InitialStatusSettled(p) \/ RetireTornDown(p) \/ RetireWritten(p)
      PROVE EngineMove
  BY <1>8
  DEF InitialStatusSettled, BeginTeardown, MayTrack, CallMoves, Tears, RetireTornDown, AfterTeardown,
     Evicts, RetireWritten, End, Passes, Onward, Pcs
<1>9. ASSUME NEW p \in Procs, LogoutForgot(p) PROVE EngineMove
  BY <1>9 DEF LogoutForgot, End, CallMoves, Passes
<1>10. ASSUME NEW p \in Procs, DeleteFenced1(p) PROVE EngineMove
  BY <1>10, MarkAndTearMarks, MarkKeepsOthers DEF DeleteFenced1, CallMoves
<1>11. ASSUME NEW p \in Procs, DeleteFenced2(p) \/ DeleteRefused2(p) PROVE EngineMove
  BY <1>11 DEF DeleteFenced2, CallMoves, Passes, Onward, Pcs, DeleteRefused2, End
<1>12. ASSUME NEW p \in Procs, DeleteGaveUp(p) \/ DeleteHooked(p) \/ DeleteCommitted(p) PROVE EngineMove
  BY <1>12 DEF DeleteGaveUp, End, CallMoves, Passes, DeleteHooked, Onward, Pcs, DeleteCommitted
<1>13. ASSUME NEW p \in Procs,
             DeletePurged(p) \/ FenceRefused(p) \/ LostRead(p) \/ ReconnectTornDown(p) \/
             ReconnectFenced(p) \/ ReconnectRefused(p)
      PROVE EngineMove
  BY <1>13
  DEF DeletePurged, End, CallMoves, Passes, FenceRefused, Reject, LostRead, ReconnectTornDown,
     ReconnectFenced, ReconnectRefused
<1>14. ASSUME NEW p \in Procs, ReconnectCatch(p) \/ InitResolves(p) \/ InitRejects(p) PROVE EngineMove
  BY <1>14 DEF ReconnectCatch, InitResolves, CallMoves, RunEnds, InitRejects, OnError, CancelReconnect
<1>15. ASSUME NEW p \in Procs, NEW i \in Ids, Start(p, i) PROVE EngineMove
  BY <1>15 DEF Start, CallMoves, CallBegins
<1>16. ASSUME NEW p \in Procs, NEW i \in Ids, ReconnectFires(i, p) PROVE EngineMove
  BY <1>16 DEF ReconnectFires
<1>17. ASSUME NEW p \in Procs, NEW i \in Ids, NEW v \in RetireVerbs, Retire(p, v, i) PROVE EngineMove
  BY <1>17 DEF Retire, CallMoves, CallBegins, RetireVerbs
<1>18. ASSUME NEW n \in Engines, NEW p \in Procs, NEW unlinked \in BOOLEAN, Lost(n, p, unlinked)
      PROVE EngineMove
  BY <1>18 DEF Lost
<1>19. ASSUME NEW n \in Engines,
             EngineReady(n) \/ EngineFails(n) \/ EngineClosed(n) \/ CredentialsRemoved(n)
      PROVE EngineMove
  BY <1>19
  DEF EngineReady, EngineEvent, EngineFails, OnError, CancelReconnect, EngineClosed, CredentialsRemoved
<1>20. ASSUME NEW i \in Ids, Create(i) \/ WriteLands(i) PROVE EngineMove
  BY <1>20 DEF Create, EngineEvent, WriteLands
<1>21. CASE UNCHANGED vars
  BY <1>21 DEF vars, EngineEvent
<1> QED BY <1>1, <1>2, <1>3, <1>4, <1>5, <1>6, <1>7, <1>8, <1>9, <1>10, <1>11, <1>12, <1>13, <1>14,
   <1>15, <1>16, <1>17, <1>18, <1>19, <1>20, <1>21 DEF Next, Continue, EngineAnswers

Context == TypeOK /\ CallsBound /\ StartSerialized /\ CapturesOK /\ Accounted

\* A step of a call leaves the other calls alone.
Only(p) == \A q \in Procs \ {p} : pc'[q] = pc[q] /\ cap'[q] = cap[q] /\ sid'[q] = sid[q] /\ verb'[q] = verb[q]

\* Each move is that of one call.
LEMMA CallMovesOnly ==
  ASSUME TypeOK, NEW p \in Procs, CallMoves(p)
  PROVE  Only(p)
<1> USE DEF TypeOK, CallsOK, Only, Acts, callVars, Goto
<1>1. CASE CallBegins(p)
  BY <1>1 DEF CallBegins
<1>2. CASE Passes(p)
  BY <1>2 DEF Passes, End
<1>3. CASE Accepts(p)
  BY <1>3 DEF Accepts
<1>4. CASE Registers(p)
  BY <1>4 DEF Registers, InitializeEngine
<1>5. CASE Launches(p)
  BY <1>5 DEF Launches
<1>6. CASE RunEnds(p)
  BY <1>6 DEF RunEnds
<1>7. CASE Reaps(p)
  BY <1>7 DEF Reaps
<1>8. CASE Evicts(p)
  BY <1>8 DEF Evicts
<1>9. CASE Marks(p)
  BY <1>9 DEF Marks
<1>10. CASE Tears(p)
  BY <1>10 DEF Tears
<1> QED BY <1>1, <1>2, <1>3, <1>4, <1>5, <1>6, <1>7, <1>8, <1>9, <1>10 DEF CallMoves

\* While nothing is ready to go on, no start has just returned from or thrown out of its launch, and
\* the teardown of an engine that holds no client is over.
LEMMA QuietMeans ==
  ASSUME Quiet, NEW q \in Procs
  PROVE  /\ pc[q] \notin {"inited", "threw"}
         /\ pc[q] = "r_td" /\ cap[q] \notin tracked => phase[cap[q]] # "closed"
BY DEF Quiet, Ready, TornDown, TeardownPcs

\* A start launches only the engine that it built and that nobody has closed since.
LEMMA LaunchesBuilt ==
  ASSUME Context, NEW p \in Procs, Launches(p)
  PROVE  phase[cap[p]] = "built"
<1> USE DEF Context, Accounted
<1>1. /\ pc[p] = "i_write" /\ Quiet /\ cap[p] \in Engines /\ owner[cap[p]] = sid[p] /\ reg[sid[p]] = cap[p]
      /\ phase[cap[p]] \in {"built", "closed"} /\ cap[p] \notin tracked /\ verb[p] = "start" /\ sid[p] \in Ids
  BY DEF Launches, MayLaunch, Live, HolderAt, Launched, NoReconnects, StartPcs, CallsBound
<1>2. ASSUME phase[cap[p]] = "closed" PROVE FALSE
  <2>1. PICK q \in Procs : cap[q] = cap[p] /\ pc[q] \in {"r_td", "undo"}
    BY <1>1, <1>2, ConstantsAssumption DEF RegisteredAt, ClosingAt, Held
  <2>2. pc[q] # "r_td"
    BY <1>1, <1>2, <2>1, QuietMeans
  <2>3. sid[q] = sid[p] /\ verb[q] = "start"
    BY <1>1, <2>1, <2>2 DEF HolderAt, Launched, NoReconnects, StartPcs
  <2>4. p = q
    BY <1>1, <2>3 DEF StartSerialized
  <2> QED BY <1>1, <2>1, <2>2, <2>4
<1> QED BY <1>1, <1>2

\* So does a call that begins ...
LEMMA CallBeginsKeeps ==
  ASSUME Context, NEW p \in Procs, CallBegins(p), Only(p)
  PROVE  Accounted'
<1> USE DEF Context, TypeOK, RegistryOK, EnginesOK, CallsBound, CapturesOK, Accounted, Acts, callVars, Goto
<1>1. NoReconnects'
  BY DEF CallBegins, RegistryRests, NoReconnects, StartPcs, RetirePcs
<1>2. \A q \in Procs : HolderAt(q)'
  BY DEF CallBegins, RegistryRests, HolderAt, Launched, TearingDown
<1>3. \A q \in Procs : StartAt(q)'
  BY DEF CallBegins, RegistryRests, StartAt, Launched
<1>4. \A i \in Ids : reg'[i] # NoEngine => owner'[reg'[i]] = i
  BY DEF CallBegins, RegistryRests, RegisteredAt
<1>5. \A i \in Ids : reg'[i] # NoEngine => BuiltAt(i)'
  BY DEF CallBegins, RegistryRests, RegisteredAt, Held, BuiltAt
<1>6. \A i \in Ids : reg'[i] # NoEngine => LaunchingAt(i)'
  BY DEF CallBegins, RegistryRests, RegisteredAt, Held, LaunchingAt
<1>7. \A i \in Ids : reg'[i] # NoEngine => ClosingAt(i)'
  BY DEF CallBegins, RegistryRests, RegisteredAt, Held, ClosingAt
<1>8. \A i \in Ids : reg'[i] # NoEngine => StoppingAt(i)'
  BY DEF CallBegins, RegistryRests, RegisteredAt, Held, StoppingAt
<1>9. \A i \in Ids : reg'[i] # NoEngine => CancelledAt(i)'
  BY DEF CallBegins, RegistryRests, RegisteredAt, Held, CancelledAt
<1>10. NoOrphan'
  BY DEF CallBegins, RegistryRests, NoOrphan, Live, Running
<1> QED BY <1>1, <1>2, <1>3, <1>4, <1>5, <1>6, <1>7, <1>8, <1>9, <1>10 DEF RegisteredAt

\* ... a call that goes on or ends: what it held was not registered, or is held by another ...
LEMMA PassesKeeps ==
  ASSUME Context, NEW p \in Procs, Passes(p), Only(p)
  PROVE  Accounted'
<1> USE DEF Context, TypeOK, RegistryOK, EnginesOK, CallsBound, CapturesOK, Accounted, Acts, callVars, Goto
<1>1. NoReconnects'
  BY DEF Passes, RegistryRests, Onward, End, NoReconnects, StartPcs, RetirePcs
<1>2. \A q \in Procs : HolderAt(q)'
  BY DEF Passes, RegistryRests, Onward, End, HolderAt, Launched, TearingDown
<1>3. \A q \in Procs : StartAt(q)'
  BY DEF Passes, RegistryRests, Onward, End, StartAt, Launched
<1>4. \A i \in Ids : reg'[i] # NoEngine => owner'[reg'[i]] = i
  BY DEF Passes, RegistryRests, Onward, End, RegisteredAt
<1>5. \A i \in Ids : reg'[i] # NoEngine => BuiltAt(i)'
  BY QuietMeans, ConstantsAssumption
  DEF Passes, RegistryRests, Onward, End, RegisteredAt, Held, BuiltAt, HolderAt, Launched, MayLaunch,
     Live
<1>6. \A i \in Ids : reg'[i] # NoEngine => LaunchingAt(i)'
  BY DEF Passes, RegistryRests, Onward, End, RegisteredAt, Held, LaunchingAt
<1>7. \A i \in Ids : reg'[i] # NoEngine => ClosingAt(i)'
  BY DEF Passes, RegistryRests, Onward, End, RegisteredAt, Held, ClosingAt
<1>8. \A i \in Ids : reg'[i] # NoEngine => StoppingAt(i)'
  BY ConstantsAssumption
  DEF Passes, RegistryRests, Onward, End, RegisteredAt, Held, StoppingAt, HolderAt, Launched
<1>9. \A i \in Ids : reg'[i] # NoEngine => CancelledAt(i)'
  BY DEF Passes, RegistryRests, Onward, End, RegisteredAt, Held, CancelledAt
<1>10. NoOrphan'
  BY DEF Passes, RegistryRests, Onward, End, NoOrphan, Live, Running
<1> QED BY <1>1, <1>2, <1>3, <1>4, <1>5, <1>6, <1>7, <1>8, <1>9, <1>10 DEF RegisteredAt

\* ... a start that clears the stop mark: nothing is registered for it to bring back ...
LEMMA AcceptsKeeps ==
  ASSUME Context, NEW p \in Procs, Accepts(p), Only(p)
  PROVE  Accounted'
<1> USE DEF Context, TypeOK, RegistryOK, EnginesOK, CallsBound, CapturesOK, Accounted, Acts, callVars, Goto
<1>1. NoReconnects'
  BY DEF Accepts, NoReconnects, StartPcs, RetirePcs
<1>2. \A q \in Procs : HolderAt(q)'
  BY DEF Accepts, HolderAt, Launched, TearingDown
<1>3. \A q \in Procs : StartAt(q)'
  BY DEF Accepts, StartAt, Launched
<1>4. \A i \in Ids : reg'[i] # NoEngine => owner'[reg'[i]] = i
  BY DEF Accepts, RegisteredAt
<1>5. \A i \in Ids : reg'[i] # NoEngine => BuiltAt(i)'
  BY DEF Accepts, RegisteredAt, Held, BuiltAt
<1>6. \A i \in Ids : reg'[i] # NoEngine => LaunchingAt(i)'
  BY DEF Accepts, RegisteredAt, Held, LaunchingAt
<1>7. \A i \in Ids : reg'[i] # NoEngine => ClosingAt(i)'
  BY DEF Accepts, RegisteredAt, Held, ClosingAt
<1>8. \A i \in Ids : reg'[i] # NoEngine => StoppingAt(i)'
  BY DEF Accepts, RegisteredAt, Held, StoppingAt
<1>9. \A i \in Ids : reg'[i] # NoEngine => CancelledAt(i)'
  BY DEF Accepts, RegisteredAt, Held, CancelledAt
<1>10. NoOrphan'
  BY DEF Accepts, NoOrphan, Live, Running
<1> QED BY <1>1, <1>2, <1>3, <1>4, <1>5, <1>6, <1>7, <1>8, <1>9, <1>10 DEF RegisteredAt

\* ... a start that registers its engine: no other start of the session is in flight ...
LEMMA RegistersKeeps ==
  ASSUME Context, NEW p \in Procs, Registers(p), Only(p)
  PROVE  Accounted'
<1> USE DEF Context, TypeOK, RegistryOK, EnginesOK, CallsBound, CapturesOK, Accounted, Acts, callVars, Goto
<1>1. NoReconnects'
  BY DEF Registers, InitializeEngine, Free, NoReconnects, StartPcs, RetirePcs
<1>2. \A q \in Procs : HolderAt(q)'
  BY DEF Registers, InitializeEngine, Free, HolderAt, Launched, TearingDown
<1>3. \A q \in Procs : StartAt(q)'
  BY DEF Registers, InitializeEngine, Free, StartAt, Launched, StartSerialized, NoReconnects, StartPcs
<1>4. \A i \in Ids : reg'[i] # NoEngine => owner'[reg'[i]] = i
  BY DEF Registers, InitializeEngine, Free, RegisteredAt
<1>5. \A i \in Ids : reg'[i] # NoEngine => BuiltAt(i)'
  BY DEF Registers, InitializeEngine, Free, RegisteredAt, Held, BuiltAt
<1>6. \A i \in Ids : reg'[i] # NoEngine => LaunchingAt(i)'
  BY DEF Registers, InitializeEngine, Free, RegisteredAt, Held, LaunchingAt
<1>7. \A i \in Ids : reg'[i] # NoEngine => ClosingAt(i)'
  BY DEF Registers, InitializeEngine, Free, RegisteredAt, Held, ClosingAt
<1>8. \A i \in Ids : reg'[i] # NoEngine => StoppingAt(i)'
  BY DEF Registers, InitializeEngine, Free, RegisteredAt, Held, StoppingAt
<1>9. \A i \in Ids : reg'[i] # NoEngine => CancelledAt(i)'
  BY DEF Registers, InitializeEngine, Free, RegisteredAt, Held, CancelledAt
<1>10. NoOrphan'
  BY ConstantsAssumption DEF Registers, InitializeEngine, Free, NoOrphan, Live, Running, StartAt
<1> QED BY <1>1, <1>2, <1>3, <1>4, <1>5, <1>6, <1>7, <1>8, <1>9, <1>10 DEF RegisteredAt

\* ... a launch, of a live engine that nobody stops ...
LEMMA LaunchesKeeps ==
  ASSUME Context, NEW p \in Procs, Launches(p), Only(p)
  PROVE  Accounted'
<1> USE DEF Context, TypeOK, RegistryOK, EnginesOK, CallsBound, CapturesOK, Accounted, Acts, callVars, Goto
<1>1. NoReconnects'
  BY DEF Launches, MayLaunch, Live, NoReconnects, StartPcs, RetirePcs
<1>2. \A q \in Procs : HolderAt(q)'
  <2> SUFFICES ASSUME NEW q \in Procs PROVE HolderAt(q)'
    OBVIOUS
  <2>1. phase[cap[p]] = "built" /\ HolderAt(p) /\ HolderAt(q)
    BY LaunchesBuilt
  <2>2. CASE q = p
    BY <2>1, <2>2 DEF Launches, HolderAt, Launched, TearingDown
  <2>3. CASE q # p /\ cap[q] = cap[p]
    <3>1. pc[q] # "i_write"
      BY <2>1, <2>3 DEF Launches, HolderAt, Launched, StartSerialized, NoReconnects, StartPcs
    <3> QED BY <2>1, <2>3, <3>1 DEF Launches, HolderAt, Only, Launched, TearingDown
  <2>4. CASE q # p /\ cap[q] # cap[p]
    BY <2>1, <2>4 DEF Launches, HolderAt, Only, Launched, TearingDown
  <2> QED BY <2>2, <2>3, <2>4
<1>3. \A q \in Procs : StartAt(q)'
  BY DEF Launches, MayLaunch, Live, StartAt, Launched
<1>4. \A i \in Ids : reg'[i] # NoEngine => owner'[reg'[i]] = i
  BY DEF Launches, MayLaunch, Live, RegisteredAt
<1>5. \A i \in Ids : reg'[i] # NoEngine => BuiltAt(i)'
  BY DEF Launches, MayLaunch, Live, RegisteredAt, Held, BuiltAt
<1>6. \A i \in Ids : reg'[i] # NoEngine => LaunchingAt(i)'
  BY DEF Launches, MayLaunch, Live, RegisteredAt, Held, LaunchingAt
<1>7. \A i \in Ids : reg'[i] # NoEngine => ClosingAt(i)'
  BY DEF Launches, MayLaunch, Live, RegisteredAt, Held, ClosingAt
<1>8. \A i \in Ids : reg'[i] # NoEngine => StoppingAt(i)'
  BY DEF Launches, MayLaunch, Live, RegisteredAt, Held, StoppingAt, HolderAt, Launched
<1>9. \A i \in Ids : reg'[i] # NoEngine => CancelledAt(i)'
  BY DEF Launches, MayLaunch, Live, RegisteredAt, Held, CancelledAt
<1>10. NoOrphan'
  BY DEF Launches, MayLaunch, Live, NoOrphan, Running
<1> QED BY <1>1, <1>2, <1>3, <1>4, <1>5, <1>6, <1>7, <1>8, <1>9, <1>10 DEF RegisteredAt

\* ... the end of a launch: an engine that failed or passed its deadline is evicted as it is closed ...
LEMMA RunEndsKeeps ==
  ASSUME Context, NEW p \in Procs, RunEnds(p), Only(p)
  PROVE  Accounted'
<1> USE DEF Context, TypeOK, RegistryOK, EnginesOK, CallsBound, CapturesOK, Accounted, Acts, callVars, Goto
<1>1. NoReconnects'
  BY DEF RunEnds, Evict, Close, Live, NoReconnects, StartPcs, RetirePcs
<1>2. \A q \in Procs : HolderAt(q)'
  BY DEF RunEnds, Evict, Close, Live, HolderAt, Launched, TearingDown
<1>3. \A q \in Procs : StartAt(q)'
  BY DEF RunEnds, Evict, Close, Live, StartAt, Launched
<1>4. \A i \in Ids : reg'[i] # NoEngine => owner'[reg'[i]] = i
  BY DEF RunEnds, Evict, Close, Live, RegisteredAt
<1>5. \A i \in Ids : reg'[i] # NoEngine => BuiltAt(i)'
  BY DEF RunEnds, Evict, Close, Live, RegisteredAt, Held, BuiltAt
<1>6. \A i \in Ids : reg'[i] # NoEngine => LaunchingAt(i)'
  BY DEF RunEnds, Evict, Close, Live, RegisteredAt, Held, LaunchingAt
<1>7. \A i \in Ids : reg'[i] # NoEngine => ClosingAt(i)'
  BY DEF RunEnds, Evict, Close, Live, RegisteredAt, Held, ClosingAt, HolderAt, Launched
<1>8. \A i \in Ids : reg'[i] # NoEngine => StoppingAt(i)'
  BY DEF RunEnds, Evict, Close, Live, RegisteredAt, Held, StoppingAt
<1>9. \A i \in Ids : reg'[i] # NoEngine => CancelledAt(i)'
  BY DEF RunEnds, Evict, Close, Live, RegisteredAt, Held, CancelledAt
<1>10. NoOrphan'
  BY DEF RunEnds, Evict, Close, Live, NoOrphan, Running, HolderAt, Launched, StartAt
<1> QED BY <1>1, <1>2, <1>3, <1>4, <1>5, <1>6, <1>7, <1>8, <1>9, <1>10 DEF RegisteredAt

\* ... a start that closes what is registered now: it is the engine it launched ...
LEMMA ReapsKeeps ==
  ASSUME Context, NEW p \in Procs, Reaps(p), Only(p)
  PROVE  Accounted'
<1> USE DEF Context, TypeOK, RegistryOK, EnginesOK, CallsBound, CapturesOK, Accounted, Acts, callVars, Goto
<1>1. NoReconnects'
  BY DEF Reaps, Evict, Close, NoReconnects, StartPcs, RetirePcs
<1>2. \A q \in Procs : HolderAt(q)'
  BY SMTT(30) DEF Reaps, Evict, Close, HolderAt, Launched, TearingDown, RegisteredAt
<1>3. \A q \in Procs : StartAt(q)'
  BY DEF Reaps, Evict, Close, StartAt, Launched
<1>4. \A i \in Ids : reg'[i] # NoEngine => owner'[reg'[i]] = i
  BY DEF Reaps, Evict, Close, RegisteredAt
<1>5. \A i \in Ids : reg'[i] # NoEngine => BuiltAt(i)'
  BY DEF Reaps, Evict, Close, RegisteredAt, Held, BuiltAt, HolderAt, Launched
<1>6. \A i \in Ids : reg'[i] # NoEngine => LaunchingAt(i)'
  BY DEF Reaps, Evict, Close, RegisteredAt, Held, LaunchingAt
<1>7. \A i \in Ids : reg'[i] # NoEngine => ClosingAt(i)'
  BY DEF Reaps, Evict, Close, RegisteredAt, Held, ClosingAt
<1>8. \A i \in Ids : reg'[i] # NoEngine => StoppingAt(i)'
  BY DEF Reaps, Evict, Close, RegisteredAt, Held, StoppingAt, HolderAt, Launched
<1>9. \A i \in Ids : reg'[i] # NoEngine => CancelledAt(i)'
  BY DEF Reaps, Evict, Close, RegisteredAt, Held, CancelledAt
<1>10. NoOrphan'
  BY DEF Reaps, Evict, Close, NoOrphan, Live, Running
<1> QED BY <1>1, <1>2, <1>3, <1>4, <1>5, <1>6, <1>7, <1>8, <1>9, <1>10 DEF RegisteredAt

\* ... an eviction of the engine whose teardown is over (deleteIfLive) ...
LEMMA EvictsKeeps ==
  ASSUME Context, NEW p \in Procs, Evicts(p), Only(p)
  PROVE  Accounted'
<1> USE DEF Context, TypeOK, RegistryOK, EnginesOK, CallsBound, CapturesOK, Accounted, Acts, callVars, Goto
<1>1. NoReconnects'
  BY DEF Evicts, DeleteIfLive, NoReconnects, StartPcs, RetirePcs
<1>2. \A q \in Procs : HolderAt(q)'
  BY DEF Evicts, DeleteIfLive, HolderAt, Launched, TearingDown
<1>3. \A q \in Procs : StartAt(q)'
  BY DEF Evicts, DeleteIfLive, StartAt, Launched
<1>4. \A i \in Ids : reg'[i] # NoEngine => owner'[reg'[i]] = i
  BY DEF Evicts, DeleteIfLive, RegisteredAt
<1>5. \A i \in Ids : reg'[i] # NoEngine => BuiltAt(i)'
  BY DEF Evicts, DeleteIfLive, RegisteredAt, Held, BuiltAt
<1>6. \A i \in Ids : reg'[i] # NoEngine => LaunchingAt(i)'
  BY DEF Evicts, DeleteIfLive, RegisteredAt, Held, LaunchingAt
<1>7. \A i \in Ids : reg'[i] # NoEngine => ClosingAt(i)'
  BY DEF Evicts, DeleteIfLive, RegisteredAt, Held, ClosingAt, HolderAt, Launched
<1>8. \A i \in Ids : reg'[i] # NoEngine => StoppingAt(i)'
  BY DEF Evicts, DeleteIfLive, RegisteredAt, Held, StoppingAt, HolderAt, Launched
<1>9. \A i \in Ids : reg'[i] # NoEngine => CancelledAt(i)'
  BY DEF Evicts, DeleteIfLive, RegisteredAt, Held, CancelledAt, HolderAt, Launched
<1>10. NoOrphan'
  BY DEF Evicts, DeleteIfLive, NoOrphan, Live, Running, HolderAt, Launched, TearingDown
<1> QED BY <1>1, <1>2, <1>3, <1>4, <1>5, <1>6, <1>7, <1>8, <1>9, <1>10 DEF RegisteredAt

\* ... a control that marks its session and captures the engine ...
LEMMA MarksKeeps ==
  ASSUME Context, NEW p \in Procs, Marks(p), Only(p)
  PROVE  Accounted'
<1> USE DEF Context, TypeOK, RegistryOK, EnginesOK, CallsBound, CapturesOK, Accounted, Acts, callVars, Goto
<1>1. NoReconnects'
  BY DEF Marks, Close, MayTrack, NoReconnects, StartPcs, RetirePcs
<1>2. \A q \in Procs : HolderAt(q)'
  BY SMTT(30) DEF Marks, Close, MayTrack, HolderAt, Launched, TearingDown, RegisteredAt
<1>3. \A q \in Procs : StartAt(q)'
  BY DEF Marks, Close, MayTrack, StartAt, Launched
<1>4. \A i \in Ids : reg'[i] # NoEngine => owner'[reg'[i]] = i
  BY DEF Marks, Close, MayTrack, RegisteredAt
<1>5. \A i \in Ids : reg'[i] # NoEngine => BuiltAt(i)'
  BY DEF Marks, Close, MayTrack, RegisteredAt, Held, BuiltAt
<1>6. \A i \in Ids : reg'[i] # NoEngine => LaunchingAt(i)'
  BY DEF Marks, Close, MayTrack, RegisteredAt, Held, LaunchingAt
<1>7. \A i \in Ids : reg'[i] # NoEngine => ClosingAt(i)'
  BY DEF Marks, Close, MayTrack, RegisteredAt, Held, ClosingAt
<1>8. \A i \in Ids : reg'[i] # NoEngine => StoppingAt(i)'
  BY DEF Marks, Close, MayTrack, RegisteredAt, Held, StoppingAt
<1>9. \A i \in Ids : reg'[i] # NoEngine => CancelledAt(i)'
  BY DEF Marks, Close, MayTrack, RegisteredAt, Held, CancelledAt
<1>10. NoOrphan'
  BY DEF Marks, Close, MayTrack, NoOrphan, Live, Running
<1> QED BY <1>1, <1>2, <1>3, <1>4, <1>5, <1>6, <1>7, <1>8, <1>9, <1>10 DEF RegisteredAt

\* ... and one that begins the teardown, once the INITIALIZING write has settled.
LEMMA TearsKeeps ==
  ASSUME Context, NEW p \in Procs, Tears(p), Only(p)
  PROVE  Accounted'
<1> USE DEF Context, TypeOK, RegistryOK, EnginesOK, CallsBound, CapturesOK, Accounted, Acts, callVars, Goto
<1>1. NoReconnects'
  BY DEF Tears, Close, MayTrack, NoReconnects, StartPcs, RetirePcs
<1>2. \A q \in Procs : HolderAt(q)'
  BY DEF Tears, Close, MayTrack, HolderAt, Launched, TearingDown
<1>3. \A q \in Procs : StartAt(q)'
  BY DEF Tears, Close, MayTrack, StartAt, Launched
<1>4. \A i \in Ids : reg'[i] # NoEngine => owner'[reg'[i]] = i
  BY DEF Tears, Close, MayTrack, RegisteredAt
<1>5. \A i \in Ids : reg'[i] # NoEngine => BuiltAt(i)'
  BY DEF Tears, Close, MayTrack, RegisteredAt, Held, BuiltAt
<1>6. \A i \in Ids : reg'[i] # NoEngine => LaunchingAt(i)'
  BY DEF Tears, Close, MayTrack, RegisteredAt, Held, LaunchingAt
<1>7. \A i \in Ids : reg'[i] # NoEngine => ClosingAt(i)'
  BY DEF Tears, Close, MayTrack, RegisteredAt, Held, ClosingAt
<1>8. \A i \in Ids : reg'[i] # NoEngine => StoppingAt(i)'
  BY DEF Tears, Close, MayTrack, RegisteredAt, Held, StoppingAt
<1>9. \A i \in Ids : reg'[i] # NoEngine => CancelledAt(i)'
  BY DEF Tears, Close, MayTrack, RegisteredAt, Held, CancelledAt
<1>10. NoOrphan'
  BY DEF Tears, Close, MayTrack, NoOrphan, Live, Running
<1> QED BY <1>1, <1>2, <1>3, <1>4, <1>5, <1>6, <1>7, <1>8, <1>9, <1>10 DEF RegisteredAt

\* What an engine does by itself keeps the accounts.
LEMMA EngineEventKeeps ==
  ASSUME Context, EngineEvent
  PROVE  Accounted'
<1> USE DEF Context, TypeOK, RegistryOK, EnginesOK, CallsBound, CapturesOK, Accounted, Acts, callVars, Goto
<1>1. NoReconnects'
  BY DEF EngineEvent, Evict, Close, Live, NoReconnects, StartPcs, RetirePcs
<1>2. \A q \in Procs : HolderAt(q)'
  BY DEF EngineEvent, Evict, Close, Live, HolderAt, Launched, TearingDown
<1>3. \A q \in Procs : StartAt(q)'
  BY DEF EngineEvent, Evict, Close, Live, StartAt, Launched
<1>4. \A i \in Ids : reg'[i] # NoEngine => owner'[reg'[i]] = i
  BY DEF EngineEvent, Evict, Close, Live, RegisteredAt
<1>5. \A i \in Ids : reg'[i] # NoEngine => BuiltAt(i)'
  BY DEF EngineEvent, Evict, Close, Live, RegisteredAt, Held, BuiltAt
<1>6. \A i \in Ids : reg'[i] # NoEngine => LaunchingAt(i)'
  BY DEF EngineEvent, Evict, Close, Live, RegisteredAt, Held, LaunchingAt
<1>7. \A i \in Ids : reg'[i] # NoEngine => ClosingAt(i)'
  BY DEF EngineEvent, Evict, Close, Live, RegisteredAt, Held, ClosingAt
<1>8. \A i \in Ids : reg'[i] # NoEngine => StoppingAt(i)'
  BY DEF EngineEvent, Evict, Close, Live, RegisteredAt, Held, StoppingAt
<1>9. \A i \in Ids : reg'[i] # NoEngine => CancelledAt(i)'
  BY DEF EngineEvent, Evict, Close, Live, RegisteredAt, Held, CancelledAt
<1>10. NoOrphan'
  BY DEF EngineEvent, Evict, Close, Live, NoOrphan, Running
<1> QED BY <1>1, <1>2, <1>3, <1>4, <1>5, <1>6, <1>7, <1>8, <1>9, <1>10 DEF RegisteredAt

\* Every step keeps the accounts.
LEMMA AccountedStep ==
  ASSUME Context, "lost" \notin Faults, [Next]_vars
  PROVE  Context'
<1>1. CallStep
  BY NextCallStep
<1>2. TypeOK' /\ CallsBound' /\ CapturesOK'
  BY TypesStep DEF Context
<1>3. StartSerialized'
  BY <1>1, StartSerializedStep DEF Context
<1>4. EngineEvent => Accounted'
  BY EngineEventKeeps
<1>5. ASSUME NEW p \in Procs, CallMoves(p) PROVE Accounted'
  <2>1. Only(p)
    BY <1>5, CallMovesOnly DEF Context
  <2> QED
    BY <1>5, <2>1, CallBeginsKeeps, PassesKeeps, AcceptsKeeps, RegistersKeeps, LaunchesKeeps, RunEndsKeeps,
       ReapsKeeps, EvictsKeeps, MarksKeeps, TearsKeeps
    DEF CallMoves
<1>6. Accounted'
  BY <1>4, <1>5, EngineMoves DEF EngineMove, Context
<1> QED BY <1>2, <1>3, <1>6 DEF Context

\* They are in order at first.
LEMMA InitAccounted == Init => Context
<1> SUFFICES ASSUME Init PROVE Context
  OBVIOUS
<1>1. TypeOK /\ CallsBound /\ CapturesOK
  BY InitTypes
<1>2. StartSerialized
  BY ConstantsAssumption DEF Init, StartSerialized
<1>3. Accounted
  BY ConstantsAssumption
  DEF Init, Accounted, NoReconnects, NoOrphan, Running, HolderAt, StartAt, RegisteredAt, Launched,
      TearingDown, StartPcs, RetirePcs
<1> QED BY <1>1, <1>2, <1>3 DEF Context

\* A session with no call in flight has nobody to hold its engine: it serves, and is not to stop.
LEMMA AccountedMeans ==
  ASSUME Context
  PROVE  EnginesAccounted
<1> USE DEF Context, Accounted
<1>1. \A i \in Ids : \A ls : reg[i] # NoEngine /\ RegisteredAt(i) /\ Held(reg[i], ls)
                               /\ ls \subseteq Launched \cup {"r_init", "r_td"} => Busy(i)
  BY DEF Held, HolderAt, RegisteredAt, Busy
<1>2. ASSUME NEW i \in Ids, Idle(i), reg[i] # NoEngine
      PROVE  /\ phase[reg[i]] \in {"open", "ready"} /\ rstate[i] # "absent" /\ i \notin stopping
  <2>1. RegisteredAt(i) /\ ~Busy(i)
    BY <1>2 DEF Idle
  <2>2. \A ls : ls \subseteq Launched \cup {"r_init", "r_td"} => ~Held(reg[i], ls)
    BY <1>1, <1>2, <2>1
  <2>3. reg[i] \in Engines /\ phase[reg[i]] \in Phases \ {"lost"}
    BY <1>2 DEF TypeOK, RegistryOK, EnginesOK, NoReconnects
  <2>4. /\ ~Held(reg[i], {"i_write", "threw"}) /\ ~Held(reg[i], {"inited"}) /\ ~Held(reg[i], {"i_run"})
        /\ ~Held(reg[i], {"r_td", "undo"}) /\ ~Held(reg[i], {"r_init", "r_td"})
        /\ ~Held(reg[i], {"r_init", "r_td", "i_write", "inited", "threw", "undo"})
    BY <2>2 DEF Launched
  <2> QED
    BY <1>2, <2>1, <2>3, <2>4
    DEF RegisteredAt, BuiltAt, LaunchingAt, ClosingAt, StoppingAt, CancelledAt, Phases
<1>3. NoZombie
  BY <1>2 DEF NoZombie
<1>4. StoppedStaysDown
  <2> SUFFICES ASSUME NEW i \in Ids, i \in stopping, Idle(i)
               PROVE  reg[i] = NoEngine /\ \A n \in Engines : owner[n] = i => phase[n] \notin Running
    BY DEF StoppedStaysDown
  <2>1. reg[i] = NoEngine
    BY <1>2
  <2> QED BY <2>1, ConstantsAssumption DEF NoOrphan, Live
<1> QED BY <1>3, <1>4 DEF EnginesAccounted

\* While no link is lost, no engine runs unregistered, no dead one stays registered and none is up
\* behind a stop mark, however starts, controls, failing engines and writes, and deadlines that pass
\* overlap (engines.set, deleteIfLive, stoppingSessions, initializeEngine's catch).  With lost links it
\* is false: a reconnect attempt and a start both register an engine.
THEOREM EnginesAlwaysAccounted ==
  ASSUME "lost" \notin Faults
  PROVE  Spec => []EnginesAccounted
<1>1. Context /\ [Next]_vars => Context'
  BY AccountedStep DEF Context, vars
<1>2. Context => EnginesAccounted
  BY AccountedMeans
<1> QED BY <1>1, <1>2, InitAccounted, PTL DEF Spec

-----------------------------------------------------------------------------
(* The cap, while no link is lost. *)

\* The ids that count against the cap: those registered, and those whose start is past its checks.
Past == Launched \cup {"s_fence", "s_hook", "purge", "wipe", "s_reply"}
Claims(p, i) == sid[p] = i /\ pc[p] \in Past
Claimed == {i \in Ids : reg[i] # NoEngine \/ \E p \in Procs : Claims(p, i)}
CapInv == IsFiniteSet(initializing) /\ IsFiniteSet(Claimed) /\ Cardinality(Claimed) <= MaxSessions

\* Only a start that finds room under the cap adds an id.
Admits(p) == pc[p] = "s_read" /\ Checked(p) /\ sid[p] \in Ids /\ Claimed' \subseteq Claimed \cup {sid[p]}

\* Every other step leaves the ids that count as they are, or fewer.
LEMMA ClaimsGrow ==
  ASSUME Context, EngineMove
  PROVE  Claimed' \subseteq Claimed \/ \E p \in Procs : Admits(p)
<1> USE ConstantsAssumption DEF Context, TypeOK, RegistryOK, CallsBound, CapturesOK, Acts, callVars, Goto,
      Claimed, Claims, Past, Launched
<1>1. CASE EngineEvent
  BY <1>1 DEF EngineEvent, Evict
<1>2. ASSUME NEW p \in Procs, CallMoves(p) PROVE Claimed' \subseteq Claimed \/ Admits(p)
  <2>1. Only(p)
    BY <1>2, CallMovesOnly
  <2>2. CASE CallBegins(p)
    BY <2>1, <2>2 DEF CallBegins, Only, RegistryRests
  <2>3. CASE Passes(p)
    BY <2>1, <2>3 DEF Passes, Only, RegistryRests, Onward, End, Admits
  <2>4. CASE Accepts(p)
    BY <2>1, <2>4 DEF Accepts, Only, Admits
  <2>5. CASE Registers(p)
    BY <2>1, <2>5 DEF Registers, InitializeEngine, Only
  <2>6. CASE Launches(p)
    BY <2>1, <2>6 DEF Launches, Only
  <2>7. CASE RunEnds(p)
    BY <2>1, <2>7 DEF RunEnds, Only, Evict
  <2>8. CASE Reaps(p)
    BY <2>1, <2>8 DEF Reaps, Only, Evict
  <2>9. CASE Evicts(p)
    BY <2>1, <2>9 DEF Evicts, Only, DeleteIfLive
  <2>10. CASE Marks(p)
    BY <2>1, <2>10 DEF Marks, Only
  <2>11. CASE Tears(p)
    BY <2>1, <2>11 DEF Tears, Only
  <2> QED
    BY <1>2, <2>2, <2>3, <2>4, <2>5, <2>6, <2>7, <2>8, <2>9, <2>10, <2>11 DEF CallMoves
<1> QED BY <1>1, <1>2 DEF EngineMove

\* They are ids that the cap counts, and the cap counts no others but the starts before their checks.
LEMMA ClaimedActive ==
  ASSUME Context
  PROVE  Claimed \subseteq ActiveIds /\ ActiveIds \subseteq Claimed \cup initializing
BY DEF Context, Accounted, NoReconnects, StartSerialized, StartPcs, Claimed, Claims, Past, Launched, ActiveIds

\* So the cap is kept: the ids counted at the check include all those that could have claimed a place.
LEMMA CapInvStep ==
  ASSUME Context, CapInv, EngineMove, CallStep
  PROVE  CapInv'
<1>1. IsFiniteSet(initializing')
  <2>1. initializing' \subseteq initializing \/ \E i \in Ids : initializing' = initializing \cup {i}
    BY DEF CallStep, Rests, Continues, Ends, End, StartBegins, OtherBegins
  <2> QED BY <2>1, FS_Subset, FS_AddElement DEF CapInv
<1>2. CASE Claimed' \subseteq Claimed
  BY <1>1, <1>2, FS_Subset, FS_CardinalityType, ConstantsAssumption DEF CapInv
<1>3. ASSUME NEW p \in Procs, Admits(p) PROVE CapInv'
  <2> DEFINE others == ActiveIds \ {sid[p]}
  <2>1. IsFiniteSet(ActiveIds)
    <3>1. IsFiniteSet(Claimed \cup initializing)
      BY FS_Union DEF CapInv
    <3> QED BY <3>1, ClaimedActive, FS_Subset
  <2>2. IsFiniteSet(others) /\ Cardinality(others) \in Nat /\ ~(Cardinality(others) >= MaxSessions)
    BY <1>3, <2>1, FS_Subset, FS_CardinalityType DEF Admits, Checked
  <2>3. /\ IsFiniteSet(others \cup {sid[p]})
        /\ Cardinality(others \cup {sid[p]}) = Cardinality(others) + 1
    BY <2>2, FS_AddElement
  <2>4. Claimed' \subseteq others \cup {sid[p]}
    BY <1>3, ClaimedActive DEF Admits
  <2>5. /\ IsFiniteSet(Claimed') /\ Cardinality(Claimed') \in Nat
        /\ Cardinality(Claimed') <= Cardinality(others \cup {sid[p]})
    BY <2>3, <2>4, FS_Subset, FS_CardinalityType
  <2>6. Cardinality(Claimed') <= MaxSessions
    <3> HIDE DEF others
    <3> QED BY <2>2, <2>3, <2>5, ConstantsAssumption
  <2> QED BY <1>1, <2>5, <2>6 DEF CapInv
<1> QED BY <1>2, <1>3, ClaimsGrow

\* While no link is lost, the sessions with an engine never exceed MAX_CONCURRENT_SESSIONS, though a
\* start checks the cap awaits before it registers: the reservation counts until then.
THEOREM CapAlwaysHeld ==
  ASSUME "lost" \notin Faults
  PROVE  Spec => []CapHeld
<1>1. Init => CapInv
  <2> SUFFICES ASSUME Init PROVE CapInv
    OBVIOUS
  <2>1. initializing = {} /\ Claimed = {}
    BY DEF Init, Claimed, Claims, Past, Launched
  <2> QED BY <2>1, FS_EmptySet, ConstantsAssumption DEF CapInv
<1>2. Context /\ CapInv /\ [Next]_vars => Context' /\ CapInv'
  <2> SUFFICES ASSUME Context, CapInv, [Next]_vars PROVE Context' /\ CapInv'
    OBVIOUS
  <2>1. EngineMove
    BY EngineMoves DEF Context
  <2> QED BY <2>1, NextCallStep, AccountedStep, CapInvStep
<1>3. Context /\ CapInv => CapHeld
  <2> SUFFICES ASSUME Context, CapInv PROVE CapHeld
    OBVIOUS
  <2>1. {i \in Ids : reg[i] # NoEngine} \subseteq Claimed
    BY DEF Claimed
  <2>2. Cardinality({i \in Ids : reg[i] # NoEngine}) \in Nat /\ Cardinality(Claimed) \in Nat
        /\ Cardinality({i \in Ids : reg[i] # NoEngine}) <= Cardinality(Claimed)
    BY <2>1, FS_Subset, FS_CardinalityType DEF CapInv
  <2> QED BY <2>2, ConstantsAssumption DEF CapInv, CapHeld
<1> QED BY <1>1, <1>2, <1>3, InitAccounted, PTL DEF Spec

-----------------------------------------------------------------------------
(* The fence of the credentials. *)

TrackedOf(i) == {n \in tracked : owner[n] = i}
\* What a start knows of the removals of its session's credentials, from its fence to its launch.
FenceAt(p) ==
  /\ pc[p] = "s_fence" => TrackedOf(sid[p]) \subseteq snap[p]
  /\ pc[p] \in {"s_hook", "i_write"} => TrackedOf(sid[p]) = {}
  /\ pc[p] \in {"s_fence", "s_hook"} => \A q \in Procs : pc[q] = "r_init" => sid[q] # sid[p]
  /\ pc[p] = "i_write" => \A q \in Procs : pc[q] = "r_init" /\ sid[q] = sid[p] => cap[q] = cap[p]
FenceInv == (\A p \in Procs : FenceAt(p)) /\ \A n \in tracked : owner[n] \in Ids

\* Once nothing is ready to go on, a control that still waits for an INITIALIZING write waits for one
\* that a start of its session awaits.
LEMMA NobodyWaits ==
  ASSUME Context, Quiet, NEW p \in Procs, pc[p] = "s_read", NEW q \in Procs, pc[q] = "r_init"
  PROVE  sid[q] # sid[p]
<1> USE DEF Context, Accounted
<1>1. PICK r \in Procs : pc[r] = "i_write" /\ cap[r] = cap[q]
  BY DEF Quiet, Ready
<1>2. sid[r] = sid[q] /\ sid[q] \in Ids /\ verb[r] = "start" /\ verb[p] = "start"
  BY <1>1 DEF HolderAt, Launched, NoReconnects, StartPcs, CallsBound
<1> QED BY <1>1, <1>2 DEF StartSerialized

\* Every step keeps what the starts know of the removals.
LEMMA FenceStep ==
  ASSUME Context, FenceInv, EngineMove
  PROVE  FenceInv'
<1> USE ConstantsAssumption DEF Context, TypeOK, RegistryOK, EnginesOK, CallsBound, CapturesOK, Accounted,
      Acts, callVars, Goto, FenceInv, TrackedOf
<1>1. CASE EngineEvent
  BY <1>1 DEF EngineEvent, FenceAt
<1>2. ASSUME NEW p \in Procs, CallMoves(p), \A q \in Procs \ {p} : snap'[q] = snap[q] PROVE FenceInv'
  <2>1. Only(p)
    BY <1>2, CallMovesOnly
  <2> USE <1>2, <2>1 DEF Only
  <2>2. CASE CallBegins(p)
    BY <2>2 DEF CallBegins, RegistryRests, FenceAt
  <2>3. CASE Passes(p)
    <3>1. owner' = owner /\ tracked' = tracked /\ pc'[p] \notin {"s_hook", "i_write", "r_init"}
      BY <2>3 DEF Passes, RegistryRests, Onward, End
    <3>2. CASE pc'[p] # "s_fence"
      BY <3>1, <3>2 DEF FenceAt
    <3>3. CASE pc'[p] = "s_fence"
      <4>1. pc[p] = "s_read" /\ Quiet /\ snap'[p] = Captured(sid[p]) /\ sid'[p] = sid[p]
        BY <2>3, <3>3 DEF Passes, Onward, End, Checked
      <4>2. FenceAt(p)'
        BY <3>1, <3>3, <4>1, NobodyWaits DEF FenceAt, Captured, Pending
      <4> QED BY <3>1, <3>3, <4>1, <4>2 DEF FenceAt
    <3> QED BY <3>2, <3>3
  <2>4. CASE Accepts(p)
    <3>1. \A q \in Procs : pc[q] = "r_init" => sid[q] # sid[p]
      BY <2>4, NobodyWaits DEF Accepts, Checked, FenceAt
    <3>2. TrackedOf(sid[p]) = {}
      BY <2>4 DEF Accepts, Captured, Pending, FenceAt
    <3> QED BY <2>4, <3>1, <3>2 DEF Accepts, FenceAt
  <2>5. CASE Registers(p)
    BY <2>5 DEF Registers, InitializeEngine, Free, FenceAt
  <2>6. CASE Launches(p)
    BY <2>6 DEF Launches, FenceAt
  <2>7. CASE RunEnds(p)
    BY <2>7 DEF RunEnds, FenceAt
  <2>8. CASE Reaps(p)
    BY <2>8 DEF Reaps, FenceAt
  <2>9. CASE Evicts(p)
    BY <2>9 DEF Evicts, FenceAt
  <2>10. CASE Marks(p)
    BY <2>10 DEF Marks, MayTrack, FenceAt, StartAt, HolderAt, Launched, RegisteredAt
  <2>11. CASE Tears(p)
    BY <2>11 DEF Tears, MayTrack, FenceAt, HolderAt, Launched
  <2> QED
    BY <2>2, <2>3, <2>4, <2>5, <2>6, <2>7, <2>8, <2>9, <2>10, <2>11 DEF CallMoves
<1> QED BY <1>1, <1>2 DEF EngineMove

\* The only step that launches an engine finds no removal pending.
LEMMA FenceHeld ==
  ASSUME Context, FenceInv, EngineMove, \A i, j \in Ids : NameOf[i] = NameOf[j] => i = j,
         NEW n \in Engines, phase[n] = "built", phase'[n] = "launching"
  PROVE  Pending(owner[n]) = {}
<1> USE DEF Context, TypeOK, RegistryOK, EnginesOK, CallsBound, CapturesOK, Accounted, callVars
<1>1. PICK p \in Procs : Launches(p)
  <2>1. ~EngineEvent
    BY DEF EngineEvent, Close
  <2>2. ASSUME NEW p \in Procs, CallMoves(p), ~Launches(p) PROVE FALSE
    BY <2>2 DEF CallMoves, CallBegins, Passes, RegistryRests, Accepts, Registers, InitializeEngine, RunEnds,
       Reaps, Evicts, Marks, Tears, Close, MayTrack
  <2> QED BY <2>1, <2>2 DEF EngineMove
<1>2. n = cap[p] /\ pc[p] = "i_write" /\ owner[n] = sid[p] /\ sid[p] \in Ids
  BY <1>1 DEF Launches, HolderAt, Launched
<1> QED BY <1>2 DEF FenceInv, FenceAt, TrackedOf, Pending

\* While no link is lost and no name is used twice, no engine is launched while the credentials of its
\* session are still being removed (pendingTeardowns): a teardown that begins after a start has passed
\* its fence takes that start's own engine, which is then not launched.
THEOREM CredentialFenceHolds ==
  ASSUME "lost" \notin Faults, \A i, j \in Ids : NameOf[i] = NameOf[j] => i = j
  PROVE  Spec => CredentialFence
<1>1. Init => FenceInv
  BY DEF Init, FenceInv, FenceAt, TrackedOf
<1>2. Context /\ FenceInv /\ [Next]_vars => Context' /\ FenceInv'
  <2> SUFFICES ASSUME Context, FenceInv, [Next]_vars PROVE Context' /\ FenceInv'
    OBVIOUS
  <2>1. EngineMove
    BY EngineMoves DEF Context
  <2> QED BY <2>1, AccountedStep, FenceStep
<1>3. Context /\ FenceInv /\ [Next]_vars
        => [\A n \in Engines : phase[n] = "built" /\ phase'[n] = "launching" => Pending(owner[n]) = {}]_vars
  <2> SUFFICES ASSUME Context, FenceInv, [Next]_vars, NEW n \in Engines, phase[n] = "built",
                      phase'[n] = "launching"
               PROVE  Pending(owner[n]) = {}
    OBVIOUS
  <2>1. EngineMove
    BY EngineMoves DEF Context
  <2> QED BY <2>1, FenceHeld
<1> QED BY <1>1, <1>2, <1>3, InitAccounted, PTL DEF Spec, CredentialFence

-----------------------------------------------------------------------------
(* The columns and the credentials of a session at rest.  First what a queue of row writes says of a column. *)

\* The first n writes of the queue s leave READY, of the writes of the kinds S, if b says whether the
\* column holds it now.
Says(s, n, S, b) ==
  \E k \in 0 .. n :
    /\ IF k = 0 THEN b ELSE s[k].st = "READY"
    /\ \A m \in (k + 1) .. n : s[m].st \notin S

\* One more write decides, if it is of the kinds that count.
LEMMA SaysNext ==
  ASSUME NEW s, NEW n \in Nat, NEW S, "READY" \in S, NEW b \in BOOLEAN
  PROVE  Says(s, n + 1, S, b) <=> IF s[n + 1].st \in S THEN s[n + 1].st = "READY" ELSE Says(s, n, S, b)
<1>1. CASE s[n + 1].st \in S
  <2>1. ASSUME s[n + 1].st = "READY" PROVE Says(s, n + 1, S, b)
    <3>1. n + 1 \in 0 .. n + 1 /\ n + 1 # 0 /\ \A m \in (n + 1 + 1) .. (n + 1) : FALSE
      OBVIOUS
    <3> QED BY <2>1, <3>1 DEF Says
  <2>2. ASSUME Says(s, n + 1, S, b) PROVE s[n + 1].st = "READY"
    <3>1. PICK k \in 0 .. n + 1 : /\ IF k = 0 THEN b ELSE s[k].st = "READY"
                                  /\ \A m \in (k + 1) .. (n + 1) : s[m].st \notin S
      BY <2>2 DEF Says
    <3>2. ~(k < n + 1)
      BY <1>1, <3>1
    <3> QED BY <3>1, <3>2
  <2> QED BY <1>1, <2>1, <2>2
<1>2. CASE s[n + 1].st \notin S
  <2>1. ASSUME Says(s, n, S, b) PROVE Says(s, n + 1, S, b)
    <3>1. PICK k \in 0 .. n : /\ IF k = 0 THEN b ELSE s[k].st = "READY"
                              /\ \A m \in (k + 1) .. n : s[m].st \notin S
      BY <2>1 DEF Says
    <3>2. k \in 0 .. n + 1 /\ \A m \in (k + 1) .. (n + 1) : m = n + 1 \/ m \in (k + 1) .. n
      OBVIOUS
    <3>3. \A m \in (k + 1) .. (n + 1) : s[m].st \notin S
      BY <1>2, <3>1, <3>2
    <3> QED BY <3>1, <3>2, <3>3 DEF Says
  <2>2. ASSUME Says(s, n + 1, S, b) PROVE Says(s, n, S, b)
    <3>1. PICK k \in 0 .. n + 1 : /\ IF k = 0 THEN b ELSE s[k].st = "READY"
                                  /\ \A m \in (k + 1) .. (n + 1) : s[m].st \notin S
      BY <2>2 DEF Says
    <3>2. k # n + 1
      BY <1>2, <3>1
    <3>3. k \in 0 .. n /\ \A m \in (k + 1) .. n : m \in (k + 1) .. (n + 1)
      BY <3>2
    <3> QED BY <3>1, <3>3 DEF Says
  <2> QED BY <1>2, <2>1, <2>2
<1> QED BY <1>1, <1>2

\* It is about these writes only.
LEMMA SaysSame ==
  ASSUME NEW s, NEW t, NEW n \in Nat, \A m \in 1 .. n : s[m] = t[m], NEW S, NEW b \in BOOLEAN, Says(s, n, S, b)
  PROVE  Says(t, n, S, b)
<1>1. PICK k \in 0 .. n : /\ IF k = 0 THEN b ELSE s[k].st = "READY"
                          /\ \A m \in (k + 1) .. n : s[m].st \notin S
  BY DEF Says
<1>2. (k # 0 => k \in 1 .. n) /\ \A m \in (k + 1) .. n : m \in 1 .. n
  OBVIOUS
<1> QED BY <1>1, <1>2 DEF Says

\* t is s without its kth write, in their first n.
Skips(s, t, n, k) == \A m \in 1 .. n : t[m] = IF m < k THEN s[m] ELSE s[m + 1]

\* A write that is taken out and had no say, or none but to overwrite something else than READY,
\* changes nothing.
LEMMA SaysDropped ==
  ASSUME NEW s, NEW t, NEW n \in Nat, NEW k \in 1 .. (n + 1), Skips(s, t, n, k), NEW S, "READY" \in S, NEW b \in BOOLEAN,
         s[k].st \in S => s[k].st # "READY" /\ ~Says(s, k - 1, S, b)
  PROVE  Says(t, n, S, b) <=> Says(s, n + 1, S, b)
<1> USE DEF Skips
<1>1. ASSUME Says(s, n + 1, S, b) PROVE Says(t, n, S, b)
  <2>1. PICK j \in 0 .. n + 1 : /\ IF j = 0 THEN b ELSE s[j].st = "READY"
                                /\ \A m \in (j + 1) .. (n + 1) : s[m].st \notin S
    BY <1>1 DEF Says
  <2>2. j # k
    BY <2>1
  <2>3. CASE j < k
    <3>1. j \in 0 .. n /\ j \in 0 .. k - 1 /\ \A m \in (j + 1) .. (k - 1) : m \in (j + 1) .. (n + 1)
      BY <2>3
    <3>2. Says(s, k - 1, S, b)
      BY <2>1, <3>1 DEF Says
    <3>3. k \in (j + 1) .. (n + 1)
      BY <2>3
    <3>4. \A m \in (j + 1) .. n : t[m].st \notin S
      BY <2>1, <2>3
    <3>5. j # 0 => t[j] = s[j]
      BY <2>3
    <3> QED BY <2>1, <3>1, <3>4, <3>5 DEF Says
  <2>4. CASE j > k
    <3>1. j - 1 \in 0 .. n /\ j - 1 # 0 /\ j # 0 /\ t[j - 1] = s[j - 1 + 1] /\ j - 1 + 1 = j
      BY <2>4
    <3>2. \A m \in (j - 1 + 1) .. n : t[m] = s[m + 1] /\ m + 1 \in (j + 1) .. (n + 1)
      BY <2>4
    <3>3. \A m \in (j - 1 + 1) .. n : t[m].st \notin S
      BY <2>1, <3>2
    <3>4. t[j - 1].st = "READY"
      BY <2>1, <3>1
    <3> QED BY <3>1, <3>3, <3>4 DEF Says
  <2> QED BY <2>2, <2>3, <2>4
<1>2. ASSUME Says(t, n, S, b) PROVE Says(s, n + 1, S, b)
  <2>1. PICK j \in 0 .. n : /\ IF j = 0 THEN b ELSE t[j].st = "READY"
                            /\ \A m \in (j + 1) .. n : t[m].st \notin S
    BY <1>2 DEF Says
  <2>2. CASE j < k
    <3>1. j \in 0 .. n + 1 /\ j \in 0 .. k - 1 /\ (j # 0 => t[j] = s[j])
      BY <2>2
    <3>2. \A m \in (j + 1) .. (k - 1) : m \in (j + 1) .. n /\ t[m] = s[m]
      BY <2>2
    <3>3. Says(s, k - 1, S, b)
      BY <2>1, <3>1, <3>2 DEF Says
    <3>4. s[k].st \notin S
      BY <3>3
    <3>5. \A m \in (k + 1) .. (n + 1) : m - 1 \in (j + 1) .. n /\ t[m - 1] = s[m - 1 + 1] /\ m - 1 + 1 = m
      BY <2>2
    <3>6. \A m \in (j + 1) .. (n + 1) : m = k \/ m \in (j + 1) .. (k - 1) \/ m \in (k + 1) .. (n + 1)
      OBVIOUS
    <3>7. \A m \in (k + 1) .. (n + 1) : s[m].st \notin S
      BY <2>1, <3>5
    <3>8. \A m \in (j + 1) .. (k - 1) : s[m].st \notin S
      BY <2>1, <3>2
    <3>9. \A m \in (j + 1) .. (n + 1) : s[m].st \notin S
      BY <3>4, <3>6, <3>7, <3>8
    <3> QED BY <2>1, <3>1, <3>9 DEF Says
  <2>3. CASE ~(j < k)
    <3>1. j + 1 \in 0 .. n + 1 /\ j + 1 # 0 /\ j # 0 /\ t[j] = s[j + 1]
      BY <2>3
    <3>2. \A m \in (j + 1 + 1) .. (n + 1) : m - 1 \in (j + 1) .. n /\ t[m - 1] = s[m - 1 + 1] /\ m - 1 + 1 = m
      BY <2>3
    <3>3. \A m \in (j + 1 + 1) .. (n + 1) : s[m].st \notin S
      BY <2>1, <3>2
    <3> QED BY <2>1, <3>1, <3>3 DEF Says
  <2> QED BY <2>2, <2>3
<1> QED BY <1>1, <1>2

\* The first write lands: the column takes over what it said.
LEMMA SaysLanded ==
  ASSUME NEW s, NEW t, NEW n \in Nat, Skips(s, t, n, 1), NEW S, "READY" \in S, NEW b \in BOOLEAN, NEW c \in BOOLEAN,
         c = IF s[1].st \in S THEN s[1].st = "READY" ELSE b
  PROVE  Says(t, n, S, c) <=> Says(s, n + 1, S, b)
<1>0. \A m \in 1 .. n : t[m] = s[m + 1]
  BY DEF Skips
<1> USE <1>0
<1>1. ASSUME Says(s, n + 1, S, b) PROVE Says(t, n, S, c)
  <2>1. PICK j \in 0 .. n + 1 : /\ IF j = 0 THEN b ELSE s[j].st = "READY"
                                /\ \A m \in (j + 1) .. (n + 1) : s[m].st \notin S
    BY <1>1 DEF Says
  <2>2. CASE j <= 1
    <3>1. \A m \in (0 + 1) .. n : m + 1 \in (j + 1) .. (n + 1) /\ t[m] = s[m + 1]
      BY <2>2
    <3>2. c
      <4>1. CASE j = 0
        <5>1. 1 \in (j + 1) .. (n + 1)
          BY <4>1
        <5> QED BY <2>1, <4>1, <5>1
      <4>2. CASE j = 1
        BY <2>1, <4>2
      <4> QED BY <2>2, <4>1, <4>2
    <3>3. \A m \in (0 + 1) .. n : t[m].st \notin S
      BY <2>1, <3>1
    <3>4. 0 \in 0 .. n
      OBVIOUS
    <3> QED BY <3>2, <3>3, <3>4 DEF Says
  <2>3. CASE j > 1
    <3>1. j - 1 \in 0 .. n /\ j - 1 # 0 /\ j # 0 /\ t[j - 1] = s[j - 1 + 1] /\ j - 1 + 1 = j
      BY <2>3
    <3>2. \A m \in (j - 1 + 1) .. n : t[m] = s[m + 1] /\ m + 1 \in (j + 1) .. (n + 1)
      BY <2>3
    <3>3. \A m \in (j - 1 + 1) .. n : t[m].st \notin S
      BY <2>1, <3>2
    <3>4. t[j - 1].st = "READY"
      BY <2>1, <3>1
    <3> QED BY <3>1, <3>3, <3>4 DEF Says
  <2> QED BY <2>2, <2>3
<1>2. ASSUME Says(t, n, S, c) PROVE Says(s, n + 1, S, b)
  <2>1. PICK j \in 0 .. n : /\ IF j = 0 THEN c ELSE t[j].st = "READY"
                            /\ \A m \in (j + 1) .. n : t[m].st \notin S
    BY <1>2 DEF Says
  <2>2. \A m \in (j + 2) .. (n + 1) : m - 1 \in (j + 1) .. n /\ m - 1 \in 1 .. n /\ m - 1 + 1 = m
    OBVIOUS
  <2>3. \A m \in (j + 2) .. (n + 1) : s[m].st \notin S
    BY <2>1, <2>2
  <2>4. CASE j # 0
    <3>1. j + 1 \in 0 .. n + 1 /\ j + 1 # 0 /\ t[j] = s[j + 1] /\ j + 1 + 1 = j + 2
      BY <2>4
    <3> QED BY <2>1, <2>3, <2>4, <3>1 DEF Says
  <2>5. CASE j = 0 /\ s[1].st \in S
    <3>1. 1 \in 0 .. n + 1 /\ 1 # 0 /\ 1 + 1 = j + 2
      BY <2>5
    <3> QED BY <2>1, <2>3, <2>5, <3>1 DEF Says
  <2>6. CASE j = 0 /\ s[1].st \notin S
    <3>1. 0 \in 0 .. n + 1 /\ \A m \in (0 + 1) .. (n + 1) : m = 1 \/ m \in (j + 2) .. (n + 1)
      BY <2>6
    <3>2. \A m \in (0 + 1) .. (n + 1) : s[m].st \notin S
      BY <2>3, <2>6, <3>1
    <3> QED BY <2>1, <2>6, <3>1, <3>2 DEF Says
  <2> QED BY <2>4, <2>5, <2>6
<1> QED BY <1>1, <1>2

\* What is left of a queue when one write is taken out of it.
LEMMA WithoutAt ==
  ASSUME NEW S, NEW s \in Seq(S), NEW k \in 1 .. Len(s)
  PROVE  /\ Without(s, k) \in Seq(S)
         /\ Len(Without(s, k)) = Len(s) - 1
         /\ \A m \in 1 .. (Len(s) - 1) : Without(s, k)[m] = IF m < k THEN s[m] ELSE s[m + 1]
<1> DEFINE a == SubSeq(s, 1, k - 1)
           z == SubSeq(s, k + 1, Len(s))
<1>1. a \in Seq(S) /\ Len(a) = k - 1 /\ \A m \in 1 .. (k - 1) : a[m] = s[m]
  BY SMT
<1>2. z \in Seq(S) /\ Len(z) = Len(s) - k /\ \A m \in 1 .. (Len(s) - k) : z[m] = s[k + m]
  <2>1. k + 1 \in 1 .. (Len(s) + 1) /\ Len(s) \in 0 .. Len(s)
    OBVIOUS
  <2> QED BY <2>1
<1>3. Without(s, k) = a \o z
  BY DEF Without
<1> HIDE DEF a, z
<1>4. a \o z \in Seq(S) /\ Len(a \o z) = Len(s) - 1
  <2>1. a \o z \in Seq(S) /\ Len(a \o z) = Len(a) + Len(z)
    BY <1>1, <1>2, ConcatProperties
  <2>2. Len(s) \in Nat /\ k \in Nat
    OBVIOUS
  <2> QED BY <1>1, <1>2, <2>1, <2>2
<1>5. ASSUME NEW m \in 1 .. (Len(s) - 1) PROVE (a \o z)[m] = IF m < k THEN s[m] ELSE s[m + 1]
  <2>1. CASE m < k
    BY <1>1, <1>2, <2>1
  <2>2. CASE ~(m < k)
    <3>1. (a \o z)[m] = z[m - (k - 1)] /\ m - (k - 1) \in 1 .. (Len(s) - k) /\ k + (m - (k - 1)) = m + 1
      BY <1>1, <1>2, <2>2
    <3> QED BY <1>2, <2>2, <3>1
  <2> QED BY <2>1, <2>2
<1> QED BY <1>3, <1>4, <1>5

\* What a step does where neither a teardown nor an initialize() gives up early: a call leaves the wait
\* for a teardown only when it is over, no initialize() rejects, and delete's second fence waits for the
\* removals of its session's name.
Careful(p) ==
  /\ pc[p] \in TearingDown /\ pc'[p] # pc[p] => TornDown(p)
  /\ pc[p] = "i_run" => pc'[p] # "threw"
  /\ pc'[p] = "d_fence2" /\ pc[p] # "d_fence2" => snap'[p] = Captured(sid[p]) /\ sid'[p] = sid[p]
  /\ pc'[p] = "d_fence2" /\ pc[p] = "d_fence2" => snap'[p] = snap[p] /\ sid'[p] = sid[p]

\* Without early rejections and give-ups every step is careful: by the action taken.
LEMMA CarefulStep ==
  ASSUME TypeOK, CallsBound, "initError" \notin Faults, "teardownTimeout" \notin Faults, [Next]_vars
  PROVE  \A p \in Procs : Careful(p)
<1> USE DEF Careful, TearingDown, TypeOK, CallsOK, CallsBound, At, Resumes, Goto, callVars, Ready, TeardownPcs,
      FencePcs
<1>1. ASSUME NEW p \in Procs, InitWritten(p) \/ InitWriteFails(p) \/ InitDeadline(p) PROVE \A q \in Procs : Careful(q)
  BY <1>1 DEF InitWritten, InitWriteFails, InitDeadline
<1>2. ASSUME NEW p \in Procs, InitReaped(p) \/ InitGaveUp(p) PROVE \A q \in Procs : Careful(q)
  BY <1>2 DEF InitReaped, InitGaveUp
<1>3. ASSUME NEW p \in Procs, Initialized(p) \/ CheckRetired(p) PROVE \A q \in Procs : Careful(q)
  BY <1>3 DEF Initialized, CheckRetired, Undo, Finish, End
<1>4. ASSUME NEW p \in Procs, Undone(p) \/ PurgeCheck(p) \/ Wipe(p) \/ StartReplies(p) PROVE \A q \in Procs : Careful(q)
  BY <1>4 DEF Undone, PurgeCheck, Wipe, StartReplies, Finish, End
<1>5. ASSUME NEW p \in Procs, StartRead(p) \/ StartFenced(p) PROVE \A q \in Procs : Careful(q)
  BY <1>5 DEF StartRead, StartFenced, Reject, StartAccepted, End
<1>6. ASSUME NEW p \in Procs, StartHooked(p) \/ StartCatch(p) PROVE \A q \in Procs : Careful(q)
  BY <1>6 DEF StartHooked, StartCatch, InitializeEngine, End
<1>7. ASSUME NEW p \in Procs, StartReaped(p) \/ StartFailed(p) PROVE \A q \in Procs : Careful(q)
  BY <1>7 DEF StartReaped, StartFailed, End
<1>8. ASSUME NEW p \in Procs, RetireRead(p) PROVE \A q \in Procs : Careful(q)
  BY <1>8 DEF RetireRead, Reject, End, MarkAndTear, AfterTeardown, BeginTeardown
<1>9. ASSUME NEW p \in Procs, DeleteFenced1(p) PROVE \A q \in Procs : Careful(q)
  BY <1>9 DEF DeleteFenced1, MarkAndTear, AfterTeardown, BeginTeardown
<1>10. ASSUME NEW p \in Procs,
             InitialStatusSettled(p) \/ RetireTornDown(p) \/ RetireWritten(p) \/ LogoutForgot(p)
      PROVE \A q \in Procs : Careful(q)
  BY <1>10 DEF InitialStatusSettled, BeginTeardown, RetireTornDown, AfterTeardown, RetireWritten, LogoutForgot, End
<1>11. ASSUME NEW p \in Procs,
             DeleteFenced2(p) \/ DeleteRefused2(p) \/ DeleteGaveUp(p) \/ DeleteHooked(p) \/ DeleteCommitted(p) \/
             DeletePurged(p) \/ FenceRefused(p)
      PROVE \A q \in Procs : Careful(q)
  BY <1>11 DEF DeleteFenced2, DeleteRefused2, DeleteGaveUp, DeleteHooked, DeleteCommitted, DeletePurged,
     FenceRefused, Reject, End
<1>12. ASSUME NEW p \in Procs,
             LostRead(p) \/ ReconnectTornDown(p) \/ ReconnectFenced(p) \/ ReconnectRefused(p) \/ ReconnectCatch(p)
      PROVE \A q \in Procs : Careful(q)
  BY <1>12 DEF LostRead, ReconnectTornDown, ReconnectFenced, InitializeEngine, ReconnectRefused, ReconnectCatch, End
<1>13. ASSUME NEW p \in Procs, InitResolves(p) \/ InitRejects(p) PROVE \A q \in Procs : Careful(q)
  BY <1>13 DEF InitResolves, InitRejects
<1>14. ASSUME NEW p \in Procs, NEW i \in Ids, Start(p, i) \/ ReconnectFires(i, p)
      PROVE \A q \in Procs : Careful(q)
  BY <1>14 DEF Start, ReconnectFires
<1>15. ASSUME NEW p \in Procs, NEW i \in Ids, NEW v \in RetireVerbs, Retire(p, v, i)
      PROVE \A q \in Procs : Careful(q)
  BY <1>15 DEF Retire
<1>16. ASSUME NEW n \in Engines, NEW p \in Procs, NEW unlinked \in BOOLEAN, Lost(n, p, unlinked)
      PROVE \A q \in Procs : Careful(q)
  BY <1>16 DEF Lost
<1>17. ASSUME NEW n \in Engines, EngineReady(n) \/ EngineFails(n) \/ EngineClosed(n) \/ CredentialsRemoved(n)
      PROVE \A q \in Procs : Careful(q)
  BY <1>17 DEF EngineReady, EngineFails, EngineClosed, CredentialsRemoved
<1>18. ASSUME NEW i \in Ids, Create(i) \/ WriteLands(i) PROVE \A q \in Procs : Careful(q)
  BY <1>18 DEF Create, WriteLands
<1>19. CASE UNCHANGED vars
  BY <1>19 DEF vars
<1> QED BY <1>1, <1>2, <1>3, <1>4, <1>5, <1>6, <1>7, <1>8, <1>9, <1>10, <1>11, <1>12, <1>13, <1>14, <1>15, <1>16, <1>17, <1>18, <1>19
   DEF Next, Continue, EngineAnswers

-----------------------------------------------------------------------------
(* What the calls of a session may assume of each other. *)

\* A control that waits for the engine it captured shares its session with no other engine; ...
AloneAt(q) == pc[q] \in {"r_init", "r_td"} => reg[sid[q]] \in {NoEngine, cap[q]}
\* ... an engine that is closing under it stays registered, or a start of the session waits for it too; ...
ClosesAt(q) ==
  pc[q] \in {"r_init", "r_td"} /\ phase[cap[q]] = "closing" =>
    reg[sid[q]] = cap[q] \/ Held(cap[q], {"i_td", "s_catch"})
\* ... and a delete that took one down has its session to itself at its second fence.
RefenceAt(q) ==
  pc[q] = "d_fence2" =>
    /\ cap[q] # NoEngine => reg[sid[q]] = NoEngine
    /\ \A n \in snap[q] : owner[n] = sid[q]
Controls == \A q \in Procs : AloneAt(q) /\ ClosesAt(q) /\ RefenceAt(q)

\* Nobody waits for an engine of a session whose next start is about to build one.
LEMMA BuildsAlone ==
  ASSUME Context, FenceInv, Controls, Quiet, NEW p \in Procs, pc[p] = "s_hook", NEW q \in Procs, sid[q] = sid[p]
  PROVE  pc[q] \notin {"r_init", "r_td", "d_fence2", "i_td", "s_catch"}
<1> USE DEF Context, TypeOK, RegistryOK, EnginesOK, CallsOK, CallsBound, CapturesOK, Accounted, FenceInv, Controls
<1>1. sid[p] \in Ids /\ verb[p] = "start" /\ reg[sid[p]] = NoEngine /\ TrackedOf(sid[p]) = {}
  BY DEF FenceAt, StartAt, NoReconnects, StartPcs
<1>2. \A r \in Procs : sid[r] = sid[p] /\ pc[r] \in Launched => FALSE
  BY <1>1 DEF StartSerialized, NoReconnects, StartPcs, Launched
<1>3. pc[q] # "r_init"
  BY DEF FenceAt
<1>4. pc[q] # "r_td"
  <2> SUFFICES ASSUME pc[q] = "r_td" PROVE FALSE
    OBVIOUS
  <2>1. cap[q] \in Engines /\ owner[cap[q]] = sid[p] /\ phase[cap[q]] \in {"closing", "closed"}
    BY DEF HolderAt, TearingDown
  <2>2. cap[q] \notin tracked
    BY <1>1, <2>1 DEF TrackedOf
  <2>3. phase[cap[q]] = "closing"
    BY <2>1, <2>2, QuietMeans
  <2>4. reg[sid[q]] # cap[q]
    BY <1>1, <2>1, ConstantsAssumption
  <2>5. PICK r \in Procs : cap[r] = cap[q] /\ pc[r] \in {"i_td", "s_catch"}
    BY <2>3, <2>4 DEF ClosesAt, Held
  <2>6. sid[r] = sid[p]
    BY <2>1, <2>5 DEF HolderAt, Launched
  <2> QED BY <1>2, <2>5, <2>6 DEF Launched
<1>5. pc[q] # "d_fence2"
  <2> SUFFICES ASSUME pc[q] = "d_fence2" PROVE FALSE
    OBVIOUS
  <2>1. PICK n \in snap[q] : n \in tracked
    BY DEF Quiet, Ready, FencePcs
  <2>2. owner[n] = sid[p]
    BY <2>1 DEF RefenceAt
  <2> QED BY <1>1, <2>1, <2>2 DEF TrackedOf
<1> QED BY <1>2, <1>3, <1>4, <1>5 DEF Launched

\* The account of the controls is kept: by what a step may do to the engines.
LEMMA ControlsStep ==
  ASSUME Context, FenceInv, Controls, \A i, j \in Ids : NameOf[i] = NameOf[j] => i = j,
         EngineMove, \A p \in Procs : Careful(p)
  PROVE  Controls'
<1> USE ConstantsAssumption DEF Context, TypeOK, RegistryOK, EnginesOK, CallsOK, CallsBound, CapturesOK, Accounted,
      Acts, callVars, Goto, FenceInv, Controls
<1>1. CASE EngineEvent
  <2>1. \A q \in Procs : AloneAt(q)'
    BY <1>1 DEF EngineEvent, Evict, AloneAt
  <2>2. ASSUME NEW q \in Procs PROVE ClosesAt(q)'
    <3>1. CASE UNCHANGED <<reg, phase, rstate>>
      BY <1>1, <3>1 DEF EngineEvent, ClosesAt, Held
    <3>2. ASSUME NEW n \in Engines, UNCHANGED <<reg, rstate>>,
                 phase' = [phase EXCEPT ![n] = "ready"] \/ phase' = [phase EXCEPT ![n] = "closed"]
          PROVE ClosesAt(q)'
      <4>1. UNCHANGED <<pc, sid, cap>>
        BY <1>1 DEF EngineEvent
      <4>2. pc[q] \in {"r_init", "r_td"} /\ phase'[cap[q]] = "closing" => phase[cap[q]] = "closing"
        BY <3>2 DEF HolderAt
      <4> QED BY <3>2, <4>1, <4>2 DEF ClosesAt, Held
    <3>3. ASSUME NEW n \in Engines, Quiet, phase[n] \in {"open", "ready"}, Live(n), Evict(owner[n]), Close(n)
          PROVE ClosesAt(q)'
      <4>1. pc[q] = "r_init" => cap[q] # n
        BY <3>3 DEF Quiet, Ready, HolderAt
      <4>2. pc[q] = "r_td" => cap[q] # n
        BY <3>3 DEF HolderAt, TearingDown
      <4>3. UNCHANGED <<pc, sid, cap>>
        BY <1>1 DEF EngineEvent
      <4>4. ASSUME pc[q] \in {"r_init", "r_td"}, phase'[cap[q]] = "closing"
            PROVE  reg'[sid[q]] = cap[q] \/ Held(cap[q], {"i_td", "s_catch"})
        <5>1. cap[q] # n /\ cap[q] \in Engines /\ phase[cap[q]] = "closing"
          BY <3>3, <4>1, <4>2, <4>4 DEF Close, HolderAt
        <5>2. reg[sid[q]] = cap[q] => reg'[sid[q]] = cap[q]
          BY <3>3, <5>1 DEF Evict, Live
        <5> QED BY <4>4, <5>1, <5>2 DEF ClosesAt
      <4> QED BY <4>3, <4>4 DEF ClosesAt, Held
    <3> QED BY <1>1, <3>1, <3>2, <3>3 DEF EngineEvent
  <2>3. \A q \in Procs : RefenceAt(q)'
    BY <1>1 DEF EngineEvent, Evict, RefenceAt
  <2> QED BY <2>1, <2>2, <2>3
<1>2. ASSUME NEW p \in Procs, CallMoves(p), \A q \in Procs \ {p} : snap'[q] = snap[q] PROVE Controls'
  <2>1. Only(p)
    BY <1>2, CallMovesOnly
  <2> USE <1>2, <2>1 DEF Only, Careful
  <2>2. \A q \in Procs : AloneAt(q)'
    <3> USE DEF AloneAt
    <3>1. CASE CallBegins(p)
      BY <3>1 DEF CallBegins, RegistryRests
    <3>2. CASE Passes(p)
      BY <3>2 DEF Passes, RegistryRests, Onward, End
    <3>3. CASE Accepts(p)
      BY <3>3 DEF Accepts
    <3>4. CASE Registers(p)
      <4>1. \A q \in Procs : sid[q] = sid[p] => pc[q] \notin {"r_init", "r_td"}
        BY <3>4, BuildsAlone DEF Registers
      <4> QED BY <3>4, <4>1 DEF Registers, InitializeEngine
    <3>5. CASE Launches(p)
      BY <3>5 DEF Launches
    <3>6. CASE RunEnds(p)
      BY <3>6 DEF RunEnds, Evict
    <3>7. CASE Reaps(p)
      BY <3>7 DEF Reaps, Evict
    <3>8. CASE Evicts(p)
      BY <3>8 DEF Evicts, DeleteIfLive
    <3>9. CASE Marks(p)
      BY <3>9 DEF Marks
    <3>10. CASE Tears(p)
      BY <3>10 DEF Tears
    <3> QED BY <1>2, <3>1, <3>2, <3>3, <3>4, <3>5, <3>6, <3>7, <3>8, <3>9, <3>10 DEF CallMoves
  <2>3. \A q \in Procs : ClosesAt(q)'
    <3> USE DEF ClosesAt, Held
    <3>1. CASE CallBegins(p)
      BY <3>1 DEF CallBegins, RegistryRests
    <3>2. CASE Passes(p)
      BY <3>2 DEF Passes, RegistryRests, Onward, End, TornDown, TearingDown
    <3>3. CASE Accepts(p)
      BY <3>3 DEF Accepts
    <3>4. CASE Registers(p)
      <4>1. \A q \in Procs : sid[q] = sid[p] => pc[q] \notin {"r_init", "r_td"}
        BY <3>4, BuildsAlone DEF Registers
      <4> QED BY <3>4, <4>1 DEF Registers, InitializeEngine, Free
    <3>5. CASE Launches(p)
      BY <3>5 DEF Launches
    <3>6. CASE RunEnds(p)
      BY <3>6 DEF RunEnds, Evict, Close, HolderAt, Launched, NoOrphan, Running, Live, StartAt
    <3>7. CASE Reaps(p)
      BY <3>7 DEF Reaps, Evict, Close, HolderAt, Launched, NoOrphan, Running, Live, RegisteredAt
    <3>8. CASE Evicts(p)
      BY <3>8 DEF Evicts, DeleteIfLive, TornDown, TearingDown
    <3>9. CASE Marks(p)
      BY <3>9 DEF Marks, Close, HolderAt, Launched, RegisteredAt
    <3>10. CASE Tears(p)
      BY <3>10 DEF Tears, Close, HolderAt, Launched, NoOrphan, Running, Live, Phases
    <3> QED BY <1>2, <3>1, <3>2, <3>3, <3>4, <3>5, <3>6, <3>7, <3>8, <3>9, <3>10 DEF CallMoves
  <2>4. \A q \in Procs : RefenceAt(q)'
    <3> USE DEF RefenceAt
    <3>1. CASE CallBegins(p)
      BY <3>1 DEF CallBegins, RegistryRests
    <3>2. CASE Passes(p)
      BY <3>2 DEF Passes, RegistryRests, Onward, End
    <3>3. CASE Accepts(p)
      BY <3>3 DEF Accepts
    <3>4. CASE Registers(p)
      <4>1. \A q \in Procs : sid[q] = sid[p] => pc[q] # "d_fence2"
        BY <3>4, BuildsAlone DEF Registers
      <4> QED BY <3>4, <4>1 DEF Registers, InitializeEngine, Free
    <3>5. CASE Launches(p)
      BY <3>5 DEF Launches
    <3>6. CASE RunEnds(p)
      BY <3>6 DEF RunEnds, Evict
    <3>7. CASE Reaps(p)
      BY <3>7 DEF Reaps, Evict
    <3>8. CASE Evicts(p)
      BY <3>8 DEF Evicts, DeleteIfLive, AloneAt, Captured, Pending
    <3>9. CASE Marks(p)
      BY <3>9 DEF Marks, Captured, Pending
    <3>10. CASE Tears(p)
      BY <3>10 DEF Tears
    <3> QED BY <1>2, <3>1, <3>2, <3>3, <3>4, <3>5, <3>6, <3>7, <3>8, <3>9, <3>10 DEF CallMoves
  <2> QED BY <2>2, <2>3, <2>4
<1> QED BY <1>1, <1>2 DEF EngineMove

\* What a call finds before it goes on: its row, the head of its queue, and whose profile it removes.
Guarded(p) ==
  /\ pc[p] \in {"s_read", "r_read"} /\ row[sid[p]] # "present" => pc'[p] \in {pc[p], "idle"}
  /\ pc'[p] = "wipe" /\ pc[p] # "wipe" => row[sid[p]] # "present" /\ sid'[p] = sid[p]
  /\ pc'[p] = "d_purge" /\ pc[p] # "d_purge" => row'[sid[p]] = "deleted" /\ sid'[p] = sid[p]
  /\ pc'[p] = "r_td" /\ pc[p] # "r_td" /\ verb[p] # "logout" => tracked' = tracked
  /\ pc'[p] = "i_run" /\ pc[p] # "i_run" =>
       1 \in DOMAIN inflight[sid[p]] /\ inflight[sid[p]][1].by = p
  /\ pc'[p] = "d_dw" /\ pc[p] # "d_dw" => pc[p] = "d_fence2" /\ cap[p] # NoEngine

\* Every step finds what its guard says: by the action taken.
LEMMA GuardedStep ==
  ASSUME TypeOK, CallsBound, Ordered, [Next]_vars
  PROVE  \A p \in Procs : Guarded(p)
<1> USE DEF Guarded, TypeOK, RowsOK, CallsOK, CallsBound, At, Resumes, Goto, callVars, engineVars, rowVars
<1>1. ASSUME NEW p \in Procs, InitWritten(p)
      PROVE  \A q \in Procs : Guarded(q)
  BY <1>1 DEF InitWritten, LandOwn, CanLand
<1>2. ASSUME NEW p \in Procs, InitWriteFails(p) \/ InitDeadline(p) \/ InitReaped(p) \/ InitGaveUp(p)
      PROVE  \A q \in Procs : Guarded(q)
  BY <1>2 DEF InitWriteFails, InitDeadline, InitReaped, InitGaveUp, LandOwn
<1>3. ASSUME NEW p \in Procs, Initialized(p) \/ CheckRetired(p)
      PROVE  \A q \in Procs : Guarded(q)
  BY <1>3 DEF Initialized, Undo, CheckRetired, Finish, End
<1>4. ASSUME NEW p \in Procs, Undone(p) \/ PurgeCheck(p) \/ Wipe(p) \/ StartReplies(p)
      PROVE  \A q \in Procs : Guarded(q)
  BY <1>4 DEF Undone, PurgeCheck, Finish, End, Wipe, StartReplies, NameTaken
<1>5. ASSUME NEW p \in Procs, StartRead(p) \/ StartFenced(p)
      PROVE  \A q \in Procs : Guarded(q)
  BY <1>5 DEF StartRead, Reject, StartAccepted, End, StartFenced, StartRefusable
<1>6. ASSUME NEW p \in Procs, StartHooked(p) \/ StartCatch(p) \/ StartReaped(p) \/ StartFailed(p)
      PROVE  \A q \in Procs : Guarded(q)
  BY <1>6 DEF StartHooked, InitializeEngine, StartCatch, End, StartReaped, StartFailed, LandOwn
<1>7. ASSUME NEW p \in Procs, RetireRead(p)
      PROVE  \A q \in Procs : Guarded(q)
  BY <1>7 DEF RetireRead, Reject, End, MarkAndTear, AfterTeardown, BeginTeardown
<1>8. ASSUME NEW p \in Procs, DeleteFenced1(p)
      PROVE  \A q \in Procs : Guarded(q)
  BY <1>8 DEF DeleteFenced1, MarkAndTear, AfterTeardown, BeginTeardown
<1>9. ASSUME NEW p \in Procs, InitialStatusSettled(p) \/ RetireTornDown(p)
      PROVE  \A q \in Procs : Guarded(q)
  BY <1>9 DEF InitialStatusSettled, BeginTeardown, RetireTornDown, AfterTeardown
<1>10. ASSUME NEW p \in Procs, RetireWritten(p) \/ LogoutForgot(p)
      PROVE  \A q \in Procs : Guarded(q)
  BY <1>10 DEF RetireWritten, LandOwn, End, LogoutForgot
<1>11. ASSUME NEW p \in Procs,
             DeleteFenced2(p) \/ DeleteRefused2(p) \/ DeleteGaveUp(p) \/ DeleteHooked(p)
      PROVE  \A q \in Procs : Guarded(q)
  BY <1>11 DEF DeleteFenced2, DeleteRefused2, End, DeleteGaveUp, LandOwn, DeleteHooked
<1>12. ASSUME NEW p \in Procs, DeleteCommitted(p) \/ DeletePurged(p) \/ FenceRefused(p)
      PROVE  \A q \in Procs : Guarded(q)
  BY <1>12 DEF DeleteCommitted, DeletePurged, End, FenceRefused, Reject
<1>13. ASSUME NEW p \in Procs,
             LostRead(p) \/ ReconnectTornDown(p) \/ ReconnectFenced(p) \/ ReconnectRefused(p) \/
             ReconnectCatch(p)
      PROVE  \A q \in Procs : Guarded(q)
  BY <1>13 DEF LostRead, ReconnectTornDown, ReconnectFenced, ReconnectRefused, ReconnectCatch, End,
     InitializeEngine
<1>14. ASSUME NEW p \in Procs, InitResolves(p) \/ InitRejects(p)
      PROVE  \A q \in Procs : Guarded(q)
  BY <1>14 DEF InitResolves, InitRejects
<1>15. ASSUME NEW p \in Procs, NEW i \in Ids, Start(p, i)
      PROVE  \A q \in Procs : Guarded(q)
  BY <1>15 DEF Start
<1>16. ASSUME NEW p \in Procs, NEW i \in Ids, ReconnectFires(i, p)
      PROVE  \A q \in Procs : Guarded(q)
  BY <1>16 DEF ReconnectFires
<1>17. ASSUME NEW p \in Procs, NEW i \in Ids, NEW v \in RetireVerbs, Retire(p, v, i)
      PROVE  \A q \in Procs : Guarded(q)
  BY <1>17 DEF Retire
<1>18. ASSUME NEW n \in Engines, NEW p \in Procs, NEW unlinked \in BOOLEAN, Lost(n, p, unlinked)
      PROVE  \A q \in Procs : Guarded(q)
  BY <1>18 DEF Lost
<1>19. ASSUME NEW n \in Engines, EngineReady(n)
      PROVE  \A q \in Procs : Guarded(q)
  BY <1>19 DEF EngineReady
<1>20. ASSUME NEW n \in Engines, EngineFails(n)
      PROVE  \A q \in Procs : Guarded(q)
  BY <1>20 DEF EngineFails, OnError
<1>21. ASSUME NEW n \in Engines, EngineClosed(n) \/ CredentialsRemoved(n)
      PROVE  \A q \in Procs : Guarded(q)
  BY <1>21 DEF EngineClosed, CredentialsRemoved
<1>22. ASSUME NEW i \in Ids, Create(i)
      PROVE  \A q \in Procs : Guarded(q)
  BY <1>22 DEF Create
<1>23. ASSUME NEW i \in Ids, WriteLands(i)
      PROVE  \A q \in Procs : Guarded(q)
  BY <1>23 DEF WriteLands
<1>24. CASE UNCHANGED vars
  BY <1>24 DEF vars
<1>25. ASSUME NEW p \in Procs, Continue(p) \/ EngineAnswers(p)
      PROVE  \A q \in Procs : Guarded(q)
  BY <1>25, <1>1, <1>2, <1>3, <1>4, <1>5, <1>6, <1>7, <1>8, <1>9, <1>10, <1>11, <1>12, <1>13, <1>14
     DEF Continue, EngineAnswers
<1> QED BY <1>15, <1>16, <1>17, <1>18, <1>19, <1>20, <1>21, <1>22, <1>23, <1>24, <1>25 DEF Next

\* Nothing has happened yet to a session that does not exist yet ...
FreshAt(i) ==
  row[i] = "absent" =>
    /\ reg[i] = NoEngine /\ status[i] # "READY" /\ ~phone[i] /\ inflight[i] = <<>>
    /\ \A p \in Procs : sid[p] = i => pc[p] \in {"idle", "s_read", "r_read"}
\* ... and its credentials are removed as those of a deleted session only once it is one.
GoneAt(p) == pc[p] \in {"wipe", "d_purge"} => row[sid[p]] = "deleted"
\* Each removal of a profile that is under way is that of a logout which waits for it.
RemovalAt(n) == n \in tracked => \E q \in Procs : pc[q] = "r_td" /\ verb[q] = "logout" /\ cap[q] = n

\* A row is created once, and deleted for good; until it is created nothing touches its columns.
LEMMA FreshRows ==
  ASSUME Context, \A i \in Ids : FreshAt(i), "lost" \notin Faults, "initError" \notin Faults, [Next]_vars
  PROVE  \A j \in Ids : /\ row'[j] = row[j] \/ (row[j] = "absent" /\ row'[j] = "present") \/ row'[j] = "deleted"
                        /\ row'[j] = "absent" => /\ reg'[j] = NoEngine /\ status'[j] = status[j]
                                                 /\ phone'[j] = phone[j] /\ inflight'[j] = inflight[j]
<1> DEFINE Goal == \A j \in Ids :
             /\ row'[j] = row[j] \/ (row[j] = "absent" /\ row'[j] = "present") \/ row'[j] = "deleted"
             /\ row'[j] = "absent" => /\ reg'[j] = NoEngine /\ status'[j] = status[j]
                                      /\ phone'[j] = phone[j] /\ inflight'[j] = inflight[j]
<1> SUFFICES Goal
  OBVIOUS
<1>a. /\ row \in [Ids -> {"absent", "present", "deleted"}] /\ status \in [Ids -> Statuses]
      /\ phone \in [Ids -> BOOLEAN] /\ inflight \in [Ids -> Seq(Writes)]
      /\ reg \in [Ids -> Engines \cup {NoEngine}]
      /\ pc \in [Procs -> Pcs]
  BY DEF Context, TypeOK, RowsOK, RegistryOK, CallsBound
<1>b. \A i \in Ids : row[i] = "absent" => reg[i] = NoEngine /\ inflight[i] = <<>>
  BY DEF FreshAt
<1>c. \A p \in Procs : pc[p] # "idle" => sid[p] \in Ids /\ (pc[p] \notin {"s_read", "r_read"} => row[sid[p]] # "absent")
  BY DEF FreshAt, Context, CallsBound
<1>d. \A n \in Engines : Live(n) => owner[n] \in Ids /\ reg[owner[n]] = n /\ row[owner[n]] # "absent"
  BY <1>b, ConstantsAssumption DEF Live
<1>e. ASSUME NEW p \in Procs, pc[p] # "idle", NEW ws, LandOwn(p, ws)
      PROVE  /\ row' = row /\ inflight[sid[p]] # <<>>
             /\ \A j \in Ids \ {sid[p]} : status'[j] = status[j] /\ phone'[j] = phone[j] /\ inflight'[j] = inflight[j]
  BY <1>a, <1>c, <1>e DEF LandOwn, Land
<1> USE <1>a, <1>b, <1>c, <1>d DEF At, Resumes, Goto, callVars, engineVars, rowVars, Issue, Land
<1>f. ASSUME NEW p \in Procs, sid[p] \in Ids, row[sid[p]] # "absent", MarkAndTear(p)
      PROVE  Goal
  <2>1. rowVars' = rowVars /\ reg' = reg
    BY <1>f DEF MarkAndTear
  <2>2. inflight' = inflight \/ \E ws : inflight' = [inflight EXCEPT ![sid[p]] = @ \o ws]
    BY <1>f DEF MarkAndTear, AfterTeardown, BeginTeardown
  <2>3. \A j \in Ids \ {sid[p]} : inflight'[j] = inflight[j]
    BY <2>2
  <2> QED BY <1>f, <2>1, <2>3
<1>1. ASSUME NEW p \in Procs, InitWritten(p)
      PROVE  Goal
  BY <1>1, <1>e DEF InitWritten
<1>2. ASSUME NEW p \in Procs, InitWriteFails(p) \/ InitDeadline(p)
      PROVE  Goal
  BY <1>2 DEF InitWriteFails, InitDeadline, Evict
<1>3. ASSUME NEW p \in Procs, InitReaped(p)
      PROVE  Goal
  BY <1>3 DEF InitReaped
<1>4. ASSUME NEW p \in Procs, InitGaveUp(p)
      PROVE  Goal
  BY <1>4, <1>e DEF InitGaveUp
<1>5. ASSUME NEW p \in Procs, Initialized(p) \/ CheckRetired(p)
      PROVE  Goal
  BY <1>5 DEF Initialized, Undo, CheckRetired, Finish, End
<1>6. ASSUME NEW p \in Procs, Undone(p) \/ PurgeCheck(p) \/ Wipe(p) \/ StartReplies(p)
      PROVE  Goal
  BY <1>6 DEF Undone, PurgeCheck, Finish, End, Wipe, StartReplies, DeleteIfLive
<1>7. ASSUME NEW p \in Procs, StartRead(p) \/ StartFenced(p)
      PROVE  Goal
  BY <1>7 DEF StartRead, Reject, StartAccepted, End, StartFenced
<1>8. ASSUME NEW p \in Procs, StartHooked(p) \/ StartCatch(p) \/ StartReaped(p)
      PROVE  Goal
  <2>1. CASE StartHooked(p)
    <3>1. sid[p] \in Ids /\ row[sid[p]] # "absent" /\ rowVars' = rowVars
      BY <2>1, <1>c DEF StartHooked
    <3>2. PICK n \in Engines : /\ reg' = [reg EXCEPT ![sid[p]] = n]
                               /\ inflight' = [inflight EXCEPT ![sid[p]] = @ \o <<Write("INITIALIZING", p)>>]
      BY <2>1 DEF StartHooked, InitializeEngine
    <3>3. \A j \in Ids \ {sid[p]} : reg'[j] = reg[j] /\ inflight'[j] = inflight[j]
      BY <3>1, <3>2
    <3> QED BY <3>1, <3>3
  <2>2. CASE StartCatch(p)
    BY <2>2 DEF StartCatch, End, Evict
  <2>3. CASE StartReaped(p)
    BY <2>3 DEF StartReaped
  <2> QED BY <1>8, <2>1, <2>2, <2>3
<1>9. ASSUME NEW p \in Procs, StartFailed(p)
      PROVE  Goal
  BY <1>9, <1>e DEF StartFailed, End
<1>10. ASSUME NEW p \in Procs, RetireRead(p)
      PROVE  Goal
  <2>1. sid[p] \in Ids
    BY <1>10 DEF RetireRead
  <2>2. CASE row[sid[p]] # "absent" /\ MarkAndTear(p)
    BY <2>1, <2>2, <1>f
  <2>3. CASE UNCHANGED <<rowVars, inflight, reg>>
    BY <2>3
  <2> QED BY <1>10, <2>2, <2>3 DEF RetireRead, Reject, End
<1>11. ASSUME NEW p \in Procs, DeleteFenced1(p)
      PROVE  Goal
  BY <1>11, <1>f DEF DeleteFenced1
<1>12. ASSUME NEW p \in Procs, InitialStatusSettled(p) \/ RetireTornDown(p)
      PROVE  Goal
  BY <1>12 DEF InitialStatusSettled, BeginTeardown, RetireTornDown, AfterTeardown, DeleteIfLive
<1>13. ASSUME NEW p \in Procs, RetireWritten(p) \/ LogoutForgot(p)
      PROVE  Goal
  BY <1>13, <1>e DEF RetireWritten, End, LogoutForgot
<1>14. ASSUME NEW p \in Procs, DeleteFenced2(p) \/ DeleteRefused2(p)
      PROVE  Goal
  BY <1>14 DEF DeleteFenced2, DeleteRefused2, End
<1>15. ASSUME NEW p \in Procs, DeleteGaveUp(p)
      PROVE  Goal
  BY <1>15, <1>e DEF DeleteGaveUp, End
<1>16. ASSUME NEW p \in Procs, DeleteHooked(p)
      PROVE  Goal
  BY <1>16 DEF DeleteHooked
<1>17. ASSUME NEW p \in Procs, DeleteCommitted(p)
      PROVE  Goal
  BY <1>17 DEF DeleteCommitted
<1>18. ASSUME NEW p \in Procs, DeletePurged(p) \/ FenceRefused(p)
      PROVE  Goal
  BY <1>18 DEF DeletePurged, End, FenceRefused, Reject
<1>19. ASSUME NEW p \in Procs,
             LostRead(p) \/ ReconnectTornDown(p) \/ ReconnectFenced(p) \/ ReconnectRefused(p) \/
             ReconnectCatch(p)
      PROVE  Goal
  BY <1>19 DEF LostRead, ReconnectTornDown, ReconnectFenced, ReconnectRefused, ReconnectCatch, Context,
     Accounted, NoReconnects, StartPcs, RetirePcs
<1>20. ASSUME NEW p \in Procs, InitResolves(p) \/ InitRejects(p)
      PROVE  Goal
  BY <1>20 DEF InitResolves, InitRejects, OnError, Evict
<1>21. ASSUME NEW p \in Procs, NEW i \in Ids, Start(p, i)
      PROVE  Goal
  BY <1>21 DEF Start
<1>22. ASSUME NEW p \in Procs, NEW i \in Ids, ReconnectFires(i, p)
      PROVE  Goal
  BY <1>22 DEF ReconnectFires, Context, Accounted, NoReconnects, StartPcs, RetirePcs
<1>23. ASSUME NEW p \in Procs, NEW i \in Ids, NEW v \in RetireVerbs, Retire(p, v, i)
      PROVE  Goal
  BY <1>23 DEF Retire
<1>24. ASSUME NEW n \in Engines, NEW p \in Procs, NEW unlinked \in BOOLEAN, Lost(n, p, unlinked)
      PROVE  Goal
  BY <1>24 DEF Lost
<1>25. ASSUME NEW n \in Engines, EngineReady(n)
      PROVE  Goal
  BY <1>25 DEF EngineReady, Context, Accounted, NoOrphan, Running
<1>26. ASSUME NEW n \in Engines, EngineFails(n)
      PROVE  Goal
  BY <1>26 DEF EngineFails, OnError, Evict
<1>27. ASSUME NEW n \in Engines, EngineClosed(n) \/ CredentialsRemoved(n)
      PROVE  Goal
  BY <1>27 DEF EngineClosed, CredentialsRemoved
<1>28. ASSUME NEW i \in Ids, Create(i)
      PROVE  Goal
  BY <1>28 DEF Create
<1>29. ASSUME NEW i \in Ids, WriteLands(i)
      PROVE  Goal
  BY <1>29 DEF WriteLands
<1>30. CASE UNCHANGED vars
  BY <1>30 DEF vars
<1>31. ASSUME NEW p \in Procs, Continue(p) \/ EngineAnswers(p)
      PROVE  Goal
  BY <1>31, <1>1, <1>2, <1>3, <1>4, <1>5, <1>6, <1>7, <1>8, <1>9, <1>10, <1>11, <1>12, <1>13, <1>14,
     <1>15, <1>16, <1>17, <1>18, <1>19, <1>20
     DEF Continue, EngineAnswers
<1> QED BY <1>21, <1>22, <1>23, <1>24, <1>25, <1>26, <1>27, <1>28, <1>29, <1>30, <1>31 DEF Next

Origins == (\A i \in Ids : FreshAt(i)) /\ (\A p \in Procs : GoneAt(p)) /\ \A n \in Engines : RemovalAt(n)

\* A call is of one session from the read of its row to its end.
LEMMA CallsKeepSession ==
  ASSUME Context, EngineMove, NEW q \in Procs
  PROVE  \/ pc'[q] = "idle" \/ (pc[q] = "idle" /\ pc'[q] \in {"s_read", "r_read"})
         \/ (pc[q] # "idle" /\ sid'[q] = sid[q] /\ verb'[q] = verb[q])
<1> USE DEF Context, TypeOK, CallsOK, CallsBound, Acts, callVars, Goto
<1>1. CASE EngineEvent
  BY <1>1 DEF EngineEvent
<1>2. ASSUME NEW p \in Procs, CallMoves(p) PROVE
         \/ pc'[q] = "idle" \/ (pc[q] = "idle" /\ pc'[q] \in {"s_read", "r_read"})
         \/ (pc[q] # "idle" /\ sid'[q] = sid[q] /\ verb'[q] = verb[q])
  <2>1. Only(p)
    BY <1>2, CallMovesOnly
  <2>2. CASE q # p
    BY <2>1, <2>2 DEF Only
  <2>3. CASE q = p
    BY <1>2, <2>3 DEF CallMoves, CallBegins, Passes, End, Accepts, Registers, InitializeEngine, Launches, RunEnds, Reaps,
       Evicts, Marks, Tears
  <2> QED BY <2>2, <2>3
<1> QED BY <1>1, <1>2 DEF EngineMove

\* A control that waits for its engine still holds it after the step, unless it goes on.
LEMMA WaitsOn ==
  ASSUME Context, EngineMove, NEW q \in Procs, pc[q] = "r_td", pc'[q] = "r_td"
  PROVE  cap'[q] = cap[q] /\ verb'[q] = verb[q] /\ sid'[q] = sid[q]
<1> USE DEF Context, TypeOK, CallsOK, CallsBound, CapturesOK, Acts, callVars, Goto
<1>1. CASE EngineEvent
  BY <1>1 DEF EngineEvent
<1>2. ASSUME NEW p \in Procs, CallMoves(p) PROVE cap'[q] = cap[q] /\ verb'[q] = verb[q] /\ sid'[q] = sid[q]
  <2>1. Only(p)
    BY <1>2, CallMovesOnly
  <2>2. CASE q # p
    BY <2>1, <2>2 DEF Only
  <2>3. q # p
    BY <1>2 DEF CallMoves, CallBegins, Passes, Onward, End, Accepts, Registers, InitializeEngine, Launches,
       RunEnds, Reaps, Evicts, Marks, Tears
  <2> QED BY <2>2, <2>3
<1> QED BY <1>1, <1>2 DEF EngineMove

\* A removal begins with the logout that will wait for it.
LEMMA RemovalBegins ==
  ASSUME Context, EngineMove, \A p \in Procs : Guarded(p), NEW n \in Engines, n \in tracked', n \notin tracked
  PROVE  \E q \in Procs : pc'[q] = "r_td" /\ verb'[q] = "logout" /\ cap'[q] = n
<1> USE DEF Context, TypeOK, CallsOK, CallsBound, CapturesOK, Acts, callVars, Goto
<1>1. ~EngineEvent
  BY DEF EngineEvent
<1>2. ASSUME NEW p \in Procs, CallMoves(p) PROVE pc'[p] = "r_td" /\ verb'[p] = "logout" /\ cap'[p] = n
  <2>1. Marks(p) \/ Tears(p)
    BY <1>2 DEF CallMoves, CallBegins, Passes, RegistryRests, Accepts, Registers, Launches, RunEnds, Reaps, Evicts
  <2>2. pc[p] # "r_td" /\ pc'[p] = "r_td" /\ verb'[p] = verb[p] /\ cap'[p] = n
    BY <2>1 DEF Marks, Tears, MayTrack
  <2> QED BY <2>2 DEF Guarded
<1> QED BY <1>1, <1>2 DEF EngineMove

\* The account of the rows and of the removals is kept.
LEMMA OriginsStep ==
  ASSUME Context, Origins, EngineMove, "lost" \notin Faults, "initError" \notin Faults,
         \A p \in Procs : Careful(p) /\ Guarded(p), [Next]_vars
  PROVE  Origins'
<1>1. ASSUME NEW i \in Ids, row'[i] = "absent" PROVE FreshAt(i)'
  <2>1. /\ row[i] = "absent" /\ reg'[i] = NoEngine /\ status'[i] = status[i] /\ phone'[i] = phone[i]
        /\ inflight'[i] = inflight[i]
    BY <1>1, FreshRows DEF Origins
  <2>2. ASSUME NEW p \in Procs, sid'[p] = i PROVE pc'[p] \in {"idle", "s_read", "r_read"}
    BY <2>1, <2>2, CallsKeepSession DEF Origins, FreshAt, Guarded
  <2> QED BY <2>1, <2>2 DEF Origins, FreshAt
<1>2. ASSUME NEW p \in Procs PROVE GoneAt(p)'
  <2> SUFFICES ASSUME pc'[p] \in {"wipe", "d_purge"} PROVE row'[sid'[p]] = "deleted"
    BY DEF GoneAt
  <2>1. sid'[p] = sid[p] /\ pc[p] # "idle" /\ sid[p] \in Ids
    BY CallsKeepSession DEF Context, CallsBound
  <2>2. row[sid[p]] = "deleted" => row'[sid[p]] = "deleted"
    BY <2>1, FreshRows DEF Origins
  <2>3. CASE pc[p] \in {"wipe", "d_purge"}
    BY <2>1, <2>2, <2>3 DEF Origins, GoneAt
  <2>4. CASE pc[p] \notin {"wipe", "d_purge"} /\ pc'[p] = "wipe"
    <3>1. row[sid[p]] # "present"
      BY <2>4 DEF Guarded
    <3>2. pc[p] \notin {"s_read", "r_read"}
      BY <2>1, <2>4, <3>1 DEF Guarded
    <3>3. row[sid[p]] # "absent"
      BY <2>1, <3>2 DEF Origins, FreshAt
    <3> QED BY <2>1, <2>2, <3>1, <3>3 DEF Context, TypeOK, RowsOK
  <2>5. CASE pc[p] \notin {"wipe", "d_purge"} /\ pc'[p] = "d_purge"
    BY <2>1, <2>5 DEF Guarded
  <2> QED BY <2>3, <2>4, <2>5
<1>3. ASSUME NEW n \in Engines, n \in tracked' PROVE \E q \in Procs : pc'[q] = "r_td" /\ verb'[q] = "logout" /\ cap'[q] = n
  <2>1. CASE n \notin tracked
    BY <1>3, <2>1, RemovalBegins
  <2>2. CASE n \in tracked
    <3>1. PICK q \in Procs : pc[q] = "r_td" /\ verb[q] = "logout" /\ cap[q] = n
      BY <2>2 DEF Origins, RemovalAt
    <3>2. pc'[q] = "r_td"
      BY <2>2, <3>1 DEF Careful, TearingDown, TornDown
    <3> QED BY <3>1, <3>2, WaitsOn
  <2> QED BY <2>1, <2>2
<1> QED BY <1>1, <1>2, <1>3 DEF Origins, FreshAt, RemovalAt

-----------------------------------------------------------------------------
(* The writes in flight: each call has the one that it awaits, and no other. *)

\* The awaits of a row write, and the write a call awaits there.
Awaits(l, st) ==
  \/ l = "i_write" /\ st = "INITIALIZING"
  \/ l \in {"i_dw", "r_dw", "d_dw"} /\ st = "DISCONNECTED"
  \/ l = "s_failed" /\ st = "FAILED"
  \/ l = "r_phone" /\ st = "NO_PHONE"
WritePcs == {"i_write", "i_dw", "r_dw", "d_dw", "s_failed", "r_phone"}
Queues == [Ids -> Seq(Writes)]

\* In the queues Q, p has at most the write that it awaits at l, for the session i, and that one.
Owns(Q, p, l, i) ==
  /\ \A j \in Ids : \A k \in 1 .. Len(Q[j]) :
       Q[j][k].by = p =>
         i = j /\ Awaits(l, Q[j][k].st) /\ \A m \in 1 .. Len(Q[j]) : Q[j][m].by = p => m = k
  /\ l \in WritePcs => i \in Ids /\ \E k \in 1 .. Len(Q[i]) : Q[i][k].by = p

Behind(Q, j, w) == [Q EXCEPT ![j] = @ \o <<w>>]
Taken(Q, j, k) == [Q EXCEPT ![j] = Without(@, k)]

\* A queue to which a write is added.
LEMMA BehindAt ==
  ASSUME NEW Q \in Queues, NEW j \in Ids, NEW w \in Writes
  PROVE  /\ Behind(Q, j, w) \in Queues
         /\ Behind(Q, j, w)[j] = Q[j] \o <<w>>
         /\ \A i \in Ids \ {j} : Behind(Q, j, w)[i] = Q[i]
         /\ Len(Behind(Q, j, w)[j]) = Len(Q[j]) + 1
         /\ Behind(Q, j, w)[j][Len(Q[j]) + 1] = w
         /\ \A m \in 1 .. Len(Q[j]) : Behind(Q, j, w)[j][m] = Q[j][m]
<1>1. Q[j] \in Seq(Writes) /\ <<w>> \in Seq(Writes) /\ Len(<<w>>) = 1 /\ <<w>>[1] = w
  BY DEF Queues
<1>2. Behind(Q, j, w)[j] = Q[j] \o <<w>> /\ \A i \in Ids \ {j} : Behind(Q, j, w)[i] = Q[i]
  BY DEF Behind, Queues
<1>3. Q[j] \o <<w>> \in Seq(Writes)
  BY <1>1, ConcatProperties
<1>4. Behind(Q, j, w) \in Queues
  BY <1>3 DEF Behind, Queues
<1>5. /\ Len(Q[j] \o <<w>>) = Len(Q[j]) + 1
      /\ \A m \in 1 .. Len(Q[j]) + 1 : (Q[j] \o <<w>>)[m] = IF m <= Len(Q[j]) THEN Q[j][m] ELSE <<w>>[m - Len(Q[j])]
  BY <1>1, ConcatProperties
<1>6. Len(Q[j]) \in Nat
  BY <1>1
<1>7. Len(Q[j]) + 1 \in 1 .. Len(Q[j]) + 1 /\ ~(Len(Q[j]) + 1 <= Len(Q[j])) /\ Len(Q[j]) + 1 - Len(Q[j]) = 1
  BY <1>6
<1>8. \A m \in 1 .. Len(Q[j]) : m \in 1 .. Len(Q[j]) + 1 /\ m <= Len(Q[j])
  BY <1>6
<1> QED BY <1>1, <1>2, <1>4, <1>5, <1>7, <1>8

\* A queue from which a write is taken.
LEMMA TakenAt ==
  ASSUME NEW Q \in Queues, NEW j \in Ids, NEW k \in 1 .. Len(Q[j])
  PROVE  /\ Taken(Q, j, k) \in Queues
         /\ Taken(Q, j, k)[j] = Without(Q[j], k)
         /\ \A i \in Ids \ {j} : Taken(Q, j, k)[i] = Q[i]
         /\ Len(Taken(Q, j, k)[j]) = Len(Q[j]) - 1
         /\ \A m \in 1 .. (Len(Q[j]) - 1) : Taken(Q, j, k)[j][m] = IF m < k THEN Q[j][m] ELSE Q[j][m + 1]
<1>1. Q[j] \in Seq(Writes)
  BY DEF Queues
<1>2. /\ Without(Q[j], k) \in Seq(Writes) /\ Len(Without(Q[j], k)) = Len(Q[j]) - 1
      /\ \A m \in 1 .. (Len(Q[j]) - 1) : Without(Q[j], k)[m] = IF m < k THEN Q[j][m] ELSE Q[j][m + 1]
  BY <1>1, WithoutAt
<1>3. Taken(Q, j, k)[j] = Without(Q[j], k) /\ \A i \in Ids \ {j} : Taken(Q, j, k)[i] = Q[i]
  BY DEF Taken, Queues
<1>4. Taken(Q, j, k) \in Queues
  BY <1>2 DEF Taken, Queues
<1> QED BY <1>2, <1>3, <1>4

\* Adding another's write changes nothing for a call; ...
LEMMA OwnsBehindOther ==
  ASSUME NEW Q \in Queues, NEW j \in Ids, NEW w \in Writes, NEW p, NEW l, NEW i, Owns(Q, p, l, i), w.by # p
  PROVE  Owns(Behind(Q, j, w), p, l, i)
<1> DEFINE R == Behind(Q, j, w)
<1>1. /\ \A x \in Ids \ {j} : R[x] = Q[x]
      /\ Len(R[j]) = Len(Q[j]) + 1 /\ R[j][Len(Q[j]) + 1] = w
      /\ \A m \in 1 .. Len(Q[j]) : R[j][m] = Q[j][m]
  BY BehindAt, ZenonT(60)
<1>2. \A x \in Ids : Len(Q[x]) \in Nat
  BY DEF Queues
<1> HIDE DEF R
<1>3. \A x \in Ids : \A m \in 1 .. Len(R[x]) : R[x][m].by = p => m \in 1 .. Len(Q[x]) /\ R[x][m] = Q[x][m]
  BY <1>1, <1>2
<1>4. \A x \in Ids : \A m \in 1 .. Len(Q[x]) : m \in 1 .. Len(R[x]) /\ R[x][m] = Q[x][m]
  <2> SUFFICES ASSUME NEW x \in Ids, NEW m \in 1 .. Len(Q[x]) PROVE m \in 1 .. Len(R[x]) /\ R[x][m] = Q[x][m]
    OBVIOUS
  <2>1. CASE x = j
    BY <1>1, <1>2, <2>1
  <2>2. CASE x # j
    BY <1>1, <2>2
  <2> QED BY <2>1, <2>2
<1>5. Owns(R, p, l, i)
  BY <1>3, <1>4 DEF Owns
<1> QED BY <1>5 DEF R

\* ... nor does taking another's write out.
LEMMA OwnsTakenOther ==
  ASSUME NEW Q \in Queues, NEW j \in Ids, NEW k \in 1 .. Len(Q[j]), NEW p, NEW l, NEW i, Owns(Q, p, l, i),
         Q[j][k].by # p
  PROVE  Owns(Taken(Q, j, k), p, l, i)
<1> DEFINE R == Taken(Q, j, k)
           old(m) == IF m < k THEN m ELSE m + 1
           new(m) == IF m < k THEN m ELSE m - 1
<1>1. /\ \A x \in Ids \ {j} : R[x] = Q[x]
      /\ Len(R[j]) = Len(Q[j]) - 1
      /\ \A m \in 1 .. (Len(Q[j]) - 1) : R[j][m] = IF m < k THEN Q[j][m] ELSE Q[j][m + 1]
  BY TakenAt
<1>2. Len(Q[j]) \in Nat
  BY DEF Queues
<1> HIDE DEF R
<1>3. \A m \in 1 .. Len(R[j]) : /\ old(m) \in 1 .. Len(Q[j]) /\ R[j][m] = Q[j][old(m)]
                                /\ \A n \in 1 .. Len(R[j]) : old(m) = old(n) => m = n
  BY <1>1, <1>2
<1>4. \A m \in 1 .. Len(Q[j]) : m # k => new(m) \in 1 .. Len(R[j]) /\ R[j][new(m)] = Q[j][m]
  <2> SUFFICES ASSUME NEW m \in 1 .. Len(Q[j]), m # k PROVE new(m) \in 1 .. Len(R[j]) /\ R[j][new(m)] = Q[j][m]
    OBVIOUS
  <2>1. CASE m < k
    BY <1>1, <1>2, <2>1
  <2>2. CASE m > k
    <3>1. m - 1 \in 1 .. (Len(Q[j]) - 1) /\ ~(m - 1 < k) /\ m - 1 + 1 = m
      BY <1>2, <2>2
    <3> QED BY <1>1, <2>2, <3>1
  <2> QED BY <1>2, <2>1, <2>2
<1> HIDE DEF old, new
<1>5. ASSUME NEW x \in Ids, NEW m \in 1 .. Len(R[x]), R[x][m].by = p
      PROVE  i = x /\ Awaits(l, R[x][m].st) /\ \A n \in 1 .. Len(R[x]) : R[x][n].by = p => n = m
  <2>1. CASE x = j
    <3>1. /\ old(m) \in 1 .. Len(Q[j]) /\ R[j][m] = Q[j][old(m)]
          /\ \A n \in 1 .. Len(R[j]) : old(n) \in 1 .. Len(Q[j]) /\ R[j][n] = Q[j][old(n)] /\ (old(n) = old(m) => n = m)
      BY <1>3, <1>5, <2>1
    <3>2. i = j /\ Awaits(l, Q[j][old(m)].st) /\ \A n \in 1 .. Len(Q[j]) : Q[j][n].by = p => n = old(m)
      BY <1>5, <2>1, <3>1 DEF Owns
    <3> QED BY <2>1, <3>1, <3>2
  <2>2. CASE x # j
    BY <1>1, <1>5, <2>2 DEF Owns
  <2> QED BY <2>1, <2>2
<1>6. ASSUME l \in WritePcs PROVE i \in Ids /\ \E m \in 1 .. Len(R[i]) : R[i][m].by = p
  <2>1. PICK m \in 1 .. Len(Q[i]) : i \in Ids /\ Q[i][m].by = p
    BY <1>6 DEF Owns
  <2>2. CASE i = j
    BY <1>4, <2>1, <2>2
  <2>3. CASE i # j
    BY <1>1, <2>1, <2>3
  <2> QED BY <2>2, <2>3
<1>7. Owns(R, p, l, i)
  BY <1>5, <1>6 DEF Owns
<1> QED BY <1>7 DEF R

\* Once its own write is taken out a call has none in flight.
LEMMA OwnsTaken ==
  ASSUME NEW Q \in Queues, NEW j \in Ids, NEW k \in 1 .. Len(Q[j]), NEW p, NEW l, NEW i, Owns(Q, p, l, i),
         Q[j][k].by = p, NEW o, o \notin WritePcs, NEW h
  PROVE  Owns(Taken(Q, j, k), p, o, h)
<1> DEFINE R == Taken(Q, j, k)
<1>1. /\ \A x \in Ids \ {j} : R[x] = Q[x]
      /\ Len(R[j]) = Len(Q[j]) - 1
      /\ \A m \in 1 .. (Len(Q[j]) - 1) : R[j][m] = IF m < k THEN Q[j][m] ELSE Q[j][m + 1]
  BY TakenAt
<1>2. Len(Q[j]) \in Nat
  BY DEF Queues
<1> HIDE DEF R
<1>3. ASSUME NEW m \in 1 .. Len(R[j]) PROVE \E n \in 1 .. Len(Q[j]) : n # k /\ R[j][m] = Q[j][n]
  <2>1. m \in 1 .. Len(Q[j]) /\ m + 1 \in 1 .. Len(Q[j]) /\ m + 1 # m
    BY <1>1, <1>2
  <2>2. CASE m < k
    BY <1>1, <2>1, <2>2
  <2>3. CASE ~(m < k)
    <3>1. m + 1 # k /\ R[j][m] = Q[j][m + 1]
      BY <1>1, <2>3
    <3> QED BY <2>1, <3>1
  <2> QED BY <2>2, <2>3
<1>4. \A m \in 1 .. Len(R[j]) : R[j][m].by # p
  BY <1>3 DEF Owns
<1>5. \A x \in Ids \ {j} : \A m \in 1 .. Len(R[x]) : R[x][m].by # p
  BY <1>1 DEF Owns
<1>6. Owns(R, p, o, h)
  BY <1>4, <1>5 DEF Owns
<1> QED BY <1>6 DEF R

\* A call that awaits no write has none in flight.
LEMMA OwnsNone ==
  ASSUME NEW Q \in Queues, NEW p, NEW l, NEW i, Owns(Q, p, l, i), l \notin WritePcs, NEW o, o \notin WritePcs, NEW h
  PROVE  Owns(Q, p, o, h)
BY DEF Owns, Awaits, WritePcs

\* A call that has none in flight has the one that it adds, and awaits it.
LEMMA OwnsBehind ==
  ASSUME NEW Q \in Queues, NEW j \in Ids, NEW w \in Writes, NEW p, w.by = p, NEW l, Owns(Q, p, l, j), l \notin WritePcs,
         NEW o, Awaits(o, w.st)
  PROVE  Owns(Behind(Q, j, w), p, o, j)
<1> DEFINE R == Behind(Q, j, w)
<1>1. /\ \A x \in Ids \ {j} : R[x] = Q[x]
      /\ Len(R[j]) = Len(Q[j]) + 1 /\ R[j][Len(Q[j]) + 1] = w
      /\ \A m \in 1 .. Len(Q[j]) : R[j][m] = Q[j][m]
  BY BehindAt, ZenonT(60)
<1>2. \A x \in Ids : Len(Q[x]) \in Nat
  BY DEF Queues
<1>3. \A x \in Ids : \A m \in 1 .. Len(Q[x]) : Q[x][m].by # p
  BY DEF Owns, Awaits, WritePcs
<1> HIDE DEF R
<1>4. \A x \in Ids : \A m \in 1 .. Len(R[x]) : R[x][m].by = p => x = j /\ m = Len(Q[j]) + 1
  BY <1>1, <1>2, <1>3
<1>5. Len(Q[j]) + 1 \in 1 .. Len(R[j]) /\ R[j][Len(Q[j]) + 1].by = p
  BY <1>1, <1>2
<1>6. \A m \in 1 .. Len(R[j]) : R[j][m].by = p => Awaits(o, R[j][m].st)
  BY <1>1, <1>4
<1>7. Owns(R, p, o, j)
  BY <1>4, <1>5, <1>6 DEF Owns
<1> QED BY <1>7 DEF R

\* Where a call issues a write of its own.
Writing == {<<"s_hook", "i_write">>, <<"i_td", "i_dw">>, <<"s_catch", "s_failed">>, <<"r_td", "r_dw">>,
            <<"r_read", "r_dw">>, <<"d_fence1", "r_dw">>, <<"d_fence2", "d_dw">>}
\* The queues after the notice of a teardown of n, if it gives one.
Noticed(i, n) ==
  IF Live(n) /\ phase[n] \in {"launching", "open", "ready"}
  THEN Behind(inflight, i, Write("DISCONNECTED", NoProc)) ELSE inflight

\* What a call does to the writes in flight when it goes on: nothing; the notice of a teardown it
\* begins; a write of its own; its own write lands, and it goes on, launches, or forgets the phone; its
\* own write fails.
QueueStep(p) ==
  LET i == sid[p] IN
  \/ /\ UNCHANGED <<status, phone, inflight>>
     /\ pc[p] \notin WritePcs \cup {"i_td", "s_catch"} /\ pc'[p] \notin WritePcs \cup {"undo", "r_td"}
  \/ /\ UNCHANGED <<status, phone>> /\ i \in Ids
     /\ pc[p] \in {"inited", "check", "r_read", "d_fence1", "r_init"} /\ pc'[p] \in {"undo", "r_td"}
     /\ inflight' = Noticed(i, cap'[p])
  \/ /\ UNCHANGED <<status, phone>> /\ i \in Ids
     /\ \E st \in Statuses : /\ <<pc[p], pc'[p]>> \in Writing /\ Awaits(pc'[p], st)
                             /\ inflight' = Behind(inflight, i, Write(st, p))
  \/ /\ pc[p] \in WritePcs /\ i \in Ids
     /\ \E k \in 1 .. Len(inflight[i]) :
          /\ CanLand(i, k) /\ inflight[i][k].by = p /\ Land(i, k)
          /\ \/ /\ pc'[p] \notin WritePcs \cup {"undo", "r_td", "i_run"} /\ ~(pc[p] = "r_dw" /\ verb[p] = "logout")
                /\ inflight' = Taken(inflight, i, k)
             \/ /\ pc[p] = "i_write" /\ pc'[p] = "i_run"
                /\ inflight' = Behind(Taken(inflight, i, k), i, Write("INITIALIZING", NoProc))
             \/ /\ pc[p] = "r_dw" /\ verb[p] = "logout" /\ pc'[p] = "r_phone"
                /\ inflight' = Behind(Taken(inflight, i, k), i, Write("NO_PHONE", p))
  \/ /\ UNCHANGED <<status, phone>> /\ i \in Ids /\ pc[p] = "i_write" /\ pc'[p] = "threw"
     /\ \E k \in 1 .. Len(inflight[i]) :
          inflight[i][k].by = p /\ inflight' = Taken(inflight, i, k)

\* What an event does to them: nothing; an engine reports that it is ready, or that it failed; a write
\* that no call awaits lands.
QueueEvent ==
  \/ /\ UNCHANGED <<status, phone, inflight, reg>>
     /\ \A n \in Engines : phase'[n] = "ready" <=> phase[n] = "ready"
  \/ /\ UNCHANGED <<status, phone, reg>>
     /\ \E n \in Engines : /\ Live(n) /\ phase[n] \in {"launching", "open"} /\ phase' = [phase EXCEPT ![n] = "ready"]
                           /\ inflight' = Behind(inflight, owner[n], Write("READY", NoProc))
  \/ /\ UNCHANGED <<status, phone>>
     /\ \E n \in Engines : /\ Live(n) /\ Evict(owner[n]) /\ Close(n)
                           /\ inflight' = Behind(inflight, owner[n], Write("FAILED", NoProc))
  \/ /\ UNCHANGED <<reg, phase>>
     /\ \E i \in Ids : \E k \in 1 .. Len(inflight[i]) :
          CanLand(i, k) /\ inflight[i][k].by = NoProc /\ Land(i, k) /\ inflight' = Taken(inflight, i, k)

QueueMove ==
  \/ pc' = pc /\ QueueEvent
  \/ \E p \in Procs : pc'[p] # pc[p] /\ QueueStep(p)

\* The two ways a step changes a queue: the notice of a teardown; ...
LEMMA NoticeAt ==
  ASSUME inflight \in Queues, NEW i \in Ids, NEW n, Issue(i, ClosingNotice(n))
  PROVE  inflight' = Noticed(i, n)
<1>1. inflight[i] \in Seq(Writes)
  BY DEF Queues
<1>2. inflight[i] \o <<>> = inflight[i]
  BY <1>1, ConcatEmptySeq
<1> QED BY <1>2 DEF Issue, ClosingNotice, Noticed, Behind, Queues

\* ... and the landing of the write of a call, with what it issues next.
LEMMA LandedAt ==
  ASSUME inflight \in Queues, NEW p, sid[p] \in Ids, NEW ws, LandOwn(p, ws)
  PROVE  \E k \in 1 .. Len(inflight[sid[p]]) :
           /\ CanLand(sid[p], k) /\ inflight[sid[p]][k].by = p /\ Land(sid[p], k)
           /\ ws = <<>> => inflight' = Taken(inflight, sid[p], k)
           /\ \A w : ws = <<w>> => inflight' = Behind(Taken(inflight, sid[p], k), sid[p], w)
<1>1. PICK k \in DOMAIN inflight[sid[p]] :
        /\ CanLand(sid[p], k) /\ inflight[sid[p]][k].by = p /\ Land(sid[p], k)
        /\ inflight' = [inflight EXCEPT ![sid[p]] = Without(@, k) \o ws]
  BY DEF LandOwn
<1>2. inflight[sid[p]] \in Seq(Writes) /\ k \in 1 .. Len(inflight[sid[p]])
  BY <1>1 DEF Queues
<1>3. Without(inflight[sid[p]], k) \in Seq(Writes)
  BY <1>2, WithoutAt
<1>4. Without(inflight[sid[p]], k) \o <<>> = Without(inflight[sid[p]], k)
  BY <1>3, ConcatEmptySeq
<1>5. ws = <<>> => inflight' = Taken(inflight, sid[p], k)
  BY <1>1, <1>4 DEF Taken, Queues
<1>6. Taken(inflight, sid[p], k) = [inflight EXCEPT ![sid[p]] = Without(inflight[sid[p]], k)]
  BY DEF Taken
<1>7. \A w : [inflight EXCEPT ![sid[p]] = Without(inflight[sid[p]], k) \o <<w>>] = Behind(Taken(inflight, sid[p], k), sid[p], w)
  BY <1>6 DEF Behind, Queues
<1> QED BY <1>1, <1>2, <1>5, <1>7

\* No step does anything else to the writes in flight: by the action taken.
LEMMA QueueMoves ==
  ASSUME Context, "lost" \notin Faults, "initError" \notin Faults, [Next]_vars
  PROVE  QueueMove
<1>a. /\ pc \in [Procs -> Pcs] /\ inflight \in Queues /\ phase \in [Engines -> Phases]
      /\ \A q \in Procs : pc[q] # "idle" => sid[q] \in Ids
      /\ \A q \in Procs : cap[q] \in Engines \cup {NoEngine}
      /\ cap \in [Procs -> Engines \cup {NoEngine}]
      /\ reg \in [Ids -> Engines \cup {NoEngine}]
  BY DEF Context, TypeOK, RowsOK, RegistryOK, EnginesOK, CallsOK, CallsBound, Queues
<1>b. \A n \in Engines : phase[n] \in {"launching", "open", "ready"} => Live(n)
  BY DEF Context, Accounted, NoOrphan, Running
<1>c. \A p \in Procs : /\ pc[p] \notin {"l_read", "c_td", "c_fence"}
                       /\ pc[p] = "threw" => verb[p] # "reconnect"
  BY DEF Context, Accounted, NoReconnects, StartPcs, RetirePcs, RetireVerbs
<1>d. \A i \in Ids : rstate[i] # "armed"
  BY DEF Context, Accounted, NoReconnects
<1>e. ASSUME NEW p \in Procs, pc[p] # "idle", NEW ws, LandOwn(p, ws)
      PROVE  \E k \in 1 .. Len(inflight[sid[p]]) :
               /\ CanLand(sid[p], k) /\ inflight[sid[p]][k].by = p /\ Land(sid[p], k)
               /\ ws = <<>> => inflight' = Taken(inflight, sid[p], k)
               /\ \A w : ws = <<w>> => inflight' = Behind(Taken(inflight, sid[p], k), sid[p], w)
  BY <1>a, <1>e, LandedAt
<1>f. \A i \in Ids, n \in Engines : Issue(i, ClosingNotice(n)) => inflight' = Noticed(i, n)
  BY <1>a, NoticeAt
<1>h. \A i \in Ids : DOMAIN inflight[i] = 1 .. Len(inflight[i])
  BY <1>a DEF Queues
<1>g. \A i, w : Issue(i, <<w>>) => inflight' = Behind(inflight, i, w)
  BY DEF Issue, Behind
<1> USE <1>a DEF QueueMove, WritePcs, At, Resumes, Goto, callVars, engineVars, rowVars
<1>1. ASSUME NEW p \in Procs, InitWritten(p)
      PROVE  QueueMove
  <2>1. pc[p] = "i_write" /\ sid[p] \in Ids /\ p \in Procs
    BY <1>1 DEF InitWritten
  <2>2. CASE MayLaunch(sid[p], cap[p])
    <3>1. pc'[p] = "i_run" /\ LandOwn(p, <<Write("INITIALIZING", NoProc)>>)
      BY <1>1, <2>2 DEF InitWritten
    <3>2. PICK k \in 1 .. Len(inflight[sid[p]]) :
            /\ CanLand(sid[p], k) /\ inflight[sid[p]][k].by = p /\ Land(sid[p], k)
            /\ inflight' = Behind(Taken(inflight, sid[p], k), sid[p], Write("INITIALIZING", NoProc))
      BY <1>e, <2>1, <3>1
    <3>3. QueueStep(p)
      BY <2>1, <3>1, <3>2 DEF QueueStep
    <3> QED BY <2>1, <3>1, <3>3
  <2>3. CASE ~MayLaunch(sid[p], cap[p])
    <3>1. pc'[p] = "inited" /\ LandOwn(p, <<>>)
      BY <1>1, <2>3 DEF InitWritten
    <3>2. PICK k \in 1 .. Len(inflight[sid[p]]) :
            CanLand(sid[p], k) /\ inflight[sid[p]][k].by = p /\ Land(sid[p], k) /\ inflight' = Taken(inflight, sid[p], k)
      BY <1>e, <2>1, <3>1
    <3>3. QueueStep(p)
      BY <2>1, <3>1, <3>2 DEF QueueStep
    <3> QED BY <2>1, <3>1, <3>3
  <2> QED BY <2>2, <2>3
<1>2. ASSUME NEW p \in Procs, InitWriteFails(p)
      PROVE  QueueMove
  <2>1. pc[p] = "i_write" /\ pc'[p] = "threw" /\ sid[p] \in Ids /\ UNCHANGED <<status, phone>>
    BY <1>2 DEF InitWriteFails
  <2>2. PICK k \in DOMAIN inflight[sid[p]] :
          inflight[sid[p]][k].by = p /\ inflight' = [inflight EXCEPT ![sid[p]] = Without(@, k)]
    BY <1>2 DEF InitWriteFails
  <2>3. k \in 1 .. Len(inflight[sid[p]]) /\ inflight' = Taken(inflight, sid[p], k)
    BY <1>h, <2>1, <2>2 DEF Taken
  <2>4. QueueStep(p)
    BY <2>1, <2>2, <2>3 DEF QueueStep
  <2> QED BY <2>1, <2>4
<1>3. ASSUME NEW p \in Procs, InitDeadline(p)
      PROVE  QueueMove
  BY <1>3 DEF InitDeadline, QueueStep
<1>4. ASSUME NEW p \in Procs, InitReaped(p)
      PROVE  QueueMove
  BY <1>4, <1>g DEF InitReaped, QueueStep, Writing, Awaits, Statuses
<1>5. ASSUME NEW p \in Procs, InitGaveUp(p)
      PROVE  QueueMove
  BY <1>5, <1>e DEF InitGaveUp, QueueStep
<1>6. ASSUME NEW p \in Procs, Initialized(p) \/ CheckRetired(p)
      PROVE  QueueMove
  <2>1. pc[p] \in {"inited", "check"} /\ sid[p] \in Ids /\ UNCHANGED <<status, phone>>
    BY <1>6 DEF Initialized, CheckRetired
  <2>2. CASE Undo(p) /\ reg[sid[p]] # NoEngine
    <3>1. cap'[p] = reg[sid[p]] /\ reg[sid[p]] \in Engines /\ pc'[p] = "undo" /\ Issue(sid[p], ClosingNotice(cap'[p]))
      BY <2>1, <2>2 DEF Undo
    <3>2. inflight' = Noticed(sid[p], cap'[p])
      BY <1>f, <2>1, <3>1
    <3>3. QueueStep(p)
      BY <2>1, <3>1, <3>2 DEF QueueStep
    <3> QED BY <2>1, <3>1, <3>3
  <2>3. CASE Undo(p) /\ reg[sid[p]] = NoEngine
    BY <2>1, <2>3 DEF Undo, QueueStep
  <2>4. CASE ~Undo(p)
    BY <1>6, <2>1, <2>4 DEF Initialized, CheckRetired, Finish, End, QueueStep
  <2> QED BY <2>2, <2>3, <2>4
<1>7. ASSUME NEW p \in Procs, Undone(p) \/ PurgeCheck(p) \/ Wipe(p) \/ StartReplies(p)
      PROVE  QueueMove
  BY <1>7 DEF Undone, PurgeCheck, Finish, End, Wipe, StartReplies, QueueStep
<1>8. ASSUME NEW p \in Procs, StartRead(p) \/ StartFenced(p)
      PROVE  QueueMove
  BY <1>8 DEF StartRead, Reject, StartAccepted, End, StartFenced, QueueStep
<1>9. ASSUME NEW p \in Procs, StartHooked(p)
      PROVE  QueueMove
  BY <1>9, <1>g DEF StartHooked, InitializeEngine, QueueStep, Writing, Awaits, Statuses
<1>10. ASSUME NEW p \in Procs, StartCatch(p)
      PROVE  QueueMove
  BY <1>10 DEF StartCatch, End, QueueStep
<1>11. ASSUME NEW p \in Procs, StartReaped(p)
      PROVE  QueueMove
  BY <1>11, <1>g DEF StartReaped, QueueStep, Writing, Awaits, Statuses
<1>12. ASSUME NEW p \in Procs, StartFailed(p)
      PROVE  QueueMove
  BY <1>12, <1>e, ZenonT(60) DEF StartFailed, End, QueueStep
<1>13. ASSUME NEW p \in Procs, RetireRead(p)
      PROVE  QueueMove
  BY <1>13, <1>f, <1>g DEF RetireRead, Reject, End, MarkAndTear, AfterTeardown, BeginTeardown, QueueStep,
     Writing, Awaits, Statuses
<1>14. ASSUME NEW p \in Procs, DeleteFenced1(p)
      PROVE  QueueMove
  BY <1>14, <1>f, <1>g DEF DeleteFenced1, MarkAndTear, AfterTeardown, BeginTeardown, QueueStep, Writing,
     Awaits, Statuses
<1>15. ASSUME NEW p \in Procs, InitialStatusSettled(p)
      PROVE  QueueMove
  <2>1. pc[p] = "r_init" /\ sid[p] \in Ids /\ UNCHANGED <<status, phone>> /\ BeginTeardown(p, cap[p]) /\ cap[p] \in Engines
    BY <1>15 DEF InitialStatusSettled, Context, CapturesOK
  <2>2. cap'[p] = cap[p] /\ pc'[p] = "r_td" /\ Issue(sid[p], ClosingNotice(cap'[p]))
    BY <2>1 DEF BeginTeardown
  <2>3. inflight' = Noticed(sid[p], cap'[p])
    BY <1>f, <2>1, <2>2
  <2>4. QueueStep(p)
    BY <2>1, <2>2, <2>3 DEF QueueStep
  <2> QED BY <2>1, <2>2, <2>4
<1>16. ASSUME NEW p \in Procs, RetireTornDown(p)
      PROVE  QueueMove
  BY <1>16, <1>g DEF RetireTornDown, AfterTeardown, QueueStep, Writing, Awaits, Statuses
<1>17. ASSUME NEW p \in Procs, RetireWritten(p)
      PROVE  QueueMove
  <2>1. pc[p] = "r_dw" /\ sid[p] \in Ids
    BY <1>17 DEF RetireWritten
  <2>2. CASE verb[p] = "logout"
    <3>1. pc'[p] = "r_phone" /\ LandOwn(p, <<Write("NO_PHONE", p)>>)
      BY <1>17, <2>2 DEF RetireWritten
    <3>2. PICK k \in 1 .. Len(inflight[sid[p]]) :
            /\ CanLand(sid[p], k) /\ inflight[sid[p]][k].by = p /\ Land(sid[p], k)
            /\ inflight' = Behind(Taken(inflight, sid[p], k), sid[p], Write("NO_PHONE", p))
      BY <1>e, <2>1, <3>1
    <3>3. QueueStep(p)
      BY <2>1, <2>2, <3>1, <3>2 DEF QueueStep
    <3> QED BY <2>1, <3>1, <3>3
  <2>3. CASE verb[p] # "logout"
    <3>1. pc'[p] = "idle" /\ LandOwn(p, <<>>)
      BY <1>17, <2>3 DEF RetireWritten, End
    <3>2. PICK k \in 1 .. Len(inflight[sid[p]]) :
            CanLand(sid[p], k) /\ inflight[sid[p]][k].by = p /\ Land(sid[p], k) /\ inflight' = Taken(inflight, sid[p], k)
      BY <1>e, <2>1, <3>1
    <3>3. QueueStep(p)
      BY <2>1, <2>3, <3>1, <3>2 DEF QueueStep
    <3> QED BY <2>1, <3>1, <3>3
  <2> QED BY <2>2, <2>3
<1>18. ASSUME NEW p \in Procs, LogoutForgot(p)
      PROVE  QueueMove
  BY <1>18, <1>e DEF LogoutForgot, End, QueueStep
<1>19. ASSUME NEW p \in Procs, DeleteFenced2(p)
      PROVE  QueueMove
  BY <1>19 DEF DeleteFenced2, QueueStep
<1>20. ASSUME NEW p \in Procs, DeleteRefused2(p)
      PROVE  QueueMove
  BY <1>20, <1>g DEF DeleteRefused2, End, QueueStep, Writing, Awaits, Statuses
<1>21. ASSUME NEW p \in Procs, DeleteGaveUp(p)
      PROVE  QueueMove
  BY <1>21, <1>e DEF DeleteGaveUp, End, QueueStep
<1>22. ASSUME NEW p \in Procs,
             DeleteHooked(p) \/ DeleteCommitted(p) \/ DeletePurged(p) \/ FenceRefused(p)
      PROVE  QueueMove
  BY <1>22 DEF DeleteHooked, DeleteCommitted, DeletePurged, End, FenceRefused, Reject, QueueStep
<1>23. ASSUME NEW p \in Procs,
             LostRead(p) \/ ReconnectTornDown(p) \/ ReconnectFenced(p) \/ ReconnectRefused(p) \/
             ReconnectCatch(p)
      PROVE  QueueMove
  BY <1>23, <1>c DEF LostRead, ReconnectTornDown, ReconnectFenced, ReconnectRefused, ReconnectCatch,
     TeardownPcs, FencePcs
<1>24. ASSUME NEW p \in Procs, InitResolves(p) \/ InitRejects(p)
      PROVE  QueueMove
  BY <1>24 DEF InitResolves, InitRejects, QueueStep, Pcs, TeardownPcs, FencePcs
<1>25. ASSUME NEW p \in Procs, NEW i \in Ids, Start(p, i)
      PROVE  QueueMove
  BY <1>25 DEF Start, QueueStep
<1>26. ASSUME NEW p \in Procs, NEW i \in Ids, ReconnectFires(i, p)
      PROVE  QueueMove
  BY <1>26, <1>d DEF ReconnectFires
<1>27. ASSUME NEW p \in Procs, NEW i \in Ids, NEW v \in RetireVerbs, Retire(p, v, i)
      PROVE  QueueMove
  BY <1>27 DEF Retire, QueueStep
<1>28. ASSUME NEW n \in Engines, NEW p \in Procs, NEW unlinked \in BOOLEAN, Lost(n, p, unlinked)
      PROVE  QueueMove
  BY <1>28 DEF Lost
<1>29. ASSUME NEW n \in Engines, EngineReady(n)
      PROVE  QueueMove
  BY <1>29, <1>b, <1>g DEF EngineReady, QueueEvent
<1>30. ASSUME NEW n \in Engines, EngineFails(n)
      PROVE  QueueMove
  BY <1>30, <1>b, <1>g DEF EngineFails, OnError, QueueEvent, Live
<1>31. ASSUME NEW n \in Engines, EngineClosed(n) \/ CredentialsRemoved(n)
      PROVE  QueueMove
  BY <1>31 DEF EngineClosed, CredentialsRemoved, QueueEvent
<1>32. ASSUME NEW i \in Ids, Create(i)
      PROVE  QueueMove
  BY <1>32 DEF Create, QueueEvent
<1>33. ASSUME NEW i \in Ids, WriteLands(i)
      PROVE  QueueMove
  <2>1. PICK k \in DOMAIN inflight[i] :
          /\ CanLand(i, k) /\ inflight[i][k].by = NoProc /\ Land(i, k)
          /\ inflight' = [inflight EXCEPT ![i] = Without(@, k)]
    BY <1>33 DEF WriteLands
  <2>2. k \in 1 .. Len(inflight[i]) /\ inflight' = Taken(inflight, i, k)
    BY <1>h, <2>1 DEF Taken
  <2> QED BY <1>33, <2>1, <2>2 DEF WriteLands, QueueEvent
<1>34. CASE UNCHANGED vars
  BY <1>34 DEF vars, QueueEvent
<1>35. ASSUME NEW p \in Procs, Continue(p) \/ EngineAnswers(p)
      PROVE  QueueMove
  BY <1>35, <1>1, <1>2, <1>3, <1>4, <1>5, <1>6, <1>7, <1>8, <1>9, <1>10, <1>11, <1>12, <1>13, <1>14,
     <1>15, <1>16, <1>17, <1>18, <1>19, <1>20, <1>21, <1>22, <1>23, <1>24
     DEF Continue, EngineAnswers
<1> QED BY <1>25, <1>26, <1>27, <1>28, <1>29, <1>30, <1>31, <1>32, <1>33, <1>34, <1>35 DEF Next

\* A call that moves goes on to another await, ...
LEMMA CallMovesOn ==
  ASSUME Context, NEW p \in Procs, CallMoves(p)
  PROVE  pc'[p] # pc[p]
<1> USE DEF Context, TypeOK, CallsOK, CallsBound, Acts, callVars, Goto
<1>1. CASE CallBegins(p)
  BY <1>1 DEF CallBegins
<1>2. CASE Passes(p)
  BY <1>2 DEF Passes, Onward, End
<1>3. CASE Accepts(p)
  BY <1>3 DEF Accepts
<1>4. CASE Registers(p)
  BY <1>4 DEF Registers, InitializeEngine
<1>5. CASE Launches(p) \/ RunEnds(p)
  BY <1>5 DEF Launches, RunEnds
<1>6. CASE Reaps(p) \/ Evicts(p)
  BY <1>6 DEF Reaps, Evicts
<1>7. CASE Marks(p) \/ Tears(p)
  BY <1>7 DEF Marks, Tears
<1> QED BY <1>1, <1>2, <1>3, <1>4, <1>5, <1>6, <1>7 DEF CallMoves

\* ... so that the step of the call that goes on is its own.
LEMMA OneCall ==
  ASSUME Context, EngineMove, NEW p \in Procs, pc'[p] # pc[p]
  PROVE  CallMoves(p) /\ Only(p) /\ \A q \in Procs \ {p} : snap'[q] = snap[q]
<1>1. ~EngineEvent
  BY DEF EngineEvent
<1>2. PICK r \in Procs : CallMoves(r) /\ \A q \in Procs \ {r} : snap'[q] = snap[q]
  BY <1>1 DEF EngineMove
<1>3. Only(r)
  BY <1>2, CallMovesOnly DEF Context
<1>4. r = p
  BY <1>3 DEF Only
<1> QED BY <1>2, <1>3, <1>4

\* A step in which no call goes on is an event.
LEMMA NoCall ==
  ASSUME Context, EngineMove, pc' = pc
  PROVE  EngineEvent
BY CallMovesOn DEF EngineMove

\* Each call has the one write in flight that it awaits, and no other.
Owned == \A p \in Procs : Owns(inflight, p, pc[p], sid[p])

\* Each call keeps the one write that it awaits.
LEMMA OwnedStep ==
  ASSUME Context, Owned, EngineMove, QueueMove
  PROVE  Owned'
<1>a. inflight \in Queues /\ NoProc \notin Procs
  BY ConstantsAssumption DEF Context, TypeOK, RowsOK, Queues
<1>b. \A q \in Procs : Owns(inflight, q, pc[q], sid[q])
  BY DEF Owned
<1>c. \A st \in Statuses \cup {"NO_PHONE"}, q \in Procs \cup {NoProc} : Write(st, q) \in Writes /\ Write(st, q).st = st /\ Write(st, q).by = q
  BY DEF Write, Writes
<1>1. CASE pc' = pc /\ QueueEvent
  <2>1. EngineEvent
    BY <1>1, NoCall
  <2>2. sid' = sid
    BY <2>1 DEF EngineEvent, callVars
  <2>3. CASE inflight' = inflight
    BY <1>1, <2>2, <2>3 DEF Owned
  <2>4. ASSUME NEW i \in Ids, NEW st \in Statuses, inflight' = Behind(inflight, i, Write(st, NoProc)) PROVE Owned'
    <3>1. \A q \in Procs : Owns(Behind(inflight, i, Write(st, NoProc)), q, pc[q], sid[q])
      BY <1>a, <1>b, <1>c, OwnsBehindOther
    <3> QED BY <1>1, <2>2, <2>4, <3>1 DEF Owned
  <2>5. ASSUME NEW i \in Ids, NEW k \in 1 .. Len(inflight[i]), inflight[i][k].by = NoProc, inflight' = Taken(inflight, i, k)
        PROVE  Owned'
    <3>1. \A q \in Procs : Owns(Taken(inflight, i, k), q, pc[q], sid[q])
      BY <1>a, <1>b, <2>5, OwnsTakenOther
    <3> QED BY <1>1, <2>2, <2>5, <3>1 DEF Owned
  <2>6. \A n \in Engines : Live(n) => owner[n] \in Ids
    BY DEF Live
  <2> QED BY <1>1, <2>3, <2>4, <2>5, <2>6 DEF QueueEvent, Statuses
<1>2. ASSUME NEW p \in Procs, pc'[p] # pc[p], QueueStep(p) PROVE Owned'
  <2>1. Only(p)
    BY <1>2, OneCall
  <2>2. \A q \in Procs \ {p} : pc'[q] = pc[q] /\ sid'[q] = sid[q]
    BY <2>1 DEF Only
  <2>3. pc'[p] # "idle" /\ pc[p] # "idle" => sid'[p] = sid[p]
    BY CallsKeepSession
  <2>4. SUFFICES ASSUME NEW i, i = sid[p]
                 PROVE  /\ Owns(inflight', p, pc'[p], sid'[p])
                        /\ \A q \in Procs \ {p} : Owns(inflight', q, pc[q], sid[q])
    BY <2>2 DEF Owned
  <2>5. CASE inflight' = inflight /\ pc[p] \notin WritePcs /\ pc'[p] \notin WritePcs
    <3>1. Owns(inflight, p, pc'[p], sid'[p])
      BY <1>a, <1>b, <2>5, OwnsNone
    <3> QED BY <1>b, <2>5, <3>1
  <2>6. CASE /\ i \in Ids /\ pc[p] \notin WritePcs /\ pc'[p] \notin WritePcs
             /\ inflight' = Behind(inflight, i, Write("DISCONNECTED", NoProc))
    <3>1. Write("DISCONNECTED", NoProc) \in Writes /\ Write("DISCONNECTED", NoProc).by = NoProc
      BY <1>c DEF Statuses
    <3>2. \A q \in Procs : Owns(Behind(inflight, i, Write("DISCONNECTED", NoProc)), q, pc[q], sid[q])
      BY <1>a, <1>b, <2>6, <3>1, OwnsBehindOther
    <3>3. Behind(inflight, i, Write("DISCONNECTED", NoProc)) \in Queues
      BY <1>a, <2>6, <3>1, BehindAt
    <3> QED BY <2>6, <3>2, <3>3, OwnsNone
  <2>7. ASSUME i \in Ids, NEW st \in Statuses, <<pc[p], pc'[p]>> \in Writing, Awaits(pc'[p], st),
               inflight' = Behind(inflight, i, Write(st, p))
        PROVE  /\ Owns(inflight', p, pc'[p], sid'[p])
               /\ \A q \in Procs \ {p} : Owns(inflight', q, pc[q], sid[q])
    <3>1. pc[p] \notin WritePcs /\ sid'[p] = i
      BY <2>3, <2>4, <2>7 DEF Writing, WritePcs
    <3>2. Write(st, p) \in Writes /\ Write(st, p).by = p /\ Write(st, p).st = st
      BY <1>c
    <3>3. Owns(Behind(inflight, i, Write(st, p)), p, pc'[p], i)
      BY <1>a, <1>b, <2>4, <2>7, <3>1, <3>2, OwnsBehind
    <3>4. \A q \in Procs \ {p} : Owns(Behind(inflight, i, Write(st, p)), q, pc[q], sid[q])
      BY <1>a, <1>b, <2>7, <3>2, OwnsBehindOther
    <3> QED BY <2>7, <3>1, <3>3, <3>4
  <2>8. ASSUME i \in Ids, NEW k \in 1 .. Len(inflight[i]), inflight[i][k].by = p, pc[p] \in WritePcs
        PROVE  /\ Taken(inflight, i, k) \in Queues
               /\ \A o, h : o \notin WritePcs => Owns(Taken(inflight, i, k), p, o, h)
               /\ \A q \in Procs \ {p} : Owns(Taken(inflight, i, k), q, pc[q], sid[q])
    <3>1. \A o, h : o \notin WritePcs => Owns(Taken(inflight, i, k), p, o, h)
      BY <1>a, <1>b, <2>8, OwnsTaken
    <3>2. \A q \in Procs \ {p} : Owns(Taken(inflight, i, k), q, pc[q], sid[q])
      BY <1>a, <1>b, <2>8, OwnsTakenOther
    <3> QED BY <1>a, <2>8, <3>1, <3>2, TakenAt
  <2>9. ASSUME i \in Ids, NEW k \in 1 .. Len(inflight[i]), inflight[i][k].by = p, pc[p] \in WritePcs,
               \/ pc'[p] \notin WritePcs /\ inflight' = Taken(inflight, i, k)
               \/ pc'[p] = "i_run" /\ inflight' = Behind(Taken(inflight, i, k), i, Write("INITIALIZING", NoProc))
               \/ pc'[p] = "r_phone" /\ inflight' = Behind(Taken(inflight, i, k), i, Write("NO_PHONE", p))
        PROVE  /\ Owns(inflight', p, pc'[p], sid'[p])
               /\ \A q \in Procs \ {p} : Owns(inflight', q, pc[q], sid[q])
    <3> DEFINE R == Taken(inflight, i, k)
    <3>1. /\ R \in Queues
          /\ \A o, h : o \notin WritePcs => Owns(R, p, o, h)
          /\ \A q \in Procs \ {p} : Owns(R, q, pc[q], sid[q])
      BY <2>8, <2>9
    <3> HIDE DEF R
    <3>2. CASE pc'[p] \notin WritePcs /\ inflight' = Taken(inflight, i, k)
      BY <3>1, <3>2 DEF R
    <3>3. CASE pc'[p] = "i_run" /\ inflight' = Behind(Taken(inflight, i, k), i, Write("INITIALIZING", NoProc))
      <4>1. Write("INITIALIZING", NoProc) \in Writes /\ Write("INITIALIZING", NoProc).by = NoProc /\ "i_run" \notin WritePcs
        BY <1>c DEF Statuses, WritePcs
      <4>2. Owns(Behind(R, i, Write("INITIALIZING", NoProc)), p, "i_run", sid'[p])
        BY <1>a, <2>9, <3>1, <4>1, OwnsBehindOther
      <4>3. \A q \in Procs \ {p} : Owns(Behind(R, i, Write("INITIALIZING", NoProc)), q, pc[q], sid[q])
        BY <1>a, <2>9, <3>1, <4>1, OwnsBehindOther
      <4> QED BY <3>3, <4>2, <4>3 DEF R
    <3>4. CASE pc'[p] = "r_phone" /\ inflight' = Behind(Taken(inflight, i, k), i, Write("NO_PHONE", p))
      <4>1. Write("NO_PHONE", p) \in Writes /\ Write("NO_PHONE", p).by = p /\ Write("NO_PHONE", p).st = "NO_PHONE"
        BY <1>c
      <4>2. sid'[p] = i /\ "idle" \notin WritePcs
        BY <2>3, <2>4, <2>9, <3>4 DEF WritePcs
      <4>3. Awaits("r_phone", Write("NO_PHONE", p).st)
        BY <4>1 DEF Awaits
      <4>4. Owns(Behind(R, i, Write("NO_PHONE", p)), p, "r_phone", i)
        BY <2>9, <3>1, <4>1, <4>2, <4>3, OwnsBehind
      <4>5. \A q \in Procs \ {p} : Owns(Behind(R, i, Write("NO_PHONE", p)), q, pc[q], sid[q])
        BY <2>9, <3>1, <4>1, OwnsBehindOther
      <4> QED BY <3>4, <4>2, <4>4, <4>5 DEF R
    <3> QED BY <2>9, <3>2, <3>3, <3>4
  <2>10. "undo" \notin WritePcs /\ "r_td" \notin WritePcs /\ "threw" \notin WritePcs
         /\ {"inited", "check", "r_read", "d_fence1", "r_init"} \cap WritePcs = {} /\ "i_write" \in WritePcs
    BY DEF WritePcs
  <2>11. CASE /\ UNCHANGED <<status, phone, inflight>>
              /\ pc[p] \notin WritePcs \cup {"i_td", "s_catch"} /\ pc'[p] \notin WritePcs \cup {"undo", "r_td"}
    BY <2>5, <2>11
  <2>12. CASE /\ i \in Ids
              /\ pc[p] \in {"inited", "check", "r_read", "d_fence1", "r_init"} /\ pc'[p] \in {"undo", "r_td"}
              /\ inflight' = Noticed(i, cap'[p])
    BY <2>5, <2>6, <2>10, <2>12 DEF Noticed
  <2> QED BY <1>2, <2>4, <2>7, <2>9, <2>10, <2>11, <2>12 DEF QueueStep
<1> QED BY <1>1, <1>2 DEF QueueMove

-----------------------------------------------------------------------------
(* The columns: what they hold now, and what the writes in flight leave in them. *)

\* The kinds of write that set the phone column.
PhoneKinds == {"READY", "NO_PHONE"}
Kinds == {Statuses, PhoneKinds}

\* What a queue says, with one more write; ...
LEMMA SaysBehind ==
  ASSUME NEW q \in Seq(Writes), NEW w \in Writes, NEW S \in Kinds, NEW b \in BOOLEAN
  PROVE  /\ q \o <<w>> \in Seq(Writes) /\ Len(q \o <<w>>) = Len(q) + 1
         /\ (q \o <<w>>)[Len(q) + 1] = w /\ \A m \in 1 .. Len(q) : (q \o <<w>>)[m] = q[m]
         /\ Says(q \o <<w>>, Len(q) + 1, S, b) <=> IF w.st \in S THEN w.st = "READY" ELSE Says(q, Len(q), S, b)
         /\ \A k \in 0 .. Len(q) : Says(q \o <<w>>, k, S, b) <=> Says(q, k, S, b)
<1>1. q \o <<w>> \in Seq(Writes) /\ Len(q \o <<w>>) = Len(q) + 1
  BY ConcatProperties
<1>2. (q \o <<w>>)[Len(q) + 1] = w /\ \A m \in 1 .. Len(q) : (q \o <<w>>)[m] = q[m]
  BY ConcatProperties
<1>3. Len(q) \in Nat /\ "READY" \in S
  BY DEF Kinds, Statuses, PhoneKinds
<1> DEFINE r == q \o <<w>>
<1> HIDE DEF r
<1>4. ASSUME NEW k \in 0 .. Len(q) PROVE Says(r, k, S, b) <=> Says(q, k, S, b)
  <2>1. k \in Nat /\ \A m \in 1 .. k : r[m] = q[m] /\ q[m] = r[m]
    BY <1>2, <1>3 DEF r
  <2> QED BY <2>1, SaysSame, ZenonT(60)
<1>5. Says(r, Len(q) + 1, S, b) <=> IF r[Len(q) + 1].st \in S THEN r[Len(q) + 1].st = "READY" ELSE Says(r, Len(q), S, b)
  BY <1>3, SaysNext
<1>6. Says(r, Len(q), S, b) <=> Says(q, Len(q), S, b)
  BY <1>3, <1>4
<1> QED BY <1>1, <1>2, <1>4, <1>5, <1>6 DEF r

\* ... when its first write has landed in the column; ...
LEMMA SaysShifted ==
  ASSUME NEW q \in Seq(Writes), 1 \in 1 .. Len(q), NEW S \in Kinds, NEW b \in BOOLEAN, NEW c \in BOOLEAN,
         c = IF q[1].st \in S THEN q[1].st = "READY" ELSE b
  PROVE  /\ Without(q, 1) \in Seq(Writes) /\ Len(Without(q, 1)) = Len(q) - 1
         /\ \A m \in 1 .. (Len(q) - 1) : Without(q, 1)[m] = q[m + 1]
         /\ \A n \in 0 .. (Len(q) - 1) : Says(Without(q, 1), n, S, c) <=> Says(q, n + 1, S, b)
<1>1. /\ Without(q, 1) \in Seq(Writes) /\ Len(Without(q, 1)) = Len(q) - 1
      /\ \A m \in 1 .. (Len(q) - 1) : Without(q, 1)[m] = q[m + 1]
  <2>1. /\ Without(q, 1) \in Seq(Writes) /\ Len(Without(q, 1)) = Len(q) - 1
        /\ \A m \in 1 .. (Len(q) - 1) : Without(q, 1)[m] = IF m < 1 THEN q[m] ELSE q[m + 1]
    BY WithoutAt
  <2>2. \A m \in 1 .. (Len(q) - 1) : ~(m < 1)
    OBVIOUS
  <2> QED BY <2>1, <2>2
<1>2. Len(q) \in Nat /\ "READY" \in S
  BY DEF Kinds, Statuses, PhoneKinds
<1> DEFINE t == Without(q, 1)
<1> HIDE DEF t
<1>3. ASSUME NEW n \in 0 .. (Len(q) - 1) PROVE Says(t, n, S, c) <=> Says(q, n + 1, S, b)
  <2>1. n \in Nat /\ \A m \in 1 .. n : t[m] = q[m + 1] /\ ~(m < 1)
    BY <1>1, <1>2 DEF t
  <2>2. Skips(q, t, n, 1)
    BY <2>1 DEF Skips
  <2> QED BY <1>2, <2>1, <2>2, SaysLanded
<1> QED BY <1>1, <1>3 DEF t

\* ... and without a write that failed and had no say.
LEMMA SaysWithout ==
  ASSUME NEW q \in Seq(Writes), NEW k \in 1 .. Len(q), NEW S \in Kinds, NEW b \in BOOLEAN,
         q[k].st \in S => q[k].st # "READY" /\ ~Says(q, k - 1, S, b)
  PROVE  /\ Without(q, k) \in Seq(Writes) /\ Len(Without(q, k)) = Len(q) - 1
         /\ \A m \in 1 .. (Len(q) - 1) : Without(q, k)[m] = IF m < k THEN q[m] ELSE q[m + 1]
         /\ \A n \in 0 .. (Len(q) - 1) : n >= k - 1 => (Says(Without(q, k), n, S, b) <=> Says(q, n + 1, S, b))
         /\ \A n \in 0 .. (k - 1) : Says(Without(q, k), n, S, b) <=> Says(q, n, S, b)
<1>1. /\ Without(q, k) \in Seq(Writes) /\ Len(Without(q, k)) = Len(q) - 1
      /\ \A m \in 1 .. (Len(q) - 1) : Without(q, k)[m] = IF m < k THEN q[m] ELSE q[m + 1]
  BY WithoutAt
<1>2. Len(q) \in Nat /\ "READY" \in S
  BY DEF Kinds, Statuses, PhoneKinds
<1> DEFINE t == Without(q, k)
<1> HIDE DEF t
<1>3. ASSUME NEW n \in 0 .. (Len(q) - 1), n >= k - 1 PROVE Says(t, n, S, b) <=> Says(q, n + 1, S, b)
  <2>1. n \in Nat /\ k \in 1 .. (n + 1) /\ \A m \in 1 .. n : t[m] = IF m < k THEN q[m] ELSE q[m + 1]
    BY <1>1, <1>2, <1>3 DEF t
  <2>2. Skips(q, t, n, k)
    BY <2>1 DEF Skips
  <2> QED BY <1>2, <2>1, <2>2, SaysDropped
<1>4. ASSUME NEW n \in 0 .. (k - 1) PROVE Says(t, n, S, b) <=> Says(q, n, S, b)
  <2>1. n \in Nat /\ \A m \in 1 .. n : t[m] = q[m] /\ q[m] = t[m]
    BY <1>1, <1>2 DEF t
  <2>2. Says(t, n, S, b) => Says(q, n, S, b)
    BY <2>1, SaysSame, ZenonT(60)
  <2>3. Says(q, n, S, b) => Says(t, n, S, b)
    BY <2>1, SaysSame, ZenonT(60)
  <2> QED BY <2>2, <2>3
<1> QED BY <1>1, <1>3, <1>4 DEF t

\* How the queue q of a session, with s for "its status reads READY" and f for "it has a phone", goes
\* with u, its registered engine being ready, and v, that or a start reaping its engine.
Cols(q, s, f, u, v) ==
  /\ u => Says(q, Len(q), Statuses, s)
  /\ Says(q, Len(q), Statuses, s) => v /\ Says(q, Len(q), PhoneKinds, f)
  /\ \A k \in 1 .. Len(q) :
       q[k].st = "INITIALIZING" /\ q[k].by # NoProc => ~Says(q, k - 1, Statuses, s)

\* The columns stay in agreement when a write that tells the truth about the engine is added; ...
LEMMA ColsBehind ==
  ASSUME NEW q \in Seq(Writes), NEW w \in Writes, NEW s \in BOOLEAN, NEW f \in BOOLEAN,
         NEW u \in BOOLEAN, NEW v \in BOOLEAN, Cols(q, s, f, u, v), NEW u1 \in BOOLEAN, NEW v1 \in BOOLEAN,
         \/ /\ w.st \in Statuses \ {"READY"} /\ ~u1
            /\ w.st = "INITIALIZING" /\ w.by # NoProc => ~Says(q, Len(q), Statuses, s)
         \/ w.st = "READY" /\ u1 /\ v1
         \/ w.st = "NO_PHONE" /\ ~Says(q, Len(q), Statuses, s) /\ u1 = u
  PROVE  Cols(q \o <<w>>, s, f, u1, v1)
<1> DEFINE r == q \o <<w>>
<1>1. Statuses \in Kinds /\ PhoneKinds \in Kinds /\ "NO_PHONE" \notin Statuses /\ "READY" \in Statuses \cap PhoneKinds
      /\ Len(q) \in Nat
  BY DEF Kinds, Statuses, PhoneKinds
<1>2. Len(r) = Len(q) + 1 /\ r[Len(q) + 1] = w /\ \A m \in 1 .. Len(q) : r[m] = q[m]
  BY <1>1, SaysBehind
<1>3. /\ Says(r, Len(q) + 1, Statuses, s) <=> IF w.st \in Statuses THEN w.st = "READY" ELSE Says(q, Len(q), Statuses, s)
      /\ \A k \in 0 .. Len(q) : Says(r, k, Statuses, s) <=> Says(q, k, Statuses, s)
  BY <1>1, SaysBehind
<1>4. Says(r, Len(q) + 1, PhoneKinds, f)
        <=> IF w.st \in PhoneKinds THEN w.st = "READY" ELSE Says(q, Len(q), PhoneKinds, f)
  BY <1>1, SaysBehind
<1> HIDE DEF r
<1>5. u1 => Says(r, Len(q) + 1, Statuses, s)
  BY <1>1, <1>3 DEF Cols
<1>6. Says(r, Len(q) + 1, Statuses, s) => v1 /\ Says(r, Len(q) + 1, PhoneKinds, f)
  BY <1>1, <1>3, <1>4 DEF Cols
<1>7. ASSUME NEW k \in 1 .. Len(r), r[k].st = "INITIALIZING", r[k].by # NoProc PROVE ~Says(r, k - 1, Statuses, s)
  <2>1. k - 1 \in 0 .. Len(q)
    BY <1>1, <1>2
  <2>2. CASE k = Len(q) + 1
    BY <1>1, <1>2, <1>3, <1>7, <2>1, <2>2
  <2>3. CASE k # Len(q) + 1
    <3>1. k \in 1 .. Len(q) /\ r[k] = q[k]
      BY <1>1, <1>2, <2>3
    <3> QED BY <1>3, <1>7, <2>1, <3>1 DEF Cols
  <2> QED BY <2>2, <2>3
<1>8. Cols(r, s, f, u1, v1)
  BY <1>2, <1>5, <1>6, <1>7 DEF Cols
<1> QED BY <1>8 DEF r

\* ... when the first write lands; ...
LEMMA ColsShifted ==
  ASSUME NEW q \in Seq(Writes), 1 \in 1 .. Len(q), NEW s \in BOOLEAN, NEW f \in BOOLEAN,
         NEW u \in BOOLEAN, NEW v \in BOOLEAN, Cols(q, s, f, u, v), NEW s1 \in BOOLEAN, NEW f1 \in BOOLEAN,
         s1 = IF q[1].st \in Statuses THEN q[1].st = "READY" ELSE s,
         f1 = IF q[1].st \in PhoneKinds THEN q[1].st = "READY" ELSE f
  PROVE  Cols(Without(q, 1), s1, f1, u, v)
<1> DEFINE r == Without(q, 1)
<1>1. Statuses \in Kinds /\ PhoneKinds \in Kinds /\ Len(q) \in Nat
  BY DEF Kinds
<1>2. Len(r) = Len(q) - 1 /\ \A m \in 1 .. (Len(q) - 1) : r[m] = q[m + 1]
  BY <1>1, SaysShifted
<1>3. \A n \in 0 .. (Len(q) - 1) : Says(r, n, Statuses, s1) <=> Says(q, n + 1, Statuses, s)
  BY <1>1, SaysShifted
<1>4. \A n \in 0 .. (Len(q) - 1) : Says(r, n, PhoneKinds, f1) <=> Says(q, n + 1, PhoneKinds, f)
  BY <1>1, SaysShifted
<1> HIDE DEF r
<1>5. Len(r) \in 0 .. (Len(q) - 1) /\ Len(r) + 1 = Len(q)
  BY <1>1, <1>2
<1>6. (u => Says(r, Len(r), Statuses, s1)) /\ (Says(r, Len(r), Statuses, s1) => v /\ Says(r, Len(r), PhoneKinds, f1))
  BY <1>3, <1>4, <1>5 DEF Cols
<1>7. ASSUME NEW k \in 1 .. Len(r), r[k].st = "INITIALIZING", r[k].by # NoProc PROVE ~Says(r, k - 1, Statuses, s1)
  <2>1. k - 1 \in 0 .. (Len(q) - 1) /\ k - 1 + 1 = k /\ k + 1 - 1 = k /\ k + 1 \in 1 .. Len(q) /\ r[k] = q[k + 1]
    BY <1>1, <1>2
  <2> QED BY <1>3, <1>7, <2>1 DEF Cols
<1>8. Cols(r, s1, f1, u, v)
  BY <1>6, <1>7 DEF Cols
<1> QED BY <1>8 DEF r

\* ... and when an INITIALIZING write fails, for none overwrites READY.
LEMMA ColsWithout ==
  ASSUME NEW q \in Seq(Writes), NEW k \in 1 .. Len(q), NEW s \in BOOLEAN, NEW f \in BOOLEAN,
         NEW u \in BOOLEAN, NEW v \in BOOLEAN, Cols(q, s, f, u, v), q[k].st = "INITIALIZING", q[k].by # NoProc
  PROVE  Cols(Without(q, k), s, f, u, v)
<1> DEFINE r == Without(q, k)
<1>1. Statuses \in Kinds /\ PhoneKinds \in Kinds /\ "INITIALIZING" \notin PhoneKinds /\ Len(q) \in Nat
  BY DEF Kinds, PhoneKinds
<1>2. q[k].st # "READY" /\ ~Says(q, k - 1, Statuses, s)
  BY DEF Cols
<1>3. /\ Len(r) = Len(q) - 1 /\ \A m \in 1 .. (Len(q) - 1) : r[m] = IF m < k THEN q[m] ELSE q[m + 1]
      /\ \A n \in 0 .. (Len(q) - 1) : n >= k - 1 => (Says(r, n, Statuses, s) <=> Says(q, n + 1, Statuses, s))
      /\ \A n \in 0 .. (k - 1) : Says(r, n, Statuses, s) <=> Says(q, n, Statuses, s)
  BY <1>1, <1>2, SaysWithout
<1>4. \A n \in 0 .. (Len(q) - 1) : n >= k - 1 => (Says(r, n, PhoneKinds, f) <=> Says(q, n + 1, PhoneKinds, f))
  BY <1>1, <1>2, SaysWithout
<1> HIDE DEF r
<1>5. Len(r) \in 0 .. (Len(q) - 1) /\ Len(r) + 1 = Len(q) /\ Len(r) >= k - 1
  BY <1>1, <1>3
<1>6. (u => Says(r, Len(r), Statuses, s)) /\ (Says(r, Len(r), Statuses, s) => v /\ Says(r, Len(r), PhoneKinds, f))
  BY <1>3, <1>4, <1>5 DEF Cols
<1>7. ASSUME NEW j \in 1 .. Len(r), r[j].st = "INITIALIZING", r[j].by # NoProc PROVE ~Says(r, j - 1, Statuses, s)
  <2>1. CASE j < k
    <3>1. j \in 1 .. Len(q) /\ j - 1 \in 0 .. (k - 1) /\ r[j] = q[j]
      BY <1>1, <1>3, <2>1
    <3> QED BY <1>3, <1>7, <3>1 DEF Cols
  <2>2. CASE ~(j < k)
    <3>1. j + 1 \in 1 .. Len(q) /\ j - 1 \in 0 .. (Len(q) - 1) /\ j - 1 >= k - 1 /\ j - 1 + 1 = j /\ j + 1 - 1 = j
          /\ r[j] = q[j + 1]
      BY <1>1, <1>3, <2>2
    <3> QED BY <1>3, <1>7, <3>1 DEF Cols
  <2> QED BY <2>1, <2>2
<1>8. Cols(r, s, f, u, v)
  BY <1>6, <1>7 DEF Cols
<1> QED BY <1>8 DEF r

\* Is the registered engine of i ready, and does a start of i wait for an engine that it gave up?
Up(i) == reg[i] # NoEngine /\ phase[reg[i]] = "ready"
Reaping(i) == \E p \in Procs : sid[p] = i /\ pc[p] \in {"i_td", "s_catch"}
\* A step that takes neither from i, nor makes its engine ready.
Steady(i) == (Up(i)' => Up(i)) /\ (Up(i) \/ Reaping(i) => Up(i)' \/ Reaping(i)')

\* The engine that a call holds is of its session, and of no other.
LEMMA CallOwner ==
  ASSUME Context, NEW p \in Procs, pc[p] \in Launched \cup {"r_init", "r_td"}
  PROVE  /\ cap[p] \in Engines /\ owner[cap[p]] = sid[p] /\ sid[p] \in Ids /\ cap[p] # NoEngine
         /\ \A i \in Ids \ {sid[p]} : reg[i] # cap[p]
BY ConstantsAssumption DEF Context, CallsBound, Accounted, HolderAt, RegisteredAt, Launched

\* A call does nothing to the sessions of others.
LEMMA OthersSteady ==
  ASSUME Context, NEW p \in Procs, CallMoves(p), NEW i \in Ids, i # sid[p]
  PROVE  Steady(i)
<1>a. /\ pc \in [Procs -> Pcs] /\ reg \in [Ids -> Engines \cup {NoEngine}] /\ phase \in [Engines -> Phases]
      /\ sid \in [Procs -> Ids \cup {NoId}] /\ verb \in [Procs -> AllVerbs \cup {"none", "lost", "reconnect"}]
      /\ cap \in [Procs -> Engines \cup {NoEngine}] /\ owner \in [Engines -> Ids \cup {NoId}]
  BY DEF Context, TypeOK, RegistryOK, EnginesOK, CallsOK
<1>b. NoEngine \notin Engines
  BY ConstantsAssumption
<1>c. pc[p] # "idle" => sid[p] \in Ids
  BY DEF Context, CallsBound
<1>d. \A j \in Ids : reg[j] # NoEngine => owner[reg[j]] = j
  BY DEF Context, Accounted, RegisteredAt
<1>e. pc[p] \in Launched \cup {"r_init", "r_td"} => cap[p] \in Engines /\ owner[cap[p]] = sid[p]
  BY CallOwner
<1>f. Only(p)
  BY CallMovesOnly DEF Context
<1>1. reg'[i] = reg[i]
  <2> USE <1>a, <1>b, <1>c, <1>d, <1>e DEF Acts, callVars, Goto
  <2>1. CASE CallBegins(p) \/ Passes(p)
    BY <2>1 DEF CallBegins, Passes, RegistryRests
  <2>2. CASE Accepts(p) \/ Launches(p)
    BY <2>2 DEF Accepts, Launches
  <2>3. CASE Registers(p)
    BY <2>3 DEF Registers, InitializeEngine
  <2>4. CASE RunEnds(p)
    BY <2>4 DEF RunEnds, Evict, Launched
  <2>5. CASE Reaps(p) \/ Evicts(p)
    BY <2>5 DEF Reaps, Evicts, Evict, DeleteIfLive
  <2>6. CASE Marks(p) \/ Tears(p)
    BY <2>6 DEF Marks, Tears
  <2> QED BY <2>1, <2>2, <2>3, <2>4, <2>5, <2>6 DEF CallMoves
<1>2. reg[i] # NoEngine => phase'[reg[i]] = phase[reg[i]]
  <2> USE <1>a, <1>b, <1>c, <1>d, <1>e DEF Acts, callVars, Goto
  <2>1. CASE CallBegins(p) \/ Passes(p)
    BY <2>1 DEF CallBegins, Passes, RegistryRests
  <2>2. CASE Accepts(p) \/ Launches(p)
    BY <2>2 DEF Accepts, Launches, Launched
  <2>3. CASE Registers(p)
    BY <2>3 DEF Registers, InitializeEngine, Free
  <2>4. CASE RunEnds(p)
    BY <2>4 DEF RunEnds, Close, Launched
  <2>5. CASE Reaps(p) \/ Evicts(p)
    BY <2>5 DEF Reaps, Evicts, Close
  <2>6. CASE Marks(p) \/ Tears(p)
    BY <2>6 DEF Marks, Tears, Close
  <2> QED BY <2>1, <2>2, <2>3, <2>4, <2>5, <2>6 DEF CallMoves
<1>3. ASSUME NEW q \in Procs, sid[q] = i, pc[q] \in {"i_td", "s_catch"} PROVE sid'[q] = i /\ pc'[q] = pc[q]
  BY <1>3, <1>f DEF Only
<1>4. Reaping(i) => Reaping(i)'
  BY <1>3 DEF Reaping
<1> QED BY <1>1, <1>2, <1>4 DEF Steady, Up

\* An event that neither takes an engine out nor makes one ready is steady.
LEMMA EventSteady ==
  ASSUME Context, EngineEvent, UNCHANGED reg, NEW i \in Ids, reg[i] # NoEngine => (phase'[reg[i]] = "ready" <=> phase[reg[i]] = "ready")
  PROVE  Steady(i)
BY DEF EngineEvent, callVars, Steady, Up, Reaping

\* The step of a call of i, by where the call goes on from and to.
LEMMA OwnSession ==
  ASSUME Context, FenceInv, Controls, EngineMove, NEW p \in Procs, CallMoves(p), Careful(p), Guarded(p),
         NEW i \in Ids, i = sid[p]
  PROVE  /\ pc[p] \notin {"i_td", "s_catch"} /\ pc'[p] \notin {"i_write", "i_run", "undo", "r_td"} => Steady(i)
         /\ pc[p] \in {"i_td", "s_catch", "r_td"} => ~Up(i) /\ ~Up(i)'
         /\ pc'[p] \in {"i_write", "i_run"} => ~Up(i)'
         /\ pc[p] \in {"r_read", "d_fence1", "d_fence2"} /\ pc'[p] \in {"r_dw", "d_dw"} => ~Up(i)'
         /\ pc'[p] = "i_write" => ~Up(i) /\ ~Reaping(i)
         /\ pc[p] \in {"inited", "check", "r_read", "d_fence1", "r_init"} /\ pc'[p] \in {"undo", "r_td"} =>
              /\ ~Up(i)' /\ (Reaping(i) => Reaping(i)')
              /\ Up(i) => Live(cap'[p]) /\ phase[cap'[p]] = "ready"
<1>a. /\ pc \in [Procs -> Pcs] /\ reg \in [Ids -> Engines \cup {NoEngine}] /\ phase \in [Engines -> Phases]
      /\ sid \in [Procs -> Ids \cup {NoId}] /\ verb \in [Procs -> AllVerbs \cup {"none", "lost", "reconnect"}]
      /\ cap \in [Procs -> Engines \cup {NoEngine}] /\ owner \in [Engines -> Ids \cup {NoId}]
  BY DEF Context, TypeOK, RegistryOK, EnginesOK, CallsOK
<1>b. NoEngine \notin Engines
  BY ConstantsAssumption
<1>d. \A j \in Ids : reg[j] # NoEngine => owner[reg[j]] = j
  BY DEF Context, Accounted, RegisteredAt
<1>e. pc[p] \in Launched \cup {"r_init", "r_td"} => cap[p] \in Engines /\ owner[cap[p]] = sid[p]
  BY CallOwner
<1>f. Only(p)
  BY CallMovesOnly DEF Context
<1>g. /\ pc[p] \in {"s_fence", "s_hook"} => reg[sid[p]] = NoEngine
      /\ pc[p] \in Launched \cup {"r_init", "r_td"} => reg[sid[p]] \in {NoEngine, cap[p]}
      /\ pc[p] \in {"i_td", "s_catch", "undo", "r_td"} => phase[cap[p]] \in {"closing", "closed"}
      /\ pc[p] = "d_fence2" /\ cap[p] # NoEngine => reg[sid[p]] = NoEngine
  BY DEF Context, Accounted, StartAt, HolderAt, TearingDown, Controls, AloneAt, RefenceAt
<1>h. pc[p] = "i_run" => pc'[p] # "threw"
  BY DEF Careful
<1>i. pc'[p] = "d_dw" /\ pc[p] # "d_dw" => pc[p] = "d_fence2" /\ cap[p] # NoEngine
  BY DEF Guarded
<1>k. \/ pc'[p] = "idle" \/ (pc[p] = "idle" /\ pc'[p] \in {"s_read", "r_read"})
      \/ (pc[p] # "idle" /\ sid'[p] = sid[p] /\ verb'[p] = verb[p])
  BY CallsKeepSession
<1>l. pc[p] \notin {"i_td", "s_catch"} => (Reaping(i) => Reaping(i)')
  <2> SUFFICES ASSUME pc[p] \notin {"i_td", "s_catch"}, Reaping(i) PROVE Reaping(i)'
    OBVIOUS
  <2>1. PICK q \in Procs : sid[q] = i /\ pc[q] \in {"i_td", "s_catch"}
    BY DEF Reaping
  <2>2. sid'[q] = i /\ pc'[q] \in {"i_td", "s_catch"}
    BY <1>f, <2>1 DEF Only
  <2> QED BY <2>2 DEF Reaping
<1>m. pc[p] = "s_hook" /\ Quiet => ~Reaping(i)
  BY BuildsAlone DEF Reaping
<1> DEFINE u == reg[i] # NoEngine /\ phase[reg[i]] = "ready"
           u1 == reg'[i] # NoEngine /\ phase'[reg'[i]] = "ready"
           reaps == sid'[p] = i /\ pc'[p] \in {"i_td", "s_catch"}
           from == {"inited", "check", "r_read", "d_fence1", "r_init"}
           Goal ==
             /\ pc[p] \notin {"i_td", "s_catch"} /\ pc'[p] \notin {"i_write", "i_run", "undo", "r_td"} =>
                  (u1 => u) /\ (u => u1 \/ reaps)
             /\ pc[p] \in {"i_td", "s_catch", "r_td"} => ~u /\ ~u1
             /\ pc'[p] \in {"i_write", "i_run"} => ~u1
             /\ pc[p] \in {"r_read", "d_fence1", "d_fence2"} /\ pc'[p] \in {"r_dw", "d_dw"} => ~u1
             /\ pc'[p] = "i_write" => ~u /\ pc[p] = "s_hook" /\ Quiet
             /\ pc[p] \in from /\ pc'[p] \in {"undo", "r_td"} =>
                  ~u1 /\ (u => Live(cap'[p]) /\ phase[cap'[p]] = "ready")
<1>1. Goal
  <2> USE <1>a, <1>b, <1>d, <1>e, <1>g, <1>h, <1>i, <1>k DEF Acts, callVars, Goto
  <2>1. CASE CallBegins(p)
    BY <2>1 DEF CallBegins, RegistryRests
  <2>2. CASE Passes(p)
    BY <2>2 DEF Passes, RegistryRests, Onward, End, Launched
  <2>3. CASE Accepts(p)
    BY <2>3 DEF Accepts
  <2>4. CASE Registers(p)
    BY <2>4 DEF Registers, InitializeEngine
  <2>5. CASE Launches(p)
    BY <2>5 DEF Launches, MayLaunch, Live, Launched
  <2>6. CASE RunEnds(p)
    BY <2>6 DEF RunEnds, Evict, Launched
  <2>7. CASE Reaps(p)
    BY <2>7 DEF Reaps, Close, Evict, Live, Launched
  <2>8. CASE Evicts(p)
    BY <2>8 DEF Evicts, DeleteIfLive, Launched
  <2>9. CASE Marks(p)
    BY <2>9 DEF Marks, Close, Live
  <2>10. CASE Tears(p)
    BY <2>10 DEF Tears, Close, Live
  <2> QED BY <2>1, <2>2, <2>3, <2>4, <2>5, <2>6, <2>7, <2>8, <2>9, <2>10 DEF CallMoves
<1>2. (u <=> Up(i)) /\ (u1 <=> Up(i)') /\ (reaps => Reaping(i)')
  BY DEF Up, Reaping
<1> HIDE DEF u, u1, reaps
<1> QED BY <1>1, <1>2, <1>l, <1>m DEF Steady

\* The columns of j stay; or its first write lands in them.
Kept(j) == status'[j] = status[j] /\ phone'[j] = phone[j]
Landed(j) ==
  LET st == inflight[j][1].st IN
  /\ 1 \in 1 .. Len(inflight[j])
  /\ status'[j] = IF st # "NO_PHONE" THEN st ELSE status[j]
  /\ phone'[j] = IF st \in PhoneKinds THEN st = "READY" ELSE phone[j]

\* What a step does to the writes of j and to its engine: nothing; a write is issued that says that its
\* engine is not ready, and none is now, or that it is; the first write lands; the INITIALIZING write
\* of a start fails.
IssuesAt(j, w) ==
  /\ inflight'[j] = inflight[j] \o <<w>> /\ Kept(j)
  /\ \/ /\ w.st \in Statuses \ {"READY"} /\ ~Up(j)'
        /\ w.st = "INITIALIZING" /\ w.by # NoProc => ~Up(j) /\ ~Reaping(j)
     \/ w.st = "READY" /\ Up(j)' /\ reg[j] # NoEngine /\ phase[reg[j]] \in Running
LandsAt(j) ==
  /\ Landed(j)
  /\ \/ inflight'[j] = Without(inflight[j], 1) /\ Steady(j)
     \/ \E p \in Procs : /\ inflight'[j] = Without(inflight[j], 1) \o <<Write("NO_PHONE", p)>> /\ Steady(j)
                         /\ pc[p] = "r_dw" /\ verb[p] = "logout" /\ sid[p] = j
     \/ inflight'[j] = Without(inflight[j], 1) \o <<Write("INITIALIZING", NoProc)>> /\ ~Up(j)'
FailsAt(j) ==
  /\ Kept(j) /\ Steady(j)
  /\ \E k \in 1 .. Len(inflight[j]) :
       /\ inflight[j][k].st = "INITIALIZING" /\ inflight[j][k].by # NoProc
       /\ inflight'[j] = Without(inflight[j], k)
ShapeAt(j) ==
  \/ inflight'[j] = inflight[j] /\ Kept(j) /\ Steady(j)
  \/ \E w \in Writes : IssuesAt(j, w)
  \/ LandsAt(j) \/ FailsAt(j)

\* No step does anything else to the writes and the engine of a session.
LEMMA ShapeHolds ==
  ASSUME Context, FenceInv, Controls, Origins, Owned, Ordered, EngineMove, QueueMove,
         \A p \in Procs : Careful(p) /\ Guarded(p), NEW j \in Ids, row[j] # "deleted"
  PROVE  ShapeAt(j)
<1>a. /\ inflight \in Queues /\ status \in [Ids -> Statuses] /\ phone \in [Ids -> BOOLEAN]
      /\ reg \in [Ids -> Engines \cup {NoEngine}] /\ phase \in [Engines -> Phases] /\ pc \in [Procs -> Pcs]
      /\ row \in [Ids -> {"absent", "present", "deleted"}]
  BY DEF Context, TypeOK, RowsOK, RegistryOK, EnginesOK, CallsOK, Queues
<1>b. NoEngine \notin Engines /\ NoProc \notin Procs
  BY ConstantsAssumption
<1>c. \A st \in Statuses \cup {"NO_PHONE"}, q \in Procs \cup {NoProc} :
        Write(st, q) \in Writes /\ Write(st, q).st = st /\ Write(st, q).by = q
  BY DEF Write, Writes
<1>d. \A i \in Ids : reg[i] # NoEngine => owner[reg[i]] = i
  BY DEF Context, Accounted, RegisteredAt
<1>e. ASSUME 1 \in 1 .. Len(inflight[j]) PROVE row[j] = "present"
  <2>1. inflight[j] # <<>>
    BY <1>e
  <2> QED BY <1>a, <2>1 DEF Origins, FreshAt
<1>f. ASSUME NEW i \in Ids, NEW k \in 1 .. Len(inflight[i]), CanLand(i, k), Land(i, k)
      PROVE  k = 1 /\ (i = j => Landed(j)) /\ (i # j => Kept(j))
  <2>1. k = 1
    BY <1>f DEF CanLand
  <2>2. i = j => row[j] = "present"
    BY <1>e, <2>1
  <2> QED BY <1>a, <1>f, <2>1, <2>2 DEF Land, Landed, Kept, PhoneKinds
<1>g. \A i \in Ids, w \in Writes : /\ Behind(inflight, i, w)[i] = inflight[i] \o <<w>>
                                   /\ i # j => Behind(inflight, i, w)[j] = inflight[j]
  BY <1>a, BehindAt
<1>h. \A i \in Ids : \A k \in 1 .. Len(inflight[i]) :
        /\ Taken(inflight, i, k) \in Queues /\ Taken(inflight, i, k)[i] = Without(inflight[i], k)
        /\ i # j => Taken(inflight, i, k)[j] = inflight[j]
  BY <1>a, TakenAt
<1>i. \A i \in Ids, w \in Writes : \A k \in 1 .. Len(inflight[i]) :
        /\ Behind(Taken(inflight, i, k), i, w)[i] = Without(inflight[i], k) \o <<w>>
        /\ i # j => Behind(Taken(inflight, i, k), i, w)[j] = inflight[j]
  <2> SUFFICES ASSUME NEW i \in Ids, NEW w \in Writes, NEW k \in 1 .. Len(inflight[i])
               PROVE  /\ Behind(Taken(inflight, i, k), i, w)[i] = Without(inflight[i], k) \o <<w>>
                      /\ i # j => Behind(Taken(inflight, i, k), i, w)[j] = inflight[j]
    OBVIOUS
  <2> DEFINE R == Taken(inflight, i, k)
  <2>1. R \in Queues /\ R[i] = Without(inflight[i], k) /\ (i # j => R[j] = inflight[j])
    BY <1>h
  <2> HIDE DEF R
  <2>2. Behind(R, i, w)[i] = R[i] \o <<w>> /\ \A x \in Ids \ {i} : Behind(R, i, w)[x] = R[x]
    BY <2>1, BehindAt
  <2> QED BY <2>1, <2>2 DEF R
<1>1. CASE pc' = pc /\ QueueEvent
  <2>1. EngineEvent
    BY <1>1, NoCall
  <2>2. CASE UNCHANGED <<status, phone, inflight, reg>> /\ \A n \in Engines : phase'[n] = "ready" <=> phase[n] = "ready"
    <3>1. Steady(j)
      BY <1>a, <2>1, <2>2, EventSteady
    <3> QED BY <2>2, <3>1 DEF ShapeAt, Kept
  <2>3. ASSUME UNCHANGED <<status, phone, reg>>, NEW n \in Engines, Live(n), phase[n] \in {"launching", "open"},
               phase' = [phase EXCEPT ![n] = "ready"], inflight' = Behind(inflight, owner[n], Write("READY", NoProc))
        PROVE  ShapeAt(j)
    <3>1. owner[n] \in Ids /\ reg[owner[n]] = n /\ Write("READY", NoProc) \in Writes /\ Write("READY", NoProc).st = "READY"
      BY <1>c, <2>3 DEF Live, Statuses
    <3>2. CASE owner[n] = j
      <4>1. inflight'[j] = inflight[j] \o <<Write("READY", NoProc)>> /\ Kept(j)
        BY <1>g, <2>3, <3>1, <3>2 DEF Kept
      <4>2. reg[j] # NoEngine /\ phase[reg[j]] \in Running /\ Up(j)'
        BY <1>a, <1>b, <2>3, <3>1, <3>2 DEF Up, Running
      <4> QED BY <3>1, <4>1, <4>2 DEF ShapeAt, IssuesAt
    <3>3. CASE owner[n] # j
      <4>1. inflight'[j] = inflight[j] /\ Kept(j)
        BY <1>g, <2>3, <3>1, <3>3 DEF Kept
      <4>2. reg[j] # NoEngine => phase'[reg[j]] = phase[reg[j]]
        BY <1>a, <1>d, <2>3, <3>3
      <4>3. Steady(j)
        BY <2>1, <2>3, <4>2, EventSteady
      <4> QED BY <4>1, <4>3 DEF ShapeAt
    <3> QED BY <3>2, <3>3
  <2>4. ASSUME UNCHANGED <<status, phone>>, NEW n \in Engines, Live(n), Evict(owner[n]), Close(n),
               inflight' = Behind(inflight, owner[n], Write("FAILED", NoProc))
        PROVE  ShapeAt(j)
    <3>1. /\ owner[n] \in Ids /\ reg[owner[n]] = n
          /\ Write("FAILED", NoProc) \in Writes /\ Write("FAILED", NoProc).st = "FAILED"
      BY <1>c, <2>4 DEF Live, Statuses
    <3>2. CASE owner[n] = j
      <4>1. inflight'[j] = inflight[j] \o <<Write("FAILED", NoProc)>> /\ Kept(j)
        BY <1>g, <2>4, <3>1, <3>2 DEF Kept
      <4>2. ~Up(j)'
        BY <1>a, <2>4, <3>2 DEF Up, Evict
      <4> QED BY <3>1, <4>1, <4>2 DEF ShapeAt, IssuesAt, Statuses
    <3>3. CASE owner[n] # j
      <4>1. inflight'[j] = inflight[j] /\ Kept(j)
        BY <1>g, <2>4, <3>1, <3>3 DEF Kept
      <4>2. reg'[j] = reg[j] /\ (reg[j] # NoEngine => phase'[reg[j]] = phase[reg[j]])
        BY <1>a, <1>d, <2>4, <3>3 DEF Evict, Close
      <4>3. Steady(j)
        BY <2>1, <4>2 DEF EngineEvent, callVars, Steady, Up, Reaping
      <4> QED BY <4>1, <4>3 DEF ShapeAt
    <3> QED BY <3>2, <3>3
  <2>5. ASSUME UNCHANGED <<reg, phase>>, NEW i \in Ids, NEW k \in 1 .. Len(inflight[i]), CanLand(i, k), Land(i, k),
               inflight' = Taken(inflight, i, k)
        PROVE  ShapeAt(j)
    <3>1. Steady(j)
      BY <2>1, <2>5, EventSteady
    <3>2. k = 1 /\ (i = j => Landed(j)) /\ (i # j => Kept(j))
      BY <1>f, <2>5
    <3> QED BY <1>h, <2>5, <3>1, <3>2 DEF ShapeAt, LandsAt
  <2> QED BY <1>1, <2>2, <2>3, <2>4, <2>5 DEF QueueEvent
<1>2. ASSUME NEW p \in Procs, pc'[p] # pc[p], QueueStep(p), j # sid[p] PROVE ShapeAt(j)
  <2>1. Steady(j)
    BY <1>2, OneCall, OthersSteady
  <2>2. inflight'[j] = inflight[j] /\ Kept(j)
    <3>1. CASE UNCHANGED <<status, phone, inflight>>
      BY <3>1 DEF Kept
    <3>2. ASSUME UNCHANGED <<status, phone>>, sid[p] \in Ids, inflight' = Noticed(sid[p], cap'[p])
          PROVE  inflight'[j] = inflight[j] /\ Kept(j)
      <4>1. Write("DISCONNECTED", NoProc) \in Writes
        BY <1>c DEF Statuses
      <4> QED BY <1>2, <1>g, <3>2, <4>1 DEF Noticed, Kept
    <3>3. ASSUME UNCHANGED <<status, phone>>, sid[p] \in Ids, NEW st \in Statuses, inflight' = Behind(inflight, sid[p], Write(st, p))
          PROVE  inflight'[j] = inflight[j] /\ Kept(j)
      BY <1>2, <1>c, <1>g, <3>3 DEF Kept
    <3>4. ASSUME sid[p] \in Ids, NEW k \in 1 .. Len(inflight[sid[p]]), UNCHANGED <<status, phone>> \/ (CanLand(sid[p], k) /\ Land(sid[p], k)),
                 \/ inflight' = Taken(inflight, sid[p], k)
                 \/ inflight' = Behind(Taken(inflight, sid[p], k), sid[p], Write("INITIALIZING", NoProc))
                 \/ inflight' = Behind(Taken(inflight, sid[p], k), sid[p], Write("NO_PHONE", p))
          PROVE  inflight'[j] = inflight[j] /\ Kept(j)
      <4>1. Kept(j)
        BY <1>2, <1>f, <3>4 DEF Kept
      <4>2. Write("INITIALIZING", NoProc) \in Writes /\ Write("NO_PHONE", p) \in Writes
        BY <1>c DEF Statuses
      <4>3. j # sid[p] /\ sid[p] \in Ids
        BY <1>2, <3>4
      <4>4. CASE inflight' = Taken(inflight, sid[p], k)
        BY <1>h, <4>1, <4>3, <4>4
      <4>5. CASE inflight' = Behind(Taken(inflight, sid[p], k), sid[p], Write("INITIALIZING", NoProc))
        BY <1>i, <4>1, <4>2, <4>3, <4>5
      <4>6. CASE inflight' = Behind(Taken(inflight, sid[p], k), sid[p], Write("NO_PHONE", p))
        BY <1>i, <4>1, <4>2, <4>3, <4>6
      <4> QED BY <3>4, <4>4, <4>5, <4>6
    <3> QED BY <1>2, <3>1, <3>2, <3>3, <3>4 DEF QueueStep
  <2> QED BY <2>1, <2>2 DEF ShapeAt
<1>3. ASSUME NEW p \in Procs, pc'[p] # pc[p], QueueStep(p), j = sid[p] PROVE ShapeAt(j)
  <2>1. /\ pc[p] \notin {"i_td", "s_catch"} /\ pc'[p] \notin {"i_write", "i_run", "undo", "r_td"} => Steady(j)
        /\ pc[p] \in {"i_td", "s_catch", "r_td"} => ~Up(j) /\ ~Up(j)'
        /\ pc'[p] \in {"i_write", "i_run"} => ~Up(j)'
        /\ pc[p] \in {"r_read", "d_fence1", "d_fence2"} /\ pc'[p] \in {"r_dw", "d_dw"} => ~Up(j)'
        /\ pc'[p] = "i_write" => ~Up(j) /\ ~Reaping(j)
        /\ pc[p] \in {"inited", "check", "r_read", "d_fence1", "r_init"} /\ pc'[p] \in {"undo", "r_td"} =>
             /\ ~Up(j)' /\ (Reaping(j) => Reaping(j)')
             /\ Up(j) => Live(cap'[p]) /\ phase[cap'[p]] = "ready"
    BY <1>3, OneCall, OwnSession
  <2>2. CASE /\ UNCHANGED <<status, phone, inflight>>
             /\ pc[p] \notin WritePcs \cup {"i_td", "s_catch"} /\ pc'[p] \notin WritePcs \cup {"undo", "r_td"}
    <3>1. pc'[p] # "i_run"
      <4> SUFFICES ASSUME pc'[p] = "i_run" PROVE FALSE
        OBVIOUS
      <4>1. 1 \in 1 .. Len(inflight[j]) /\ inflight[j][1].by = p
        BY <1>3, <1>a DEF Guarded, Queues
      <4>2. Awaits(pc[p], inflight[j][1].st)
        BY <4>1 DEF Owned, Owns
      <4> QED BY <2>2, <4>2 DEF Awaits, WritePcs
    <3>2. Steady(j)
      BY <2>1, <2>2, <3>1 DEF WritePcs
    <3> QED BY <2>2, <3>2 DEF ShapeAt, Kept
  <2>3. CASE /\ UNCHANGED <<status, phone>>
             /\ pc[p] \in {"inited", "check", "r_read", "d_fence1", "r_init"} /\ pc'[p] \in {"undo", "r_td"}
             /\ inflight' = Noticed(j, cap'[p])
    <3>1. Write("DISCONNECTED", NoProc) \in Writes /\ Write("DISCONNECTED", NoProc).st = "DISCONNECTED"
      BY <1>c DEF Statuses
    <3>2. CASE inflight' = Behind(inflight, j, Write("DISCONNECTED", NoProc))
      <4>1. inflight'[j] = inflight[j] \o <<Write("DISCONNECTED", NoProc)>> /\ Kept(j)
        BY <1>g, <2>3, <3>1, <3>2 DEF Kept
      <4> QED BY <2>1, <2>3, <3>1, <4>1 DEF ShapeAt, IssuesAt, Statuses
    <3>3. CASE inflight' # Behind(inflight, j, Write("DISCONNECTED", NoProc))
      <4>1. inflight' = inflight /\ ~Up(j)
        BY <2>1, <2>3, <3>3 DEF Noticed
      <4>2. Steady(j)
        BY <2>1, <2>3, <4>1 DEF Steady
      <4> QED BY <2>3, <4>1, <4>2 DEF ShapeAt, Kept
    <3> QED BY <3>2, <3>3
  <2>4. ASSUME UNCHANGED <<status, phone>>, NEW st \in Statuses, <<pc[p], pc'[p]>> \in Writing, Awaits(pc'[p], st),
               inflight' = Behind(inflight, j, Write(st, p))
        PROVE  ShapeAt(j)
    <3>1. Write(st, p) \in Writes /\ Write(st, p).st = st /\ Write(st, p).by = p
      BY <1>c
    <3>2. inflight'[j] = inflight[j] \o <<Write(st, p)>> /\ Kept(j)
      BY <1>g, <2>4, <3>1 DEF Kept
    <3>3. st # "READY" /\ ~Up(j)'
      BY <2>1, <2>4 DEF Writing, Awaits
    <3>4. st = "INITIALIZING" => ~Up(j) /\ ~Reaping(j)
      BY <2>1, <2>4 DEF Writing, Awaits
    <3> QED BY <3>1, <3>2, <3>3, <3>4 DEF ShapeAt, IssuesAt
  <2>5. ASSUME pc[p] \in WritePcs, NEW k \in 1 .. Len(inflight[j]), CanLand(j, k), Land(j, k)
        PROVE  k = 1 /\ Landed(j)
    BY <1>f, <2>5
  <2>6. ASSUME pc[p] \in WritePcs, NEW k \in 1 .. Len(inflight[j]), CanLand(j, k), Land(j, k),
               pc'[p] \notin WritePcs \cup {"undo", "r_td", "i_run"}, inflight' = Taken(inflight, j, k)
        PROVE  ShapeAt(j)
    <3>1. Steady(j)
      BY <2>1, <2>6 DEF WritePcs
    <3> QED BY <1>h, <2>5, <2>6, <3>1 DEF ShapeAt, LandsAt
  <2>7. ASSUME pc[p] = "i_write", pc'[p] = "i_run", NEW k \in 1 .. Len(inflight[j]), CanLand(j, k), Land(j, k),
               inflight' = Behind(Taken(inflight, j, k), j, Write("INITIALIZING", NoProc))
        PROVE  ShapeAt(j)
    <3>1. Write("INITIALIZING", NoProc) \in Writes
      BY <1>c DEF Statuses
    <3>2. k = 1 /\ Landed(j)
      BY <2>5, <2>7 DEF WritePcs
    <3>3. inflight'[j] = Without(inflight[j], 1) \o <<Write("INITIALIZING", NoProc)>>
      BY <1>i, <2>7, <3>1, <3>2
    <3> QED BY <2>1, <2>7, <3>2, <3>3 DEF ShapeAt, LandsAt
  <2>8. ASSUME pc[p] = "r_dw", verb[p] = "logout", pc'[p] = "r_phone", NEW k \in 1 .. Len(inflight[j]), CanLand(j, k), Land(j, k),
               inflight' = Behind(Taken(inflight, j, k), j, Write("NO_PHONE", p))
        PROVE  ShapeAt(j)
    <3>1. Write("NO_PHONE", p) \in Writes
      BY <1>c
    <3>2. k = 1 /\ Landed(j)
      BY <2>5, <2>8 DEF WritePcs
    <3>3. inflight'[j] = Without(inflight[j], 1) \o <<Write("NO_PHONE", p)>>
      BY <1>i, <2>8, <3>1, <3>2
    <3>4. Steady(j)
      BY <2>1, <2>8
    <3> QED BY <1>3, <2>8, <3>2, <3>3, <3>4 DEF ShapeAt, LandsAt
  <2>9. ASSUME UNCHANGED <<status, phone>>, pc[p] = "i_write", pc'[p] = "threw", NEW k \in 1 .. Len(inflight[j]), inflight[j][k].by = p,
               inflight' = Taken(inflight, j, k)
        PROVE  ShapeAt(j)
    <3>1. inflight[j][k].st = "INITIALIZING" /\ inflight[j][k].by # NoProc
      BY <1>b, <2>9 DEF Owned, Owns, Awaits
    <3>2. Steady(j)
      BY <2>1, <2>9
    <3> QED BY <1>h, <2>9, <3>1, <3>2 DEF ShapeAt, FailsAt, Kept
  <2> QED BY <1>3, <2>2, <2>3, <2>4, <2>6, <2>7, <2>8, <2>9 DEF QueueStep
<1> QED BY <1>1, <1>2, <1>3 DEF QueueMove

\* What the writes of i leave in its columns, and whether its registered engine runs.
ReadyLast(i) == Says(inflight[i], Len(inflight[i]), Statuses, status[i] = "READY")
PhoneLast(i) == Says(inflight[i], Len(inflight[i]), PhoneKinds, phone[i])
Runs(i) == reg[i] # NoEngine /\ phase[reg[i]] \in Running
\* The writes of a session agree with its engine.
ColumnsAt(i) ==
  row[i] # "deleted" => Cols(inflight[i], status[i] = "READY", phone[i], Up(i), Up(i) \/ Reaping(i))
Forgets(p) == pc[p] = "r_dw" /\ verb[p] = "logout"

\* What such a step does to the columns, and to what the writes leave in them.
LEMMA ColsStep ==
  ASSUME TypeOK, NEW j \in Ids, row[j] # "deleted", ColumnsAt(j), ShapeAt(j),
         \A p \in Procs : Forgets(p) /\ sid[p] = j => ~ReadyLast(j)
  PROVE  /\ Cols(inflight'[j], status'[j] = "READY", phone'[j], Up(j)', Up(j)' \/ Reaping(j)')
         /\ Says(inflight'[j], Len(inflight'[j]), Statuses, status'[j] = "READY") => ReadyLast(j) \/ Runs(j)
         /\ Says(inflight'[j], Len(inflight'[j]), PhoneKinds, phone'[j]) => PhoneLast(j) \/ Runs(j)
<1> DEFINE q == inflight[j]
           s == status[j] = "READY"
           f == phone[j]
           u == Up(j)
           v == Up(j) \/ Reaping(j)
           q1 == inflight'[j]
           s1 == status'[j] = "READY"
           f1 == phone'[j]
           u1 == Up(j)'
           v1 == Up(j)' \/ Reaping(j)'
           r == Without(q, 1)
           Goal == /\ Cols(q1, s1, f1, u1, v1)
                   /\ Says(q1, Len(q1), Statuses, s1) => Says(q, Len(q), Statuses, s) \/ Runs(j)
                   /\ Says(q1, Len(q1), PhoneKinds, f1) => Says(q, Len(q), PhoneKinds, f) \/ Runs(j)
<1>a. /\ q \in Seq(Writes) /\ s \in BOOLEAN /\ f \in BOOLEAN /\ u \in BOOLEAN /\ v \in BOOLEAN
      /\ s1 \in BOOLEAN /\ u1 \in BOOLEAN /\ v1 \in BOOLEAN
      /\ status[j] \in Statuses
  BY DEF TypeOK, RowsOK, Up, Reaping
<1>b. Cols(q, s, f, u, v)
  BY DEF ColumnsAt
<1>c. Steady(j) => (u1 => u) /\ (v => v1)
  BY DEF Steady
<1>d. Kept(j) => s1 = s /\ f1 = f
  BY DEF Kept
<1>e. Statuses \in Kinds /\ PhoneKinds \in Kinds /\ "READY" \in Statuses /\ "NO_PHONE" \notin Statuses /\ "NO_PHONE" \in PhoneKinds
      /\ \A st : st \in PhoneKinds => st = "READY" \/ st \notin Statuses
  BY DEF Kinds, PhoneKinds, Statuses
<1>f. \A w \in Writes : w.st \in Statuses \cup {"NO_PHONE"}
  BY DEF Writes
<1>g. ReadyLast(j) <=> Says(q, Len(q), Statuses, s)
  BY DEF ReadyLast
<1>h. PhoneLast(j) <=> Says(q, Len(q), PhoneKinds, f)
  BY DEF PhoneLast
<1>1. ASSUME inflight'[j] = inflight[j], Kept(j), Steady(j) PROVE Goal
  BY <1>b, <1>c, <1>d, <1>g, <1>h, <1>1 DEF Cols
<1>2. ASSUME NEW w \in Writes, IssuesAt(j, w) PROVE Goal
  <2>1. q1 = q \o <<w>> /\ s1 = s /\ f1 = f
    BY <1>2, <1>d DEF IssuesAt
  <2>2. \/ /\ w.st \in Statuses \ {"READY"} /\ ~u1
           /\ w.st = "INITIALIZING" /\ w.by # NoProc => ~v
        \/ w.st = "READY" /\ u1 /\ v1 /\ Runs(j)
    BY <1>2 DEF IssuesAt, Runs
  <2>3. ~v => ~Says(q, Len(q), Statuses, s)
    BY <1>b DEF Cols
  <2>4. /\ Len(q \o <<w>>) = Len(q) + 1
        /\ Says(q \o <<w>>, Len(q) + 1, Statuses, s) <=> IF w.st \in Statuses THEN w.st = "READY" ELSE Says(q, Len(q), Statuses, s)
    BY <1>a, <1>e, SaysBehind
  <2>5. Says(q \o <<w>>, Len(q) + 1, PhoneKinds, f) <=> IF w.st \in PhoneKinds THEN w.st = "READY" ELSE Says(q, Len(q), PhoneKinds, f)
    BY <1>a, <1>e, SaysBehind
  <2> HIDE DEF q, s, f, u, v, q1, s1, f1, u1, v1
  <2>6. Cols(q \o <<w>>, s, f, u1, v1)
    BY <1>a, <1>b, <2>2, <2>3, ColsBehind
  <2> QED BY <1>e, <2>1, <2>2, <2>4, <2>5, <2>6
<1>3. ASSUME LandsAt(j) PROVE Goal
  <2>1. /\ 1 \in 1 .. Len(q)
        /\ s1 = IF q[1].st \in Statuses THEN q[1].st = "READY" ELSE s
        /\ f1 = IF q[1].st \in PhoneKinds THEN q[1].st = "READY" ELSE f
        /\ f1 \in BOOLEAN
    <3> DEFINE st == q[1].st
    <3>1. /\ 1 \in 1 .. Len(q)
          /\ status'[j] = IF st # "NO_PHONE" THEN st ELSE status[j]
          /\ phone'[j] = IF st \in PhoneKinds THEN st = "READY" ELSE phone[j]
      BY <1>3 DEF LandsAt, Landed
    <3>2. q[1] \in Writes
      BY <1>a, <3>1
    <3>3. st \in Statuses \cup {"NO_PHONE"}
      BY <1>f, <3>2
    <3> HIDE DEF st
    <3>4. CASE st \in Statuses
      BY <1>a, <1>e, <3>1, <3>4 DEF st
    <3>5. CASE st = "NO_PHONE"
      BY <1>a, <1>e, <3>1, <3>5 DEF st
    <3> QED BY <3>3, <3>4, <3>5
  <2>2. Cols(r, s1, f1, u, v)
    <3> HIDE DEF q, s, f, u, v, q1, s1, f1, u1, v1
    <3> QED BY <1>a, <1>b, <2>1, ColsShifted
  <2>3. /\ r \in Seq(Writes) /\ Len(r) = Len(q) - 1
        /\ \A n \in 0 .. (Len(q) - 1) : Says(r, n, Statuses, s1) <=> Says(q, n + 1, Statuses, s)
    <3> HIDE DEF q, s, f, u, v, q1, s1, f1, u1, v1
    <3> QED BY <1>a, <1>e, <2>1, SaysShifted
  <2>4. \A n \in 0 .. (Len(q) - 1) : Says(r, n, PhoneKinds, f1) <=> Says(q, n + 1, PhoneKinds, f)
    <3> HIDE DEF q, s, f, u, v, q1, s1, f1, u1, v1
    <3> QED BY <1>a, <1>e, <2>1, SaysShifted
  <2>5. Len(r) \in 0 .. (Len(q) - 1) /\ Len(r) + 1 = Len(q)
    BY <1>a, <2>1, <2>3
  <2>6. (Says(r, Len(r), Statuses, s1) <=> Says(q, Len(q), Statuses, s)) /\ (Says(r, Len(r), PhoneKinds, f1) <=> Says(q, Len(q), PhoneKinds, f))
    BY <2>3, <2>4, <2>5
  <2>7. CASE q1 = r /\ Steady(j)
    BY <1>c, <2>2, <2>6, <2>7 DEF Cols
  <2>8. ASSUME NEW w \in Writes, q1 = r \o <<w>>,
               \/ w.st = "NO_PHONE" /\ Steady(j) /\ ~Says(q, Len(q), Statuses, s)
               \/ w.st = "INITIALIZING" /\ w.by = NoProc /\ ~u1
        PROVE  Goal
    <3>1. ~Says(q, Len(q), Statuses, s) => ~u
      BY <1>b DEF Cols
    <3>2. \/ w.st = "NO_PHONE" /\ ~Says(r, Len(r), Statuses, s1) /\ u1 = u
          \/ w.st \in Statuses \ {"READY"} /\ ~u1 /\ (w.st = "INITIALIZING" /\ w.by # NoProc => FALSE)
      BY <1>a, <1>c, <2>6, <2>8, <3>1 DEF Statuses
    <3> HIDE DEF q, s, f, u, v, q1, s1, f1, u1, v1, r
    <3>3. Cols(r \o <<w>>, s1, f1, u1, v1)
      BY <1>a, <2>1, <2>2, <2>3, <3>2, ColsBehind
    <3>4. /\ Len(r \o <<w>>) = Len(r) + 1
          /\ Says(r \o <<w>>, Len(r) + 1, Statuses, s1) <=> IF w.st \in Statuses THEN w.st = "READY" ELSE Says(r, Len(r), Statuses, s1)
      BY <1>a, <1>e, <2>3, SaysBehind
    <3>5. Says(r \o <<w>>, Len(r) + 1, PhoneKinds, f1) <=> IF w.st \in PhoneKinds THEN w.st = "READY" ELSE Says(r, Len(r), PhoneKinds, f1)
      BY <1>a, <1>e, <2>1, <2>3, SaysBehind
    <3> QED BY <2>6, <2>8, <3>2, <3>3, <3>4, <3>5 DEF Goal
  <2>9. \A st \in Statuses \cup {"NO_PHONE"}, p \in Procs \cup {NoProc} :
          Write(st, p) \in Writes /\ Write(st, p).st = st /\ Write(st, p).by = p
    BY DEF Write, Writes
  <2>10. CASE \E p \in Procs : q1 = r \o <<Write("NO_PHONE", p)>> /\ Steady(j) /\ pc[p] = "r_dw" /\ verb[p] = "logout" /\ sid[p] = j
    <3>1. PICK p \in Procs : q1 = r \o <<Write("NO_PHONE", p)>> /\ Steady(j) /\ pc[p] = "r_dw" /\ verb[p] = "logout" /\ sid[p] = j
      BY <2>10
    <3>2. ~Says(q, Len(q), Statuses, s)
      BY <1>g, <3>1 DEF Forgets
    <3>3. Write("NO_PHONE", p) \in Writes /\ Write("NO_PHONE", p).st = "NO_PHONE"
      BY <2>9
    <3>4. q1 = r \o <<Write("NO_PHONE", p)>> /\ Steady(j)
      BY <3>1
    <3> HIDE DEF Goal, q, s, q1, r
    <3> QED BY <2>8, <3>2, <3>3, <3>4
  <2>11. CASE q1 = r \o <<Write("INITIALIZING", NoProc)>> /\ ~u1
    <3>1. Write("INITIALIZING", NoProc) \in Writes /\ Write("INITIALIZING", NoProc).st = "INITIALIZING" /\ Write("INITIALIZING", NoProc).by = NoProc
      BY <2>9 DEF Statuses
    <3> HIDE DEF Goal
    <3> QED BY <2>8, <2>11, <3>1
  <2> QED BY <1>3, <2>7, <2>10, <2>11 DEF LandsAt
<1>4. ASSUME FailsAt(j) PROVE Goal
  <2>1. PICK k \in 1 .. Len(q) : q[k].st = "INITIALIZING" /\ q[k].by # NoProc /\ q1 = Without(q, k)
    BY <1>4 DEF FailsAt
  <2>2. s1 = s /\ f1 = f /\ (u1 => u) /\ (v => v1)
    BY <1>4, <1>c, <1>d DEF FailsAt
  <2>3. ~Says(q, k - 1, Statuses, s) /\ "INITIALIZING" \notin PhoneKinds
    BY <1>b, <2>1 DEF Cols, PhoneKinds
  <2>4. Len(q) \in Nat
    BY <1>a
  <2> HIDE DEF q, s, f, u, v, q1, s1, f1, u1, v1
  <2>5. Cols(Without(q, k), s, f, u, v)
    BY <1>a, <1>b, <2>1, ColsWithout
  <2>6. /\ Len(Without(q, k)) = Len(q) - 1
        /\ \A n \in 0 .. (Len(q) - 1) : n >= k - 1 => (Says(Without(q, k), n, Statuses, s) <=> Says(q, n + 1, Statuses, s))
    BY <1>a, <1>e, <2>1, <2>3, SaysWithout
  <2>7. \A n \in 0 .. (Len(q) - 1) : n >= k - 1 => (Says(Without(q, k), n, PhoneKinds, f) <=> Says(q, n + 1, PhoneKinds, f))
    BY <1>a, <1>e, <2>1, <2>3, SaysWithout
  <2>8. Len(q) - 1 \in 0 .. (Len(q) - 1) /\ Len(q) - 1 >= k - 1 /\ Len(q) - 1 + 1 = Len(q)
    BY <2>4
  <2> QED BY <2>1, <2>2, <2>5, <2>6, <2>7, <2>8 DEF Cols
<1> HIDE DEF Goal
<1>5. Goal
  BY <1>2, <1>3, <1>4, <1>1 DEF ShapeAt
<1> QED BY <1>5, <1>g, <1>h DEF Goal

-----------------------------------------------------------------------------
(* A logout: its final write, the phone and the credentials. *)

\* In the queue s the write of p is ahead of the one of q.
Before(s, p, q) == \A k, m \in 1 .. Len(s) : s[k].by = p /\ s[m].by = q => k < m

\* The order of two writes stays when another write is added, or one is taken out.
LEMMA BeforeBehind ==
  ASSUME NEW s \in Seq(Writes), NEW w \in Writes, NEW p, NEW q, w.by # p, Before(s, p, q)
  PROVE  Before(s \o <<w>>, p, q)
<1> DEFINE r == s \o <<w>>
<1>1. Len(r) = Len(s) + 1 /\ r[Len(s) + 1] = w /\ \A m \in 1 .. Len(s) : r[m] = s[m]
  BY SaysBehind DEF Kinds
<1>2. Len(s) \in Nat
  OBVIOUS
<1> HIDE DEF r
<1>3. ASSUME NEW k \in 1 .. Len(r), NEW m \in 1 .. Len(r), r[k].by = p, r[m].by = q PROVE k < m
  <2>1. k \in 1 .. Len(s) /\ s[k].by = p
    BY <1>1, <1>2, <1>3
  <2>2. CASE m = Len(s) + 1
    BY <1>2, <2>1, <2>2
  <2>3. CASE m # Len(s) + 1
    <3>1. m \in 1 .. Len(s) /\ s[m].by = q
      BY <1>1, <1>2, <1>3, <2>3
    <3> QED BY <2>1, <3>1 DEF Before
  <2> QED BY <2>2, <2>3
<1>4. Before(r, p, q)
  BY <1>3 DEF Before
<1> QED BY <1>4 DEF r

LEMMA BeforeWithout ==
  ASSUME NEW s \in Seq(Writes), NEW x \in 1 .. Len(s), NEW p, NEW q, Before(s, p, q)
  PROVE  Before(Without(s, x), p, q)
<1> DEFINE r == Without(s, x)
           old(m) == IF m < x THEN m ELSE m + 1
<1>1. Len(r) = Len(s) - 1 /\ \A m \in 1 .. (Len(s) - 1) : r[m] = IF m < x THEN s[m] ELSE s[m + 1]
  BY WithoutAt
<1>2. Len(s) \in Nat
  OBVIOUS
<1> HIDE DEF r
<1>3. \A m \in 1 .. Len(r) : old(m) \in 1 .. Len(s) /\ r[m] = s[old(m)]
  BY <1>1, <1>2
<1>4. \A k, m \in 1 .. Len(r) : old(k) < old(m) => k < m
  BY <1>1, <1>2
<1> HIDE DEF old
<1>5. Before(r, p, q)
  BY <1>3, <1>4 DEF Before
<1> QED BY <1>5 DEF r

\* What a step does to the registered engine of i: one that runs then ran before, or is being launched;
\* one that is registered then was, or is new; and a call that awaits its INITIALIZING write keeps its own.
LEMMA RegistryMoves ==
  ASSUME Context, EngineMove, NEW i \in Ids
  PROVE  /\ Runs(i)' => \/ Runs(i)
                        \/ \E q \in Procs : pc[q] = "i_write" /\ pc'[q] = "i_run" /\ sid[q] = i /\ cap[q] = reg[i]
         /\ reg'[i] \in {reg[i], NoEngine} \/ \A q \in Procs : cap[q] # reg'[i]
<1>a. /\ pc \in [Procs -> Pcs] /\ reg \in [Ids -> Engines \cup {NoEngine}] /\ phase \in [Engines -> Phases]
      /\ sid \in [Procs -> Ids \cup {NoId}] /\ verb \in [Procs -> AllVerbs \cup {"none", "lost", "reconnect"}]
      /\ cap \in [Procs -> Engines \cup {NoEngine}] /\ owner \in [Engines -> Ids \cup {NoId}]
  BY DEF Context, TypeOK, RegistryOK, EnginesOK, CallsOK
<1>b. NoEngine \notin Engines
  BY ConstantsAssumption
<1>c. \A q \in Procs : pc[q] # "idle" => sid[q] \in Ids
  BY DEF Context, CallsBound
<1>d. \A j \in Ids : reg[j] # NoEngine => owner[reg[j]] = j
  BY DEF Context, Accounted, RegisteredAt
<1>e. \A q \in Procs : pc[q] \in Launched \cup {"r_init", "r_td"} => cap[q] \in Engines /\ owner[cap[q]] = sid[q]
  BY CallOwner
<1> DEFINE Goal(q) ==
      /\ reg'[i] # NoEngine /\ phase'[reg'[i]] \in Running =>
           \/ reg[i] # NoEngine /\ phase[reg[i]] \in Running
           \/ pc[q] = "i_write" /\ pc'[q] = "i_run" /\ sid[q] = i /\ cap[q] = reg[i]
      /\ reg'[i] \in {reg[i], NoEngine} \/ \A r \in Procs : cap[r] # reg'[i]
<1>1. CASE EngineEvent
  <2>1. /\ reg'[i] # NoEngine /\ phase'[reg'[i]] \in Running => reg[i] # NoEngine /\ phase[reg[i]] \in Running
        /\ reg'[i] \in {reg[i], NoEngine}
    BY <1>1, <1>a, <1>b, <1>d DEF EngineEvent, Evict, Close, Running, Live
  <2> QED BY <2>1 DEF Runs
<1>2. ASSUME NEW p \in Procs, CallMoves(p) PROVE Goal(p)
  <2> USE <1>a, <1>b, <1>c, <1>d, <1>e DEF Acts, callVars, Goto, Running
  <2>1. CASE CallBegins(p) \/ Passes(p)
    BY <2>1 DEF CallBegins, Passes, RegistryRests
  <2>2. CASE Accepts(p)
    BY <2>2 DEF Accepts
  <2>3. CASE Launches(p)
    BY <2>3 DEF Launches, Launched, MayLaunch, Live
  <2>4. CASE Registers(p)
    BY <2>4 DEF Registers, InitializeEngine, Free
  <2>5. CASE RunEnds(p)
    BY <2>5 DEF RunEnds, Evict, Close, Launched, Live
  <2>6. CASE Reaps(p) \/ Evicts(p)
    BY <2>6 DEF Reaps, Evicts, Evict, DeleteIfLive, Close
  <2>7. CASE Marks(p) \/ Tears(p)
    BY <2>7 DEF Marks, Tears, Close
  <2> QED BY <1>2, <2>1, <2>2, <2>3, <2>4, <2>5, <2>6, <2>7 DEF CallMoves
<1>3. CASE \E p \in Procs : CallMoves(p) /\ \A q \in Procs \ {p} : snap'[q] = snap[q]
  <2>1. PICK p \in Procs : Goal(p)
    BY <1>2, <1>3
  <2> QED BY <2>1 DEF Runs
<1> QED BY <1>1, <1>3 DEF EngineMove

\* A call that does not go on keeps its engine, its session and its verb.
LEMMA HoldsOn ==
  ASSUME Context, EngineMove, NEW q \in Procs, pc'[q] = pc[q]
  PROVE  cap'[q] = cap[q] /\ sid'[q] = sid[q] /\ verb'[q] = verb[q]
<1>1. CASE EngineEvent
  BY <1>1 DEF EngineEvent, callVars
<1>2. ASSUME NEW p \in Procs, CallMoves(p) PROVE cap'[q] = cap[q] /\ sid'[q] = sid[q] /\ verb'[q] = verb[q]
  <2>1. Only(p) /\ pc'[p] # pc[p]
    BY <1>2, CallMovesOn, CallMovesOnly DEF Context
  <2> QED BY <2>1 DEF Only
<1> QED BY <1>1, <1>2 DEF EngineMove

\* A control issues its final write once the engine of its session is out.
LEMMA WritesLast ==
  ASSUME Context, Controls, EngineMove, NEW p \in Procs, pc[p] # "r_dw", pc'[p] = "r_dw"
  PROVE  reg'[sid[p]] = NoEngine /\ sid'[p] = sid[p] /\ sid[p] \in Ids
<1>1. CallMoves(p)
  BY OneCall
<1>2. pc[p] = "r_td" => reg[sid[p]] \in {NoEngine, cap[p]}
  BY DEF Controls, AloneAt
<1>3. /\ pc \in [Procs -> Pcs] /\ reg \in [Ids -> Engines \cup {NoEngine}] /\ (pc[p] # "idle" => sid[p] \in Ids)
  BY DEF Context, TypeOK, RegistryOK, CallsOK, CallsBound
<1> USE <1>2, <1>3 DEF Acts, callVars, Goto
<1>4. ~CallBegins(p) /\ ~Accepts(p) /\ ~Launches(p) /\ ~RunEnds(p) /\ ~Reaps(p) /\ ~Tears(p)
  BY DEF CallBegins, Accepts, Launches, RunEnds, Reaps, Tears
<1>5. ~Passes(p)
  BY DEF Passes, Onward, End
<1>6. ~Registers(p)
  BY DEF Registers, InitializeEngine
<1>7. CASE Evicts(p)
  BY <1>7 DEF Evicts, DeleteIfLive
<1>8. CASE Marks(p)
  BY <1>8 DEF Marks
<1> QED BY <1>1, <1>4, <1>5, <1>6, <1>7, <1>8 DEF CallMoves

\* A logout that has issued its final write: neither its session's writes nor its engine come up again
\* before it forgets the phone, for what a later start writes comes after its own.
ForgetsAt(p) ==
  Forgets(p) /\ row[sid[p]] # "deleted" =>
    /\ ~ReadyLast(sid[p]) /\ ~Runs(sid[p])
    /\ \A q \in Procs :
         pc[q] = "i_write" /\ sid[q] = sid[p] /\ cap[q] = reg[sid[p]] => Before(inflight[sid[p]], p, q)

\* A logout keeps the place of its write ahead of another until it lands.
LEMMA BeforeStep ==
  ASSUME TypeOK, Owned, Owned', NEW p \in Procs, NEW q \in Procs, NEW j \in Ids, ShapeAt(j),
         pc[p] = "r_dw", pc'[p] = "r_dw", sid[p] = j, Before(inflight[j], p, q)
  PROVE  Before(inflight'[j], p, q)
<1>a. inflight[j] \in Seq(Writes) /\ inflight \in Queues /\ NoProc \notin Procs
  BY ConstantsAssumption DEF TypeOK, RowsOK, Queues
<1>b. PICK k \in 1 .. Len(inflight[j]) : inflight[j][k].by = p
  BY DEF Owned, Owns, WritePcs
<1>c. \A x, y \in 1 .. Len(inflight'[j]) : inflight'[j][x].by = p /\ inflight'[j][y].by = p => x = y
  BY DEF Owned, Owns
<1>d. \A x \in 1 .. Len(inflight'[j]) : inflight'[j][x].by = p => inflight'[j][x].st # "NO_PHONE"
  BY DEF Owned, Owns, Awaits
<1>e. \A st \in Statuses \cup {"NO_PHONE"}, r \in Procs \cup {NoProc} :
        Write(st, r) \in Writes /\ Write(st, r).st = st /\ Write(st, r).by = r
  BY DEF Write, Writes
<1>f. \A s \in Seq(Writes), w \in Writes :
        Len(s) \in Nat /\ Len(s \o <<w>>) = Len(s) + 1 /\ (s \o <<w>>)[Len(s) + 1] = w
        /\ \A m \in 1 .. Len(s) : (s \o <<w>>)[m] = s[m]
  BY SaysBehind DEF Kinds
<1>g. \A x \in 1 .. Len(inflight[j]) : Without(inflight[j], x) \in Seq(Writes) /\ Before(Without(inflight[j], x), p, q)
  BY <1>a, WithoutAt, BeforeWithout
<1>1. ASSUME NEW w \in Writes, IssuesAt(j, w) PROVE Before(inflight'[j], p, q)
  <2>1. inflight'[j] = inflight[j] \o <<w>>
    BY <1>1 DEF IssuesAt
  <2>2. /\ Len(inflight[j]) \in Nat /\ Len(inflight'[j]) = Len(inflight[j]) + 1
        /\ inflight'[j][Len(inflight[j]) + 1] = w /\ inflight'[j][k] = inflight[j][k]
    BY <1>a, <1>b, <1>f, <2>1
  <2>3. /\ k \in 1 .. Len(inflight'[j]) /\ Len(inflight[j]) + 1 \in 1 .. Len(inflight'[j])
        /\ k # Len(inflight[j]) + 1
    BY <2>2
  <2>4. w.by # p
    BY <1>b, <1>c, <2>2, <2>3
  <2> QED BY <1>a, <2>1, <2>4, BeforeBehind
<1>2. ASSUME NEW w \in Writes, 1 \in 1 .. Len(inflight[j]), inflight'[j] = Without(inflight[j], 1) \o <<w>>,
             w.st = "NO_PHONE" \/ w.by = NoProc
      PROVE  Before(inflight'[j], p, q)
  <2> DEFINE r == Without(inflight[j], 1)
  <2>1. r \in Seq(Writes) /\ Before(r, p, q)
    BY <1>2, <1>g
  <2>2. Len(r) + 1 \in 1 .. Len(inflight'[j]) /\ inflight'[j][Len(r) + 1] = w
    BY <1>2, <1>f, <2>1
  <2>3. w.by # p
    BY <1>2, <1>a, <1>d, <2>2
  <2> HIDE DEF r
  <2>4. Before(r \o <<w>>, p, q)
    BY <2>1, <2>3, BeforeBehind
  <2> QED BY <1>2, <2>4 DEF r
<1>3. CASE LandsAt(j)
  <2>1. 1 \in 1 .. Len(inflight[j])
    BY <1>3 DEF LandsAt, Landed
  <2>2. CASE inflight'[j] = Without(inflight[j], 1)
    BY <1>g, <2>1, <2>2
  <2>3. ASSUME NEW o \in Procs, inflight'[j] = Without(inflight[j], 1) \o <<Write("NO_PHONE", o)>> PROVE Before(inflight'[j], p, q)
    <3>1. Write("NO_PHONE", o) \in Writes /\ Write("NO_PHONE", o).st = "NO_PHONE"
      BY <1>e
    <3> QED BY <1>2, <2>1, <2>3, <3>1
  <2>4. CASE inflight'[j] = Without(inflight[j], 1) \o <<Write("INITIALIZING", NoProc)>>
    BY <1>2, <1>e, <2>1, <2>4 DEF Statuses
  <2> QED BY <1>3, <2>2, <2>3, <2>4 DEF LandsAt
<1>4. CASE FailsAt(j)
  BY <1>4, <1>g DEF FailsAt
<1> QED BY <1>1, <1>3, <1>4 DEF ShapeAt

\* No launch gets past the write of such a logout, for a launch awaits a write of its own, behind it.
LEMMA ForgetsStep ==
  ASSUME Context, Context', Controls, Owned, Owned', EngineMove, QueueMove,
         \A p \in Procs : Careful(p) /\ Guarded(p),
         \A j \in Ids : row'[j] # "deleted" => row[j] # "deleted",
         \A j \in Ids : row[j] # "deleted" => ColumnsAt(j) /\ ShapeAt(j),
         \A p \in Procs : ForgetsAt(p), NEW p \in Procs
  PROVE  ForgetsAt(p)'
<1> DEFINE j == sid[p]
           Last1 == Says(inflight'[j], Len(inflight'[j]), Statuses, status'[j] = "READY")
           Runs1 == reg'[j] # NoEngine /\ phase'[reg'[j]] \in Running
<1>a. inflight \in Queues /\ pc \in [Procs -> Pcs] /\ reg \in [Ids -> Engines \cup {NoEngine}] /\ NoEngine \notin Engines
      /\ NoProc \notin Procs /\ \A q \in Procs : pc[q] # "idle" => sid[q] \in Ids
  BY ConstantsAssumption DEF Context, TypeOK, RowsOK, RegistryOK, CallsOK, CallsBound, Queues
<1>b. \A q \in Procs : pc'[q] = "i_write" => cap'[q] \in Engines
  BY DEF Context, Accounted, HolderAt, Launched
<1>c. \A q \in Procs : pc[q] = "i_write" => cap[q] \in Engines
  BY DEF Context, Accounted, HolderAt, Launched
<1>d. \A i \in Ids, w \in Writes : Behind(inflight, i, w)[i] = inflight[i] \o <<w>>
  BY <1>a, BehindAt
<1>e. \A i \in Ids : inflight[i] \in Seq(Writes)
  BY <1>a DEF Queues
<1> SUFFICES ASSUME pc'[p] = "r_dw", verb'[p] = "logout", row'[sid'[p]] # "deleted"
             PROVE  /\ j \in Ids /\ sid'[p] = j
                    /\ ~Last1 /\ ~Runs1
                    /\ \A q \in Procs : pc'[q] = "i_write" /\ sid'[q] = j /\ cap'[q] = reg'[j] => Before(inflight'[j], p, q)
  BY DEF ForgetsAt, Forgets, ReadyLast, Runs
<1>1. CASE pc[p] # "r_dw"
  <2>1. reg'[j] = NoEngine /\ sid'[p] = j /\ j \in Ids
    BY <1>1, WritesLast
  <2>2. QueueStep(p)
    <3>1. CallMoves(p) /\ Only(p)
      BY <1>1, OneCall
    <3> QED BY <1>1, <3>1 DEF QueueMove, Only
  <2>3. PICK st \in Statuses : Awaits("r_dw", st) /\ UNCHANGED <<status, phone>> /\ inflight' = Behind(inflight, j, Write(st, p))
    BY <1>1, <2>2 DEF QueueStep, WritePcs
  <2>4. st = "DISCONNECTED" /\ Write(st, p) \in Writes /\ Write(st, p).st = "DISCONNECTED"
    BY <2>3 DEF Awaits, Write, Writes
  <2>5. inflight'[j] = inflight[j] \o <<Write(st, p)>> /\ inflight[j] \in Seq(Writes)
    BY <1>d, <1>e, <2>1, <2>3, <2>4
  <2>6. ~Last1
    <3> DEFINE s == inflight[j]
               w == Write(st, p)
               b == status'[j] = "READY"
    <3>1. s \in Seq(Writes) /\ w \in Writes /\ w.st = "DISCONNECTED" /\ inflight'[j] = s \o <<w>> /\ b \in BOOLEAN
      BY <2>4, <2>5
    <3>2. Statuses \in Kinds /\ "DISCONNECTED" \in Statuses
      BY DEF Kinds, Statuses
    <3> HIDE DEF s, w, b
    <3>3. Len(s \o <<w>>) = Len(s) + 1 /\ ~Says(s \o <<w>>, Len(s) + 1, Statuses, b)
      BY <3>1, <3>2, SaysBehind
    <3> QED BY <3>1, <3>3 DEF b
  <2> QED BY <1>a, <1>b, <2>1, <2>6
<1>2. CASE pc[p] = "r_dw"
  <2>1. sid'[p] = j /\ verb[p] = "logout" /\ j \in Ids
    BY <1>2, <1>a, HoldsOn
  <2>2. row[j] # "deleted"
    BY <2>1
  <2>3. /\ ~ReadyLast(j) /\ ~Runs(j)
        /\ \A q \in Procs : pc[q] = "i_write" /\ sid[q] = j /\ cap[q] = reg[j] => Before(inflight[j], p, q)
    BY <1>2, <2>1, <2>2 DEF ForgetsAt, Forgets
  <2>4. ColumnsAt(j) /\ ShapeAt(j)
    BY <2>1, <2>2
  <2>5. \A o \in Procs : Forgets(o) /\ sid[o] = j => ~ReadyLast(j)
    BY <2>2 DEF ForgetsAt
  <2>6. TypeOK
    BY DEF Context
  <2>7. ~Last1
    BY <2>1, <2>2, <2>3, <2>4, <2>5, <2>6, ColsStep
  <2>8. ~Runs1
    <3> SUFFICES ASSUME Runs1 PROVE FALSE
      OBVIOUS
    <3>1. PICK q \in Procs : pc[q] = "i_write" /\ pc'[q] = "i_run" /\ sid[q] = j /\ cap[q] = reg[j]
      BY <2>1, <2>3, RegistryMoves DEF Runs
    <3>2. 1 \in DOMAIN inflight[j] /\ inflight[j][1].by = q
      BY <3>1 DEF Guarded
    <3>3. PICK k \in 1 .. Len(inflight[j]) : inflight[j][k].by = p
      BY <1>2, <2>1 DEF Owned, Owns, WritePcs
    <3>4. k < 1
      BY <1>a, <2>1, <2>3, <3>1, <3>2, <3>3 DEF Before, Queues
    <3> QED BY <3>3, <3>4
  <2>9. ASSUME NEW q \in Procs, pc'[q] = "i_write", sid'[q] = j, cap'[q] = reg'[j] PROVE Before(inflight'[j], p, q)
    <3>1. CASE pc[q] = "i_write"
      <4>1. cap'[q] = cap[q] /\ sid[q] = j
        BY <2>9, <3>1, HoldsOn
      <4>2. reg'[j] # NoEngine
        BY <1>b, <1>a, <2>9
      <4>3. reg[j] = cap[q]
        BY <2>1, <2>9, <4>1, <4>2, RegistryMoves
      <4> QED BY <1>2, <2>1, <2>3, <2>4, <2>6, <3>1, <4>1, <4>3, BeforeStep
    <3>2. CASE pc[q] # "i_write"
      <4>1. Only(q) /\ CallMoves(q)
        BY <2>9, <3>2, OneCall
      <4>2. QueueStep(q)
        BY <2>9, <3>2, <4>1 DEF QueueMove, Only
      <4>3. PICK st \in Statuses : <<pc[q], "i_write">> \in Writing /\ sid[q] \in Ids /\ inflight' = Behind(inflight, sid[q], Write(st, q))
        BY <2>9, <3>2, <4>2 DEF QueueStep, WritePcs
      <4>4. sid[q] = j /\ pc[q] \notin WritePcs
        BY <2>9, <4>3, CallsKeepSession DEF Writing, WritePcs
      <4>5. \A m \in 1 .. Len(inflight[j]) : inflight[j][m].by # q
        BY <2>1, <4>4 DEF Owned, Owns, Awaits, WritePcs
      <4>6. /\ Write(st, q) \in Writes /\ Write(st, q).by = q /\ q # p /\ inflight[j] \in Seq(Writes)
        BY <1>2, <1>a, <2>1, <2>9 DEF Write, Writes, Queues
      <4>7. Before(inflight[j], p, q)
        BY <4>5 DEF Before
      <4>8. inflight'[j] = inflight[j] \o <<Write(st, q)>>
        BY <1>d, <2>1, <4>3, <4>4, <4>6
      <4> QED BY <4>6, <4>7, <4>8, BeforeBehind
    <3> QED BY <3>1, <3>2
  <2> QED BY <2>1, <2>7, <2>8, <2>9
<1> QED BY <1>1, <1>2

\* What a step does to the credentials on disk: a launch saves its session's; what takes some away is a
\* wipe, the purge of a delete, or the removal of a profile.  And where a logout goes on to.
DiskMove ==
  /\ \A p \in Procs : pc[p] = "i_write" /\ pc'[p] = "i_run" => disk' = disk \cup {NameOf[sid[p]]}
  /\ \A p \in Procs : pc[p] = "r_td" /\ verb[p] = "logout" => pc'[p] \in {"r_td", "r_dw"}
  /\ \/ disk \subseteq disk'
     \/ \E p \in Procs : pc[p] \in {"wipe", "d_purge"} /\ disk' = disk \ {NameOf[sid[p]]}
     \/ \E n \in tracked : UNCHANGED <<pc, reg, phase>> /\ disk' = disk \ {NameOf[owner[n]]}

\* No step does anything else to the credentials: by the action taken.
LEMMA DiskMoves ==
  ASSUME TypeOK, CallsBound, [Next]_vars
  PROVE  DiskMove
<1> USE DEF DiskMove, TypeOK, CallsOK, EnginesOK, CallsBound, At, Resumes, Goto, callVars, engineVars, rowVars
<1>1. ASSUME NEW p \in Procs, InitWritten(p)
      PROVE  DiskMove
  BY <1>1 DEF InitWritten
<1>2. ASSUME NEW p \in Procs, InitWriteFails(p) \/ InitDeadline(p) \/ InitReaped(p) \/ InitGaveUp(p)
      PROVE  DiskMove
  BY <1>2 DEF InitWriteFails, InitDeadline, InitReaped, InitGaveUp
<1>3. ASSUME NEW p \in Procs, Initialized(p) \/ CheckRetired(p)
      PROVE  DiskMove
  BY <1>3 DEF Initialized, Undo, CheckRetired, Finish, End
<1>4. ASSUME NEW p \in Procs, Undone(p) \/ PurgeCheck(p) \/ Wipe(p) \/ StartReplies(p)
      PROVE  DiskMove
  BY <1>4 DEF Undone, PurgeCheck, Finish, End, Wipe, StartReplies
<1>5. ASSUME NEW p \in Procs, StartRead(p) \/ StartFenced(p)
      PROVE  DiskMove
  BY <1>5 DEF StartRead, Reject, StartAccepted, End, StartFenced, StartRefusable
<1>6. ASSUME NEW p \in Procs, StartHooked(p) \/ StartCatch(p) \/ StartReaped(p) \/ StartFailed(p)
      PROVE  DiskMove
  BY <1>6 DEF StartHooked, InitializeEngine, StartCatch, End, StartReaped, StartFailed
<1>7. ASSUME NEW p \in Procs, RetireRead(p)
      PROVE  DiskMove
  BY <1>7 DEF RetireRead, Reject, End, MarkAndTear, AfterTeardown, BeginTeardown
<1>8. ASSUME NEW p \in Procs, DeleteFenced1(p)
      PROVE  DiskMove
  BY <1>8 DEF DeleteFenced1, MarkAndTear, AfterTeardown, BeginTeardown
<1>9. ASSUME NEW p \in Procs, InitialStatusSettled(p) \/ RetireTornDown(p)
      PROVE  DiskMove
  BY <1>9 DEF InitialStatusSettled, BeginTeardown, RetireTornDown, AfterTeardown
<1>10. ASSUME NEW p \in Procs, RetireWritten(p) \/ LogoutForgot(p)
      PROVE  DiskMove
  BY <1>10 DEF RetireWritten, End, LogoutForgot
<1>11. ASSUME NEW p \in Procs,
             DeleteFenced2(p) \/ DeleteRefused2(p) \/ DeleteGaveUp(p) \/ DeleteHooked(p)
      PROVE  DiskMove
  BY <1>11 DEF DeleteFenced2, DeleteRefused2, End, DeleteGaveUp, DeleteHooked
<1>12. ASSUME NEW p \in Procs, DeleteCommitted(p) \/ DeletePurged(p) \/ FenceRefused(p)
      PROVE  DiskMove
  BY <1>12 DEF DeleteCommitted, DeletePurged, End, FenceRefused, Reject
<1>13. ASSUME NEW p \in Procs,
             LostRead(p) \/ ReconnectTornDown(p) \/ ReconnectFenced(p) \/ ReconnectRefused(p) \/
             ReconnectCatch(p)
      PROVE  DiskMove
  BY <1>13 DEF LostRead, ReconnectTornDown, ReconnectFenced, ReconnectRefused, ReconnectCatch, End,
     InitializeEngine
<1>14. ASSUME NEW p \in Procs, InitResolves(p) \/ InitRejects(p)
      PROVE  DiskMove
  BY <1>14 DEF InitResolves, InitRejects
<1>15. ASSUME NEW p \in Procs, NEW i \in Ids, Start(p, i)
      PROVE  DiskMove
  BY <1>15 DEF Start
<1>16. ASSUME NEW p \in Procs, NEW i \in Ids, ReconnectFires(i, p)
      PROVE  DiskMove
  BY <1>16 DEF ReconnectFires
<1>17. ASSUME NEW p \in Procs, NEW i \in Ids, NEW v \in RetireVerbs, Retire(p, v, i)
      PROVE  DiskMove
  BY <1>17 DEF Retire
<1>18. ASSUME NEW n \in Engines, NEW p \in Procs, NEW unlinked \in BOOLEAN, Lost(n, p, unlinked)
      PROVE  DiskMove
  BY <1>18 DEF Lost
<1>19. ASSUME NEW n \in Engines, EngineReady(n)
      PROVE  DiskMove
  BY <1>19 DEF EngineReady
<1>20. ASSUME NEW n \in Engines, EngineFails(n)
      PROVE  DiskMove
  BY <1>20 DEF EngineFails, OnError
<1>21. ASSUME NEW n \in Engines, EngineClosed(n) \/ CredentialsRemoved(n)
      PROVE  DiskMove
  BY <1>21 DEF EngineClosed, CredentialsRemoved
<1>22. ASSUME NEW i \in Ids, Create(i)
      PROVE  DiskMove
  BY <1>22 DEF Create
<1>23. ASSUME NEW i \in Ids, WriteLands(i)
      PROVE  DiskMove
  BY <1>23 DEF WriteLands
<1>24. CASE UNCHANGED vars
  BY <1>24 DEF vars
<1>25. ASSUME NEW p \in Procs, Continue(p) \/ EngineAnswers(p)
      PROVE  DiskMove
  BY <1>25, <1>1, <1>2, <1>3, <1>4, <1>5, <1>6, <1>7, <1>8, <1>9, <1>10, <1>11, <1>12, <1>13, <1>14
     DEF Continue, EngineAnswers
<1> QED BY <1>15, <1>16, <1>17, <1>18, <1>19, <1>20, <1>21, <1>22, <1>23, <1>24, <1>25 DEF Next

\* A logout of i that has begun to remove its profile, and has not yet forgotten its phone.
Forgetting(i) == \E p \in Procs : sid[p] = i /\ verb[p] = "logout" /\ pc[p] \in {"r_td", "r_dw"}
\* The engine of a session that runs has credentials on disk, and so has a session with a phone, unless
\* a logout is about to take it away.
DiskAt(i) ==
  row[i] # "deleted" =>
    /\ Runs(i) => NameOf[i] \in disk
    /\ NameOf[i] \in disk \/ ~PhoneLast(i) \/ Forgetting(i)

\* Credentials go only while their session is down, and its phone with them.
LEMMA DiskStep ==
  ASSUME Context, Controls, Origins, EngineMove, QueueMove, DiskMove,
         \A x, y \in Ids : NameOf[x] = NameOf[y] => x = y,
         \A p \in Procs : ForgetsAt(p), NEW j \in Ids, row'[j] # "deleted", row[j] # "deleted",
         ColumnsAt(j), ShapeAt(j), DiskAt(j)
  PROVE  DiskAt(j)'
<1> DEFINE last1 == Says(inflight'[j], Len(inflight'[j]), PhoneKinds, phone'[j])
           runs1 == reg'[j] # NoEngine /\ phase'[reg'[j]] \in Running
           forgetting1 == \E p \in Procs : sid'[p] = j /\ verb'[p] = "logout" /\ pc'[p] \in {"r_td", "r_dw"}
<1> SUFFICES /\ runs1 => NameOf[j] \in disk'
             /\ NameOf[j] \in disk' \/ ~last1 \/ forgetting1
  BY DEF DiskAt, Runs, PhoneLast, Forgetting
<1>a. TypeOK /\ inflight \in Queues /\ inflight[j] \in Seq(Writes) /\ status \in [Ids -> Statuses] /\ phone \in [Ids -> BOOLEAN]
  BY DEF Context, TypeOK, RowsOK, Queues
<1>b. (Runs(j) => NameOf[j] \in disk) /\ (NameOf[j] \in disk \/ ~PhoneLast(j) \/ Forgetting(j))
  BY DEF DiskAt
<1>1. ASSUME NameOf[j] \in disk, NameOf[j] \notin disk'
      PROVE  ~Runs(j) /\ pc' = pc /\ \E q \in Procs : pc[q] = "r_td" /\ verb[q] = "logout" /\ sid[q] = j
  <2>1. ~(disk \subseteq disk')
    BY <1>1
  <2>2. ASSUME NEW p \in Procs, pc[p] \in {"wipe", "d_purge"}, disk' = disk \ {NameOf[sid[p]]} PROVE FALSE
    <3>1. sid[p] \in Ids
      BY <2>2 DEF Context, CallsBound
    <3>2. sid[p] = j
      BY <1>1, <2>2, <3>1
    <3> QED BY <2>2, <3>2 DEF Origins, GoneAt
  <2>3. PICK n \in tracked : UNCHANGED <<pc, reg, phase>> /\ disk' = disk \ {NameOf[owner[n]]}
    BY <2>1, <2>2 DEF DiskMove
  <2>4. n \in Engines
    BY <2>3, <1>a DEF TypeOK, EnginesOK
  <2>5. PICK q \in Procs : pc[q] = "r_td" /\ verb[q] = "logout" /\ cap[q] = n
    BY <2>3, <2>4 DEF Origins, RemovalAt
  <2>6. owner[n] = sid[q] /\ sid[q] \in Ids /\ reg[sid[q]] \in {NoEngine, n} /\ phase[n] \in {"closing", "closed"}
    BY <2>5, CallOwner DEF Controls, AloneAt, Context, Accounted, HolderAt, TearingDown
  <2>7. sid[q] = j
    BY <1>1, <2>3, <2>6
  <2> QED BY <2>3, <2>5, <2>6, <2>7 DEF Runs, Running
<1>2. runs1 => NameOf[j] \in disk'
  <2>1. ASSUME NEW q \in Procs, pc[q] = "i_write", pc'[q] = "i_run", sid[q] = j PROVE NameOf[j] \in disk'
    BY <2>1 DEF DiskMove
  <2>2. runs1 => Runs(j) \/ \E q \in Procs : pc[q] = "i_write" /\ pc'[q] = "i_run" /\ sid[q] = j
    BY RegistryMoves DEF Runs
  <2> QED BY <1>b, <1>1, <2>1, <2>2
<1>3. ASSUME last1, NameOf[j] \notin disk' PROVE forgetting1
  <2>1. PhoneLast(j) \/ Runs(j)
    <3>1. \A p \in Procs : Forgets(p) /\ sid[p] = j => ~ReadyLast(j)
      BY DEF ForgetsAt
    <3> QED BY <1>3, <1>a, <3>1, ColsStep
  <2>2. ~Runs(j)
    BY <1>b, <1>1, <1>3
  <2>3. CASE NameOf[j] \in disk
    <3>1. PICK q \in Procs : pc[q] = "r_td" /\ verb[q] = "logout" /\ sid[q] = j /\ pc'[q] = pc[q]
      BY <1>1, <1>3, <2>3
    <3> QED BY <3>1, HoldsOn
  <2>4. ASSUME NEW p \in Procs, sid[p] = j, verb[p] = "logout", pc[p] \in {"r_td", "r_dw"} PROVE forgetting1
    <3>1. CASE pc'[p] = pc[p]
      BY <2>4, <3>1, HoldsOn
    <3>2. CASE pc[p] = "r_td" /\ pc'[p] # pc[p]
      <4>1. pc'[p] = "r_dw"
        BY <2>4, <3>2 DEF DiskMove
      <4> QED BY <2>4, <3>2, <4>1, CallsKeepSession
    <3>3. CASE pc[p] = "r_dw" /\ pc'[p] # pc[p]
      <4>1. Only(p)
        BY <3>3, OneCall
      <4>2. QueueStep(p)
        BY <3>3, <4>1 DEF QueueMove, Only
      <4>3. PICK k \in 1 .. Len(inflight[j]) : inflight' = Behind(Taken(inflight, j, k), j, Write("NO_PHONE", p))
        BY <2>4, <3>3, <4>2 DEF QueueStep, WritePcs, Writing
      <4>4. Write("NO_PHONE", p) \in Writes /\ Write("NO_PHONE", p).st = "NO_PHONE"
        BY DEF Write, Writes
      <4> DEFINE Q == Taken(inflight, j, k)
                 w == Write("NO_PHONE", p)
                 b == phone'[j]
      <4>5. Q \in Queues
        BY <1>a, TakenAt
      <4>6. b \in BOOLEAN
        BY <1>a, <3>3, <4>2 DEF QueueStep, WritePcs, Land
      <4>7. w \in Writes /\ w.st = "NO_PHONE" /\ inflight' = Behind(Q, j, w)
        BY <4>3, <4>4
      <4>8. PhoneKinds \in Kinds /\ "NO_PHONE" \in PhoneKinds
        BY DEF Kinds, PhoneKinds
      <4> HIDE DEF Q, w, b
      <4>9. Behind(Q, j, w)[j] = Q[j] \o <<w>> /\ Q[j] \in Seq(Writes)
        BY <4>5, <4>7, BehindAt DEF Queues
      <4>10. Len(Q[j] \o <<w>>) = Len(Q[j]) + 1 /\ ~Says(Q[j] \o <<w>>, Len(Q[j]) + 1, PhoneKinds, b)
        BY <4>6, <4>7, <4>8, <4>9, SaysBehind
      <4>11. ~last1
        BY <4>7, <4>9, <4>10 DEF b
      <4> QED BY <1>3, <4>11
    <3> QED BY <2>4, <3>1, <3>2, <3>3
  <2> QED BY <1>b, <2>1, <2>2, <2>3, <2>4 DEF Forgetting
<1> QED BY <1>2, <1>3

-----------------------------------------------------------------------------
(* The invariant, and what it says. *)

Columns == (\A i \in Ids : ColumnsAt(i) /\ DiskAt(i)) /\ \A p \in Procs : ForgetsAt(p)
SettleInv == Context /\ FenceInv /\ Controls /\ Origins /\ Owned /\ Columns

\* No write in flight: the column stands.
LEMMA SaysNone ==
  ASSUME NEW S, NEW b \in BOOLEAN
  PROVE  Says(<<>>, Len(<<>>), S, b) <=> b
<1>1. Len(<<>>) = 0 /\ 0 \in 0 .. 0 /\ (\A m \in (0 + 1) .. 0 : FALSE) /\ \A k \in 0 .. 0 : k = 0
  OBVIOUS
<1> QED BY <1>1 DEF Says

\* At first there is no session, no call and no write.
LEMMA InitSettles == Init => SettleInv
<1> SUFFICES ASSUME Init PROVE SettleInv
  OBVIOUS
<1>1. Context
  BY InitAccounted
<1>2. FenceInv
  BY DEF Init, FenceInv, FenceAt, TrackedOf
<1>3. /\ \A p \in Procs : pc[p] = "idle"
      /\ \A i \in Ids : inflight[i] = <<>> /\ status[i] = "CREATED" /\ phone[i] = FALSE /\ reg[i] = NoEngine /\ row[i] = "absent"
      /\ tracked = {}
  BY DEF Init
<1>4. Controls
  BY <1>3 DEF Controls, AloneAt, ClosesAt, RefenceAt
<1>5. Origins
  BY <1>3 DEF Origins, FreshAt, GoneAt, RemovalAt
<1>6. Owned
  BY <1>3 DEF Owned, Owns, WritePcs
<1>7. ASSUME NEW i \in Ids PROVE ColumnsAt(i) /\ DiskAt(i)
  <2>1. inflight[i] = <<>> /\ (status[i] = "READY") = FALSE /\ phone[i] = FALSE /\ ~Up(i) /\ ~Runs(i)
    BY <1>3 DEF Up, Runs
  <2>2. ~Says(<<>>, Len(<<>>), Statuses, FALSE) /\ ~Says(<<>>, Len(<<>>), PhoneKinds, FALSE)
    BY SaysNone
  <2>3. Cols(<<>>, FALSE, FALSE, Up(i), Up(i) \/ Reaping(i))
    <3>1. \A k \in 1 .. Len(<<>>) : FALSE
      OBVIOUS
    <3> QED BY <2>1, <2>2, <3>1 DEF Cols
  <2> QED BY <2>1, <2>2, <2>3 DEF ColumnsAt, DiskAt, PhoneLast
<1>8. \A p \in Procs : ForgetsAt(p)
  BY <1>3 DEF ForgetsAt, Forgets
<1> QED BY <1>1, <1>2, <1>4, <1>5, <1>6, <1>7, <1>8 DEF SettleInv, Columns

\* Each part is kept by the lemma named after it.
LEMMA SettleStep ==
  ASSUME Ordered, "lost" \notin Faults, "initError" \notin Faults, "teardownTimeout" \notin Faults,
         \A i, j \in Ids : NameOf[i] = NameOf[j] => i = j, SettleInv, [Next]_vars
  PROVE  SettleInv'
<1> USE DEF SettleInv
<1>1. EngineMove /\ TypeOK /\ CallsBound
  BY EngineMoves DEF Context
<1>2. (\A p \in Procs : Careful(p)) /\ \A p \in Procs : Guarded(p)
  BY <1>1, CarefulStep, GuardedStep
<1>3. QueueMove /\ DiskMove
  BY <1>1, QueueMoves, DiskMoves
<1>4. Context' /\ FenceInv'
  BY <1>1, AccountedStep, FenceStep
<1>5. Controls'
  BY <1>1, <1>2, ControlsStep
<1>6. Origins'
  BY <1>1, <1>2, OriginsStep
<1>7. Owned'
  BY <1>1, <1>3, OwnedStep
<1>8. \A i \in Ids : row'[i] # "deleted" => row[i] # "deleted"
  BY FreshRows DEF Origins
<1>9. \A i \in Ids : ColumnsAt(i) /\ DiskAt(i)
  BY DEF Columns
<1>10. \A p \in Procs : ForgetsAt(p)
  BY DEF Columns
<1>11. \A i \in Ids : row[i] # "deleted" => ShapeAt(i)
  BY <1>1, <1>2, <1>3, ShapeHolds
<1>12. ASSUME NEW i \in Ids PROVE ColumnsAt(i)'
  <2> SUFFICES ASSUME row'[i] # "deleted"
               PROVE  Cols(inflight'[i], status'[i] = "READY", phone'[i], Up(i)', Up(i)' \/ Reaping(i)')
    BY DEF ColumnsAt
  <2>1. row[i] # "deleted"
    BY <1>8
  <2>2. \A p \in Procs : Forgets(p) /\ sid[p] = i => ~ReadyLast(i)
    BY <1>10, <2>1 DEF ForgetsAt
  <2> QED BY <1>1, <1>9, <1>11, <2>1, <2>2, ColsStep
<1>13. ASSUME NEW i \in Ids PROVE DiskAt(i)'
  <2>1. CASE row'[i] = "deleted"
    BY <2>1 DEF DiskAt
  <2>2. CASE row'[i] # "deleted"
    BY <1>1, <1>3, <1>8, <1>9, <1>10, <1>11, <2>2, DiskStep
  <2> QED BY <2>1, <2>2
<1>14. ASSUME NEW p \in Procs PROVE ForgetsAt(p)'
  BY <1>1, <1>2, <1>3, <1>4, <1>7, <1>8, <1>9, <1>10, <1>11, ForgetsStep
<1>15. Columns'
  BY <1>12, <1>13, <1>14 DEF Columns
<1> QED BY <1>4, <1>5, <1>6, <1>7, <1>15

\* What the invariant says of a session at rest.
LEMMA SettledMeans ==
  ASSUME SettleInv
  PROVE  SettledReady /\ PhoneSettled
<1>1. ASSUME NEW i \in Ids, Idle(i), row[i] = "present"
      PROVE  /\ status[i] = "READY" <=> reg[i] # NoEngine /\ phase[reg[i]] = "ready"
             /\ status[i] = "READY" => phone[i]
             /\ phone[i] => NameOf[i] \in disk
  <2>1. ~Reaping(i) /\ ~Forgetting(i) /\ inflight[i] = <<>> /\ phone[i] \in BOOLEAN
    BY <1>1 DEF Idle, Busy, Reaping, Forgetting, SettleInv, Context, TypeOK, RowsOK
  <2>2. /\ Says(<<>>, Len(<<>>), Statuses, status[i] = "READY") <=> status[i] = "READY"
        /\ Says(<<>>, Len(<<>>), PhoneKinds, phone[i]) <=> phone[i]
    BY <2>1, SaysNone
  <2>3. Cols(<<>>, status[i] = "READY", phone[i], Up(i), Up(i) \/ Reaping(i))
    BY <1>1, <2>1 DEF SettleInv, Columns, ColumnsAt
  <2>4. (Up(i) <=> status[i] = "READY") /\ (status[i] = "READY" => phone[i])
    BY <2>1, <2>2, <2>3 DEF Cols
  <2>5. phone[i] => NameOf[i] \in disk
    BY <1>1, <2>1, <2>2 DEF SettleInv, Columns, DiskAt, PhoneLast
  <2> QED BY <2>4, <2>5 DEF Up
<1> QED BY <1>1 DEF SettledReady, PhoneSettled

\* Once nothing is in flight for a session its row reads READY exactly when a ready engine is registered,
\* whatever its controls did to each other at their awaits: no stale event and no late write has the
\* last word (SessionEngineLifecycleService, pendingInitialStatuses).  It takes a database that lands the
\* writes in order, no lost link, no name used twice, and an initialize() or a teardown that is waited for:
\* TLC finds a counterexample where either of these gives up.
THEOREM SettledReadyHolds ==
  ASSUME Ordered, "lost" \notin Faults, "initError" \notin Faults, "teardownTimeout" \notin Faults,
         \A i, j \in Ids : NameOf[i] = NameOf[j] => i = j
  PROVE  Spec => []SettledReady
<1>1. SettleInv /\ [Next]_vars => SettleInv'
  BY SettleStep
<1>2. SettleInv => SettledReady
  BY SettledMeans
<1> QED BY <1>1, <1>2, InitSettles, PTL DEF Spec

\* A session at rest that reads READY has its phone column set, and one with a phone column has its
\* credentials on disk, so that boot starts no session whose profile a logout has removed.
THEOREM PhoneSettledHolds ==
  ASSUME Ordered, "lost" \notin Faults, "initError" \notin Faults, "teardownTimeout" \notin Faults,
         \A i, j \in Ids : NameOf[i] = NameOf[j] => i = j
  PROVE  Spec => []PhoneSettled
<1>1. SettleInv /\ [Next]_vars => SettleInv'
  BY SettleStep
<1>2. SettleInv => PhoneSettled
  BY SettledMeans
<1> QED BY <1>1, <1>2, InitSettles, PTL DEF Spec

=============================================================================
