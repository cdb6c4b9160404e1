----------------------------- MODULE MessageRows -----------------------------
(***************************************************************************)
(* The stored rows of WhatsApp messages (modules/message/message.service,  *)
(* pending-message-reaper.service, modules/session/message-projector).     *)
(*                                                                         *)
(* A REST send saves its own row PENDING, hands the message to the engine  *)
(* and writes the outcome.  The engine also reports every message of the   *)
(* account: the handler of that echo inserts a row of its own.  The unique *)
(* key (sessionId, waMessageId) decides who came first; the loser merges   *)
(* or gives way.  Receipts and reactions change whichever row carries the  *)
(* id, the reaper fails the rows of sends that died, and the session may   *)
(* be deleted meanwhile.  The text of a message is left out.               *)
(*                                                                         *)
(* One action is the code between two awaits.  The "own" row of a message  *)
(* is the one saved by the send, its "echo" row the one inserted by an     *)
(* engine event or by the history sync.                                    *)
(***************************************************************************)
EXTENDS Naturals

CONSTANTS
  Messages,     \* messages of one session
  Kinds,        \* who creates them
  Acks,         \* the delivery receipts that arrive, each at most once
  Reactions,    \* may somebody react to a message?
  MaxFaults,    \* bound: how often something in Faults happens
  Faults        \* the failures of this instance

AllKinds == {"api", "bulk", "phone", "inbound"}
AllFaults == {"crash", "db", "noId", "lateReject", "delete"}
\* The engine reports each message; an inbound one perhaps twice (#464); the history may bring it too.
Handlers == {"event", "again", "history"}
Files == {"payload", "marker", "stripped"}

ASSUME RowsAssumption ==
  /\ Kinds \subseteq AllKinds
  /\ Acks \subseteq {"DELIVERED", "READ", "FAILED"}
  /\ Reactions \in BOOLEAN
  /\ MaxFaults \in Nat /\ Faults \subseteq AllFaults

VARIABLES
  kind,         \* who creates the message: a REST call, a batch, the phone, or the other side
  session,      \* "live", "retired" (its engine is no longer registered) or "deleted"
  row,          \* the rows of the messages table
  old,          \* the own row is older than the reaper's grace period
  pc,           \* the await each send is at
  out,          \* WhatsApp has the message
  result,       \* what engine.send... returned: "none", "id", "noId" or "rejected"
  handler,      \* the await each engine event of a message is at
  ack,          \* the await each receipt is at
  reaction,     \* the await a reaction to the message is at, or the media it has read
  found,        \* the rows that the sweep has read and not yet reaped
  copy,         \* the last state of a row that message:persisted told the plugins
  dispatched,   \* how often the webhooks got the message
  faults,       \* how many failures have happened
  gap           \* (history) the known ways the message got into trouble

vars == <<kind, session, row, old, pc, out, result, handler, ack, reaction, found, copy,
          dispatched, faults, gap>>
sending == <<pc, out, result>>
receiving == <<handler, dispatched>>
reaping == <<old, found>>

Rows == Messages \X {"own", "echo"}
Own(m) == <<m, "own">>
Echo(m) == <<m, "echo">>
NoRow == [status |-> "absent", id |-> FALSE, media |-> "none"]
NewRow(s, hasId, file) == [NoRow EXCEPT !.status = s, !.id = hasId, !.media = file]
Present(r) == row[r].status # "absent"
\* The row an UPDATE by (sessionId, waMessageId) finds: the unique key allows one.
Carriers(m) == {r \in {Own(m), Echo(m)} : Present(r) /\ row[r].id}

\* The send's own row cannot take the id: the engine told it, and another row has it.
Conflict(m) == result[m] = "id" /\ Carriers(m) # {}

Statuses == {"PENDING", "SENT", "DELIVERED", "READ", "FAILED"}
Gaps == {"crash", "db", "noId", "lateReject", "back", "react"}

Init ==
  /\ kind \in [Messages -> Kinds]
  /\ session = "live"
  /\ row = [r \in Rows |-> NoRow]
  /\ old = [m \in Messages |-> FALSE]
  /\ pc = [m \in Messages |-> "idle"]
  /\ out = [m \in Messages |-> FALSE]
  /\ result = [m \in Messages |-> "none"]
  /\ handler = [m \in Messages |-> [f \in Handlers |-> "idle"]]
  /\ ack = [m \in Messages |-> [k \in Acks |-> "none"]]
  /\ reaction = [m \in Messages |-> "none"]
  /\ found = {}
  /\ copy = [r \in Rows |-> "none"]
  /\ dispatched = [m \in Messages |-> 0]
  /\ faults = 0
  /\ gap = [m \in Messages |-> {}]

-----------------------------------------------------------------------------
(* What the steps share *)

Spend(f) == f \in Faults /\ faults < MaxFaults /\ faults' = faults + 1
Note(m, g) == gap' = [gap EXCEPT ![m] = @ \cup {g}]
\* A database call throws, and the caller goes on without it.
Throws(m) == Spend("db") /\ Note(m, "db")

Goto(m, l) == pc' = [pc EXCEPT ![m] = l]
Emit(r, s) == copy' = [copy EXCEPT ![r] = s]

\* save() of the send's own entity: the row is updated by its primary key, or inserted if it is gone.
SaveOwn(m, new) ==
  /\ row' = [row EXCEPT ![Own(m)] = new]
  /\ IF session = "deleted" THEN Note(m, "back") ELSE UNCHANGED gap
  /\ Emit(Own(m), new.status)

-----------------------------------------------------------------------------
(* MessageService: a send *)

\* The gate, and the engine must be there.  A REST send stores its row first, a batch sends first.
Send(m) ==
  /\ kind[m] \in {"api", "bulk"} /\ pc[m] = "idle" /\ session = "live"
  /\ Goto(m, IF kind[m] = "api" THEN "find" ELSE "engine")
  /\ UNCHANGED <<kind, session, row, reaping, out, result, receiving, ack, reaction, copy, faults, gap>>

\* saveOutgoingMessage: read the session, ...
FindSession(m) ==
  /\ pc[m] = "find"
  /\ \/ Goto(m, IF session = "deleted" THEN "done" ELSE "save") /\ UNCHANGED <<faults, gap>>
     \/ Goto(m, "done") /\ Throws(m)
  /\ UNCHANGED <<kind, session, row, reaping, out, result, receiving, ack, reaction, copy>>

\* ... then insert.  A batch has the id already: its insert may lose to the echo's, and then it is
\* dropped with a warning.
SaveOutgoing(m) ==
  LET hasId == result[m] = "id" IN
  /\ pc[m] = "save"
  /\ \/ /\ ~Conflict(m)
        /\ SaveOwn(m, NewRow(IF kind[m] = "api" THEN "PENDING" ELSE "SENT", hasId, "payload"))
        /\ Goto(m, IF kind[m] = "api" THEN "engine" ELSE "done")
        /\ UNCHANGED faults
     \/ /\ Conflict(m)
        /\ Goto(m, "done") /\ UNCHANGED <<row, copy, faults, gap>>
     \/ Goto(m, "done") /\ Throws(m) /\ UNCHANGED <<row, copy>>
  /\ UNCHANGED <<kind, session, reaping, out, result, receiving, ack, reaction>>

\* WhatsApp gets the message: at some time while the engine's call is pending, ...
Transmit(m) ==
  /\ ~out[m]
  /\ IF kind[m] \in {"api", "bulk"} THEN pc[m] = "engine" ELSE session = "live"
  /\ out' = [out EXCEPT ![m] = TRUE]
  /\ UNCHANGED <<kind, session, row, reaping, pc, result, receiving, ack, reaction, copy, faults, gap>>

\* ... whose promise resolves, with the id or without, ...
Accepted(m) ==
  /\ pc[m] = "engine" /\ out[m]
  /\ \/ result' = [result EXCEPT ![m] = "id"] /\ UNCHANGED <<faults, gap>>
     \/ result' = [result EXCEPT ![m] = "noId"] /\ Spend("noId") /\ Note(m, "noId")
  /\ Goto(m, IF kind[m] = "api" THEN "persist" ELSE "find")
  /\ UNCHANGED <<kind, session, row, reaping, out, receiving, ack, reaction, copy>>

\* ... or rejects, sometimes although the message went out.
Rejected(m) ==
  /\ pc[m] = "engine"
  /\ IF out[m] THEN Spend("lateReject") /\ Note(m, "lateReject") ELSE UNCHANGED <<faults, gap>>
  /\ result' = [result EXCEPT ![m] = "rejected"]
  /\ Goto(m, IF kind[m] = "api" THEN "fail" ELSE "done")
  /\ UNCHANGED <<kind, session, row, reaping, out, receiving, ack, reaction, copy>>

\* saveFailedMessage: the payload is dropped.
SaveFailedMessage(m) ==
  /\ pc[m] = "fail" /\ Goto(m, "done")
  /\ \/ SaveOwn(m, NewRow("FAILED", FALSE, "stripped")) /\ UNCHANGED faults
     \/ Throws(m) /\ UNCHANGED <<row, copy>>
  /\ UNCHANGED <<kind, session, reaping, out, result, receiving, ack, reaction>>

\* persistSentState: save the id and SENT, unless a row with that id exists.
PersistSentState(m) ==
  LET hasId == result[m] = "id" IN
  /\ pc[m] = "persist"
  /\ \/ /\ ~Conflict(m)
        /\ SaveOwn(m, NewRow("SENT", hasId, "payload"))
        /\ Goto(m, "done") /\ UNCHANGED faults
     \/ /\ Conflict(m)
        /\ Goto(m, "merge") /\ UNCHANGED <<row, copy, faults, gap>>
     \/ Goto(m, "done") /\ Throws(m) /\ UNCHANGED <<row, copy>>
  /\ UNCHANGED <<kind, session, reaping, out, result, receiving, ack, reaction>>

\* The echo won: write the status and the metadata onto its row, ...
MergedStatusOnly(rec) == [rec EXCEPT !.status = "SENT"]
Merged(rec) == [rec EXCEPT !.status = "SENT", !.media = "payload"]
MergeOntoEcho(m) ==
  /\ pc[m] = "merge" /\ Goto(m, "drop")
  /\ \/ /\ row' = [r \in Rows |-> IF r \in Carriers(m) THEN Merged(row[r]) ELSE row[r]]
        /\ UNCHANGED <<faults, gap>>
     \/ Throws(m) /\ UNCHANGED row
  /\ UNCHANGED <<kind, session, reaping, out, result, receiving, ack, reaction, copy>>

\* ... delete the redundant row, ...
DropOwn(m) ==
  /\ pc[m] = "drop" /\ Goto(m, "reindex")
  /\ \/ row' = [row EXCEPT ![Own(m)] = NoRow] /\ UNCHANGED <<faults, gap>>
     \/ Throws(m) /\ UNCHANGED row
  /\ UNCHANGED <<kind, session, reaping, out, result, receiving, ack, reaction, copy>>

\* ... and tell the plugins of both.
Retold(m) ==
  [r \in Rows |-> IF r = Own(m) THEN "none" ELSE IF r \in Carriers(m) THEN row[r].status ELSE copy[r]]
Reindex(m) ==
  /\ pc[m] = "reindex" /\ Goto(m, "done")
  /\ copy' = Retold(m)
  /\ UNCHANGED <<kind, session, row, reaping, out, result, receiving, ack, reaction, faults, gap>>

-----------------------------------------------------------------------------
(* MessageProjector: what the engine reports.  An event of a retired engine is dropped. *)

Reach(m, f, l) == handler' = [handler EXCEPT ![m][f] = l]

\* handleInboundMessage, handleOwnSendEcho, persistHistoryMessages: a hook, or the search for the
\* rows that exist, comes first.
Fire(m, f) ==
  /\ out[m] /\ session = "live" /\ handler[m][f] = "idle" /\ (f = "again" => kind[m] = "inbound")
  /\ Reach(m, f, "hook")
  /\ UNCHANGED <<kind, session, row, reaping, sending, ack, reaction, copy, dispatched, faults, gap>>

StillLiveUnchecked(f) == TRUE
StillLive(f) == session = "live" \/ f = "history"
\* An echo is dispatched whoever won, an inbound message only by the winner, the history never.
AfterInsertAnyway(m, f, won) == IF f = "history" THEN "done" ELSE "dispatch"
AfterInsert(m, f, won) ==
  IF f = "history" \/ (kind[m] = "inbound" /\ ~won) THEN "done" ELSE "dispatch"

\* The insert is the dedup oracle; after a database error it counts as won.
Insert(m, f) ==
  LET file == IF kind[m] = "inbound" /\ f # "history" THEN "payload" ELSE "marker"
      won  == Carriers(m) = {} IN
  /\ handler[m][f] = "hook" /\ StillLive(f)
  /\ \/ /\ row' = IF won THEN [row EXCEPT ![Echo(m)] = NewRow("SENT", TRUE, file)] ELSE row
        /\ IF won /\ session = "deleted" /\ f = "history" THEN Note(m, "back") ELSE UNCHANGED gap
        /\ IF won /\ f # "history" THEN Emit(Echo(m), "SENT") ELSE UNCHANGED copy
        /\ Reach(m, f, AfterInsert(m, f, won))
        /\ UNCHANGED faults
     \/ /\ Throws(m) /\ UNCHANGED <<row, copy>>
        /\ Reach(m, f, AfterInsert(m, f, TRUE))
  /\ UNCHANGED <<kind, session, reaping, sending, ack, reaction, dispatched>>

Abandon(m, f) ==
  /\ handler[m][f] = "hook" /\ ~StillLive(f)
  /\ Reach(m, f, "done")
  /\ UNCHANGED <<kind, session, row, reaping, sending, ack, reaction, copy, dispatched, faults, gap>>

Dispatch(m, f) ==
  /\ handler[m][f] = "dispatch"
  /\ Reach(m, f, "done")
  /\ dispatched' = [dispatched EXCEPT ![m] = @ + 1]
  /\ UNCHANGED <<kind, session, row, reaping, sending, ack, reaction, copy, faults, gap>>

\* handleMessageAck: one guarded UPDATE by id, ...
AckStatusTransitionFrom(k) == IF k = "READ" THEN {"PENDING", "SENT", "DELIVERED"} ELSE {"PENDING", "SENT"}
AckStatusTransitionFromAny(k) == Statuses
Advances(m, k) == {r \in Carriers(m) : row[r].status \in AckStatusTransitionFrom(k)}
AckTo(m, k, l) == ack' = [ack EXCEPT ![m][k] = l]

AckArrives(m, k) ==
  /\ out[m] /\ session = "live" /\ ack[m][k] = "none"
  /\ AckTo(m, k, "first")
  /\ UNCHANGED <<kind, session, row, reaping, sending, receiving, reaction, copy, faults, gap>>

\* ... and one more after 750 ms if no row matched.
AckAgain(l) == IF l = "first" THEN "retry" ELSE "done"
AckNever(l) == "done"
AckWrites(m, k) ==
  /\ ack[m][k] \in {"first", "retry"}
  /\ \/ /\ row' = [r \in Rows |-> IF r \in Advances(m, k) THEN [row[r] EXCEPT !.status = k] ELSE row[r]]
        /\ AckTo(m, k, IF Advances(m, k) = {} THEN AckAgain(ack[m][k]) ELSE "done")
        /\ UNCHANGED <<faults, gap>>
     \/ AckTo(m, k, "done") /\ Throws(m) /\ UNCHANGED row
  /\ UNCHANGED <<kind, session, reaping, sending, receiving, reaction, copy>>

\* Reactions wait in the message's chain (KeyedMutationQueue): one at a time.
React(m) ==
  /\ out[m] /\ session = "live" /\ reaction[m] = "none" /\ Reactions
  /\ reaction' = [reaction EXCEPT ![m] = "queued"]
  /\ UNCHANGED <<kind, session, row, reaping, sending, receiving, ack, copy, faults, gap>>

\* applyReaction reads the row's metadata, ...
ReadReactions(m) ==
  /\ reaction[m] = "queued"
  /\ \/ \E r \in Carriers(m) : reaction' = [reaction EXCEPT ![m] = row[r].media] /\ UNCHANGED <<faults, gap>>
     \/ Carriers(m) = {} /\ reaction' = [reaction EXCEPT ![m] = "done"] /\ UNCHANGED <<faults, gap>>
     \/ Throws(m) /\ reaction' = [reaction EXCEPT ![m] = "done"]
  /\ UNCHANGED <<kind, session, row, reaping, sending, receiving, ack, copy>>

\* ... and writes all of it back, over what a merge has put there meanwhile; the status it leaves.
ReactedFullRow(rec, file) == [rec EXCEPT !.media = file, !.status = "SENT"]
Reacted(rec, file) == [rec EXCEPT !.media = file]
WriteReactions(m) ==
  /\ reaction[m] \in Files
  /\ reaction' = [reaction EXCEPT ![m] = "done"]
  /\ \/ /\ row' = [r \in Rows |-> IF r \in Carriers(m) THEN Reacted(row[r], reaction[m]) ELSE row[r]]
        /\ IF \E r \in Carriers(m) : row[r].media # reaction[m] THEN Note(m, "react") ELSE UNCHANGED gap
        /\ UNCHANGED faults
     \/ Throws(m) /\ UNCHANGED row
  /\ UNCHANGED <<kind, session, reaping, sending, receiving, ack, copy>>

-----------------------------------------------------------------------------
(* PendingMessageReaperService *)

\* Time passes: the grace period (60 min) may outlast a send whose engine hangs.
Age(m) ==
  /\ row[Own(m)].status = "PENDING" /\ ~old[m]
  /\ old' = [old EXCEPT ![m] = TRUE]
  /\ UNCHANGED <<kind, session, row, found, sending, receiving, ack, reaction, copy, faults, gap>>

StaleWithId(m) == row[Own(m)].status = "PENDING" /\ old[m] /\ row[Own(m)].id
Stale(m) == row[Own(m)].status = "PENDING" /\ old[m]
\* sweep, one at a time, reads the stale PENDING rows ...
Sweep ==
  /\ found = {}
  /\ found' = {m \in Messages : Stale(m)}
  /\ found' # {}
  /\ UNCHANGED <<kind, session, row, old, sending, receiving, ack, reaction, copy, faults, gap>>

\* ... and fails each that is still PENDING then.
StillPendingUnchecked(m) == Present(Own(m))
StillPending(m) == row[Own(m)].status = "PENDING"
ReapRow(m) ==
  /\ m \in found /\ found' = found \ {m}
  /\ \/ /\ StillPending(m)
        /\ row' = [row EXCEPT ![Own(m)].status = "FAILED", ![Own(m)].media = "stripped"]
        /\ Emit(Own(m), "FAILED") /\ UNCHANGED <<faults, gap>>
     \/ ~StillPending(m) /\ UNCHANGED <<row, copy, faults, gap>>
     \/ Throws(m) /\ UNCHANGED <<row, copy>>
  /\ UNCHANGED <<kind, session, old, sending, receiving, ack, reaction>>

-----------------------------------------------------------------------------
(* The session and the process *)

\* delete(): the engine is retired, then one transaction removes the rows and the session.
Retire ==
  /\ session = "live" /\ Spend("delete")
  /\ session' = "retired"
  /\ UNCHANGED <<kind, row, reaping, sending, receiving, ack, reaction, copy, gap>>

DeleteRows ==
  /\ session = "retired"
  /\ session' = "deleted"
  /\ row' = [r \in Rows |-> NoRow]
  /\ UNCHANGED <<kind, reaping, sending, receiving, ack, reaction, copy, faults, gap>>

InFlight(m) ==
  \/ pc[m] \notin {"idle", "done"} \/ reaction[m] \notin {"none", "done"}
  \/ \E f \in Handlers : handler[m][f] \notin {"idle", "done"}
  \/ \E k \in Acks : ack[m][k] \in {"first", "retry"}

\* The process dies; the session starts again unless it was deleted.
Crash ==
  /\ Spend("crash")
  /\ session' = IF session = "deleted" THEN "deleted" ELSE "live"
  /\ gap' = [m \in Messages |-> IF InFlight(m) THEN gap[m] \cup {"crash"} ELSE gap[m]]
  /\ pc' = [m \in Messages |-> IF pc[m] = "idle" THEN "idle" ELSE "done"]
  /\ handler' = [m \in Messages |-> [f \in Handlers |-> IF handler[m][f] = "idle" THEN "idle" ELSE "done"]]
  /\ ack' = [m \in Messages |-> [k \in Acks |-> IF ack[m][k] = "none" THEN "none" ELSE "done"]]
  /\ reaction' = [m \in Messages |-> IF reaction[m] = "none" THEN "none" ELSE "done"]
  /\ found' = {}
  /\ UNCHANGED <<kind, row, old, out, result, dispatched, copy>>

-----------------------------------------------------------------------------
(* The specification *)

Continue(m) ==
  \/ FindSession(m) \/ SaveOutgoing(m) \/ SaveFailedMessage(m)
  \/ PersistSentState(m) \/ MergeOntoEcho(m) \/ DropOwn(m) \/ Reindex(m)
Project(m) ==
  \/ \E f \in Handlers : Insert(m, f) \/ Abandon(m, f) \/ Dispatch(m, f)
  \/ \E k \in Acks : AckWrites(m, k)
  \/ ReadReactions(m) \/ WriteReactions(m)
Event(m) ==
  \/ \E f \in Handlers : Fire(m, f)
  \/ \E k \in Acks : AckArrives(m, k)
  \/ React(m)
Reap == Sweep \/ \E m \in Messages : ReapRow(m)

Next ==
  \/ \E m \in Messages :
       Send(m) \/ Continue(m) \/ Transmit(m) \/ Accepted(m) \/ Rejected(m) \/ Event(m) \/ Project(m) \/ Age(m)
  \/ Reap \/ Retire \/ DeleteRows \/ Crash

Spec == Init /\ [][Next]_vars

\* The database answers, timers fire and time passes.  The engine owes nothing: its call may hang.
Fairness ==
  /\ \A m \in Messages : WF_vars(Continue(m)) /\ WF_vars(Project(m)) /\ WF_vars(Age(m))
  /\ WF_vars(Reap)
FairSpec == Spec /\ Fairness

-----------------------------------------------------------------------------
(* Properties *)

RowType ==
  [status : Statuses \cup {"absent"}, id : BOOLEAN, media : Files \cup {"none"}]

\* Types; and the database's own promise, that at most one row of a message carries its id.
TypeOK ==
  /\ kind \in [Messages -> Kinds] /\ session \in {"live", "retired", "deleted"}
  /\ row \in [Rows -> RowType] /\ old \in [Messages -> BOOLEAN] /\ found \subseteq Messages
  /\ pc \in [Messages -> {"idle", "find", "save", "engine", "persist", "fail", "merge", "drop", "reindex", "done"}]
  /\ out \in [Messages -> BOOLEAN] /\ result \in [Messages -> {"none", "id", "noId", "rejected"}]
  /\ handler \in [Messages -> [Handlers -> {"idle", "hook", "dispatch", "done"}]]
  /\ ack \in [Messages -> [Acks -> {"none", "first", "retry", "done"}]]
  /\ reaction \in [Messages -> Files \cup {"none", "queued", "done"}]
  /\ copy \in [Rows -> Statuses \cup {"none"}] /\ dispatched \in [Messages -> Nat]
  /\ faults \in Nat /\ gap \in [Messages -> SUBSET Gaps]
  /\ \A m \in Messages : ~(row[Own(m)].id /\ row[Echo(m)].id)

\* Once nothing of it is in flight, a message whose REST send the engine accepted is shown once, as
\* sent (or as far as a receipt took it), with the payload that was sent: whichever of the send, the
\* echo, the history, the receipts and the reaper came first, and though the send outlasted the
\* reaper's grace.  The known gaps: a crash, a database error, an engine that hides the id, and a
\* reaction that read the row before the merge.
AcceptedIsShown ==
  \A m \in Messages :
    kind[m] = "api" /\ result[m] = "id" /\ session # "deleted" /\ ~InFlight(m) /\ gap[m] = {} =>
      \E r \in {Own(m), Echo(m)} :
        /\ \A s \in {Own(m), Echo(m)} : Present(s) <=> s = r
        /\ row[r].id /\ row[r].media = "payload"
        /\ row[r].status \in {"SENT"} \cup {k \in Acks : ack[m][k] = "done"}

\* Delivery state only advances, in whatever order receipts, reactions, sends and sweeps write: a row
\* that a receipt took to DELIVERED or READ does not go back or fail, and a READ one stays READ.
\* Known gap: the merge of a send onto the row of its echo writes SENT without a guard.
Receded(r) ==
  /\ row[r].status \in {"DELIVERED", "READ"}
  /\ row'[r].status \notin {"absent", "READ"} \cup (IF row[r].status = "READ" THEN {} ELSE {"DELIVERED"})
StatusAdvances ==
  [][\A m \in Messages : \A r \in {Own(m), Echo(m)} : Receded(r) => pc[m] = "merge" /\ pc'[m] = "drop"]_vars

\* A row saved before its send does not stay PENDING for ever: wherever the process dies, and
\* however long the engine hangs, the send or the reaper gives it an outcome.
PendingResolves == \A m \in Messages : row[Own(m)].status = "PENDING" ~> row[Own(m)].status # "PENDING"

\* The engine may report an inbound message again and the history may bring it too: the webhooks get
\* it once, unless the database failed to say whether it is new.
InboundOnce ==
  \A m \in Messages : kind[m] = "inbound" /\ "db" \notin gap[m] => dispatched[m] <= 1

\* A deleted session leaves no rows behind: a handler that was waiting for a hook does not insert its
\* row after the delete.  Known gap: a send, or a history sync, that was in flight puts its row back.
NoOrphanRows ==
  session = "deleted" => \A m \in Messages : (\E r \in {Own(m), Echo(m)} : Present(r)) => "back" \in gap[m]

\* The plugins' copy of an own row does not stay at PENDING (#906): once the send is over and no
\* sweep holds the row, the copy is PENDING only while the row is.
CopySettles ==
  \A m \in Messages :
    copy[Own(m)] = "PENDING" /\ ~InFlight(m) /\ session # "deleted" /\ "crash" \notin gap[m] =>
      row[Own(m)].status = "PENDING"
=============================================================================
