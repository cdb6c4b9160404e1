-------------------------- MODULE MessageRowsProofs --------------------------
(***************************************************************************)
(* What MessageRows promises, proved for every number of messages, any     *)
(* receipts and any number of failures of any kind.                        *)
(*                                                                         *)
(* The invariant MsgInv(m) speaks of one message: a step of another        *)
(* message leaves it alone (ApartKeeps), so each action is looked at for   *)
(* the message it works on only.                                           *)
(***************************************************************************)
EXTENDS MessageRows, TLAPS

Awaits == {"idle", "find", "save", "engine", "persist", "fail", "merge", "drop", "reindex", "done"}

\* TypeOK without what it says of ids, which Shape says.
Types ==
  /\ kind \in [Messages -> Kinds] /\ session \in {"live", "retired", "deleted"}
  /\ row \in [Rows -> RowType] /\ old \in [Messages -> BOOLEAN] /\ found \subseteq Messages
  /\ pc \in [Messages -> Awaits]
  /\ out \in [Messages -> BOOLEAN] /\ result \in [Messages -> {"none", "id", "noId", "rejected"}]
  /\ handler \in [Messages -> [Handlers -> {"idle", "hook", "dispatch", "done"}]]
  /\ ack \in [Messages -> [Acks -> {"none", "first", "retry", "done"}]]
  /\ reaction \in [Messages -> Files \cup {"none", "queued", "done"}]
  /\ copy \in [Rows -> Statuses \cup {"none"}] /\ dispatched \in [Messages -> Nat]
  /\ faults \in Nat /\ gap \in [Messages -> SUBSET Gaps]

\* The two rows of a message.
O(m) == row[Own(m)]
X(m) == row[Echo(m)]

\* The receipts that are over.
Done(m) == {k \in Acks : ack[m][k] = "done"}

\* The own row gets the id only from the send, and only when no other row has it; a row of an engine
\* event always has it.
Shape(m) ==
  /\ ~(O(m).id /\ X(m).id)
  /\ O(m).status \in {"absent", "PENDING"} => ~O(m).id
  /\ X(m).status = "absent" <=> ~X(m).id
  /\ pc[m] \in {"idle", "find", "save"} \/ (pc[m] = "engine" /\ kind[m] = "bulk") => O(m).status = "absent"
  /\ pc[m] \in {"engine", "persist", "fail", "merge", "drop"} =>
       ~O(m).id /\ O(m).status \in {"absent", "PENDING", "FAILED"}
  /\ pc[m] \in {"persist", "fail", "merge", "drop", "reindex"} => kind[m] = "api"
  /\ kind[m] \notin {"api", "bulk"} => pc[m] = "idle"

\* Rows of a deleted session are the known gap.
Orphans(m) ==
  session = "deleted" /\ (O(m).status # "absent" \/ X(m).status # "absent") => "back" \in gap[m]

\* An inbound message is dispatched by the one handler that inserted its row, and the row stays.
Inbound(m) ==
  kind[m] = "inbound" /\ "db" \notin gap[m] =>
    /\ handler[m]["history"] # "dispatch"
    /\ ~(handler[m]["event"] = "dispatch" /\ handler[m]["again"] = "dispatch")
    /\ dispatched[m] \in {0, 1}
    /\ dispatched[m] = 1 => handler[m]["event"] # "dispatch" /\ handler[m]["again"] # "dispatch"
    /\ dispatched[m] = 1 \/ handler[m]["event"] = "dispatch" \/ handler[m]["again"] = "dispatch" =>
         session = "deleted" \/ X(m).status # "absent"

\* The copy lags behind the own row only while the send still has to tell of the dropped row.
Copied(m) ==
  /\ copy[Own(m)] = "PENDING" /\ session # "deleted" /\ "crash" \notin gap[m] =>
       O(m).status = "PENDING" \/ pc[m] = "reindex"
  /\ O(m).id => copy[Own(m)] # "PENDING"

\* Where the rows of an accepted REST send are, await by await.
Shown(m) ==
  /\ X(m).status \in {"absent", "SENT"} \cup Done(m)
  /\ O(m).id => O(m).status \in {"SENT"} \cup Done(m)
  /\ kind[m] = "api" /\ pc[m] \in {"idle", "find", "save", "engine"} => result[m] = "none"
  /\ pc[m] \in {"merge", "drop", "reindex"} => result[m] = "id"
  /\ pc[m] = "fail" => result[m] = "rejected"
  /\ kind[m] = "api" /\ session # "deleted" /\ gap[m] = {} =>
       /\ pc[m] \in {"engine", "persist", "fail", "merge", "drop"} => O(m).status # "absent"
       /\ pc[m] \in {"merge", "drop", "reindex"} => X(m).status # "absent"
       /\ pc[m] \in {"drop", "reindex"} => X(m).media = "payload"
       /\ pc[m] = "reindex" => O(m).status = "absent"
       /\ pc[m] = "done" /\ result[m] = "id" =>
            \/ O(m).id /\ O(m).media = "payload" /\ X(m).status = "absent"
            \/ O(m).status = "absent" /\ X(m).status # "absent" /\ X(m).media = "payload"

MsgInv(m) == Shape(m) /\ Orphans(m) /\ Inbound(m) /\ Copied(m) /\ Shown(m)
RowsInv == Types /\ \A m \in Messages : MsgInv(m)

-----------------------------------------------------------------------------
(* Rows and frames *)

LEMMA RowFacts ==
  /\ \A m \in Messages : Own(m) \in Rows /\ Echo(m) \in Rows
  /\ \A m, n \in Messages : Own(m) # Echo(n) /\ (Own(m) = Own(n) => m = n) /\ (Echo(m) = Echo(n) => m = n)
  /\ \A r \in Rows : \E m \in Messages : r = Own(m) \/ r = Echo(m)
BY DEF Rows, Own, Echo

\* The rows that carry the id, in terms of the two.
LEMMA CarrierFacts ==
  ASSUME Types, NEW m \in Messages, Shape(m)
  PROVE  Carriers(m) = IF O(m).id THEN {Own(m)} ELSE IF X(m).id THEN {Echo(m)} ELSE {}
BY DEF Carriers, Present, Shape, O, X

\* A step that changes nothing of the other messages.
Apart(m) ==
  /\ kind' = kind /\ (session' = "deleted" <=> session = "deleted")
  /\ \A n \in Messages \ {m} :
       /\ O(n)' = O(n) /\ X(n)' = X(n) /\ copy'[Own(n)] = copy[Own(n)]
       /\ pc'[n] = pc[n] /\ result'[n] = result[n] /\ handler'[n] = handler[n] /\ ack'[n] = ack[n]
       /\ dispatched'[n] = dispatched[n] /\ gap'[n] = gap[n]

LEMMA ApartKeeps ==
  ASSUME RowsInv, NEW m \in Messages, Apart(m), Types', MsgInv(m)'
  PROVE  RowsInv'
<1>1. ASSUME NEW n \in Messages, n # m
      PROVE  MsgInv(n)'
  <2>1. MsgInv(n)
    BY DEF RowsInv
  <2>2. /\ O(n)' = O(n) /\ X(n)' = X(n) /\ copy'[Own(n)] = copy[Own(n)]
        /\ pc'[n] = pc[n] /\ result'[n] = result[n] /\ handler'[n] = handler[n] /\ ack'[n] = ack[n]
        /\ dispatched'[n] = dispatched[n] /\ gap'[n] = gap[n] /\ kind'[n] = kind[n]
        /\ (session' = "deleted" <=> session = "deleted")
    BY <1>1 DEF Apart
  <2>3. Done(n)' = Done(n)
    BY <2>2 DEF Done
  <2>4. Shape(n)' /\ Orphans(n)' /\ Inbound(n)' /\ Copied(n)'
    BY <2>1, <2>2 DEF MsgInv, Shape, Orphans, Inbound, Copied
  <2>5. Shown(n)'
    BY <2>1, <2>2, <2>3 DEF MsgInv, Shown
  <2> QED BY <2>4, <2>5 DEF MsgInv
<1> QED BY <1>1 DEF RowsInv

LEMMA GapFacts ==
  ASSUME Types, NEW m \in Messages, gap' = gap \/ \E g \in Gaps : Note(m, g)
  PROVE  /\ gap' \in [Messages -> SUBSET Gaps]
         /\ \A n \in Messages : n # m => gap'[n] = gap[n]
         /\ gap[m] \subseteq gap'[m]
<1>1. CASE gap' = gap
  BY <1>1 DEF Types
<1>2. ASSUME NEW g \in Gaps, Note(m, g)
      PROVE  /\ gap' \in [Messages -> SUBSET Gaps]
             /\ \A n \in Messages : n # m => gap'[n] = gap[n]
             /\ gap[m] \subseteq gap'[m]
  <2>1. gap' = [gap EXCEPT ![m] = gap[m] \cup {g}] /\ gap \in [Messages -> SUBSET Gaps]
    BY <1>2 DEF Note, Types
  <2> QED BY <2>1
<1> QED BY <1>1, <1>2

\* A failed database call is noted as one; every failure is counted.
LEMMA ThrowsFacts ==
  ASSUME Types, NEW m \in Messages, Throws(m)
  PROVE  /\ faults' \in Nat /\ gap' \in [Messages -> SUBSET Gaps] /\ "db" \in gap'[m]
         /\ \A n \in Messages : n # m => gap'[n] = gap[n]
         /\ gap[m] \subseteq gap'[m]
<1>1. "db" \in Gaps /\ Note(m, "db") /\ faults' = faults + 1 /\ faults \in Nat
  BY DEF Throws, Spend, Gaps, Types
<1>2. gap' = [gap EXCEPT ![m] = gap[m] \cup {"db"}] /\ gap \in [Messages -> SUBSET Gaps]
  BY <1>1 DEF Note, Types
<1> QED BY <1>1, <1>2, GapFacts

-----------------------------------------------------------------------------
(* The steps of a send *)

\* Steps that change no row: what the send's await and result may become.
LEMMA SendKeeps ==
  ASSUME RowsInv, NEW m \in Messages, Send(m) \/ Transmit(m)
  PROVE  RowsInv'
<1>1. Types /\ MsgInv(m)
  BY DEF RowsInv
<1>2. Types'
  BY <1>1 DEF Types, Awaits, Send, Transmit, Goto, reaping, receiving, Own, Echo
<1>3. Apart(m)
  BY <1>1 DEF Apart, Send, Transmit, Goto, reaping, receiving, O, X, Types
<1>4. MsgInv(m)'
  <2>1. CASE Transmit(m)
    BY <1>1, <2>1 DEF Transmit, MsgInv, Shape, Orphans, Inbound, Copied, Shown, Done, O, X, reaping, receiving
  <2>2. CASE Send(m)
    <3>1. /\ pc[m] = "idle" /\ pc'[m] = (IF kind[m] = "api" THEN "find" ELSE "engine")
          /\ kind[m] \in {"api", "bulk"}
      BY <1>1, <2>2 DEF Send, Goto, Types
    <3>2. /\ O(m)' = O(m) /\ X(m)' = X(m) /\ copy' = copy /\ kind' = kind /\ session' = session /\ gap' = gap
          /\ result' = result /\ handler' = handler /\ dispatched' = dispatched /\ Done(m)' = Done(m)
      BY <2>2 DEF Send, O, X, receiving, Done
    <3> QED BY <1>1, <3>1, <3>2 DEF MsgInv, Shape, Orphans, Inbound, Copied, Shown
  <2> QED BY <2>1, <2>2
<1> QED BY <1>2, <1>3, <1>4, ApartKeeps

LEMMA FindSessionKeeps ==
  ASSUME RowsInv, NEW m \in Messages, FindSession(m)
  PROVE  RowsInv'
<1>1. Types /\ MsgInv(m)
  BY DEF RowsInv
<1>2. /\ pc[m] = "find" /\ pc' \in [Messages -> Awaits] /\ \A n \in Messages : n # m => pc'[n] = pc[n]
      /\ \/ pc'[m] = (IF session = "deleted" THEN "done" ELSE "save") /\ gap' = gap /\ faults' = faults
         \/ pc'[m] = "done" /\ Throws(m)
      /\ kind' = kind /\ session' = session /\ row' = row /\ old' = old /\ found' = found /\ out' = out
      /\ result' = result /\ handler' = handler /\ dispatched' = dispatched /\ ack' = ack
      /\ reaction' = reaction /\ copy' = copy
  BY <1>1 DEF FindSession, Goto, Types, Awaits, reaping, receiving
<1>3. /\ faults' \in Nat /\ gap' \in [Messages -> SUBSET Gaps]
      /\ \A n \in Messages : n # m => gap'[n] = gap[n]
      /\ gap'[m] = gap[m] \/ ("db" \in gap'[m] /\ gap[m] \subseteq gap'[m])
  BY <1>1, <1>2, ThrowsFacts DEF Types
<1>4. Types'
  BY <1>1, <1>2, <1>3 DEF Types
<1>5. Apart(m)
  BY <1>1, <1>2, <1>3 DEF Apart, O, X, Types
<1>6. O(m)' = O(m) /\ X(m)' = X(m) /\ Done(m)' = Done(m)
  BY <1>2 DEF O, X, Done
<1>7. MsgInv(m)'
  BY <1>1, <1>2, <1>3, <1>6 DEF MsgInv, Shape, Orphans, Inbound, Copied, Shown
<1> QED BY <1>4, <1>5, <1>7, ApartKeeps

LEMMA AnsweredKeeps ==
  ASSUME RowsInv, NEW m \in Messages, Accepted(m) \/ Rejected(m)
  PROVE  RowsInv'
<1>1. Types /\ MsgInv(m)
  BY DEF RowsInv
<1>2. /\ pc[m] = "engine" /\ faults' \in Nat /\ (gap' = gap \/ \E g \in Gaps : Note(m, g))
      /\ kind' = kind /\ session' = session /\ row' = row /\ old' = old /\ found' = found /\ out' = out
      /\ handler' = handler /\ dispatched' = dispatched /\ ack' = ack /\ reaction' = reaction /\ copy' = copy
  BY <1>1 DEF Accepted, Rejected, Types, reaping, receiving, Spend, Gaps
<1>2a. PICK l \in Awaits, s \in {"id", "noId", "rejected"} :
        /\ pc' = [pc EXCEPT ![m] = l] /\ result' = [result EXCEPT ![m] = s]
        /\ l = IF s = "rejected" THEN (IF kind[m] = "api" THEN "fail" ELSE "done")
               ELSE IF kind[m] = "api" THEN "persist" ELSE "find"
  <2>1. CASE Accepted(m)
    BY <2>1 DEF Accepted, Goto, Awaits
  <2>2. CASE Rejected(m)
    BY <2>2 DEF Rejected, Goto, Awaits
  <2> QED BY <2>1, <2>2
<1>2b. /\ pc' \in [Messages -> Awaits] /\ pc'[m] = l /\ \A n \in Messages : n # m => pc'[n] = pc[n]
       /\ result' \in [Messages -> {"none", "id", "noId", "rejected"}] /\ result'[m] = s
       /\ \A n \in Messages : n # m => result'[n] = result[n]
  BY <1>1, <1>2a DEF Types
<1>3. /\ gap' \in [Messages -> SUBSET Gaps]
      /\ \A n \in Messages : n # m => gap'[n] = gap[n]
      /\ gap[m] \subseteq gap'[m]
  BY <1>1, <1>2, GapFacts
<1>4. Types'
  BY <1>1, <1>2, <1>2a, <1>2b, <1>3 DEF Types
<1>5. Apart(m)
  BY <1>1, <1>2, <1>2a, <1>2b, <1>3 DEF Apart, O, X, Types
<1>6. O(m)' = O(m) /\ X(m)' = X(m) /\ Done(m)' = Done(m)
  BY <1>2 DEF O, X, Done
<1>7. MsgInv(m)'
  BY <1>1, <1>2, <1>2a, <1>2b, <1>3, <1>6 DEF MsgInv, Shape, Orphans, Inbound, Copied, Shown
<1> QED BY <1>4, <1>5, <1>7, ApartKeeps

\* save() of the own row.
LEMMA SaveOwnFacts ==
  ASSUME Types, NEW m \in Messages, NEW rec \in RowType, rec.status # "absent",
         SaveOwn(m, rec), rec.id => ~X(m).id
  PROVE  /\ row' \in [Rows -> RowType] /\ O(m)' = rec /\ X(m)' = X(m)
         /\ \A n \in Messages \ {m} : O(n)' = O(n) /\ X(n)' = X(n) /\ copy'[Own(n)] = copy[Own(n)]
         /\ copy' \in [Rows -> Statuses \cup {"none"}] /\ copy'[Own(m)] = rec.status
         /\ gap' \in [Messages -> SUBSET Gaps] /\ gap[m] \subseteq gap'[m]
         /\ \A n \in Messages : n # m => gap'[n] = gap[n]
         /\ session = "deleted" => "back" \in gap'[m]
         /\ session # "deleted" => gap'[m] = gap[m]
<1>1. row' = [row EXCEPT ![Own(m)] = rec] /\ copy' = [copy EXCEPT ![Own(m)] = rec.status]
  BY DEF SaveOwn, Emit
<1>2. gap' = IF session = "deleted" THEN [gap EXCEPT ![m] = gap[m] \cup {"back"}] ELSE gap
  BY DEF SaveOwn, Note
<1>3. row \in [Rows -> RowType] /\ copy \in [Rows -> Statuses \cup {"none"}] /\ gap \in [Messages -> SUBSET Gaps]
  BY DEF Types
<1>4. rec.status \in Statuses
  BY DEF RowType
<1>5. row' \in [Rows -> RowType] /\ O(m)' = rec /\ X(m)' = X(m) /\ copy' \in [Rows -> Statuses \cup {"none"}]
      /\ copy'[Own(m)] = rec.status
  BY <1>1, <1>3, <1>4, RowFacts DEF O, X
<1>6. \A n \in Messages \ {m} : O(n)' = O(n) /\ X(n)' = X(n) /\ copy'[Own(n)] = copy[Own(n)]
  BY <1>1, <1>3, RowFacts DEF O, X
<1>7. /\ gap' \in [Messages -> SUBSET Gaps] /\ gap[m] \subseteq gap'[m]
      /\ \A n \in Messages : n # m => gap'[n] = gap[n]
      /\ session = "deleted" => "back" \in gap'[m]
      /\ session # "deleted" => gap'[m] = gap[m]
  <2>1. CASE session = "deleted"
    <3>1. gap' = [gap EXCEPT ![m] = gap[m] \cup {"back"}] /\ "back" \in Gaps
      BY <1>2, <2>1 DEF Gaps
    <3> QED BY <1>3, <2>1, <3>1
  <2>2. CASE session # "deleted"
    BY <1>2, <1>3, <2>2
  <2> QED BY <2>1, <2>2
<1> QED BY <1>5, <1>6, <1>7

\* The three saves of a send, each of which may throw.
LEMMA NewRowType ==
  ASSUME NEW s \in Statuses, NEW hasId \in BOOLEAN, NEW file \in Files
  PROVE  /\ NewRow(s, hasId, file) \in RowType /\ NewRow(s, hasId, file).status = s
         /\ NewRow(s, hasId, file).id = hasId /\ NewRow(s, hasId, file).media = file
BY DEF NewRow, NoRow, RowType

\* A step of the send that writes its own row, or none.
OwnStep(m) ==
  /\ kind' = kind /\ session' = session /\ old' = old /\ found' = found /\ out' = out /\ result' = result
  /\ handler' = handler /\ dispatched' = dispatched /\ ack' = ack /\ reaction' = reaction
  /\ pc' \in [Messages -> Awaits] /\ \A n \in Messages : n # m => pc'[n] = pc[n]

LEMMA OwnStepKeeps ==
  ASSUME RowsInv, NEW m \in Messages, OwnStep(m), NEW rec \in RowType, rec.status # "absent",
         SaveOwn(m, rec), faults' = faults, rec.id => ~X(m).id,
         pc'[m] \in {"engine", "done"}, MsgInv(m)'
  PROVE  RowsInv'
<1>1. Types
  BY DEF RowsInv
<1>2. Types'
  BY <1>1, SaveOwnFacts DEF OwnStep, Types
<1>3. Apart(m)
  BY <1>1, SaveOwnFacts DEF Apart, OwnStep, Types
<1> QED BY <1>2, <1>3, ApartKeeps

\* A step of the send that writes no row because the database threw, or because it lost the race.
LEMMA NoRowStepKeeps ==
  ASSUME RowsInv, NEW m \in Messages, OwnStep(m), row' = row, copy' = copy,
         (gap' = gap /\ faults' = faults) \/ Throws(m), MsgInv(m)'
  PROVE  RowsInv'
<1>1. Types
  BY DEF RowsInv
<1>2. /\ faults' \in Nat /\ gap' \in [Messages -> SUBSET Gaps]
      /\ \A n \in Messages : n # m => gap'[n] = gap[n]
  BY <1>1, ThrowsFacts DEF Types
<1>3. Types' /\ Apart(m)
  BY <1>1, <1>2 DEF OwnStep, Types, Apart, O, X
<1> QED BY <1>3, ApartKeeps

LEMMA SaveOutgoingKeeps ==
  ASSUME RowsInv, NEW m \in Messages, SaveOutgoing(m)
  PROVE  RowsInv'
<1>1. Types /\ MsgInv(m)
  BY DEF RowsInv
<1>2. pc[m] = "save" /\ OwnStep(m)
  BY <1>1 DEF SaveOutgoing, OwnStep, Goto, Types, Awaits, reaping, receiving
<1>3. Done(m)' = Done(m)
  BY <1>2 DEF OwnStep, Done
<1>4. kind[m] \in {"api", "bulk"}
  BY <1>1, <1>2 DEF MsgInv, Shape
<1>5. CASE ~Conflict(m) /\ UNCHANGED faults
            /\ SaveOwn(m, NewRow(IF kind[m] = "api" THEN "PENDING" ELSE "SENT", result[m] = "id", "payload"))
            /\ Goto(m, IF kind[m] = "api" THEN "engine" ELSE "done")
  <2>1. PICK rec \in RowType :
          /\ SaveOwn(m, rec) /\ rec.id = (result[m] = "id") /\ rec.media = "payload"
          /\ rec.status = IF kind[m] = "api" THEN "PENDING" ELSE "SENT"
    BY ZenonT(30), <1>5, NewRowType DEF Statuses, Files
  <2>2. rec.id => ~X(m).id
    <3>1. rec.id => Carriers(m) = {}
      BY <1>5, <2>1 DEF Conflict
    <3>2. Carriers(m) = IF O(m).id THEN {Own(m)} ELSE IF X(m).id THEN {Echo(m)} ELSE {}
      BY <1>1, CarrierFacts DEF MsgInv
    <3> QED BY <3>1, <3>2
  <2>3. pc'[m] = IF kind[m] = "api" THEN "engine" ELSE "done"
    BY <1>1, <1>5 DEF Goto, Types
  <2>4. /\ O(m)' = rec /\ X(m)' = X(m) /\ copy'[Own(m)] = rec.status /\ gap[m] \subseteq gap'[m]
        /\ session = "deleted" => "back" \in gap'[m]
        /\ session # "deleted" => gap'[m] = gap[m]
    BY <1>1, <2>1, <2>2, SaveOwnFacts
  <2>5. MsgInv(m)'
    BY <1>1, <1>2, <1>3, <1>4, <2>1, <2>2, <2>3, <2>4 DEF OwnStep, MsgInv, Shape, Orphans, Inbound, Copied, Shown
  <2> QED BY <1>2, <1>5, <2>1, <2>2, <2>3, <2>5, OwnStepKeeps
<1>6. CASE /\ Goto(m, "done") /\ UNCHANGED <<row, copy>>
           /\ (Conflict(m) /\ UNCHANGED <<faults, gap>>) \/ Throws(m)
  <2>1. pc'[m] = "done" /\ O(m)' = O(m) /\ X(m)' = X(m)
    BY <1>1, <1>6 DEF Goto, Types, O, X
  <2>2. (gap'[m] = gap[m] /\ Conflict(m)) \/ ("db" \in gap'[m] /\ gap[m] \subseteq gap'[m])
    BY <1>1, <1>6, ThrowsFacts
  <2>3. kind[m] = "api" => ~Conflict(m)
    BY <1>1, <1>2 DEF Conflict, MsgInv, Shown
  <2>4. MsgInv(m)'
    BY <1>1, <1>2, <1>3, <1>4, <1>6, <2>1, <2>2, <2>3 DEF OwnStep, MsgInv, Shape, Orphans, Inbound, Copied, Shown
  <2> QED BY <1>2, <1>6, <2>4, NoRowStepKeeps
<1> QED BY <1>5, <1>6 DEF SaveOutgoing

LEMMA SaveFailedMessageKeeps ==
  ASSUME RowsInv, NEW m \in Messages, SaveFailedMessage(m)
  PROVE  RowsInv'
<1>1. Types /\ MsgInv(m)
  BY DEF RowsInv
<1>2. pc[m] = "fail" /\ OwnStep(m) /\ pc'[m] = "done"
  BY <1>1 DEF SaveFailedMessage, OwnStep, Goto, Types, Awaits, reaping, receiving
<1>3. Done(m)' = Done(m)
  BY <1>2 DEF OwnStep, Done
<1>5. CASE SaveOwn(m, NewRow("FAILED", FALSE, "stripped")) /\ UNCHANGED faults
  <2>1. PICK rec \in RowType : SaveOwn(m, rec) /\ rec.id = FALSE /\ rec.status = "FAILED"
    BY <1>5, NewRowType DEF Statuses, Files
  <2>4. /\ O(m)' = rec /\ X(m)' = X(m) /\ copy'[Own(m)] = rec.status /\ gap[m] \subseteq gap'[m]
        /\ session = "deleted" => "back" \in gap'[m]
        /\ session # "deleted" => gap'[m] = gap[m]
    BY <1>1, <2>1, SaveOwnFacts
  <2>5. MsgInv(m)'
    BY <1>1, <1>2, <1>3, <2>1, <2>4 DEF OwnStep, MsgInv, Shape, Orphans, Inbound, Copied, Shown
  <2> QED BY <1>2, <1>5, <2>1, <2>5, OwnStepKeeps
<1>6. CASE Throws(m) /\ UNCHANGED <<row, copy>>
  <2>1. O(m)' = O(m) /\ X(m)' = X(m) /\ "db" \in gap'[m] /\ gap[m] \subseteq gap'[m]
    BY <1>1, <1>6, ThrowsFacts DEF O, X
  <2>4. MsgInv(m)'
    BY <1>1, <1>2, <1>3, <1>6, <2>1 DEF OwnStep, MsgInv, Shape, Orphans, Inbound, Copied, Shown
  <2> QED BY <1>2, <1>6, <2>4, NoRowStepKeeps
<1> QED BY <1>5, <1>6 DEF SaveFailedMessage

LEMMA PersistSentStateKeeps ==
  ASSUME RowsInv, NEW m \in Messages, PersistSentState(m)
  PROVE  RowsInv'
<1>1. Types /\ MsgInv(m)
  BY DEF RowsInv
<1>2. pc[m] = "persist" /\ OwnStep(m)
  BY <1>1 DEF PersistSentState, OwnStep, Goto, Types, Awaits, reaping, receiving
<1>3. Done(m)' = Done(m)
  BY <1>2 DEF OwnStep, Done
<1>5. CASE /\ ~Conflict(m) /\ SaveOwn(m, NewRow("SENT", result[m] = "id", "payload"))
           /\ Goto(m, "done") /\ UNCHANGED faults
  <2>1. PICK rec \in RowType :
          SaveOwn(m, rec) /\ rec.id = (result[m] = "id") /\ rec.media = "payload" /\ rec.status = "SENT"
    BY <1>5, NewRowType DEF Statuses, Files
  <2>2. rec.id => ~X(m).id
    <3>1. rec.id => Carriers(m) = {}
      BY <1>5, <2>1 DEF Conflict
    <3>2. Carriers(m) = IF O(m).id THEN {Own(m)} ELSE IF X(m).id THEN {Echo(m)} ELSE {}
      BY <1>1, CarrierFacts DEF MsgInv
    <3> QED BY <3>1, <3>2
  <2>3. pc'[m] = "done"
    BY <1>1, <1>5 DEF Goto, Types
  <2>4. /\ O(m)' = rec /\ X(m)' = X(m) /\ copy'[Own(m)] = rec.status /\ gap[m] \subseteq gap'[m]
        /\ session = "deleted" => "back" \in gap'[m]
        /\ session # "deleted" => gap'[m] = gap[m]
    BY <1>1, <2>1, <2>2, SaveOwnFacts
  <2>5. MsgInv(m)'
    BY <1>1, <1>2, <1>3, <2>1, <2>2, <2>3, <2>4 DEF OwnStep, MsgInv, Shape, Orphans, Inbound, Copied, Shown
  <2> QED BY <1>2, <1>5, <2>1, <2>2, <2>3, <2>5, OwnStepKeeps
<1>6. CASE Conflict(m) /\ Goto(m, "merge") /\ UNCHANGED <<row, copy, faults, gap>>
  <2>1. pc'[m] = "merge" /\ O(m)' = O(m) /\ X(m)' = X(m) /\ result[m] = "id"
    BY <1>1, <1>6 DEF Goto, Types, O, X, Conflict
  <2>2. X(m).id
    BY <1>1, <1>2, <1>6, CarrierFacts DEF Conflict, MsgInv, Shape
  <2>4. MsgInv(m)'
    BY <1>1, <1>2, <1>3, <1>6, <2>1, <2>2 DEF OwnStep, MsgInv, Shape, Orphans, Inbound, Copied, Shown
  <2> QED BY <1>2, <1>6, <2>4, NoRowStepKeeps
<1>7. CASE Goto(m, "done") /\ Throws(m) /\ UNCHANGED <<row, copy>>
  <2>1. /\ pc'[m] = "done" /\ O(m)' = O(m) /\ X(m)' = X(m)
        /\ "db" \in gap'[m] /\ gap[m] \subseteq gap'[m]
    BY <1>1, <1>7, ThrowsFacts DEF O, X, Goto, Types
  <2>4. MsgInv(m)'
    BY <1>1, <1>2, <1>3, <1>7, <2>1 DEF OwnStep, MsgInv, Shape, Orphans, Inbound, Copied, Shown
  <2> QED BY <1>2, <1>7, <2>4, NoRowStepKeeps
<1> QED BY <1>5, <1>6, <1>7 DEF PersistSentState

\* Changing only the row of the echo.
LEMMA EchoFacts ==
  ASSUME Types, NEW m \in Messages, NEW rec \in RowType, row' = [row EXCEPT ![Echo(m)] = rec]
  PROVE  /\ row' \in [Rows -> RowType] /\ O(m)' = O(m) /\ X(m)' = rec
         /\ \A n \in Messages \ {m} : O(n)' = O(n) /\ X(n)' = X(n)
BY RowFacts DEF Types, O, X

\* Changing only rows that carry the id: at most one.
LEMMA CarriersOnly ==
  ASSUME Types, NEW m \in Messages, Shape(m), row' \in [Rows -> RowType],
         \A r \in Rows \ Carriers(m) : row'[r] = row[r]
  PROVE  /\ ~O(m).id => O(m)' = O(m)
         /\ O(m).id \/ ~X(m).id => X(m)' = X(m)
         /\ \A n \in Messages \ {m} : O(n)' = O(n) /\ X(n)' = X(n)
<1>1. Carriers(m) = IF O(m).id THEN {Own(m)} ELSE IF X(m).id THEN {Echo(m)} ELSE {}
  BY CarrierFacts
<1> QED BY <1>1, RowFacts DEF O, X

LEMMA MergeOntoEchoKeeps ==
  ASSUME RowsInv, NEW m \in Messages, MergeOntoEcho(m)
  PROVE  RowsInv'
<1>1. Types /\ MsgInv(m) /\ Shape(m)
  BY DEF RowsInv, MsgInv
<1>2. pc[m] = "merge" /\ pc'[m] = "drop" /\ OwnStep(m) /\ copy' = copy
  BY <1>1 DEF MergeOntoEcho, OwnStep, Goto, Types, Awaits, reaping, receiving
<1>3. Done(m)' = Done(m)
  BY <1>2 DEF OwnStep, Done
<1>4. ~O(m).id /\ result[m] = "id"
  BY <1>1, <1>2 DEF MsgInv, Shape, Shown
<1>5. CASE /\ row' = [r \in Rows |-> IF r \in Carriers(m) THEN Merged(row[r]) ELSE row[r]]
           /\ UNCHANGED <<faults, gap>>
  <2>1. \A rec \in RowType : Merged(rec) \in RowType /\ Merged(rec).status = "SENT"
                             /\ Merged(rec).id = rec.id /\ Merged(rec).media = "payload"
    BY DEF Merged, RowType, Statuses, Files
  <2>2. row' \in [Rows -> RowType]
    BY <1>1, <1>5, <2>1 DEF Types
  <2>3. /\ O(m)' = O(m) /\ (~X(m).id => X(m)' = X(m))
        /\ \A n \in Messages \ {m} : O(n)' = O(n) /\ X(n)' = X(n)
    BY <1>1, <1>4, <1>5, <2>2, CarriersOnly
  <2>4. X(m).id => X(m)' = Merged(X(m))
    <3>1. X(m).id => Echo(m) \in Carriers(m)
      BY <1>1, <1>4, CarrierFacts
    <3> QED BY <1>5, <3>1, RowFacts DEF X
  <2>5. X(m).id => X(m)'.id /\ X(m)'.status = "SENT" /\ X(m)'.media = "payload"
    BY <1>1, <2>1, <2>4, RowFacts DEF Types, X
  <2>6. Types'
    BY <1>1, <1>2, <1>5, <2>2 DEF OwnStep, Types
  <2>7. Apart(m)
    BY <1>2, <1>5, <2>3 DEF Apart, OwnStep
  <2>8. MsgInv(m)'
    BY <1>1, <1>2, <1>3, <1>4, <1>5, <2>3, <2>5 DEF OwnStep, MsgInv, Shape, Orphans, Inbound, Copied, Shown
  <2> QED BY <2>6, <2>7, <2>8, ApartKeeps
<1>6. CASE Throws(m) /\ UNCHANGED row
  <2>1. O(m)' = O(m) /\ X(m)' = X(m) /\ "db" \in gap'[m] /\ gap[m] \subseteq gap'[m]
    BY <1>1, <1>6, ThrowsFacts DEF O, X
  <2>4. MsgInv(m)'
    BY <1>1, <1>2, <1>3, <1>4, <1>6, <2>1 DEF OwnStep, MsgInv, Shape, Orphans, Inbound, Copied, Shown
  <2> QED BY <1>2, <1>6, <2>4, NoRowStepKeeps
<1> QED BY <1>5, <1>6 DEF MergeOntoEcho

LEMMA DropOwnKeeps ==
  ASSUME RowsInv, NEW m \in Messages, DropOwn(m)
  PROVE  RowsInv'
<1>1. Types /\ MsgInv(m)
  BY DEF RowsInv
<1>2. pc[m] = "drop" /\ pc'[m] = "reindex" /\ OwnStep(m) /\ copy' = copy
  BY <1>1 DEF DropOwn, OwnStep, Goto, Types, Awaits, reaping, receiving
<1>3. Done(m)' = Done(m)
  BY <1>2 DEF OwnStep, Done
<1>4. ~O(m).id /\ result[m] = "id"
  BY <1>1, <1>2 DEF MsgInv, Shape, Shown
<1>5. CASE row' = [row EXCEPT ![Own(m)] = NoRow] /\ UNCHANGED <<faults, gap>>
  <2>1. NoRow \in RowType /\ NoRow.status = "absent" /\ ~NoRow.id
    BY DEF NoRow, RowType
  <2>2. /\ row' \in [Rows -> RowType] /\ O(m)' = NoRow /\ X(m)' = X(m)
        /\ \A n \in Messages \ {m} : O(n)' = O(n) /\ X(n)' = X(n)
    BY <1>1, <1>5, <2>1, RowFacts DEF Types, O, X
  <2>3. Types'
    BY <1>1, <1>2, <1>5, <2>2 DEF OwnStep, Types
  <2>4. Apart(m)
    BY <1>2, <1>5, <2>2 DEF Apart, OwnStep
  <2>5. MsgInv(m)'
    BY <1>1, <1>2, <1>3, <1>4, <1>5, <2>1, <2>2 DEF OwnStep, MsgInv, Shape, Orphans, Inbound, Copied, Shown
  <2> QED BY <2>3, <2>4, <2>5, ApartKeeps
<1>6. CASE Throws(m) /\ UNCHANGED row
  <2>1. O(m)' = O(m) /\ X(m)' = X(m) /\ "db" \in gap'[m] /\ gap[m] \subseteq gap'[m]
    BY <1>1, <1>6, ThrowsFacts DEF O, X
  <2>4. MsgInv(m)'
    BY <1>1, <1>2, <1>3, <1>4, <1>6, <2>1 DEF OwnStep, MsgInv, Shape, Orphans, Inbound, Copied, Shown
  <2> QED BY <1>2, <1>6, <2>4, NoRowStepKeeps
<1> QED BY <1>5, <1>6 DEF DropOwn

LEMMA ReindexKeeps ==
  ASSUME RowsInv, NEW m \in Messages, Reindex(m)
  PROVE  RowsInv'
<1>1. Types /\ MsgInv(m) /\ Shape(m)
  BY DEF RowsInv, MsgInv
<1>2. /\ pc[m] = "reindex" /\ pc'[m] = "done" /\ OwnStep(m) /\ copy' = Retold(m)
      /\ row' = row /\ gap' = gap /\ faults' = faults
  BY <1>1 DEF Reindex, OwnStep, Goto, Types, Awaits, reaping, receiving
<1>3. Done(m)' = Done(m) /\ O(m)' = O(m) /\ X(m)' = X(m)
  BY <1>2 DEF OwnStep, Done, O, X
<1>4. /\ copy' \in [Rows -> Statuses \cup {"none"}] /\ copy'[Own(m)] = "none"
      /\ \A n \in Messages \ {m} : copy'[Own(n)] = copy[Own(n)]
  <2>1. Carriers(m) \subseteq {Own(m), Echo(m)} /\ \A r \in Carriers(m) : row[r].status # "absent"
    BY DEF Carriers, Present
  <2>2. \A r \in Carriers(m) : row[r].status \in Statuses
    <3>1. \A r \in Rows : row[r].status \in Statuses \cup {"absent"}
      BY <1>1 DEF Types, RowType
    <3> QED BY <2>1, <3>1, RowFacts
  <2> QED BY <1>1, <1>2, <2>1, <2>2, RowFacts DEF Retold, Types
<1>5. Types'
  BY <1>1, <1>2, <1>4 DEF OwnStep, Types
<1>6. Apart(m)
  BY <1>2, <1>4 DEF Apart, OwnStep, O, X
<1>7. MsgInv(m)'
  BY <1>1, <1>2, <1>3, <1>4 DEF OwnStep, MsgInv, Shape, Orphans, Inbound, Copied, Shown
<1> QED BY <1>5, <1>6, <1>7, ApartKeeps

-----------------------------------------------------------------------------
(* The steps of the engine's events *)

\* A step of the projector: the send stands still.
EventStep ==
  /\ kind' = kind /\ session' = session /\ out' = out /\ result' = result /\ pc' = pc /\ found' = found

LEMMA ReachFacts ==
  ASSUME Types, NEW m \in Messages, NEW f \in Handlers, NEW l \in {"hook", "dispatch", "done"}, Reach(m, f, l)
  PROVE  /\ handler' \in [Messages -> [Handlers -> {"idle", "hook", "dispatch", "done"}]]
         /\ \A n \in Messages \ {m} : handler'[n] = handler[n]
         /\ \A g \in Handlers : handler'[m][g] = IF g = f THEN l ELSE handler[m][g]
<1>1. handler' = [handler EXCEPT ![m] = [handler[m] EXCEPT ![f] = l]]
  BY DEF Reach
<1>2. handler[m] \in [Handlers -> {"idle", "hook", "dispatch", "done"}]
  BY DEF Types
<1>3. [handler[m] EXCEPT ![f] = l] \in [Handlers -> {"idle", "hook", "dispatch", "done"}]
  BY <1>2
<1> HIDE DEF Handlers
<1> QED BY <1>1, <1>2, <1>3 DEF Types

LEMMA AckToFacts ==
  ASSUME Types, NEW m \in Messages, NEW k \in Acks, NEW l \in {"first", "retry", "done"}, AckTo(m, k, l)
  PROVE  /\ ack' \in [Messages -> [Acks -> {"none", "first", "retry", "done"}]]
         /\ \A n \in Messages \ {m} : ack'[n] = ack[n]
         /\ \A j \in Acks : ack'[m][j] = IF j = k THEN l ELSE ack[m][j]
<1>1. ack' = [ack EXCEPT ![m] = [ack[m] EXCEPT ![k] = l]]
  BY DEF AckTo
<1>2. ack[m] \in [Acks -> {"none", "first", "retry", "done"}]
  BY DEF Types
<1>3. [ack[m] EXCEPT ![k] = l] \in [Acks -> {"none", "first", "retry", "done"}]
  BY <1>2
<1> QED BY <1>1, <1>2, <1>3 DEF Types

\* What is left to show for a step of an event, given the rows it leaves and the gaps it notes.
LEMMA EventStepKeeps ==
  ASSUME RowsInv, NEW m \in Messages, EventStep, row' \in [Rows -> RowType],
         handler' \in [Messages -> [Handlers -> {"idle", "hook", "dispatch", "done"}]],
         ack' \in [Messages -> [Acks -> {"none", "first", "retry", "done"}]],
         reaction' \in [Messages -> Files \cup {"none", "queued", "done"}],
         old' \in [Messages -> BOOLEAN],
         copy' \in [Rows -> Statuses \cup {"none"}], dispatched' \in [Messages -> Nat],
         faults' \in Nat, gap' \in [Messages -> SUBSET Gaps],
         \A n \in Messages \ {m} :
           /\ O(n)' = O(n) /\ X(n)' = X(n) /\ copy'[Own(n)] = copy[Own(n)] /\ handler'[n] = handler[n]
           /\ ack'[n] = ack[n] /\ dispatched'[n] = dispatched[n] /\ gap'[n] = gap[n],
         MsgInv(m)'
  PROVE  RowsInv'
<1>1. Types'
  BY DEF RowsInv, EventStep, Types
<1>2. Apart(m)
  BY DEF Apart, EventStep
<1> QED BY <1>1, <1>2, ApartKeeps

LEMMA FireKeeps ==
  ASSUME RowsInv, NEW m \in Messages, NEW f \in Handlers, Fire(m, f) \/ Abandon(m, f)
  PROVE  RowsInv'
<1>1. Types /\ MsgInv(m)
  BY DEF RowsInv
<1>2. /\ EventStep /\ row' = row /\ old' = old /\ ack' = ack /\ reaction' = reaction /\ copy' = copy
      /\ dispatched' = dispatched /\ faults' = faults /\ gap' = gap
      /\ Reach(m, f, "hook") \/ Reach(m, f, "done")
  BY DEF Fire, Abandon, EventStep, sending, reaping
<1>3. /\ handler' \in [Messages -> [Handlers -> {"idle", "hook", "dispatch", "done"}]]
      /\ \A n \in Messages \ {m} : handler'[n] = handler[n]
      /\ \A g \in Handlers : handler'[m][g] = "dispatch" => handler[m][g] = "dispatch"
  BY <1>1, <1>2, ReachFacts
<1>4. O(m)' = O(m) /\ X(m)' = X(m) /\ Done(m)' = Done(m)
  BY <1>2 DEF O, X, Done
<1>5. MsgInv(m)'
  BY <1>1, <1>2, <1>3, <1>4 DEF EventStep, MsgInv, Shape, Orphans, Inbound, Copied, Shown, Handlers
<1>6. \A n \in Messages : O(n)' = O(n) /\ X(n)' = X(n)
  BY <1>2 DEF O, X
<1> QED BY <1>1, <1>2, <1>3, <1>5, <1>6, EventStepKeeps DEF Types

LEMMA DispatchKeeps ==
  ASSUME RowsInv, NEW m \in Messages, NEW f \in Handlers, Dispatch(m, f)
  PROVE  RowsInv'
<1>1. Types /\ MsgInv(m)
  BY DEF RowsInv
<1>2. /\ EventStep /\ row' = row /\ old' = old /\ ack' = ack /\ reaction' = reaction /\ copy' = copy
      /\ dispatched' = [dispatched EXCEPT ![m] = @ + 1] /\ faults' = faults /\ gap' = gap
      /\ handler[m][f] = "dispatch" /\ Reach(m, f, "done")
  BY DEF Dispatch, EventStep, sending, reaping
<1>3. /\ handler' \in [Messages -> [Handlers -> {"idle", "hook", "dispatch", "done"}]]
      /\ \A n \in Messages \ {m} : handler'[n] = handler[n]
      /\ \A g \in Handlers : handler'[m][g] = IF g = f THEN "done" ELSE handler[m][g]
  BY <1>1, <1>2, ReachFacts
<1>4. O(m)' = O(m) /\ X(m)' = X(m) /\ Done(m)' = Done(m)
  BY <1>2 DEF O, X, Done
<1>5. /\ dispatched' \in [Messages -> Nat] /\ dispatched'[m] = dispatched[m] + 1
      /\ \A n \in Messages \ {m} : dispatched'[n] = dispatched[n]
  BY <1>1, <1>2 DEF Types
<1>6. Inbound(m)'
  BY <1>1, <1>2, <1>3, <1>4, <1>5 DEF EventStep, MsgInv, Inbound, Handlers, Types
<1>7. MsgInv(m)'
  BY <1>1, <1>2, <1>4, <1>6 DEF EventStep, MsgInv, Shape, Orphans, Copied, Shown
<1>8. \A n \in Messages : O(n)' = O(n) /\ X(n)' = X(n)
  BY <1>2 DEF O, X
<1> QED BY <1>1, <1>2, <1>3, <1>5, <1>7, <1>8, EventStepKeeps DEF Types

LEMMA AckArrivesKeeps ==
  ASSUME RowsInv, NEW m \in Messages, NEW k \in Acks, AckArrives(m, k)
  PROVE  RowsInv'
<1>1. Types /\ MsgInv(m)
  BY DEF RowsInv
<1>2. /\ EventStep /\ row' = row /\ old' = old /\ handler' = handler /\ reaction' = reaction /\ copy' = copy
      /\ dispatched' = dispatched /\ faults' = faults /\ gap' = gap /\ AckTo(m, k, "first") /\ ack[m][k] = "none"
  BY DEF AckArrives, EventStep, sending, reaping, receiving
<1>3. /\ ack' \in [Messages -> [Acks -> {"none", "first", "retry", "done"}]]
      /\ \A n \in Messages \ {m} : ack'[n] = ack[n]
      /\ \A j \in Acks : ack'[m][j] = IF j = k THEN "first" ELSE ack[m][j]
  BY <1>1, <1>2, AckToFacts
<1>4. O(m)' = O(m) /\ X(m)' = X(m) /\ Done(m)' = Done(m)
  BY <1>2, <1>3 DEF O, X, Done
<1>5. MsgInv(m)'
  BY <1>1, <1>2, <1>4 DEF EventStep, MsgInv, Shape, Orphans, Inbound, Copied, Shown
<1>6. \A n \in Messages : O(n)' = O(n) /\ X(n)' = X(n)
  BY <1>2 DEF O, X
<1> QED BY <1>1, <1>2, <1>3, <1>5, <1>6, EventStepKeeps DEF Types

\* A reaction that arrives or is read, and time that passes.
LEMMA ReactKeeps ==
  ASSUME RowsInv, NEW m \in Messages, React(m) \/ ReadReactions(m) \/ Age(m)
  PROVE  RowsInv'
<1>1. Types /\ MsgInv(m)
  BY DEF RowsInv
<1>2. /\ EventStep /\ row' = row /\ ack' = ack /\ handler' = handler /\ copy' = copy
      /\ dispatched' = dispatched /\ ((gap' = gap /\ faults' = faults) \/ Throws(m))
  BY DEF React, ReadReactions, Age, EventStep, sending, reaping, receiving
<1>3. /\ faults' \in Nat /\ gap' \in [Messages -> SUBSET Gaps]
      /\ \A n \in Messages \ {m} : gap'[n] = gap[n]
      /\ gap[m] \subseteq gap'[m]
  BY <1>1, <1>2, ThrowsFacts DEF Types
<1>4. O(m)' = O(m) /\ X(m)' = X(m) /\ Done(m)' = Done(m) /\ \A n \in Messages : O(n)' = O(n) /\ X(n)' = X(n)
  BY <1>2 DEF O, X, Done
<1>5. MsgInv(m)'
  BY <1>1, <1>2, <1>3, <1>4 DEF EventStep, MsgInv, Shape, Orphans, Inbound, Copied, Shown
<1>6. old' \in [Messages -> BOOLEAN]
  BY <1>1 DEF React, ReadReactions, Age, Types, reaping
<1>7. reaction' \in [Messages -> Files \cup {"none", "queued", "done"}]
  <2>1. CASE React(m) \/ Age(m)
    BY <1>1, <2>1 DEF React, Age, Types
  <2>2. CASE ReadReactions(m)
    <3>1. \A r \in Carriers(m) : row[r].media \in Files \cup {"none"}
      BY <1>1, RowFacts DEF Carriers, Types, RowType
    <3>2. PICK v \in Files \cup {"none", "done"} : reaction' = [reaction EXCEPT ![m] = v]
      BY <2>2, <3>1 DEF ReadReactions
    <3> QED BY <1>1, <3>2 DEF Types
  <2> QED BY <2>1, <2>2
<1> QED BY <1>1, <1>2, <1>3, <1>4, <1>5, <1>6, <1>7, EventStepKeeps DEF Types

LEMMA InsertKeeps ==
  ASSUME RowsInv, NEW m \in Messages, NEW f \in Handlers, Insert(m, f)
  PROVE  RowsInv'
<1>1. Types /\ MsgInv(m) /\ Shape(m)
  BY DEF RowsInv, MsgInv
<1> DEFINE file == IF kind[m] = "inbound" /\ f # "history" THEN "payload" ELSE "marker"
           won == Carriers(m) = {}
<1>2. /\ EventStep /\ old' = old /\ ack' = ack /\ reaction' = reaction /\ dispatched' = dispatched
      /\ handler[m][f] = "hook" /\ (session = "live" \/ f = "history")
  BY DEF Insert, StillLive, EventStep, sending, reaping
<1>3. /\ won => ~O(m).id /\ X(m).status = "absent"
      /\ ~won => O(m).id \/ X(m).status # "absent"
  BY <1>1, CarrierFacts DEF Shape
<1>4. \A l : Reach(m, f, l) /\ l \in {"hook", "dispatch", "done"} =>
        /\ handler' \in [Messages -> [Handlers -> {"idle", "hook", "dispatch", "done"}]]
        /\ \A n \in Messages \ {m} : handler'[n] = handler[n]
        /\ \A g \in Handlers : handler'[m][g] = IF g = f THEN l ELSE handler[m][g]
  BY <1>1, ReachFacts
<1>5. CASE Throws(m) /\ UNCHANGED <<row, copy>> /\ Reach(m, f, AfterInsert(m, f, TRUE))
  <2>1. AfterInsert(m, f, TRUE) \in {"hook", "dispatch", "done"}
    BY DEF AfterInsert
  <2>2. /\ handler' \in [Messages -> [Handlers -> {"idle", "hook", "dispatch", "done"}]]
        /\ \A n \in Messages \ {m} : handler'[n] = handler[n]
    BY <1>4, <1>5, <2>1
  <2>3. /\ faults' \in Nat /\ gap' \in [Messages -> SUBSET Gaps] /\ "db" \in gap'[m]
        /\ \A n \in Messages : n # m => gap'[n] = gap[n]
        /\ gap[m] \subseteq gap'[m]
    BY <1>1, <1>5, ThrowsFacts
  <2>4. Done(m)' = Done(m) /\ \A n \in Messages : O(n)' = O(n) /\ X(n)' = X(n)
    BY <1>2, <1>5 DEF O, X, Done
  <2>5. MsgInv(m)'
    BY <1>1, <1>2, <1>5, <2>3, <2>4 DEF EventStep, MsgInv, Shape, Orphans, Inbound, Copied, Shown
  <2> QED BY <1>1, <1>2, <1>5, <2>2, <2>3, <2>4, <2>5, EventStepKeeps DEF Types
<1>6. CASE /\ row' = IF won THEN [row EXCEPT ![Echo(m)] = NewRow("SENT", TRUE, file)] ELSE row
           /\ IF won /\ session = "deleted" /\ f = "history" THEN Note(m, "back") ELSE UNCHANGED gap
           /\ IF won /\ f # "history" THEN Emit(Echo(m), "SENT") ELSE UNCHANGED copy
           /\ Reach(m, f, AfterInsert(m, f, won))
           /\ UNCHANGED faults
  <2>1. PICK l \in {"dispatch", "done"} :
          Reach(m, f, l) /\ (l = "dispatch" => f # "history" /\ (kind[m] = "inbound" => won))
    BY <1>6 DEF AfterInsert
  <2>2. /\ handler' \in [Messages -> [Handlers -> {"idle", "hook", "dispatch", "done"}]]
        /\ \A n \in Messages \ {m} : handler'[n] = handler[n]
        /\ \A g \in Handlers : handler'[m][g] = IF g = f THEN l ELSE handler[m][g]
    BY <1>4, <2>1
  <2>3. PICK rec \in RowType : rec = NewRow("SENT", TRUE, file) /\ rec.status = "SENT" /\ rec.id
    BY NewRowType DEF Statuses, Files
  <2>4. /\ row' \in [Rows -> RowType] /\ O(m)' = O(m) /\ X(m)' = (IF won THEN rec ELSE X(m))
        /\ \A n \in Messages \ {m} : O(n)' = O(n) /\ X(n)' = X(n)
    <3>1. CASE won
      BY <1>1, <1>6, <2>3, <3>1, EchoFacts
    <3>2. CASE ~won
      BY <1>1, <1>6, <3>2 DEF Types, O, X
    <3> QED BY <3>1, <3>2
  <2>5. /\ copy' \in [Rows -> Statuses \cup {"none"}]
        /\ \A n \in Messages : copy'[Own(n)] = copy[Own(n)]
    BY <1>1, <1>6, RowFacts DEF Emit, Types, Statuses
  <2>6. /\ gap' \in [Messages -> SUBSET Gaps] /\ gap[m] \subseteq gap'[m]
        /\ \A n \in Messages : n # m => gap'[n] = gap[n]
        /\ won /\ session = "deleted" => "back" \in gap'[m]
    <3>1. gap' = gap \/ \E g \in Gaps : Note(m, g)
      BY <1>6 DEF Gaps
    <3>2. gap' \in [Messages -> SUBSET Gaps] /\ gap[m] \subseteq gap'[m] /\ \A n \in Messages : n # m => gap'[n] = gap[n]
      BY <1>1, <3>1, GapFacts
    <3>3. won /\ session = "deleted" => "back" \in gap'[m]
      BY <1>1, <1>2, <1>6 DEF Note, Types
    <3> QED BY <3>2, <3>3
  <2> HIDE DEF won, file
  <2>7. Inbound(m)'
    <3>0. kind[m] = "inbound" => pc[m] = "idle"
      BY <1>1 DEF Shape
    <3>1. kind[m] = "inbound" => O(m).status = "absent"
      BY <1>1, <3>0 DEF Shape
    <3>2. kind[m] = "inbound" => ~O(m).id
      BY <1>1, <3>1 DEF Shape
    <3>3. kind[m] = "inbound" => X(m)'.status # "absent"
      BY <1>3, <2>3, <2>4, <3>2
    <3>4. l = "dispatch" /\ kind[m] = "inbound" => X(m).status = "absent" /\ session # "deleted"
      BY <1>2, <1>3, <2>1
    <3> QED BY <1>1, <1>2, <2>1, <2>2, <2>6, <3>3, <3>4 DEF MsgInv, Inbound, EventStep, Handlers
  <2>8. Done(m)' = Done(m)
    BY <1>2 DEF Done
  <2>9. MsgInv(m)'
    BY ZenonT(30), <1>1, <1>2, <1>3, <2>3, <2>4, <2>5, <2>6, <2>7, <2>8 DEF EventStep, MsgInv, Shape, Orphans, Copied, Shown
  <2> QED BY <1>1, <1>2, <1>6, <2>2, <2>4, <2>5, <2>6, <2>9, EventStepKeeps DEF Types
<1> QED BY <1>5, <1>6 DEF Insert

LEMMA AckWritesKeeps ==
  ASSUME RowsInv, NEW m \in Messages, NEW k \in Acks, AckWrites(m, k)
  PROVE  RowsInv'
<1>1. Types /\ MsgInv(m) /\ Shape(m) /\ k \in {"DELIVERED", "READ", "FAILED"}
  BY RowsAssumption DEF RowsInv, MsgInv
<1>2. /\ EventStep /\ old' = old /\ handler' = handler /\ reaction' = reaction /\ copy' = copy
      /\ dispatched' = dispatched /\ ack[m][k] \in {"first", "retry"}
  BY DEF AckWrites, EventStep, sending, reaping, receiving
<1>3. PICK l \in {"retry", "done"} : AckTo(m, k, l) /\ (Advances(m, k) # {} => l = "done")
  BY DEF AckWrites, AckAgain
<1>4. /\ ack' \in [Messages -> [Acks -> {"none", "first", "retry", "done"}]]
      /\ \A n \in Messages \ {m} : ack'[n] = ack[n]
      /\ \A j \in Acks : ack'[m][j] = IF j = k THEN l ELSE ack[m][j]
  BY <1>1, <1>3, AckToFacts
<1>5. Done(m) \subseteq Done(m)' /\ (l = "done" => k \in Done(m)')
  BY <1>2, <1>4 DEF Done
<1>6. CASE /\ row' = [r \in Rows |-> IF r \in Advances(m, k) THEN [row[r] EXCEPT !.status = k] ELSE row[r]]
           /\ UNCHANGED <<faults, gap>>
  <2>1. \A rec \in RowType : [rec EXCEPT !.status = k] \in RowType
    BY <1>1 DEF RowType, Statuses
  <2>2. row' \in [Rows -> RowType] /\ \A r \in Rows \ Carriers(m) : row'[r] = row[r]
    BY <1>1, <1>6, <2>1 DEF Types, Advances
  <2>3. /\ ~O(m).id => O(m)' = O(m)
        /\ O(m).id \/ ~X(m).id => X(m)' = X(m)
        /\ \A n \in Messages \ {m} : O(n)' = O(n) /\ X(n)' = X(n)
    BY <1>1, <2>2, CarriersOnly
  <2>4. \A r \in Rows : row'[r] = row[r] \/
          (r \in Advances(m, k) /\ row'[r].status = k /\ row'[r].id = row[r].id /\ row'[r].media = row[r].media)
    BY <1>1, <1>6 DEF Types, RowType
  <2>5. /\ O(m)' = O(m) \/ (O(m)'.status = k /\ O(m)'.id = O(m).id /\ O(m)'.media = O(m).media /\ l = "done")
        /\ X(m)' = X(m) \/ (X(m)'.status = k /\ X(m)'.id = X(m).id /\ X(m)'.media = X(m).media /\ l = "done")
    BY <1>3, <2>4, RowFacts DEF O, X
  <2>6. k # "absent" /\ k # "PENDING"
    BY <1>1
  <2>7. Shape(m)' /\ Orphans(m)' /\ Inbound(m)' /\ Copied(m)'
    BY <1>1, <1>2, <1>6, <2>3, <2>5, <2>6 DEF EventStep, MsgInv, Shape, Orphans, Inbound, Copied
  <2>8. Shown(m)'
    BY <1>1, <1>2, <1>5, <1>6, <2>3, <2>5, <2>6 DEF EventStep, MsgInv, Shape, Shown
  <2>9. MsgInv(m)'
    BY <2>7, <2>8 DEF MsgInv
  <2> QED BY <1>1, <1>2, <1>4, <1>6, <2>2, <2>3, <2>9, EventStepKeeps DEF Types
<1>7. CASE Throws(m) /\ UNCHANGED row
  <2>1. /\ faults' \in Nat /\ gap' \in [Messages -> SUBSET Gaps] /\ "db" \in gap'[m]
        /\ \A n \in Messages : n # m => gap'[n] = gap[n]
        /\ gap[m] \subseteq gap'[m]
    BY <1>1, <1>7, ThrowsFacts
  <2>2. \A n \in Messages : O(n)' = O(n) /\ X(n)' = X(n)
    BY <1>7 DEF O, X
  <2>3. MsgInv(m)'
    BY <1>1, <1>2, <1>5, <2>1, <2>2 DEF EventStep, MsgInv, Shape, Orphans, Inbound, Copied, Shown
  <2> QED BY <1>1, <1>2, <1>4, <1>7, <2>1, <2>2, <2>3, EventStepKeeps DEF Types
<1> QED BY <1>6, <1>7 DEF AckWrites

LEMMA WriteReactionsKeeps ==
  ASSUME RowsInv, NEW m \in Messages, WriteReactions(m)
  PROVE  RowsInv'
<1>1. Types /\ MsgInv(m) /\ Shape(m)
  BY DEF RowsInv, MsgInv
<1>2. /\ EventStep /\ old' = old /\ handler' = handler /\ ack' = ack /\ copy' = copy
      /\ dispatched' = dispatched /\ reaction[m] \in Files
      /\ reaction' \in [Messages -> Files \cup {"none", "queued", "done"}]
  BY <1>1 DEF WriteReactions, EventStep, sending, reaping, receiving, Types
<1>3. Done(m)' = Done(m)
  BY <1>2 DEF Done
<1>4. CASE /\ row' = [r \in Rows |-> IF r \in Carriers(m) THEN Reacted(row[r], reaction[m]) ELSE row[r]]
           /\ IF \E r \in Carriers(m) : row[r].media # reaction[m] THEN Note(m, "react") ELSE UNCHANGED gap
           /\ UNCHANGED faults
  <2>1. \A rec \in RowType : /\ Reacted(rec, reaction[m]) \in RowType
                             /\ Reacted(rec, reaction[m]).status = rec.status
                             /\ Reacted(rec, reaction[m]).id = rec.id
                             /\ rec.media = reaction[m] => Reacted(rec, reaction[m]) = rec
    BY <1>2 DEF Reacted, RowType
  <2>2. row' \in [Rows -> RowType] /\ \A r \in Rows \ Carriers(m) : row'[r] = row[r]
    BY <1>1, <1>4, <2>1 DEF Types
  <2>3. \A n \in Messages \ {m} : O(n)' = O(n) /\ X(n)' = X(n)
    BY <1>1, <2>2, CarriersOnly
  <2>4. gap' = gap \/ \E g \in Gaps : Note(m, g)
    BY <1>4 DEF Gaps
  <2>5. /\ gap' \in [Messages -> SUBSET Gaps] /\ gap[m] \subseteq gap'[m]
        /\ \A n \in Messages : n # m => gap'[n] = gap[n]
    BY <1>1, <2>4, GapFacts
  <2>6. /\ O(m)'.status = O(m).status /\ O(m)'.id = O(m).id
        /\ X(m)'.status = X(m).status /\ X(m)'.id = X(m).id
    BY <1>1, <1>4, <2>1, RowFacts DEF Types, O, X
  <2>7. gap'[m] = {} => O(m)' = O(m) /\ X(m)' = X(m)
    <3>1. gap'[m] = {} => \A r \in Carriers(m) : row[r].media = reaction[m]
      <4>1. CASE \E r \in Carriers(m) : row[r].media # reaction[m]
        <5>1. gap' = [gap EXCEPT ![m] = gap[m] \cup {"react"}] /\ gap \in [Messages -> SUBSET Gaps]
          BY <1>1, <1>4, <4>1 DEF Note, Types
        <5>2. "react" \in gap'[m]
          BY <5>1
        <5> QED BY <5>2
      <4>2. CASE ~\E r \in Carriers(m) : row[r].media # reaction[m]
        BY <4>2
      <4> QED BY <4>1, <4>2
    <3>2. gap'[m] = {} => \A r \in Rows : row'[r] = row[r]
      BY <1>1, <1>4, <2>1, <3>1 DEF Types
    <3> QED BY <3>2, RowFacts DEF O, X
  <2>8. Shape(m)' /\ Orphans(m)' /\ Inbound(m)' /\ Copied(m)'
    BY <1>1, <1>2, <2>5, <2>6 DEF EventStep, MsgInv, Shape, Orphans, Inbound, Copied
  <2>9. Shown(m)'
    BY <1>1, <1>2, <1>3, <2>5, <2>6, <2>7 DEF EventStep, MsgInv, Shown
  <2>10. MsgInv(m)'
    BY <2>8, <2>9 DEF MsgInv
  <2> QED BY <1>1, <1>2, <1>4, <2>2, <2>3, <2>5, <2>10, EventStepKeeps DEF Types
<1>5. CASE Throws(m) /\ UNCHANGED row
  <2>1. /\ faults' \in Nat /\ gap' \in [Messages -> SUBSET Gaps] /\ "db" \in gap'[m]
        /\ \A n \in Messages : n # m => gap'[n] = gap[n]
        /\ gap[m] \subseteq gap'[m]
    BY <1>1, <1>5, ThrowsFacts
  <2>2. \A n \in Messages : O(n)' = O(n) /\ X(n)' = X(n)
    BY <1>5 DEF O, X
  <2>3. MsgInv(m)'
    BY <1>1, <1>2, <1>3, <2>1, <2>2 DEF EventStep, MsgInv, Shape, Orphans, Inbound, Copied, Shown
  <2> QED BY <1>1, <1>2, <1>5, <2>1, <2>2, <2>3, EventStepKeeps DEF Types
<1> QED BY <1>4, <1>5 DEF WriteReactions

-----------------------------------------------------------------------------
(* The steps of the reaper, of the session and of the process *)

\* A step that changes no row and no message.
LEMMA SweepKeeps ==
  ASSUME RowsInv, Sweep
  PROVE  RowsInv'
<1>1. /\ Types /\ kind' = kind /\ session' = session /\ row' = row /\ old' = old /\ pc' = pc /\ out' = out
      /\ result' = result /\ handler' = handler /\ dispatched' = dispatched /\ ack' = ack
      /\ reaction' = reaction /\ copy' = copy /\ faults' = faults /\ gap' = gap /\ found' \subseteq Messages
  BY DEF RowsInv, Sweep, sending, receiving
<1>2. Types'
  BY <1>1 DEF Types
<1>3. \A m \in Messages : MsgInv(m)'
  BY <1>1 DEF RowsInv, MsgInv, Shape, Orphans, Inbound, Copied, Shown, O, X, Done
<1> QED BY <1>2, <1>3 DEF RowsInv

LEMMA ReapRowKeeps ==
  ASSUME RowsInv, NEW m \in Messages, ReapRow(m)
  PROVE  RowsInv'
<1>1. Types /\ MsgInv(m)
  BY DEF RowsInv
<1>2. /\ kind' = kind /\ session' = session /\ old' = old /\ pc' = pc /\ out' = out
      /\ result' = result /\ handler' = handler /\ dispatched' = dispatched /\ ack' = ack
      /\ reaction' = reaction /\ found' \subseteq Messages
  BY <1>1 DEF ReapRow, sending, receiving, Types
<1>3. Done(m)' = Done(m)
  BY <1>2 DEF Done
<1>4. CASE /\ StillPending(m) /\ Emit(Own(m), "FAILED") /\ UNCHANGED <<faults, gap>>
           /\ row' = [row EXCEPT ![Own(m)].status = "FAILED", ![Own(m)].media = "stripped"]
  <2>1. PICK rec \in RowType : rec = [O(m) EXCEPT !.status = "FAILED", !.media = "stripped"]
                              /\ rec.status = "FAILED" /\ rec.id = O(m).id
    <3>1. PICK o \in RowType : o = O(m)
      BY <1>1, RowFacts DEF Types, O
    <3> DEFINE p == [o EXCEPT !.status = "FAILED"]
               q == [p EXCEPT !.media = "stripped"]
    <3>2. p \in RowType /\ p.status = "FAILED" /\ p.id = o.id
      BY DEF RowType, Statuses
    <3>3. q = [o EXCEPT !.status = "FAILED", !.media = "stripped"]
      OBVIOUS
    <3> HIDE DEF p
    <3>4. q \in RowType /\ q.status = p.status /\ q.id = p.id
      BY <3>2 DEF RowType, Files
    <3> HIDE DEF q
    <3> QED BY <3>1, <3>2, <3>3, <3>4
  <2>2. row' = [row EXCEPT ![Own(m)] = rec]
    BY <1>1, <1>4, <2>1, RowFacts DEF O, Types
  <2>3. /\ row' \in [Rows -> RowType] /\ O(m)' = rec /\ X(m)' = X(m)
        /\ \A n \in Messages \ {m} : O(n)' = O(n) /\ X(n)' = X(n)
    BY <1>1, <2>2, RowFacts DEF Types, O, X
  <2>4. /\ copy' \in [Rows -> Statuses \cup {"none"}] /\ copy'[Own(m)] = "FAILED"
        /\ \A n \in Messages \ {m} : copy'[Own(n)] = copy[Own(n)]
    BY <1>1, <1>4, RowFacts DEF Emit, Types, Statuses
  <2>5. Types' /\ Apart(m)
    BY <1>1, <1>2, <1>4, <2>3, <2>4 DEF Types, Apart
  <2>6. O(m).status = "PENDING"
    BY <1>4 DEF StillPending, O
  <2>7. MsgInv(m)'
    BY <1>1, <1>2, <1>3, <1>4, <2>1, <2>3, <2>4, <2>6 DEF MsgInv, Shape, Orphans, Inbound, Copied, Shown
  <2> QED BY <2>5, <2>7, ApartKeeps
<1>5. CASE UNCHANGED <<row, copy>> /\ (UNCHANGED <<faults, gap>> \/ Throws(m))
  <2>1. /\ faults' \in Nat /\ gap' \in [Messages -> SUBSET Gaps]
        /\ \A n \in Messages : n # m => gap'[n] = gap[n]
        /\ gap[m] \subseteq gap'[m]
    BY <1>1, <1>5, ThrowsFacts DEF Types
  <2>2. \A n \in Messages : O(n)' = O(n) /\ X(n)' = X(n)
    BY <1>5 DEF O, X
  <2>3. Types' /\ Apart(m)
    BY <1>1, <1>2, <1>5, <2>1, <2>2 DEF Types, Apart
  <2>4. MsgInv(m)'
    BY <1>1, <1>2, <1>3, <1>5, <2>1, <2>2 DEF MsgInv, Shape, Orphans, Inbound, Copied, Shown
  <2> QED BY <2>3, <2>4, ApartKeeps
<1> QED BY <1>4, <1>5 DEF ReapRow

LEMMA SessionKeeps ==
  ASSUME RowsInv, Retire \/ DeleteRows
  PROVE  RowsInv'
<1>1. /\ Types /\ kind' = kind /\ old' = old /\ found' = found /\ pc' = pc /\ out' = out
      /\ result' = result /\ handler' = handler /\ dispatched' = dispatched /\ ack' = ack
      /\ reaction' = reaction /\ copy' = copy /\ gap' = gap /\ faults' \in Nat
  BY DEF RowsInv, Types, Retire, DeleteRows, sending, receiving, reaping, Spend
<1>2. CASE Retire
  <2>1. session = "live" /\ session' = "retired" /\ row' = row
    BY <1>2 DEF Retire
  <2>2. Types'
    BY <1>1, <2>1 DEF Types
  <2>3. \A m \in Messages : MsgInv(m)'
    BY <1>1, <2>1 DEF RowsInv, MsgInv, Shape, Orphans, Inbound, Copied, Shown, O, X, Done
  <2> QED BY <2>2, <2>3 DEF RowsInv
<1>3. CASE DeleteRows
  <2>1. session' = "deleted" /\ row' = [r \in Rows |-> NoRow]
    BY <1>3 DEF DeleteRows
  <2>2. NoRow \in RowType /\ NoRow.status = "absent" /\ ~NoRow.id
    BY DEF NoRow, RowType
  <2>3. Types'
    BY <1>1, <2>1, <2>2 DEF Types
  <2>4. \A m \in Messages : O(m)' = NoRow /\ X(m)' = NoRow
    BY <2>1, RowFacts DEF O, X
  <2>5. ASSUME NEW m \in Messages
        PROVE  MsgInv(m)'
    <3>1. MsgInv(m) /\ Done(m)' = Done(m)
      BY <1>1 DEF RowsInv, Done
    <3> QED BY <1>1, <2>1, <2>2, <2>4, <3>1 DEF MsgInv, Shape, Orphans, Inbound, Copied, Shown
  <2> QED BY <2>3, <2>5 DEF RowsInv
<1> QED BY <1>2, <1>3

LEMMA CrashKeeps ==
  ASSUME RowsInv, Crash
  PROVE  RowsInv'
<1>1. /\ Types /\ kind' = kind /\ row' = row /\ old' = old /\ out' = out /\ result' = result
      /\ dispatched' = dispatched /\ copy' = copy /\ faults' \in Nat /\ found' = {}
      /\ session' = IF session = "deleted" THEN "deleted" ELSE "live"
      /\ gap' = [m \in Messages |-> IF InFlight(m) THEN gap[m] \cup {"crash"} ELSE gap[m]]
      /\ pc' = [m \in Messages |-> IF pc[m] = "idle" THEN "idle" ELSE "done"]
      /\ handler' = [m \in Messages |-> [f \in Handlers |-> IF handler[m][f] = "idle" THEN "idle" ELSE "done"]]
      /\ ack' = [m \in Messages |-> [k \in Acks |-> IF ack[m][k] = "none" THEN "none" ELSE "done"]]
      /\ reaction' = [m \in Messages |-> IF reaction[m] = "none" THEN "none" ELSE "done"]
  BY DEF RowsInv, Crash, Types, Spend
<1>2. gap' \in [Messages -> SUBSET Gaps]
  BY <1>1 DEF Types, Gaps
<1>3. Types'
  BY <1>1, <1>2 DEF Types, Awaits
<1>4. ASSUME NEW m \in Messages
      PROVE  MsgInv(m)'
  <2>1. /\ MsgInv(m) /\ O(m)' = O(m) /\ X(m)' = X(m) /\ copy'[Own(m)] = copy[Own(m)]
        /\ kind'[m] = kind[m] /\ result'[m] = result[m] /\ dispatched'[m] = dispatched[m]
        /\ (session' = "deleted" <=> session = "deleted")
    BY <1>1 DEF RowsInv, O, X
  <2>2. /\ pc'[m] = (IF pc[m] = "idle" THEN "idle" ELSE "done") /\ gap[m] \subseteq gap'[m]
        /\ pc[m] \notin {"idle", "done"} => "crash" \in gap'[m]
        /\ gap'[m] \subseteq gap[m] \cup {"crash"}
    BY <1>1 DEF InFlight
  <2>3. Done(m) \subseteq Done(m)'
    BY <1>1 DEF Done
  <2>4. \A f \in Handlers : handler'[m][f] # "dispatch"
    BY <1>1
  <2>5. Shape(m)' /\ Orphans(m)' /\ Copied(m)'
    BY <2>1, <2>2 DEF MsgInv, Shape, Orphans, Copied
  <2>6. Inbound(m)'
    BY <2>1, <2>2, <2>4 DEF MsgInv, Inbound, Handlers
  <2>7. Shown(m)'
    BY <2>1, <2>2, <2>3 DEF MsgInv, Shown
  <2> QED BY <2>5, <2>6, <2>7 DEF MsgInv
<1> QED BY <1>3, <1>4 DEF RowsInv

-----------------------------------------------------------------------------
(* The theorems *)

LEMMA InitRows == Init => RowsInv
<1> SUFFICES ASSUME Init PROVE RowsInv
  OBVIOUS
<1>1. NoRow \in RowType /\ NoRow.status = "absent" /\ ~NoRow.id
  BY DEF NoRow, RowType
<1>2. Types
  BY <1>1 DEF Init, Types, Awaits
<1>3. \A m \in Messages : O(m) = NoRow /\ X(m) = NoRow /\ copy[Own(m)] = "none"
  BY RowFacts DEF Init, O, X
<1>4. ASSUME NEW m \in Messages
      PROVE  MsgInv(m)
  <2>1. /\ pc[m] = "idle" /\ session = "live" /\ result[m] = "none" /\ dispatched[m] = 0 /\ gap[m] = {}
        /\ \A f \in Handlers : handler[m][f] = "idle"
    BY DEF Init
  <2>2. Shape(m) /\ Orphans(m) /\ Copied(m) /\ Shown(m)
    BY <1>1, <1>3, <2>1 DEF Shape, Orphans, Copied, Shown
  <2>3. Inbound(m)
    BY <2>1 DEF Inbound, Handlers
  <2> QED BY <2>2, <2>3 DEF MsgInv
<1> QED BY <1>2, <1>4 DEF RowsInv

LEMMA StepRows == RowsInv /\ [Next]_vars => RowsInv'
<1> SUFFICES ASSUME RowsInv, [Next]_vars PROVE RowsInv'
  OBVIOUS
<1>1. CASE UNCHANGED vars
  <2>1. Types'
    BY <1>1 DEF vars, RowsInv, Types
  <2>2. \A m \in Messages : MsgInv(m)'
    BY <1>1 DEF vars, RowsInv, MsgInv, Shape, Orphans, Inbound, Copied, Shown, O, X, Done
  <2> QED BY <2>1, <2>2 DEF RowsInv
<1>2. ASSUME NEW m \in Messages, Continue(m)
      PROVE  RowsInv'
  BY <1>2, FindSessionKeeps, SaveOutgoingKeeps, SaveFailedMessageKeeps, PersistSentStateKeeps,
     MergeOntoEchoKeeps, DropOwnKeeps, ReindexKeeps DEF Continue
<1>3. ASSUME NEW m \in Messages, Event(m) \/ Project(m) \/ Age(m)
      PROVE  RowsInv'
  BY <1>3, FireKeeps, InsertKeeps, DispatchKeeps, AckArrivesKeeps, AckWritesKeeps, ReactKeeps,
     WriteReactionsKeeps DEF Event, Project
<1>4. ASSUME Reap \/ Retire \/ DeleteRows \/ Crash
      PROVE  RowsInv'
  BY <1>4, SweepKeeps, ReapRowKeeps, SessionKeeps, CrashKeeps DEF Reap
<1> QED BY <1>1, <1>2, <1>3, <1>4, SendKeeps, AnsweredKeeps DEF Next

LEMMA AlwaysRows == Spec => []RowsInv
BY InitRows, StepRows, PTL DEF Spec

\* Type correctness, with the database's own promise: at most one row of a message carries its id.
THEOREM RowsTypes == Spec => []TypeOK
<1>1. RowsInv => TypeOK
  BY DEF RowsInv, Types, Awaits, TypeOK, MsgInv, Shape, O, X
<1> QED BY <1>1, AlwaysRows, PTL

\* An accepted REST send ends as one row with the id, the payload and a status some receipt reached.
THEOREM RowsAcceptedIsShown == Spec => []AcceptedIsShown
<1>1. RowsInv => AcceptedIsShown
  <2> SUFFICES ASSUME RowsInv, NEW m \in Messages,
                      kind[m] = "api", result[m] = "id", session # "deleted", ~InFlight(m), gap[m] = {}
               PROVE  \E r \in {Own(m), Echo(m)} :
                        /\ \A s \in {Own(m), Echo(m)} : Present(s) <=> s = r
                        /\ row[r].id /\ row[r].media = "payload"
                        /\ row[r].status \in {"SENT"} \cup {k \in Acks : ack[m][k] = "done"}
    BY DEF AcceptedIsShown
  <2>1. MsgInv(m) /\ pc[m] = "done"
    BY DEF RowsInv, MsgInv, Shown, InFlight
  <2>2. \/ O(m).id /\ O(m).media = "payload" /\ X(m).status = "absent"
        \/ O(m).status = "absent" /\ X(m).status # "absent" /\ X(m).media = "payload"
    BY <2>1 DEF MsgInv, Shown
  <2>3. CASE O(m).id /\ O(m).media = "payload" /\ X(m).status = "absent"
    <3>1. O(m).status # "absent" /\ O(m).status \in {"SENT"} \cup Done(m)
      BY <2>1, <2>3 DEF MsgInv, Shape, Shown
    <3> QED BY <2>3, <3>1, RowFacts DEF O, X, Present, Done
  <2>4. CASE O(m).status = "absent" /\ X(m).status # "absent" /\ X(m).media = "payload"
    <3>1. X(m).id /\ X(m).status \in {"SENT"} \cup Done(m)
      BY <2>1, <2>4 DEF MsgInv, Shape, Shown
    <3> QED BY <2>4, <3>1, RowFacts DEF O, X, Present, Done
  <2> QED BY <2>2, <2>3, <2>4
<1> QED BY <1>1, AlwaysRows, PTL

\* An inbound message reaches the webhooks at most once, unless the database failed.
THEOREM RowsInboundOnce == Spec => []InboundOnce
<1>1. RowsInv => InboundOnce
  BY DEF RowsInv, MsgInv, Inbound, InboundOnce
<1> QED BY <1>1, AlwaysRows, PTL

\* A deleted session keeps no rows but those of the known gap.
THEOREM RowsNoOrphans == Spec => []NoOrphanRows
<1>1. RowsInv => NoOrphanRows
  BY DEF RowsInv, MsgInv, Orphans, NoOrphanRows, Present, O, X
<1> QED BY <1>1, AlwaysRows, PTL

\* The plugins' copy of an own row does not stay at PENDING.
THEOREM RowsCopySettles == Spec => []CopySettles
<1>1. RowsInv => CopySettles
  BY DEF RowsInv, MsgInv, Copied, CopySettles, InFlight, O
<1> QED BY <1>1, AlwaysRows, PTL

-----------------------------------------------------------------------------
(* Delivery state only advances *)

Merging(m) == pc[m] = "merge" /\ pc'[m] = "drop"
Advancing == \A m \in Messages : \A r \in {Own(m), Echo(m)} : Receded(r) => Merging(m)

\* Rows that keep their status, that are removed, or that no receipt had reached, do not recede.
LEMMA Unreceded ==
  ASSUME \A r \in Rows : \/ row'[r].status \in {row[r].status, "absent", "READ"}
                         \/ row[r].status \notin {"DELIVERED", "READ"}
  PROVE  Advancing
BY RowFacts DEF Advancing, Receded

\* A write of one row that no receipt had reached.
LEMMA FreshWrite ==
  ASSUME Types, NEW x \in Rows, NEW rec, row' = [row EXCEPT ![x] = rec],
         row[x].status \notin {"DELIVERED", "READ"}
  PROVE  Advancing
<1>1. \A r \in Rows : row'[r] = row[r] \/ r = x
  BY DEF Types
<1> QED BY <1>1, Unreceded

LEMMA SendAdvances ==
  ASSUME RowsInv, NEW m \in Messages, Continue(m)
  PROVE  Advancing
<1>1. Types /\ Shape(m)
  BY DEF RowsInv, MsgInv
<1>2. CASE row' = row
  BY <1>2, Unreceded
<1>3. ASSUME NEW rec, SaveOwn(m, rec), pc[m] \in {"save", "fail", "persist"}
      PROVE  Advancing
  <2>1. row' = [row EXCEPT ![Own(m)] = rec]
    BY <1>3 DEF SaveOwn
  <2>2. row[Own(m)].status \notin {"DELIVERED", "READ"}
    BY <1>1, <1>3 DEF Shape, O
  <2> QED BY <1>1, <2>1, <2>2, RowFacts, FreshWrite
<1>4. CASE MergeOntoEcho(m) /\ row' # row
  <2>1. Merging(m) /\ \A r \in Rows \ Carriers(m) : row'[r] = row[r]
    BY <1>1, <1>4 DEF MergeOntoEcho, Merging, Goto, Types
  <2>2. \A r \in Rows : r \in Carriers(m) => r \in {Own(m), Echo(m)}
    BY DEF Carriers
  <2>3. ASSUME NEW n \in Messages, NEW r \in {Own(n), Echo(n)}, Receded(r)
        PROVE  Merging(n)
    <3>1. r \in Rows /\ row'[r] # row[r]
      BY <2>3, RowFacts DEF Receded
    <3>2. n = m
      BY <2>1, <2>2, <2>3, <3>1, RowFacts
    <3> QED BY <2>1, <3>2
  <2> QED BY <2>3 DEF Advancing
<1>5. CASE DropOwn(m) /\ row' # row
  <2>1. row' = [row EXCEPT ![Own(m)] = NoRow]
    BY <1>5 DEF DropOwn
  <2>2. \A r \in Rows : row'[r] = row[r] \/ row'[r].status = "absent"
    BY <1>1, <2>1 DEF Types, NoRow
  <2> QED BY <2>2, Unreceded
<1> QED BY <1>2, <1>3, <1>4, <1>5 DEF Continue, FindSession, SaveOutgoing, SaveFailedMessage, PersistSentState,
           Reindex

LEMMA EventAdvances ==
  ASSUME RowsInv, NEW m \in Messages, Project(m)
  PROVE  Advancing
<1>1. Types /\ Shape(m)
  BY DEF RowsInv, MsgInv
<1>2. CASE row' = row
  BY <1>2, Unreceded
<1>3. ASSUME NEW f \in Handlers, Insert(m, f), row' # row
      PROVE  Advancing
  <2>1. PICK rec : row' = [row EXCEPT ![Echo(m)] = rec] /\ Carriers(m) = {}
    BY <1>3 DEF Insert
  <2>2. row[Echo(m)].status \notin {"DELIVERED", "READ"}
    <3>1. ~X(m).id
      BY <1>1, <2>1, CarrierFacts
    <3> QED BY <1>1, <3>1 DEF Shape, X
  <2> QED BY <1>1, <2>1, <2>2, RowFacts, FreshWrite
<1>4. ASSUME NEW k \in Acks, AckWrites(m, k), row' # row
      PROVE  Advancing
  <2>1. \A r \in Rows : row'[r] = row[r] \/ (row'[r].status = k /\ r \in Advances(m, k))
    <3>1. row' = [r \in Rows |-> IF r \in Advances(m, k) THEN [row[r] EXCEPT !.status = k] ELSE row[r]]
      BY <1>4 DEF AckWrites
    <3> QED BY <1>1, <3>1 DEF Types, RowType
  <2>2. \A r \in Advances(m, k) : k = "READ" \/ row[r].status \notin {"DELIVERED", "READ"}
    BY DEF Advances, AckStatusTransitionFrom
  <2> QED BY <2>1, <2>2, Unreceded
<1>5. ASSUME WriteReactions(m), row' # row
      PROVE  Advancing
  <2>1. \A r \in Rows : row'[r].status = row[r].status
    <3>1. row' = [r \in Rows |-> IF r \in Carriers(m) THEN Reacted(row[r], reaction[m]) ELSE row[r]]
      BY <1>5 DEF WriteReactions
    <3> QED BY <1>1, <3>1 DEF Types, RowType, Reacted
  <2> QED BY <2>1, Unreceded
<1> QED BY <1>2, <1>3, <1>4, <1>5 DEF Project, Abandon, Dispatch, ReadReactions

LEMMA StepAdvances == RowsInv /\ [Next]_vars => [Advancing]_vars
<1> SUFFICES ASSUME RowsInv, Next PROVE Advancing
  OBVIOUS
<1>1. CASE row' = row
  BY <1>1, Unreceded
<1>2. ASSUME NEW m \in Messages, ReapRow(m), row' # row
      PROVE  Advancing
  <2>1. \A r \in Rows : row'[r] = row[r] \/ row[r].status = "PENDING"
    BY <1>2 DEF ReapRow, StillPending, RowsInv, Types
  <2> QED BY <2>1, Unreceded
<1>3. CASE DeleteRows
  <2>1. \A r \in Rows : row'[r].status = "absent"
    BY <1>3 DEF DeleteRows, NoRow
  <2> QED BY <2>1, Unreceded
<1> QED BY <1>1, <1>2, <1>3, SendAdvances, EventAdvances DEF Next, Event, Reap, Send, Transmit, Accepted, Rejected,
           Fire, AckArrives, React, Age, Sweep, Retire, Crash

\* A row that a receipt took to DELIVERED or READ goes back only in the merge of a send onto it.
THEOREM RowsStatusAdvances == Spec => StatusAdvances
<1>1. RowsInv /\ [Next]_vars => [\A m \in Messages : \A r \in {Own(m), Echo(m)} :
                                   Receded(r) => pc[m] = "merge" /\ pc'[m] = "drop"]_vars
  BY StepAdvances DEF Advancing, Merging
<1> QED BY <1>1, AlwaysRows, PTL DEF Spec, StatusAdvances
=============================================================================
