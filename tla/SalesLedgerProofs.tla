-------------------------- MODULE SalesLedgerProofs --------------------------
(***************************************************************************)
(* What SalesLedger promises, proved for every number of requests, rows    *)
(* and names, where the connection pool lets one request work at a time.   *)
(*                                                                         *)
(* LedgerTypes: every table and every request keeps its type.              *)
(*                                                                         *)
(* LedgerNoDuplicates, LedgerMoneyHasOwner, LedgerLedgerAgrees: the three  *)
(* invariants.  They rest on Consistent: what a request has read still     *)
(* holds when it commits, because nobody else works meanwhile.             *)
(*                                                                         *)
(* LedgerRefundWithinLimit: the action property about refunds.  It rests   *)
(* on facts about sums over finite sets, which are proved by induction.    *)
(***************************************************************************)
EXTENDS SalesLedger, FiniteSetTheorems, WellFoundedInduction, TLAPS

\* The deployment the theorems are about: SQLite's pool of one connection, and clients that send a
\* name as it is stored, as the pages do.
OneConnection == IsFiniteSet(Requests) /\ Connections = 1 /\ \A n \in Typed : Capital[n] = n

CustomerType == [state : States, name : Names \cup {None}]
BillType == [state : States, customer : Customers \cup {None}, credit : Int]
RecordType ==
  [state : States, customer : Customers \cup {None}, bill : Bills \cup {None}, type : Types,
   net : Int, credit : Int]
ReqType ==
  [op : Ops \cup {"none"}, name : Names \cup {None}, id : Customers \cup Bills \cup Records \cup {None},
   type : Types, amount : Nat, found : Customers \cup {None}]

\* Every table holds rows of its type, and every request stands at a step with well-typed questions.
TypeOK ==
  /\ customer \in [Customers -> CustomerType] /\ bill \in [Bills -> BillType]
  /\ record \in [Records -> RecordType] /\ calls \in [Names -> Nat]
  /\ pc \in [Requests -> Steps] /\ req \in [Requests -> ReqType]
  /\ cut \subseteq Bills

\* One request works at a time.
Alone == \A r, s \in Requests : pc[r] # "idle" /\ pc[s] # "idle" => r = s

Live(c) == c \in Customers /\ customer[c].state = "live"
BillOps == {"createBill", "updateBill"}
RecordOps == {"createRecord", "updateRecord", "payment"}

\* What a request at a step has read still holds.
Consistent(step, q) ==
  /\ step = "idle" => q.op = "none"
  /\ step = "customer" => q.op \in RecordOps \cup {"createCustomer"} /\ q.name \in Typed /\ Matches(q.name) = {}
  /\ step = "limit" => q.op = "payment" /\ Live(q.found)
  /\ step = "row" /\ q.op \in BillOps =>
       q.name \in Typed /\ IF q.found = None THEN Matches(q.name) = {} ELSE Live(q.found)
  /\ step = "row" /\ q.op \in RecordOps => Live(q.found)
  /\ q.op \in {"updateBill", "deleteBill"} => q.id \in Bills /\ bill[q.id].state = "live"
  /\ q.op \in {"updateRecord", "deleteRecord"} => q.id \in Records /\ record[q.id].state = "live"
  /\ step = "row" /\ q.op = "logCall" => q.name \in Names /\ calls[q.name] = 0
  /\ step = "rename" => Live(q.id) /\ q.name \in Typed /\ Matches(q.name) \subseteq {q.id}
  /\ step \in {"records", "bills", "drop"} =>
       /\ q.op \in {"updateCustomer", "deleteCustomer"} /\ Live(q.id)
       /\ q.op = "updateCustomer" => Live(q.found) /\ q.found # q.id
  /\ step \in {"bills", "drop"} =>
       \A x \in Records : record[x].state = "live" => record[x].customer # q.id
  /\ step = "drop" => \A b \in Bills : bill[b].state = "live" => bill[b].customer # q.id

ReadsHold == \A r \in Requests : Consistent(pc[r], req[r])

\* Nobody is between the two tables of a merge or a delete.
Quiet == \A r \in Requests : pc[r] # "bills"
\* A request that begins changes no table.
Untouched == Quiet /\ Quiet' /\ bill' = bill /\ record' = record /\ cut' = cut

WorkInv == TypeOK /\ Alone /\ ReadsHold /\ NoDuplicates /\ MoneyHasOwner

-----------------------------------------------------------------------------
(* One request at a time *)

\* A request begins only when no other is under way.
LEMMA BeginsAlone ==
  ASSUME OneConnection, NEW r \in Requests, NEW step, NEW asked, Begin(r, step, asked)
  PROVE  \A s \in Requests : pc[s] = "idle"
<1> DEFINE Busy == {s \in Requests : pc[s] # "idle"}
<1>1. IsFiniteSet(Busy)
  BY FS_Subset DEF OneConnection
<1>2. Cardinality(Busy) \in Nat /\ Cardinality(Busy) < 1
  BY <1>1, FS_CardinalityType DEF Begin, Free, OneConnection
<1>3. Cardinality(Busy) = 0
  BY <1>2
<1>4. Busy = {}
  BY <1>1, <1>3, FS_EmptySet
<1> QED BY <1>4

\* A request that begins, having read what Consistent says, keeps the invariant.
LEMMA BeginKeeps ==
  ASSUME OneConnection, WorkInv, NEW r \in Requests, NEW step \in Steps \ {"bills"}, NEW asked \in ReqType,
         Begin(r, step, asked), Consistent(step, asked)
  PROVE  WorkInv' /\ Untouched
<1>1. \A s \in Requests : pc[s] = "idle"
  BY BeginsAlone
<1>2. /\ pc' = [pc EXCEPT ![r] = step] /\ req' = [req EXCEPT ![r] = asked]
      /\ customer' = customer /\ bill' = bill /\ record' = record /\ calls' = calls /\ cut' = cut
  BY DEF Begin, tables
<1>3. TypeOK'
  BY <1>2 DEF WorkInv, TypeOK
<1>4. Alone'
  BY <1>1, <1>2 DEF WorkInv, TypeOK, Alone
<1>5. ReadsHold'
  <2>1. ASSUME NEW st, NEW q, Consistent(st, q)
        PROVE  Consistent(st, q)'
    BY <1>2, <2>1 DEF Consistent, Matches, Live
  <2>2. ASSUME NEW s \in Requests, s # r
        PROVE  Consistent(pc[s], req[s])'
    BY <1>2, <2>1, <2>2 DEF WorkInv, ReadsHold, TypeOK, Consistent, Matches, Live
  <2>3. Consistent(pc[r], req[r])'
    BY <1>2 DEF WorkInv, TypeOK, Consistent, Matches, Live
  <2> QED BY <2>2, <2>3 DEF ReadsHold
<1>6. NoDuplicates' /\ MoneyHasOwner'
  BY <1>2 DEF WorkInv, NoDuplicates, MoneyHasOwner
<1>7. Untouched
  BY <1>1, <1>2 DEF Untouched, Quiet, WorkInv, TypeOK
<1> QED BY <1>3, <1>4, <1>5, <1>6, <1>7 DEF WorkInv

\* A request that answers leaves everybody idle, so only the tables are left to look at.
LEMMA AnswerKeeps ==
  ASSUME WorkInv, NEW r \in Requests, pc[r] # "idle", Answer(r)
  PROVE  /\ pc' \in [Requests -> Steps] /\ req' \in [Requests -> ReqType]
         /\ Alone' /\ ReadsHold'
<1>1. \A s \in Requests : s # r => pc[s] = "idle"
  BY DEF WorkInv, Alone
<1>2. pc' = [pc EXCEPT ![r] = "idle"] /\ req' = [req EXCEPT ![r] = NoReq]
  BY DEF Answer, Goto
<1>3. \A s \in Requests : pc'[s] = "idle"
  BY <1>1, <1>2 DEF WorkInv, TypeOK
<1>4. \A s \in Requests : req'[s].op = "none"
  BY <1>1, <1>2 DEF WorkInv, TypeOK, ReadsHold, Consistent, NoReq
<1>5. pc' \in [Requests -> Steps] /\ req' \in [Requests -> ReqType]
  BY <1>2 DEF WorkInv, TypeOK, Steps, ReqType, NoReq, Types
<1>6. Alone'
  BY <1>3 DEF Alone
<1>7. ReadsHold'
  BY <1>3, <1>4 DEF ReadsHold, Consistent, BillOps, RecordOps
<1> QED BY <1>5, <1>6, <1>7

\* A request that goes on is still the only one.
LEMMA GoesOn ==
  ASSUME WorkInv, NEW r \in Requests, pc[r] # "idle", NEW step \in Steps, Goto(r, step),
         NEW q \in ReqType, req' = [req EXCEPT ![r] = q], Consistent(step, q)'
  PROVE  /\ pc' \in [Requests -> Steps] /\ req' \in [Requests -> ReqType]
         /\ Alone' /\ ReadsHold'
<1>1. \A s \in Requests : s # r => pc[s] = "idle"
  BY DEF WorkInv, Alone
<1>2. pc' = [pc EXCEPT ![r] = step]
  BY DEF Goto
<1>3. pc' \in [Requests -> Steps] /\ req' \in [Requests -> ReqType]
  BY <1>2 DEF WorkInv, TypeOK
<1>4. Alone'
  BY <1>1, <1>2 DEF WorkInv, TypeOK, Alone
<1>5. pc'[r] = step /\ req'[r] = q
  BY <1>2 DEF WorkInv, TypeOK
<1>6. \A s \in Requests : s # r => pc'[s] = "idle" /\ req'[s].op = "none"
  BY <1>1, <1>2 DEF WorkInv, TypeOK, ReadsHold, Consistent
<1>7. \A s \in Requests : s # r => Consistent(pc[s], req[s])'
  BY <1>6 DEF Consistent, BillOps, RecordOps
<1>8. Consistent(pc[r], req[r])'
  BY <1>5 DEF Consistent, Matches, Live
<1> QED BY <1>3, <1>4, <1>7, <1>8 DEF ReadsHold

-----------------------------------------------------------------------------
(* The requests begin *)

\* What a lookup by name returns.
LEMMA FoundReads ==
  ASSUME TypeOK, NEW n \in Typed, NEW f \in Found(n)
  PROVE  /\ f \in Customers \cup {None}
         /\ f = None => Matches(n) = {}
         /\ f # None => Live(f) /\ Matches(n) = {f}
<1>1. None \notin Customers
  BY LedgerAssumption
<1>2. CASE Matches(n) = {}
  BY <1>1, <1>2 DEF Found
<1>3. CASE Matches(n) # {}
  <2>1. f \in Matches(n) /\ Matches(n) = {f}
    BY <1>3 DEF Found
  <2> QED BY <1>1, <2>1 DEF Matches, Live
<1> QED BY <1>2, <1>3

LEMMA BillRequestKeeps ==
  ASSUME OneConnection, WorkInv, NEW r \in Requests, BillRequest(r)
  PROVE  WorkInv' /\ Untouched
<1>0. TypeOK /\ Typed \subseteq Names /\ Amounts \subseteq Nat
  BY LedgerAssumption DEF WorkInv
<1>1. ASSUME NEW n \in Typed, NEW type \in SaleTypes, NEW a \in Amounts, CreateBill(r, n, type, a)
      PROVE  WorkInv' /\ Untouched
  <2>1. PICK f \in Found(n) :
          Begin(r, "row", [NoReq EXCEPT !.op = "createBill", !.name = n, !.type = type, !.amount = a, !.found = f])
    BY <1>1 DEF CreateBill
  <2> DEFINE q == [NoReq EXCEPT !.op = "createBill", !.name = n, !.type = type, !.amount = a, !.found = f]
  <2>2. f \in Customers \cup {None} /\ (f = None => Matches(n) = {}) /\ (f # None => Live(f))
    BY <1>0, FoundReads
  <2>3. q \in ReqType
    BY <1>0, <2>2 DEF ReqType, NoReq, Types, SaleTypes, Ops, Finders
  <2>4. Consistent("row", q)
    BY <2>2 DEF Consistent, NoReq, BillOps, RecordOps
  <2>5. Begin(r, "row", q)
    BY <2>1
  <2> HIDE DEF q
  <2> QED BY <2>3, <2>4, <2>5, BeginKeeps DEF Steps
<1>2. ASSUME NEW n \in Typed, NEW type \in SaleTypes, NEW a \in Amounts, NEW b \in Bills, UpdateBill(r, b, n, type, a)
      PROVE  WorkInv' /\ Untouched
  <2>1. PICK f \in Found(n) :
          /\ bill[b].state = "live"
          /\ Begin(r, "row", [NoReq EXCEPT !.op = "updateBill", !.id = b, !.name = n, !.type = type, !.amount = a, !.found = f])
    BY <1>2 DEF UpdateBill
  <2> DEFINE q == [NoReq EXCEPT !.op = "updateBill", !.id = b, !.name = n, !.type = type, !.amount = a, !.found = f]
  <2>2. f \in Customers \cup {None} /\ (f = None => Matches(n) = {}) /\ (f # None => Live(f))
    BY <1>0, FoundReads
  <2>3. q \in ReqType
    BY <1>0, <2>2 DEF ReqType, NoReq, Types, SaleTypes, Ops, Finders
  <2>4. Consistent("row", q)
    BY <2>1, <2>2 DEF Consistent, NoReq, BillOps, RecordOps
  <2>5. Begin(r, "row", q)
    BY <2>1
  <2> HIDE DEF q
  <2> QED BY <2>3, <2>4, <2>5, BeginKeeps DEF Steps
<1>3. ASSUME NEW b \in Bills, DeleteBill(r, b)
      PROVE  WorkInv' /\ Untouched
  <2> DEFINE q == [NoReq EXCEPT !.op = "deleteBill", !.id = b]
  <2>1. q \in ReqType
    BY DEF ReqType, NoReq, Types, Ops, Finders
  <2>2. Consistent("row", q) /\ Begin(r, "row", q)
    BY <1>3 DEF DeleteBill, Consistent, NoReq, BillOps, RecordOps
  <2> HIDE DEF q
  <2> QED BY <2>1, <2>2, BeginKeeps DEF Steps
<1> QED BY <1>1, <1>2, <1>3 DEF BillRequest

\* The sales that save a new customer in a transaction of its own.
LEMMA SaleKeeps ==
  ASSUME OneConnection, WorkInv, NEW r \in Requests, NEW op \in RecordOps, NEW x \in Records \cup {None},
         NEW n \in Typed, NEW type \in Types, NEW a \in Amounts, Sale(r, op, x, n, type, a),
         op = "updateRecord" => x \in Records /\ record[x].state = "live"
  PROVE  WorkInv' /\ Untouched
<1>0. TypeOK /\ Typed \subseteq Names /\ Amounts \subseteq Nat
  BY LedgerAssumption DEF WorkInv
<1>1. PICK f \in Found(n) :
        Begin(r, IF f = None THEN "customer" ELSE IF op = "payment" THEN "limit" ELSE "row",
              [NoReq EXCEPT !.op = op, !.id = x, !.name = n, !.type = type, !.amount = a, !.found = f])
  BY DEF Sale
<1> DEFINE step == IF f = None THEN "customer" ELSE IF op = "payment" THEN "limit" ELSE "row"
           q == [NoReq EXCEPT !.op = op, !.id = x, !.name = n, !.type = type, !.amount = a, !.found = f]
<1>2. f \in Customers \cup {None} /\ (f = None => Matches(n) = {}) /\ (f # None => Live(f))
  BY <1>0, FoundReads
<1>3. q \in ReqType /\ step \in Steps \ {"bills"}
  BY <1>0, <1>2 DEF ReqType, NoReq, Ops, Finders, RecordOps, Steps
<1>4. /\ q.op = op /\ q.id = x /\ q.name = n /\ q.found = f
      /\ step \in {"customer", "limit", "row"} /\ (step = "customer" => f = None)
      /\ (step # "customer" => f # None) /\ (step = "limit" => op = "payment")
  BY DEF NoReq
<1>5. Begin(r, step, q)
  BY <1>1
<1> HIDE DEF q, step
<1>6. Consistent(step, q)
  BY <1>2, <1>4 DEF Consistent, BillOps, RecordOps
<1> QED BY <1>3, <1>5, <1>6, BeginKeeps

LEMMA RecordRequestKeeps ==
  ASSUME OneConnection, WorkInv, NEW r \in Requests, RecordRequest(r)
  PROVE  WorkInv' /\ Untouched
<1>1. ASSUME NEW n \in Typed, NEW type \in SaleTypes, NEW a \in Amounts, CreateRecord(r, n, type, a)
      PROVE  WorkInv' /\ Untouched
  BY <1>1, SaleKeeps DEF CreateRecord, RecordOps, SaleTypes, Types
<1>2. ASSUME NEW n \in Typed, NEW type \in SaleTypes \cup {"PAYMENT"}, NEW a \in Amounts, NEW x \in Records,
             UpdateRecord(r, x, n, type, a)
      PROVE  WorkInv' /\ Untouched
  BY <1>2, SaleKeeps DEF UpdateRecord, RecordOps, SaleTypes, Types
<1>3. ASSUME NEW n \in Typed, NEW type \in Types \ SaleTypes, NEW a \in Amounts, ReceivePayment(r, n, type, a)
      PROVE  WorkInv' /\ Untouched
  BY <1>3, SaleKeeps DEF ReceivePayment, RecordOps, Types
<1>4. ASSUME NEW x \in Records, DeleteRecord(r, x)
      PROVE  WorkInv' /\ Untouched
  <2> DEFINE q == [NoReq EXCEPT !.op = "deleteRecord", !.id = x]
  <2>1. q \in ReqType
    BY DEF ReqType, NoReq, Types, Ops, Finders
  <2>2. Consistent("row", q) /\ Begin(r, "row", q)
    BY <1>4 DEF DeleteRecord, Consistent, NoReq, BillOps, RecordOps
  <2> HIDE DEF q
  <2> QED BY <2>1, <2>2, BeginKeeps DEF Steps
<1> QED BY <1>1, <1>2, <1>3, <1>4 DEF RecordRequest

LEMMA CustomerRequestKeeps ==
  ASSUME OneConnection, WorkInv, NEW r \in Requests, CustomerRequest(r)
  PROVE  WorkInv' /\ Untouched
<1>0. TypeOK /\ Typed \subseteq Names /\ Called \subseteq Names /\ None \notin Customers
  BY LedgerAssumption DEF WorkInv
<1>1. ASSUME NEW n \in Typed, CreateCustomer(r, n)
      PROVE  WorkInv' /\ Untouched
  <2> DEFINE q == [NoReq EXCEPT !.op = "createCustomer", !.name = n]
  <2>1. q \in ReqType
    BY <1>0 DEF ReqType, NoReq, Types, Ops, Finders
  <2>2. None \in Found(n)
    BY <1>1 DEF CreateCustomer
  <2>3. Matches(n) = {}
    BY <1>0, <2>2, FoundReads
  <2>4. Consistent("customer", q) /\ Begin(r, "customer", q)
    BY <1>1, <2>3 DEF CreateCustomer, Consistent, NoReq, BillOps, RecordOps
  <2> HIDE DEF q
  <2> QED BY <2>1, <2>4, BeginKeeps DEF Steps
<1>2. ASSUME NEW c \in Customers, NEW n \in Typed, UpdateCustomer(r, c, n)
      PROVE  WorkInv' /\ Untouched
  <2>1. PICK f \in Found(n) :
          /\ customer[c].state = "live"
          /\ Begin(r, IF f \in {None, c} THEN "rename" ELSE "records",
                   [NoReq EXCEPT !.op = "updateCustomer", !.id = c, !.name = n, !.found = f])
    BY <1>2 DEF UpdateCustomer
  <2> DEFINE step == IF f \in {None, c} THEN "rename" ELSE "records"
             q == [NoReq EXCEPT !.op = "updateCustomer", !.id = c, !.name = n, !.found = f]
  <2>2. f \in Customers \cup {None} /\ (f = None => Matches(n) = {}) /\ (f # None => Live(f) /\ Matches(n) = {f})
    BY <1>0, FoundReads
  <2>3. q \in ReqType /\ step \in Steps \ {"bills"}
    BY <1>0, <2>2 DEF ReqType, NoReq, Types, Ops, Finders, Steps
  <2>4. /\ q.op = "updateCustomer" /\ q.id = c /\ q.name = n /\ q.found = f /\ Live(c)
        /\ step \in {"rename", "records"} /\ (step = "rename" => f \in {None, c})
        /\ (step = "records" => f \notin {None, c})
    BY <2>1 DEF NoReq, Live
  <2>5. Begin(r, step, q)
    BY <2>1
  <2> HIDE DEF q, step
  <2>6. Consistent(step, q)
    BY <2>2, <2>4 DEF Consistent, BillOps, RecordOps
  <2> QED BY <2>3, <2>5, <2>6, BeginKeeps
<1>3. ASSUME NEW n \in Called, LogCall(r, n)
      PROVE  WorkInv' /\ Untouched
  <2> DEFINE q == [NoReq EXCEPT !.op = "logCall", !.name = n]
  <2>1. q \in ReqType
    BY <1>0 DEF ReqType, NoReq, Types, Ops, Finders
  <2>2. Consistent("row", q) /\ Begin(r, "row", q)
    BY <1>0, <1>3 DEF LogCall, Unlogged, Consistent, NoReq, BillOps, RecordOps
  <2> HIDE DEF q
  <2> QED BY <2>1, <2>2, BeginKeeps DEF Steps
<1>4. ASSUME NEW c \in Customers, DeleteCustomer(r, c)
      PROVE  WorkInv' /\ Untouched
  <2> DEFINE q == [NoReq EXCEPT !.op = "deleteCustomer", !.id = c]
  <2>1. q \in ReqType
    BY DEF ReqType, NoReq, Types, Ops, Finders
  <2>2. Consistent("records", q) /\ Begin(r, "records", q)
    BY <1>4 DEF DeleteCustomer, Consistent, NoReq, BillOps, RecordOps, Live
  <2> HIDE DEF q
  <2> QED BY <2>1, <2>2, BeginKeeps DEF Steps
<1> QED BY <1>1, <1>2, <1>3, <1>4 DEF CustomerRequest

-----------------------------------------------------------------------------
(* The requests commit *)

\* Saving a new customer under a name that nobody has.
LEMMA NewCustomerKeeps ==
  ASSUME OneConnection, TypeOK, NoDuplicates, NEW c \in Customers, NEW n \in Typed, Matches(n) = {},
         NewCustomer(c, n)
  PROVE  /\ customer' \in [Customers -> CustomerType]
         /\ customer'[c].state = "live"
         /\ \A d \in Customers : customer[d].state = "live" => customer'[d] = customer[d]
         /\ \A d, e \in Customers : customer'[d].state = "live" /\ customer'[e].state = "live"
                                     /\ customer'[d].name = customer'[e].name => d = e
<1>0. n \in Names /\ Capital[n] = n
  BY LedgerAssumption DEF OneConnection
<1>1. customer[c].state = "absent" /\ customer' = [customer EXCEPT ![c] = [state |-> "live", name |-> n]]
  BY <1>0 DEF NewCustomer
<1>2. customer' \in [Customers -> CustomerType] /\ customer'[c] = [state |-> "live", name |-> n]
  BY <1>0, <1>1 DEF TypeOK, CustomerType, States
<1>3. \A d \in Customers : d # c => customer'[d] = customer[d]
  BY <1>1 DEF TypeOK
<1>4. \A d \in Customers : customer[d].state = "live" => d # c /\ customer[d].name # n
  BY <1>1 DEF Matches
<1>5. ASSUME NEW d \in Customers, NEW e \in Customers, customer'[d].state = "live", customer'[e].state = "live",
             customer'[d].name = customer'[e].name
      PROVE  d = e
  <2>1. CASE d = c \/ e = c
    BY <1>2, <1>3, <1>4, <1>5, <2>1
  <2>2. CASE d # c /\ e # c
    BY <1>3, <1>5, <2>2 DEF NoDuplicates
  <2> QED BY <2>1, <2>2
<1> QED BY <1>2, <1>3, <1>4, <1>5

\* The customer a bill is saved for: the one that was found, or the new one.
LEMMA ForCustomerKeeps ==
  ASSUME OneConnection, WorkInv, NEW r \in Requests, pc[r] = "row", req[r].op \in BillOps,
         NEW c \in Customers, ForCustomer(r, c)
  PROVE  /\ customer' \in [Customers -> CustomerType]
         /\ customer'[c].state = "live"
         /\ \A d \in Customers : customer[d].state = "live" => customer'[d].state = "live"
         /\ \A d, e \in Customers : customer'[d].state = "live" /\ customer'[e].state = "live"
                                     /\ customer'[d].name = customer'[e].name => d = e
<1>1. req[r].name \in Typed /\ IF req[r].found = None THEN Matches(req[r].name) = {} ELSE Live(req[r].found)
  BY DEF WorkInv, ReadsHold, Consistent
<1>2. CASE req[r].found # None
  BY <1>1, <1>2 DEF ForCustomer, Live, WorkInv, TypeOK, NoDuplicates
<1>3. CASE req[r].found = None
  <2>1. NewCustomer(c, req[r].name) /\ Matches(req[r].name) = {}
    BY <1>1, <1>3 DEF ForCustomer
  <2> QED BY <1>1, <2>1, NewCustomerKeeps DEF WorkInv
<1> QED BY <1>2, <1>3

\* What is asked of a commit that ends a request: the tables it leaves behind.
LEMMA AnswerSuffices ==
  ASSUME WorkInv, NEW r \in Requests, pc[r] # "idle", Answer(r),
         customer' \in [Customers -> CustomerType], bill' \in [Bills -> BillType],
         record' \in [Records -> RecordType], calls' \in [Names -> Nat], cut' \subseteq Bills,
         NoDuplicates', MoneyHasOwner'
  PROVE  WorkInv'
BY AnswerKeeps DEF WorkInv, TypeOK

LEMMA CreditType ==
  ASSUME NEW type \in Types, NEW a \in Nat
  PROVE  Credit(type, a) \in Int
BY DEF Credit

LEMMA CreateBillCommitsKeeps ==
  ASSUME OneConnection, WorkInv, NEW r \in Requests, CreateBillCommits(r)
  PROVE  WorkInv'
<1>1. pc[r] = "row" /\ req[r].op \in BillOps /\ Answer(r) /\ calls' = calls /\ cut' = cut
  BY DEF CreateBillCommits, BillOps
<1>2. PICK c \in Customers, b \in Bills, x \in Records :
        /\ ForCustomer(r, c) /\ bill[b].state = "absent" /\ record[x].state = "absent"
        /\ bill' = [bill EXCEPT ![b] =
             [state |-> "live", customer |-> c, credit |-> Credit(req[r].type, req[r].amount)]]
        /\ record' = [record EXCEPT ![x] =
             [state |-> "live", customer |-> c, bill |-> b, type |-> req[r].type, net |-> req[r].amount,
              credit |-> Credit(req[r].type, req[r].amount)]]
  BY DEF CreateBillCommits
<1>3. req[r].type \in Types /\ req[r].amount \in Nat /\ Credit(req[r].type, req[r].amount) \in Int
  BY CreditType DEF WorkInv, TypeOK, ReqType
<1>4. /\ customer' \in [Customers -> CustomerType] /\ customer'[c].state = "live"
      /\ \A d \in Customers : customer[d].state = "live" => customer'[d].state = "live"
      /\ NoDuplicates'
  BY <1>1, <1>2, ForCustomerKeeps DEF NoDuplicates, WorkInv
<1>5. bill' \in [Bills -> BillType] /\ record' \in [Records -> RecordType]
  BY <1>2, <1>3 DEF WorkInv, TypeOK, BillType, RecordType, States
<1>6. MoneyHasOwner'
  <2>1. \A d \in Bills : bill'[d].state = "live" =>
          bill'[d].customer \in Customers /\ customer'[bill'[d].customer].state = "live"
    BY <1>2, <1>4 DEF WorkInv, TypeOK, MoneyHasOwner
  <2>2. \A y \in Records : record'[y].state = "live" =>
          record'[y].customer \in Customers /\ customer'[record'[y].customer].state = "live"
    BY <1>2, <1>4 DEF WorkInv, TypeOK, MoneyHasOwner
  <2> QED BY <2>1, <2>2 DEF MoneyHasOwner
<1> QED BY <1>1, <1>4, <1>5, <1>6, AnswerSuffices DEF WorkInv, TypeOK

LEMMA UpdateBillCommitsKeeps ==
  ASSUME OneConnection, WorkInv, NEW r \in Requests, UpdateBillCommits(r)
  PROVE  WorkInv'
<1>1. pc[r] = "row" /\ req[r].op \in BillOps /\ Answer(r) /\ calls' = calls /\ cut' = cut
  BY DEF UpdateBillCommits, BillOps
<1>2. PICK c \in Customers :
        /\ ForCustomer(r, c)
        /\ bill' = [bill EXCEPT ![req[r].id] =
             [state |-> "live", customer |-> c, credit |-> Credit(req[r].type, req[r].amount)]]
        /\ record' = [x \in Records |->
             IF x \in Invoices(req[r].id)
             THEN [record[x] EXCEPT !.customer = c, !.type = req[r].type, !.net = req[r].amount,
                                    !.credit = Credit(req[r].type, req[r].amount)]
             ELSE record[x]]
  BY DEF UpdateBillCommits, Follow
<1>3. req[r].type \in Types /\ req[r].amount \in Nat /\ Credit(req[r].type, req[r].amount) \in Int
  BY CreditType DEF WorkInv, TypeOK, ReqType
<1>4. /\ customer' \in [Customers -> CustomerType] /\ customer'[c].state = "live"
      /\ \A d \in Customers : customer[d].state = "live" => customer'[d].state = "live"
      /\ NoDuplicates'
  BY <1>1, <1>2, ForCustomerKeeps DEF NoDuplicates, WorkInv
<1>5. bill' \in [Bills -> BillType]
  BY <1>2, <1>3 DEF WorkInv, TypeOK, BillType, States
<1>6. \A x \in Records :
        /\ record'[x] \in RecordType /\ record'[x].state = record[x].state
        /\ record'[x].customer \in {c, record[x].customer}
  <2> TAKE x \in Records
  <2>1. record[x] \in RecordType
    BY DEF WorkInv, TypeOK
  <2>2. CASE x \in Invoices(req[r].id)
    <3>1. record'[x] = [record[x] EXCEPT !.customer = c, !.type = req[r].type, !.net = req[r].amount,
                                         !.credit = Credit(req[r].type, req[r].amount)]
      BY <1>2, <2>2
    <3>2. record'[x] = [state |-> record[x].state, customer |-> c, bill |-> record[x].bill,
                        type |-> req[r].type, net |-> req[r].amount,
                        credit |-> Credit(req[r].type, req[r].amount)]
      BY <2>1, <3>1 DEF RecordType
    <3> QED BY <1>3, <2>1, <3>2 DEF RecordType
  <2>3. CASE x \notin Invoices(req[r].id)
    BY <1>2, <2>1, <2>3
  <2> QED BY <2>2, <2>3
<1>7. record' \in [Records -> RecordType]
  BY <1>2, <1>6
<1>8. MoneyHasOwner'
  <2>1. \A d \in Bills : bill'[d].state = "live" =>
          bill'[d].customer \in Customers /\ customer'[bill'[d].customer].state = "live"
    BY <1>2, <1>4 DEF WorkInv, TypeOK, MoneyHasOwner
  <2>2. \A y \in Records : record'[y].state = "live" =>
          record'[y].customer \in Customers /\ customer'[record'[y].customer].state = "live"
    BY <1>4, <1>6 DEF WorkInv, MoneyHasOwner
  <2> QED BY <2>1, <2>2 DEF MoneyHasOwner
<1> QED BY <1>1, <1>4, <1>5, <1>7, <1>8, AnswerSuffices DEF WorkInv, TypeOK

LEMMA DeleteBillCommitsKeeps ==
  ASSUME OneConnection, WorkInv, NEW r \in Requests, DeleteBillCommits(r)
  PROVE  WorkInv'
<1>1. /\ pc[r] = "row" /\ Answer(r) /\ customer' = customer /\ calls' = calls /\ cut' = cut
      /\ bill' = [bill EXCEPT ![req[r].id] = DeletedBill]
      /\ record' = [x \in Records |-> IF x \in Invoices(req[r].id) THEN DeletedRecord ELSE record[x]]
  BY DEF DeleteBillCommits
<1>2. DeletedBill \in BillType /\ DeletedBill.state = "deleted"
  BY DEF DeletedBill, NoBill, BillType, States
<1>3. DeletedRecord \in RecordType /\ DeletedRecord.state = "deleted"
  BY DEF DeletedRecord, NoRecord, RecordType, States, Types
<1>4. bill' \in [Bills -> BillType] /\ record' \in [Records -> RecordType]
  BY <1>1, <1>2, <1>3 DEF WorkInv, TypeOK
<1>5. NoDuplicates' /\ MoneyHasOwner'
  BY <1>1, <1>2, <1>3 DEF WorkInv, TypeOK, NoDuplicates, MoneyHasOwner
<1> QED BY <1>1, <1>4, <1>5, AnswerSuffices DEF WorkInv, TypeOK

LEMMA SaveCustomerKeeps ==
  ASSUME OneConnection, WorkInv, NEW r \in Requests, SaveCustomer(r)
  PROVE  WorkInv'
<1>1. /\ pc[r] = "customer" /\ bill' = bill /\ record' = record /\ calls' = calls /\ cut' = cut
  BY DEF SaveCustomer
<1>2. PICK c \in Customers :
        /\ NewCustomer(c, req[r].name)
        /\ IF req[r].op = "createCustomer" THEN Answer(r)
           ELSE /\ Goto(r, IF req[r].op = "payment" THEN "limit" ELSE "row")
                /\ req' = [req EXCEPT ![r].found = c]
  BY DEF SaveCustomer
<1>3. /\ req[r].name \in Typed /\ Matches(req[r].name) = {}
      /\ req[r].op \in RecordOps \cup {"createCustomer"}
      /\ req[r].op = "updateRecord" => req[r].id \in Records /\ record[req[r].id].state = "live"
  BY <1>1 DEF WorkInv, ReadsHold, Consistent
<1>4. /\ customer' \in [Customers -> CustomerType] /\ customer'[c].state = "live"
      /\ \A d \in Customers : customer[d].state = "live" => customer'[d] = customer[d]
      /\ NoDuplicates'
  BY <1>1, <1>2, <1>3, NewCustomerKeeps DEF NoDuplicates, WorkInv
<1>5. MoneyHasOwner'
  BY <1>1, <1>4 DEF WorkInv, MoneyHasOwner
<1>6. CASE req[r].op = "createCustomer"
  BY <1>1, <1>2, <1>4, <1>5, <1>6, AnswerSuffices DEF WorkInv, TypeOK
<1>7. CASE req[r].op # "createCustomer"
  <2>1. PICK step \in Steps :
          step \in {"limit", "row"} /\ step = IF req[r].op = "payment" THEN "limit" ELSE "row"
    BY DEF Steps
  <2>2. PICK q \in ReqType :
          q = [req[r] EXCEPT !.found = c] /\ q.op = req[r].op /\ q.id = req[r].id /\ q.found = c
    <3>1. [req[r] EXCEPT !.found = c] \in ReqType
      BY DEF WorkInv, TypeOK, ReqType
    <3> QED BY <3>1 DEF WorkInv, TypeOK, ReqType
  <2>3. Goto(r, step) /\ req' = [req EXCEPT ![r] = q]
    BY <1>2, <1>7, <2>1, <2>2
  <2>4. Consistent(step, q)'
    BY <1>1, <1>3, <1>4, <1>7, <2>1, <2>2 DEF Consistent, Live, BillOps, RecordOps
  <2>5. pc' \in [Requests -> Steps] /\ req' \in [Requests -> ReqType] /\ Alone' /\ ReadsHold'
    BY <1>1, <2>1, <2>2, <2>3, <2>4, GoesOn
  <2> QED BY <1>1, <1>4, <1>5, <2>5 DEF WorkInv, TypeOK
<1> QED BY <1>6, <1>7

LEMMA CheckLimitKeeps ==
  ASSUME OneConnection, WorkInv, NEW r \in Requests, CheckLimit(r)
  PROVE  WorkInv'
<1>1. /\ pc[r] = "limit" /\ customer' = customer /\ bill' = bill /\ record' = record /\ calls' = calls /\ cut' = cut
  BY DEF CheckLimit, tables
<1>2. NoDuplicates' /\ MoneyHasOwner'
  BY <1>1 DEF WorkInv, NoDuplicates, MoneyHasOwner
<1>3. CASE Answer(r)
  BY <1>1, <1>2, <1>3, AnswerSuffices DEF WorkInv, TypeOK
<1>4. CASE Goto(r, "row") /\ req' = req
  <2>1. PICK q \in ReqType : q = req[r] /\ req' = [req EXCEPT ![r] = q]
    BY <1>4 DEF WorkInv, TypeOK
  <2>2. q.op = "payment" /\ Live(q.found)
    BY <1>1, <2>1 DEF WorkInv, ReadsHold, Consistent
  <2>3. Consistent("row", q)'
    BY <1>1, <2>2 DEF Consistent, Live, BillOps, RecordOps
  <2>4. pc' \in [Requests -> Steps] /\ req' \in [Requests -> ReqType] /\ Alone' /\ ReadsHold'
    BY <1>1, <1>4, <2>1, <2>3, GoesOn DEF Steps
  <2> QED BY <1>1, <1>2, <2>4 DEF WorkInv, TypeOK
<1> QED BY <1>3, <1>4 DEF CheckLimit

LEMMA EntryType ==
  ASSUME NEW q \in ReqType
  PROVE  Entry(q) \in RecordType /\ Entry(q).customer = q.found /\ Entry(q).bill = None
BY CreditType DEF Entry, Credit, ReqType, RecordType, States

LEMMA RecordCommitsKeeps ==
  ASSUME OneConnection, WorkInv, NEW r \in Requests, SaveRecord(r) \/ EditRecord(r)
  PROVE  WorkInv'
<1>1. /\ pc[r] = "row" /\ req[r].op \in RecordOps /\ Answer(r) /\ customer' = customer
      /\ bill' = bill /\ calls' = calls
  BY DEF SaveRecord, EditRecord, RecordOps
<1>2. Live(req[r].found) /\ req[r] \in ReqType
  BY <1>1 DEF WorkInv, TypeOK, ReadsHold, Consistent
<1>3. PICK x \in Records, b \in Bills \cup {None} :
        record' = [record EXCEPT ![x] = [Entry(req[r]) EXCEPT !.bill = b]]
  <2>1. CASE SaveRecord(r)
    <3>1. PICK x \in Records : record' = [record EXCEPT ![x] = Entry(req[r])]
      BY <2>1 DEF SaveRecord
    <3>2. Entry(req[r]) = [Entry(req[r]) EXCEPT !.bill = None]
      BY DEF Entry
    <3> QED BY <3>1, <3>2
  <2>2. CASE EditRecord(r)
    <3>1. req[r].op = "updateRecord"
      BY <2>2 DEF EditRecord
    <3>2. req[r].id \in Records
      BY <3>1 DEF WorkInv, ReadsHold, Consistent
    <3>3. record[req[r].id].bill \in Bills \cup {None}
      BY <3>2 DEF WorkInv, TypeOK, RecordType
    <3> QED BY <2>2, <3>2, <3>3 DEF EditRecord
  <2> QED BY <2>1, <2>2
<1> DEFINE e == [Entry(req[r]) EXCEPT !.bill = b]
<1>4. e \in RecordType /\ e.customer = req[r].found
  BY <1>2, EntryType DEF RecordType
<1>5. record' = [record EXCEPT ![x] = e]
  BY <1>3
<1> HIDE DEF e
<1>6. record' \in [Records -> RecordType]
  BY <1>4, <1>5 DEF WorkInv, TypeOK
<1>7. cut' \subseteq Bills
  <2>1. CASE SaveRecord(r)
    BY <2>1 DEF SaveRecord, WorkInv, TypeOK
  <2>2. CASE EditRecord(r)
    <3>1. req[r].id \in Records
      BY <2>2 DEF EditRecord, WorkInv, ReadsHold, Consistent
    <3> QED BY <2>2, <3>1 DEF EditRecord, Parted, WorkInv, TypeOK, RecordType
  <2> QED BY <2>1, <2>2
<1>8. NoDuplicates'
  BY <1>1 DEF WorkInv, NoDuplicates
<1>9. MoneyHasOwner'
  BY <1>1, <1>2, <1>4, <1>5 DEF WorkInv, TypeOK, MoneyHasOwner, Live
<1> QED BY <1>1, <1>6, <1>7, <1>8, <1>9, AnswerSuffices DEF WorkInv, TypeOK

LEMMA DropRecordKeeps ==
  ASSUME OneConnection, WorkInv, NEW r \in Requests, DropRecord(r)
  PROVE  WorkInv'
<1>1. /\ pc[r] = "row" /\ Answer(r) /\ customer' = customer /\ bill' = bill /\ calls' = calls
      /\ record' = [record EXCEPT ![req[r].id] = DeletedRecord] /\ cut' = cut \cup Parted(req[r].id)
  BY DEF DropRecord
<1>2. req[r].id \in Records
  BY DEF DropRecord, WorkInv, ReadsHold, Consistent
<1>3. DeletedRecord \in RecordType /\ DeletedRecord.state = "deleted"
  BY DEF DeletedRecord, NoRecord, RecordType, States, Types
<1>4. record' \in [Records -> RecordType] /\ cut' \subseteq Bills
  BY <1>1, <1>2, <1>3 DEF WorkInv, TypeOK, Parted, RecordType
<1>5. NoDuplicates' /\ MoneyHasOwner'
  BY <1>1, <1>3 DEF WorkInv, TypeOK, NoDuplicates, MoneyHasOwner
<1> QED BY <1>1, <1>4, <1>5, AnswerSuffices DEF WorkInv, TypeOK

LEMMA SaveCallKeeps ==
  ASSUME OneConnection, WorkInv, NEW r \in Requests, SaveCall(r)
  PROVE  WorkInv'
<1>1. /\ pc[r] = "row" /\ Answer(r) /\ customer' = customer /\ bill' = bill /\ record' = record /\ cut' = cut
      /\ calls' = [calls EXCEPT ![req[r].name] = @ + 1]
  BY DEF SaveCall
<1>2. req[r].name \in Names /\ calls[req[r].name] = 0
  BY <1>1 DEF SaveCall, WorkInv, ReadsHold, Consistent
<1>3. calls' \in [Names -> Nat] /\ NoDuplicates'
  BY <1>1, <1>2 DEF WorkInv, TypeOK, NoDuplicates
<1>4. MoneyHasOwner'
  BY <1>1 DEF WorkInv, MoneyHasOwner
<1> QED BY <1>1, <1>3, <1>4, AnswerSuffices DEF WorkInv, TypeOK

LEMMA RenameKeeps ==
  ASSUME OneConnection, WorkInv, NEW r \in Requests, Rename(r)
  PROVE  WorkInv'
<1>1. /\ pc[r] = "rename" /\ Answer(r) /\ bill' = bill /\ record' = record /\ calls' = calls /\ cut' = cut
      /\ customer' = [customer EXCEPT ![req[r].id] = [state |-> "live", name |-> Capital[req[r].name]]]
  BY DEF Rename
<1>2. Live(req[r].id) /\ req[r].name \in Typed /\ Matches(req[r].name) \subseteq {req[r].id}
  BY <1>1 DEF WorkInv, ReadsHold, Consistent
<1>3. req[r].name \in Names /\ Capital[req[r].name] = req[r].name
  BY <1>2, LedgerAssumption DEF OneConnection
<1>4. customer' \in [Customers -> CustomerType]
  BY <1>1, <1>3 DEF WorkInv, TypeOK, CustomerType, States
<1>5. customer'[req[r].id] = [state |-> "live", name |-> req[r].name]
  BY <1>1, <1>2, <1>3 DEF Live, WorkInv, TypeOK
<1>6. \A d \in Customers : d # req[r].id =>
        customer'[d] = customer[d] /\ (customer[d].state = "live" => customer[d].name # req[r].name)
  BY <1>1, <1>2 DEF Live, WorkInv, TypeOK, Matches
<1>7. NoDuplicates'
  <2>1. \A n \in Names : calls'[n] <= 1
    BY <1>1 DEF WorkInv, NoDuplicates
  <2>2. ASSUME NEW d \in Customers, NEW e \in Customers, customer'[d].state = "live",
               customer'[e].state = "live", customer'[d].name = customer'[e].name
        PROVE  d = e
    <3>1. CASE d = req[r].id \/ e = req[r].id
      BY <1>5, <1>6, <2>2, <3>1
    <3>2. CASE d # req[r].id /\ e # req[r].id
      BY <1>6, <2>2, <3>2 DEF WorkInv, NoDuplicates
    <3> QED BY <3>1, <3>2
  <2> QED BY <2>1, <2>2 DEF NoDuplicates
<1>8. \A d \in Customers : customer[d].state = "live" => customer'[d].state = "live"
  BY <1>5, <1>6
<1>9. MoneyHasOwner'
  BY <1>1, <1>8 DEF WorkInv, MoneyHasOwner
<1> QED BY <1>1, <1>4, <1>7, <1>9, AnswerSuffices DEF WorkInv, TypeOK

\* What a merge or a delete of a customer leaves of a record or a bill.
LEMMA TakenRow ==
  ASSUME NEW row, NEW q, NEW deleted, deleted.state = "deleted",
         row \in RecordType \/ row \in BillType,
         q.op \in {"updateCustomer", "deleteCustomer"},
         q.op = "updateCustomer" => q.found \in Customers /\ q.found # q.id
  PROVE  /\ Taken(row, q, deleted).state = "live" =>
              /\ row.state = "live" /\ Taken(row, q, deleted).customer # q.id
              /\ \/ Taken(row, q, deleted).customer = row.customer
                 \/ q.op = "updateCustomer" /\ Taken(row, q, deleted).customer = q.found
         /\ row \in RecordType /\ deleted \in RecordType => Taken(row, q, deleted) \in RecordType
         /\ row \in BillType /\ deleted \in BillType => Taken(row, q, deleted) \in BillType
<1>1. CASE row.state # "live" \/ row.customer # q.id
  BY <1>1 DEF Taken
<1>2. CASE row.state = "live" /\ row.customer = q.id /\ q.op = "deleteCustomer"
  BY <1>2 DEF Taken
<1>3. CASE row.state = "live" /\ row.customer = q.id /\ q.op = "updateCustomer"
  <2>1. Taken(row, q, deleted) = [row EXCEPT !.customer = q.found]
    BY <1>3 DEF Taken
  <2> QED BY <1>3, <2>1 DEF RecordType, BillType
<1> QED BY <1>1, <1>2, <1>3

LEMMA TakeRecordsKeeps ==
  ASSUME OneConnection, WorkInv, NEW r \in Requests, TakeRecords(r)
  PROVE  WorkInv'
<1>1. /\ pc[r] = "records" /\ Goto(r, "bills") /\ customer' = customer /\ bill' = bill /\ calls' = calls
      /\ req' = req /\ cut' = cut /\ record' = [x \in Records |-> Taken(record[x], req[r], DeletedRecord)]
  BY DEF TakeRecords
<1>0. PICK q \in ReqType : q = req[r]
  BY DEF WorkInv, TypeOK
<1>2. /\ req' = [req EXCEPT ![r] = q] /\ Live(q.id)
      /\ q.op \in {"updateCustomer", "deleteCustomer"}
      /\ q.op = "updateCustomer" => Live(q.found) /\ q.found # q.id
  BY <1>0, <1>1 DEF WorkInv, TypeOK, ReadsHold, Consistent
<1>3. DeletedRecord \in RecordType /\ DeletedRecord.state = "deleted"
  BY DEF DeletedRecord, NoRecord, RecordType, States, Types
<1>4. record' = [x \in Records |-> Taken(record[x], q, DeletedRecord)]
  BY <1>0, <1>1
<1>5. \A x \in Records :
        /\ record'[x] \in RecordType
        /\ record'[x].state = "live" =>
             /\ record[x].state = "live" /\ record'[x].customer # q.id
             /\ \/ record'[x].customer = record[x].customer
                \/ q.op = "updateCustomer" /\ record'[x].customer = q.found
  <2> TAKE x \in Records
  <2>1. record[x] \in RecordType
    BY DEF WorkInv, TypeOK
  <2> QED BY <1>2, <1>3, <1>4, <2>1, TakenRow DEF Live
<1>6. Consistent("bills", q)'
  BY <1>1, <1>2, <1>5 DEF Consistent, Live, BillOps, RecordOps
<1>7. pc' \in [Requests -> Steps] /\ req' \in [Requests -> ReqType] /\ Alone' /\ ReadsHold'
  BY <1>1, <1>2, <1>6, GoesOn DEF Steps
<1>8. record' \in [Records -> RecordType]
  BY <1>4, <1>5
<1>9. NoDuplicates' /\ MoneyHasOwner'
  BY <1>1, <1>2, <1>5 DEF WorkInv, NoDuplicates, MoneyHasOwner, Live
<1> QED BY <1>1, <1>7, <1>8, <1>9 DEF WorkInv, TypeOK

LEMMA TakeBillsKeeps ==
  ASSUME OneConnection, WorkInv, NEW r \in Requests, TakeBills(r)
  PROVE  WorkInv'
<1>1. /\ pc[r] = "bills" /\ Goto(r, "drop") /\ customer' = customer /\ record' = record /\ calls' = calls
      /\ req' = req /\ cut' = cut /\ bill' = [b \in Bills |-> Taken(bill[b], req[r], DeletedBill)]
  BY DEF TakeBills
<1>0. PICK q \in ReqType : q = req[r]
  BY DEF WorkInv, TypeOK
<1>2. /\ req' = [req EXCEPT ![r] = q] /\ Live(q.id)
      /\ q.op \in {"updateCustomer", "deleteCustomer"}
      /\ q.op = "updateCustomer" => Live(q.found) /\ q.found # q.id
      /\ \A x \in Records : record[x].state = "live" => record[x].customer # q.id
  BY <1>0, <1>1 DEF WorkInv, TypeOK, ReadsHold, Consistent
<1>3. DeletedBill \in BillType /\ DeletedBill.state = "deleted"
  BY DEF DeletedBill, NoBill, BillType, States
<1>4. bill' = [b \in Bills |-> Taken(bill[b], q, DeletedBill)]
  BY <1>0, <1>1
<1>5. \A b \in Bills :
        /\ bill'[b] \in BillType
        /\ bill'[b].state = "live" =>
             /\ bill[b].state = "live" /\ bill'[b].customer # q.id
             /\ \/ bill'[b].customer = bill[b].customer
                \/ q.op = "updateCustomer" /\ bill'[b].customer = q.found
  <2> TAKE b \in Bills
  <2>1. bill[b] \in BillType
    BY DEF WorkInv, TypeOK
  <2> QED BY <1>2, <1>3, <1>4, <2>1, TakenRow DEF Live
<1>6. Consistent("drop", q)'
  BY <1>1, <1>2, <1>5 DEF Consistent, Live, BillOps, RecordOps
<1>7. pc' \in [Requests -> Steps] /\ req' \in [Requests -> ReqType] /\ Alone' /\ ReadsHold'
  BY <1>1, <1>2, <1>6, GoesOn DEF Steps
<1>8. bill' \in [Bills -> BillType]
  BY <1>4, <1>5
<1>9. NoDuplicates' /\ MoneyHasOwner'
  BY <1>1, <1>2, <1>5 DEF WorkInv, NoDuplicates, MoneyHasOwner, Live
<1> QED BY <1>1, <1>7, <1>8, <1>9 DEF WorkInv, TypeOK

LEMMA DropCustomerKeeps ==
  ASSUME OneConnection, WorkInv, NEW r \in Requests, DropCustomer(r)
  PROVE  WorkInv'
<1>1. /\ pc[r] = "drop" /\ Answer(r) /\ bill' = bill /\ record' = record /\ calls' = calls /\ cut' = cut
      /\ customer' = [customer EXCEPT ![req[r].id].state = "deleted"]
  BY DEF DropCustomer
<1>2. /\ Live(req[r].id)
      /\ \A x \in Records : record[x].state = "live" => record[x].customer # req[r].id
      /\ \A b \in Bills : bill[b].state = "live" => bill[b].customer # req[r].id
  BY <1>1 DEF WorkInv, ReadsHold, Consistent
<1>3. /\ customer' \in [Customers -> CustomerType] /\ customer'[req[r].id].state = "deleted"
      /\ \A d \in Customers : d # req[r].id => customer'[d] = customer[d]
  BY <1>1, <1>2 DEF Live, WorkInv, TypeOK, CustomerType, States
<1>4. NoDuplicates'
  BY <1>1, <1>3 DEF WorkInv, NoDuplicates
<1>5. MoneyHasOwner'
  BY <1>1, <1>2, <1>3 DEF WorkInv, MoneyHasOwner
<1> QED BY <1>1, <1>3, <1>4, <1>5, AnswerSuffices DEF WorkInv, TypeOK

LEMMA AbortKeeps ==
  ASSUME WorkInv, NEW r \in Requests, Abort(r)
  PROVE  WorkInv'
<1>1. /\ pc[r] # "idle" /\ Answer(r) /\ customer' = customer /\ bill' = bill /\ record' = record
      /\ calls' = calls /\ cut' = cut \cup Between(r)
  BY DEF Abort, tables
<1>2. cut' \subseteq Bills
  BY <1>1 DEF Between, WorkInv, TypeOK
<1>3. NoDuplicates' /\ MoneyHasOwner'
  BY <1>1 DEF WorkInv, NoDuplicates, MoneyHasOwner
<1> QED BY <1>1, <1>2, <1>3, AnswerSuffices DEF WorkInv, TypeOK

-----------------------------------------------------------------------------
(* The theorems about one connection *)

LEMMA InitWork == Init => WorkInv
<1> SUFFICES ASSUME Init PROVE WorkInv
  OBVIOUS
<1>1. TypeOK
  BY DEF Init, TypeOK, CustomerType, BillType, RecordType, ReqType, States, Types, Steps,
         NoCustomer, NoBill, NoRecord, NoReq
<1>2. Alone /\ ReadsHold
  BY DEF Init, Alone, ReadsHold, Consistent, NoReq, BillOps, RecordOps
<1>3. NoDuplicates /\ MoneyHasOwner
  BY DEF Init, NoDuplicates, MoneyHasOwner, NoCustomer, NoBill, NoRecord
<1> QED BY <1>1, <1>2, <1>3 DEF WorkInv

LEMMA StepWork == OneConnection /\ WorkInv /\ [Next]_vars => WorkInv'
<1> SUFFICES ASSUME OneConnection, WorkInv, [Next]_vars PROVE WorkInv'
  OBVIOUS
<1>1. CASE UNCHANGED vars
  BY <1>1 DEF vars, WorkInv, TypeOK, Alone, ReadsHold, Consistent, Matches, Live, NoDuplicates, MoneyHasOwner
<1>2. ASSUME NEW r \in Requests, Commits(r)
      PROVE  WorkInv'
  BY <1>2, CreateBillCommitsKeeps, UpdateBillCommitsKeeps, DeleteBillCommitsKeeps, SaveCustomerKeeps,
     CheckLimitKeeps, RecordCommitsKeeps, DropRecordKeeps, SaveCallKeeps, RenameKeeps, TakeRecordsKeeps,
     TakeBillsKeeps, DropCustomerKeeps DEF Commits
<1> QED BY <1>1, <1>2, BillRequestKeeps, RecordRequestKeeps, CustomerRequestKeeps, AbortKeeps DEF Next

\* With one connection, every reachable state satisfies the whole invariant.
LEMMA AlwaysWork ==
  ASSUME OneConnection
  PROVE  Spec => []WorkInv
<1>1. WorkInv /\ [Next]_vars => WorkInv'
  BY StepWork
<1> QED BY <1>1, InitWork, PTL DEF Spec

\* Type correctness of tables and requests, with a pool of one connection.
THEOREM LedgerTypes ==
  ASSUME OneConnection
  PROVE  Spec => []TypeOK
<1>1. WorkInv => TypeOK
  BY DEF WorkInv
<1> QED BY <1>1, AlwaysWork, PTL

\* With a pool of one connection and names sent as they are stored, no name gets a second live
\* customer and no customer a second call record, whatever requests come and wherever they die.
THEOREM LedgerNoDuplicates ==
  ASSUME OneConnection
  PROVE  Spec => []NoDuplicates
<1>1. WorkInv => NoDuplicates
  BY DEF WorkInv
<1> QED BY <1>1, AlwaysWork, PTL

\* With a pool of one connection no live bill or record belongs to a deleted customer, though a
\* merge or a delete of a customer commits table by table and may die in between.
THEOREM LedgerMoneyHasOwner ==
  ASSUME OneConnection
  PROVE  Spec => []MoneyHasOwner
<1>1. WorkInv => MoneyHasOwner
  BY DEF WorkInv
<1> QED BY <1>1, AlwaysWork, PTL

-----------------------------------------------------------------------------
(* Bills and ledger agree *)

\* The ledger tells one record of the bill, of that customer and with the bill's debt.
Told(b, c) ==
  \E x \in Records : Invoices(b) = {x} /\ record[x].customer = c /\ record[x].credit = bill[b].credit
Agrees(b) ==
  /\ bill[b].state = "live" => Told(b, bill[b].customer)
  /\ bill[b].state # "live" => Invoices(b) = {}
AllAgree == \A b \in Bills \ cut : Agrees(b)

\* Between the two tables of a merge or a delete the ledger is ahead of the bills.
Settling ==
  \A r \in Requests : pc[r] = "bills" =>
    \A b \in Between(r) \ cut :
      IF req[r].op = "deleteCustomer" THEN Invoices(b) = {} ELSE Told(b, req[r].found)

LedgerInv == WorkInv /\ LedgerAgrees /\ Settling

\* Away from that point every bill that was not parted agrees.
LEMMA QuietLedger == Quiet => (LedgerAgrees <=> AllAgree) /\ Settling
<1> SUFFICES ASSUME Quiet PROVE (LedgerAgrees <=> AllAgree) /\ Settling
  OBVIOUS
<1>1. UNION {Between(r) : r \in Requests} = {}
  BY DEF Quiet, Between
<1>2. Bills \ (cut \cup UNION {Between(r) : r \in Requests}) = Bills \ cut
  BY <1>1
<1>3. LedgerAgrees <=> AllAgree
  BY <1>2 DEF LedgerAgrees, AllAgree, Agrees, Told
<1> QED BY <1>3 DEF Settling, Quiet

LEMMA BetweenOne ==
  ASSUME WorkInv, NEW r \in Requests, pc[r] = "bills"
  PROVE  UNION {Between(s) : s \in Requests} = Between(r)
BY DEF WorkInv, Alone, Between

\* The other commits happen while nobody is there.
LEMMA QuietCommit ==
  ASSUME OneConnection, WorkInv, NEW r \in Requests, Commits(r), pc[r] \notin {"records", "bills"}
  PROVE  Quiet /\ Quiet'
<1>1. Quiet
  BY DEF WorkInv, Alone, Quiet, Commits, CreateBillCommits, UpdateBillCommits, DeleteBillCommits, SaveCustomer,
         CheckLimit, SaveRecord, EditRecord, DropRecord, SaveCall, Rename, TakeRecords, TakeBills, DropCustomer
<1>2. PICK step \in {"idle", "limit", "row"} : pc' = [pc EXCEPT ![r] = step]
  BY DEF Commits, CreateBillCommits, UpdateBillCommits, DeleteBillCommits, SaveCustomer, CheckLimit, SaveRecord,
         EditRecord, DropRecord, SaveCall, Rename, TakeRecords, TakeBills, DropCustomer, Answer, Goto
<1> QED BY <1>1, <1>2 DEF Quiet, WorkInv, TypeOK

LEMMA BillCommitsAgree ==
  ASSUME OneConnection, WorkInv, WorkInv', AllAgree, NEW r \in Requests,
         CreateBillCommits(r) \/ UpdateBillCommits(r) \/ DeleteBillCommits(r)
  PROVE  AllAgree'
<1>0. None \notin Bills
  BY LedgerAssumption
<1>1. CASE CreateBillCommits(r)
  <2>1. PICK c \in Customers, b \in Bills, x \in Records :
          /\ bill[b].state = "absent" /\ record[x].state = "absent"
          /\ bill' = [bill EXCEPT ![b] =
               [state |-> "live", customer |-> c, credit |-> Credit(req[r].type, req[r].amount)]]
          /\ record' = [record EXCEPT ![x] =
               [state |-> "live", customer |-> c, bill |-> b, type |-> req[r].type, net |-> req[r].amount,
                credit |-> Credit(req[r].type, req[r].amount)]]
          /\ cut' = cut
    BY <1>1 DEF CreateBillCommits
  <2>2. /\ bill'[b].state = "live" /\ bill'[b].customer = c /\ record'[x].customer = c
        /\ record'[x].credit = bill'[b].credit /\ record'[x].state = "live" /\ record'[x].bill = b
        /\ \A d \in Bills : d # b => bill'[d] = bill[d]
        /\ \A y \in Records : y # x => record'[y] = record[y]
    BY <2>1 DEF WorkInv, TypeOK
  <2>3. ASSUME NEW d \in Bills \ cut, d # b
        PROVE  Agrees(d)'
    <3>1. Invoices(d)' = Invoices(d) /\ x \notin Invoices(d)
      BY <2>1, <2>2, <2>3 DEF Invoices
    <3>2. Agrees(d)
      BY <2>3 DEF AllAgree
    <3> QED BY <2>2, <2>3, <3>1, <3>2 DEF Agrees, Told
  <2>4. ASSUME b \notin cut
        PROVE  Agrees(b)'
    <3>1. Invoices(b) = {}
      BY <2>1, <2>4 DEF AllAgree, Agrees
    <3>2. Invoices(b)' = {x}
      BY <2>2, <3>1 DEF Invoices
    <3> QED BY <2>2, <3>2 DEF Agrees, Told
  <2> QED BY <2>1, <2>3, <2>4 DEF AllAgree
<1>2. CASE UpdateBillCommits(r)
  <2>1. PICK c \in Customers :
          /\ bill' = [bill EXCEPT ![req[r].id] =
               [state |-> "live", customer |-> c, credit |-> Credit(req[r].type, req[r].amount)]]
          /\ record' = [x \in Records |->
               IF x \in Invoices(req[r].id)
               THEN [record[x] EXCEPT !.customer = c, !.type = req[r].type, !.net = req[r].amount,
                                      !.credit = Credit(req[r].type, req[r].amount)]
               ELSE record[x]]
          /\ cut' = cut
    BY <1>2 DEF UpdateBillCommits, Follow
  <2>2. PICK b \in Bills : b = req[r].id /\ bill[b].state = "live"
    BY <1>2 DEF UpdateBillCommits, WorkInv, ReadsHold, Consistent
  <2>3. \A x \in Records : x \in Invoices(b) =>
          /\ record'[x].state = record[x].state /\ record'[x].bill = record[x].bill
          /\ record'[x].customer = c /\ record'[x].credit = Credit(req[r].type, req[r].amount)
    <3> TAKE x \in Records
    <3> HAVE x \in Invoices(b)
    <3>1. record'[x] = [record[x] EXCEPT !.customer = c, !.type = req[r].type, !.net = req[r].amount,
                                         !.credit = Credit(req[r].type, req[r].amount)]
      BY <2>1, <2>2
    <3>2. record[x] \in RecordType
      BY DEF WorkInv, TypeOK
    <3> QED BY <3>1, <3>2 DEF RecordType
  <2>4. \A x \in Records : x \notin Invoices(b) => record'[x] = record[x]
    BY <2>1, <2>2
  <2>5. \A d \in Bills : Invoices(d)' = Invoices(d)
    BY <2>3, <2>4 DEF Invoices
  <2>6. /\ bill'[b].state = "live" /\ bill'[b].customer = c
        /\ bill'[b].credit = Credit(req[r].type, req[r].amount)
        /\ \A d \in Bills : d # b => bill'[d] = bill[d]
    BY <2>1, <2>2 DEF WorkInv, TypeOK
  <2>7. ASSUME NEW d \in Bills \ cut, d # b
        PROVE  Agrees(d)'
    <3>1. Agrees(d) /\ \A x \in Invoices(d) : record'[x] = record[x]
      BY <2>4, <2>7 DEF AllAgree, Invoices
    <3> QED BY <2>5, <2>6, <2>7, <3>1 DEF Agrees, Told
  <2>8. ASSUME b \notin cut
        PROVE  Agrees(b)'
    <3>1. PICK x \in Records : Invoices(b) = {x}
      BY <2>2, <2>8 DEF AllAgree, Agrees, Told
    <3> QED BY <2>3, <2>5, <2>6, <3>1 DEF Agrees, Told
  <2> QED BY <2>1, <2>7, <2>8 DEF AllAgree
<1>3. CASE DeleteBillCommits(r)
  <2>1. /\ bill' = [bill EXCEPT ![req[r].id] = DeletedBill] /\ cut' = cut
        /\ record' = [x \in Records |-> IF x \in Invoices(req[r].id) THEN DeletedRecord ELSE record[x]]
    BY <1>3 DEF DeleteBillCommits
  <2>2. PICK b \in Bills : b = req[r].id
    BY <1>3 DEF DeleteBillCommits, WorkInv, ReadsHold, Consistent
  <2>3. DeletedBill.state = "deleted" /\ DeletedRecord.state = "deleted"
    BY DEF DeletedBill, NoBill, DeletedRecord, NoRecord
  <2>4. \A d \in Bills : IF d = b THEN bill'[d].state = "deleted" /\ Invoices(d)' = {}
                         ELSE bill'[d] = bill[d] /\ Invoices(d)' = Invoices(d)
    BY <2>1, <2>2, <2>3 DEF Invoices, WorkInv, TypeOK
  <2>5. \A d \in Bills : d # b => \A x \in Invoices(d) : record'[x] = record[x]
    BY <2>1, <2>2 DEF Invoices
  <2> QED BY <2>1, <2>4, <2>5 DEF AllAgree, Agrees, Told
<1> QED BY <1>1, <1>2, <1>3

LEMMA RecordCommitsAgree ==
  ASSUME OneConnection, WorkInv, AllAgree, NEW r \in Requests, SaveRecord(r) \/ EditRecord(r) \/ DropRecord(r)
  PROVE  AllAgree'
<1>0. None \notin Bills
  BY LedgerAssumption
<1>1. bill' = bill
  BY DEF SaveRecord, EditRecord, DropRecord
\* The record that changes belonged to no bill, or to one that is parted from it now.
<1>2. PICK x \in Records :
        /\ \A y \in Records : y # x => record'[y] = record[y]
        /\ cut \subseteq cut'
        /\ \A b \in Bills \ cut' :
             /\ ~(record[x].state = "live" /\ record[x].bill = b)
             /\ ~(record'[x].state = "live" /\ record'[x].bill = b)
  <2>1. CASE SaveRecord(r)
    <3>1. PICK x \in Records : record[x].state = "absent" /\ record' = [record EXCEPT ![x] = Entry(req[r])]
      BY <2>1 DEF SaveRecord
    <3>2. record'[x].bill = None
      BY <3>1 DEF Entry, WorkInv, TypeOK
    <3> QED BY <1>0, <2>1, <3>1, <3>2 DEF SaveRecord, WorkInv, TypeOK
  <2>2. CASE EditRecord(r)
    <3>1. PICK x \in Records : x = req[r].id
      BY <2>2 DEF EditRecord, WorkInv, ReadsHold, Consistent
    <3>2. PICK b \in {record[x].bill, None} : record' = [record EXCEPT ![x] = [Entry(req[r]) EXCEPT !.bill = b]]
      BY <2>2, <3>1 DEF EditRecord
    <3>3. record'[x].bill \in {record[x].bill, None}
      BY <3>2 DEF Entry, WorkInv, TypeOK
    <3>4. cut' = cut \cup Parted(x)
      BY <2>2, <3>1 DEF EditRecord
    <3> QED BY <1>0, <3>2, <3>3, <3>4 DEF Parted, WorkInv, TypeOK
  <2>3. CASE DropRecord(r)
    <3>1. PICK x \in Records : x = req[r].id
      BY <2>3 DEF DropRecord, WorkInv, ReadsHold, Consistent
    <3>2. record' = [record EXCEPT ![x] = DeletedRecord] /\ cut' = cut \cup Parted(x)
      BY <2>3, <3>1 DEF DropRecord
    <3>3. record'[x].state = "deleted"
      BY <3>2 DEF DeletedRecord, NoRecord, WorkInv, TypeOK
    <3> QED BY <1>0, <3>2, <3>3 DEF Parted, WorkInv, TypeOK
  <2> QED BY <2>1, <2>2, <2>3
<1>3. \A b \in Bills \ cut' : Invoices(b)' = Invoices(b) /\ \A y \in Invoices(b) : record'[y] = record[y]
  BY <1>2 DEF Invoices
<1> QED BY <1>1, <1>2, <1>3 DEF AllAgree, Agrees, Told

LEMMA TakeRecordsAgrees ==
  ASSUME OneConnection, LedgerInv, WorkInv', NEW r \in Requests, TakeRecords(r)
  PROVE  LedgerAgrees' /\ Settling'
<1>1. /\ pc[r] = "records" /\ pc' = [pc EXCEPT ![r] = "bills"] /\ bill' = bill /\ req' = req /\ cut' = cut
      /\ record' = [x \in Records |-> Taken(record[x], req[r], DeletedRecord)]
  BY DEF TakeRecords, Goto
<1>2. PICK q \in ReqType : q = req[r] /\ q = req'[r] /\ q.op \in {"updateCustomer", "deleteCustomer"}
  BY <1>1 DEF LedgerInv, WorkInv, TypeOK, ReadsHold, Consistent
<1>3. AllAgree
  <2>1. Quiet
    BY <1>1 DEF LedgerInv, WorkInv, Alone, Quiet
  <2> QED BY <2>1, QuietLedger DEF LedgerInv
<1>4. \A x \in Records :
        /\ record[x].state # "live" \/ record[x].customer # q.id => record'[x] = record[x]
        /\ record[x].state = "live" /\ record[x].customer = q.id =>
             IF q.op = "deleteCustomer" THEN record'[x].state = "deleted"
             ELSE /\ record'[x].state = "live" /\ record'[x].customer = q.found
                  /\ record'[x].bill = record[x].bill /\ record'[x].credit = record[x].credit
  <2> TAKE x \in Records
  <2>1. record'[x] = Taken(record[x], q, DeletedRecord) /\ record[x] \in RecordType
    BY <1>1, <1>2 DEF LedgerInv, WorkInv, TypeOK
  <2>2. DeletedRecord.state = "deleted"
    BY DEF DeletedRecord, NoRecord
  <2> QED BY <2>1, <2>2 DEF Taken, RecordType
<1>5. pc'[r] = "bills" /\ UNION {Between(s) : s \in Requests}' = Between(r)'
  <2>1. pc'[r] = "bills" /\ \A s \in Requests : s # r => pc'[s] # "bills"
    BY <1>1 DEF WorkInv, TypeOK, LedgerInv, Alone
  <2> QED BY <2>1 DEF Between
<1>6. Between(r)' = {b \in Bills : bill[b].state = "live" /\ bill[b].customer = q.id}
  BY <1>1, <1>2, <1>5 DEF Between
<1>7. ASSUME NEW b \in Bills \ cut, b \notin Between(r)'
      PROVE  Agrees(b)'
  <2>1. Agrees(b)
    BY <1>3, <1>7 DEF AllAgree
  <2>2. CASE bill[b].state = "live"
    <3>1. PICK x \in Records :
            Invoices(b) = {x} /\ record[x].customer = bill[b].customer /\ record[x].credit = bill[b].credit
      BY <2>1, <2>2 DEF Agrees, Told
    <3>2. record'[x] = record[x]
      BY <1>4, <1>6, <1>7, <2>2, <3>1
    <3>3. Invoices(b)' = {x}
      BY <1>4, <3>1, <3>2 DEF Invoices
    <3> QED BY <1>1, <2>2, <3>1, <3>2, <3>3 DEF Agrees, Told
  <2>3. CASE bill[b].state # "live"
    <3>1. Invoices(b) = {}
      BY <2>1, <2>3 DEF Agrees
    <3>2. Invoices(b)' = {}
      BY <1>4, <3>1 DEF Invoices
    <3> QED BY <1>1, <2>3, <3>2 DEF Agrees
  <2> QED BY <2>2, <2>3
<1>8. LedgerAgrees'
  BY <1>1, <1>5, <1>7 DEF LedgerAgrees, Agrees, Told
<1>9. ASSUME NEW b \in Bills \ cut, b \in Between(r)'
      PROVE  IF q.op = "deleteCustomer" THEN Invoices(b)' = {} ELSE Told(b, q.found)'
  <2>1. PICK x \in Records :
          Invoices(b) = {x} /\ record[x].customer = q.id /\ record[x].credit = bill[b].credit
    BY <1>3, <1>6, <1>9 DEF AllAgree, Agrees, Told
  <2>2. record[x].state = "live" /\ record[x].bill = b
    BY <2>1 DEF Invoices
  <2>3. CASE q.op = "deleteCustomer"
    <3>1. Invoices(b)' = {}
      BY <1>4, <2>1, <2>2, <2>3 DEF Invoices
    <3> QED BY <2>3, <3>1
  <2>4. CASE q.op # "deleteCustomer"
    <3>1. Invoices(b)' = {x} /\ record'[x].customer = q.found /\ record'[x].credit = bill'[b].credit
      BY <1>1, <1>4, <2>1, <2>2, <2>4 DEF Invoices
    <3> QED BY <2>4, <3>1 DEF Told
  <2> QED BY <2>3, <2>4
<1>10. Settling'
  <2>1. \A s \in Requests : pc'[s] = "bills" => s = r
    BY <1>1 DEF WorkInv, TypeOK, LedgerInv, Alone
  <2> QED BY <1>1, <1>2, <1>9, <2>1 DEF Settling, Between, Told
<1> QED BY <1>8, <1>10

LEMMA TakeBillsAgrees ==
  ASSUME OneConnection, LedgerInv, WorkInv', NEW r \in Requests, TakeBills(r)
  PROVE  AllAgree' /\ Quiet'
<1>1. /\ pc[r] = "bills" /\ pc' = [pc EXCEPT ![r] = "drop"] /\ record' = record /\ cut' = cut
      /\ bill' = [b \in Bills |-> Taken(bill[b], req[r], DeletedBill)]
  BY DEF TakeBills, Goto
<1>2. PICK q \in ReqType : q = req[r] /\ q.op \in {"updateCustomer", "deleteCustomer"}
  BY <1>1 DEF LedgerInv, WorkInv, TypeOK, ReadsHold, Consistent
<1>3. Quiet'
  BY <1>1 DEF LedgerInv, WorkInv, TypeOK, Alone, Quiet
<1>4. UNION {Between(s) : s \in Requests} = Between(r)
  BY <1>1, BetweenOne DEF LedgerInv
<1>5. \A b \in Bills : Invoices(b)' = Invoices(b)
  BY <1>1 DEF Invoices
<1>6. ASSUME NEW b \in Bills \ cut, b \notin Between(r)
      PROVE  Agrees(b)'
  <2>1. Agrees(b)
    BY <1>4, <1>6 DEF LedgerInv, LedgerAgrees, Agrees, Told
  <2>2. bill'[b] = bill[b]
    BY <1>1, <1>2, <1>6 DEF Between, Taken
  <2> QED BY <1>1, <1>5, <2>1, <2>2 DEF Agrees, Told
<1>7. ASSUME NEW b \in Bills \ cut, b \in Between(r)
      PROVE  Agrees(b)'
  <2>1. bill[b].state = "live" /\ bill[b].customer = q.id /\ bill[b] \in BillType
    BY <1>1, <1>2, <1>7 DEF Between, LedgerInv, WorkInv, TypeOK
  <2>2. IF q.op = "deleteCustomer" THEN Invoices(b) = {} ELSE Told(b, q.found)
    BY <1>1, <1>2, <1>7 DEF LedgerInv, Settling
  <2>3. CASE q.op = "deleteCustomer"
    <3>1. bill'[b].state = "deleted"
      BY <1>1, <1>2, <2>1, <2>3 DEF Taken, DeletedBill, NoBill
    <3> QED BY <1>5, <2>2, <2>3, <3>1 DEF Agrees
  <2>4. CASE q.op # "deleteCustomer"
    <3>1. bill'[b] = [bill[b] EXCEPT !.customer = q.found]
      BY <1>1, <1>2, <2>1, <2>4 DEF Taken
    <3>2. bill'[b].state = "live" /\ bill'[b].customer = q.found /\ bill'[b].credit = bill[b].credit
      BY <2>1, <3>1 DEF BillType
    <3> QED BY <1>1, <1>5, <2>2, <2>4, <3>2 DEF Agrees, Told
  <2> QED BY <2>3, <2>4
<1> QED BY <1>1, <1>3, <1>6, <1>7 DEF AllAgree

LEMMA AbortAgrees ==
  ASSUME LedgerInv, NEW r \in Requests, Abort(r)
  PROVE  AllAgree' /\ Quiet'
<1>1. /\ pc[r] # "idle" /\ pc' = [pc EXCEPT ![r] = "idle"] /\ bill' = bill /\ record' = record
      /\ cut' = cut \cup Between(r)
  BY DEF Abort, tables, Answer, Goto
<1>2. Quiet'
  BY <1>1 DEF LedgerInv, WorkInv, TypeOK, Alone, Quiet
<1>3. UNION {Between(s) : s \in Requests} = Between(r)
  BY <1>1 DEF LedgerInv, WorkInv, Alone, Between
<1>4. \A b \in Bills \ cut' : Agrees(b)
  BY <1>1, <1>3 DEF LedgerInv, LedgerAgrees, Agrees, Told
<1> QED BY <1>1, <1>2, <1>4 DEF AllAgree, Agrees, Told, Invoices

LEMMA InitLedger == Init => LedgerInv
<1> SUFFICES ASSUME Init PROVE LedgerInv
  OBVIOUS
<1>1. Quiet /\ AllAgree
  BY DEF Init, Quiet, AllAgree, Agrees, Invoices, NoBill, NoRecord
<1> QED BY <1>1, InitWork, QuietLedger DEF LedgerInv

LEMMA StepLedger == OneConnection /\ LedgerInv /\ [Next]_vars => LedgerInv'
<1> SUFFICES ASSUME OneConnection, LedgerInv, [Next]_vars PROVE LedgerInv'
  OBVIOUS
<1>0. WorkInv /\ WorkInv'
  BY StepWork DEF LedgerInv
<1>1. Quiet' => (LedgerAgrees' <=> AllAgree') /\ Settling'
  BY QuietLedger, PTL
<1>2. CASE UNCHANGED vars
  BY <1>0, <1>2 DEF vars, LedgerInv, LedgerAgrees, Settling, Told, Between, Invoices
<1>3. ASSUME NEW r \in Requests, BillRequest(r) \/ RecordRequest(r) \/ CustomerRequest(r)
      PROVE  LedgerInv'
  <2>1. Quiet /\ Quiet' /\ bill' = bill /\ record' = record /\ cut' = cut
    BY <1>0, <1>3, BillRequestKeeps, RecordRequestKeeps, CustomerRequestKeeps DEF Untouched
  <2>2. AllAgree
    BY <2>1, QuietLedger DEF LedgerInv
  <2>3. AllAgree'
    BY <2>1, <2>2 DEF AllAgree, Agrees, Told, Invoices
  <2> QED BY <1>0, <1>1, <2>1, <2>3 DEF LedgerInv
<1>4. ASSUME NEW r \in Requests, Commits(r), pc[r] \notin {"records", "bills"}
      PROVE  LedgerInv'
  <2>1. Quiet /\ Quiet'
    BY <1>0, <1>4, QuietCommit
  <2>2. AllAgree
    BY <2>1, QuietLedger DEF LedgerInv
  <2>3. AllAgree'
    <3>1. CASE bill' = bill /\ record' = record /\ cut' = cut
      BY <2>2, <3>1 DEF AllAgree, Agrees, Told, Invoices
    <3>2. CASE CreateBillCommits(r) \/ UpdateBillCommits(r) \/ DeleteBillCommits(r)
      BY <1>0, <2>2, <3>2, BillCommitsAgree
    <3>3. CASE SaveRecord(r) \/ EditRecord(r) \/ DropRecord(r)
      BY <1>0, <2>2, <3>3, RecordCommitsAgree
    <3> QED BY <1>4, <3>1, <3>2, <3>3 DEF Commits, SaveCustomer, CheckLimit, SaveCall, Rename, DropCustomer,
              TakeRecords, TakeBills, tables
  <2> QED BY <1>0, <1>1, <2>1, <2>3 DEF LedgerInv
<1>5. ASSUME NEW r \in Requests, TakeRecords(r)
      PROVE  LedgerInv'
  BY <1>0, <1>5, TakeRecordsAgrees DEF LedgerInv
<1>6. ASSUME NEW r \in Requests, TakeBills(r)
      PROVE  LedgerInv'
  BY <1>0, <1>1, <1>6, TakeBillsAgrees DEF LedgerInv
<1>7. ASSUME NEW r \in Requests, Abort(r)
      PROVE  LedgerInv'
  BY <1>0, <1>1, <1>7, AbortAgrees DEF LedgerInv
<1>8. ASSUME NEW r \in Requests, Commits(r), pc[r] \in {"records", "bills"}
      PROVE  TakeRecords(r) \/ TakeBills(r)
  BY <1>8 DEF Commits, CreateBillCommits, UpdateBillCommits, DeleteBillCommits, SaveCustomer, CheckLimit,
         SaveRecord, EditRecord, DropRecord, SaveCall, Rename, DropCustomer
<1> QED BY <1>2, <1>3, <1>4, <1>5, <1>6, <1>7, <1>8 DEF Next

\* With a pool of one connection, a bill and its ledger record agree for ever, unless one was parted
\* from the other by an edit, a delete, or a merge that died between the two tables.
THEOREM LedgerLedgerAgrees ==
  ASSUME OneConnection
  PROVE  Spec => []LedgerAgrees
<1>1. LedgerInv /\ [Next]_vars => LedgerInv'
  BY StepLedger
<1>2. LedgerInv => LedgerAgrees
  BY DEF LedgerInv
<1> QED BY <1>1, <1>2, InitLedger, PTL DEF Spec

-----------------------------------------------------------------------------
(* Sums over finite sets *)

\* What holds of a finite set whenever it holds of all its strict subsets holds of every finite set.
\* Stated of a set of sets, induction needs no operator as parameter.
LEMMA FiniteInduction ==
  ASSUME NEW S, IsFiniteSet(S), NEW T \in SUBSET (SUBSET S),
         \A s \in SUBSET S : (\A t \in SUBSET s : t # s => t \in T) => s \in T
  PROVE  T = SUBSET S
<1> SUFFICES ASSUME (SUBSET S) \ T # {} PROVE FALSE
  OBVIOUS
<1> DEFINE U == (SUBSET S) \ T
<1>1. U \in SUBSET FiniteSubsetsOf(S) /\ U # {}
  BY FS_FiniteSubsetsOfFinite
<1>2. PICK s \in U : \A t \in U : ~(<<t, s>> \in StrictSubsetOrdering(S))
  <2> HIDE DEF U
  <2> QED BY <1>1, FS_StrictSubsetOrderingWellFounded, WFMin
<1>3. ASSUME NEW t \in SUBSET s, t # s PROVE t \in T
  BY <1>2, <1>3 DEF StrictSubsetOrdering
<1> QED BY <1>2, <1>3

\* The element a fold takes next, and the sums of f over the subsets of S, as the fold computes them.
Choice(s) == CHOOSE x \in s : TRUE
Sums(g, f, S) ==
  g = [s \in SUBSET S |-> IF s = {} THEN 0 ELSE f[Choice(s)] + g[s \ {Choice(s)}]]

LEMMA ChoiceIn == ASSUME NEW s, s # {} PROVE Choice(s) \in s
BY DEF Choice

\* The sums over the subsets of a finite set are determined ...
LEMMA SumsAgree ==
  ASSUME NEW f, NEW S, IsFiniteSet(S), NEW R, NEW g, NEW h, Sums(g, f, S), Sums(h, f, R)
  PROVE  \A s \in SUBSET S : s \in SUBSET R => g[s] = h[s]
<1> DEFINE T == {s \in SUBSET S : s \in SUBSET R => g[s] = h[s]}
<1>1. T \in SUBSET (SUBSET S)
  OBVIOUS
<1>2. ASSUME NEW s \in SUBSET S, \A t \in SUBSET s : t # s => t \in T
      PROVE  s \in T
  <2> SUFFICES ASSUME s \in SUBSET R PROVE g[s] = h[s]
    OBVIOUS
  <2>1. CASE s = {}
    BY <2>1 DEF Sums
  <2>2. CASE s # {}
    <3>1. Choice(s) \in s
      BY <2>2, ChoiceIn
    <3>2. g[s \ {Choice(s)}] = h[s \ {Choice(s)}]
      BY <1>2, <3>1
    <3>3. g[s] = f[Choice(s)] + g[s \ {Choice(s)}] /\ h[s] = f[Choice(s)] + h[s \ {Choice(s)}]
      BY <2>2 DEF Sums
    <3> QED BY <3>2, <3>3
  <2> QED BY <2>1, <2>2
<1>3. T = SUBSET S
  <2> HIDE DEF T
  <2> QED BY <1>1, <1>2, FiniteInduction
<1> QED BY <1>3

\* ... and there are such sums, so the recursive definition of the fold means what it says.
LEMMA SumsExist ==
  ASSUME NEW f, NEW S, IsFiniteSet(S)
  PROVE  \E g : Sums(g, f, S)
<1> DEFINE T == {s \in SUBSET S : \E g : Sums(g, f, s)}
<1>1. T \in SUBSET (SUBSET S)
  OBVIOUS
<1>2. ASSUME NEW s \in SUBSET S, \A t \in SUBSET s : t # s => t \in T
      PROVE  s \in T
  <2> DEFINE G == [t \in (SUBSET s) \ {s} |-> CHOOSE g : Sums(g, f, t)]
             sum == [t \in SUBSET s |-> IF t = {} THEN 0 ELSE f[Choice(t)] + G[t \ {Choice(t)}][t \ {Choice(t)}]]
  <2>1. \A t \in (SUBSET s) \ {s} : Sums(G[t], f, t)
    BY <1>2
  <2>2. ASSUME NEW t \in (SUBSET s) \ {s} PROVE sum[t] = G[t][t]
    <3>1. CASE t = {}
      <4>1. Sums(G[t], f, t)
        BY <2>1
      <4> HIDE DEF G
      <4> QED BY <3>1, <4>1 DEF Sums
    <3>2. CASE t # {}
      <4> DEFINE u == t \ {Choice(t)}
      <4>1. Choice(t) \in t
        BY <3>2, ChoiceIn
      <4>2. u \in (SUBSET s) \ {s}
        BY <4>1
      <4>3. Sums(G[t], f, t) /\ Sums(G[u], f, u)
        BY <2>1, <4>2
      <4>4. IsFiniteSet(t)
        BY FS_Subset
      <4>5. G[t][u] = G[u][u]
        <5>1. u \in SUBSET t /\ u \in SUBSET u
          OBVIOUS
        <5>2. PICK g : g = G[t]
          OBVIOUS
        <5>3. PICK h : h = G[u]
          OBVIOUS
        <5> HIDE DEF G, u
        <5>4. \A q \in SUBSET t : q \in SUBSET u => g[q] = h[q]
          BY <4>3, <4>4, <5>2, <5>3, SumsAgree
        <5> QED BY <5>1, <5>2, <5>3, <5>4
      <4>6. G[t][t] = f[Choice(t)] + G[t][u]
        <5> HIDE DEF G
        <5> QED BY <4>3, <3>2 DEF Sums
      <4>7. sum[t] = f[Choice(t)] + G[u][u]
        <5> HIDE DEF G
        <5> QED BY <3>2
      <4> HIDE DEF G, sum, u
      <4> QED BY <4>5, <4>6, <4>7
    <3> QED BY <3>1, <3>2
  <2>3. ASSUME NEW t \in SUBSET s, t # {} PROVE sum[t] = f[Choice(t)] + sum[t \ {Choice(t)}]
    <3>1. Choice(t) \in t /\ t \ {Choice(t)} \in (SUBSET s) \ {s}
      BY <2>3, ChoiceIn
    <3>2. sum[t] = f[Choice(t)] + G[t \ {Choice(t)}][t \ {Choice(t)}]
      <4> HIDE DEF G
      <4> QED BY <2>3
    <3> HIDE DEF G, sum
    <3> QED BY <3>1, <3>2, <2>2
  <2>4. Sums(sum, f, s)
    <3>1. sum = [t \in SUBSET s |-> sum[t]] /\ sum[{}] = 0
      <4> HIDE DEF G
      <4> QED OBVIOUS
    <3> HIDE DEF sum
    <3> QED BY <3>1, <2>3 DEF Sums
  <2> QED BY <2>4
<1>3. T = SUBSET S
  <2> HIDE DEF T
  <2> QED BY <1>1, <1>2, FiniteInduction
<1> QED BY <1>3

LEMMA SumOf ==
  ASSUME NEW f, NEW S, IsFiniteSet(S)
  PROVE  \E g : Sums(g, f, S) /\ SumFunctionOnSet(f, S) = g[S]
<1>1. SumFunctionOnSet(f, S) = (CHOOSE g : Sums(g, f, S))[S]
  BY DEF SumFunctionOnSet, FoldFunctionOnSet, MapThenFoldSet, Sums, Choice
<1> QED BY <1>1, SumsExist

LEMMA SumStep ==
  ASSUME NEW f, NEW S, IsFiniteSet(S)
  PROVE  SumFunctionOnSet(f, S) =
           IF S = {} THEN 0 ELSE f[Choice(S)] + SumFunctionOnSet(f, S \ {Choice(S)})
<1>1. PICK g : Sums(g, f, S) /\ SumFunctionOnSet(f, S) = g[S]
  BY SumOf
<1>2. IsFiniteSet(S \ {Choice(S)})
  BY FS_Subset
<1>3. PICK h : Sums(h, f, S \ {Choice(S)}) /\ SumFunctionOnSet(f, S \ {Choice(S)}) = h[S \ {Choice(S)}]
  BY <1>2, SumOf
<1>4. g[S \ {Choice(S)}] = h[S \ {Choice(S)}]
  BY <1>1, <1>3, SumsAgree
<1>5. CASE S = {}
  BY <1>1, <1>5 DEF Sums
<1>6. CASE S # {}
  <2>1. g[S] = f[Choice(S)] + g[S \ {Choice(S)}]
    BY <1>1, <1>6 DEF Sums
  <2> QED BY <1>1, <1>3, <1>4, <1>6, <2>1
<1> QED BY <1>5, <1>6

LEMMA SumType ==
  ASSUME NEW f, NEW S, IsFiniteSet(S), \A x \in S : f[x] \in Int
  PROVE  SumFunctionOnSet(f, S) \in Int
<1> DEFINE T == {s \in SUBSET S : SumFunctionOnSet(f, s) \in Int}
<1>1. T \in SUBSET (SUBSET S)
  OBVIOUS
<1>2. ASSUME NEW s \in SUBSET S, \A t \in SUBSET s : t # s => t \in T
      PROVE  s \in T
  <2>1. IsFiniteSet(s)
    BY FS_Subset
  <2>2. SumFunctionOnSet(f, s) = IF s = {} THEN 0 ELSE f[Choice(s)] + SumFunctionOnSet(f, s \ {Choice(s)})
    BY <2>1, SumStep
  <2>3. CASE s # {}
    BY <2>2, <2>3, <1>2, ChoiceIn
  <2> QED BY <2>2, <2>3
<1>3. T = SUBSET S
  <2> HIDE DEF T
  <2> QED BY <1>1, <1>2, FiniteInduction
<1> QED BY <1>3

\* A sum reads nothing but the elements it is over.
LEMMA SumSame ==
  ASSUME NEW f, NEW h, NEW S, IsFiniteSet(S), \A x \in S : f[x] = h[x]
  PROVE  SumFunctionOnSet(f, S) = SumFunctionOnSet(h, S)
<1> DEFINE T == {s \in SUBSET S : SumFunctionOnSet(f, s) = SumFunctionOnSet(h, s)}
<1>1. T \in SUBSET (SUBSET S)
  OBVIOUS
<1>2. ASSUME NEW s \in SUBSET S, \A t \in SUBSET s : t # s => t \in T
      PROVE  s \in T
  <2>1. IsFiniteSet(s)
    BY FS_Subset
  <2>2. /\ SumFunctionOnSet(f, s) = IF s = {} THEN 0 ELSE f[Choice(s)] + SumFunctionOnSet(f, s \ {Choice(s)})
        /\ SumFunctionOnSet(h, s) = IF s = {} THEN 0 ELSE h[Choice(s)] + SumFunctionOnSet(h, s \ {Choice(s)})
    BY <2>1, SumStep
  <2>3. CASE s # {}
    BY <2>2, <2>3, <1>2, ChoiceIn
  <2> QED BY <2>2, <2>3
<1>3. T = SUBSET S
  <2> HIDE DEF T
  <2> QED BY <1>1, <1>2, FiniteInduction
<1> QED BY <1>3

\* Any element may be taken out of the sum, not only the chosen one.
LEMMA SumWithout ==
  ASSUME NEW f, NEW S, IsFiniteSet(S), \A x \in S : f[x] \in Int
  PROVE  \A x \in S : SumFunctionOnSet(f, S) = f[x] + SumFunctionOnSet(f, S \ {x})
<1> DEFINE T == {s \in SUBSET S : \A x \in s : SumFunctionOnSet(f, s) = f[x] + SumFunctionOnSet(f, s \ {x})}
<1>1. T \in SUBSET (SUBSET S)
  OBVIOUS
<1>2. ASSUME NEW s \in SUBSET S, \A t \in SUBSET s : t # s => t \in T
      PROVE  s \in T
  <2> SUFFICES ASSUME NEW x \in s
               PROVE  SumFunctionOnSet(f, s) = f[x] + SumFunctionOnSet(f, s \ {x})
    OBVIOUS
  <2> DEFINE c == Choice(s)
  <2>1. IsFiniteSet(s) /\ c \in s
    BY FS_Subset, ChoiceIn
  <2>2. SumFunctionOnSet(f, s) = f[c] + SumFunctionOnSet(f, s \ {c})
    BY <2>1, SumStep
  <2> HIDE DEF c
  <2>3. CASE x # c
    <3>1. s \ {c} \in T /\ x \in s \ {c} /\ s \ {x} \in T /\ c \in s \ {x}
      BY <1>2, <2>1, <2>3
    <3>2. /\ SumFunctionOnSet(f, s \ {c}) = f[x] + SumFunctionOnSet(f, (s \ {c}) \ {x})
          /\ SumFunctionOnSet(f, s \ {x}) = f[c] + SumFunctionOnSet(f, (s \ {x}) \ {c})
      BY <3>1
    <3>3. (s \ {c}) \ {x} = (s \ {x}) \ {c}
      OBVIOUS
    <3>4. SumFunctionOnSet(f, (s \ {x}) \ {c}) \in Int /\ f[x] \in Int /\ f[c] \in Int
      <4>1. IsFiniteSet((s \ {x}) \ {c})
        BY <2>1, FS_Subset
      <4> QED BY <4>1, <2>1, SumType
    <3> DEFINE rest == SumFunctionOnSet(f, (s \ {x}) \ {c})
    <3>5. SumFunctionOnSet(f, s) = f[c] + (f[x] + rest)
      BY <2>2, <3>2, <3>3, Zenon
    <3>6. SumFunctionOnSet(f, s \ {x}) = f[c] + rest
      BY <3>2
    <3>7. rest \in Int
      BY <3>4
    <3> HIDE DEF rest
    <3>8. f[c] + (f[x] + rest) = f[x] + (f[c] + rest)
      BY <3>4, <3>7
    <3> QED BY <3>5, <3>6, <3>8, Zenon
  <2> QED BY <2>2, <2>3
<1>3. T = SUBSET S
  <2> HIDE DEF T
  <2> QED BY <1>1, <1>2, FiniteInduction
<1> QED BY <1>3

\* The sum with one element more.
LEMMA SumWith ==
  ASSUME NEW f, NEW h, NEW S, IsFiniteSet(S), NEW x, x \notin S,
         \A y \in S : f[y] = h[y] /\ f[y] \in Int, h[x] \in Int
  PROVE  SumFunctionOnSet(h, S \cup {x}) = h[x] + SumFunctionOnSet(f, S) /\ SumFunctionOnSet(f, S) \in Int
<1>1. IsFiniteSet(S \cup {x}) /\ (S \cup {x}) \ {x} = S
  BY FS_AddElement
<1>2. SumFunctionOnSet(h, S \cup {x}) = h[x] + SumFunctionOnSet(h, S)
  BY <1>1, SumWithout
<1> QED BY <1>2, SumSame, SumType

-----------------------------------------------------------------------------
(* Refunds *)

\* What a request may still write: a sale of a type that is no refund, or a payment of the customer
\* it was asked about, within the limit once that was checked.
MayWrite(step, q) ==
  /\ q.op \in {"createBill", "createRecord"} => q.type \in SaleTypes
  /\ step \in {"limit", "row"} /\ q.op = "payment" => customer[q.found].name = q.name
  /\ step = "row" /\ q.op = "payment" => WithinLimit(q.name, q.type, q.amount)
WritesWithin == \A r \in Requests : MayWrite(pc[r], req[r])

\* Rows were created one at a time, so the sums over them are over finite sets.
Rows == {x \in Records : record[x].state # "absent"}
RefundInv == WorkInv /\ WritesWithin /\ IsFiniteSet(Rows)

\* A request that ends will write nothing.
LEMMA AnswerWrites ==
  ASSUME WorkInv, NEW r \in Requests, pc[r] # "idle", Answer(r)
  PROVE  WritesWithin'
<1>1. \A s \in Requests : s # r => pc[s] = "idle" /\ req[s].op = "none"
  BY DEF WorkInv, Alone, ReadsHold, Consistent
<1>2. \A s \in Requests : pc'[s] = "idle" /\ req'[s].op = "none"
  BY <1>1 DEF Answer, Goto, NoReq, WorkInv, TypeOK
<1> QED
  BY <1>2 DEF WritesWithin, MayWrite

\* While a request begins or goes on, no other has anything to write.
LEMMA OneWrites ==
  ASSUME WorkInv, WorkInv', NEW r \in Requests, pc'[r] # "idle", MayWrite(pc[r], req[r])'
  PROVE  WritesWithin'
<1>1. \A s \in Requests : s # r => pc'[s] = "idle" /\ req'[s].op = "none"
  BY DEF WorkInv, Alone, ReadsHold, Consistent
<1>2. ASSUME NEW s \in Requests, s # r PROVE MayWrite(pc[s], req[s])'
  BY <1>1, <1>2 DEF MayWrite
<1> QED
  BY <1>2 DEF WritesWithin

\* What a request that begins asked: no refund, or one of the customer whose name it asked about.
Asked(r) ==
  /\ pc'[r] # "idle" /\ customer' = customer
  /\ req'[r].op \in {"createBill", "createRecord"} => req'[r].type \in SaleTypes
  /\ req'[r].op = "payment" =>
       pc'[r] # "row" /\ (pc'[r] = "limit" => customer[req'[r].found].name = req'[r].name)

LEMMA BeginAsks ==
  ASSUME TypeOK, NEW r \in Requests, NEW step, NEW q, Begin(r, step, q)
  PROVE  pc'[r] = step /\ req'[r] = q /\ customer' = customer
BY DEF Begin, tables, TypeOK

LEMMA SaleAsks ==
  ASSUME TypeOK, NEW r \in Requests, NEW op, NEW x, NEW n \in Typed, NEW type, NEW a,
         Sale(r, op, x, n, type, a), op # "createBill", op = "createRecord" => type \in SaleTypes
  PROVE  Asked(r)
<1>1. PICK f \in Found(n) :
        Begin(r, IF f = None THEN "customer" ELSE IF op = "payment" THEN "limit" ELSE "row",
              [NoReq EXCEPT !.op = op, !.id = x, !.name = n, !.type = type, !.amount = a, !.found = f])
  BY DEF Sale
<1>2. f # None => customer[f].name = n
  BY FoundReads DEF Matches
<1>3. /\ pc'[r] = (IF f = None THEN "customer" ELSE IF op = "payment" THEN "limit" ELSE "row")
      /\ req'[r] = [NoReq EXCEPT !.op = op, !.id = x, !.name = n, !.type = type, !.amount = a, !.found = f]
      /\ customer' = customer
  BY <1>1, BeginAsks
<1>4. req'[r].op = op /\ req'[r].name = n /\ req'[r].type = type /\ req'[r].found = f
  BY <1>3 DEF NoReq
<1> QED
  BY <1>2, <1>3, <1>4 DEF Asked

LEMMA RequestAsks ==
  ASSUME TypeOK, NEW r \in Requests, BillRequest(r) \/ RecordRequest(r) \/ CustomerRequest(r)
  PROVE  Asked(r)
<1>1. CASE BillRequest(r)
  <2>1. ASSUME NEW n \in Typed, NEW type \in SaleTypes, NEW a \in Amounts, CreateBill(r, n, type, a)
        PROVE  Asked(r)
    BY <2>1 DEF CreateBill, Begin, tables, NoReq, TypeOK, Asked
  <2>2. ASSUME NEW n \in Typed, NEW type \in SaleTypes, NEW a \in Amounts, NEW b \in Bills, UpdateBill(r, b, n, type, a)
        PROVE  Asked(r)
    BY <2>2 DEF UpdateBill, Begin, tables, NoReq, TypeOK, Asked
  <2>3. ASSUME NEW b \in Bills, DeleteBill(r, b) PROVE Asked(r)
    BY <2>3 DEF DeleteBill, Begin, tables, NoReq, TypeOK, Asked
  <2> QED
    BY <1>1, <2>1, <2>2, <2>3 DEF BillRequest
<1>2. CASE RecordRequest(r)
  <2>1. ASSUME NEW x \in Records, DeleteRecord(r, x) PROVE Asked(r)
    BY <2>1 DEF DeleteRecord, Begin, tables, NoReq, TypeOK, Asked
  <2>2. ASSUME NEW n \in Typed, NEW type \in SaleTypes, NEW a \in Amounts, CreateRecord(r, n, type, a)
        PROVE  Asked(r)
    BY <2>2, SaleAsks DEF CreateRecord
  <2>3. ASSUME NEW n \in Typed, NEW type, NEW a \in Amounts, NEW x \in Records, UpdateRecord(r, x, n, type, a)
        PROVE  Asked(r)
    BY <2>3, SaleAsks DEF UpdateRecord
  <2>4. ASSUME NEW n \in Typed, NEW type, NEW a \in Amounts, ReceivePayment(r, n, type, a)
        PROVE  Asked(r)
    BY <2>4, SaleAsks DEF ReceivePayment
  <2> QED
    BY <1>2, <2>1, <2>2, <2>3, <2>4 DEF RecordRequest
<1>3. CASE CustomerRequest(r)
  <2>1. ASSUME NEW n \in Typed, CreateCustomer(r, n) PROVE Asked(r)
    BY <2>1 DEF CreateCustomer, Begin, tables, NoReq, TypeOK, Asked
  <2>2. ASSUME NEW n \in Typed, NEW c \in Customers, UpdateCustomer(r, c, n) PROVE Asked(r)
    BY <2>2 DEF UpdateCustomer, Begin, tables, NoReq, TypeOK, Asked
  <2>3. ASSUME NEW n \in Called, LogCall(r, n) PROVE Asked(r)
    BY <2>3 DEF LogCall, Begin, tables, NoReq, TypeOK, Asked
  <2>4. ASSUME NEW c \in Customers, DeleteCustomer(r, c) PROVE Asked(r)
    BY <2>4 DEF DeleteCustomer, Begin, tables, NoReq, TypeOK, Asked
  <2> QED
    BY <1>3, <2>1, <2>2, <2>3, <2>4 DEF CustomerRequest
<1> QED
  BY <1>1, <1>2, <1>3

LEMMA RequestWrites ==
  ASSUME WorkInv, WorkInv', NEW r \in Requests, BillRequest(r) \/ RecordRequest(r) \/ CustomerRequest(r)
  PROVE  WritesWithin'
<1>1. Asked(r)
  BY RequestAsks DEF WorkInv
<1>2. MayWrite(pc[r], req[r])'
  BY <1>1 DEF Asked, MayWrite
<1> QED
  BY <1>1, <1>2, OneWrites DEF Asked

\* A request that goes on writes a sale as it was asked, or a payment whose limit was checked.
LEMMA CommitWrites ==
  ASSUME OneConnection, WorkInv, WorkInv', WritesWithin, NEW r \in Requests, Commits(r)
  PROVE  WritesWithin'
<1>1. CASE pc[r] # "idle" /\ Answer(r)
  BY <1>1, AnswerWrites
<1>2. CASE SaveCustomer(r) /\ ~Answer(r)
  <2>1. PICK c \in Customers :
          /\ NewCustomer(c, req[r].name)
          /\ Goto(r, IF req[r].op = "payment" THEN "limit" ELSE "row")
          /\ req' = [req EXCEPT ![r].found = c]
    BY <1>2 DEF SaveCustomer
  <2>2. pc[r] = "customer" /\ req[r].name \in Typed /\ req[r].op # "createBill"
    BY <1>2 DEF SaveCustomer, WorkInv, ReadsHold, Consistent, RecordOps
  <2>3. Capital[req[r].name] = req[r].name
    BY <2>2 DEF OneConnection
  <2>4. /\ customer'[c].name = req[r].name
        /\ pc'[r] = (IF req[r].op = "payment" THEN "limit" ELSE "row")
        /\ req'[r].op = req[r].op /\ req'[r].type = req[r].type
        /\ req'[r].name = req[r].name /\ req'[r].found = c
    BY <2>1, <2>3 DEF NewCustomer, Goto, WorkInv, TypeOK, ReqType
  <2>5. MayWrite(pc[r], req[r])'
    BY <2>2, <2>4 DEF WritesWithin, MayWrite
  <2> QED
    BY <2>4, <2>5, OneWrites
<1>3. CASE CheckLimit(r) /\ ~Answer(r)
  <2>1. /\ pc[r] = "limit" /\ WithinLimit(req[r].name, req[r].type, req[r].amount)
        /\ pc'[r] = "row" /\ req' = req /\ customer' = customer /\ record' = record
    BY <1>3 DEF CheckLimit, Goto, tables, WorkInv, TypeOK
  <2>2. req[r].op = "payment"
    BY <2>1 DEF WorkInv, ReadsHold, Consistent
  <2>3. WithinLimit(req[r].name, req[r].type, req[r].amount)'
    BY <2>1 DEF WithinLimit, CashLeft, CreditLeft, RecordsOf, Net, Owed
  <2>4. MayWrite(pc[r], req[r])'
    BY <2>1, <2>2, <2>3 DEF WritesWithin, MayWrite
  <2> QED
    BY <2>1, <2>4, OneWrites
<1>4. CASE TakeRecords(r) \/ TakeBills(r)
  <2>1. req' = req /\ pc'[r] \in {"bills", "drop"} /\ pc[r] \in {"records", "bills"}
    BY <1>4 DEF TakeRecords, TakeBills, Goto, WorkInv, TypeOK
  <2>2. req[r].op \in {"updateCustomer", "deleteCustomer"}
    BY <2>1 DEF WorkInv, ReadsHold, Consistent
  <2>3. MayWrite(pc[r], req[r])'
    BY <2>1, <2>2 DEF MayWrite
  <2> QED
    BY <2>1, <2>3, OneWrites
<1> QED
  BY <1>1, <1>2, <1>3, <1>4 DEF Commits, CreateBillCommits, UpdateBillCommits, DeleteBillCommits, SaveCustomer,
     CheckLimit, SaveRecord, EditRecord, DropRecord, SaveCall, Rename, TakeRecords, TakeBills, DropCustomer

\* The one record a step may create: a bill's, or what a request to the ledger asked for.
Writes(r, x) ==
  /\ pc[r] = "row" /\ record[x].state = "absent" /\ record' = [record EXCEPT ![x] = record'[x]]
  /\ \/ req[r].op = "createBill" /\ record'[x].type = req[r].type
     \/ req[r].op \in {"createRecord", "payment"} /\ record'[x] = Entry(req[r]) /\ customer' = customer

LEMMA NewRow ==
  ASSUME OneConnection, WorkInv, [Next]_vars
  PROVE  \/ \A y \in Records : record[y].state = "absent" => record'[y].state = "absent"
         \/ \E r \in Requests, x \in Records : Writes(r, x)
<1> DEFINE NoneNew == \A y \in Records : record[y].state = "absent" => record'[y].state = "absent"
<1>1. record' = record => NoneNew
  OBVIOUS
<1>2. ASSUME NEW r \in Requests, BillRequest(r) \/ RecordRequest(r) \/ CustomerRequest(r)
      PROVE  NoneNew
  BY <1>1, <1>2, BillRequestKeeps, RecordRequestKeeps, CustomerRequestKeeps DEF Untouched
<1>3. ASSUME NEW r \in Requests, UpdateBillCommits(r) \/ DeleteBillCommits(r) \/ TakeRecords(r)
      PROVE  NoneNew
  BY <1>3 DEF UpdateBillCommits, Follow, DeleteBillCommits, TakeRecords, Taken, Invoices
<1>4. ASSUME NEW r \in Requests, EditRecord(r) \/ DropRecord(r)
      PROVE  NoneNew
  <2>1. record[req[r].id].state = "live"
    BY <1>4 DEF EditRecord, DropRecord, WorkInv, ReadsHold, Consistent
  <2>2. \A y \in Records : y # req[r].id => record'[y] = record[y]
    BY <1>4 DEF EditRecord, DropRecord, WorkInv, TypeOK
  <2> QED
    BY <2>1, <2>2
<1>5. ASSUME NEW r \in Requests, CreateBillCommits(r) \/ SaveRecord(r)
      PROVE  \E x \in Records : Writes(r, x)
  BY <1>5 DEF CreateBillCommits, SaveRecord, Writes, WorkInv, TypeOK
<1>7. ASSUME NEW r \in Requests,
             Abort(r) \/ SaveCustomer(r) \/ CheckLimit(r) \/ SaveCall(r) \/ Rename(r) \/ TakeBills(r) \/ DropCustomer(r)
      PROVE  NoneNew
  BY <1>1, <1>7 DEF Abort, SaveCustomer, CheckLimit, SaveCall, Rename, TakeBills, DropCustomer, tables
<1>8. ASSUME UNCHANGED vars PROVE NoneNew
  BY <1>1, <1>8 DEF vars
<1> HIDE DEF NoneNew
<1>9. \/ NoneNew
      \/ \E r \in Requests : CreateBillCommits(r) \/ SaveRecord(r)
  BY <1>2, <1>3, <1>4, <1>7, <1>8 DEF Next, Commits
<1> QED
  BY <1>5, <1>9 DEF NoneNew

LEMMA RowsFinite ==
  ASSUME OneConnection, WorkInv, IsFiniteSet(Rows), [Next]_vars
  PROVE  IsFiniteSet(Rows)'
<1>1. \E x : Rows' \subseteq Rows \cup {x}
  BY NewRow DEF Rows, Writes, WorkInv, TypeOK
<1> QED
  BY <1>1, FS_AddElement, FS_Subset

LEMMA StepRefund == OneConnection /\ RefundInv /\ [Next]_vars => RefundInv'
<1> SUFFICES ASSUME OneConnection, RefundInv, [Next]_vars PROVE RefundInv'
  OBVIOUS
<1>0. WorkInv /\ WorkInv' /\ WritesWithin /\ IsFiniteSet(Rows)'
  BY StepWork, RowsFinite DEF RefundInv
<1>1. ASSUME UNCHANGED vars PROVE WritesWithin'
  BY <1>0, <1>1 DEF vars, WritesWithin, MayWrite, WithinLimit, CashLeft, CreditLeft, RecordsOf, Net, Owed
<1>2. ASSUME NEW r \in Requests, Abort(r) PROVE WritesWithin'
  BY <1>0, <1>2, AnswerWrites DEF Abort
<1>3. WritesWithin'
  BY <1>0, <1>1, <1>2, RequestWrites, CommitWrites DEF Next
<1> QED
  BY <1>0, <1>3 DEF RefundInv

\* The sums that limit a refund, before and after it is written.
LEMMA LimitAfter ==
  ASSUME WorkInv, IsFiniteSet(Rows), NEW x \in Records, record[x].state = "absent", NEW e,
         e.state = "live", e.net \in Int, e.credit \in Int, record' = [record EXCEPT ![x] = e],
         customer' = customer, NEW n, customer[e.customer].name = n
  PROVE  /\ e.type = "CASH_RETURN" => CashLeft(n) \in Int /\ CashLeft(n)' = CashLeft(n) + e.net
         /\ CreditLeft(n) \in Int /\ CreditLeft(n)' = CreditLeft(n) + e.credit
<1> DEFINE cash == {y \in RecordsOf(n) : record[y].type \in {"CASH", "CASH_RETURN"}}
<1>1. /\ record'[x] = e /\ x \notin RecordsOf(n)
      /\ \A y \in Records : y # x => record'[y] = record[y]
      /\ \A y \in Records : record[y].net \in Int /\ record[y].credit \in Int
  BY DEF WorkInv, TypeOK, RecordType, RecordsOf
<1>2. RecordsOf(n)' = RecordsOf(n) \cup {x}
  BY <1>1 DEF RecordsOf
<1>3. IsFiniteSet(RecordsOf(n)) /\ IsFiniteSet(cash)
  <2>1. RecordsOf(n) \subseteq Rows /\ cash \subseteq Rows
    BY DEF RecordsOf, Rows
  <2> QED
    BY <2>1, FS_Subset
<1>4. /\ Net'[x] = e.net /\ (\A y \in RecordsOf(n) : Net[y] = Net'[y] /\ Net[y] \in Int)
      /\ Owed'[x] = e.credit /\ (\A y \in RecordsOf(n) : Owed[y] = Owed'[y] /\ Owed[y] \in Int)
  BY <1>1 DEF Net, Owed, RecordsOf
<1>5. ASSUME NEW S \in SUBSET RecordsOf(n), IsFiniteSet(S)
      PROVE  /\ SumFunctionOnSet(Net', S \cup {x}) = e.net + SumFunctionOnSet(Net, S)
             /\ SumFunctionOnSet(Owed', S \cup {x}) = e.credit + SumFunctionOnSet(Owed, S)
             /\ SumFunctionOnSet(Net, S) \in Int /\ SumFunctionOnSet(Owed, S) \in Int
  <2>1. PICK net, net1, owed, owed1 : net = Net /\ net1 = Net' /\ owed = Owed /\ owed1 = Owed'
    OBVIOUS
  <2>2. /\ x \notin S /\ net1[x] = e.net /\ owed1[x] = e.credit
        /\ \A y \in S : net[y] = net1[y] /\ net[y] \in Int
        /\ \A y \in S : owed[y] = owed1[y] /\ owed[y] \in Int
    BY <1>1, <1>4, <2>1
  <2>3. /\ SumFunctionOnSet(net1, S \cup {x}) = net1[x] + SumFunctionOnSet(net, S)
        /\ SumFunctionOnSet(net, S) \in Int
    BY <1>5, <2>2, SumWith
  <2>4. /\ SumFunctionOnSet(owed1, S \cup {x}) = owed1[x] + SumFunctionOnSet(owed, S)
        /\ SumFunctionOnSet(owed, S) \in Int
    BY <1>5, <2>2, SumWith
  <2> QED
    BY <2>1, <2>2, <2>3, <2>4
<1>6. CreditLeft(n) \in Int /\ CreditLeft(n)' = CreditLeft(n) + e.credit
  <2>1. CreditLeft(n)' = SumFunctionOnSet(Owed', RecordsOf(n) \cup {x})
    BY <1>2 DEF CreditLeft
  <2>2. CreditLeft(n)' = e.credit + CreditLeft(n) /\ CreditLeft(n) \in Int
    BY <1>3, <1>5, <2>1 DEF CreditLeft
  <2> QED
    BY <2>2
<1>7. ASSUME e.type = "CASH_RETURN"
      PROVE  CashLeft(n) \in Int /\ CashLeft(n)' = CashLeft(n) + e.net
  <2>1. {y \in RecordsOf(n)' : record'[y].type \in {"CASH", "CASH_RETURN"}} = cash \cup {x}
    BY <1>1, <1>2, <1>7 DEF RecordsOf
  <2>2. CashLeft(n) = SumFunctionOnSet(Net, cash) /\ CashLeft(n)' = SumFunctionOnSet(Net', cash \cup {x})
    BY <2>1 DEF CashLeft
  <2>3. cash \in SUBSET RecordsOf(n)
    OBVIOUS
  <2> HIDE DEF cash
  <2>4. CashLeft(n)' = e.net + CashLeft(n) /\ CashLeft(n) \in Int
    BY <1>3, <1>5, <2>2, <2>3
  <2> QED
    BY <2>4
<1> QED
  BY <1>6, <1>7

\* A new refund is within what the checked limit left.
LEMMA RefundStep ==
  ASSUME OneConnection, RefundInv, [Next]_vars, NEW x \in Records, NEW n \in Names,
         record[x].state = "absent", x \in RecordsOf(n)'
  PROVE  /\ record'[x].type = "CASH_RETURN" => CashLeft(n)' >= 0
         /\ record'[x].type = "PRODUCT_RETURN" => CreditLeft(n)' >= 0
<1>1. record'[x].state = "live" /\ customer'[record'[x].customer].name = n
  BY DEF RecordsOf
<1>2. PICK r \in Requests : Writes(r, x)
  <2>1. PICK r \in Requests, y \in Records : Writes(r, y)
    BY <1>1, NewRow DEF RefundInv
  <2>2. y = x
    BY <1>1, <2>1 DEF Writes, RefundInv, WorkInv, TypeOK
  <2> QED
    BY <2>1, <2>2
<1> DEFINE e == record'[x]
<1>3. MayWrite("row", req[r]) /\ req[r] \in ReqType
  BY <1>2 DEF Writes, RefundInv, WritesWithin, WorkInv, TypeOK
<1>4. CASE req[r].op \in {"createBill", "createRecord"}
  BY <1>2, <1>3, <1>4 DEF Writes, MayWrite, Entry, SaleTypes
<1>5. CASE req[r].op = "payment"
  <2>1. e = Entry(req[r]) /\ customer' = customer /\ e.type = req[r].type /\ e.customer = req[r].found
    BY <1>2, <1>5 DEF Writes, Entry
  <2>2. n = req[r].name /\ WithinLimit(n, e.type, req[r].amount)
    BY <1>1, <1>2, <1>3, <1>5, <2>1 DEF MayWrite
  <2>3. /\ e.type = "CASH_RETURN" => CashLeft(n) \in Int /\ CashLeft(n)' = CashLeft(n) + e.net
        /\ CreditLeft(n) \in Int /\ CreditLeft(n)' = CreditLeft(n) + e.credit
    <3>1. e \in RecordType /\ e.state = "live"
      BY <1>1, <1>3, <2>1, EntryType
    <3>2. record' = [record EXCEPT ![x] = e] /\ customer[e.customer].name = n
      BY <1>1, <1>2, <2>1 DEF Writes
    <3>3. e.net \in Int /\ e.credit \in Int
      BY <3>1 DEF RecordType
    <3> HIDE DEF e
    <3> QED
      BY <2>1, <3>1, <3>2, <3>3, LimitAfter DEF RefundInv
  <2>4. /\ e.type = "CASH_RETURN" => e.net = -req[r].amount
        /\ e.type = "PRODUCT_RETURN" => e.credit = -req[r].amount
    BY <2>1 DEF Entry
  <2>5. req[r].amount \in Nat
    BY <1>3 DEF ReqType
  <2> QED
    BY <2>2, <2>3, <2>4, <2>5 DEF WithinLimit
<1> QED
  BY <1>2, <1>4, <1>5 DEF Writes

\* With a pool of one connection no refund takes more cash than the sales left of it, and no returned
\* product more than is owed, for any number of records: what the request summed up before still
\* stands when it writes.
THEOREM LedgerRefundWithinLimit ==
  ASSUME OneConnection
  PROVE  Spec => RefundWithinLimit
<1>1. Init => RefundInv
  <2> SUFFICES ASSUME Init PROVE RefundInv
    OBVIOUS
  <2>1. Rows = {}
    BY DEF Init, Rows, NoRecord
  <2>2. WritesWithin
    BY DEF Init, WritesWithin, MayWrite, NoReq
  <2> QED
    BY <2>1, <2>2, InitWork, FS_EmptySet DEF RefundInv
<1>2. RefundInv /\ [Next]_vars => RefundInv'
  BY StepRefund
<1>3. RefundInv /\ [Next]_vars =>
        [\A x \in Records, n \in Names : record[x].state = "absent" /\ x \in RecordsOf(n)' =>
           /\ record'[x].type = "CASH_RETURN" => CashLeft(n)' >= 0
           /\ record'[x].type = "PRODUCT_RETURN" => CreditLeft(n)' >= 0]_vars
  BY RefundStep
<1> QED
  BY <1>1, <1>2, <1>3, PTL DEF Spec, RefundWithinLimit
=============================================================================
