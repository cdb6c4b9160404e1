----------------------------- MODULE SalesLedger -----------------------------
(***************************************************************************)
(* Customers, bills and the sales ledger of the Java application           *)
(* (controller/BillingController, SalesRecordController,                   *)
(* CustomerController, CallingController.logCall).                         *)
(*                                                                         *)
(* A customer is found by name and contact number or created on the way; a *)
(* bill writes its own record in the ledger and finds it again by the text *)
(* of its remarks; renaming a customer onto another merges the two.  Only  *)
(* the handlers of bills run in one transaction: every other save commits  *)
(* by itself, and a request may die between two of them.                   *)
(*                                                                         *)
(* A request keeps the database connection of its first query until it     *)
(* answers (open-in-view), so as many requests overlap as the pool has     *)
(* connections: one with SQLite (application.properties:8), ten with       *)
(* Postgres (application-prod.properties).                                 *)
(*                                                                         *)
(* An action is the code from one commit to the next.  A sale is paid at   *)
(* once or wholly on credit; a name stands for name and contact number.    *)
(* What a request does to a row that was deleted before it began nobody    *)
(* reads: such requests, and the columns of deleted rows, are left out.    *)
(***************************************************************************)
EXTENDS Integers, FiniteSets, Functions

CONSTANTS
  Requests,     \* the requests under way
  Names,        \* names as clients may type them
  Capital,      \* Customer.preSave: the name that is stored for a typed one
  Typed,        \* the names that the clients of this instance type,
  Called,       \* and those of the customers they call
  Amounts,      \* sums of money
  Customers, Bills, Records,    \* row ids (bound: rows ever created)
  Connections,  \* the size of the connection pool
  None          \* no row

ASSUME LedgerAssumption ==
  /\ Capital \in [Names -> Names] /\ \A n \in Names : Capital[Capital[n]] = Capital[n]
  /\ Typed \subseteq Names /\ Called \subseteq Names
  /\ Amounts \subseteq Nat \ {0}
  /\ Connections \in Nat
  /\ None \notin Customers \cup Bills \cup Records

VARIABLES
  customer,     \* the rows of the three tables
  bill,
  record,
  calls,        \* how many call records a name has
  pc,           \* the commit each request works towards
  req,          \* what it was asked and what it has read
  cut           \* (history) bills that an edit, a delete or a dying request parted from their record

vars == <<customer, bill, record, calls, pc, req, cut>>
tables == <<customer, bill, record, calls>>

States == {"absent", "live", "deleted"}
Types == {"CASH", "CREDIT", "PAYMENT", "PRODUCT_RETURN", "CASH_RETURN"}
Finders == {"createBill", "updateBill", "createRecord", "updateRecord", "payment",
            "createCustomer", "updateCustomer"}
Ops == Finders \cup {"deleteBill", "deleteRecord", "deleteCustomer", "logCall"}
Steps == {"idle", "customer", "limit", "row", "rename", "records", "bills", "drop"}

NoCustomer == [state |-> "absent", name |-> None]
NoBill == [state |-> "absent", customer |-> None, credit |-> 0]
NoRecord == [state |-> "absent", customer |-> None, bill |-> None, type |-> "CASH", net |-> 0, credit |-> 0]
DeletedBill == [NoBill EXCEPT !.state = "deleted"]
DeletedRecord == [NoRecord EXCEPT !.state = "deleted"]
NoReq == [op |-> "none", name |-> None, id |-> None, type |-> "CASH", amount |-> 0, found |-> None]

Init ==
  /\ customer = [c \in Customers |-> NoCustomer]
  /\ bill = [b \in Bills |-> NoBill]
  /\ record = [x \in Records |-> NoRecord]
  /\ calls = [n \in Names |-> 0]
  /\ pc = [r \in Requests |-> "idle"]
  /\ req = [r \in Requests |-> NoReq]
  /\ cut = {}

-----------------------------------------------------------------------------
(* What the handlers share *)

\* findByCustomerNameAndContactNumberAndIsDeletedFalse: a second match makes it throw.
MatchesDeleted(n) == {c \in Customers : customer[c].state # "absent" /\ customer[c].name = n}
Matches(n) == {c \in Customers : customer[c].state = "live" /\ customer[c].name = n}
Found(n) == IF Matches(n) = {} THEN {None} ELSE {c \in Matches(n) : Matches(n) = {c}}

\* The ledger records that carry the remarks "Invoice #b".
Invoices(b) == {x \in Records : record[x].state = "live" /\ record[x].bill = b}

\* The first query takes a connection, which the request gives back with its answer.
FreeAlways == TRUE
Free == Cardinality({r \in Requests : pc[r] # "idle"}) < Connections

\* The bound on rows: a request begins only while there is room for what it will create.
CustomerRoom(f) == f = None => \E c \in Customers : customer[c].state = "absent"
BillRoom == \E b \in Bills : bill[b].state = "absent"
RecordRoom == \E x \in Records : record[x].state = "absent"

Begin(r, step, asked) ==
  /\ pc[r] = "idle" /\ Free
  /\ pc' = [pc EXCEPT ![r] = step] /\ req' = [req EXCEPT ![r] = asked]
  /\ UNCHANGED <<tables, cut>>

Goto(r, step) == pc' = [pc EXCEPT ![r] = step]
Answer(r) == Goto(r, "idle") /\ req' = [req EXCEPT ![r] = NoReq]

NewCustomer(c, n) ==
  /\ customer[c].state = "absent"
  /\ customer' = [customer EXCEPT ![c] = [state |-> "live", name |-> Capital[n]]]

\* What stays owed of a sale.
Credit(type, amount) == IF type = "CREDIT" THEN amount ELSE 0

-----------------------------------------------------------------------------
(* The requests begin: everything each one reads before its first commit *)

CreateBill(r, n, type, a) ==
  \E f \in Found(n) :
    /\ CustomerRoom(f) /\ BillRoom /\ RecordRoom
    /\ Begin(r, "row", [NoReq EXCEPT !.op = "createBill", !.name = n, !.type = type, !.amount = a, !.found = f])

UpdateBill(r, b, n, type, a) ==
  \E f \in Found(n) :
    /\ CustomerRoom(f) /\ bill[b].state = "live"
    /\ Begin(r, "row", [NoReq EXCEPT !.op = "updateBill", !.id = b, !.name = n, !.type = type, !.amount = a, !.found = f])

DeleteBill(r, b) ==
  /\ bill[b].state = "live"
  /\ Begin(r, "row", [NoReq EXCEPT !.op = "deleteBill", !.id = b])

\* The three that save a new customer in a transaction of its own.
Sale(r, op, x, n, type, a) ==
  \E f \in Found(n) :
    /\ CustomerRoom(f)
    /\ Begin(r, IF f = None THEN "customer" ELSE IF op = "payment" THEN "limit" ELSE "row",
             [NoReq EXCEPT !.op = op, !.id = x, !.name = n, !.type = type, !.amount = a, !.found = f])

CreateRecord(r, n, type, a) == RecordRoom /\ Sale(r, "createRecord", None, n, type, a)
UpdateRecord(r, x, n, type, a) == record[x].state = "live" /\ Sale(r, "updateRecord", x, n, type, a)
ReceivePayment(r, n, type, a) == RecordRoom /\ Sale(r, "payment", None, n, type, a)

DeleteRecord(r, x) ==
  /\ record[x].state = "live"
  /\ Begin(r, "row", [NoReq EXCEPT !.op = "deleteRecord", !.id = x])

\* A customer that exists is refused.
CreateCustomer(r, n) ==
  /\ Found(n) = {None} /\ CustomerRoom(None)
  /\ Begin(r, "customer", [NoReq EXCEPT !.op = "createCustomer", !.name = n])

\* The new name belongs to another customer: merge into that one, else rename.
UpdateCustomer(r, c, n) ==
  \E f \in Found(n) :
    /\ customer[c].state = "live"
    /\ Begin(r, IF f \in {None, c} THEN "rename" ELSE "records",
             [NoReq EXCEPT !.op = "updateCustomer", !.id = c, !.name = n, !.found = f])

DeleteCustomer(r, c) ==
  /\ customer[c].state = "live"
  /\ Begin(r, "records", [NoReq EXCEPT !.op = "deleteCustomer", !.id = c])

\* logCall updates the latest call record of the name, or inserts the first.
UnloggedAlways(n) == TRUE
Unlogged(n) == calls[n] = 0
LogCall(r, n) ==
  /\ Unlogged(n)
  /\ Begin(r, "row", [NoReq EXCEPT !.op = "logCall", !.name = n])

-----------------------------------------------------------------------------
(* BillingController: one transaction each *)

\* The customer that was found, or a new one saved with the bill.
ForCustomer(r, c) ==
  IF req[r].found # None THEN c = req[r].found /\ UNCHANGED customer ELSE NewCustomer(c, req[r].name)

CreateBillCommits(r) ==
  LET q == req[r] IN
  /\ pc[r] = "row" /\ q.op = "createBill"
  /\ \E c \in Customers, b \in Bills, x \in Records :
       /\ ForCustomer(r, c)
       /\ bill[b].state = "absent" /\ record[x].state = "absent"
       /\ bill' = [bill EXCEPT ![b] =
            [state |-> "live", customer |-> c, credit |-> Credit(q.type, q.amount)]]
       /\ record' = [record EXCEPT ![x] =
            [state |-> "live", customer |-> c, bill |-> b, type |-> q.type, net |-> q.amount,
             credit |-> Credit(q.type, q.amount)]]
  /\ Answer(r) /\ UNCHANGED <<calls, cut>>

\* An update writes the whole row as it was read; the bill's record follows if there is one.
FollowAmounts(b, c, type, a) ==
  record' = [x \in Records |->
    IF x \in Invoices(b)
    THEN [record[x] EXCEPT !.type = type, !.net = a, !.credit = Credit(type, a)] ELSE record[x]]
Follow(b, c, type, a) ==
  record' = [x \in Records |->
    IF x \in Invoices(b)
    THEN [record[x] EXCEPT !.customer = c, !.type = type, !.net = a, !.credit = Credit(type, a)]
    ELSE record[x]]

UpdateBillCommits(r) ==
  LET q == req[r] IN
  /\ pc[r] = "row" /\ q.op = "updateBill"
  /\ \E c \in Customers :
       /\ ForCustomer(r, c)
       /\ bill' = [bill EXCEPT ![q.id] =
            [state |-> "live", customer |-> c, credit |-> Credit(q.type, q.amount)]]
       /\ Follow(q.id, c, q.type, q.amount)
  /\ Answer(r) /\ UNCHANGED <<calls, cut>>

DeleteBillCommits(r) ==
  LET b == req[r].id IN
  /\ pc[r] = "row" /\ req[r].op = "deleteBill"
  /\ bill' = [bill EXCEPT ![b] = DeletedBill]
  /\ record' = [x \in Records |->
       IF x \in Invoices(b) THEN DeletedRecord ELSE record[x]]
  /\ Answer(r) /\ UNCHANGED <<customer, calls, cut>>

-----------------------------------------------------------------------------
(* SalesRecordController and CallingController *)

\* The new customer commits; createCustomer is done with that.
SaveCustomer(r) ==
  LET q == req[r] IN
  /\ pc[r] = "customer"
  /\ \E c \in Customers :
       /\ NewCustomer(c, q.name)
       /\ IF q.op = "createCustomer" THEN Answer(r)
          ELSE /\ Goto(r, IF q.op = "payment" THEN "limit" ELSE "row")
               /\ req' = [req EXCEPT ![r].found = c]
  /\ UNCHANGED <<bill, record, calls, cut>>

\* The limits go by the stored name of the records' customers.
RecordsOf(n) == {x \in Records : record[x].state = "live" /\ customer[record[x].customer].name = n}
Net == [x \in Records |-> record[x].net]
Owed == [x \in Records |-> record[x].credit]
CashLeft(n) == SumFunctionOnSet(Net, {x \in RecordsOf(n) : record[x].type \in {"CASH", "CASH_RETURN"}})
CreditLeft(n) == SumFunctionOnSet(Owed, RecordsOf(n))
WithinLimitOfSale(n, type, a) ==
  type = "CASH_RETURN" => a <= SumFunctionOnSet(Net, {x \in RecordsOf(n) : record[x].type = "CASH"})
WithinLimit(n, type, a) ==
  /\ type = "CASH_RETURN" => a <= CashLeft(n)
  /\ type = "PRODUCT_RETURN" => a <= CreditLeft(n)

CheckLimit(r) ==
  LET q == req[r] IN
  /\ pc[r] = "limit"
  /\ IF WithinLimit(q.name, q.type, q.amount) THEN Goto(r, "row") /\ UNCHANGED req ELSE Answer(r)
  /\ UNCHANGED <<tables, cut>>

Entry(q) ==
  [state |-> "live", customer |-> q.found, bill |-> None, type |-> q.type,
   net |-> IF q.type \in {"CASH", "CREDIT"} THEN q.amount ELSE IF q.type = "CASH_RETURN" THEN -q.amount ELSE 0,
   credit |-> IF q.type \in {"PAYMENT", "PRODUCT_RETURN"} THEN -q.amount ELSE Credit(q.type, q.amount)]

SaveRecord(r) ==
  /\ pc[r] = "row" /\ req[r].op \in {"createRecord", "payment"}
  /\ \E x \in Records :
       /\ record[x].state = "absent"
       /\ record' = [record EXCEPT ![x] = Entry(req[r])]
  /\ Answer(r) /\ UNCHANGED <<customer, bill, calls, cut>>

\* The client sends the remarks too, the old ones or others: the record leaves its bill either way,
\* in its amounts or for good.
Parted(x) == IF record[x].bill = None THEN {} ELSE {record[x].bill}
EditRecord(r) ==
  LET x == req[r].id IN
  /\ pc[r] = "row" /\ req[r].op = "updateRecord"
  /\ \E b \in {record[x].bill, None} : record' = [record EXCEPT ![x] = [Entry(req[r]) EXCEPT !.bill = b]]
  /\ cut' = cut \cup Parted(x)
  /\ Answer(r) /\ UNCHANGED <<customer, bill, calls>>

DropRecord(r) ==
  LET x == req[r].id IN
  /\ pc[r] = "row" /\ req[r].op = "deleteRecord"
  /\ record' = [record EXCEPT ![x] = DeletedRecord]
  /\ cut' = cut \cup Parted(x)
  /\ Answer(r) /\ UNCHANGED <<customer, bill, calls>>

SaveCall(r) ==
  /\ pc[r] = "row" /\ req[r].op = "logCall"
  /\ calls' = [calls EXCEPT ![req[r].name] = @ + 1]
  /\ Answer(r) /\ UNCHANGED <<customer, bill, record, cut>>

-----------------------------------------------------------------------------
(* CustomerController: a transaction for each table *)

Rename(r) ==
  /\ pc[r] = "rename"
  /\ customer' = [customer EXCEPT ![req[r].id] = [state |-> "live", name |-> Capital[req[r].name]]]
  /\ Answer(r) /\ UNCHANGED <<bill, record, calls, cut>>

\* A merge moves the live rows of the customer, a delete marks them.
Taken(row, q, deleted) ==
  IF row.state # "live" \/ row.customer # q.id THEN row
  ELSE IF q.op = "deleteCustomer" THEN deleted ELSE [row EXCEPT !.customer = q.found]

TakeRecords(r) ==
  /\ pc[r] = "records" /\ Goto(r, "bills")
  /\ record' = [x \in Records |-> Taken(record[x], req[r], DeletedRecord)]
  /\ UNCHANGED <<customer, bill, calls, req, cut>>

TakeBills(r) ==
  /\ pc[r] = "bills" /\ Goto(r, "drop")
  /\ bill' = [b \in Bills |-> Taken(bill[b], req[r], DeletedBill)]
  /\ UNCHANGED <<customer, record, calls, req, cut>>

\* The customer last.  After a merge the other one is saved too, with fields that are left out here.
DropCustomer(r) ==
  /\ pc[r] = "drop"
  /\ customer' = [customer EXCEPT ![req[r].id].state = "deleted"]
  /\ Answer(r) /\ UNCHANGED <<bill, record, calls, cut>>

\* A save fails, a product is unknown, the process dies: what was committed stays.
Between(r) == {b \in Bills : pc[r] = "bills" /\ bill[b].state = "live" /\ bill[b].customer = req[r].id}
Abort(r) ==
  /\ pc[r] # "idle"
  /\ cut' = cut \cup Between(r)
  /\ Answer(r) /\ UNCHANGED tables

-----------------------------------------------------------------------------
SaleTypes == {"CASH", "CREDIT"}

BillRequest(r) ==
  \/ \E n \in Typed, type \in SaleTypes, a \in Amounts :
       CreateBill(r, n, type, a) \/ \E b \in Bills : UpdateBill(r, b, n, type, a)
  \/ \E b \in Bills : DeleteBill(r, b)

RecordRequest(r) ==
  \/ \E n \in Typed, type \in SaleTypes, a \in Amounts : CreateRecord(r, n, type, a)
  \/ \E n \in Typed, type \in SaleTypes \cup {"PAYMENT"}, a \in Amounts, x \in Records : UpdateRecord(r, x, n, type, a)
  \/ \E n \in Typed, type \in Types \ SaleTypes, a \in Amounts : ReceivePayment(r, n, type, a)
  \/ \E x \in Records : DeleteRecord(r, x)

CustomerRequest(r) ==
  \/ \E n \in Typed : CreateCustomer(r, n) \/ \E c \in Customers : UpdateCustomer(r, c, n)
  \/ \E n \in Called : LogCall(r, n)
  \/ \E c \in Customers : DeleteCustomer(r, c)

Commits(r) ==
  \/ CreateBillCommits(r) \/ UpdateBillCommits(r) \/ DeleteBillCommits(r)
  \/ SaveCustomer(r) \/ CheckLimit(r) \/ SaveRecord(r) \/ EditRecord(r) \/ DropRecord(r) \/ SaveCall(r)
  \/ Rename(r) \/ TakeRecords(r) \/ TakeBills(r) \/ DropCustomer(r)

Next == \E r \in Requests :
  BillRequest(r) \/ RecordRequest(r) \/ CustomerRequest(r) \/ Commits(r) \/ Abort(r)

Spec == Init /\ [][Next]_vars

-----------------------------------------------------------------------------
(* Properties *)

\* The lookups return one row or throw, so a second customer of a name, once stored, makes every
\* later request about it fail, and the migration at the next boot with it (findByCustomerName...,
\* CustomerMigrationRunner.run); a call list shows a customer once (CallingController.logCall).
NoDuplicates ==
  /\ \A c, d \in Customers : customer[c].state = "live" /\ customer[d].state = "live"
                              /\ customer[c].name = customer[d].name => c = d
  /\ \A n \in Names : calls[n] <= 1

\* No live bill or ledger record belongs to a deleted customer, in the middle of a merge or a delete
\* and after one that stopped half way: its money would be in no customer's balance
\* (CustomerRepository.getCustomerSummaries).
MoneyHasOwner ==
  /\ \A b \in Bills : bill[b].state = "live" =>
       bill[b].customer \in Customers /\ customer[bill[b].customer].state = "live"
  /\ \A x \in Records : record[x].state = "live" =>
       record[x].customer \in Customers /\ customer[record[x].customer].state = "live"

\* A bill and the ledger record that it finds by its remarks tell the same customer and the same
\* debt, and a deleted bill leaves nothing in the ledger.  Only a record that was edited or deleted
\* by itself, or a merge or delete of the customer that died between records and bills, parts them.
LedgerAgrees ==
  \A b \in Bills \ (cut \cup UNION {Between(r) : r \in Requests}) :
    /\ bill[b].state = "live" =>
         \E x \in Records : /\ Invoices(b) = {x}
                            /\ record[x].customer = bill[b].customer /\ record[x].credit = bill[b].credit
    /\ bill[b].state # "live" => Invoices(b) = {}

\* A refund takes from a customer no more cash than the cash sales left of it, and a returned
\* product no more than is owed (SalesRecordController.receivePayment, "Validate limit").
RefundWithinLimit ==
  [][\A x \in Records, n \in Names : record[x].state = "absent" /\ x \in RecordsOf(n)' =>
       /\ record'[x].type = "CASH_RETURN" => CashLeft(n)' >= 0
       /\ record'[x].type = "PRODUCT_RETURN" => CreditLeft(n)' >= 0]_vars
=============================================================================
