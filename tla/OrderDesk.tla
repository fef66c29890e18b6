------------------------------- MODULE OrderDesk ------------------------------
(***************************************************************************)
(* The service orders of one workshop as ServiceOrdersService numbers,     *)
(* edits and assigns them.                                                 *)
(*                                                                         *)
(* A request reads in one statement and writes in a later one, and locks   *)
(* nothing in between: the order may be delivered, the technician          *)
(* dismissed and the number taken by then.  A write names only the columns *)
(* it changes.  `missed' records what a request could not see any more: it *)
(* is there for the properties and guards nothing.                         *)
(*                                                                         *)
(* Customer, vehicle and diagnoses of an order are in Registry, the other  *)
(* statuses and the quotes in QuoteWorkflow.                               *)
(***************************************************************************)
EXTENDS Naturals, Sequences

CONSTANTS
  Requests,     \* the slots in which HTTP requests are served concurrently
  Technicians,  \* users with a membership of the workshop
  Details,      \* contents of what an edit may change
  Base,         \* of the digits of a code: 10
  Width,        \* the digits a code is padded to: 4
  MaxCode,      \* bound of the model on the numbers of orders
  None          \* no technician, no details

ASSUME CodeAssumption ==
  /\ Base \in Nat \ (0..2)
  /\ Width \in Nat \ {0}
  /\ MaxCode \in Nat
ASSUME SentinelAssumption == None \notin Technicians \cup Details

VARIABLES
  order,     \* the rows of service_orders, by the number in their code
  eligible,  \* the active members who are TECHNICIAN
  txn        \* per slot: the request it serves and what it has read

rows == <<order, eligible>>
vars == <<order, eligible, txn>>

-----------------------------------------------------------------------------
(* Rows and requests.                                                      *)

Codes == 1..MaxCode

\* Of the nine statuses only DELIVERED makes a difference here.
Order ==
  [status: {"NONE", "OPEN", "DELIVERED"}, technician: Technicians \cup {None},
   details: Details \cup {None}]

Ops == {"create", "update", "assign"}

\* staff: the role is neither OWNER nor ADMIN.
Txn ==
  [pc: {"idle", "found", "resolved", "numbered"}, op: Ops \cup {"none"},
   staff: BOOLEAN, code: Nat, technician: Technicians \cup {None},
   missed: SUBSET (Technicians \cup Codes)]

Idle ==
  [pc |-> "idle", op |-> "none", staff |-> FALSE, code |-> 0,
   technician |-> None, missed |-> {}]

\* One type invariant for the module; a row is there with all its columns or not
\* at all, and a number that was handed out fits its bound.
TypeOK ==
  /\ order \in [Codes -> Order]
  /\ \A n \in Codes : order[n].status = "NONE" <=> order[n].details = None
  /\ eligible \subseteq Technicians
  /\ txn \in [Requests -> Txn]
  /\ \A r \in Requests : txn[r].code \in 0..(MaxCode + 1)

Init ==
  /\ order = [n \in Codes |->
                [status |-> "NONE", technician |-> None, details |-> None]]
  /\ eligible = Technicians
  /\ txn = [r \in Requests |-> Idle]

Filed == {n \in Codes : order[n].status # "NONE"}

Delivered == {n \in Codes : order[n].status = "DELIVERED"}

-----------------------------------------------------------------------------
(* Codes.                                                                  *)

Digits == 0..(Base - 1)

\* What a code can be after its "SO-": Width digits, the first of them zeros if need be,
\* or one digit more.
CodeTexts ==
  [1..Width -> Digits] \cup {s \in [1..(Width + 1) -> Digits] : s[1] # 0}

\* The number that is read off a text, digit by digit.
Horner(s) ==
  LET v[k \in 0..Len(s)] == IF k = 0 THEN 0 ELSE Base * v[k - 1] + s[k] IN v

Number(s) == Horner(s)[Len(s)]

\* The order of texts, from the first digit in which they differ.
TextBefore(s, t) ==
  \E i \in 1..Len(t) :
    /\ \A j \in 1..(i - 1) : j <= Len(s) /\ s[j] = t[j]
    /\ i = Len(s) + 1 \/ (i <= Len(s) /\ s[i] < t[i])

Power[k \in 0..Width] == IF k = 0 THEN 1 ELSE Base * Power[k - 1]

\* The first number that has more digits than it is padded to: 10000.
Full == Power[Width]

\* Numbers of two digits more than the padding are far away.
ASSUME BoundAssumption == MaxCode < Base * Full

\* The text of a number, filled with zeros on the right to Width + 1 digits.
Aligned(n) == IF n < Full THEN n * Base ELSE n

\* Codes are compared as text; of a text and its continuation the shorter is first.
Before(m, n) ==
  \/ Aligned(m) < Aligned(n)
  \/ Aligned(m) = Aligned(n) /\ m < n

\* What stands behind it: every number has one text, and texts come in this order.
ComparesAsText ==
  /\ \A n \in Codes : \E s \in CodeTexts : Number(s) = n
  /\ \A s, t \in CodeTexts :
       /\ TextBefore(s, t) <=> Before(Number(s), Number(t))
       /\ Number(s) = Number(t) => s = t

IsLast(n) == n \in Filed /\ \A m \in Filed \ {n} : Before(m, n)

\* Faulty: the number is increased once more on its way into the code.
IsNextCodeSkipping(c) ==
  IF Filed = {} THEN c = 1 ELSE \E n \in Filed : IsLast(n) /\ c = n + 2

\* generateCode.
IsNextCode(c) ==
  IF Filed = {} THEN c = 1 ELSE \E n \in Filed : IsLast(n) /\ c = n + 1

-----------------------------------------------------------------------------
(* Requests arrive with their first check, end and fail.                   *)

End(r) == txn' = [txn EXCEPT ![r] = Idle]

\* The server dies, the connection drops, or a check of Registry refuses.
Rollback(r) ==
  /\ txn[r].pc # "idle"
  /\ End(r)
  /\ UNCHANGED rows

Begin(r, t) ==
  /\ txn[r].pc = "idle"
  /\ txn' = [txn EXCEPT ![r] = t]
  /\ UNCHANGED rows

\* Faulty: the status of the order is not looked at.
CanModifyAny(n, staff) == TRUE

\* assertCanModifyDeliveredOrder.
CanModify(n, staff) == n \in Delivered => ~staff

\* Faulty: the role of the membership is not part of the query.
IsAnyMember(t) == TRUE

\* resolveTechnicianUserId, when a technician is named.
IsEligible(t) == t = None \/ t \in eligible

ArriveCreate(r) ==
  \E t \in Technicians \cup {None} :
    /\ IsEligible(t)
    /\ Begin(r, [Idle EXCEPT !.pc = "resolved", !.op = "create",
                             !.technician = t])

\* Faulty: an order that is not found is not refused, and the write is an upsert.
ArriveUpdateUnfound(r) ==
  \E n \in Codes, staff \in BOOLEAN :
    /\ CanModify(n, staff)
    /\ Begin(r, [Idle EXCEPT !.pc = "resolved", !.op = "update",
                             !.staff = staff, !.code = n])

ArriveUpdate(r) ==
  \E n \in Filed, staff \in BOOLEAN :
    /\ CanModify(n, staff)
    /\ Begin(r, [Idle EXCEPT !.pc = "resolved", !.op = "update",
                             !.staff = staff, !.code = n])

ArriveAssign(r) ==
  \E n \in Filed, staff \in BOOLEAN :
    /\ CanModify(n, staff)
    /\ Begin(r, [Idle EXCEPT !.pc = "found", !.op = "assign",
                             !.staff = staff, !.code = n])

-----------------------------------------------------------------------------
(* Orders.                                                                 *)

\* The last code is read, not reserved.
GenerateCode(r) ==
  LET t == txn[r] IN
  /\ t.pc = "resolved" /\ t.op = "create"
  /\ \E c \in 1..(MaxCode + 1) :
       /\ IsNextCode(c)
       /\ txn' = [txn EXCEPT ![r] = [t EXCEPT !.pc = "numbered", !.code = c]]
  /\ UNCHANGED rows

\* service_orders_workshop_id_code_key refuses a code that is taken: the request
\* ends with nothing written.  The first row of the history comes with the order.
InsertOrder(r) ==
  LET t == txn[r] IN
  /\ t.pc = "numbered"
  /\ t.code \in Codes
  /\ IF t.code \in Filed
     THEN UNCHANGED order
     ELSE \E x \in Details :
            order' = [order EXCEPT ![t.code] =
                        [status |-> "OPEN", technician |-> t.technician,
                         details |-> x]]
  /\ End(r)
  /\ UNCHANGED eligible

\* Faulty: columns that the request does not name are cleared.
UpdateOrderWhole(r) ==
  LET t == txn[r] IN
  /\ t.pc = "resolved" /\ t.op = "update"
  /\ \E x \in Details :
       order' = [order EXCEPT ![t.code].details = x, ![t.code].technician = None]
  /\ End(r)
  /\ UNCHANGED eligible

UpdateOrder(r) ==
  LET t == txn[r] IN
  /\ t.pc = "resolved" /\ t.op = "update"
  /\ \E x \in Details : order' = [order EXCEPT ![t.code].details = x]
  /\ End(r)
  /\ UNCHANGED eligible

ResolveTechnician(r) ==
  LET t == txn[r] IN
  /\ t.pc = "found"
  /\ \E x \in Technicians \cup {None} :
       /\ IsEligible(x)
       /\ txn' = [txn EXCEPT ![r] = [t EXCEPT !.pc = "resolved", !.technician = x]]
  /\ UNCHANGED rows

AssignTechnician(r) ==
  LET t == txn[r] IN
  /\ t.pc = "resolved" /\ t.op = "assign"
  /\ order' = [order EXCEPT ![t.code].technician = t.technician]
  /\ End(r)
  /\ UNCHANGED eligible

-----------------------------------------------------------------------------
(* What others do meanwhile.                                               *)

\* A request has looked at its technician, staff also at the status of the order.
LookedAt(t) ==
  {t.technician} \cup (IF t.staff THEN {t.code} ELSE {})

Miss(x) ==
  txn' = [r \in Requests |->
            IF x \in LookedAt(txn[r])
            THEN [txn[r] EXCEPT !.missed = txn[r].missed \cup {x}] ELSE txn[r]]

\* ServiceOrdersService.changeStatus; back again too, when it read the status
\* before the delivery (QuoteWorkflow!ChangeOrderStatus).
ChangeStatus ==
  \E n \in Filed :
    /\ order' = [order EXCEPT ![n].status =
                   IF n \in Delivered THEN "OPEN" ELSE "DELIVERED"]
    /\ IF n \in Delivered THEN UNCHANGED txn ELSE Miss(n)
    /\ UNCHANGED eligible

\* MembershipsService.update: a technician is dismissed or comes back.
Administer ==
  \E t \in Technicians :
    /\ IF t \in eligible
       THEN eligible' = eligible \ {t} /\ Miss(t)
       ELSE eligible' = eligible \cup {t} /\ UNCHANGED txn
    /\ UNCHANGED order

Next ==
  \/ ChangeStatus \/ Administer
  \/ \E r \in Requests :
       \/ Rollback(r) \/ ArriveCreate(r) \/ ArriveUpdate(r) \/ ArriveAssign(r)
       \/ GenerateCode(r) \/ InsertOrder(r) \/ UpdateOrder(r)
       \/ ResolveTechnician(r) \/ AssignTechnician(r)

Spec == Init /\ [][Next]_vars

-----------------------------------------------------------------------------
(* Properties.                                                             *)

TheDesk == INSTANCE Desk WITH orders <- order

\* However requests overlap, codes have no gap and no duplicate, and edits,
\* assignments and changes of the status that cross keep all of their columns.
ImplementsDesk == TheDesk!DeskSpec

\* Codes are numbered from 1 without a gap, up to the first one that is longer than
\* its padding and no further: the greatest text is then SO-9999 for ever, although
\* SO-10000 is there, and every further creation asks for a code that is taken
\* (generateCode).
CodesEndAtWidth == \A n \in Filed : n <= Full /\ 1..n \subseteq Filed

Wrote(r, n) == txn'[r] # txn[r] /\ txn[r].code = n

SlipsOnlyLate(n) ==
  LET before == order[n]
      after  == order'[n]
  IN
  /\ before # after /\ n \in Delivered /\ after.status = "DELIVERED"
     => \E r \in Requests : Wrote(r, n) /\ (txn[r].staff => n \in txn[r].missed)
  /\ before.technician # after.technician
     => \E r \in Requests :
          /\ Wrote(r, n)
          /\ after.technician \in eligible \cup {None} \cup txn[r].missed

\* A delivered order is edited by staff, and an order given to somebody who is not
\* an active technician, only by a request that looked before the delivery or the
\* dismissal and could not see it ("Delivered orders cannot be modified").
OnlyLateWritesSlipThrough == [][\A n \in Codes : SlipsOnlyLate(n)]_vars
===============================================================================
