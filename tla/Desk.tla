--------------------------------- MODULE Desk ---------------------------------
(***************************************************************************)
(* What the front desk of a workshop promises, with no request in sight:   *)
(* orders are numbered without a gap and never leave, and whoever changes  *)
(* something changes ONE column of ONE order.  OrderDesk implements it     *)
(* (OrderDesk!TheDesk).                                                    *)
(***************************************************************************)
EXTENDS Naturals

CONSTANTS MaxCode, Technicians, Details, None

VARIABLE orders  \* the file of each number

IsFiled(n) == orders[n].status # "NONE"

DeskInit == \A n \in 1..MaxCode : ~IsFiled(n)

\* The next number, and every number before it is taken.
FileOrder ==
  \E n \in 1..MaxCode, t \in Technicians \cup {None}, x \in Details :
    /\ \A k \in 1..MaxCode : IsFiled(k) <=> k < n
    /\ orders' = [orders EXCEPT ![n] =
                    [status |-> "OPEN", technician |-> t, details |-> x]]

ChangeOrder ==
  \E n \in 1..MaxCode :
    /\ IsFiled(n)
    /\ \/ \E t \in Technicians \cup {None} :
            orders' = [orders EXCEPT ![n].technician = t]
       \/ \E x \in Details : orders' = [orders EXCEPT ![n].details = x]
       \/ \E s \in {"OPEN", "DELIVERED"} :
            orders' = [orders EXCEPT ![n].status = s]

DeskSpec == DeskInit /\ [][FileOrder \/ ChangeOrder]_orders
===============================================================================
