------------------------------- MODULE Registry -------------------------------
(***************************************************************************)
(* The customers, vehicles, service orders and diagnoses of one workshop,  *)
(* and which refers to which, as CustomersService, VehiclesService,        *)
(* ServiceOrdersService.create and DiagnosesService file and delete them,  *)
(* with the unique indexes and the foreign keys of the schema.             *)
(*                                                                         *)
(* No request takes a lock: what it has checked may be gone when it        *)
(* writes.  Each write is one statement, refused if a foreign key or an    *)
(* index is against it, and ends its transaction.  Of the columns, only    *)
(* the references, what identifies a row (document and plate, in their     *)
(* normal form) and the text of a diagnosis are modelled; codes,           *)
(* technicians and status of an order are in OrderDesk.  Orders are never  *)
(* deleted.                                                                *)
(***************************************************************************)
CONSTANTS
  Requests,   \* the slots in which HTTP requests are served concurrently
  Customers,  \* primary keys of customers
  Vehicles,   \* primary keys of vehicles
  Orders,     \* primary keys of service_orders
  Diagnoses,  \* primary keys of diagnoses
  Documents,  \* normalised documents of customers
  Plates,     \* normalised plates of vehicles
  Texts,      \* contents of diagnoses
  None        \* no row, no reference, document IS NULL

ASSUME SentinelAssumption ==
  /\ None \notin Customers \cup Vehicles \cup Orders \cup Diagnoses
  /\ None \notin Documents \cup Plates \cup Texts
ASSUME KindAssumption ==
  /\ Customers \cap Vehicles = {}
  /\ Orders \cap (Customers \cup Vehicles) = {}
  /\ Diagnoses \cap (Customers \cup Vehicles \cup Orders) = {}

VARIABLES
  customer,   \* the rows of customers
  vehicle,    \* the rows of vehicles
  order,      \* the rows of service_orders
  diagnosis,  \* the rows of diagnoses
  txn         \* per slot: the request it serves and what it is about

rows == <<customer, vehicle, order, diagnosis>>
vars == <<customer, vehicle, order, diagnosis, txn>>

-----------------------------------------------------------------------------
(* Rows and requests.                                                      *)

States == {"UNUSED", "FILED", "DELETED"}

Customer == [state: States, document: Documents \cup {None}]

\* customer_id, plate and vehicle_id are NOT NULL: only what is not there has none.
Vehicle ==
  [state: {"UNUSED", "DELETED"}, owner: {None}, plate: {None}]
    \cup [state: {"FILED"}, owner: Customers, plate: Plates]

Order ==
  [state: {"UNUSED"}, customer: {None}, vehicle: {None}]
    \cup [state: {"FILED"}, customer: Customers, vehicle: Vehicles]

Diagnosis ==
  [state: {"UNUSED", "DELETED"}, order: {None}, text: {None}]
    \cup [state: {"FILED"}, order: Orders, text: Texts]

Ops == {"update-customer", "remove-customer", "create-vehicle",
        "update-vehicle", "remove-vehicle", "create-order",
        "create-diagnosis", "update-diagnosis", "remove-diagnosis"}

\* about is the row that the first check has found; vehicle is what the body of a
\* new order names besides.
Txn ==
  [pc: {"idle", "customer-found", "checked"}, op: Ops \cup {"none"},
   about: Customers \cup Vehicles \cup Orders \cup Diagnoses \cup {None},
   vehicle: Vehicles \cup {None}]

Idle == [pc |-> "idle", op |-> "none", about |-> None, vehicle |-> None]

\* One type invariant for the module: rows keep their columns, requests their types.
TypeOK ==
  /\ customer \in [Customers -> Customer]
  /\ vehicle \in [Vehicles -> Vehicle]
  /\ order \in [Orders -> Order]
  /\ diagnosis \in [Diagnoses -> Diagnosis]
  /\ txn \in [Requests -> Txn]

Init ==
  /\ customer = [c \in Customers |-> [state |-> "UNUSED", document |-> None]]
  /\ vehicle = [v \in Vehicles |->
                  [state |-> "UNUSED", owner |-> None, plate |-> None]]
  /\ order = [o \in Orders |->
                [state |-> "UNUSED", customer |-> None, vehicle |-> None]]
  /\ diagnosis = [d \in Diagnoses |->
                    [state |-> "UNUSED", order |-> None, text |-> None]]
  /\ txn = [r \in Requests |-> Idle]

IsCustomer(c) == customer[c].state = "FILED"

IsVehicle(v) == vehicle[v].state = "FILED"

IsOrder(o) == order[o].state = "FILED"

IsDiagnosis(d) == diagnosis[d].state = "FILED"

OrdersOf(v) == {o \in Orders : order[o].vehicle = v}

\* The vehicles and the orders of a customer (CUSTOMER_COUNTS, and the keys of
\* the schema that refer to customers).
ReferTo(c) ==
  {v \in Vehicles : vehicle[v].owner = c}
    \cup {o \in Orders : order[o].customer = c}

-----------------------------------------------------------------------------
(* Requests arrive with their first check, end and fail.                   *)

End(r) == txn' = [txn EXCEPT ![r] = Idle]

\* The server dies, the connection drops, or the answer is a refusal.
Rollback(r) ==
  /\ txn[r].pc # "idle"
  /\ End(r)
  /\ UNCHANGED rows

Found(r, pc, op, x, v) ==
  /\ txn[r].pc = "idle"
  /\ txn' = [txn EXCEPT ![r] =
               [pc |-> pc, op |-> op, about |-> x, vehicle |-> v]]
  /\ UNCHANGED rows

\* CustomersService.update and remove, VehiclesService.create.
FindCustomer(r) ==
  \E c \in Customers :
    /\ IsCustomer(c)
    /\ \/ Found(r, "checked", "update-customer", c, None)
       \/ ReferTo(c) = {} /\ Found(r, "checked", "remove-customer", c, None)
       \/ Found(r, "checked", "create-vehicle", c, None)

\* VehiclesService.update and remove.
FindVehicle(r) ==
  \E v \in Vehicles :
    /\ IsVehicle(v)
    /\ \/ Found(r, "checked", "update-vehicle", v, None)
       \/ OrdersOf(v) = {} /\ Found(r, "checked", "remove-vehicle", v, None)

\* DiagnosesService.create: assertServiceOrderExists, in a transaction of its own.
FindOrder(r) ==
  \E o \in Orders :
    IsOrder(o) /\ Found(r, "checked", "create-diagnosis", o, None)

\* DiagnosesService.update and remove.
FindDiagnosis(r) ==
  \E d \in Diagnoses, op \in {"update-diagnosis", "remove-diagnosis"} :
    IsDiagnosis(d) /\ Found(r, "checked", op, d, None)

\* ServiceOrdersService.create: assertCustomerExists.
FindOrderCustomer(r) ==
  \E c \in Customers, v \in Vehicles :
    IsCustomer(c) /\ Found(r, "customer-found", "create-order", c, v)

\* Faulty: the vehicle is looked up by its key alone.
BelongsToAnybody(v, c) == IsVehicle(v)

BelongsTo(v, c) == IsVehicle(v) /\ vehicle[v].owner = c

\* assertVehicleBelongsToCustomer.
FindOrderVehicle(r) ==
  LET t == txn[r] IN
  /\ t.pc = "customer-found"
  /\ IF BelongsTo(t.vehicle, t.about)
     THEN txn' = [txn EXCEPT ![r] = [t EXCEPT !.pc = "checked"]]
     ELSE End(r)
  /\ UNCHANGED rows

-----------------------------------------------------------------------------
(* Writes, each one statement.                                             *)

\* customers_workshop_id_document_key; NULL is no duplicate of NULL.
DocumentIsFree(c, d) ==
  d = None \/ \A x \in Customers \ {c} : IsCustomer(x) => customer[x].document # d

\* vehicles_workshop_id_plate_key.
PlateIsFree(v, p) ==
  \A x \in Vehicles \ {v} : IsVehicle(x) => vehicle[x].plate # p

Ready(r, op) == txn[r].pc = "checked" /\ txn[r].op = op

\* Faulty: the foreign key is left out of the migration.
CustomerUnreferenced(c) == TRUE

\* The foreign keys that refer to customers, ON DELETE RESTRICT.
CanDeleteCustomer(c) == ReferTo(c) = {}

\* CustomersService.create: a single statement, with nothing to check before.
CreateCustomer ==
  \E c \in Customers, d \in Documents \cup {None} :
    /\ customer[c].state = "UNUSED"
    /\ DocumentIsFree(c, d)
    /\ customer' = [customer EXCEPT ![c] = [state |-> "FILED", document |-> d]]
    /\ UNCHANGED <<vehicle, order, diagnosis, txn>>

\* The row may be gone, or another one has the document by now.
UpdateCustomer(r) ==
  LET c == txn[r].about IN
  /\ Ready(r, "update-customer")
  /\ IsCustomer(c)
  /\ \E d \in Documents \cup {None} :
       /\ DocumentIsFree(c, d)
       /\ customer' = [customer EXCEPT ![c].document = d]
  /\ End(r)
  /\ UNCHANGED <<vehicle, order, diagnosis>>

\* Faulty: ON DELETE SET NULL in the key of vehicles.
RemoveCustomerSettingNull(r) ==
  LET c == txn[r].about IN
  /\ Ready(r, "remove-customer")
  /\ IsCustomer(c)
  /\ customer' = [customer EXCEPT ![c] = [state |-> "DELETED", document |-> None]]
  /\ vehicle' = [v \in Vehicles |->
                   IF vehicle[v].owner = c THEN [vehicle[v] EXCEPT !.owner = None]
                   ELSE vehicle[v]]
  /\ End(r)
  /\ UNCHANGED <<order, diagnosis>>

RemoveCustomer(r) ==
  LET c == txn[r].about IN
  /\ Ready(r, "remove-customer")
  /\ IsCustomer(c) /\ CanDeleteCustomer(c)
  /\ customer' = [customer EXCEPT ![c] = [state |-> "DELETED", document |-> None]]
  /\ End(r)
  /\ UNCHANGED <<vehicle, order, diagnosis>>

CreateVehicle(r) ==
  LET c == txn[r].about IN
  /\ Ready(r, "create-vehicle")
  /\ IsCustomer(c)
  /\ \E v \in Vehicles, p \in Plates :
       /\ vehicle[v].state = "UNUSED"
       /\ PlateIsFree(v, p)
       /\ vehicle' = [vehicle EXCEPT ![v] =
                        [state |-> "FILED", owner |-> c, plate |-> p]]
  /\ End(r)
  /\ UNCHANGED <<customer, order, diagnosis>>

UpdateVehicle(r) ==
  LET v == txn[r].about IN
  /\ Ready(r, "update-vehicle")
  /\ IsVehicle(v)
  /\ \E p \in Plates :
       /\ PlateIsFree(v, p)
       /\ vehicle' = [vehicle EXCEPT ![v].plate = p]
  /\ End(r)
  /\ UNCHANGED <<customer, order, diagnosis>>

RemoveVehicle(r) ==
  LET v == txn[r].about IN
  /\ Ready(r, "remove-vehicle")
  /\ IsVehicle(v) /\ OrdersOf(v) = {}
  /\ vehicle' = [vehicle EXCEPT ![v] =
                   [state |-> "DELETED", owner |-> None, plate |-> None]]
  /\ End(r)
  /\ UNCHANGED <<customer, order, diagnosis>>

\* The keys of an order want its customer and its vehicle to be there, but not
\* that the one owns the other.
CreateOrder(r) ==
  LET t == txn[r] IN
  /\ Ready(r, "create-order")
  /\ IsCustomer(t.about) /\ IsVehicle(t.vehicle)
  /\ \E o \in Orders :
       /\ order[o].state = "UNUSED"
       /\ order' = [order EXCEPT ![o] =
                      [state |-> "FILED", customer |-> t.about,
                       vehicle |-> t.vehicle]]
  /\ End(r)
  /\ UNCHANGED <<customer, vehicle, diagnosis>>

\* The statement runs outside of the transaction that found the order.
CreateDiagnosis(r) ==
  LET o == txn[r].about IN
  /\ Ready(r, "create-diagnosis")
  /\ IsOrder(o)
  /\ \E d \in Diagnoses, x \in Texts :
       /\ diagnosis[d].state = "UNUSED"
       /\ diagnosis' = [diagnosis EXCEPT ![d] =
                          [state |-> "FILED", order |-> o, text |-> x]]
  /\ End(r)
  /\ UNCHANGED <<customer, vehicle, order>>

\* What another request has removed by now is not found (P2025).
UpdateDiagnosis(r) ==
  LET d == txn[r].about IN
  /\ Ready(r, "update-diagnosis")
  /\ IsDiagnosis(d)
  /\ \E x \in Texts : diagnosis' = [diagnosis EXCEPT ![d].text = x]
  /\ End(r)
  /\ UNCHANGED <<customer, vehicle, order>>

RemoveDiagnosis(r) ==
  LET d == txn[r].about IN
  /\ Ready(r, "remove-diagnosis")
  /\ IsDiagnosis(d)
  /\ diagnosis' = [diagnosis EXCEPT ![d] =
                     [state |-> "DELETED", order |-> None, text |-> None]]
  /\ End(r)
  /\ UNCHANGED <<customer, vehicle, order>>

Next ==
  \/ CreateCustomer
  \/ \E r \in Requests :
       \/ FindCustomer(r) \/ FindVehicle(r) \/ FindOrder(r) \/ FindDiagnosis(r)
       \/ FindOrderCustomer(r) \/ FindOrderVehicle(r)
       \/ UpdateCustomer(r) \/ RemoveCustomer(r)
       \/ CreateVehicle(r) \/ UpdateVehicle(r) \/ RemoveVehicle(r)
       \/ CreateOrder(r) \/ CreateDiagnosis(r) \/ UpdateDiagnosis(r)
       \/ RemoveDiagnosis(r) \/ Rollback(r)

Spec == Init /\ [][Next]_vars

-----------------------------------------------------------------------------
(* Properties.                                                             *)

\* An order is about a vehicle of its own customer, although no key of the schema
\* says so and nothing is locked between the checks of create and its write:
\* whatever is deleted in between, the pair that was checked is either whole or
\* refused.
OrderVehicleIsCustomers ==
  \A o \in Orders : IsOrder(o) =>
    /\ IsVehicle(order[o].vehicle)
    /\ vehicle[order[o].vehicle].owner = order[o].customer

Filed ==
  {c \in Customers : IsCustomer(c)} \cup {v \in Vehicles : IsVehicle(v)}
    \cup {o \in Orders : IsOrder(o)} \cup {d \in Diagnoses : IsDiagnosis(d)}

Gone ==
  {c \in Customers : customer[c].state = "DELETED"}
    \cup {v \in Vehicles : vehicle[v].state = "DELETED"}
    \cup {d \in Diagnoses : diagnosis[d].state = "DELETED"}

Refers ==
  {<<v, vehicle[v].owner>> : v \in {x \in Vehicles : IsVehicle(x)}}
    \cup {<<o, order[o].customer>> : o \in {x \in Orders : IsOrder(x)}}
    \cup {<<o, order[o].vehicle>> : o \in {x \in Orders : IsOrder(x)}}
    \cup {<<d, diagnosis[d].order>> : d \in {x \in Diagnoses : IsDiagnosis(x)}}

Files == INSTANCE Archive WITH
  Items  <- Customers \cup Vehicles \cup Orders \cup Diagnoses,
  filed  <- Filed,
  gone   <- Gone,
  refers <- Refers

\* Every commit files one item whose references are there or discards one that
\* nothing refers to, however deletions race the creation of what refers to them
\* ("Customers with vehicles or service orders cannot be deleted").
ImplementsArchive == Files!ArchiveSpec
=============================================================================
