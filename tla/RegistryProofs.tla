---------------------------- MODULE RegistryProofs -----------------------------
(***************************************************************************)
(* Theorems about Registry for any number of rows and requests: an order   *)
(* names a vehicle of its own customer, and every commit files or discards *)
(* as Archive allows.                                                      *)
(***************************************************************************)
EXTENDS Registry, TLAPS

-----------------------------------------------------------------------------
(* The inductive invariant.                                                *)

\* What was found is of the table that the route is about, and the vehicle that
\* was found with its customer cannot be anybody else's by now: it is hers, or it
\* was deleted.
Knows(t) ==
  /\ t.op \in {"update-customer", "remove-customer", "create-vehicle", "create-order"}
     => t.about \in Customers
  /\ t.op \in {"update-vehicle", "remove-vehicle"} => t.about \in Vehicles
  /\ t.op = "create-diagnosis" => t.about \in Orders
  /\ t.op \in {"update-diagnosis", "remove-diagnosis"} => t.about \in Diagnoses
  /\ t.op = "create-order" => t.vehicle \in Vehicles
  /\ t.op = "create-order" /\ t.pc = "checked" =>
       \/ vehicle[t.vehicle].state = "DELETED"
       \/ IsVehicle(t.vehicle) /\ vehicle[t.vehicle].owner = t.about

KnowInv == \A r \in Requests : Knows(txn[r])

IInv == TypeOK /\ KnowInv /\ OrderVehicleIsCustomers

LEMMA IdleFacts == Idle \in Txn /\ Idle.op = "none" /\ Idle.pc = "idle"
BY DEF Idle, Txn, Ops

LEMMA InitInv == Init => IInv
<1> SUFFICES ASSUME Init PROVE IInv
  OBVIOUS
<1>1. /\ customer \in [Customers -> Customer]
      /\ vehicle \in [Vehicles -> Vehicle]
      /\ order \in [Orders -> Order]
      /\ diagnosis \in [Diagnoses -> Diagnosis]
  BY DEF Init, Customer, Vehicle, Order, Diagnosis, States
<1>2. txn \in [Requests -> Txn] /\ \A r \in Requests : txn[r] = Idle
  BY IdleFacts DEF Init
<1>3. KnowInv
  BY <1>2, IdleFacts DEF KnowInv, Knows
<1>4. OrderVehicleIsCustomers
  BY DEF Init, OrderVehicleIsCustomers, IsOrder
<1> QED
  BY <1>1, <1>2, <1>3, <1>4 DEF IInv, TypeOK

-----------------------------------------------------------------------------
(* A step keeps the invariant.                                             *)

\* A step of one request that writes no row.
LEMMA OneRequest ==
  ASSUME IInv, NEW r \in Requests, NEW t \in Txn, Knows(t),
         txn' = [txn EXCEPT ![r] = t], UNCHANGED rows
  PROVE  IInv'
<1>1. TypeOK'
  BY DEF IInv, TypeOK, rows
<1>2. \A q \in Requests : txn'[q] = IF q = r THEN t ELSE txn[q]
  BY DEF IInv, TypeOK
<1>3. KnowInv'
  BY <1>2 DEF IInv, KnowInv, Knows, IsVehicle, rows
<1>4. OrderVehicleIsCustomers'
  BY DEF IInv, OrderVehicleIsCustomers, IsOrder, IsVehicle, rows
<1> QED
  BY <1>1, <1>3, <1>4 DEF IInv

LEMMA FoundKeepsInv ==
  ASSUME IInv, NEW r \in Requests,
         NEW pc \in {"customer-found", "checked"}, NEW op \in Ops,
         NEW x \in Customers \cup Vehicles \cup Orders \cup Diagnoses,
         NEW v \in Vehicles \cup {None},
         Knows([pc |-> pc, op |-> op, about |-> x, vehicle |-> v]),
         Found(r, pc, op, x, v)
  PROVE  IInv'
<1>1. [pc |-> pc, op |-> op, about |-> x, vehicle |-> v] \in Txn
  BY DEF Txn
<1> QED
  BY <1>1, OneRequest DEF Found

LEMMA FindsKeepInv ==
  ASSUME IInv, NEW r \in Requests,
         \/ FindCustomer(r) \/ FindVehicle(r) \/ FindOrder(r)
         \/ FindDiagnosis(r) \/ FindOrderCustomer(r)
  PROVE  IInv'
<1>1. CASE FindCustomer(r)
  <2>1. PICK c \in Customers,
             op \in {"update-customer", "remove-customer", "create-vehicle"} :
          Found(r, "checked", op, c, None)
    BY <1>1 DEF FindCustomer
  <2> QED
    BY <2>1, FoundKeepsInv DEF Knows, Ops
<1>2. CASE FindVehicle(r)
  <2>1. PICK v \in Vehicles, op \in {"update-vehicle", "remove-vehicle"} :
          Found(r, "checked", op, v, None)
    BY <1>2 DEF FindVehicle
  <2> QED
    BY <2>1, FoundKeepsInv DEF Knows, Ops
<1>3. CASE FindOrder(r)
  <2>1. PICK o \in Orders : Found(r, "checked", "create-diagnosis", o, None)
    BY <1>3 DEF FindOrder
  <2> QED
    BY <2>1, FoundKeepsInv DEF Knows, Ops
<1>4. CASE FindDiagnosis(r)
  <2>1. PICK d \in Diagnoses, op \in {"update-diagnosis", "remove-diagnosis"} :
          Found(r, "checked", op, d, None)
    BY <1>4 DEF FindDiagnosis
  <2> QED
    BY <2>1, FoundKeepsInv DEF Knows, Ops
<1>5. CASE FindOrderCustomer(r)
  <2>1. PICK c \in Customers, v \in Vehicles :
          Found(r, "customer-found", "create-order", c, v)
    BY <1>5 DEF FindOrderCustomer
  <2> QED
    BY <2>1, FoundKeepsInv DEF Knows, Ops
<1> QED
  BY <1>1, <1>2, <1>3, <1>4, <1>5

LEMMA EndKeepsInv ==
  ASSUME IInv, NEW r \in Requests, End(r), UNCHANGED rows
  PROVE  IInv'
BY IdleFacts, OneRequest DEF End, Knows

LEMMA FindOrderVehicleKeepsInv ==
  ASSUME IInv, NEW r \in Requests, FindOrderVehicle(r)
  PROVE  IInv'
<1> DEFINE t == txn[r]
           u == [t EXCEPT !.pc = "checked"]
<1>1. UNCHANGED rows
  BY DEF FindOrderVehicle
<1>2. CASE BelongsTo(t.vehicle, t.about)
  <2>1. t \in Txn /\ Knows(t)
    BY DEF IInv, TypeOK, KnowInv
  <2>2. /\ u \in Txn /\ u.op = t.op /\ u.about = t.about
        /\ u.vehicle = t.vehicle
    BY <2>1 DEF Txn
  <2>3. Knows(u)
    BY <1>2, <2>1, <2>2 DEF Knows, BelongsTo
  <2>4. txn' = [txn EXCEPT ![r] = u]
    BY <1>2 DEF FindOrderVehicle
  <2> HIDE DEF u
  <2> QED
    BY <1>1, <2>2, <2>3, <2>4, OneRequest
<1>3. CASE ~BelongsTo(t.vehicle, t.about)
  BY <1>1, <1>3, EndKeepsInv DEF FindOrderVehicle
<1> QED
  BY <1>2, <1>3

\* A vehicle keeps its owner, and is not filed again once it is gone.
VehiclesStay ==
  \A v \in Vehicles : vehicle[v].state # "UNUSED" =>
    \/ vehicle'[v].state = "DELETED"
    \/ /\ vehicle[v].state = "FILED" /\ vehicle'[v].state = "FILED"
       /\ vehicle'[v].owner = vehicle[v].owner

\* A step that writes rows and ends the request, if there is one.
LEMMA WriteKeepsInv ==
  ASSUME IInv,
         \/ txn' = txn
         \/ \E r \in Requests : txn' = [txn EXCEPT ![r] = Idle],
         customer' \in [Customers -> Customer],
         vehicle' \in [Vehicles -> Vehicle],
         order' \in [Orders -> Order],
         diagnosis' \in [Diagnoses -> Diagnosis],
         VehiclesStay,
         OrderVehicleIsCustomers'
  PROVE  IInv'
<1>1. /\ txn' \in [Requests -> Txn]
      /\ \A q \in Requests : txn'[q] = Idle \/ txn'[q] = txn[q]
  BY IdleFacts DEF IInv, TypeOK
<1>2. TypeOK'
  BY <1>1 DEF TypeOK
<1>3. ASSUME NEW q \in Requests PROVE Knows(txn[q])'
  <2>1. CASE txn'[q] = Idle
    BY <2>1, IdleFacts DEF Knows
  <2>2. CASE txn'[q] = txn[q]
    <3>1. Knows(txn[q])
      BY DEF IInv, KnowInv
    <3>2. CASE txn[q].op = "create-order" /\ txn[q].pc = "checked"
      <4>1. /\ txn[q].vehicle \in Vehicles
            /\ vehicle[txn[q].vehicle].state # "UNUSED"
        BY <3>1, <3>2 DEF Knows, IsVehicle
      <4>2. \/ vehicle'[txn[q].vehicle].state = "DELETED"
            \/ /\ vehicle'[txn[q].vehicle].state = "FILED"
               /\ vehicle'[txn[q].vehicle].owner = txn[q].about
        BY <3>1, <3>2, <4>1 DEF Knows, IsVehicle, VehiclesStay
      <4> QED
        BY <2>2, <3>1, <4>2 DEF Knows, IsVehicle
    <3>3. CASE ~(txn[q].op = "create-order" /\ txn[q].pc = "checked")
      BY <2>2, <3>1, <3>3 DEF Knows
    <3> QED
      BY <3>2, <3>3
  <2> QED
    BY <1>1, <2>1, <2>2
<1>4. KnowInv'
  BY <1>3 DEF KnowInv
<1> QED
  BY <1>2, <1>4 DEF IInv

LEMMA VehiclesUnchanged ==
  ASSUME IInv, vehicle' = vehicle
  PROVE  VehiclesStay
BY DEF IInv, TypeOK, Vehicle, VehiclesStay

\* Customers do not matter to the pair of customer and vehicle.
LEMMA CustomerWriteKeepsInv ==
  ASSUME IInv, customer' \in [Customers -> Customer],
         UNCHANGED <<vehicle, order, diagnosis>>,
         \/ txn' = txn
         \/ \E r \in Requests : txn' = [txn EXCEPT ![r] = Idle]
  PROVE  IInv'
<1>1. OrderVehicleIsCustomers'
  BY DEF IInv, OrderVehicleIsCustomers, IsOrder, IsVehicle
<1> QED
  BY <1>1, VehiclesUnchanged, WriteKeepsInv DEF IInv, TypeOK

LEMMA CreateCustomerKeepsInv ==
  ASSUME IInv, CreateCustomer
  PROVE  IInv'
<1>1. customer' \in [Customers -> Customer]
  BY DEF CreateCustomer, Customer, States, IInv, TypeOK
<1> QED
  BY <1>1, CustomerWriteKeepsInv DEF CreateCustomer

LEMMA UpdateCustomerKeepsInv ==
  ASSUME IInv, NEW r \in Requests, UpdateCustomer(r)
  PROVE  IInv'
<1>1. customer' \in [Customers -> Customer]
  BY DEF UpdateCustomer, Customer, IInv, TypeOK
<1> QED
  BY <1>1, CustomerWriteKeepsInv DEF UpdateCustomer, End

LEMMA RemoveCustomerKeepsInv ==
  ASSUME IInv, NEW r \in Requests, RemoveCustomer(r)
  PROVE  IInv'
<1>1. customer' \in [Customers -> Customer]
  BY DEF RemoveCustomer, Customer, States, IInv, TypeOK
<1> QED
  BY <1>1, CustomerWriteKeepsInv DEF RemoveCustomer, End

LEMMA DiagnosisWritesKeepInv ==
  ASSUME IInv, NEW r \in Requests,
         CreateDiagnosis(r) \/ UpdateDiagnosis(r) \/ RemoveDiagnosis(r)
  PROVE  IInv'
<1>1. UNCHANGED <<customer, vehicle, order>>
  BY DEF CreateDiagnosis, UpdateDiagnosis, RemoveDiagnosis
<1>2. txn' = [txn EXCEPT ![r] = Idle]
  BY DEF CreateDiagnosis, UpdateDiagnosis, RemoveDiagnosis, End
<1>3. Knows(txn[r])
  BY DEF IInv, KnowInv
<1>4. diagnosis' \in [Diagnoses -> Diagnosis]
  <2>1. CASE CreateDiagnosis(r)
    BY <1>3, <2>1 DEF CreateDiagnosis, Ready, Knows, Diagnosis, IInv, TypeOK
  <2>2. CASE UpdateDiagnosis(r)
    <3>1. PICK x \in Texts : diagnosis' = [diagnosis EXCEPT ![txn[r].about].text = x]
      BY <2>2 DEF UpdateDiagnosis
    <3>2. /\ txn[r].about \in Diagnoses
          /\ diagnosis[txn[r].about] \in
               [state: {"FILED"}, order: Orders, text: Texts]
      BY <1>3, <2>2
         DEF UpdateDiagnosis, Ready, Knows, IsDiagnosis, Diagnosis, IInv, TypeOK
    <3>3. [diagnosis[txn[r].about] EXCEPT !.text = x] \in Diagnosis
      BY <3>2 DEF Diagnosis
    <3> QED
      BY <3>1, <3>3 DEF IInv, TypeOK
  <2>3. CASE RemoveDiagnosis(r)
    BY <2>3 DEF RemoveDiagnosis, Diagnosis, IInv, TypeOK
  <2> QED
    BY <2>1, <2>2, <2>3
<1>5. OrderVehicleIsCustomers'
  BY <1>1 DEF IInv, OrderVehicleIsCustomers, IsOrder, IsVehicle
<1> QED
  BY <1>1, <1>2, <1>4, <1>5, VehiclesUnchanged, WriteKeepsInv DEF IInv, TypeOK

LEMMA CreateVehicleKeepsInv ==
  ASSUME IInv, NEW r \in Requests, CreateVehicle(r)
  PROVE  IInv'
<1>1. PICK v \in Vehicles, p \in Plates :
        /\ vehicle[v].state = "UNUSED"
        /\ vehicle' = [vehicle EXCEPT ![v] =
                         [state |-> "FILED", owner |-> txn[r].about, plate |-> p]]
  BY DEF CreateVehicle
<1>2. txn[r].about \in Customers
  BY DEF CreateVehicle, Ready, IInv, KnowInv, Knows
<1>3. [state |-> "FILED", owner |-> txn[r].about, plate |-> p] \in Vehicle
  BY <1>2 DEF Vehicle
<1>4. vehicle' \in [Vehicles -> Vehicle]
  BY <1>1, <1>3 DEF IInv, TypeOK
<1>5. /\ \A x \in Vehicles : vehicle[x].state # "UNUSED" => vehicle'[x] = vehicle[x]
      /\ \A x \in Vehicles : vehicle[x].state \in States
  BY <1>1 DEF IInv, TypeOK, Vehicle, States
<1>6. VehiclesStay
  BY <1>5 DEF VehiclesStay, States
<1>7. \A o \in Orders : IsOrder(o) => order[o].vehicle \in Vehicles
  BY DEF IInv, TypeOK, Order, IsOrder
<1>8. order' = order /\ txn' = [txn EXCEPT ![r] = Idle]
  BY DEF CreateVehicle, End
<1>9. OrderVehicleIsCustomers'
  BY <1>5, <1>7, <1>8 DEF IInv, OrderVehicleIsCustomers, IsOrder, IsVehicle
<1> QED
  BY <1>4, <1>6, <1>8, <1>9, WriteKeepsInv DEF IInv, TypeOK, CreateVehicle

LEMMA UpdateVehicleKeepsInv ==
  ASSUME IInv, NEW r \in Requests, UpdateVehicle(r)
  PROVE  IInv'
<1>1. PICK p \in Plates : vehicle' = [vehicle EXCEPT ![txn[r].about].plate = p]
  BY DEF UpdateVehicle
<1>2. /\ txn[r].about \in Vehicles
      /\ vehicle[txn[r].about] \in [state: {"FILED"}, owner: Customers, plate: Plates]
  BY DEF UpdateVehicle, Ready, IsVehicle, IInv, KnowInv, Knows, TypeOK, Vehicle
<1>3. [vehicle[txn[r].about] EXCEPT !.plate = p] \in Vehicle
  BY <1>2 DEF Vehicle
<1>4. vehicle' \in [Vehicles -> Vehicle]
  BY <1>1, <1>3 DEF IInv, TypeOK
<1>5. \A x \in Vehicles : /\ vehicle'[x].state = vehicle[x].state
                          /\ vehicle'[x].owner = vehicle[x].owner
  BY <1>1, <1>2 DEF IInv, TypeOK
<1>6. VehiclesStay
  BY <1>5 DEF VehiclesStay, IInv, TypeOK, Vehicle
<1>7. \A o \in Orders : IsOrder(o) => order[o].vehicle \in Vehicles
  BY DEF IInv, TypeOK, Order, IsOrder
<1>8. order' = order /\ txn' = [txn EXCEPT ![r] = Idle]
  BY DEF UpdateVehicle, End
<1>9. OrderVehicleIsCustomers'
  BY <1>5, <1>7, <1>8 DEF IInv, OrderVehicleIsCustomers, IsOrder, IsVehicle
<1> QED
  BY <1>4, <1>6, <1>8, <1>9, WriteKeepsInv DEF IInv, TypeOK, UpdateVehicle

LEMMA RemoveVehicleKeepsInv ==
  ASSUME IInv, NEW r \in Requests, RemoveVehicle(r)
  PROVE  IInv'
<1>1. PICK v \in Vehicles :
        /\ OrdersOf(v) = {}
        /\ vehicle' = [vehicle EXCEPT ![v] =
                         [state |-> "DELETED", owner |-> None, plate |-> None]]
  BY DEF RemoveVehicle, Ready, IInv, KnowInv, Knows
<1>2. vehicle' \in [Vehicles -> Vehicle]
  BY <1>1 DEF IInv, TypeOK, Vehicle
<1>3. /\ \A x \in Vehicles \ {v} : vehicle'[x] = vehicle[x]
      /\ vehicle'[v].state = "DELETED"
      /\ \A x \in Vehicles : vehicle[x].state \in States
  BY <1>1 DEF IInv, TypeOK, Vehicle, States
<1>4. VehiclesStay
  BY <1>3 DEF VehiclesStay, States
<1>5. \A o \in Orders : IsOrder(o) => order[o].vehicle \in Vehicles \ {v}
  BY <1>1 DEF IInv, TypeOK, Order, IsOrder, OrdersOf
<1>6. order' = order /\ txn' = [txn EXCEPT ![r] = Idle]
  BY DEF RemoveVehicle, End
<1>7. OrderVehicleIsCustomers'
  BY <1>3, <1>5, <1>6 DEF IInv, OrderVehicleIsCustomers, IsOrder, IsVehicle
<1> QED
  BY <1>2, <1>4, <1>6, <1>7, WriteKeepsInv DEF IInv, TypeOK, RemoveVehicle

\* The key of the vehicle still holds: so it was not deleted, and is hers.
LEMMA CreateOrderKeepsInv ==
  ASSUME IInv, NEW r \in Requests, CreateOrder(r)
  PROVE  IInv'
<1>1. PICK o \in Orders :
        order' = [order EXCEPT ![o] =
                    [state |-> "FILED", customer |-> txn[r].about,
                     vehicle |-> txn[r].vehicle]]
  BY DEF CreateOrder
<1>2. /\ txn[r].about \in Customers /\ txn[r].vehicle \in Vehicles
      /\ IsVehicle(txn[r].vehicle)
      /\ vehicle[txn[r].vehicle].owner = txn[r].about
  BY DEF CreateOrder, Ready, IInv, KnowInv, Knows, IsVehicle
<1>3. [state |-> "FILED", customer |-> txn[r].about, vehicle |-> txn[r].vehicle]
        \in Order
  BY <1>2 DEF Order
<1>4. order' \in [Orders -> Order]
  BY <1>1, <1>3 DEF IInv, TypeOK
<1>5. /\ \A x \in Orders \ {o} : order'[x] = order[x]
      /\ order'[o].customer = txn[r].about /\ order'[o].vehicle = txn[r].vehicle
  BY <1>1 DEF IInv, TypeOK
<1>6. vehicle' = vehicle /\ txn' = [txn EXCEPT ![r] = Idle]
  BY DEF CreateOrder, End
<1>7. OrderVehicleIsCustomers'
  BY <1>2, <1>5, <1>6 DEF IInv, OrderVehicleIsCustomers, IsOrder, IsVehicle
<1> QED
  BY <1>4, <1>6, <1>7, VehiclesUnchanged, WriteKeepsInv DEF IInv, TypeOK, CreateOrder

LEMMA NextKeepsInv ==
  ASSUME IInv, [Next]_vars
  PROVE  IInv'
<1>1. CASE UNCHANGED vars
  BY <1>1 DEF vars, IInv, TypeOK, KnowInv, Knows, OrderVehicleIsCustomers,
              IsOrder, IsVehicle
<1>2. CASE CreateCustomer
  BY <1>2, CreateCustomerKeepsInv
<1>3. ASSUME NEW r \in Requests,
             \/ FindCustomer(r) \/ FindVehicle(r) \/ FindOrder(r)
             \/ FindDiagnosis(r) \/ FindOrderCustomer(r) \/ FindOrderVehicle(r)
             \/ Rollback(r)
      PROVE  IInv'
  BY <1>3, FindsKeepInv, FindOrderVehicleKeepsInv, EndKeepsInv DEF Rollback
<1>4. ASSUME NEW r \in Requests,
             \/ UpdateCustomer(r) \/ RemoveCustomer(r)
             \/ CreateVehicle(r) \/ UpdateVehicle(r) \/ RemoveVehicle(r)
             \/ CreateOrder(r) \/ CreateDiagnosis(r) \/ UpdateDiagnosis(r)
             \/ RemoveDiagnosis(r)
      PROVE  IInv'
  BY <1>4, UpdateCustomerKeepsInv, RemoveCustomerKeepsInv, CreateVehicleKeepsInv,
     UpdateVehicleKeepsInv, RemoveVehicleKeepsInv, CreateOrderKeepsInv,
     DiagnosisWritesKeepInv
<1> QED
  BY <1>1, <1>2, <1>3, <1>4 DEF Next

-----------------------------------------------------------------------------
(* The theorems about the invariant.                                       *)

\* IInv holds in every reachable state.
THEOREM Invariance == Spec => []IInv
BY InitInv, NextKeepsInv, PTL DEF Spec

\* Rows keep their columns and requests their types.
THEOREM TypeCorrect == Spec => []TypeOK
<1>1. IInv => TypeOK
  BY DEF IInv
<1> QED
  BY <1>1, Invariance, PTL

\* An order is about a vehicle of its own customer, whatever is deleted between the
\* checks of its creation and the write.
THEOREM OrdersAgree == Spec => []OrderVehicleIsCustomers
<1>1. IInv => OrderVehicleIsCustomers
  BY DEF IInv
<1> QED
  BY <1>1, Invariance, PTL

-----------------------------------------------------------------------------
(* Every commit files or discards one item of the archive.                 *)

VehicleRefers ==
  {<<v, vehicle[v].owner>> : v \in {x \in Vehicles : IsVehicle(x)}}
OrderRefers ==
  {<<o, order[o].customer>> : o \in {x \in Orders : IsOrder(x)}}
    \cup {<<o, order[o].vehicle>> : o \in {x \in Orders : IsOrder(x)}}
DiagnosisRefers ==
  {<<d, diagnosis[d].order>> : d \in {x \in Diagnoses : IsDiagnosis(x)}}

LEMMA RefersIs == Refers = VehicleRefers \cup OrderRefers \cup DiagnosisRefers
BY DEF Refers, VehicleRefers, OrderRefers, DiagnosisRefers

\* Which rows refer, and to what.
LEMMA ReferKinds ==
  ASSUME IInv
  PROVE  /\ VehicleRefers \subseteq Vehicles \X Customers
         /\ OrderRefers \subseteq Orders \X (Customers \cup Vehicles)
         /\ DiagnosisRefers \subseteq Diagnoses \X Orders
<1>1. \A v \in Vehicles : IsVehicle(v) => vehicle[v].owner \in Customers
  BY DEF IInv, TypeOK, Vehicle, IsVehicle
<1>2. \A o \in Orders : IsOrder(o) => /\ order[o].customer \in Customers
                                      /\ order[o].vehicle \in Vehicles
  BY DEF IInv, TypeOK, Order, IsOrder
<1>3. \A d \in Diagnoses : IsDiagnosis(d) => diagnosis[d].order \in Orders
  BY DEF IInv, TypeOK, Diagnosis, IsDiagnosis
<1> QED
  BY <1>1, <1>2, <1>3 DEF VehicleRefers, OrderRefers, DiagnosisRefers

LEMMA CreateCustomerFiles ==
  ASSUME IInv, CreateCustomer
  PROVE  Files!ArchiveNext
<1>1. PICK c \in Customers, d \in Documents \cup {None} :
        /\ customer[c].state = "UNUSED"
        /\ customer' = [customer EXCEPT ![c] = [state |-> "FILED", document |-> d]]
        /\ UNCHANGED <<vehicle, order, diagnosis>>
  BY DEF CreateCustomer
<1>2. /\ \A x \in Customers \ {c} : customer'[x] = customer[x]
      /\ customer'[c].state = "FILED"
  BY <1>1 DEF IInv, TypeOK
<1>3. c \notin Filed \cup Gone
  BY <1>1, KindAssumption DEF Filed, Gone, IsCustomer
<1>4. Filed' = Filed \cup {c} /\ Gone' = Gone
  BY <1>1, <1>2 DEF Filed, Gone, IsCustomer, IsVehicle, IsOrder, IsDiagnosis
<1>5. Refers' = Refers
  BY <1>1 DEF Refers, IsVehicle, IsOrder, IsDiagnosis
<1>6. {} \subseteq Filed /\ Refers' = Refers \cup ({c} \X {})
  BY <1>5
<1>7. Files!File(c, {})
  BY <1>3, <1>4, <1>6 DEF Files!File
<1> QED
  BY <1>7 DEF Files!ArchiveNext

\* A row of a table that nothing else writes in this step leaves, with all that it
\* refers to, while nothing refers to it.
LEMMA Discarding ==
  ASSUME IInv,
         NEW x \in Customers \cup Vehicles \cup Orders \cup Diagnoses,
         x \in Filed, Filed' = Filed \ {x}, Gone' = Gone \cup {x},
         \A p \in Refers : p[2] # x,
         Refers' = {p \in Refers : p[1] # x}
  PROVE  Files!ArchiveNext
<1>1. \A y \in Filed : <<y, x>> \notin Refers
  <2> SUFFICES ASSUME NEW y \in Filed, <<y, x>> \in Refers PROVE FALSE
    OBVIOUS
  <2>1. <<y, x>>[2] # x
    OBVIOUS
  <2> QED
    BY <2>1
<1>2. Files!Discard(x)
  BY <1>1 DEF Files!Discard
<1> QED
  BY <1>2 DEF Files!ArchiveNext

LEMMA RemoveCustomerDiscards ==
  ASSUME IInv, NEW r \in Requests, RemoveCustomer(r)
  PROVE  Files!ArchiveNext
<1>1. PICK c \in Customers :
        /\ IsCustomer(c) /\ CanDeleteCustomer(c)
        /\ customer' = [customer EXCEPT ![c] =
                          [state |-> "DELETED", document |-> None]]
        /\ UNCHANGED <<vehicle, order, diagnosis>>
  BY DEF RemoveCustomer, Ready, IInv, KnowInv, Knows
<1>2. /\ \A x \in Customers \ {c} : customer'[x] = customer[x]
      /\ customer'[c].state = "DELETED"
  BY <1>1 DEF IInv, TypeOK
<1>3. c \in Filed
  BY <1>1 DEF Filed
<1>4. Filed' = Filed \ {c}
  BY <1>1, <1>2, KindAssumption DEF Filed, IsCustomer, IsVehicle, IsOrder, IsDiagnosis
<1>5. Gone' = Gone \cup {c}
  BY <1>1, <1>2 DEF Gone, IsCustomer
<1>6. \A p \in VehicleRefers \cup OrderRefers : p[2] # c
  <2>1. \A v \in Vehicles : vehicle[v].owner # c
    BY <1>1 DEF CanDeleteCustomer, ReferTo
  <2>2. \A o \in Orders : IsOrder(o) => order[o].customer # c /\ order[o].vehicle # c
    BY <1>1, KindAssumption
       DEF CanDeleteCustomer, ReferTo, IInv, TypeOK, Order, IsOrder
  <2> QED
    BY <2>1, <2>2 DEF VehicleRefers, OrderRefers
<1>7. \A p \in DiagnosisRefers : p[2] # c
  BY KindAssumption, ReferKinds
<1>8. \A p \in Refers : p[1] # c
  BY KindAssumption, ReferKinds, RefersIs
<1>9. Refers' = Refers
  BY <1>1 DEF Refers, IsVehicle, IsOrder, IsDiagnosis
<1>10. Refers' = {p \in Refers : p[1] # c}
  BY <1>8, <1>9
<1> QED
  BY <1>3, <1>4, <1>5, <1>6, <1>7, <1>10, RefersIs, Discarding

LEMMA RemoveVehicleDiscards ==
  ASSUME IInv, NEW r \in Requests, RemoveVehicle(r)
  PROVE  Files!ArchiveNext
<1>1. PICK v \in Vehicles :
        /\ IsVehicle(v) /\ OrdersOf(v) = {}
        /\ vehicle' = [vehicle EXCEPT ![v] =
                         [state |-> "DELETED", owner |-> None, plate |-> None]]
        /\ UNCHANGED <<customer, order, diagnosis>>
  BY DEF RemoveVehicle, Ready, IInv, KnowInv, Knows
<1>2. /\ \A x \in Vehicles \ {v} : vehicle'[x] = vehicle[x]
      /\ vehicle'[v].state = "DELETED"
  BY <1>1 DEF IInv, TypeOK
<1>3. v \in Filed
  BY <1>1 DEF Filed
<1>4. Filed' = Filed \ {v}
  BY <1>1, <1>2, KindAssumption DEF Filed, IsCustomer, IsVehicle, IsOrder, IsDiagnosis
<1>5. Gone' = Gone \cup {v}
  BY <1>1, <1>2 DEF Gone, IsVehicle
<1>6. \A p \in OrderRefers : p[2] # v
  <2>1. \A o \in Orders : IsOrder(o) => order[o].customer # v /\ order[o].vehicle # v
    BY <1>1, KindAssumption DEF OrdersOf, IInv, TypeOK, Order, IsOrder
  <2> QED
    BY <2>1 DEF OrderRefers
<1>7. /\ \A p \in VehicleRefers \cup DiagnosisRefers : p[2] # v
      /\ \A p \in OrderRefers \cup DiagnosisRefers : p[1] # v
  BY KindAssumption, ReferKinds
<1>8. VehicleRefers' = {p \in VehicleRefers : p[1] # v}
  BY <1>1, <1>2 DEF VehicleRefers, IsVehicle
<1>9. OrderRefers' = OrderRefers /\ DiagnosisRefers' = DiagnosisRefers
  BY <1>1 DEF OrderRefers, DiagnosisRefers, IsOrder, IsDiagnosis
<1>10. Refers' = VehicleRefers' \cup OrderRefers' \cup DiagnosisRefers'
  BY DEF Refers, VehicleRefers, OrderRefers, DiagnosisRefers
<1>11. Refers' = {p \in Refers : p[1] # v}
  BY <1>7, <1>8, <1>9, <1>10, RefersIs
<1> QED
  BY <1>3, <1>4, <1>5, <1>6, <1>7, <1>11, RefersIs, Discarding

LEMMA RemoveDiagnosisDiscards ==
  ASSUME IInv, NEW r \in Requests, RemoveDiagnosis(r)
  PROVE  Files!ArchiveNext
<1>1. PICK d \in Diagnoses :
        /\ IsDiagnosis(d)
        /\ diagnosis' = [diagnosis EXCEPT ![d] =
                           [state |-> "DELETED", order |-> None, text |-> None]]
        /\ UNCHANGED <<customer, vehicle, order>>
  BY DEF RemoveDiagnosis, Ready, IInv, KnowInv, Knows
<1>2. /\ \A x \in Diagnoses \ {d} : diagnosis'[x] = diagnosis[x]
      /\ diagnosis'[d].state = "DELETED"
  BY <1>1 DEF IInv, TypeOK
<1>3. d \in Filed
  BY <1>1 DEF Filed
<1>4. Filed' = Filed \ {d}
  BY <1>1, <1>2, KindAssumption DEF Filed, IsCustomer, IsVehicle, IsOrder, IsDiagnosis
<1>5. Gone' = Gone \cup {d}
  BY <1>1, <1>2 DEF Gone, IsDiagnosis
<1>6. /\ \A p \in Refers : p[2] # d
      /\ \A p \in VehicleRefers \cup OrderRefers : p[1] # d
  BY KindAssumption, ReferKinds, RefersIs
<1>7. DiagnosisRefers' = {p \in DiagnosisRefers : p[1] # d}
  BY <1>1, <1>2 DEF DiagnosisRefers, IsDiagnosis
<1>8. VehicleRefers' = VehicleRefers /\ OrderRefers' = OrderRefers
  BY <1>1 DEF OrderRefers, VehicleRefers, IsOrder, IsVehicle
<1>9. Refers' = VehicleRefers' \cup OrderRefers' \cup DiagnosisRefers'
  BY DEF Refers, VehicleRefers, OrderRefers, DiagnosisRefers
<1>10. Refers' = {p \in Refers : p[1] # d}
  BY <1>6, <1>7, <1>8, <1>9, RefersIs
<1> QED
  BY <1>3, <1>4, <1>5, <1>6, <1>10, Discarding

LEMMA CreateVehicleFiles ==
  ASSUME IInv, NEW r \in Requests, CreateVehicle(r)
  PROVE  Files!ArchiveNext
<1>1. PICK c \in Customers, v \in Vehicles, p \in Plates :
        /\ IsCustomer(c)
        /\ vehicle[v].state = "UNUSED"
        /\ vehicle' = [vehicle EXCEPT ![v] =
                         [state |-> "FILED", owner |-> c, plate |-> p]]
        /\ UNCHANGED <<customer, order, diagnosis>>
  BY DEF CreateVehicle, Ready, IInv, KnowInv, Knows
<1>2. /\ \A x \in Vehicles \ {v} : vehicle'[x] = vehicle[x]
      /\ vehicle'[v].state = "FILED" /\ vehicle'[v].owner = c
  BY <1>1 DEF IInv, TypeOK
<1>3. v \notin Filed \cup Gone
  BY <1>1, KindAssumption DEF Filed, Gone, IsVehicle
<1>4. Filed' = Filed \cup {v} /\ Gone' = Gone
  BY <1>1, <1>2 DEF Filed, Gone, IsCustomer, IsVehicle, IsOrder, IsDiagnosis
<1>5. VehicleRefers' = VehicleRefers \cup {<<v, c>>}
  BY <1>1, <1>2 DEF VehicleRefers, IsVehicle
<1>6. OrderRefers' = OrderRefers /\ DiagnosisRefers' = DiagnosisRefers
  BY <1>1 DEF OrderRefers, DiagnosisRefers, IsOrder, IsDiagnosis
<1>7. Refers' = VehicleRefers' \cup OrderRefers' \cup DiagnosisRefers'
  BY DEF Refers, VehicleRefers, OrderRefers, DiagnosisRefers
<1>8. Refers' = Refers \cup ({v} \X {c})
  <2>1. {v} \X {c} = {<<v, c>>}
    OBVIOUS
  <2> QED
    BY <1>5, <1>6, <1>7, <2>1, RefersIs
<1>9. {c} \subseteq Filed
  BY <1>1 DEF Filed
<1>10. Files!File(v, {c})
  BY <1>3, <1>4, <1>8, <1>9 DEF Files!File
<1>11. \E targets \in SUBSET (Customers \cup Vehicles \cup Orders \cup Diagnoses) :
         Files!File(v, targets)
  BY <1>10
<1> QED
  BY <1>11 DEF Files!ArchiveNext

LEMMA CreateOrderFiles ==
  ASSUME IInv, NEW r \in Requests, CreateOrder(r)
  PROVE  Files!ArchiveNext
<1>1. PICK c \in Customers, v \in Vehicles, o \in Orders :
        /\ IsCustomer(c) /\ IsVehicle(v)
        /\ order[o].state = "UNUSED"
        /\ order' = [order EXCEPT ![o] =
                       [state |-> "FILED", customer |-> c, vehicle |-> v]]
        /\ UNCHANGED <<customer, vehicle, diagnosis>>
  BY DEF CreateOrder, Ready, IInv, KnowInv, Knows
<1>2. /\ \A x \in Orders \ {o} : order'[x] = order[x]
      /\ order'[o].state = "FILED"
      /\ order'[o].customer = c /\ order'[o].vehicle = v
  BY <1>1 DEF IInv, TypeOK
<1>3. o \notin Filed \cup Gone
  BY <1>1, KindAssumption DEF Filed, Gone, IsOrder
<1>4. Filed' = Filed \cup {o} /\ Gone' = Gone
  BY <1>1, <1>2 DEF Filed, Gone, IsCustomer, IsVehicle, IsOrder, IsDiagnosis
<1>5. OrderRefers' = OrderRefers \cup {<<o, c>>, <<o, v>>}
  BY <1>1, <1>2 DEF OrderRefers, IsOrder
<1>6. VehicleRefers' = VehicleRefers /\ DiagnosisRefers' = DiagnosisRefers
  BY <1>1 DEF VehicleRefers, DiagnosisRefers, IsVehicle, IsDiagnosis
<1>7. Refers' = VehicleRefers' \cup OrderRefers' \cup DiagnosisRefers'
  BY DEF Refers, VehicleRefers, OrderRefers, DiagnosisRefers
<1>8. Refers' = Refers \cup ({o} \X {c, v})
  <2>1. {o} \X {c, v} = {<<o, c>>, <<o, v>>}
    OBVIOUS
  <2> QED
    BY <1>5, <1>6, <1>7, <2>1, RefersIs
<1>9. {c, v} \subseteq Filed
  BY <1>1 DEF Filed
<1>10. Files!File(o, {c, v})
  BY <1>3, <1>4, <1>8, <1>9 DEF Files!File
<1>11. \E targets \in SUBSET (Customers \cup Vehicles \cup Orders \cup Diagnoses) :
         Files!File(o, targets)
  BY <1>10
<1> QED
  BY <1>11 DEF Files!ArchiveNext

LEMMA CreateDiagnosisFiles ==
  ASSUME IInv, NEW r \in Requests, CreateDiagnosis(r)
  PROVE  Files!ArchiveNext
<1>1. PICK o \in Orders, d \in Diagnoses, x \in Texts :
        /\ IsOrder(o)
        /\ diagnosis[d].state = "UNUSED"
        /\ diagnosis' = [diagnosis EXCEPT ![d] =
                           [state |-> "FILED", order |-> o, text |-> x]]
        /\ UNCHANGED <<customer, vehicle, order>>
  BY DEF CreateDiagnosis, Ready, IInv, KnowInv, Knows
<1>2. /\ \A y \in Diagnoses \ {d} : diagnosis'[y] = diagnosis[y]
      /\ diagnosis'[d].state = "FILED" /\ diagnosis'[d].order = o
  BY <1>1 DEF IInv, TypeOK
<1>3. d \notin Filed \cup Gone
  BY <1>1, KindAssumption DEF Filed, Gone, IsDiagnosis
<1>4. Filed' = Filed \cup {d} /\ Gone' = Gone
  BY <1>1, <1>2 DEF Filed, Gone, IsCustomer, IsVehicle, IsOrder, IsDiagnosis
<1>5. DiagnosisRefers' = DiagnosisRefers \cup {<<d, o>>}
  BY <1>1, <1>2 DEF DiagnosisRefers, IsDiagnosis
<1>6. VehicleRefers' = VehicleRefers /\ OrderRefers' = OrderRefers
  BY <1>1 DEF VehicleRefers, OrderRefers, IsVehicle, IsOrder
<1>7. Refers' = VehicleRefers' \cup OrderRefers' \cup DiagnosisRefers'
  BY DEF Refers, VehicleRefers, OrderRefers, DiagnosisRefers
<1>8. Refers' = Refers \cup ({d} \X {o})
  <2>1. {d} \X {o} = {<<d, o>>}
    OBVIOUS
  <2> QED
    BY <1>5, <1>6, <1>7, <2>1, RefersIs
<1>9. {o} \subseteq Filed
  BY <1>1 DEF Filed
<1>10. Files!File(d, {o})
  BY <1>3, <1>4, <1>8, <1>9 DEF Files!File
<1>11. \E targets \in SUBSET (Customers \cup Vehicles \cup Orders \cup Diagnoses) :
         Files!File(d, targets)
  BY <1>10
<1> QED
  BY <1>11 DEF Files!ArchiveNext

\* A new plate, document or text is none of the archive's business.
LEMMA EditsAreInvisible ==
  ASSUME IInv, NEW r \in Requests,
         UpdateCustomer(r) \/ UpdateVehicle(r) \/ UpdateDiagnosis(r)
  PROVE  UNCHANGED Files!archiveVars
<1>1. /\ \A c \in Customers : customer'[c].state = customer[c].state
      /\ \A v \in Vehicles : /\ vehicle'[v].state = vehicle[v].state
                             /\ vehicle'[v].owner = vehicle[v].owner
      /\ \A d \in Diagnoses : /\ diagnosis'[d].state = diagnosis[d].state
                              /\ diagnosis'[d].order = diagnosis[d].order
      /\ order' = order
  <2>1. CASE UpdateCustomer(r)
    <3>1. txn[r].about \in Customers
      BY <2>1 DEF UpdateCustomer, Ready, IInv, KnowInv, Knows
    <3> QED
      BY <2>1, <3>1 DEF UpdateCustomer, IInv, TypeOK, Customer
  <2>2. CASE UpdateVehicle(r)
    <3>1. txn[r].about \in Vehicles
      BY <2>2 DEF UpdateVehicle, Ready, IInv, KnowInv, Knows
    <3> QED
      BY <2>2, <3>1 DEF UpdateVehicle, IInv, TypeOK, Vehicle
  <2>3. CASE UpdateDiagnosis(r)
    <3>1. txn[r].about \in Diagnoses
      BY <2>3 DEF UpdateDiagnosis, Ready, IInv, KnowInv, Knows
    <3> QED
      BY <2>3, <3>1 DEF UpdateDiagnosis, IInv, TypeOK, Diagnosis
  <2> QED
    BY <2>1, <2>2, <2>3
<1>2. Filed' = Filed /\ Gone' = Gone
  BY <1>1 DEF Filed, Gone, IsCustomer, IsVehicle, IsOrder, IsDiagnosis
<1>3. /\ VehicleRefers' = VehicleRefers /\ OrderRefers' = OrderRefers
      /\ DiagnosisRefers' = DiagnosisRefers
  BY <1>1 DEF VehicleRefers, OrderRefers, DiagnosisRefers, IsVehicle, IsOrder,
              IsDiagnosis
<1>4. Refers' = VehicleRefers' \cup OrderRefers' \cup DiagnosisRefers'
  BY DEF Refers, VehicleRefers, OrderRefers, DiagnosisRefers
<1> QED
  BY <1>2, <1>3, <1>4, RefersIs DEF Files!archiveVars

LEMMA StepsImplementArchive ==
  IInv /\ [Next]_vars => Files!ArchiveNext \/ UNCHANGED Files!archiveVars
<1> SUFFICES ASSUME IInv, [Next]_vars
             PROVE  Files!ArchiveNext \/ UNCHANGED Files!archiveVars
  OBVIOUS
<1>1. CASE UNCHANGED rows
  BY <1>1 DEF rows, Files!archiveVars, Filed, Gone, Refers, IsCustomer, IsVehicle,
              IsOrder, IsDiagnosis
<1>2. CASE CreateCustomer
  BY <1>2, CreateCustomerFiles
<1>3. ASSUME NEW r \in Requests,
             \/ CreateVehicle(r) \/ CreateOrder(r) \/ CreateDiagnosis(r)
             \/ RemoveCustomer(r) \/ RemoveVehicle(r) \/ RemoveDiagnosis(r)
      PROVE  Files!ArchiveNext
  BY <1>3, CreateVehicleFiles, CreateOrderFiles, CreateDiagnosisFiles,
     RemoveCustomerDiscards, RemoveVehicleDiscards, RemoveDiagnosisDiscards
<1>4. ASSUME NEW r \in Requests,
             UpdateCustomer(r) \/ UpdateVehicle(r) \/ UpdateDiagnosis(r)
      PROVE  UNCHANGED Files!archiveVars
  BY <1>4, EditsAreInvisible
<1>5. ASSUME NEW r \in Requests,
             \/ FindCustomer(r) \/ FindVehicle(r) \/ FindOrder(r)
             \/ FindDiagnosis(r) \/ FindOrderCustomer(r) \/ FindOrderVehicle(r)
             \/ Rollback(r)
      PROVE  UNCHANGED rows
  BY <1>5 DEF FindCustomer, FindVehicle, FindOrder, FindDiagnosis, Found,
              FindOrderCustomer, FindOrderVehicle, Rollback
<1>6. CASE UNCHANGED vars
  BY <1>1, <1>6 DEF vars, rows
<1> QED
  BY <1>1, <1>2, <1>3, <1>4, <1>5, <1>6 DEF Next

LEMMA ArchiveStarts == Init => Files!ArchiveInit
BY DEF Init, Files!ArchiveInit, Filed, Gone, Refers, IsCustomer, IsVehicle, IsOrder,
       IsDiagnosis

\* However deletions race what is being filed, nothing refers to what is not there,
\* and a key is never used twice.
THEOREM ArchiveImplemented == Spec => ImplementsArchive
BY ArchiveStarts, StepsImplementArchive, Invariance, PTL
DEF Spec, ImplementsArchive, Files!ArchiveSpec
=============================================================================
