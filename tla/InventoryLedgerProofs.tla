----------------------- MODULE InventoryLedgerProofs ------------------------
(***************************************************************************)
(* Theorems about InventoryLedger for every set of requests and categories *)
(* and every bound on quantities: the ledger explains the stock, and the   *)
(* requests implement the abstract account.  Both rest on what the lock on *)
(* the product row buys a movement (LockInv).                              *)
(***************************************************************************)
EXTENDS InventoryLedger, SequenceTheorems, TLAPS

-----------------------------------------------------------------------------
(* The inductive invariant.                                                *)

\* A movement that is past SELECT ... FOR UPDATE and not yet over.
Holding(t) == t.op \in ClientMovementTypes /\ t.pc = "checked"

\* Requests carry the arguments their operation needs.
WellFormed(t) ==
  /\ t.op \in ClientMovementTypes \ {"ADJUSTMENT"} => t.amount \in Quantities
  /\ t.op = "create" => t.category \in Categories \cup {NoCategory}
  /\ t.op \in ClientMovementTypes \cup {"update"} => product.exists

\* What is always true of the request t that slot r serves.
Consistent(r, t) ==
  /\ WellFormed(t)
  /\ Holding(t) =>
       rowLock = r /\ t.seen = product.stock /\ product.active

LockInv == \A r \in Requests : Consistent(r, txn[r])

\* Before the product exists nothing is booked.
NothingBefore == ~product.exists => movements = << >>

IInv == TypeOK /\ LockInv /\ NothingBefore /\ LedgerExplainsStock

-----------------------------------------------------------------------------
(* The lock.                                                               *)

\* A step of r keeps LockInv when r ends up consistent, the product stays, and
\* nothing changes under a movement that holds its row.
LEMMA OneMoves ==
  ASSUME IInv, NEW r \in Requests, NEW t,
         txn' = [txn EXCEPT ![r] = t],
         product.exists => product'.exists,
         \A s \in Requests \ {r} : Holding(txn[s]) =>
           /\ rowLock' = s
           /\ product'.stock = product.stock
           /\ product'.active = product.active,
         Consistent(r, t)'
  PROVE  LockInv'
<1> SUFFICES ASSUME NEW s \in Requests
             PROVE  Consistent(s, txn[s])'
  BY DEF LockInv
<1>1. CASE s = r
  BY <1>1 DEF IInv, TypeOK
<1>2. CASE s # r
  BY <1>2 DEF IInv, TypeOK, LockInv, Consistent, WellFormed, Holding
<1> QED
  BY <1>1, <1>2

\* A request that ends holds nothing and asks for nothing.
LEMMA IdleIsConsistent ==
  ASSUME NEW r \in Requests
  PROVE  Consistent(r, Idle)'
BY DEF Consistent, WellFormed, Holding, Idle, ClientMovementTypes, InboundTypes

\* Ending a transaction that leaves the product alone, or one that holds its
\* row or finds it free, keeps the lock discipline.
LEMMA EndKeepsLockInv ==
  ASSUME IInv, NEW r \in Requests, End(r),
         product.exists => product'.exists,
         product' = product \/ rowLock \in {r, NoRequest} \/ ~product.exists
  PROVE  LockInv'
<1>1. \A s \in Requests \ {r} : Holding(txn[s]) =>
        /\ rowLock' = s
        /\ product'.stock = product.stock
        /\ product'.active = product.active
  BY NoRequestAssumption
  DEF End, IInv, LockInv, Consistent, Holding, WellFormed
<1>2. txn' = [txn EXCEPT ![r] = Idle]
  BY DEF End
<1> QED
  BY <1>1, <1>2, IdleIsConsistent, OneMoves

\* Ending a transaction keeps the types of the lock and of the requests.
LEMMA EndKeepsTypes ==
  ASSUME TypeOK, NEW r \in Requests, End(r)
  PROVE  /\ rowLock' \in Requests \cup {NoRequest}
         /\ txn' \in [Requests -> Txn]
<1>1. Idle \in Txn
  BY QuantityAssumption DEF Idle, Txn, Stocks
<1> QED
  BY <1>1 DEF End, TypeOK

\* A request that is overtaken is still the same request.
Resembles(t, u) ==
  /\ t.pc = u.pc /\ t.op = u.op /\ t.amount = u.amount
  /\ t.category = u.category /\ t.active = u.active /\ t.seen = u.seen

LEMMA OvertakenFacts ==
  ASSUME TypeOK, NEW c
  PROVE  /\ Overtaken(c) \in [Requests -> Txn]
         /\ \A r \in Requests :
              /\ Resembles(Overtaken(c)[r], txn[r])
              /\ Overtaken(c)[r].late =
                   (txn[r].late \/ (txn[r].pc = "checked" /\ txn[r].category = c))
<1>1. ASSUME NEW r \in Requests
      PROVE  /\ Overtaken(c)[r] \in Txn
             /\ Resembles(Overtaken(c)[r], txn[r])
             /\ Overtaken(c)[r].late =
                  (txn[r].late \/ (txn[r].pc = "checked" /\ txn[r].category = c))
  <2> PICK t \in Txn : t = txn[r]
    BY DEF TypeOK
  <2>1. CASE t.pc = "checked" /\ t.category = c
    <3> PICK u : u = [t EXCEPT !.late = TRUE]
      OBVIOUS
    <3>1. Overtaken(c)[r] = u
      BY <2>1 DEF Overtaken
    <3>2. u \in Txn /\ Resembles(u, t) /\ u.late = TRUE
      BY DEF Txn, Resembles
    <3> QED
      BY <2>1, <3>1, <3>2
  <2>2. CASE ~(t.pc = "checked" /\ t.category = c)
    <3>1. Overtaken(c)[r] = t
      BY <2>2 DEF Overtaken
    <3>2. t.late \in BOOLEAN
      BY DEF Txn
    <3> QED
      BY <2>2, <3>1, <3>2 DEF Resembles
  <2> QED
    BY <2>1, <2>2
<1> QED
  BY <1>1 DEF Overtaken

\* A step in which every request of LockInv stays what it was, or becomes consistent.
LEMMA OthersResemble ==
  ASSUME IInv, product'.exists \/ ~product.exists,
         \A s \in Requests :
           \/ Consistent(s, txn[s])'
           \/ /\ Resembles(txn'[s], txn[s])
              /\ Holding(txn[s]) =>
                   /\ rowLock' = rowLock
                   /\ product'.stock = product.stock
                   /\ product'.active = product.active
  PROVE  LockInv'
BY DEF IInv, LockInv, Consistent, WellFormed, Holding, Resembles

-----------------------------------------------------------------------------
(* The ledger.                                                             *)

\* The ledger depends on the stock and the movements only.
LEMMA LedgerFrame ==
  ASSUME LedgerExplainsStock, product'.stock = product.stock,
         movements' = movements
  PROVE  LedgerExplainsStock'
BY DEF LedgerExplainsStock

\* One more movement, from the stock there is to the stock there will be,
\* leaves a ledger that explains the stock.
LEMMA BookingExplains ==
  ASSUME TypeOK, LedgerExplainsStock, NEW m \in Movement,
         movements' = Append(movements, m),
         m.previous = product.stock,
         product'.stock = m.new,
         CASE m.type \in InboundTypes -> m.new = m.previous + m.quantity
           [] m.type = "OUTBOUND"     -> m.new = m.previous - m.quantity
           [] OTHER                   -> m.quantity = Distance(m.previous, m.new)
  PROVE  LedgerExplainsStock'
<1> DEFINE n == Len(movements)
<1>1. /\ movements \in Seq(Movement)
      /\ n \in Nat
  BY DEF TypeOK
<1>2. /\ Len(movements') = n + 1
      /\ movements'[n + 1] = m
      /\ \A i \in 1 .. n : movements'[i] = movements[i]
  BY <1>1
<1>3. product'.stock = movements'[Len(movements')].new
  BY <1>2
<1>4. m.previous = IF n = 0 THEN 0 ELSE movements'[n].new
  BY <1>1, <1>2 DEF LedgerExplainsStock
<1>5. ASSUME NEW i \in 1 .. Len(movements')
      PROVE  LET k == movements'[i] IN
             /\ k.previous = IF i - 1 = 0 THEN 0 ELSE movements'[i - 1].new
             /\ CASE k.type \in InboundTypes -> k.new = k.previous + k.quantity
                  [] k.type = "OUTBOUND"     -> k.new = k.previous - k.quantity
                  [] OTHER                   -> k.quantity = Distance(k.previous, k.new)
  <2>1. CASE i = n + 1
    BY <1>1, <1>2, <1>4, <2>1
  <2>2. CASE i \in 1 .. n
    <3>1. movements'[i] = movements[i]
      BY <1>2, <2>2
    <3>2. i - 1 # 0 => movements'[i - 1] = movements[i - 1]
      BY <1>1, <1>2, <2>2
    <3> QED
      BY <2>2, <3>1, <3>2 DEF LedgerExplainsStock
  <2> QED
    BY <1>1, <1>2, <2>1, <2>2
<1> QED
  BY <1>1, <1>2, <1>3, <1>5 DEF LedgerExplainsStock

-----------------------------------------------------------------------------
(* One lemma per action: the invariant is inductive.                       *)

\* It holds before the product exists.
LEMMA InitIInv == Init => IInv
<1> SUFFICES ASSUME Init PROVE IInv
  OBVIOUS
<1>1. TypeOK
  <2>1. Idle \in Txn
    BY QuantityAssumption DEF Idle, Txn, Stocks
  <2>2. product \in Product
    BY QuantityAssumption DEF Init, Product, Stocks
  <2> QED
    BY <2>1, <2>2 DEF Init, TypeOK
<1>2. LockInv
  BY DEF Init, LockInv, Consistent, WellFormed, Holding, Idle,
         ClientMovementTypes, InboundTypes
<1>3. LedgerExplainsStock
  BY DEF Init, LedgerExplainsStock
<1> QED
  BY <1>1, <1>2, <1>3 DEF IInv, NothingBefore, Init

\* A request arrives and disturbs nobody.
LEMMA ArrivingKeepsIInv ==
  ASSUME IInv, NEW r \in Requests,
         ArriveMovement(r) \/ ArriveCreate(r) \/ ArriveUpdate(r)
  PROVE  IInv'
<1>1. ASSUME NEW pc \in {"begun", "checked"},
             NEW op \in ClientMovementTypes \cup {"create", "update"},
             NEW n \in Stocks, NEW c \in Categories \cup {NoCategory, Keep},
             NEW a \in BOOLEAN \cup {Keep},
             Request(r, pc, op, n, c, a),
             op \in ClientMovementTypes => pc = "begun",
             op \in ClientMovementTypes \ {"ADJUSTMENT"} => n \in Quantities,
             op = "create" => c \in Categories \cup {NoCategory},
             op \in ClientMovementTypes \cup {"update"} => product.exists
      PROVE  IInv'
  <2> PICK t : t = [pc |-> pc, op |-> op, amount |-> n, category |-> c,
                    active |-> a, seen |-> 0, late |-> FALSE]
    OBVIOUS
  <2>1. txn' = [txn EXCEPT ![r] = t]
    BY <1>1 DEF Request
  <2>2. UNCHANGED <<product, movements, categoryActive, rowLock>>
    BY <1>1 DEF Request
  <2>3. t \in Txn
    BY QuantityAssumption DEF Txn, Stocks
  <2>4. TypeOK'
    BY <2>1, <2>2, <2>3 DEF IInv, TypeOK
  <2>5. Consistent(r, t)'
    BY <1>1, <2>2 DEF Consistent, WellFormed, Holding
  <2>6. LockInv'
    BY <2>1, <2>2, <2>5, OneMoves DEF IInv, LockInv, Consistent
  <2> QED
    BY <2>2, <2>4, <2>6, LedgerFrame DEF IInv, NothingBefore
<1>2. CASE ArriveMovement(r)
  <2>1. \A n \in Quantities : n \in Stocks
    BY QuantityAssumption DEF Quantities, Stocks
  <2>2. "ADJUSTMENT" \in ClientMovementTypes /\ "create" \notin ClientMovementTypes
    BY DEF ClientMovementTypes, InboundTypes
  <2>3. CASE \E type \in ClientMovementTypes \ {"ADJUSTMENT"}, n \in Quantities :
               Request(r, "begun", type, n, Keep, Keep)
    BY <1>1, <1>2, <2>1, <2>2, <2>3 DEF ArriveMovement
  <2>4. CASE \E n \in Stocks : Request(r, "begun", "ADJUSTMENT", n, Keep, Keep)
    BY <1>1, <1>2, <2>2, <2>4 DEF ArriveMovement
  <2> QED
    BY <1>2, <2>3, <2>4 DEF ArriveMovement
<1>3. CASE ArriveCreate(r)
  BY <1>1, <1>3 DEF ArriveCreate, ClientMovementTypes, InboundTypes
<1>4. CASE ArriveUpdate(r)
  <2>1. 0 \in Stocks
    BY QuantityAssumption DEF Stocks
  <2> QED
    BY <1>1, <1>4, <2>1 DEF ArriveUpdate, ClientMovementTypes, InboundTypes
<1> QED
  BY <1>2, <1>3, <1>4

\* A transaction that ends without having written keeps everything.
LEMMA EndingKeepsIInv ==
  ASSUME IInv, NEW r \in Requests, End(r),
         UNCHANGED <<product, movements, categoryActive>>
  PROVE  IInv'
<1>1. TypeOK'
  BY EndKeepsTypes DEF IInv, TypeOK
<1> QED
  BY <1>1, EndKeepsLockInv, LedgerFrame DEF IInv, NothingBefore

\* The lock is granted only while nobody holds it, and what is read under it
\* is what the product is.
LEMMA LockProductKeepsIInv ==
  ASSUME IInv, NEW r \in Requests, LockProduct(r)
  PROVE  IInv'
<1>1. UNCHANGED <<product, movements, categoryActive>>
  BY DEF LockProduct
<1>2. CASE product.active
  <2> PICK t : t = [txn[r] EXCEPT !.pc = "checked", !.seen = product.stock]
    OBVIOUS
  <2>1. txn' = [txn EXCEPT ![r] = t] /\ rowLock' = r
    BY <1>2 DEF LockProduct
  <2>2. txn[r] \in Txn /\ WellFormed(txn[r]) /\ product \in Product
    BY DEF IInv, TypeOK, LockInv, Consistent
  <2>3. /\ t \in Txn
        /\ t.op = txn[r].op /\ t.amount = txn[r].amount
        /\ t.category = txn[r].category /\ t.pc = "checked"
        /\ t.seen = product.stock
    BY <2>2 DEF Txn, Product
  <2>4. TypeOK'
    BY <1>1, <2>1, <2>3 DEF IInv, TypeOK
  <2>5. Consistent(r, t)'
    BY <1>1, <1>2, <2>1, <2>2, <2>3 DEF Consistent, WellFormed
  <2>6. \A s \in Requests \ {r} : ~Holding(txn[s])
    BY NoRequestAssumption DEF LockProduct, IInv, LockInv, Consistent
  <2>7. LockInv'
    BY <1>1, <2>1, <2>5, <2>6, OneMoves
  <2> QED
    BY <1>1, <2>4, <2>7, LedgerFrame DEF IInv, NothingBefore
<1>3. CASE ~product.active
  BY <1>1, <1>3, EndingKeepsIInv DEF LockProduct
<1> QED
  BY <1>2, <1>3

\* Reading a category changes the reader only.
LEMMA AssertCategoryKeepsIInv ==
  ASSUME IInv, NEW r \in Requests, AssertAssignableCategory(r)
  PROVE  IInv'
<1>1. UNCHANGED <<product, movements, categoryActive>>
  BY DEF AssertAssignableCategory
<1>2. CASE categoryActive[txn[r].category]
  <2> PICK t : t = [txn[r] EXCEPT !.pc = "checked"]
    OBVIOUS
  <2>1. txn' = [txn EXCEPT ![r] = t] /\ rowLock' = rowLock
    BY <1>2 DEF AssertAssignableCategory
  <2>2. txn[r] \in Txn /\ WellFormed(txn[r])
    BY DEF IInv, TypeOK, LockInv, Consistent
  <2>3. /\ t \in Txn
        /\ t.op = txn[r].op /\ t.amount = txn[r].amount
        /\ t.category = txn[r].category
    BY <2>2 DEF Txn
  <2>4. TypeOK'
    BY <1>1, <2>1, <2>3 DEF IInv, TypeOK
  <2>5. Consistent(r, t)'
    BY <1>1, <2>1, <2>2, <2>3
    DEF AssertAssignableCategory, Consistent, WellFormed, Holding,
        ClientMovementTypes, InboundTypes
  <2>6. LockInv'
    BY <1>1, <2>1, <2>5, OneMoves DEF IInv, LockInv, Consistent
  <2> QED
    BY <1>1, <2>4, <2>6, LedgerFrame DEF IInv, NothingBefore
<1>3. CASE ~categoryActive[txn[r].category]
  BY <1>1, <1>3, EndingKeepsIInv DEF AssertAssignableCategory
<1> QED
  BY <1>2, <1>3

\* What a possible movement of request t books is a well typed row that starts
\* from the stock seen and changes it by its quantity.
LEMMA PossibleMovement ==
  ASSUME NEW t \in Txn, t.op \in ClientMovementTypes, IsPossible(t),
         t.op # "ADJUSTMENT" => t.amount \in Quantities,
         NEW m, m = [type |-> t.op, quantity |-> MovedQuantity(t),
                     previous |-> t.seen, new |-> NewStock(t)]
  PROVE  /\ m \in Movement
         /\ m.new \in Stocks
         /\ CASE m.type \in InboundTypes -> m.new = m.previous + m.quantity
              [] m.type = "OUTBOUND"     -> m.new = m.previous - m.quantity
              [] OTHER                   -> m.quantity = Distance(m.previous, m.new)
<1>1. t.amount \in Stocks /\ t.seen \in Stocks /\ MaxQuantity \in Nat
  BY QuantityAssumption DEF Txn
<1>2. CASE t.op = "ADJUSTMENT"
  <2>1. NewStock(t) = t.amount /\ MovedQuantity(t) = Distance(t.seen, t.amount)
    BY <1>2 DEF NewStock, MovedQuantity
  <2>2. Distance(t.seen, t.amount) \in Quantities
    BY <1>1, <1>2 DEF IsPossible, Distance, Stocks, Quantities
  <2> QED
    BY <1>1, <1>2, <2>1, <2>2 DEF Movement, InboundTypes
<1>3. CASE t.op = "OUTBOUND"
  <2>1. NewStock(t) = t.seen - t.amount /\ MovedQuantity(t) = t.amount
    BY <1>3 DEF NewStock, MovedQuantity
  <2>2. t.seen - t.amount \in Stocks
    BY <1>1, <1>3, <2>1 DEF IsPossible, Stocks
  <2> QED
    BY <1>1, <1>3, <2>1, <2>2 DEF Movement, InboundTypes
<1>4. CASE t.op \in InboundTypes
  <2>1. NewStock(t) = t.seen + t.amount /\ MovedQuantity(t) = t.amount
    BY <1>4 DEF NewStock, MovedQuantity, InboundTypes
  <2>2. t.seen + t.amount \in Stocks
    BY <1>1, <1>4, <2>1 DEF IsPossible, Stocks, InboundTypes
  <2> QED
    BY <1>1, <1>4, <2>1, <2>2 DEF Movement, InboundTypes
<1> QED
  BY <1>2, <1>3, <1>4 DEF ClientMovementTypes

\* A movement is booked on the stock of the moment, or refused.
LEMMA RecordMovementKeepsIInv ==
  ASSUME IInv, NEW r \in Requests, RecordMovement(r)
  PROVE  IInv'
<1> DEFINE t == txn[r]
<1>1. /\ t \in Txn /\ WellFormed(t) /\ t.op \in ClientMovementTypes
      /\ rowLock = r /\ t.seen = product.stock /\ product.exists
      /\ product \in Product /\ movements \in Seq(Movement)
      /\ End(r)
  BY DEF IInv, TypeOK, LockInv, Consistent, Holding, WellFormed, RecordMovement
<1>2. CASE IsPossible(t)
  <2> PICK m : m = [type |-> t.op, quantity |-> MovedQuantity(t),
                    previous |-> t.seen, new |-> NewStock(t)]
    OBVIOUS
  <2>1. /\ m \in Movement
        /\ m.new \in Stocks
        /\ CASE m.type \in InboundTypes -> m.new = m.previous + m.quantity
             [] m.type = "OUTBOUND"     -> m.new = m.previous - m.quantity
             [] OTHER                   -> m.quantity = Distance(m.previous, m.new)
    BY <1>1, <1>2, PossibleMovement DEF WellFormed
  <2>2. /\ product' = [product EXCEPT !.stock = m.new]
        /\ movements' = Append(movements, m)
        /\ categoryActive' = categoryActive
    BY <1>2 DEF RecordMovement
  <2>3. product' \in Product /\ product'.stock = m.new /\ product'.exists
    BY <1>1, <2>1, <2>2 DEF Product
  <2>4. movements' \in Seq(Movement)
    BY <1>1, <2>1, <2>2
  <2>5. TypeOK'
    BY <1>1, <2>2, <2>3, <2>4, EndKeepsTypes DEF IInv, TypeOK
  <2>6. LockInv'
    BY <1>1, <2>3, EndKeepsLockInv
  <2>7. LedgerExplainsStock'
    BY <1>1, <2>1, <2>2, <2>3, BookingExplains DEF IInv
  <2> QED
    BY <2>3, <2>5, <2>6, <2>7 DEF IInv, NothingBefore
<1>3. CASE ~IsPossible(t)
  BY <1>1, <1>3, EndingKeepsIInv DEF RecordMovement
<1> QED
  BY <1>2, <1>3

\* The opening stock is booked with the product.
LEMMA CreateProductKeepsIInv ==
  ASSUME IInv, NEW r \in Requests, CreateProduct(r)
  PROVE  IInv'
<1> DEFINE t == txn[r]
<1>1. /\ t \in Txn /\ WellFormed(t) /\ t.op = "create"
      /\ product \in Product /\ movements \in Seq(Movement)
      /\ End(r) /\ categoryActive' = categoryActive
  BY DEF IInv, TypeOK, LockInv, Consistent, CreateProduct
<1>2. CASE product.exists
  BY <1>1, <1>2, EndingKeepsIInv DEF CreateProduct
<1>3. CASE ~product.exists
  <2>1. /\ product' = [exists |-> TRUE, stock |-> t.amount, active |-> TRUE,
                       category |-> t.category]
        /\ movements = << >>
        /\ product.stock = 0
    BY <1>3 DEF CreateProduct, IInv, NothingBefore, LedgerExplainsStock
  <2>2. t.amount \in Stocks /\ t.category \in Categories \cup {NoCategory}
    BY <1>1 DEF Txn, WellFormed
  <2>3. product' \in Product /\ product'.stock = t.amount /\ product'.exists
    BY <2>1, <2>2 DEF Product
  <2>4. LockInv'
    BY <1>1, <1>3, EndKeepsLockInv
  <2>5. CASE t.amount = 0
    <3>1. movements' = movements
      BY <1>3, <2>5 DEF CreateProduct
    <3>2. TypeOK'
      BY <1>1, <2>3, <3>1, EndKeepsTypes DEF IInv, TypeOK
    <3> QED
      BY <2>1, <2>3, <2>4, <2>5, <3>1, <3>2, LedgerFrame DEF IInv, NothingBefore
  <2>6. CASE t.amount # 0
    <3> PICK m : m = [type |-> "INBOUND", quantity |-> t.amount, previous |-> 0,
                      new |-> t.amount]
      OBVIOUS
    <3>1. movements' = Append(movements, m)
      BY <1>3, <2>6 DEF CreateProduct
    <3>2. m \in Movement
      BY <2>2, <2>6, QuantityAssumption
      DEF Movement, Stocks, Quantities, ClientMovementTypes, InboundTypes
    <3>3. movements' \in Seq(Movement)
      BY <1>1, <3>1, <3>2
    <3>4. TypeOK'
      BY <1>1, <2>3, <3>3, EndKeepsTypes DEF IInv, TypeOK
    <3>5. m.type \in InboundTypes /\ m.new = m.previous + m.quantity
      BY <2>2 DEF InboundTypes, Stocks
    <3>6. LedgerExplainsStock'
      BY <2>1, <2>3, <3>1, <3>2, <3>5, BookingExplains DEF IInv
    <3> QED
      BY <2>3, <2>4, <3>4, <3>6 DEF IInv, NothingBefore
  <2> QED
    BY <2>5, <2>6
<1> QED
  BY <1>2, <1>3

\* An edit leaves the stock and the ledger alone and waits for movements.
LEMMA UpdateProductKeepsIInv ==
  ASSUME IInv, NEW r \in Requests, UpdateProduct(r)
  PROVE  IInv'
<1> DEFINE t == txn[r]
<1>1. /\ t \in Txn /\ product \in Product /\ product.exists
      /\ rowLock = NoRequest
      /\ UNCHANGED <<movements, categoryActive, rowLock>>
  BY DEF IInv, TypeOK, LockInv, Consistent, WellFormed, UpdateProduct
<1>2. \E c \in Categories \cup {NoCategory}, a \in BOOLEAN :
        product' = [product EXCEPT !.category = c, !.active = a]
  <2>1. /\ (IF t.category = Keep THEN product.category ELSE t.category)
             \in Categories \cup {NoCategory}
        /\ (IF t.active = Keep THEN product.active ELSE t.active) \in BOOLEAN
    BY <1>1 DEF Txn, Product
  <2> QED
    BY <2>1 DEF UpdateProduct, Edited
<1>3. /\ product' \in Product
      /\ product'.exists
      /\ product'.stock = product.stock
  BY <1>1, <1>2 DEF Product
<1>4. PICK others \in [Requests -> Txn] :
        /\ \A s \in Requests : Resembles(others[s], txn[s])
        /\ txn' = [others EXCEPT ![r] = Idle]
  <2>1. txn \in [Requests -> Txn] /\ \A s \in Requests : Resembles(txn[s], txn[s])
    BY DEF IInv, TypeOK, Resembles
  <2> QED
    BY <2>1, OvertakenFacts DEF IInv, UpdateProduct
<1>5. Idle \in Txn
  BY QuantityAssumption DEF Idle, Txn, Stocks
<1>6. TypeOK'
  BY <1>1, <1>3, <1>4, <1>5 DEF IInv, TypeOK
<1>7. LockInv'
  <2>1. Consistent(r, txn[r])'
    <3>1. txn'[r] = Idle
      BY <1>4
    <3> QED
      BY <3>1, IdleIsConsistent
  <2>2. \A s \in Requests \ {r} : Resembles(txn'[s], txn[s]) /\ ~Holding(txn[s])
    BY <1>1, <1>4, NoRequestAssumption DEF IInv, LockInv, Consistent
  <2> QED
    BY <1>3, <2>1, <2>2, OthersResemble
<1> QED
  BY <1>1, <1>3, <1>6, <1>7, LedgerFrame DEF IInv, NothingBefore

\* A category is renamed, retired or taken back; requests may be overtaken by that.
LEMMA UpdateCategoryKeepsIInv ==
  ASSUME IInv, UpdateCategory
  PROVE  IInv'
<1>1. /\ categoryActive' \in [Categories -> BOOLEAN]
      /\ UNCHANGED <<product, movements, rowLock>>
  BY DEF UpdateCategory, IInv, TypeOK
<1>2. txn' \in [Requests -> Txn] /\ \A s \in Requests : Resembles(txn'[s], txn[s])
  <2>1. txn \in [Requests -> Txn] /\ \A s \in Requests : Resembles(txn[s], txn[s])
    BY DEF IInv, TypeOK, Resembles
  <2>2. txn' = txn \/ \E c \in Categories : txn' = Overtaken(c)
    BY DEF UpdateCategory
  <2> QED
    BY <2>1, <2>2, OvertakenFacts DEF IInv
<1>3. LockInv'
  BY <1>1, <1>2, OthersResemble
<1>4. TypeOK'
  BY <1>1, <1>2 DEF IInv, TypeOK
<1> QED
  BY <1>1, <1>3, <1>4, LedgerFrame DEF IInv, NothingBefore

\* Every step keeps the invariant.
LEMMA NextIInv == IInv /\ [Next]_vars => IInv'
<1> SUFFICES ASSUME IInv, [Next]_vars PROVE IInv'
  OBVIOUS
<1>1. CASE UpdateCategory
  BY <1>1, UpdateCategoryKeepsIInv
<1>2. CASE UNCHANGED vars
  BY <1>2, LedgerFrame
  DEF vars, IInv, TypeOK, LockInv, Consistent, WellFormed, Holding, NothingBefore
<1>3. ASSUME NEW r \in Requests, Rollback(r)
      PROVE  IInv'
  BY <1>3, EndingKeepsIInv DEF Rollback
<1> QED
  BY <1>1, <1>2, <1>3, ArrivingKeepsIInv, LockProductKeepsIInv,
     AssertCategoryKeepsIInv, RecordMovementKeepsIInv, CreateProductKeepsIInv,
     UpdateProductKeepsIInv
  DEF Next, Step

-----------------------------------------------------------------------------
(* The theorems.                                                           *)

\* IInv holds in every reachable state.
THEOREM Invariance == Spec => []IInv
BY InitIInv, NextIInv, PTL DEF Spec

\* Stocks and quantities stay within 0 and MAX_QUANTITY, and every column
\* within its type, whatever movements run side by side.
THEOREM TypeCorrect == Spec => []TypeOK
<1>1. IInv => TypeOK
  BY DEF IInv
<1> QED
  BY <1>1, Invariance, PTL

\* However many requests there are and however long the ledger gets, the
\* movements account for the stock on the shelf.
THEOREM LedgerIsComplete == Spec => []LedgerExplainsStock
<1>1. IInv => LedgerExplainsStock
  BY DEF IInv
<1> QED
  BY <1>1, Invariance, PTL

-----------------------------------------------------------------------------
(* Categories: a second invariant, inductive relative to IInv.             *)

\* A request that is about to write a category has seen it active, or as the one the
\* product has; unless it was overtaken, it still is.
Looked(t) ==
  t.pc = "checked" /\ t.op \in {"create", "update"} /\ t.category \in Categories
    => \/ categoryActive[t.category]
       \/ t.late
       \/ t.op = "update" /\ product.category = t.category

LookedInv == \A r \in Requests : Looked(txn[r])

\* Where no category and no product moves, only a request that becomes checked counts.
LEMMA LookedFrame ==
  ASSUME LookedInv, product'.category = product.category,
         categoryActive' = categoryActive,
         \A r \in Requests :
           \/ txn'[r] = txn[r]
           \/ txn'[r].pc # "checked"
           \/ txn'[r].op \notin {"create", "update"}
           \/ Looked(txn[r])'
  PROVE  LookedInv'
<1> SUFFICES ASSUME NEW r \in Requests PROVE Looked(txn[r])'
  BY DEF LookedInv
<1>1. CASE txn'[r] = txn[r]
  BY <1>1 DEF LookedInv, Looked
<1> QED
  BY <1>1 DEF Looked

LEMMA EndKeepsLooked ==
  ASSUME IInv, LookedInv, NEW r \in Requests, End(r),
         product'.category = product.category, categoryActive' = categoryActive
  PROVE  LookedInv'
<1>1. \A s \in Requests : txn'[s] = txn[s] \/ txn'[s].pc # "checked"
  BY DEF End, Idle, IInv, TypeOK
<1> QED
  BY <1>1, LookedFrame

LEMMA ArrivingKeepsLooked ==
  ASSUME IInv, LookedInv, NEW r \in Requests,
         ArriveMovement(r) \/ ArriveCreate(r) \/ ArriveUpdate(r)
  PROVE  LookedInv'
<1>1. ASSUME NEW pc, NEW op, NEW n, NEW c, NEW a,
             Request(r, pc, op, n, c, a),
             \/ pc = "begun"
             \/ c \notin Categories
             \/ op = "update" /\ c = product.category
      PROVE  LookedInv'
  <2> PICK t : t = [pc |-> pc, op |-> op, amount |-> n, category |-> c,
                    active |-> a, seen |-> 0, late |-> FALSE]
    OBVIOUS
  <2>1. /\ txn' = [txn EXCEPT ![r] = t]
        /\ UNCHANGED <<product, movements, categoryActive, rowLock>>
    BY <1>1 DEF Request
  <2>2. txn'[r] = t /\ \A s \in Requests \ {r} : txn'[s] = txn[s]
    BY <2>1 DEF IInv, TypeOK
  <2>3. t.pc = pc /\ t.op = op /\ t.category = c
    OBVIOUS
  <2>4. t.pc # "checked" \/ Looked(t)'
    BY <1>1, <2>1, <2>3 DEF Looked
  <2> QED
    BY <2>1, <2>2, <2>4, LookedFrame
<1>2. CASE ArriveMovement(r)
  BY <1>1, <1>2 DEF ArriveMovement
<1>3. CASE ArriveCreate(r)
  BY <1>1, <1>3, CategoryAssumption DEF ArriveCreate
<1>4. CASE ArriveUpdate(r)
  BY <1>1, <1>4 DEF ArriveUpdate
<1> QED
  BY <1>2, <1>3, <1>4

LEMMA LockProductKeepsLooked ==
  ASSUME IInv, LookedInv, NEW r \in Requests, LockProduct(r)
  PROVE  LookedInv'
<1>1. UNCHANGED <<product, categoryActive>> /\ txn[r].op \in ClientMovementTypes
  BY DEF LockProduct
<1>2. CASE product.active
  <2> PICK t : t = [txn[r] EXCEPT !.pc = "checked", !.seen = product.stock]
    OBVIOUS
  <2>1. txn'[r] = t /\ \A s \in Requests \ {r} : txn'[s] = txn[s]
    BY <1>2 DEF LockProduct, IInv, TypeOK
  <2>2. t.op = txn[r].op
    OBVIOUS
  <2>3. t.op \notin {"create", "update"}
    BY <1>1, <2>2 DEF ClientMovementTypes, InboundTypes
  <2> QED
    BY <1>1, <2>1, <2>3, LookedFrame
<1>3. CASE ~product.active
  BY <1>1, <1>3, EndKeepsLooked DEF LockProduct
<1> QED
  BY <1>2, <1>3

LEMMA AssertCategoryKeepsLooked ==
  ASSUME IInv, LookedInv, NEW r \in Requests, AssertAssignableCategory(r)
  PROVE  LookedInv'
<1>1. UNCHANGED <<product, categoryActive>>
  BY DEF AssertAssignableCategory
<1>2. CASE categoryActive[txn[r].category]
  <2> PICK t : t = [txn[r] EXCEPT !.pc = "checked"]
    OBVIOUS
  <2>1. txn'[r] = t /\ \A s \in Requests \ {r} : txn'[s] = txn[s]
    BY <1>2 DEF AssertAssignableCategory, IInv, TypeOK
  <2>2. t.category = txn[r].category
    OBVIOUS
  <2>3. Looked(t)'
    BY <1>1, <1>2, <2>2 DEF Looked
  <2> QED
    BY <1>1, <2>1, <2>3, LookedFrame
<1>3. CASE ~categoryActive[txn[r].category]
  BY <1>1, <1>3, EndKeepsLooked DEF AssertAssignableCategory
<1> QED
  BY <1>2, <1>3

\* Before the product exists, no edit of it is under way.
LEMMA CreateProductKeepsLooked ==
  ASSUME IInv, LookedInv, NEW r \in Requests, CreateProduct(r)
  PROVE  LookedInv'
<1>1. End(r) /\ categoryActive' = categoryActive
  BY DEF CreateProduct
<1>2. CASE product.exists
  BY <1>1, <1>2, EndKeepsLooked DEF CreateProduct
<1>3. CASE ~product.exists
  <2>1. \A s \in Requests : txn[s].op # "update"
    BY <1>3 DEF IInv, LockInv, Consistent, WellFormed
  <2>2. \A s \in Requests : txn'[s] = txn[s] \/ txn'[s].pc # "checked"
    BY <1>1 DEF End, Idle, IInv, TypeOK
  <2> QED
    BY <1>1, <2>1, <2>2 DEF LookedInv, Looked
<1> QED
  BY <1>2, <1>3

\* An edit that takes the product out of a category overtakes those that count on it.
LEMMA UpdateProductKeepsLooked ==
  ASSUME IInv, LookedInv, NEW r \in Requests, UpdateProduct(r)
  PROVE  LookedInv'
<1> DEFINE moved == txn[r].category \notin {Keep, product.category}
<1>1. categoryActive' = categoryActive /\ product \in Product /\ TypeOK
  BY DEF UpdateProduct, IInv, TypeOK
<1>2. CASE moved
  <2> PICK others : others = Overtaken(product.category)
    OBVIOUS
  <2>1. /\ others \in [Requests -> Txn]
        /\ \A s \in Requests :
             /\ Resembles(others[s], txn[s])
             /\ others[s].late =
                  (txn[s].late \/
                     (txn[s].pc = "checked" /\ txn[s].category = product.category))
    BY <1>1, OvertakenFacts
  <2>2. txn' = [others EXCEPT ![r] = Idle]
    BY <1>2 DEF UpdateProduct
  <2>3. txn'[r] = Idle /\ \A s \in Requests \ {r} : txn'[s] = others[s]
    BY <2>1, <2>2
  <2>4. Idle.pc # "checked"
    BY DEF Idle
  <2>5. ASSUME NEW s \in Requests \ {r}
        PROVE  Looked(txn[s])'
    <3>1. Resembles(txn'[s], txn[s]) /\ Looked(txn[s])
      BY <2>1, <2>3 DEF LookedInv
    <3>2. txn'[s].late =
            (txn[s].late \/
               (txn[s].pc = "checked" /\ txn[s].category = product.category))
      BY <2>1, <2>3
    <3> QED
      BY <1>1, <3>1, <3>2 DEF Looked, Resembles
  <2> QED
    BY <2>3, <2>4, <2>5 DEF LookedInv, Looked
<1>3. CASE ~moved
  <2>1. End(r)
    BY <1>3 DEF UpdateProduct, End
  <2>2. product'.category = product.category
    BY <1>1, <1>3 DEF UpdateProduct, Edited, Product
  <2> QED
    BY <1>1, <2>1, <2>2, EndKeepsLooked
<1> QED
  BY <1>2, <1>3

\* A category that is retired overtakes those that have seen it active.
LEMMA UpdateCategoryKeepsLooked ==
  ASSUME IInv, LookedInv, UpdateCategory
  PROVE  LookedInv'
<1>1. PICK c \in Categories, a \in BOOLEAN :
        /\ categoryActive' = [categoryActive EXCEPT ![c] = a]
        /\ txn' = IF a THEN txn ELSE Overtaken(c)
        /\ product' = product
  BY DEF UpdateCategory
<1>2. TypeOK /\ categoryActive \in [Categories -> BOOLEAN]
  BY DEF IInv, TypeOK
<1>3. SUFFICES ASSUME NEW s \in Requests PROVE Looked(txn[s])'
  BY DEF LookedInv
<1>4. Looked(txn[s])
  BY DEF LookedInv
<1>5. CASE a
  BY <1>1, <1>2, <1>4, <1>5 DEF Looked
<1>6. CASE ~a
  <2>1. /\ Resembles(txn'[s], txn[s])
        /\ txn'[s].late = (txn[s].late \/ (txn[s].pc = "checked" /\ txn[s].category = c))
    BY <1>1, <1>2, <1>6, OvertakenFacts
  <2> QED
    BY <1>1, <1>2, <1>4, <2>1 DEF Looked, Resembles
<1> QED
  BY <1>5, <1>6

LEMMA NextKeepsLooked == IInv /\ LookedInv /\ [Next]_vars => LookedInv'
<1> SUFFICES ASSUME IInv, LookedInv, [Next]_vars PROVE LookedInv'
  OBVIOUS
<1>1. CASE UNCHANGED vars
  BY <1>1 DEF vars, LookedInv, Looked
<1>2. ASSUME NEW r \in Requests, Rollback(r)
      PROVE  LookedInv'
  BY <1>2, EndKeepsLooked DEF Rollback
<1>3. ASSUME NEW r \in Requests, RecordMovement(r)
      PROVE  LookedInv'
  <2>1. product'.category = product.category
    BY <1>3 DEF RecordMovement, IInv, TypeOK, Product
  <2> QED
    BY <1>3, <2>1, EndKeepsLooked DEF RecordMovement
<1> QED
  BY <1>1, <1>2, <1>3, ArrivingKeepsLooked, LockProductKeepsLooked,
     AssertCategoryKeepsLooked, CreateProductKeepsLooked,
     UpdateProductKeepsLooked, UpdateCategoryKeepsLooked
  DEF Next, Step

LEMMA LookedInvariance == Spec => []LookedInv
<1>1. Init => LookedInv
  BY DEF Init, LookedInv, Looked, Idle
<1> QED
  BY <1>1, NextKeepsLooked, Invariance, PTL DEF Spec

\* What a step that files the product under another category has to go by.
LEMMA FilingWasLate ==
  ASSUME IInv, LookedInv, [Next]_vars, NEW c \in Categories,
         product'.category = c, product.category # c, ~categoryActive[c]
  PROVE  \E r \in Requests : Files(r, c) /\ txn[r].late
<1>1. ASSUME NEW r \in Requests, CreateProduct(r)
      PROVE  Files(r, c) /\ txn[r].late
  <2>1. txn[r].category = c /\ txn[r].pc = "checked" /\ txn[r].op = "create"
    BY <1>1 DEF CreateProduct
  <2>2. txn'[r] = Idle
    BY <1>1 DEF CreateProduct, End, IInv, TypeOK
  <2> QED
    BY <2>1, <2>2 DEF Files, LookedInv, Looked
<1>2. ASSUME NEW r \in Requests, UpdateProduct(r)
      PROVE  Files(r, c) /\ txn[r].late
  <2>1. txn[r].pc = "checked" /\ txn[r].op = "update"
    BY <1>2 DEF UpdateProduct
  <2>2. txn[r].category = c
    BY <1>2 DEF UpdateProduct, Edited, IInv, TypeOK, Product
  <2>3. txn'[r] = Idle
    <3>1. txn \in [Requests -> Txn] /\ Overtaken(product.category) \in [Requests -> Txn]
      BY OvertakenFacts DEF IInv, TypeOK
    <3> QED
      BY <1>2, <3>1 DEF UpdateProduct
  <2> QED
    BY <2>1, <2>2, <2>3 DEF Files, LookedInv, Looked
<1>3. ASSUME NEW r \in Requests, RecordMovement(r)
      PROVE  FALSE
  BY <1>3 DEF RecordMovement, IInv, TypeOK, Product
<1>4. \E r \in Requests : RecordMovement(r) \/ CreateProduct(r) \/ UpdateProduct(r)
  BY DEF Next, vars, Step, ArriveMovement, ArriveCreate, ArriveUpdate, Request,
         Rollback, LockProduct, AssertAssignableCategory, UpdateCategory
<1> QED
  BY <1>1, <1>2, <1>3, <1>4

\* For any number of categories and requests, a product comes under an inactive category
\* only by a request that was overtaken between its check and its write.
THEOREM LateAssignmentsOnly == Spec => OnlyLateAssignments
<1>1. IInv /\ LookedInv /\ [Next]_vars =>
        [\A c \in Categories :
           /\ product'.category = c /\ product.category # c
           /\ ~categoryActive[c]
           => \E r \in Requests : Files(r, c) /\ txn[r].late]_vars
  BY FilingWasLate
<1> QED
  BY <1>1, Invariance, LookedInvariance, PTL DEF Spec, OnlyLateAssignments

-----------------------------------------------------------------------------
(* The requests implement the abstract account.                            *)

\* The log of the account, as the refinement maps it.
Log == [i \in 1 .. Len(movements) |-> LoggedOp(movements[i])]

\* A function on 1 .. k is a sequence of length k.
LEMMA FunctionIsSequence ==
  ASSUME NEW S, NEW k \in Nat, NEW f \in [1 .. k -> S]
  PROVE  f \in Seq(S) /\ Len(f) = k
<1>1. f \in Seq(S)
  BY SeqDef
<1>2. DOMAIN f = 1 .. Len(f) /\ Len(f) \in Nat
  BY <1>1, LenProperties
<1> QED
  BY <1>1, <1>2

\* Booking one movement logs one operation.
LEMMA BookingLogs ==
  ASSUME movements \in Seq(Movement), NEW m \in Movement,
         movements' = Append(movements, m)
  PROVE  Log' = Append(Log, LoggedOp(m))
<1> DEFINE n == Len(movements)
<1>1. /\ n \in Nat
      /\ Len(movements') = n + 1
      /\ movements'[n + 1] = m
      /\ \A i \in 1 .. n : movements'[i] = movements[i]
  OBVIOUS
<1>2. \A k : LoggedOp(k) \in [op: {"PUT", "TAKE", "COUNT"}, n: {k.quantity, k.new}]
  BY DEF LoggedOp
<1> DEFINE Op == [op: {"PUT", "TAKE", "COUNT"}, n: Quantities \cup Stocks]
<1>3. \A k \in Movement : LoggedOp(k) \in Op
  BY <1>2 DEF Movement
<1>4. \A i \in 1 .. n : movements[i] \in Movement
  BY <1>1
<1>5. Log \in Seq(Op) /\ Len(Log) = n
  <2>1. Log \in [1 .. n -> Op]
    BY <1>3, <1>4 DEF Log
  <2> HIDE DEF n, Op
  <2> QED
    BY <1>1, <2>1, FunctionIsSequence
<1>6. Log' \in Seq(Op) /\ Len(Log') = n + 1
  <2>1. Log' \in [1 .. n + 1 -> Op]
    BY <1>1, <1>3, <1>4 DEF Log, LoggedOp
  <2>2. n + 1 \in Nat
    BY <1>1
  <2> HIDE DEF n, Op
  <2> QED
    BY <2>1, <2>2, FunctionIsSequence
<1>7. LoggedOp(m) \in Op
  BY <1>3
<1> HIDE DEF Op
<1>8. /\ \A i \in 1 .. n : Log'[i] = Log[i]
      /\ Log'[n + 1] = LoggedOp(m)
  BY <1>1 DEF Log, LoggedOp
<1> QED
  BY <1>1, <1>5, <1>6, <1>7, <1>8

\* The account starts empty.
LEMMA AccountStarts == Init => Account!AccountInit
<1> SUFFICES ASSUME Init PROVE Account!AccountInit
  OBVIOUS
<1>1. [i \in 1 .. Len(movements) |-> LoggedOp(movements[i])] = << >>
  BY DEF Init
<1> QED
  BY <1>1 DEF Init, Account!AccountInit

\* Every step of the requests is one step of the account, or none.
LEMMA StepsImplementAccount ==
  IInv /\ [Next]_vars => [Account!AccountNext]_(Account!accountVars)
<1> DEFINE state == IF ~product.exists THEN "NONE"
                    ELSE IF product.active THEN "ACTIVE" ELSE "INACTIVE"
           Stutter == product' = product /\ movements' = movements
<1> SUFFICES ASSUME IInv, [Next]_vars
             PROVE  Account!AccountNext \/ UNCHANGED Account!accountVars
  OBVIOUS
<1> USE DEF Account!accountVars
<1>1. CASE Stutter
  BY <1>1
<1>2. ASSUME NEW r \in Requests, RecordMovement(r), ~Stutter
      PROVE  Account!AccountNext
  <2> DEFINE t == txn[r]
  <2>1. /\ t \in Txn /\ t.op \in ClientMovementTypes
        /\ t.op # "ADJUSTMENT" => t.amount \in Quantities
        /\ t.seen = product.stock /\ product.exists /\ product.active
        /\ product \in Product /\ movements \in Seq(Movement)
        /\ IsPossible(t)
    BY <1>2 DEF IInv, TypeOK, LockInv, Consistent, Holding, WellFormed,
                RecordMovement
  <2> PICK m : m = [type |-> t.op, quantity |-> MovedQuantity(t),
                    previous |-> t.seen, new |-> NewStock(t)]
    OBVIOUS
  <2>2. /\ product' = [product EXCEPT !.stock = m.new]
        /\ movements' = Append(movements, m)
    BY <1>2, <2>1 DEF RecordMovement
  <2>3. m \in Movement /\ m.new \in Stocks
    BY <2>1, PossibleMovement
  <2>4. /\ product'.stock = m.new /\ product'.exists /\ product'.active
        /\ product.stock \in Stocks
    BY <2>1, <2>2 DEF Product
  <2>5. Log' = Append(Log, LoggedOp(m))
    BY <2>1, <2>2, <2>3, BookingLogs
  <2>6. CASE t.op = "ADJUSTMENT"
    <3>1. m.new = t.amount /\ t.amount # product.stock /\ t.amount \in Stocks
      BY <2>1, <2>6 DEF NewStock, IsPossible, Txn
    <3>2. LoggedOp(m) = [op |-> "COUNT", n |-> t.amount]
      BY <2>6, <3>1 DEF LoggedOp, InboundTypes
    <3>3. Account!Count(t.amount)
      BY <2>4, <2>5, <3>1, <3>2 DEF Account!Count, Account!Logged, Log
    <3> QED
      BY <2>1, <2>4, <3>1, <3>3 DEF Account!AccountNext, Account!Operate, Stocks
  <2>7. CASE t.op = "OUTBOUND"
    <3>1. /\ m.new = product.stock - t.amount /\ m.quantity = t.amount
          /\ t.amount \in Quantities
      BY <2>1, <2>7 DEF NewStock, MovedQuantity
    <3>2. t.amount <= product.stock
      BY <2>3, <2>4, <3>1, QuantityAssumption DEF Stocks, Quantities
    <3>3. LoggedOp(m) = [op |-> "TAKE", n |-> t.amount]
      BY <2>7, <3>1 DEF LoggedOp, InboundTypes
    <3>4. Account!Take(t.amount)
      BY <2>4, <2>5, <3>1, <3>2, <3>3 DEF Account!Take, Account!Logged, Log
    <3> QED
      BY <2>1, <2>4, <3>1, <3>4
      DEF Account!AccountNext, Account!Operate, Quantities
  <2>8. CASE t.op \in InboundTypes
    <3>1. /\ m.new = product.stock + t.amount /\ m.quantity = t.amount
          /\ t.amount \in Quantities
      BY <2>1, <2>8 DEF NewStock, MovedQuantity, InboundTypes
    <3>2. product.stock + t.amount <= MaxQuantity
      BY <2>3, <3>1 DEF Stocks
    <3>3. LoggedOp(m) = [op |-> "PUT", n |-> t.amount]
      BY <2>8, <3>1 DEF LoggedOp, InboundTypes
    <3>4. Account!Put(t.amount)
      BY <2>4, <2>5, <3>1, <3>2, <3>3 DEF Account!Put, Account!Logged, Log
    <3> QED
      BY <2>1, <2>4, <3>1, <3>4
      DEF Account!AccountNext, Account!Operate, Quantities
  <2> QED
    BY <2>1, <2>6, <2>7, <2>8 DEF ClientMovementTypes
<1>3. ASSUME NEW r \in Requests, CreateProduct(r), ~Stutter
      PROVE  Account!AccountNext
  <2> DEFINE t == txn[r]
  <2>1. /\ ~product.exists /\ product'.exists /\ product'.active
        /\ product'.stock = t.amount /\ movements \in Seq(Movement)
        /\ t.amount \in Stocks
    BY <1>3 DEF CreateProduct, IInv, TypeOK, Txn
  <2>2. CASE t.amount = 0
    <3>1. movements' = movements
      BY <1>3, <2>1, <2>2 DEF CreateProduct
    <3>2. Account!Open(0)
      BY <2>1, <2>2, <3>1 DEF Account!Open
    <3> QED
      BY <2>1, <2>2, <3>2 DEF Account!AccountNext, Stocks
  <2>3. CASE t.amount # 0
    <3> PICK m : m = [type |-> "INBOUND", quantity |-> t.amount, previous |-> 0,
                      new |-> t.amount]
      OBVIOUS
    <3>1. movements' = Append(movements, m)
      BY <1>3, <2>1, <2>3 DEF CreateProduct
    <3>2. m \in Movement
      BY <2>1, <2>3, QuantityAssumption
      DEF Movement, Stocks, Quantities, ClientMovementTypes, InboundTypes
    <3>3. LoggedOp(m) = [op |-> "PUT", n |-> t.amount]
      BY DEF LoggedOp, InboundTypes
    <3>4. Log' = Append(Log, LoggedOp(m))
      BY <2>1, <3>1, <3>2, BookingLogs
    <3>5. Account!Open(t.amount)
      BY <2>1, <2>3, <3>3, <3>4 DEF Account!Open, Account!Logged, Log
    <3> QED
      BY <2>1, <3>5 DEF Account!AccountNext, Stocks
  <2> QED
    BY <2>2, <2>3
<1>4. ASSUME NEW r \in Requests, UpdateProduct(r)
      PROVE  Account!AccountNext \/ UNCHANGED Account!accountVars
  <2>1. /\ product.exists /\ product \in Product /\ movements' = movements
        /\ txn[r] \in Txn
    BY <1>4 DEF UpdateProduct, IInv, TypeOK, LockInv, Consistent, WellFormed
  <2>2. /\ product'.exists /\ product'.stock = product.stock
        /\ product'.active \in BOOLEAN /\ product.active \in BOOLEAN
    BY <1>4, <2>1 DEF UpdateProduct, Edited, Product, Txn
  <2>3. state' = state \/ Account!Retire \/ Account!Reinstate
    BY <2>1, <2>2 DEF Account!Retire, Account!Reinstate
  <2> QED
    BY <2>1, <2>2, <2>3 DEF Account!AccountNext
<1>5. Stutter \/ \E r \in Requests :
                   RecordMovement(r) \/ CreateProduct(r) \/ UpdateProduct(r)
  BY DEF Next, vars, Step, ArriveMovement, ArriveCreate, ArriveUpdate, Request,
         Rollback, LockProduct, AssertAssignableCategory, UpdateCategory
<1> QED
  BY <1>1, <1>2, <1>3, <1>4, <1>5

\* However many requests interleave, each commit is one whole operation on the
\* stock of its time, and none reaches a product that is inactive by then.
THEOREM AccountImplemented == Spec => ImplementsStockAccount
BY AccountStarts, StepsImplementAccount, Invariance, PTL
DEF Spec, ImplementsStockAccount, Account!AccountSpec

=============================================================================
