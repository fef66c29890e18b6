--------------------------- MODULE InventoryLedger ---------------------------
(***************************************************************************)
(* One product of the inventory, its ledger of stock movements and the     *)
(* categories it may be filed under, as the requests served by             *)
(* src/src/modules/inventory change them.                                  *)
(*                                                                         *)
(* Every request is one interactive Prisma transaction under PostgreSQL's  *)
(* READ COMMITTED.  A movement begins with SELECT ... FOR UPDATE on the    *)
(* product row and computes the new stock from what it read; creating and  *)
(* editing a product read without a lock and lock the row only when their  *)
(* INSERT or UPDATE runs.  Writes become visible at the commit, so the     *)
(* writing part of a transaction is one action.                            *)
(*                                                                         *)
(* Decimal(12,3) quantities are naturals counted in thousandths.  Names,   *)
(* prices, the order a movement is linked to and the member who recorded   *)
(* it are left out: an unknown order or member only makes the request      *)
(* fail, which is one of the reasons for Rollback.                         *)
(***************************************************************************)
EXTENDS Integers, Sequences

CONSTANTS
  Requests,      \* the slots in which HTTP requests are served concurrently
  Categories,    \* inventory_categories of the workshop
  MaxQuantity,   \* MAX_QUANTITY, in units of the column's scale
  MaxMovements,  \* bound of the model on the length of the ledger
  NoCategory,    \* category_id IS NULL
  Keep,          \* a field that is absent from the body of an update
  NoRequest      \* nobody holds the lock on the product row

ASSUME QuantityAssumption == MaxQuantity \in Nat \ {0} /\ MaxMovements \in Nat
ASSUME CategoryAssumption ==
  NoCategory \notin Categories /\ Keep \notin Categories \cup {NoCategory}
ASSUME FlagAssumption == Keep \notin BOOLEAN
ASSUME NoRequestAssumption == NoRequest \notin Requests

VARIABLES
  product,         \* the row of inventory_products
  movements,       \* its rows of inventory_movements, in the order of commits
  categoryActive,  \* inventory_categories.is_active
  rowLock,         \* the transaction that holds the product row FOR UPDATE
  txn              \* per slot: the request it serves and what it has read

vars == <<product, movements, categoryActive, rowLock, txn>>

-----------------------------------------------------------------------------
(* Rows and requests.                                                      *)

Quantities == 1 .. MaxQuantity  \* @IsPositive @Max(MAX_QUANTITY)
Stocks == 0 .. MaxQuantity      \* @Min(0) @Max(MAX_QUANTITY)

\* RESERVATION and RELEASE exist in the enum; no code writes them.
InboundTypes == {"INBOUND", "RETURN"}
ClientMovementTypes == InboundTypes \cup {"OUTBOUND", "ADJUSTMENT"}

Product ==
  [exists: BOOLEAN, stock: Stocks, active: BOOLEAN,
   category: Categories \cup {NoCategory}]

Movement ==
  [type: ClientMovementTypes, quantity: Quantities, previous: Stocks,
   new: Stocks]

\* amount is quantity, countedStock or initialStock; category and active are
\* what the body asks for; seen is the stock read under the lock.  late is kept
\* for checking only: since the request looked at the category it asks for, that
\* was deactivated, or the product was moved out of it.
Txn ==
  [pc: {"idle", "begun", "checked"},
   op: ClientMovementTypes \cup {"create", "update", "none"},
   amount: Stocks, category: Categories \cup {NoCategory, Keep},
   active: BOOLEAN \cup {Keep}, seen: Stocks, late: BOOLEAN]

Idle ==
  [pc |-> "idle", op |-> "none", amount |-> 0, category |-> Keep,
   active |-> Keep, seen |-> 0, late |-> FALSE]

\* One type invariant for the module: every column holds a value of its type;
\* for the quantities that is 0 to MAX_QUANTITY, not all of Decimal(12,3).
TypeOK ==
  /\ product \in Product
  /\ movements \in Seq(Movement)
  /\ categoryActive \in [Categories -> BOOLEAN]
  /\ rowLock \in Requests \cup {NoRequest}
  /\ txn \in [Requests -> Txn]

\* The product is not there yet; is_active defaults to true in both tables.
Init ==
  /\ product = [exists |-> FALSE, stock |-> 0, active |-> TRUE,
                category |-> NoCategory]
  /\ movements = << >>
  /\ categoryActive = [c \in Categories |-> TRUE]
  /\ rowLock = NoRequest
  /\ txn = [r \in Requests |-> Idle]

-----------------------------------------------------------------------------
(* Requests arrive, end and fail.                                          *)

\* The transaction ends, by commit or rollback, and its row lock with it.
End(r) ==
  /\ txn' = [txn EXCEPT ![r] = Idle]
  /\ rowLock' = IF rowLock = r THEN NoRequest ELSE rowLock

\* The requests, when category c is no longer what some of them have seen.
Overtaken(c) ==
  [r \in Requests |->
     IF txn[r].pc = "checked" /\ txn[r].category = c
     THEN [txn[r] EXCEPT !.late = TRUE]
     ELSE txn[r]]

Request(r, pc, op, amount, category, active) ==
  /\ txn[r].pc = "idle"
  /\ txn' = [txn EXCEPT ![r] =
               [pc |-> pc, op |-> op, amount |-> amount,
                category |-> category, active |-> active, seen |-> 0,
                late |-> FALSE]]
  /\ UNCHANGED <<product, movements, categoryActive, rowLock>>

\* A movement past its DTO and assertMovementShape: a positive quantity, or a
\* countedStock that may be zero.
ArriveMovement(r) ==
  /\ product.exists
  /\ \/ \E type \in ClientMovementTypes \ {"ADJUSTMENT"}, n \in Quantities :
          Request(r, "begun", type, n, Keep, Keep)
     \/ \E n \in Stocks : Request(r, "begun", "ADJUSTMENT", n, Keep, Keep)

\* A product is created: there is a category to check unless none is given.
ArriveCreate(r) ==
  \E n \in Stocks, c \in Categories \cup {NoCategory} :
    Request(r, IF c = NoCategory THEN "checked" ELSE "begun",
            "create", n, c, Keep)

\* An edit finds the product; a category it already has is not checked again.
ArriveUpdate(r) ==
  /\ product.exists
  /\ \E c \in Categories \cup {NoCategory, Keep}, a \in BOOLEAN \cup {Keep} :
       Request(r,
         IF c \in Categories \ {product.category} THEN "begun" ELSE "checked",
         "update", 0, c, a)

\* The server dies, the connection drops, Prisma's transaction timeout strikes,
\* or the order, the member or the SKU is refused: the work is rolled back.
Rollback(r) ==
  /\ txn[r].pc # "idle"
  /\ End(r)
  /\ UNCHANGED <<product, movements, categoryActive>>

-----------------------------------------------------------------------------
(* Movements: lock the product, compute, write.                            *)

\* Faulty: the product row is read with a plain SELECT, without FOR UPDATE.
LockProductUnlocked(r) ==
  /\ txn[r].pc = "begun"
  /\ txn[r].op \in ClientMovementTypes
  /\ IF product.active
     THEN /\ txn' = [txn EXCEPT ![r] =
                       [@ EXCEPT !.pc = "checked", !.seen = product.stock]]
          /\ UNCHANGED rowLock
     ELSE End(r)
  /\ UNCHANGED <<product, movements, categoryActive>>

LockProduct(r) ==
  /\ txn[r].pc = "begun"
  /\ txn[r].op \in ClientMovementTypes
  /\ rowLock = NoRequest
  /\ IF product.active
     THEN /\ rowLock' = r
          /\ txn' = [txn EXCEPT ![r] =
                       [@ EXCEPT !.pc = "checked", !.seen = product.stock]]
     ELSE End(r)
  /\ UNCHANGED <<product, movements, categoryActive>>

\* computeStockChange.
NewStock(t) ==
  CASE t.op = "ADJUSTMENT" -> t.amount
    [] t.op = "OUTBOUND"   -> t.seen - t.amount
    [] OTHER               -> t.seen + t.amount

Distance(m, n) == IF m < n THEN n - m ELSE m - n

MovedQuantity(t) ==
  IF t.op = "ADJUSTMENT" THEN Distance(t.seen, t.amount) ELSE t.amount

\* Faulty: nothing keeps the stock from running over the column's maximum.
IsPossibleUnbounded(t) ==
  IF t.op = "ADJUSTMENT" THEN t.amount # t.seen ELSE NewStock(t) >= 0

IsPossible(t) ==
  /\ IF t.op = "ADJUSTMENT" THEN t.amount # t.seen ELSE NewStock(t) >= 0
  /\ NewStock(t) <= MaxQuantity

HasRoom == Len(movements) < MaxMovements

RecordMovement(r) ==
  LET t == txn[r] IN
  /\ t.pc = "checked"
  /\ t.op \in ClientMovementTypes
  /\ HasRoom
  /\ IF IsPossible(t)
     THEN /\ product' = [product EXCEPT !.stock = NewStock(t)]
          /\ movements' = Append(movements,
               [type |-> t.op, quantity |-> MovedQuantity(t),
                previous |-> t.seen, new |-> NewStock(t)])
     ELSE UNCHANGED <<product, movements>>
  /\ End(r)
  /\ UNCHANGED categoryActive

-----------------------------------------------------------------------------
(* Products and categories.                                                *)

\* Faulty: the category is only looked up.
AssertCategoryExists(r) ==
  /\ txn[r].pc = "begun"
  /\ txn[r].op \in {"create", "update"}
  /\ txn' = [txn EXCEPT ![r].pc = "checked"]
  /\ UNCHANGED <<product, movements, categoryActive, rowLock>>

\* assertAssignableCategory: the category is read without a lock.
AssertAssignableCategory(r) ==
  /\ txn[r].pc = "begun"
  /\ txn[r].op \in {"create", "update"}
  /\ IF categoryActive[txn[r].category]
     THEN txn' = [txn EXCEPT ![r].pc = "checked"] /\ UNCHANGED rowLock
     ELSE End(r)
  /\ UNCHANGED <<product, movements, categoryActive>>

\* The first product created is the one followed here; later ones are others.
CreateProduct(r) ==
  LET t == txn[r] IN
  /\ t.pc = "checked" /\ t.op = "create"
  /\ HasRoom
  /\ IF product.exists
     THEN UNCHANGED <<product, movements>>
     ELSE /\ product' = [exists |-> TRUE, stock |-> t.amount, active |-> TRUE,
                         category |-> t.category]
          /\ movements' =
               IF t.amount = 0 THEN movements
               ELSE Append(movements,
                      [type |-> "INBOUND", quantity |-> t.amount,
                       previous |-> 0, new |-> t.amount])
  /\ End(r)
  /\ UNCHANGED categoryActive

\* buildUpdateData: what the body leaves out is not written.
Edited(t) ==
  [product EXCEPT
     !.category = IF t.category = Keep THEN @ ELSE t.category,
     !.active = IF t.active = Keep THEN @ ELSE t.active]

\* Faulty: the row is not waited for, as if the UPDATE took no row lock.
UpdateProductUnlocked(r) ==
  LET t == txn[r] IN
  /\ t.pc = "checked" /\ t.op = "update"
  /\ product' = Edited(t)
  /\ End(r)
  /\ UNCHANGED <<movements, categoryActive>>

\* Only the fields of the body are written, so the stock never is.
UpdateProduct(r) ==
  LET t == txn[r]
      moved == t.category \notin {Keep, product.category}
  IN
  /\ t.pc = "checked" /\ t.op = "update"
  /\ rowLock = NoRequest
  /\ product' = Edited(t)
  /\ txn' = [IF moved THEN Overtaken(product.category) ELSE txn EXCEPT ![r] = Idle]
  /\ UNCHANGED <<movements, categoryActive, rowLock>>

\* Categories are never deleted, so reading one and updating it is one step.
UpdateCategory ==
  \E c \in Categories, a \in BOOLEAN :
    /\ categoryActive' = [categoryActive EXCEPT ![c] = a]
    /\ txn' = IF a THEN txn ELSE Overtaken(c)
    /\ UNCHANGED <<product, movements, rowLock>>

Step(r) ==
  \/ LockProduct(r) \/ RecordMovement(r)
  \/ AssertAssignableCategory(r) \/ CreateProduct(r) \/ UpdateProduct(r)

Next ==
  \/ \E r \in Requests :
       \/ ArriveMovement(r) \/ ArriveCreate(r) \/ ArriveUpdate(r)
       \/ Step(r) \/ Rollback(r)
  \/ UpdateCategory

Spec == Init /\ [][Next]_vars

-----------------------------------------------------------------------------
(* Properties.                                                             *)

\* The ledger accounts for the stock on the shelf: every movement starts from
\* the stock the one before it left, changes it by its quantity in the sense of
\* its type, and the last one left what the product row says.  A lost update,
\* a stale read or an unbooked change would break the chain (lockProduct:
\* "concurrent movements cannot read the same stock and overwrite each other").
LedgerExplainsStock ==
  LET left(i) == IF i = 0 THEN 0 ELSE movements[i].new IN
  /\ product.stock = left(Len(movements))
  /\ \A i \in 1 .. Len(movements) :
       LET m == movements[i] IN
       /\ m.previous = left(i - 1)
       /\ CASE m.type \in InboundTypes -> m.new = m.previous + m.quantity
            [] m.type = "OUTBOUND"     -> m.new = m.previous - m.quantity
            [] OTHER                   -> m.quantity = Distance(m.previous, m.new)

\* Whether request r files the product under category c in this step.
Files(r, c) ==
  /\ txn[r].pc = "checked" /\ txn'[r] = Idle
  /\ txn[r].category = c

\* A product only comes under an inactive category by a request that had looked and
\* was overtaken: the category was deactivated, or another edit took the product out
\* of it, between its check and its write ("Inactive inventory categories cannot be
\* assigned to products.").  A request that looks later is refused, and one that
\* finds the product there already need not look.
OnlyLateAssignments ==
  [][\A c \in Categories :
       /\ product'.category = c /\ product.category # c
       /\ ~categoryActive[c]
       => \E r \in Requests : Files(r, c) /\ txn[r].late]_vars

\* The operations a client asked for, as the account logs them.
LoggedOp(m) ==
  CASE m.type \in InboundTypes -> [op |-> "PUT", n |-> m.quantity]
    [] m.type = "OUTBOUND"     -> [op |-> "TAKE", n |-> m.quantity]
    [] OTHER                   -> [op |-> "COUNT", n |-> m.new]

Account == INSTANCE StockAccount WITH
  stock <- product.stock,
  state <- IF ~product.exists THEN "NONE"
           ELSE IF product.active THEN "ACTIVE" ELSE "INACTIVE",
  log   <- [i \in 1 .. Len(movements) |-> LoggedOp(movements[i])]

\* Whatever requests interleave or fail, each commit is one whole operation on
\* the stock of that moment, within bounds, and none reaches a product that has
\* been deactivated by then ("Inactive inventory products cannot receive stock
\* movements").
ImplementsStockAccount == Account!AccountSpec
=============================================================================
