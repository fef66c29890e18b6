------------------------ MODULE QuoteWorkflowProofs -------------------------
(***************************************************************************)
(* Theorems about QuoteWorkflow for every set of requests, quote ids and   *)
(* contents.  The argument has two halves:                                 *)
(*                                                                         *)
(*   LockInv  - what holding the order row buys: the request that holds it *)
(*              is the only one past its lock, what it read of the order   *)
(*              is still so, and what it validated still passes;           *)
(*   BookInv  - what the quotes look like between commits, given that each *)
(*              commit passed its checks.                                  *)
(*                                                                         *)
(* HistoryInv, further down, adds what the rows tell of the past, and the  *)
(* refinement of QuoteBook rests on both.                                  *)
(***************************************************************************)
EXTENDS QuoteWorkflow, TLAPS

-----------------------------------------------------------------------------
(* The inductive invariant.                                                *)

\* A request on quotes that is past SELECT ... FOR UPDATE and not yet over.
Holding(t) == t.op \in QuoteOps /\ t.pc \in {"locked", "validated"}

\* Requests carry the arguments their operation needs.
WellFormed(t) ==
  /\ t.op = "changeOrderStatus" => t.pc = "validated" /\ t.target \in OrderStatus
  /\ t.op = "changeQuoteStatus" => t.target \in ClientAssignable
  /\ t.op \in {"createVersion", "update", "changeQuoteStatus"}
       => t.quote \in QuoteIds /\ Exists(t.quote)
  /\ t.pc # "idle" => t.op \in Ops
  /\ t.pc = "validated" => t.seen \in OrderStatus

\* What is always true of the request t that slot r serves.
Consistent(r, t) ==
  /\ WellFormed(t)
  /\ Holding(t) =>
       /\ rowLock = r
       /\ t.seen = orderStatus
       /\ IsOrderEligible(t.op)
  /\ Holding(t) /\ t.pc = "validated" => Passes(t)

LockInv == \A r \in Requests : Consistent(r, txn[r])

BookInv ==
  /\ IndexesAtCommit
  /\ DraftIsLatest
  /\ NoOpenQuoteOnCancelledOrder

IInv == TypeOK /\ LockInv /\ BookInv

-----------------------------------------------------------------------------
(* The lock: what one request does to the view of the others.              *)

\* A step of r keeps LockInv when r itself ends up consistent, no quote
\* disappears, and nothing changes under a request that holds the row.
LEMMA OneMoves ==
  ASSUME IInv,
         NEW r \in Requests, NEW t,
         txn' = [txn EXCEPT ![r] = t],
         \A q \in QuoteIds : Exists(q) => Exists(q)',
         \A s \in Requests \ {r} : Holding(txn[s]) =>
           rowLock' = s /\ orderStatus' = orderStatus /\ quotes' = quotes,
         Consistent(r, t)'
  PROVE  LockInv'
<1> SUFFICES ASSUME NEW s \in Requests
             PROVE  Consistent(s, txn[s])'
  BY DEF LockInv
<1>1. CASE s = r
  BY <1>1 DEF IInv, TypeOK
<1>2. CASE s # r
  <2>1. txn'[s] = txn[s]
    BY <1>2 DEF IInv, TypeOK
  <2>2. Consistent(s, txn[s])
    BY DEF IInv, LockInv
  <2>3. WellFormed(txn[s])'
    BY <2>1, <2>2 DEF Consistent, WellFormed
  <2>4. CASE ~Holding(txn[s])
    BY <2>1, <2>3, <2>4 DEF Consistent, Holding
  <2>5. CASE Holding(txn[s])
    <3>1. /\ rowLock' = s
          /\ orderStatus' = orderStatus
          /\ quotes' = quotes
      BY <1>2, <2>5
    <3>2. Passes(txn[s]) => Passes(txn[s])'
      BY <2>1, <3>1
      DEF Passes, CanCreate, CanCreateVersion, CanUpdate, HasRoom,
          CanChangeQuoteStatus, Exists, HasStatus, IsLatest, NoOther
    <3> QED
      BY <2>1, <2>2, <2>3, <3>1, <3>2
      DEF Consistent, Holding, IsOrderEligible
  <2> QED
    BY <2>4, <2>5
<1> QED
  BY <1>1, <1>2

\* A request that ends holds nothing and asks for nothing.
LEMMA IdleIsConsistent ==
  ASSUME NEW r \in Requests
  PROVE  Consistent(r, Idle)'
BY DEF Consistent, WellFormed, Holding, Idle, QuoteOps, DraftOps, Ops

\* Whoever holds the row is alone past it.
LEMMA HolderIsAlone ==
  ASSUME IInv, NEW r \in Requests, rowLock \in {r, NoRequest},
         NEW s \in Requests \ {r}
  PROVE  ~Holding(txn[s])
BY NoRequestAssumption DEF IInv, LockInv, Consistent

\* Ending a transaction that leaves the rows alone keeps the lock discipline.
LEMMA EndKeepsLockInv ==
  ASSUME IInv, NEW r \in Requests, End(r), UNCHANGED <<orderVars, quotes>>
  PROVE  LockInv'
<1>1. \A q \in QuoteIds : Exists(q) => Exists(q)'
  BY DEF Exists
<1>2. \A s \in Requests \ {r} : Holding(txn[s]) =>
        rowLock' = s /\ orderStatus' = orderStatus /\ quotes' = quotes
  BY DEF End, orderVars, IInv, LockInv, Consistent
<1>3. txn' = [txn EXCEPT ![r] = Idle]
  BY DEF End
<1> QED
  BY <1>1, <1>2, <1>3, IdleIsConsistent, OneMoves

\* So does a commit of the request that holds the row, or that finds it free,
\* whatever it writes, as long as no quote disappears.
LEMMA CommitKeepsLockInv ==
  ASSUME IInv, NEW r \in Requests, End(r), rowLock \in {r, NoRequest},
         \A q \in QuoteIds : Exists(q) => Exists(q)'
  PROVE  LockInv'
<1>1. \A s \in Requests \ {r} : ~Holding(txn[s])
  BY HolderIsAlone
<1>2. txn' = [txn EXCEPT ![r] = Idle]
  BY DEF End
<1> QED
  BY <1>1, <1>2, IdleIsConsistent, OneMoves

-----------------------------------------------------------------------------
(* The book: what a commit that passed its checks does to the quotes.      *)

\* The book depends on statuses, versions and the order's status only.
LEMMA BookFrame ==
  ASSUME IInv, UNCHANGED orderStatus,
         \A q \in QuoteIds : /\ quotes'[q].status = quotes[q].status
                             /\ quotes'[q].version = quotes[q].version
  PROVE  BookInv'
BY DEF IInv, BookInv, IndexesAtCommit, AtMostOneDraft, AtMostOneLive,
       VersionsUnique, DraftIsLatest, NoOpenQuoteOnCancelledOrder, HasStatus,
       Exists, IsLatest

\* Quotes may leave the open statuses at will: if no quote becomes a draft or
\* goes live, none appears, and versions stay, the book stays in order.
LEMMA ClosingKeepsBook ==
  ASSUME IInv,
         \A q \in QuoteIds :
           /\ quotes'[q].version = quotes[q].version
           /\ Exists(q)' <=> Exists(q)
           /\ quotes'[q].status \in Open => quotes'[q].status = quotes[q].status
           /\ quotes'[q].status \in Live => quotes[q].status \in Live,
         orderStatus' = "CANCELLED" => HasStatus(Open)' = {}
  PROVE  BookInv'
<1>1. AtMostOneDraft' /\ AtMostOneLive' /\ VersionsUnique'
  BY DEF IInv, BookInv, IndexesAtCommit, AtMostOneDraft, AtMostOneLive,
         VersionsUnique, HasStatus, Open, Live
<1>2. DraftIsLatest'
  BY DEF IInv, BookInv, DraftIsLatest, IsLatest, HasStatus, Open
<1> QED
  BY <1>1, <1>2 DEF BookInv, IndexesAtCommit, NoOpenQuoteOnCancelledOrder

\* The first quote of an order.
LEMMA CreateKeepsBook ==
  ASSUME IInv, NEW r \in Requests, Create(r)
  PROVE  BookInv'
<1>1. /\ \A q \in QuoteIds : ~Exists(q)
      /\ orderStatus # "CANCELLED"
  BY DEF Create, Ready, IInv, LockInv, Consistent, Holding, Passes, CanCreate,
         QuoteOps, DraftOps, IsOrderEligible, Quotable
<1>2. PICK q \in QuoteIds, c \in Contents :
        quotes' = [quotes EXCEPT ![q] =
                     [status |-> "DRAFT", version |-> 1, source |-> NoQuote,
                      content |-> c]]
  BY DEF Create, InsertDraft
<1>3. \A p \in QuoteIds :
        /\ p # q => quotes'[p].status = "ABSENT"
        /\ p = q => quotes'[p].status = "DRAFT" /\ quotes'[p].version = 1
  BY <1>1, <1>2 DEF IInv, TypeOK, Exists
<1>4. orderStatus' = orderStatus
  BY DEF Create, orderVars
<1> QED
  BY <1>1, <1>3, <1>4
  DEF BookInv, IndexesAtCommit, AtMostOneDraft, AtMostOneLive,
      VersionsUnique, DraftIsLatest, NoOpenQuoteOnCancelledOrder, HasStatus,
      Exists, IsLatest, Live

\* A clone takes the number above the latest, and there was no other draft.
LEMMA CreateVersionKeepsBook ==
  ASSUME IInv, NEW r \in Requests, CreateVersion(r)
  PROVE  BookInv'
<1> DEFINE source == txn[r].quote
<1>1. /\ source \in QuoteIds
      /\ IsLatest(source)
      /\ HasStatus({"DRAFT"}) = {}
      /\ orderStatus # "CANCELLED"
  BY DEF CreateVersion, Ready, IInv, LockInv, Consistent, WellFormed, Holding,
         Passes, CanCreateVersion, QuoteOps, DraftOps, IsOrderEligible, Quotable
<1>2. PICK q \in QuoteIds :
        /\ ~Exists(q)
        /\ quotes' = [quotes EXCEPT ![q] =
                        [status |-> "DRAFT",
                         version |-> quotes[source].version + 1,
                         source |-> source,
                         content |-> quotes[source].content]]
  BY DEF CreateVersion, InsertDraft
<1>3. \A p \in QuoteIds : quotes[p] \in Quote
  BY DEF IInv, TypeOK
<1>4. quotes[source].version \in Nat
  BY <1>1, <1>3 DEF Quote
<1>5. \A p \in QuoteIds :
        /\ p # q => quotes'[p] = quotes[p]
        /\ p = q => /\ quotes'[p].status = "DRAFT"
                    /\ quotes'[p].version = quotes[source].version + 1
  BY <1>2 DEF IInv, TypeOK
<1>6. \A p \in QuoteIds :
        p # q /\ Exists(p)' => quotes'[p].version < quotes'[q].version
  BY <1>1, <1>3, <1>4, <1>5 DEF IsLatest, Exists, Quote
<1>7. orderStatus' = orderStatus
  BY DEF CreateVersion, orderVars
<1>8. AtMostOneDraft' /\ DraftIsLatest'
  <2>1. HasStatus({"DRAFT"})' = {q}
    BY <1>1, <1>5 DEF HasStatus
  <2>2. IsLatest(q)'
    BY <1>3, <1>4, <1>5, <1>6 DEF IsLatest, Quote
  <2> QED
    BY <2>1, <2>2 DEF AtMostOneDraft, DraftIsLatest
<1>9. AtMostOneLive'
  BY <1>5 DEF IInv, BookInv, IndexesAtCommit, AtMostOneLive, HasStatus, Live
<1>10. VersionsUnique'
  <2> SUFFICES ASSUME NEW p \in QuoteIds, NEW o \in QuoteIds,
                      Exists(p)', Exists(o)',
                      quotes'[p].version = quotes'[o].version
               PROVE  p = o
    BY DEF VersionsUnique
  <2>1. \A x \in QuoteIds : quotes'[x].version \in Nat
    BY <1>3, <1>4, <1>5 DEF Quote
  <2>2. CASE p # q /\ o # q
    BY <1>5, <2>2
    DEF IInv, BookInv, IndexesAtCommit, VersionsUnique, Exists
  <2>3. CASE p = q \/ o = q
    BY <1>6, <2>1, <2>3
  <2> QED
    BY <2>2, <2>3
<1> QED
  BY <1>1, <1>7, <1>8, <1>9, <1>10
  DEF BookInv, IndexesAtCommit, NoOpenQuoteOnCancelledOrder

\* An edit touches neither status nor version.
LEMMA UpdateKeepsBook ==
  ASSUME IInv, NEW r \in Requests, Update(r)
  PROVE  BookInv'
<1>1. \A q \in QuoteIds : /\ quotes'[q].status = quotes[q].status
                          /\ quotes'[q].version = quotes[q].version
  BY DEF Update, IInv, TypeOK, Quote
<1> QED
  BY <1>1, BookFrame DEF Update, orderVars

\* The two statements of a transition taken together.
LEMMA TransitionEffect ==
  ASSUME NEW t
  PROVE  AfterTransition(t) =
           [q \in QuoteIds |->
              IF q = t.quote
              THEN [quotes[q] EXCEPT !.status = t.target]
              ELSE IF t.target = "ACTIVE" /\ quotes[q].status = "ACTIVE"
                   THEN [quotes[q] EXCEPT !.status = "SUPERSEDED"]
                   ELSE quotes[q]]
BY DEF AfterTransition, Statements, Superseded

\* A decision: activation replaces the live quote, every other move closes one
\* or turns the active quote into the approved one.
LEMMA ChangeQuoteStatusKeepsBook ==
  ASSUME IInv, NEW r \in Requests, ChangeQuoteStatus(r)
  PROVE  BookInv'
<1> DEFINE t == txn[r]
           from == quotes[t.quote].status
<1>1. /\ t.quote \in QuoteIds
      /\ t.seen = orderStatus
      /\ <<from, t.target>> \in QuoteMoves
      /\ t.target = "ACTIVE" => NoOther(t.quote, {"APPROVED"})
      /\ t.target = "APPROVED" => t.seen = "QUOTED"
  <2>1. t.pc = "validated" /\ t.op = "changeQuoteStatus"
    BY DEF ChangeQuoteStatus, Ready
  <2>2. Holding(t)
    BY <2>1 DEF Holding, QuoteOps
  <2>3. /\ t.quote \in QuoteIds
        /\ t.seen = orderStatus
        /\ Passes(t)
    BY <2>1, <2>2 DEF IInv, LockInv, Consistent, WellFormed
  <2>4. CanChangeQuoteStatus(t)
    BY <2>1, <2>3 DEF Passes
  <2> QED
    BY <2>3, <2>4 DEF CanChangeQuoteStatus
<1>2. /\ <<from, t.target>> \in {<<"DRAFT", "ACTIVE">>, <<"DRAFT", "CANCELLED">>,
                                 <<"ACTIVE", "APPROVED">>, <<"ACTIVE", "REJECTED">>,
                                 <<"ACTIVE", "EXPIRED">>, <<"ACTIVE", "CANCELLED">>}
  BY <1>1 DEF QuoteMoves
<1>3. \A q \in QuoteIds : /\ quotes[q] \in Quote
                          /\ quotes'[q] = AfterTransition(t)[q]
  BY DEF IInv, TypeOK, ChangeQuoteStatus
<1>4. \A q \in QuoteIds :
        /\ quotes'[q].version = quotes[q].version
        /\ quotes'[q].status =
             IF q = t.quote THEN t.target
             ELSE IF t.target = "ACTIVE" /\ quotes[q].status = "ACTIVE"
                  THEN "SUPERSEDED" ELSE quotes[q].status
  <2> SUFFICES ASSUME NEW q \in QuoteIds
               PROVE  /\ quotes'[q].version = quotes[q].version
                      /\ quotes'[q].status =
                           IF q = t.quote THEN t.target
                           ELSE IF t.target = "ACTIVE" /\ quotes[q].status = "ACTIVE"
                                THEN "SUPERSEDED" ELSE quotes[q].status
    OBVIOUS
  <2>1. CASE q = t.quote
    <3>1. quotes'[q] = [quotes[q] EXCEPT !.status = t.target]
      BY <1>3, <2>1, TransitionEffect
    <3> QED
      BY <1>3, <2>1, <3>1 DEF Quote
  <2>2. CASE q # t.quote /\ t.target = "ACTIVE" /\ quotes[q].status = "ACTIVE"
    <3>1. quotes'[q] = [quotes[q] EXCEPT !.status = "SUPERSEDED"]
      BY <1>3, <2>2, TransitionEffect
    <3> QED
      BY <1>3, <2>2, <3>1 DEF Quote
  <2>3. CASE q # t.quote /\ ~(t.target = "ACTIVE" /\ quotes[q].status = "ACTIVE")
    <3>1. quotes'[q] = quotes[q]
      BY <1>3, <2>3, TransitionEffect
    <3> QED
      BY <2>3, <3>1
  <2> QED
    BY <2>1, <2>2, <2>3
<1>5. \A q \in QuoteIds : Exists(q)' <=> Exists(q)
  BY <1>1, <1>2, <1>4 DEF Exists
<1>6. orderStatus' = "CANCELLED" => HasStatus(Open) = {} /\ t.target # "APPROVED"
  <2>1. orderStatus' = "CANCELLED" => orderStatus = "CANCELLED"
    BY DEF ChangeQuoteStatus, AdvanceOrder, orderVars
  <2> QED
    BY <1>1, <2>1 DEF IInv, BookInv, NoOpenQuoteOnCancelledOrder
<1>7. CASE t.target = "ACTIVE"
  <2>1. from = "DRAFT" /\ HasStatus({"APPROVED"}) \subseteq {t.quote}
    BY <1>1, <1>2, <1>7 DEF NoOther
  <2>2. HasStatus({"DRAFT"})' \subseteq HasStatus({"DRAFT"})
    BY <1>4, <1>7 DEF HasStatus
  <2>3. HasStatus(Live)' \subseteq {t.quote}
    BY <1>4, <1>7, <2>1 DEF HasStatus, Live
  <2>4. AtMostOneDraft' /\ AtMostOneLive'
    BY <2>2, <2>3 DEF IInv, BookInv, IndexesAtCommit, AtMostOneDraft,
                      AtMostOneLive
  <2>5. VersionsUnique'
    BY <1>4, <1>5 DEF IInv, BookInv, IndexesAtCommit, VersionsUnique
  <2>6. DraftIsLatest'
    BY <1>4, <1>5, <2>2 DEF IInv, BookInv, DraftIsLatest, IsLatest, HasStatus
  <2>7. orderStatus' # "CANCELLED"
    BY <1>1, <1>6, <2>1 DEF HasStatus, Open
  <2> QED
    BY <2>4, <2>5, <2>6, <2>7
    DEF BookInv, IndexesAtCommit, NoOpenQuoteOnCancelledOrder
<1>8. CASE t.target # "ACTIVE"
  <2>1. \A q \in QuoteIds :
          /\ quotes'[q].status \in Open => quotes'[q].status = quotes[q].status
          /\ quotes'[q].status \in Live => quotes[q].status \in Live
    BY <1>2, <1>4, <1>8 DEF Open, Live
  <2>2. orderStatus' = "CANCELLED" => HasStatus(Open)' = {}
    BY <1>6, <2>1 DEF HasStatus
  <2> QED
    BY <1>4, <1>5, <2>1, <2>2, ClosingKeepsBook
<1> QED
  BY <1>7, <1>8

\* A change of the order's status closes quotes or leaves them alone.
LEMMA ChangeOrderStatusKeepsBook ==
  ASSUME IInv, NEW r \in Requests, ChangeOrderStatus(r)
  PROVE  BookInv'
<1> DEFINE t == txn[r]
<1>1. \A q \in QuoteIds : quotes[q] \in Quote
  BY DEF IInv, TypeOK
<1>2. orderStatus' = t.target
  BY DEF ChangeOrderStatus
<1>3. CASE t.target = "CANCELLED"
  <2>1. \A q \in QuoteIds :
          /\ quotes'[q].version = quotes[q].version
          /\ quotes'[q].status = IF quotes[q].status \in Open THEN "CANCELLED"
                                 ELSE quotes[q].status
    BY <1>1, <1>3 DEF ChangeOrderStatus, CancelOpenQuotes, Quote
  <2>2. \A q \in QuoteIds : Exists(q)' <=> Exists(q)
    BY <2>1 DEF Exists, Open
  <2>3. \A q \in QuoteIds :
          /\ quotes'[q].status \in Open => quotes'[q].status = quotes[q].status
          /\ quotes'[q].status \in Live => quotes[q].status \in Live
    BY <2>1 DEF Open, Live
  <2>4. HasStatus(Open)' = {}
    BY <2>1 DEF HasStatus, Open
  <2> QED
    BY <2>1, <2>2, <2>3, <2>4, ClosingKeepsBook
<1>4. CASE t.target # "CANCELLED"
  <2>1. quotes' = quotes
    BY <1>4 DEF ChangeOrderStatus
  <2> QED
    BY <1>2, <1>4, <2>1, ClosingKeepsBook DEF Exists
<1> QED
  BY <1>3, <1>4

-----------------------------------------------------------------------------
(* Types.                                                                  *)

\* Ending a transaction keeps the types of the lock and of the requests.
LEMMA EndKeepsTypes ==
  ASSUME TypeOK, NEW r \in Requests, End(r)
  PROVE  /\ rowLock' \in Requests \cup {NoRequest}
         /\ txn' \in [Requests -> Txn]
<1>1. Idle \in Txn
  BY DEF Idle, Txn
<1> QED
  BY <1>1 DEF End, TypeOK

\* Inserting a draft keeps the quotes well typed.
LEMMA InsertDraftKeepsTypes ==
  ASSUME TypeOK, NEW version \in Nat, NEW source \in QuoteIds \cup {NoQuote},
         NEW c \in Contents, InsertDraft(version, source, c)
  PROVE  quotes' \in [QuoteIds -> Quote]
<1>1. [status |-> "DRAFT", version |-> version, source |-> source,
       content |-> c] \in Quote
  BY DEF Quote, QuoteStatus
<1> QED
  BY <1>1 DEF InsertDraft, TypeOK

\* Requests arriving and requests reading keep the types.
LEMMA ArrivingKeepsTypes ==
  ASSUME TypeOK, NEW r \in Requests, Arrive(r) \/ ReadOrder(r)
  PROVE  TypeOK'
<1>1. ASSUME NEW op \in Ops, NEW q \in QuoteIds \cup {NoQuote},
             NEW target \in ClientAssignable \cup OrderStatus \cup {"none"},
             Request(r, op, q, target)
      PROVE  TypeOK'
  <2>1. [pc |-> "begun", op |-> op, quote |-> q, target |-> target,
         seen |-> "none"] \in Txn
    BY DEF Txn
  <2> QED
    BY <1>1, <2>1 DEF Request, TypeOK, orderVars
<1>2. CASE Arrive(r)
  BY <1>1, <1>2 DEF Arrive, Ops, QuoteOps, DraftOps
<1>3. CASE ReadOrder(r)
  <2>1. PICK s \in AskedStatuses :
          txn' = [txn EXCEPT ![r] =
                    [pc |-> "validated", op |-> "changeOrderStatus",
                     quote |-> NoQuote, target |-> s, seen |-> orderStatus]]
    BY <1>3 DEF ReadOrder
  <2>2. s \in OrderStatus
    BY AskedStatusesAssumption DEF OrderStatus
  <2>3. [pc |-> "validated", op |-> "changeOrderStatus", quote |-> NoQuote,
         target |-> s, seen |-> orderStatus] \in Txn
    BY <2>2 DEF Txn, Ops, TypeOK
  <2> QED
    BY <1>3, <2>1, <2>3 DEF ReadOrder, TypeOK, orderVars
<1> QED
  BY <1>2, <1>3

\* Taking the row lock and validating keep the types.
LEMMA ReadingKeepsTypes ==
  ASSUME TypeOK, NEW r \in Requests, LockServiceOrder(r) \/ Validate(r)
  PROVE  TypeOK'
<1>1. UNCHANGED <<orderStatus, closedAt, lastHistory, quotes>>
  BY DEF LockServiceOrder, Validate, orderVars
<1>2. CASE End(r)
  BY <1>1, <1>2, EndKeepsTypes DEF TypeOK
<1>3. CASE ~End(r) /\ LockServiceOrder(r)
  <2>1. [txn[r] EXCEPT !.pc = "locked", !.seen = orderStatus] \in Txn
    BY DEF TypeOK, Txn
  <2> QED
    BY <1>1, <1>3, <2>1 DEF LockServiceOrder, TypeOK
<1>4. CASE ~End(r) /\ Validate(r)
  <2>1. [txn[r] EXCEPT !.pc = "validated"] \in Txn
    BY DEF TypeOK, Txn
  <2> QED
    BY <1>1, <1>4, <2>1 DEF Validate, TypeOK
<1> QED
  BY <1>2, <1>3, <1>4

\* Commits keep the types; what they write comes from the request.
LEMMA CommitsKeepTypes ==
  ASSUME IInv, NEW r \in Requests,
         Create(r) \/ CreateVersion(r) \/ Update(r) \/ ChangeQuoteStatus(r)
           \/ ChangeOrderStatus(r)
  PROVE  TypeOK'
<1> DEFINE t == txn[r]
<1>1. TypeOK /\ End(r) /\ WellFormed(t) /\ t.pc = "validated"
  BY DEF IInv, LockInv, Consistent, Create, CreateVersion, Update,
         ChangeQuoteStatus, ChangeOrderStatus, Ready
<1>2. /\ rowLock' \in Requests \cup {NoRequest}
      /\ txn' \in [Requests -> Txn]
  BY <1>1, EndKeepsTypes
<1>3. /\ orderStatus \in OrderStatus
      /\ closedAt \in BOOLEAN
      /\ lastHistory \in HistoryRow
      /\ quotes \in [QuoteIds -> Quote]
      /\ \A q \in QuoteIds : quotes[q] \in Quote
      /\ t.seen \in OrderStatus
  BY <1>1 DEF TypeOK, WellFormed
<1>4. CASE Create(r)
  <2>1. quotes' \in [QuoteIds -> Quote]
    BY <1>1, <1>4, InsertDraftKeepsTypes DEF Create
  <2> QED
    BY <1>2, <1>3, <1>4, <2>1 DEF Create, TypeOK, orderVars
<1>5. CASE CreateVersion(r)
  <2>1. t.quote \in QuoteIds
    BY <1>1, <1>5 DEF CreateVersion, Ready, WellFormed
  <2>2. /\ quotes[t.quote].version + 1 \in Nat
        /\ quotes[t.quote].content \in Contents
    BY <1>3, <2>1 DEF Quote
  <2>3. InsertDraft(quotes[t.quote].version + 1, t.quote, quotes[t.quote].content)
    BY <1>5 DEF CreateVersion
  <2>4. quotes' \in [QuoteIds -> Quote]
    BY <1>1, <2>1, <2>2, <2>3, InsertDraftKeepsTypes
  <2> QED
    BY <1>2, <1>3, <1>5, <2>4 DEF CreateVersion, TypeOK, orderVars
<1>6. CASE Update(r)
  <2>1. PICK c \in Contents : quotes' = [quotes EXCEPT ![t.quote].content = c]
    BY <1>6 DEF Update
  <2>2. quotes' \in [QuoteIds -> Quote]
    BY <1>3, <2>1 DEF Quote
  <2> QED
    BY <1>2, <1>3, <1>6, <2>2 DEF Update, TypeOK, orderVars
<1>7. CASE ChangeQuoteStatus(r)
  <2>1. t.target \in QuoteStatus
    BY <1>1, <1>7
    DEF ChangeQuoteStatus, Ready, WellFormed, ClientAssignable, QuoteStatus
  <2>2. \A q \in QuoteIds :
          /\ [quotes[q] EXCEPT !.status = t.target] \in Quote
          /\ [quotes[q] EXCEPT !.status = "SUPERSEDED"] \in Quote
    BY <1>3, <2>1 DEF Quote, QuoteStatus
  <2>3. quotes' \in [QuoteIds -> Quote]
    BY <1>3, <1>7, <2>2, TransitionEffect DEF ChangeQuoteStatus
  <2>4. orderStatus' \in OrderStatus /\ closedAt' \in BOOLEAN
    BY <1>3, <1>7
    DEF ChangeQuoteStatus, AdvanceOrder, OrderStatus, orderVars
  <2>5. /\ [previous |-> "DIAGNOSIS", new |-> "QUOTED"] \in HistoryRow
        /\ [previous |-> "QUOTED", new |-> "APPROVED"] \in HistoryRow
    BY DEF HistoryRow, OrderStatus
  <2>6. lastHistory' \in HistoryRow
    BY <1>3, <1>7, <2>5 DEF ChangeQuoteStatus, AdvanceOrder, orderVars
  <2> QED
    BY <1>2, <2>3, <2>4, <2>6 DEF TypeOK
<1>8. CASE ChangeOrderStatus(r)
  <2>1. t.target \in OrderStatus
    BY <1>1, <1>8 DEF ChangeOrderStatus, Ready, WellFormed
  <2>2. \A q \in QuoteIds : [quotes[q] EXCEPT !.status = "CANCELLED"] \in Quote
    BY <1>3 DEF Quote, QuoteStatus
  <2>3. quotes' \in [QuoteIds -> Quote]
    BY <1>3, <1>8, <2>2 DEF ChangeOrderStatus, CancelOpenQuotes
  <2>4. lastHistory' \in HistoryRow
    BY <1>3, <1>8, <2>1 DEF ChangeOrderStatus, HistoryRow
  <2> QED
    BY <1>2, <1>3, <1>8, <2>1, <2>3, <2>4 DEF ChangeOrderStatus, TypeOK
<1> QED
  BY <1>4, <1>5, <1>6, <1>7, <1>8

-----------------------------------------------------------------------------
(* The invariant is inductive.                                             *)

\* It holds of an order that has just been created.
LEMMA InitIInv ==
  Init => IInv
<1> SUFFICES ASSUME Init PROVE IInv
  OBVIOUS
<1>1. TypeOK
  <2>1. Idle \in Txn
    BY DEF Idle, Txn
  <2>2. \A c \in Contents :
          [status |-> "ABSENT", version |-> 0, source |-> NoQuote,
           content |-> c] \in Quote
    BY DEF Quote
  <2>3. quotes \in [QuoteIds -> Quote]
    BY <2>2 DEF Init
  <2>4. orderStatus \in OrderStatus /\ lastHistory \in HistoryRow
    BY DEF Init, OrderStatus, HistoryRow
  <2> QED
    BY <2>1, <2>3, <2>4 DEF Init, TypeOK
<1>2. LockInv
  <2>1. \A r \in Requests : txn[r] = Idle
    BY DEF Init
  <2> QED
    BY <2>1 DEF LockInv, Consistent, WellFormed, Holding, Idle, QuoteOps,
                DraftOps, Ops
<1>3. BookInv
  <2>1. \A q \in QuoteIds : quotes[q].status = "ABSENT"
    BY DEF Init
  <2>2. orderStatus # "CANCELLED"
    BY DEF Init
  <2> QED
    BY <2>1, <2>2
    DEF BookInv, IndexesAtCommit, AtMostOneDraft, AtMostOneLive,
        VersionsUnique, DraftIsLatest, NoOpenQuoteOnCancelledOrder, HasStatus,
        Exists, Live
<1> QED
  BY <1>1, <1>2, <1>3 DEF IInv

\* A request that arrives, or that reads the order without a lock, disturbs
\* nobody and holds nothing.
LEMMA ArrivingKeepsLockInv ==
  ASSUME IInv, NEW r \in Requests, Arrive(r) \/ ReadOrder(r)
  PROVE  LockInv'
<1>1. UNCHANGED <<orderVars, quotes, rowLock>>
  BY DEF Arrive, Request, ReadOrder
<1>2. /\ \A q \in QuoteIds : Exists(q) => Exists(q)'
      /\ \A s \in Requests \ {r} : Holding(txn[s]) =>
           rowLock' = s /\ orderStatus' = orderStatus /\ quotes' = quotes
  BY <1>1 DEF Exists, orderVars, IInv, LockInv, Consistent
<1>3. CASE Arrive(r)
  <2>1. ASSUME NEW op \in QuoteOps, NEW q, NEW target, Request(r, op, q, target),
               op = "changeQuoteStatus" => target \in ClientAssignable,
               op # "create" => q \in QuoteIds /\ Exists(q)
        PROVE  LockInv'
    <3> PICK t : t = [pc |-> "begun", op |-> op, quote |-> q, target |-> target,
                      seen |-> "none"]
      OBVIOUS
    <3>1. txn' = [txn EXCEPT ![r] = t]
      BY <2>1 DEF Request
    <3>2. Consistent(r, t)'
      BY <1>2, <2>1
      DEF Consistent, WellFormed, Holding, QuoteOps, DraftOps, Ops
    <3> QED
      BY <1>2, <3>1, <3>2, OneMoves
  <2> QED
    BY <1>3, <2>1 DEF Arrive, QuoteOps, DraftOps
<1>4. CASE ReadOrder(r)
  <2>1. PICK s \in AskedStatuses :
          txn' = [txn EXCEPT ![r] =
                    [pc |-> "validated", op |-> "changeOrderStatus",
                     quote |-> NoQuote, target |-> s, seen |-> orderStatus]]
    BY <1>4 DEF ReadOrder
  <2> PICK t : t = [pc |-> "validated", op |-> "changeOrderStatus",
                    quote |-> NoQuote, target |-> s, seen |-> orderStatus]
    OBVIOUS
  <2>2. s \in OrderStatus /\ orderStatus \in OrderStatus
    BY AskedStatusesAssumption DEF IInv, TypeOK, OrderStatus
  <2>3. Consistent(r, t)'
    BY <2>2 DEF Consistent, WellFormed, Holding, QuoteOps, DraftOps, Ops
  <2>4. txn' = [txn EXCEPT ![r] = t]
    BY <2>1
  <2> QED
    BY <1>2, <2>3, <2>4, OneMoves
<1> QED
  BY <1>3, <1>4

\* The lock is granted only while nobody holds it, and what is read under it
\* is what the order is.
LEMMA LockServiceOrderKeepsLockInv ==
  ASSUME IInv, NEW r \in Requests, LockServiceOrder(r)
  PROVE  LockInv'
<1>1. UNCHANGED <<orderVars, quotes>>
  BY DEF LockServiceOrder
<1>2. CASE IsOrderEligible(txn[r].op)
  <2> PICK t : t = [txn[r] EXCEPT !.pc = "locked", !.seen = orderStatus]
    OBVIOUS
  <2>1. txn' = [txn EXCEPT ![r] = t] /\ rowLock' = r
    BY <1>2 DEF LockServiceOrder
  <2>2. /\ txn[r] \in Txn /\ orderStatus \in OrderStatus
        /\ WellFormed(txn[r])
    BY DEF IInv, TypeOK, LockInv, Consistent
  <2>3. /\ t.op = txn[r].op /\ t.quote = txn[r].quote
        /\ t.target = txn[r].target /\ t.pc = "locked" /\ t.seen = orderStatus
    BY <2>2 DEF Txn
  <2>4. /\ \A q \in QuoteIds : Exists(q) <=> Exists(q)'
        /\ orderStatus' = orderStatus
    BY <1>1 DEF Exists, orderVars
  <2>5. txn[r].op \in QuoteOps
    BY DEF LockServiceOrder
  <2>6. WellFormed(t)'
    BY <2>2, <2>3, <2>4, <2>5 DEF WellFormed, QuoteOps, DraftOps, Ops
  <2>7. Consistent(r, t)'
    BY <1>2, <2>1, <2>3, <2>4, <2>6
    DEF Consistent, Holding, IsOrderEligible
  <2>8. \A s \in Requests \ {r} : ~Holding(txn[s])
    BY HolderIsAlone DEF LockServiceOrder
  <2> QED
    BY <2>1, <2>4, <2>7, <2>8, OneMoves
<1>3. CASE ~IsOrderEligible(txn[r].op)
  BY <1>1, <1>3, EndKeepsLockInv DEF LockServiceOrder
<1> QED
  BY <1>2, <1>3

\* What a request validates under the lock passes at once.
LEMMA ValidateKeepsLockInv ==
  ASSUME IInv, NEW r \in Requests, Validate(r)
  PROVE  LockInv'
<1>1. UNCHANGED <<orderVars, quotes>>
  BY DEF Validate
<1>2. CASE Passes(txn[r])
  <2> PICK t : t = [txn[r] EXCEPT !.pc = "validated"]
    OBVIOUS
  <2>1. txn' = [txn EXCEPT ![r] = t] /\ rowLock' = rowLock
    BY <1>2 DEF Validate
  <2>2. txn[r] \in Txn /\ Consistent(r, txn[r]) /\ txn[r].pc = "locked"
    BY DEF Validate, IInv, TypeOK, LockInv
  <2>3. /\ t.op = txn[r].op /\ t.quote = txn[r].quote
        /\ t.target = txn[r].target /\ t.seen = txn[r].seen
        /\ t.pc = "validated"
    BY <2>2 DEF Txn
  <2>4. Holding(txn[r])
    BY <1>2, <2>2 DEF Passes, Holding, QuoteOps, DraftOps, Consistent, WellFormed,
                      Ops
  <2>5. /\ \A q \in QuoteIds : Exists(q) <=> Exists(q)'
        /\ orderStatus' = orderStatus /\ quotes' = quotes
        /\ orderStatus \in OrderStatus
    BY <1>1 DEF Exists, orderVars, IInv, TypeOK
  <2>6. Passes(t)'
    BY <1>2, <2>3, <2>5
    DEF Passes, CanCreate, CanCreateVersion, CanUpdate, HasRoom,
        CanChangeQuoteStatus, Exists, HasStatus, IsLatest, NoOther
  <2>7. WellFormed(t)'
    BY <2>2, <2>3, <2>4, <2>5 DEF WellFormed, Consistent, Holding
  <2>8. Consistent(r, t)'
    BY <2>1, <2>2, <2>3, <2>4, <2>5, <2>6, <2>7
    DEF Consistent, Holding, IsOrderEligible
  <2>9. \A s \in Requests \ {r} : Holding(txn[s]) =>
          rowLock' = s /\ orderStatus' = orderStatus /\ quotes' = quotes
    BY <2>1, <2>5 DEF IInv, LockInv, Consistent
  <2> QED
    BY <2>1, <2>5, <2>8, <2>9, OneMoves
<1>3. CASE ~Passes(txn[r])
  BY <1>1, <1>3, EndKeepsLockInv DEF Validate
<1> QED
  BY <1>2, <1>3

\* No commit takes a quote away.
LEMMA QuotesStay ==
  ASSUME IInv, NEW r \in Requests,
         Create(r) \/ CreateVersion(r) \/ Update(r) \/ ChangeQuoteStatus(r)
           \/ ChangeOrderStatus(r)
  PROVE  \A q \in QuoteIds : Exists(q) => Exists(q)'
<1> DEFINE t == txn[r]
<1> USE DEF Exists
<1>1. \A q \in QuoteIds : quotes[q] \in Quote
  BY DEF IInv, TypeOK
<1>2. CASE Create(r)
  BY <1>2 DEF Create, InsertDraft, IInv, TypeOK
<1>3. CASE CreateVersion(r)
  BY <1>3 DEF CreateVersion, InsertDraft, IInv, TypeOK
<1>4. CASE Update(r)
  BY <1>1, <1>4 DEF Update, IInv, TypeOK, Quote
<1>5. CASE ChangeQuoteStatus(r)
  <2>1. t.target # "ABSENT"
    BY <1>5 DEF ChangeQuoteStatus, Ready, IInv, LockInv, Consistent, WellFormed,
                ClientAssignable
  <2> QED
    BY <1>1, <1>5, <2>1, TransitionEffect DEF ChangeQuoteStatus, Quote
<1>6. CASE ChangeOrderStatus(r)
  BY <1>1, <1>6 DEF ChangeOrderStatus, CancelOpenQuotes, Quote
<1> QED
  BY <1>2, <1>3, <1>4, <1>5, <1>6

\* Whoever commits holds the row or finds it free, and ends.
LEMMA CommitsEnd ==
  ASSUME IInv, NEW r \in Requests,
         Create(r) \/ CreateVersion(r) \/ Update(r) \/ ChangeQuoteStatus(r)
           \/ ChangeOrderStatus(r)
  PROVE  End(r) /\ rowLock \in {r, NoRequest}
BY DEF Create, CreateVersion, Update, ChangeQuoteStatus, ChangeOrderStatus,
       Ready, IInv, LockInv, Consistent, Holding, QuoteOps, DraftOps

\* Every step keeps the invariant.
LEMMA NextIInv ==
  IInv /\ [Next]_vars => IInv'
<1> SUFFICES ASSUME IInv, [Next]_vars PROVE IInv'
  OBVIOUS
<1>1. ASSUME NEW r \in Requests, Arrive(r) \/ ReadOrder(r)
      PROVE  IInv'
  <2>1. UNCHANGED <<orderVars, quotes>>
    BY <1>1 DEF Arrive, Request, ReadOrder
  <2> QED
    BY <1>1, <2>1, ArrivingKeepsTypes, ArrivingKeepsLockInv, BookFrame
    DEF IInv, orderVars
<1>2. ASSUME NEW r \in Requests, LockServiceOrder(r) \/ Validate(r)
      PROVE  IInv'
  <2>1. UNCHANGED <<orderVars, quotes>>
    BY <1>2 DEF LockServiceOrder, Validate
  <2> QED
    BY <1>2, <2>1, ReadingKeepsTypes, LockServiceOrderKeepsLockInv,
       ValidateKeepsLockInv, BookFrame
    DEF IInv, orderVars
<1>3. ASSUME NEW r \in Requests, Rollback(r)
      PROVE  IInv'
  <2>1. End(r) /\ UNCHANGED <<orderVars, quotes>>
    BY <1>3 DEF Rollback
  <2>2. TypeOK'
    BY <2>1, EndKeepsTypes DEF IInv, TypeOK, orderVars
  <2> QED
    BY <2>1, <2>2, EndKeepsLockInv, BookFrame DEF IInv, orderVars
<1>4. ASSUME NEW r \in Requests,
             Create(r) \/ CreateVersion(r) \/ Update(r) \/ ChangeQuoteStatus(r)
               \/ ChangeOrderStatus(r)
      PROVE  IInv'
  <2>1. TypeOK'
    BY <1>4, CommitsKeepTypes
  <2>2. LockInv'
    BY <1>4, CommitsEnd, QuotesStay, CommitKeepsLockInv
  <2>3. BookInv'
    BY <1>4, CreateKeepsBook, CreateVersionKeepsBook, UpdateKeepsBook,
       ChangeQuoteStatusKeepsBook, ChangeOrderStatusKeepsBook
  <2> QED
    BY <2>1, <2>2, <2>3 DEF IInv
<1>5. CASE UNCHANGED vars
  BY <1>5
  DEF vars, IInv, TypeOK, LockInv, Consistent, WellFormed, Holding,
      IsOrderEligible, Passes, CanCreate, CanCreateVersion, CanUpdate, HasRoom,
      CanChangeQuoteStatus, Exists, HasStatus, IsLatest, NoOther, BookInv,
      IndexesAtCommit, AtMostOneDraft, AtMostOneLive, VersionsUnique,
      DraftIsLatest, NoOpenQuoteOnCancelledOrder
<1> QED
  BY <1>1, <1>2, <1>3, <1>4, <1>5 DEF Next, Step

-----------------------------------------------------------------------------
(* The theorems.                                                           *)

\* IInv holds in every reachable state.
THEOREM Invariance == Spec => []IInv
BY InitIInv, NextIInv, PTL DEF Spec

\* Columns and requests keep their declared types in every interleaving: no
\* status is ever written that its enum does not have.
THEOREM TypeCorrect == Spec => []TypeOK
<1>1. IInv => TypeOK
  BY DEF IInv
<1> QED
  BY <1>1, Invariance, PTL

\* For any number of concurrent requests and of quotes, the lock on the order
\* row alone keeps the partial unique indexes of the migration from firing, at a
\* commit and between the two statements of a transition.
THEOREM LockSuffices == Spec => []IndexesNeverNeeded
<1>1. IInv => IndexesNeverNeeded
  <2> SUFFICES ASSUME IInv, NEW r \in Requests, Ready(r, "changeQuoteStatus")
               PROVE  /\ Unique(Statements(txn[r])[1], {"DRAFT"})
                      /\ Unique(Statements(txn[r])[1], Live)
    BY DEF IndexesNeverNeeded, IndexesAmidTransition, IInv, BookInv
  <2> DEFINE amid == Superseded(txn[r], quotes)
  <2>1. Statements(txn[r])[1] = amid
    BY DEF Statements
  <2>2. \A q \in QuoteIds :
          quotes[q] \in Quote /\ (amid[q] = quotes[q] \/ amid[q].status = "SUPERSEDED")
    BY DEF Superseded, IInv, TypeOK, Quote
  <2>3. Unique(quotes, {"DRAFT"}) /\ Unique(quotes, Live)
    BY DEF IInv, BookInv, IndexesAtCommit, AtMostOneDraft, AtMostOneLive, HasStatus,
           Unique
  <2> HIDE DEF amid
  <2> QED
    BY <2>1, <2>2, <2>3 DEF Unique, Live
<1> QED
  BY <1>1, Invariance, PTL

\* A draft is always the newest version of its order's quotes.
THEOREM DraftsAreLatest == Spec => []DraftIsLatest
<1>1. IInv => DraftIsLatest
  BY DEF IInv, BookInv
<1> QED
  BY <1>1, Invariance, PTL

\* Cancelling an order closes its open quotes for good, whatever was in flight.
THEOREM CancellationClosesQuotes == Spec => []NoOpenQuoteOnCancelledOrder
<1>1. IInv => NoOpenQuoteOnCancelledOrder
  BY DEF IInv, BookInv
<1> QED
  BY <1>1, Invariance, PTL

-----------------------------------------------------------------------------
(* How one step may change one quote.                                      *)

\* The row is inserted as a draft.
Inserted(q) == quotes[q].status = "ABSENT" /\ quotes'[q].status = "DRAFT"

\* A draft is edited and stays one.
Edited(q) == quotes[q].status = "DRAFT" /\ quotes'[q].status = "DRAFT"

\* The quote moves along the table, or is superseded, with its content; it is
\* approved only as the order moves from QUOTED to APPROVED.
Moved(q) ==
  /\ quotes'[q].content = quotes[q].content
  /\ QuoteMoved(q)
  /\ Exists(q)
  /\ quotes'[q].status = "APPROVED"
       => orderStatus = "QUOTED" /\ orderStatus' = "APPROVED"

\* There is no other way, in any step of any interleaving.
LEMMA QuoteChange ==
  ASSUME IInv, [Next]_vars, NEW q \in QuoteIds, quotes'[q] # quotes[q]
  PROVE  Inserted(q) \/ Edited(q) \/ Moved(q)
<1>1. /\ quotes \in [QuoteIds -> Quote]
      /\ quotes[q] \in Quote
  BY DEF IInv, TypeOK
<1>2. PICK r \in Requests : Step(r)
  BY DEF Next, vars, Arrive, Request, ReadOrder, Rollback
<1> DEFINE t == txn[r]
<1>3. CASE LockServiceOrder(r) \/ Validate(r)
  BY <1>3 DEF LockServiceOrder, Validate
<1>4. CASE Create(r)
  BY <1>1, <1>4 DEF Create, InsertDraft, Exists, Inserted
<1>5. CASE CreateVersion(r)
  BY <1>1, <1>5 DEF CreateVersion, InsertDraft, Exists, Inserted
<1>6. CASE Update(r)
  <2>1. t.op = "update" /\ t.pc = "validated"
    BY <1>6 DEF Update, Ready
  <2>2. CanUpdate(t)
    BY <2>1 DEF IInv, LockInv, Consistent, Holding, Passes, QuoteOps, DraftOps
  <2> QED
    BY <1>1, <1>6, <2>2 DEF Update, CanUpdate, Edited, Quote
<1>7. CASE ChangeQuoteStatus(r)
  <2>1. t.op = "changeQuoteStatus" /\ t.pc = "validated"
    BY <1>7 DEF ChangeQuoteStatus, Ready
  <2>2. t.seen = orderStatus /\ CanChangeQuoteStatus(t)
    BY <2>1 DEF IInv, LockInv, Consistent, Holding, Passes, QuoteOps, DraftOps
  <2>3. quotes'[q] = AfterTransition(t)[q]
    BY <1>7 DEF ChangeQuoteStatus
  <2>4. CASE q = t.quote
    <3>1. quotes'[q] = [quotes[q] EXCEPT !.status = t.target]
      BY <2>3, <2>4, TransitionEffect
    <3>2. /\ quotes'[q].status = t.target
          /\ quotes'[q].content = quotes[q].content
      BY <1>1, <3>1 DEF Quote
    <3>3. <<quotes[q].status, t.target>> \in QuoteMoves
      BY <2>2, <2>4 DEF CanChangeQuoteStatus
    <3>4. t.target = "APPROVED" => orderStatus = "QUOTED" /\ orderStatus' = "APPROVED"
      BY <1>7, <2>2 DEF CanChangeQuoteStatus, ChangeQuoteStatus, AdvanceOrder
    <3> QED
      BY <3>2, <3>3, <3>4 DEF Moved, QuoteMoved, QuoteMoves, Exists
  <2>5. CASE q # t.quote
    <3>1. /\ quotes[q].status = "ACTIVE"
          /\ quotes'[q] = [quotes[q] EXCEPT !.status = "SUPERSEDED"]
      BY <2>3, <2>5, TransitionEffect
    <3>2. /\ quotes'[q].status = "SUPERSEDED"
          /\ quotes'[q].content = quotes[q].content
      BY <1>1, <3>1 DEF Quote
    <3> QED
      BY <3>1, <3>2 DEF Moved, QuoteMoved, Exists
  <2> QED
    BY <2>4, <2>5
<1>8. CASE ChangeOrderStatus(r)
  <2>1. /\ quotes[q].status \in Open
        /\ quotes'[q] = [quotes[q] EXCEPT !.status = "CANCELLED"]
    BY <1>8 DEF ChangeOrderStatus, CancelOpenQuotes
  <2>2. /\ quotes'[q].status = "CANCELLED"
        /\ quotes'[q].content = quotes[q].content
    BY <1>1, <2>1 DEF Quote
  <2> QED
    BY <2>1, <2>2 DEF Moved, QuoteMoved, QuoteMoves, Open, Exists
<1> QED
  BY <1>2, <1>3, <1>4, <1>5, <1>6, <1>7, <1>8 DEF Step

\* No interleaving moves a quote along an edge the transition table lacks.
THEOREM MovesAreAllowed == Spec => EveryQuoteMoveIsAllowed
<1>1. IInv /\ [Next]_vars
        => [\A q \in QuoteIds :
              quotes'[q].status # quotes[q].status => QuoteMoved(q)]_vars
  BY QuoteChange DEF Inserted, Edited, Moved, QuoteMoved
<1> QED
  BY <1>1, Invariance, PTL DEF Spec, EveryQuoteMoveIsAllowed

\* Items and totals are rewritten only while the quote is a draft.
THEOREM EditsTouchDraftsOnly == Spec => OnlyDraftsEdited
<1>1. IInv /\ [Next]_vars
        => [\A q \in QuoteIds :
              Exists(q) /\ quotes'[q].content # quotes[q].content
                => quotes[q].status = "DRAFT" /\ quotes'[q].status = "DRAFT"]_vars
  BY QuoteChange DEF Inserted, Edited, Moved, Exists
<1> QED
  BY <1>1, Invariance, PTL DEF Spec, OnlyDraftsEdited

\* An approval and the order's move to APPROVED are one commit.
THEOREM ApprovalsMoveOrders == Spec => ApprovalMovesOrder
<1>1. IInv /\ [Next]_vars
        => [\A q \in QuoteIds :
              quotes[q].status = "ACTIVE" /\ quotes'[q].status = "APPROVED"
                => orderStatus = "QUOTED" /\ orderStatus' = "APPROVED"]_vars
  BY QuoteChange DEF Inserted, Edited, Moved
<1> QED
  BY <1>1, Invariance, PTL DEF Spec, ApprovalMovesOrder

-----------------------------------------------------------------------------
(* Decisions and the stage of the order.                                   *)

\* A quote goes live only by the decision a request was sent for, and that
\* request still knows the stage the order is in.
LEMMA OnlyDecisionsGoLive ==
  ASSUME IInv, [Next]_vars, NEW q \in QuoteIds,
         quotes'[q].status \in Live \ {quotes[q].status}
  PROVE  \E r \in Requests :
           /\ ChangeQuoteStatus(r)
           /\ txn[r].target = quotes'[q].status
           /\ txn[r].seen = orderStatus
<1>1. /\ quotes \in [QuoteIds -> Quote]
      /\ quotes[q] \in Quote
      /\ quotes'[q] # quotes[q]
  BY DEF IInv, TypeOK
<1>2. PICK r \in Requests : Step(r)
  BY <1>1 DEF Next, vars, Arrive, Request, ReadOrder, Rollback
<1>3. CASE ChangeQuoteStatus(r)
  <2> DEFINE t == txn[r]
  <2>1. Holding(t)
    BY <1>3 DEF ChangeQuoteStatus, Ready, Holding, QuoteOps
  <2>2. t.seen = orderStatus
    BY <2>1 DEF IInv, LockInv, Consistent
  <2>3. quotes'[q] = AfterTransition(t)[q]
    BY <1>3 DEF ChangeQuoteStatus
  <2>4. quotes'[q].status \in {t.target, "SUPERSEDED", quotes[q].status}
    BY <1>1, <2>3, TransitionEffect DEF Quote
  <2>5. t.target = quotes'[q].status
    BY <2>4 DEF Live
  <2> QED
    BY <1>3, <2>2, <2>5
<1>4. CASE ChangeOrderStatus(r)
  BY <1>1, <1>4 DEF ChangeOrderStatus, CancelOpenQuotes, Quote, Live
<1>5. CASE LockServiceOrder(r) \/ Validate(r)
  BY <1>1, <1>5 DEF LockServiceOrder, Validate
<1>6. CASE Create(r) \/ CreateVersion(r)
  BY <1>1, <1>6 DEF Create, CreateVersion, InsertDraft, Live
<1>7. CASE Update(r)
  BY <1>1, <1>7 DEF Update, Quote
<1> QED
  BY <1>2, <1>3, <1>4, <1>5, <1>6, <1>7 DEF Step

\* Activation takes an order from DIAGNOSIS to QUOTED or leaves it where it is.
THEOREM ActivationsAdvance == Spec => ActivationNeverMovesBack
<1>1. ASSUME IInv, [Next]_vars, NEW q \in QuoteIds,
             quotes[q].status = "DRAFT", quotes'[q].status = "ACTIVE"
      PROVE  \/ orderStatus = "DIAGNOSIS" /\ orderStatus' = "QUOTED"
             \/ orderStatus # "DIAGNOSIS" /\ orderStatus' = orderStatus
  <2>1. PICK r \in Requests : /\ ChangeQuoteStatus(r)
                              /\ txn[r].target = "ACTIVE"
                              /\ txn[r].seen = orderStatus
    BY <1>1, OnlyDecisionsGoLive DEF Live
  <2>2. AdvanceOrder(txn[r], "DIAGNOSIS", "QUOTED")
    BY <2>1 DEF ChangeQuoteStatus
  <2> QED
    BY <2>1, <2>2 DEF AdvanceOrder, orderVars
<1>2. IInv /\ [Next]_vars
        => [(\E q \in QuoteIds :
               quotes[q].status = "DRAFT" /\ quotes'[q].status = "ACTIVE")
              => \/ orderStatus = "DIAGNOSIS" /\ orderStatus' = "QUOTED"
                 \/ orderStatus # "DIAGNOSIS" /\ orderStatus' = orderStatus]_vars
  BY <1>1
<1> QED
  BY <1>2, Invariance, PTL DEF Spec, ActivationNeverMovesBack

\* The order never changes its status without a row of the history that names the
\* status reached; where a quote went live, it names the one left, too.
THEOREM ChangesAreRecorded == Spec => StatusIsRecorded
<1>1. ASSUME IInv, [Next]_vars, orderStatus' # orderStatus
      PROVE  lastHistory'.new = orderStatus'
  <2>1. PICK r \in Requests : Step(r)
    BY <1>1 DEF Next, vars, orderVars, Arrive, Request, ReadOrder, Rollback
  <2>2. ChangeQuoteStatus(r) \/ ChangeOrderStatus(r)
    BY <1>1, <2>1 DEF Step, orderVars, LockServiceOrder, Validate, Create,
                      CreateVersion, Update
  <2> QED
    BY <1>1, <2>2 DEF ChangeQuoteStatus, ChangeOrderStatus, AdvanceOrder, orderVars
<1>2. ASSUME IInv, [Next]_vars, orderStatus' # orderStatus,
             NEW q \in QuoteIds, quotes'[q].status \in Live \ {quotes[q].status}
      PROVE  lastHistory'.previous = orderStatus
  <2>1. PICK r \in Requests : ChangeQuoteStatus(r) /\ txn[r].seen = orderStatus
    BY <1>2, OnlyDecisionsGoLive
  <2> QED
    BY <1>2, <2>1 DEF ChangeQuoteStatus, AdvanceOrder, orderVars
<1>3. IInv /\ [Next]_vars
        => [orderStatus' # orderStatus =>
              /\ lastHistory'.new = orderStatus'
              /\ (\E q \in QuoteIds : quotes'[q].status \in Live \ {quotes[q].status})
                   => lastHistory'.previous = orderStatus]_vars
  BY <1>1, <1>2
<1> QED
  BY <1>3, Invariance, PTL DEF Spec, StatusIsRecorded

-----------------------------------------------------------------------------
(* The history of the book: a second invariant, inductive relative to IInv. *)

\* Numbers are issued with rows, and one row has the highest.
NumbersInv ==
  /\ \A q \in QuoteIds : Exists(q) \/ quotes[q].version = 0
  /\ \E q \in QuoteIds : \A p \in QuoteIds : quotes[p].version <= quotes[q].version

HistoryInv == LineageIsAChain /\ SupersededHasSuccessor /\ NumbersInv

\* Rows and their places in the chain stay; what has gone out stays out; and a
\* quote is superseded only in favour of the draft that is activated with it.
LEMMA KeptRowsKeepHistory ==
  ASSUME IInv, HistoryInv,
         \A q \in QuoteIds :
           /\ quotes'[q].version = quotes[q].version
           /\ quotes'[q].source = quotes[q].source
           /\ Exists(q)' <=> Exists(q)
           /\ quotes'[q].status = "DRAFT" => quotes[q].status = "DRAFT"
           /\ quotes'[q].status = "SUPERSEDED" /\ quotes[q].status # "SUPERSEDED"
                => /\ quotes[q].status = "ACTIVE"
                   /\ \E d \in HasStatus({"DRAFT"}) : quotes'[d].status = "ACTIVE"
  PROVE  HistoryInv'
<1>1. LineageIsAChain'
  BY DEF HistoryInv, LineageIsAChain
<1>2. SupersededHasSuccessor'
  <2> SUFFICES ASSUME NEW q \in QuoteIds, quotes'[q].status = "SUPERSEDED"
               PROVE  \E p \in QuoteIds :
                        /\ quotes'[p].version > quotes'[q].version
                        /\ quotes'[p].status \notin {"ABSENT", "DRAFT"}
    BY DEF SupersededHasSuccessor, HasStatus
  <2>1. CASE quotes[q].status = "SUPERSEDED"
    <3>1. PICK p \in QuoteIds : /\ quotes[p].version > quotes[q].version
                                /\ quotes[p].status \notin {"ABSENT", "DRAFT"}
      BY <2>1 DEF HistoryInv, SupersededHasSuccessor, HasStatus
    <3> QED
      BY <3>1 DEF Exists
  <2>2. CASE quotes[q].status # "SUPERSEDED"
    <3>1. quotes[q].status = "ACTIVE"
      BY <2>2
    <3>2. PICK d \in HasStatus({"DRAFT"}) : quotes'[d].status = "ACTIVE"
      BY <2>2
    <3>3. d \in QuoteIds /\ Exists(d) /\ d # q /\ Exists(q)
      BY <3>1, <3>2 DEF HasStatus, Exists
    <3>4. quotes[q].version <= quotes[d].version
      BY <3>2, <3>3 DEF IInv, BookInv, DraftIsLatest, IsLatest
    <3>5. quotes[q].version # quotes[d].version
      BY <3>3 DEF IInv, BookInv, IndexesAtCommit, VersionsUnique
    <3>6. quotes[q].version \in Nat /\ quotes[d].version \in Nat
      BY <3>3 DEF IInv, TypeOK, Quote
    <3> QED
      BY <3>2, <3>3, <3>4, <3>5, <3>6
  <2> QED
    BY <2>1, <2>2
<1>3. NumbersInv'
  BY DEF HistoryInv, NumbersInv
<1> QED
  BY <1>1, <1>2, <1>3 DEF HistoryInv

\* A new draft is the first version, or continues the chain at its source.
LEMMA NewDraftKeepsHistory ==
  ASSUME IInv, HistoryInv,
         NEW n \in QuoteIds, ~Exists(n), Exists(n)',
         quotes'[n].status # "SUPERSEDED",
         \A q \in QuoteIds \ {n} : quotes'[q] = quotes[q],
         \A q \in QuoteIds \ {n} : quotes[q].version < quotes'[n].version,
         quotes'[n].version \in Nat,
         \/ quotes'[n].version = 1 /\ quotes'[n].source = NoQuote
         \/ \E p \in QuoteIds :
              /\ Exists(p)
              /\ quotes[p].version # 0
              /\ quotes'[n].source = p
              /\ quotes'[n].version = quotes[p].version + 1
  PROVE  HistoryInv'
<1>1. \A q \in QuoteIds : quotes[q].version \in Nat
  BY DEF IInv, TypeOK, Quote
<1>2. \A q \in QuoteIds : Exists(q) => q # n /\ Exists(q)'
  BY DEF Exists
<1>3. LineageIsAChain'
  <2> SUFFICES ASSUME NEW q \in QuoteIds, Exists(q)'
               PROVE  IF quotes'[q].version = 1
                      THEN quotes'[q].source = NoQuote
                      ELSE \E p \in QuoteIds :
                             /\ Exists(p)'
                             /\ quotes'[q].source = p
                             /\ quotes'[q].version = quotes'[p].version + 1
    BY DEF LineageIsAChain
  <2>1. CASE q = n
    BY <1>1, <1>2, <2>1
  <2>2. CASE q # n
    <3>1. Exists(q) /\ quotes'[q] = quotes[q]
      BY <2>2 DEF Exists
    <3> QED
      BY <1>2, <3>1 DEF HistoryInv, LineageIsAChain
  <2> QED
    BY <2>1, <2>2
<1>4. SupersededHasSuccessor'
  <2> SUFFICES ASSUME NEW q \in QuoteIds, quotes'[q].status = "SUPERSEDED"
               PROVE  \E p \in QuoteIds :
                        /\ quotes'[p].version > quotes'[q].version
                        /\ quotes'[p].status \notin {"ABSENT", "DRAFT"}
    BY DEF SupersededHasSuccessor, HasStatus
  <2>1. q # n /\ quotes'[q] = quotes[q]
    OBVIOUS
  <2>2. PICK p \in QuoteIds : /\ quotes[p].version > quotes[q].version
                              /\ quotes[p].status \notin {"ABSENT", "DRAFT"}
    BY <2>1 DEF HistoryInv, SupersededHasSuccessor, HasStatus
  <2>3. p # n
    BY <2>2 DEF Exists
  <2> QED
    BY <2>1, <2>2, <2>3
<1>5. NumbersInv'
  <2>1. \A q \in QuoteIds : Exists(q)' \/ quotes'[q].version = 0
    BY DEF HistoryInv, NumbersInv, Exists
  <2>2. \A q \in QuoteIds : quotes'[q].version <= quotes'[n].version
    BY <1>1
  <2> QED
    BY <2>1, <2>2 DEF NumbersInv
<1> QED
  BY <1>3, <1>4, <1>5 DEF HistoryInv

\* Versions count from one.
LEMMA VersionsArePositive ==
  ASSUME IInv, HistoryInv, NEW q \in QuoteIds, Exists(q)
  PROVE  quotes[q].version # 0
BY DEF IInv, TypeOK, Quote, HistoryInv, LineageIsAChain

\* Every step keeps the history in order.
LEMMA NextHistoryInv ==
  IInv /\ HistoryInv /\ [Next]_vars => HistoryInv'
<1> SUFFICES ASSUME IInv, HistoryInv, [Next]_vars PROVE HistoryInv'
  OBVIOUS
<1>1. \A q \in QuoteIds : quotes[q] \in Quote
  BY DEF IInv, TypeOK
<1>2. CASE quotes' = quotes
  BY <1>2, KeptRowsKeepHistory DEF Exists
<1>3. ASSUME NEW r \in Requests, Create(r), quotes' # quotes PROVE HistoryInv'
  <2>1. PICK c \in Contents, n \in QuoteIds :
          /\ ~Exists(n)
          /\ quotes' = [quotes EXCEPT ![n] =
                          [status |-> "DRAFT", version |-> 1,
                           source |-> NoQuote, content |-> c]]
    BY <1>3 DEF Create, InsertDraft
  <2>2. /\ quotes'[n] = [status |-> "DRAFT", version |-> 1,
                         source |-> NoQuote, content |-> c]
        /\ \A q \in QuoteIds \ {n} : quotes'[q] = quotes[q]
    BY <2>1 DEF IInv, TypeOK
  <2>3. Exists(n)'
    BY <2>2 DEF Exists
  <2>4. \A q \in QuoteIds : quotes[q].version = 0
    BY <1>3 DEF Create, Ready, IInv, LockInv, Consistent, Holding, Passes,
                CanCreate, QuoteOps, DraftOps, HistoryInv, NumbersInv
  <2> QED
    BY <2>1, <2>2, <2>3, <2>4, NewDraftKeepsHistory
<1>4. ASSUME NEW r \in Requests, CreateVersion(r), quotes' # quotes
      PROVE  HistoryInv'
  <2>1. PICK source \in QuoteIds : source = txn[r].quote /\ Exists(source)
    BY <1>4 DEF CreateVersion, Ready, IInv, LockInv, Consistent, WellFormed
  <2>2. PICK n \in QuoteIds :
          /\ ~Exists(n)
          /\ quotes' = [quotes EXCEPT ![n] =
                          [status |-> "DRAFT",
                           version |-> quotes[source].version + 1,
                           source |-> source,
                           content |-> quotes[source].content]]
    BY <1>4, <2>1 DEF CreateVersion, InsertDraft
  <2>3. /\ quotes'[n].status = "DRAFT"
        /\ quotes'[n].version = quotes[source].version + 1
        /\ quotes'[n].source = source
        /\ \A q \in QuoteIds \ {n} : quotes'[q] = quotes[q]
    BY <2>2 DEF IInv, TypeOK
  <2>4. Exists(n)' /\ quotes[source].version # 0
    BY <2>1, <2>3, VersionsArePositive DEF Exists
  <2>5. IsLatest(source)
    BY <1>4, <2>1 DEF CreateVersion, Ready, IInv, LockInv, Consistent, Holding,
                      Passes, CanCreateVersion, QuoteOps, DraftOps
  <2>6. \A q \in QuoteIds : quotes[q].version <= quotes[source].version
    BY <1>1, <2>5 DEF IsLatest, HistoryInv, NumbersInv, Quote
  <2>7. \A q \in QuoteIds : quotes[q].version \in Nat
    BY <1>1 DEF Quote
  <2>8. /\ quotes'[n].version \in Nat
        /\ \A q \in QuoteIds \ {n} : quotes[q].version < quotes'[n].version
    BY <2>3, <2>6, <2>7
  <2> QED
    BY <2>1, <2>2, <2>3, <2>4, <2>8, NewDraftKeepsHistory
<1>5. ASSUME NEW r \in Requests, Update(r) PROVE HistoryInv'
  <2>1. \A q \in QuoteIds : /\ quotes'[q].status = quotes[q].status
                            /\ quotes'[q].version = quotes[q].version
                            /\ quotes'[q].source = quotes[q].source
    BY <1>1, <1>5 DEF Update, IInv, TypeOK, Quote
  <2> QED
    BY <2>1, KeptRowsKeepHistory DEF Exists
<1>6. ASSUME NEW r \in Requests, ChangeQuoteStatus(r) PROVE HistoryInv'
  <2>1. PICK t \in {txn[r]} : TRUE
    OBVIOUS
  <2>2. t.quote \in QuoteIds /\ <<quotes[t.quote].status, t.target>> \in QuoteMoves
    BY <1>6, <2>1 DEF ChangeQuoteStatus, Ready, IInv, LockInv, Consistent,
                      WellFormed, Holding, Passes, CanChangeQuoteStatus, QuoteOps
  <2>3. /\ quotes[t.quote].status \in {"DRAFT", "ACTIVE"}
        /\ t.target \notin {"ABSENT", "DRAFT", "SUPERSEDED"}
        /\ t.target = "ACTIVE" => quotes[t.quote].status = "DRAFT"
    BY <2>2 DEF QuoteMoves
  <2>4. \A q \in QuoteIds :
          /\ quotes'[q].version = quotes[q].version
          /\ quotes'[q].source = quotes[q].source
          /\ quotes'[q].status =
               IF q = t.quote THEN t.target
               ELSE IF t.target = "ACTIVE" /\ quotes[q].status = "ACTIVE"
                    THEN "SUPERSEDED" ELSE quotes[q].status
    BY <1>1, <1>6, <2>1, TransitionEffect DEF ChangeQuoteStatus, Quote
  <2>5. \A q \in QuoteIds :
          quotes'[q].status = "SUPERSEDED" /\ quotes[q].status # "SUPERSEDED"
            => /\ quotes[q].status = "ACTIVE"
               /\ \E d \in HasStatus({"DRAFT"}) : quotes'[d].status = "ACTIVE"
    BY <2>2, <2>3, <2>4 DEF HasStatus
  <2>6. \A q \in QuoteIds :
          /\ Exists(q)' <=> Exists(q)
          /\ quotes'[q].status = "DRAFT" => quotes[q].status = "DRAFT"
    BY <2>3, <2>4 DEF Exists
  <2> QED
    BY <2>4, <2>5, <2>6, KeptRowsKeepHistory
<1>7. ASSUME NEW r \in Requests, ChangeOrderStatus(r), quotes' # quotes
      PROVE  HistoryInv'
  <2>1. \A q \in QuoteIds :
          /\ quotes'[q].version = quotes[q].version
          /\ quotes'[q].source = quotes[q].source
          /\ quotes'[q].status = IF quotes[q].status \in Open THEN "CANCELLED"
                                 ELSE quotes[q].status
    BY <1>1, <1>7 DEF ChangeOrderStatus, CancelOpenQuotes, Quote
  <2> QED
    BY <2>1, KeptRowsKeepHistory DEF Exists, Open
<1>8. CASE quotes' # quotes
  <2>1. PICK r \in Requests : Step(r)
    BY <1>8 DEF Next, vars, Arrive, Request, ReadOrder, Rollback
  <2> QED
    BY <1>3, <1>4, <1>5, <1>6, <1>7, <1>8, <2>1
    DEF Step, LockServiceOrder, Validate
<1> QED
  BY <1>2, <1>8

\* The chain of versions has no gap and no superseded quote without successor.
THEOREM HistoryInvariance == Spec => []HistoryInv
<1>1. Init => HistoryInv
  BY QuoteIdsAssumption
  DEF Init, HistoryInv, LineageIsAChain, SupersededHasSuccessor, NumbersInv,
      HasStatus, Exists
<1> QED
  BY <1>1, NextHistoryInv, Invariance, PTL DEF Spec

\* source_quote_id leads from every version to the one just below it, down to a
\* first version without a source.
THEOREM VersionsAreChained == Spec => []LineageIsAChain
<1>1. HistoryInv => LineageIsAChain
  BY DEF HistoryInv
<1> QED
  BY <1>1, HistoryInvariance, PTL

\* A superseded quote has a later version that went to the customer.
THEOREM SuccessorsExist == Spec => []SupersededHasSuccessor
<1>1. HistoryInv => SupersededHasSuccessor
  BY DEF HistoryInv
<1> QED
  BY <1>1, HistoryInvariance, PTL

-----------------------------------------------------------------------------
(* The refinement of QuoteBook.                                            *)

\* The greatest member is the one that CHOOSE finds.
LEMMA GreatestIsChosen ==
  ASSUME NEW S \in SUBSET Nat, NEW n \in S, \A m \in S : m <= n
  PROVE  (CHOOSE k \in S : \A m \in S : m <= k) = n
<1>1. PICK k \in S : k = (CHOOSE x \in S : \A m \in S : m <= x)
                     /\ \A m \in S : m <= k
  OBVIOUS
<1>2. k <= n /\ n <= k /\ k \in Nat /\ n \in Nat
  BY <1>1
<1> QED
  BY <1>1, <1>2

\* The latest version is the version of whatever quote has the highest number.
LEMMA LatestIs ==
  ASSUME NEW q \in QuoteIds,
         \A p \in QuoteIds : /\ quotes[p].version \in Nat
                             /\ quotes[p].version <= quotes[q].version
  PROVE  LatestVersion = quotes[q].version
<1>1. PICK S : S = {quotes[p].version : p \in QuoteIds}
  OBVIOUS
<1>2. PICK n : n = quotes[q].version
  OBVIOUS
<1>3. S \in SUBSET Nat /\ n \in S /\ \A m \in S : m <= n
  BY <1>1, <1>2
<1>4. (CHOOSE k \in S : \A m \in S : m <= k) = n
  BY <1>3, GreatestIsChosen
<1> QED
  BY <1>1, <1>2, <1>4 DEF LatestVersion

\* A book is opened empty.
LEMMA BookStarts ==
  Init => BookView!BookInit
<1> SUFFICES ASSUME Init PROVE BookView!BookInit
  OBVIOUS
<1>1. \A q \in QuoteIds : quotes[q].status = "ABSENT" /\ quotes[q].version = 0
  BY DEF Init
<1>2. LatestVersion = 0
  BY <1>1, LatestIs, QuoteIdsAssumption
<1>3. /\ HasStatus({"DRAFT"}) = {}
      /\ HasStatus({"ACTIVE"}) = {}
      /\ HasStatus({"APPROVED"}) = {}
  BY <1>1 DEF HasStatus
<1> QED
  BY <1>2, <1>3 DEF BookView!BookInit, LiveState

\* Versions that stay leave the latest where it is.
LEMMA SameLatest ==
  ASSUME \A q \in QuoteIds : quotes'[q].version = quotes[q].version
  PROVE  LatestVersion' = LatestVersion
<1>1. {quotes'[q].version : q \in QuoteIds} = {quotes[q].version : q \in QuoteIds}
  OBVIOUS
<1> QED
  BY <1>1 DEF LatestVersion

\* Edits and all that writes no quote leave the book as it is.
LEMMA SameBook ==
  ASSUME \A q \in QuoteIds : /\ quotes'[q].status = quotes[q].status
                             /\ quotes'[q].version = quotes[q].version
  PROVE  UNCHANGED BookView!bookVars
<1>1. LatestVersion' = LatestVersion
  BY SameLatest
<1>2. /\ HasStatus({"DRAFT"})' = HasStatus({"DRAFT"})
      /\ HasStatus({"ACTIVE"})' = HasStatus({"ACTIVE"})
      /\ HasStatus({"APPROVED"})' = HasStatus({"APPROVED"})
  BY DEF HasStatus
<1> QED
  BY <1>1, <1>2 DEF BookView!bookVars, LiveState

\* Both insertions are drafts, one number above the latest.
LEMMA InsertionIsDraft ==
  ASSUME IInv, HistoryInv, NEW n \in QuoteIds, ~Exists(n),
         quotes'[n].status = "DRAFT",
         \A q \in QuoteIds \ {n} : quotes'[q] = quotes[q],
         NEW h \in QuoteIds,
         \A q \in QuoteIds : quotes[q].version <= quotes[h].version,
         quotes'[n].version = quotes[h].version + 1,
         HasStatus({"DRAFT"}) = {}
  PROVE  BookView!Draft
<1>1. \A q \in QuoteIds : quotes[q].version \in Nat
  BY DEF IInv, TypeOK, Quote
<1>2. LatestVersion = quotes[h].version
  BY <1>1, LatestIs
<1>3. \A q \in QuoteIds : /\ quotes'[q].version \in Nat
                          /\ quotes'[q].version <= quotes'[n].version
  BY <1>1
<1>4. LatestVersion' = quotes'[n].version
  <2>1. PICK S : S = {quotes'[q].version : q \in QuoteIds}
    OBVIOUS
  <2>2. PICK k : k = quotes'[n].version
    OBVIOUS
  <2>3. S \in SUBSET Nat /\ k \in S /\ \A m \in S : m <= k
    BY <1>3, <2>1, <2>2
  <2>4. (CHOOSE x \in S : \A m \in S : m <= x) = k
    BY <2>3, GreatestIsChosen
  <2> QED
    BY <2>1, <2>2, <2>4 DEF LatestVersion
<1>5. n \in HasStatus({"DRAFT"})'
  BY DEF HasStatus
<1>6. /\ HasStatus({"ACTIVE"})' = HasStatus({"ACTIVE"})
      /\ HasStatus({"APPROVED"})' = HasStatus({"APPROVED"})
  BY DEF HasStatus, Exists
<1> QED
  BY <1>2, <1>4, <1>5, <1>6 DEF BookView!Draft, LiveState

\* What a decision on quote q makes of the statuses is one move of the book.
LEMMA DecisionIsMove ==
  ASSUME IInv, NEW q \in QuoteIds, NEW to,
         <<quotes[q].status, to>> \in QuoteMoves,
         to = "ACTIVE" => HasStatus({"APPROVED"}) \subseteq {q},
         \A p \in QuoteIds :
           /\ quotes'[p].version = quotes[p].version
           /\ quotes'[p].status =
                IF p = q THEN to
                ELSE IF to = "ACTIVE" /\ quotes[p].status = "ACTIVE"
                     THEN "SUPERSEDED" ELSE quotes[p].status
  PROVE  BookView!BookNext
<1>1. LatestVersion' = LatestVersion
  BY SameLatest
<1>2. CASE quotes[q].status = "DRAFT"
  <2>1. HasStatus({"DRAFT"}) = {q}
    BY <1>2 DEF IInv, BookInv, IndexesAtCommit, AtMostOneDraft, HasStatus
  <2>2. to \in {"ACTIVE", "CANCELLED"}
    BY <1>2 DEF QuoteMoves
  <2>3. HasStatus({"DRAFT"})' = {}
    BY <2>1, <2>2 DEF HasStatus
  <2>4. HasStatus({"APPROVED"})' = HasStatus({"APPROVED"})
    BY <1>2, <2>2 DEF HasStatus
  <2>5. CASE to = "ACTIVE"
    <3>1. HasStatus({"APPROVED"}) = {}
      BY <1>2, <2>5 DEF HasStatus
    <3>2. q \in HasStatus({"ACTIVE"})'
      BY <2>5 DEF HasStatus
    <3>3. LiveState # "APPROVED" /\ LiveState' = "ACTIVE"
      BY <2>4, <3>1, <3>2 DEF LiveState
    <3> QED
      BY <1>1, <2>1, <2>3, <3>3 DEF BookView!BookNext, BookView!Activate
  <2>6. CASE to = "CANCELLED"
    <3>1. HasStatus({"ACTIVE"})' = HasStatus({"ACTIVE"})
      BY <1>2, <2>6 DEF HasStatus
    <3>2. LiveState' = LiveState
      BY <2>4, <3>1 DEF LiveState
    <3> QED
      BY <1>1, <2>1, <2>3, <3>2 DEF BookView!BookNext, BookView!Drop
  <2> QED
    BY <2>2, <2>5, <2>6
<1>3. CASE quotes[q].status = "ACTIVE"
  <2>1. HasStatus({"ACTIVE"}) = {q} /\ HasStatus({"APPROVED"}) = {}
    BY <1>3 DEF IInv, BookInv, IndexesAtCommit, AtMostOneLive, HasStatus, Live
  <2>2. to \in {"APPROVED", "REJECTED", "EXPIRED", "CANCELLED"}
    BY <1>3 DEF QuoteMoves
  <2>3. HasStatus({"DRAFT"})' = HasStatus({"DRAFT"})
    BY <1>3, <2>2 DEF HasStatus
  <2>4. LiveState = "ACTIVE"
    BY <2>1 DEF LiveState
  <2>5. CASE to = "APPROVED"
    <3>1. q \in HasStatus({"APPROVED"})'
      BY <2>5 DEF HasStatus
    <3>2. LiveState' = "APPROVED"
      BY <3>1 DEF LiveState
    <3> QED
      BY <1>1, <2>3, <2>4, <3>2 DEF BookView!BookNext, BookView!Approve
  <2>6. CASE to # "APPROVED"
    <3>1. HasStatus({"ACTIVE"})' = {} /\ HasStatus({"APPROVED"})' = {}
      BY <2>1, <2>2, <2>6 DEF HasStatus
    <3>2. LiveState' = "NONE"
      BY <3>1 DEF LiveState
    <3> QED
      BY <1>1, <2>3, <2>4, <3>2 DEF BookView!BookNext, BookView!End
  <2> QED
    BY <2>5, <2>6
<1> QED
  BY <1>2, <1>3 DEF QuoteMoves

\* The cancellation of the order closes what is open.
LEMMA CancellationIsMove ==
  ASSUME IInv,
         \A q \in QuoteIds :
           /\ quotes'[q].version = quotes[q].version
           /\ quotes'[q].status = IF quotes[q].status \in Open THEN "CANCELLED"
                                  ELSE quotes[q].status
  PROVE  BookView!BookNext \/ UNCHANGED BookView!bookVars
<1>1. LatestVersion' = LatestVersion
  BY SameLatest
<1>2. /\ HasStatus({"DRAFT"})' = {}
      /\ HasStatus({"ACTIVE"})' = {}
      /\ HasStatus({"APPROVED"})' = HasStatus({"APPROVED"})
  BY DEF HasStatus, Open
<1>3. CASE HasStatus({"ACTIVE"}) = {}
  <2>1. LiveState' = LiveState
    BY <1>2, <1>3 DEF LiveState
  <2>2. CASE HasStatus({"DRAFT"}) = {}
    BY <1>1, <1>2, <2>1, <2>2 DEF BookView!bookVars
  <2>3. CASE HasStatus({"DRAFT"}) # {}
    BY <1>1, <1>2, <2>1, <2>3 DEF BookView!BookNext, BookView!Drop
  <2> QED
    BY <2>2, <2>3
<1>4. CASE HasStatus({"ACTIVE"}) # {}
  <2>1. HasStatus({"APPROVED"}) = {}
    BY <1>4 DEF IInv, BookInv, IndexesAtCommit, AtMostOneLive, HasStatus, Live
  <2>2. LiveState = "ACTIVE" /\ LiveState' = "NONE"
    BY <1>2, <1>4, <2>1 DEF LiveState
  <2>3. CASE HasStatus({"DRAFT"}) = {}
    BY <1>1, <1>2, <2>2, <2>3 DEF BookView!BookNext, BookView!End
  <2>4. CASE HasStatus({"DRAFT"}) # {}
    BY <1>1, <1>2, <2>2, <2>4 DEF BookView!BookNext, BookView!CloseAll
  <2> QED
    BY <2>3, <2>4
<1> QED
  BY <1>3, <1>4

\* Each step is one move of the book, or none.
LEMMA StepsImplementBook ==
  IInv /\ HistoryInv /\ [Next]_vars => [BookView!BookNext]_(BookView!bookVars)
<1> SUFFICES ASSUME IInv, HistoryInv, [Next]_vars
             PROVE  BookView!BookNext \/ UNCHANGED BookView!bookVars
  OBVIOUS
<1>1. \A q \in QuoteIds : quotes[q] \in Quote
  BY DEF IInv, TypeOK
<1>2. CASE quotes' = quotes
  BY <1>2, SameBook
<1>3. ASSUME NEW r \in Requests, Create(r) PROVE BookView!BookNext
  <2>1. PICK c \in Contents, n \in QuoteIds :
          /\ ~Exists(n)
          /\ quotes' = [quotes EXCEPT ![n] =
                          [status |-> "DRAFT", version |-> 1,
                           source |-> NoQuote, content |-> c]]
    BY <1>3 DEF Create, InsertDraft
  <2>2. /\ quotes'[n].status = "DRAFT" /\ quotes'[n].version = 1
        /\ \A q \in QuoteIds \ {n} : quotes'[q] = quotes[q]
    BY <2>1 DEF IInv, TypeOK
  <2>3. \A q \in QuoteIds : ~Exists(q)
    BY <1>3 DEF Create, Ready, IInv, LockInv, Consistent, Holding, Passes,
                CanCreate, QuoteOps, DraftOps
  <2>4. HasStatus({"DRAFT"}) = {}
    BY <2>3 DEF HasStatus, Exists
  <2>5. \A q \in QuoteIds : quotes[q].version = 0
    BY <2>3 DEF HistoryInv, NumbersInv
  <2>6. BookView!Draft
    BY <2>1, <2>2, <2>4, <2>5, InsertionIsDraft
  <2> QED
    BY <2>6 DEF BookView!BookNext
<1>4. ASSUME NEW r \in Requests, CreateVersion(r) PROVE BookView!BookNext
  <2>1. PICK source \in QuoteIds :
          /\ source = txn[r].quote
          /\ IsLatest(source)
          /\ HasStatus({"DRAFT"}) = {}
    BY <1>4 DEF CreateVersion, Ready, IInv, LockInv, Consistent, WellFormed,
                Holding, Passes, CanCreateVersion, QuoteOps, DraftOps
  <2>2. PICK n \in QuoteIds :
          /\ ~Exists(n)
          /\ quotes' = [quotes EXCEPT ![n] =
                          [status |-> "DRAFT",
                           version |-> quotes[source].version + 1,
                           source |-> source,
                           content |-> quotes[source].content]]
    BY <1>4, <2>1 DEF CreateVersion, InsertDraft
  <2>3. /\ quotes'[n].status = "DRAFT"
        /\ quotes'[n].version = quotes[source].version + 1
        /\ \A q \in QuoteIds \ {n} : quotes'[q] = quotes[q]
    BY <2>2 DEF IInv, TypeOK
  <2>4. \A q \in QuoteIds : quotes[q].version <= quotes[source].version
    BY <1>1, <2>1 DEF IsLatest, HistoryInv, NumbersInv, Quote
  <2>5. BookView!Draft
    BY <2>1, <2>2, <2>3, <2>4, InsertionIsDraft
  <2> QED
    BY <2>5 DEF BookView!BookNext
<1>5. ASSUME NEW r \in Requests, Update(r) PROVE UNCHANGED BookView!bookVars
  <2>1. \A q \in QuoteIds : /\ quotes'[q].status = quotes[q].status
                            /\ quotes'[q].version = quotes[q].version
    BY <1>1, <1>5 DEF Update, IInv, TypeOK, Quote
  <2> QED
    BY <2>1, SameBook
<1>6. ASSUME NEW r \in Requests, ChangeQuoteStatus(r) PROVE BookView!BookNext
  <2>1. PICK t \in {txn[r]} : TRUE
    OBVIOUS
  <2>2. t.quote \in QuoteIds /\ CanChangeQuoteStatus(t)
    BY <1>6, <2>1 DEF ChangeQuoteStatus, Ready, IInv, LockInv, Consistent,
                      WellFormed, Holding, Passes, QuoteOps
  <2>3. /\ <<quotes[t.quote].status, t.target>> \in QuoteMoves
        /\ t.target = "ACTIVE" => HasStatus({"APPROVED"}) \subseteq {t.quote}
    BY <2>2 DEF CanChangeQuoteStatus, NoOther
  <2>4. \A q \in QuoteIds :
          /\ quotes'[q].version = quotes[q].version
          /\ quotes'[q].status =
               IF q = t.quote THEN t.target
               ELSE IF t.target = "ACTIVE" /\ quotes[q].status = "ACTIVE"
                    THEN "SUPERSEDED" ELSE quotes[q].status
    BY <1>1, <1>6, <2>1, TransitionEffect DEF ChangeQuoteStatus, Quote
  <2> QED
    BY <2>2, <2>3, <2>4, DecisionIsMove
<1>7. ASSUME NEW r \in Requests, ChangeOrderStatus(r), quotes' # quotes
      PROVE  BookView!BookNext \/ UNCHANGED BookView!bookVars
  <2>1. \A q \in QuoteIds :
          /\ quotes'[q].version = quotes[q].version
          /\ quotes'[q].status = IF quotes[q].status \in Open THEN "CANCELLED"
                                 ELSE quotes[q].status
    BY <1>1, <1>7 DEF ChangeOrderStatus, CancelOpenQuotes, Quote
  <2> QED
    BY <2>1, CancellationIsMove
<1>8. CASE quotes' # quotes
  <2>1. PICK r \in Requests : Step(r)
    BY <1>8 DEF Next, vars, Arrive, Request, ReadOrder, Rollback
  <2> QED
    BY <1>3, <1>4, <1>5, <1>6, <1>7, <1>8, <2>1
    DEF Step, LockServiceOrder, Validate
<1> QED
  BY <1>2, <1>8

\* Whatever requests interleave, fail or time out, each commit is one move of the
\* abstract book.
THEOREM BookImplemented == Spec => ImplementsBook
BY BookStarts, StepsImplementBook, Invariance, HistoryInvariance, PTL
DEF Spec, ImplementsBook, BookView!BookSpec

=============================================================================
