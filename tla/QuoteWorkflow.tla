--------------------------- MODULE QuoteWorkflow ----------------------------
(***************************************************************************)
(* The quotes of one service order and the order's own status, as the HTTP *)
(* requests of src/src/modules/quotes/quotes.service.ts and of             *)
(* ServiceOrdersService.changeStatus change them.                          *)
(*                                                                         *)
(* Every request is one interactive Prisma transaction under PostgreSQL's  *)
(* READ COMMITTED.  A quote write begins with SELECT ... FOR UPDATE on the *)
(* order row, reads the quotes, and then writes; changing the status of    *)
(* the order reads the row WITHOUT locking it and takes the row lock only  *)
(* when its UPDATE runs.  The writes of a transaction become visible at    *)
(* its commit, so the writing part of a transaction is one action here,    *)
(* taken while the transaction holds the row lock.                         *)
(*                                                                         *)
(* Orders do not share quotes, so one order is enough.  The partial unique *)
(* indexes on quotes are not part of the model: IndexesNeverNeeded says    *)
(* that no statement ever violates one, so translateWriteConflict's P2002  *)
(* branch cannot be taken and leaving it out loses no behaviour.           *)
(***************************************************************************)
EXTENDS Naturals, FiniteSets

CONSTANTS
  Requests,    \* the slots in which HTTP requests are served concurrently
  QuoteIds,    \* primary keys of quotes; finite, and so bounds the versions
  Contents,    \* items, discount, tax, totals and currency of a quote
  AskedStatuses, \* the order statuses clients ask for; bounds the stages
  NoQuote,     \* source_quote_id IS NULL
  NoRequest    \* nobody holds the lock on the order row

ASSUME QuoteIdsAssumption == QuoteIds # {} /\ IsFiniteSet(QuoteIds)
ASSUME AskedStatusesAssumption ==
  AskedStatuses \subseteq
    {"RECEIVED", "DIAGNOSIS", "QUOTED", "APPROVED", "IN_PROGRESS",
     "QUALITY_CONTROL", "READY_FOR_DELIVERY", "DELIVERED", "CANCELLED"}
ASSUME NoQuoteAssumption == NoQuote \notin QuoteIds
ASSUME NoRequestAssumption == NoRequest \notin Requests

VARIABLES
  orderStatus,   \* service_orders.status
  closedAt,      \* service_orders.closed_at IS NOT NULL
  lastHistory,   \* the newest row of service_order_status_history
  quotes,        \* the rows of quotes, "ABSENT" for ids not inserted
  rowLock,       \* the transaction that holds the order row FOR UPDATE
  txn            \* per slot: the request it serves and what it has read

orderVars == <<orderStatus, closedAt, lastHistory>>
vars == <<orderStatus, closedAt, lastHistory, quotes, rowLock, txn>>

-----------------------------------------------------------------------------
(* The two lifecycles.                                                     *)

QuoteStatus ==
  {"DRAFT", "ACTIVE", "APPROVED", "REJECTED", "EXPIRED", "CANCELLED",
   "SUPERSEDED"}

OrderStatus ==
  {"RECEIVED", "DIAGNOSIS", "QUOTED", "APPROVED", "IN_PROGRESS",
   "QUALITY_CONTROL", "READY_FOR_DELIVERY", "DELIVERED", "CANCELLED"}

QuoteMoves ==
  ({"DRAFT"} \X {"ACTIVE", "CANCELLED"})
    \cup ({"ACTIVE"} \X {"APPROVED", "REJECTED", "EXPIRED", "CANCELLED"})

OrderMoves ==
  {<<"RECEIVED", "DIAGNOSIS">>, <<"DIAGNOSIS", "QUOTED">>,
   <<"QUOTED", "APPROVED">>, <<"APPROVED", "IN_PROGRESS">>,
   <<"IN_PROGRESS", "QUALITY_CONTROL">>,
   <<"QUALITY_CONTROL", "READY_FOR_DELIVERY">>,
   <<"QUALITY_CONTROL", "IN_PROGRESS">>,
   <<"READY_FOR_DELIVERY", "DELIVERED">>}
    \cup ({"RECEIVED", "DIAGNOSIS", "QUOTED", "APPROVED", "IN_PROGRESS"}
           \X {"CANCELLED"})

Terminal == {"DELIVERED", "CANCELLED"}

Quotable == {"DIAGNOSIS", "QUOTED"}

Versionable == {"ACTIVE", "REJECTED", "EXPIRED", "CANCELLED", "SUPERSEDED"}

ClientAssignable == {"ACTIVE", "APPROVED", "REJECTED", "EXPIRED", "CANCELLED"}

\* Faulty: an approved quote counts as open, too.
OpenOrApproved == {"DRAFT", "ACTIVE", "APPROVED"}

Open == {"DRAFT", "ACTIVE"}

Live == {"ACTIVE", "APPROVED"}

-----------------------------------------------------------------------------
(* Rows and requests.                                                      *)

Quote ==
  [status: QuoteStatus \cup {"ABSENT"}, version: Nat,
   source: QuoteIds \cup {NoQuote}, content: Contents]

HistoryRow == [previous: OrderStatus \cup {"NULL"}, new: OrderStatus]

\* Writes that require a quotable order, and all requests on quotes.
DraftOps == {"create", "createVersion", "update"}
QuoteOps == DraftOps \cup {"changeQuoteStatus"}
Ops == QuoteOps \cup {"changeOrderStatus"}

Txn ==
  [pc: {"idle", "begun", "locked", "validated"}, op: Ops \cup {"none"},
   quote: QuoteIds \cup {NoQuote},
   target: ClientAssignable \cup OrderStatus \cup {"none"},
   seen: OrderStatus \cup {"none"}]

Idle ==
  [pc |-> "idle", op |-> "none", quote |-> NoQuote, target |-> "none",
   seen |-> "none"]

Exists(q) == quotes[q].status # "ABSENT"

HasStatus(S) == {q \in QuoteIds : quotes[q].status \in S}

\* One type invariant for the module: every column holds a value of its
\* declared database type, and the row lock belongs to a request or to nobody.
TypeOK ==
  /\ orderStatus \in OrderStatus
  /\ closedAt \in BOOLEAN
  /\ lastHistory \in HistoryRow
  /\ quotes \in [QuoteIds -> Quote]
  /\ rowLock \in Requests \cup {NoRequest}
  /\ txn \in [Requests -> Txn]

\* ServiceOrdersService.create inserted the order and its first history row.
Init ==
  /\ orderStatus = "RECEIVED"
  /\ closedAt = FALSE
  /\ lastHistory = [previous |-> "NULL", new |-> "RECEIVED"]
  /\ \E c \in Contents :
       quotes = [q \in QuoteIds |->
                   [status |-> "ABSENT", version |-> 0, source |-> NoQuote,
                    content |-> c]]
  /\ rowLock = NoRequest
  /\ txn = [r \in Requests |-> Idle]

-----------------------------------------------------------------------------
(* Requests arrive, end and fail.                                          *)

\* Faulty: the transaction is left without releasing the row.
EndKeepsLock(r) ==
  /\ txn' = [txn EXCEPT ![r] = Idle]
  /\ UNCHANGED rowLock

\* The transaction ends, by commit or rollback, and its row lock with it.
End(r) ==
  /\ txn' = [txn EXCEPT ![r] = Idle]
  /\ rowLock' = IF rowLock = r THEN NoRequest ELSE rowLock

\* A quote request past its guards and DTO validation opens its transaction.  Clients
\* name quotes the API has shown them; any other id ends in a 404 with no effect.
Request(r, op, q, target) ==
  /\ txn[r].pc = "idle"
  /\ txn' = [txn EXCEPT ![r] =
               [pc |-> "begun", op |-> op, quote |-> q, target |-> target,
                seen |-> "none"]]
  /\ UNCHANGED <<orderVars, quotes, rowLock>>

Arrive(r) ==
  \/ Request(r, "create", NoQuote, "none")
  \/ \E q \in QuoteIds, op \in {"createVersion", "update"} :
       Exists(q) /\ Request(r, op, q, "none")
  \/ \E q \in QuoteIds, s \in ClientAssignable :
       Exists(q) /\ Request(r, "changeQuoteStatus", q, s)

\* The server dies, the connection drops, Prisma's transaction timeout strikes,
\* or a check on the payload alone throws: PostgreSQL rolls the work back.
Rollback(r) ==
  /\ txn[r].pc # "idle"
  /\ End(r)
  /\ UNCHANGED <<orderVars, quotes>>

-----------------------------------------------------------------------------
(* Requests on quotes: lock the order, validate, write.                    *)

IsOrderEligible(op) == op \in DraftOps => orderStatus \in Quotable

\* Faulty: the order row is read with a plain SELECT, without FOR UPDATE.
LockServiceOrderUnlocked(r) ==
  /\ txn[r].pc = "begun"
  /\ txn[r].op \in QuoteOps
  /\ IF IsOrderEligible(txn[r].op)
     THEN /\ txn' = [txn EXCEPT ![r] =
                       [@ EXCEPT !.pc = "locked", !.seen = orderStatus]]
          /\ UNCHANGED rowLock
     ELSE End(r)
  /\ UNCHANGED <<orderVars, quotes>>

LockServiceOrder(r) ==
  /\ txn[r].pc = "begun"
  /\ txn[r].op \in QuoteOps
  /\ rowLock = NoRequest
  /\ IF IsOrderEligible(txn[r].op)
     THEN /\ rowLock' = r
          /\ txn' = [txn EXCEPT ![r] =
                       [@ EXCEPT !.pc = "locked", !.seen = orderStatus]]
     ELSE End(r)
  /\ UNCHANGED <<orderVars, quotes>>

\* No other quote of the order has one of the statuses in S.
NoOther(q, S) == HasStatus(S) \subseteq {q}

IsLatest(q) ==
  \A p \in QuoteIds : Exists(p) => quotes[p].version <= quotes[q].version

CanCreate(t) == \A q \in QuoteIds : ~Exists(q)

\* Faulty: any latest version may be cloned, a draft included.
CanCreateVersionOfDraft(t) == IsLatest(t.quote)

CanCreateVersion(t) ==
  /\ quotes[t.quote].status \in Versionable
  /\ IsLatest(t.quote)
  /\ HasStatus({"DRAFT"}) = {}

\* Faulty: every open quote may be edited.
CanUpdateOpen(t) == quotes[t.quote].status \in Open

CanUpdate(t) == quotes[t.quote].status = "DRAFT"

\* Faulty: approval does not look at the stage of the order.
CanChangeQuoteStatusAnyStage(t) ==
  /\ <<quotes[t.quote].status, t.target>> \in QuoteMoves
  /\ t.target = "ACTIVE" => NoOther(t.quote, {"APPROVED"})
  /\ t.target = "APPROVED" => NoOther(t.quote, Live)

CanChangeQuoteStatus(t) ==
  /\ <<quotes[t.quote].status, t.target>> \in QuoteMoves
  /\ t.target = "ACTIVE" => NoOther(t.quote, {"APPROVED"})
  /\ t.target = "APPROVED" => NoOther(t.quote, Live) /\ t.seen = "QUOTED"

\* The bound of the model: a version is only begun while an id is left for it.
HasRoom == \E q \in QuoteIds : ~Exists(q)

\* The reads and checks between the lock and the first write.
Passes(t) ==
  \/ t.op = "create" /\ CanCreate(t)
  \/ t.op = "createVersion" /\ CanCreateVersion(t) /\ HasRoom
  \/ t.op = "update" /\ CanUpdate(t)
  \/ t.op = "changeQuoteStatus" /\ CanChangeQuoteStatus(t)

Validate(r) ==
  /\ txn[r].pc = "locked"
  /\ IF Passes(txn[r])
     THEN txn' = [txn EXCEPT ![r].pc = "validated"] /\ UNCHANGED rowLock
     ELSE End(r)
  /\ UNCHANGED <<orderVars, quotes>>

Ready(r, op) == txn[r].pc = "validated" /\ txn[r].op = op

\* Faulty: the source is superseded when it is cloned, not when it is replaced.
InsertDraftSuperseding(version, source, content) ==
  \E q \in QuoteIds :
    /\ ~Exists(q)
    /\ quotes' = [p \in QuoteIds |->
         IF p = q THEN [status |-> "DRAFT", version |-> version,
                        source |-> source, content |-> content]
         ELSE IF p = source THEN [quotes[p] EXCEPT !.status = "SUPERSEDED"]
              ELSE quotes[p]]

InsertDraft(version, source, content) ==
  \E q \in QuoteIds :
    /\ ~Exists(q)
    /\ quotes' = [quotes EXCEPT ![q] =
                    [status |-> "DRAFT", version |-> version,
                     source |-> source, content |-> content]]

Create(r) ==
  /\ Ready(r, "create")
  /\ \E c \in Contents : InsertDraft(1, NoQuote, c)
  /\ End(r)
  /\ UNCHANGED orderVars

\* Faulty: the clone inherits its source's own source.
CreateVersionOfGrandparent(r) ==
  LET source == txn[r].quote IN
  /\ Ready(r, "createVersion")
  /\ InsertDraft(quotes[source].version + 1, quotes[source].source,
                 quotes[source].content)
  /\ End(r)
  /\ UNCHANGED orderVars

CreateVersion(r) ==
  LET source == txn[r].quote IN
  /\ Ready(r, "createVersion")
  /\ InsertDraft(quotes[source].version + 1, source, quotes[source].content)
  /\ End(r)
  /\ UNCHANGED orderVars

Update(r) ==
  /\ Ready(r, "update")
  /\ \E c \in Contents :
       quotes' = [quotes EXCEPT ![txn[r].quote].content = c]
  /\ End(r)
  /\ UNCHANGED orderVars

\* Activation supersedes the other ACTIVE quotes of the book.
Superseded(t, book) ==
  [q \in QuoteIds |->
     IF q # t.quote /\ t.target = "ACTIVE" /\ book[q].status = "ACTIVE"
     THEN [book[q] EXCEPT !.status = "SUPERSEDED"]
     ELSE book[q]]

\* Faulty: the quote is activated before the other one is superseded.
StatementsSwapped(t) ==
  LET written == [quotes EXCEPT ![t.quote].status = t.target]
  IN  <<written, Superseded(t, written)>>

\* The books that the two statements of t's transition leave, in this order.  They
\* commit together; only the indexes look at the first one.
Statements(t) ==
  LET superseded == Superseded(t, quotes)
  IN  <<superseded, [superseded EXCEPT ![t.quote].status = t.target]>>

AfterTransition(t) == Statements(t)[2]

\* Faulty: the order advances without a history row.
AdvanceOrderSilently(t, from, to) ==
  IF t.seen = from
  THEN orderStatus' = to /\ UNCHANGED <<closedAt, lastHistory>>
  ELSE UNCHANGED orderVars

\* Faulty: the stage the order is in is not looked at.
AdvanceOrderAnyway(t, from, to) ==
  /\ orderStatus' = to
  /\ lastHistory' = [previous |-> t.seen, new |-> to]
  /\ UNCHANGED closedAt

\* advanceOrder: only from the expected stage, otherwise the order is left alone.
AdvanceOrder(t, from, to) ==
  IF t.seen = from
  THEN /\ orderStatus' = to
       /\ lastHistory' = [previous |-> from, new |-> to]
       /\ UNCHANGED closedAt
  ELSE UNCHANGED orderVars

ChangeQuoteStatus(r) ==
  LET t == txn[r] IN
  /\ Ready(r, "changeQuoteStatus")
  /\ quotes' = AfterTransition(t)
  /\ CASE t.target = "ACTIVE"   -> AdvanceOrder(t, "DIAGNOSIS", "QUOTED")
       [] t.target = "APPROVED" -> AdvanceOrder(t, "QUOTED", "APPROVED")
       [] OTHER                 -> UNCHANGED orderVars
  /\ End(r)

-----------------------------------------------------------------------------
(* ServiceOrdersService.changeStatus: read without a lock, then write.     *)

\* Faulty: the status read is not carried over to the history row.
ReadOrderForgetful(r) ==
  /\ txn[r].pc = "idle"
  /\ \E s \in AskedStatuses :
       /\ <<orderStatus, s>> \in OrderMoves
       /\ txn' = [txn EXCEPT ![r] =
                    [Idle EXCEPT !.pc = "validated",
                                 !.op = "changeOrderStatus", !.target = s]]
  /\ UNCHANGED <<orderVars, quotes, rowLock>>

\* Arrival, findFirst and the check against ALLOWED_TRANSITIONS; a status that
\* is not allowed from the one read is a 400 and changes nothing.
ReadOrder(r) ==
  /\ txn[r].pc = "idle"
  /\ \E s \in AskedStatuses :
       /\ <<orderStatus, s>> \in OrderMoves
       /\ txn' = [txn EXCEPT ![r] =
                    [pc |-> "validated", op |-> "changeOrderStatus",
                     quote |-> NoQuote, target |-> s, seen |-> orderStatus]]
  /\ UNCHANGED <<orderVars, quotes, rowLock>>

CancelOpenQuotes ==
  [q \in QuoteIds |->
     IF quotes[q].status \in Open
     THEN [quotes[q] EXCEPT !.status = "CANCELLED"]
     ELSE quotes[q]]

ChangeOrderStatus(r) ==
  LET t == txn[r] IN
  /\ Ready(r, "changeOrderStatus")
  /\ rowLock = NoRequest
  /\ orderStatus' = t.target
  /\ closedAt' = (closedAt \/ t.target \in Terminal)
  /\ lastHistory' = [previous |-> t.seen, new |-> t.target]
  /\ quotes' = IF t.target = "CANCELLED" THEN CancelOpenQuotes ELSE quotes
  /\ End(r)

-----------------------------------------------------------------------------
Step(r) ==
  \/ LockServiceOrder(r) \/ Validate(r)
  \/ Create(r) \/ CreateVersion(r) \/ Update(r) \/ ChangeQuoteStatus(r)
  \/ ChangeOrderStatus(r)

Next ==
  \E r \in Requests : Arrive(r) \/ ReadOrder(r) \/ Step(r) \/ Rollback(r)

Spec == Init /\ [][Next]_vars

\* Node runs every callback it has queued and PostgreSQL answers every query:
\* weak fairness.  Row locks are granted to waiters in turn: strong fairness for
\* the two actions that wait for one.  Nothing forces requests to arrive or fail.
Fairness ==
  \A r \in Requests :
    /\ WF_vars(Validate(r) \/ Create(r) \/ CreateVersion(r) \/ Update(r)
                 \/ ChangeQuoteStatus(r))
    /\ SF_vars(LockServiceOrder(r))
    /\ SF_vars(ChangeOrderStatus(r))

FairSpec == Spec /\ Fairness
-----------------------------------------------------------------------------
(* Safety: the book of quotes.                                             *)

AtMostOneDraft ==
  \A p, q \in HasStatus({"DRAFT"}) : p = q

AtMostOneLive ==
  \A p, q \in HasStatus(Live) : p = q

VersionsUnique ==
  \A p, q \in QuoteIds :
    Exists(p) /\ Exists(q) /\ quotes[p].version = quotes[q].version => p = q

IndexesAtCommit == AtMostOneDraft /\ AtMostOneLive /\ VersionsUnique

Unique(book, S) ==
  \A p, q \in QuoteIds : book[p].status \in S /\ book[q].status \in S => p = q

IndexesAmidTransition ==
  \A r \in Requests : Ready(r, "changeQuoteStatus") =>
    LET amid == Statements(txn[r])[1]
    IN  Unique(amid, {"DRAFT"}) /\ Unique(amid, Live)

\* No commit leaves two drafts, two quotes that are active or approved, or two
\* rows with one version, and no transition that passed its checks does so between
\* its two statements, where an index that is not deferred looks already ("Supersede
\* before activating so the partial unique index never sees two ACTIVE rows").  So
\* the indexes of the migration never have to refuse a write, the lock on the order
\* row is enough (lockQuotableServiceOrder calls them "the final guard").
IndexesNeverNeeded == IndexesAtCommit /\ IndexesAmidTransition

\* The draft being edited is always the newest version, so activating it can
\* never put an older offer back in front of the customer (createVersion).
DraftIsLatest ==
  \A d \in HasStatus({"DRAFT"}) : IsLatest(d)

\* source_quote_id links the versions in one chain without gaps: version 1 has
\* no source, and every other quote was cloned from the version just below it.
LineageIsAChain ==
  \A q \in QuoteIds : Exists(q) =>
    IF quotes[q].version = 1
    THEN quotes[q].source = NoQuote
    ELSE \E p \in QuoteIds :
           /\ Exists(p)
           /\ quotes[q].source = p
           /\ quotes[q].version = quotes[p].version + 1

\* A quote is only superseded by a later version that did go to the customer.
SupersededHasSuccessor ==
  \A q \in HasStatus({"SUPERSEDED"}) :
    \E p \in QuoteIds :
      /\ quotes[p].version > quotes[q].version
      /\ quotes[p].status \notin {"ABSENT", "DRAFT"}

\* A cancelled order leaves nothing open for the customer to decide on, whatever
\* quote requests were in flight when it was cancelled (changeStatus's comment:
\* "A cancelled order cannot leave quotes open for a customer decision").
NoOpenQuoteOnCancelledOrder ==
  orderStatus = "CANCELLED" => HasStatus(Open) = {}

\* No interleaving of requests moves a quote along an edge the transition table
\* does not have: a decision that was validated while the quote was active is
\* never written over a cancellation, an expiry or a supersession that came
\* first.  Only the server supersedes, and a quote begins as a draft.
QuoteMoved(q) ==
  LET from == quotes[q].status
      to   == quotes'[q].status
  IN  \/ <<from, to>> \in QuoteMoves
      \/ <<from, to>> \in {<<"ABSENT", "DRAFT">>, <<"ACTIVE", "SUPERSEDED">>}

EveryQuoteMoveIsAllowed ==
  [][\A q \in QuoteIds :
       quotes'[q].status # quotes[q].status => QuoteMoved(q)]_vars

\* What the customer has been shown never changes under them: items and totals
\* of a quote are rewritten only while it is a draft and stays one, so an edit
\* cannot land on a quote that was activated after the edit began (update).
OnlyDraftsEdited ==
  [][\A q \in QuoteIds :
       Exists(q) /\ quotes'[q].content # quotes[q].content
         => quotes[q].status = "DRAFT" /\ quotes'[q].status = "DRAFT"]_vars

\* Approving a quote and moving the order on are one commit: an order is still
\* waiting for a decision in the step that records the approval.
ApprovalMovesOrder ==
  [][\A q \in QuoteIds :
       quotes[q].status = "ACTIVE" /\ quotes'[q].status = "APPROVED"
         => orderStatus = "QUOTED" /\ orderStatus' = "APPROVED"]_vars

\* Sending a quote out takes an order that waits for it from DIAGNOSIS to QUOTED,
\* and never takes one back that has moved on meanwhile: that order stays where it
\* is, without an error (advanceOrder; the design says "State drift returns 409,
\* never a silent no-op").
ActivationNeverMovesBack ==
  [][(\E q \in QuoteIds :
        quotes[q].status = "DRAFT" /\ quotes'[q].status = "ACTIVE")
       => \/ orderStatus = "DIAGNOSIS" /\ orderStatus' = "QUOTED"
          \/ orderStatus # "DIAGNOSIS" /\ orderStatus' = orderStatus]_vars

\* Every change of the order's status appends a history row that names the
\* status reached (trd.md: every change of status must be recorded), and a row
\* written by a quote decision also names the status the order really had.
StatusIsRecorded ==
  [][orderStatus' # orderStatus =>
       /\ lastHistory'.new = orderStatus'
       /\ (\E q \in QuoteIds : quotes'[q].status \in Live \ {quotes[q].status})
            => lastHistory'.previous = orderStatus]_vars

-----------------------------------------------------------------------------
(* Refinement: seen through latest, draft and live, the requests implement *)
(* the abstract book.                                                      *)

LatestVersion ==
  LET issued == {quotes[q].version : q \in QuoteIds}
  IN  CHOOSE n \in issued : \A m \in issued : m <= n

LiveState ==
  IF HasStatus({"APPROVED"}) # {} THEN "APPROVED"
  ELSE IF HasStatus({"ACTIVE"}) # {} THEN "ACTIVE" ELSE "NONE"

BookView == INSTANCE QuoteBook WITH
  latest <- LatestVersion,
  draft  <- HasStatus({"DRAFT"}) # {},
  live   <- LiveState

\* Whatever requests interleave, fail or time out, each commit is one move of
\* the abstract book (or none).
ImplementsBook == BookView!BookSpec

-----------------------------------------------------------------------------
(* Liveness.                                                               *)

\* No request waits for ever for the row lock: every transaction that begins
\* ends, although nothing in the code ever releases the lock but a commit or a
\* rollback.
RequestsEnd ==
  \A r \in Requests : txn[r].pc # "idle" ~> txn[r].pc = "idle"

-----------------------------------------------------------------------------
(* What the repository says and the code does not do.                      *)

\* complete-quote-workflow/design.md: "Locking one aggregate root serializes
\* creation, cloning, activation, approval, and order cancellation".  Were that
\* so, a cancelled order would stay cancelled: its row of ALLOWED_TRANSITIONS
\* is empty.
CancelledIsFinal ==
  [][orderStatus = "CANCELLED" => orderStatus' = "CANCELLED"]_vars
=============================================================================
