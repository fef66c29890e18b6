------------------------- MODULE AuthSessionsProofs --------------------------
(***************************************************************************)
(* Theorems about AuthSessions for every number of requests, sessions and  *)
(* tokens and every TTL and grace window: families of tokens are chains,   *)
(* closing a session reaches all of its tokens, and the requests implement *)
(* the abstract register.                                                  *)
(***************************************************************************)
EXTENDS AuthSessions, TLAPS

-----------------------------------------------------------------------------
(* The inductive invariant.                                                *)

\* A request that carries a refresh token.
Carrying(t) == t.pc \in {"arrived", "rotating", "lost", "revoking"}

\* What a refresh or a logout may rely on: its token exists and, until it has
\* tried to rotate, the clock it read is not older than the token.
CarrierOK(t) ==
  /\ Carrying(t) => t.token \in Issued
  /\ t.pc \in {"arrived", "rotating"} =>
       t.at <= now /\ token[t.token].expires <= t.at + RefreshTtl

\* What a sweep may rely on: the rows it has locked are still live, and no
\* token of theirs is missing from its second statement.
SweepOK(t) ==
  /\ t.pc = "sweeping" => t.own \notin t.rows
  /\ t.pc = "locked" =>
       /\ t.rows \subseteq Live
       /\ t.their \subseteq Issued
       /\ t.op # "reset-password" =>
            \A s \in t.rows : Family(s) \subseteq t.their

TxnInv == \A r \in Requests : CarrierOK(txn[r]) /\ SweepOK(txn[r])

\* A row is locked by one sweep at a time.
LockInv ==
  \A q, r \in Requests :
    q # r /\ txn[q].pc = "locked" /\ txn[r].pc = "locked"
      => txn[q].rows \cap txn[r].rows = {}

\* Every link leads from a consumed token to another one of its session, and no
\* two links to the same.
LinkInv ==
  /\ \A t \in Tokens :
       /\ token[t].session = NoSession => token[t] = Unissued
       /\ token[t].session # NoSession =>
            /\ session[token[t].session].state # "ABSENT"
            /\ token[t].expires <= now + RefreshTtl
       /\ token[t].consumedAt = Never <=> token[t].replacedBy = NoToken
       /\ token[t].replacedBy # NoToken =>
            /\ token[t].replacedBy # t
            /\ token[t].session # NoSession
            /\ token[token[t].replacedBy].session = token[t].session
  /\ \A t, u \in Tokens :
       token[t].replacedBy = token[u].replacedBy /\ token[t].replacedBy # NoToken
         => t = u

\* t is the unconsumed token of s; t was handed out at the login that opened s.
IsTip(t, s) ==
  /\ token[t].session = s
  /\ token[t].consumedAt = Never
  /\ token[t].expires = session[s].expires
  /\ \A u \in Tokens : token[u].session = s /\ token[u].consumedAt = Never => u = t

NotReplacing(t) == \A u \in Tokens : token[u].replacedBy # t

IsRoot(t, s) ==
  /\ token[t].session = s
  /\ NotReplacing(t)
  /\ \A u \in Tokens : token[u].session = s /\ NotReplacing(u) => u = t

EndsInv ==
  \A s \in Sessions : session[s].state # "ABSENT" =>
    /\ \E t \in Tokens : IsTip(t, s)
    /\ \E t \in Tokens : IsRoot(t, s)

\* A session that has not been opened has no end.
AbsentInv ==
  \A s \in Sessions : session[s].state = "ABSENT" => session[s].expires = 0

IInv == TypeOK /\ TxnInv /\ LockInv /\ LinkInv /\ EndsInv /\ AbsentInv

-----------------------------------------------------------------------------
(* Requests and locks.                                                     *)

\* Times are naturals, and expiries are times plus the TTL.
LEMMA TimeFacts ==
  /\ 0 \in Times
  /\ Times \subseteq Nat
  /\ Expiries \subseteq Nat
  /\ \A at \in Times : at + RefreshTtl \in Expiries
  /\ \A at \in Times : at # Never
BY ClockAssumption, SentinelAssumption DEF Times, Expiries

\* The rows of no token and of no request have their types.
LEMMA ConstantsTyped == Idle \in Txn /\ Unissued \in Token
BY TimeFacts, ClockAssumption DEF Idle, Txn, Unissued, Token, Expiries

\* Tokens stay what they were issued as, and the clock does not run back.
Grows ==
  /\ now' \in Times /\ now <= now'
  /\ \A t \in Issued : /\ token'[t].session = token[t].session
                       /\ token'[t].expires = token[t].expires

\* A step that lets the rows locked by the others live, and adds no token to
\* them, keeps what requests rely on if that is true of the one that moved.
LEMMA OneMoves ==
  ASSUME IInv, NEW r \in Requests, NEW x,
         txn' = [txn EXCEPT ![r] = x],
         Grows,
         \A q \in Requests \ {r} : txn[q].pc = "locked" =>
           \A s \in txn[q].rows :
             s \in Live => s \in Live' /\ Family(s)' \subseteq Family(s),
         CarrierOK(x)', SweepOK(x)',
         x.pc = "locked" =>
           \A q \in Requests \ {r} : txn[q].pc = "locked" =>
             txn[q].rows \cap x.rows = {}
  PROVE  TxnInv' /\ LockInv'
<1>1. txn'[r] = x /\ \A q \in Requests \ {r} : txn'[q] = txn[q]
  BY DEF IInv, TypeOK
<1>2. TxnInv'
  <2> SUFFICES ASSUME NEW q \in Requests
               PROVE  CarrierOK(txn[q])' /\ SweepOK(txn[q])'
    BY DEF TxnInv
  <2>1. CASE q = r
    BY <1>1, <2>1
  <2>2. CASE q # r
    <3>1. CarrierOK(txn[q]) /\ SweepOK(txn[q]) /\ txn'[q] = txn[q]
      BY <1>1, <2>2 DEF IInv, TxnInv
    <3>2. CarrierOK(txn[q])'
      <4>1. txn[q].at \in Nat /\ now \in Nat /\ now' \in Nat
        BY TimeFacts DEF IInv, TypeOK, Txn, Grows
      <4>2. Carrying(txn[q]) =>
              /\ txn[q].token \in Issued /\ txn[q].token \in Issued'
              /\ token'[txn[q].token].expires = token[txn[q].token].expires
        BY <3>1 DEF CarrierOK, Grows, Issued
      <4> QED
        BY <3>1, <4>1, <4>2 DEF CarrierOK, Carrying, Grows
    <3>3. SweepOK(txn[q])'
      <4>1. CASE txn[q].pc = "locked"
        <5>1. \A s \in txn[q].rows : s \in Live
          BY <3>1, <4>1 DEF SweepOK
        <5>2. \A s \in txn[q].rows : s \in Live' /\ Family(s)' \subseteq Family(s)
          BY <2>2, <4>1, <5>1
        <5>3. txn[q].their \subseteq Issued'
          BY <3>1, <4>1 DEF SweepOK, Grows, Issued
        <5> QED
          BY <3>1, <4>1, <5>2, <5>3 DEF SweepOK
      <4>2. CASE txn[q].pc # "locked"
        BY <3>1, <4>2 DEF SweepOK
      <4> QED
        BY <4>1, <4>2
    <3> QED
      BY <3>2, <3>3
  <2> QED
    BY <2>1, <2>2
<1>3. LockInv'
  <2> SUFFICES ASSUME NEW p \in Requests, NEW q \in Requests,
                      p # q, txn'[p].pc = "locked", txn'[q].pc = "locked"
               PROVE  txn'[p].rows \cap txn'[q].rows = {}
    BY DEF LockInv
  <2>1. CASE p = r
    BY <1>1, <2>1
  <2>2. CASE q = r
    BY <1>1, <2>2
  <2>3. CASE p # r /\ q # r
    BY <1>1, <2>3 DEF IInv, LockInv
  <2> QED
    BY <2>1, <2>2, <2>3
<1> QED
  BY <1>2, <1>3

\* A request that ends relies on nothing.
LEMMA EndingKeepsTxnInv ==
  ASSUME IInv, NEW r \in Requests, End(r), Grows,
         \A q \in Requests \ {r} : txn[q].pc = "locked" =>
           \A s \in txn[q].rows :
             s \in Live => s \in Live' /\ Family(s)' \subseteq Family(s)
  PROVE  TxnInv' /\ LockInv' /\ txn' \in [Requests -> Txn]
<1>1. CarrierOK(Idle)' /\ SweepOK(Idle)' /\ Idle.pc # "locked"
  BY DEF CarrierOK, SweepOK, Carrying, Idle
<1>2. txn' = [txn EXCEPT ![r] = Idle]
  BY DEF End
<1>3. TxnInv' /\ LockInv'
  BY <1>1, <1>2, OneMoves
<1> QED
  BY <1>2, <1>3, ConstantsTyped DEF IInv, TypeOK

\* A request that moves on without writing keeps the invariant.
LEMMA MovingKeepsIInv ==
  ASSUME IInv, NEW r \in Requests, NEW x \in Txn,
         txn' = [txn EXCEPT ![r] = x],
         UNCHANGED <<session, token, now>>,
         CarrierOK(x), SweepOK(x),
         x.pc = "locked" =>
           \A q \in Requests \ {r} : txn[q].pc = "locked" =>
             txn[q].rows \cap x.rows = {}
  PROVE  IInv'
<1>1. TypeOK'
  BY DEF IInv, TypeOK
<1>2. Grows
  BY TimeFacts DEF Grows, IInv, TypeOK
<1>3. CarrierOK(x)' /\ SweepOK(x)'
  BY DEF CarrierOK, SweepOK, Carrying, Issued, Live, Family
<1>4. \A s \in Sessions : s \in Live => s \in Live' /\ Family(s)' \subseteq Family(s)
  BY DEF Live, Family
<1>5. \A q \in Requests : txn[q].rows \subseteq Sessions
  BY DEF IInv, TypeOK, Txn
<1>6. TxnInv' /\ LockInv'
  BY <1>2, <1>3, <1>4, <1>5, OneMoves
<1>7. LinkInv' /\ EndsInv' /\ AbsentInv'
  BY DEF IInv, LinkInv, EndsInv, IsTip, IsRoot, NotReplacing, AbsentInv
<1> QED
  BY <1>1, <1>6, <1>7 DEF IInv

\* So does one that ends without having written.
LEMMA EndingKeepsIInv ==
  ASSUME IInv, NEW r \in Requests, End(r), UNCHANGED <<session, token, now>>
  PROVE  IInv'
<1>1. CarrierOK(Idle) /\ SweepOK(Idle) /\ Idle.pc # "locked"
  BY DEF CarrierOK, SweepOK, Carrying, Idle
<1> QED
  BY <1>1, ConstantsTyped, MovingKeepsIInv DEF End

-----------------------------------------------------------------------------
(* Steps that write nothing.                                               *)

\* The invariant holds before anybody has logged in.
LEMMA InitIInv == Init => IInv
<1> SUFFICES ASSUME Init PROVE IInv
  OBVIOUS
<1>1. TypeOK
  BY TimeFacts, ClockAssumption, ConstantsTyped
  DEF Init, TypeOK, Session, Times, Expiries
<1>2. TxnInv /\ LockInv
  BY DEF Init, TxnInv, LockInv, CarrierOK, SweepOK, Carrying, Idle
<1>3. LinkInv
  BY DEF Init, LinkInv, Unissued
<1>4. EndsInv /\ AbsentInv
  BY DEF Init, EndsInv, AbsentInv
<1> QED
  BY <1>1, <1>2, <1>3, <1>4 DEF IInv

\* Requests that arrive with a token that was issued, after it was.
LEMMA ArrivingKeepsIInv ==
  ASSUME IInv, NEW r \in Requests, ArriveRefresh(r) \/ ArriveLogout(r)
  PROVE  IInv'
<1>1. PICK t \in Issued, x \in {"arrived", "revoking"}, op \in {"refresh", "logout"} :
        txn' = [txn EXCEPT ![r] =
                  [Idle EXCEPT !.pc = x, !.op = op, !.at = now, !.token = t]]
  BY DEF ArriveRefresh, ArriveLogout
<1>2. PICK y : y = [Idle EXCEPT !.pc = x, !.op = op, !.at = now, !.token = t]
  OBVIOUS
<1>3. y \in Txn
  BY <1>2, ConstantsTyped DEF Idle, Txn, Issued, IInv, TypeOK
<1>4. /\ y.pc \in {"arrived", "revoking"} /\ y.at = now /\ y.token = t
  BY <1>2 DEF Idle
<1>5. /\ token[t].expires <= now + RefreshTtl
      /\ now <= now
  BY TimeFacts DEF IInv, LinkInv, Issued, TypeOK
<1>6. CarrierOK(y) /\ SweepOK(y)
  BY <1>4, <1>5 DEF CarrierOK, SweepOK
<1> QED
  BY <1>1, <1>2, <1>3, <1>4, <1>6, MovingKeepsIInv
  DEF ArriveRefresh, ArriveLogout

\* A request with a token goes on with it, when that needs no more than it has.
LEMMA GoingOnKeepsIInv ==
  ASSUME IInv, NEW r \in Requests, NEW pc \in {"rotating", "lost", "revoking"},
         Carrying(txn[r]), pc = "rotating" => txn[r].pc = "arrived",
         Goto(r, pc) \/ (pc = "lost" /\ Lose(r)), UNCHANGED <<session, token, now>>
  PROVE  IInv'
<1>1. PICK x : /\ txn' = [txn EXCEPT ![r] = x]
               /\ \/ x = [txn[r] EXCEPT !.pc = pc]
                  \/ pc = "lost" /\ x = [txn[r] EXCEPT !.pc = pc, !.at = now]
  BY DEF Goto, Lose
<1>2. txn[r] \in Txn /\ CarrierOK(txn[r]) /\ now \in Times
  BY DEF IInv, TypeOK, TxnInv
<1>3. /\ x \in Txn /\ x.pc = pc /\ x.token = txn[r].token
      /\ pc # "lost" => x.at = txn[r].at
  BY <1>1, <1>2 DEF Txn
<1>4. CarrierOK(x) /\ SweepOK(x)
  BY <1>2, <1>3 DEF CarrierOK, SweepOK, Carrying
<1>5. txn' = [txn EXCEPT ![r] = x]
  BY <1>1
<1> QED
  BY <1>3, <1>4, <1>5, MovingKeepsIInv

\* The two reads of rotateRefreshToken.
LEMMA ReadingKeepsIInv ==
  ASSUME IInv, NEW r \in Requests, ReadToken(r) \/ ReadAgain(r)
  PROVE  IInv'
<1>1. UNCHANGED <<session, token, now>> /\ Carrying(txn[r])
  BY DEF ReadToken, ReadAgain, Carrying
<1>2. End(r) \/ Goto(r, "revoking") \/ (txn[r].pc = "arrived" /\ Goto(r, "rotating"))
  BY DEF ReadToken, ReadAgain, ResolveConcurrentReplacement
<1> QED
  BY <1>1, <1>2, EndingKeepsIInv, GoingOnKeepsIInv

\* A sweep begins without the session of its own user.
LEMMA BeginSweepKeepsIInv ==
  ASSUME IInv, NEW r \in Requests, BeginSweep(r)
  PROVE  IInv'
<1>1. PICK op \in Sweeps, own \in Sessions \cup {NoSession} :
        txn' = [txn EXCEPT ![r] =
                  [Idle EXCEPT !.pc = "sweeping", !.op = op, !.own = own,
                               !.rows = Live \ {own}]]
  BY DEF BeginSweep
<1>2. PICK x : x = [Idle EXCEPT !.pc = "sweeping", !.op = op, !.own = own,
                                !.rows = Live \ {own}]
  OBVIOUS
<1>3. x \in Txn
  BY <1>2, ConstantsTyped DEF Idle, Txn, Live
<1>4. x.pc = "sweeping" /\ x.own = own /\ x.rows = Live \ {own}
  BY <1>2 DEF Idle
<1>5. CarrierOK(x) /\ SweepOK(x)
  BY <1>4 DEF CarrierOK, SweepOK, Carrying
<1> QED
  BY <1>1, <1>2, <1>3, <1>4, <1>5, MovingKeepsIInv DEF BeginSweep

\* Locking takes rows that nobody else has locked, and the snapshot that
\* follows holds every token of theirs.
LEMMA LockRowsKeepsIInv ==
  ASSUME IInv, NEW r \in Requests, LockRows(r)
  PROVE  IInv'
<1> DEFINE their == IF txn[r].op = "reset-password" THEN {}
                    ELSE Issued \ Family(txn[r].own)
<1>1. PICK x : x = [txn[r] EXCEPT !.pc = "locked",
                                  !.rows = txn[r].rows \cap Live,
                                  !.their = their]
  OBVIOUS
<1>2. txn[r] \in Txn /\ SweepOK(txn[r])
  BY DEF IInv, TypeOK, TxnInv
<1>3. /\ x \in Txn /\ x.pc = "locked" /\ x.op = txn[r].op
      /\ x.rows = txn[r].rows \cap Live /\ x.their = their
  BY <1>1, <1>2 DEF Txn, Issued
<1>4. \A s \in x.rows : s \in Sessions /\ s # txn[r].own
  BY <1>2, <1>3 DEF SweepOK, LockRows, Live
<1>5. \A s \in x.rows : x.op # "reset-password" => Family(s) \subseteq x.their
  BY <1>3, <1>4, SentinelAssumption DEF Family, Issued
<1>6. CarrierOK(x) /\ SweepOK(x)
  BY <1>3, <1>5 DEF CarrierOK, SweepOK, Carrying
<1>7. \A q \in Requests : txn[q].pc = "locked" => txn[q].rows \cap x.rows = {}
  BY <1>3 DEF LockRows, Locked
<1>8. /\ txn' = [txn EXCEPT ![r] = x]
      /\ UNCHANGED <<session, token, now>>
  BY <1>1 DEF LockRows
<1> QED
  BY <1>3, <1>6, <1>7, <1>8, MovingKeepsIInv

-----------------------------------------------------------------------------
(* Steps that close sessions.                                              *)

\* Nothing but the clock, revocations and the state of sessions that exist has
\* changed: families are what they were.
OnlyCloses ==
  /\ now' \in Times /\ now <= now'
  /\ \A t \in Tokens :
       \/ token'[t] = token[t]
       \/ /\ token[t].session # NoSession
          /\ token'[t] = [token[t] EXCEPT !.revoked = TRUE]
  /\ \A s \in Sessions :
       \/ session'[s] = session[s]
       \/ /\ session[s].state # "ABSENT"
          /\ session'[s] = [session[s] EXCEPT !.state = "REVOKED"]

\* What the fields of the rows are after such a step.
LEMMA ClosingFields ==
  ASSUME TypeOK, OnlyCloses
  PROVE  /\ \A t \in Tokens :
              /\ token'[t].session = token[t].session
              /\ token'[t].expires = token[t].expires
              /\ token'[t].consumedAt = token[t].consumedAt
              /\ token'[t].replacedBy = token[t].replacedBy
              /\ token'[t] \in Token
              /\ token[t].session = NoSession => token'[t] = token[t]
         /\ \A s \in Sessions :
              /\ session'[s].expires = session[s].expires
              /\ session'[s].state = "ABSENT" <=> session[s].state = "ABSENT"
              /\ session'[s] \in Session
<1>1. \A t \in Tokens : token[t] \in Token
  BY DEF TypeOK
<1>2. \A s \in Sessions : session[s] \in Session
  BY DEF TypeOK
<1>3. ASSUME NEW t \in Tokens
      PROVE  /\ token'[t].session = token[t].session
             /\ token'[t].expires = token[t].expires
             /\ token'[t].consumedAt = token[t].consumedAt
             /\ token'[t].replacedBy = token[t].replacedBy
             /\ token'[t] \in Token
             /\ token[t].session = NoSession => token'[t] = token[t]
  <2>1. CASE token'[t] = token[t]
    BY <1>1, <2>1
  <2>2. CASE /\ token[t].session # NoSession
             /\ token'[t] = [token[t] EXCEPT !.revoked = TRUE]
    BY <1>1, <2>2 DEF Token
  <2> QED
    BY <2>1, <2>2 DEF OnlyCloses
<1>4. ASSUME NEW s \in Sessions
      PROVE  /\ session'[s].expires = session[s].expires
             /\ session'[s].state = "ABSENT" <=> session[s].state = "ABSENT"
             /\ session'[s] \in Session
  BY <1>2 DEF OnlyCloses, Session
<1> QED
  BY <1>3, <1>4

\* Such a step keeps families and types.
LEMMA ClosingKeepsFamilies ==
  ASSUME IInv, OnlyCloses
  PROVE  LinkInv' /\ EndsInv' /\ AbsentInv' /\ Grows
<1>1. Grows
  BY ClosingFields DEF OnlyCloses, Grows, Issued, IInv
<1>2. LinkInv'
  <2>1. \A t \in Tokens : token[t].session # NoSession =>
          token[t].session \in Sessions /\ token[t].expires <= now' + RefreshTtl
    BY TimeFacts, ClockAssumption
    DEF IInv, LinkInv, OnlyCloses, TypeOK, Token
  <2>2. \A t \in Tokens : token[t].replacedBy # NoToken => token[t].replacedBy \in Tokens
    BY DEF IInv, TypeOK, Token
  <2> QED
    BY <2>1, <2>2, ClosingFields DEF IInv, LinkInv
<1>3. EndsInv'
  BY ClosingFields DEF IInv, EndsInv, IsTip, IsRoot, NotReplacing
<1>4. AbsentInv'
  BY ClosingFields DEF IInv, AbsentInv
<1> QED
  BY <1>1, <1>2, <1>3, <1>4

\* Time passes.
LEMMA TickKeepsIInv ==
  ASSUME IInv, Tick
  PROVE  IInv'
<1>1. now \in Nat /\ MaxTime \in Nat /\ now' = now + 1 /\ now < MaxTime
  BY TimeFacts, ClockAssumption DEF IInv, TypeOK, Tick
<1>2. OnlyCloses
  BY <1>1 DEF Tick, OnlyCloses, Times
<1>3. TypeOK'
  BY <1>2 DEF IInv, TypeOK, Tick, OnlyCloses
<1>4. TxnInv'
  <2> SUFFICES ASSUME NEW r \in Requests
               PROVE  CarrierOK(txn[r])' /\ SweepOK(txn[r])'
    BY DEF TxnInv
  <2>1. CarrierOK(txn[r]) /\ SweepOK(txn[r]) /\ txn[r].at \in Nat
    BY TimeFacts DEF IInv, TxnInv, TypeOK, Txn
  <2> QED
    BY <1>1, <2>1 DEF Tick, CarrierOK, SweepOK, Carrying, Issued, Live, Family
<1>5. LockInv'
  BY DEF IInv, LockInv, Tick
<1> QED
  BY <1>2, <1>3, <1>4, <1>5, ClosingKeepsFamilies DEF IInv

\* Closing sessions whose rows the others have not locked keeps the invariant.
LEMMA ClosingKeepsIInv ==
  ASSUME IInv, NEW r \in Requests, OnlyCloses, End(r), UNCHANGED now,
         session' \in [Sessions -> Session], token' \in [Tokens -> Token],
         \A s \in Sessions : session'[s] = session[s]
           \/ \A q \in Requests \ {r} : txn[q].pc = "locked" => s \notin txn[q].rows
  PROVE  IInv'
<1>1. Grows /\ LinkInv' /\ EndsInv' /\ AbsentInv'
  BY ClosingKeepsFamilies
<1>2. \A q \in Requests \ {r} : txn[q].pc = "locked" =>
        \A s \in txn[q].rows :
          s \in Live => s \in Live' /\ Family(s)' \subseteq Family(s)
  BY ClosingFields DEF Live, Family, IInv
<1>3. TxnInv' /\ LockInv' /\ txn' \in [Requests -> Txn]
  BY <1>1, <1>2, EndingKeepsTxnInv
<1> QED
  BY <1>1, <1>3 DEF IInv, TypeOK

\* revokeSession waits for the row of the session.
LEMMA RevokeSessionKeepsIInv ==
  ASSUME IInv, NEW r \in Requests, RevokeSession(r)
  PROVE  IInv' /\ OnlyCloses
<1> DEFINE s == token[txn[r].token].session
<1>1. txn[r].token \in Issued
  BY DEF IInv, TxnInv, CarrierOK, Carrying, RevokeSession
<1>2. s \in Sessions /\ session[s].state # "ABSENT"
  BY <1>1 DEF IInv, TypeOK, Token, Issued, LinkInv
<1>3. /\ session' = [session EXCEPT ![s].state = "REVOKED"]
      /\ token' = [t \in Tokens |->
                     IF t \in Family(s) THEN [token[t] EXCEPT !.revoked = TRUE]
                     ELSE token[t]]
      /\ ~Locked(s) /\ End(r) /\ UNCHANGED now
  BY DEF RevokeSession
<1>4. now' \in Times /\ now <= now'
  BY <1>3, TimeFacts DEF IInv, TypeOK
<1>5. \A t \in Family(s) : token[t].session # NoSession
  BY <1>2, SentinelAssumption DEF Family
<1>6. \A o \in Sessions : session'[o] = IF o = s THEN [session[o] EXCEPT !.state = "REVOKED"]
                                        ELSE session[o]
  BY <1>3 DEF IInv, TypeOK
<1>7. OnlyCloses
  BY <1>2, <1>3, <1>4, <1>5, <1>6 DEF OnlyCloses
<1>8. session' \in [Sessions -> Session]
  BY <1>2, <1>3 DEF IInv, TypeOK, Session
<1>9. token' \in [Tokens -> Token]
  BY <1>3, <1>7, ClosingFields DEF IInv
<1>10. \A o \in Sessions : session'[o] = session[o]
         \/ \A q \in Requests \ {r} : txn[q].pc = "locked" => o \notin txn[q].rows
  BY <1>3, <1>6 DEF Locked
<1>11. IInv'
  BY <1>3, <1>7, <1>8, <1>9, <1>10, ClosingKeepsIInv
<1> QED
  BY <1>7, <1>11

\* A sweep closes the rows it has locked.
LEMMA FinishSweepKeepsIInv ==
  ASSUME IInv, NEW r \in Requests, FinishSweep(r)
  PROVE  IInv' /\ OnlyCloses
<1>1. txn[r] \in Txn /\ txn[r].pc = "locked" /\ txn[r].rows \subseteq Live
  BY DEF IInv, TypeOK, TxnInv, SweepOK, FinishSweep
<1>2. /\ session' = [s \in Sessions |->
                       IF s \in txn[r].rows
                       THEN [session[s] EXCEPT !.state = "REVOKED"]
                       ELSE session[s]]
      /\ token' = [t \in Tokens |->
                     IF t \in txn[r].their
                     THEN [token[t] EXCEPT !.revoked = TRUE]
                     ELSE token[t]]
      /\ End(r) /\ UNCHANGED now
  BY DEF FinishSweep
<1>3. txn[r].their \subseteq Issued
  BY <1>1 DEF IInv, TxnInv, SweepOK
<1>4. now' \in Times /\ now <= now'
  BY <1>2, TimeFacts DEF IInv, TypeOK
<1>5. \A s \in txn[r].rows : session[s].state # "ABSENT"
  BY <1>1 DEF Live
<1>6. OnlyCloses
  BY <1>2, <1>3, <1>4, <1>5 DEF OnlyCloses, Issued
<1>7. session' \in [Sessions -> Session] /\ token' \in [Tokens -> Token]
  BY <1>2, <1>6, ClosingFields DEF IInv
<1>8. \A s \in Sessions : session'[s] = session[s]
        \/ \A q \in Requests \ {r} : txn[q].pc = "locked" => s \notin txn[q].rows
  BY <1>1, <1>2 DEF IInv, LockInv
<1>9. IInv'
  BY <1>2, <1>6, <1>7, <1>8, ClosingKeepsIInv
<1> QED
  BY <1>6, <1>9

-----------------------------------------------------------------------------
(* Steps that hand out a token.                                            *)

\* A token that has not been issued is linked to nothing.
LEMMA UnissuedIsFree ==
  ASSUME IInv, NEW t \in Tokens \ Issued
  PROVE  /\ token[t] = Unissued /\ token[t].session = NoSession
         /\ \A u \in Tokens : token[u].replacedBy # t
<1>1. token[t].session = NoSession /\ token[t] = Unissued
  BY DEF Issued, IInv, LinkInv
<1>2. \A u \in Tokens : token[u].replacedBy # t
  <2> SUFFICES ASSUME NEW u \in Tokens, token[u].replacedBy = t
               PROVE  FALSE
    OBVIOUS
  <2>1. token[u].replacedBy # NoToken
    BY SentinelAssumption
  <2> QED
    BY <1>1, <2>1 DEF IInv, LinkInv
<1> QED
  BY <1>1, <1>2

\* What a login in session s with token t writes.
LogsIn(s, t, at) ==
  /\ session[s].state = "ABSENT"
  /\ session' = [session EXCEPT ![s] =
                   [state |-> "LIVE", expires |-> at + RefreshTtl]]
  /\ token' = [token EXCEPT ![t] =
                 [Unissued EXCEPT !.session = s, !.expires = at + RefreshTtl]]
  /\ UNCHANGED <<now, txn>>

\* The rows after a login.
LEMMA LoginFields ==
  ASSUME IInv, NEW s \in Sessions, NEW t \in Tokens \ Issued, NEW at \in 0 .. now,
         LogsIn(s, t, at)
  PROVE  /\ at \in Times /\ at <= now
         /\ token'[t] = [session |-> s, expires |-> at + RefreshTtl,
                         consumedAt |-> Never, revoked |-> FALSE,
                         replacedBy |-> NoToken]
         /\ \A u \in Tokens \ {t} : token'[u] = token[u]
         /\ session'[s] = [state |-> "LIVE", expires |-> at + RefreshTtl]
         /\ \A o \in Sessions \ {s} : session'[o] = session[o]
         /\ \A u \in Tokens : token[u].session # s
<1>1. \A u \in Tokens : token[u].session # s
  BY SentinelAssumption DEF LogsIn, IInv, LinkInv
<1>2. now \in Nat /\ now <= MaxTime /\ MaxTime \in Nat
  BY ClockAssumption DEF IInv, TypeOK, Times
<1>3. at \in Times /\ at <= now
  BY <1>2 DEF Times
<1> QED
  BY <1>1, <1>3 DEF LogsIn, IInv, TypeOK, Unissued

\* The first token of a session is its root and its tip.
LEMMA LoginKeepsIInv ==
  ASSUME IInv, Login
  PROVE  IInv'
<1>1. PICK s \in Sessions, t \in Tokens \ Issued, at \in 0 .. now : LogsIn(s, t, at)
  BY DEF Login, LogsIn
<1> DEFINE row == [session |-> s, expires |-> at + RefreshTtl,
                   consumedAt |-> Never, revoked |-> FALSE,
                   replacedBy |-> NoToken]
<1>2. /\ at \in Times /\ at <= now
      /\ token'[t] = row
      /\ \A u \in Tokens \ {t} : token'[u] = token[u]
      /\ session'[s] = [state |-> "LIVE", expires |-> at + RefreshTtl]
      /\ \A o \in Sessions \ {s} : session'[o] = session[o]
      /\ \A u \in Tokens : token[u].session # s
  BY <1>1, LoginFields
<1>3. /\ UNCHANGED <<now, txn>> /\ session[s].state = "ABSENT"
      /\ at + RefreshTtl \in Expiries /\ at + RefreshTtl <= now + RefreshTtl
      /\ now \in Times /\ now <= now
  BY <1>1, <1>2, TimeFacts, ClockAssumption DEF LogsIn, IInv, TypeOK
<1>4. token[t] = Unissued /\ token[t].session = NoSession
      /\ \A u \in Tokens : token[u].replacedBy # t
  BY UnissuedIsFree
<1>5. TypeOK'
  <2>1. row \in Token
    BY <1>3 DEF Token
  <2>2. [state |-> "LIVE", expires |-> at + RefreshTtl] \in Session
    BY <1>3 DEF Session
  <2> QED
    BY <1>1, <1>3, <2>1, <2>2 DEF IInv, TypeOK, LogsIn, Unissued
<1>6. Grows
  BY <1>2, <1>3, <1>4 DEF Grows, Issued
<1>7. \A o \in Sessions : o \in Live => o \in Live' /\ Family(o)' \subseteq Family(o)
  <2> SUFFICES ASSUME NEW o \in Sessions, o \in Live
               PROVE  o \in Live' /\ Family(o)' \subseteq Family(o)
    OBVIOUS
  <2>1. o # s
    BY <1>3 DEF Live
  <2> QED
    BY <1>2, <2>1 DEF Live, Family
<1>8. TxnInv'
  <2> SUFFICES ASSUME NEW r \in Requests
               PROVE  CarrierOK(txn[r])' /\ SweepOK(txn[r])'
    BY DEF TxnInv
  <2>1. CarrierOK(txn[r]) /\ SweepOK(txn[r]) /\ txn'[r] = txn[r]
    BY <1>3 DEF IInv, TxnInv
  <2>2. CarrierOK(txn[r])'
    <3>1. Carrying(txn[r]) =>
            /\ txn[r].token \in Issued /\ txn[r].token \in Issued'
            /\ token'[txn[r].token].expires = token[txn[r].token].expires
      BY <1>6, <2>1 DEF CarrierOK, Grows, Issued
    <3> QED
      BY <1>3, <2>1, <3>1 DEF CarrierOK, Carrying
  <2>3. SweepOK(txn[r])'
    <3>1. txn[r].their \subseteq Issued => txn[r].their \subseteq Issued'
      BY <1>6 DEF Grows, Issued
    <3>2. txn[r].rows \subseteq Live =>
            /\ txn[r].rows \subseteq Live'
            /\ \A o \in txn[r].rows : Family(o)' \subseteq Family(o)
      BY <1>7 DEF Live
    <3> QED
      BY <2>1, <3>1, <3>2 DEF SweepOK
  <2> QED
    BY <2>2, <2>3
<1>9. LockInv'
  BY <1>3 DEF IInv, LockInv
<1>10. LinkInv'
  <2>1. \A u \in Tokens : token'[u].replacedBy = token[u].replacedBy
    BY <1>2, <1>4 DEF Unissued
  <2>2. ASSUME NEW u \in Tokens
        PROVE  /\ token'[u].session = NoSession => token'[u] = Unissued
               /\ token'[u].session # NoSession =>
                    /\ session'[token'[u].session].state # "ABSENT"
                    /\ token'[u].expires <= now' + RefreshTtl
               /\ token'[u].consumedAt = Never <=> token'[u].replacedBy = NoToken
               /\ token'[u].replacedBy # NoToken =>
                    /\ token'[u].replacedBy # u
                    /\ token'[u].session # NoSession
                    /\ token'[token'[u].replacedBy].session = token'[u].session
    <3>1. CASE u = t
      BY <1>2, <1>3, <3>1, SentinelAssumption
    <3>2. CASE u # t
      <4>1. /\ token'[u] = token[u] /\ token[u].session # s
            /\ token[u].session \in Sessions \cup {NoSession}
            /\ token[u].replacedBy \in Tokens \cup {NoToken}
            /\ token[u].replacedBy # t
        BY <1>2, <1>4, <3>2 DEF IInv, TypeOK, Token
      <4> QED
        BY <1>2, <1>3, <4>1 DEF IInv, LinkInv
    <3> QED
      BY <3>1, <3>2
  <2> QED
    BY <2>1, <2>2 DEF IInv, LinkInv
<1>11. EndsInv'
  <2> SUFFICES ASSUME NEW o \in Sessions, session'[o].state # "ABSENT"
               PROVE  (\E u \in Tokens : IsTip(u, o)') /\ (\E u \in Tokens : IsRoot(u, o)')
    BY DEF EndsInv
  <2>1. CASE o = s
    <3>1. IsTip(t, s)'
      BY <1>2 DEF IsTip
    <3>2. NotReplacing(t)'
      BY <1>2, <1>4, SentinelAssumption DEF NotReplacing
    <3>3. IsRoot(t, s)'
      BY <1>2, <3>2 DEF IsRoot
    <3> QED
      BY <2>1, <3>1, <3>3
  <2>2. CASE o # s
    <3>1. session'[o] = session[o]
      BY <1>2, <2>2
    <3>2. PICK u \in Tokens : IsTip(u, o)
      BY <3>1 DEF IInv, EndsInv
    <3>3. PICK v \in Tokens : IsRoot(v, o)
      BY <3>1 DEF IInv, EndsInv
    <3>4. u # t /\ v # t
      BY <1>4, <3>2, <3>3, SentinelAssumption DEF IsTip, IsRoot
    <3>5. IsTip(u, o)'
      BY <1>2, <2>2, <3>1, <3>2, <3>4 DEF IsTip
    <3>6. \A w \in Tokens : token'[w].replacedBy = token[w].replacedBy
      BY <1>2, <1>4 DEF Unissued
    <3>7. IsRoot(v, o)'
      BY <1>2, <2>2, <3>3, <3>4, <3>6 DEF IsRoot, NotReplacing
    <3> QED
      BY <3>5, <3>7
  <2> QED
    BY <2>1, <2>2
<1>12. AbsentInv'
  BY <1>2 DEF IInv, AbsentInv
<1> QED
  BY <1>5, <1>8, <1>9, <1>10, <1>11, <1>12 DEF IInv

\* What request r writes when it exchanges token old of session s for new.
Exchanges(r, old, new, s, at) ==
  /\ txn[r].pc = "rotating" /\ txn[r].token = old /\ txn[r].at = at
  /\ token[old].session = s
  /\ Usable(s, at) /\ CanConsume(old, at) /\ ~Locked(s)
  /\ token' = [token EXCEPT
                 ![old] = [@ EXCEPT !.consumedAt = at, !.replacedBy = new],
                 ![new] = [Unissued EXCEPT !.session = s,
                             !.expires = RenewedUntil(s, at)]]
  /\ session' = [session EXCEPT ![s].expires = RenewedUntil(s, at)]
  /\ End(r) /\ UNCHANGED now

\* A rotation exchanges the token, or ends, or has lost.
LEMMA RotateCases ==
  ASSUME IInv, NEW r \in Requests, Rotate(r)
  PROVE  \/ \E old \in Issued, new \in Tokens \ Issued, s \in Sessions, at \in Times :
              Exchanges(r, old, new, s, at)
         \/ /\ End(r) \/ (Carrying(txn[r]) /\ Lose(r))
            /\ UNCHANGED <<session, token, now>>
<1> DEFINE old == txn[r].token
           s == token[old].session
           at == txn[r].at
<1>1. txn[r].pc = "rotating" /\ Carrying(txn[r])
  BY DEF Rotate, Carrying
<1>2. old \in Issued /\ s \in Sessions /\ at \in Times
  BY <1>1 DEF IInv, TxnInv, CarrierOK, TypeOK, Txn, Token, Issued
<1>3. CASE Usable(s, at) /\ CanConsume(old, at)
  <2>1. Exchange(old, s, at) /\ End(r) /\ ~Locked(s) /\ UNCHANGED now
    BY <1>3 DEF Rotate
  <2>2. PICK new \in Tokens \ Issued :
          /\ token' = [token EXCEPT
                         ![old] = [@ EXCEPT !.consumedAt = at, !.replacedBy = new],
                         ![new] = [Unissued EXCEPT !.session = s,
                                     !.expires = RenewedUntil(s, at)]]
          /\ session' = [session EXCEPT ![s].expires = RenewedUntil(s, at)]
    BY <2>1 DEF Exchange
  <2>3. Exchanges(r, old, new, s, at)
    BY <1>1, <1>3, <2>1, <2>2 DEF Exchanges
  <2> QED
    BY <1>2, <2>3
<1>4. CASE ~(Usable(s, at) /\ CanConsume(old, at))
  BY <1>1, <1>4 DEF Rotate
<1> QED
  BY <1>3, <1>4

\* The rows before and after, field by field.
Exchanged(old, new, s, at) ==
  /\ old # new /\ old \in Tokens
  /\ token[old].session = s /\ token[old].consumedAt = Never
  /\ token[old].replacedBy = NoToken
  /\ token[old].expires <= at + RefreshTtl
  /\ token'[old].session = s
  /\ token'[old].expires = token[old].expires
  /\ token'[old].consumedAt = at
  /\ token'[old].replacedBy = new
  /\ token'[new].session = s
  /\ token'[new].expires = at + RefreshTtl
  /\ token'[new].consumedAt = Never
  /\ token'[new].replacedBy = NoToken
  /\ \A u \in Tokens \ {old, new} : token'[u] = token[u]
  /\ session[s].state = "LIVE" /\ session'[s].state = "LIVE"
  /\ session'[s].expires = at + RefreshTtl
  /\ \A o \in Sessions \ {s} : session'[o] = session[o]
  /\ at <= now /\ now \in Nat

\* They follow from what the exchange writes.
LEMMA ExchangeFields ==
  ASSUME IInv, NEW r \in Requests, NEW old \in Issued, NEW new \in Tokens \ Issued,
         NEW s \in Sessions, NEW at \in Times, Exchanges(r, old, new, s, at)
  PROVE  /\ Exchanged(old, new, s, at)
         /\ session' \in [Sessions -> Session] /\ token' \in [Tokens -> Token]
<1>1. /\ old \in Tokens /\ new \in Tokens /\ old # new
      /\ token[old] \in Token /\ session[s] \in Session
  BY DEF Issued, IInv, TypeOK
<1>2. token[old].session = s /\ token[old].consumedAt = Never
      /\ session[s].state = "LIVE"
  BY DEF Exchanges, CanConsume, Usable
<1>3. token[old].replacedBy = NoToken
  BY <1>1, <1>2 DEF IInv, LinkInv
<1>4. at + RefreshTtl \in Expiries
  BY TimeFacts
<1>5. /\ token'[old] = [token[old] EXCEPT !.consumedAt = at, !.replacedBy = new]
      /\ token'[new] = [Unissued EXCEPT !.session = s, !.expires = at + RefreshTtl]
      /\ \A u \in Tokens \ {old, new} : token'[u] = token[u]
      /\ token' = [u \in Tokens |-> token'[u]]
  BY <1>1 DEF Exchanges, IInv, TypeOK, RenewedUntil
<1>6. /\ token'[old].session = s
      /\ token'[old].expires = token[old].expires
      /\ token'[old].consumedAt = at
      /\ token'[old].replacedBy = new
      /\ token'[old] \in Token
  BY <1>1, <1>2, <1>5 DEF Token
<1>7. /\ token'[new].session = s
      /\ token'[new].expires = at + RefreshTtl
      /\ token'[new].consumedAt = Never
      /\ token'[new].replacedBy = NoToken
      /\ token'[new] \in Token
  BY <1>4, <1>5 DEF Unissued, Token
<1>8. /\ session'[s] = [session[s] EXCEPT !.expires = at + RefreshTtl]
      /\ \A o \in Sessions \ {s} : session'[o] = session[o]
      /\ session' = [o \in Sessions |-> session'[o]]
  BY DEF Exchanges, IInv, TypeOK, RenewedUntil
<1>9. /\ session'[s].state = "LIVE" /\ session'[s].expires = at + RefreshTtl
      /\ session'[s] \in Session
  BY <1>1, <1>2, <1>4, <1>8 DEF Session
<1>10. token[old].expires <= at + RefreshTtl /\ at <= now
  BY DEF Exchanges, IInv, TxnInv, CarrierOK
<1>11. now \in Nat
  BY TimeFacts DEF IInv, TypeOK
<1>12. \A u \in Tokens : token'[u] \in Token
  BY <1>5, <1>6, <1>7 DEF IInv, TypeOK
<1>13. \A o \in Sessions : session'[o] \in Session
  BY <1>8, <1>9 DEF IInv, TypeOK
<1>14. token' \in [Tokens -> Token]
  BY <1>5, <1>12
<1>15. session' \in [Sessions -> Session]
  BY <1>8, <1>13
<1>16. Exchanged(old, new, s, at)
  BY <1>1, <1>2, <1>3, <1>5, <1>6, <1>7, <1>8, <1>9, <1>10, <1>11 DEF Exchanged
<1> QED
  BY <1>14, <1>15, <1>16

\* The new token takes the place of the old one at the end of the chain.
LEMMA ExchangeKeepsIInv ==
  ASSUME IInv, NEW r \in Requests, NEW old \in Issued, NEW new \in Tokens \ Issued,
         NEW s \in Sessions, NEW at \in Times, Exchanges(r, old, new, s, at)
  PROVE  IInv'
<1>1. /\ old # new /\ old \in Tokens
      /\ token[old].session = s /\ token[old].consumedAt = Never
      /\ token[old].replacedBy = NoToken
      /\ token'[old].session = s
      /\ token'[old].expires = token[old].expires
      /\ token'[old].consumedAt = at
      /\ token'[old].replacedBy = new
      /\ token'[new].session = s
      /\ token'[new].expires = at + RefreshTtl
      /\ token'[new].consumedAt = Never
      /\ token'[new].replacedBy = NoToken
      /\ \A u \in Tokens \ {old, new} : token'[u] = token[u]
  BY ExchangeFields DEF Exchanged
<1>2. /\ session[s].state = "LIVE" /\ session'[s].state = "LIVE"
      /\ session'[s].expires = at + RefreshTtl
      /\ \A o \in Sessions \ {s} : session'[o] = session[o]
      /\ at <= now /\ now \in Nat
  BY ExchangeFields DEF Exchanged
<1>3. /\ token[new] = Unissued /\ token[new].session = NoSession
      /\ \A u \in Tokens : token[u].replacedBy # new
  BY UnissuedIsFree
<1>4. /\ End(r) /\ UNCHANGED now /\ now \in Times /\ now <= now
      /\ at + RefreshTtl \in Expiries /\ at + RefreshTtl <= now + RefreshTtl
      /\ at # Never /\ ~Locked(s)
  BY <1>2, TimeFacts, ClockAssumption DEF Exchanges, IInv, TypeOK
<1>5. session' \in [Sessions -> Session] /\ token' \in [Tokens -> Token]
  BY ExchangeFields
<1>7. Grows
  BY <1>1, <1>3, <1>4 DEF Grows, Issued
<1>8. \A q \in Requests \ {r} : txn[q].pc = "locked" =>
        \A o \in txn[q].rows :
          o \in Live => o \in Live' /\ Family(o)' \subseteq Family(o)
  <2> SUFFICES ASSUME NEW o \in Sessions, o # s, o \in Live
               PROVE  o \in Live' /\ Family(o)' \subseteq Family(o)
    BY <1>4 DEF Locked, Live
  <2> QED
    BY <1>1, <1>2 DEF Live, Family
<1>9. TxnInv' /\ LockInv' /\ txn' \in [Requests -> Txn]
  BY <1>4, <1>7, <1>8, EndingKeepsTxnInv
<1>10. LinkInv'
  <2>1. ASSUME NEW u \in Tokens
        PROVE  /\ token'[u].session = NoSession => token'[u] = Unissued
               /\ token'[u].session # NoSession =>
                    /\ session'[token'[u].session].state # "ABSENT"
                    /\ token'[u].expires <= now' + RefreshTtl
               /\ token'[u].consumedAt = Never <=> token'[u].replacedBy = NoToken
               /\ token'[u].replacedBy # NoToken =>
                    /\ token'[u].replacedBy # u
                    /\ token'[u].session # NoSession
                    /\ token'[token'[u].replacedBy].session = token'[u].session
    <3>1. CASE u = new
      BY <1>1, <1>2, <1>4, <3>1, SentinelAssumption
    <3>2. CASE u = old
      BY <1>1, <1>2, <1>4, <3>2, SentinelAssumption DEF IInv, LinkInv
    <3>3. CASE u # old /\ u # new
      <4>1. /\ token'[u] = token[u]
            /\ token[u].session \in Sessions \cup {NoSession}
            /\ token[u].replacedBy \in Tokens \cup {NoToken}
            /\ token[u].replacedBy # new
        BY <1>1, <1>3, <3>3 DEF IInv, TypeOK, Token
      <4>2. \A v \in Tokens \ {new} : token'[v].session = token[v].session
        BY <1>1
      <4>3. token[u].session # NoSession => session'[token[u].session].state # "ABSENT"
        BY <1>2, <4>1 DEF IInv, LinkInv
      <4> QED
        BY <1>4, <4>1, <4>2, <4>3 DEF IInv, LinkInv
    <3> QED
      BY <3>1, <3>2, <3>3
  <2>2. ASSUME NEW u \in Tokens, NEW v \in Tokens,
               token'[u].replacedBy = token'[v].replacedBy,
               token'[u].replacedBy # NoToken
        PROVE  u = v
    <3>1. \A w \in Tokens : token'[w].replacedBy = new <=> w = old
      BY <1>1, <1>3, SentinelAssumption
    <3>2. CASE u = old \/ v = old
      BY <1>1, <2>2, <3>1, <3>2
    <3>3. CASE u # old /\ v # old
      <4>1. token'[u].replacedBy = token[u].replacedBy
            /\ token'[v].replacedBy = token[v].replacedBy
        BY <1>1, <1>3, <3>3 DEF Unissued
      <4> QED
        BY <2>2, <4>1 DEF IInv, LinkInv
    <3> QED
      BY <3>2, <3>3
  <2> QED
    BY <2>1, <2>2 DEF LinkInv
<1>11. EndsInv'
  <2> SUFFICES ASSUME NEW o \in Sessions, session'[o].state # "ABSENT"
               PROVE  (\E u \in Tokens : IsTip(u, o)') /\ (\E u \in Tokens : IsRoot(u, o)')
    BY DEF EndsInv
  <2>1. session[o].state # "ABSENT"
    BY <1>2
  <2>2. PICK u \in Tokens : IsTip(u, o)
    BY <2>1 DEF IInv, EndsInv
  <2>3. PICK v \in Tokens : IsRoot(v, o)
    BY <2>1 DEF IInv, EndsInv
  <2>4. v # new
    BY <1>3, <2>3, SentinelAssumption DEF IsRoot
  <2>5. \A w \in Tokens : NotReplacing(w)' <=> NotReplacing(w) /\ w # new
    <3>1. \A w \in Tokens : w # old => token'[w].replacedBy = token[w].replacedBy
      BY <1>1, <1>3 DEF Unissued
    <3> QED
      BY <1>1, <3>1, SentinelAssumption DEF NotReplacing
  <2>6. \A w \in Tokens \ {new} : token'[w].session = token[w].session
    BY <1>1
  <2>7. IsRoot(v, o)'
    BY <2>3, <2>4, <2>5, <2>6 DEF IsRoot
  <2>8. CASE o = s
    <3>1. \A w \in Tokens : token[w].session = s /\ token[w].consumedAt = Never => w = old
      BY <1>1, <2>2, <2>8 DEF IsTip
    <3>2. \A w \in Tokens : token'[w].session = s /\ token'[w].consumedAt = Never => w = new
      BY <1>1, <1>4, <3>1
    <3>3. IsTip(new, s)'
      BY <1>1, <1>2, <3>2 DEF IsTip
    <3> QED
      BY <2>7, <2>8, <3>3
  <2>9. CASE o # s
    <3>1. u # old /\ u # new /\ session'[o] = session[o]
      BY <1>1, <1>2, <1>3, <2>2, <2>9, SentinelAssumption DEF IsTip
    <3>2. \A w \in Tokens : token'[w].session = o => w # old /\ w # new
      BY <1>1, <2>9
    <3>3. IsTip(u, o)'
      BY <1>1, <2>2, <3>1, <3>2 DEF IsTip
    <3> QED
      BY <2>7, <3>3
  <2> QED
    BY <2>8, <2>9
<1>12. AbsentInv'
  BY <1>2 DEF IInv, AbsentInv
<1> QED
  BY <1>4, <1>5, <1>9, <1>10, <1>11, <1>12 DEF IInv, TypeOK

\* A rotation keeps the invariant, whether it wins, loses or fails.
LEMMA RotateKeepsIInv ==
  ASSUME IInv, NEW r \in Requests, Rotate(r)
  PROVE  IInv'
<1>1. CASE \E old \in Issued, new \in Tokens \ Issued, s \in Sessions, at \in Times :
             Exchanges(r, old, new, s, at)
  BY <1>1, ExchangeKeepsIInv
<1>2. CASE UNCHANGED <<session, token, now>> /\ End(r)
  BY <1>2, EndingKeepsIInv
<1>3. CASE UNCHANGED <<session, token, now>> /\ Carrying(txn[r]) /\ Lose(r)
  BY <1>3, GoingOnKeepsIInv
<1> QED
  BY <1>1, <1>2, <1>3, RotateCases

-----------------------------------------------------------------------------
(* The invariant and what follows from it.                                 *)

\* Every step keeps the invariant.
LEMMA NextKeepsIInv == IInv /\ [Next]_vars => IInv'
<1> SUFFICES ASSUME IInv, [Next]_vars PROVE IInv'
  OBVIOUS
<1>1. CASE Tick
  BY <1>1, TickKeepsIInv
<1>2. CASE Login
  BY <1>2, LoginKeepsIInv
<1>3. ASSUME NEW r \in Requests, ArriveRefresh(r) \/ ArriveLogout(r)
      PROVE  IInv'
  BY <1>3, ArrivingKeepsIInv
<1>4. ASSUME NEW r \in Requests, BeginSweep(r)
      PROVE  IInv'
  BY <1>4, BeginSweepKeepsIInv
<1>5. ASSUME NEW r \in Requests, Step(r)
      PROVE  IInv'
  BY <1>5, ReadingKeepsIInv, RotateKeepsIInv, RevokeSessionKeepsIInv,
     LockRowsKeepsIInv, FinishSweepKeepsIInv DEF Step
<1>6. ASSUME NEW r \in Requests, Rollback(r)
      PROVE  IInv'
  BY <1>6, EndingKeepsIInv DEF Rollback
<1>7. CASE UNCHANGED vars
  BY <1>7 DEF vars, IInv, TypeOK, TxnInv, CarrierOK, SweepOK, Carrying, LockInv,
              LinkInv, EndsInv, IsTip, IsRoot, NotReplacing, AbsentInv, Issued,
              Live, Family
<1> QED
  BY <1>1, <1>2, <1>3, <1>4, <1>5, <1>6, <1>7 DEF Next

\* The invariant holds in every reachable state.
THEOREM Invariance == Spec => []IInv
BY InitIInv, NextKeepsIInv, PTL DEF Spec

\* Every column keeps its type, whatever the TTL, the grace window and the
\* number of requests, sessions and tokens.
THEOREM TypeCorrect == Spec => []TypeOK
<1>1. IInv => TypeOK
  BY DEF IInv
<1> QED
  BY <1>1, Invariance, PTL

-----------------------------------------------------------------------------
(* What closes a session.                                                  *)

\* Every step closes sessions, hands out a token, or leaves the rows alone.
LEMMA StepKinds ==
  ASSUME IInv, [Next]_vars
  PROVE  \/ UNCHANGED <<session, token>>
         \/ \E r \in Requests : RevokeSession(r) \/ FinishSweep(r)
         \/ \E s \in Sessions, t \in Tokens \ Issued, at \in 0 .. now : LogsIn(s, t, at)
         \/ \E r \in Requests, old \in Issued, new \in Tokens \ Issued,
               s \in Sessions, at \in Times : Exchanges(r, old, new, s, at)
<1>1. CASE Login
  BY <1>1 DEF Login, LogsIn
<1>2. ASSUME NEW r \in Requests, Rotate(r)
      PROVE  \/ UNCHANGED <<session, token>>
             \/ \E old \in Issued, new \in Tokens \ Issued, s \in Sessions, at \in Times :
                  Exchanges(r, old, new, s, at)
  BY <1>2, RotateCases
<1>3. CASE Tick \/ UNCHANGED vars
  BY <1>3 DEF Tick, vars
<1>4. ASSUME NEW r \in Requests,
             \/ ArriveRefresh(r) \/ ArriveLogout(r) \/ BeginSweep(r)
             \/ ReadToken(r) \/ ReadAgain(r) \/ LockRows(r) \/ Rollback(r)
      PROVE  UNCHANGED <<session, token>>
  BY <1>4 DEF ArriveRefresh, ArriveLogout, BeginSweep, ReadToken, ReadAgain,
              LockRows, Rollback
<1> QED
  BY <1>1, <1>2, <1>3, <1>4 DEF Next, Step

\* A step that closes s reaches its tokens.
LEMMA ClosingReaches ==
  ASSUME IInv, [Next]_vars, NEW s \in Live \ Live'
  PROVE  ClosedWithFamily(s)
<1>1. s \in Sessions /\ session[s].state = "LIVE" /\ session'[s].state # "LIVE"
  BY DEF Live
<1>2. ASSUME NEW r \in Requests, RevokeSession(r)
      PROVE  ClosedWithFamily(s)
  <2>1. s = token[txn[r].token].session
    BY <1>1, <1>2 DEF RevokeSession, IInv, TypeOK
  <2>2. \A t \in Tokens : token'[t].session = token[t].session
    BY <1>2, RevokeSessionKeepsIInv, ClosingFields DEF IInv
  <2>3. \A t \in Family(s) : token'[t].revoked
    BY <1>2, <2>1 DEF RevokeSession, Family, IInv, TypeOK, Token
  <2> QED
    BY <2>2, <2>3 DEF ClosedWithFamily, Family
<1>3. ASSUME NEW r \in Requests, FinishSweep(r)
      PROVE  ClosedWithFamily(s)
  <2>1. txn[r].pc = "locked" /\ s \in txn[r].rows
    BY <1>1, <1>3 DEF FinishSweep
  <2>2. CASE txn[r].op = "reset-password"
    BY <2>1, <2>2 DEF ClosedWithFamily
  <2>3. CASE txn[r].op # "reset-password"
    <3>1. Family(s) \subseteq txn[r].their
      BY <2>1, <2>3 DEF IInv, TxnInv, SweepOK
    <3>2. \A t \in Tokens : token'[t].session = token[t].session
      BY <1>3, FinishSweepKeepsIInv, ClosingFields DEF IInv
    <3>3. \A t \in Family(s) : token'[t].revoked
      BY <1>3, <3>1 DEF FinishSweep, Family, IInv, TypeOK, Token
    <3> QED
      BY <3>2, <3>3 DEF ClosedWithFamily, Family
  <2> QED
    BY <2>2, <2>3
<1>4. ASSUME NEW o \in Sessions, NEW t \in Tokens \ Issued, NEW at \in 0 .. now,
             LogsIn(o, t, at)
      PROVE  FALSE
  BY <1>1, <1>4 DEF LogsIn, IInv, TypeOK
<1>5. ASSUME NEW r \in Requests, NEW old \in Issued, NEW new \in Tokens \ Issued,
             NEW o \in Sessions, NEW at \in Times, Exchanges(r, old, new, o, at)
      PROVE  FALSE
  BY <1>1, <1>5, ExchangeFields DEF Exchanged
<1>6. CASE UNCHANGED <<session, token>>
  BY <1>1, <1>6
<1> QED
  BY <1>2, <1>3, <1>4, <1>5, <1>6, StepKinds

\* Logging out, reuse of a token and changing the password leave no live token
\* behind in the sessions they close, however they race with rotations.
THEOREM ClosingIsComplete == Spec => ClosingReachesEveryToken
<1>1. IInv /\ [Next]_vars => [\A s \in Live \ Live' : ClosedWithFamily(s)]_vars
  BY ClosingReaches
<1> QED
  BY <1>1, Invariance, PTL DEF Spec, ClosingReachesEveryToken

-----------------------------------------------------------------------------
(* The abstract register.                                                  *)

\* What the register sees of a state.
Stat == [s \in Sessions |-> StatusOf(s)]
Cred == [s \in Sessions |-> Tip(s)]
Ends == [s \in Sessions |-> session[s].expires]

\* The credential of a session is its tip.
LEMMA TipIs ==
  ASSUME IInv, NEW s \in Sessions, session[s].state # "ABSENT",
         NEW t \in Tokens, token[t].session = s, token[t].consumedAt = Never
  PROVE  Tip(s) = t /\ token[t].expires = session[s].expires
<1>1. PICK u \in Tokens : IsTip(u, s)
  BY DEF IInv, EndsInv
<1>2. u = t
  BY <1>1 DEF IsTip
<1>3. \A v \in Family(s) : token[v].consumedAt = Never => v = t
  BY <1>1, <1>2 DEF IsTip, Family
<1>4. t \in Family(s)
  BY DEF Family
<1>5. Tip(s) = t
  BY <1>3, <1>4 DEF Tip
<1> QED
  BY <1>1, <1>2, <1>5 DEF IsTip

\* The same in the state that follows.
LEMMA TipWillBe ==
  ASSUME IInv', NEW s \in Sessions, session'[s].state # "ABSENT",
         NEW t \in Tokens, token'[t].session = s, token'[t].consumedAt = Never
  PROVE  Tip(s)' = t
<1>1. PICK u \in Tokens : IsTip(u, s)'
  BY DEF IInv, EndsInv
<1>2. \A v \in Family(s)' : token'[v].consumedAt = Never => v = t
  BY <1>1 DEF IsTip, Family
<1>3. t \in Family(s)'
  BY DEF Family
<1> QED
  BY <1>2, <1>3 DEF Tip

\* A session of which no token and not its row has changed keeps its tip.
LEMMA TipStays ==
  ASSUME IInv, IInv', NEW s \in Sessions,
         session'[s].state = "ABSENT" <=> session[s].state = "ABSENT",
         \A t \in Tokens : token[t].session = s =>
           token'[t].session = s /\ token'[t].consumedAt = token[t].consumedAt
  PROVE  Tip(s)' = Tip(s)
<1>1. CASE session[s].state = "ABSENT"
  BY <1>1 DEF Tip
<1>2. CASE session[s].state # "ABSENT"
  <2>1. PICK t \in Tokens : IsTip(t, s)
    BY <1>2 DEF IInv, EndsInv
  <2>2. Tip(s) = t
    BY <1>2, <2>1, TipIs DEF IsTip
  <2>3. Tip(s)' = t
    BY <1>2, <2>1, TipWillBe DEF IsTip
  <2> QED
    BY <2>2, <2>3
<1> QED
  BY <1>1, <1>2

\* The rows of Init are a register without sessions.
LEMMA RegisterStarts == Init => Register!RegisterInit
BY DEF Init, Register!RegisterInit, StatusOf, Tip, Issued, Unissued

\* Closing sessions is one move of the register.
LEMMA ClosingIsClose ==
  ASSUME IInv, IInv', OnlyCloses
  PROVE  Register!RegisterNext
<1> DEFINE S == {s \in Sessions : session[s].state = "LIVE"
                                  /\ session'[s].state # "LIVE"}
<1>1. Issued' = Issued
  BY ClosingFields DEF Issued, IInv
<1>2. Ends' = Ends
  BY ClosingFields DEF Ends, IInv
<1>3. Cred' = Cred
  <2>1. \A s \in Sessions : Tip(s)' = Tip(s)
    BY ClosingFields, TipStays DEF IInv
  <2> QED
    BY <2>1 DEF Cred
<1>4. \A s \in Sessions : StatusOf(s)' = IF s \in S THEN "CLOSED" ELSE StatusOf(s)
  <2> SUFFICES ASSUME NEW s \in Sessions
               PROVE  StatusOf(s)' = IF s \in S THEN "CLOSED" ELSE StatusOf(s)
    OBVIOUS
  <2>1. session[s] \in Session
    BY DEF IInv, TypeOK
  <2>2. CASE session'[s] = session[s]
    BY <2>2 DEF StatusOf
  <2>3. CASE /\ session[s].state # "ABSENT"
             /\ session'[s] = [session[s] EXCEPT !.state = "REVOKED"]
    <3>1. session'[s].state = "REVOKED"
      BY <2>1, <2>3 DEF Session
    <3>2. session[s].state \in {"LIVE", "REVOKED"}
      BY <2>1, <2>3 DEF Session
    <3> QED
      BY <3>1, <3>2 DEF StatusOf
  <2> QED
    BY <2>2, <2>3 DEF OnlyCloses
<1>5. Stat' = [s \in Sessions |-> IF s \in S THEN "CLOSED" ELSE Stat[s]]
  BY <1>4 DEF Stat
<1>6. \A s \in S : Stat[s] = "OPEN"
  BY DEF Stat, StatusOf
<1>7. Register!Close(S)
  BY <1>1, <1>2, <1>3, <1>5, <1>6 DEF Register!Close, Stat, Cred, Ends
<1> QED
  BY <1>7 DEF Register!RegisterNext

\* Handing out a token grants it to one session.
LEMMA Granting ==
  ASSUME IInv, IInv', NEW s \in Sessions, NEW new \in Tokens \ Issued,
         session'[s].state # "ABSENT",
         token'[new].session = s, token'[new].consumedAt = Never,
         \A u \in Tokens \ {new} :
           /\ token'[u].session = token[u].session
           /\ token[u].session # s => token'[u].consumedAt = token[u].consumedAt,
         \A o \in Sessions \ {s} : session'[o] = session[o],
         session'[s].expires >= session[s].expires
  PROVE  Register!Grant(s, new)
<1>1. Tip(s)' = new
  BY TipWillBe
<1>2. \A o \in Sessions \ {s} : Tip(o)' = Tip(o)
  <2> SUFFICES ASSUME NEW o \in Sessions, o # s
               PROVE  Tip(o)' = Tip(o)
    OBVIOUS
  <2>1. \A t \in Tokens : token[t].session = o =>
          token'[t].session = o /\ token'[t].consumedAt = token[t].consumedAt
    BY UnissuedIsFree, SentinelAssumption
  <2> QED
    BY <2>1, TipStays
<1>3. Cred' = [Cred EXCEPT ![s] = new]
  BY <1>1, <1>2 DEF Cred
<1>4. Issued' = Issued \cup {new}
  BY SentinelAssumption DEF Issued
<1>5. /\ Ends'[s] >= Ends[s]
      /\ \A o \in Sessions \ {s} : Ends'[o] = Ends[o]
  BY DEF Ends
<1> QED
  BY <1>3, <1>4, <1>5 DEF Register!Grant, Cred, Ends

\* A login opens a session.
LEMMA LoginOpens ==
  ASSUME IInv, IInv', NEW s \in Sessions, NEW t \in Tokens \ Issued,
         NEW at \in 0 .. now, LogsIn(s, t, at)
  PROVE  Register!RegisterNext
<1> DEFINE row == [session |-> s, expires |-> at + RefreshTtl,
                   consumedAt |-> Never, revoked |-> FALSE,
                   replacedBy |-> NoToken]
<1>1. /\ at \in Times
      /\ token'[t] = row
      /\ \A u \in Tokens \ {t} : token'[u] = token[u]
      /\ session'[s] = [state |-> "LIVE", expires |-> at + RefreshTtl]
      /\ \A o \in Sessions \ {s} : session'[o] = session[o]
  BY LoginFields
<1>2. session'[s].expires >= session[s].expires /\ session[s].state = "ABSENT"
  BY <1>1, TimeFacts, ClockAssumption DEF LogsIn, IInv, AbsentInv
<1>3. Register!Grant(s, t)
  BY <1>1, <1>2, Granting
<1>4. Stat[s] = "NONE" /\ Stat' = [Stat EXCEPT ![s] = "OPEN"]
  <2>1. session'[s].state = "LIVE"
    BY <1>1
  <2> QED
    BY <1>1, <1>2, <2>1 DEF Stat, StatusOf
<1>5. Register!Open(s)
  BY <1>3, <1>4 DEF Register!Open, Stat
<1> QED
  BY <1>5 DEF Register!RegisterNext

\* A rotation renews a session, and not to an earlier end.
LEMMA ExchangeRenews ==
  ASSUME IInv, IInv', NEW r \in Requests, NEW old \in Issued,
         NEW new \in Tokens \ Issued, NEW s \in Sessions, NEW at \in Times,
         Exchanges(r, old, new, s, at)
  PROVE  Register!RegisterNext
<1>1. Exchanged(old, new, s, at)
  BY ExchangeFields
<1>2. session[s].expires = token[old].expires
  BY <1>1, TipIs DEF Exchanged
<1>3. session'[s].expires >= session[s].expires
  BY <1>1, <1>2 DEF Exchanged
<1>4. \A u \in Tokens \ {new} :
        /\ token'[u].session = token[u].session
        /\ token[u].session # s => token'[u].consumedAt = token[u].consumedAt
  BY <1>1 DEF Exchanged
<1>5. Register!Grant(s, new)
  BY <1>1, <1>3, <1>4, Granting DEF Exchanged
<1>6. Stat[s] = "OPEN" /\ Stat' = Stat
  BY <1>1 DEF Exchanged, Stat, StatusOf
<1>7. Register!Renew(s)
  BY <1>5, <1>6 DEF Register!Renew, Stat
<1> QED
  BY <1>7 DEF Register!RegisterNext

\* Every step is a move of the register or invisible to it.
LEMMA StepsImplementRegister ==
  IInv /\ IInv' /\ [Next]_vars
    => Register!RegisterNext \/ UNCHANGED Register!registerVars
<1> SUFFICES ASSUME IInv, IInv', [Next]_vars
             PROVE  Register!RegisterNext \/ UNCHANGED Register!registerVars
  OBVIOUS
<1>1. CASE UNCHANGED <<session, token>>
  <2>1. Stat' = Stat /\ Cred' = Cred /\ Ends' = Ends /\ Issued' = Issued
    BY <1>1 DEF Stat, Cred, Ends, Issued, StatusOf, Tip, Family
  <2> QED
    BY <2>1 DEF Register!registerVars, Stat, Cred, Ends
<1> QED
  BY <1>1, StepKinds, RevokeSessionKeepsIInv, FinishSweepKeepsIInv,
     ClosingIsClose, LoginOpens, ExchangeRenews

\* Whatever requests interleave or fail, a session opens once, is renewed by its
\* one credential, and when it is closed no request under way brings it back.
THEOREM RegisterImplemented == Spec => ImplementsRegister
BY RegisterStarts, StepsImplementRegister, Invariance, PTL
DEF Spec, ImplementsRegister, Register!RegisterSpec

-----------------------------------------------------------------------------
(* Chains: a second invariant, inductive relative to IInv.                 *)

\* T has the unconsumed token of s and, with a token, the one it replaced.
FollowsBack(T, s) ==
  \A t \in Tokens :
    token[t].session = s /\ (token[t].consumedAt = Never \/ token[t].replacedBy \in T)
      => t \in T

\* Going back from the unconsumed token one meets the whole family.
ReachInv ==
  \A s \in Sessions : \A T \in SUBSET Tokens :
    FollowsBack(T, s) => \A t \in Tokens : token[t].session = s => t \in T

\* Where no token of s has changed its links, nothing has.
LEMMA LinksStayReach ==
  ASSUME ReachInv, NEW s \in Sessions,
         \A t \in Tokens : token'[t].session = s <=> token[t].session = s,
         \A t \in Tokens : token[t].session = s =>
           /\ token'[t].consumedAt = token[t].consumedAt
           /\ token'[t].replacedBy = token[t].replacedBy,
         NEW T \in SUBSET Tokens,
         \A t \in Tokens :
           token'[t].session = s
             /\ (token'[t].consumedAt = Never \/ token'[t].replacedBy \in T)
             => t \in T
  PROVE  \A t \in Tokens : token'[t].session = s => t \in T
<1>1. FollowsBack(T, s)
  BY DEF FollowsBack
<1> QED
  BY <1>1 DEF ReachInv

\* A step that only closes sessions leaves every family as it is.
LEMMA ClosingKeepsReach ==
  ASSUME IInv, OnlyCloses, ReachInv
  PROVE  ReachInv'
<1> SUFFICES ASSUME NEW s \in Sessions, NEW T \in SUBSET Tokens,
                    \A t \in Tokens :
                      token'[t].session = s
                        /\ (token'[t].consumedAt = Never \/ token'[t].replacedBy \in T)
                        => t \in T
             PROVE  \A t \in Tokens : token'[t].session = s => t \in T
  BY DEF ReachInv, FollowsBack
<1>1. TypeOK
  BY DEF IInv
<1> QED
  BY <1>1, ClosingFields, LinksStayReach

\* A login begins a family of one.
LEMMA LoginKeepsReach ==
  ASSUME IInv, ReachInv, NEW o \in Sessions, NEW new \in Tokens \ Issued,
         NEW at \in 0 .. now, LogsIn(o, new, at)
  PROVE  ReachInv'
<1> SUFFICES ASSUME NEW s \in Sessions, NEW T \in SUBSET Tokens,
                    \A t \in Tokens :
                      token'[t].session = s
                        /\ (token'[t].consumedAt = Never \/ token'[t].replacedBy \in T)
                        => t \in T
             PROVE  \A t \in Tokens : token'[t].session = s => t \in T
  BY DEF ReachInv, FollowsBack
<1>1. /\ token'[new].session = o /\ token'[new].consumedAt = Never
      /\ \A u \in Tokens \ {new} : token'[u] = token[u]
      /\ \A u \in Tokens : token[u].session # o
  <2>1. /\ token'[new] = [session |-> o, expires |-> at + RefreshTtl,
                          consumedAt |-> Never, revoked |-> FALSE,
                          replacedBy |-> NoToken]
        /\ \A u \in Tokens \ {new} : token'[u] = token[u]
        /\ \A u \in Tokens : token[u].session # o
    BY LoginFields, Zenon
  <2> QED
    BY <2>1
<1>2. token[new].session = NoSession
  BY UnissuedIsFree
<1>3. CASE s = o
  BY <1>1, <1>3
<1>4. CASE s # o
  <2>1. \A t \in Tokens : token'[t].session = s <=> token[t].session = s
    BY <1>1, <1>2, <1>4, SentinelAssumption
  <2>2. \A t \in Tokens : token[t].session = s =>
          /\ token'[t].consumedAt = token[t].consumedAt
          /\ token'[t].replacedBy = token[t].replacedBy
    BY <1>1, <1>2, <1>4, SentinelAssumption
  <2> QED
    BY <2>1, <2>2, LinksStayReach
<1> QED
  BY <1>3, <1>4

\* An exchange puts a token in front of the whole chain.
LEMMA ExchangeKeepsReach ==
  ASSUME IInv, ReachInv, NEW r \in Requests, NEW old \in Issued,
         NEW new \in Tokens \ Issued, NEW o \in Sessions, NEW at \in Times,
         Exchanges(r, old, new, o, at)
  PROVE  ReachInv'
<1> SUFFICES ASSUME NEW s \in Sessions, NEW T \in SUBSET Tokens,
                    \A t \in Tokens :
                      token'[t].session = s
                        /\ (token'[t].consumedAt = Never \/ token'[t].replacedBy \in T)
                        => t \in T
             PROVE  \A t \in Tokens : token'[t].session = s => t \in T
  BY DEF ReachInv, FollowsBack
<1>1. Exchanged(old, new, o, at)
  BY ExchangeFields
<1>2. token[new].session = NoSession /\ new \in Tokens
  BY UnissuedIsFree
<1>3. CASE s = o
  <2>1. new \in T /\ old \in T
    BY <1>1, <1>2, <1>3 DEF Exchanged
  <2>2. FollowsBack(T, s)
    BY <1>1, <1>2, <1>3, <2>1, SentinelAssumption DEF Exchanged, FollowsBack
  <2>3. \A t \in Tokens : token[t].session = s => t \in T
    BY <2>2 DEF ReachInv
  <2> QED
    BY <1>1, <2>1, <2>3 DEF Exchanged
<1>4. CASE s # o
  <2>1. \A t \in Tokens : token'[t].session = s <=> token[t].session = s
    BY <1>1, <1>2, <1>4, SentinelAssumption DEF Exchanged
  <2>2. \A t \in Tokens : token[t].session = s =>
          /\ token'[t].consumedAt = token[t].consumedAt
          /\ token'[t].replacedBy = token[t].replacedBy
    BY <1>1, <1>2, <1>4, SentinelAssumption DEF Exchanged
  <2> QED
    BY <2>1, <2>2, LinksStayReach
<1> QED
  BY <1>3, <1>4

\* However requests interleave, no part of a family comes off its chain.
LEMMA NextKeepsReach ==
  ASSUME IInv, ReachInv, [Next]_vars
  PROVE  ReachInv'
<1>1. CASE UNCHANGED <<session, token>>
  BY <1>1 DEF ReachInv, FollowsBack
<1> QED
  BY <1>1, StepKinds, RevokeSessionKeepsIInv, FinishSweepKeepsIInv,
     ClosingKeepsReach, LoginKeepsReach, ExchangeKeepsReach

LEMMA ReachInvariance == Spec => []ReachInv
<1>1. Init => ReachInv
  BY SentinelAssumption DEF Init, ReachInv, Unissued
<1> QED
  BY <1>1, NextKeepsReach, Invariance, PTL DEF Spec

\* A family with links and ends in order is a chain.
LEMMA FamiliesAreInOrder == IInv /\ ReachInv => FamilyIsAChain
<1> SUFFICES ASSUME IInv, ReachInv, NEW s \in Sessions, session[s].state # "ABSENT"
             PROVE
    LET replaced(t) == {u \in Tokens : token[u].replacedBy = t}
        tips == {t \in Family(s) : token[t].consumedAt = Never}
        roots == {t \in Family(s) : replaced(t) = {}}
    IN
    /\ \E t \in Tokens : tips = {t} /\ token[t].expires = session[s].expires
    /\ \E t \in Tokens : roots = {t}
    /\ \A t \in Family(s) \ roots :
         \E u \in Family(s) : replaced(t) = {u} /\ token[u].consumedAt # Never
    /\ \A t \in Family(s) \ tips :
         \E u \in Family(s) : token[t].replacedBy = u /\ u # t
    /\ \A T \in SUBSET Family(s) :
         tips \subseteq T /\ (\A t \in Family(s) : token[t].replacedBy \in T => t \in T)
           => T = Family(s)
  BY DEF FamilyIsAChain
<1> DEFINE replaced(t) == {u \in Tokens : token[u].replacedBy = t}
           tips == {t \in Family(s) : token[t].consumedAt = Never}
           roots == {t \in Family(s) : replaced(t) = {}}
<1>1. \E t \in Tokens : tips = {t} /\ token[t].expires = session[s].expires
  <2>1. PICK t \in Tokens : IsTip(t, s)
    BY DEF IInv, EndsInv
  <2>2. tips = {t}
    BY <2>1 DEF IsTip, Family
  <2> QED
    BY <2>1, <2>2 DEF IsTip
<1>2. \E t \in Tokens : roots = {t}
  <2>1. PICK t \in Tokens : IsRoot(t, s)
    BY DEF IInv, EndsInv
  <2>2. \A u \in Tokens : replaced(u) = {} <=> NotReplacing(u)
    BY DEF NotReplacing
  <2>3. roots = {t}
    BY <2>1, <2>2 DEF IsRoot, Family
  <2> QED
    BY <2>3
<1>3. ASSUME NEW t \in Family(s) \ roots
      PROVE  \E u \in Family(s) : replaced(t) = {u} /\ token[u].consumedAt # Never
  <2>1. t \in Tokens /\ token[t].session = s /\ t # NoToken
    BY SentinelAssumption DEF Family
  <2>2. PICK u \in Tokens : token[u].replacedBy = t
    OBVIOUS
  <2>3. /\ token[u].session = s /\ token[u].consumedAt # Never
        /\ \A v \in Tokens : token[v].replacedBy = t => v = u
    BY <2>1, <2>2 DEF IInv, LinkInv
  <2> QED
    BY <2>2, <2>3 DEF Family
<1>4. ASSUME NEW t \in Family(s) \ tips
      PROVE  \E u \in Family(s) : token[t].replacedBy = u /\ u # t
  <2>1. t \in Tokens /\ token[t].session = s /\ token[t].consumedAt # Never
    BY DEF Family
  <2>2. token[t].replacedBy \in Tokens
    BY <2>1 DEF IInv, LinkInv, TypeOK, Token
  <2>3. token[t].replacedBy # t /\ token[token[t].replacedBy].session = s
    BY <2>1, <2>2, SentinelAssumption DEF IInv, LinkInv
  <2> QED
    BY <2>2, <2>3 DEF Family
<1>5. ASSUME NEW T \in SUBSET Family(s), tips \subseteq T,
             \A t \in Family(s) : token[t].replacedBy \in T => t \in T
      PROVE  T = Family(s)
  <2>1. T \in SUBSET Tokens /\ FollowsBack(T, s)
    BY <1>5 DEF Family, FollowsBack
  <2>2. Family(s) \subseteq T
    BY <2>1 DEF ReachInv, Family
  <2> QED
    BY <2>2
<1> QED
  BY <1>1, <1>2, <1>3, <1>4, <1>5

\* However rotations, logouts and sweeps interleave, a family is one chain with
\* one token to renew the session with.
THEOREM FamiliesAreChains == Spec => []FamilyIsAChain
BY FamiliesAreInOrder, Invariance, ReachInvariance, PTL

-----------------------------------------------------------------------------
(* The grace window: another invariant, inductive relative to IInv.       *)

\* Whoever has nothing to do asks for nothing, and nobody has read a clock that
\* is ahead.
ClockInv ==
  \A r \in Requests :
    /\ txn[r].at <= now
    /\ txn[r].pc = "idle" => txn[r].op = "none"

\* A token that replaces another lives for the TTL from the exchange.
ReplacementInv ==
  \A t \in Tokens : token[t].consumedAt # Never =>
    token[token[t].replacedBy].expires = token[t].consumedAt + RefreshTtl

WindowInv == ClockInv /\ ReplacementInv

\* One request moves on, with a clock read now or before.
LEMMA OneClock ==
  ASSUME TypeOK, ClockInv, NEW r \in Requests, NEW x,
         txn' = [txn EXCEPT ![r] = x], UNCHANGED now,
         x.at \in {0, now, txn[r].at},
         x.pc = "idle" => x.op = "none"
  PROVE  ClockInv'
<1>1. now \in Nat
  BY TimeFacts DEF TypeOK
<1>2. \A q \in Requests : txn'[q] = IF q = r THEN x ELSE txn[q]
  BY DEF TypeOK
<1> QED
  BY <1>1, <1>2 DEF ClockInv

\* A request that arrives takes an idle slot, and reads no clock but the present.
LEMMA ArrivalEffect ==
  ASSUME NEW r \in Requests, ArriveRefresh(r) \/ ArriveLogout(r)
  PROVE  /\ txn[r].pc = "idle" /\ UNCHANGED now
         /\ \E x : /\ txn' = [txn EXCEPT ![r] = x]
                  /\ x.at \in {0, now} /\ x.pc # "idle"
<1>1. PICK t \in Issued, pc \in {"arrived", "revoking"}, op \in {"refresh", "logout"} :
        txn' = [txn EXCEPT ![r] =
                  [Idle EXCEPT !.pc = pc, !.op = op, !.at = now, !.token = t]]
  BY DEF ArriveRefresh, ArriveLogout
<1>2. PICK x : x = [Idle EXCEPT !.pc = pc, !.op = op, !.at = now, !.token = t]
  OBVIOUS
<1>3. x.at = now /\ x.pc = pc
  BY <1>2 DEF Idle
<1>4. txn[r].pc = "idle" /\ UNCHANGED now
  BY DEF ArriveRefresh, ArriveLogout
<1>5. txn' = [txn EXCEPT ![r] = x]
  BY <1>1, <1>2
<1> QED
  BY <1>3, <1>4, <1>5

\* So does a sweep, which reads none.
LEMMA SweepEffect ==
  ASSUME NEW r \in Requests, BeginSweep(r)
  PROVE  /\ txn[r].pc = "idle" /\ UNCHANGED now
         /\ \E x : /\ txn' = [txn EXCEPT ![r] = x]
                  /\ x.at \in {0, now} /\ x.pc # "idle"
<1>1. PICK op \in Sweeps, own \in Sessions \cup {NoSession} :
        txn' = [txn EXCEPT ![r] =
                  [Idle EXCEPT !.pc = "sweeping", !.op = op, !.own = own,
                               !.rows = Live \ {own}]]
  BY DEF BeginSweep
<1>2. PICK x : x = [Idle EXCEPT !.pc = "sweeping", !.op = op, !.own = own,
                                !.rows = Live \ {own}]
  OBVIOUS
<1>3. x.at = 0 /\ x.pc = "sweeping"
  BY <1>2 DEF Idle
<1>4. txn[r].pc = "idle" /\ UNCHANGED now
  BY DEF BeginSweep
<1>5. txn' = [txn EXCEPT ![r] = x]
  BY <1>1, <1>2
<1> QED
  BY <1>3, <1>4, <1>5

\* Every step keeps the clocks in order.
LEMMA NextClockInv ==
  ASSUME IInv, ClockInv, [Next]_vars
  PROVE  ClockInv'
<1>1. CASE Tick \/ Login \/ UNCHANGED vars
  <2>1. now \in Nat /\ \A r \in Requests : txn[r].at \in Nat
    BY TimeFacts DEF IInv, TypeOK, Txn
  <2>2. CASE Tick
    BY <2>1, <2>2 DEF Tick, ClockInv
  <2>3. CASE Login
    <3>1. UNCHANGED <<now, txn>>
      BY <2>3 DEF Login
    <3> QED
      BY <3>1 DEF ClockInv
  <2>4. CASE UNCHANGED vars
    BY <2>4 DEF vars, ClockInv
  <2> QED
    BY <1>1, <2>2, <2>3, <2>4
<1>2. ASSUME NEW r \in Requests, End(r), UNCHANGED now
      PROVE  ClockInv'
  BY <1>2, OneClock DEF End, Idle, IInv
<1>3. ASSUME NEW r \in Requests, ArriveRefresh(r) \/ ArriveLogout(r) \/ BeginSweep(r)
      PROVE  ClockInv'
  BY <1>3, ArrivalEffect, SweepEffect, OneClock DEF IInv
<1>4. ASSUME NEW r \in Requests, NEW pc, pc # "idle", Goto(r, pc), UNCHANGED now
      PROVE  ClockInv'
  <2>1. PICK x : x = [txn[r] EXCEPT !.pc = pc]
    OBVIOUS
  <2>2. x.at = txn[r].at /\ x.pc # "idle" /\ txn' = [txn EXCEPT ![r] = x]
    BY <1>4, <2>1 DEF Goto, IInv, TypeOK, Txn
  <2> QED
    BY <1>4, <2>2, OneClock DEF IInv
<1>5. ASSUME NEW r \in Requests, Carrying(txn[r]), Lose(r), UNCHANGED now
      PROVE  ClockInv'
  <2>1. PICK x : x = [txn[r] EXCEPT !.pc = "lost", !.at = now]
    OBVIOUS
  <2>2. x.at = now /\ x.pc # "idle" /\ txn' = [txn EXCEPT ![r] = x]
    BY <1>5, <2>1 DEF Lose, IInv, TypeOK, Txn
  <2> QED
    BY <1>5, <2>2, OneClock DEF IInv
<1>6. ASSUME NEW r \in Requests, LockRows(r) PROVE ClockInv'
  <2> DEFINE their == IF txn[r].op = "reset-password" THEN {}
                      ELSE Issued \ Family(txn[r].own)
  <2>1. PICK x : x = [txn[r] EXCEPT !.pc = "locked",
                                    !.rows = txn[r].rows \cap Live,
                                    !.their = their]
    OBVIOUS
  <2>2. x.at = txn[r].at /\ x.pc = "locked"
    BY <2>1 DEF IInv, TypeOK, Txn
  <2>3. txn' = [txn EXCEPT ![r] = x] /\ UNCHANGED now
    BY <1>6, <2>1 DEF LockRows
  <2> QED
    BY <2>2, <2>3, OneClock DEF IInv
<1>7. ASSUME NEW r \in Requests, ReadToken(r) \/ ReadAgain(r) PROVE ClockInv'
  <2>1. End(r) \/ Goto(r, "rotating") \/ Goto(r, "revoking")
    BY <1>7 DEF ReadToken, ReadAgain, ResolveConcurrentReplacement
  <2> QED
    BY <1>2, <1>4, <1>7, <2>1 DEF ReadToken, ReadAgain
<1>8. ASSUME NEW r \in Requests, Rotate(r) PROVE ClockInv'
  <2>1. UNCHANGED now /\ Carrying(txn[r])
    BY <1>8 DEF Rotate, Carrying
  <2>2. End(r) \/ Lose(r)
    BY <1>8 DEF Rotate
  <2> QED
    BY <1>2, <1>5, <2>1, <2>2
<1>9. ASSUME NEW r \in Requests, RevokeSession(r) \/ FinishSweep(r) \/ Rollback(r)
      PROVE  ClockInv'
  BY <1>2, <1>9 DEF RevokeSession, FinishSweep, Rollback
<1> QED
  BY <1>1, <1>3, <1>6, <1>7, <1>8, <1>9 DEF Next, Step

\* Every step keeps what a replacement is due: the dates of a token that is issued
\* never change, and a new one is dated from the exchange.
LEMMA NextReplacementInv ==
  ASSUME IInv, ReplacementInv, [Next]_vars
  PROVE  ReplacementInv'
<1>1. \A t \in Tokens : token[t].consumedAt # Never => token[t].replacedBy \in Tokens
  BY DEF IInv, TypeOK, Token, LinkInv
<1>2. CASE UNCHANGED <<session, token>>
  BY <1>2 DEF ReplacementInv
<1>3. CASE \E r \in Requests : RevokeSession(r) \/ FinishSweep(r)
  <2>1. \A t \in Tokens : /\ token'[t].expires = token[t].expires
                          /\ token'[t].consumedAt = token[t].consumedAt
                          /\ token'[t].replacedBy = token[t].replacedBy
    BY <1>3, RevokeSessionKeepsIInv, FinishSweepKeepsIInv, ClosingFields DEF IInv
  <2> QED
    BY <1>1, <2>1 DEF ReplacementInv
<1>4. ASSUME NEW s \in Sessions, NEW n \in Tokens \ Issued, NEW at \in 0 .. now,
             LogsIn(s, n, at)
      PROVE  ReplacementInv'
  <2>1. /\ token'[n] = [session |-> s, expires |-> at + RefreshTtl,
                        consumedAt |-> Never, revoked |-> FALSE,
                        replacedBy |-> NoToken]
        /\ \A u \in Tokens \ {n} : token'[u] = token[u]
    BY <1>4, LoginFields, Zenon
  <2>2. \A t \in Tokens : token[t].replacedBy # n
    BY UnissuedIsFree
  <2> QED
    BY <1>1, <2>1, <2>2 DEF ReplacementInv
<1>5. ASSUME NEW r \in Requests, NEW old \in Issued, NEW new \in Tokens \ Issued,
             NEW s \in Sessions, NEW at \in Times, Exchanges(r, old, new, s, at)
      PROVE  ReplacementInv'
  <2>1. Exchanged(old, new, s, at)
    BY <1>5, ExchangeFields
  <2>2. \A t \in Tokens : token[t].replacedBy # new
    BY UnissuedIsFree
  <2>3. \A t \in Tokens \ {new} : token'[t].expires = token[t].expires
    BY <2>1 DEF Exchanged
  <2> SUFFICES ASSUME NEW t \in Tokens, token'[t].consumedAt # Never
               PROVE  token'[token'[t].replacedBy].expires
                        = token'[t].consumedAt + RefreshTtl
    BY DEF ReplacementInv
  <2>4. CASE t = old
    BY <2>1, <2>4 DEF Exchanged
  <2>5. CASE t # old
    <3>1. t # new /\ token'[t] = token[t]
      BY <2>1, <2>5 DEF Exchanged
    <3>2. token[t].replacedBy \in Tokens \ {new}
      BY <1>1, <2>2, <3>1
    <3> QED
      BY <2>3, <3>1, <3>2 DEF ReplacementInv
  <2> QED
    BY <2>4, <2>5
<1> QED
  BY <1>2, <1>3, <1>4, <1>5, StepKinds

\* Clocks and replacements are in order in every reachable state.
LEMMA WindowInvariance == Spec => []WindowInv
<1>1. Init => WindowInv
  BY TimeFacts DEF Init, WindowInv, ClockInv, ReplacementInv, Idle, Unissued
<1>2. IInv /\ WindowInv /\ [Next]_vars => WindowInv'
  BY NextClockInv, NextReplacementInv DEF WindowInv
<1> QED
  BY <1>1, <1>2, Invariance, PTL DEF Spec

\* A refresh that turns to revoking its session comes after the window, or with a
\* clock from before the exchange, or finds the replacement revoked.
LEMMA TurningToRevoke ==
  ASSUME Grace < RefreshTtl, IInv, WindowInv, [Next]_vars, NEW r \in Requests,
         txn[r].op = "refresh",
         txn[r].pc # "revoking", txn'[r].pc = "revoking"
  PROVE  LET t == token[txn[r].token] IN
         \/ now - t.consumedAt > Grace
         \/ txn[r].at < t.consumedAt
         \/ token[t.replacedBy].revoked
<1>1. PICK x : x = txn[r]
  OBVIOUS
<1>2. PICK t : t = token[x.token]
  OBVIOUS
<1>3. txn \in [Requests -> Txn] /\ txn'[r] # txn[r] /\ txn[r].pc # "idle"
  BY DEF IInv, TypeOK, WindowInv, ClockInv
<1>4. ReadToken(r) \/ ReadAgain(r)
  <2>1. ASSUME NEW q \in Requests, NEW y, txn' = [txn EXCEPT ![q] = y],
               q = r => y.pc # "revoking"
        PROVE  FALSE
    BY <1>3, <2>1
  <2>2. ASSUME NEW q \in Requests, End(q) PROVE FALSE
    <3>1. Idle.pc # "revoking"
      BY DEF Idle
    <3> QED
      BY <2>1, <2>2, <3>1 DEF End
  <2>3. ~(Tick \/ Login \/ UNCHANGED vars)
    <3>1. Tick \/ UNCHANGED vars => txn' = txn
      BY DEF Tick, vars
    <3>2. Login => txn' = txn
      BY DEF Login
    <3> QED
      BY <1>3, <3>1, <3>2
  <2>4. ASSUME NEW q \in Requests, txn[q].pc = "idle", NEW y,
               txn' = [txn EXCEPT ![q] = y]
        PROVE  FALSE
    BY <1>3, <2>4
  <2>5. ASSUME NEW q \in Requests, ArriveRefresh(q) \/ ArriveLogout(q) \/ BeginSweep(q)
        PROVE  FALSE
    BY <2>4, <2>5, ArrivalEffect, SweepEffect
  <2>6. ASSUME NEW q \in Requests, Lose(q) PROVE FALSE
    <3>1. PICK y : y = [txn[q] EXCEPT !.pc = "lost", !.at = now]
      OBVIOUS
    <3>2. y.pc = "lost"
      BY <1>3, <3>1 DEF Txn
    <3> QED
      BY <2>1, <2>6, <3>1, <3>2 DEF Lose
  <2>7. ASSUME NEW q \in Requests, LockRows(q) PROVE FALSE
    <3> DEFINE their == IF txn[q].op = "reset-password" THEN {}
                        ELSE Issued \ Family(txn[q].own)
    <3>1. PICK y : y = [txn[q] EXCEPT !.pc = "locked",
                                      !.rows = txn[q].rows \cap Live,
                                      !.their = their]
      OBVIOUS
    <3>2. y.pc = "locked"
      BY <1>3, <3>1 DEF Txn
    <3> QED
      BY <2>1, <2>7, <3>1, <3>2 DEF LockRows
  <2>8. ASSUME NEW q \in Requests, ReadToken(q) \/ ReadAgain(q), q # r PROVE FALSE
    <3>1. \E y : txn' = [txn EXCEPT ![q] = y]
      BY <2>8 DEF ReadToken, ReadAgain, ResolveConcurrentReplacement, End, Goto
    <3> QED
      BY <2>1, <2>8, <3>1
  <2>9. PICK q \in Requests : Step(q) \/ Rollback(q)
    BY <2>3, <2>5 DEF Next
  <2>10. ~(Rollback(q) \/ Rotate(q) \/ RevokeSession(q) \/ FinishSweep(q))
    BY <2>2, <2>6 DEF Rollback, Rotate, RevokeSession, FinishSweep
  <2> QED
    BY <2>7, <2>8, <2>9, <2>10 DEF Step
<1>5. /\ t.consumedAt # Never
      /\ ~(/\ x.at - t.consumedAt \in 0 .. Grace
           /\ t.replacedBy # NoToken
           /\ ~token[t.replacedBy].revoked
           /\ token[t.replacedBy].expires > x.at)
  <2>1. ~End(r) /\ ~Goto(r, "rotating")
    BY <1>3 DEF End, Idle, Goto, Txn
  <2> QED
    BY <1>1, <1>2, <1>4, <2>1 DEF ReadToken, ReadAgain, ResolveConcurrentReplacement
<1>6. x.token \in Tokens /\ t \in Token /\ x.at \in Nat /\ now \in Nat
  BY <1>1, <1>2, <1>4, TimeFacts
  DEF IInv, TypeOK, TxnInv, CarrierOK, Carrying, Issued, Txn, ReadToken, ReadAgain
<1>7. /\ t.consumedAt \in Nat
      /\ t.replacedBy # NoToken
      /\ token[t.replacedBy].expires = t.consumedAt + RefreshTtl
  BY <1>2, <1>5, <1>6, TimeFacts
  DEF Token, IInv, LinkInv, WindowInv, ReplacementInv
<1>8. x.at <= now
  BY <1>1 DEF WindowInv, ClockInv
<1>9. \/ now - t.consumedAt > Grace
      \/ x.at < t.consumedAt
      \/ token[t.replacedBy].revoked
  BY <1>5, <1>6, <1>7, <1>8, ClockAssumption
<1> QED
  BY <1>1, <1>2, <1>9

\* If sessions last longer than the grace window, a refresh within the window
\* keeps its session, whichever tab or retry comes first, but for a clock that was
\* read before the other one's exchange.
THEOREM WindowKeeps ==
  ASSUME Grace < RefreshTtl
  PROVE  Spec => WindowKeepsSession
<1>1. IInv /\ WindowInv /\ [Next]_vars
        => [\A r \in Requests :
              LET t == token[txn[r].token] IN
              /\ txn[r].op = "refresh"
              /\ txn[r].pc # "revoking" /\ txn'[r].pc = "revoking"
              => \/ now - t.consumedAt > Grace
                 \/ txn[r].at < t.consumedAt
                 \/ token[t.replacedBy].revoked]_vars
  BY TurningToRevoke
<1> QED
  BY <1>1, Invariance, WindowInvariance, PTL DEF Spec, WindowKeepsSession

=============================================================================
