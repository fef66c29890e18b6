---------------------------- MODULE AuthSessions -----------------------------
(***************************************************************************)
(* The login sessions of one user and the refresh tokens that renew them,  *)
(* as src/modules/auth/services/session/session.ts, AuthService and        *)
(* MembershipsService.resetPassword change them.                           *)
(*                                                                         *)
(* A session is a row of auth_sessions with a family of refresh_tokens.    *)
(* Refreshing reads the clock, then the token without a lock, and then     *)
(* exchanges it in a transaction that takes the row lock of the session    *)
(* first: it commits as one step.  Closing several sessions (logout-all,   *)
(* change and reset of the password) takes two statements, each with a     *)
(* snapshot of its own (READ COMMITTED), and so three steps here.          *)
(*                                                                         *)
(* users.is_active is never written and so left out; the password itself,  *)
(* the access tokens and the workshop a session is bound to are not part   *)
(* of this module: a password that does not match only ends a request      *)
(* before it changed anything, as Rollback does.                           *)
(***************************************************************************)
EXTENDS Integers

CONSTANTS
  Requests,    \* the slots in which HTTP requests are served concurrently
  Sessions,    \* primary keys of auth_sessions; bounds the logins
  Tokens,      \* primary keys of refresh_tokens; bounds the rotations
  RefreshTtl,  \* refreshTtlMs
  Grace,       \* CONCURRENT_REFRESH_GRACE_MS
  MaxTime,     \* bound of the model on the clock
  NoToken,     \* replaced_by_token_id IS NULL
  NoSession,   \* no session: a token not issued yet, or no session to spare
  Never        \* consumed_at IS NULL

ASSUME ClockAssumption ==
  RefreshTtl \in Nat \ {0} /\ Grace \in Nat /\ MaxTime \in Nat
ASSUME SentinelAssumption ==
  NoToken \notin Tokens /\ NoSession \notin Sessions /\ Never \notin Int

VARIABLES
  session,  \* the rows of auth_sessions
  token,    \* the rows of refresh_tokens
  now,      \* the clock of the server
  txn       \* per slot: the request it serves and what it has read

vars == <<session, token, now, txn>>

-----------------------------------------------------------------------------
(* Rows and requests.                                                      *)

Times == 0 .. MaxTime

Expiries == 0 .. MaxTime + RefreshTtl

Session == [state: {"ABSENT", "LIVE", "REVOKED"}, expires: Expiries]

Token ==
  [session: Sessions \cup {NoSession}, expires: Expiries,
   consumedAt: Times \cup {Never}, revoked: BOOLEAN,
   replacedBy: Tokens \cup {NoToken}]

Sweeps == {"logout-all", "change-password", "reset-password"}

\* at is now, then concurrentNow, of rotateRefreshToken; token and own are what the request came
\* with; rows and their are what the two statements of a sweep will write.
Txn ==
  [pc: {"idle", "arrived", "rotating", "lost", "revoking", "sweeping",
        "locked"},
   op: {"none", "refresh", "logout"} \cup Sweeps, at: Times,
   token: Tokens \cup {NoToken}, own: Sessions \cup {NoSession},
   rows: SUBSET Sessions, their: SUBSET Tokens]

Idle ==
  [pc |-> "idle", op |-> "none", at |-> 0, token |-> NoToken,
   own |-> NoSession, rows |-> {}, their |-> {}]

Unissued ==
  [session |-> NoSession, expires |-> 0, consumedAt |-> Never,
   revoked |-> FALSE, replacedBy |-> NoToken]

\* The rows and the requests keep their types; no date of expiry lies further
\* ahead than the last reading of the clock plus the TTL (refreshTtlMs).
TypeOK ==
  /\ session \in [Sessions -> Session]
  /\ token \in [Tokens -> Token]
  /\ now \in Times
  /\ txn \in [Requests -> Txn]

Init ==
  /\ session = [s \in Sessions |-> [state |-> "ABSENT", expires |-> 0]]
  /\ token = [t \in Tokens |-> Unissued]
  /\ now = 0
  /\ txn = [r \in Requests |-> Idle]

-----------------------------------------------------------------------------
(* Families of tokens and the rows that are locked.                        *)

Issued == {t \in Tokens : token[t].session # NoSession}

Family(s) == {t \in Tokens : token[t].session = s}

Live == {s \in Sessions : session[s].state = "LIVE"}

\* Faulty: as if the tokens were revoked before the sessions, under no lock.
LockedUnordered(s) == FALSE

\* A sweep holds the rows it has closed until it commits.
Locked(s) == \E r \in Requests : txn[r].pc = "locked" /\ s \in txn[r].rows

\* user.update of a change or a reset holds the row of the user.
UserLocked ==
  \E r \in Requests :
    /\ txn[r].pc \in {"sweeping", "locked"}
    /\ txn[r].op \in {"change-password", "reset-password"}

\* Faulty: only the expiry of the session is looked at.
UsableUnexpired(s, at) == session[s].expires > at

\* assertUsableSession, and the guard of the first statement of a rotation.
Usable(s, at) == session[s].state = "LIVE" /\ session[s].expires > at

-----------------------------------------------------------------------------
(* Requests end, fail and arrive; time passes.                             *)

End(r) == txn' = [txn EXCEPT ![r] = Idle]

Goto(r, pc) == txn' = [txn EXCEPT ![r].pc = pc]

\* The server dies, the connection drops or a statement is refused.
Rollback(r) ==
  /\ txn[r].pc # "idle"
  /\ End(r)
  /\ UNCHANGED <<session, token, now>>

Tick ==
  /\ now < MaxTime
  /\ now' = now + 1
  /\ UNCHANGED <<session, token, txn>>

\* issueSession, one nested insert; its clock was read some time before.
Login ==
  \E s \in Sessions, t \in Tokens \ Issued, at \in 0 .. now :
    /\ session[s].state = "ABSENT"
    /\ session' = [session EXCEPT ![s] =
                     [state |-> "LIVE", expires |-> at + RefreshTtl]]
    /\ token' = [token EXCEPT ![t] =
                   [Unissued EXCEPT !.session = s, !.expires = at + RefreshTtl]]
    /\ UNCHANGED <<now, txn>>

\* A client, or two of its tabs, present a token it was given: now = new Date().
ArriveRefresh(r) ==
  /\ txn[r].pc = "idle"
  /\ \E t \in Issued :
       txn' = [txn EXCEPT ![r] =
                 [Idle EXCEPT !.pc = "arrived", !.op = "refresh",
                              !.at = now, !.token = t]]
  /\ UNCHANGED <<session, token, now>>

\* The session of a token never changes, so reading it influences nothing.
ArriveLogout(r) ==
  /\ txn[r].pc = "idle"
  /\ \E t \in Issued :
       txn' = [txn EXCEPT ![r] =
                 [Idle EXCEPT !.pc = "revoking", !.op = "logout",
                              !.at = now, !.token = t]]
  /\ UNCHANGED <<session, token, now>>

-----------------------------------------------------------------------------
(* rotateRefreshToken and revokeSession.                                   *)

\* Faulty: the last moment of the window is not part of it.
ResolveEarlyReplacement(r, at) ==
  LET t == token[txn[r].token] IN
  IF /\ at - t.consumedAt \in 0 .. Grace - 1
     /\ t.replacedBy # NoToken
     /\ ~token[t.replacedBy].revoked
     /\ token[t.replacedBy].expires > at
  THEN End(r)
  ELSE Goto(r, "revoking")

\* resolveConcurrentReplacement, by a request that reads the clock as at.
ResolveConcurrentReplacement(r, at) ==
  LET t == token[txn[r].token] IN
  IF /\ at - t.consumedAt \in 0 .. Grace
     /\ t.replacedBy # NoToken
     /\ ~token[t.replacedBy].revoked
     /\ token[t.replacedBy].expires > at
  THEN End(r)
  ELSE Goto(r, "revoking")

ReadToken(r) ==
  LET t == token[txn[r].token]
      at == txn[r].at
  IN
  /\ txn[r].pc = "arrived"
  /\ IF ~Usable(t.session, at) THEN End(r)
     ELSE IF t.consumedAt # Never THEN ResolveConcurrentReplacement(r, at)
     ELSE IF t.revoked \/ t.expires <= at THEN End(r)
     ELSE Goto(r, "rotating")
  /\ UNCHANGED <<session, token, now>>

\* Faulty: the guard does not ask for consumedAt IS NULL.
CanConsumeTwice(t, at) == ~token[t].revoked /\ token[t].expires > at

\* The guarded updateMany that consumes the token.
CanConsume(t, at) ==
  token[t].consumedAt = Never /\ ~token[t].revoked /\ token[t].expires > at

\* Faulty: the TTL is added to the old expiry instead of the present time.
ProlongedUntil(s, at) == session[s].expires + RefreshTtl

RenewedUntil(s, at) == at + RefreshTtl

Exchange(old, s, at) ==
  \E new \in Tokens \ Issued :
    /\ token' = [token EXCEPT
                   ![old] = [@ EXCEPT !.consumedAt = at, !.replacedBy = new],
                   ![new] = [Unissued EXCEPT !.session = s,
                               !.expires = RenewedUntil(s, at)]]
    /\ session' = [session EXCEPT ![s].expires = RenewedUntil(s, at)]

\* concurrentNow = new Date().
Lose(r) == txn' = [txn EXCEPT ![r] = [txn[r] EXCEPT !.pc = "lost", !.at = now]]

Rotate(r) ==
  LET t == txn[r].token
      s == token[t].session
      at == txn[r].at
  IN
  /\ txn[r].pc = "rotating"
  /\ ~Locked(s)
  /\ IF Usable(s, at) /\ CanConsume(t, at)
     THEN Exchange(t, s, at) /\ End(r)
     ELSE /\ IF Usable(s, at) THEN Lose(r) ELSE End(r)
          /\ UNCHANGED <<session, token>>
  /\ UNCHANGED now

\* The loser reads the token again; without consumedAt it dies of a TypeError.
ReadAgain(r) ==
  LET t == token[txn[r].token]
      at == txn[r].at
  IN
  /\ txn[r].pc = "lost"
  /\ IF Usable(t.session, at) /\ t.consumedAt # Never
     THEN ResolveConcurrentReplacement(r, at)
     ELSE End(r)
  /\ UNCHANGED <<session, token, now>>

\* revokeSession, for a logout or after the reuse of a token.
RevokeSession(r) ==
  LET s == token[txn[r].token].session IN
  /\ txn[r].pc = "revoking"
  /\ ~Locked(s)
  /\ session' = [session EXCEPT ![s].state = "REVOKED"]
  /\ token' = [t \in Tokens |->
                 IF t \in Family(s) THEN [token[t] EXCEPT !.revoked = TRUE]
                 ELSE token[t]]
  /\ End(r)
  /\ UNCHANGED now

-----------------------------------------------------------------------------
(* Sweeps: logout-all, change and reset of the password.                   *)

\* The snapshot of the UPDATE of auth_sessions.  The guard that let the user in
\* read a session earlier, which may be closed by now; a reset is another
\* user's request.
BeginSweep(r) ==
  /\ txn[r].pc = "idle"
  /\ \E op \in Sweeps, own \in Sessions \cup {NoSession} :
       /\ (own # NoSession) <=> (op = "change-password")
       /\ own # NoSession => session[own].state # "ABSENT"
       /\ op # "reset-password" => Issued # {}
       /\ op # "logout-all" => ~UserLocked
       /\ txn' = [txn EXCEPT ![r] =
                    [Idle EXCEPT !.pc = "sweeping", !.op = op, !.own = own,
                                 !.rows = Live \ {own}]]
  /\ UNCHANGED <<session, token, now>>

\* The rows are locked and evaluated again, and the UPDATE of refresh_tokens
\* takes its snapshot; a reset has no such statement.
LockRows(r) ==
  LET t == txn[r] IN
  /\ t.pc = "sweeping"
  /\ \A s \in t.rows : ~Locked(s)
  /\ txn' = [txn EXCEPT ![r] =
               [t EXCEPT !.pc = "locked", !.rows = t.rows \cap Live,
                         !.their = IF t.op = "reset-password" THEN {}
                                   ELSE Issued \ Family(t.own)]]
  /\ UNCHANGED <<session, token, now>>

FinishSweep(r) ==
  /\ txn[r].pc = "locked"
  /\ session' = [s \in Sessions |->
                   IF s \in txn[r].rows
                   THEN [session[s] EXCEPT !.state = "REVOKED"]
                   ELSE session[s]]
  /\ token' = [t \in Tokens |->
                 IF t \in txn[r].their
                 THEN [token[t] EXCEPT !.revoked = TRUE]
                 ELSE token[t]]
  /\ End(r)
  /\ UNCHANGED now

Step(r) ==
  \/ ReadToken(r) \/ Rotate(r) \/ ReadAgain(r) \/ RevokeSession(r)
  \/ LockRows(r) \/ FinishSweep(r)

Next ==
  \/ Tick
  \/ Login
  \/ \E r \in Requests :
       \/ ArriveRefresh(r) \/ ArriveLogout(r) \/ BeginSweep(r)
       \/ Step(r) \/ Rollback(r)

Spec == Init /\ [][Next]_vars

-----------------------------------------------------------------------------
(* Properties.                                                             *)

\* The tokens of a session form one chain: one of them was not handed out in
\* exchange for another, each further one replaces exactly one, exactly one is
\* unconsumed, and that one lasts as long as the session.  From every token the
\* exchanges lead to it: a set with the unconsumed token, and with what each of its
\* members replaced, is the whole family, so that none goes round in a ring apart.
\* Two tabs that rotate one token, or a rotation that fails half way, would fork or
\* cut the chain (refresh_tokens.replaced_by_token_id).
FamilyIsAChain ==
  \A s \in Sessions : session[s].state # "ABSENT" =>
    LET replaced(t) == {u \in Tokens : token[u].replacedBy = t}
        tips == {t \in Family(s) : token[t].consumedAt = Never}
        roots == {t \in Family(s) : replaced(t) = {}}
    IN
    /\ \E t \in Tokens : tips = {t} /\ token[t].expires = session[s].expires
    /\ \E t \in Tokens : roots = {t}
    /\ \A t \in Family(s) \ roots :
         \E u \in Family(s) : replaced(t) = {u} /\ token[u].consumedAt # Never
    /\ \A t \in Family(s) \ tips :
         \E u \in Family(s) : token[t].replacedBy = u /\ u # t
    /\ \A T \in SUBSET Family(s) :
         tips \subseteq T /\ (\A t \in Family(s) : token[t].replacedBy \in T => t \in T)
           => T = Family(s)

\* This step closes s, and by an administrator's reset or with all its tokens.
ClosedWithFamily(s) ==
  \/ \E r \in Requests :
       /\ txn[r].pc = "locked" /\ s \in txn[r].rows
       /\ txn[r].op = "reset-password"
  \/ \A t \in Tokens : token'[t].session = s => token'[t].revoked

\* Whoever closes a session other than by an administrator's reset closes its
\* whole family with it, tokens rotated in meanwhile included ("Lock the stable
\* session before its refresh token" in rotateRefreshToken): a refresh token of
\* that family is dead by itself, and not only because its session is.
ClosingReachesEveryToken ==
  [][\A s \in Live \ Live' : ClosedWithFamily(s)]_vars

\* The token a session can be renewed with.
Tip(s) ==
  IF session[s].state = "ABSENT" THEN NoToken
  ELSE CHOOSE t \in Family(s) : token[t].consumedAt = Never

StatusOf(s) ==
  CASE session[s].state = "ABSENT" -> "NONE"
    [] session[s].state = "LIVE"   -> "OPEN"
    [] OTHER                       -> "CLOSED"

Register == INSTANCE SessionRegister WITH
  status     <- [s \in Sessions |-> StatusOf(s)],
  credential <- [s \in Sessions |-> Tip(s)],
  until      <- [s \in Sessions |-> session[s].expires],
  issued     <- Issued

\* Every commit is one move of the register: a session opens once, only its one
\* credential renews it, renewing never shortens it, and no request that was
\* under way when it closed renews or reopens it ("Revoked sessions MUST NOT mint
\* new access tokens").
ImplementsRegister == Register!RegisterSpec

\* A second tab that refreshes within the grace window gets the replacement and
\* does not close the session, unless it read the clock before the first one did:
\* then the token looks consumed in the future ("returns the same replacement
\* during the five-second concurrency window").
WindowKeepsSession ==
  [][\A r \in Requests :
       LET t == token[txn[r].token] IN
       /\ txn[r].op = "refresh"
       /\ txn[r].pc # "revoking" /\ txn'[r].pc = "revoking"
       => \/ now - t.consumedAt > Grace
          \/ txn[r].at < t.consumedAt
          \/ token[t.replacedBy].revoked]_vars
=============================================================================
