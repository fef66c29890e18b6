---------------------------- MODULE AccountAccess -----------------------------
(***************************************************************************)
(* The password of one user, the workshop each login session is bound to   *)
(* and the access tokens that say so, as AuthService, WorkshopsService and *)
(* MembershipsService.resetPassword change them, with JwtStrategy and the  *)
(* guards that look at them when a request comes in.                       *)
(*                                                                         *)
(* A request is admitted, reads, writes and answers in separate steps, and *)
(* only one statement or one transaction is a single step.  Closing many   *)
(* sessions takes a snapshot first (READ COMMITTED): a session inserted    *)
(* after it is not closed.                                                 *)
(*                                                                         *)
(* Sessions never come back, so expiry, logout and reuse of a refresh      *)
(* token are one action.  The clock and the refresh tokens are modelled by *)
(* AuthSessions, roles and the row lock of a workshop by WorkshopTenancy.  *)
(***************************************************************************)
EXTENDS Naturals, FiniteSets

CONSTANTS
  Requests,      \* the slots in which HTTP requests are served concurrently
  Sessions,      \* primary keys of auth_sessions; bounds the logins
  Memberships,   \* primary keys of memberships of this user
  MaxTokens,     \* bound of the model on the access tokens kept at a time
  Neutral,       \* no workshop: activeMembershipId IS NULL, no mid in a token
  NoSession      \* the request has no session (yet)

ASSUME BoundAssumption == MaxTokens \in Nat
ASSUME SentinelAssumption ==
  /\ Neutral \notin Memberships
  /\ NoSession \notin Sessions \cup Requests
  /\ Requests \cap Sessions = {}

VARIABLES
  mustChangePassword,  \* users.must_change_password
  current,     \* who has verified the password that is stored now: requests, and
               \* sessions whose login, or the change that spared them, did
  membership,  \* per membership: "NONE" (no such row), "ACTIVE", "INACTIVE"
  session,     \* the rows of auth_sessions
  tokens,      \* the unexpired access tokens in the hands of clients
  txn          \* per slot: the request it serves and what it has read

account == <<mustChangePassword, current>>
rows == <<mustChangePassword, current, membership, session, tokens>>
vars == <<mustChangePassword, current, membership, session, tokens, txn>>

-----------------------------------------------------------------------------
(* Rows and requests.                                                      *)

Contexts == Memberships \cup {Neutral}

Session == [state: {"ABSENT", "LIVE", "REVOKED"}, bound: Contexts]

Unopened == [state |-> "ABSENT", bound |-> Neutral]

\* Nothing reads what else is in the row of a revoked session.
Revoked == [state |-> "REVOKED", bound |-> Neutral]

\* The claims sid and mid; wid is the workshop of mid.
Token == Sessions \X Contexts

\* Routes that move a session to a workshop, and those that close sessions.
Selecting == {"select", "create", "transfer"}
Sweeps == {"change-password", "reset-password", "logout-all"}
Ops == {"login"} \cup Selecting \cup Sweeps

\* A request keeps only what its next steps use: context is the one a transfer was
\* admitted with, or the one it will bind or sign; rows the snapshot of a sweep.
\* Activation and signature are the same whatever led to them.
Txn ==
  [pc: {"idle", "admitted", "verified", "activating", "signing", "sweeping"},
   op: Ops \cup {"none"}, session: Sessions \cup {NoSession},
   context: Contexts, rows: SUBSET Sessions]

Idle ==
  [pc |-> "idle", op |-> "none", session |-> NoSession, context |-> Neutral,
   rows |-> {}]

\* One type invariant for the module: rows, tokens and requests keep their types.
TypeOK ==
  /\ mustChangePassword \in BOOLEAN
  /\ current \subseteq Sessions \cup Requests
  /\ membership \in [Memberships -> {"NONE", "ACTIVE", "INACTIVE"}]
  /\ session \in [Sessions -> Session]
  /\ tokens \subseteq Token
  /\ txn \in [Requests -> Txn]

Active == {m \in Memberships : membership[m] = "ACTIVE"}

Existing == {m \in Memberships : membership[m] # "NONE"}

Live == {s \in Sessions : session[s].state = "LIVE"}

\* signup: the user and a neutral session are inserted by one transaction.
SignedUp ==
  /\ mustChangePassword = FALSE
  /\ membership = [m \in Memberships |-> "NONE"]
  /\ \E s \in Sessions :
       /\ session = [x \in Sessions |->
                       IF x = s THEN [state |-> "LIVE", bound |-> Neutral]
                       ELSE Unopened]
       /\ tokens = {<<s, Neutral>>}
       /\ current = {s}

\* MembershipsService.create: an identity with one membership and a temporary
\* password.
Hired ==
  /\ mustChangePassword = TRUE
  /\ \E m \in Memberships :
       membership = [x \in Memberships |-> IF x = m THEN "ACTIVE" ELSE "NONE"]
  /\ session = [s \in Sessions |-> Unopened]
  /\ tokens = {}
  /\ current = {}

Init == (SignedUp \/ Hired) /\ txn = [r \in Requests |-> Idle]

-----------------------------------------------------------------------------
(* JwtStrategy and the guards.                                             *)

\* Faulty: the workshop a session is bound to is not compared with the claims.
AcceptsAnyContext(s, c) ==
  s \in Live /\ (session[s].bound # Neutral => session[s].bound \in Active)

\* validate: does the present state accept a token with these claims?
Accepts(s, c) ==
  /\ s \in Live
  /\ c = session[s].bound
  /\ c \in Active \cup {Neutral}

\* Faulty: AllowPasswordChangeRequired on select-workshop.
PassesAnyFlag(op, c) == op = "transfer" => c # Neutral

\* JwtAuthGuard and WorkshopContextGuard with the decorators of the routes.  GET
\* /auth/me is let through under the flag, too; it only reads and is no request here.
PassesGuards(op, c) ==
  /\ mustChangePassword => op \in {"change-password", "logout-all"}
  /\ op = "transfer" => c # Neutral

-----------------------------------------------------------------------------
(* Requests arrive, end and fail.                                          *)

\* The request is over; what it has verified is forgotten with it.
End(r) ==
  /\ txn' = [txn EXCEPT ![r] = Idle]
  /\ current' = current \ {r}

\* The server dies, the connection drops, or a check of another module refuses;
\* a reset refuses the OWNER, a refresh a spent token.
Rollback(r) ==
  /\ txn[r].pc # "idle"
  /\ End(r)
  /\ UNCHANGED <<mustChangePassword, membership, session, tokens>>

\* A token is checked against the session and the user as they are now.
Admit(r) ==
  /\ txn[r].pc = "idle"
  /\ \E t \in tokens, op \in Selecting \cup {"change-password", "logout-all"} :
       /\ Accepts(t[1], t[2])
       /\ PassesGuards(op, t[2])
       /\ txn' = [txn EXCEPT ![r] =
                    [Idle EXCEPT !.pc = "admitted", !.op = op,
                       !.session = IF op = "logout-all" THEN NoSession ELSE t[1],
                       !.context = IF op = "transfer" THEN t[2] ELSE Neutral]]
  /\ UNCHANGED rows

\* findUserForLogin and the verification of the password it returned; the session
\* will be bound only if exactly one membership is active.
ArriveLogin(r) ==
  /\ txn[r].pc = "idle"
  /\ \E c \in Contexts :
       /\ IF Cardinality(Active) = 1 THEN c \in Active ELSE c = Neutral
       /\ txn' = [txn EXCEPT ![r] =
                    [Idle EXCEPT !.pc = "verified", !.op = "login",
                                 !.context = c]]
  /\ current' = current \cup {r}
  /\ UNCHANGED <<mustChangePassword, membership, session, tokens>>

\* findRefreshToken reads the session with its membership; what it read is
\* signed after the rotation.
ArriveRefresh(r) ==
  /\ txn[r].pc = "idle"
  /\ \E s \in Live :
       txn' = [txn EXCEPT ![r] =
                 [Idle EXCEPT !.pc = "signing", !.session = s,
                              !.context = IF session[s].bound \in Active
                                          THEN session[s].bound ELSE Neutral]]
  /\ UNCHANGED rows

\* A multi-workshop identity cannot be reset from one workshop.
Resettable == Cardinality(Existing) = 1

\* An administrator of the workshop; the lock it holds is not one of the user.
ArriveReset(r) ==
  /\ txn[r].pc = "idle"
  /\ Resettable
  /\ txn' = [txn EXCEPT ![r] =
               [Idle EXCEPT !.pc = "verified", !.op = "reset-password"]]
  /\ UNCHANGED rows

-----------------------------------------------------------------------------
(* Login and the workshop of a session.                                    *)

\* Faulty: the token is signed without the key of the row that was inserted.
IssueSessionKeyless(r) ==
  LET t == txn[r] IN
  /\ t.pc = "verified" /\ t.op = "login"
  /\ txn' = [txn EXCEPT ![r] = [Idle EXCEPT !.pc = "signing"]]
  /\ UNCHANGED rows

\* issueSession, with what the login read.
IssueSession(r) ==
  LET t == txn[r] IN
  /\ t.pc = "verified" /\ t.op = "login"
  /\ \E s \in Sessions :
       /\ session[s].state = "ABSENT"
       /\ session' = [session EXCEPT ![s] =
                        [state |-> "LIVE", bound |-> t.context]]
       /\ current' = IF r \in current THEN (current \ {r}) \cup {s} ELSE current
       /\ txn' = [txn EXCEPT ![r] =
                     [Idle EXCEPT !.pc = "signing", !.session = s,
                                  !.context = t.context]]
  /\ UNCHANGED <<mustChangePassword, membership, tokens>>

Activating(r, m) ==
  txn' = [txn EXCEPT ![r] =
            [Idle EXCEPT !.pc = "activating", !.session = txn[r].session,
                         !.context = m]]

\* selectWorkshop reads a membership of the user's choice; transferOwnership,
\* once the workshop is handed over, reads again the one of its context.
ReadMembership(r) ==
  LET t == txn[r] IN
  /\ t.pc = "admitted" /\ t.op \in {"select", "transfer"}
  /\ \E m \in Active :
       /\ t.op = "transfer" => m = t.context
       /\ Activating(r, m)
  /\ UNCHANGED rows

\* The workshop and the membership of its owner are committed first.
CreateWorkshop(r) ==
  LET t == txn[r] IN
  /\ t.pc = "admitted" /\ t.op = "create"
  /\ \E m \in Memberships \ Existing :
       /\ membership' = [membership EXCEPT ![m] = "ACTIVE"]
       /\ Activating(r, m)
  /\ UNCHANGED <<account, session, tokens>>

\* activateMembershipForSession: one guarded updateMany, or a 401.
ActivateMembership(r) ==
  LET t == txn[r] IN
  /\ t.pc = "activating"
  /\ IF t.session \in Live
     THEN /\ session' = [session EXCEPT ![t.session].bound = t.context]
          /\ txn' = [txn EXCEPT ![r] = [t EXCEPT !.pc = "signing"]]
          /\ UNCHANGED current
     ELSE End(r) /\ UNCHANGED session
  /\ UNCHANGED <<mustChangePassword, membership, tokens>>

SignAccessToken(r) ==
  /\ txn[r].pc = "signing"
  /\ tokens' = tokens \cup {<<txn[r].session, txn[r].context>>}
  /\ Cardinality(tokens') <= MaxTokens
  /\ End(r)
  /\ UNCHANGED <<mustChangePassword, membership, session>>

-----------------------------------------------------------------------------
(* Passwords, and sweeps over the sessions.                                *)

\* changePassword verifies the password it reads, outside of its transaction, and
\* never looks at it again.
VerifyPassword(r) ==
  LET t == txn[r] IN
  /\ t.pc = "admitted" /\ t.op = "change-password"
  /\ txn' = [txn EXCEPT ![r] =
               [Idle EXCEPT !.pc = "verified", !.op = t.op, !.session = t.session]]
  /\ current' = current \cup {r}
  /\ UNCHANGED <<mustChangePassword, membership, session, tokens>>

Rewrites(t) == t.op \in {"change-password", "reset-password"}

\* user.update holds the row of the user until the commit.
UserLocked ==
  \E r \in Requests : txn[r].pc = "sweeping" /\ Rewrites(txn[r])

\* The session that a change of the password spares.
Spared(t) == IF t.op = "change-password" THEN {t.session} ELSE {}

\* The snapshot of the UPDATE of auth_sessions, after user.update.
BeginSweep(r) ==
  LET t == txn[r] IN
  /\ \/ t.pc = "admitted" /\ t.op = "logout-all"
     \/ t.pc = "verified" /\ Rewrites(t) /\ ~UserLocked
  /\ txn' = [txn EXCEPT ![r] =
               [t EXCEPT !.pc = "sweeping", !.rows = Live \ Spared(t)]]
  /\ UNCHANGED rows

FlagAfter(t) ==
  IF Rewrites(t) THEN t.op = "reset-password" ELSE mustChangePassword

FinishSweep(r) ==
  LET t == txn[r]
      closed == t.rows \cap Live
  IN
  /\ t.pc = "sweeping"
  /\ mustChangePassword' = FlagAfter(t)
  /\ current' = IF Rewrites(t) THEN Spared(t) \cap Live
                ELSE current \ (closed \cup {r})
  /\ session' = [s \in Sessions |-> IF s \in closed THEN Revoked ELSE session[s]]
  /\ txn' = [txn EXCEPT ![r] = Idle]
  /\ UNCHANGED <<membership, tokens>>

-----------------------------------------------------------------------------
(* What ends by itself, and what others do.                                *)

\* logout, the expiry of the session, or the reuse of a refresh token.
EndSession ==
  \E s \in Live :
    /\ session' = [session EXCEPT ![s] = Revoked]
    /\ current' = current \ {s}
    /\ UNCHANGED <<mustChangePassword, membership, tokens, txn>>

ExpireToken ==
  \E t \in tokens :
    /\ tokens' = tokens \ {t}
    /\ UNCHANGED <<account, membership, session, txn>>

\* MembershipsService.update, by an administrator of that workshop.
Administer ==
  \E m \in Existing :
    /\ membership' = [membership EXCEPT ![m] =
                        IF @ = "ACTIVE" THEN "INACTIVE" ELSE "ACTIVE"]
    /\ UNCHANGED <<account, session, tokens, txn>>

Next ==
  \/ EndSession \/ ExpireToken \/ Administer
  \/ \E r \in Requests :
       \/ Rollback(r) \/ Admit(r) \/ ArriveLogin(r) \/ ArriveRefresh(r)
       \/ ArriveReset(r) \/ IssueSession(r) \/ ReadMembership(r)
       \/ CreateWorkshop(r) \/ ActivateMembership(r) \/ SignAccessToken(r)
       \/ VerifyPassword(r) \/ BeginSweep(r) \/ FinishSweep(r)

Spec == Init /\ [][Next]_vars

-----------------------------------------------------------------------------
(* Properties.                                                             *)

\* A session opened with a temporary password changes nothing but this password and
\* what the logout closes: no request that would move it to a workshop is under way
\* for it, however resets and changes of the password overlap with logins
\* ("Mandatory First-Access Password Change").  What it may read besides, GET
\* /auth/me, is marked AllowPasswordChangeRequired in the code.
TemporaryPasswordReachesNothing ==
  \A r \in Requests :
    /\ mustChangePassword
    /\ txn[r].pc = "activating" \/ txn[r].op \in Selecting
    => txn[r].session \notin current

StatusOf(s) ==
  CASE session[s].state = "ABSENT" -> "NONE"
    [] session[s].state = "LIVE"   -> "OPEN"
    [] OTHER                       -> "CLOSED"

Entry == INSTANCE Access WITH
  status <- [s \in Sessions |-> StatusOf(s)],
  access <- [s \in Sessions |->
               {c \in Contexts : <<s, c>> \in tokens /\ Accepts(s, c)}],
  active <- Active

\* Whatever tokens its clients have kept, a session gives access to one context
\* at a time, to a workshop only while the membership is active, and to nothing
\* once it is closed, requests under way included ("a replacement access token is
\* issued and the previous context no longer authenticates").
ImplementsAccess == Entry!AccessSpec
=============================================================================
