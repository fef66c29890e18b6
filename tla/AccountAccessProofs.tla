-------------------------- MODULE AccountAccessProofs --------------------------
(***************************************************************************)
(* Theorems about AccountAccess for every number of requests, sessions,    *)
(* memberships and tokens: a temporary password reaches nothing but its    *)
(* change, and the requests implement the abstract access.                 *)
(***************************************************************************)
EXTENDS AccountAccess, TLAPS

-----------------------------------------------------------------------------
(* The inductive invariant.                                                *)

\* Requests and tokens speak of sessions that were opened: a key that is still
\* free is known to nobody.  What is about to be signed is of some session.
KeysInv ==
  /\ \A r \in Requests :
       /\ txn[r].session # NoSession => session[txn[r].session].state # "ABSENT"
       /\ txn[r].pc = "signing" => txn[r].session # NoSession
       /\ txn[r].op = "change-password" => txn[r].session # NoSession
  /\ \A s \in Sessions, c \in Contexts :
       <<s, c>> \in tokens => session[s].state # "ABSENT"

\* What a temporary password reaches depends on keys being unknown before they are
\* used: the session of a login must not be one that a request already names.
IInv == TypeOK /\ KeysInv /\ TemporaryPasswordReachesNothing

LEMMA IdleFacts ==
  /\ Idle \in Txn
  /\ Idle.pc = "idle" /\ Idle.op = "none" /\ Idle.session = NoSession
  /\ Idle.context = Neutral /\ Idle.rows = {}
BY DEF Idle, Txn, Contexts, Ops

LEMMA InitInv == Init => IInv
<1> SUFFICES ASSUME Init PROVE IInv
  OBVIOUS
<1>1. \A r \in Requests : txn[r] = Idle
  BY DEF Init
<1>2. txn \in [Requests -> Txn]
  BY IdleFacts DEF Init
<1>3. /\ mustChangePassword \in BOOLEAN
      /\ current \subseteq Sessions
      /\ membership \in [Memberships -> {"NONE", "ACTIVE", "INACTIVE"}]
      /\ session \in [Sessions -> Session]
      /\ tokens \subseteq Token
      /\ \A s \in Sessions, c \in Contexts :
           <<s, c>> \in tokens => session[s].state # "ABSENT"
  <2>1. CASE SignedUp
    <3>1. PICK s \in Sessions :
            /\ session = [x \in Sessions |->
                            IF x = s THEN [state |-> "LIVE", bound |-> Neutral]
                            ELSE Unopened]
            /\ tokens = {<<s, Neutral>>}
            /\ current = {s}
      BY <2>1 DEF SignedUp
    <3>2. session \in [Sessions -> Session]
      BY <3>1 DEF Session, Unopened, Contexts
    <3>3. <<s, Neutral>> \in Token
      BY DEF Token, Contexts
    <3>4. session[s].state = "LIVE"
      BY <3>1
    <3>5. \A x \in Sessions, c \in Contexts :
            <<x, c>> \in tokens => session[x].state # "ABSENT"
      BY <3>1, <3>4
    <3> QED
      BY <2>1, <3>1, <3>2, <3>3, <3>5 DEF SignedUp
  <2>2. CASE Hired
    BY <2>2 DEF Hired, Session, Unopened, Contexts, Token
  <2> QED
    BY <2>1, <2>2 DEF Init
<1>4. KeysInv
  BY <1>1, <1>3, IdleFacts DEF KeysInv
<1>5. TemporaryPasswordReachesNothing
  BY <1>1, IdleFacts DEF TemporaryPasswordReachesNothing, Selecting
<1> QED
  BY <1>2, <1>3, <1>4, <1>5 DEF IInv, TypeOK

-----------------------------------------------------------------------------
(* A step keeps the invariant.                                             *)

\* Most steps change the record of one request, open no session and let nobody
\* else than a request verify a password.
LEMMA OneRequest ==
  ASSUME IInv, NEW r \in Requests, NEW t \in Txn,
         txn' = [txn EXCEPT ![r] = t],
         UNCHANGED <<mustChangePassword, membership, session, tokens>>,
         current' \subseteq current \cup {r},
         t.session # NoSession => session[t.session].state # "ABSENT",
         t.pc = "signing" => t.session # NoSession,
         t.op = "change-password" => t.session # NoSession,
         mustChangePassword /\ (t.pc = "activating" \/ t.op \in Selecting)
           => t.session \notin current /\ t.session # r
  PROVE  IInv'
<1>1. TypeOK'
  BY DEF IInv, TypeOK
<1>2. \A q \in Requests : txn'[q] = IF q = r THEN t ELSE txn[q]
  BY DEF IInv, TypeOK
<1>3. KeysInv'
  BY <1>2 DEF IInv, KeysInv
<1>4. \A q \in Requests : txn[q].session # r
  BY SentinelAssumption DEF IInv, TypeOK, Txn
<1>5. TemporaryPasswordReachesNothing'
  BY <1>2, <1>4 DEF IInv, TemporaryPasswordReachesNothing
<1> QED
  BY <1>1, <1>3, <1>5 DEF IInv

LEMMA EndKeepsInv ==
  ASSUME IInv, NEW r \in Requests, End(r),
         UNCHANGED <<mustChangePassword, membership, session, tokens>>
  PROVE  IInv'
BY IdleFacts, OneRequest DEF End, Selecting

LEMMA AdmitKeepsInv ==
  ASSUME IInv, NEW r \in Requests, Admit(r)
  PROVE  IInv'
<1>1. PICK t \in tokens, op \in Selecting \cup {"change-password", "logout-all"} :
        /\ Accepts(t[1], t[2])
        /\ PassesGuards(op, t[2])
        /\ txn' = [txn EXCEPT ![r] =
                     [Idle EXCEPT !.pc = "admitted", !.op = op,
                        !.session = IF op = "logout-all" THEN NoSession ELSE t[1],
                        !.context = IF op = "transfer" THEN t[2] ELSE Neutral]]
  BY DEF Admit
<1>2. t[1] \in Sessions /\ t[2] \in Contexts
  BY DEF IInv, TypeOK, Token
<1>3. session[t[1]].state # "ABSENT" /\ t[1] # NoSession /\ Neutral \in Contexts
  BY <1>1, <1>2, SentinelAssumption DEF Accepts, Live, Contexts
<1> DEFINE u == [Idle EXCEPT !.pc = "admitted", !.op = op,
                   !.session = IF op = "logout-all" THEN NoSession ELSE t[1],
                   !.context = IF op = "transfer" THEN t[2] ELSE Neutral]
<1>4. /\ u \in Txn
      /\ u.pc = "admitted" /\ u.op = op
      /\ u.session = IF op = "logout-all" THEN NoSession ELSE t[1]
  BY <1>2, <1>3, IdleFacts DEF Txn, Ops, Selecting, Sweeps
<1>5. mustChangePassword => op \notin Selecting
  BY <1>1 DEF PassesGuards, Selecting
<1>6. txn' = [txn EXCEPT ![r] = u] /\ UNCHANGED rows
  BY <1>1 DEF Admit
<1> HIDE DEF u
<1> QED
  BY <1>3, <1>4, <1>5, <1>6, OneRequest DEF rows

LEMMA ArrivalsKeepInv ==
  ASSUME IInv, NEW r \in Requests,
         ArriveLogin(r) \/ ArriveRefresh(r) \/ ArriveReset(r)
  PROVE  IInv'
<1>1. CASE ArriveLogin(r)
  <2>1. PICK c \in Contexts :
          txn' = [txn EXCEPT ![r] =
                    [Idle EXCEPT !.pc = "verified", !.op = "login",
                                 !.context = c]]
    BY <1>1 DEF ArriveLogin
  <2> DEFINE u == [Idle EXCEPT !.pc = "verified", !.op = "login", !.context = c]
  <2>2. u \in Txn /\ u.pc = "verified" /\ u.op = "login" /\ u.session = NoSession
    BY IdleFacts DEF Txn, Ops
  <2>3. txn' = [txn EXCEPT ![r] = u]
    BY <2>1
  <2> HIDE DEF u
  <2> QED
    BY <1>1, <2>2, <2>3, OneRequest DEF ArriveLogin, Selecting
<1>2. CASE ArriveRefresh(r)
  <2>1. PICK s \in Live :
          txn' = [txn EXCEPT ![r] =
                    [Idle EXCEPT !.pc = "signing", !.session = s,
                                 !.context = IF session[s].bound \in Active
                                             THEN session[s].bound ELSE Neutral]]
    BY <1>2 DEF ArriveRefresh
  <2> DEFINE u == [Idle EXCEPT !.pc = "signing", !.session = s,
                               !.context = IF session[s].bound \in Active
                                           THEN session[s].bound ELSE Neutral]
  <2>2. s \in Sessions /\ session[s].state = "LIVE" /\ s # NoSession
    BY SentinelAssumption DEF Live
  <2>3. (IF session[s].bound \in Active THEN session[s].bound ELSE Neutral)
          \in Contexts
    BY DEF Active, Contexts
  <2>4. u \in Txn /\ u.pc = "signing" /\ u.op = "none" /\ u.session = s
    BY <2>2, <2>3, IdleFacts DEF Txn, Ops
  <2>5. txn' = [txn EXCEPT ![r] = u]
    BY <2>1
  <2> HIDE DEF u
  <2> QED
    BY <1>2, <2>2, <2>4, <2>5, OneRequest DEF ArriveRefresh, rows, Selecting
<1>3. CASE ArriveReset(r)
  <2> DEFINE u == [Idle EXCEPT !.pc = "verified", !.op = "reset-password"]
  <2>1. /\ u \in Txn /\ u.pc = "verified" /\ u.op = "reset-password"
        /\ u.session = NoSession
    BY IdleFacts DEF Txn, Ops, Sweeps
  <2>2. txn' = [txn EXCEPT ![r] = u]
    BY <1>3 DEF ArriveReset
  <2> HIDE DEF u
  <2> QED
    BY <1>3, <2>1, <2>2, OneRequest DEF ArriveReset, rows, Selecting
<1> QED
  BY <1>1, <1>2, <1>3

\* The session of a login is one whose key nobody knew: it is put in the place of
\* the request among those who verified the password, and in no other.
LEMMA IssueSessionKeepsInv ==
  ASSUME IInv, NEW r \in Requests, IssueSession(r)
  PROVE  IInv'
<1>1. PICK s \in Sessions :
        /\ session[s].state = "ABSENT"
        /\ session' = [session EXCEPT ![s] =
                         [state |-> "LIVE", bound |-> txn[r].context]]
        /\ current' = IF r \in current THEN (current \ {r}) \cup {s} ELSE current
        /\ txn' = [txn EXCEPT ![r] =
                      [Idle EXCEPT !.pc = "signing", !.session = s,
                                   !.context = txn[r].context]]
  BY DEF IssueSession
<1> DEFINE u == [Idle EXCEPT !.pc = "signing", !.session = s,
                             !.context = txn[r].context]
<1>2. txn[r].context \in Contexts /\ s # NoSession
  BY SentinelAssumption DEF IInv, TypeOK, Txn
<1>3. u \in Txn /\ u.pc = "signing" /\ u.op = "none" /\ u.session = s
  BY <1>2, IdleFacts DEF Txn
<1>4. txn' = [txn EXCEPT ![r] = u]
  BY <1>1
<1>5. UNCHANGED <<mustChangePassword, membership, tokens>>
  BY DEF IssueSession
<1> HIDE DEF u
<1>6. [state |-> "LIVE", bound |-> txn[r].context] \in Session
  BY <1>2 DEF Session
<1>7. TypeOK'
  BY <1>1, <1>3, <1>4, <1>5, <1>6 DEF IInv, TypeOK
<1>8. \A q \in Requests : txn'[q] = IF q = r THEN u ELSE txn[q]
  BY <1>4 DEF IInv, TypeOK
<1>9. \A x \in Sessions : session[x].state # "ABSENT" => session'[x].state # "ABSENT"
  BY <1>1 DEF IInv, TypeOK
<1>10. session'[s].state # "ABSENT"
  BY <1>1 DEF IInv, TypeOK
<1>11. \A q \in Requests : txn[q].session \in Sessions \cup {NoSession}
  BY DEF IInv, TypeOK, Txn
<1>12. KeysInv'
  BY <1>2, <1>3, <1>5, <1>8, <1>9, <1>10, <1>11 DEF IInv, KeysInv
<1>13. \A q \in Requests : txn[q].session # s
  BY <1>1, <1>2 DEF IInv, KeysInv
<1>14. current' \subseteq current \cup {s}
  BY <1>1
<1>15. TemporaryPasswordReachesNothing'
  <2> SUFFICES ASSUME NEW q \in Requests, mustChangePassword,
                      txn'[q].pc = "activating" \/ txn'[q].op \in Selecting
               PROVE  txn'[q].session \notin current'
    BY <1>5 DEF TemporaryPasswordReachesNothing
  <2>1. q # r /\ txn'[q] = txn[q]
    BY <1>3, <1>8 DEF Selecting
  <2>2. txn[q].session \notin current
    BY <2>1 DEF IInv, TemporaryPasswordReachesNothing
  <2> QED
    BY <2>1, <2>2, <1>13, <1>14
<1> QED
  BY <1>7, <1>12, <1>15 DEF IInv

\* What a request does that no step of it depends on: it goes on to activate a
\* membership for the session it was admitted with.
LEMMA ActivatingKeepsInv ==
  ASSUME IInv, NEW r \in Requests, NEW m \in Contexts,
         txn[r].op \in Selecting, Activating(r, m),
         membership' \in [Memberships -> {"NONE", "ACTIVE", "INACTIVE"}],
         UNCHANGED <<account, session, tokens>>
  PROVE  IInv'
<1> DEFINE u == [Idle EXCEPT !.pc = "activating", !.session = txn[r].session,
                             !.context = m]
<1>1. txn[r].session \in Sessions \cup {NoSession}
  BY DEF IInv, TypeOK, Txn
<1>2. /\ u \in Txn /\ u.pc = "activating" /\ u.op = "none"
      /\ u.session = txn[r].session
  BY <1>1, IdleFacts DEF Txn
<1>3. txn' = [txn EXCEPT ![r] = u]
  BY DEF Activating
<1> HIDE DEF u
<1>4. \A q \in Requests : txn'[q] = IF q = r THEN u ELSE txn[q]
  BY <1>3 DEF IInv, TypeOK
<1>5. TypeOK'
  BY <1>2, <1>3 DEF IInv, TypeOK, account
<1>6. KeysInv'
  BY <1>2, <1>4 DEF IInv, KeysInv
<1>7. TemporaryPasswordReachesNothing'
  BY <1>2, <1>4 DEF IInv, TemporaryPasswordReachesNothing, account, Selecting
<1> QED
  BY <1>5, <1>6, <1>7 DEF IInv

LEMMA ReadMembershipKeepsInv ==
  ASSUME IInv, NEW r \in Requests, ReadMembership(r)
  PROVE  IInv'
<1>1. PICK m \in Active : Activating(r, m)
  BY DEF ReadMembership
<1>2. m \in Contexts /\ txn[r].op \in Selecting
  BY DEF Active, Contexts, ReadMembership, Selecting
<1>3. UNCHANGED <<account, membership, session, tokens>>
  BY DEF ReadMembership, rows, account
<1> QED
  BY <1>1, <1>2, <1>3, ActivatingKeepsInv DEF IInv, TypeOK

LEMMA CreateWorkshopKeepsInv ==
  ASSUME IInv, NEW r \in Requests, CreateWorkshop(r)
  PROVE  IInv'
<1>1. PICK m \in Memberships :
        /\ membership' = [membership EXCEPT ![m] = "ACTIVE"]
        /\ Activating(r, m)
  BY DEF CreateWorkshop
<1>2. m \in Contexts /\ txn[r].op \in Selecting
  BY DEF Contexts, CreateWorkshop, Selecting
<1>3. UNCHANGED <<account, session, tokens>>
  BY DEF CreateWorkshop
<1>4. membership' \in [Memberships -> {"NONE", "ACTIVE", "INACTIVE"}]
  BY <1>1 DEF IInv, TypeOK
<1> QED
  BY <1>1, <1>2, <1>3, <1>4, ActivatingKeepsInv

LEMMA ActivateMembershipKeepsInv ==
  ASSUME IInv, NEW r \in Requests, ActivateMembership(r)
  PROVE  IInv'
<1>1. CASE txn[r].session \in Live
  <2> DEFINE t == txn[r]
             u == [t EXCEPT !.pc = "signing"]
  <2>1. t \in Txn /\ t.pc = "activating" /\ t.session \in Sessions
    BY <1>1 DEF ActivateMembership, IInv, TypeOK, Live
  <2>2. /\ u \in Txn /\ u.pc = "signing" /\ u.op = t.op /\ u.session = t.session
    BY <2>1 DEF Txn
  <2>3. /\ session' = [session EXCEPT ![t.session].bound = t.context]
        /\ txn' = [txn EXCEPT ![r] = u]
        /\ UNCHANGED <<mustChangePassword, current, membership, tokens>>
    BY <1>1 DEF ActivateMembership
  <2> HIDE DEF u
  <2>4. t.context \in Contexts
    BY <2>1 DEF Txn
  <2>5. /\ session' \in [Sessions -> Session]
        /\ \A s \in Sessions : session'[s].state = session[s].state
    BY <2>1, <2>3, <2>4 DEF IInv, TypeOK, Session
  <2>6. TypeOK'
    BY <2>2, <2>3, <2>5 DEF IInv, TypeOK
  <2>7. \A q \in Requests : txn'[q] = IF q = r THEN u ELSE txn[q]
    BY <2>3 DEF IInv, TypeOK
  <2>8. \A q \in Requests : txn'[q].session = txn[q].session
    BY <2>2, <2>7
  <2>9. \A q \in Requests : txn[q].session \in Sessions \cup {NoSession}
    BY DEF IInv, TypeOK, Txn
  <2>10. t.session # NoSession
    BY <2>1, SentinelAssumption
  <2>11. KeysInv'
    BY <2>2, <2>3, <2>5, <2>7, <2>9, <2>10 DEF IInv, KeysInv
  <2>12. TemporaryPasswordReachesNothing'
    BY <2>1, <2>2, <2>3, <2>7 DEF IInv, TemporaryPasswordReachesNothing
  <2> QED
    BY <2>6, <2>11, <2>12 DEF IInv
<1>2. CASE txn[r].session \notin Live
  BY <1>2, EndKeepsInv DEF ActivateMembership
<1> QED
  BY <1>1, <1>2

LEMMA SignAccessTokenKeepsInv ==
  ASSUME IInv, NEW r \in Requests, SignAccessToken(r)
  PROVE  IInv'
<1>1. /\ txn[r].session \in Sessions
      /\ session[txn[r].session].state # "ABSENT"
      /\ txn[r].context \in Contexts
  BY DEF SignAccessToken, IInv, TypeOK, KeysInv, Txn
<1>2. /\ tokens' = tokens \cup {<<txn[r].session, txn[r].context>>}
      /\ txn' = [txn EXCEPT ![r] = Idle]
      /\ current' = current \ {r}
      /\ UNCHANGED <<mustChangePassword, membership, session>>
  BY DEF SignAccessToken, End
<1>3. tokens' \subseteq Token
  BY <1>1, <1>2 DEF IInv, TypeOK, Token
<1>4. TypeOK'
  BY <1>2, <1>3, IdleFacts DEF IInv, TypeOK
<1>5. \A q \in Requests : txn'[q] = IF q = r THEN Idle ELSE txn[q]
  BY <1>2 DEF IInv, TypeOK
<1>6. \A s \in Sessions, c \in Contexts :
        <<s, c>> \in tokens' => session[s].state # "ABSENT"
  BY <1>1, <1>2 DEF IInv, KeysInv
<1>7. KeysInv'
  BY <1>2, <1>5, <1>6, IdleFacts DEF IInv, KeysInv
<1>8. TemporaryPasswordReachesNothing'
  BY <1>2, <1>5, IdleFacts DEF IInv, TemporaryPasswordReachesNothing, Selecting
<1> QED
  BY <1>4, <1>7, <1>8 DEF IInv

LEMMA VerifyPasswordKeepsInv ==
  ASSUME IInv, NEW r \in Requests, VerifyPassword(r)
  PROVE  IInv'
<1> DEFINE u == [Idle EXCEPT !.pc = "verified", !.op = txn[r].op,
                             !.session = txn[r].session]
<1>1. txn[r] \in Txn /\ txn[r].op = "change-password"
  BY DEF IInv, TypeOK, VerifyPassword
<1>2. /\ u \in Txn /\ u.pc = "verified" /\ u.op = "change-password"
      /\ u.session = txn[r].session
  BY <1>1, IdleFacts DEF Txn
<1>3. txn' = [txn EXCEPT ![r] = u]
  BY DEF VerifyPassword
<1> HIDE DEF u
<1>4. /\ u.session # NoSession
      /\ session[u.session].state # "ABSENT"
  BY <1>1, <1>2 DEF IInv, KeysInv
<1> QED
  BY <1>2, <1>3, <1>4, OneRequest DEF VerifyPassword, Selecting

\* A sweep keeps the route and the session of its request.
LEMMA BeginSweepKeepsInv ==
  ASSUME IInv, NEW r \in Requests, BeginSweep(r)
  PROVE  IInv'
<1> DEFINE t == txn[r]
           u == [t EXCEPT !.pc = "sweeping", !.rows = Live \ Spared(t)]
<1>1. t \in Txn /\ t.op \notin Selecting
  BY DEF IInv, TypeOK, BeginSweep, Rewrites, Selecting
<1>2. Live \ Spared(t) \in SUBSET Sessions
  BY DEF Live
<1>3. u \in Txn /\ u.pc = "sweeping" /\ u.op = t.op /\ u.session = t.session
  BY <1>1, <1>2 DEF Txn
<1>4. txn' = [txn EXCEPT ![r] = u]
  BY DEF BeginSweep
<1>5. UNCHANGED rows
  BY DEF BeginSweep
<1>6. /\ t.session # NoSession => session[t.session].state # "ABSENT"
      /\ t.op = "change-password" => t.session # NoSession
  BY DEF IInv, KeysInv
<1> HIDE DEF u, t
<1> QED
  BY <1>1, <1>3, <1>4, <1>5, <1>6, OneRequest DEF rows

\* Where the flag goes up nobody has verified the new password yet; a sweep that
\* leaves the flag alone only takes names off the list.
LEMMA FinishSweepKeepsInv ==
  ASSUME IInv, NEW r \in Requests, FinishSweep(r)
  PROVE  IInv'
<1> DEFINE t == txn[r]
           closed == t.rows \cap Live
<1>1. /\ mustChangePassword' = FlagAfter(t)
      /\ current' = IF Rewrites(t) THEN Spared(t) \cap Live
                    ELSE current \ (closed \cup {r})
      /\ session' = [s \in Sessions |-> IF s \in closed THEN Revoked
                                        ELSE session[s]]
      /\ txn' = [txn EXCEPT ![r] = Idle]
      /\ UNCHANGED <<membership, tokens>>
  BY DEF FinishSweep
<1>2. mustChangePassword' \in BOOLEAN
  BY <1>1 DEF FlagAfter, IInv, TypeOK
<1>3. current' \subseteq Sessions \cup Requests
  BY <1>1 DEF Live, IInv, TypeOK
<1>4. /\ session' \in [Sessions -> Session]
      /\ \A s \in Sessions :
           session[s].state # "ABSENT" => session'[s].state # "ABSENT"
  <2>1. Revoked \in Session /\ Revoked.state # "ABSENT"
    BY DEF Revoked, Session, Contexts
  <2> QED
    BY <1>1, <2>1 DEF IInv, TypeOK
<1>5. TypeOK'
  BY <1>1, <1>2, <1>3, <1>4, IdleFacts DEF IInv, TypeOK
<1>6. \A q \in Requests : txn'[q] = IF q = r THEN Idle ELSE txn[q]
  BY <1>1 DEF IInv, TypeOK
<1>7. \A q \in Requests : txn[q].session \in Sessions \cup {NoSession}
  BY DEF IInv, TypeOK, Txn
<1>8. KeysInv'
  BY <1>1, <1>4, <1>6, <1>7, IdleFacts DEF IInv, KeysInv
<1>9. mustChangePassword' => \/ current' = {}
                             \/ mustChangePassword /\ current' \subseteq current
  BY <1>1 DEF FlagAfter, Rewrites, Spared
<1>10. TemporaryPasswordReachesNothing'
  <2> SUFFICES ASSUME NEW q \in Requests, mustChangePassword',
                      txn'[q].pc = "activating" \/ txn'[q].op \in Selecting
               PROVE  txn'[q].session \notin current'
    BY DEF TemporaryPasswordReachesNothing
  <2>1. txn'[q] = txn[q]
    BY <1>6, IdleFacts DEF Selecting
  <2> QED
    BY <1>9, <2>1 DEF IInv, TemporaryPasswordReachesNothing
<1> QED
  BY <1>5, <1>8, <1>10 DEF IInv

LEMMA OthersKeepInv ==
  ASSUME IInv, EndSession \/ ExpireToken \/ Administer
  PROVE  IInv'
<1>1. CASE EndSession
  <2>1. PICK s \in Live :
          /\ session' = [session EXCEPT ![s] = Revoked]
          /\ current' = current \ {s}
          /\ UNCHANGED <<mustChangePassword, membership, tokens, txn>>
    BY <1>1 DEF EndSession
  <2>2. Revoked \in Session /\ Revoked.state # "ABSENT"
    BY DEF Revoked, Session, Contexts
  <2>3. /\ session' \in [Sessions -> Session]
        /\ \A x \in Sessions :
             session[x].state # "ABSENT" => session'[x].state # "ABSENT"
    BY <2>1, <2>2 DEF IInv, TypeOK, Live
  <2>4. TypeOK'
    BY <2>1, <2>3 DEF IInv, TypeOK
  <2>5. \A q \in Requests : txn[q].session \in Sessions \cup {NoSession}
    BY DEF IInv, TypeOK, Txn
  <2>6. KeysInv'
    BY <2>1, <2>3, <2>5 DEF IInv, KeysInv
  <2>7. TemporaryPasswordReachesNothing'
    BY <2>1 DEF IInv, TemporaryPasswordReachesNothing
  <2> QED
    BY <2>4, <2>6, <2>7 DEF IInv
<1>2. CASE ExpireToken
  BY <1>2 DEF ExpireToken, account, IInv, TypeOK, KeysInv,
              TemporaryPasswordReachesNothing
<1>3. CASE Administer
  <2>1. membership' \in [Memberships -> {"NONE", "ACTIVE", "INACTIVE"}]
    BY <1>3 DEF Administer, IInv, TypeOK
  <2>2. UNCHANGED <<account, session, tokens, txn>>
    BY <1>3 DEF Administer
  <2> QED
    BY <2>1, <2>2 DEF account, IInv, TypeOK, KeysInv,
                      TemporaryPasswordReachesNothing
<1> QED
  BY <1>1, <1>2, <1>3

LEMMA NextKeepsInv ==
  ASSUME IInv, [Next]_vars
  PROVE  IInv'
<1>1. CASE UNCHANGED vars
  BY <1>1 DEF vars, IInv, TypeOK, KeysInv, TemporaryPasswordReachesNothing
<1>2. CASE EndSession \/ ExpireToken \/ Administer
  BY <1>2, OthersKeepInv
<1>3. ASSUME NEW r \in Requests, Rollback(r) PROVE IInv'
  BY <1>3, EndKeepsInv DEF Rollback
<1>4. ASSUME NEW r \in Requests,
             \/ Admit(r) \/ ArriveLogin(r) \/ ArriveRefresh(r) \/ ArriveReset(r)
      PROVE IInv'
  BY <1>4, AdmitKeepsInv, ArrivalsKeepInv
<1>5. ASSUME NEW r \in Requests,
             \/ IssueSession(r) \/ ReadMembership(r) \/ CreateWorkshop(r)
             \/ ActivateMembership(r) \/ SignAccessToken(r)
      PROVE IInv'
  BY <1>5, IssueSessionKeepsInv, ReadMembershipKeepsInv, CreateWorkshopKeepsInv,
     ActivateMembershipKeepsInv, SignAccessTokenKeepsInv
<1>6. ASSUME NEW r \in Requests,
             VerifyPassword(r) \/ BeginSweep(r) \/ FinishSweep(r)
      PROVE IInv'
  BY <1>6, VerifyPasswordKeepsInv, BeginSweepKeepsInv, FinishSweepKeepsInv
<1> QED
  BY <1>1, <1>2, <1>3, <1>4, <1>5, <1>6 DEF Next

-----------------------------------------------------------------------------
(* The theorems about the invariant.                                       *)

\* IInv holds in every reachable state.
THEOREM Invariance == Spec => []IInv
BY InitInv, NextKeepsInv, PTL DEF Spec

\* Rows, tokens and requests keep their types.
THEOREM TypeCorrect == Spec => []TypeOK
<1>1. IInv => TypeOK
  BY DEF IInv
<1> QED
  BY <1>1, Invariance, PTL

\* A session opened with a temporary password is on its way to no workshop,
\* whatever overlaps.
THEOREM TemporaryPassword == Spec => []TemporaryPasswordReachesNothing
<1>1. IInv => TemporaryPasswordReachesNothing
  BY DEF IInv
<1> QED
  BY <1>1, Invariance, PTL

-----------------------------------------------------------------------------
(* The requests implement the abstract access.                             *)

Reach(s) == {c \in Contexts : <<s, c>> \in tokens /\ Accepts(s, c)}

Stat == [s \in Sessions |-> StatusOf(s)]
Reached == [s \in Sessions |-> Reach(s)]

LEMMA AccessStarts == Init => Entry!AccessInit
<1> SUFFICES ASSUME Init PROVE Entry!AccessInit
  OBVIOUS
<1>1. Active \in SUBSET Memberships
  BY DEF Active
<1>2. CASE SignedUp
  <2>1. PICK s \in Sessions :
          /\ session = [x \in Sessions |->
                          IF x = s THEN [state |-> "LIVE", bound |-> Neutral]
                          ELSE Unopened]
          /\ tokens = {<<s, Neutral>>}
    BY <1>2 DEF SignedUp
  <2>2. /\ session[s].state = "LIVE" /\ session[s].bound = Neutral
        /\ \A x \in Sessions \ {s} : session[x].state = "ABSENT"
    BY <2>1 DEF Unopened
  <2>3. Stat = [x \in Sessions |-> IF x \in {s} THEN "OPEN" ELSE "NONE"]
    BY <2>2 DEF Stat, StatusOf
  <2>4. Reach(s) = {Neutral}
    BY <2>1, <2>2 DEF Reach, Accepts, Live, Contexts
  <2>5. \A x \in Sessions \ {s} : Reach(x) = {}
    BY <2>2 DEF Reach, Accepts, Live
  <2>6. /\ Reached \in [Sessions -> {{}, {Neutral}}]
        /\ \A x \in Sessions \ {s} : Reached[x] = {}
    BY <2>4, <2>5 DEF Reached
  <2>7. \E S \in SUBSET Sessions :
          /\ Stat = [x \in Sessions |-> IF x \in S THEN "OPEN" ELSE "NONE"]
          /\ Reached \in [Sessions -> {{}, {Neutral}}]
          /\ \A x \in Sessions \ S : Reached[x] = {}
    <3>1. {s} \in SUBSET Sessions
      OBVIOUS
    <3> QED
      BY <2>3, <2>6, <3>1
  <2> QED
    BY <1>1, <2>7 DEF Entry!AccessInit, Stat, Reached, Reach
<1>3. CASE Hired
  <2>1. \A s \in Sessions : session[s].state = "ABSENT"
    BY <1>3 DEF Hired, Unopened
  <2>2. Stat = [s \in Sessions |-> IF s \in {} THEN "OPEN" ELSE "NONE"]
    BY <2>1 DEF Stat, StatusOf
  <2>3. \A s \in Sessions : Reach(s) = {}
    BY <2>1 DEF Reach, Accepts, Live
  <2>4. /\ Reached \in [Sessions -> {{}, {Neutral}}]
        /\ \A s \in Sessions : Reached[s] = {}
    BY <2>3 DEF Reached
  <2> QED
    BY <1>1, <2>2, <2>4 DEF Entry!AccessInit, Stat, Reached, Reach
<1> QED
  BY <1>2, <1>3 DEF Init

\* The session of a login can be reached from nowhere yet.
LEMMA IssueSessionOpens ==
  ASSUME IInv, NEW r \in Requests, IssueSession(r)
  PROVE  Entry!AccessNext
<1>1. PICK s \in Sessions :
        /\ session[s].state = "ABSENT"
        /\ session' = [session EXCEPT ![s] =
                         [state |-> "LIVE", bound |-> txn[r].context]]
  BY DEF IssueSession
<1>2. tokens' = tokens /\ membership' = membership
  BY DEF IssueSession
<1>3. /\ session'[s].state = "LIVE"
      /\ \A x \in Sessions \ {s} : session'[x] = session[x]
  BY <1>1 DEF IInv, TypeOK
<1>4. Stat[s] = "NONE" /\ Stat' = [Stat EXCEPT ![s] = "OPEN"]
  BY <1>1, <1>3 DEF Stat, StatusOf
<1>5. Active' = Active
  BY <1>2 DEF Active
<1>6. \A c \in Contexts : <<s, c>> \notin tokens
  BY <1>1 DEF IInv, KeysInv
<1>7. Reach(s) = {} /\ Reach(s)' = {}
  BY <1>2, <1>6 DEF Reach
<1>8. \A x \in Sessions \ {s} : Reach(x)' = Reach(x)
  BY <1>2, <1>3, <1>5 DEF Reach, Accepts, Live
<1>9. Reached' = Reached
  BY <1>7, <1>8 DEF Reached
<1>10. Entry!Open(s)
  BY <1>4, <1>5, <1>9 DEF Entry!Open, Stat, Reached, Reach
<1> QED
  BY <1>10 DEF Entry!AccessNext

\* A step after which one session is reached from one context, or from none.
LEMMA MovesOne ==
  ASSUME NEW s \in Sessions, NEW c \in Contexts,
         Stat' = Stat, Active' = Active,
         \A x \in Sessions \ {s} : Reach(x)' = Reach(x),
         \/ Reach(s)' = {}
         \/ Reach(s)' = {c} /\ s \in Live /\ c \in Active \cup {Neutral}
  PROVE  Entry!AccessNext
<1>1. CASE Reach(s)' = {}
  <2>1. Reached' = [Reached EXCEPT ![s] = {}]
    BY <1>1 DEF Reached
  <2>2. Entry!Leave(s)
    BY <2>1 DEF Entry!Leave, Stat, Reached, Reach
  <2> QED
    BY <2>2 DEF Entry!AccessNext
<1>2. CASE Reach(s)' = {c} /\ s \in Live /\ c \in Active \cup {Neutral}
  <2>1. Reached' = [Reached EXCEPT ![s] = {c}]
    BY <1>2 DEF Reached
  <2>2. Stat[s] = "OPEN"
    BY <1>2 DEF Stat, StatusOf, Live
  <2>3. Entry!Enter(s, c)
    BY <1>2, <2>1, <2>2 DEF Entry!Enter, Stat, Reached, Reach
  <2> QED
    BY <2>3 DEF Entry!AccessNext, Contexts
<1> QED
  BY <1>1, <1>2

\* Binding a session to another workshop cuts it off from the previous one.
LEMMA ActivateMembershipMoves ==
  ASSUME IInv, NEW r \in Requests, ActivateMembership(r), txn[r].session \in Live
  PROVE  Entry!AccessNext
<1>1. PICK s \in Live, c \in Contexts : s = txn[r].session /\ c = txn[r].context
  BY DEF IInv, TypeOK, Txn, Live
<1>2. /\ session' = [session EXCEPT ![s].bound = c]
      /\ tokens' = tokens /\ membership' = membership
  BY <1>1 DEF ActivateMembership
<1>3. /\ session'[s].state = "LIVE" /\ session'[s].bound = c
      /\ \A x \in Sessions \ {s} : session'[x] = session[x]
  BY <1>1, <1>2 DEF IInv, TypeOK, Session, Live
<1>4. Active' = Active
  BY <1>2 DEF Active
<1>5. Stat' = Stat
  BY <1>3 DEF Stat, StatusOf, Live
<1>6. \A x \in Sessions \ {s} : Reach(x)' = Reach(x)
  BY <1>2, <1>3, <1>4 DEF Reach, Accepts, Live
<1>7. \/ Reach(s)' = {}
      \/ Reach(s)' = {c} /\ c \in Active \cup {Neutral}
  BY <1>3, <1>4 DEF Reach, Accepts
<1>8. s \in Sessions
  BY DEF Live
<1> QED
  BY <1>4, <1>5, <1>6, <1>7, <1>8, MovesOne

\* A token that is out of date when it is signed gives access to nothing.
LEMMA SignAccessTokenMoves ==
  ASSUME IInv, NEW r \in Requests, SignAccessToken(r)
  PROVE  Entry!AccessNext \/ UNCHANGED Entry!accessVars
<1>1. PICK s \in Sessions, c \in Contexts :
        s = txn[r].session /\ c = txn[r].context
  BY DEF IInv, TypeOK, KeysInv, Txn, SignAccessToken
<1>2. /\ tokens' = tokens \cup {<<s, c>>}
      /\ UNCHANGED <<membership, session>>
  BY <1>1 DEF SignAccessToken
<1>3. Stat' = Stat /\ Active' = Active /\ Live' = Live
  BY <1>2 DEF Stat, StatusOf, Active, Live
<1>4. \A x \in Sessions, d \in Contexts : Accepts(x, d)' <=> Accepts(x, d)
  BY <1>2, <1>3 DEF Accepts
<1>5. \A x \in Sessions \ {s} : Reach(x)' = Reach(x)
  BY <1>2, <1>4 DEF Reach
<1>6. CASE Accepts(s, c)
  <2>1. Reach(s)' = {c} /\ s \in Live /\ c \in Active \cup {Neutral}
    BY <1>1, <1>2, <1>4, <1>6 DEF Reach, Accepts
  <2> QED
    BY <1>1, <1>3, <1>5, <2>1, MovesOne
<1>7. CASE ~Accepts(s, c)
  <2>1. Reach(s)' = Reach(s)
    BY <1>1, <1>2, <1>4, <1>7 DEF Reach
  <2>2. Reached' = Reached
    BY <1>5, <2>1 DEF Reached
  <2> QED
    BY <1>3, <2>2 DEF Entry!accessVars, Stat, Reached, Reach
<1> QED
  BY <1>6, <1>7

\* The sessions a step closes are not reached from anywhere after it.
LEMMA ClosingCloses ==
  ASSUME NEW S \in SUBSET Live,
         session' = [s \in Sessions |-> IF s \in S THEN Revoked ELSE session[s]],
         UNCHANGED <<tokens, membership>>
  PROVE  Entry!AccessNext
<1>1. S \in SUBSET Sessions
  BY DEF Live
<1>2. /\ \A s \in S : session'[s].state = "REVOKED"
      /\ \A s \in Sessions \ S : session'[s] = session[s]
  BY <1>1 DEF Revoked
<1>3. Active' = Active
  BY DEF Active
<1>4. Stat' = [s \in Sessions |-> IF s \in S THEN "CLOSED" ELSE Stat[s]]
  BY <1>1, <1>2 DEF Stat, StatusOf
<1>5. \A s \in S : Stat[s] = "OPEN"
  BY <1>1 DEF Stat, StatusOf, Live
<1>6. \A s \in S : Reach(s)' = {}
  BY <1>2 DEF Reach, Accepts, Live
<1>7. \A s \in Sessions \ S : Reach(s)' = Reach(s)
  BY <1>2, <1>3 DEF Reach, Accepts, Live
<1>8. Reached' = [s \in Sessions |-> IF s \in S THEN {} ELSE Reached[s]]
  BY <1>6, <1>7 DEF Reached
<1>9. Entry!Close(S)
  BY <1>3, <1>4, <1>5, <1>8 DEF Entry!Close, Stat, Reached, Reach
<1> QED
  BY <1>1, <1>9 DEF Entry!AccessNext

LEMMA EndSessionCloses ==
  ASSUME IInv, EndSession
  PROVE  Entry!AccessNext
<1>1. PICK s \in Live :
        /\ session' = [session EXCEPT ![s] = Revoked]
        /\ UNCHANGED <<tokens, membership>>
  BY DEF EndSession
<1>2. session' = [x \in Sessions |-> IF x \in {s} THEN Revoked ELSE session[x]]
  BY <1>1 DEF IInv, TypeOK, Live
<1>3. {s} \in SUBSET Live
  OBVIOUS
<1> QED
  BY <1>1, <1>2, <1>3, ClosingCloses

LEMMA FinishSweepCloses ==
  ASSUME NEW r \in Requests, FinishSweep(r)
  PROVE  Entry!AccessNext
<1>1. PICK S \in SUBSET Live :
        /\ session' = [s \in Sessions |-> IF s \in S THEN Revoked ELSE session[s]]
        /\ UNCHANGED <<tokens, membership>>
  BY DEF FinishSweep
<1> QED
  BY <1>1, ClosingCloses

\* The last token accepted for the place of a session may expire.
LEMMA ExpireTokenMoves ==
  ASSUME IInv, ExpireToken
  PROVE  Entry!AccessNext \/ UNCHANGED Entry!accessVars
<1>1. PICK t \in tokens : tokens' = tokens \ {t} /\ UNCHANGED <<membership, session>>
  BY DEF ExpireToken
<1>2. PICK s \in Sessions, c \in Contexts : t = <<s, c>>
  BY DEF IInv, TypeOK, Token
<1>3. Stat' = Stat /\ Active' = Active /\ Live' = Live
  BY <1>1 DEF Stat, StatusOf, Active, Live
<1>4. \A x \in Sessions, d \in Contexts : Accepts(x, d)' <=> Accepts(x, d)
  BY <1>1, <1>3 DEF Accepts
<1>5. \A x \in Sessions \ {s} : Reach(x)' = Reach(x)
  BY <1>1, <1>2, <1>4 DEF Reach
<1>6. CASE Accepts(s, c)
  <2>1. Reach(s)' = {}
    BY <1>1, <1>2, <1>4, <1>6 DEF Reach, Accepts
  <2> QED
    BY <1>3, <1>5, <2>1, MovesOne
<1>7. CASE ~Accepts(s, c)
  <2>1. Reach(s)' = Reach(s)
    BY <1>1, <1>2, <1>4, <1>7 DEF Reach
  <2>2. Reached' = Reached
    BY <1>5, <2>1 DEF Reached
  <2> QED
    BY <1>3, <2>2 DEF Entry!accessVars, Stat, Reached, Reach
<1> QED
  BY <1>6, <1>7

\* A membership that becomes active lets those back in whose session and token
\* still name it.
LEMMA ActiveAgain ==
  ASSUME NEW m \in Memberships, m \notin Active, Active' = Active \cup {m},
         UNCHANGED <<session, tokens>>
  PROVE  Entry!AccessNext
<1> DEFINE S == {s \in Sessions : <<s, m>> \in tokens /\ s \in Live
                                  /\ m = session[s].bound}
<1>1. m \in Contexts /\ m # Neutral
  BY SentinelAssumption DEF Contexts
<1>2. Stat' = Stat /\ Live' = Live
  BY DEF Stat, StatusOf, Live
<1>3. \A s \in S : Reach(s)' = {m} /\ Reach(s) = {} /\ Stat[s] = "OPEN"
  BY <1>1, <1>2 DEF Reach, Accepts, Stat, StatusOf, Live
<1>4. \A s \in Sessions \ S : Reach(s)' = Reach(s)
  BY <1>1, <1>2 DEF Reach, Accepts
<1>5. Reached' = [s \in Sessions |-> IF s \in S THEN {m} ELSE Reached[s]]
  BY <1>3, <1>4 DEF Reached
<1>6. S \in SUBSET {s \in Sessions : Stat[s] = "OPEN" /\ Reached[s] = {}}
  BY <1>3 DEF Reached
<1> HIDE DEF S
<1>7. \E Q \in SUBSET {s \in Sessions : Stat[s] = "OPEN" /\ Reached[s] = {}} :
        Reached' = [s \in Sessions |-> IF s \in Q THEN {m} ELSE Reached[s]]
  BY <1>5, <1>6
<1>8. Entry!Activate(m)
  BY <1>2, <1>7 DEF Entry!Activate, Stat, Reached, Reach
<1> QED
  BY <1>8 DEF Entry!AccessNext

LEMMA AdministerMoves ==
  ASSUME IInv, Administer
  PROVE  Entry!AccessNext
<1>1. PICK m \in Existing :
        /\ membership' = [membership EXCEPT ![m] =
                            IF @ = "ACTIVE" THEN "INACTIVE" ELSE "ACTIVE"]
        /\ UNCHANGED <<session, tokens>>
  BY DEF Administer
<1>2. /\ m \in Memberships
      /\ membership'[m] = IF m \in Active THEN "INACTIVE" ELSE "ACTIVE"
      /\ \A x \in Memberships \ {m} : membership'[x] = membership[x]
  BY <1>1 DEF Existing, Active, IInv, TypeOK
<1>3. CASE m \in Active
  <2>1. Active' = Active \ {m}
    BY <1>2, <1>3 DEF Active
  <2>2. Stat' = Stat /\ Live' = Live
    BY <1>1 DEF Stat, StatusOf, Live
  <2>3. \A s \in Sessions : Reach(s)' = Reach(s) \ {m}
    BY <1>1, <1>2, <2>1, <2>2, SentinelAssumption DEF Reach, Accepts
  <2>4. Reached' = [s \in Sessions |-> Reached[s] \ {m}]
    BY <2>3 DEF Reached
  <2>5. Entry!Suspend(m)
    BY <2>1, <2>2, <2>4 DEF Entry!Suspend, Stat, Reached, Reach
  <2> QED
    BY <1>2, <2>5 DEF Entry!AccessNext
<1>4. CASE m \notin Active
  <2>1. Active' = Active \cup {m}
    BY <1>2, <1>4 DEF Active
  <2> QED
    BY <1>1, <1>2, <1>4, <2>1, ActiveAgain
<1> QED
  BY <1>3, <1>4

LEMMA CreateWorkshopActivates ==
  ASSUME IInv, NEW r \in Requests, CreateWorkshop(r)
  PROVE  Entry!AccessNext
<1>1. PICK m \in Memberships \ Existing :
        membership' = [membership EXCEPT ![m] = "ACTIVE"]
  BY DEF CreateWorkshop
<1>2. m \in Memberships /\ m \notin Active /\ UNCHANGED <<session, tokens>>
  BY DEF Existing, Active, CreateWorkshop
<1>3. Active' = Active \cup {m}
  BY <1>1, <1>2 DEF Active, IInv, TypeOK
<1> QED
  BY <1>2, <1>3, ActiveAgain

LEMMA StepsImplementAccess ==
  IInv /\ [Next]_vars => Entry!AccessNext \/ UNCHANGED Entry!accessVars
<1> SUFFICES ASSUME IInv, [Next]_vars
             PROVE  Entry!AccessNext \/ UNCHANGED Entry!accessVars
  OBVIOUS
<1>1. CASE UNCHANGED <<membership, session, tokens>>
  BY <1>1 DEF Entry!accessVars, StatusOf, Accepts, Active, Live
<1>2. CASE EndSession \/ ExpireToken \/ Administer
  BY <1>2, EndSessionCloses, ExpireTokenMoves, AdministerMoves
<1>3. ASSUME NEW r \in Requests,
             \/ IssueSession(r) \/ CreateWorkshop(r) \/ ActivateMembership(r)
             \/ SignAccessToken(r) \/ FinishSweep(r)
      PROVE  Entry!AccessNext \/ UNCHANGED Entry!accessVars
  <2>1. CASE ActivateMembership(r) /\ txn[r].session \notin Live
    BY <1>1, <2>1 DEF ActivateMembership
  <2> QED
    BY <1>3, <2>1, IssueSessionOpens, CreateWorkshopActivates,
       ActivateMembershipMoves, SignAccessTokenMoves, FinishSweepCloses
<1>4. ASSUME NEW r \in Requests,
             \/ Rollback(r) \/ Admit(r) \/ ArriveLogin(r) \/ ArriveRefresh(r)
             \/ ArriveReset(r) \/ ReadMembership(r) \/ VerifyPassword(r)
             \/ BeginSweep(r)
      PROVE  UNCHANGED <<membership, session, tokens>>
  BY <1>4 DEF Rollback, Admit, ArriveLogin, ArriveRefresh, ArriveReset,
     ReadMembership, VerifyPassword, BeginSweep, rows
<1>5. CASE UNCHANGED vars
  BY <1>1, <1>5 DEF vars
<1> QED
  BY <1>1, <1>2, <1>3, <1>4, <1>5 DEF Next

\* However requests interleave, fail or sign what is out of date, a session gives
\* access to one context at a time, and to none once it is closed.
THEOREM AccessImplemented == Spec => ImplementsAccess
BY AccessStarts, StepsImplementAccess, Invariance, PTL
DEF Spec, ImplementsAccess, Entry!AccessSpec
=============================================================================
