------------------------ MODULE WorkshopTenancyProofs -------------------------
(***************************************************************************)
(* Theorems about WorkshopTenancy for every number of requests and users:  *)
(* the lock and the checks keep one owner, the owner is never given a      *)
(* password, and the requests implement the abstract ownership.            *)
(***************************************************************************)
EXTENDS WorkshopTenancy, TLAPS

-----------------------------------------------------------------------------
(* The inductive invariant.                                                *)

\* What a request may rely on from its arrival: its parties are users and the
\* workshop is founded; past the lock: it holds the row; once checked: what it
\* read and checked is still so, because whoever would change it needs the lock.
RequestOK(r) ==
  /\ txn[r].pc # "idle" =>
       /\ txn[r].op \in Ops
       /\ txn[r].actor \in Users /\ txn[r].target \in Users
       /\ txn[r].op = "create" => txn[r].role # Keep /\ txn[r].active = TRUE
       /\ ownerUser # NoUser
  /\ txn[r].pc \in {"locked", "checked"} => rowLock = r
  /\ txn[r].pc = "checked" => CanProceed(txn[r]) /\ txn[r].seen = ownerUser

LockInv == \A r \in Requests : RequestOK(r)

\* Before the workshop is founded it has no members; from then on the one OWNER,
\* active or not, is the user it names.
OwnerInv ==
  /\ ownerUser = NoUser => \A u \in Users : membership[u] = NotAMember
  /\ ownerUser # NoUser =>
       /\ membership[ownerUser].active
       /\ \A u \in Users : membership[u].role = "OWNER" <=> u = ownerUser

IInv == TypeOK /\ LockInv /\ OwnerInv

-----------------------------------------------------------------------------
(* What one write makes of the memberships.                                *)

\* A checked transfer: it moves the OWNER role from the owner to the target, or
\* takes it from the owner who is its target.
LEMMA TransferEffect ==
  ASSUME IInv, NEW r \in Requests, txn[r].pc = "checked", txn[r].op = "transfer"
  PROVE  LET t == txn[r] IN
         /\ ~IsInconsistent(t)
         /\ MembersAfter(t) \in [Users -> Membership]
         /\ OwnerAfter(t) = t.target
         /\ t.target \in Users /\ ownerUser \in Users /\ IsMember(t.target)
         /\ \A u \in Users : MembersAfter(t)[u] =
              IF u = ownerUser THEN [role |-> "ADMIN", active |-> TRUE]
              ELSE IF u = t.target THEN [role |-> "OWNER", active |-> TRUE]
              ELSE membership[u]
<1> DEFINE t == txn[r]
<1>1. /\ t.target \in Users /\ ownerUser \in Users /\ t.seen = ownerUser
      /\ IsMember(t.target) /\ membership \in [Users -> Membership]
      /\ membership[ownerUser] = [role |-> "OWNER", active |-> TRUE]
  <2>1. t.target \in Users /\ ownerUser \in Users /\ t.seen = ownerUser
    BY DEF IInv, TypeOK, LockInv, RequestOK
  <2>2. CanProceed(t) /\ membership \in [Users -> Membership]
    BY DEF IInv, TypeOK, LockInv, RequestOK
  <2>3. membership[ownerUser].active /\ membership[ownerUser].role = "OWNER"
    BY <2>1, SentinelAssumption DEF IInv, OwnerInv
  <2>4. membership[ownerUser] = [role |-> "OWNER", active |-> TRUE]
    BY <2>1, <2>2, <2>3 DEF Membership
  <2> QED
    BY <2>1, <2>2, <2>4 DEF CanProceed
<1> DEFINE P == Promoted(t)
<1>2. /\ P \in [Users -> Membership]
      /\ \A u \in Users : P[u] = IF u = t.target
                                 THEN [role |-> "OWNER", active |-> TRUE]
                                 ELSE membership[u]
  BY <1>1 DEF Promoted, Membership
<1>3. ~IsInconsistent(t)
  BY <1>1, <1>2 DEF IsInconsistent, IsActiveOwner
<1>4. MembersAfter(t) =
        [P EXCEPT ![ownerUser] = [role |-> "ADMIN", active |-> @.active]]
  BY <1>1 DEF MembersAfter, Demoted
<1>5. P[ownerUser] = [role |-> "OWNER", active |-> TRUE]
  BY <1>1, <1>2
<1> HIDE DEF P
<1>6. MembersAfter(t) = [P EXCEPT ![ownerUser] = [role |-> "ADMIN", active |-> TRUE]]
  BY <1>1, <1>4, <1>5
<1>7. \A u \in Users : MembersAfter(t)[u] =
        IF u = ownerUser THEN [role |-> "ADMIN", active |-> TRUE] ELSE P[u]
  BY <1>1, <1>2, <1>6
<1>8. MembersAfter(t) \in [Users -> Membership]
  BY <1>1, <1>2, <1>6 DEF Membership, GenericRoles
<1> QED
  BY <1>1, <1>2, <1>3, <1>7, <1>8 DEF OwnerAfter

\* Any other checked request: at most its target changes, who is not the owner
\* and does not become one.
LEMMA GenericEffect ==
  ASSUME IInv, NEW r \in Requests, txn[r].pc = "checked", txn[r].op # "transfer"
  PROVE  LET t == txn[r] IN
         /\ ~IsInconsistent(t)
         /\ MembersAfter(t) \in [Users -> Membership]
         /\ OwnerAfter(t) = ownerUser
         /\ t.target \in Users \ {ownerUser} /\ ownerUser \in Users
         /\ \A u \in Users \ {t.target} : MembersAfter(t)[u] = membership[u]
         /\ \/ MembersAfter(t) = membership
            \/ MembersAfter(t)[t.target].role \in GenericRoles
<1> DEFINE t == txn[r]
<1>1. /\ t.target \in Users /\ ownerUser \in Users /\ t.op \in Ops /\ t \in Txn
      /\ t.op = "create" => t.role # Keep /\ t.active = TRUE
      /\ membership \in [Users -> Membership]
      /\ CanProceed(t)
  BY DEF IInv, TypeOK, LockInv, RequestOK
<1>2. membership[t.target].role # "OWNER"
  BY <1>1 DEF CanProceed, IsMember, IsGeneric, Ops
<1>3. t.target # ownerUser
  BY <1>1, <1>2, SentinelAssumption DEF IInv, OwnerInv
<1>4. ~IsInconsistent(t) /\ OwnerAfter(t) = ownerUser
  BY DEF IsInconsistent, OwnerAfter
<1>5. CASE t.op = "reset-password"
  <2>1. MembersAfter(t) = membership
    BY <1>5 DEF MembersAfter
  <2> QED
    BY <1>1, <1>3, <1>4, <2>1
<1>6. CASE t.op # "reset-password"
  <2> DEFINE new == [role |-> Asked(membership[t.target].role, t.role),
                     active |-> Asked(membership[t.target].active, t.active)]
  <2>1. new.role \in GenericRoles /\ new \in Membership
    <3>1. t.role \in GenericRoles \cup {Keep} /\ t.active \in BOOLEAN \cup {Keep}
      BY <1>1 DEF Txn
    <3>2. t.role # Keep \/ membership[t.target].role \in GenericRoles
      BY <1>1, <1>6 DEF CanProceed, IsMember, IsGeneric, Ops, Membership
    <3>3. Asked(membership[t.target].role, t.role) \in GenericRoles
      BY <3>1, <3>2 DEF Asked
    <3>4. Asked(membership[t.target].active, t.active) \in BOOLEAN
      BY <1>1, <3>1 DEF Asked, Membership
    <3> QED
      BY <3>3, <3>4 DEF Membership
  <2>2. MembersAfter(t) = [membership EXCEPT ![t.target] = new]
    <3>1. CASE t.op = "create"
      <4>1. new = [role |-> t.role, active |-> TRUE]
        BY <1>1, <3>1, KeepAssumption DEF Asked
      <4> QED
        BY <3>1, <4>1 DEF MembersAfter, Created
    <3>2. CASE t.op # "create"
      BY <1>6, <3>2 DEF MembersAfter, Updated
    <3> QED
      BY <3>1, <3>2
  <2> HIDE DEF new
  <2>3. MembersAfter(t) \in [Users -> Membership]
    BY <1>1, <2>1, <2>2
  <2>4. MembersAfter(t)[t.target] = new
    BY <1>1, <2>2
  <2>5. \A u \in Users \ {t.target} : MembersAfter(t)[u] = membership[u]
    BY <1>1, <2>2
  <2> QED
    BY <1>1, <1>3, <1>4, <2>1, <2>3, <2>4, <2>5
<1> QED
  BY <1>5, <1>6

\* A generic write leaves the constraint as true as it was.
LEMMA GenericKeepsConstraint ==
  ASSUME IInv, NEW r \in Requests, txn[r].pc = "checked", txn[r].op # "transfer"
  PROVE  OwnerConstraint(MembersAfter(txn[r]), OwnerAfter(txn[r]))
<1> DEFINE t == txn[r]
           M == MembersAfter(t)
<1>1. /\ M \in [Users -> Membership]
      /\ t.target \in Users \ {ownerUser} /\ ownerUser \in Users
      /\ OwnerAfter(t) = ownerUser
      /\ \A u \in Users \ {t.target} : M[u] = membership[u]
      /\ M = membership \/ M[t.target].role \in GenericRoles
  BY GenericEffect
<1>2. /\ membership[ownerUser].active
      /\ \A u \in Users : membership[u].role = "OWNER" <=> u = ownerUser
      /\ membership \in [Users -> Membership]
  BY <1>1, SentinelAssumption DEF IInv, OwnerInv, TypeOK
<1> HIDE DEF M
<1>3. IsActiveOwner(M, ownerUser)
  BY <1>1, <1>2 DEF IsActiveOwner, Membership
<1>4. ASSUME NEW u \in Users, IsActiveOwner(M, u) PROVE u = ownerUser
  <2>1. M[u].role = "OWNER"
    BY <1>4 DEF IsActiveOwner
  <2>2. membership[u].role = "OWNER"
    BY <1>1, <2>1 DEF GenericRoles
  <2> QED
    BY <1>2, <2>2
<1>5. OwnerConstraint(M, ownerUser)
  BY <1>1, <1>3, <1>4 DEF OwnerConstraint
<1> QED
  BY <1>1, <1>5 DEF M

\* The constraint stops a transfer exactly if its target is the owner already.
LEMMA TransferMeetsConstraint ==
  ASSUME IInv, NEW r \in Requests, txn[r].pc = "checked", txn[r].op = "transfer"
  PROVE  OwnerConstraint(MembersAfter(txn[r]), OwnerAfter(txn[r]))
           <=> txn[r].target # ownerUser
<1> DEFINE t == txn[r]
           M == MembersAfter(t)
<1>1. /\ OwnerAfter(t) = t.target
      /\ t.target \in Users /\ ownerUser \in Users
      /\ \A u \in Users : M[u] =
           IF u = ownerUser THEN [role |-> "ADMIN", active |-> TRUE]
           ELSE IF u = t.target THEN [role |-> "OWNER", active |-> TRUE]
           ELSE membership[u]
  BY TransferEffect
<1>2. /\ \A u \in Users : membership[u].role = "OWNER" <=> u = ownerUser
  BY <1>1, SentinelAssumption DEF IInv, OwnerInv
<1> HIDE DEF M
<1>3. ~IsActiveOwner(M, ownerUser)
  BY <1>1 DEF IsActiveOwner
<1>4. ASSUME NEW u \in Users \ {ownerUser}
      PROVE  IsActiveOwner(M, u) <=> u = t.target
  BY <1>1, <1>2 DEF IsActiveOwner
<1>5. OwnerConstraint(M, t.target) <=> t.target # ownerUser
  BY <1>1, <1>3, <1>4 DEF OwnerConstraint
<1> QED
  BY <1>1, <1>5 DEF M

-----------------------------------------------------------------------------
(* Invariance.                                                             *)

LEMMA IdleTyped == Idle \in Txn
BY DEF Idle, Txn

\* A request that ends takes its lock with it and leaves what the others rely on.
LEMMA EndingKeepsTheOthers ==
  ASSUME IInv, NEW r \in Requests, End(r)
  PROVE  /\ txn' \in [Requests -> Txn] /\ rowLock' \in Requests \cup {NoRequest}
         /\ txn'[r] = Idle
         /\ \A q \in Requests \ {r} : txn'[q] = txn[q]
         /\ \A q \in Requests \ {r} : rowLock = q => rowLock' = q
BY IdleTyped DEF IInv, TypeOK, End

\* The same for a step that ends a request and writes nothing.
LEMMA EndingKeepsIInv ==
  ASSUME IInv, NEW r \in Requests, End(r), UNCHANGED rows
  PROVE  IInv'
<1>1. TypeOK'
  BY EndingKeepsTheOthers DEF IInv, TypeOK, rows
<1>2. LockInv'
  <2> SUFFICES ASSUME NEW q \in Requests PROVE RequestOK(q)'
    BY DEF LockInv
  <2>1. CASE q = r
    BY <2>1, EndingKeepsTheOthers DEF RequestOK, Idle
  <2>2. CASE q # r
    BY <2>2, EndingKeepsTheOthers
    DEF IInv, LockInv, RequestOK, rows, CanProceed, IsGeneric, IsMember
  <2> QED
    BY <2>1, <2>2
<1> QED
  BY <1>1, <1>2 DEF IInv, OwnerInv, rows

LEMMA InitIInv == Init => IInv
<1> SUFFICES ASSUME Init PROVE IInv
  OBVIOUS
<1>1. TypeOK
  BY IdleTyped DEF Init, TypeOK, NotAMember, Membership
<1> QED
  BY <1>1 DEF Init, IInv, LockInv, RequestOK, OwnerInv, Idle

LEMMA CreateWorkshopKeepsIInv ==
  ASSUME IInv, CreateWorkshop
  PROVE  IInv'
<1>1. PICK u \in Users :
        /\ ownerUser = NoUser /\ ownerUser' = u
        /\ membership' = [membership EXCEPT ![u] =
                            [role |-> "OWNER", active |-> TRUE]]
  BY DEF CreateWorkshop
<1>2. UNCHANGED <<mustChangePassword, rowLock, txn>>
  BY DEF CreateWorkshop
<1>3. \A v \in Users : membership[v] = NotAMember
  BY <1>1 DEF IInv, OwnerInv
<1>4. TypeOK'
  BY <1>1, <1>2 DEF IInv, TypeOK, Membership
<1>5. \A r \in Requests : txn[r].pc = "idle"
  BY <1>1 DEF IInv, LockInv, RequestOK
<1>6. LockInv'
  BY <1>2, <1>5 DEF LockInv, RequestOK
<1>7. OwnerInv'
  <2>1. \A v \in Users : membership'[v] =
          IF v = u THEN [role |-> "OWNER", active |-> TRUE] ELSE NotAMember
    BY <1>1, <1>3 DEF IInv, TypeOK
  <2> QED
    BY <1>1, <2>1, SentinelAssumption DEF OwnerInv, NotAMember
<1> QED
  BY <1>4, <1>6, <1>7 DEF IInv

LEMMA ChangePasswordKeepsIInv ==
  ASSUME IInv, ChangePassword
  PROVE  IInv'
<1>1. TypeOK'
  BY DEF ChangePassword, IInv, TypeOK
<1>2. UNCHANGED <<ownerUser, membership, rowLock, txn>>
  BY DEF ChangePassword
<1>3. LockInv' /\ OwnerInv'
  BY <1>2 DEF IInv, LockInv, RequestOK, OwnerInv, CanProceed, IsGeneric, IsMember
<1> QED
  BY <1>1, <1>3 DEF IInv

LEMMA ArriveKeepsIInv ==
  ASSUME IInv, NEW r \in Requests, Arrive(r)
  PROVE  IInv'
<1>1. PICK op \in Ops, actor \in Users, target \in Users,
           role \in GenericRoles \cup {Keep}, active \in BOOLEAN \cup {Keep} :
        /\ txn' = [txn EXCEPT ![r] =
                     [Idle EXCEPT !.pc = "arrived", !.op = op, !.actor = actor,
                                  !.target = target, !.role = role,
                                  !.active = active]]
        /\ Authorised(actor, op)
        /\ op = "create" => role # Keep /\ active = TRUE
  BY KeepAssumption DEF Arrive, Request, Ops, GenericRoles
<1>2. UNCHANGED <<rows, rowLock>>
  BY DEF Arrive, Request
<1> DEFINE new == [Idle EXCEPT !.pc = "arrived", !.op = op, !.actor = actor,
                               !.target = target, !.role = role,
                               !.active = active]
<1>3. new \in Txn
  BY DEF Idle, Txn, Ops
<1>4. new.pc = "arrived" /\ new.op = op /\ new.actor = actor
      /\ new.target = target /\ new.role = role /\ new.active = active
  BY DEF Idle
<1>5. ownerUser # NoUser
  BY <1>1 DEF IInv, OwnerInv, Authorised, NotAMember
<1> HIDE DEF new
<1>6. txn'[r] = new /\ \A q \in Requests \ {r} : txn'[q] = txn[q]
  BY <1>1 DEF new, IInv, TypeOK
<1>7. TypeOK'
  BY <1>1, <1>2, <1>3 DEF IInv, TypeOK, rows, new
<1>8. LockInv'
  <2> SUFFICES ASSUME NEW q \in Requests PROVE RequestOK(q)'
    BY DEF LockInv
  <2>1. CASE q = r
    BY <2>1, <1>1, <1>2, <1>4, <1>5, <1>6 DEF RequestOK, rows
  <2>2. CASE q # r
    BY <2>2, <1>2, <1>6
    DEF IInv, LockInv, RequestOK, rows, CanProceed, IsGeneric, IsMember
  <2> QED
    BY <2>1, <2>2
<1> QED
  BY <1>2, <1>7, <1>8 DEF IInv, OwnerInv, rows

LEMMA LockWorkshopKeepsIInv ==
  ASSUME IInv, NEW r \in Requests, LockWorkshop(r)
  PROVE  IInv'
<1>1. /\ txn[r].pc = "arrived" /\ rowLock = NoRequest /\ rowLock' = r
      /\ txn' = [txn EXCEPT ![r].pc = "locked"] /\ UNCHANGED rows
  BY DEF LockWorkshop
<1>2. /\ txn'[r] = [txn[r] EXCEPT !.pc = "locked"]
      /\ \A q \in Requests \ {r} : txn'[q] = txn[q]
      /\ txn[r] \in Txn
  BY <1>1 DEF IInv, TypeOK
<1>3. txn'[r] \in Txn
  BY <1>2 DEF Txn
<1>4. TypeOK'
  BY <1>1, <1>2, <1>3 DEF IInv, TypeOK, rows
<1>5. LockInv'
  <2> SUFFICES ASSUME NEW q \in Requests PROVE RequestOK(q)'
    BY DEF LockInv
  <2>1. CASE q = r
    <3>1. /\ txn'[r].pc = "locked" /\ txn'[r].op = txn[r].op
          /\ txn'[r].actor = txn[r].actor /\ txn'[r].target = txn[r].target
          /\ txn'[r].role = txn[r].role /\ txn'[r].active = txn[r].active
      BY <1>2 DEF Txn
    <3> QED
      BY <2>1, <3>1, <1>1 DEF IInv, LockInv, RequestOK, rows
  <2>2. CASE q # r
    <3>1. txn[q].pc \notin {"locked", "checked"}
      BY <1>1, SentinelAssumption DEF IInv, LockInv, RequestOK
    <3> QED
      BY <2>2, <3>1, <1>1, <1>2 DEF IInv, LockInv, RequestOK, rows
  <2> QED
    BY <2>1, <2>2
<1> QED
  BY <1>1, <1>4, <1>5 DEF IInv, OwnerInv, rows

LEMMA ReadRowsKeepsIInv ==
  ASSUME IInv, NEW r \in Requests, ReadRows(r)
  PROVE  IInv'
<1>1. CASE CanProceed(txn[r])
  <2>1. /\ txn[r].pc = "locked" /\ UNCHANGED <<rows, rowLock>>
        /\ txn' = [txn EXCEPT ![r].pc = "checked", ![r].seen = ownerUser]
    BY <1>1 DEF ReadRows
  <2>2. /\ txn'[r] = [txn[r] EXCEPT !.pc = "checked", !.seen = ownerUser]
        /\ \A q \in Requests \ {r} : txn'[q] = txn[q]
        /\ txn[r] \in Txn
    BY <2>1 DEF IInv, TypeOK
  <2>3. txn'[r] \in Txn
    BY <2>2 DEF Txn, IInv, TypeOK
  <2>4. TypeOK'
    BY <2>1, <2>2, <2>3 DEF IInv, TypeOK, rows
  <2>5. /\ txn'[r].pc = "checked" /\ txn'[r].op = txn[r].op
        /\ txn'[r].actor = txn[r].actor /\ txn'[r].target = txn[r].target
        /\ txn'[r].role = txn[r].role /\ txn'[r].active = txn[r].active
        /\ txn'[r].seen = ownerUser
    BY <2>2 DEF Txn
  <2>6. CanProceed(txn[r])'
    BY <1>1, <2>1, <2>5 DEF CanProceed, IsGeneric, IsMember, rows
  <2>7. LockInv'
    <3> SUFFICES ASSUME NEW q \in Requests PROVE RequestOK(q)'
      BY DEF LockInv
    <3>1. CASE q = r
      BY <3>1, <2>1, <2>5, <2>6 DEF IInv, LockInv, RequestOK, rows
    <3>2. CASE q # r
      BY <3>2, <2>1, <2>2
      DEF IInv, LockInv, RequestOK, rows, CanProceed, IsGeneric, IsMember
    <3> QED
      BY <3>1, <3>2
  <2> QED
    BY <2>1, <2>4, <2>7 DEF IInv, OwnerInv, rows
<1>2. CASE ~CanProceed(txn[r])
  BY <1>2, EndingKeepsIInv DEF ReadRows
<1> QED
  BY <1>1, <1>2

\* A write that is committed.
LEMMA WriteCases ==
  ASSUME IInv, NEW r \in Requests, WriteAndCommit(r)
  PROVE  LET t == txn[r] IN
         /\ t.pc = "checked" /\ End(r)
         /\ \/ UNCHANGED rows
            \/ /\ OwnerConstraint(MembersAfter(t), OwnerAfter(t))
               /\ membership' = MembersAfter(t)
               /\ ownerUser' = OwnerAfter(t)
               /\ mustChangePassword' = PasswordsAfter(t)
BY DEF WriteAndCommit

LEMMA WriteAndCommitKeepsIInv ==
  ASSUME IInv, NEW r \in Requests, WriteAndCommit(r)
  PROVE  IInv'
<1> DEFINE t == txn[r]
           M == MembersAfter(t)
<1>1. t.pc = "checked" /\ End(r)
  BY WriteCases
<1>2. CASE UNCHANGED rows
  BY <1>1, <1>2, EndingKeepsIInv
<1>3. CASE /\ OwnerConstraint(M, OwnerAfter(t))
           /\ membership' = M
           /\ ownerUser' = OwnerAfter(t)
           /\ mustChangePassword' = PasswordsAfter(t)
  <2>1. t.target \in Users /\ ownerUser \in Users
    BY <1>1 DEF IInv, TypeOK, LockInv, RequestOK
  <2>2. M \in [Users -> Membership] /\ ownerUser' \in Users
    BY <1>1, <1>3, <2>1, TransferEffect, GenericEffect
  <2>3. mustChangePassword' \in [Users -> BOOLEAN]
    BY <1>3, <2>1 DEF PasswordsAfter, IInv, TypeOK
  <2>4. TypeOK'
    BY <1>1, <1>3, <2>2, <2>3, EndingKeepsTheOthers DEF TypeOK
  <2>5. LockInv'
    <3> SUFFICES ASSUME NEW q \in Requests PROVE RequestOK(q)'
      BY DEF LockInv
    <3>1. CASE q = r
      BY <3>1, <1>1, EndingKeepsTheOthers DEF RequestOK, Idle
    <3>2. CASE q # r
      <4>1. rowLock = r
        BY <1>1 DEF IInv, LockInv, RequestOK
      <4>2. txn[q].pc \notin {"locked", "checked"} /\ txn'[q] = txn[q]
        BY <4>1, <3>2, <1>1, EndingKeepsTheOthers DEF IInv, LockInv, RequestOK
      <4> QED
        BY <4>2, <2>2, SentinelAssumption DEF IInv, LockInv, RequestOK
    <3> QED
      BY <3>1, <3>2
  <2>6. OwnerInv'
    <3>1. \A u \in Users : M[u].role = "OWNER" <=> u = ownerUser'
      <4>1. CASE t.op = "transfer"
        <5>1. /\ t.target # ownerUser /\ ownerUser' = t.target
              /\ \A u \in Users : M[u] =
                   IF u = ownerUser THEN [role |-> "ADMIN", active |-> TRUE]
                   ELSE IF u = t.target THEN [role |-> "OWNER", active |-> TRUE]
                   ELSE membership[u]
          BY <1>1, <1>3, <4>1, TransferEffect, TransferMeetsConstraint
        <5>2. \A u \in Users : membership[u].role = "OWNER" <=> u = ownerUser
          BY <2>1, SentinelAssumption DEF IInv, OwnerInv
        <5> HIDE DEF M
        <5> QED
          BY <5>1, <5>2
      <4>2. CASE t.op # "transfer"
        <5>1. /\ ownerUser' = ownerUser /\ t.target # ownerUser
              /\ \A u \in Users \ {t.target} : M[u] = membership[u]
              /\ M = membership \/ M[t.target].role \in GenericRoles
          BY <1>1, <1>3, <4>2, GenericEffect
        <5>2. \A u \in Users : membership[u].role = "OWNER" <=> u = ownerUser
          BY <2>1, SentinelAssumption DEF IInv, OwnerInv
        <5> HIDE DEF M
        <5> QED
          BY <5>1, <5>2 DEF GenericRoles
      <4> QED
        BY <4>1, <4>2
    <3>2. M[ownerUser'].active
      BY <1>3, <2>2 DEF OwnerConstraint, IsActiveOwner
    <3> QED
      BY <1>3, <2>2, <3>1, <3>2, SentinelAssumption DEF OwnerInv
  <2> QED
    BY <2>4, <2>5, <2>6 DEF IInv
<1> QED
  BY <1>2, <1>3, WriteCases

LEMMA NextKeepsIInv == IInv /\ [Next]_vars => IInv'
<1> SUFFICES ASSUME IInv, [Next]_vars PROVE IInv'
  OBVIOUS
<1>1. CASE CreateWorkshop
  BY <1>1, CreateWorkshopKeepsIInv
<1>2. CASE ChangePassword
  BY <1>2, ChangePasswordKeepsIInv
<1>3. ASSUME NEW r \in Requests, Arrive(r) PROVE IInv'
  BY <1>3, ArriveKeepsIInv
<1>4. ASSUME NEW r \in Requests, LockWorkshop(r) PROVE IInv'
  BY <1>4, LockWorkshopKeepsIInv
<1>5. ASSUME NEW r \in Requests, ReadRows(r) PROVE IInv'
  BY <1>5, ReadRowsKeepsIInv
<1>6. ASSUME NEW r \in Requests, WriteAndCommit(r) PROVE IInv'
  BY <1>6, WriteAndCommitKeepsIInv
<1>7. ASSUME NEW r \in Requests, Rollback(r) PROVE IInv'
  BY <1>7, EndingKeepsIInv DEF Rollback
<1>8. CASE UNCHANGED vars
  BY <1>8 DEF vars, IInv, TypeOK, LockInv, RequestOK, OwnerInv, CanProceed,
              IsGeneric, IsMember
<1> QED
  BY <1>1, <1>2, <1>3, <1>4, <1>5, <1>6, <1>7, <1>8 DEF Next

-----------------------------------------------------------------------------
(* Theorems.                                                               *)

\* What requests rely on and what the table of memberships needs holds in every
\* reachable state.
THEOREM Invariance == Spec => []IInv
BY InitIInv, NextKeepsIInv, PTL DEF Spec

\* Rows and requests keep their types, whatever the number of users and requests.
THEOREM TypeCorrect == Spec => []TypeOK
<1>1. IInv => TypeOK
  BY DEF IInv
<1> QED
  BY <1>1, Invariance, PTL

\* The row lock and the checks keep one owner without the deferred constraint,
\* but for a transfer to somebody who has become the owner meanwhile.
THEOREM ConstraintIsLastGuard == Spec => []ConstraintStopsOnlyRepeats
<1>1. IInv => ConstraintStopsOnlyRepeats
  <2> SUFFICES ASSUME IInv, NEW r \in Requests, txn[r].pc = "checked"
               PROVE  /\ ~IsInconsistent(txn[r])
                      /\ \/ OwnerConstraint(MembersAfter(txn[r]), OwnerAfter(txn[r]))
                         \/ txn[r].op = "transfer" /\ txn[r].target = ownerUser
    BY DEF ConstraintStopsOnlyRepeats
  <2>1. CASE txn[r].op = "transfer"
    BY <2>1, TransferEffect, TransferMeetsConstraint
  <2>2. CASE txn[r].op # "transfer"
    BY <2>2, GenericEffect, GenericKeepsConstraint
  <2> QED
    BY <2>1, <2>2
<1> QED
  BY <1>1, Invariance, PTL

\* Only a generic write sets the flag, and only that of its target.
LEMMA FlaggedIsNotOwner ==
  IInv /\ [Next]_vars =>
    [\A u \in Users :
       ~mustChangePassword[u] /\ mustChangePassword'[u] => u # ownerUser]_vars
<1> SUFFICES ASSUME IInv, [Next]_vars, NEW u \in Users,
                    ~mustChangePassword[u], mustChangePassword'[u]
             PROVE  u # ownerUser
  OBVIOUS
<1>1. PICK r \in Requests : WriteAndCommit(r)
  <2>1. mustChangePassword' # mustChangePassword
    OBVIOUS
  <2>2. ~ChangePassword
    BY DEF ChangePassword, IInv, TypeOK
  <2> QED
    BY <2>1, <2>2
    DEF Next, vars, rows, CreateWorkshop, Arrive, Request, LockWorkshop,
        ReadRows, Rollback
<1>2. txn[r].pc = "checked" /\ mustChangePassword' = PasswordsAfter(txn[r])
  BY <1>1, WriteCases DEF rows
<1>3. txn[r].op # "transfer" /\ u = txn[r].target
  BY <1>2 DEF PasswordsAfter, IInv, TypeOK
<1> QED
  BY <1>2, <1>3, GenericEffect

\* No interleaving of resets with transfers gives a temporary password to the
\* owner of the workshop.
THEOREM OwnersKeepPasswords == Spec => OwnerKeepsPassword
BY FlaggedIsNotOwner, Invariance, PTL DEF Spec, OwnerKeepsPassword

-----------------------------------------------------------------------------
(* The refinement of Ownership.                                            *)

LEMMA OwnershipStarts == Init => People!OwnershipInit
BY DEF Init, People!OwnershipInit, NotAMember

\* The mapping of a table of memberships that differs from another in one row.
LEMMA PeopleOfOneRow ==
  ASSUME membership \in [Users -> Membership],
         membership' \in [Users -> Membership], NEW u \in Users,
         \A v \in Users \ {u} : membership'[v] = membership[v]
  PROVE  /\ [v \in Users |-> membership'[v].role] =
              [[v \in Users |-> membership[v].role]
                 EXCEPT ![u] = membership'[u].role]
         /\ {v \in Users : membership'[v].active} \in
              {{v \in Users : membership[v].active} \cup {u},
               {v \in Users : membership[v].active} \ {u}}
         /\ membership'[u].active =>
              {v \in Users : membership'[v].active} =
                {v \in Users : membership[v].active} \cup {u}
<1>1. [v \in Users |-> membership'[v].role] =
        [[v \in Users |-> membership[v].role] EXCEPT ![u] = membership'[u].role]
  OBVIOUS
<1>2. CASE membership'[u].active
  <2>1. {v \in Users : membership'[v].active} =
          {v \in Users : membership[v].active} \cup {u}
    BY <1>2
  <2> QED
    BY <1>1, <2>1
<1>3. CASE ~membership'[u].active
  <2>1. {v \in Users : membership'[v].active} =
          {v \in Users : membership[v].active} \ {u}
    BY <1>3
  <2> QED
    BY <1>1, <1>3, <2>1
<1> QED
  BY <1>2, <1>3

LEMMA AbstractSteps ==
  ASSUME NEW u \in Users, People!Found(u) \/ People!Administer(u) \/ People!HandOver(u)
  PROVE  People!OwnershipNext
BY DEF People!OwnershipNext

LEMMA FoundingIsFound ==
  ASSUME IInv, CreateWorkshop
  PROVE  People!OwnershipNext
<1>1. PICK u \in Users :
        /\ ownerUser = NoUser /\ ownerUser' = u
        /\ membership' = [membership EXCEPT ![u] =
                            [role |-> "OWNER", active |-> TRUE]]
  BY DEF CreateWorkshop
<1>2. /\ membership \in [Users -> Membership]
      /\ membership' \in [Users -> Membership]
      /\ membership'[u] = [role |-> "OWNER", active |-> TRUE]
      /\ \A v \in Users \ {u} : membership'[v] = membership[v]
  BY <1>1 DEF IInv, TypeOK, Membership
<1>3. People!Found(u)
  BY <1>1, <1>2, PeopleOfOneRow DEF People!Found
<1> QED
  BY <1>3 DEF People!OwnershipNext

LEMMA TransferIsHandOver ==
  ASSUME IInv, NEW r \in Requests, txn[r].pc = "checked",
         txn[r].op = "transfer",
         OwnerConstraint(MembersAfter(txn[r]), OwnerAfter(txn[r])),
         membership' = MembersAfter(txn[r]), ownerUser' = OwnerAfter(txn[r])
  PROVE  People!OwnershipNext
<1> DEFINE t == txn[r]
<1>1. /\ t.target \in Users /\ ownerUser \in Users /\ t.target # ownerUser
      /\ ownerUser' = t.target /\ IsMember(t.target)
      /\ \A u \in Users : membership'[u] =
           IF u = ownerUser THEN [role |-> "ADMIN", active |-> TRUE]
           ELSE IF u = t.target THEN [role |-> "OWNER", active |-> TRUE]
           ELSE membership[u]
  BY TransferEffect, TransferMeetsConstraint
<1>2. membership[ownerUser].active /\ ownerUser # NoUser
  BY <1>1, SentinelAssumption DEF IInv, OwnerInv
<1>3. [v \in Users |-> membership'[v].role] =
        [[v \in Users |-> membership[v].role]
           EXCEPT ![t.target] = "OWNER", ![ownerUser] = "ADMIN"]
  <2>1. ASSUME NEW v \in Users
        PROVE  membership'[v].role =
                 IF v = ownerUser THEN "ADMIN"
                 ELSE IF v = t.target THEN "OWNER" ELSE membership[v].role
    BY <1>1
  <2> HIDE DEF t
  <2> QED
    BY <1>1, <2>1
<1>4. {v \in Users : membership'[v].active} =
        {v \in Users : membership[v].active} \cup {t.target}
  <2> SUFFICES ASSUME NEW v \in Users
               PROVE  membership'[v].active <=>
                        membership[v].active \/ v = t.target
    BY <1>1
  <2> QED
    BY <1>1, <1>2
<1>5. [v \in Users |-> membership[v].role][t.target] # "NONE"
  BY <1>1 DEF IsMember
<1>6. PICK u \in Users : u = t.target
  BY <1>1
<1>7. People!HandOver(u)
  BY <1>1, <1>2, <1>3, <1>4, <1>5, <1>6 DEF People!HandOver
<1> QED
  BY <1>7, AbstractSteps

LEMMA GenericIsAdminister ==
  ASSUME IInv, NEW r \in Requests, txn[r].pc = "checked",
         txn[r].op # "transfer",
         membership' = MembersAfter(txn[r]), ownerUser' = OwnerAfter(txn[r])
  PROVE  People!OwnershipNext \/ UNCHANGED <<ownerUser, membership>>
<1> DEFINE t == txn[r]
<1>1. /\ t.target \in Users \ {ownerUser} /\ ownerUser \in Users
      /\ ownerUser' = ownerUser
      /\ membership' \in [Users -> Membership]
      /\ \A u \in Users \ {t.target} : membership'[u] = membership[u]
      /\ membership' = membership \/ membership'[t.target].role \in GenericRoles
  BY GenericEffect
<1>2. CASE membership' = membership
  BY <1>1, <1>2
<1>3. CASE membership'[t.target].role \in GenericRoles
  <2>1. membership \in [Users -> Membership]
    BY DEF IInv, TypeOK
  <2>2. PICK u \in Users : u = t.target
    BY <1>1
  <2>3. People!Administer(u)
    BY <1>1, <1>3, <2>1, <2>2, PeopleOfOneRow, SentinelAssumption
    DEF People!Administer, GenericRoles
  <2> QED
    BY <2>3, AbstractSteps
<1> QED
  BY <1>1, <1>2, <1>3

LEMMA StepsImplementOwnership ==
  IInv /\ [Next]_vars => [People!OwnershipNext]_(People!peopleVars)
<1> SUFFICES ASSUME IInv, [Next]_vars
             PROVE  People!OwnershipNext \/ UNCHANGED People!peopleVars
  OBVIOUS
<1>1. UNCHANGED <<ownerUser, membership>> => UNCHANGED People!peopleVars
  BY DEF People!peopleVars
<1>2. CASE CreateWorkshop
  BY <1>2, FoundingIsFound
<1>3. ASSUME NEW r \in Requests, WriteAndCommit(r)
      PROVE  People!OwnershipNext \/ UNCHANGED <<ownerUser, membership>>
  BY <1>3, WriteCases, TransferIsHandOver, GenericIsAdminister DEF rows
<1>4. CASE ~CreateWorkshop /\ ~(\E r \in Requests : WriteAndCommit(r))
  <2>1. UNCHANGED <<ownerUser, membership>>
    BY <1>4 DEF Next, vars, rows, ChangePassword, Arrive, Request, LockWorkshop,
                ReadRows, Rollback
  <2> QED
    BY <1>1, <2>1
<1> QED
  BY <1>1, <1>2, <1>3, <1>4

\* The requests implement the abstract ownership: the workshop passes on as a
\* whole, and everybody but its owner is administered.
THEOREM OwnershipImplemented == Spec => ImplementsOwnership
BY OwnershipStarts, StepsImplementOwnership, Invariance, PTL
DEF Spec, ImplementsOwnership, People!OwnershipSpec
=============================================================================
