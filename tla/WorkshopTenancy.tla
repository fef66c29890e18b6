--------------------------- MODULE WorkshopTenancy ----------------------------
(***************************************************************************)
(* The memberships and the owner of one workshop, as requests to           *)
(* src/modules/workshops/workshops.service.ts and                          *)
(* src/modules/memberships/memberships.service.ts change them, with the    *)
(* deferred owner constraint of the tenancy migration.                     *)
(*                                                                         *)
(* JwtStrategy and RolesGuard look at the caller's membership when the     *)
(* request comes in.  The transaction then locks the row of the workshop,  *)
(* reads what it needs and writes; what it writes becomes visible when it  *)
(* commits, and the constraint is checked just then.                       *)
(*                                                                         *)
(* users.is_active is never written, a membership is never deleted, and    *)
(* every role other than OWNER and ADMIN is STAFF.  The session a caller   *)
(* is bound to, e-mail addresses, and the other workshops of a member are  *)
(* not part of this module: a refusal because of them is a Rollback.       *)
(***************************************************************************)
CONSTANTS
  Requests,   \* the slots in which HTTP requests are served concurrently
  Users,      \* primary keys of users, and so of their memberships here
  NoRequest,  \* nobody holds the row lock of the workshop
  NoUser,     \* no user: the workshop is not founded, or nothing was read
  Keep        \* a field the body of an update leaves out

ASSUME SentinelAssumption ==
  NoRequest \notin Requests /\ NoUser \notin Users
ASSUME KeepAssumption == Keep \notin {"ADMIN", "STAFF"} /\ Keep \notin BOOLEAN

VARIABLES
  ownerUser,           \* workshops.owner_user_id
  membership,          \* the rows of memberships
  mustChangePassword,  \* per user: users.must_change_password
  rowLock,             \* the request that holds the row lock of the workshop
  txn                  \* per slot: the request it serves and what it has read

rows == <<ownerUser, membership, mustChangePassword>>
vars == <<ownerUser, membership, mustChangePassword, rowLock, txn>>

-----------------------------------------------------------------------------
(* Rows and requests.                                                      *)

GenericRoles == {"ADMIN", "STAFF"}

Membership == [role: {"NONE", "OWNER"} \cup GenericRoles, active: BOOLEAN]

NotAMember == [role |-> "NONE", active |-> FALSE]

Ops == {"create", "update", "reset-password", "transfer"}

\* actor is who asks and target about whom; role and active are what the body
\* asks for; seen is the owner that a transfer reads under the lock.
Txn ==
  [pc: {"idle", "arrived", "locked", "checked"}, op: Ops \cup {"none"},
   actor: Users \cup {NoUser}, target: Users \cup {NoUser},
   role: GenericRoles \cup {Keep}, active: BOOLEAN \cup {Keep},
   seen: Users \cup {NoUser}]

Idle ==
  [pc |-> "idle", op |-> "none", actor |-> NoUser, target |-> NoUser,
   role |-> Keep, active |-> Keep, seen |-> NoUser]

\* One type invariant for the module: rows and requests keep their types, and
\* whoever has a role is in the table of memberships.
TypeOK ==
  /\ ownerUser \in Users \cup {NoUser}
  /\ membership \in [Users -> Membership]
  /\ mustChangePassword \in [Users -> BOOLEAN]
  /\ rowLock \in Requests \cup {NoRequest}
  /\ txn \in [Requests -> Txn]

Init ==
  /\ ownerUser = NoUser
  /\ membership = [u \in Users |-> NotAMember]
  /\ mustChangePassword = [u \in Users |-> FALSE]
  /\ rowLock = NoRequest
  /\ txn = [r \in Requests |-> Idle]

IsMember(u) == membership[u].role # "NONE"

\* JwtAuthGuard, WorkshopContextGuard and RolesGuard with the roles of the route.
Authorised(u, op) ==
  /\ membership[u].active
  /\ ~mustChangePassword[u]
  /\ membership[u].role \in IF op = "transfer" THEN {"OWNER"}
                            ELSE {"OWNER", "ADMIN"}

-----------------------------------------------------------------------------
(* Requests arrive, end and fail.                                          *)

\* The transaction ends, by commit or rollback, and its row lock with it.
End(r) ==
  /\ txn' = [txn EXCEPT ![r] = Idle]
  /\ rowLock' = IF rowLock = r THEN NoRequest ELSE rowLock

Request(r, op, target, role, active) ==
  /\ txn[r].pc = "idle"
  /\ \E actor \in Users :
       /\ Authorised(actor, op)
       /\ op = "transfer" => actor # target
       /\ txn' = [txn EXCEPT ![r] =
                    [Idle EXCEPT !.pc = "arrived", !.op = op, !.actor = actor,
                                 !.target = target, !.role = role,
                                 !.active = active]]
  /\ UNCHANGED <<rows, rowLock>>

Arrive(r) ==
  \E target \in Users :
    \/ \E role \in GenericRoles : Request(r, "create", target, role, TRUE)
    \/ \E role \in GenericRoles \cup {Keep}, active \in BOOLEAN \cup {Keep} :
         Request(r, "update", target, role, active)
    \/ Request(r, "reset-password", target, Keep, Keep)
    \/ Request(r, "transfer", target, Keep, Keep)

\* The server dies, the connection drops, Prisma's transaction timeout strikes,
\* or an address or an identity of several workshops is refused.
Rollback(r) ==
  /\ txn[r].pc # "idle"
  /\ End(r)
  /\ UNCHANGED rows

\* WorkshopsService.create; nobody can see the workshop before it commits.
CreateWorkshop ==
  \E u \in Users :
    /\ ownerUser = NoUser
    /\ ownerUser' = u
    /\ membership' = [membership EXCEPT ![u] =
                        [role |-> "OWNER", active |-> TRUE]]
    /\ UNCHANGED <<mustChangePassword, rowLock, txn>>

\* AuthService.changePassword, of the users row only: no lock of the workshop.
ChangePassword ==
  \E u \in Users :
    /\ mustChangePassword[u]
    /\ mustChangePassword' = [mustChangePassword EXCEPT ![u] = FALSE]
    /\ UNCHANGED <<ownerUser, membership, rowLock, txn>>

-----------------------------------------------------------------------------
(* Transactions: lock the workshop, read and check, write and commit.      *)

\* Faulty: the workshop is read with a plain SELECT, without FOR UPDATE.
LockWorkshopUnlocked(r) ==
  /\ txn[r].pc = "arrived"
  /\ txn' = [txn EXCEPT ![r].pc = "locked"]
  /\ UNCHANGED <<rows, rowLock>>

LockWorkshop(r) ==
  /\ txn[r].pc = "arrived"
  /\ rowLock = NoRequest
  /\ rowLock' = r
  /\ txn' = [txn EXCEPT ![r].pc = "locked"]
  /\ UNCHANGED rows

\* Faulty: the membership of the owner is administered like any other.
IsGenericAny(u) == IsMember(u)

\* The generic operations are refused for the OWNER.
IsGeneric(u) == IsMember(u) /\ membership[u].role # "OWNER"

CanProceed(t) ==
  CASE t.op = "create" -> ~IsMember(t.target)
    [] t.op = "update" ->
         /\ IsGeneric(t.target)
         /\ t.target = t.actor => t.role = Keep /\ t.active = Keep
    [] t.op = "reset-password" -> IsGeneric(t.target) /\ t.target # t.actor
    [] t.op = "transfer" -> IsMember(t.target)

ReadRows(r) ==
  /\ txn[r].pc = "locked"
  /\ IF CanProceed(txn[r])
     THEN /\ txn' = [txn EXCEPT ![r].pc = "checked", ![r].seen = ownerUser]
          /\ UNCHANGED rowLock
     ELSE End(r)
  /\ UNCHANGED rows

\* Faulty: a field the body leaves out is written like the others.
AskedBlindly(old, value) == value

Asked(old, value) == IF value = Keep THEN old ELSE value

\* The row of the target, created or updated, then those of transferOwnership: the
\* target is promoted, and the owner that was read is demoted if it is an active
\* OWNER.
Created(t) ==
  [membership EXCEPT ![t.target] = [role |-> t.role, active |-> TRUE]]

Updated(t) ==
  [membership EXCEPT ![t.target] =
     [role |-> Asked(@.role, t.role), active |-> Asked(@.active, t.active)]]

Promoted(t) ==
  [membership EXCEPT ![t.target] = [role |-> "OWNER", active |-> TRUE]]

IsActiveOwner(members, u) == members[u] = [role |-> "OWNER", active |-> TRUE]

Demoted(members, u) ==
  [members EXCEPT ![u] = [role |-> "ADMIN", active |-> @.active]]

MembersAfter(t) ==
  CASE t.op = "create"         -> Created(t)
    [] t.op = "transfer"       -> Demoted(Promoted(t), t.seen)
    [] t.op = "reset-password" -> membership
    [] OTHER                   -> Updated(t)

OwnerAfter(t) == IF t.op = "transfer" THEN t.target ELSE ownerUser

\* demoted.count # 1.
IsInconsistent(t) ==
  t.op = "transfer" /\ ~IsActiveOwner(Promoted(t), t.seen)

\* Faulty: the migration does not create the constraint triggers.
ConstraintDropped(members, user) == TRUE

\* assert_workshop_owner_invariant, deferred to the commit.
OwnerConstraint(members, user) ==
  {u \in Users : IsActiveOwner(members, u)} = {user}

\* A password set by somebody else, with the account or afterwards, has to be
\* changed first.
PasswordsAfter(t) ==
  IF t.op \in {"create", "reset-password"}
  THEN [mustChangePassword EXCEPT ![t.target] = TRUE]
  ELSE mustChangePassword

WriteAndCommit(r) ==
  LET t == txn[r] IN
  /\ t.pc = "checked"
  /\ IF /\ ~IsInconsistent(t)
        /\ OwnerConstraint(MembersAfter(t), OwnerAfter(t))
     THEN /\ membership' = MembersAfter(t)
          /\ ownerUser' = OwnerAfter(t)
          /\ mustChangePassword' = PasswordsAfter(t)
     ELSE UNCHANGED rows
  /\ End(r)

Next ==
  \/ CreateWorkshop
  \/ ChangePassword
  \/ \E r \in Requests :
       \/ Arrive(r) \/ LockWorkshop(r) \/ ReadRows(r) \/ WriteAndCommit(r)
       \/ Rollback(r)

Spec == Init /\ [][Next]_vars

-----------------------------------------------------------------------------
(* Properties.                                                             *)

\* The lock and the checks alone keep one owner, and "Workshop ownership is
\* inconsistent." is never an answer: the only write that the deferred constraint
\* has to stop is a transfer, decided on earlier, to somebody who owns the
\* workshop by now, and who is promoted and demoted by it.
ConstraintStopsOnlyRepeats ==
  \A r \in Requests : txn[r].pc = "checked" =>
    LET t == txn[r] IN
    /\ ~IsInconsistent(t)
    /\ \/ OwnerConstraint(MembersAfter(t), OwnerAfter(t))
       \/ t.op = "transfer" /\ t.target = ownerUser

\* MembershipsService.resetPassword never gives a temporary password to the user
\* who owns the workshop when it commits, not even while the ownership is being
\* handed to its target ("The OWNER password cannot be reset").
OwnerKeepsPassword ==
  [][\A u \in Users :
       ~mustChangePassword[u] /\ mustChangePassword'[u] => u # ownerUser]_vars

People == INSTANCE Ownership WITH
  owner  <- ownerUser,
  people <- [u \in Users |-> membership[u].role],
  active <- {u \in Users : membership[u].active}

\* Every commit founds the workshop, hands it over as a whole or changes somebody
\* who does not own it ("Generic membership writes MUST NOT assign, deactivate,
\* or demote OWNER"); so there is one active owner, the one the workshop names.
ImplementsOwnership == People!OwnershipSpec

-----------------------------------------------------------------------------
(* What the repository says and the code does not do.                      *)

\* workshop-tenancy/spec.md: it is "the current OWNER" who hands the workshop
\* over, and user-auth/spec.md: "stale claims MUST NOT grant access after [...]
\* role changes".
OnlyOwnerHandsOver ==
  [][\A r \in Requests :
       txn[r].pc = "checked" /\ txn[r].op = "transfer" /\ ownerUser' # ownerUser
         => txn[r].actor = ownerUser]_vars
=============================================================================
