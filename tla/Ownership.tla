------------------------------ MODULE Ownership -------------------------------
(***************************************************************************)
(* What the server promises about the people of ONE workshop, with no      *)
(* request, lock or constraint in sight: it has exactly one owner from its *)
(* foundation on, who can only be replaced by handing the workshop over,   *)
(* and everybody else is administered.  WorkshopTenancy implements it      *)
(* (WorkshopTenancy!People).                                               *)
(***************************************************************************)

CONSTANTS Users, NoUser

VARIABLES
  owner,   \* the user who owns the workshop, NoUser before it is founded
  people,  \* per user: "NONE", "OWNER", "ADMIN" or "STAFF"
  active   \* the users whose membership is active

peopleVars == <<owner, people, active>>

OwnershipInit ==
  /\ owner = NoUser
  /\ people = [u \in Users |-> "NONE"]
  /\ active = {}

\* A user founds the workshop and owns it.
Found(u) ==
  /\ owner = NoUser
  /\ owner' = u
  /\ people' = [people EXCEPT ![u] = "OWNER"]
  /\ active' = active \cup {u}

\* Somebody who is not the owner joins, changes role, leaves or comes back.
Administer(u) ==
  /\ owner \notin {NoUser, u}
  /\ \E role \in {"ADMIN", "STAFF"} : people' = [people EXCEPT ![u] = role]
  /\ active' \in {active \cup {u}, active \ {u}}
  /\ UNCHANGED owner

\* The workshop passes to another of its people; the old owner administers it.
HandOver(u) ==
  /\ owner \notin {NoUser, u}
  /\ people[u] # "NONE"
  /\ owner' = u
  /\ people' = [people EXCEPT ![u] = "OWNER", ![owner] = "ADMIN"]
  /\ active' = active \cup {u}

OwnershipNext == \E u \in Users : Found(u) \/ Administer(u) \/ HandOver(u)

OwnershipSpec == OwnershipInit /\ [][OwnershipNext]_peopleVars
=============================================================================
