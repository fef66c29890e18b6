------------------------------- MODULE Access --------------------------------
(***************************************************************************)
(* What the server promises about the places ONE user can work in, with no *)
(* request, token or row in sight: an open login session gives access to   *)
(* at most one context, a workshop membership or the neutral one without a *)
(* workshop, and only while that membership is active; a closed one gives  *)
(* access to none ever again.  AccountAccess implements it                 *)
(* (AccountAccess!Entry).                                                  *)
(***************************************************************************)
CONSTANTS Sessions, Memberships, Neutral

VARIABLES
  status,  \* per session: "NONE", "OPEN" or "CLOSED"
  access,  \* per session: the contexts a token of it is accepted for
  active   \* the memberships that are active

accessVars == <<status, access, active>>

\* Somebody who signed up is in; somebody who was hired has to log in first.
AccessInit ==
  /\ \E S \in SUBSET Sessions :
       /\ status = [s \in Sessions |-> IF s \in S THEN "OPEN" ELSE "NONE"]
       /\ access \in [Sessions -> {{}, {Neutral}}]
       /\ \A s \in Sessions \ S : access[s] = {}
  /\ active \in SUBSET Memberships

Open(s) ==
  /\ status[s] = "NONE"
  /\ status' = [status EXCEPT ![s] = "OPEN"]
  /\ UNCHANGED <<access, active>>

\* The session moves to a context; the previous one is left by the same step.
Enter(s, c) ==
  /\ status[s] = "OPEN"
  /\ c \in active \cup {Neutral}
  /\ access' = [access EXCEPT ![s] = {c}]
  /\ UNCHANGED <<status, active>>

Leave(s) ==
  /\ access' = [access EXCEPT ![s] = {}]
  /\ UNCHANGED <<status, active>>

\* Any number of sessions are closed together, and nothing reopens them.
Close(S) ==
  /\ \A s \in S : status[s] = "OPEN"
  /\ status' = [s \in Sessions |-> IF s \in S THEN "CLOSED" ELSE status[s]]
  /\ access' = [s \in Sessions |-> IF s \in S THEN {} ELSE access[s]]
  /\ UNCHANGED active

\* A suspended membership is left by every session at once.
Suspend(m) ==
  /\ active' = active \ {m}
  /\ access' = [s \in Sessions |-> access[s] \ {m}]
  /\ UNCHANGED status

\* Sessions that had no access may be back in a membership that is active again.
Activate(m) ==
  /\ active' = active \cup {m}
  /\ \E S \in SUBSET {s \in Sessions : status[s] = "OPEN" /\ access[s] = {}} :
       access' = [s \in Sessions |-> IF s \in S THEN {m} ELSE access[s]]
  /\ UNCHANGED status

AccessNext ==
  \/ \E s \in Sessions :
       \/ Open(s) \/ Leave(s)
       \/ \E c \in Memberships \cup {Neutral} : Enter(s, c)
  \/ \E S \in SUBSET Sessions : Close(S)
  \/ \E m \in Memberships : Suspend(m) \/ Activate(m)

AccessSpec == AccessInit /\ [][AccessNext]_accessVars
=============================================================================
