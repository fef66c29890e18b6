--------------------------- MODULE SessionRegister ---------------------------
(***************************************************************************)
(* What the server promises about the login sessions of ONE user, with no  *)
(* request, clock or token row in sight: a session opens once, is renewed  *)
(* by exchanging its only credential for a fresh one, and closes for good. *)
(* AuthSessions implements it (AuthSessions!Register).                     *)
(***************************************************************************)
EXTENDS Naturals

CONSTANTS Sessions, Tokens, NoToken

VARIABLES
  status,      \* per session: "NONE", "OPEN" or "CLOSED"
  credential,  \* per session: the one token it can be renewed with
  until,       \* per session: when it ends unless it is renewed
  issued       \* every token ever handed out

registerVars == <<status, credential, until, issued>>

RegisterInit ==
  /\ status = [s \in Sessions |-> "NONE"]
  /\ credential = [s \in Sessions |-> NoToken]
  /\ until = [s \in Sessions |-> 0]
  /\ issued = {}

\* Token new is from now on what renews s, and s ends no earlier than before.
Grant(s, new) ==
  /\ new \notin issued
  /\ issued' = issued \cup {new}
  /\ credential' = [credential EXCEPT ![s] = new]
  /\ until'[s] >= until[s]
  /\ \A other \in Sessions \ {s} : until'[other] = until[other]

\* The user logs in.
Open(s) ==
  /\ status[s] = "NONE"
  /\ status' = [status EXCEPT ![s] = "OPEN"]
  /\ \E new \in Tokens : Grant(s, new)

\* The credential is exchanged for a fresh one.
Renew(s) ==
  /\ status[s] = "OPEN"
  /\ \E new \in Tokens : Grant(s, new)
  /\ UNCHANGED status

\* Any number of open sessions are closed together, and nothing reopens them.
Close(S) ==
  /\ \A s \in S : status[s] = "OPEN"
  /\ status' = [s \in Sessions |-> IF s \in S THEN "CLOSED" ELSE status[s]]
  /\ UNCHANGED <<credential, until, issued>>

RegisterNext ==
  \/ \E s \in Sessions : Open(s) \/ Renew(s)
  \/ \E S \in SUBSET Sessions : Close(S)

RegisterSpec == RegisterInit /\ [][RegisterNext]_registerVars
=============================================================================
