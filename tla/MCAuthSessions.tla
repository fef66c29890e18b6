--------------------------- MODULE MCAuthSessions ----------------------------
(***************************************************************************)
(* Instances of AuthSessions for TLC; the identities of requests, sessions *)
(* and tokens carry no meaning.                                            *)
(***************************************************************************)
EXTENDS AuthSessions, TLC

Symmetry ==
  Permutations(Requests) \cup Permutations(Sessions) \cup Permutations(Tokens)
=============================================================================
