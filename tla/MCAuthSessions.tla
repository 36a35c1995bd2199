--------------------------- MODULE MCAuthSessions ---------------------------
(* Instances of AuthSessions for TLC. *)
EXTENDS AuthSessions, TLC

Symmetry ==
  UNION {Permutations(S) : S \in {Emails, Passwords, Tokens, Requests}}
=============================================================================
