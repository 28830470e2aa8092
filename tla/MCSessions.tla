----------------------------- MODULE MCSessions -----------------------------
(* A small instance of Sessions for TLC. *)
EXTENDS Sessions, TLC

CONSTANTS a1, r1, r2

\* One installation, which logs out and revokes sessions: those of the deviceIds
\* it had before among them.
OnePhone == a1 :> {"logout", "revoke"}

=============================================================================
