------------------------------ MODULE MCRooms ------------------------------
(* A small instance of Rooms for TLC. *)
EXTENDS Rooms, TLC

CONSTANTS u1, u2, u3, r1, r2

\* Two users who know each other, and a third one whom one of them knows.
PhoneBooks == (u1 :> {u1, u2, u3}) @@ (u2 :> {u1}) @@ (u3 :> {})

RequestSymmetry == Permutations(Requests)

=============================================================================
