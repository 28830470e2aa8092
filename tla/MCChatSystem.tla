---------------------------- MODULE MCChatSystem ----------------------------
(* Small instances of ChatSystem for TLC: two users with a device each. *)
EXTENDS ChatSystem, TLC

CONSTANTS u1, u2, d1, d2, c1, c2, c3, r1, r2, r3, m1, m2

Accounts == {u1, u2}
OneEach == (d1 :> u1) @@ (d2 :> u2)

\* One connection per device; one device that can connect again.
NoReconnect == (c1 :> d1) @@ (c2 :> d2)
SenderReconnects == (c1 :> d1) @@ (c3 :> d1) @@ (c2 :> d2)
ReaderReconnects == (c1 :> d1) @@ (c2 :> d2) @@ (c3 :> d2)

\* u1 writes.
AllByFirst == [m \in ClientIds |-> d1]

RequestSymmetry == Permutations(Requests)

=============================================================================
