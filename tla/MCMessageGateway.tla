-------------------------- MODULE MCMessageGateway --------------------------
(* Small instances of MessageGateway for TLC. *)
EXTENDS MessageGateway, TLC

CONSTANTS u1, u2, u3, a, b, x, r1, r2, m1, m2

TwoUsers == {u1, u2}

\* A room of two participants and a third account that is not in it.
WithStranger == {u1, u2, u3}

\* Two connections of u1 (two devices, or one before and after a drop).
OwnerTwoDevices == (a :> u1) @@ (b :> u1)
OwnerAndStranger == (a :> u1) @@ (b :> u2) @@ (x :> u3)

\* Two devices that send, one of them also messages that are rejected.
Sending == (a :> {"room:join", "room:leave", "message:send", "bad message:send"})
           @@ (b :> {"room:join", "message:send", "message:delivered"})

\* A writer outside the Socket.IO room, a participant who writes and reads, and
\* a stranger who tries to.
Reading == (a :> {"message:send"})
           @@ (b :> {"room:join", "message:send", "chat.read"})
           @@ (x :> {"room:join", "message:send", "chat.read"})

RequestSymmetry == Permutations(Requests)

=============================================================================
