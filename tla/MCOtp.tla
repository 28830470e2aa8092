------------------------------- MODULE MCOtp -------------------------------
(* A small instance of Otp for TLC. *)
EXTENDS Otp, TLC

CONSTANTS p1, p2, i1, i2, c1, c2, r1, r2

\* One phone whose requests yield different codes, and one that only counts
\* against the same address.
TwoCodesOrOne == (p1 :> {c1, c2}) @@ (p2 :> {c1})

OtpSymmetry == Permutations(Requests)

=============================================================================
