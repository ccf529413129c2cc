----------------------------- MODULE MCGuestEgl -----------------------------
(* Two threads of an application, two contexts, surfaces at one address.   *)
EXTENDS GuestEgl, TLC
CONSTANTS t1, t2, c1, c2
Symmetric == Permutations({t1, t2}) \cup Permutations({c1, c2})
=============================================================================
