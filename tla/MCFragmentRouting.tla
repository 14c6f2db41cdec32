-------------------------- MODULE MCFragmentRouting -------------------------
(* Indices of 3 bits, so that r = m - 1 at m = 0 wraps to 7.               *)
EXTENDS FragmentRouting
=============================================================================
