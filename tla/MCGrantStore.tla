---------------------------- MODULE MCGrantStore ----------------------------
(* Instance of GrantStore for TLC: one peer and one capability are enough,  *)
(* the store never reads either; the clock runs past the refresh period.    *)
EXTENDS GrantStore
=============================================================================
