--------------------------- MODULE MCRateLimiter ---------------------------
(***************************************************************************)
(* RateLimiter for TLC: the clock runs over two windows and a half, enough *)
(* for a burst across the border of two windows and for the window after.  *)
(***************************************************************************)
EXTENDS RateLimiter
=============================================================================
