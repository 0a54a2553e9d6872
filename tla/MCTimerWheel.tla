---------------------------- MODULE MCTimerWheel -----------------------------
(* TimerWheel on a wheel of four buckets of two milliseconds.              *)
EXTENDS TimerWheel, TLC

CookieSymmetry == Permutations(Cookies)
=============================================================================
