---------------------------- MODULE MCRateLimiter ----------------------------
(***************************************************************************)
(* Readings of the clock on both sides of a second and of one and two      *)
(* windows, so that requests straddle windows and old windows are swept.   *)
(***************************************************************************)
EXTENDS RateLimiter

MCTimes == {1000, 1500, 60999, 61000, 121000, 181001}

\* the other actor is there to have a window that is swept, or not
MCMaxAdmitted == [a \in Actors |-> IF a = "bearer" THEN 4 ELSE 1]
==============================================================================
