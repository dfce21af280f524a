------------------------------ MODULE RateLimiter ------------------------------
(***************************************************************************)
(* The fixed-window limiter in front of every /v1 route.  A window belongs *)
(* to an actor, begins with the first request after the last one expired,  *)
(* and admits a number of requests; the rest are told after how many       *)
(* seconds to come back.  All checks run under one mutex, which is held    *)
(* while the wall clock is read.                                           *)
(*                                                                         *)
(* now is the wall clock in milliseconds: it moves on, and an             *)
(* administrator or NTP may set it back.  admitted, promise and setBack    *)
(* are history variables: no code reads them.  ServerProofs extends this   *)
(* module together with ServerRequests, hence Limiter in front of what     *)
(* both would define.                                                      *)
(***************************************************************************)
EXTENDS Integers, Sequences, FiniteSets, Functions

CONSTANTS
  Actors,      \* who is limited: a token's hash, or the unauthenticated
  Limits,      \* values of max_requests_per_minute; 0 disables the limiter
  Window,      \* RATE_LIMIT_WINDOW_MS
  SweepAbove,  \* number of windows above which old ones are dropped (4096)
  Times,       \* readings of the wall clock
  MaxAdmitted  \* bound: requests admitted to each actor

ASSUME LimiterAssumption ==
  /\ Limits \subseteq Nat
  /\ Window \in Nat \ {0}
  /\ SweepAbove \in Nat
  /\ Times \subseteq Nat
  /\ MaxAdmitted \in [Actors -> Nat]

VARIABLES
  max,       \* max_requests
  now,       \* now_unix_ms()
  windows,   \* windows: a map from some actors to their window
  admitted,  \* when each actor's requests were admitted
  promise,   \* when a denied actor may come back; 0: it was admitted since
  setBack    \* whether the clock was ever set back

limiterVars == <<max, now, windows, admitted, promise, setBack>>

Second == 1000

Windows == [start : Times, count : Nat]

LimiterTypeOK ==
  /\ max \in Limits
  /\ now \in Times
  /\ DOMAIN windows \subseteq Actors
  /\ \A a \in DOMAIN windows : windows[a] \in Windows /\ windows[a].count \in 1..max
  /\ admitted \in [Actors -> Seq(Times)]
  /\ promise \in [Actors -> Nat]
  /\ setBack \in BOOLEAN

-----------------------------------------------------------------------------
\* mutant of Swept: windows are dropped before they expire
SweptTooSoon ==
  IF Cardinality(DOMAIN windows) > SweepAbove
    THEN Restrict(windows, {a \in DOMAIN windows : windows[a].start >= now})
    ELSE windows

\* the windows that are left once the old ones are dropped
Swept ==
  IF Cardinality(DOMAIN windows) > SweepAbove
    THEN Restrict(windows, {a \in DOMAIN windows : windows[a].start >= now - 2 * Window})
    ELSE windows

Fresh == [start |-> now, count |-> 0]

\* the actor's window, begun anew if it has none or the last one expired
Current(a) ==
  IF a \in DOMAIN Swept /\ now - Swept[a].start < Window THEN Swept[a] ELSE Fresh

\* mutant of Spent: one request more than the limit
SpentTooLate(a) == Current(a).count > max

Spent(a) == Current(a).count >= max

Put(a, w) == [b \in DOMAIN Swept \cup {a} |-> IF b = a THEN w ELSE Swept[b]]

\* mutant of RetryAfter: rounded down to seconds
RetryAfterRoundedDown(w) == (Window - (now - w.start)) \div Second

\* Retry-After, rounded up to seconds
RetryAfter(w) ==
  LET remaining == Window - (now - w.start)
  IN  ((IF remaining > 1 THEN remaining ELSE 1) + Second - 1) \div Second

-----------------------------------------------------------------------------
\* RateLimiter.check, when the limiter is disabled
Ignore(a) ==
  /\ max = 0
  /\ Len(admitted[a]) < MaxAdmitted[a]
  /\ admitted' = [admitted EXCEPT ![a] = Append(@, now)]
  /\ UNCHANGED <<max, now, windows, promise, setBack>>

\* RateLimiter.check, allowed
Allow(a) ==
  /\ max > 0
  /\ ~Spent(a)
  /\ Len(admitted[a]) < MaxAdmitted[a]
  /\ windows' = Put(a, [Current(a) EXCEPT !.count = @ + 1])
  /\ admitted' = [admitted EXCEPT ![a] = Append(@, now)]
  /\ promise' = [promise EXCEPT ![a] = 0]
  /\ UNCHANGED <<max, now, setBack>>

\* RateLimiter.check, not allowed
TurnAway(a) ==
  /\ max > 0
  /\ Spent(a)
  /\ windows' = Put(a, Current(a))
  /\ promise' = [promise EXCEPT ![a] = now + Second * RetryAfter(Current(a))]
  /\ UNCHANGED <<max, now, admitted, setBack>>

Tick ==
  /\ now' \in {t \in Times : t > now}
  /\ UNCHANGED <<max, windows, admitted, promise, setBack>>

SetClockBack ==
  /\ now' \in {t \in Times : t < now}
  /\ setBack' = TRUE
  /\ UNCHANGED <<max, windows, admitted, promise>>

LimiterInit ==
  /\ max \in Limits
  /\ now \in Times
  /\ windows = [a \in {} |-> Fresh]
  /\ admitted = [a \in Actors |-> <<>>]
  /\ promise = [a \in Actors |-> 0]
  /\ setBack = FALSE

LimiterNext ==
  \/ \E a \in Actors : Ignore(a)
  \/ \E a \in Actors : Allow(a)
  \/ \E a \in Actors : TurnAway(a)
  \/ Tick
  \/ SetClockBack

LimiterSpec == LimiterInit /\ [][LimiterNext]_limiterVars

-----------------------------------------------------------------------------
(* Properties. *)

(***************************************************************************)
(* However requests straddle two windows and whatever is swept, any span   *)
(* as long as a window admits fewer than twice the limit, while the clock  *)
(* only moves on: a window that is used up began with a request of its     *)
(* own (RateLimiter.check).                                                *)
(***************************************************************************)
AdmittedWithin(a, t) == {n \in DOMAIN admitted[a] : admitted[a][n] \in t..(t + Window - 1)}

SlidingLimit ==
  max > 0 /\ ~setBack => \A a \in Actors, t \in Times : Cardinality(AdmittedWithin(a, t)) < 2 * max

(***************************************************************************)
(* Retry-After is honest: an actor that comes back when it was told to,    *)
(* and was not admitted in between, has a request to spend, even if the    *)
(* clock was set back (RateLimiter.check, the rounding to seconds).        *)
(***************************************************************************)
RetryAfterIsHonest ==
  \A a \in Actors : promise[a] # 0 /\ now >= promise[a] => ~Spent(a)
================================================================================
