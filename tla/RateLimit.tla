----------------------------- MODULE RateLimit -----------------------------
(***************************************************************************)
(* The token bucket that serveWS asks before it accepts a connection       *)
(* (common/utils/limit/rate_limiter.go; the one instance, 100 per second,  *)
(* is created at framework/net/ws_manager.go:37).                          *)
(*                                                                         *)
(* Every method holds the mutex for its whole body, so each is one action. *)
(* The floats of the code are integers here: a second has Second ticks,    *)
(* and a request costs Second units, so that a tick brings `rate` units.   *)
(***************************************************************************)
EXTENDS Integers

CONSTANTS
    Second,       \* ticks of the clock in a second
    Rates,        \* rates the limiter may be given, the first one included
    Bursts,
    MaxTime,      \* bound: ticks in a behaviour
    MaxPassed     \* bound: requests that pass in a behaviour

ASSUME LimiterAssumption ==
    /\ Second \in Nat \ {0} /\ MaxTime \in Nat /\ MaxPassed \in Nat
    /\ Rates \subseteq Nat /\ Bursts \subseteq Nat

VARIABLES
    rate, capacity, tokens, lastRefill,
    clock,        \* time.Now()
    passed,       \* history: requests that have passed
    before,       \* history: of them, those that passed before a tick
    peak,         \* history: first capacity and all that SetBurst has added
    topRate       \* history: highest rate so far

limiterVars == <<rate, capacity, tokens, lastRefill, clock, passed, before, peak, topRate>>

LimiterTypeOK ==
    /\ rate \in Rates /\ topRate \in Rates
    /\ {capacity, tokens, peak} \subseteq Nat
    /\ clock \in 0..MaxTime /\ lastRefill \in 0..clock
    /\ passed \in 0..MaxPassed /\ before \in [0..MaxTime -> 0..MaxPassed]

NewRateLimiter(r, burst) ==
    /\ rate = r /\ topRate = r
    /\ capacity = burst * r * Second
    /\ tokens = capacity /\ peak = capacity
    /\ clock = 0 /\ lastRefill = 0
    /\ passed = 0 /\ before = [t \in 0..MaxTime |-> 0]

LimiterInit == \E r \in Rates, b \in Bursts : NewRateLimiter(r, b)

----------------------------------------------------------------------------
(* The operators named Mutant... are defects the properties are tested     *)
(* against, and are used by no specification.                              *)

Lower(a, b) == IF a < b THEN a ELSE b
Higher(a, b) == IF a < b THEN b ELSE a

(* A bucket at or above its capacity is left alone (SetBurst may have      *)
(* lowered the capacity below what is in it).                              *)
Refilled == IF tokens < capacity
            THEN Lower(capacity, tokens + (clock - lastRefill) * rate)
            ELSE tokens

(* Mutant: the time of the last refill is not kept. *)
MutantAllow ==
    /\ passed < MaxPassed
    /\ IF Refilled >= Second
       THEN /\ tokens' = Refilled - Second
            /\ passed' = passed + 1
       ELSE /\ tokens' = Refilled
            /\ UNCHANGED passed
    /\ UNCHANGED <<rate, capacity, lastRefill, clock, before, peak, topRate>>

(* Mutant: a part of a token is enough. *)
MutantEnough == Refilled > 0

Enough == Refilled >= Second

Allow ==
    /\ passed < MaxPassed  \* bound
    /\ lastRefill' = clock
    /\ IF Enough
       THEN /\ tokens' = Refilled - Second
            /\ passed' = passed + 1
       ELSE /\ tokens' = Refilled
            /\ UNCHANGED passed
    /\ UNCHANGED <<rate, capacity, clock, before, peak, topRate>>

(* The capacity keeps the rate it was computed with. *)
SetRate(r) ==
    /\ rate' = r
    /\ topRate' = Higher(topRate, r)
    /\ UNCHANGED <<capacity, tokens, lastRefill, clock, passed, before, peak>>

(* A larger bucket gets the difference at once; a smaller one keeps its    *)
(* tokens, so that shrinking and growing it again adds to them.            *)
Grown(burst) == LET new == burst * rate * Second
                IN IF new > capacity THEN new - capacity ELSE 0

SetBurst(burst) ==
    /\ peak + Grown(burst) <= MaxPassed * Second  \* bound
    /\ tokens' = tokens + Grown(burst)
    /\ peak' = peak + Grown(burst)
    /\ capacity' = burst * rate * Second
    /\ UNCHANGED <<rate, lastRefill, clock, passed, before, topRate>>

Pass == /\ clock < MaxTime
        /\ clock' = clock + 1
        /\ before' = [before EXCEPT ![clock + 1] = passed]
        /\ UNCHANGED <<rate, capacity, tokens, lastRefill, passed, peak, topRate>>

LimiterNext == \/ Allow \/ Pass
               \/ \E r \in Rates : SetRate(r)
               \/ \E b \in Bursts : SetBurst(b)

----------------------------------------------------------------------------
(* What a rate limiter is for, whatever the pattern of requests: in every  *)
(* window of time that ends now, the requests that passed are no more than *)
(* one full bucket and what the rate brings in the window.  The bucket to  *)
(* count is not the largest capacity but everything SetBurst ever added    *)
(* (rate_limiter.go:75-87).                                                *)
WindowBound ==
    \A s \in 0..clock :
        Second * (passed - before[s]) <= peak + topRate * (clock - s)

LimiterSpec == LimiterInit /\ [][LimiterNext]_limiterVars
=============================================================================
