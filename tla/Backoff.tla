------------------------------- MODULE Backoff --------------------------------
(***************************************************************************)
(* The waits of a loop of retries under each backoff strategy              *)
(* (backoff/backoff.go), in integers of the width that Go gives them: a    *)
(* Duration counts ticks, of which a millisecond has Millisecond and a     *)
(* second MsPerSecond times as many.                                       *)
(*                                                                         *)
(* The instance that TLC checks is a scaled one: 14 bits instead of 64,    *)
(* and a second of 30 ticks instead of 10^9.                               *)
(***************************************************************************)
EXTENDS Integers

CONSTANTS
    Width,         \* of an int and of a Duration, in bits
    MsPerSecond, Millisecond,
    MaxLinear,     \* bound on the retries
    Stride         \* rand.Intn draws every number with 1, one in Stride otherwise

Second == MsPerSecond * Millisecond

\* 2^n
PowerOfTwo(n) ==
    LET power[i \in 0 .. n] == IF i = 0 THEN 1 ELSE 2 * power[i - 1]
    IN  power[n]

MaxInt == PowerOfTwo(Width - 1) - 1

\* 64; 1000 milliseconds of 10^6 ticks; a Duration of 8 seconds is no overflow.
ASSUME WidthAssumption == Width \in Nat \ {0}
ASSUME UnitsAssumption ==
    /\ MsPerSecond \in Nat /\ MsPerSecond >= 10
    /\ Millisecond \in Nat /\ Millisecond >= 3
    /\ 8 * Second <= MaxInt
ASSUME RetriesAssumption == MaxLinear \in Nat /\ Stride \in Nat \ {0}

Strategies == {"default", "linear", "linear-jitter", "exponential", "exponential-jitter"}
Jittered == {"linear-jitter", "exponential-jitter"}

VARIABLES
    strategy,   \* fixed
    retries,    \* the number of the retry
    wait,       \* before it: a Duration
    exact,      \* what it would be without jitter, in unbounded integers
    waited,     \* the time waited before, at most MaxInt is told apart
    panicked    \* rand.Intn was called with an n that is not positive

backoffVars == <<strategy, retries, wait, exact, waited, panicked>>

BackoffTypeOK ==
    /\ strategy \in Strategies
    /\ retries \in 0 .. MaxLinear
    /\ wait \in -(MaxInt + 1) .. MaxInt
    /\ exact \in Nat
    /\ waited \in 0 .. MaxInt
    /\ panicked \in BOOLEAN

\* Two's complement, and the division that truncates towards 0.
Wrap(n) == ((n + MaxInt + 1) % (2 * (MaxInt + 1))) - (MaxInt + 1)
Quotient(n, d) == IF n >= 0 THEN n \div d ELSE -((-n) \div d)
Shift(n) == IF n >= Width THEN 0 ELSE Wrap(PowerOfTwo(n))

-----------------------------------------------------------------------------
(* The strategies: a set of possible durations, none of them after a panic *)

\* rand.Intn, and a panic if n is not positive: its ends are always drawn.
Intn(n) == {r \in 0 .. n - 1 : r % Stride = 0 \/ r = n - 1}

\* A jitter of half as much again.
WideJitter(n) ==
    LET ms == Wrap(n * MsPerSecond)
        bound == Wrap(Quotient(ms, 3) + 1)
        range == Wrap(3 * bound)
        Jitter(r) == Wrap(ms + r - bound)
    IN  {Wrap((IF Jitter(r) <= 0 THEN 1 ELSE Jitter(r)) * Millisecond) :
             r \in Intn(range)}

jitter(n) ==
    LET ms == Wrap(n * MsPerSecond)
        bound == Wrap(Quotient(ms, 3) + 1)
        range == Wrap(2 * bound)
        Jitter(r) == Wrap(ms + r - bound)
    IN  {Wrap((IF Jitter(r) <= 0 THEN 1 ELSE Jitter(r)) * Millisecond) :
             r \in Intn(range)}

\* 1 << uint(i)
Power(n) == Shift(n)

\* The function that GetByName returns, applied to n.
TimeToWait(s, n) ==
    CASE s = "default"            -> {Second}
      [] s = "linear"             -> {Wrap(n * Second)}
      [] s = "linear-jitter"      -> jitter(n)
      [] s = "exponential"        -> {Wrap(Power(n) * Second)}
      [] s = "exponential-jitter" -> jitter(Power(n))

Exact(s, n) == CASE s = "default" -> Second
                 [] s \in {"linear", "linear-jitter"} -> n * Second
                 [] OTHER -> PowerOfTwo(n) * Second

-----------------------------------------------------------------------------
BackoffInit ==
    /\ strategy \in Strategies
    /\ retries = 0
    /\ wait \in TimeToWait(strategy, 0)
    /\ exact = Exact(strategy, 0)
    /\ waited = 0 /\ panicked = FALSE

\* Off by more than a jitter.
Wrong == panicked \/ wait < 0 \/ wait * 2 < exact - 4 * Millisecond

Sum(a, b) == IF a + b > MaxInt THEN MaxInt ELSE a + b

\* The next retry, after the wait, and its own wait.
Retry ==
    /\ ~Wrong /\ retries < MaxLinear
    /\ retries' = retries + 1
    /\ waited' = Sum(waited, wait)
    /\ exact' = Exact(strategy, retries')
    /\ IF TimeToWait(strategy, retries') = {} THEN panicked' = TRUE /\ UNCHANGED wait
       ELSE wait' \in TimeToWait(strategy, retries') /\ UNCHANGED panicked
    /\ UNCHANGED strategy

BackoffFinished == (Wrong \/ retries = MaxLinear) /\ UNCHANGED backoffVars

BackoffNext == Retry \/ BackoffFinished

BackoffSpec == BackoffInit /\ [][BackoffNext]_backoffVars

-----------------------------------------------------------------------------
(* Properties                                                              *)

(***************************************************************************)
(* A loop of retries comes to an overflow, a wait that is negative, cut    *)
(* short or a panic of rand.Intn, only after it has waited for a third of  *)
(* the longest Duration, 97 years of 292 (backoff.go:41-61, 70-79).        *)
(***************************************************************************)
OverflowTakesALifetime == Wrong => 3 * waited >= MaxInt

(***************************************************************************)
(* "with +/- 0-33%" (backoff.go:47, 58): a jittered wait is positive and   *)
(* not further from the plain one than a third of it and a millisecond.    *)
(***************************************************************************)
JitterIsAThird ==
    (strategy \in Jittered /\ ~Wrong) =>
        /\ wait > 0
        /\ 3 * wait <= 4 * exact + 3 * Millisecond
        /\ 3 * wait >= 2 * exact - 3 * Millisecond

(***************************************************************************)
(* No strategy waits for a negative, truncated or badly jittered time      *)
(* within the life of a program.                                           *)
(***************************************************************************)
WaitsAreSane == OverflowTakesALifetime /\ JitterIsAThird
=============================================================================
