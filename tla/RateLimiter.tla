----------------------------- MODULE RateLimiter -----------------------------
(***************************************************************************)
(* The token bucket of the push service (push/src/rate_limit.rs): one      *)
(* bucket per server and user, filled from a rate that the operator can    *)
(* change while it runs.                                                   *)
(*                                                                         *)
(* A bucket is counted in fractions of a token, Unit of which are one.     *)
(* The code counts seconds and tokens a minute: its Unit is 60, and a      *)
(* second adds `rate` fractions.                                           *)
(***************************************************************************)
EXTENDS Integers

CONSTANTS
    Keys,         \* pairs of a server and a user
    Attempts,     \* bound: attempts that can be made at a time
    Unit,         \* fractions in one token
    InitialRate,  \* rate_per_minute of the command line
    Rates,        \* what the operator sets it to
    MaxElapsed,   \* bound: seconds between two attempts
    MaxAllowance  \* bound: fractions a measured period provides for

ASSUME RateLimiterAssumption ==
    /\ Unit \in Nat \ {0}
    /\ InitialRate \in Nat
    /\ Rates \subseteq Nat \ {0}
    /\ MaxElapsed \in Nat
    /\ MaxAllowance \in Nat

VARIABLES
    rate,       \* rate_per_minute
    bucket,     \* tokens of each bucket, in fractions; -1 where there is none yet
    idle,       \* seconds since last_refill of each bucket
    granted,    \* history: attempts that succeeded in the measured period
    loaded,     \* per handler the attempt it is making, with the rate it loaded
    allowance   \* history: what the rate provided for since it began

limiterVars == <<rate, bucket, idle, loaded, granted, allowance>>

\* Rates that can be in force.
Known == Rates \cup {InitialRate}

NoAttempt == [key |-> "none"]

Larger(a, b) == IF a < b THEN b ELSE a
Smaller(a, b) == IF a < b THEN a ELSE b

\* Fractions that a full bucket holds: the initial rate is its least capacity.
CapacityAt(r) == Unit * Larger(Larger(InitialRate, 1), Larger(r, 1))

-----------------------------------------------------------------------------
\* Mutant of Refilled: no cap.
RefilledUncapped(k, r) ==
    IF bucket[k] = -1 THEN CapacityAt(r) ELSE bucket[k] + idle[k] * r

\* A new bucket is full; an old one gains what it has waited for, up to the
\* capacity.
Refilled(k, r) ==
    IF bucket[k] = -1 THEN CapacityAt(r)
    ELSE Smaller(bucket[k] + idle[k] * r, CapacityAt(r))

\* A new period is measured.
Measure ==
    /\ granted' = [k \in Keys |-> 0]
    /\ allowance' = 0

\* try_acquire: the rate is loaded before the mutex is taken, ...
LoadRate(h, k) ==
    /\ loaded[h] = NoAttempt
    /\ loaded' = [loaded EXCEPT ![h] = [key |-> k, rate |-> rate]]
    /\ UNCHANGED <<rate, bucket, idle, granted, allowance>>

\* ... and the whole waiting time is paid for at that rate.  An attempt at
\* another rate than the present one ends the measured period.
TryAcquire(h) ==
    LET k == loaded[h].key
        r == loaded[h].rate
        filled == Refilled(k, r)
    IN  /\ loaded[h] # NoAttempt
        /\ loaded' = [loaded EXCEPT ![h] = NoAttempt]
        /\ bucket' = [bucket EXCEPT ![k] = IF filled >= Unit THEN filled - Unit ELSE filled]
        /\ idle' = [idle EXCEPT ![k] = 0]
        /\ IF r # rate THEN Measure
           ELSE /\ granted' = [granted EXCEPT ![k] = IF filled >= Unit THEN @ + 1 ELSE @]
                /\ UNCHANGED allowance
        /\ UNCHANGED rate

\* Time passes: an attempt is never further than MaxElapsed from the last.
Elapse(seconds) ==
    /\ \A k \in Keys : idle[k] + seconds <= MaxElapsed
    /\ allowance + seconds * rate <= MaxAllowance
    /\ idle' = [k \in Keys |-> idle[k] + seconds]
    /\ allowance' = allowance + seconds * rate
    /\ UNCHANGED <<rate, bucket, loaded, granted>>

\* set_rate: the next attempt is paid the whole of its waiting time at the new
\* rate, so that a period is measured between two changes only.
SetRate(r) ==
    /\ r # rate
    /\ rate' = r
    /\ Measure
    /\ UNCHANGED <<bucket, idle, loaded>>

\* The process starts: the buckets and the operator's rate are gone.
LimiterRestart ==
    /\ rate' = InitialRate
    /\ bucket' = [k \in Keys |-> -1]
    /\ idle' = [k \in Keys |-> 0]
    /\ loaded' = [h \in Attempts |-> NoAttempt]
    /\ Measure

LimiterInit ==
    /\ rate = InitialRate
    /\ bucket = [k \in Keys |-> -1]
    /\ idle = [k \in Keys |-> 0]
    /\ loaded = [h \in Attempts |-> NoAttempt]
    /\ granted = [k \in Keys |-> 0]
    /\ allowance = 0

LimiterNext ==
    \/ \E h \in Attempts : TryAcquire(h) \/ \E k \in Keys : LoadRate(h, k)
    \/ \E seconds \in 1..MaxElapsed : Elapse(seconds)
    \/ \E r \in Rates : SetRate(r)
    \/ Measure /\ UNCHANGED <<rate, bucket, idle, loaded>>
    \/ LimiterRestart

LimiterSpec == LimiterInit /\ [][LimiterNext]_limiterVars

-----------------------------------------------------------------------------
(* Properties *)

LimiterTypeOK ==
    /\ rate \in Known
    /\ loaded \in [Attempts -> {NoAttempt} \cup [key : Keys, rate : Known]]
    /\ bucket \in [Keys -> Int]
    /\ \A k \in Keys : bucket[k] >= -1
    /\ idle \in [Keys -> Nat]
    /\ granted \in [Keys -> Nat]
    /\ allowance \in Nat

\* Over any period between two changes of the rate, however attempts and pauses
\* alternate, a server gets through to a user no more than a full bucket and
\* what the rate adds in that time.
PeriodBounded ==
    \A k \in Keys : Unit * granted[k] <= CapacityAt(rate) + allowance
=============================================================================
