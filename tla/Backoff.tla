------------------------------ MODULE Backoff ------------------------------
(***************************************************************************)
(* The pacing of failed flushes in Agent-Collect.ps1: the failure counter  *)
(* of Send-AgentBatch and Get-NextBackoffSleepSeconds.                     *)
(***************************************************************************)
EXTENDS Integers

CONSTANTS
  MaxFailures,        \* bound on consecutive failures
  Jitters             \* the values of Get-Random -Minimum 0 -Maximum 100

ASSUME BackoffAssumption == MaxFailures \in Nat /\ Jitters \subseteq 0 .. 99

Base == 30
Cap  == 900

VARIABLES failures, wait

\* OutboxProofs extends this module beside Outbox, hence the names.
pacing == <<failures, wait>>

Least(a, b) == IF a <= b THEN a ELSE b

\* [Math]::Round of n/1000: to the nearest, a tie to the even neighbour.
Round1000(n) ==
  LET q == n \div 1000
      r == n % 1000
  IN  IF r > 500 \/ (r = 500 /\ q % 2 = 1) THEN q + 1 ELSE q

Power2[n \in Nat] == IF n = 0 THEN 1 ELSE 2 * Power2[n - 1]

\* Each Faulty... operator is a plausible slip in the definition after it; no
\* specification uses one.  They confirm that the properties can fail.
FaultyExponential(n) == Least(Base * n, Cap)            \* linear
Exponential(n) == Least(Base * Power2[n - 1], Cap)

FaultyNextWait(n, k) == Round1000(Exponential(n) * (700 + 6 * k))   \* no cap after the jitter
\* The wait after n failures in a row, with jitter 0.7 + k/100 * 0.6.
NextWait(n, k) == Least(Round1000(Exponential(n) * (700 + 6 * k)), Cap)

PacingInit == failures = 0 /\ wait = 0

FlushFails(k) ==
  /\ failures < MaxFailures
  /\ failures' = failures + 1
  /\ wait' = NextWait(failures + 1, k)

FlushSucceeds == failures' = 0 /\ UNCHANGED wait

PacingNext == FlushSucceeds \/ \E k \in Jitters : FlushFails(k)

PacingSpec == PacingInit /\ [][PacingNext]_pacing

-----------------------------------------------------------------------------
(* Properties *)

\* The computed wait stays within the jitter of the exponential it was drawn
\* from and never exceeds the cap.
WaitInRange ==
  failures > 0 =>
    /\ wait <= Cap
    /\ 1000 * wait >= 700 * Exponential(failures) - 500

\* Until the cap is reached the jitter never undoes the doubling: each further
\* failure waits longer than the one before ("strictly non-decreasing").
GrowsToCap == [][failures' = failures + 1 /\ failures \in 1 .. 5 => wait' > wait]_pacing
=============================================================================
