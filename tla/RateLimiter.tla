---------------------------- MODULE RateLimiter -----------------------------
(***************************************************************************)
(* The counters of the limiter (rate-limit.ts) for one key: the hits of    *)
(* the present window and of the one before it.  Time is the phase of the  *)
(* present window in ticks; older windows are never read again, and the    *)
(* sweep of the store deletes no younger ones.                             *)
(***************************************************************************)
EXTENDS Naturals

CONSTANT Window   \* ticks in a window: 60,000 milliseconds in the code

ASSUME WindowAssumption == Window \in Nat \ {0}

Phases == 0..(Window - 1)
NoHits == [cur |-> 0, prev |-> 0]

(* Every hit counts, the refused ones too. *)
Counted(count) == [cur |-> count.cur + 1, prev |-> count.prev]
\* Mutant: the windows before the last weigh in for ever.
NextWindowKeeping(count) == [cur |-> 0, prev |-> count.cur + count.prev]
NextWindow(count) == [cur |-> 0, prev |-> count.cur]

(* The present count plus the share of the previous window that the last   *)
(* Window ticks still overlap; both sides multiplied by Window.            *)
Estimate(count, phase) == Window * count.cur + (Window - phase) * count.prev
\* Mutant: the weight of the previous window is the share that has passed.
WithinSwapped(count, phase, limit) ==
  Window * count.cur + phase * count.prev <= Window * limit
Within(count, phase, limit) == Estimate(count, phase) <= Window * limit

RetryAfter(phase) == Window - phase
=============================================================================
