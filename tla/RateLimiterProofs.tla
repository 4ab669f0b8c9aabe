------------------------- MODULE RateLimiterProofs -------------------------
(***************************************************************************)
(* What TLAPS proves about TokenBucketRateLimiter, for every capacity,     *)
(* rate, clock resolution, integer width and bound unless it says less:    *)
(*   - the bucket is never overdrawn nor above its capacity (TypeOK);      *)
(*   - as long as one thread calls, the admission bound (SoleCallerBound); *)
(*   - with products that fit int64_t, DeniedOnlyWhenEmpty;                *)
(*   - with any set of threads and products that fit int64_t, LossBounded; *)
(*   - with any finite set of threads, ContentionBound.                    *)
(***************************************************************************)
EXTENDS RateLimiter, FiniteSetTheorems, TLAPS

(* Floor division by a positive divisor.                                   *)
LEMMA DivFloor ==
    ASSUME NEW a \in Int, NEW b \in Nat \ {0}
    PROVE  /\ a \div b \in Int
           /\ b * (a \div b) <= a
           /\ a < b * (a \div b) + b
OBVIOUS

(* Cancelling a positive factor.                                           *)
LEMMA MulCancel ==
    ASSUME NEW a \in Int, NEW b \in Int, NEW c \in Nat \ {0}, c * a < c * b + c
    PROVE  a <= b
<1>1. SUFFICES ASSUME a >= b + 1 PROVE FALSE
  OBVIOUS
<1>2. c * a >= c * (b + 1)
  BY <1>1
<1>3. c * (b + 1) = c * b + c
  OBVIOUS
<1> QED
  BY <1>2, <1>3

(* The whole microseconds of two consecutive intervals are at most the     *)
(* whole microseconds of both together: truncation never creates time.     *)
LEMMA DivSuperadditive ==
    ASSUME NEW a \in Int, NEW b \in Int, NEW k \in Nat \ {0}
    PROVE  (a \div k) + (b \div k) <= (a + b) \div k
<1> DEFINE x == a \div k
           y == b \div k
           z == (a + b) \div k
<1>1. x \in Int /\ y \in Int /\ z \in Int
  BY DivFloor
<1>2. k * x <= a /\ k * y <= b /\ a + b < k * z + k
  BY DivFloor
<1> HIDE DEF x, y, z
<1>3. k * (x + y) = k * x + k * y
  BY <1>1
<1>4. k * (x + y) < k * z + k
  BY <1>1, <1>2, <1>3
<1>5. x + y <= z
  BY <1>1, <1>4, MulCancel
<1> QED
  BY <1>5 DEF x, y, z

(* Dividing is monotone.                                                   *)
LEMMA DivMonotone ==
    ASSUME NEW a \in Int, NEW b \in Int, NEW k \in Nat \ {0}, a <= b
    PROVE  a \div k <= b \div k
<1> DEFINE x == a \div k
           y == b \div k
<1>1. x \in Int /\ y \in Int /\ k * x <= a /\ b < k * y + k
  BY DivFloor
<1> HIDE DEF x, y
<1>2. k * x < k * y + k
  BY <1>1
<1>3. x <= y
  BY <1>1, <1>2, MulCancel
<1> QED
  BY <1>3 DEF x, y

(* Wrapping around never makes a non-negative product larger.              *)
LEMMA WrapBound ==
    ASSUME NEW x \in Int
    PROVE  Wrap(x) \in Int /\ (x >= 0 => Wrap(x) <= x)
<1> DEFINE h == IntMax + 1
           m == (x + h) % (2 * h)
<1>1. h \in Nat \ {0} /\ 2 * h \in Nat \ {0}
  BY RateLimiterAssumption
<1>2. m \in Int /\ (x >= 0 => m <= x + h)
  BY <1>1
<1> QED
  BY <1>1, <1>2, RateLimiterAssumption DEF Wrap

(* refill never credits more than the rate allows for the elapsed time,    *)
(* overflow of the product included.                                       *)
LEMMA ToAddBound ==
    ASSUME NEW e \in Nat
    PROVE  ToAdd(e) \in Int /\ ToAdd(e) <= Rate * e
<1> DEFINE p == refill_rate_per_s_micro * e
           w == Wrap(p)
           d == w \div Micro
<1>0. Rate \in Nat \ {0} /\ Micro \in Nat \ {0}
  BY RateLimiterAssumption
<1>1. Rate * e \in Nat
  BY <1>0
<1>2. p = Micro * (Rate * e) /\ p \in Nat
  BY <1>0 DEF refill_rate_per_s_micro
<1>3. w \in Int /\ w <= p
  BY <1>2, WrapBound
<1>4. d \in Int /\ Micro * d <= w
  BY <1>0, <1>3, DivFloor
<1>5. Micro * d < Micro * (Rate * e) + Micro
  <2> HIDE DEF p, w, d
  <2> QED BY <1>0, <1>1, <1>2, <1>3, <1>4
<1>6. d <= Rate * e
  <2> HIDE DEF p, w, d
  <2> QED BY <1>0, <1>1, <1>4, <1>5, MulCancel
<1> QED
  BY <1>4, <1>6 DEF ToAdd
-----------------------------------------------------------------------------
(* The bucket stays between empty and full in every interleaving of        *)
(* refill and try_consume, and all variables keep their types.             *)
THEOREM TypeCorrect == Spec => []TypeOK
<1> USE RateLimiterAssumption
<1>0. capacity_micro \in Nat /\ Micro <= capacity_micro
  BY DEF capacity_micro
<1>1. Init => TypeOK
  BY <1>0 DEF Init, TypeOK, States
<1>2. TypeOK /\ [Next]_vars => TypeOK'
  <2> SUFFICES ASSUME TypeOK, [Next]_vars PROVE TypeOK'
    OBVIOUS
  <2> USE <1>0 DEF TypeOK, GoTo, locals, States
  <2>1. CASE Tick
    BY <2>1 DEF Tick
  <2>2. ASSUME NEW t \in Threads, ReadClock(t) PROVE TypeOK'
    BY <2>2 DEF ReadClock
  <2>3. ASSUME NEW t \in Threads, LoadLastRefill(t) PROVE TypeOK'
    <3>1. Elapsed(last_refill, now[t]) \in Nat
      BY <2>3 DEF LoadLastRefill, NothingToAdd, Elapsed
    <3>2. ToAdd(Elapsed(last_refill, now[t])) \in Nat
      BY <2>3, <3>1, ToAddBound DEF LoadLastRefill, NothingToAdd
    <3> QED
      BY <2>3, <3>2 DEF LoadLastRefill
  <2>4. ASSUME NEW t \in Threads, SkipRefill(t) PROVE TypeOK'
    BY <2>4 DEF SkipRefill
  <2>5. ASSUME NEW t \in Threads, StoreLastRefill(t) PROVE TypeOK'
    BY <2>5 DEF StoreLastRefill
  <2>6. ASSUME NEW t \in Threads, LoadTokens(t) PROVE TypeOK'
    BY <2>6 DEF LoadTokens
  <2>7. ASSUME NEW t \in Threads, CasFails(t) PROVE TypeOK'
    BY <2>7 DEF CasFails
  <2>8. ASSUME NEW t \in Threads, CasRefill(t) PROVE TypeOK'
    BY <2>8 DEF CasRefill, MinOf
  <2>9. ASSUME NEW t \in Threads, Deny(t) PROVE TypeOK'
    BY <2>9 DEF Deny, Return
  <2>10. ASSUME NEW t \in Threads, CasConsume(t) PROVE TypeOK'
    BY <2>10 DEF CasConsume, Return
  <2>11. CASE UNCHANGED vars
    BY <2>11 DEF vars
  <2> QED
    BY <2>1, <2>2, <2>3, <2>4, <2>5, <2>6, <2>7, <2>8, <2>9, <2>10, <2>11
       DEF Next, Step, Done
<1> QED
  BY <1>1, <1>2, PTL DEF Spec

-----------------------------------------------------------------------------
(* A thread that has made no call is not inside one, so as long as t is    *)
(* the sole caller all steps of try_consume are steps of t.                *)
Quiet == \A u \in Threads : calls[u] = 0 => pc[u] = "idle"

LEMMA QuietCorrect == Spec => []Quiet
<1>1. Init => Quiet
  BY DEF Init, Quiet
<1>2. TypeOK /\ Quiet /\ [Next]_vars => Quiet'
  <2> SUFFICES ASSUME TypeOK, Quiet, [Next]_vars PROVE Quiet'
    OBVIOUS
  <2> USE DEF TypeOK, Quiet, GoTo
  <2>1. CASE Tick \/ UNCHANGED vars
    BY <2>1 DEF Tick, vars
  <2>2. ASSUME NEW t \in Threads, ReadClock(t) PROVE Quiet'
    BY <2>2 DEF ReadClock
  <2>3. ASSUME NEW t \in Threads, Step(t) PROVE Quiet'
    BY <2>3 DEF Step, LoadLastRefill, SkipRefill, StoreLastRefill, LoadTokens, CasFails, CasRefill,
                Deny, CasConsume, Return
  <2> QED
    BY <2>1, <2>2, <2>3 DEF Next, Done
<1> QED
  BY <1>1, <1>2, TypeCorrect, PTL DEF Spec

LEMMA SoleSteps ==
    ASSUME TypeOK, Quiet, [Next]_vars, NEW t \in Threads, Sole(t)'
    PROVE  /\ Sole(t)
           /\ Tick \/ ReadClock(t) \/ Step(t) \/ UNCHANGED vars
<1> USE DEF TypeOK, GoTo
<1>1. ASSUME NEW u \in Threads, Step(u) PROVE calls' = calls /\ pc[u] # "idle"
  BY <1>1 DEF Step, LoadLastRefill, SkipRefill, StoreLastRefill, LoadTokens, CasFails, CasRefill,
              Deny, CasConsume, Return
<1>2. ASSUME NEW u \in Threads, ReadClock(u)
      PROVE  calls'[u] # 0 /\ \A v \in Threads \ {u} : calls'[v] = calls[v]
  BY <1>2 DEF ReadClock
<1>3. Tick \/ UNCHANGED vars => calls' = calls
  BY DEF Tick, vars
<1>4. ASSUME NEW u \in Threads, u # t PROVE ~ ReadClock(u) /\ ~ Step(u)
  BY <1>1, <1>2, <1>4 DEF Sole, Quiet
<1>5. Tick \/ ReadClock(t) \/ Step(t) \/ UNCHANGED vars
  BY <1>4 DEF Next, Done
<1> QED
  BY <1>1, <1>2, <1>3, <1>5 DEF Sole

(* The ledger counts the credit that the sole caller has taken from the    *)
(* clock: what is in the bucket and what was consumed never exceeds the    *)
(* burst plus the whole microseconds up to last_refill_.                   *)
(* Between the store of last_refill_ and the CAS the credit of the refill  *)
(* in progress counts as well; before the store it is bounded by the time  *)
(* from last_refill_ to the reading of the clock.                          *)
Ledger(t) ==
    tokens_micro + consumed
        + (IF pc[t] \in {"rload", "rcas"} THEN to_add[t] ELSE 0)
        <= capacity_micro + Rate * Elapsed(0, last_refill)

PendingCredit(t) ==
    pc[t] = "store" =>
        /\ last_refill <= now[t]
        /\ to_add[t] <= Rate * Elapsed(last_refill, now[t])

SingleCallerInv(t) == TypeOK /\ Ledger(t) /\ PendingCredit(t)
(* Every step of the sole caller, and of the clock, preserves the ledger.  *)
LEMMA SingleCallerStep ==
    ASSUME NEW t \in Threads, Quiet, TypeOK', SingleCallerInv(t), [Next]_vars, Sole(t)'
    PROVE  SingleCallerInv(t)'
<1> USE RateLimiterAssumption DEF SingleCallerInv, TypeOK, GoTo, locals
<1>0. capacity_micro \in Nat /\ Micro <= capacity_micro
  BY DEF capacity_micro
<1>1. /\ Elapsed(0, last_refill) \in Nat
      /\ Rate * Elapsed(0, last_refill) \in Nat
  BY DEF Elapsed
<1>2. CASE Tick
  BY <1>2 DEF Tick, Ledger, PendingCredit
<1>3. CASE ReadClock(t)
  BY <1>3 DEF ReadClock, Ledger, PendingCredit
<1>4. CASE LoadLastRefill(t)
  <2> DEFINE e == Elapsed(last_refill, now[t])
  <2>1. e \in Nat \ {0}
    BY <1>4 DEF LoadLastRefill, NothingToAdd, Elapsed
  <2>2. ToAdd(e) <= Rate * e
    BY <2>1, ToAddBound
  <2>3. last_refill <= now[t]
    <3>1. last_refill \in Int /\ now[t] \in Int /\ now[t] - last_refill \in Int
      OBVIOUS
    <3>2. TicksPerUs * e <= now[t] - last_refill
      BY <3>1, DivFloor DEF Elapsed
    <3> HIDE DEF e
    <3> QED
      BY <2>1, <3>1, <3>2
  <2>4. PendingCredit(t)'
    BY <1>4, <2>2, <2>3 DEF LoadLastRefill, PendingCredit, Elapsed
  <2>5. Ledger(t)'
    BY <1>4 DEF LoadLastRefill, Ledger
  <2> QED
    BY <2>4, <2>5
<1>5. CASE SkipRefill(t)
  BY <1>5 DEF SkipRefill, Ledger, PendingCredit
<1>6. CASE StoreLastRefill(t)
  <2> DEFINE e0 == Elapsed(0, last_refill)
             e1 == Elapsed(last_refill, now[t])
             e2 == Elapsed(0, now[t])
  <2>1. e0 \in Int /\ e1 \in Int /\ e2 \in Int /\ e0 + e1 <= e2
    <3>1. last_refill - 0 \in Int /\ now[t] - last_refill \in Int /\ now[t] - 0 \in Int
      OBVIOUS
    <3>2. (last_refill - 0) + (now[t] - last_refill) = now[t] - 0
      BY <3>1
    <3> QED
      BY <3>1, <3>2, DivSuperadditive, DivFloor DEF Elapsed
  <2>2. /\ tokens_micro + consumed <= capacity_micro + Rate * e0
        /\ to_add[t] <= Rate * e1
    BY <1>6 DEF StoreLastRefill, Ledger, PendingCredit
  <2>3. last_refill' = now[t] /\ pc'[t] = "rload"
    BY <1>6 DEF StoreLastRefill
  <2>4. Rate * e0 + Rate * e1 <= Rate * e2
    <3> HIDE DEF e0, e1, e2
    <3>1. Rate * e0 + Rate * e1 = Rate * (e0 + e1)
      BY <2>1
    <3> QED
      BY <2>1, <3>1
  <2>5. Ledger(t)'
    <3>1. tokens_micro + consumed + to_add[t] <= capacity_micro + Rate * e2
      <4> HIDE DEF e0, e1, e2
      <4> QED BY <1>0, <2>1, <2>2, <2>4
    <3> QED
      BY <1>6, <2>3, <3>1 DEF StoreLastRefill, Ledger, Elapsed
  <2> QED
    BY <2>3, <2>5 DEF PendingCredit
<1>7. CASE LoadTokens(t)
  BY <1>7 DEF LoadTokens, Ledger, PendingCredit
<1>8. CASE CasFails(t)
  BY <1>8 DEF CasFails, Ledger, PendingCredit
<1>9. CASE CasRefill(t)
  BY <1>0, <1>1, <1>9 DEF CasRefill, MinOf, Ledger, PendingCredit
<1>10. CASE Deny(t)
  BY <1>10 DEF Deny, Return, Ledger, PendingCredit
<1>11. CASE CasConsume(t)
  BY <1>0, <1>1, <1>11 DEF CasConsume, Return, Ledger, PendingCredit
<1>12. CASE UNCHANGED vars
  BY <1>12 DEF vars, Ledger, PendingCredit
<1>13. Tick \/ ReadClock(t) \/ Step(t) \/ UNCHANGED vars
  BY SoleSteps
<1> QED
  BY <1>2, <1>3, <1>4, <1>5, <1>6, <1>7, <1>8, <1>9, <1>10, <1>11, <1>12, <1>13 DEF Step

SoleInv == \A t \in Threads : Sole(t) => SingleCallerInv(t)

(* As long as one thread calls, the limiter never admits more than its     *)
(* burst plus its rate, for every resolution of the clock and even if the  *)
(* product in refill overflows.                                            *)
THEOREM SingleCallerAdmission == Spec => []SoleCallerBound
<1>0. capacity_micro \in Nat
  BY RateLimiterAssumption DEF capacity_micro
<1>1. Init => SoleInv
  <2> SUFFICES ASSUME Init, NEW t \in Threads PROVE SingleCallerInv(t)
    BY DEF SoleInv
  <2>1. TypeOK
    BY <1>0, RateLimiterAssumption DEF Init, TypeOK, States
  <2>2. Elapsed(0, 0) = 0
    BY RateLimiterAssumption DEF Elapsed
  <2> QED
    BY <1>0, <2>1, <2>2, RateLimiterAssumption
       DEF Init, SingleCallerInv, Ledger, PendingCredit
<1>2. TypeOK /\ TypeOK' /\ Quiet /\ SoleInv /\ [Next]_vars => SoleInv'
  <2> SUFFICES ASSUME TypeOK, TypeOK', Quiet, SoleInv, [Next]_vars, NEW t \in Threads, Sole(t)'
               PROVE  SingleCallerInv(t)'
    BY DEF SoleInv
  <2>1. SingleCallerInv(t)
    BY SoleSteps DEF SoleInv
  <2> QED
    BY <2>1, SingleCallerStep
<1>3. SoleInv => SoleCallerBound
  <2> SUFFICES ASSUME NEW t \in Threads, SingleCallerInv(t) PROVE AdmissionBound
    BY DEF SoleInv, SoleCallerBound
  <2> USE RateLimiterAssumption
  <2> DEFINE e0 == Elapsed(0, last_refill)
             e1 == Elapsed(0, clock)
  <2>1. e0 \in Int /\ e1 \in Int /\ e0 <= e1
    <3>1. last_refill - 0 \in Int /\ clock - 0 \in Int /\ last_refill - 0 <= clock - 0
      BY DEF SingleCallerInv, TypeOK
    <3> QED
      BY <3>1, DivMonotone, DivFloor DEF Elapsed
  <2>2. consumed <= capacity_micro + Rate * e0
    <3>1. Rate * e0 \in Int
      BY <2>1
    <3> HIDE DEF e0
    <3> QED
      BY <1>0, <3>1 DEF SingleCallerInv, TypeOK, Ledger, e0
  <2>3. Rate * e0 <= Rate * e1
    <3> HIDE DEF e0, e1
    <3> QED BY <2>1
  <2>4. consumed <= capacity_micro + Rate * e1
    <3> HIDE DEF e0, e1
    <3> QED BY <1>0, <2>1, <2>2, <2>3 DEF SingleCallerInv, TypeOK
  <2> QED
    BY <2>4 DEF AdmissionBound
<1> QED
  BY <1>1, <1>2, <1>3, TypeCorrect, QuietCorrect, PTL DEF Spec

-----------------------------------------------------------------------------
(* As long as the product in refill fits int64_t, nothing is rounded away: *)
(* Micro micro-tokens per token and Micro microseconds per second cancel.  *)
LEMMA ToAddExact ==
    ASSUME NEW e \in Nat, refill_rate_per_s_micro * e <= IntMax
    PROVE  ToAdd(e) = Rate * e
<1>0. Rate \in Nat \ {0} /\ Micro \in Nat \ {0} /\ IntMax \in Nat
  BY RateLimiterAssumption
<1>1. Rate * e \in Nat
  BY <1>0
<1> DEFINE p == Micro * (Rate * e)
<1>2. refill_rate_per_s_micro * e = p /\ p \in Nat /\ p <= IntMax
  BY <1>0 DEF refill_rate_per_s_micro
<1> HIDE DEF p
<1>3. Wrap(p) = p
  <2>1. \A h, q \in Nat : q < h => (q + h) % (2 * h) = q + h
    OBVIOUS
  <2>2. IntMax + 1 \in Nat /\ p < IntMax + 1
    BY <1>0, <1>2
  <2>3. (p + (IntMax + 1)) % (2 * (IntMax + 1)) = p + (IntMax + 1)
    BY <1>2, <2>1, <2>2
  <2> QED
    BY <1>0, <1>2, <2>3 DEF Wrap
<1>4. p \div Micro = Rate * e
  <2> DEFINE d == p \div Micro
  <2>1. d \in Int /\ Micro * d <= p /\ p < Micro * d + Micro
    BY <1>0, <1>2, DivFloor
  <2> HIDE DEF d
  <2>2. Micro * d < Micro * (Rate * e) + Micro /\ Micro * (Rate * e) < Micro * d + Micro
    BY <1>0, <1>1, <2>1 DEF p
  <2>3. d <= Rate * e /\ Rate * e <= d
    BY <1>0, <1>1, <2>1, <2>2, MulCancel
  <2> QED
    BY <1>1, <2>1, <2>3 DEF d
<1> QED
  BY <1>2, <1>3, <1>4 DEF ToAdd

(* The products of a refill that reads the clock before MaxClock.          *)
LEMMA ProductFits ==
    ASSUME TypeOK, NEW t \in Threads, refill_rate_per_s_micro * MaxClock <= IntMax,
           Elapsed(last_refill, now[t]) >= 0
    PROVE  ToAdd(Elapsed(last_refill, now[t])) = Rate * Elapsed(last_refill, now[t])
<1> DEFINE e == Elapsed(last_refill, now[t])
           d == now[t] - last_refill
<1>0. TicksPerUs \in Nat \ {0} /\ MaxClock \in Nat /\ refill_rate_per_s_micro \in Nat
  BY RateLimiterAssumption DEF refill_rate_per_s_micro
<1>1. d \in Int /\ d <= MaxClock
  BY <1>0 DEF TypeOK
<1>2. e \in Int /\ TicksPerUs * e <= d
  BY <1>0, <1>1, DivFloor DEF Elapsed
<1>3. e \in Nat
  BY <1>2
<1> HIDE DEF e, d
<1>4. e <= TicksPerUs * e
  BY <1>0, <1>3
<1>5. e <= MaxClock
  BY <1>0, <1>1, <1>2, <1>3, <1>4
<1>6. refill_rate_per_s_micro * e <= refill_rate_per_s_micro * MaxClock
  BY <1>0, <1>3, <1>5
<1>7. refill_rate_per_s_micro * e <= IntMax
  BY <1>0, <1>3, <1>6, RateLimiterAssumption
<1> QED
  BY <1>3, <1>7, ToAddExact DEF e

(* What the sole caller knows once its refill is behind it: nothing has    *)
(* accrued between last_refill_ and its reading of the clock.              *)
Refilled(t) ==
    pc[t] \in {"rload", "rcas", "cload", "ccas"} => Elapsed(last_refill, now[t]) <= 0

LEMMA RefilledStep ==
    ASSUME NEW t \in Threads, TypeOK, Quiet, Refilled(t), [Next]_vars, Sole(t)',
           refill_rate_per_s_micro * MaxClock <= IntMax
    PROVE  Refilled(t)'
<1> USE DEF TypeOK, GoTo, locals
<1>1. CASE Tick
  BY <1>1 DEF Tick, Refilled, Elapsed
<1>2. CASE ReadClock(t)
  BY <1>2 DEF ReadClock, Refilled
<1>3. CASE LoadLastRefill(t)
  BY <1>3 DEF LoadLastRefill, Refilled
<1>4. CASE SkipRefill(t)
  <2> DEFINE e == Elapsed(last_refill, now[t])
  <2>0. Rate \in Nat \ {0} /\ TicksPerUs \in Nat \ {0}
    BY RateLimiterAssumption
  <2>1. e \in Int
    <3>1. now[t] - last_refill \in Int
      OBVIOUS
    <3> QED
      BY <2>0, <3>1, DivFloor DEF Elapsed
  <2>2. e <= 0 \/ ToAdd(e) <= 0
    BY <1>4 DEF SkipRefill, NothingToAdd
  <2>3. e >= 0 => ToAdd(e) = Rate * e
    BY ProductFits
  <2> HIDE DEF e
  <2>4. e >= 1 => Rate * e \in Int /\ ~ (Rate * e <= 0)
    BY <2>0, <2>1
  <2>5. e <= 0
    <3>1. ASSUME e >= 1 PROVE FALSE
      <4>1. ToAdd(e) = Rate * e /\ ~ (e <= 0)
        BY <2>1, <2>3, <3>1
      <4> QED
        BY <2>2, <2>4, <3>1, <4>1
    <3> QED
      BY <2>1, <3>1
  <2> QED
    BY <1>4, <2>5 DEF SkipRefill, Refilled, Elapsed, e
<1>5. CASE StoreLastRefill(t)
  <2>1. last_refill' = now[t] /\ now' = now
    BY <1>5 DEF StoreLastRefill
  <2>2. Elapsed(now[t], now[t]) = 0
    BY RateLimiterAssumption DEF Elapsed
  <2> QED
    BY <2>1, <2>2 DEF Refilled, Elapsed
<1>6. CASE LoadTokens(t)
  BY <1>6 DEF LoadTokens, Refilled, Elapsed
<1>7. CASE CasFails(t)
  BY <1>7 DEF CasFails, Refilled, Elapsed
<1>8. CASE CasRefill(t)
  BY <1>8 DEF CasRefill, Refilled, Elapsed
<1>9. CASE Deny(t) \/ CasConsume(t)
  BY <1>9 DEF Deny, CasConsume, Return, Refilled
<1>10. CASE UNCHANGED vars
  BY <1>10 DEF vars, Refilled, Elapsed
<1>11. Tick \/ ReadClock(t) \/ Step(t) \/ UNCHANGED vars
  BY SoleSteps
<1> QED
  BY <1>1, <1>2, <1>3, <1>4, <1>5, <1>6, <1>7, <1>8, <1>9, <1>10, <1>11 DEF Step

SoleRefilled == \A t \in Threads : Sole(t) => Refilled(t)

(* try_consume returns false to a sole caller only when less than a token  *)
(* has accrued, as long as the product in refill fits int64_t.             *)
THEOREM SingleCallerDenial ==
    ASSUME refill_rate_per_s_micro * MaxClock <= IntMax
    PROVE  Spec => DeniedOnlyWhenEmpty
<1>1. Init => SoleRefilled
  BY DEF Init, SoleRefilled, Refilled
<1>2. TypeOK /\ Quiet /\ SoleRefilled /\ [Next]_vars => SoleRefilled'
  <2> SUFFICES ASSUME TypeOK, Quiet, SoleRefilled, [Next]_vars, NEW t \in Threads, Sole(t)'
               PROVE  Refilled(t)'
    BY DEF SoleRefilled
  <2>1. Refilled(t)
    BY SoleSteps DEF SoleRefilled
  <2> QED
    BY <2>1, RefilledStep
<1>3. TypeOK /\ SoleRefilled => DenialDue
  <2> SUFFICES ASSUME TypeOK, NEW c \in Threads, Refilled(c), Deny(c)
               PROVE  Rate * Elapsed(last_refill, now[c]) < Micro
    BY DEF DenialDue, SoleRefilled
  <2> DEFINE e == Elapsed(last_refill, now[c])
  <2>1. Rate \in Nat \ {0} /\ TicksPerUs \in Nat \ {0} /\ Micro \in Nat \ {0}
    BY RateLimiterAssumption
  <2>2. now[c] - last_refill \in Int
    BY DEF TypeOK
  <2>3. e \in Int /\ e <= 0
    BY <2>1, <2>2, DivFloor DEF Elapsed, Deny, Return, GoTo, Refilled
  <2> HIDE DEF e
  <2>4. Rate * e <= 0
    BY <2>1, <2>3
  <2> QED
    BY <2>1, <2>3, <2>4 DEF e
<1> QED
  BY <1>1, <1>2, <1>3, TypeCorrect, QuietCorrect, PTL DEF Spec, DeniedOnlyWhenEmpty

-----------------------------------------------------------------------------
(* Any number of callers.  What the threads at the given places of refill  *)
(* are about to add is a sum over threads; it is counted as the size of a  *)
(* set that has to_add[t] elements for each thread t of them.              *)
Credit(places) == {p \in Threads \X Nat : pc[p[1]] \in places /\ p[2] < to_add[p[1]]}

Total == tokens_micro + consumed + spilled

LEMMA CapacityType == capacity_micro \in Nat
BY RateLimiterAssumption DEF capacity_micro

LEMMA TotalType ==
    ASSUME TypeOK
    PROVE  Total \in Nat
BY CapacityType DEF TypeOK, Total

(* Only the CAS of refill adds to the total.                               *)
LEMMA TotalSteps ==
    ASSUME TypeOK, NEW t \in Threads
    PROVE  /\ CasRefill(t) => Total' = Total + to_add[t]
           /\ CasConsume(t) => Total' = Total
<1>0. /\ tokens_micro \in Nat /\ consumed \in Nat /\ spilled \in Nat
      /\ current[t] \in Nat /\ to_add[t] \in Nat /\ capacity_micro \in Nat /\ Micro \in Nat
  BY CapacityType, RateLimiterAssumption DEF TypeOK
<1>1. ASSUME CasRefill(t) PROVE Total' = Total + to_add[t]
  <2> DEFINE d == MinOf(current[t] + to_add[t], capacity_micro)
  <2>1. d \in Nat
    BY <1>0 DEF MinOf
  <2>2. /\ tokens_micro = current[t] /\ tokens_micro' = d /\ consumed' = consumed
        /\ spilled' = spilled + (current[t] + to_add[t] - d)
    BY <1>1 DEF CasRefill
  <2> HIDE DEF d
  <2> QED
    BY <1>0, <2>1, <2>2 DEF Total
<1>2. ASSUME CasConsume(t) PROVE Total' = Total
  BY <1>0, <1>2 DEF CasConsume, Total
<1> QED
  BY <1>1, <1>2

LEMMA PutColumn ==
    ASSUME NEW C, IsFiniteSet(C), NEW x, NEW k \in Nat, \A i \in Nat : <<x, i>> \notin C
    PROVE  /\ IsFiniteSet(C \union ({x} \X (0 .. k - 1)))
           /\ Cardinality(C \union ({x} \X (0 .. k - 1))) = Cardinality(C) + k
<1> DEFINE K == {x} \X (0 .. k - 1)
<1>1. IsFiniteSet(0 .. k - 1) /\ Cardinality(0 .. k - 1) = k
  <2>1. 0 \in Int /\ k - 1 \in Int
    OBVIOUS
  <2>2. /\ IsFiniteSet(0 .. k - 1)
        /\ Cardinality(0 .. k - 1) = IF 0 > k - 1 THEN 0 ELSE (k - 1) - 0 + 1
    BY <2>1, FS_Interval
  <2> QED
    BY <2>2
<1>2. IsFiniteSet({x}) /\ Cardinality({x}) = 1
  BY FS_Singleton
<1>3. IsFiniteSet(K) /\ Cardinality(K) = 1 * k
  BY <1>1, <1>2, FS_Product
<1>4. C \cap K = {}
  OBVIOUS
<1>5. Cardinality(C \cap K) = 0 /\ Cardinality(C) \in Nat
  BY <1>4, FS_EmptySet, FS_CardinalityType
<1> HIDE DEF K
<1>7. IsFiniteSet(C \union K) /\ Cardinality(C \union K) = Cardinality(C) + 1 * k - 0
  BY <1>3, <1>5, FS_Union
<1> QED
  BY <1>5, <1>7 DEF K

(* One thread begins to have credit there, has it no longer, or neither.   *)
LEMMA CreditStays ==
    ASSUME NEW S,
           \A t \in Threads : /\ pc'[t] \in S <=> pc[t] \in S
                              /\ pc[t] \in S => to_add'[t] = to_add[t]
    PROVE  Credit(S)' = Credit(S)
BY DEF Credit

LEMMA CreditEnters ==
    ASSUME NEW S, IsFiniteSet(Credit(S)), NEW t \in Threads,
           pc[t] \notin S, pc'[t] \in S, to_add'[t] \in Nat,
           \A u \in Threads \ {t} : pc'[u] = pc[u] /\ to_add'[u] = to_add[u]
    PROVE  IsFiniteSet(Credit(S)') /\ Cardinality(Credit(S)') = Cardinality(Credit(S)) + to_add'[t]
<1>1. \A i \in Nat : <<t, i>> \notin Credit(S)
  BY DEF Credit
<1>2. \A p : p \in Credit(S)' <=> p \in Credit(S) \/ \E i \in 0 .. to_add'[t] - 1 : p = <<t, i>>
  <2>1. ASSUME NEW p, p \in Credit(S)'
        PROVE  p \in Credit(S) \/ \E i \in 0 .. to_add'[t] - 1 : p = <<t, i>>
    <3>1. PICK u \in Threads, i \in Nat : p = <<u, i>> /\ pc'[u] \in S /\ i < to_add'[u]
      BY <2>1 DEF Credit
    <3>2. CASE u = t
      <4>1. i \in 0 .. to_add'[t] - 1
        BY <3>1, <3>2
      <4> QED
        BY <3>1, <3>2, <4>1
    <3> QED
      BY <3>1, <3>2 DEF Credit
  <2>2. ASSUME NEW p, p \in Credit(S)
        PROVE  p \in Credit(S)'
    BY <2>2 DEF Credit
  <2>3. ASSUME NEW i \in 0 .. to_add'[t] - 1
        PROVE  <<t, i>> \in Credit(S)'
    BY DEF Credit
  <2> QED
    BY <2>1, <2>2, <2>3
<1>3. Credit(S)' = Credit(S) \union ({t} \X (0 .. to_add'[t] - 1))
  BY <1>2
<1>4. LET D == Credit(S) \union ({t} \X (0 .. to_add'[t] - 1))
      IN  IsFiniteSet(D) /\ Cardinality(D) = Cardinality(Credit(S)) + to_add'[t]
  BY <1>1, PutColumn
<1> QED
  BY <1>3, <1>4

LEMMA CreditLeaves ==
    ASSUME NEW S, IsFiniteSet(Credit(S)), NEW t \in Threads,
           pc[t] \in S, pc'[t] \notin S, to_add[t] \in Nat,
           \A u \in Threads \ {t} : pc'[u] = pc[u] /\ to_add'[u] = to_add[u]
    PROVE  IsFiniteSet(Credit(S)') /\ Cardinality(Credit(S)) = Cardinality(Credit(S)') + to_add[t]
<1>1. Credit(S)' \subseteq Credit(S) /\ \A i \in Nat : <<t, i>> \notin Credit(S)'
  BY DEF Credit
<1>2. IsFiniteSet(Credit(S)')
  BY <1>1, FS_Subset
<1>3. \A p : p \in Credit(S) <=> p \in Credit(S)' \/ \E i \in 0 .. to_add[t] - 1 : p = <<t, i>>
  <2>1. ASSUME NEW p, p \in Credit(S)
        PROVE  p \in Credit(S)' \/ \E i \in 0 .. to_add[t] - 1 : p = <<t, i>>
    <3>1. PICK u \in Threads, i \in Nat : p = <<u, i>> /\ pc[u] \in S /\ i < to_add[u]
      BY <2>1 DEF Credit
    <3>2. CASE u = t
      <4>1. i \in 0 .. to_add[t] - 1
        BY <3>1, <3>2
      <4> QED
        BY <3>1, <3>2, <4>1
    <3> QED
      BY <3>1, <3>2 DEF Credit
  <2>2. ASSUME NEW i \in 0 .. to_add[t] - 1
        PROVE  <<t, i>> \in Credit(S)
    BY DEF Credit
  <2> QED
    BY <1>1, <2>1, <2>2
<1>4. Credit(S) = Credit(S)' \union ({t} \X (0 .. to_add[t] - 1))
  BY <1>3
<1>5. LET D == Credit(S)' \union ({t} \X (0 .. to_add[t] - 1))
      IN  IsFiniteSet(D) /\ Cardinality(D) = Cardinality(Credit(S)') + to_add[t]
  BY <1>1, <1>2, PutColumn
<1> QED
  BY <1>2, <1>4, <1>5

-----------------------------------------------------------------------------
(* What refill can lose.  All that the clock gave up to last_refill_, less *)
(* what the truncation of each refill may have dropped, is in the bucket,  *)
(* was taken from it, or is about to be added by a refill that has stored  *)
(* last_refill_ already.  A refill that still has to store its reading     *)
(* holds what is missing up to that reading, even if last_refill_ has      *)
(* moved since it was loaded, forwards or back.  Have and Owed are in      *)
(* micro-tokens times TicksPerUs.                                          *)
Adding == {"rload", "rcas"}

Have ==
    TicksPerUs * (Total + Cardinality(Credit(Adding))) + Rate * (TicksPerUs - 1) * refills

Owed(x) == TicksPerUs * capacity_micro + Rate * x

CreditInv ==
    /\ IsFiniteSet(Credit(Adding))
    /\ Have >= Owed(last_refill)
    /\ \A t \in Threads : pc[t] = "store" => Have + TicksPerUs * to_add[t] >= Owed(now[t])

LEMMA CreditTypes ==
    ASSUME TypeOK, IsFiniteSet(Credit(Adding))
    PROVE  /\ Rate \in Nat \ {0} /\ TicksPerUs \in Nat \ {0} /\ capacity_micro \in Nat
           /\ Total \in Nat /\ Cardinality(Credit(Adding)) \in Nat /\ refills \in Nat
           /\ Have \in Int /\ \A x \in Nat : Owed(x) \in Int
           /\ last_refill \in Nat
           /\ \A t \in Threads : /\ now[t] \in Nat /\ to_add[t] \in Nat
                                 /\ TicksPerUs * to_add[t] \in Nat
<1>1. /\ Rate \in Nat \ {0} /\ TicksPerUs \in Nat \ {0} /\ capacity_micro \in Nat
      /\ Total \in Nat /\ Cardinality(Credit(Adding)) \in Nat /\ refills \in Nat
      /\ last_refill \in Nat
  BY RateLimiterAssumption, CapacityType, TotalType, FS_CardinalityType DEF TypeOK
<1>2. Have \in Int /\ \A x \in Nat : Owed(x) \in Int
  <2>1. \A a, b, c, d, e \in Int : a * (b + c) + d * (a - 1) * e \in Int /\ a * b + d * c \in Int
    OBVIOUS
  <2> QED
    BY <1>1, <2>1 DEF Have, Owed
<1>3. ASSUME NEW t \in Threads
      PROVE  now[t] \in Nat /\ to_add[t] \in Nat /\ TicksPerUs * to_add[t] \in Nat
  BY <1>1 DEF TypeOK
<1> QED
  BY <1>1, <1>2, <1>3

(* Steps that neither credit nor consume, and change no stored reading.    *)
LEMMA CreditFrame ==
    ASSUME CreditInv, Total' = Total, last_refill' = last_refill, refills' = refills,
           \A t \in Threads : /\ pc'[t] \in Adding <=> pc[t] \in Adding
                              /\ pc[t] \in Adding => to_add'[t] = to_add[t]
                              /\ pc'[t] = "store" => /\ pc[t] = "store" /\ now'[t] = now[t]
                                                     /\ to_add'[t] = to_add[t]
    PROVE  CreditInv'
<1>1. Credit(Adding)' = Credit(Adding)
  BY CreditStays DEF Adding
<1>2. Have' = Have /\ \A x : Owed(x)' = Owed(x)
  BY <1>1 DEF Have, Owed, capacity_micro
<1>3. Have' >= Owed(last_refill)'
  BY <1>2 DEF CreditInv, Owed, capacity_micro
<1>4. \A t \in Threads : pc'[t] = "store" => Have' + TicksPerUs * to_add'[t] >= Owed(now[t])'
  BY <1>2 DEF CreditInv, Owed, capacity_micro
<1> QED
  BY <1>1, <1>3, <1>4 DEF CreditInv

LEMMA CreditStep ==
    ASSUME refill_rate_per_s_micro * MaxClock <= IntMax, TypeOK, TypeOK', CreditInv, [Next]_vars
    PROVE  CreditInv'
<1> DEFINE N == Cardinality(Credit(Adding))
<1>0. /\ Rate \in Nat \ {0} /\ TicksPerUs \in Nat \ {0} /\ capacity_micro \in Nat
      /\ Total \in Nat /\ N \in Nat /\ refills \in Nat
      /\ Have \in Int /\ \A x \in Nat : Owed(x) \in Int
      /\ last_refill \in Nat
      /\ \A t \in Threads : now[t] \in Nat /\ to_add[t] \in Nat /\ TicksPerUs * to_add[t] \in Nat
  BY CreditTypes DEF CreditInv
<1>o. \A x : Owed(x)' = Owed(x')
  BY DEF Owed, capacity_micro
<1>1. CASE Tick
  BY <1>1, CreditFrame DEF Tick, Total, locals
<1>2. ASSUME NEW t \in Threads, ReadClock(t) PROVE CreditInv'
  BY <1>2, CreditFrame DEF ReadClock, GoTo, Total, Adding, TypeOK
<1>3. ASSUME NEW t \in Threads, LoadLastRefill(t) PROVE CreditInv'
  <2> DEFINE e == Elapsed(last_refill, now[t])
             d == now[t] - last_refill
             lost == Rate * (TicksPerUs - 1)
  <2>1. /\ ~ NothingToAdd(t) /\ pc[t] = "elapsed" /\ pc' = [pc EXCEPT ![t] = "store"]
        /\ to_add' = [to_add EXCEPT ![t] = ToAdd(e)] /\ refills' = refills + 1
        /\ UNCHANGED <<tokens_micro, consumed, spilled, last_refill, now>>
    BY <1>3 DEF LoadLastRefill, GoTo
  <2>2. e \in Int /\ d \in Int /\ d <= TicksPerUs * e + (TicksPerUs - 1)
    <3>1. d \in Int
      BY <1>0
    <3>2. e \in Int /\ d < TicksPerUs * e + TicksPerUs
      BY <1>0, <3>1, DivFloor DEF Elapsed
    <3>3. TicksPerUs * e \in Int
      BY <1>0, <3>2
    <3> HIDE DEF e, d
    <3> QED
      BY <1>0, <3>1, <3>2, <3>3
  <2>3. e >= 0
    BY <2>1, <2>2 DEF NothingToAdd
  <2>4. ToAdd(e) = Rate * e
    BY <2>3, ProductFits
  <2>5. Rate * d <= TicksPerUs * (Rate * e) + lost
    <3> HIDE DEF e, d
    <3>1. \A r, k, x \in Int : r * (k * x + (k - 1)) = k * (r * x) + r * (k - 1)
      OBVIOUS
    <3>2. \A r \in Nat : \A x, y \in Int : x <= y => r * x <= r * y
      OBVIOUS
    <3>3. TicksPerUs * e + (TicksPerUs - 1) \in Int
      BY <1>0, <2>2
    <3>4. Rate * d <= Rate * (TicksPerUs * e + (TicksPerUs - 1))
      BY <1>0, <2>2, <3>2, <3>3
    <3> QED
      BY <1>0, <2>2, <3>1, <3>4
  <2>6. /\ pc'[t] = "store" /\ to_add'[t] = Rate * e
        /\ \A u \in Threads \ {t} : pc'[u] = pc[u] /\ to_add'[u] = to_add[u]
    BY <2>1, <2>4 DEF TypeOK
  <2>7. Credit(Adding)' = Credit(Adding)
    BY <2>1, <2>6, CreditStays DEF Adding
  <2>8. Have' = Have + lost /\ lost \in Nat
    <3>1. Total' = Total
      BY <2>1 DEF Total
    <3>2. \A l, n \in Int : l * (n + 1) = l * n + l
      OBVIOUS
    <3>3. lost \in Nat /\ TicksPerUs * (Total + N) \in Int /\ lost * refills \in Int
      BY <1>0
    <3>4. Have = TicksPerUs * (Total + N) + lost * refills
      BY DEF Have
    <3>5. Have' = TicksPerUs * (Total + N) + lost * (refills + 1)
      BY <2>1, <2>7, <3>1 DEF Have
    <3> HIDE DEF lost, N
    <3> QED
      BY <1>0, <3>2, <3>3, <3>4, <3>5
  <2>9. Have >= Owed(last_refill)
    BY DEF CreditInv
  <2>10. Have' + TicksPerUs * to_add'[t] >= Owed(now[t])
    <3>1. Owed(now[t]) = Owed(last_refill) + Rate * d
      <4>1. \A c, r, a, b \in Int : c + r * b = c + r * a + r * (b - a)
        OBVIOUS
      <4>2. TicksPerUs * capacity_micro \in Int
        BY <1>0
      <4> QED
        BY <1>0, <4>1, <4>2 DEF Owed
    <3>2. Rate * d \in Int /\ TicksPerUs * (Rate * e) \in Int /\ Owed(last_refill) \in Int
      BY <1>0, <2>2
    <3> HIDE DEF e, d, lost
    <3> QED
      BY <1>0, <2>5, <2>6, <2>8, <2>9, <3>1, <3>2
  <2>11. \A u \in Threads : pc'[u] = "store" =>
             Have' + TicksPerUs * to_add'[u] >= Owed(now[u])
    <3> SUFFICES ASSUME NEW u \in Threads, u # t, pc'[u] = "store"
                 PROVE  Have' + TicksPerUs * to_add'[u] >= Owed(now[u])
      BY <2>10
    <3>1. Have + TicksPerUs * to_add[u] >= Owed(now[u])
      BY <2>6 DEF CreditInv
    <3>2. to_add'[u] = to_add[u] /\ TicksPerUs * to_add[u] \in Nat /\ Owed(now[u]) \in Int
      BY <1>0, <2>6
    <3> HIDE DEF lost
    <3> QED
      BY <1>0, <2>8, <3>1, <3>2
  <2>12. Have' >= Owed(last_refill)
    <3> HIDE DEF lost
    <3> QED
      BY <1>0, <2>8, <2>9
  <2> QED
    BY <2>1, <2>7, <2>11, <2>12 DEF CreditInv, Owed, capacity_micro
<1>4. ASSUME NEW t \in Threads, SkipRefill(t) PROVE CreditInv'
  BY <1>4, CreditFrame DEF SkipRefill, GoTo, Total, Adding, TypeOK, locals
<1>5. ASSUME NEW t \in Threads, StoreLastRefill(t) PROVE CreditInv'
  <2>1. /\ pc[t] = "store" /\ pc' = [pc EXCEPT ![t] = "rload"]
        /\ last_refill' = now[t]
        /\ UNCHANGED <<tokens_micro, consumed, spilled, refills, to_add, now>>
    BY <1>5 DEF StoreLastRefill, GoTo, locals
  <2>2. pc'[t] = "rload" /\ \A u \in Threads \ {t} : pc'[u] = pc[u]
    BY <2>1 DEF TypeOK
  <2>3. IsFiniteSet(Credit(Adding)') /\ Cardinality(Credit(Adding)') = N + to_add[t]
    BY <1>0, <2>1, <2>2, CreditEnters DEF Adding, CreditInv
  <2>4. Have' = Have + TicksPerUs * to_add[t]
    <3>1. Total' = Total
      BY <2>1 DEF Total
    <3>2. \A k, x, n, a, y \in Int : k * (x + (n + a)) + y = k * (x + n) + y + k * a
      OBVIOUS
    <3>3. Rate * (TicksPerUs - 1) * refills \in Int
      BY <1>0
    <3>4. Have = TicksPerUs * (Total + N) + Rate * (TicksPerUs - 1) * refills
      BY DEF Have
    <3>5. Have' = TicksPerUs * (Total + (N + to_add[t])) + Rate * (TicksPerUs - 1) * refills
      BY <2>1, <2>3, <3>1 DEF Have
    <3> HIDE DEF N
    <3> QED
      BY <1>0, <3>2, <3>3, <3>4, <3>5
  <2>5. Have' >= Owed(now[t])
    BY <2>1, <2>4 DEF CreditInv
  <2>6. ASSUME NEW u \in Threads, pc'[u] = "store"
        PROVE  Have' + TicksPerUs * to_add[u] >= Owed(now[u])
    <3>1. pc[u] = "store"
      BY <2>2, <2>6
    <3>2. Have + TicksPerUs * to_add[u] >= Owed(now[u])
      BY <3>1 DEF CreditInv
    <3>3. Owed(now[u]) \in Int /\ TicksPerUs * to_add[u] \in Nat /\ TicksPerUs * to_add[t] \in Nat
      BY <1>0
    <3> QED
      BY <1>0, <2>4, <3>2, <3>3
  <2> QED
    BY <2>1, <2>3, <2>5, <2>6 DEF CreditInv, Owed, capacity_micro
<1>6. ASSUME NEW t \in Threads, LoadTokens(t) PROVE CreditInv'
  BY <1>6, CreditFrame DEF LoadTokens, GoTo, Total, Adding, TypeOK
<1>7. ASSUME NEW t \in Threads, CasFails(t) PROVE CreditInv'
  BY <1>7, CreditFrame DEF CasFails, Total, Adding, TypeOK
<1>8. ASSUME NEW t \in Threads, CasRefill(t) PROVE CreditInv'
  <2>1. /\ pc[t] = "rcas" /\ pc' = [pc EXCEPT ![t] = "cload"]
        /\ UNCHANGED <<to_add, now, last_refill, refills>>
    BY <1>8 DEF CasRefill, GoTo, locals
  <2>2. pc'[t] = "cload" /\ \A u \in Threads \ {t} : pc'[u] = pc[u]
    BY <2>1 DEF TypeOK
  <2>3. IsFiniteSet(Credit(Adding)') /\ N = Cardinality(Credit(Adding)') + to_add[t]
    BY <1>0, <2>1, <2>2, CreditLeaves DEF Adding, CreditInv
  <2>4. Total' = Total + to_add[t]
    BY <1>8, TotalSteps
  <2>5. Total' + Cardinality(Credit(Adding)') = Total + N
    <3>1. Cardinality(Credit(Adding)') \in Nat
      BY <2>3, FS_CardinalityType
    <3> HIDE DEF N
    <3> QED
      BY <1>0, <2>3, <2>4, <3>1, SMTT(15)
  <2>6. Have' = Have
    BY <2>1, <2>5 DEF Have
  <2>7. \A u \in Threads : pc'[u] = "store" => pc[u] = "store"
    BY <2>2
  <2> QED
    BY <2>1, <2>3, <2>6, <2>7 DEF CreditInv, Owed, capacity_micro
<1>9. ASSUME NEW t \in Threads, Deny(t) PROVE CreditInv'
  BY <1>9, CreditFrame DEF Deny, Return, GoTo, Total, Adding, TypeOK
<1>10. ASSUME NEW t \in Threads, CasConsume(t) PROVE CreditInv'
  <2>1. Total' = Total
    BY <1>10, TotalSteps
  <2> QED
    BY <1>10, <2>1, CreditFrame DEF CasConsume, Return, GoTo, Adding, TypeOK
<1>11. CASE UNCHANGED vars
  BY <1>11, CreditFrame DEF vars, Total
<1> QED
  BY <1>1, <1>2, <1>3, <1>4, <1>5, <1>6, <1>7, <1>8, <1>9, <1>10, <1>11 DEF Next, Step, Done

(* However many threads race in refill and whatever the resolution of      *)
(* steady_clock, each refill loses less than a microsecond of credit, as   *)
(* long as the product in refill fits int64_t.                             *)
THEOREM RefillLossBounded ==
    ASSUME refill_rate_per_s_micro * MaxClock <= IntMax
    PROVE  Spec => []LossBounded
<1>1. Init => CreditInv
  <2> SUFFICES ASSUME Init PROVE CreditInv
    OBVIOUS
  <2>1. Credit(Adding) = {}
    BY DEF Init, Credit, Adding
  <2>2. IsFiniteSet(Credit(Adding)) /\ Cardinality(Credit(Adding)) = 0
    BY <2>1, FS_EmptySet
  <2>3. Total = capacity_micro /\ refills = 0 /\ last_refill = 0
    BY CapacityType DEF Init, Total
  <2>4. \A k, c, x \in Int : k * (c + 0) + x * 0 >= k * c + x * 0
    OBVIOUS
  <2>5. Have >= Owed(last_refill)
    BY <2>2, <2>3, CapacityType, RateLimiterAssumption DEF Have, Owed
  <2> QED
    BY <2>2, <2>5 DEF Init, CreditInv
<1>2. TypeOK /\ TypeOK' /\ CreditInv /\ [Next]_vars => CreditInv'
  BY CreditStep
<1>3. TypeOK /\ CreditInv => LossBounded
  <2> SUFFICES ASSUME TypeOK, CreditInv, \A t \in Threads : pc[t] \notin Adding
               PROVE  CreditLost <= Rate * (TicksPerUs - 1) * refills
    BY DEF LossBounded, Adding
  <2>1. Credit(Adding) = {}
    BY DEF Credit
  <2>2. Cardinality(Credit(Adding)) = 0
    BY <2>1, FS_EmptySet
  <2>3. /\ Rate \in Nat /\ TicksPerUs \in Nat /\ capacity_micro \in Nat
        /\ Total \in Nat /\ refills \in Nat /\ last_refill \in Nat
    BY CreditTypes DEF CreditInv
  <2>4. Have = TicksPerUs * Total + Rate * (TicksPerUs - 1) * refills
    BY <2>2, <2>3 DEF Have
  <2>5. Have >= TicksPerUs * capacity_micro + Rate * last_refill
    BY DEF CreditInv, Owed
  <2>6. /\ TicksPerUs * Total \in Int /\ Rate * (TicksPerUs - 1) * refills \in Int
        /\ TicksPerUs * capacity_micro \in Int /\ Rate * last_refill \in Int
    BY <2>3
  <2>7. CreditLost = TicksPerUs * capacity_micro + Rate * last_refill - TicksPerUs * Total
    BY DEF CreditLost, Total
  <2> QED
    BY <2>4, <2>5, <2>6, <2>7
<1> QED
  BY <1>1, <1>2, <1>3, TypeCorrect, PTL DEF Spec

-----------------------------------------------------------------------------
(* ContentionBound.  Of each microsecond u since construction the proof    *)
(* counts how often it can still be credited.  Late(u) are the threads     *)
(* that read the clock before the end of u and may still store that        *)
(* reading; Covering(u) those that have loaded last_refill_ and are going  *)
(* to credit u.  While last_refill_ is not after u, every other thread may *)
(* load it and credit u once, until one of them stores last_refill_ after  *)
(* u; and each late thread may put it back before u once, after which all  *)
(* threads that are not late have another chance.  Chances is twice the    *)
(* number of credits that makes, so that no division is needed.            *)
Us(x) == Elapsed(0, x)

Late(u) == {t \in Threads : pc[t] \in {"elapsed", "store"} /\ Us(now[t]) <= u}

Covering(u) ==
    {t \in Threads : /\ pc[t] = "store" /\ u < Us(now[t])
                     /\ Rate * (Us(now[t]) - 1 - u) < to_add[t]}

Again(n, late) == late * (2 * n - late + 1)

Chances(u) ==
    LET n == Cardinality(Threads)
        o == Cardinality(Late(u))
        a == Cardinality(Covering(u))
    IN  (IF Us(last_refill) <= u THEN 2 * (n - o - a) ELSE 0) + Again(n, o)

Future == {p \in Nat \X Nat : p[1] < Us(clock) /\ p[2] < Chances(p[1])}

Due == {"store", "rload", "rcas"}

(* What is in the bucket or was taken from it, what is about to be added,  *)
(* and what can still be added for the time that has passed.               *)
RaceInv ==
    /\ IsFiniteSet(Future) /\ IsFiniteSet(Credit(Due))
    /\ 2 * (Total + Cardinality(Credit(Due))) + Rate * Cardinality(Future)
          <= 2 * capacity_micro + (Rate * (Cardinality(Threads) * (Cardinality(Threads) + 1))) * Us(clock)

(* Whole microseconds.                                                     *)
LEMMA UsFacts ==
    ASSUME NEW x \in Nat, NEW y \in Nat
    PROVE  /\ Us(x) \in Nat /\ Us(0) = 0
           /\ x <= y => Us(x) <= Us(y)
           /\ Elapsed(x, y) \in Int /\ Elapsed(x, y) <= Us(y) - Us(x)
           /\ Us(x + 1) = Us(x) \/ Us(x + 1) = Us(x) + 1
<1>0. TicksPerUs \in Nat \ {0}
  BY RateLimiterAssumption
<1>1. Us(x) = x \div TicksPerUs /\ Us(y) = y \div TicksPerUs /\ Us(x + 1) = (x + 1) \div TicksPerUs
  BY DEF Us, Elapsed
<1>2. Us(x) \in Nat /\ Us(y) \in Nat /\ Us(0) = 0
  BY <1>0, <1>1 DEF Us, Elapsed
<1>3. x <= y => Us(x) <= Us(y)
  BY <1>0, <1>1, DivMonotone
<1>4. Elapsed(x, y) \in Int /\ Elapsed(x, y) <= Us(y) - Us(x)
  <2>1. x \in Int /\ y - x \in Int /\ x + (y - x) = y
    OBVIOUS
  <2>2. (y - x) \div TicksPerUs \in Int
    BY <1>0, <2>1, DivFloor
  <2>3. (x \div TicksPerUs) + ((y - x) \div TicksPerUs) <= (x + (y - x)) \div TicksPerUs
    BY <1>0, <2>1, DivSuperadditive
  <2>4. \A a, b, c \in Int : a + b <= c => b <= c - a
    OBVIOUS
  <2> QED
    BY <1>1, <1>2, <2>1, <2>2, <2>3, <2>4 DEF Elapsed
<1>5. Us(x + 1) = Us(x) \/ Us(x + 1) = Us(x) + 1
  <2> DEFINE a == x \div TicksPerUs
             b == (x + 1) \div TicksPerUs
  <2>1. a \in Int /\ TicksPerUs * a <= x /\ x < TicksPerUs * a + TicksPerUs
    BY <1>0, DivFloor
  <2>2. b \in Int /\ TicksPerUs * b <= x + 1 /\ x + 1 < TicksPerUs * b + TicksPerUs
    BY <1>0, DivFloor
  <2> HIDE DEF a, b
  <2>3. TicksPerUs * (a + 1) = TicksPerUs * a + TicksPerUs
    BY <1>0, <2>1
  <2>4. TicksPerUs * a < TicksPerUs * b + TicksPerUs
    BY <1>0, <2>1, <2>2
  <2>5. TicksPerUs * b < TicksPerUs * (a + 1) + TicksPerUs
    BY <1>0, <2>1, <2>2, <2>3
  <2>6. a <= b /\ b <= a + 1
    BY <1>0, <2>1, <2>2, <2>4, <2>5, MulCancel
  <2> QED
    BY <1>1, <2>1, <2>2, <2>6 DEF a, b
<1> QED
  BY <1>2, <1>3, <1>4, <1>5

(* Twice the sum of n, n - 1, ... for the late threads: with the chances   *)
(* before the first of them it is at most n * (n + 1), and each late       *)
(* thread that stores pays for the chances it opens.                       *)
LEMMA AgainFacts ==
    ASSUME NEW n \in Nat, NEW o \in Nat, o <= n
    PROVE  /\ Again(n, o) \in Nat
           /\ 2 * (n - o) + Again(n, o) <= n * (n + 1)
           /\ Again(n, o - 1) = Again(n, o) - 2 * (n - o + 1)
<1>1. Again(n, o) \in Nat
  <2>1. 2 * n - o + 1 \in Nat
    OBVIOUS
  <2> QED
    BY <2>1 DEF Again
<1>2. Again(n, o - 1) = Again(n, o) - 2 * (n - o + 1)
  <2>1. \A i, j \in Int : (i - 1) * (2 * j - (i - 1) + 1) = i * (2 * j - i + 1) - 2 * (j - i + 1)
    OBVIOUS
  <2> QED
    BY <2>1 DEF Again
<1>3. 2 * (n - o) + Again(n, o) <= n * (n + 1)
  <2>1. \A i, j \in Int : j * (j + 1) - (2 * (j - i) + i * (2 * j - i + 1)) = (j - i) * ((j - i) - 1)
    OBVIOUS
  <2>2. \A i \in Nat : i * (i - 1) \in Nat
    OBVIOUS
  <2>3. n - o \in Nat
    OBVIOUS
  <2>4. (n - o) * ((n - o) - 1) \in Nat /\ n * (n + 1) \in Int
    BY <2>2, <2>3
  <2>5. n * (n + 1) - (2 * (n - o) + Again(n, o)) = (n - o) * ((n - o) - 1)
    BY <2>1 DEF Again
  <2> QED
    BY <1>1, <2>3, <2>4, <2>5
<1> QED
  BY <1>1, <1>2, <1>3

(* Late and covering threads are different ones.                           *)
LEMMA ThreadSets ==
    ASSUME IsFiniteSet(Threads), TypeOK, NEW u \in Nat
    PROVE  /\ IsFiniteSet(Late(u)) /\ IsFiniteSet(Covering(u))
           /\ Cardinality(Threads) \in Nat
           /\ Cardinality(Late(u)) \in Nat /\ Cardinality(Covering(u)) \in Nat
           /\ Cardinality(Late(u)) + Cardinality(Covering(u)) <= Cardinality(Threads)
           /\ Chances(u) \in Nat
<1>1. Late(u) \subseteq Threads /\ Covering(u) \subseteq Threads
  BY DEF Late, Covering
<1>2. IsFiniteSet(Late(u)) /\ IsFiniteSet(Covering(u))
  BY <1>1, FS_Subset
<1>3. /\ Cardinality(Threads) \in Nat
      /\ Cardinality(Late(u)) \in Nat /\ Cardinality(Covering(u)) \in Nat
  BY <1>2, FS_CardinalityType
<1>4. Late(u) \cap Covering(u) = {}
  <2>1. \A t \in Threads : Us(now[t]) \in Nat
    BY UsFacts DEF TypeOK
  <2>2. \A t \in Threads : ~ (Us(now[t]) <= u /\ u < Us(now[t]))
    BY <2>1
  <2> QED
    BY <2>2 DEF Late, Covering
<1>5. Cardinality(Late(u) \cap Covering(u)) = 0
  BY <1>4, FS_EmptySet
<1>6. Cardinality(Late(u) \union Covering(u)) = Cardinality(Late(u)) + Cardinality(Covering(u)) - 0
  BY <1>2, <1>5, FS_Union
<1>7. Cardinality(Late(u) \union Covering(u)) <= Cardinality(Threads)
  <2>1. Late(u) \union Covering(u) \in SUBSET Threads
    BY <1>1
  <2> QED
    BY <2>1, FS_Subset
<1>8. Cardinality(Late(u)) + Cardinality(Covering(u)) <= Cardinality(Threads)
  BY <1>3, <1>6, <1>7
<1>9. Chances(u) \in Nat
  <2>0. Cardinality(Late(u)) <= Cardinality(Threads)
    BY <1>3, <1>8
  <2>1. Again(Cardinality(Threads), Cardinality(Late(u))) \in Nat
    BY <1>3, <2>0, AgainFacts
  <2> QED
    BY <1>3, <1>8, <2>1 DEF Chances
<1> QED
  BY <1>2, <1>3, <1>8, <1>9

(* How the chances of a microsecond change when one thread moves.          *)
NoMore(u) == Chances(u) \in Nat /\ Chances(u)' \in Int /\ Chances(u)' <= Chances(u)

LEMMA SameChances ==
    ASSUME NEW u \in Nat, last_refill' = last_refill,
           \A t \in Threads : /\ t \in Late(u)' <=> t \in Late(u)
                              /\ t \in Covering(u)' <=> t \in Covering(u)
    PROVE  Chances(u)' = Chances(u)
<1>1. Late(u)' = Late(u) /\ Covering(u)' = Covering(u)
  BY DEF Late, Covering
<1>2. Us(last_refill)' = Us(last_refill)
  BY DEF Us, Elapsed
<1> QED
  BY <1>1, <1>2 DEF Chances

LEMMA FewerLate ==
    ASSUME IsFiniteSet(Threads), TypeOK, TypeOK', NEW u \in Nat, NEW t \in Late(u),
           Late(u)' = Late(u) \ {t}, Covering(u)' = Covering(u)
    PROVE  NoMore(u)
<1> DEFINE n == Cardinality(Threads)
           o == Cardinality(Late(u))
           a == Cardinality(Covering(u))
<1>1. n \in Nat /\ o \in Nat /\ a \in Nat /\ o + a <= n /\ IsFiniteSet(Late(u))
  BY ThreadSets
<1>2. Cardinality(Late(u)') = o - 1
  <2>1. Cardinality(Late(u) \ {t}) = o - 1
    BY <1>1, FS_RemoveElement
  <2> QED
    BY <2>1
<1>3. /\ Chances(u) = (IF Us(last_refill) <= u THEN 2 * (n - o - a) ELSE 0) + Again(n, o)
      /\ Chances(u)' = (IF Us(last_refill)' <= u THEN 2 * (n - (o - 1) - a) ELSE 0) + Again(n, o - 1)
  BY <1>2 DEF Chances
<1> HIDE DEF n, o, a
<1>4. o <= n
  BY <1>1
<1>5. Again(n, o) \in Nat /\ Again(n, o - 1) = Again(n, o) - 2 * (n - o + 1)
  BY <1>1, <1>4, AgainFacts
<1> DEFINE x == Again(n, o)
<1>6. /\ Chances(u) = (IF Us(last_refill) <= u THEN 2 * (n - o - a) ELSE 0) + x
      /\ Chances(u)' = (IF Us(last_refill)' <= u THEN 2 * (n - (o - 1) - a) ELSE 0) + (x - 2 * (n - o + 1))
      /\ x \in Nat
  BY <1>3, <1>5
<1> HIDE DEF x
<1>7. Chances(u)' <= x
  <2>1. 2 * (n - (o - 1) - a) + (x - 2 * (n - o + 1)) <= x
    BY <1>1, <1>6
  <2>2. 0 + (x - 2 * (n - o + 1)) <= x
    BY <1>1, <1>6
  <2> QED
    BY <1>6, <2>1, <2>2
<1>8. x <= Chances(u)
  <2>1. x <= 2 * (n - o - a) + x /\ x <= 0 + x
    BY <1>1, <1>6
  <2> QED
    BY <1>6, <2>1
<1>9. Chances(u) \in Nat /\ Chances(u)' \in Int
  <2>1. Chances(u) \in Nat
    BY ThreadSets
  <2>2. 2 * (n - (o - 1) - a) + (x - 2 * (n - o + 1)) \in Int /\ 0 + (x - 2 * (n - o + 1)) \in Int
    BY <1>1, <1>6
  <2> QED
    BY <1>6, <2>1, <2>2
<1> QED
  BY <1>6, <1>7, <1>8, <1>9 DEF NoMore

(* last_refill_ is stored after u.                                         *)
LEMMA StoredAfter ==
    ASSUME IsFiniteSet(Threads), TypeOK, TypeOK', NEW u \in Nat,
           Late(u)' = Late(u), ~ (Us(last_refill)' <= u)
    PROVE  NoMore(u)
<1> DEFINE n == Cardinality(Threads)
           o == Cardinality(Late(u))
           a == Cardinality(Covering(u))
<1>1. n \in Nat /\ o \in Nat /\ a \in Nat /\ o + a <= n /\ Chances(u) \in Nat
  BY ThreadSets
<1>2. /\ Chances(u) = (IF Us(last_refill) <= u THEN 2 * (n - o - a) ELSE 0) + Again(n, o)
      /\ Chances(u)' = 0 + Again(n, o)
  BY DEF Chances
<1> HIDE DEF n, o, a
<1>3. o <= n
  BY <1>1
<1>4. Again(n, o) \in Nat
  BY <1>1, <1>3, AgainFacts
<1>5. 0 + Again(n, o) <= 2 * (n - o - a) + Again(n, o)
  BY <1>1, <1>4
<1> QED
  BY <1>1, <1>2, <1>4, <1>5 DEF NoMore

(* Another thread has loaded last_refill_ and is going to credit u.        *)
LEMMA MoreCovering ==
    ASSUME IsFiniteSet(Threads), TypeOK, TypeOK', NEW u \in Nat, NEW t \in Threads,
           t \notin Covering(u), last_refill' = last_refill,
           Late(u)' = Late(u), Covering(u)' = Covering(u) \union {t}
    PROVE  /\ NoMore(u)
           /\ Us(last_refill) <= u => Chances(u)' = Chances(u) - 2
<1> DEFINE n == Cardinality(Threads)
           o == Cardinality(Late(u))
           a == Cardinality(Covering(u))
<1>1. n \in Nat /\ o \in Nat /\ a \in Nat /\ o + a <= n /\ IsFiniteSet(Covering(u)) /\ Chances(u) \in Nat
  BY ThreadSets
<1>2. Cardinality(Covering(u)') = a + 1
  BY <1>1, FS_AddElement
<1>3. Us(last_refill)' = Us(last_refill)
  BY DEF Us, Elapsed
<1>4. /\ Chances(u) = (IF Us(last_refill) <= u THEN 2 * (n - o - a) ELSE 0) + Again(n, o)
      /\ Chances(u)' = (IF Us(last_refill) <= u THEN 2 * (n - o - (a + 1)) ELSE 0) + Again(n, o)
  BY <1>2, <1>3 DEF Chances
<1> HIDE DEF n, o, a
<1>5. Again(n, o) \in Nat
  <2>1. o <= n
    BY <1>1
  <2> QED
    BY <1>1, <2>1, AgainFacts
<1>6. 2 * (n - o - (a + 1)) + Again(n, o) = 2 * (n - o - a) + Again(n, o) - 2
  BY <1>1, <1>5
<1> QED
  BY <1>1, <1>4, <1>5, <1>6 DEF NoMore

(* With no more chances than before, the set of them does not grow.        *)
LEMMA FutureShrinks ==
    ASSUME IsFiniteSet(Future), clock' = clock,
           \A u \in Nat : u < Us(clock) => NoMore(u)
    PROVE  /\ Future' \subseteq Future /\ IsFiniteSet(Future')
           /\ Cardinality(Future') <= Cardinality(Future)
<1>1. Us(clock)' = Us(clock)
  BY DEF Us, Elapsed
<1>2. Future' \subseteq Future
  <2> SUFFICES ASSUME NEW p \in Future' PROVE p \in Future
    OBVIOUS
  <2>1. PICK u \in Nat, i \in Nat : p = <<u, i>> /\ u < Us(clock) /\ i < Chances(u)'
    BY <1>1 DEF Future
  <2>2. i < Chances(u)
    BY <2>1 DEF NoMore
  <2> QED
    BY <2>1, <2>2 DEF Future
<1> QED
  BY <1>2, FS_Subset

LEMMA RaceTypes ==
    ASSUME IsFiniteSet(Threads), TypeOK, RaceInv
    PROVE  /\ Rate \in Nat \ {0} /\ capacity_micro \in Nat /\ Us(clock) \in Nat
           /\ Cardinality(Threads) \in Nat /\ Cardinality(Future) \in Nat
           /\ Total + Cardinality(Credit(Due)) \in Nat
<1>1. Rate \in Nat \ {0} /\ capacity_micro \in Nat
  BY RateLimiterAssumption DEF capacity_micro
<1>2. Us(clock) \in Nat
  <2>1. clock \in Nat
    BY DEF TypeOK
  <2> QED
    BY <2>1, UsFacts
<1>3. Cardinality(Threads) \in Nat /\ Cardinality(Future) \in Nat /\ Cardinality(Credit(Due)) \in Nat
  BY FS_CardinalityType DEF RaceInv
<1>4. Total \in Nat
  BY TotalType
<1> QED
  BY <1>1, <1>2, <1>3, <1>4

(* Steps that credit nothing new.                                          *)
LEMMA RaceFrame ==
    ASSUME IsFiniteSet(Threads), TypeOK, TypeOK', RaceInv, clock' = clock,
           IsFiniteSet(Credit(Due)'),
           Total' + Cardinality(Credit(Due)') = Total + Cardinality(Credit(Due)),
           \A u \in Nat : u < Us(clock) => NoMore(u)
    PROVE  RaceInv'
<1> DEFINE n == Cardinality(Threads)
           f == Cardinality(Future)
           g == Cardinality(Future')
           x == Total + Cardinality(Credit(Due))
           y == 2 * capacity_micro + (Rate * (n * (n + 1))) * Us(clock)
<1>1. Future' \subseteq Future /\ IsFiniteSet(Future') /\ g <= f
  BY FutureShrinks DEF RaceInv
<1>2. f \in Nat /\ g \in Nat
  BY <1>1, FS_CardinalityType, RaceTypes
<1>3. x \in Nat
  BY RaceTypes
<1>4. Rate \in Nat /\ capacity_micro \in Nat /\ Us(clock) \in Nat /\ n \in Nat
  BY RaceTypes
<1>5. y \in Nat
  <2>1. n * (n + 1) \in Nat
    BY <1>4
  <2>2. Rate * (n * (n + 1)) \in Nat
    BY <1>4, <2>1
  <2>3. \A i, j, k \in Nat : 2 * i + j * k \in Nat
    OBVIOUS
  <2> QED
    BY <1>4, <2>2, <2>3
<1>6. 2 * x + Rate * f <= y
  BY DEF RaceInv
<1>7. Us(clock)' = Us(clock) /\ capacity_micro' = capacity_micro
  BY DEF Us, Elapsed, capacity_micro
<1>8. RaceInv' <=> /\ IsFiniteSet(Future') /\ IsFiniteSet(Credit(Due)')
                   /\ 2 * x + Rate * g <= y
  BY <1>7 DEF RaceInv
<1> HIDE DEF n, f, g, x, y
<1>9. Rate * g <= Rate * f
  BY <1>1, <1>2, <1>4
<1>10. 2 * x + Rate * g <= y
  <2>1. Rate * g \in Nat /\ Rate * f \in Nat
    BY <1>2, <1>4
  <2> QED
    BY <1>3, <1>5, <1>6, <1>9, <2>1
<1> QED
  BY <1>1, <1>8, <1>10

(* A tick may complete a microsecond: it gets all its chances.             *)
LEMMA RaceTick ==
    ASSUME IsFiniteSet(Threads), TypeOK, TypeOK', RaceInv, Tick
    PROVE  RaceInv'
<1> DEFINE n == Cardinality(Threads)
           U == Us(clock)
<1>1. /\ clock' = clock + 1
      /\ UNCHANGED <<tokens_micro, last_refill, pc, now, to_add, consumed, spilled>>
  BY DEF Tick, locals
<1>2. Credit(Due)' = Credit(Due) /\ Total' = Total /\ capacity_micro' = capacity_micro
  BY <1>1 DEF Credit, Total, capacity_micro
<1>3. \A u \in Nat : Chances(u)' = Chances(u)
  <2> SUFFICES ASSUME NEW u \in Nat PROVE Chances(u)' = Chances(u)
    OBVIOUS
  <2>1. Late(u)' = Late(u) /\ Covering(u)' = Covering(u)
    BY <1>1 DEF Late, Covering, Us, Elapsed
  <2> QED
    BY <1>1, <2>1, SameChances
<1>4. clock \in Nat /\ last_refill \in Nat /\ last_refill <= clock
  BY DEF TypeOK
<1>5. U \in Nat /\ (Us(clock)' = U \/ Us(clock)' = U + 1)
  BY <1>1, <1>4, UsFacts DEF Us, Elapsed
<1>6. CASE Us(clock)' = U
  BY <1>2, <1>3, <1>6 DEF RaceInv, Future
<1>7. CASE Us(clock)' = U + 1
  <2>1. Us(last_refill) <= U
    BY <1>4, UsFacts
  <2>2. \A t \in Threads : Us(now[t]) \in Nat /\ Us(now[t]) <= U
    <3> SUFFICES ASSUME NEW t \in Threads PROVE Us(now[t]) \in Nat /\ Us(now[t]) <= U
      OBVIOUS
    <3>1. now[t] \in Nat /\ now[t] <= clock
      BY DEF TypeOK
    <3> QED
      BY <1>4, <3>1, UsFacts
  <2>3. Covering(U) = {}
    <3>1. \A t \in Threads : ~ (U < Us(now[t]))
      BY <1>5, <2>2
    <3> QED
      BY <3>1 DEF Covering
  <2>4. Cardinality(Covering(U)) = 0
    BY <2>3, FS_EmptySet
  <2> DEFINE o == Cardinality(Late(U))
             k == Chances(U)
             c == Cardinality(Future)
             x == Total + Cardinality(Credit(Due))
  <2>5. n \in Nat /\ o \in Nat /\ o <= n /\ k \in Nat
    <3>1. n \in Nat /\ o \in Nat /\ o + Cardinality(Covering(U)) <= n /\ k \in Nat
      BY <1>5, ThreadSets
    <3> HIDE DEF n, o, k
    <3> QED
      BY <2>4, <3>1
  <2>6. k = 2 * (n - o - 0) + Again(n, o)
    BY <2>1, <2>4 DEF Chances
  <2>7. k <= n * (n + 1)
    <3>1. Again(n, o) \in Nat /\ 2 * (n - o) + Again(n, o) <= n * (n + 1)
      BY <2>5, AgainFacts
    <3>2. n - o - 0 = n - o
      BY <2>5
    <3> QED
      BY <2>6, <3>1, <3>2
  <2>8. \A i \in Nat : <<U, i>> \notin Future
    BY <1>5 DEF Future
  <2>9. Future' = Future \union ({U} \X (0 .. k - 1))
    <3>1. ASSUME NEW p \in Future' PROVE p \in Future \union ({U} \X (0 .. k - 1))
      <4>1. PICK u \in Nat, i \in Nat : p = <<u, i>> /\ u < U + 1 /\ i < Chances(u)
        BY <1>3, <1>7, <3>1 DEF Future
      <4>2. CASE u = U
        <5>1. i \in 0 .. k - 1
          BY <2>5, <4>1, <4>2
        <5> QED
          BY <4>1, <4>2, <5>1
      <4>3. CASE u # U
        <5>1. u < U
          BY <1>5, <4>1, <4>3
        <5> QED
          BY <4>1, <5>1 DEF Future
      <4> QED
        BY <4>2, <4>3
    <3>2. ASSUME NEW p \in Future PROVE p \in Future'
      <4>1. PICK u \in Nat, i \in Nat : p = <<u, i>> /\ u < U /\ i < Chances(u)
        BY <3>2 DEF Future
      <4>2. u < U + 1
        BY <1>5, <4>1
      <4> QED
        BY <1>3, <1>7, <4>1, <4>2 DEF Future
    <3>3. ASSUME NEW i \in 0 .. k - 1 PROVE <<U, i>> \in Future'
      <4>1. i \in Nat /\ i < k /\ U < U + 1
        BY <1>5, <2>5
      <4> QED
        BY <1>3, <1>5, <1>7, <4>1 DEF Future
    <3> QED
      BY <3>1, <3>2, <3>3
  <2>10. LET D == Future \union ({U} \X (0 .. k - 1))
         IN  IsFiniteSet(D) /\ Cardinality(D) = c + k
    BY <2>5, <2>8, PutColumn DEF RaceInv
  <2>11. IsFiniteSet(Future') /\ Cardinality(Future') = c + k
    BY <2>9, <2>10
  <2>12. /\ Rate \in Nat /\ capacity_micro \in Nat /\ c \in Nat /\ x \in Nat
         /\ 2 * x + Rate * c <= 2 * capacity_micro + (Rate * (n * (n + 1))) * U
    BY RaceTypes DEF RaceInv
  <2>13. RaceInv' <=> /\ IsFiniteSet(Future') /\ IsFiniteSet(Credit(Due))
                      /\ 2 * x + Rate * (c + k)
                           <= 2 * capacity_micro + (Rate * (n * (n + 1))) * (U + 1)
    BY <1>2, <1>7, <2>11 DEF RaceInv
  <2> HIDE DEF n, o, k, c, x, U
  <2>14. 2 * x + Rate * (c + k) <= 2 * capacity_micro + (Rate * (n * (n + 1))) * (U + 1)
    <3> DEFINE w == n * (n + 1)
               v == Rate * w
    <3>1. w \in Nat /\ k <= w
      BY <2>5, <2>7
    <3> HIDE DEF w
    <3>2. v \in Nat /\ Rate * k <= v /\ Rate * k \in Nat
      BY <2>5, <2>12, <3>1
    <3>3. Rate * (c + k) = Rate * c + Rate * k /\ Rate * c \in Nat
      BY <2>5, <2>12
    <3>4. v * (U + 1) = v * U + v /\ v * U \in Nat
      BY <1>5, <3>2
    <3>5. 2 * x + Rate * c <= 2 * capacity_micro + v * U
      BY <2>12 DEF w
    <3> HIDE DEF v
    <3>6. 2 * x + (Rate * c + Rate * k) <= 2 * capacity_micro + (v * U + v)
      <4>1. \A i, j, l, m, q, z \in Int : i + j <= m + z /\ l <= q => i + (j + l) <= m + (z + q)
        OBVIOUS
      <4>2. 2 * x \in Int /\ 2 * capacity_micro \in Int
        BY <2>12
      <4> QED
        BY <3>2, <3>3, <3>4, <3>5, <4>1, <4>2
    <3> QED
      BY <3>3, <3>4, <3>6 DEF v, w
  <2> QED
    BY <2>11, <2>13, <2>14 DEF RaceInv
<1> QED
  BY <1>5, <1>6, <1>7

LEMMA ChancesNext ==
    ASSUME IsFiniteSet(Threads)
    PROVE  TypeOK' => (\A u \in Nat : Chances(u) \in Nat)'
<1>1. TypeOK => \A u \in Nat : Chances(u) \in Nat
  BY ThreadSets
<1> QED
  BY <1>1, PTL

(* A set that loses two elements of every column lo .. hi.                 *)
LEMMA TwoFewer ==
    ASSUME NEW A, IsFiniteSet(A), NEW B, B \subseteq A,
           NEW lo \in Int, NEW hi \in Int, lo <= hi, NEW f \in [lo .. hi -> Int],
           \A u \in lo .. hi : \A i \in {1, 2} : <<u, f[u] - i>> \in A \ B
    PROVE  Cardinality(B) + 2 * (hi - lo + 1) <= Cardinality(A)
<1> DEFINE J == (lo .. hi) \X {1, 2}
           M == [p \in J |-> <<p[1], f[p[1]] - p[2]>>]
<1>1. IsFiniteSet(lo .. hi) /\ Cardinality(lo .. hi) = hi - lo + 1
  <2>1. /\ IsFiniteSet(lo .. hi)
        /\ Cardinality(lo .. hi) = IF lo > hi THEN 0 ELSE hi - lo + 1
    BY FS_Interval
  <2> QED
    BY <2>1
<1>2. IsFiniteSet({1, 2}) /\ Cardinality({1, 2}) = 2
  <2>1. IsFiniteSet({1}) /\ Cardinality({1}) = 1
    BY FS_Singleton
  <2>2. 2 \notin {1} /\ {1} \union {2} = {1, 2}
    OBVIOUS
  <2>3. IsFiniteSet({1} \union {2}) /\ Cardinality({1} \union {2}) = Cardinality({1}) + 1
    BY <2>1, <2>2, FS_AddElement
  <2>4. IsFiniteSet({1, 2}) /\ Cardinality({1, 2}) = Cardinality({1}) + 1
    BY <2>2, <2>3
  <2> QED
    BY <2>1, <2>4
<1>3. IsFiniteSet(J) /\ Cardinality(J) = (hi - lo + 1) * 2
  <2>1. IsFiniteSet(J) /\ Cardinality(J) = Cardinality(lo .. hi) * Cardinality({1, 2})
    BY <1>1, <1>2, FS_Product
  <2> QED
    BY <1>1, <1>2, <2>1
<1>4. M \in Injection(J, A \ B)
  <2>1. M \in [J -> A \ B]
    <3>1. \A p \in J : p[1] \in lo .. hi /\ p[2] \in {1, 2}
      OBVIOUS
    <3> QED
      BY <3>1
  <2>2. ASSUME NEW p \in J, NEW r \in J, M[p] = M[r] PROVE p = r
    <3>1. PICK u \in lo .. hi, i \in {1, 2} : p = <<u, i>>
      OBVIOUS
    <3>2. PICK v \in lo .. hi, j \in {1, 2} : r = <<v, j>>
      OBVIOUS
    <3>3. M[p] = <<u, f[u] - i>> /\ M[r] = <<v, f[v] - j>>
      BY <3>1, <3>2
    <3>4. u = v /\ f[u] - i = f[v] - j
      BY <2>2, <3>3
    <3>5. i = j
      BY <3>4
    <3> QED
      BY <3>1, <3>2, <3>4, <3>5
  <2>3. DOMAIN M = J
    OBVIOUS
  <2> HIDE DEF M, J
  <2> QED
    BY <2>1, <2>2, <2>3 DEF Injection, IsInjective
<1>5. IsFiniteSet(B) /\ Cardinality(B) \in Nat /\ Cardinality(A) \in Nat
  BY FS_Subset, FS_CardinalityType
<1>6. IsFiniteSet(A \ B) /\ Cardinality(A \ B) = Cardinality(A) - Cardinality(B)
  <2>1. IsFiniteSet(A \ B) /\ Cardinality(A \ B) = Cardinality(A) - Cardinality(A \cap B)
    BY FS_Difference
  <2>2. A \cap B = B
    OBVIOUS
  <2> QED
    BY <2>1, <2>2
<1> HIDE DEF M, J
<1>7. Cardinality(J) <= Cardinality(A \ B)
  BY <1>4, <1>6, FS_Injection
<1> QED
  BY <1>3, <1>5, <1>6, <1>7

(* A thread loads last_refill_: what it is going to credit uses up chances *)
(* of the microseconds between last_refill_ and its reading of the clock.  *)
LEMMA RaceLoad ==
    ASSUME IsFiniteSet(Threads), TypeOK, TypeOK', RaceInv, NEW t \in Threads, LoadLastRefill(t)
    PROVE  RaceInv'
<1> DEFINE e == Elapsed(last_refill, now[t])
           k == ToAdd(e)
           U == Us(now[t])
           L == Us(last_refill)
           q == (k - 1) \div Rate
<1>0. Rate \in Nat \ {0}
  BY RateLimiterAssumption
<1>1. /\ ~ NothingToAdd(t) /\ pc[t] = "elapsed" /\ pc' = [pc EXCEPT ![t] = "store"]
      /\ to_add' = [to_add EXCEPT ![t] = k]
      /\ UNCHANGED <<clock, tokens_micro, consumed, spilled, last_refill, now>>
  BY DEF LoadLastRefill, GoTo
<1>2. /\ pc'[t] = "store" /\ to_add'[t] = k
      /\ \A v \in Threads \ {t} : pc'[v] = pc[v] /\ to_add'[v] = to_add[v]
  BY <1>1 DEF TypeOK
<1>3. /\ U \in Nat /\ L \in Nat /\ e \in Int /\ e <= U - L /\ U <= Us(clock) /\ Us(clock) \in Nat
  <2>1. now[t] \in Nat /\ last_refill \in Nat /\ clock \in Nat /\ now[t] <= clock
    <3>1. clock \in 0 .. MaxClock /\ now[t] \in 0 .. clock /\ last_refill \in 0 .. clock
      BY DEF TypeOK
    <3> QED
      BY <3>1
  <2> QED
    BY <2>1, UsFacts
<1>4. e \in Nat /\ k \in Nat \ {0} /\ k <= Rate * e
  <2>1. ~ (e <= 0) /\ ~ (k <= 0)
    BY <1>1 DEF NothingToAdd
  <2> HIDE DEF k, e
  <2>2. e \in Nat
    BY <1>3, <2>1
  <2>3. k \in Int /\ k <= Rate * e
    BY <2>2, ToAddBound DEF k
  <2> QED
    BY <2>1, <2>2, <2>3
<1> HIDE DEF e, k, U, L
<1>5. q \in Int /\ Rate * q <= k - 1 /\ k - 1 < Rate * q + Rate
  <2>1. k - 1 \in Int
    BY <1>4
  <2> QED
    BY <1>0, <2>1, DivFloor
<1> HIDE DEF q
<1>6. q \in Nat
  <2>1. Rate * 0 < Rate * q + Rate
    BY <1>0, <1>4, <1>5
  <2>2. 0 <= q
    BY <1>0, <1>5, <2>1, MulCancel
  <2> QED
    BY <1>5, <2>2
<1>7. q + 1 <= U - L
  <2>1. Rate * e <= Rate * (U - L)
    BY <1>0, <1>3, <1>4
  <2>2. Rate * (q + 1) = Rate * q + Rate
    BY <1>0, <1>6
  <2>3. Rate * (U - L) \in Int /\ Rate * e \in Int /\ Rate * q \in Int
    BY <1>0, <1>3, <1>4, <1>6
  <2>4. Rate * (q + 1) < Rate * (U - L) + Rate
    BY <1>0, <1>4, <1>5, <2>1, <2>2, <2>3
  <2> QED
    BY <1>0, <1>3, <1>6, <2>4, MulCancel
<1>8. ASSUME NEW u \in Nat PROVE Late(u)' = Late(u)
  BY <1>1, <1>2 DEF Late, Us, Elapsed
<1>9. ASSUME NEW u \in Nat
      PROVE  /\ t \notin Covering(u)
             /\ u < U /\ Rate * (U - 1 - u) < k => Covering(u)' = Covering(u) \union {t}
             /\ ~ (u < U /\ Rate * (U - 1 - u) < k) => Covering(u)' = Covering(u)
  <2>1. Us(now[t])' = U /\ \A v \in Threads : now'[v] = now[v] /\ Us(now[v])' = Us(now[v])
    BY <1>1 DEF U, Us, Elapsed
  <2>2. \A v \in Threads \ {t} : v \in Covering(u)' <=> v \in Covering(u)
    BY <1>2, <2>1 DEF Covering
  <2>3. t \in Covering(u)' <=> (u < U /\ Rate * (U - 1 - u) < k)
    BY <1>2, <2>1 DEF Covering
  <2>4. t \notin Covering(u)
    BY <1>1 DEF Covering
  <2>5. Covering(u) \subseteq Threads /\ Covering(u)' \subseteq Threads
    BY DEF Covering
  <2> QED
    BY <2>2, <2>3, <2>4, <2>5
<1>10. \A u \in Nat : NoMore(u)
  <2> SUFFICES ASSUME NEW u \in Nat PROVE NoMore(u)
    OBVIOUS
  <2>1. CASE u < U /\ Rate * (U - 1 - u) < k
    BY <1>1, <1>8, <1>9, <2>1, MoreCovering
  <2>2. CASE ~ (u < U /\ Rate * (U - 1 - u) < k)
    <3>1. Chances(u)' = Chances(u)
      BY <1>1, <1>8, <1>9, <2>2, SameChances
    <3>2. Chances(u) \in Nat
      BY ThreadSets
    <3> QED
      BY <3>1, <3>2 DEF NoMore
  <2> QED
    BY <2>1, <2>2
<1>11. /\ Future' \subseteq Future /\ IsFiniteSet(Future') /\ IsFiniteSet(Future)
  BY <1>1, <1>10, FutureShrinks DEF RaceInv
<1> DEFINE lo == U - 1 - q
           hi == U - 1
<1>12. lo \in Int /\ hi \in Int /\ lo <= hi
  BY <1>3, <1>6
<1>13. ASSUME NEW u \in lo .. hi
       PROVE  u \in Nat /\ u < Us(clock) /\ Chances(u)' = Chances(u) - 2 /\ Chances(u)' \in Nat /\ Chances(u) \in Nat
  <2>1. u \in Nat /\ u < U /\ L <= u /\ u < Us(clock) /\ U - 1 - u \in Nat /\ U - 1 - u <= q
    BY <1>3, <1>6, <1>7
  <2>2. Rate * (U - 1 - u) <= Rate * q
    BY <1>0, <1>6, <2>1
  <2>3. Rate * (U - 1 - u) \in Int /\ Rate * q \in Int
    BY <1>0, <1>6, <2>1
  <2>4. Rate * (U - 1 - u) < k
    BY <1>4, <1>5, <2>2, <2>3
  <2>5. Us(last_refill) <= u => Chances(u)' = Chances(u) - 2
    BY <1>1, <1>8, <1>9, <2>1, <2>4, MoreCovering
  <2>6. Chances(u)' \in Nat
    BY <2>1, ChancesNext
  <2>7. Chances(u) \in Nat
    BY <2>1, ThreadSets
  <2> QED
    BY <2>1, <2>5, <2>6, <2>7 DEF L
<1> HIDE DEF lo, hi
<1>14. Cardinality(Future') + 2 * (hi - lo + 1) <= Cardinality(Future)
  <2> DEFINE f == [u \in lo .. hi |-> Chances(u)]
  <2>1. f \in [lo .. hi -> Int]
    BY <1>13
  <2>2. ASSUME NEW u \in lo .. hi, NEW i \in {1, 2} PROVE <<u, f[u] - i>> \in Future \ Future'
    <3>1. f[u] = Chances(u)
      OBVIOUS
    <3>2. Chances(u) - i \in Nat /\ Chances(u) - i < Chances(u) /\ ~ (Chances(u) - i < Chances(u)')
      BY <1>13
    <3> QED
      BY <1>13, <3>1, <3>2 DEF Future
  <2> HIDE DEF f
  <2> QED
    BY <1>11, <1>12, <2>1, <2>2, TwoFewer
<1>15. hi - lo + 1 = q + 1
  BY <1>3, <1>6 DEF hi, lo
<1>16. IsFiniteSet(Credit(Due)') /\ Cardinality(Credit(Due)') = Cardinality(Credit(Due)) + to_add'[t]
  <2>1. pc[t] \notin Due /\ pc'[t] \in Due
    BY <1>1, <1>2 DEF Due
  <2>2. IsFiniteSet(Credit(Due)) /\ to_add'[t] \in Nat
    BY <1>2, <1>4 DEF RaceInv
  <2> QED
    BY <1>2, <2>1, <2>2, CreditEnters
<1> DEFINE n == Cardinality(Threads)
           g == Cardinality(Future)
           h == Cardinality(Future')
           c == Cardinality(Credit(Due))
           y == 2 * capacity_micro + (Rate * (n * (n + 1))) * Us(clock)
<1>17. Total \in Nat /\ c \in Nat /\ g \in Nat /\ h \in Nat
  BY <1>11, TotalType, FS_CardinalityType DEF RaceInv
<1>18. 2 * (Total + c) + Rate * g <= y
  BY DEF RaceInv
<1>19. y \in Int
  <2>1. n * (n + 1) \in Int
    BY RaceTypes
  <2>2. Rate * (n * (n + 1)) \in Int
    BY <1>0, <2>1
  <2>3. \A i, j, l \in Int : 2 * i + j * l \in Int
    OBVIOUS
  <2> QED
    BY <2>2, <2>3, RaceTypes
<1>20. Total' = Total /\ Us(clock)' = Us(clock) /\ capacity_micro' = capacity_micro
  BY <1>1 DEF Total, Us, Elapsed, capacity_micro
<1>21. RaceInv' <=> /\ IsFiniteSet(Future') /\ IsFiniteSet(Credit(Due)')
                    /\ 2 * (Total + (c + k)) + Rate * h <= y
  BY <1>2, <1>16, <1>20 DEF RaceInv
<1>22. h + 2 * (q + 1) <= g
  BY <1>14, <1>15
<1> HIDE DEF n, g, h, c, y
<1>23. 2 * (Total + (c + k)) + Rate * h <= y
  <2>1. Rate * (h + 2 * (q + 1)) <= Rate * g
    BY <1>0, <1>6, <1>17, <1>22
  <2>2. Rate * (h + 2 * (q + 1)) = Rate * h + 2 * (Rate * q + Rate)
    BY <1>0, <1>6, <1>17
  <2>3. Rate * h \in Int /\ Rate * g \in Int /\ Rate * q \in Int
    BY <1>0, <1>6, <1>17
  <2> QED
    BY <1>0, <1>4, <1>5, <1>17, <1>18, <1>19, <2>1, <2>2, <2>3
<1> QED
  BY <1>11, <1>16, <1>21, <1>23

(* Steps of a thread that neither move it among the places that Late,      *)
(* Covering and Credit look at nor credit anything.                        *)
LEMMA RaceSame ==
    ASSUME IsFiniteSet(Threads), TypeOK, TypeOK', RaceInv, Total' = Total,
           UNCHANGED <<clock, last_refill>>,
           \A t \in Threads : /\ pc'[t] \in Due <=> pc[t] \in Due
                              /\ pc[t] \in Due => to_add'[t] = to_add[t]
                              /\ pc'[t] \in {"elapsed", "store"}
                                     => pc'[t] = pc[t] /\ now'[t] = now[t]
                              /\ pc[t] \in {"elapsed", "store"} => pc'[t] = pc[t]
    PROVE  RaceInv'
<1>1. Credit(Due)' = Credit(Due)
  BY CreditStays
<1>2. \A u \in Nat : NoMore(u)
  <2> SUFFICES ASSUME NEW u \in Nat PROVE NoMore(u)
    OBVIOUS
  <2>1. Late(u)' = Late(u)
    BY DEF Late, Us, Elapsed
  <2>2. Covering(u)' = Covering(u)
    BY DEF Covering, Us, Elapsed, Due
  <2>3. Chances(u)' = Chances(u)
    BY <2>1, <2>2, SameChances
  <2>4. Chances(u) \in Nat
    BY ThreadSets
  <2> QED
    BY <2>3, <2>4 DEF NoMore
<1> QED
  BY <1>1, <1>2, RaceFrame DEF RaceInv

LEMMA RaceStep ==
    ASSUME IsFiniteSet(Threads), TypeOK, TypeOK', RaceInv, [Next]_vars
    PROVE  RaceInv'
<1>1. CASE Tick
  BY <1>1, RaceTick
<1>2. ASSUME NEW t \in Threads, ReadClock(t) PROVE RaceInv'
  <2>1. /\ pc[t] = "idle" /\ pc' = [pc EXCEPT ![t] = "elapsed"] /\ now' = [now EXCEPT ![t] = clock]
        /\ UNCHANGED <<clock, tokens_micro, consumed, spilled, last_refill, to_add>>
    BY <1>2 DEF ReadClock, GoTo
  <2>2. /\ pc'[t] = "elapsed" /\ now'[t] = clock
        /\ \A v \in Threads \ {t} : pc'[v] = pc[v] /\ now'[v] = now[v]
    BY <2>1 DEF TypeOK
  <2>3. Credit(Due)' = Credit(Due) /\ Total' = Total
    BY <2>1, <2>2, CreditStays DEF Due, Total
  <2>4. ASSUME NEW u \in Nat, u < Us(clock) PROVE NoMore(u)
    <3>1. Us(clock) \in Nat
      BY RaceTypes
    <3>2. ~ (Us(clock) <= u)
      BY <2>4, <3>1
    <3>3. Late(u)' = Late(u)
      BY <2>1, <2>2, <3>2 DEF Late, Us, Elapsed
    <3>4. Covering(u)' = Covering(u)
      BY <2>1, <2>2 DEF Covering, Us, Elapsed
    <3>5. Chances(u)' = Chances(u)
      BY <2>1, <3>3, <3>4, SameChances
    <3>6. Chances(u) \in Nat
      BY ThreadSets
    <3> QED
      BY <3>5, <3>6 DEF NoMore
  <2> QED
    BY <2>1, <2>3, <2>4, RaceFrame DEF RaceInv
<1>3. ASSUME NEW t \in Threads, LoadLastRefill(t) PROVE RaceInv'
  BY <1>3, RaceLoad
<1>4. ASSUME NEW t \in Threads, SkipRefill(t) PROVE RaceInv'
  <2>1. /\ pc[t] = "elapsed" /\ pc' = [pc EXCEPT ![t] = "cload"]
        /\ UNCHANGED <<clock, tokens_micro, consumed, spilled, last_refill, to_add, now>>
    BY <1>4 DEF SkipRefill, GoTo, locals
  <2>2. pc'[t] = "cload" /\ \A v \in Threads \ {t} : pc'[v] = pc[v]
    BY <2>1 DEF TypeOK
  <2>3. Credit(Due)' = Credit(Due) /\ Total' = Total
    BY <2>1, <2>2, CreditStays DEF Due, Total
  <2>4. ASSUME NEW u \in Nat PROVE NoMore(u)
    <3>1. Covering(u)' = Covering(u)
      BY <2>1, <2>2 DEF Covering, Us, Elapsed
    <3>2. Late(u)' = Late(u) \ {t}
      BY <2>1, <2>2 DEF Late, Us, Elapsed
    <3>3. CASE t \in Late(u)
      BY <3>1, <3>2, <3>3, FewerLate
    <3>4. CASE t \notin Late(u)
      <4>1. Late(u)' = Late(u)
        BY <3>2, <3>4
      <4>2. Chances(u)' = Chances(u)
        BY <2>1, <3>1, <4>1, SameChances
      <4>3. Chances(u) \in Nat
        BY ThreadSets
      <4> QED
        BY <4>2, <4>3 DEF NoMore
    <3> QED
      BY <3>3, <3>4
  <2> QED
    BY <2>1, <2>3, <2>4, RaceFrame DEF RaceInv
<1>5. ASSUME NEW t \in Threads, StoreLastRefill(t) PROVE RaceInv'
  <2>1. /\ pc[t] = "store" /\ pc' = [pc EXCEPT ![t] = "rload"] /\ last_refill' = now[t]
        /\ UNCHANGED <<clock, tokens_micro, consumed, spilled, to_add, now>>
    BY <1>5 DEF StoreLastRefill, GoTo, locals
  <2>2. pc'[t] = "rload" /\ \A v \in Threads \ {t} : pc'[v] = pc[v]
    BY <2>1 DEF TypeOK
  <2>3. Credit(Due)' = Credit(Due) /\ Total' = Total
    BY <2>1, <2>2, CreditStays DEF Due, Total
  <2>4. ASSUME NEW u \in Nat PROVE NoMore(u)
    <3>1. Late(u)' = Late(u) \ {t}
      BY <2>1, <2>2 DEF Late, Us, Elapsed
    <3>2. CASE Us(now[t]) <= u
      <4>1. t \in Late(u)
        BY <2>1, <3>2 DEF Late
      <4>2. t \notin Covering(u)
        <5>1. Us(now[t]) \in Nat
          BY UsFacts, SMTT(15) DEF TypeOK
        <5>2. ~ (u < Us(now[t]))
          BY <3>2, <5>1
        <5> QED
          BY <5>2 DEF Covering
      <4>3. Covering(u)' = Covering(u)
        BY <2>1, <2>2, <4>2 DEF Covering, Us, Elapsed
      <4> QED
        BY <3>1, <4>1, <4>3, FewerLate
    <3>3. CASE ~ (Us(now[t]) <= u)
      <4>1. Late(u)' = Late(u)
        BY <3>1, <3>3 DEF Late
      <4>2. Us(last_refill)' = Us(now[t])
        BY <2>1 DEF Us, Elapsed
      <4> QED
        BY <3>3, <4>1, <4>2, StoredAfter
    <3> QED
      BY <3>2, <3>3
  <2> QED
    BY <2>1, <2>3, <2>4, RaceFrame DEF RaceInv
<1>6. ASSUME NEW t \in Threads, LoadTokens(t) PROVE RaceInv'
  BY <1>6, RaceSame DEF LoadTokens, GoTo, Total, Due, TypeOK
<1>7. ASSUME NEW t \in Threads, CasFails(t) PROVE RaceInv'
  BY <1>7, RaceSame DEF CasFails, Total
<1>8. ASSUME NEW t \in Threads, CasRefill(t) PROVE RaceInv'
  <2>1. /\ pc[t] = "rcas" /\ pc' = [pc EXCEPT ![t] = "cload"]
        /\ UNCHANGED <<clock, to_add, now, last_refill>>
    BY <1>8 DEF CasRefill, GoTo, locals
  <2>2. pc'[t] = "cload" /\ \A u \in Threads \ {t} : pc'[u] = pc[u]
    BY <2>1 DEF TypeOK
  <2>3. to_add[t] \in Nat /\ Total \in Nat
    BY TotalType DEF TypeOK
  <2>4. IsFiniteSet(Credit(Due)') /\ Cardinality(Credit(Due)) = Cardinality(Credit(Due)') + to_add[t]
    <3>1. IsFiniteSet(Credit(Due)) /\ pc[t] \in Due /\ pc'[t] \notin Due
      BY <2>1, <2>2 DEF Due, RaceInv
    <3> QED
      BY <2>1, <2>2, <2>3, <3>1, CreditLeaves
  <2>5. Total' = Total + to_add[t]
    BY <1>8, TotalSteps
  <2>6. Total' + Cardinality(Credit(Due)') = Total + Cardinality(Credit(Due))
    <3>1. Cardinality(Credit(Due)') \in Nat
      BY <2>4, FS_CardinalityType
    <3> QED
      BY <2>3, <2>4, <2>5, <3>1
  <2>7. ASSUME NEW u \in Nat PROVE NoMore(u)
    <3>1. Late(u)' = Late(u) /\ Covering(u)' = Covering(u)
      BY <2>1, <2>2 DEF Late, Covering, Us, Elapsed
    <3>2. Chances(u)' = Chances(u)
      BY <2>1, <3>1, SameChances
    <3>3. Chances(u) \in Nat
      BY ThreadSets
    <3> QED
      BY <3>2, <3>3 DEF NoMore
  <2> QED
    BY <2>1, <2>4, <2>6, <2>7, RaceFrame
<1>9. ASSUME NEW t \in Threads, Deny(t) PROVE RaceInv'
  BY <1>9, RaceSame DEF Deny, Return, GoTo, Total, Due, TypeOK
<1>10. ASSUME NEW t \in Threads, CasConsume(t) PROVE RaceInv'
  <2>1. Total' = Total
    BY <1>10, TotalSteps
  <2> QED
    BY <1>10, <2>1, RaceSame DEF CasConsume, Return, GoTo, Due, TypeOK
<1>11. CASE UNCHANGED vars
  BY <1>11, RaceSame DEF vars, Total
<1> QED
  BY <1>1, <1>2, <1>3, <1>4, <1>5, <1>6, <1>7, <1>8, <1>9, <1>10, <1>11 DEF Next, Step, Done

(* Half of n * (n + 1) is a whole number.                                  *)
LEMMA Halves ==
    ASSUME NEW n \in Nat
    PROVE  (n * (n + 1)) \div 2 \in Nat /\ 2 * ((n * (n + 1)) \div 2) = n * (n + 1)
<1>1. \A m \in Int : (2 * m) \div 2 = m
  OBVIOUS
<1>2. n = 2 * (n \div 2) \/ n = 2 * (n \div 2) + 1
  OBVIOUS
<1>3. n \div 2 \in Nat
  OBVIOUS
<1>4. PICK m \in Nat : n = 2 * m \/ n = 2 * m + 1
  BY <1>2, <1>3
<1>5. CASE n = 2 * m
  <2>1. n * (n + 1) = 2 * (m * (2 * m + 1)) /\ m * (2 * m + 1) \in Nat
    BY <1>5
  <2> QED
    BY <1>1, <2>1
<1>6. CASE n = 2 * m + 1
  <2>1. n * (n + 1) = 2 * ((2 * m + 1) * (m + 1)) /\ (2 * m + 1) * (m + 1) \in Nat
    BY <1>6
  <2> QED
    BY <1>1, <2>1
<1> QED
  BY <1>4, <1>5, <1>6

(* n threads that race in refill credit no microsecond more than           *)
(* n * (n + 1) / 2 times, whatever they load, store or delay, at every     *)
(* clock resolution and with the wrap-around of the product in refill; and *)
(* the bucket stays between empty and full.                                *)
THEOREM ContendedAdmission ==
    ASSUME IsFiniteSet(Threads)
    PROVE  Spec => []ContentionBound
<1> DEFINE n == Cardinality(Threads)
<1>0. capacity_micro \in Nat /\ Rate \in Nat /\ n \in Nat
  BY RateLimiterAssumption, FS_CardinalityType DEF capacity_micro
<1>1. Init => RaceInv
  <2> SUFFICES ASSUME Init PROVE RaceInv
    OBVIOUS
  <2>1. Us(clock) = 0
    BY RateLimiterAssumption DEF Init, Us, Elapsed
  <2>2. Credit(Due) = {} /\ Future = {}
    BY <2>1 DEF Init, Credit, Due, Future
  <2>3. /\ IsFiniteSet(Credit(Due)) /\ Cardinality(Credit(Due)) = 0
        /\ IsFiniteSet(Future) /\ Cardinality(Future) = 0
    BY <2>2, FS_EmptySet
  <2>4. Total = capacity_micro
    BY <1>0 DEF Init, Total
  <2>5. (Rate * (n * (n + 1))) * 0 = 0 /\ Rate * 0 = 0
    BY <1>0
  <2> QED
    BY <1>0, <2>1, <2>3, <2>4, <2>5 DEF RaceInv
<1>2. TypeOK /\ TypeOK' /\ RaceInv /\ [Next]_vars => RaceInv'
  BY RaceStep
<1>3. TypeOK /\ RaceInv => ContentionBound
  <2> SUFFICES ASSUME TypeOK, RaceInv
               PROVE  Total <= capacity_micro + RaceFactor * Rate * Us(clock)
    BY DEF ContentionBound, TypeOK, Total, Us
  <2> DEFINE f == RaceFactor
             U == Us(clock)
             c == Cardinality(Credit(Due))
             g == Cardinality(Future)
  <2>1. f \in Nat /\ 2 * f = n * (n + 1)
    BY <1>0, Halves DEF RaceFactor
  <2>2. U \in Nat /\ g \in Nat /\ c \in Nat /\ Total \in Nat
    BY RaceTypes, TotalType, FS_CardinalityType DEF RaceInv
  <2>3. 2 * (Total + c) + Rate * g <= 2 * capacity_micro + (Rate * (2 * f)) * U
    BY <2>1 DEF RaceInv
  <2> HIDE DEF f, U, c, g, n
  <2>4. f * Rate * U \in Nat /\ (Rate * (2 * f)) * U = 2 * (f * Rate * U) /\ Rate * g \in Nat
    BY <1>0, <2>1, <2>2
  <2>5. Total <= capacity_micro + f * Rate * U
    BY <1>0, <2>2, <2>3, <2>4
  <2> QED
    BY <2>5 DEF f, U
<1> QED
  BY <1>1, <1>2, <1>3, TypeCorrect, PTL DEF Spec
=============================================================================
