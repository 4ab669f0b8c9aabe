---------------------------- MODULE RateLimiter ----------------------------
(***************************************************************************)
(* TokenBucketRateLimiter (include/ratelimit/RateLimiter.hpp): a token     *)
(* bucket shared by several threads without a lock.  One action is one     *)
(* access to the clock, to last_refill_ or to tokens_micro_, so that calls *)
(* of try_consume interleave exactly where the hardware lets them.         *)
(*                                                                         *)
(* Units.  The clock ticks in the unit of steady_clock (TicksPerUs ticks   *)
(* make a microsecond), elapsed time is in microseconds, tokens are in     *)
(* micro-tokens (Micro of them make a token).  Micro is also the number of *)
(* microseconds in a second: both are 1'000'000 in the code.               *)
(***************************************************************************)
EXTENDS Integers, FiniteSets

CONSTANTS
    Threads,     \* the threads that call try_consume on one limiter
    Capacity,    \* capacity_tokens of the constructor
    Rate,        \* refill_rate_per_s of the constructor
    Micro,       \* MICRO
    TicksPerUs,  \* resolution of steady_clock
    IntMax,      \* largest value of int64_t
    MaxClock,    \* bound: the clock stops here
    MaxCalls     \* bound: calls of try_consume made by one thread

ASSUME RateLimiterAssumption ==
    /\ Capacity \in Nat \ {0} /\ Rate \in Nat \ {0}
    /\ Micro \in Nat \ {0} /\ TicksPerUs \in Nat \ {0}
    /\ MaxClock \in Nat /\ MaxCalls \in Nat
    /\ IntMax \in Nat
    \* current + to_add of refill stays inside int64_t
    /\ Capacity * Micro + IntMax \div Micro <= IntMax

VARIABLES
    clock,         \* steady_clock, 0 when the limiter was constructed
    tokens_micro,  \* tokens_micro_
    last_refill,   \* last_refill_
    pc,            \* where each thread is in try_consume
    now,           \* local of refill
    to_add,        \* local of refill
    current,       \* local of refill, then of try_consume
    calls,         \* calls begun by each thread
    consumed,      \* history: micro-tokens handed out by calls that returned true
    spilled,       \* history: micro-tokens cut off by the cap in refill
    refills        \* history: refills that had something to add

vars == <<clock, tokens_micro, last_refill, pc, now, to_add, current, calls,
          consumed, spilled, refills>>

locals == <<now, to_add, current>>

capacity_micro == Capacity * Micro

refill_rate_per_s_micro == Rate * Micro

MinOf(a, b) == IF a <= b THEN a ELSE b

(* int64_t arithmetic: the compiled multiplication wraps around.           *)
Wrap(x) == ((x + IntMax + 1) % (2 * (IntMax + 1))) - (IntMax + 1)

(* Whole microseconds between two readings; duration_cast drops the rest.  *)
(* (Negative differences only meet the test elapsed <= 0, so it does not   *)
(* matter that \div rounds them down.)                                     *)
Elapsed(from, to) == (to - from) \div TicksPerUs

ToAdd(elapsed) == Wrap(refill_rate_per_s_micro * elapsed) \div Micro

States == {"idle", "elapsed", "store", "rload", "rcas", "cload", "ccas"}

Init ==
    /\ clock = 0
    /\ tokens_micro = capacity_micro
    /\ last_refill = 0
    /\ pc = [t \in Threads |-> "idle"]
    /\ now = [t \in Threads |-> 0]
    /\ to_add = [t \in Threads |-> 0]
    /\ current = [t \in Threads |-> 0]
    /\ calls = [t \in Threads |-> 0]
    /\ consumed = 0
    /\ spilled = 0
    /\ refills = 0

GoTo(t, from, to) ==
    /\ pc[t] = from
    /\ pc' = [pc EXCEPT ![t] = to]

-----------------------------------------------------------------------------
(* Time passes whatever the threads do.                                    *)
Tick ==
    /\ clock < MaxClock
    /\ clock' = clock + 1
    /\ UNCHANGED <<tokens_micro, last_refill, pc, locals, calls, consumed, spilled, refills>>

(* A thread calls try_consume(); refill first reads the clock.             *)
ReadClock(t) ==
    /\ calls[t] < MaxCalls
    /\ GoTo(t, "idle", "elapsed")
    /\ calls' = [calls EXCEPT ![t] = @ + 1]
    /\ now' = [now EXCEPT ![t] = clock]
    /\ UNCHANGED <<clock, tokens_micro, last_refill, to_add, current, consumed, spilled, refills>>

(* Faulty variant: off by one, a single microsecond is not credited.       *)
NothingToAddOffByOne(t) ==
    LET elapsed == Elapsed(last_refill, now[t])
    IN  elapsed <= 1 \/ ToAdd(elapsed) <= 0

(* refill loads last_refill_ and computes to_add, or has nothing to add.   *)
NothingToAdd(t) ==
    LET elapsed == Elapsed(last_refill, now[t])
    IN  elapsed <= 0 \/ ToAdd(elapsed) <= 0

LoadLastRefill(t) ==
    /\ ~ NothingToAdd(t)
    /\ GoTo(t, "elapsed", "store")
    /\ to_add' = [to_add EXCEPT ![t] = ToAdd(Elapsed(last_refill, now[t]))]
    /\ refills' = refills + 1
    /\ UNCHANGED <<clock, tokens_micro, last_refill, now, current, calls, consumed, spilled>>

SkipRefill(t) ==
    /\ NothingToAdd(t)
    /\ GoTo(t, "elapsed", "cload")
    /\ UNCHANGED <<clock, tokens_micro, last_refill, locals, calls, consumed, spilled, refills>>

(* Faulty variant: the store of last_refill_ is missing.                   *)
StoreLastRefillForgotten(t) ==
    /\ GoTo(t, "store", "rload")
    /\ UNCHANGED <<clock, tokens_micro, last_refill, locals, calls, consumed, spilled, refills>>

(* Faulty variant: the clock is read again for the store.                  *)
StoreLastRefillReread(t) ==
    /\ GoTo(t, "store", "rload")
    /\ last_refill' = clock
    /\ UNCHANGED <<clock, tokens_micro, locals, calls, consumed, spilled, refills>>

StoreLastRefill(t) ==
    /\ GoTo(t, "store", "rload")
    /\ last_refill' = now[t]
    /\ UNCHANGED <<clock, tokens_micro, locals, calls, consumed, spilled, refills>>

(* The loads that precede the two CAS loops.                               *)
LoadTokens(t) ==
    /\ \/ GoTo(t, "rload", "rcas")
       \/ GoTo(t, "cload", "ccas")
    /\ current' = [current EXCEPT ![t] = tokens_micro]
    /\ UNCHANGED <<clock, tokens_micro, last_refill, now, to_add, calls, consumed, spilled, refills>>

(* Faulty variant: a failed CAS does not reload current.                   *)
CasFailsStale(t) ==
    /\ \/ pc[t] = "rcas"
       \/ pc[t] = "ccas" /\ current[t] >= Micro
    /\ tokens_micro # current[t]
    /\ UNCHANGED vars

(* A failed CAS of either loop reloads current.  In try_consume the loop   *)
(* only gets to the CAS with enough tokens in current.  A spurious failure *)
(* of compare_exchange_weak changes nothing: it is a stuttering step.      *)
CasFails(t) ==
    /\ \/ pc[t] = "rcas"
       \/ pc[t] = "ccas" /\ current[t] >= Micro
    /\ tokens_micro # current[t]
    /\ current' = [current EXCEPT ![t] = tokens_micro]
    /\ UNCHANGED <<clock, tokens_micro, last_refill, pc, now, to_add, calls, consumed, spilled, refills>>

CasRefill(t) ==
    LET desired == MinOf(current[t] + to_add[t], capacity_micro)
    IN  /\ GoTo(t, "rcas", "cload")
        /\ tokens_micro = current[t]
        /\ tokens_micro' = desired
        /\ spilled' = spilled + (current[t] + to_add[t] - desired)
        /\ UNCHANGED <<clock, last_refill, locals, calls, consumed, refills>>

(* The call returns; its locals are dead.                                  *)
Return(t) ==
    /\ GoTo(t, "ccas", "idle")
    /\ now' = [now EXCEPT ![t] = 0]
    /\ to_add' = [to_add EXCEPT ![t] = 0]
    /\ current' = [current EXCEPT ![t] = 0]

Deny(t) ==
    /\ current[t] < Micro
    /\ Return(t)
    /\ UNCHANGED <<clock, tokens_micro, last_refill, calls, consumed, spilled, refills>>

CasConsume(t) ==
    /\ current[t] >= Micro
    /\ tokens_micro = current[t]
    /\ Return(t)
    /\ tokens_micro' = current[t] - Micro
    /\ consumed' = consumed + Micro
    /\ UNCHANGED <<clock, last_refill, calls, spilled, refills>>

Step(t) ==
    \/ LoadLastRefill(t) \/ SkipRefill(t) \/ StoreLastRefill(t)
    \/ LoadTokens(t) \/ CasFails(t) \/ CasRefill(t)
    \/ Deny(t) \/ CasConsume(t)

(* All calls are made and the clock has reached its bound.                 *)
Done ==
    /\ clock = MaxClock
    /\ \A t \in Threads : pc[t] = "idle" /\ calls[t] = MaxCalls
    /\ UNCHANGED vars

Next ==
    \/ Tick
    \/ \E t \in Threads : ReadClock(t) \/ Step(t)
    \/ Done

Spec == Init /\ [][Next]_vars

(* A thread inside try_consume is scheduled again: no step of it blocks.   *)
FairSpec == Spec /\ \A t \in Threads : WF_vars(Step(t))
-----------------------------------------------------------------------------
(* Properties.                                                             *)

(* The bucket is never overdrawn and never above its capacity, whatever    *)
(* CAS of refill and of try_consume interleave; and every variable has its *)
(* type.                                                                   *)
TypeOK ==
    /\ clock \in 0 .. MaxClock
    /\ tokens_micro \in 0 .. capacity_micro
    /\ last_refill \in 0 .. clock
    /\ pc \in [Threads -> States]
    /\ now \in [Threads -> 0 .. clock]
    /\ to_add \in [Threads -> Nat]
    /\ current \in [Threads -> 0 .. capacity_micro]
    /\ calls \in [Threads -> 0 .. MaxCalls]
    /\ consumed \in Nat
    /\ spilled \in Nat
    /\ refills \in Nat

(* "Tokens are added at `refill_rate` tokens per second" (line 9): the     *)
(* calls that returned true never took more than the initial burst plus    *)
(* what the rate allows for the time since construction.  Not kept when    *)
(* threads race in refill.                                                 *)
AdmissionBound ==
    consumed <= capacity_micro + Rate * Elapsed(0, clock)

(* As long as only one thread has called try_consume, line 9 holds,        *)
(* whatever the resolution of the clock.                                   *)
Sole(t) == \A u \in Threads \ {t} : calls[u] = 0

SoleCallerBound == \A t \in Threads : Sole(t) => AdmissionBound

(* What is left of AdmissionBound when n threads race in refill: no moment *)
(* is credited more than n(n+1)/2 times.  Threads that load the same       *)
(* last_refill_ before one of them stores it credit the same interval, and *)
(* a thread that was delayed with an old reading of the clock moves        *)
(* last_refill_ back when it stores it, so that the others, and then it,   *)
(* credit the interval again.  The cap survives the races: the level that  *)
(* a CAS of refill writes is computed from the level it replaces.          *)
RaceFactor ==
    LET n == Cardinality(Threads) IN (n * (n + 1)) \div 2

ContentionBound ==
    /\ tokens_micro \in 0 .. capacity_micro
    /\ tokens_micro + consumed + spilled
          <= capacity_micro + RaceFactor * Rate * Elapsed(0, clock)

(* What refill can lose: duration_cast drops less than a microsecond of    *)
(* each interval it credits, and the rest is never credited later, because *)
(* last_refill_ becomes the reading of the clock.  So when no refill is    *)
(* between its store of last_refill_ and its CAS, what was put into the    *)
(* bucket (and was consumed, is still there, or was cut off by the cap) is *)
(* the credit up to last_refill_ less at most TicksPerUs - 1 ticks per     *)
(* refill: no race loses more, even if a late thread moves last_refill_    *)
(* back.  Stated in micro-tokens times TicksPerUs, to avoid fractions.     *)
(* For products that fit int64_t.                                          *)
CreditLost ==
    TicksPerUs * capacity_micro + Rate * last_refill
        - TicksPerUs * (tokens_micro + consumed + spilled)

LossBounded ==
    (\A t \in Threads : pc[t] \notin {"rload", "rcas"}) =>
        CreditLost <= Rate * (TicksPerUs - 1) * refills

(* A sole caller is denied only if less than one token has accrued since   *)
(* the last refill it knows of: "Consume refilled token after elapsed      *)
(* time" (phase20_unit_tests.cpp:108).  For products that fit int64_t.     *)
DenialDue ==
    \A t \in Threads :
        Sole(t) /\ Deny(t) => Rate * Elapsed(last_refill, now[t]) < Micro

DeniedOnlyWhenEmpty == [][DenialDue]_vars

(* Lock freedom with finitely many calls: no CAS loop of refill or         *)
(* try_consume spins forever, every call returns.                          *)
CallsReturn ==
    \A t \in Threads : pc[t] # "idle" ~> pc[t] = "idle"
=============================================================================
