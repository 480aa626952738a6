---------------------------- MODULE RequestRate -----------------------------
(***************************************************************************)
(* The request-rate estimator of the spin server                           *)
(* (kubernetes/elasticity/cmd/spinhttpsrv/main.go, updateRequestRate and   *)
(* getRequestRate): two buckets, used in turn for periods of five seconds. *)
(* A caller reads the clock, then takes s.mu, then works on the bucket of  *)
(* the time it read; between the two, other callers and the clock move.    *)
(*                                                                         *)
(* Time is counted in periods: (seconds % 10) / 5 is the period modulo 2.  *)
(* The rate is the number of requests the bucket holds; dividing it by 5.0 *)
(* is left out.                                                            *)
(***************************************************************************)
EXTENDS Integers

CONSTANTS Callers,     \* goroutines: handlers and workers
          MaxPeriod,   \* bound: the clock stops after this period
          MaxCount     \* bound: updates a bucket takes

ASSUME PeriodAssumption == MaxPeriod \in Nat

VARIABLES
    period,      \* the wall clock
    reqCntIdx,   \* s.reqCntIdx
    reqCnts,     \* s.reqCnts
    sampled,     \* per caller, the local variable t, or NotSampled
    rate         \* per caller, what its last getRequestRate returned

rateVars == <<period, reqCntIdx, reqCnts, sampled, rate>>

Periods == 0..MaxPeriod
NotSampled == -1

Bucket(t) == t % 2
OtherBucket(idx) == 1 - idx       \* idx^1

InitRate ==
    /\ period \in Periods /\ period < 2     \* the server starts at any time
    /\ reqCntIdx = 0
    /\ reqCnts = [b \in 0..1 |-> 0]
    /\ sampled = [c \in Callers |-> NotSampled]
    /\ rate = [c \in Callers |-> 0]

Tick ==
    /\ period < MaxPeriod
    /\ period' = period + 1
    /\ UNCHANGED <<reqCntIdx, reqCnts, sampled, rate>>

(* t := time.Now(), before s.mu.Lock(). *)
Sample(c) ==
    /\ sampled[c] = NotSampled
    /\ sampled' = [sampled EXCEPT ![c] = period]
    /\ UNCHANGED <<period, reqCntIdx, reqCnts, rate>>

(* maybeClearRequestRateL *)
NeverCleared(idx) == reqCnts
Cleared(idx) == IF reqCntIdx # idx THEN [reqCnts EXCEPT ![idx] = 0] ELSE reqCnts

(* updateRequestRate, under s.mu. *)
Update(c) ==
    LET idx == Bucket(sampled[c])
    IN  /\ sampled[c] # NotSampled
        /\ reqCnts[idx] < MaxCount
        /\ reqCntIdx' = idx
        /\ reqCnts' = [Cleared(idx) EXCEPT ![idx] = @ + 1]
        /\ sampled' = [sampled EXCEPT ![c] = NotSampled]
        /\ UNCHANGED <<period, rate>>

(* getRequestRate, under s.mu. *)
CurrentBucket(idx) == Cleared(idx)[idx]
PreviousBucket(idx) == Cleared(idx)[OtherBucket(idx)]

GetRate(c) ==
    LET idx == Bucket(sampled[c])
    IN  /\ sampled[c] # NotSampled
        /\ reqCntIdx' = idx
        /\ reqCnts' = Cleared(idx)
        /\ rate' = [rate EXCEPT ![c] = PreviousBucket(idx)]
        /\ sampled' = [sampled EXCEPT ![c] = NotSampled]
        /\ UNCHANGED period

NextRate ==
    \/ Tick
    \/ \E c \in Callers : Sample(c) \/ Update(c) \/ GetRate(c)

RateSpec == InitRate /\ [][NextRate]_rateVars

-----------------------------------------------------------------------------
RateTypeOK ==
    /\ period \in Periods
    /\ reqCntIdx \in 0..1
    /\ reqCnts \in [0..1 -> Nat]
    /\ sampled \in [Callers -> Periods \cup {NotSampled}]
    /\ rate \in [Callers -> Nat]
=============================================================================
