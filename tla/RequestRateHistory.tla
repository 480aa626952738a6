------------------------- MODULE RequestRateHistory -------------------------
(***************************************************************************)
(* RequestRate with the history its properties are about: how many updates *)
(* belong to each period, and whether the estimator has been used the way  *)
(* it needs to be.                                                         *)
(***************************************************************************)
EXTENDS RequestRate

VARIABLES
    arrivals,   \* updates made so far, by the period they sampled
    latest,     \* the period of the last call that took the lock
    prompt,     \* has every call taken the lock in the period it sampled?
    dense,      \* has every call followed one of its period or the last one?
    actual      \* per caller, the arrivals of the period before its last get

hist == <<arrivals, latest, prompt, dense, actual>>
hvars == <<rateVars, hist>>

HInit ==
    /\ InitRate
    /\ arrivals = [t \in Periods |-> 0]
    /\ latest = period
    /\ prompt = TRUE
    /\ dense = TRUE
    /\ actual = [c \in Callers |-> 0]

ArrivalsBefore(t) == IF t = 0 THEN 0 ELSE arrivals[t - 1]

Locked(c) ==
    /\ latest' = sampled[c]
    /\ prompt' = (prompt /\ sampled[c] = period)
    /\ dense' = (dense /\ sampled[c] <= latest + 1)

HTick == Tick /\ UNCHANGED hist

HSample(c) == Sample(c) /\ UNCHANGED hist

HUpdate(c) ==
    /\ Update(c)
    /\ Locked(c)
    /\ arrivals' = [arrivals EXCEPT ![sampled[c]] = @ + 1]
    /\ UNCHANGED actual

HGetRate(c) ==
    /\ GetRate(c)
    /\ Locked(c)
    /\ actual' = [actual EXCEPT ![c] = ArrivalsBefore(sampled[c])]
    /\ UNCHANGED arrivals

HNext ==
    \/ HTick
    \/ \E c \in Callers : HSample(c) \/ HUpdate(c) \/ HGetRate(c)

HSpec == HInit /\ [][HNext]_hvars

-----------------------------------------------------------------------------
(* While the estimator is called in every period, and no caller is held up *)
(* between reading the clock and taking the lock, the two buckets hold the *)
(* requests of the period of the last call and of the one before it: what  *)
(* switching and clearing them (lines 120-127) is for.                     *)
BucketsAreExact ==
    prompt /\ dense =>
        /\ reqCnts[Bucket(latest)] = arrivals[latest]
        /\ reqCnts[OtherBucket(Bucket(latest))] = ArrivalsBefore(latest)

(* Under the same conditions getRequestRate returns what it is for: the    *)
(* number of requests of the period before the one it is called in,        *)
(* whoever is the first to switch the buckets (lines 141-152).             *)
RegularGetsAreExact ==
    [][ \A c \in Callers :
           prompt' /\ dense' /\ HGetRate(c) => rate'[c] = actual'[c] ]_hvars
=============================================================================
