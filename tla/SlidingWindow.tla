---------------------------- MODULE SlidingWindow ---------------------------
(***************************************************************************)
(* sliding_max_ptt of compute_ptt_c/compute_ptt.c: the largest ratio of    *)
(* the maximum to the minimum over all windows that end in a sample.  Two  *)
(* indices move over the samples, a sequence of records [t, val] in the    *)
(* order of t; a ratio is a pair of a maximum and a minimum, compared by   *)
(* cross multiplication.  TooEarly is a slip of TooOld that nothing uses.  *)
(***************************************************************************)
EXTENDS Integers, Sequences, FiniteSetsExt

Larger(p, q) == p[1] * q[2] > q[1] * p[2]

(* ts[right] - ts[left] > window_ms *)
TooEarly(age, window) == age >= window
TooOld(age, window) == age > window

(* The loop that steps left on while the sample there is too old.          *)
Advanced(s, right, from, window) ==
    LET stop[left \in DOMAIN s] ==
            IF TooOld(s[right].t - s[left].t, window) THEN stop[left + 1] ELSE left
    IN  stop[from]

(* The index left when the loop looks at each sample: stepped on from      *)
(* where the sample before has left it.                                    *)
Lefts(s, window) ==
    LET lefts[right \in DOMAIN s] ==
            Advanced(s, right, IF right = 1 THEN 1 ELSE lefts[right - 1], window)
    IN  lefts

(* The maximum and the minimum of the samples at the places in S. *)
Extremes(s, S) == LET vals == {s[k].val : k \in S} IN <<Max(vals), Min(vals)>>

(* A window with minimum 0 has no ratio. *)
LargerOf(ratio, last) == IF ratio[2] > 0 /\ Larger(ratio, last) THEN ratio ELSE last

(* max_ratio after each sample. *)
SlidingMaxPtt(s, window) ==
    LET lefts == Lefts(s, window)
        maxRatio[right \in 0..Len(s)] ==
            IF right = 0 THEN <<1, 1>>
            ELSE LargerOf(Extremes(s, lefts[right]..right), maxRatio[right - 1])
    IN  maxRatio[Len(s)]

(* By definition: the window that ends in sample r holds the samples up to *)
(* r no older than window.                                                 *)
WindowOf(s, r, window) == {k \in 1..r : s[r].t - s[k].t <= window}

Ratios(s, window) ==
    {<<1, 1>>} \cup
    {q \in {Extremes(s, WindowOf(s, r, window)) : r \in DOMAIN s} : q[2] > 0}

IsLargestRatio(ratio, s, window) ==
    /\ ratio \in Ratios(s, window)
    /\ \A q \in Ratios(s, window) : ~Larger(q, ratio)
=============================================================================
