---------------------------- MODULE MCComputePtt ----------------------------
(* Two kinds of input.  Up to six rows of up to five instances, all with   *)
(* the same sample: more threads than instances, and numbers of instances  *)
(* the threads do not divide.  And up to four rows of at most two          *)
(* instances with all timestamps and values below, around the widths of    *)
(* the windows and with the value 0.                                       *)
EXTENDS ComputePtt

Ordered(m, Rows) ==
    {r \in [1..m -> Rows] : \A j \in 1..m - 1 : Before(r[j], r[j + 1])}

MCInputs ==
    UNION {Ordered(m, [id : 1..5, t : {0}, val : {1}]) : m \in 0..6} \cup
    UNION {Ordered(m, [id : {1}, t : 0..3, val : 0..2]) : m \in 1..4} \cup
    Ordered(3, [id : {1}, t : {0, 2, 3}, val : 1..3]) \cup
    UNION {Ordered(m, [id : {1, 2}, t : {0, 2}, val : 0..1]) : m \in 1..3}
=============================================================================
