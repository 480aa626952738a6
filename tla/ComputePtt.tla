----------------------------- MODULE ComputePtt -----------------------------
(***************************************************************************)
(* The threads of compute_ptt_c/compute_ptt.c.  main groups the rows, in   *)
(* the order of their instance, into instances, cuts the instances into a  *)
(* chunk per thread, polls an atomic counter until all are done, joins the *)
(* threads and writes the results.  What is computed for one instance is   *)
(* in module SlidingWindow.  An instance id is a number, in the order of   *)
(* strcmp.  Of an operator pair such as RoundedDown and RoundedUp the      *)
(* first is a slip that no action uses.                                    *)
(***************************************************************************)
EXTENDS SlidingWindow

CONSTANTS Inputs,       \* what the query may return: sequences of rows
          Windows,      \* widths of the two windows
          Threads       \* values of <num_threads>

(* ORDER BY msinstanceid, "timestamp" *)
Before(p, q) == p.id < q.id \/ (p.id = q.id /\ p.t <= q.t)

ASSUME PttAssumption ==
    /\ Inputs \subseteq Seq([id : Nat, t : Nat, val : Nat])
    /\ \A r \in Inputs : \A j \in 1..Len(r) - 1 : Before(r[j], r[j + 1])
    /\ Windows \subseteq Nat /\ Threads \subseteq Int

VARIABLES
    rows,         \* the rows of the query
    row,          \* rows loaded
    cur,          \* the instance being loaded
    instances,    \* the vector of instances loaded
    nthreads,     \* num_threads
    threads,      \* per thread started: its i, and whether that was computed
    maxPtt,       \* per instance, the ratio of each window
    computed,     \* history: per instance, how often that was computed
    done,         \* ptt_done
    pc

data == <<rows, row, cur, instances>>
vars == <<data, nthreads, threads, maxPtt, computed, done, pc>>

NoInstance == [id |-> -1, samples |-> << >>]
NoRatio == [w \in Windows |-> <<0, 0>>]
count == Len(instances)

AtLeastOne(m) == IF m < 1 THEN 1 ELSE m

Init ==
    /\ rows \in Inputs
    /\ row = 0 /\ cur = NoInstance /\ instances = << >>
    /\ nthreads \in {AtLeastOne(m) : m \in Threads}
    /\ threads = << >> /\ maxPtt = << >> /\ computed = << >> /\ done = 0
    /\ pc = "loading"

Flushed == IF cur = NoInstance THEN instances ELSE Append(instances, cur)

LoadRow ==
    /\ pc = "loading" /\ row < Len(rows)
    /\ row' = row + 1
    /\ LET this   == rows[row + 1]
           sample == [t |-> this.t, val |-> this.val]
       IN  IF cur.id # this.id
           THEN /\ instances' = Flushed
                /\ cur' = [id |-> this.id, samples |-> <<sample>>]
           ELSE /\ cur' = [cur EXCEPT !.samples = Append(@, sample)]
                /\ UNCHANGED instances
    /\ UNCHANGED <<rows, nthreads, threads, maxPtt, computed, done, pc>>

LoadEnds ==
    /\ pc = "loading" /\ row = Len(rows)
    /\ instances' = Flushed
    /\ pc' = IF instances' = << >> THEN "none found" ELSE "start"
    /\ UNCHANGED <<rows, row, cur, nthreads, threads, maxPtt, computed, done>>

(* Thread t has the instances t*chunk up to t*chunk + chunk, cut off at    *)
(* the end; indices count from 0.                                          *)
RoundedDown(m, k) == m \div k
RoundedUp(m, k) == (m + k - 1) \div k
chunk == RoundedUp(count, nthreads)
First(t) == t * chunk
NotCutOff(t) == First(t) + chunk
Last(t) == IF First(t) + chunk > count THEN count ELSE First(t) + chunk

StartThreads ==
    /\ pc = "start"
    /\ nthreads' = IF nthreads > count THEN count ELSE nthreads
    /\ maxPtt' = [j \in 0..count - 1 |-> NoRatio]
    /\ computed' = [j \in 0..count - 1 |-> 0]
    /\ pc' = "create"
    /\ UNCHANGED <<data, threads, done>>

(* pthread_create; that it fails is left out: nobody would compute its     *)
(* chunk, and the poll loop would not end.                                 *)
CreateThread ==
    /\ pc = "create" /\ Len(threads) < nthreads
    /\ threads' = Append(threads, [i |-> First(Len(threads)), computed |-> FALSE])
    /\ UNCHANGED <<data, nthreads, maxPtt, computed, done, pc>>

AllCreated ==
    /\ pc = "create" /\ Len(threads) = nthreads
    /\ pc' = "poll"
    /\ UNCHANGED <<data, nthreads, threads, maxPtt, computed, done>>

(* worker: threads[t] is thread t - 1 *)
Finished(t) == threads[t].i >= Last(t - 1)

Compute(t) ==
    /\ ~threads[t].computed /\ ~Finished(t)
    /\ LET j == threads[t].i
       IN  /\ maxPtt' = [maxPtt EXCEPT ![j] =
                  [w \in Windows |-> SlidingMaxPtt(instances[j + 1].samples, w)]]
           /\ computed' = [computed EXCEPT ![j] = @ + 1]
    /\ threads' = [threads EXCEPT ![t].computed = TRUE]
    /\ UNCHANGED <<data, nthreads, done, pc>>

CountDone(t) ==
    /\ threads[t].computed
    /\ done' = done + 1
    /\ threads' = [threads EXCEPT ![t] = [i |-> @.i + 1, computed |-> FALSE]]
    /\ UNCHANGED <<data, nthreads, maxPtt, computed, pc>>

(* The poll loop ends, then every thread is joined and the CSV written.    *)
PollEnds ==
    /\ pc = "poll" /\ done >= count
    /\ pc' = "join"
    /\ UNCHANGED <<data, nthreads, threads, maxPtt, computed, done>>

JoinAndWrite ==
    /\ pc = "join" /\ \A t \in 1..Len(threads) : Finished(t)
    /\ pc' = "written"
    /\ UNCHANGED <<data, nthreads, threads, maxPtt, computed, done>>

Main == \/ LoadRow \/ LoadEnds \/ StartThreads \/ CreateThread \/ AllCreated
        \/ PollEnds \/ JoinAndWrite
Worker(t) == Compute(t) \/ CountDone(t)

Next == Main \/ \E t \in 1..Len(threads) : Worker(t)

(* The threads are scheduled; main polls again and again. *)
Fairness == WF_vars(Main) /\ WF_vars(\E t \in 1..Len(threads) : Worker(t))

Spec == Init /\ [][Next]_vars /\ Fairness

-----------------------------------------------------------------------------
(* The chunks of the threads overlap nowhere and reach no further than the *)
(* instances, for any number of either: each instance is computed by one   *)
(* thread, once, and no thread touches memory behind the last              *)
(* (lines 303-313, 131-137).                                               *)
ComputedOnce ==
    pc \in {"create", "poll", "join", "written"} =>
        /\ \A j \in 0..count - 1 : computed[j] <= 1
        /\ \A t \in 1..Len(threads) : threads[t].computed => threads[t].i < count
        /\ done <= Cardinality({j \in 0..count - 1 : computed[j] > 0})

(* The CSV has one line per instance id of the input, and it has the       *)
(* largest ratio of all windows over all the rows of that id: not one that *)
(* no window has, nor less than one that some window has (lines 90-115,    *)
(* 265-282, 335-339).                                                      *)
RowsOf(x) ==
    LET upTo[n \in 0..Len(rows)] ==
            IF n = 0 THEN << >>
            ELSE IF rows[n].id = x
                 THEN Append(upTo[n - 1], [t |-> rows[n].t, val |-> rows[n].val])
                 ELSE upTo[n - 1]
    IN  upTo[Len(rows)]

ResultsAreLargestRatios ==
    pc = "written" =>
        LET ids == {rows[j].id : j \in DOMAIN rows}
        IN  /\ count = Cardinality(ids)
            /\ {instances[k].id : k \in 1..count} = ids
            /\ \A k \in 1..count : \A w \in Windows :
                   IsLargestRatio(maxPtt[k - 1][w], RowsOf(instances[k].id), w)

(* The poll loop ends: the counter reaches the number of instances         *)
(* (lines 317-326), every thread having been created (312).                *)
Ends == <>(pc \in {"written", "none found"})
=============================================================================
