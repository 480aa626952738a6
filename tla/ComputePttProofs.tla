-------------------------- MODULE ComputePttProofs --------------------------
(***************************************************************************)
(* compute_ptt.c, for any input, any windows, any number of threads and    *)
(* any interleaving: no instance is computed twice, no thread works behind *)
(* the last instance, the counter that main polls never runs ahead of what *)
(* was computed, and the CSV has the largest ratio of each instance.       *)
(***************************************************************************)
EXTENDS ComputePtt, FiniteSetTheorems, WellFoundedInduction, TLAPS

Rows == [id : Nat, t : Nat, val : Nat]
Samples == [t : Nat, val : Nat]
Instance == [id : Int, samples : Seq(Samples)]
Thread == [i : Nat, computed : BOOLEAN]
Created == {"create", "poll", "join", "written"}

Types ==
    /\ rows \in Inputs
    /\ row \in 0..Len(rows)
    /\ cur \in Instance
    /\ instances \in Seq(Instance)
    /\ nthreads \in Nat \ {0}
    /\ threads \in Seq(Thread)
    /\ done \in Nat
    /\ pc \in {"loading", "none found", "start"} \cup Created

(* Nothing is computed before there are chunks, and there is an instance.  *)
NothingYet ==
    /\ pc \notin Created => threads = << >> /\ done = 0
    /\ pc \in {"start"} \cup Created => count > 0

(* Thread t is somewhere in its chunk, or its chunk is empty.              *)
InItsChunk(t) ==
    /\ First(t - 1) <= threads[t].i
    /\ threads[t].i <= Last(t - 1) \/ threads[t].i = First(t - 1)
    /\ threads[t].computed => threads[t].i < Last(t - 1)

(* Thread t has computed instance j; has also counted it.                  *)
Counted(t, j) == First(t - 1) <= j /\ j < threads[t].i
Covered(t, j) == Counted(t, j) \/ (threads[t].computed /\ j = threads[t].i)

AllCounted == {j \in 0..count - 1 : \E t \in 1..Len(threads) : Counted(t, j)}

ChunkInv ==
    pc \in Created =>
        /\ DOMAIN computed = 0..count - 1
        /\ \A t \in 1..Len(threads) : InItsChunk(t)
        /\ \A j \in 0..count - 1 :
               computed[j] = IF \E t \in 1..Len(threads) : Covered(t, j) THEN 1 ELSE 0
        /\ done = Cardinality(AllCounted)

IInv == Types /\ NothingYet /\ ChunkInv

-----------------------------------------------------------------------------
(* chunk is a natural number, whatever is divided.                         *)
LEMMA ChunkIsNat ==
    ASSUME NEW m \in Nat, NEW k \in Nat \ {0}
    PROVE  RoundedUp(m, k) \in Nat
  BY DEF RoundedUp

(* Chunks of the same size overlap nowhere.                                *)
LEMMA ChunksAreDisjoint ==
    ASSUME NEW c \in Nat, NEW s \in Int, NEW t \in Int, NEW j \in Int,
           s * c <= j, j < s * c + c, t * c <= j, j < t * c + c
    PROVE  s = t
  <1>1. ASSUME NEW a \in Int, NEW b \in Int, a < b PROVE a * c + c <= b * c
    <2>1. (b - a - 1) * c >= 0
      BY <1>1
    <2>2. (b - a - 1) * c = b * c - a * c - c
      OBVIOUS
    <2>3. a * c \in Int /\ b * c \in Int
      OBVIOUS
    <2> QED
      BY <2>1, <2>2, <2>3
  <1>2. s * c \in Int /\ t * c \in Int
    OBVIOUS
  <1>3. ~(s < t)
    BY <1>1, <1>2
  <1>4. ~(t < s)
    BY <1>1, <1>2
  <1> QED
    BY <1>3, <1>4

-----------------------------------------------------------------------------
(* Sequences, whatever they are of.                                        *)

LEMMA SeqElement ==
    ASSUME NEW S, NEW s \in Seq(S)
    PROVE  Len(s) \in Nat /\ \A n \in 1..Len(s) : s[n] \in S
  OBVIOUS

LEMMA SeqLength ==
    ASSUME NEW S, NEW s \in Seq(S)
    PROVE  s # << >> <=> Len(s) > 0
  OBVIOUS

LEMMA SeqAppend ==
    ASSUME NEW S, NEW s \in Seq(S), NEW x \in S
    PROVE  /\ Append(s, x) \in Seq(S)
           /\ Len(Append(s, x)) = Len(s) + 1
           /\ Append(s, x)[Len(s) + 1] = x
           /\ \A n \in 1..Len(s) : Append(s, x)[n] = s[n]
  OBVIOUS

LEMMA SeqReplace ==
    ASSUME NEW S, NEW s \in Seq(S), NEW n \in 1..Len(s), NEW x \in S
    PROVE  /\ [s EXCEPT ![n] = x] \in Seq(S)
           /\ Len([s EXCEPT ![n] = x]) = Len(s)
           /\ [s EXCEPT ![n] = x][n] = x
           /\ \A m \in 1..Len(s) : m # n => [s EXCEPT ![n] = x][m] = s[m]
  OBVIOUS

LEMMA SeqSingle ==
    ASSUME NEW S, NEW x \in S
    PROVE  <<x>> \in Seq(S)
  OBVIOUS

LEMMA EmptySeqType == \A S : << >> \in Seq(S)
  OBVIOUS

(* What a thread is after either of its steps. *)
LEMMA ThreadType ==
    ASSUME NEW x \in Thread
    PROVE  x.i \in Nat /\ x.computed \in BOOLEAN
  BY DEF Thread

LEMMA ThreadComputes ==
    ASSUME NEW x \in Thread
    PROVE  /\ [x EXCEPT !.computed = TRUE] \in Thread
           /\ [x EXCEPT !.computed = TRUE].i = x.i
           /\ [x EXCEPT !.computed = TRUE].computed = TRUE
  BY DEF Thread

LEMMA ThreadCounts ==
    ASSUME NEW x \in Thread
    PROVE  [i |-> x.i + 1, computed |-> FALSE] \in Thread
  BY DEF Thread

-----------------------------------------------------------------------------
(* Types                                                                   *)

LEMMA TypesInit == Init => Types /\ NothingYet
  <1> SUFFICES ASSUME Init PROVE Types /\ NothingYet
    OBVIOUS
  <1>1. rows \in Inputs /\ row \in 0..Len(rows)
    <2>1. rows \in Seq(Rows)
      BY PttAssumption DEF Init, Rows
    <2> QED
      BY <2>1, SeqElement DEF Init
  <1>2. cur \in Instance
    BY EmptySeqType DEF Init, NoInstance, Instance
  <1>3. nthreads \in Nat \ {0}
    BY PttAssumption DEF Init, AtLeastOne
  <1>4. instances \in Seq(Instance) /\ threads \in Seq(Thread)
    BY EmptySeqType DEF Init
  <1> QED
    BY <1>1, <1>2, <1>3, <1>4 DEF Init, Types, NothingYet, Created

LEMMA RowTypes ==
    ASSUME Types, row < Len(rows)
    PROVE  /\ rows[row + 1].id \in Nat
           /\ [t |-> rows[row + 1].t, val |-> rows[row + 1].val] \in Samples
           /\ row + 1 \in 0..Len(rows)
  <1>1. rows \in Seq(Rows)
    BY PttAssumption DEF Types, Rows
  <1>2. Len(rows) \in Nat /\ row + 1 \in 1..Len(rows)
    <2>1. Len(rows) \in Nat
      BY <1>1, SeqElement
    <2>2. row \in 0..Len(rows)
      BY DEF Types
    <2> QED
      BY <2>1, <2>2
  <1>3. rows[row + 1] \in Rows
    BY <1>1, <1>2, SeqElement
  <1> QED
    BY <1>2, <1>3 DEF Samples, Rows

LEMMA FlushedType == ASSUME Types PROVE Flushed \in Seq(Instance)
  BY SeqAppend DEF Types, Flushed

LEMMA FirstIsNat ==
    ASSUME Types, NEW t \in Nat
    PROVE  chunk \in Nat /\ First(t) \in Nat
  <1>1. Len(instances) \in Nat
    BY SeqElement DEF Types
  <1>2. chunk \in Nat
    BY <1>1, ChunkIsNat DEF chunk, count, Types
  <1>3. \A c, n \in Nat : n * c \in Nat
    OBVIOUS
  <1> QED
    BY <1>2, <1>3 DEF First

(* The steps of a thread, as far as the threads are concerned. *)
LEMMA WorkerTypes ==
    ASSUME Types, NEW t \in 1..Len(threads), Worker(t)
    PROVE  threads' \in Seq(Thread) /\ done' \in Nat
  <1>1. threads \in Seq(Thread) /\ done \in Nat
    BY DEF Types
  <1>2. threads[t] \in Thread
    BY <1>1, SeqElement
  <1>3. CASE Compute(t)
    <2>1. threads' = [threads EXCEPT ![t] = [threads[t] EXCEPT !.computed = TRUE]]
      BY <1>3 DEF Compute
    <2>2. [threads[t] EXCEPT !.computed = TRUE] \in Thread
      BY <1>2, ThreadComputes
    <2>3. threads' \in Seq(Thread)
      BY <1>1, <2>1, <2>2, SeqReplace
    <2>4. done' = done
      BY <1>3 DEF Compute
    <2> QED
      BY <1>1, <2>3, <2>4
  <1>4. CASE CountDone(t)
    <2>1. threads' = [threads EXCEPT ![t] = [i |-> threads[t].i + 1, computed |-> FALSE]]
      BY <1>4 DEF CountDone
    <2>2. [i |-> threads[t].i + 1, computed |-> FALSE] \in Thread
      BY <1>2, ThreadCounts
    <2>3. threads' \in Seq(Thread)
      BY <1>1, <2>1, <2>2, SeqReplace
    <2>4. done' = done + 1
      BY <1>4 DEF CountDone
    <2> QED
      BY <1>1, <2>3, <2>4
  <1> QED
    BY <1>3, <1>4 DEF Worker

LEMMA TypesStep ==
    Types /\ NothingYet /\ [Next]_vars => Types' /\ NothingYet'
  <1> SUFFICES ASSUME Types, NothingYet, [Next]_vars PROVE Types' /\ NothingYet'
    OBVIOUS
  <1>1. CASE LoadRow
    <2> DEFINE sample == [t |-> rows[row + 1].t, val |-> rows[row + 1].val]
    <2>1. rows[row + 1].id \in Nat /\ sample \in Samples /\ row + 1 \in 0..Len(rows)
      BY <1>1, RowTypes DEF LoadRow
    <2>2. rows[row + 1].id \in Int
      BY <2>1
    <2>3. cur \in Instance
      BY DEF Types
    <2>4. cur.id \in Int /\ cur.samples \in Seq(Samples)
      BY <2>3 DEF Instance
    <2>5. <<sample>> \in Seq(Samples) /\ Append(cur.samples, sample) \in Seq(Samples)
      BY <2>1, <2>4, SeqSingle, SeqAppend
    <2>6. [id |-> rows[row + 1].id, samples |-> <<sample>>] \in Instance
      BY <2>2, <2>5 DEF Instance
    <2>7. [cur EXCEPT !.samples = Append(cur.samples, sample)] \in Instance
      BY <2>3, <2>5 DEF Instance
    <2>8. cur' \in Instance /\ instances' \in Seq(Instance)
      BY <1>1, <2>6, <2>7, FlushedType DEF LoadRow, Types
    <2> QED
      BY <1>1, <2>1, <2>8 DEF LoadRow, Types, NothingYet, Created, count
  <1>2. CASE LoadEnds
    <2>1. instances' \in Seq(Instance)
      BY <1>2, FlushedType DEF LoadEnds
    <2>2. instances' # << >> => Len(instances') > 0
      BY <2>1, SeqLength
    <2> QED
      BY <1>2, <2>1, <2>2 DEF LoadEnds, Types, NothingYet, Created, count
  <1>3. CASE StartThreads
    <2>1. count \in Nat
      BY SeqElement DEF Types, count
    <2> QED
      BY <1>3, <2>1 DEF StartThreads, Types, NothingYet, Created, count, data
  <1>4. CASE CreateThread
    <2>1. threads \in Seq(Thread)
      BY DEF Types
    <2>2. Len(threads) \in Nat
      BY <2>1, SeqElement
    <2>3. First(Len(threads)) \in Nat
      BY <2>2, FirstIsNat
    <2>4. [i |-> First(Len(threads)), computed |-> FALSE] \in Thread
      BY <2>3 DEF Thread
    <2>5. threads' \in Seq(Thread)
      BY <1>4, <2>1, <2>4, SeqAppend DEF CreateThread
    <2> QED
      BY <1>4, <2>5 DEF CreateThread, Types, NothingYet, Created, count, data
  <1>5. CASE AllCreated \/ PollEnds \/ JoinAndWrite
    BY <1>5 DEF AllCreated, PollEnds, JoinAndWrite, Types, NothingYet, Created, count, data
  <1>6. ASSUME NEW t \in 1..Len(threads), Worker(t) PROVE Types' /\ NothingYet'
    <2>1. threads # << >>
      <3>1. threads \in Seq(Thread)
        BY DEF Types
      <3>2. Len(threads) \in Nat
        BY <3>1, SeqElement
      <3>3. Len(threads) > 0
        BY <3>2
      <3> QED
        BY <3>1, <3>3, SeqLength
    <2>2. UNCHANGED <<rows, row, cur, instances, nthreads, pc>>
      BY <1>6 DEF Worker, Compute, CountDone, data
    <2> QED
      BY <1>6, <2>1, <2>2, WorkerTypes DEF Types, NothingYet, count
  <1>7. CASE UNCHANGED vars
    BY <1>7 DEF vars, data, Types, NothingYet, count
  <1> QED
    BY <1>1, <1>2, <1>3, <1>4, <1>5, <1>6, <1>7 DEF Next, Main

-----------------------------------------------------------------------------
(* Chunks                                                                  *)

(* Two threads cover no instance in common: not even one that a thread is  *)
(* about to compute.                                                       *)
LEMMA OneThreadEach ==
    ASSUME Types, NEW s \in 1..Len(threads), NEW t \in 1..Len(threads),
           InItsChunk(s), InItsChunk(t), NEW j \in Int,
           Covered(s, j),
           First(t - 1) <= j, j < Last(t - 1)
    PROVE  s = t
  <1> DEFINE c == chunk
             n == count
             i == threads[s].i
  <1>1. c \in Nat /\ n \in Nat /\ i \in Nat
    BY FirstIsNat, SeqElement, ThreadType DEF Types, count
  <1>2. s \in Int /\ t \in Int
    OBVIOUS
  <1>3. First(s - 1) = (s - 1) * c /\ First(t - 1) = (t - 1) * c
    BY DEF First
  <1>4. (s - 1) * c \in Int /\ (t - 1) * c \in Int
    BY <1>1, <1>2
  <1>5. Last(s - 1) <= (s - 1) * c + c /\ Last(t - 1) <= (t - 1) * c + c
    BY <1>1, <1>3, <1>4 DEF Last
  <1>6. Last(s - 1) \in Int /\ Last(t - 1) \in Int
    BY <1>1, <1>3, <1>4 DEF Last
  <1>7. (s - 1) * c <= j /\ j < (s - 1) * c + c
    <2>1. (s - 1) * c <= j /\ j < Last(s - 1)
      <3>1. CASE Counted(s, j)
        BY <3>1, <1>1, <1>3, <1>4, <1>6 DEF Counted, InItsChunk
      <3>2. CASE threads[s].computed /\ j = threads[s].i
        BY <3>2, <1>1, <1>3, <1>4, <1>6 DEF InItsChunk
      <3> QED
        BY <3>1, <3>2 DEF Covered
    <2> QED
      BY <2>1, <1>1, <1>4, <1>5, <1>6
  <1>8. (t - 1) * c <= j /\ j < (t - 1) * c + c
    BY <1>1, <1>3, <1>4, <1>5, <1>6
  <1>9. s - 1 \in Int /\ t - 1 \in Int
    BY <1>2
  <1>10. s - 1 = t - 1
    <2> HIDE DEF c
    <2> QED
      BY <1>1, <1>7, <1>8, <1>9, ChunksAreDisjoint
  <1> QED
    BY <1>2, <1>10

(* Where the chunks are does not change while the instances do not. *)
LEMMA ChunksStay ==
    ASSUME UNCHANGED <<instances, nthreads>>
    PROVE  /\ count' = count /\ chunk' = chunk
           /\ \A t : First(t)' = First(t) /\ Last(t)' = Last(t)
  BY DEF count, chunk, First, Last

LEMMA CountedIsFinite ==
    ASSUME Types PROVE IsFiniteSet(AllCounted)
  <1>1. count \in Nat
    BY SeqElement DEF Types, count
  <1>2. IsFiniteSet(0..count - 1)
    BY <1>1, FS_Interval
  <1> QED
    BY <1>2, FS_Subset DEF AllCounted

(* A thread computes the next instance of its chunk, which nobody covers.  *)
LEMMA ComputeStep ==
    ASSUME Types, NothingYet, ChunkInv, NEW t \in 1..Len(threads), Compute(t)
    PROVE  ChunkInv'
  <1> DEFINE i == threads[t].i
             N == 1..Len(threads)
  <1>1. threads \in Seq(Thread) /\ Len(threads) \in Nat /\ count \in Nat
    BY SeqElement DEF Types, count
  <1>0. t - 1 \in Nat
    BY <1>1
  <1>2. threads[t] \in Thread /\ i \in Nat
    BY <1>1, SeqElement, ThreadType
  <1>3. pc \in Created
    BY <1>1, SeqLength DEF NothingYet
  <1>4. /\ DOMAIN computed = 0..count - 1
        /\ \A s \in N : InItsChunk(s)
        /\ \A j \in 0..count - 1 :
               computed[j] = IF \E s \in N : Covered(s, j) THEN 1 ELSE 0
        /\ done = Cardinality(AllCounted)
    BY <1>3 DEF ChunkInv
  <1>5. /\ \A s : First(s)' = First(s) /\ Last(s)' = Last(s)
        /\ count' = count
    BY ChunksStay DEF Compute, data
  <1>6. /\ Len(threads') = Len(threads)
        /\ \A s \in N : s # t => threads'[s] = threads[s]
        /\ threads'[t].i = i /\ threads'[t].computed = TRUE
    <2>1. threads' = [threads EXCEPT ![t] = [threads[t] EXCEPT !.computed = TRUE]]
      BY DEF Compute
    <2>2. [threads[t] EXCEPT !.computed = TRUE] \in Thread
      BY <1>2, ThreadComputes
    <2>3. threads'[t] = [threads[t] EXCEPT !.computed = TRUE]
      <3> DEFINE x == [threads[t] EXCEPT !.computed = TRUE]
      <3>1. threads' = [threads EXCEPT ![t] = x] /\ x \in Thread
        BY <2>1, <2>2
      <3>2. threads'[t] = x
        <4> HIDE DEF x
        <4> QED
          BY <1>1, <3>1, SeqReplace
      <3> QED
        BY <3>2
    <2> QED
      BY <1>1, <1>2, <2>1, <2>2, <2>3, SeqReplace, ThreadComputes
  <1>7. ~threads[t].computed /\ i < Last(t - 1)
    <2>1. ~threads[t].computed /\ ~(i >= Last(t - 1))
      BY DEF Compute, Finished
    <2>2. Last(t - 1) \in Int
      <3>1. chunk \in Nat /\ First(t - 1) \in Nat
        BY <1>0, FirstIsNat
      <3> QED
        BY <1>1, <3>1 DEF Last
    <2> QED
      BY <1>2, <2>1, <2>2
  <1>8. InItsChunk(t) /\ First(t - 1) <= i
    BY <1>4 DEF InItsChunk
  <1>9. i \in 0..count - 1
    <2>1. chunk \in Nat /\ First(t - 1) \in Nat
      BY <1>0, FirstIsNat
    <2>2. Last(t - 1) <= count
      BY <1>1, <2>1 DEF Last
    <2>3. Last(t - 1) \in Int
      BY <1>1, <2>1 DEF Last
    <2> QED
      BY <1>1, <1>2, <1>7, <2>2, <2>3
  <1>10. \A s \in N : ~Covered(s, i)
    <2> SUFFICES ASSUME NEW s \in N, Covered(s, i) PROVE FALSE
      OBVIOUS
    <2>1. s = t
      BY <1>2, <1>4, <1>7, <1>8, OneThreadEach
    <2>2. ~(i < i)
      BY <1>2
    <2> QED
      BY <1>7, <2>1, <2>2 DEF Covered, Counted
  <1>11. \A s \in N : \A j : Counted(s, j)' <=> Counted(s, j)
    BY <1>5, <1>6 DEF Counted
  <1>12. \A s \in N : \A j : Covered(s, j)' <=> Covered(s, j) \/ (s = t /\ j = i)
    BY <1>5, <1>6, <1>7, <1>11 DEF Covered
  <1>13. \A s \in N : InItsChunk(s)'
    BY <1>4, <1>5, <1>6, <1>7 DEF InItsChunk
  <1>14. AllCounted' = AllCounted
    BY <1>5, <1>6, <1>11 DEF AllCounted
  <1>15. done' = done /\ pc' = pc /\ computed' = [computed EXCEPT ![i] = @ + 1]
    BY DEF Compute
  <1>16. \A j \in 0..count - 1 :
            computed'[j] = IF \E s \in N : Covered(s, j)' THEN 1 ELSE 0
    <2> SUFFICES ASSUME NEW j \in 0..count - 1
                 PROVE  computed'[j] = IF \E s \in N : Covered(s, j)' THEN 1 ELSE 0
      OBVIOUS
    <2>1. CASE j = i
      <3>1. computed[i] = 0
        BY <1>4, <1>9, <1>10
      <3>2. computed'[i] = 1
        BY <1>4, <1>9, <1>15, <3>1
      <3>3. Covered(t, j)'
        BY <1>12, <2>1
      <3> QED
        BY <2>1, <3>2, <3>3
    <2>2. CASE j # i
      <3>1. computed'[j] = computed[j]
        BY <1>4, <1>15, <2>2
      <3>2. \A s \in N : Covered(s, j)' <=> Covered(s, j)
        BY <1>12, <2>2
      <3> QED
        BY <1>4, <3>1, <3>2
    <2> QED
      BY <2>1, <2>2
  <1>17. DOMAIN computed' = 0..count' - 1
    BY <1>4, <1>5, <1>15
  <1> QED
    BY <1>4, <1>5, <1>6, <1>13, <1>14, <1>15, <1>16, <1>17 DEF ChunkInv

(* A thread counts what it has computed, and goes on. *)
LEMMA CountStep ==
    ASSUME Types, NothingYet, ChunkInv, NEW t \in 1..Len(threads), CountDone(t)
    PROVE  ChunkInv'
  <1> DEFINE i == threads[t].i
             N == 1..Len(threads)
  <1>1. threads \in Seq(Thread) /\ Len(threads) \in Nat /\ count \in Nat
    BY SeqElement DEF Types, count
  <1>0. t - 1 \in Nat
    BY <1>1
  <1>2. threads[t] \in Thread /\ i \in Nat
    BY <1>1, SeqElement, ThreadType
  <1>3. pc \in Created
    BY <1>1, SeqLength DEF NothingYet
  <1>4. /\ DOMAIN computed = 0..count - 1
        /\ \A s \in N : InItsChunk(s)
        /\ \A j \in 0..count - 1 :
               computed[j] = IF \E s \in N : Covered(s, j) THEN 1 ELSE 0
        /\ done = Cardinality(AllCounted)
    BY <1>3 DEF ChunkInv
  <1>5. /\ \A s : First(s)' = First(s) /\ Last(s)' = Last(s)
        /\ count' = count
    BY ChunksStay DEF CountDone, data
  <1>6. /\ Len(threads') = Len(threads)
        /\ \A s \in N : s # t => threads'[s] = threads[s]
        /\ threads'[t].i = i + 1 /\ threads'[t].computed = FALSE
    <2>1. threads' = [threads EXCEPT ![t] = [i |-> threads[t].i + 1, computed |-> FALSE]]
      BY DEF CountDone
    <2>2. [i |-> threads[t].i + 1, computed |-> FALSE] \in Thread
      BY <1>2, ThreadCounts
    <2>3. threads'[t] = [i |-> threads[t].i + 1, computed |-> FALSE]
      <3> DEFINE x == [i |-> threads[t].i + 1, computed |-> FALSE]
      <3>1. threads' = [threads EXCEPT ![t] = x] /\ x \in Thread
        BY <2>1, <2>2
      <3>2. threads'[t] = x
        <4> HIDE DEF x
        <4> QED
          BY <1>1, <3>1, SeqReplace
      <3> QED
        BY <3>2
    <2> QED
      BY <1>1, <2>1, <2>2, <2>3, SeqReplace
  <1>7. /\ threads[t].computed /\ InItsChunk(t)
        /\ First(t - 1) <= i /\ i < Last(t - 1)
    BY <1>4 DEF CountDone, InItsChunk
  <1>8. First(t - 1) \in Nat /\ Last(t - 1) \in Int /\ Last(t - 1) <= count
    <2>1. chunk \in Nat /\ First(t - 1) \in Nat
      BY <1>0, FirstIsNat
    <2> QED
      BY <1>1, <2>1 DEF Last
  <1>9. i \in 0..count - 1
    BY <1>1, <1>2, <1>7, <1>8
  <1>10. i \notin AllCounted
    <2> SUFFICES ASSUME NEW s \in N, Counted(s, i) PROVE FALSE
      BY DEF AllCounted
    <2>1. Covered(s, i)
      BY DEF Covered
    <2>2. s = t
      BY <1>2, <1>4, <1>7, <2>1, OneThreadEach
    <2>3. ~(i < i)
      BY <1>2
    <2> QED
      BY <2>2, <2>3 DEF Counted
  <1>11. \A s \in N : \A j \in 0..count - 1 :
            Counted(s, j)' <=> Counted(s, j) \/ (s = t /\ j = i)
    <2> SUFFICES ASSUME NEW s \in N, NEW j \in 0..count - 1
                 PROVE  Counted(s, j)' <=> Counted(s, j) \/ (s = t /\ j = i)
      OBVIOUS
    <2>1. CASE s = t
      <3>1. Counted(t, j)' <=> First(t - 1) <= j /\ j < i + 1
        BY <1>5, <1>6 DEF Counted
      <3>2. First(t - 1) <= j /\ j < i + 1 <=> (First(t - 1) <= j /\ j < i) \/ j = i
        <4> HIDE DEF i
        <4> QED
          BY <1>1, <1>2, <1>7, <1>8
      <3> QED
        BY <2>1, <3>1, <3>2 DEF Counted
    <2>2. CASE s # t
      BY <1>5, <1>6, <2>2 DEF Counted
    <2> QED
      BY <2>1, <2>2
  <1>12. \A s \in N : \A j \in 0..count - 1 : Covered(s, j)' <=> Covered(s, j)
    <2> SUFFICES ASSUME NEW s \in N, NEW j \in 0..count - 1
                 PROVE  Covered(s, j)' <=> Covered(s, j)
      OBVIOUS
    <2>1. CASE s = t
      BY <1>6, <1>7, <1>11, <2>1 DEF Covered
    <2>2. CASE s # t
      BY <1>6, <1>11, <2>2 DEF Covered
    <2> QED
      BY <2>1, <2>2
  <1>13. \A s \in N : InItsChunk(s)'
    <2> SUFFICES ASSUME NEW s \in N PROVE InItsChunk(s)'
      OBVIOUS
    <2>1. CASE s = t
      BY <1>2, <1>5, <1>6, <1>7, <1>8, <2>1 DEF InItsChunk
    <2>2. CASE s # t
      BY <1>4, <1>5, <1>6, <2>2 DEF InItsChunk
    <2> QED
      BY <2>1, <2>2
  <1>14. AllCounted' = AllCounted \cup {i}
    BY <1>5, <1>6, <1>9, <1>11 DEF AllCounted
  <1>15. done' = done + 1 /\ pc' = pc /\ computed' = computed
    BY DEF CountDone
  <1>16. done' = Cardinality(AllCounted')
    BY <1>4, <1>10, <1>14, <1>15, CountedIsFinite, FS_AddElement
  <1> QED
    BY <1>4, <1>5, <1>6, <1>12, <1>13, <1>15, <1>16 DEF ChunkInv

LEMMA StartStep ==
    ASSUME Types, NothingYet, StartThreads PROVE ChunkInv'
  <1>1. threads' = << >> /\ done' = 0
    BY DEF StartThreads, NothingYet, Created
  <1>2. Len(threads') = 0
    BY <1>1
  <1>3. \A t \in 1..Len(threads') : FALSE
    BY <1>2
  <1>4. AllCounted' = {}
    BY <1>3 DEF AllCounted
  <1>5. done' = Cardinality(AllCounted')
    BY <1>1, <1>4, FS_EmptySet
  <1>6. count' = count /\ computed' = [j \in 0..count - 1 |-> 0]
    BY DEF StartThreads, data, count
  <1> QED
    BY <1>3, <1>5, <1>6 DEF ChunkInv

(* A new thread has covered nothing. *)
LEMMA CreateStep ==
    ASSUME Types, ChunkInv, CreateThread PROVE ChunkInv'
  <1> DEFINE N == 1..Len(threads)
             m == Len(threads) + 1
             x == [i |-> First(Len(threads)), computed |-> FALSE]
  <1>1. threads \in Seq(Thread) /\ Len(threads) \in Nat
    BY SeqElement DEF Types
  <1>2. First(m - 1) \in Nat /\ m - 1 = Len(threads)
    BY <1>1, FirstIsNat
  <1>3. x \in Thread /\ x.i = First(m - 1) /\ x.computed = FALSE
    BY <1>2 DEF Thread
  <1>4. /\ Len(threads') = m
        /\ \A s \in N : threads'[s] = threads[s]
        /\ threads'[m].i = First(m - 1) /\ threads'[m].computed = FALSE
    <2>1. threads' = Append(threads, x)
      BY DEF CreateThread
    <2> HIDE DEF x
    <2>2. threads'[m] = x
      BY <1>1, <1>3, <2>1, SeqAppend
    <2> QED
      BY <1>1, <1>3, <2>1, <2>2, SeqAppend
  <1>5. /\ \A s : First(s)' = First(s) /\ Last(s)' = Last(s)
        /\ count' = count
    BY ChunksStay DEF CreateThread, data
  <1>6. 1..Len(threads') = N \cup {m}
    BY <1>1, <1>4
  <1>7. UNCHANGED <<computed, done, pc>> /\ pc \in Created
    BY DEF CreateThread, Created
  <1>8. \A s \in N : InItsChunk(s)' <=> InItsChunk(s)
    BY <1>4, <1>5 DEF InItsChunk
  <1>9. \A s \in 1..Len(threads') : InItsChunk(s)'
    <2> SUFFICES ASSUME NEW s \in 1..Len(threads') PROVE InItsChunk(s)'
      OBVIOUS
    <2>1. CASE s \in N
      BY <1>7, <1>8, <2>1 DEF ChunkInv
    <2>2. CASE s = m
      BY <1>2, <1>4, <1>5, <2>2 DEF InItsChunk
    <2> QED
      BY <1>6, <2>1, <2>2
  <1>10. \A j \in Int : \A s \in N :
            (Counted(s, j)' <=> Counted(s, j)) /\ (Covered(s, j)' <=> Covered(s, j))
    BY <1>4, <1>5 DEF Counted, Covered
  <1>11. \A j \in Int : \A s \in 1..Len(threads') :
            s \notin N => ~Counted(s, j)' /\ ~Covered(s, j)'
    <2> SUFFICES ASSUME NEW j \in Int, NEW s \in 1..Len(threads'), s \notin N
                 PROVE  ~Counted(s, j)' /\ ~Covered(s, j)'
      OBVIOUS
    <2>1. s = m
      BY <1>6
    <2>2. threads'[s].i = First(s - 1) /\ threads'[s].computed = FALSE /\ First(s - 1) \in Nat
      BY <1>2, <1>4, <2>1
    <2> QED
      BY <1>5, <2>2 DEF Counted, Covered
  <1>12. \A j \in Int :
            /\ (\E s \in 1..Len(threads') : Counted(s, j)') <=> (\E s \in N : Counted(s, j))
            /\ (\E s \in 1..Len(threads') : Covered(s, j)') <=> (\E s \in N : Covered(s, j))
    BY <1>6, <1>10, <1>11
  <1>13. AllCounted' = AllCounted
    BY <1>5, <1>12 DEF AllCounted
  <1> QED
    BY <1>5, <1>7, <1>9, <1>12, <1>13 DEF ChunkInv

LEMMA ChunkStep ==
    Types /\ NothingYet /\ ChunkInv /\ [Next]_vars => ChunkInv'
  <1> SUFFICES ASSUME Types, NothingYet, ChunkInv, [Next]_vars PROVE ChunkInv'
    OBVIOUS
  <1>1. CASE LoadRow \/ LoadEnds
    BY <1>1 DEF LoadRow, LoadEnds, ChunkInv, Created
  <1>2. CASE StartThreads
    BY <1>2, StartStep
  <1>3. CASE CreateThread
    BY <1>3, CreateStep
  <1>4. CASE AllCreated \/ PollEnds \/ JoinAndWrite \/ UNCHANGED vars
    <2>1. UNCHANGED <<instances, nthreads, threads, computed, done>>
      BY <1>4 DEF AllCreated, PollEnds, JoinAndWrite, vars, data
    <2>2. pc' \in Created => pc \in Created
      BY <1>4 DEF AllCreated, PollEnds, JoinAndWrite, vars, Created
    <2>3. /\ \A s : First(s)' = First(s) /\ Last(s)' = Last(s)
          /\ count' = count
      BY <2>1, ChunksStay
    <2>4. \A s : InItsChunk(s)' <=> InItsChunk(s)
      BY <2>1, <2>3 DEF InItsChunk
    <2>5. \A s, j : (Counted(s, j)' <=> Counted(s, j)) /\ (Covered(s, j)' <=> Covered(s, j))
      BY <2>1, <2>3 DEF Counted, Covered
    <2>6. AllCounted' = AllCounted
      BY <2>1, <2>3, <2>5 DEF AllCounted
    <2> QED
      BY <2>1, <2>2, <2>3, <2>4, <2>5, <2>6 DEF ChunkInv
  <1>5. ASSUME NEW t \in 1..Len(threads), Worker(t) PROVE ChunkInv'
    BY <1>5, ComputeStep, CountStep DEF Worker
  <1> QED
    BY <1>1, <1>2, <1>3, <1>4, <1>5 DEF Next, Main

LEMMA InvInit == Init => IInv
  <1>1. Init => pc \notin Created
    BY DEF Init, Created
  <1> QED
    BY <1>1, TypesInit DEF IInv, ChunkInv

LEMMA InvStep == IInv /\ [Next]_vars => IInv'
  BY TypesStep, ChunkStep DEF IInv

(* What the chunks come to.                                                *)
LEMMA ChunksComputeOnce == IInv => ComputedOnce
  <1> SUFFICES ASSUME IInv, pc \in Created
               PROVE  /\ \A j \in 0..count - 1 : computed[j] <= 1
                      /\ \A t \in 1..Len(threads) : threads[t].computed => threads[t].i < count
                      /\ done <= Cardinality({j \in 0..count - 1 : computed[j] > 0})
    BY DEF ComputedOnce, Created
  <1> DEFINE N == 1..Len(threads)
             Positive == {j \in 0..count - 1 : computed[j] > 0}
  <1>1. Types /\ threads \in Seq(Thread) /\ Len(threads) \in Nat /\ count \in Nat
    BY SeqElement DEF IInv, Types, count
  <1>2. /\ \A s \in N : InItsChunk(s)
        /\ \A j \in 0..count - 1 :
               computed[j] = IF \E s \in N : Covered(s, j) THEN 1 ELSE 0
        /\ done = Cardinality(AllCounted)
    BY DEF IInv, ChunkInv
  <1>3. \A j \in 0..count - 1 : computed[j] <= 1
    BY <1>2
  <1>4. ASSUME NEW t \in N, threads[t].computed PROVE threads[t].i < count
    <2>1. threads[t].i \in Nat
      BY <1>1, SeqElement, ThreadType
    <2>2. threads[t].i < Last(t - 1)
      BY <1>2, <1>4 DEF InItsChunk
    <2>3. First(t - 1) \in Nat /\ chunk \in Nat
      <3>1. t - 1 \in Nat
        BY <1>1
      <3> QED
        BY <1>1, <3>1, FirstIsNat
    <2>4. Last(t - 1) \in Int /\ Last(t - 1) <= count
      BY <1>1, <2>3 DEF Last
    <2> QED
      BY <1>1, <2>1, <2>2, <2>4
  <1>5. done <= Cardinality(Positive)
    <2>1. AllCounted \subseteq Positive
      BY <1>2 DEF AllCounted, Covered
    <2>2. IsFiniteSet(0..count - 1)
      BY <1>1, FS_Interval
    <2>3. IsFiniteSet(Positive)
      BY <2>2, FS_Subset
    <2>4. Cardinality(AllCounted) <= Cardinality(Positive)
      BY <2>1, <2>3, FS_Subset
    <2> QED
      BY <1>2, <2>4
  <1> QED
    BY <1>3, <1>4, <1>5

(* No instance is computed twice, no thread works behind the last one and  *)
(* the counter never runs ahead, for any input and any number of threads:  *)
(* the chunks that lines 303-313 cut overlap nowhere.                      *)
THEOREM InstancesComputedOnce == Spec => []ComputedOnce
  <1>1. Init => IInv
    BY InvInit
  <1>2. IInv /\ [Next]_vars => IInv'
    BY InvStep
  <1>3. IInv => ComputedOnce
    BY ChunksComputeOnce
  <1> QED
    BY <1>1, <1>2, <1>3, PTL DEF Spec

-----------------------------------------------------------------------------
(* Induction and recursion.                                                *)

(* Every set of numbers that is not empty has a least. *)
LEMMA LeastNumber ==
    ASSUME NEW S, S \subseteq Nat, S # {}
    PROVE  \E m \in S : \A n \in S : m <= n
  <1> DEFINE R == OpToRel(<, Nat)
  <1>1. IsWellFoundedOn(R, Nat)
    BY NatLessThanWellFounded
  <1>2. \A m, n \in Nat : <<m, n>> \in R <=> m < n
    BY DEF OpToRel
  <1> HIDE DEF R
  <1>3. PICK m \in S : \A n \in S : <<n, m>> \notin R
    BY <1>1, WFMin
  <1>4. ASSUME NEW n \in S PROVE m <= n
    <2>1. m \in Nat /\ n \in Nat /\ ~(n < m)
      BY <1>2, <1>3
    <2> QED
      BY <2>1
  <1> QED
    BY <1>4

LEMMA Induction ==
    ASSUME NEW S, 0 \in S, \A n \in Nat : n \in S => n + 1 \in S
    PROVE  Nat \subseteq S
  <1>1. SUFFICES ASSUME Nat \ S # {} PROVE FALSE
    OBVIOUS
  <1>2. PICK m \in Nat \ S : \A n \in Nat \ S : m <= n
    BY <1>1, LeastNumber
  <1>3. m # 0 /\ m - 1 \in Nat /\ m - 1 \notin Nat \ S
    BY <1>2
  <1>4. (m - 1) + 1 = m
    BY <1>2
  <1> QED
    BY <1>2, <1>3, <1>4

(* There is a function defined by recursion from one number to the next.   *)
Follows(f, n, first, step) ==
    \A k \in 0..n : f[k] = IF k = 0 THEN first ELSE step[k][f[k - 1]]

LEMMA RecursiveFcn ==
    ASSUME NEW T, NEW first \in T, NEW step \in [Nat -> [T -> T]], NEW n \in Nat
    PROVE  \E f \in [0..n -> T] : Follows(f, n, first, step)
  <1> DEFINE S == {m \in Nat : \E f \in [0..m -> T] : Follows(f, m, first, step)}
  <1>1. 0 \in S
    <2> DEFINE f == [k \in 0..0 |-> first]
    <2>1. f \in [0..0 -> T] /\ Follows(f, 0, first, step)
      BY DEF Follows
    <2> HIDE DEF f
    <2> QED
      BY <2>1
  <1>2. ASSUME NEW m \in Nat, m \in S PROVE m + 1 \in S
    <2>1. PICK f \in [0..m -> T] : Follows(f, m, first, step)
      BY <1>2
    <2> DEFINE g == [k \in 0..m + 1 |-> IF k = m + 1 THEN step[m + 1][f[m]] ELSE f[k]]
    <2>2. g \in [0..m + 1 -> T]
      OBVIOUS
    <2>3. Follows(g, m + 1, first, step)
      <3>1. SUFFICES ASSUME NEW k \in 0..m + 1
                     PROVE g[k] = IF k = 0 THEN first ELSE step[k][g[k - 1]]
        BY DEF Follows
      <3>2. CASE k = m + 1
        BY <3>2
      <3>3. CASE k \in 0..m
        BY <2>1, <3>3 DEF Follows
      <3> QED
        BY <3>2, <3>3
    <2> HIDE DEF g
    <2> QED
      BY <2>2, <2>3
  <1> HIDE DEF S
  <1>3. n \in S
    BY <1>1, <1>2, Induction
  <1> QED
    BY <1>3 DEF S

-----------------------------------------------------------------------------
(* The largest and the least of finitely many samples.                     *)
LEMMA LeastValue ==
    ASSUME NEW S, S \subseteq Nat, S # {}
    PROVE  Min(S) \in S /\ \A x \in S : Min(S) <= x
  <1>1. \E m \in S : \A n \in S : m <= n
    BY LeastNumber
  <1> QED
    BY <1>1 DEF Min

LEMMA SampleIs ==
    ASSUME NEW s \in Seq(Samples)
    PROVE  Len(s) \in Nat /\ \A k \in 1..Len(s) : s[k].t \in Nat /\ s[k].val \in Nat
  <1>1. Len(s) \in Nat /\ \A k \in 1..Len(s) : s[k] \in Samples
    OBVIOUS
  <1> QED
    BY <1>1 DEF Samples

LEMMA LargestBelow ==
    ASSUME NEW S, S \subseteq Nat, S # {}, NEW b \in Nat, \A x \in S : x <= b
    PROVE  \E m \in S : \A n \in S : n <= m
  <1> DEFINE D == {d \in Nat : \E x \in S : d = b - x}
  <1>0. \A x \in S : b - x \in D
    OBVIOUS
  <1>1. D \subseteq Nat /\ D # {}
    BY <1>0
  <1>2. PICK d \in D : \A e \in D : d <= e
    BY <1>1, LeastNumber
  <1>3. PICK m \in S : d = b - m
    BY <1>2
  <1>4. ASSUME NEW n \in S PROVE n <= m
    <2>1. d <= b - n
      BY <1>0, <1>2
    <2>2. m \in Nat /\ n \in Nat
      OBVIOUS
    <2> QED
      BY <1>3, <2>1, <2>2
  <1> QED
    BY <1>4

ValuesOf(s, S) == {s[k].val : k \in S}

LEMMA ValuesBounded ==
    ASSUME NEW s \in Seq(Samples), NEW n \in Nat, n <= Len(s)
    PROVE  \E b \in Nat : \A k \in 1..n : s[k].val <= b
  <1> DEFINE P(m) == m <= Len(s) => \E b \in Nat : \A k \in 1..m : s[k].val <= b
  <1>1. P(0)
    OBVIOUS
  <1>2. ASSUME NEW m \in Nat, P(m) PROVE P(m + 1)
    <2>1. SUFFICES ASSUME m + 1 <= Len(s)
                   PROVE  \E b \in Nat : \A k \in 1..m + 1 : s[k].val <= b
      OBVIOUS
    <2>0. m <= Len(s)
      <3>1. Len(s) \in Nat
        BY SampleIs
      <3> QED
        BY <2>1, <3>1
    <2>2. PICK b \in Nat : \A k \in 1..m : s[k].val <= b
      BY <1>2, <2>0
    <2>3. s[m + 1].val \in Nat
      BY <2>1, SampleIs
    <2>4. PICK c \in Nat : b <= c /\ s[m + 1].val <= c
      BY <2>3
    <2>5. ASSUME NEW k \in 1..m + 1 PROVE s[k].val <= c
      <3>1. CASE k = m + 1
        BY <2>4, <3>1
      <3>2. CASE k \in 1..m
        <4>1. s[k].val \in Nat
          BY <2>1, <3>2, SampleIs
        <4> QED
          BY <2>2, <2>4, <3>2, <4>1
      <3> QED
        BY <3>1, <3>2
    <2> QED
      BY <2>5
  <1> HIDE DEF P
  <1>3. Nat \subseteq {m \in Nat : P(m)}
    <2> DEFINE S == {m \in Nat : P(m)}
    <2>1. 0 \in S /\ \A m \in Nat : m \in S => m + 1 \in S
      BY <1>1, <1>2
    <2> HIDE DEF S
    <2>2. Nat \subseteq S
      BY <2>1, Induction
    <2> QED
      BY <2>2 DEF S
  <1>4. P(n)
    BY <1>3
  <1> QED
    BY <1>4 DEF P

LEMMA ExtremesAre ==
    ASSUME NEW s \in Seq(Samples), NEW S, S \subseteq DOMAIN s, S # {}
    PROVE  Extremes(s, S) \in Nat \X Nat
  <1> DEFINE V == ValuesOf(s, S)
  <1>0. Len(s) \in Nat /\ S \subseteq 1..Len(s)
    BY SampleIs
  <1>1. V \subseteq Nat /\ V # {}
    BY <1>0, SampleIs DEF ValuesOf
  <1>2. PICK b \in Nat : \A k \in 1..Len(s) : s[k].val <= b
    <2>1. Len(s) <= Len(s)
      BY <1>0
    <2> QED
      BY <1>0, <2>1, ValuesBounded
  <1>3. \A x \in V : x <= b
    BY <1>0, <1>2 DEF ValuesOf
  <1>4. Min(V) \in Nat
    BY <1>1, LeastValue
  <1>5. \E m \in V : \A n \in V : n <= m
    BY <1>1, <1>3, LargestBelow
  <1>6. Max(V) \in V
    <2>1. \E m \in V : \A n \in V : m >= n
      BY <1>1, <1>5
    <2> QED
      BY <2>1 DEF Max
  <1>7. Extremes(s, S) = <<Max(V), Min(V)>>
    BY DEF Extremes, ValuesOf
  <1> HIDE DEF V
  <1>8. Max(V) \in Nat
    BY <1>1, <1>6
  <1> QED
    BY <1>4, <1>7, <1>8

-----------------------------------------------------------------------------
(* The window of a sample, whose samples come in the order of their time.  *)
Sorted(s) == \A j, k \in 1..Len(s) : j <= k => s[j].t <= s[k].t

FirstIn(s, r, window) == Min(WindowOf(s, r, window))

LEMMA WindowIs ==
    ASSUME NEW s \in Seq(Samples), Sorted(s), NEW window \in Nat, NEW r \in 1..Len(s)
    PROVE  /\ FirstIn(s, r, window) \in 1..r
           /\ WindowOf(s, r, window) = FirstIn(s, r, window)..r
           /\ \A k \in 1..Len(s) : TooOld(s[r].t - s[k].t, window) <=> k < FirstIn(s, r, window)
  <1> DEFINE W == WindowOf(s, r, window)
             F == FirstIn(s, r, window)
  <1>1. Len(s) \in Nat /\ \A k \in 1..Len(s) : s[k].t \in Nat
    BY SampleIs
  <1>2. r \in W /\ W \subseteq 1..r /\ W \subseteq Nat
    BY <1>1 DEF WindowOf
  <1>3. F \in W /\ \A k \in W : F <= k
    BY <1>2, LeastValue DEF FirstIn
  <1>4. s[r].t - s[F].t <= window
    BY <1>3 DEF WindowOf
  <1>5. ASSUME NEW k \in 1..Len(s) PROVE TooOld(s[r].t - s[k].t, window) <=> k < F
    <2>1. CASE k < F
      <3>1. k \in 1..r /\ k \notin W
        BY <1>2, <1>3, <2>1
      <3>2. ~(s[r].t - s[k].t <= window)
        BY <3>1 DEF WindowOf
      <3> QED
        BY <1>1, <2>1, <3>2 DEF TooOld
    <2>2. CASE F <= k
      <3>1. s[F].t <= s[k].t
        BY <1>2, <1>3, <2>2 DEF Sorted
      <3> QED
        BY <1>1, <1>2, <1>3, <1>4, <2>2, <3>1 DEF TooOld
    <2> QED
      BY <1>2, <1>3, <2>1, <2>2
  <1>6. W = F..r
    <2>1. ASSUME NEW k \in 1..r PROVE k \in W <=> F <= k
      <3>1. k \in W <=> ~TooOld(s[r].t - s[k].t, window)
        BY <1>1 DEF WindowOf, TooOld
      <3> QED
        BY <1>2, <1>3, <1>5, <3>1
    <2> HIDE DEF W, F
    <2>2. ASSUME NEW k PROVE k \in W <=> k \in F..r
      <3>1. F \in 1..r /\ r \in Nat
        BY <1>1, <1>2, <1>3
      <3>2. k \in W => k \in 1..r
        BY <1>2
      <3>3. k \in F..r => k \in 1..r
        BY <3>1
      <3>4. k \in 1..r => (k \in F..r <=> F <= k)
        BY <3>1
      <3> QED
        BY <2>1, <3>2, <3>3, <3>4
    <2> QED
      BY <2>2, Zenon
  <1> QED
    BY <1>2, <1>3, <1>5, <1>6

-----------------------------------------------------------------------------
(* The loops.                                                              *)

(* The inner loop, started before the window, stops where it begins.       *)
LEMMA AdvancedIs ==
    ASSUME NEW s \in Seq(Samples), Sorted(s), NEW window \in Nat, NEW r \in 1..Len(s),
           NEW from \in 1..FirstIn(s, r, window)
    PROVE  Advanced(s, r, from, window) = FirstIn(s, r, window)
  <1> DEFINE F == FirstIn(s, r, window)
             D == DOMAIN s
             Old(k) == TooOld(s[r].t - s[k].t, window)
             IsLoop(f) == f = [left \in D |-> IF Old(left) THEN f[left + 1] ELSE left]
             stop == CHOOSE f : IsLoop(f)
             g == [left \in D |-> IF left <= F THEN F ELSE left]
  <1>1. D = 1..Len(s) /\ Len(s) \in Nat
    BY SampleIs
  <1>2. F \in 1..r /\ \A k \in D : Old(k) <=> k < F
    BY <1>1, WindowIs
  <1>3. Advanced(s, r, from, window) = stop[from]
    BY DEF Advanced
  <1> HIDE DEF F, D, Old
  <1>4. IsLoop(g)
    <2>1. ASSUME NEW k \in D PROVE g[k] = IF Old(k) THEN g[k + 1] ELSE k
      <3>1. CASE k < F
        <4>1. k + 1 \in D /\ k + 1 <= F
          BY <1>1, <1>2, <3>1
        <4> QED
          BY <1>1, <1>2, <3>1, <4>1
      <3>2. CASE ~(k < F)
        BY <1>1, <1>2, <3>2
      <3> QED
        BY <3>1, <3>2
    <2>2. g = [k \in D |-> g[k]]
      OBVIOUS
    <2> HIDE DEF g
    <2> QED
      BY <2>1, <2>2
  <1> HIDE DEF IsLoop, g
  <1>5. IsLoop(stop)
    BY <1>4
  <1>6. \A k \in D : stop[k] = IF Old(k) THEN stop[k + 1] ELSE k
    BY <1>5 DEF IsLoop
  <1> HIDE DEF stop
  <1> DEFINE P(n) == n < F => stop[F - n] = F
  <1>7. P(0)
    BY <1>1, <1>2, <1>6
  <1>8. ASSUME NEW n \in Nat, P(n) PROVE P(n + 1)
    <2>1. SUFFICES ASSUME n + 1 < F PROVE stop[F - (n + 1)] = F
      OBVIOUS
    <2>2. F - (n + 1) \in D /\ F - (n + 1) < F /\ F - (n + 1) + 1 = F - n
      BY <1>1, <1>2, <2>1
    <2>3. stop[F - n] = F
      BY <1>2, <1>8, <2>1
    <2> QED
      BY <1>2, <1>6, <2>2, <2>3
  <1> HIDE DEF P
  <1>9. Nat \subseteq {n \in Nat : P(n)}
    <2> DEFINE S == {n \in Nat : P(n)}
    <2>1. 0 \in S /\ \A n \in Nat : n \in S => n + 1 \in S
      BY <1>7, <1>8
    <2> HIDE DEF S
    <2>2. Nat \subseteq S
      BY <2>1, Induction
    <2> QED
      BY <2>2 DEF S
  <1>10. from \in 1..F /\ F \in Nat
    BY <1>1, <1>2 DEF F
  <1>11. P(F - from)
    BY <1>9, <1>10
  <1>12. stop[from] = F
    <2>1. F - from < F /\ F - (F - from) = from
      BY <1>10
    <2> QED
      BY <1>11, <2>1 DEF P
  <1> QED
    BY <1>3, <1>12 DEF F

(* The window of a sample begins no earlier than that of the one before. *)
LEMMA WindowsMoveOn ==
    ASSUME NEW s \in Seq(Samples), Sorted(s), NEW window \in Nat, NEW r \in 2..Len(s)
    PROVE  FirstIn(s, r - 1, window) \in 1..FirstIn(s, r, window)
  <1> DEFINE F(k) == FirstIn(s, k, window)
  <1>1. Len(s) \in Nat /\ r \in 1..Len(s) /\ r - 1 \in 1..Len(s)
    BY SampleIs
  <1>2. F(r) \in 1..r /\ F(r - 1) \in 1..r - 1
    BY <1>1, WindowIs
  <1>3. CASE F(r) = r
    BY <1>1, <1>2, <1>3
  <1>4. CASE F(r) # r
    <2>1. F(r) \in 1..r - 1 /\ F(r) \in 1..Len(s)
      BY <1>1, <1>2, <1>4
    <2>2. ~TooOld(s[r].t - s[F(r)].t, window)
      <3>1. ~(F(r) < F(r))
        BY <1>1, <1>2
      <3> QED
        BY <1>1, <2>1, <3>1, WindowIs
    <2>3. s[r - 1].t <= s[r].t
      BY <1>1 DEF Sorted
    <2>4. s[r].t \in Nat /\ s[r - 1].t \in Nat /\ s[F(r)].t \in Nat
      BY <1>1, <2>1, SampleIs
    <2>5. ~TooOld(s[r - 1].t - s[F(r)].t, window)
      BY <2>2, <2>3, <2>4 DEF TooOld
    <2>6. ~(F(r) < F(r - 1))
      BY <1>1, <2>1, <2>5, WindowIs
    <2> QED
      BY <1>1, <1>2, <2>6
  <1> QED
    BY <1>3, <1>4

LEMMA LeftsAre ==
    ASSUME NEW s \in Seq(Samples), Sorted(s), NEW window \in Nat
    PROVE  \A r \in 1..Len(s) : Lefts(s, window)[r] = FirstIn(s, r, window)
  <1> DEFINE D == DOMAIN s
             F(r) == FirstIn(s, r, window)
             From(f, r) == IF r = 1 THEN 1 ELSE f[r - 1]
             IsLoop(f) == f = [r \in D |-> Advanced(s, r, From(f, r), window)]
             g == [r \in D |-> F(r)]
  <1>1. D = 1..Len(s) /\ Len(s) \in Nat
    BY SampleIs
  <1>2. Lefts(s, window) = CHOOSE f : IsLoop(f)
    BY DEF Lefts
  <1>3. ASSUME NEW r \in D, NEW from, from = IF r = 1 THEN 1 ELSE F(r - 1)
        PROVE  Advanced(s, r, from, window) = F(r)
    <2>1. CASE r = 1
      <3>1. F(1) \in 1..1
        BY <1>1, <2>1, WindowIs
      <3> QED
        BY <1>1, <1>3, <2>1, <3>1, AdvancedIs
    <2>2. CASE r # 1
      <3>1. r \in 2..Len(s)
        BY <1>1, <2>2
      <3> QED
        BY <1>1, <1>3, <2>2, <3>1, WindowsMoveOn, AdvancedIs
    <2> QED
      BY <2>1, <2>2
  <1> HIDE DEF D, F
  <1>4. IsLoop(g)
    <2>1. ASSUME NEW r \in D PROVE g[r] = Advanced(s, r, From(g, r), window)
      <3>1. From(g, r) = IF r = 1 THEN 1 ELSE F(r - 1)
        BY <1>1
      <3> QED
        BY <1>3, <3>1
    <2>2. g = [r \in D |-> g[r]]
      OBVIOUS
    <2> HIDE DEF g, From
    <2> QED
      BY <2>1, <2>2
  <1> DEFINE lefts == Lefts(s, window)
  <1> HIDE DEF IsLoop, g
  <1>5. IsLoop(lefts)
    BY <1>2, <1>4
  <1> HIDE DEF lefts
  <1>6. \A r \in D : lefts[r] = Advanced(s, r, From(lefts, r), window)
    BY <1>5 DEF IsLoop
  <1> DEFINE P(n) == n + 1 \in D => lefts[n + 1] = F(n + 1)
  <1>7. P(0)
    <2>1. From(lefts, 1) = 1
      OBVIOUS
    <2> QED
      BY <1>3, <1>6, <2>1
  <1>8. ASSUME NEW n \in Nat, P(n) PROVE P(n + 1)
    <2>1. SUFFICES ASSUME n + 2 \in D PROVE lefts[n + 2] = F(n + 2)
      OBVIOUS
    <2>2. n + 1 \in D /\ n + 2 # 1 /\ (n + 2) - 1 = n + 1
      BY <1>1, <2>1
    <2>3. From(lefts, n + 2) = F((n + 2) - 1)
      BY <1>8, <2>2
    <2> QED
      BY <1>3, <1>6, <2>1, <2>2, <2>3
  <1> HIDE DEF P
  <1>9. Nat \subseteq {n \in Nat : P(n)}
    <2> DEFINE S == {n \in Nat : P(n)}
    <2>1. 0 \in S /\ \A n \in Nat : n \in S => n + 1 \in S
      BY <1>7, <1>8
    <2> HIDE DEF S
    <2>2. Nat \subseteq S
      BY <2>1, Induction
    <2> QED
      BY <2>2 DEF S
  <1>10. ASSUME NEW r \in 1..Len(s) PROVE lefts[r] = F(r)
    <2>1. r - 1 \in Nat /\ (r - 1) + 1 = r /\ r \in D
      BY <1>1
    <2>2. P(r - 1)
      BY <1>9, <2>1
    <2> QED
      BY <2>1, <2>2 DEF P
  <1> QED
    BY <1>10 DEF lefts, F

-----------------------------------------------------------------------------
(* Ratios.                                                                 *)
Pairs == Nat \X Nat

LEMMA MultiplyOut ==
    ASSUME NEW a \in Nat, NEW b \in Nat, NEW c \in Nat, NEW d \in Nat,
           NEW e \in Nat, NEW f \in Nat, f > 0, b > 0,
           a * d <= c * b, c * f < e * d
    PROVE  a * f <= e * b
  <1>1. a * d * f <= c * b * f
    <2>1. (c * b - a * d) * f >= 0
      OBVIOUS
    <2>2. (c * b - a * d) * f = c * b * f - a * d * f
      OBVIOUS
    <2> QED
      BY <2>1, <2>2
  <1>2. c * f * b < e * d * b
    <2>1. (e * d - c * f) * b > 0
      OBVIOUS
    <2>2. (e * d - c * f) * b = e * d * b - c * f * b
      OBVIOUS
    <2> QED
      BY <2>1, <2>2
  <1>3. a * f * d < e * b * d
    <2>1. a * d * f = a * f * d /\ c * b * f = c * f * b /\ e * d * b = e * b * d
      OBVIOUS
    <2> QED
      BY <1>1, <1>2, <2>1
  <1>4. CASE a * f > e * b
    <2>1. (a * f - e * b) * d >= 0
      BY <1>4
    <2>2. (a * f - e * b) * d = a * f * d - e * b * d
      OBVIOUS
    <2> QED
      BY <1>3, <2>1, <2>2
  <1> QED
    BY <1>4

(* A ratio that is not larger than the largest so far is not larger than   *)
(* the next.                                                               *)
LEMMA LargerIsTransitive ==
    ASSUME NEW p \in Pairs, NEW q \in Pairs, NEW r \in Pairs, q[2] > 0, r[2] > 0,
           ~Larger(q, p), Larger(r, p)
    PROVE  ~Larger(q, r)
  <1>1. /\ q[1] \in Nat /\ q[2] \in Nat /\ p[1] \in Nat /\ p[2] \in Nat
        /\ r[1] \in Nat /\ r[2] \in Nat
    BY DEF Pairs
  <1>2. q[1] * p[2] <= p[1] * q[2] /\ p[1] * r[2] < r[1] * p[2]
    BY <1>1 DEF Larger
  <1>3. q[1] * r[2] <= r[1] * q[2]
    BY <1>1, <1>2, MultiplyOut
  <1> QED
    BY <1>1, <1>3 DEF Larger

LEMMA LargerIsIrreflexive == ASSUME NEW p \in Pairs PROVE ~Larger(p, p)
  <1>1. p[1] \in Nat /\ p[2] \in Nat
    BY DEF Pairs
  <1> QED
    BY <1>1 DEF Larger

(* What the loop computes is by definition the largest ratio.              *)
LEMMA SlidingMaxIsLargest ==
    ASSUME NEW s \in Seq(Samples), Sorted(s), NEW window \in Nat
    PROVE  IsLargestRatio(SlidingMaxPtt(s, window), s, window)
  <1> DEFINE N == Len(s)
             Ratio(k) == Extremes(s, WindowOf(s, k, window))
             InLoop(k) == Extremes(s, Lefts(s, window)[k]..k)
             IsLoop(f) == f = [k \in 0..N |-> IF k = 0 THEN <<1, 1>>
                                              ELSE LargerOf(InLoop(k), f[k - 1])]
             step == [k \in Nat |-> IF k \in 1..N
                                    THEN [q \in Pairs |-> LargerOf(Ratio(k), q)]
                                    ELSE [q \in Pairs |-> q]]
             max == CHOOSE f : IsLoop(f)
  <1>1. N \in Nat /\ DOMAIN s = 1..N
    BY SampleIs
  <1>2. SlidingMaxPtt(s, window) = max[N]
    BY DEF SlidingMaxPtt
  <1>3. ASSUME NEW k \in 1..N PROVE InLoop(k) = Ratio(k) /\ Ratio(k) \in Pairs
    <2>1. /\ FirstIn(s, k, window) \in 1..k
          /\ WindowOf(s, k, window) = FirstIn(s, k, window)..k
          /\ Lefts(s, window)[k] = FirstIn(s, k, window)
      BY LeftsAre, WindowIs
    <2>2. k \in WindowOf(s, k, window) /\ WindowOf(s, k, window) \subseteq DOMAIN s
      BY <1>1, <2>1
    <2>3. Ratio(k) \in Pairs
      BY <2>2, ExtremesAre DEF Pairs
    <2> QED
      BY <2>1, <2>3
  <1>4. Ratios(s, window) = {<<1, 1>>} \cup {q \in {Ratio(k) : k \in 1..N} : q[2] > 0}
    BY <1>1 DEF Ratios
  <1> HIDE DEF N, Ratio, InLoop
  <1>5. <<1, 1>> \in Pairs /\ <<1, 1>>[2] > 0
    BY DEF Pairs
  <1>6. \A p, q \in Pairs : LargerOf(p, q) \in Pairs
    BY DEF LargerOf
  <1>7. \E f : IsLoop(f)
    <2>1. step \in [Nat -> [Pairs -> Pairs]]
      BY <1>3, <1>6
    <2>2. \A k \in 1..N : \A q \in Pairs : step[k][q] = LargerOf(Ratio(k), q)
      BY <1>1
    <2> HIDE DEF step
    <2> DEFINE one == <<1, 1>>
    <2> HIDE DEF one
    <2>6. one \in Pairs
      BY <1>5 DEF one
    <2>3. PICK f \in [0..N -> Pairs] : Follows(f, N, one, step)
      BY <1>1, <2>1, <2>6, RecursiveFcn
    <2>4. ASSUME NEW k \in 0..N
          PROVE  f[k] = IF k = 0 THEN <<1, 1>> ELSE LargerOf(InLoop(k), f[k - 1])
      <3>1. CASE k = 0
        BY <2>3, <3>1 DEF Follows, one
      <3>2. CASE k # 0
        <4>1. k \in 1..N /\ k - 1 \in 0..N
          BY <1>1, <3>2
        <4>2. f[k - 1] \in Pairs
          BY <2>3, <4>1
        <4> QED
          BY <1>3, <2>2, <2>3, <3>2, <4>1, <4>2 DEF Follows
      <3> QED
        BY <3>1, <3>2
    <2>5. f = [k \in 0..N |-> f[k]]
      OBVIOUS
    <2> QED
      BY <2>4, <2>5
  <1> HIDE DEF step, IsLoop
  <1>8. IsLoop(max)
    BY <1>7
  <1> HIDE DEF max
  <1>9. /\ max[0] = <<1, 1>>
        /\ \A k \in 1..N : max[k] = LargerOf(Ratio(k), max[k - 1])
    <2>1. \A k \in 0..N : max[k] = IF k = 0 THEN <<1, 1>> ELSE LargerOf(InLoop(k), max[k - 1])
      BY <1>8 DEF IsLoop
    <2>2. 0 \in 0..N /\ \A k \in 1..N : k \in 0..N /\ k # 0
      BY <1>1
    <2> QED
      BY <1>3, <2>1, <2>2
  <1> DEFINE Upto(n) == {<<1, 1>>} \cup {q \in {Ratio(k) : k \in 1..n} : q[2] > 0}
             IsMax(p, n) == p \in Pairs /\ p \in Upto(n) /\ \A q \in Upto(n) : ~Larger(q, p)
             P(n) == n <= N => IsMax(max[n], n)
  <1>10. P(0)
    <2>1. Upto(0) = {<<1, 1>>}
      OBVIOUS
    <2> QED
      BY <1>5, <1>9, <2>1, LargerIsIrreflexive
  <1>11. ASSUME NEW n \in Nat, P(n) PROVE P(n + 1)
    <2>1. SUFFICES ASSUME n + 1 <= N PROVE IsMax(max[n + 1], n + 1)
      OBVIOUS
    <2> DEFINE r == Ratio(n + 1)
               p == max[n]
    <2>2. /\ n + 1 \in 1..N /\ r \in Pairs /\ IsMax(p, n)
          /\ max[n + 1] = LargerOf(r, p)
      BY <1>1, <1>3, <1>9, <1>11, <2>1
    <2>3. Upto(n + 1) = Upto(n) \cup {q \in {r} : q[2] > 0}
      <3>1. 1..n + 1 = 1..n \cup {n + 1}
        OBVIOUS
      <3> QED
        BY <3>1
    <2>4. \A q \in Upto(n) : q \in Pairs /\ q[2] > 0
      BY <1>1, <1>3, <1>5, <2>1
    <2> HIDE DEF r, p, Upto
    <2>5. CASE r[2] > 0 /\ Larger(r, p)
      <3>1. max[n + 1] = r
        BY <2>2, <2>5 DEF LargerOf
      <3>2. \A q \in Upto(n) : ~Larger(q, r)
        BY <2>2, <2>4, <2>5, LargerIsTransitive
      <3>3. ~Larger(r, r)
        BY <2>2, LargerIsIrreflexive
      <3> QED
        BY <2>2, <2>3, <2>5, <3>1, <3>2, <3>3
    <2>6. CASE ~(r[2] > 0 /\ Larger(r, p))
      <3>1. max[n + 1] = p
        BY <2>2, <2>6 DEF LargerOf
      <3> QED
        BY <2>2, <2>3, <2>6, <3>1
    <2> QED
      BY <2>5, <2>6
  <1> HIDE DEF P
  <1>12. Nat \subseteq {n \in Nat : P(n)}
    <2> DEFINE S == {n \in Nat : P(n)}
    <2>1. 0 \in S /\ \A n \in Nat : n \in S => n + 1 \in S
      BY <1>10, <1>11
    <2> HIDE DEF S
    <2>2. Nat \subseteq S
      BY <2>1, Induction
    <2> QED
      BY <2>2 DEF S
  <1>13. P(N) /\ N <= N
    BY <1>1, <1>12
  <1>14. IsMax(max[N], N) /\ Upto(N) = Ratios(s, window)
    BY <1>4, <1>13 DEF P
  <1> QED
    BY <1>2, <1>14 DEF IsLargestRatio

-----------------------------------------------------------------------------
(* The rows of the query, rs in these lemmas.                              *)
InOrder(rs) == \A j, k \in 1..Len(rs) : j <= k => j = k \/ Before(rs[j], rs[k])

SampleOf(r) == [t |-> r.t, val |-> r.val]

(* The samples of instance x among the first n rows. *)
Collects(f, rs, x) ==
    f = [n \in 0..Len(rs) |->
            IF n = 0 THEN << >>
            ELSE IF rs[n].id = x THEN Append(f[n - 1], SampleOf(rs[n])) ELSE f[n - 1]]
UpTo(rs, x) == CHOOSE f : Collects(f, rs, x)

LEMMA RowIs ==
    ASSUME NEW rs \in Seq(Rows)
    PROVE  /\ Len(rs) \in Nat
           /\ \A k \in 1..Len(rs) : /\ rs[k].id \in Nat /\ rs[k].t \in Nat
                                    /\ SampleOf(rs[k]) \in Samples
                                    /\ SampleOf(rs[k]).t = rs[k].t
  <1>1. Len(rs) \in Nat /\ \A k \in 1..Len(rs) : rs[k] \in Rows
    BY SeqElement
  <1> QED
    BY <1>1 DEF Rows, Samples, SampleOf

LEMMA RowsInOrder ==
    ASSUME NEW rs \in Inputs
    PROVE  rs \in Seq(Rows) /\ InOrder(rs)
  <1>1. rs \in Seq(Rows) /\ \A j \in 1..Len(rs) - 1 : Before(rs[j], rs[j + 1])
    BY PttAssumption DEF Rows
  <1>2. Len(rs) \in Nat /\ \A k \in 1..Len(rs) : rs[k].id \in Nat /\ rs[k].t \in Nat
    BY <1>1, RowIs
  <1> DEFINE P(n) == \A j \in 1..Len(rs) :
                        j + n \in 1..Len(rs) /\ n > 0 => Before(rs[j], rs[j + n])
  <1>3. P(0)
    OBVIOUS
  <1>4. ASSUME NEW n \in Nat, P(n) PROVE P(n + 1)
    <2>1. SUFFICES ASSUME NEW j \in 1..Len(rs), j + (n + 1) \in 1..Len(rs)
                   PROVE  Before(rs[j], rs[j + (n + 1)])
      OBVIOUS
    <2>2. /\ j + n \in 1..Len(rs) - 1 /\ j + n \in 1..Len(rs)
          /\ (j + n) + 1 = j + (n + 1)
      BY <1>2, <2>1
    <2>3. Before(rs[j + n], rs[j + (n + 1)])
      BY <1>1, <2>2
    <2>4. CASE n = 0
      <3>1. j + n = j
        BY <1>2, <2>4
      <3> QED
        BY <2>3, <3>1
    <2>5. CASE n > 0
      <3>1. Before(rs[j], rs[j + n])
        BY <1>4, <2>2, <2>5
      <3> QED
        BY <1>2, <2>1, <2>2, <2>3, <3>1 DEF Before
    <2> QED
      BY <2>4, <2>5
  <1> HIDE DEF P
  <1>5. Nat \subseteq {n \in Nat : P(n)}
    <2> DEFINE S == {n \in Nat : P(n)}
    <2>1. 0 \in S /\ \A n \in Nat : n \in S => n + 1 \in S
      BY <1>3, <1>4
    <2> HIDE DEF S
    <2>2. Nat \subseteq S
      BY <2>1, Induction
    <2> QED
      BY <2>2 DEF S
  <1>6. ASSUME NEW j \in 1..Len(rs), NEW k \in 1..Len(rs), j <= k, j # k
        PROVE  Before(rs[j], rs[k])
    <2>1. k - j \in Nat /\ k - j > 0 /\ j + (k - j) = k
      BY <1>2, <1>6
    <2>2. P(k - j)
      BY <1>5, <2>1
    <2> QED
      BY <2>1, <2>2 DEF P
  <1> QED
    BY <1>1, <1>6 DEF InOrder

LEMMA UpToIs ==
    ASSUME NEW rs \in Seq(Rows), NEW x
    PROVE  /\ UpTo(rs, x)[0] = << >>
           /\ \A n \in 1..Len(rs) :
                 UpTo(rs, x)[n] = IF rs[n].id = x
                                  THEN Append(UpTo(rs, x)[n - 1], SampleOf(rs[n]))
                                  ELSE UpTo(rs, x)[n - 1]
           /\ \A n \in 0..Len(rs) : UpTo(rs, x)[n] \in Seq(Samples)
  <1> DEFINE N == Len(rs)
             T == Seq(Samples)
             step == [k \in Nat |-> IF k \in 1..N
                        THEN IF rs[k].id = x THEN [q \in T |-> Append(q, SampleOf(rs[k]))]
                                             ELSE [q \in T |-> q]
                        ELSE [q \in T |-> q]]
             none == << >>
             u == UpTo(rs, x)
  <1>1. N \in Nat /\ \A k \in 1..N : SampleOf(rs[k]) \in Samples
    BY RowIs
  <1>2. none \in T
    BY EmptySeqType
  <1> HIDE DEF none
  <1>3. step \in [Nat -> [T -> T]]
    <2>1. ASSUME NEW k \in 1..N PROVE [q \in T |-> Append(q, SampleOf(rs[k]))] \in [T -> T]
      BY <1>1, SeqAppend
    <2>2. [q \in T |-> q] \in [T -> T]
      OBVIOUS
    <2> QED
      BY <2>1, <2>2
  <1>4. \A k \in 1..N, q \in T :
           step[k][q] = IF rs[k].id = x THEN Append(q, SampleOf(rs[k])) ELSE q
    BY <1>1
  <1> HIDE DEF step, T
  <1>5. PICK f \in [0..N -> T] : Follows(f, N, none, step)
    BY <1>1, <1>2, <1>3, RecursiveFcn
  <1>6. ASSUME NEW n \in 1..N
        PROVE  /\ n \in 0..N /\ n - 1 \in 0..N /\ n # 0
               /\ f[n] = IF rs[n].id = x THEN Append(f[n - 1], SampleOf(rs[n])) ELSE f[n - 1]
    <2>1. n \in 0..N /\ n - 1 \in 0..N /\ n # 0
      BY <1>1
    <2>2. f[n - 1] \in T
      BY <1>5, <2>1
    <2>3. f[n] = step[n][f[n - 1]]
      BY <1>5, <2>1 DEF Follows
    <2> QED
      BY <1>4, <2>1, <2>2, <2>3
  <1>7. f[0] = << >>
    <2>1. 0 \in 0..N
      BY <1>1
    <2> QED
      BY <1>5, <2>1 DEF Follows, none
  <1>8. Collects(f, rs, x)
    <2>1. ASSUME NEW n \in 0..N
          PROVE  f[n] = IF n = 0 THEN << >>
                        ELSE IF rs[n].id = x THEN Append(f[n - 1], SampleOf(rs[n]))
                             ELSE f[n - 1]
      <3>1. n = 0 \/ n \in 1..N
        BY <1>1
      <3> QED
        BY <1>6, <1>7, <3>1
    <2>2. f = [n \in 0..N |-> f[n]]
      BY <1>5
    <2> QED
      BY <2>1, <2>2 DEF Collects
  <1>9. Collects(u, rs, x)
    BY <1>8 DEF UpTo
  <1> HIDE DEF u
  <1>10. \A n \in 0..N : u[n] = IF n = 0 THEN << >>
                               ELSE IF rs[n].id = x THEN Append(u[n - 1], SampleOf(rs[n]))
                                    ELSE u[n - 1]
    BY <1>9 DEF Collects
  <1>11. u[0] = << >>
    <2>1. 0 \in 0..N
      BY <1>1
    <2> QED
      BY <1>10, <2>1
  <1>12. \A n \in 1..N : u[n] = IF rs[n].id = x THEN Append(u[n - 1], SampleOf(rs[n]))
                                ELSE u[n - 1]
    BY <1>6, <1>10
  <1> DEFINE P(n) == n <= N => u[n] \in Seq(Samples)
  <1>13. P(0)
    BY <1>11, EmptySeqType
  <1>14. ASSUME NEW n \in Nat, P(n) PROVE P(n + 1)
    <2>1. SUFFICES ASSUME n + 1 <= N PROVE u[n + 1] \in Seq(Samples)
      OBVIOUS
    <2>2. n + 1 \in 1..N /\ (n + 1) - 1 = n /\ u[n] \in Seq(Samples)
      BY <1>1, <1>14, <2>1
    <2>3. u[n + 1] = IF rs[n + 1].id = x THEN Append(u[n], SampleOf(rs[n + 1])) ELSE u[n]
      BY <1>12, <2>2
    <2>4. Append(u[n], SampleOf(rs[n + 1])) \in Seq(Samples)
      BY <1>1, <2>2, SeqAppend
    <2> QED
      BY <2>2, <2>3, <2>4
  <1> HIDE DEF P
  <1>15. Nat \subseteq {n \in Nat : P(n)}
    <2> DEFINE S == {n \in Nat : P(n)}
    <2>1. 0 \in S /\ \A n \in Nat : n \in S => n + 1 \in S
      BY <1>13, <1>14
    <2> HIDE DEF S
    <2>2. Nat \subseteq S
      BY <2>1, Induction
    <2> QED
      BY <2>2 DEF S
  <1>16. \A n \in 0..N : u[n] \in Seq(Samples)
    <2>1. SUFFICES ASSUME NEW n \in 0..N PROVE u[n] \in Seq(Samples)
      OBVIOUS
    <2>2. n \in Nat /\ n <= N
      BY <1>1
    <2> QED
      BY <1>15, <2>2 DEF P
  <1> QED
    BY <1>11, <1>12, <1>16 DEF u

(* A row adds its sample to the instance of its id. *)
LEMMA RowAdds ==
    ASSUME NEW rs \in Seq(Rows), NEW n \in Nat, n + 1 <= Len(rs)
    PROVE  UpTo(rs, rs[n + 1].id)[n + 1] =
               Append(UpTo(rs, rs[n + 1].id)[n], SampleOf(rs[n + 1]))
  <1> DEFINE x == rs[n + 1].id
  <1>1. n + 1 \in 1..Len(rs) /\ (n + 1) - 1 = n
    <2>1. Len(rs) \in Nat
      BY RowIs
    <2> QED
      BY <2>1
  <1>2. rs[n + 1].id = x
    OBVIOUS
  <1> HIDE DEF x
  <1>3. UpTo(rs, x)[n + 1] = IF rs[n + 1].id = x
                             THEN Append(UpTo(rs, x)[(n + 1) - 1], SampleOf(rs[n + 1]))
                             ELSE UpTo(rs, x)[(n + 1) - 1]
    BY <1>1, UpToIs
  <1>4. UpTo(rs, x)[n + 1] = Append(UpTo(rs, x)[n], SampleOf(rs[n + 1]))
    BY <1>1, <1>2, <1>3
  <1> QED
    BY <1>4 DEF x

(* An instance of which no row was read has no samples. *)
LEMMA NoRowsNoSamples ==
    ASSUME NEW rs \in Seq(Rows), NEW x, NEW m \in 0..Len(rs),
           \A j \in 1..m : rs[j].id # x
    PROVE  UpTo(rs, x)[m] = << >>
  <1> DEFINE u == UpTo(rs, x)
             P(n) == n <= m => u[n] = << >>
  <1>1. Len(rs) \in Nat /\ m \in Nat /\ m <= Len(rs)
    BY RowIs
  <1>2. u[0] = << >>
    BY UpToIs
  <1>3. \A n \in 1..Len(rs) : rs[n].id # x => u[n] = u[n - 1]
    BY UpToIs
  <1> HIDE DEF u
  <1>4. P(0)
    BY <1>2
  <1>5. ASSUME NEW n \in Nat, P(n) PROVE P(n + 1)
    <2>1. SUFFICES ASSUME n + 1 <= m PROVE u[n + 1] = << >>
      OBVIOUS
    <2>2. n + 1 \in 1..m /\ n + 1 \in 1..Len(rs) /\ (n + 1) - 1 = n /\ n <= m
      BY <1>1, <2>1
    <2> QED
      BY <1>3, <1>5, <2>2
  <1> HIDE DEF P
  <1>6. Nat \subseteq {n \in Nat : P(n)}
    <2> DEFINE S == {n \in Nat : P(n)}
    <2>1. 0 \in S /\ \A n \in Nat : n \in S => n + 1 \in S
      BY <1>4, <1>5
    <2> HIDE DEF S
    <2>2. Nat \subseteq S
      BY <2>1, Induction
    <2> QED
      BY <2>2 DEF S
  <1>7. P(m)
    BY <1>1, <1>6
  <1> QED
    BY <1>1, <1>7 DEF P, u

LEMMA AppendIsSorted ==
    ASSUME NEW s \in Seq(Samples), Sorted(s), NEW p \in Samples,
           \A k \in 1..Len(s) : s[k].t <= p.t
    PROVE  /\ Append(s, p) \in Seq(Samples) /\ Sorted(Append(s, p))
           /\ \A k \in 1..Len(Append(s, p)) : Append(s, p)[k].t <= p.t
  <1> DEFINE a == Append(s, p)
  <1>1. /\ a \in Seq(Samples) /\ Len(a) = Len(s) + 1 /\ a[Len(s) + 1] = p
        /\ \A k \in 1..Len(s) : a[k] = s[k]
    BY SeqAppend
  <1> HIDE DEF a
  <1>2. Len(s) \in Nat /\ p.t \in Nat
    BY SeqElement DEF Samples
  <1>3. \A k \in 1..Len(a) : k \in 1..Len(s) \/ k = Len(s) + 1
    BY <1>1, <1>2
  <1>4. \A k \in 1..Len(a) : a[k].t <= p.t
    BY <1>1, <1>2, <1>3
  <1>5. ASSUME NEW j \in 1..Len(a), NEW k \in 1..Len(a), j <= k
        PROVE  a[j].t <= a[k].t
    <2>1. CASE k = Len(s) + 1
      BY <1>1, <1>4, <2>1
    <2>2. CASE k \in 1..Len(s)
      <3>1. j \in 1..Len(s)
        BY <1>2, <1>5, <2>2
      <3> QED
        BY <1>1, <1>5, <2>2, <3>1 DEF Sorted
    <2> QED
      BY <1>3, <2>1, <2>2
  <1>6. Sorted(a)
    BY <1>5 DEF Sorted
  <1> QED
    BY <1>1, <1>4, <1>6 DEF a

(* The samples of an instance are in the order of their time. *)
LEMMA UpToIsSorted ==
    ASSUME NEW rs \in Seq(Rows), InOrder(rs), NEW x, NEW m \in 0..Len(rs)
    PROVE  Sorted(UpTo(rs, x)[m])
  <1> DEFINE u == UpTo(rs, x)
             Earlier(s, n) == \A k \in 1..Len(s) : \A j \in n + 1..Len(rs) :
                                 rs[j].id = x => s[k].t <= rs[j].t
             P(n) == n <= Len(rs) => Sorted(u[n]) /\ Earlier(u[n], n)
  <1>1. /\ Len(rs) \in Nat /\ m \in Nat /\ m <= Len(rs)
        /\ \A k \in 1..Len(rs) : /\ rs[k].id \in Nat /\ rs[k].t \in Nat
                                 /\ SampleOf(rs[k]) \in Samples
                                 /\ SampleOf(rs[k]).t = rs[k].t
    BY RowIs
  <1>2. u[0] = << >>
    BY UpToIs
  <1>3. \A n \in 1..Len(rs) :
           u[n] = IF rs[n].id = x THEN Append(u[n - 1], SampleOf(rs[n])) ELSE u[n - 1]
    BY UpToIs
  <1>4. \A n \in 0..Len(rs) : u[n] \in Seq(Samples)
    BY UpToIs
  <1> HIDE DEF u
  <1>5. P(0)
    <2>1. Len(u[0]) = 0
      BY <1>2
    <2>2. \A k \in 1..Len(u[0]) : FALSE
      BY <2>1
    <2> QED
      BY <2>2 DEF Sorted
  <1>6. ASSUME NEW n \in Nat, P(n) PROVE P(n + 1)
    <2> DEFINE s == u[n]
               r == rs[n + 1]
               p == SampleOf(r)
    <2>1. SUFFICES ASSUME n + 1 <= Len(rs)
                   PROVE  Sorted(u[n + 1]) /\ Earlier(u[n + 1], n + 1)
      OBVIOUS
    <2>2. /\ n + 1 \in 1..Len(rs) /\ (n + 1) - 1 = n /\ n <= Len(rs) /\ n \in 0..Len(rs)
          /\ n + 1 \in n + 1..Len(rs)
      BY <1>1, <2>1
    <2>3. s \in Seq(Samples) /\ Sorted(s) /\ Earlier(s, n)
      BY <1>4, <1>6, <2>2
    <2>4. /\ r.id \in Nat /\ r.t \in Nat /\ p \in Samples /\ p.t = r.t
          /\ u[n + 1] = IF r.id = x THEN Append(s, p) ELSE s
      BY <1>1, <1>3, <2>2
    <2>5. \A j \in (n + 1) + 1..Len(rs) : /\ j \in n + 1..Len(rs) /\ j \in 1..Len(rs)
                                          /\ n + 1 <= j /\ n + 1 # j
      BY <1>1, <2>2
    <2>6. CASE r.id # x
      <3>1. u[n + 1] = s
        BY <2>4, <2>6
      <3> QED
        BY <2>3, <2>5, <3>1
    <2>7. CASE r.id = x
      <3> DEFINE a == u[n + 1]
      <3>1. \A k \in 1..Len(s) : s[k].t <= p.t
        BY <2>2, <2>3, <2>4, <2>7
      <3>2. a = Append(s, p)
        BY <2>4, <2>7
      <3> HIDE DEF s, p, a
      <3>3. Sorted(a) /\ a \in Seq(Samples) /\ \A k \in 1..Len(a) : a[k].t <= p.t
        BY <2>3, <2>4, <3>1, <3>2, AppendIsSorted
      <3>4. ASSUME NEW k \in 1..Len(a), NEW j \in (n + 1) + 1..Len(rs), rs[j].id = x
            PROVE  a[k].t <= rs[j].t
        <4>1. Before(r, rs[j])
          BY <2>2, <2>5 DEF InOrder
        <4>2. r.t <= rs[j].t
          <5>1. rs[j].id = r.id /\ r.id \in Nat
            BY <2>4, <2>7, <3>4
          <5> HIDE DEF r
          <5> QED
            BY <4>1, <5>1 DEF Before
        <4>3. a[k] \in Samples
          BY <3>3, SeqElement
        <4>4. a[k].t \in Nat /\ rs[j].t \in Nat
          BY <1>1, <2>5, <4>3 DEF Samples
        <4>5. a[k].t <= r.t
          BY <2>4, <3>3
        <4> HIDE DEF r
        <4> QED
          BY <2>4, <4>2, <4>4, <4>5
      <3>5. Earlier(a, n + 1)
        BY <3>4
      <3> QED
        BY <3>3, <3>5 DEF a
    <2> QED
      BY <2>6, <2>7
  <1> HIDE DEF P
  <1>7. Nat \subseteq {n \in Nat : P(n)}
    <2> DEFINE S == {n \in Nat : P(n)}
    <2>1. 0 \in S /\ \A n \in Nat : n \in S => n + 1 \in S
      BY <1>5, <1>6
    <2> HIDE DEF S
    <2>2. Nat \subseteq S
      BY <2>1, Induction
    <2> QED
      BY <2>2 DEF S
  <1>8. P(m)
    BY <1>1, <1>7
  <1> QED
    BY <1>1, <1>8 DEF P, u

(* s has one instance for each id among the first n rows, with the samples *)
(* of all of these rows.                                                   *)
OneEach(s) == \A j, k \in 1..Len(s) : s[j].id = s[k].id => j = k
FromRows(rs, s, n) ==
    \A k \in 1..Len(s) : /\ s[k].samples = UpTo(rs, s[k].id)[n]
                         /\ \E j \in 1..n : rs[j].id = s[k].id
AllRows(rs, s, n) == \A j \in 1..n : \E k \in 1..Len(s) : s[k].id = rs[j].id
Grouped(rs, s, n) == OneEach(s) /\ FromRows(rs, s, n) /\ AllRows(rs, s, n)

LEMMA NothingGrouped ==
    ASSUME NEW rs, NEW s, s = << >>
    PROVE  Grouped(rs, s, 0)
  <1>1. \A k \in 1..Len(s) : FALSE
    OBVIOUS
  <1>2. \A j \in 1..0 : FALSE
    OBVIOUS
  <1> QED
    BY <1>1, <1>2 DEF Grouped, OneEach, FromRows, AllRows

LEMMA InstanceIs ==
    ASSUME NEW s \in Seq(Instance), NEW k \in 1..Len(s)
    PROVE  s[k].id \in Int /\ s[k].samples \in Seq(Samples)
  <1>1. s[k] \in Instance
    BY SeqElement
  <1> QED
    BY <1>1 DEF Instance

(* A row with another id than the row before begins a new instance: that   *)
(* id was on no row before.                                                *)
LEMMA GroupNew ==
    ASSUME NEW rs \in Seq(Rows), InOrder(rs), NEW n \in Nat, n + 1 <= Len(rs),
           NEW s \in Seq(Instance), Grouped(rs, s, n),
           n > 0 => rs[n].id # rs[n + 1].id,
           NEW new \in Instance, new.id = rs[n + 1].id,
           new.samples = <<SampleOf(rs[n + 1])>>
    PROVE  Grouped(rs, Append(s, new), n + 1)
  <1> DEFINE x == rs[n + 1].id
             p == SampleOf(rs[n + 1])
             a == Append(s, new)
             m == Len(s) + 1
  <1>1. /\ Len(rs) \in Nat /\ n + 1 \in 1..Len(rs) /\ (n + 1) - 1 = n
        /\ n \in 0..Len(rs) /\ Len(s) \in Nat
    BY RowIs, SeqElement
  <1>2. \A j \in 1..Len(rs) : rs[j].id \in Nat
    BY RowIs
  <1>3. \A j \in 1..n : rs[j].id # x
    <2> SUFFICES ASSUME NEW j \in 1..n, rs[j].id = x PROVE FALSE
      OBVIOUS
    <2>1. j \in 1..Len(rs) /\ n \in 1..Len(rs) /\ j <= n /\ n <= n + 1 /\ n # n + 1
      BY <1>1
    <2>2. rs[n].id <= rs[n + 1].id
      <3>1. Before(rs[n], rs[n + 1])
        BY <1>1, <2>1 DEF InOrder
      <3>2. rs[n].id \in Nat /\ rs[n + 1].id \in Nat
        BY <1>1, <1>2, <2>1
      <3> QED
        BY <3>1, <3>2 DEF Before
    <2>3. rs[j].id <= rs[n].id
      <3>1. j = n \/ Before(rs[j], rs[n])
        BY <1>1, <2>1 DEF InOrder
      <3>2. rs[n].id \in Nat /\ rs[j].id \in Nat
        BY <1>2, <2>1
      <3> QED
        BY <3>1, <3>2 DEF Before
    <2>4. rs[n].id \in Nat /\ x \in Nat /\ rs[n].id # x
      BY <1>1, <1>2, <2>1
    <2> QED
      BY <2>2, <2>3, <2>4
  <1>4. /\ Len(a) = m /\ a[m] = new
        /\ \A k \in 1..Len(s) : a[k] = s[k]
        /\ \A k \in 1..m : k \in 1..Len(s) \/ k = m
        /\ m \in 1..m /\ \A k \in 1..Len(s) : k \in 1..m
    BY <1>1, SeqAppend
  <1> HIDE DEF a, m
  <1>5. \A k \in 1..Len(s) : s[k].id # x
    BY <1>3 DEF Grouped, FromRows
  <1>6. OneEach(a)
    BY <1>4, <1>5 DEF Grouped, OneEach
  <1>7. FromRows(rs, a, n + 1)
    <2>1. ASSUME NEW k \in 1..Len(s)
          PROVE  /\ a[k].samples = UpTo(rs, a[k].id)[n + 1]
                 /\ \E j \in 1..n + 1 : rs[j].id = a[k].id
      <3>1. a[k] = s[k] /\ s[k].id # x
        BY <1>4, <1>5
      <3>2. s[k].samples = UpTo(rs, s[k].id)[n] /\ \E j \in 1..n : rs[j].id = s[k].id
        BY DEF Grouped, FromRows
      <3>3. UpTo(rs, s[k].id)[n + 1] = UpTo(rs, s[k].id)[n]
        BY <1>1, <3>1, UpToIs
      <3>4. \A j \in 1..n : j \in 1..n + 1
        BY <1>1
      <3> QED
        BY <3>1, <3>2, <3>3, <3>4
    <2>2. a[m].samples = UpTo(rs, a[m].id)[n + 1]
      <3>1. UpTo(rs, x)[n] = << >>
        BY <1>1, <1>3, NoRowsNoSamples
      <3>2. UpTo(rs, x)[n + 1] = Append(UpTo(rs, x)[n], p)
        BY <1>1, RowAdds
      <3>3. Append(<< >>, p) = <<p>>
        OBVIOUS
      <3> QED
        BY <1>4, <3>1, <3>2, <3>3
    <2>3. \E j \in 1..n + 1 : rs[j].id = a[m].id
      <3>1. n + 1 \in 1..n + 1
        OBVIOUS
      <3> QED
        BY <1>4, <3>1
    <2> QED
      BY <1>4, <2>1, <2>2, <2>3 DEF FromRows
  <1>8. AllRows(rs, a, n + 1)
    <2>1. ASSUME NEW j \in 1..n + 1 PROVE \E k \in 1..Len(a) : a[k].id = rs[j].id
      <3>1. CASE j = n + 1
        BY <1>4, <3>1
      <3>2. CASE j \in 1..n
        BY <1>4, <3>2 DEF Grouped, AllRows
      <3>3. j = n + 1 \/ j \in 1..n
        OBVIOUS
      <3> QED
        BY <3>1, <3>2, <3>3
    <2> QED
      BY <2>1 DEF AllRows
  <1> QED
    BY <1>6, <1>7, <1>8 DEF Grouped, a

(* A row with the id of the row before adds its sample to the instance.    *)
LEMMA GroupSame ==
    ASSUME NEW rs \in Seq(Rows), NEW n \in Nat, n + 1 <= Len(rs),
           NEW s \in Seq(Instance), NEW old \in Instance, Grouped(rs, Append(s, old), n),
           old.id = rs[n + 1].id,
           NEW new \in Instance, new.id = old.id,
           new.samples = Append(old.samples, SampleOf(rs[n + 1]))
    PROVE  Grouped(rs, Append(s, new), n + 1)
  <1> DEFINE x == rs[n + 1].id
             a == Append(s, new)
             b == Append(s, old)
             m == Len(s) + 1
  <1>1. /\ Len(rs) \in Nat /\ n + 1 \in 1..Len(rs) /\ (n + 1) - 1 = n /\ Len(s) \in Nat
    BY RowIs, SeqElement
  <1>2. /\ Len(a) = m /\ a[m] = new /\ Len(b) = m /\ b[m] = old
        /\ \A k \in 1..Len(s) : a[k] = s[k] /\ b[k] = s[k] /\ k \in 1..m /\ k # m
        /\ \A k \in 1..m : k \in 1..Len(s) \/ k = m
        /\ m \in 1..m
    BY <1>1, SeqAppend
  <1>3. OneEach(b) /\ FromRows(rs, b, n) /\ AllRows(rs, b, n)
    BY DEF Grouped
  <1> HIDE DEF a, b, m
  <1>4. \A k \in 1..m : a[k].id = b[k].id
    BY <1>2
  <1>5. OneEach(a)
    BY <1>2, <1>3, <1>4 DEF OneEach
  <1>6. FromRows(rs, a, n + 1)
    <2>1. ASSUME NEW k \in 1..Len(s) PROVE a[k].samples = UpTo(rs, a[k].id)[n + 1]
      <3>1. a[k] = b[k] /\ b[k].id # x
        BY <1>2, <1>3 DEF OneEach
      <3>2. b[k].samples = UpTo(rs, b[k].id)[n]
        BY <1>2, <1>3 DEF FromRows
      <3>3. UpTo(rs, b[k].id)[n + 1] = UpTo(rs, b[k].id)[n]
        BY <1>1, <3>1, UpToIs
      <3> QED
        BY <3>1, <3>2, <3>3
    <2>2. a[m].samples = UpTo(rs, a[m].id)[n + 1]
      <3>1. old.samples = UpTo(rs, x)[n]
        BY <1>2, <1>3 DEF FromRows
      <3>2. UpTo(rs, x)[n + 1] = Append(UpTo(rs, x)[n], SampleOf(rs[n + 1]))
        BY <1>1, RowAdds
      <3> QED
        BY <1>2, <3>1, <3>2
    <2>3. ASSUME NEW k \in 1..m PROVE \E j \in 1..n + 1 : rs[j].id = a[k].id
      <3>1. PICK j \in 1..n : rs[j].id = b[k].id
        BY <1>2, <1>3 DEF FromRows
      <3>2. j \in 1..n + 1
        OBVIOUS
      <3> QED
        BY <1>4, <3>1, <3>2
    <2> QED
      BY <1>2, <2>1, <2>2, <2>3 DEF FromRows
  <1>7. AllRows(rs, a, n + 1)
    <2>1. ASSUME NEW j \in 1..n + 1 PROVE \E k \in 1..Len(a) : a[k].id = rs[j].id
      <3>1. CASE j = n + 1
        BY <1>2, <3>1
      <3>2. CASE j \in 1..n
        BY <1>2, <1>3, <1>4, <3>2 DEF AllRows
      <3>3. j = n + 1 \/ j \in 1..n
        OBVIOUS
      <3> QED
        BY <3>1, <3>2, <3>3
    <2> QED
      BY <2>1 DEF AllRows
  <1> QED
    BY <1>5, <1>6, <1>7 DEF Grouped, a

-----------------------------------------------------------------------------
(* Loading, and the results.                                               *)

LoadInv ==
    /\ pc = "loading" => /\ Grouped(rows, Flushed, row)
                         /\ row = 0 => cur = NoInstance /\ instances = << >>
                         /\ row > 0 => cur.id = rows[row].id
    /\ pc # "loading" => Grouped(rows, instances, Len(rows))

(* What was computed is what the samples come to; no one waits for the     *)
(* threads before the counter is full.                                     *)
RatiosOf(x) == [w \in Windows |-> SlidingMaxPtt(x.samples, w)]
ResultInv ==
    /\ pc \in Created =>
           /\ DOMAIN maxPtt = 0..count - 1
           /\ \A j \in 0..count - 1 : computed[j] > 0 => maxPtt[j] = RatiosOf(instances[j + 1])
    /\ pc \in {"join", "written"} => done >= count

LEMMA RowsOfTypes ==
    ASSUME Types
    PROVE  /\ rows \in Seq(Rows) /\ InOrder(rows) /\ Len(rows) \in Nat
           /\ row \in Nat /\ row <= Len(rows)
           /\ cur.id \in Int /\ cur.samples \in Seq(Samples)
  <1>1. rows \in Inputs /\ row \in 0..Len(rows) /\ cur \in Instance
    BY DEF Types
  <1>2. rows \in Seq(Rows) /\ InOrder(rows)
    BY <1>1, RowsInOrder
  <1>3. Len(rows) \in Nat
    BY <1>2, RowIs
  <1> QED
    BY <1>1, <1>2, <1>3 DEF Instance

LEMMA LoadInit == Init => LoadInv
  <1> SUFFICES ASSUME Init PROVE LoadInv
    OBVIOUS
  <1>1. /\ row = 0 /\ cur = NoInstance /\ instances = << >> /\ pc = "loading"
        /\ Flushed = << >>
    BY DEF Init, Flushed
  <1>2. Grouped(rows, Flushed, row)
    BY <1>1, NothingGrouped
  <1> QED
    BY <1>1, <1>2 DEF LoadInv

LEMMA LoadRowStep ==
    ASSUME Types, LoadInv, LoadRow
    PROVE  LoadInv'
  <1> DEFINE this == rows[row + 1]
             sample == SampleOf(this)
             new == [id |-> this.id, samples |-> <<sample>>]
             longer == [cur EXCEPT !.samples = Append(cur.samples, sample)]
  <1>1. /\ rows \in Seq(Rows) /\ InOrder(rows) /\ Len(rows) \in Nat
        /\ row \in Nat /\ row < Len(rows) /\ row + 1 \in 1..Len(rows)
        /\ cur.id \in Int /\ cur.samples \in Seq(Samples) /\ cur \in Instance
        /\ instances \in Seq(Instance)
    <2>1. row < Len(rows) /\ cur \in Instance /\ instances \in Seq(Instance)
      BY DEF LoadRow, Types
    <2> QED
      BY <2>1, RowsOfTypes
  <1>2. this.id \in Nat /\ this.id \in Int /\ sample \in Samples
    BY <1>1, RowIs
  <1>3. /\ Grouped(rows, Flushed, row)
        /\ row = 0 => cur = NoInstance /\ instances = << >>
        /\ row > 0 => cur.id = rows[row].id
    BY DEF LoadInv, LoadRow
  <1>4. rows' = rows /\ row' = row + 1 /\ pc = "loading" /\ pc' = "loading"
    BY DEF LoadRow
  <1>5. cur'.id = this.id /\ Grouped(rows, Append(instances', cur'), row + 1)
    <2>1. CASE cur.id # this.id
      <3>1. instances' = Flushed /\ cur' = new
        BY <2>1 DEF LoadRow, SampleOf
      <3>2. <<sample>> \in Seq(Samples)
        BY <1>2, SeqSingle
      <3>3. new \in Instance /\ new.id = this.id /\ new.samples = <<sample>>
        BY <1>2, <3>2 DEF Instance
      <3>4. Flushed \in Seq(Instance)
        BY FlushedType
      <3>5. row > 0 => rows[row].id # this.id
        BY <1>3, <2>1
      <3> HIDE DEF new
      <3>6. Grouped(rows, Append(Flushed, new), row + 1)
        BY <1>1, <1>3, <3>3, <3>4, <3>5, GroupNew
      <3> QED
        BY <3>1, <3>3, <3>6
    <2>2. CASE cur.id = this.id
      <3>1. instances' = instances /\ cur' = longer
        BY <2>2 DEF LoadRow, SampleOf
      <3>2. Append(cur.samples, sample) \in Seq(Samples)
        BY <1>1, <1>2, SeqAppend
      <3>3. /\ longer \in Instance /\ longer.id = cur.id
            /\ longer.samples = Append(cur.samples, sample)
        BY <1>1, <3>2 DEF Instance
      <3>4. cur # NoInstance
        <4>1. NoInstance.id = -1
          BY DEF NoInstance
        <4> QED
          BY <1>2, <2>2, <4>1
      <3>5. Flushed = Append(instances, cur)
        BY <3>4 DEF Flushed
      <3>6. Grouped(rows, Append(instances, cur), row) /\ row + 1 <= Len(rows)
        BY <1>1, <1>3, <3>5
      <3> HIDE DEF longer
      <3>7. Grouped(rows, Append(instances, longer), row + 1)
        BY <1>1, <2>2, <3>3, <3>6, GroupSame
      <3> QED
        BY <2>2, <3>1, <3>3, <3>7
    <2> QED
      BY <2>1, <2>2
  <1>6. Flushed' = Append(instances', cur')
    <2>1. NoInstance.id = -1 /\ NoInstance' = NoInstance
      BY DEF NoInstance
    <2>2. cur' # NoInstance
      BY <1>2, <1>5, <2>1
    <2> QED
      BY <2>1, <2>2 DEF Flushed
  <1>7. row + 1 # 0
    BY <1>1
  <1> QED
    BY <1>4, <1>5, <1>6, <1>7 DEF LoadInv

LEMMA ThreadStarted ==
    ASSUME Types, NothingYet, NEW t \in 1..Len(threads)
    PROVE  pc \in Created
  <1>1. threads \in Seq(Thread)
    BY DEF Types
  <1>2. Len(threads) \in Nat
    BY <1>1, SeqElement
  <1>3. Len(threads) > 0
    BY <1>2
  <1>4. threads # << >>
    BY <1>1, <1>3, SeqLength
  <1> QED
    BY <1>4 DEF NothingYet

LEMMA LoadStep == Types /\ NothingYet /\ LoadInv /\ [Next]_vars => LoadInv'
  <1> SUFFICES ASSUME Types, NothingYet, LoadInv, [Next]_vars PROVE LoadInv'
    OBVIOUS
  <1>1. CASE LoadRow
    BY <1>1, LoadRowStep
  <1>2. CASE LoadEnds
    <2>1. instances' = Flushed /\ rows' = rows /\ row = Len(rows) /\ pc' # "loading"
      BY <1>2 DEF LoadEnds
    <2>2. Grouped(rows, Flushed, row)
      BY <1>2 DEF LoadEnds, LoadInv
    <2> QED
      BY <2>1, <2>2 DEF LoadInv
  <1>3. CASE UNCHANGED <<rows, instances>> /\ pc # "loading" /\ pc' # "loading"
    BY <1>3 DEF LoadInv
  <1>4. CASE StartThreads \/ CreateThread \/ AllCreated \/ PollEnds \/ JoinAndWrite
    <2>1. UNCHANGED <<rows, instances>> /\ pc # "loading" /\ pc' # "loading"
      BY <1>4 DEF StartThreads, CreateThread, AllCreated, PollEnds, JoinAndWrite, data
    <2> QED
      BY <1>3, <2>1
  <1>5. ASSUME NEW t \in 1..Len(threads), Worker(t) PROVE LoadInv'
    <2>1. UNCHANGED <<rows, instances, pc>>
      BY <1>5 DEF Worker, Compute, CountDone, data
    <2>3. pc # "loading"
      BY ThreadStarted DEF Created
    <2> QED
      BY <1>3, <2>1, <2>3
  <1>6. CASE UNCHANGED vars
    BY <1>6 DEF vars, data, LoadInv, Flushed, NoInstance
  <1> QED
    BY <1>1, <1>2, <1>4, <1>5, <1>6 DEF Next, Main

LEMMA ResultStep == Types /\ NothingYet /\ ResultInv /\ [Next]_vars => ResultInv'
  <1> SUFFICES ASSUME Types, NothingYet, ResultInv, [Next]_vars PROVE ResultInv'
    OBVIOUS
  <1>0. count \in Nat /\ done \in Nat
    BY SeqElement DEF Types, count
  <1>1. CASE LoadRow \/ LoadEnds
    BY <1>1 DEF LoadRow, LoadEnds, ResultInv, Created
  <1>2. CASE StartThreads
    <2>1. /\ count' = count /\ pc' = "create"
          /\ maxPtt' = [j \in 0..count - 1 |-> NoRatio]
          /\ computed' = [j \in 0..count - 1 |-> 0]
      BY <1>2 DEF StartThreads, data, count
    <2>2. \A j \in 0..count - 1 : ~(computed'[j] > 0)
      BY <2>1
    <2> QED
      BY <2>1, <2>2 DEF ResultInv
  <1>3. CASE CreateThread \/ AllCreated \/ PollEnds \/ JoinAndWrite \/ UNCHANGED vars
    <2>1. UNCHANGED <<instances, maxPtt, computed, done>> /\ count' = count
      BY <1>3 DEF CreateThread, AllCreated, PollEnds, JoinAndWrite, vars, data, count
    <2>2. /\ pc' \in Created => pc \in Created
          /\ pc' \in {"join", "written"} =>
                pc \in {"join", "written"} \/ done >= count
      BY <1>3 DEF CreateThread, AllCreated, PollEnds, JoinAndWrite, vars, Created
    <2> QED
      BY <2>1, <2>2 DEF ResultInv, RatiosOf
  <1>4. ASSUME NEW t \in 1..Len(threads), Compute(t) PROVE ResultInv'
    <2> DEFINE i == threads[t].i
    <2>1. /\ maxPtt' = [maxPtt EXCEPT ![i] = RatiosOf(instances[i + 1])]
          /\ computed' = [computed EXCEPT ![i] = @ + 1]
          /\ UNCHANGED <<instances, done, pc>> /\ count' = count
      BY <1>4 DEF Compute, data, RatiosOf, count
    <2>3. pc \in Created
      BY ThreadStarted
    <2>4. /\ DOMAIN maxPtt = 0..count - 1
          /\ \A j \in 0..count - 1 :
                computed[j] > 0 => maxPtt[j] = RatiosOf(instances[j + 1])
          /\ pc \in {"join", "written"} => done >= count
      BY <2>3 DEF ResultInv
    <2> HIDE DEF i
    <2>5. ASSUME NEW j \in 0..count - 1, computed'[j] > 0
          PROVE  maxPtt'[j] = RatiosOf(instances[j + 1])
      <3>1. CASE j = i
        BY <2>1, <2>4, <3>1
      <3>2. CASE j # i
        <4>1. computed'[j] = computed[j] /\ maxPtt'[j] = maxPtt[j]
          BY <2>1, <3>2
        <4> QED
          BY <2>4, <2>5, <4>1
      <3> QED
        BY <3>1, <3>2
    <2>6. DOMAIN maxPtt' = 0..count - 1
      BY <2>1, <2>4
    <2> QED
      BY <2>1, <2>4, <2>5, <2>6 DEF ResultInv, RatiosOf
  <1>5. ASSUME NEW t \in 1..Len(threads), CountDone(t) PROVE ResultInv'
    <2>1. /\ UNCHANGED <<instances, maxPtt, computed, pc>> /\ count' = count
          /\ done' = done + 1
      BY <1>5 DEF CountDone, data, count
    <2>2. done >= count => done' >= count
      BY <1>0, <2>1
    <2> QED
      BY <2>1, <2>2 DEF ResultInv, RatiosOf
  <1> QED
    BY <1>1, <1>2, <1>3, <1>4, <1>5 DEF Next, Main, Worker

LEMMA OneEachCounts ==
    ASSUME NEW s \in Seq(Instance), OneEach(s)
    PROVE  Len(s) = Cardinality({s[k].id : k \in 1..Len(s)})
  <1> DEFINE T == {s[k].id : k \in 1..Len(s)}
             f == [k \in 1..Len(s) |-> s[k].id]
  <1>1. f \in [1..Len(s) -> T]
    OBVIOUS
  <1>2. \A j, k \in 1..Len(s) : f[j] = f[k] => j = k
    BY DEF OneEach
  <1>3. \A x \in T : \E k \in 1..Len(s) : f[k] = x
    OBVIOUS
  <1>4. Len(s) \in Nat
    BY SeqElement
  <1> HIDE DEF f, T
  <1>5. f \in Bijection(1..Len(s), T)
    BY <1>1, <1>2, <1>3 DEF Bijection, Injection, Surjection, IsInjective
  <1>6. ExistsBijection(1..Len(s), T)
    BY <1>5 DEF ExistsBijection
  <1> QED
    BY <1>4, <1>6, FS_CountingElements DEF T

(* When the CSV is written every instance is computed. *)
LEMMA AllComputed ==
    ASSUME IInv, ResultInv, pc = "written"
    PROVE  \A j \in 0..count - 1 : computed[j] > 0
  <1> DEFINE Positive == {j \in 0..count - 1 : computed[j] > 0}
  <1>1. count \in Nat /\ done \in Nat
    BY SeqElement DEF IInv, Types, count
  <1>2. done <= Cardinality(Positive)
    BY ChunksComputeOnce DEF ComputedOnce
  <1>3. done >= count
    BY DEF ResultInv
  <1>4. IsFiniteSet(0..count - 1) /\ Cardinality(0..count - 1) = count
    BY <1>1, FS_Interval
  <1>5. Positive \in SUBSET (0..count - 1)
    OBVIOUS
  <1> HIDE DEF Positive
  <1>6. IsFiniteSet(Positive) /\ Cardinality(Positive) <= count
    BY <1>4, <1>5, FS_Subset
  <1>7. Cardinality(Positive) \in Nat
    BY <1>6, FS_CardinalityType
  <1>8. Cardinality(Positive) = count
    BY <1>1, <1>2, <1>3, <1>6, <1>7
  <1>9. Positive = 0..count - 1
    BY <1>4, <1>5, <1>8, FS_Subset
  <1> QED
    BY <1>9 DEF Positive

LEMMA ResultsFollow ==
    IInv /\ LoadInv /\ ResultInv => ResultsAreLargestRatios
  <1> SUFFICES ASSUME IInv, LoadInv, ResultInv, pc = "written"
               PROVE  ResultsAreLargestRatios
    BY DEF ResultsAreLargestRatios
  <1> DEFINE ids == {rows[j].id : j \in DOMAIN rows}
             found == {instances[k].id : k \in 1..count}
  <1>1. /\ Types /\ instances \in Seq(Instance) /\ count \in Nat /\ count = Len(instances)
        /\ rows \in Seq(Rows) /\ InOrder(rows) /\ Len(rows) \in Nat
        /\ DOMAIN rows = 1..Len(rows)
    <2>1. Types /\ instances \in Seq(Instance)
      BY DEF IInv, Types
    <2>2. rows \in Seq(Rows)
      BY <2>1, RowsOfTypes
    <2>3. DOMAIN rows = 1..Len(rows)
      BY <2>2
    <2> QED
      BY <2>1, <2>3, RowsOfTypes, SeqElement DEF count
  <1>2. Grouped(rows, instances, Len(rows))
    BY DEF LoadInv
  <1>3. found = ids
    <2>1. FromRows(rows, instances, Len(rows)) /\ AllRows(rows, instances, Len(rows))
      BY <1>2 DEF Grouped
    <2>2. \A k \in 1..count : \E j \in DOMAIN rows : rows[j].id = instances[k].id
      BY <1>1, <2>1 DEF FromRows
    <2>3. \A j \in DOMAIN rows : \E k \in 1..count : instances[k].id = rows[j].id
      BY <1>1, <2>1 DEF AllRows
    <2> QED
      BY <2>2, <2>3
  <1>4. count = Cardinality(ids)
    <2>1. count = Cardinality(found)
      BY <1>1, <1>2, OneEachCounts DEF Grouped
    <2> QED
      BY <1>3, <2>1
  <1> HIDE DEF ids, found
  <1>5. ASSUME NEW k \in 1..count, NEW w \in Windows
        PROVE  IsLargestRatio(maxPtt[k - 1][w], RowsOf(instances[k].id), w)
    <2> DEFINE x == instances[k].id
               s == instances[k].samples
    <2>1. k - 1 \in 0..count - 1 /\ (k - 1) + 1 = k
      BY <1>1
    <2>2. computed[k - 1] > 0
      BY <2>1, AllComputed
    <2>3. maxPtt[k - 1] = RatiosOf(instances[k])
      BY <2>1, <2>2 DEF ResultInv, Created
    <2>4. maxPtt[k - 1][w] = SlidingMaxPtt(s, w)
      BY <2>3 DEF RatiosOf
    <2>5. s = UpTo(rows, x)[Len(rows)]
      BY <1>1, <1>2 DEF Grouped, FromRows
    <2>6. RowsOf(x) = UpTo(rows, x)[Len(rows)]
      BY DEF RowsOf, UpTo, Collects, SampleOf
    <2>7. s \in Seq(Samples)
      BY <1>1, InstanceIs
    <2>8. Sorted(s)
      <3>1. Len(rows) \in 0..Len(rows)
        BY <1>1
      <3> QED
        BY <1>1, <2>5, <3>1, UpToIsSorted
    <2>9. w \in Nat
      BY PttAssumption
    <2> HIDE DEF s, x
    <2>10. IsLargestRatio(SlidingMaxPtt(s, w), s, w)
      BY <2>7, <2>8, <2>9, SlidingMaxIsLargest
    <2>11. s = RowsOf(x)
      BY <2>5, <2>6
    <2> QED
      BY <2>4, <2>10, <2>11 DEF x
  <1> QED
    BY <1>3, <1>4, <1>5 DEF ResultsAreLargestRatios, ids, found

(* The CSV has one line per instance id of the input, with the largest     *)
(* ratio of all windows over all the rows of that id, whatever the rows,   *)
(* the windows and the number of threads are: loading closes an instance   *)
(* when the id changes and once more at the end (lines 90-115), the two    *)
(* indices never step over a window (lines 99-112) and no chunk is left    *)
(* out (lines 303-313).                                                    *)
THEOREM ResultsAreLargest == Spec => []ResultsAreLargestRatios
  <1>1. Init => IInv /\ LoadInv /\ ResultInv
    <2>1. Init => ResultInv
      BY DEF Init, ResultInv, Created
    <2> QED
      BY <2>1, InvInit, LoadInit
  <1>2. IInv /\ LoadInv /\ ResultInv /\ [Next]_vars => IInv' /\ LoadInv' /\ ResultInv'
    BY InvStep, LoadStep, ResultStep DEF IInv
  <1>3. IInv /\ LoadInv /\ ResultInv => ResultsAreLargestRatios
    BY ResultsFollow
  <1> QED
    BY <1>1, <1>2, <1>3, PTL DEF Spec
=============================================================================
