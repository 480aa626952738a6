------------------------- MODULE TraceIngestProofs --------------------------
(***************************************************************************)
(* Parquet files and metadata of the trace ingestion agree, and no file is *)
(* stored twice, for any set of CSV files, any limits, any number of runs  *)
(* and a kill at any step.  Runs are those of Modes without a standard run *)
(* with --reset, which leaves the batches of earlier runs (line 474).      *)
(***************************************************************************)
EXTENDS TraceIngest, TLAPS

Metadata == [processed : SUBSET Files, next : Nat]

Types ==
    /\ parts \in [Batches -> SUBSET Files] /\ torn \subseteq Batches
    /\ metaFile \in {"none", "whole", "torn"}
    /\ onDisk \in Metadata /\ mem \in Metadata
    /\ runs \in 0..MaxRuns
    /\ mode \in [incremental : BOOLEAN, reset : BOOLEAN]
    /\ picked \subseteq Files
    /\ removing \in BOOLEAN
    /\ pc \in {"idle", "done", "remove", "load", "read", "write", "writing", "save", "saving"}

(* Metadata md tell what parquet files p and half-written ones t there are.*)
Below(md) == {b \in Batches : b < md.next}
Match(md, p, t) ==
    /\ \A b \in Batches :
          /\ b < md.next => p[b] # {} /\ b \notin t
          /\ b > md.next => p[b] = {} /\ b \notin t
    /\ md.processed = UNION {p[b] : b \in Below(md)}

Reading == pc \in {"read", "write", "writing"}
Saving == pc \in {"save", "saving"}

DiskMatches == metaFile # "torn" /\ ~removing => Match(onDisk, parts, torn)
NoneIsEmpty == metaFile # "whole" => onDisk = Empty

(* What a run knows is what the disk says, until it has written its batch, *)
(* and then what the disk will say.                                        *)
MemMatches ==
    /\ Reading /\ mode.incremental => mem = onDisk /\ metaFile # "torn"
    /\ Saving => mode.incremental
    /\ Saving /\ ~removing => Match(mem, parts, torn)
    /\ pc = "load" => mode.incremental

(* What a standard run finds when it has not removed everything itself.    *)
StandardStartsEmpty ==
    Reading /\ ~mode.incremental /\ ~removing => onDisk = Empty /\ Present \subseteq {0}

(* A run stores new files, and a directory just removed has none.          *)
PickedIsNew ==
    /\ pc \in {"write", "writing"} =>
          picked # {} /\ (mode.incremental => picked \cap mem.processed = {})
    /\ pc \in {"remove", "load"} => mem = Empty /\ picked = {}
    /\ Saving /\ picked = {} => mem = Empty

(* The next batch is one that the bound on runs allows.                    *)
NextIsBounded ==
    /\ onDisk.next <= runs
    /\ pc \notin {"idle", "done"} => runs > 0
    /\ pc \in {"remove", "load"} \/ Reading => onDisk.next < runs
    /\ Saving => mem.next <= runs

IInv ==
    /\ Types /\ DiskMatches /\ NoneIsEmpty /\ MemMatches /\ StandardStartsEmpty
    /\ PickedIsNew /\ NextIsBounded /\ EachFileOnce

-----------------------------------------------------------------------------
LEMMA MatchIsProperty ==
    ASSUME Types
    PROVE  PartsMatchMetadata <=> DiskMatches
  BY DEF PartsMatchMetadata, DiskMatches, Match, Below, Present, Types

LEMMA EmptyMatches ==
    ASSUME NEW p \in [Batches -> SUBSET Files], NEW t \in SUBSET Batches,
           \A b \in Batches : b > 0 => p[b] = {} /\ b \notin t
    PROVE  Match(Empty, p, t)
  BY DEF Match, Below, Empty, Batches

(* Metadata say nothing of the batch that comes next. *)
LEMMA NextIsFree ==
    ASSUME NEW md \in Metadata, NEW p \in [Batches -> SUBSET Files],
           NEW t \in SUBSET Batches, Match(md, p, t),
           NEW S \in SUBSET Files, NEW u \in SUBSET Batches,
           u \ {md.next} = t \ {md.next}
    PROVE  Match(md, [p EXCEPT ![md.next] = S], u)
  <1> DEFINE q == [p EXCEPT ![md.next] = S]
  <1>1. \A b \in Batches : b # md.next => q[b] = p[b] /\ (b \in u <=> b \in t)
    OBVIOUS
  <1>2. \A b \in Below(md) : q[b] = p[b]
    BY <1>1 DEF Below, Batches, Metadata
  <1>3. UNION {q[b] : b \in Below(md)} = UNION {p[b] : b \in Below(md)}
    BY <1>2
  <1>4. \A b \in Batches : (b < md.next \/ b > md.next) => b # md.next
    BY DEF Batches, Metadata
  <1> QED
    BY <1>1, <1>3, <1>4 DEF Match

(* With the batch written the following metadata match. *)
LEMMA FollowingMatches ==
    ASSUME NEW md \in Metadata, NEW p \in [Batches -> SUBSET Files],
           NEW t \in SUBSET Batches, Match(md, p, t),
           NEW S \in SUBSET Files, S # {}, md.next \in Batches
    PROVE  Match([processed |-> md.processed \cup S, next |-> md.next + 1],
                 [p EXCEPT ![md.next] = S], t \ {md.next})
  <1> DEFINE q == [p EXCEPT ![md.next] = S]
             n == md.next
             f == [processed |-> md.processed \cup S, next |-> n + 1]
             u == t \ {n}
  <1>1. n \in Nat /\ f.next = n + 1 /\ f.processed = md.processed \cup S
    BY DEF Metadata
  <1>2. q[n] = S /\ \A b \in Batches : b # n => q[b] = p[b]
    OBVIOUS
  <1>3. Below(f) = Below(md) \cup {n} /\ n \notin Below(md)
    BY <1>1 DEF Below, Batches
  <1>4. \A b \in Below(md) : q[b] = p[b]
    BY <1>2, <1>3 DEF Below
  <1>5. UNION {q[b] : b \in Below(f)} = (UNION {p[b] : b \in Below(md)}) \cup S
    BY <1>2, <1>3, <1>4
  <1>6. f.processed = UNION {q[b] : b \in Below(f)}
    BY <1>1, <1>5 DEF Match
  <1>7. ASSUME NEW b \in Batches
        PROVE  /\ b < f.next => q[b] # {} /\ b \notin u
               /\ b > f.next => q[b] = {} /\ b \notin u
    <2>1. b \in Nat
      BY DEF Batches
    <2>2. CASE b = n
      BY <1>1, <1>2, <2>1, <2>2
    <2>3. CASE b < n
      BY <1>1, <1>2, <2>1, <2>3 DEF Match
    <2>4. CASE b > n
      BY <1>1, <1>2, <2>1, <2>4 DEF Match
    <2> QED
      BY <1>1, <2>1, <2>2, <2>3, <2>4
  <1> QED
    BY <1>6, <1>7 DEF Match

-----------------------------------------------------------------------------
(* One lemma per action that changes more than its place in the program.   *)

LEMMA InitInv == Init => IInv
  <1> SUFFICES ASSUME Init PROVE IInv
    OBVIOUS
  <1>1. Types
    <2>1. Empty \in Metadata
      BY DEF Empty, Metadata
    <2>2. runs \in 0..MaxRuns
      BY IngestAssumption DEF Init
    <2>3. mode \in [incremental : BOOLEAN, reset : BOOLEAN]
      BY DEF Init
    <2>4. parts \in [Batches -> SUBSET Files]
      BY DEF Init
    <2> QED
      BY <2>1, <2>2, <2>3, <2>4 DEF Init, Types
  <1>2. Match(onDisk, parts, torn)
    BY <1>1, EmptyMatches DEF Init, Types
  <1>3. EachFileOnce
    BY DEF Init, EachFileOnce
  <1> QED
    BY <1>1, <1>2, <1>3, IngestAssumption
    DEF Init, IInv, DiskMatches, NoneIsEmpty, MemMatches, StandardStartsEmpty, PickedIsNew,
        NextIsBounded, Reading, Saving, Empty

LEMMA StartStep ==
    ASSUME IInv, NEW m \in Modes, m.incremental \/ ~m.reset, Start(m)
    PROVE  IInv'
  <1> USE DEF IInv
  <1>1. UNCHANGED <<parts, torn, metaFile, onDisk, removing>> /\ mem' = Empty /\ picked' = {}
    BY DEF Start, disk
  <1>2. pc' = FirstStep(m) /\ mode' = m /\ runs' = runs + 1 /\ runs < MaxRuns
    BY DEF Start
  <1>3. m \in [incremental : BOOLEAN, reset : BOOLEAN]
    BY IngestAssumption
  <1>4. /\ pc' = "remove" \/ pc' = "load" \/ pc' = "read"
        /\ pc' = "load" => m.incremental
        /\ pc' = "read" => ~m.incremental /\ Present = {}
    BY <1>2, <1>3 DEF FirstStep
  <1>5. Types'
    BY <1>1, <1>2, <1>3, <1>4, IngestAssumption DEF Types, Empty, Metadata
  <1>6. Present = {} /\ ~removing => onDisk = Empty
    <2> SUFFICES ASSUME Present = {}, ~removing, metaFile = "whole" PROVE onDisk = Empty
      BY DEF Types, NoneIsEmpty
    <2>1. Match(onDisk, parts, torn)
      BY DEF DiskMatches
    <2>2. onDisk \in Metadata /\ parts \in [Batches -> SUBSET Files]
      BY DEF Types
    <2>3. \A b \in Batches : parts[b] = {}
      BY DEF Present
    <2>4. onDisk.next \in Nat /\ 0 \in Batches
      BY <2>2, IngestAssumption DEF Metadata, Batches
    <2>5. onDisk.next = 0
      BY <2>1, <2>3, <2>4 DEF Match
    <2>6. onDisk.processed = {}
      BY <2>1, <2>3 DEF Match, Below
    <2> QED
      BY <2>2, <2>5, <2>6 DEF Metadata, Empty
  <1>7. DiskMatches' /\ NoneIsEmpty' /\ EachFileOnce'
    BY <1>1 DEF DiskMatches, NoneIsEmpty, EachFileOnce, Batches
  <1>8. MemMatches' /\ PickedIsNew'
    BY <1>1, <1>2, <1>4 DEF MemMatches, PickedIsNew, Reading, Saving
  <1>9. StandardStartsEmpty'
    <2>1. Present' = Present
      BY <1>1 DEF Present
    <2> QED
      BY <1>1, <1>2, <1>4, <1>6, <2>1 DEF StandardStartsEmpty, Reading
  <1>10. NextIsBounded'
    <2>1. onDisk.next \in Nat /\ runs \in Nat /\ onDisk.next <= runs
      BY DEF Types, Metadata, NextIsBounded
    <2> QED
      BY <1>1, <1>2, <1>4, <2>1 DEF NextIsBounded, Reading, Saving
  <1> QED
    BY <1>5, <1>7, <1>8, <1>9, <1>10

LEMMA RemoveEntryStep == ASSUME IInv, RemoveEntry PROVE IInv'
  <1> USE DEF IInv
  <1>1. removing' = TRUE /\ pc = "remove" /\ UNCHANGED <<runs, pc, mode, mem, picked>>
    BY DEF RemoveEntry
  <1>2. Types'
    BY IngestAssumption DEF RemoveEntry, Types, Metadata, Empty, Present
  <1>3. NoneIsEmpty'
    BY DEF RemoveEntry, NoneIsEmpty
  <1>4. onDisk'.next <= onDisk.next
    BY DEF RemoveEntry, Types, Metadata, Empty
  <1>5. NextIsBounded'
    <2>1. onDisk.next \in Nat /\ onDisk'.next \in Nat /\ runs \in Nat
      BY <1>2 DEF Types, Metadata
    <2> QED
      BY <1>1, <1>4, <2>1 DEF NextIsBounded, Reading, Saving
  <1> QED
    BY <1>1, <1>2, <1>3, <1>5
    DEF DiskMatches, MemMatches, StandardStartsEmpty, PickedIsNew, EachFileOnce, Reading, Saving

LEMMA RemoveEndsStep == ASSUME IInv, RemoveEnds PROVE IInv'
  <1> USE DEF IInv
  <1>1. /\ UNCHANGED <<parts, torn, metaFile, onDisk, runs, mode, mem, picked>>
        /\ removing' = FALSE /\ pc = "remove" /\ Present = {} /\ metaFile = "none"
        /\ pc' = IF mode.incremental THEN "save" ELSE "read"
    BY DEF RemoveEnds, Goes
  <1>2. onDisk = Empty /\ mem = Empty /\ picked = {}
    BY <1>1 DEF NoneIsEmpty, PickedIsNew
  <1>3. \A b \in Batches : parts[b] = {} /\ b \notin torn
    BY <1>1 DEF Present
  <1>4. Match(Empty, parts, torn)
    BY <1>3, EmptyMatches DEF Types
  <1>5. Present' = {}
    BY <1>1 DEF Present
  <1>6. Types'
    BY <1>1 DEF Types
  <1>7. DiskMatches' /\ NoneIsEmpty' /\ MemMatches'
    BY <1>1, <1>2, <1>4 DEF DiskMatches, NoneIsEmpty, MemMatches, Reading, Saving
  <1>8. StandardStartsEmpty' /\ PickedIsNew'
    BY <1>1, <1>2, <1>5 DEF StandardStartsEmpty, PickedIsNew, Reading, Saving
  <1>9. EachFileOnce'
    BY <1>1, <1>3 DEF EachFileOnce
  <1>10. NextIsBounded'
    <2>1. runs \in Nat /\ runs > 0
      BY <1>1 DEF Types, NextIsBounded
    <2>2. onDisk.next = 0 /\ mem.next = 0
      BY <1>2 DEF Empty
    <2> QED
      BY <1>1, <2>1, <2>2 DEF NextIsBounded, Reading, Saving
  <1> QED
    BY <1>6, <1>7, <1>8, <1>9, <1>10

LEMMA SaveStep == ASSUME IInv, SaveOpens \/ SaveEnds PROVE IInv'
  <1> USE DEF IInv
  <1>1. /\ Saving
        /\ UNCHANGED <<parts, torn, removing, runs, mode, mem, picked>>
        /\ metaFile' = "torn" \/ metaFile' = "whole"
        /\ metaFile' = "torn" => onDisk' = Empty /\ pc' = "saving"
        /\ metaFile' = "whole" =>
              onDisk' = mem /\ pc' = (IF picked = {} THEN "read" ELSE "done")
    BY DEF SaveOpens, SaveEnds, Goes, Saving
  <1>2. mode.incremental /\ mem \in Metadata /\ mem.next \in Nat /\ mem.next <= runs
    BY <1>1 DEF Types, Metadata, MemMatches, NextIsBounded
  <1>3. runs \in Nat /\ runs > 0
    BY <1>1 DEF Types, NextIsBounded, Saving
  <1>4. picked = {} => mem = Empty /\ mem.next = 0
    BY <1>1 DEF PickedIsNew, Empty
  <1>5. Empty \in Metadata /\ Empty.next = 0
    BY DEF Empty, Metadata
  <1>6. Types'
    BY <1>1, <1>2, <1>5 DEF Types
  <1>7. DiskMatches' /\ NoneIsEmpty' /\ MemMatches'
    BY <1>1, <1>2 DEF DiskMatches, NoneIsEmpty, MemMatches, Reading, Saving
  <1>8. StandardStartsEmpty' /\ EachFileOnce'
    BY <1>1, <1>2 DEF StandardStartsEmpty, EachFileOnce
  <1>9. PickedIsNew'
    BY <1>1, <1>4 DEF PickedIsNew, Saving
  <1>10. NextIsBounded'
    BY <1>1, <1>2, <1>3, <1>4, <1>5 DEF NextIsBounded, Reading, Saving
  <1> QED
    BY <1>6, <1>7, <1>8, <1>9, <1>10

LEMMA LoadStep == ASSUME IInv, Load PROVE IInv'
  <1> USE DEF IInv
  <1>1. /\ UNCHANGED <<parts, torn, metaFile, onDisk, removing, runs, mode, picked>>
        /\ mem' = onDisk /\ pc = "load"
        /\ pc' = IF metaFile = "torn" THEN "idle" ELSE "read"
    BY DEF Load, Goes, disk
  <1>2. mode.incremental
    BY <1>1 DEF MemMatches
  <1> QED
    BY <1>1, <1>2
    DEF Types, DiskMatches, NoneIsEmpty, MemMatches, StandardStartsEmpty, PickedIsNew,
        NextIsBounded, EachFileOnce, Reading, Saving

LEMMA ReadStep == ASSUME IInv, NEW n \in Limits, ReadFiles(n) PROVE IInv'
  <1> USE DEF IInv
  <1>1. PICK ok \in SUBSET FirstOf(NewFiles, n) :
            /\ picked' = ok
            /\ pc' = IF ok = {} THEN "idle" ELSE "write"
    BY DEF ReadFiles
  <1>2. pc = "read" /\ UNCHANGED <<parts, torn, metaFile, onDisk, removing, runs, mode, mem>>
    BY DEF ReadFiles, disk
  <1>3. FirstOf(NewFiles, n) \subseteq NewFiles
    BY DEF FirstOf
  <1>4. ok \subseteq Files /\ (mode.incremental => ok \cap mem.processed = {})
    BY <1>3 DEF NewFiles
  <1>5. Present' = Present
    BY <1>2 DEF Present
  <1> QED
    BY <1>1, <1>2, <1>4, <1>5
    DEF Types, DiskMatches, NoneIsEmpty, MemMatches, StandardStartsEmpty, PickedIsNew,
        NextIsBounded, EachFileOnce, Reading, Saving

(* Where a run writes, and what is there. *)
LEMMA NextBatchType ==
    ASSUME IInv, Reading
    PROVE  /\ NextBatch \in Batches
           /\ onDisk \in Metadata /\ onDisk.next \in Nat
           /\ metaFile # "torn" /\ ~removing => NextBatch = onDisk.next
  <1> USE DEF IInv
  <1>1. onDisk \in Metadata /\ onDisk.next \in Nat /\ runs \in 0..MaxRuns
    BY DEF Types, Metadata
  <1>2. onDisk.next < runs
    BY DEF NextIsBounded
  <1>3. onDisk.next \in Batches /\ 0 \in Batches
    BY <1>1, <1>2, IngestAssumption DEF Batches
  <1>4. CASE mode.incremental
    BY <1>1, <1>3, <1>4 DEF NextBatch, MemMatches
  <1>5. CASE ~mode.incremental
    BY <1>1, <1>3, <1>5 DEF NextBatch, StandardStartsEmpty, Empty
  <1> QED
    BY <1>4, <1>5

LEMMA WriteOpensStep == ASSUME IInv, WriteOpens PROVE IInv'
  <1> USE DEF IInv
  <1>1. /\ parts' = [parts EXCEPT ![NextBatch] = {}]
        /\ torn' = torn \cup {NextBatch}
        /\ UNCHANGED <<metaFile, onDisk, removing, runs, mode, mem, picked>>
        /\ pc = "write" /\ pc' = "writing"
    BY DEF WriteOpens, Goes
  <1>2. /\ NextBatch \in Batches
        /\ metaFile # "torn" /\ ~removing => NextBatch = onDisk.next
    BY <1>1, NextBatchType DEF Reading
  <1>3. parts \in [Batches -> SUBSET Files] /\ torn \in SUBSET Batches /\ onDisk \in Metadata
    BY DEF Types
  <1>4. Types'
    BY <1>1, <1>2, <1>3 DEF Types
  <1>5. DiskMatches'
    <2> SUFFICES ASSUME metaFile # "torn", ~removing
                 PROVE  Match(onDisk, [parts EXCEPT ![onDisk.next] = {}], torn \cup {onDisk.next})
      BY <1>1, <1>2 DEF DiskMatches
    <2>1. torn \cup {onDisk.next} \in SUBSET Batches
      BY <1>2, <1>3
    <2> QED
      BY <1>3, <2>1, NextIsFree DEF DiskMatches
  <1>6. StandardStartsEmpty'
    <2> SUFFICES ASSUME ~mode.incremental, ~removing PROVE Present' \subseteq {0}
      BY <1>1 DEF StandardStartsEmpty, Reading
    <2>1. NextBatch = 0 /\ Present \subseteq {0}
      BY <1>1 DEF NextBatch, StandardStartsEmpty, Reading
    <2> QED
      BY <1>1, <1>2, <1>3, <2>1 DEF Present
  <1>7. EachFileOnce'
    BY <1>1, <1>2, <1>3 DEF EachFileOnce
  <1>8. NoneIsEmpty' /\ MemMatches' /\ PickedIsNew' /\ NextIsBounded'
    BY <1>1 DEF NoneIsEmpty, MemMatches, PickedIsNew, NextIsBounded, Reading, Saving
  <1> QED
    BY <1>4, <1>5, <1>6, <1>7, <1>8

LEMMA WriteEndsStep == ASSUME IInv, WriteEnds PROVE IInv'
  <1> USE DEF IInv
  <1> DEFINE next == [processed |-> mem.processed \cup picked, next |-> mem.next + 1]
  <1>1. /\ parts' = [parts EXCEPT ![NextBatch] = picked]
        /\ torn' = torn \ {NextBatch}
        /\ mem' = IF mode.incremental THEN next ELSE mem
        /\ UNCHANGED <<metaFile, onDisk, removing, runs, mode, picked>>
        /\ pc = "writing" /\ pc' = IF mode.incremental THEN "save" ELSE "done"
    BY DEF WriteEnds, Goes, FollowingNext
  <1>2. /\ NextBatch \in Batches
        /\ onDisk.next \in Nat
        /\ metaFile # "torn" /\ ~removing => NextBatch = onDisk.next
    BY <1>1, NextBatchType DEF Reading
  <1>3. /\ parts \in [Batches -> SUBSET Files] /\ torn \in SUBSET Batches
        /\ onDisk \in Metadata /\ mem \in Metadata /\ picked \in SUBSET Files
    BY DEF Types
  <1>4. picked # {} /\ (mode.incremental => picked \cap mem.processed = {})
    BY <1>1 DEF PickedIsNew
  <1>5. next \in Metadata
    BY <1>3 DEF Metadata
  <1>6. Types'
    BY <1>1, <1>2, <1>3, <1>5 DEF Types
  <1>7. DiskMatches'
    <2> SUFFICES ASSUME metaFile # "torn", ~removing
                 PROVE  Match(onDisk, [parts EXCEPT ![onDisk.next] = picked], torn \ {onDisk.next})
      BY <1>1, <1>2 DEF DiskMatches
    <2> QED
      BY <1>3, NextIsFree DEF DiskMatches
  <1>8. CASE mode.incremental
    <2>1. mem = onDisk /\ metaFile # "torn" /\ NextBatch = mem.next
      BY <1>1, <1>8 DEF MemMatches, Reading, NextBatch
    <2>2. ~removing => Match(next, [parts EXCEPT ![mem.next] = picked], torn \ {mem.next})
      BY <1>2, <1>3, <1>4, <2>1, FollowingMatches DEF DiskMatches
    <2>3. MemMatches'
      <3>1. ~removing => Match(next, parts', torn')
        BY <1>1, <2>1, <2>2
      <3> HIDE DEF next
      <3> QED
        BY <1>1, <1>8, <3>1 DEF MemMatches, Reading, Saving
    <2>4. NextIsBounded'
      <3>1. next.next = onDisk.next + 1 /\ onDisk.next < runs /\ runs \in Nat /\ runs > 0
        BY <1>1, <2>1 DEF NextIsBounded, Reading, Types
      <3> HIDE DEF next
      <3> QED
        BY <1>1, <1>2, <1>8, <3>1 DEF NextIsBounded, Reading, Saving
    <2>5. EachFileOnce'
      <3> SUFFICES ASSUME ~removing, NEW b \in Batches, NEW c \in Batches, b # c
                   PROVE  parts'[b] \cap parts'[c] = {}
        BY <1>1 DEF EachFileOnce
      <3>1. ASSUME NEW a \in Batches, a # NextBatch PROVE parts'[a] = parts[a] /\ parts[a] \cap picked = {}
        <4>1. parts'[a] = parts[a]
          BY <1>1, <1>3, <3>1
        <4>2. Match(mem, parts, torn)
          BY <2>1 DEF DiskMatches
        <4>3. a \in Nat /\ mem.next \in Nat /\ a # mem.next
          BY <1>3, <2>1, <3>1 DEF Batches, Metadata
        <4>4. CASE a < mem.next
          <5>1. parts[a] \subseteq mem.processed
            BY <4>2, <4>4 DEF Match, Below
          <5> QED
            BY <1>4, <1>8, <4>1, <5>1
        <4>5. CASE a > mem.next
          BY <4>1, <4>2, <4>5 DEF Match
        <4> QED
          BY <4>3, <4>4, <4>5
      <3>2. parts'[NextBatch] = picked
        BY <1>1, <1>2, <1>3
      <3>3. parts[b] \cap parts[c] = {}
        BY DEF EachFileOnce
      <3> QED
        BY <3>1, <3>2, <3>3
    <2> QED
      BY <1>1, <1>4, <1>6, <1>7, <1>8, <2>3, <2>4, <2>5
      DEF NoneIsEmpty, StandardStartsEmpty, PickedIsNew, Reading, Saving
  <1>9. CASE ~mode.incremental
    <2>1. NextBatch = 0
      BY <1>9 DEF NextBatch
    <2>2. EachFileOnce'
      <3> SUFFICES ASSUME ~removing, NEW b \in Batches, NEW c \in Batches, b # c
                   PROVE  parts'[b] \cap parts'[c] = {}
        BY <1>1 DEF EachFileOnce
      <3>1. Present \subseteq {0}
        BY <1>1, <1>9 DEF StandardStartsEmpty, Reading
      <3>2. \A a \in Batches : a # 0 => parts'[a] = {}
        BY <1>1, <1>3, <2>1, <3>1 DEF Present
      <3> QED
        BY <3>2
    <2> QED
      BY <1>1, <1>6, <1>7, <1>9, <2>2
      DEF NoneIsEmpty, MemMatches, StandardStartsEmpty, PickedIsNew, NextIsBounded, Reading, Saving
  <1> QED
    BY <1>8, <1>9

LEMMA CrashStep == ASSUME IInv, Crash PROVE IInv'
  BY DEF Crash, disk, IInv, Types, DiskMatches, NoneIsEmpty, MemMatches, StandardStartsEmpty,
         PickedIsNew, NextIsBounded, EachFileOnce, Reading, Saving

LEMMA InvStep ==
    ASSUME \A m \in Modes : m.incremental \/ ~m.reset
    PROVE  IInv /\ [Next]_vars => IInv'
  <1> SUFFICES ASSUME IInv, [Next]_vars PROVE IInv'
    OBVIOUS
  <1>1. CASE UNCHANGED vars
    <2>1. UNCHANGED Present
      BY <1>1 DEF vars, disk, Present
    <2> QED
      BY <1>1, <2>1
      DEF vars, disk, IInv, Types, DiskMatches, NoneIsEmpty, MemMatches, StandardStartsEmpty,
          PickedIsNew, NextIsBounded, EachFileOnce, Reading, Saving
  <1>2. CASE Next
    BY <1>2, StartStep, RemoveEntryStep, RemoveEndsStep, SaveStep, LoadStep, ReadStep,
       WriteOpensStep, WriteEndsStep, CrashStep DEF Next
  <1> QED
    BY <1>1, <1>2

(* Unless a removal was cut short the metadata tell what is there: however *)
(* runs are killed, a batch is whole before the metadata count it, and at  *)
(* most one lies beyond (lines 454-460).                                   *)
THEOREM MetadataTellTheParts ==
    ASSUME \A m \in Modes : m.incremental \/ ~m.reset
    PROVE  Spec => []PartsMatchMetadata
  <1>1. Init => IInv
    BY InitInv
  <1>2. IInv /\ [Next]_vars => IInv'
    BY InvStep
  <1>3. IInv => PartsMatchMetadata
    BY MatchIsProperty DEF IInv
  <1> QED
    BY <1>1, <1>2, <1>3, PTL DEF Spec

(* And no file is stored twice: what a killed run stored and did not       *)
(* record is overwritten by the next (lines 119-120, 446-451).             *)
THEOREM FilesAreStoredOnce ==
    ASSUME \A m \in Modes : m.incremental \/ ~m.reset
    PROVE  Spec => []EachFileOnce
  <1>1. Init => IInv
    BY InitInv
  <1>2. IInv /\ [Next]_vars => IInv'
    BY InvStep
  <1>3. IInv => EachFileOnce
    BY DEF IInv
  <1> QED
    BY <1>1, <1>2, <1>3, PTL DEF Spec

-----------------------------------------------------------------------------
(* A run with --reset: once the directory is removed it is empty, until    *)
(* the run's own files are in it.                                          *)
FreshInv ==
    mode.reset =>
        /\ mode.incremental /\ pc # "load"
        /\ (pc = "done" => picked # {})
        /\ (pc \in {"save", "saving"} /\ picked = {}) \/ pc \in {"read", "write", "writing"} =>
              mem = Empty /\ \A b \in Batches : parts[b] = {}
        /\ picked # {} /\ pc \in {"save", "saving", "done"} => Stored = picked

LEMMA FreshStep ==
    ASSUME \A m \in Modes : m.incremental \/ ~m.reset
    PROVE  IInv /\ FreshInv /\ [Next]_vars => FreshInv'
  <1> SUFFICES ASSUME IInv, FreshInv, [Next]_vars PROVE FreshInv'
    OBVIOUS
  <1>1. CASE UNCHANGED vars \/ Crash
    BY <1>1 DEF vars, disk, Crash, FreshInv, Stored
  <1>2. ASSUME NEW m \in Modes, Start(m) PROVE FreshInv'
    <2>1. mode' = m /\ pc' = FirstStep(m) /\ (m.incremental \/ ~m.reset)
      BY <1>2 DEF Start
    <2>2. m.incremental \in BOOLEAN /\ m.reset \in BOOLEAN
      BY IngestAssumption
    <2>3. m.reset => pc' = "remove"
      BY <2>1, <2>2 DEF FirstStep
    <2> QED
      BY <2>1, <2>3 DEF FreshInv
  <1>3. CASE RemoveEntry
    BY <1>3 DEF RemoveEntry, FreshInv
  <1>4. CASE RemoveEnds
    <2>1. \A b \in Batches : parts[b] = {}
      BY <1>4 DEF RemoveEnds, Present
    <2>2. pc = "remove" /\ pc' \in {"save", "read"} /\ UNCHANGED <<mode, mem, picked, parts>>
      BY <1>4 DEF RemoveEnds, Goes
    <2>3. mem = Empty /\ picked = {}
      BY <2>2 DEF IInv, PickedIsNew
    <2>4. mode.reset => mode.incremental
      BY DEF FreshInv
    <2> QED
      BY <2>1, <2>2, <2>3, <2>4 DEF FreshInv
  <1>5. CASE SaveOpens \/ SaveEnds
    BY <1>5 DEF SaveOpens, SaveEnds, Goes, FreshInv, Stored
  <1>6. CASE Load
    BY <1>6 DEF Load, Goes, disk, FreshInv
  <1>7. ASSUME NEW n \in Limits, ReadFiles(n) PROVE FreshInv'
    BY <1>7 DEF ReadFiles, disk, FreshInv
  <1>8. CASE WriteOpens
    <2>1. /\ pc = "write" /\ pc' = "writing" /\ UNCHANGED <<mode, mem, picked>>
          /\ parts' = [parts EXCEPT ![NextBatch] = {}]
      BY <1>8 DEF WriteOpens, Goes
    <2>2. \A b \in Batches : parts[b] = {} => parts'[b] = {}
      BY <2>1 DEF IInv, Types
    <2> QED
      BY <2>1, <2>2 DEF FreshInv
  <1>9. CASE WriteEnds
    <2> SUFFICES ASSUME mode.reset PROVE FreshInv'
      BY <1>9 DEF WriteEnds, FreshInv
    <2>1. /\ pc = "writing" /\ UNCHANGED <<mode, picked>>
          /\ parts' = [parts EXCEPT ![NextBatch] = picked]
      BY <1>9 DEF WriteEnds, Goes
    <2>2. mode.incremental /\ mem = Empty /\ \A b \in Batches : parts[b] = {}
      BY <2>1 DEF FreshInv
    <2>3. NextBatch = 0 /\ 0 \in Batches
      BY <2>2, IngestAssumption DEF NextBatch, Empty, Batches
    <2>4. picked # {} /\ pc' = "save"
      BY <1>9, <2>1, <2>2 DEF WriteEnds, Goes, IInv, PickedIsNew
    <2>5. parts'[0] = picked /\ \A b \in Batches : b # 0 => parts'[b] = {}
      BY <2>1, <2>2, <2>3 DEF IInv, Types
    <2>6. Stored' = picked
      BY <2>3, <2>5 DEF Stored
    <2> QED
      BY <2>1, <2>2, <2>4, <2>6 DEF FreshInv
  <1> QED
    BY <1>1, <1>2, <1>3, <1>4, <1>5, <1>6, <1>7, <1>8, <1>9 DEF Next

(* After a run with --reset only its own files are stored, however the     *)
(* runs before it ended (lines 386-387, 446-451).                          *)
THEOREM ResetIsFresh ==
    ASSUME \A m \in Modes : m.incremental \/ ~m.reset
    PROVE  Spec => []ResetStartsFresh
  <1>1. Init => IInv /\ FreshInv
    BY InitInv DEF Init, FreshInv
  <1>2. IInv /\ FreshInv /\ [Next]_vars => IInv' /\ FreshInv'
    BY InvStep, FreshStep
  <1>3. FreshInv => ResetStartsFresh
    BY DEF FreshInv, ResetStartsFresh
  <1> QED
    BY <1>1, <1>2, <1>3, PTL DEF Spec
=============================================================================
