---------------------------- MODULE TraceIngest -----------------------------
(***************************************************************************)
(* The ingestion of trace files by scripts/alibaba-cluster-trace-mem.py: a *)
(* run reads CSV files, writes them as one parquet file part-<batch>, and  *)
(* in incremental mode then rewrites _metadata.json, which lists the files *)
(* ingested so far and the next batch.  Neither file is written            *)
(* atomically and a directory is removed entry by entry, so a run that is  *)
(* killed leaves whatever its next step would have changed.                *)
(*                                                                         *)
(* A CSV file is a number (they are taken in numeric order); rows and      *)
(* statistics are left out.  Of an operator pair such as EveryFile and     *)
(* NewFiles the first is a slip that no action uses.                       *)
(***************************************************************************)
EXTENDS Integers, FiniteSets

CONSTANTS Files,      \* the CSV files of the input directory
          Limits,     \* values of --n-files; 0 is no limit
          Modes,      \* how a run may be started
          Crashes,    \* may a run be killed?
          MaxRuns     \* bound: runs

ASSUME IngestAssumption ==
    /\ Files \subseteq Nat /\ IsFiniteSet(Files) /\ Limits \subseteq Nat
    /\ Modes \subseteq [incremental : BOOLEAN, reset : BOOLEAN]
    /\ Crashes \in BOOLEAN /\ MaxRuns \in Nat

VARIABLES
    parts,      \* per batch, the files in part-<batch>; none if it is not there
    torn,       \* the batches whose parquet file is half written
    metaFile,   \* _metadata.json: none, whole, torn
    onDisk,     \* what it says, if it is whole
    runs, pc, mode,
    mem,        \* the run's metadata
    picked,     \* the files this run has read
    removing    \* has a directory been removed in part, and not removed since?

disk == <<parts, torn, metaFile, onDisk, removing>>
vars == <<disk, runs, pc, mode, mem, picked>>

Batches == 0..MaxRuns
Empty == [processed |-> {}, next |-> 0]     \* load_metadata's default
Stored == UNION {parts[b] : b \in Batches}
Present == {b \in Batches : parts[b] # {} \/ b \in torn}

Init ==
    /\ parts = [b \in Batches |-> {}] /\ torn = {}
    /\ metaFile = "none" /\ onDisk = Empty
    /\ runs = 0 /\ pc = "idle"
    /\ mode = [incremental |-> TRUE, reset |-> FALSE]
    /\ mem = Empty /\ picked = {}
    /\ removing = FALSE

Goes(from, to) == pc = from /\ pc' = to

Idle == pc \in {"idle", "done"}

(* What a run does first: an incremental run removes the directory if it   *)
(* is told to, a standard run if there is data in it and it is not.        *)
NoResetStep(m) ==
    IF m.incremental THEN "load" ELSE IF Present # {} THEN "remove" ELSE "read"
FirstStep(m) ==
    CASE m.incremental /\ m.reset -> "remove"
      [] m.incremental /\ ~m.reset -> "load"
      [] ~m.incremental /\ Present # {} /\ ~m.reset -> "remove"
      [] OTHER -> "read"

Start(m) ==
    /\ Idle /\ runs < MaxRuns
    /\ runs' = runs + 1
    /\ mode' = m
    /\ pc' = FirstStep(m)
    /\ mem' = Empty /\ picked' = {}
    /\ UNCHANGED disk

(* shutil.rmtree: the entries in any order. *)
RemoveEntry ==
    /\ pc = "remove"
    /\ removing' = TRUE
    /\ \/ \E b \in Present :
             /\ parts' = [parts EXCEPT ![b] = {}]
             /\ torn' = torn \ {b}
             /\ UNCHANGED <<metaFile, onDisk>>
       \/ /\ metaFile # "none"
          /\ metaFile' = "none" /\ onDisk' = Empty
          /\ UNCHANGED <<parts, torn>>
    /\ UNCHANGED <<runs, pc, mode, mem, picked>>

RemoveEnds ==
    /\ Goes("remove", IF mode.incremental THEN "save" ELSE "read")
    /\ Present = {} /\ metaFile = "none"
    /\ removing' = FALSE
    /\ UNCHANGED <<parts, torn, metaFile, onDisk, runs, mode, mem, picked>>

(* save_metadata: open(..., "w") truncates, json.dump fills. *)
SaveOpens ==
    /\ Goes("save", "saving")
    /\ metaFile' = "torn" /\ onDisk' = Empty
    /\ UNCHANGED <<parts, torn, removing, runs, mode, mem, picked>>

SaveEnds ==
    /\ Goes("saving", IF picked = {} THEN "read" ELSE "done")
    /\ metaFile' = "whole" /\ onDisk' = mem
    /\ UNCHANGED <<parts, torn, removing, runs, mode, mem, picked>>

(* load_metadata; json.load fails on a torn file. *)
Load ==
    /\ Goes("load", IF metaFile = "torn" THEN "idle" ELSE "read")
    /\ mem' = onDisk
    /\ UNCHANGED <<disk, runs, mode, picked>>

(* load_csv_files_parallel: the first n of the files not yet processed; a  *)
(* file that cannot be read is left for another run.                       *)
EveryFile == Files
NewFiles == IF mode.incremental THEN Files \ mem.processed ELSE Files

FirstOf(S, n) ==
    IF n = 0 THEN S ELSE {f \in S : Cardinality({g \in S : g < f}) < n}

ReadFiles(n) ==
    /\ pc = "read"
    /\ \E ok \in SUBSET FirstOf(NewFiles, n) :
          /\ picked' = ok
          /\ pc' = IF ok = {} THEN "idle" ELSE "write"
    /\ UNCHANGED <<disk, runs, mode, mem>>

(* save_batch_to_parquet_dir *)
NextBatch == IF mode.incremental THEN mem.next ELSE 0

WriteOpens ==
    /\ Goes("write", "writing")
    /\ parts' = [parts EXCEPT ![NextBatch] = {}]
    /\ torn' = torn \cup {NextBatch}
    /\ UNCHANGED <<metaFile, onDisk, removing, runs, mode, mem, picked>>

SameNext == mem.next
FollowingNext == mem.next + 1

WriteEnds ==
    /\ Goes("writing", IF mode.incremental THEN "save" ELSE "done")
    /\ parts' = [parts EXCEPT ![NextBatch] = picked]
    /\ torn' = torn \ {NextBatch}
    /\ mem' = IF mode.incremental
              THEN [processed |-> mem.processed \cup picked, next |-> FollowingNext]
              ELSE mem
    /\ UNCHANGED <<metaFile, onDisk, removing, runs, mode, picked>>

Crash ==
    /\ Crashes /\ ~Idle
    /\ pc' = "idle"
    /\ UNCHANGED <<disk, runs, mode, mem, picked>>

Next ==
    \/ \E m \in Modes : Start(m)
    \/ RemoveEntry \/ RemoveEnds
    \/ SaveOpens \/ SaveEnds \/ Load
    \/ \E n \in Limits : ReadFiles(n)
    \/ WriteOpens \/ WriteEnds
    \/ Crash

Spec == Init /\ [][Next]_vars
-----------------------------------------------------------------------------
(* Unless a removal of the directory was cut short, the metadata tell what *)
(* is there: the batches before the next are whole and hold exactly the    *)
(* files processed, and nothing lies beyond the next.  A run killed        *)
(* between the parquet file and the metadata leaves at most the batch that *)
(* the next run will overwrite (lines 454-460).                            *)
PartsMatchMetadata ==
    metaFile # "torn" /\ ~removing =>
        /\ \A b \in Batches :
              /\ b < onDisk.next => parts[b] # {} /\ b \notin torn
              /\ b > onDisk.next => b \notin Present
        /\ onDisk.processed = UNION {parts[b] : b \in {c \in Batches : c < onDisk.next}}

(* No file is stored twice, whatever runs were made or killed, in whatever *)
(* mode except a standard run with --reset (lines 119-120, 446-451).       *)
EachFileOnce ==
    ~removing => \A b, c \in Batches : b # c => parts[b] \cap parts[c] = {}

(* Lines 386-387 say --reset will "Delete existing parquet directory and   *)
(* start fresh": after such a run only its own files are stored.           *)
ResetStartsFresh ==
    pc = "done" /\ mode.reset => Stored = picked
=============================================================================
