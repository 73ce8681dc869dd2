------------------------------- MODULE MCStorage -------------------------------
(***************************************************************************)
(* One transfer: its storage, block by block (TaskStorage), or its worker, *)
(* run by run (WorkerRun).  The stored file has three units in pieces of   *)
(* two, delivered right or wrong; the worker's tasks have two pieces and   *)
(* the kinds of source that are treated differently.                       *)
(***************************************************************************)
EXTENDS TaskStorage

CONSTANTS MaxAttempts, MaxPerMirror, MaxGenerations, MaxFailures, MaxQueued
VARIABLES part, task, wants, remote, journal, disk, run, completed, follow, seen

MCLayout == [total |-> 3, plen |-> 2, files |-> <<"out">>, place |-> "p", root |-> "r", ident |-> "i"]
MCManifest == [total |-> 3, plen |-> 2, chunks |-> <<<<"good", "good">>, <<"good">>>>,
               whole |-> Some(<<"good", "good", "good">>)]
MCPermitted(options) == TRUE

Source(kind, style, serves) == [kind |-> kind, style |-> style, serves |-> serves]
Single == [sources |-> <<Source("http", "strong", 1)>>, checksum |-> 0, manifest |-> FALSE,
           policy |-> "RequireSharedDigest", session |-> TRUE, metadata |-> "no", slice |-> FALSE,
           lengths |-> <<2, 2>>, firstBytes |-> <<1, 1>>]
MCTasks ==
  {Single,
   [Single EXCEPT !.sources = <<Source("http", "date", 1)>>, !.checksum = 1],
   [Single EXCEPT !.sources = <<Source("http", "digest", 1), Source("http", "digest", 1)>>, !.firstBytes = <<1, 2>>,
                  !.session = FALSE],
   [Single EXCEPT !.sources = <<Source("http", "strong", 1), Source("http", "date", 2)>>, !.lengths = <<2, 3>>],
   [Single EXCEPT !.checksum = 2, !.manifest = TRUE],
   [Single EXCEPT !.sources = <<Source("sftp", "mtime", 1)>>],
   [Single EXCEPT !.sources = <<Source("sftp", "mtime", 1), Source("ftp", "mtime", 1)>>, !.session = FALSE],
   [Single EXCEPT !.sources = <<Source("http", "strong", 1), Source("sftp", "mtime", 1)>>, !.checksum = 1, !.session = FALSE],
   [Single EXCEPT !.sources = <<Source("ftp", "mtime", 1)>>, !.lengths = <<2, 1>>],
   [Single EXCEPT !.metadata = "kept"],
   [Single EXCEPT !.metadata = "mem", !.checksum = 1],
   [Single EXCEPT !.slice = TRUE, !.session = FALSE]}

workers == <<task, wants, remote, journal, disk, run, completed, follow, seen>>
W == INSTANCE WorkerRun WITH Tasks <- MCTasks

MCInit == /\ StorageInit /\ W!WorkerInit /\ part \in {"storage", "worker"}
          /\ part = "storage" => task = Single
          /\ part = "worker" => mode = "Plain"
MCNext == \/ part = "storage" /\ StorageNext /\ UNCHANGED <<part, workers>>
          \/ part = "worker" /\ W!WorkerNext /\ UNCHANGED <<part, storageVars>>
MCSpec == MCInit /\ [][MCNext]_<<part, storageVars, workers>>

\* Nothing a transfer was told or told others is taken back: pieces
\* acknowledged survive (PromisesKept), and a completed file is whole, of one
\* version, and reached within the attempts allowed (WorkerSound).
TransfersKept == PromisesKept /\ W!WorkerSound
=================================================================================
