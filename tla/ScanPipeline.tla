---------------------------- MODULE ScanPipeline ----------------------------
(***************************************************************************)
(* One scan of a directory (core/src/scan/scanner.rs): three tasks joined  *)
(* by two bounded channels, and a third bounded channel on which they all  *)
(* report to the caller.                                                   *)
(*                                                                         *)
(*   traversal --ch1--> fingerprinting (a pool of tasks) --ch2--> writer   *)
(*        \__________________________ progress ____________________/       *)
(*                                                                         *)
(* Files do not depend on each other, so the model keeps where each one is *)
(* instead of the order inside ch1 and ch2.  Whether a file is new, changed*)
(* or as it was makes no difference to where it goes.                      *)
(***************************************************************************)
EXTENDS Naturals, Sequences, FiniteSets

CONSTANTS Files,         \* the files of the directory that match
          Concurrency,   \* fingerprinting tasks (settings.scan.concurrency)
          Ch1Capacity,   \* twice Concurrency in the code
          Ch2Capacity,   \* 64 in the code
          Progress,      \* capacity of the progress channel, 256 in the code
          MaxBatch       \* MAX_BATCH_SIZE, 100 in the code

ASSUME CapacityAssumption ==
    /\ IsFiniteSet(Files)
    /\ {Concurrency, Ch1Capacity, Ch2Capacity, Progress, MaxBatch} \subseteq Nat \ {0}

VARIABLES dry,         \* settings.scan.dry_run
          at,          \* where each file is
          traversal,   \* stage 1: "walk", "report", "done"
          spawning,    \* stage 2 still receives from ch1
          writer,      \* stage 3
          progress,    \* what is in the progress channel
          caller,      \* "listening", "returned" or "gone"
          tally,       \* how many events of each kind the caller has seen
          counters,    \* stage 3's discovered, processed and errors
          autoLinked   \* history: the files auto_link_documents has seen

stages == <<traversal, spawning, writer>>
report == <<progress, caller, tally>>
scanVars == <<dry, at, stages, report, counters, autoLinked>>

\* "written" is inside the writer's transaction, "library" committed.  The
\* last six are where a file may end.
Places == {"disk", "ch1", "worker", "ch2", "batch", "written",
           "proposed", "unread", "unhashed", "refused", "dropped", "library"}

Settled == {"proposed", "unread", "unhashed", "refused", "dropped", "library"}

EventKinds == {"discovered", "processed", "error", "completed"}

In(place) == {f \in Files : at[f] = place}

Fill(place) == Cardinality(In(place))

ScanTypeOK ==
    /\ dry \in BOOLEAN
    /\ at \in [Files -> Places]
    /\ traversal \in {"walk", "report", "done"}
    /\ spawning \in BOOLEAN
    /\ writer \in {"first", "more", "begin", "reject", "write", "enrich",
                   "link", "complete", "finish", "done"}
    /\ progress \in Seq(EventKinds)
    /\ caller \in {"listening", "returned", "gone"}
    /\ tally \in [EventKinds -> Nat]
    /\ counters \in [{"discovered", "processed", "errors"} -> Nat]
    /\ autoLinked \subseteq Files
    \* Nothing holds more than it is meant to.
    /\ Len(progress) <= Progress
    /\ Fill("ch1") <= Ch1Capacity
    /\ Fill("worker") <= Concurrency
    /\ Fill("ch2") <= Ch2Capacity
    /\ Fill("batch") + Fill("written") <= MaxBatch

ScanInit ==
    /\ dry \in BOOLEAN
    /\ at = [f \in Files |-> "disk"]
    /\ traversal = "walk"
    /\ spawning = TRUE
    /\ writer = "first"
    /\ progress = <<>>
    /\ caller = "listening"
    /\ tally = [e \in EventKinds |-> 0]
    /\ counters = [c \in {"discovered", "processed", "errors"} |-> 0]
    /\ autoLinked = {}

(***************************************************************************)
(* Channels.                                                               *)
(***************************************************************************)

\* Mutant: the receiver stays open when the caller has gone.
SendToOpen(e) ==
    /\ Len(progress) < Progress
    /\ progress' = Append(progress, e)
    /\ UNCHANGED <<caller, tally>>

\* progress_tx.send(...).await waits for room; when the caller has dropped
\* the receiver it fails and the failure is ignored.
Send(e) ==
    /\ \/ /\ caller = "gone"
          /\ UNCHANGED progress
       \/ /\ caller # "gone"
          /\ Len(progress) < Progress
          /\ progress' = Append(progress, e)
    /\ UNCHANGED <<caller, tally>>

\* Each task that fingerprints has a sender of ch2, and so has the task that
\* spawns them: the channel is closed when the last of them has ended.
Ch2Closed == ~spawning /\ In("worker") = {}

Move(f, from, to) ==
    /\ at[f] = from
    /\ at' = [at EXCEPT ![f] = to]

Count(c) == counters' = [counters EXCEPT ![c] = @ + 1]

(***************************************************************************)
(* Stage 1: stage1_traversal, visit_dir, emit_archive_members.             *)
(***************************************************************************)
Visit(f) ==
    /\ traversal = "walk"
    /\ IF dry THEN Move(f, "disk", "proposed")
              ELSE Move(f, "disk", "ch1") /\ Fill("ch1") < Ch1Capacity
    /\ traversal' = "report"
    /\ UNCHANGED <<dry, spawning, writer, report, counters, autoLinked>>

\* FileDiscovered follows the file, which may be in the library by then.
ReportVisit ==
    /\ traversal = "report"
    /\ traversal' = "walk"
    /\ Send("discovered")
    /\ UNCHANGED <<dry, at, spawning, writer, counters, autoLinked>>

\* A file, directory or archive that cannot be read is logged and left out.
Skip(f) ==
    /\ traversal = "walk"
    /\ Move(f, "disk", "unread")
    /\ UNCHANGED <<dry, stages, report, counters, autoLinked>>

EndTraversal ==
    /\ traversal = "walk"
    /\ In("disk") = {}
    /\ traversal' = "done"
    /\ UNCHANGED <<dry, at, spawning, writer, report, counters, autoLinked>>

(***************************************************************************)
(* Stage 2: stage2_fingerprint.                                            *)
(***************************************************************************)

Spawn(f) ==
    /\ spawning
    /\ Fill("worker") < Concurrency
    /\ Move(f, "ch1", "worker")
    /\ UNCHANGED <<dry, stages, report, counters, autoLinked>>

\* The file is hashed and waits for room in ch2.
HandOver(f) ==
    /\ Fill("ch2") < Ch2Capacity
    /\ Move(f, "worker", "ch2")
    /\ UNCHANGED <<dry, stages, report, counters, autoLinked>>

\* It cannot be read: the error is logged and reported to nobody.
CannotHash(f) ==
    /\ Move(f, "worker", "unhashed")
    /\ UNCHANGED <<dry, stages, report, counters, autoLinked>>

EndSpawning ==
    /\ spawning
    /\ traversal = "done"
    /\ In("ch1") = {}
    /\ spawning' = FALSE
    /\ UNCHANGED <<dry, at, traversal, writer, report, counters, autoLinked>>

(***************************************************************************)
(* Stage 3: stage3_writer and flush_batch_with_audit.                      *)
(***************************************************************************)
WriterGoto(from, to) ==
    /\ writer = from
    /\ writer' = to
    /\ UNCHANGED <<dry, traversal, spawning>>

\* The next file of a batch; the writer waits for the first one for ever.
Receive(f) ==
    /\ \/ WriterGoto("first", "more")
       \/ WriterGoto("more", "more") /\ Fill("batch") < MaxBatch
    /\ Move(f, "ch2", "batch")
    /\ Count("discovered")
    /\ UNCHANGED <<report, autoLinked>>

\* Mutant: the batch that is open when ch2 closes is not written.
StopReceivingNoFlush ==
    /\ \/ WriterGoto("more", IF Ch2Closed THEN "link" ELSE "begin")
       \/ WriterGoto("first", "link") /\ Ch2Closed /\ In("ch2") = {}
    /\ UNCHANGED <<at, report, counters, autoLinked>>

\* The batch is full, BATCH_TIMEOUT has passed, or ch2 is closed; without a
\* batch, only the last ends the loop.
StopReceiving ==
    /\ \/ WriterGoto("more", "begin")
       \/ WriterGoto("first", "link") /\ Ch2Closed /\ In("ch2") = {}
    /\ UNCHANGED <<at, report, counters, autoLinked>>

Begin ==
    /\ WriterGoto("begin", "write") \/ WriterGoto("begin", "reject")
    /\ UNCHANGED <<at, report, counters, autoLinked>>

\* The transaction cannot begin: every file of the batch is an error.
Reject(f) ==
    /\ WriterGoto("reject", "reject")
    /\ Move(f, "batch", "refused")
    /\ Count("errors")
    /\ Send("error")
    /\ UNCHANGED autoLinked

EndReject ==
    /\ In("batch") = {}
    /\ WriterGoto("reject", "first")
    /\ UNCHANGED <<at, report, counters, autoLinked>>

\* write_scanned_file and the file's audit event succeed.
Write(f) ==
    /\ WriterGoto("write", "write")
    /\ Move(f, "batch", "written")
    /\ Count("processed")
    /\ Send("processed")
    /\ UNCHANGED autoLinked

\* Mutant: the error is reported and not counted.
WriteFailsUncounted(f) ==
    /\ WriterGoto("write", "write")
    /\ Move(f, "batch", "refused")
    /\ Send("error")
    /\ UNCHANGED <<counters, autoLinked>>

WriteFails(f) ==
    /\ WriterGoto("write", "write")
    /\ Move(f, "batch", "refused")
    /\ Count("errors")
    /\ Send("error")
    /\ UNCHANGED autoLinked

InBatch == In("batch") \cup In("written")

DropBatch(files) ==
    at' = [f \in Files |-> IF f \in files THEN "dropped" ELSE at[f]]

\* The audit event of f cannot be written: the batch is rolled back, and f
\* is the only file of it that is reported as an error.
EventFails(f) ==
    /\ WriterGoto("write", "first")
    /\ at[f] = "batch"
    /\ at' = [g \in Files |-> IF g = f THEN "refused"
                              ELSE IF g \in InBatch THEN "dropped" ELSE at[g]]
    /\ Count("errors")
    /\ Send("error")
    /\ UNCHANGED autoLinked

Commit ==
    /\ In("batch") = {}
    /\ \/ /\ WriterGoto("write", "enrich")
          /\ at' = [f \in Files |-> IF at[f] = "written" THEN "library" ELSE at[f]]
       \/ /\ WriterGoto("write", "first")
          /\ DropBatch(InBatch)
    /\ UNCHANGED <<report, counters, autoLinked>>

\* enrich_file for each new or changed file: metadata and cover.
EnrichFiles ==
    /\ WriterGoto("enrich", "first")
    /\ UNCHANGED <<at, report, counters, autoLinked>>

\* auto_link_documents reads the whole library; it may fail.
AutoLink ==
    /\ WriterGoto("link", "complete")
    /\ autoLinked' = In("library") \/ UNCHANGED autoLinked
    /\ UNCHANGED <<at, report, counters>>

\* Mutant: a completion that finds no room is not waited for.
CompleteWithoutWaiting ==
    /\ WriterGoto("complete", "finish")
    /\ IF Len(progress) < Progress THEN Send("completed") ELSE UNCHANGED report
    /\ UNCHANGED <<at, counters, autoLinked>>

Complete ==
    /\ WriterGoto("complete", "finish")
    /\ Send("completed")
    /\ UNCHANGED <<at, counters, autoLinked>>

\* The audit operation of the scan is finished, or fails to be.
Finish ==
    /\ WriterGoto("finish", "done")
    /\ UNCHANGED <<at, report, counters, autoLinked>>

(***************************************************************************)
(* The caller: ApplicationModule::scan and scan_configured, the desktop    *)
(* application's scan stream.                                              *)
(***************************************************************************)
Take ==
    /\ caller = "listening"
    /\ progress # <<>>
    /\ tally' = [tally EXCEPT ![Head(progress)] = @ + 1]
    /\ progress' = Tail(progress)
    /\ UNCHANGED <<dry, at, stages, caller, counters, autoLinked>>

\* Every stage holds a sender of the progress channel until it ends.
Return ==
    /\ caller = "listening"
    /\ progress = <<>>
    /\ traversal = "done" /\ Ch2Closed /\ writer = "done"
    /\ caller' = "returned"
    /\ UNCHANGED <<dry, at, stages, progress, tally, counters, autoLinked>>

\* The REST handler or the stream is dropped; the scan goes on.
Leave ==
    /\ caller = "listening"
    /\ caller' = "gone"
    /\ progress' = <<>>
    /\ UNCHANGED <<dry, at, stages, tally, counters, autoLinked>>

Traverse == ReportVisit \/ EndTraversal \/ \E f \in Files : Visit(f) \/ Skip(f)

Hash(f) == HandOver(f) \/ CannotHash(f)

WriteNext ==
    \/ StopReceiving
    \/ Begin
    \/ EndReject
    \/ Commit
    \/ EnrichFiles
    \/ AutoLink
    \/ Complete
    \/ Finish
    \/ \E f \in Files :
          \/ Receive(f)
          \/ Reject(f)
          \/ Write(f)
          \/ WriteFails(f)
          \/ EventFails(f)

Listen == Take \/ Return

ScanNext ==
    \/ Traverse
    \/ EndSpawning
    \/ \E f \in Files : Spawn(f) \/ Hash(f)
    \/ WriteNext
    \/ Listen
    \/ Leave

ScanSpec == ScanInit /\ [][ScanNext]_scanVars

(***************************************************************************)
(* tokio runs every task that can go on, and the callers read the progress *)
(* channel in a loop until it is closed.  Nobody has to leave.             *)
(***************************************************************************)
Fairness ==
    /\ WF_scanVars(Traverse)
    /\ WF_scanVars(EndSpawning \/ \E f \in Files : Spawn(f))
    /\ \A f \in Files : SF_scanVars(Hash(f))
    /\ WF_scanVars(WriteNext)
    /\ WF_scanVars(Listen)

FairSpec == ScanSpec /\ Fairness

(***************************************************************************)
(* Properties.                                                             *)
(***************************************************************************)
Over == writer \in {"link", "complete", "finish", "done"}

\* When the writer stops receiving, no file is left in a channel, a task, an
\* open batch or an open transaction: auto_link_documents and the completed
\* event come after everything.
NothingForgotten == Over => \A f \in Files : at[f] \in Settled

Dropped == In("dropped")

\* As long as no batch was lost, the numbers of the completed event are what
\* happened to the files the writer received.
CountersTrue ==
    Over /\ Dropped = {} =>
        /\ counters["processed"] = Fill("library")
        /\ counters["errors"] = Fill("refused")
        /\ counters["discovered"] = counters["processed"] + counters["errors"]

\* A caller that reads to the end has seen the completion once, and counted
\* the same files and errors as the writer, though three tasks share the
\* channel and it is smaller than what they send.
CallerSeesAll ==
    caller = "returned" =>
        /\ tally["completed"] = 1
        /\ tally["processed"] = counters["processed"]
        /\ tally["error"] = counters["errors"]
        /\ tally["discovered"] = Cardinality(Files) - Fill("unread")

\* The bounded channels never stop the scan for good, with a caller that
\* reads or one that has left.
ScanEnds == <>(writer = "done" /\ caller # "listening")
=============================================================================
