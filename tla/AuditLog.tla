------------------------------ MODULE AuditLog ------------------------------
(***************************************************************************)
(* The activity history (core/src/audit, core/src/db/dao/audit.rs) and the *)
(* handlers that write it (core/src/db/datasource.rs, documents.rs and     *)
(* check_missing in core/src/lib.rs).                                      *)
(*                                                                         *)
(* A handler starts an operation, changes the library, records an event    *)
(* and finishes the operation.  How many of these steps share one SQLite   *)
(* transaction differs from handler to handler, and the processes that     *)
(* open the database (desktop application, server, command line) may stop  *)
(* between any two of them.  A starting process marks the operations it    *)
(* finds unfinished as interrupted.                                        *)
(*                                                                         *)
(* A transaction is one step that happens or does not: its writes are seen *)
(* by nobody before the commit.  Inside one, a statement on a row that     *)
(* exists fails only together with the transaction, so that an event is    *)
(* lost there only when its operation is (a foreign key).  Outside, every  *)
(* statement may fail by itself (busy database, no free connection).       *)
(***************************************************************************)
EXTENDS Naturals, FiniteSets

CONSTANTS Procs,        \* the processes that open the database
          Ops,          \* the operations, each one call of a handler
          MaxCrashes,   \* bound on the number of times a process stops
          None          \* no operation

(***************************************************************************)
(* merge: merge_documents.  remove: delete_content_from_document.  tags:   *)
(* add_file_tags, delete_file_tags.  status: update_reading_status,        *)
(* store_cover.  delete: delete_file.  metadata: update_document_metadata. *)
(* import: import_file.  purge: check_missing with purge.                  *)
(***************************************************************************)
Kinds == {"merge", "remove", "tags", "status", "delete", "metadata",
          "import", "purge"}

\* Handlers that return the error when the history cannot be written; the
\* others log a warning and go on.
Strict == {"merge", "remove"}

\* Handlers whose event joins the transaction of the change.
Transactional == {"merge", "remove", "tags", "status", "delete"}

\* Handlers whose last status joins it too.
FinishesInside == {"status", "delete"}

ASSUME OpsAssumption ==
    /\ MaxCrashes \in Nat
    /\ None \notin Ops

VARIABLES kind,      \* the handler of each operation (chosen once)
          owner,     \* the process that runs it (chosen once)
          proc,      \* "down", "recovering" or "up"
          stale,     \* the operations a recovering process has still to mark
          marking,   \* the one that has its event but not its status yet
          clean,     \* history: every step of the last recovery succeeded
          crashes,   \* history: how often a process stopped
          alone,     \* history: no two processes ran at the same time
          pc,        \* how far each handler has come
          status,    \* audit_operations.status, "absent" without a row
          events,    \* how many audit_events rows there are of each type
          effects    \* what the handler changed: the "file", the "row"

calls == <<kind, owner>>
procs == <<calls, proc, stale, marking, clean, crashes, alone>>
log == <<status, events>>
vars == <<procs, pc, log, effects>>

EventTypes == {"changed", "deleted", "missing", "delete_failed", "interrupted"}

Statuses == {"absent", "started", "completed", "failed", "interrupted"}

Terminal(s) == s \in {"completed", "failed", "interrupted"}

TypeOK ==
    /\ kind \in [Ops -> Kinds]
    /\ owner \in [Ops -> Procs]
    /\ alone \in BOOLEAN
    /\ proc \in [Procs -> {"down", "recovering", "up"}]
    /\ stale \in [Procs -> SUBSET Ops]
    /\ marking \in [Procs -> Ops \cup {None}]
    /\ clean \in [Procs -> BOOLEAN]
    /\ crashes \in 0..MaxCrashes
    /\ pc \in [Ops -> {"idle", "created", "removed", "refused", "applied",
                       "logged", "failing", "returned", "not_found",
                       "error", "dead"}]
    /\ status \in [Ops -> Statuses]
    /\ events \in [Ops -> [EventTypes -> Nat]]
    /\ effects \in [Ops -> SUBSET {"file", "row"}]
    \* An event row references its operation's row.
    /\ \A o \in Ops : status[o] = "absent" => \A e \in EventTypes : events[o][e] = 0

Init ==
    /\ kind \in [Ops -> Kinds]
    /\ owner \in [Ops -> Procs]
    /\ alone = TRUE
    /\ proc = [p \in Procs |-> "down"]
    /\ stale = [p \in Procs |-> {}]
    /\ marking = [p \in Procs |-> None]
    /\ clean = [p \in Procs |-> FALSE]
    /\ crashes = 0
    /\ pc = [o \in Ops |-> "idle"]
    /\ status = [o \in Ops |-> "absent"]
    /\ events = [o \in Ops |-> [e \in EventTypes |-> 0]]
    /\ effects = [o \in Ops |-> {}]

(***************************************************************************)
(* Statements.                                                             *)
(***************************************************************************)

\* append_audit_event: it looks at the operation's existence, never at its
\* status.
AppendEvent(o, e) ==
    events' = IF status[o] = "absent" THEN events
              ELSE [events EXCEPT ![o][e] = @ + 1]

\* Mutant: the UPDATE has no `AND status = 'started'`.
FinishAlways(o, s) ==
    status' = IF status[o] # "absent" THEN [status EXCEPT ![o] = s] ELSE status

\* finish_audit_operation_on_connection: UPDATE ... WHERE status = 'started'.
FinishOperation(o, s) ==
    status' = IF status[o] = "started" THEN [status EXCEPT ![o] = s] ELSE status

Goto(o, from, to) ==
    /\ proc[owner[o]] = "up"
    /\ pc[o] = from
    /\ pc' = [pc EXCEPT ![o] = to]

Affect(o, what) == effects' = [effects EXCEPT ![o] = @ \cup {what}]

(***************************************************************************)
(* Handlers.                                                               *)
(***************************************************************************)
Create(o) ==
    /\ Goto(o, "idle", "created")
    /\ status' = [status EXCEPT ![o] = "started"]
    /\ UNCHANGED <<procs, events, effects>>

CreateFails(o) ==
    /\ Goto(o, "idle", IF kind[o] \in Strict THEN "error" ELSE "created")
    /\ UNCHANGED <<procs, log, effects>>

\* The document or file named by the call does not exist.  merge and remove
\* write 'failed' into the transaction and return without committing it, so
\* the row is as it was; the others return before they finish anything.
NotFound(o) ==
    /\ kind[o] \in {"merge", "remove", "tags", "metadata"}
    /\ Goto(o, "created", "not_found")
    /\ UNCHANGED <<procs, log, effects>>

\* delete_file and delete_content_from_document unlink the file first: it is
\* removed, or there is nothing to remove (already missing, an archive's
\* member), or the file system refuses, which remove only logs.
RemoveFile(o) ==
    /\ kind[o] \in {"delete", "remove"}
    /\ \/ /\ Goto(o, "created", "removed")
          /\ Affect(o, "file") \/ UNCHANGED effects
       \/ /\ kind[o] = "delete"
          /\ Goto(o, "created", "refused")
          /\ UNCHANGED effects
    /\ UNCHANGED <<procs, log>>

ReadyToWrite(o) == IF kind[o] \in {"delete", "remove"} THEN "removed" ELSE "created"

SuccessEvent(o) ==
    IF kind[o] # "delete" THEN "changed"
    ELSE IF "file" \in effects[o] THEN "deleted"
    ELSE "missing"

\* The transaction commits: the change, its event and, for FinishesInside,
\* the last status.
Commit(o) ==
    /\ kind[o] \in Transactional
    /\ Affect(o, "row")
    /\ AppendEvent(o, SuccessEvent(o))
    /\ IF kind[o] \in FinishesInside
         THEN /\ Goto(o, ReadyToWrite(o), "returned")
              /\ FinishOperation(o, "completed")
         ELSE /\ Goto(o, ReadyToWrite(o), "logged")
              /\ UNCHANGED status
    /\ UNCHANGED procs

\* The changing statement fails (no such content, a busy database); update_
\* reading_status, store_cover and delete_file finish and commit all the
\* same, without the event.
ChangeFails(o) ==
    /\ kind[o] \in FinishesInside
    /\ Goto(o, ReadyToWrite(o), "error")
    /\ FinishOperation(o, "completed")
    /\ UNCHANGED <<procs, events, effects>>

\* Mutant: the event is not rolled back with the transaction.
TransactionFailsEventStays(o) ==
    /\ kind[o] \in Transactional
    /\ Goto(o, ReadyToWrite(o), "error")
    /\ AppendEvent(o, SuccessEvent(o))
    /\ UNCHANGED <<procs, status, effects>>

\* The transaction cannot begin or commit, or a statement in it returns
\* early: everything in it is rolled back.
TransactionFails(o) ==
    /\ kind[o] \in Transactional
    /\ Goto(o, ReadyToWrite(o), "error")
    /\ UNCHANGED <<procs, log, effects>>

\* Without a common transaction: the change is committed by itself.
Apply(o) ==
    /\ kind[o] \in {"metadata", "import", "purge"}
    /\ Goto(o, "created", "applied")
    /\ Affect(o, "row")
    /\ UNCHANGED <<procs, log>>

\* The change fails: metadata returns, import goes on to finish as failed,
\* and a purge reports the record as removed all the same.
ApplyFails(o) ==
    /\ \/ kind[o] = "metadata" /\ Goto(o, "created", "error")
       \/ kind[o] = "import"   /\ Goto(o, "created", "failing")
       \/ kind[o] = "purge"    /\ Goto(o, "created", "applied")
    /\ UNCHANGED <<procs, log, effects>>

\* A purge finds no missing file and records no event.
NothingMissing(o) ==
    /\ kind[o] = "purge"
    /\ Goto(o, "created", "logged")
    /\ UNCHANGED <<procs, log, effects>>

\* The event of a change already committed, or of a deletion the file system
\* refused; a failure is only logged.
RecordEvent(o) ==
    /\ \/ /\ Goto(o, "applied", "logged")
          /\ AppendEvent(o, "changed") \/ UNCHANGED events
       \/ /\ Goto(o, "refused", "failing")
          /\ AppendEvent(o, "delete_failed") \/ UNCHANGED events
    /\ UNCHANGED <<procs, status, effects>>

\* Reading the changed document back, or the connection for the event, fails.
GiveUp(o) ==
    /\ \/ kind[o] \in {"metadata", "import"} /\ Goto(o, "applied", "error")
       \/ kind[o] = "import" /\ Goto(o, "failing", "error")
    /\ UNCHANGED <<procs, log, effects>>

\* finish_audit_operation on a connection of its own.
Finish(o) ==
    /\ \/ /\ Goto(o, "logged", IF kind[o] \in Strict /\ status[o] # "started"
                               THEN "error" ELSE "returned")
          /\ FinishOperation(o, "completed")
       \/ /\ Goto(o, "failing", "error")
          /\ FinishOperation(o, "failed")
    /\ UNCHANGED <<procs, events, effects>>

FinishFails(o) ==
    /\ \/ Goto(o, "logged", IF kind[o] \in Strict THEN "error" ELSE "returned")
       \/ Goto(o, "failing", "error")
    /\ UNCHANGED <<procs, log, effects>>

(***************************************************************************)
(* Processes.                                                              *)
(***************************************************************************)
Crash(p) ==
    /\ proc[p] # "down"
    /\ crashes < MaxCrashes
    /\ crashes' = crashes + 1
    /\ proc' = [proc EXCEPT ![p] = "down"]
    /\ stale' = [stale EXCEPT ![p] = {}]
    /\ marking' = [marking EXCEPT ![p] = None]
    /\ clean' = [clean EXCEPT ![p] = FALSE]
    /\ pc' = [o \in Ops |-> IF owner[o] = p /\ pc[o] # "idle" THEN "dead" ELSE pc[o]]
    /\ UNCHANGED <<calls, alone, log, effects>>

Join(p) == alone' = (alone /\ \A q \in Procs \ {p} : proc[q] = "down")

\* Mutant: only operations without an event yet are taken for unfinished.
StartSkipsLogged(p) ==
    /\ proc[p] = "down"
    /\ proc' = [proc EXCEPT ![p] = "recovering"]
    /\ stale' = [stale EXCEPT ![p] =
                     {o \in Ops : status[o] = "started" /\ events[o]["changed"] = 0}]
    /\ clean' = [clean EXCEPT ![p] = TRUE]
    /\ Join(p)
    /\ UNCHANGED <<calls, marking, crashes, pc, log, effects>>

\* ApplicationModule::new: interrupt_stale_operations selects what is
\* unfinished, whoever started it.
Start(p) ==
    /\ proc[p] = "down"
    /\ proc' = [proc EXCEPT ![p] = "recovering"]
    /\ stale' = [stale EXCEPT ![p] = {o \in Ops : status[o] = "started"}]
    /\ clean' = [clean EXCEPT ![p] = TRUE]
    /\ Join(p)
    /\ UNCHANGED <<calls, marking, crashes, pc, log, effects>>

\* The selection fails: a warning, and the application goes on.
StartWithoutRecovery(p) ==
    /\ proc[p] = "down"
    /\ proc' = [proc EXCEPT ![p] = "up"]
    /\ Join(p)
    /\ UNCHANGED <<calls, stale, marking, clean, crashes, pc, log, effects>>

\* The event of one interrupted operation; it is best-effort.
InterruptEvent(p, o) ==
    /\ proc[p] = "recovering"
    /\ marking[p] = None
    /\ o \in stale[p]
    /\ marking' = [marking EXCEPT ![p] = o]
    /\ AppendEvent(o, "interrupted") \/ UNCHANGED events
    /\ UNCHANGED <<calls, proc, stale, clean, crashes, alone, pc, status, effects>>

\* Its status; an error is ignored and the operation stays as it is.
InterruptFinish(p, o) ==
    /\ proc[p] = "recovering"
    /\ marking[p] = o
    /\ marking' = [marking EXCEPT ![p] = None]
    /\ stale' = [stale EXCEPT ![p] = @ \ {o}]
    /\ \/ /\ FinishOperation(o, "interrupted")
          /\ UNCHANGED clean
       \/ /\ clean' = [clean EXCEPT ![p] = FALSE]
          /\ UNCHANGED status
    /\ UNCHANGED <<calls, proc, crashes, alone, pc, events, effects>>

Serve(p) ==
    /\ proc[p] = "recovering"
    /\ stale[p] = {}
    /\ proc' = [proc EXCEPT ![p] = "up"]
    /\ UNCHANGED <<calls, stale, marking, clean, crashes, alone, pc, log, effects>>

Handle(o) ==
    \/ Create(o)
    \/ CreateFails(o)
    \/ NotFound(o)
    \/ RemoveFile(o)
    \/ Commit(o)
    \/ ChangeFails(o)
    \/ TransactionFails(o)
    \/ Apply(o)
    \/ ApplyFails(o)
    \/ NothingMissing(o)
    \/ RecordEvent(o)
    \/ GiveUp(o)
    \/ Finish(o)
    \/ FinishFails(o)

Process(p) ==
    \/ Crash(p)
    \/ Start(p)
    \/ StartWithoutRecovery(p)
    \/ Serve(p)
    \/ \E o \in Ops : InterruptEvent(p, o) \/ InterruptFinish(p, o)

Next ==
    \/ \E o \in Ops : Handle(o)
    \/ \E p \in Procs : Process(p)

Spec == Init /\ [][Next]_vars

(***************************************************************************)
(* Properties.                                                             *)
(***************************************************************************)
SuccessEvents == {"changed", "deleted", "missing"}

Recorded(o) == \E e \in SuccessEvents : events[o][e] > 0

\* A finished operation keeps its last status, though its handler and the
\* recoveries of other processes all try to write it
\* (OperationStatus::can_transition_to).
TerminalFinal ==
    [][\A o \in Ops : Terminal(status[o]) => status'[o] = status[o]]_vars

\* The history does not claim what did not happen: an event of success is
\* there only if the library was changed, "deleted" only if this operation
\* removed the file.  (A purge claims records it may have failed to remove.)
EventTruthful ==
    \A o \in Ops :
        /\ kind[o] # "purge" /\ Recorded(o) => "row" \in effects[o]
        /\ events[o]["deleted"] > 0 => "file" \in effects[o]

\* A change of one transaction is in the history as soon as it is in the
\* library, wherever the process stops; once and not twice.
RecordedAtomically ==
    \A o \in Ops :
        kind[o] \in Transactional /\ "row" \in effects[o] =>
            /\ kind[o] \in Strict => status[o] # "absent"
            /\ status[o] # "absent" => Recorded(o)
            /\ events[o]["changed"] <= 1

\* "completed" is believed: the operation's change is in the library.  The
\* handlers that finish after a failed statement, and a purge, are not of
\* these.
CompletedTruthful ==
    \A o \in Ops :
        kind[o] \notin (FinishesInside \cup {"purge"}) /\ status[o] = "completed"
            => "row" \in effects[o]

\* A process that recovered without an error has left nothing "started" of
\* what died before it.
Recovered ==
    \A p \in Procs : \A o \in Ops :
        proc[p] = "up" /\ clean[p] /\ owner[o] = p /\ pc[o] = "dead"
            => status[o] # "started"

\* Nothing is recorded under an operation that is over, while no two
\* processes have used the database at the same time.
NoEventAfterTerminal ==
    [][alone => \A o \in Ops : Terminal(status[o]) => events'[o] = events[o]]_vars

\* "interrupted" says that the process died before it finished the operation
\* ("a previous process died before finishing its operations").
InterruptedMeansDead ==
    \A o \in Ops : status[o] = "interrupted" => pc[o] = "dead"

\* It does, while no two processes have used the database at the same time.
InterruptedMeansDeadAlone == alone => InterruptedMeansDead

\* The history is what happened: it claims no success without its change and no
\* death of a process that lives, and a change of one transaction and its event
\* are in the database together.
HistoryTrue == EventTruthful /\ RecordedAtomically /\ InterruptedMeansDeadAlone

\* What is over stays as it is, whoever still works on it: the handler, a late
\* event, or the recoveries of two processes that start together.
OverIsOver ==
    [][\A o \in Ops : Terminal(status[o]) =>
          /\ status'[o] = status[o]
          /\ alone => events'[o] = events[o]]_vars

\* "a failed audit operation is recorded" for a content that is not part of
\* the document (delete_content_from_document).
FailureRecorded ==
    \A o \in Ops : kind[o] = "remove" /\ pc[o] = "not_found" => status[o] = "failed"
=============================================================================
