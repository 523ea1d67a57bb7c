--------------------------- MODULE AuditLog_proofs ---------------------------
(***************************************************************************)
(* Proofs about AuditLog, for any processes, any operations and any number *)
(* of crashes.                                                             *)
(*                                                                         *)
(* What the history may say of an operation depends on how far its handler *)
(* has come (OpInv): a handler that is still to write its event has not    *)
(* written one, a handler that is over cannot finish its operation.  What  *)
(* a recovery may do depends on whose operations it found (StaleInv): as   *)
(* long as processes never overlap they are of handlers that died.         *)
(***************************************************************************)
EXTENDS AuditLog, TLAPS

Running == {"created", "removed", "refused", "applied", "logged", "failing"}

Positions == {"idle", "created", "removed", "refused", "applied", "logged",
              "failing", "returned", "not_found", "error", "dead"}

\* What is known of how far an operation has come.
OpInv(o) ==
    /\ pc[o] = "idle" => status[o] = "absent" /\ effects[o] = {}
    /\ proc[owner[o]] # "up" => pc[o] \in {"idle", "dead"}
    /\ pc[o] \in Running => status[o] \notin {"completed", "failed"}
    /\ pc[o] \in {"created", "removed", "refused", "failing"} =>
           ~Recorded(o) /\ "row" \notin effects[o]
    /\ pc[o] \in {"applied", "logged"} /\ kind[o] # "purge" => "row" \in effects[o]
    /\ pc[o] = "applied" => kind[o] \notin Transactional
    /\ pc[o] = "refused" => kind[o] = "delete"
    /\ pc[o] = "failing" => kind[o] \in {"delete", "import"}
    /\ pc[o] = "logged" => kind[o] \notin FinishesInside
    /\ pc[o] \in Running /\ kind[o] \in Strict => status[o] # "absent"

\* What the history says of one operation: the operation's part of
\* EventTruthful, RecordedAtomically, CompletedTruthful and
\* InterruptedMeansDeadAlone.
OpTruth(o) ==
    /\ kind[o] # "purge" /\ Recorded(o) => "row" \in effects[o]
    /\ events[o]["deleted"] > 0 => "file" \in effects[o]
    /\ kind[o] \in Transactional /\ "row" \in effects[o] =>
           /\ kind[o] \in Strict => status[o] # "absent"
           /\ status[o] # "absent" => Recorded(o)
           /\ events[o]["changed"] <= 1
    /\ kind[o] \notin (FinishesInside \cup {"purge"}) /\ status[o] = "completed"
           => "row" \in effects[o]
    /\ alone /\ status[o] = "interrupted" => pc[o] = "dead"

\* What is known of one process.
StaleInv(p) ==
    /\ proc[p] # "recovering" => stale[p] = {} /\ marking[p] = None
    /\ marking[p] # None => marking[p] \in stale[p]
    /\ proc[p] = "down" => ~clean[p]
    /\ alone => \A o \in stale[p] : pc[o] = "dead" /\ status[o] = "started"
    /\ alone /\ proc[p] # "down" => \A q \in Procs \ {p} : proc[q] = "down"
    /\ clean[p] => \A o \in Ops : owner[o] = p /\ pc[o] = "dead" /\ status[o] = "started"
                                      => o \in stale[p]

IInv ==
    /\ TypeOK
    /\ \A o \in Ops : OpInv(o) /\ OpTruth(o)
    /\ \A p \in Procs : StaleInv(p)

USE OpsAssumption

-----------------------------------------------------------------------------
\* What the statements and the control of a handler do.

\* A handler that moves on belongs to a running process, and nothing happens
\* to the other handlers.
LEMMA GotoEffect ==
    ASSUME TypeOK, NEW o \in Ops, NEW from, NEW to, Goto(o, from, to)
    PROVE  /\ proc[owner[o]] = "up"
           /\ pc[o] = from /\ pc'[o] = to
           /\ \A x \in Ops \ {o} : pc'[x] = pc[x]
           /\ pc' = [pc EXCEPT ![o] = to]
           /\ to \in Positions => pc' \in [Ops -> Positions]
  BY DEF TypeOK, Goto, Positions

\* Appending touches one count of one operation, and none without a row.
LEMMA AppendEffect ==
    ASSUME TypeOK, NEW o \in Ops, NEW e \in EventTypes, AppendEvent(o, e)
    PROVE  /\ events' \in [Ops -> [EventTypes -> Nat]]
           /\ \A x \in Ops \ {o} : events'[x] = events[x]
           /\ \A f \in EventTypes \ {e} : events'[o][f] = events[o][f]
           /\ status[o] = "absent" => events'[o] = events[o]
           /\ status[o] # "absent" => events'[o][e] = events[o][e] + 1
<1>1. CASE status[o] = "absent"
  BY <1>1 DEF TypeOK, AppendEvent
<1>2. CASE status[o] # "absent"
  <2>1. events' = [events EXCEPT ![o] = [events[o] EXCEPT ![e] = events[o][e] + 1]]
    BY <1>2 DEF AppendEvent
  <2>2. events[o] \in [EventTypes -> Nat] /\ events \in [Ops -> [EventTypes -> Nat]]
    BY DEF TypeOK
  <2>3. [events[o] EXCEPT ![e] = events[o][e] + 1] \in [EventTypes -> Nat]
    BY <2>2
  <2> HIDE DEF EventTypes
  <2> QED
    BY <1>2, <2>1, <2>2, <2>3
<1> QED
  BY <1>1, <1>2

\* Finishing touches one operation, and only one that is started.
LEMMA FinishEffect ==
    ASSUME TypeOK, NEW o \in Ops, NEW s \in Statuses, FinishOperation(o, s)
    PROVE  /\ status' \in [Ops -> Statuses]
           /\ \A x \in Ops \ {o} : status'[x] = status[x]
           /\ status[o] = "started" => status'[o] = s
           /\ status[o] # "started" => status'[o] = status[o]
  BY DEF TypeOK, FinishOperation

\* A change of the library is a change of this operation's own.
LEMMA AffectEffect ==
    ASSUME TypeOK, NEW o \in Ops, NEW w \in {"file", "row"}, Affect(o, w)
    PROVE  /\ effects' \in [Ops -> SUBSET {"file", "row"}]
           /\ \A x \in Ops \ {o} : effects'[x] = effects[x]
           /\ effects'[o] = effects[o] \cup {w}
  BY DEF TypeOK, Affect

-----------------------------------------------------------------------------
\* One step of a handler.

\* The step of a handler is this operation's own.
Only(o) ==
    /\ UNCHANGED procs
    /\ proc[owner[o]] = "up"
    /\ pc[o] # "dead" /\ pc'[o] # "dead"
    /\ pc'[o] # "idle"
    /\ TypeOK'
    /\ \A x \in Ops \ {o} : /\ pc'[x] = pc[x]
                            /\ status'[x] = status[x]
                            /\ events'[x] = events[x]
                            /\ effects'[x] = effects[x]

\* Every step of a handler keeps what is known of its operation, and touches
\* no other.
LEMMA HandleStep ==
    ASSUME TypeOK, NEW o \in Ops, OpInv(o), OpTruth(o), Handle(o)
    PROVE  Only(o) /\ OpInv(o)' /\ OpTruth(o)'
<1> USE DEF Only, procs, calls, log, Transactional, FinishesInside, Strict, Running,
            EventTypes
<1>1. CASE Create(o)
  <2>1. /\ status' \in [Ops -> Statuses] /\ status'[o] = "started"
        /\ \A x \in Ops \ {o} : status'[x] = status[x]
    BY <1>1 DEF Create, TypeOK, Statuses
  <2>2. pc[o] = "idle" /\ pc'[o] = "created"
    BY <1>1, GotoEffect DEF Create
  <2>3. Only(o)
    <3>1. \A x \in Ops : status'[x] = "absent" => \A e \in EventTypes : events'[x][e] = 0
      BY <1>1, <2>1 DEF Create, TypeOK
    <3>2. /\ proc[owner[o]] = "up" /\ \A x \in Ops \ {o} : pc'[x] = pc[x]
          /\ pc' = [pc EXCEPT ![o] = "created"]
      BY <1>1, GotoEffect DEF Create
    <3> QED
      BY <1>1, <2>1, <2>2, <3>1, <3>2 DEF Create, TypeOK
  <2>4. OpInv(o)' /\ OpTruth(o)'
    BY <1>1, <2>1, <2>2, <2>3 DEF Create, OpInv, OpTruth, TypeOK, Recorded, SuccessEvents
  <2> QED
    BY <2>3, <2>4
<1>2. CASE CreateFails(o)
  <2>1. Only(o) /\ pc'[o] \in {"created", "error"} /\ pc[o] = "idle"
    BY <1>2, GotoEffect DEF CreateFails, TypeOK
  <2>2. OpInv(o)' /\ OpTruth(o)'
    BY <1>2, <2>1, GotoEffect DEF CreateFails, OpInv, OpTruth, TypeOK, Recorded, SuccessEvents
  <2> QED
    BY <2>1, <2>2
<1>3. CASE NotFound(o)
  BY <1>3, GotoEffect DEF NotFound, OpInv, OpTruth, TypeOK, Recorded, SuccessEvents
<1>4. CASE RemoveFile(o)
  <2>1. /\ effects' \in [Ops -> SUBSET {"file", "row"}]
        /\ \A x \in Ops \ {o} : effects'[x] = effects[x]
        /\ effects'[o] \in {effects[o], effects[o] \cup {"file"}}
    BY <1>4, AffectEffect DEF RemoveFile, TypeOK
  <2>2. /\ pc[o] = "created" /\ pc'[o] \in {"removed", "refused"}
        /\ kind[o] \in {"delete", "remove"} /\ (pc'[o] = "refused" => kind[o] = "delete")
    BY <1>4, GotoEffect DEF RemoveFile
  <2>3. /\ proc[owner[o]] = "up" /\ \A x \in Ops \ {o} : pc'[x] = pc[x]
        /\ pc' = [pc EXCEPT ![o] = pc'[o]]
    BY <1>4, GotoEffect DEF RemoveFile
  <2>4. Only(o)
    BY <1>4, <2>1, <2>2, <2>3 DEF RemoveFile, TypeOK
  <2>5. OpInv(o)' /\ OpTruth(o)'
    BY <1>4, <2>1, <2>2, <2>4 DEF RemoveFile, OpInv, OpTruth, TypeOK, Recorded, SuccessEvents
  <2> QED
    BY <2>4, <2>5
<1>5. CASE Commit(o)
  <2> DEFINE e == SuccessEvent(o)
  <2>1. /\ effects' \in [Ops -> SUBSET {"file", "row"}]
        /\ \A x \in Ops \ {o} : effects'[x] = effects[x]
        /\ effects'[o] = effects[o] \cup {"row"}
    BY <1>5, AffectEffect DEF Commit
  <2>2. e \in SuccessEvents /\ (e = "deleted" => "file" \in effects[o])
    BY DEF SuccessEvent, SuccessEvents
  <2>3. /\ events' \in [Ops -> [EventTypes -> Nat]]
        /\ \A x \in Ops \ {o} : events'[x] = events[x]
        /\ \A f \in EventTypes \ {e} : events'[o][f] = events[o][f]
        /\ status[o] = "absent" => events'[o] = events[o]
        /\ status[o] # "absent" => events'[o][e] = events[o][e] + 1
    BY <1>5, <2>2, AppendEffect DEF Commit, SuccessEvents
  <2>4. /\ pc[o] \in {"created", "removed"}
        /\ pc'[o] = IF kind[o] \in FinishesInside THEN "returned" ELSE "logged"
        /\ proc[owner[o]] = "up"
        /\ pc' \in [Ops -> Positions]
        /\ \A x \in Ops \ {o} : pc'[x] = pc[x]
    BY <1>5, GotoEffect DEF Commit, ReadyToWrite, Positions
  <2>5. /\ status' \in [Ops -> Statuses]
        /\ \A x \in Ops \ {o} : status'[x] = status[x]
        /\ status'[o] = IF kind[o] \in FinishesInside /\ status[o] = "started"
                        THEN "completed" ELSE status[o]
    BY <1>5, FinishEffect DEF Commit, TypeOK, Statuses
  <2>6. Only(o)
    BY <1>5, <2>1, <2>3, <2>4, <2>5 DEF Commit, TypeOK, Positions
  <2> HIDE DEF e
  <2>7. OpInv(o)'
    BY <1>5, <2>1, <2>4, <2>5, <2>6 DEF Commit, OpInv, TypeOK
  <2>8. events[o] \in [EventTypes -> Nat] /\ events'[o] \in [EventTypes -> Nat]
    BY <2>3 DEF TypeOK
  <2>9. /\ ~Recorded(o)
        /\ \A f \in SuccessEvents : events[o][f] = 0
        /\ events'[o]["changed"] <= 1
        /\ status'[o] # "absent" => Recorded(o)'
        /\ events'[o]["deleted"] > 0 => "file" \in effects[o]
    BY <2>2, <2>3, <2>4, <2>5, <2>8 DEF OpInv, Recorded, SuccessEvents
  <2>10. OpTruth(o)'
    BY <1>5, <2>1, <2>4, <2>5, <2>6, <2>9 DEF OpInv, OpTruth
  <2> QED
    BY <2>6, <2>7, <2>10
<1>6. CASE ChangeFails(o)
  <2>1. /\ status' \in [Ops -> Statuses]
        /\ \A x \in Ops \ {o} : status'[x] = status[x]
        /\ status'[o] = IF status[o] = "started" THEN "completed" ELSE status[o]
    BY <1>6, FinishEffect DEF ChangeFails, Statuses
  <2>2. /\ pc[o] \in {"created", "removed"} /\ pc'[o] = "error"
        /\ kind[o] \in FinishesInside
        /\ proc[owner[o]] = "up" /\ \A x \in Ops \ {o} : pc'[x] = pc[x]
        /\ pc' = [pc EXCEPT ![o] = "error"]
    BY <1>6, GotoEffect DEF ChangeFails, ReadyToWrite
  <2>3. Only(o)
    BY <1>6, <2>1, <2>2 DEF ChangeFails, TypeOK
  <2>4. OpInv(o)' /\ OpTruth(o)'
    BY <1>6, <2>1, <2>2, <2>3 DEF ChangeFails, OpInv, OpTruth, TypeOK, Recorded, SuccessEvents
  <2> QED
    BY <2>3, <2>4
<1>7. CASE TransactionFails(o)
  <2>1. /\ pc[o] \in {"created", "removed"} /\ pc'[o] = "error"
        /\ proc[owner[o]] = "up" /\ \A x \in Ops \ {o} : pc'[x] = pc[x]
        /\ pc' = [pc EXCEPT ![o] = "error"]
    BY <1>7, GotoEffect DEF TransactionFails, ReadyToWrite
  <2> QED
    BY <1>7, <2>1 DEF TransactionFails, OpInv, OpTruth, TypeOK, Recorded, SuccessEvents
<1>8. CASE Apply(o)
  <2>1. /\ effects' \in [Ops -> SUBSET {"file", "row"}]
        /\ \A x \in Ops \ {o} : effects'[x] = effects[x]
        /\ effects'[o] = effects[o] \cup {"row"}
    BY <1>8, AffectEffect DEF Apply
  <2>2. /\ pc[o] = "created" /\ pc'[o] = "applied"
        /\ proc[owner[o]] = "up" /\ \A x \in Ops \ {o} : pc'[x] = pc[x]
        /\ pc' = [pc EXCEPT ![o] = "applied"]
    BY <1>8, GotoEffect DEF Apply
  <2>3. Only(o)
    BY <1>8, <2>1, <2>2 DEF Apply, TypeOK
  <2>4. OpInv(o)' /\ OpTruth(o)'
    BY <1>8, <2>1, <2>2, <2>3 DEF Apply, OpInv, OpTruth, TypeOK, Recorded, SuccessEvents
  <2> QED
    BY <2>3, <2>4
<1>9. CASE ApplyFails(o)
  <2>1. /\ pc[o] = "created"
        /\ \/ kind[o] = "metadata" /\ pc'[o] = "error"
           \/ kind[o] = "import" /\ pc'[o] = "failing"
           \/ kind[o] = "purge" /\ pc'[o] = "applied"
        /\ proc[owner[o]] = "up" /\ \A x \in Ops \ {o} : pc'[x] = pc[x]
        /\ pc' = [pc EXCEPT ![o] = pc'[o]]
    BY <1>9, GotoEffect DEF ApplyFails
  <2> QED
    BY <1>9, <2>1 DEF ApplyFails, OpInv, OpTruth, TypeOK, Recorded, SuccessEvents
<1>10. CASE NothingMissing(o)
  BY <1>10, GotoEffect DEF NothingMissing, OpInv, OpTruth, TypeOK, Recorded, SuccessEvents
<1>11. CASE RecordEvent(o)
  <2>1. PICK e \in {"changed", "delete_failed"} :
            /\ AppendEvent(o, e) \/ UNCHANGED events
            /\ \/ pc[o] = "applied" /\ pc'[o] = "logged" /\ e = "changed"
               \/ pc[o] = "refused" /\ pc'[o] = "failing" /\ e = "delete_failed"
    BY <1>11, GotoEffect DEF RecordEvent, Positions
  <2>2. /\ proc[owner[o]] = "up" /\ \A x \in Ops \ {o} : pc'[x] = pc[x]
        /\ pc' \in [Ops -> Positions]
    BY <1>11, GotoEffect DEF RecordEvent, Positions
  <2>3. /\ events' \in [Ops -> [EventTypes -> Nat]]
        /\ \A x \in Ops \ {o} : events'[x] = events[x]
        /\ \A f \in EventTypes \ {e} : events'[o][f] = events[o][f]
        /\ status[o] = "absent" => events'[o] = events[o]
    BY <2>1, AppendEffect DEF TypeOK
  <2>4. Only(o)
    BY <1>11, <2>1, <2>2, <2>3 DEF RecordEvent, TypeOK, Positions
  <2>5. OpInv(o)' /\ OpTruth(o)'
    BY <1>11, <2>1, <2>2, <2>3, <2>4 DEF RecordEvent, OpInv, OpTruth, Recorded, SuccessEvents
  <2> QED
    BY <2>4, <2>5
<1>12. CASE GiveUp(o)
  <2>1. /\ pc[o] \in {"applied", "failing"} /\ pc'[o] = "error"
        /\ proc[owner[o]] = "up" /\ \A x \in Ops \ {o} : pc'[x] = pc[x]
        /\ pc' = [pc EXCEPT ![o] = "error"]
    BY <1>12, GotoEffect DEF GiveUp
  <2> QED
    BY <1>12, <2>1 DEF GiveUp, OpInv, OpTruth, TypeOK, Recorded, SuccessEvents
<1>13. CASE Finish(o)
  <2>1. /\ \/ pc[o] = "logged" /\ FinishOperation(o, "completed")
           \/ pc[o] = "failing" /\ FinishOperation(o, "failed")
        /\ pc'[o] \in {"returned", "error"}
        /\ proc[owner[o]] = "up" /\ \A x \in Ops \ {o} : pc'[x] = pc[x]
        /\ pc' \in [Ops -> Positions]
    BY <1>13, GotoEffect DEF Finish, Positions
  <2>2. /\ status' \in [Ops -> Statuses]
        /\ \A x \in Ops \ {o} : status'[x] = status[x]
        /\ status'[o] # status[o] => /\ status[o] = "started"
                                     /\ \/ pc[o] = "logged" /\ status'[o] = "completed"
                                        \/ pc[o] = "failing" /\ status'[o] = "failed"
    BY <2>1, FinishEffect DEF Statuses
  <2>3. status'[o] = "absent" <=> status[o] = "absent"
    BY <2>2
  <2>4. Only(o)
    BY <1>13, <2>1, <2>2, <2>3 DEF Finish, TypeOK, Positions
  <2>5. OpInv(o)' /\ OpTruth(o)'
    BY <1>13, <2>1, <2>2, <2>3, <2>4 DEF Finish, OpInv, OpTruth, TypeOK, Recorded, SuccessEvents
  <2> QED
    BY <2>4, <2>5
<1>14. CASE FinishFails(o)
  <2>1. /\ pc[o] \in {"logged", "failing"} /\ pc'[o] \in {"returned", "error"}
        /\ proc[owner[o]] = "up" /\ \A x \in Ops \ {o} : pc'[x] = pc[x]
        /\ pc' \in [Ops -> Positions]
    BY <1>14, GotoEffect DEF FinishFails, Positions
  <2>2. Only(o)
    BY <1>14, <2>1 DEF FinishFails, TypeOK, Positions
  <2>3. OpInv(o)' /\ OpTruth(o)'
    BY <1>14, <2>1, <2>2 DEF FinishFails, OpInv, OpTruth, Recorded, SuccessEvents
  <2> QED
    BY <2>2, <2>3
<1> QED
  BY <1>1, <1>2, <1>3, <1>4, <1>5, <1>6, <1>7, <1>8, <1>9, <1>10, <1>11, <1>12, <1>13,
     <1>14 DEF Handle

-----------------------------------------------------------------------------
\* One step of a process.

\* Stopping, starting and recovering keep what is known of operations and
\* processes.
LEMMA ProcessStep ==
    ASSUME IInv, NEW p \in Procs, Process(p)
    PROVE  IInv'
<1> USE DEF IInv, StaleInv, calls, log
<1>1. CASE Crash(p)
  <2>1. TypeOK'
    BY <1>1 DEF Crash, TypeOK
  <2>2. \A o \in Ops : /\ pc'[o] \in {pc[o], "dead"} /\ (pc[o] = "dead" => pc'[o] = "dead")
                       /\ owner[o] = p => pc'[o] \in {"idle", "dead"}
                       /\ pc'[o] = "idle" <=> pc[o] = "idle"
                       /\ owner[o] # p => pc'[o] = pc[o]
    BY <1>1 DEF Crash
  <2>3. ASSUME NEW o \in Ops
        PROVE  OpInv(o)' /\ OpTruth(o)'
    <3>1. proc'[owner[o]] # "up" => pc'[o] \in {"idle", "dead"}
      BY <1>1, <2>2 DEF Crash, TypeOK, OpInv
    <3> QED
      BY <1>1, <2>2, <3>1 DEF Crash, OpInv, OpTruth, Recorded, Running
  <2>4. ASSUME NEW q \in Procs
        PROVE  StaleInv(q)'
    BY <1>1, <2>2 DEF Crash, TypeOK
  <2> QED
    BY <2>1, <2>3, <2>4
<1>2. CASE Start(p)
  <2>1. TypeOK'
    BY <1>2 DEF Start, Join, TypeOK
  <2>2. ASSUME NEW o \in Ops
        PROVE  OpInv(o)' /\ OpTruth(o)'
    BY <1>2 DEF Start, Join, TypeOK, OpInv, OpTruth, Recorded
  <2>3. ASSUME alone', NEW o \in Ops, status[o] = "started"
        PROVE  pc[o] = "dead"
    <3>1. proc[owner[o]] = "down"
      BY <1>2, <2>3 DEF Start, Join, TypeOK
    <3> QED
      BY <2>3, <3>1 DEF OpInv
  <2>4. ASSUME NEW q \in Procs
        PROVE  StaleInv(q)'
    <3>1. CASE q = p
      BY <1>2, <2>3, <3>1 DEF Start, Join, TypeOK
    <3>2. CASE q # p
      BY <1>2, <3>2 DEF Start, Join, TypeOK
    <3> QED
      BY <3>1, <3>2
  <2> QED
    BY <2>1, <2>2, <2>4
<1>3. CASE StartWithoutRecovery(p)
  <2>1. TypeOK'
    BY <1>3 DEF StartWithoutRecovery, Join, TypeOK
  <2>2. ASSUME NEW o \in Ops
        PROVE  OpInv(o)' /\ OpTruth(o)'
    BY <1>3 DEF StartWithoutRecovery, Join, TypeOK, OpInv, OpTruth, Recorded
  <2>3. ASSUME NEW q \in Procs
        PROVE  StaleInv(q)'
    BY <1>3 DEF StartWithoutRecovery, Join, TypeOK
  <2> QED
    BY <2>1, <2>2, <2>3
<1>4. CASE Serve(p)
  <2>1. TypeOK'
    BY <1>4 DEF Serve, TypeOK
  <2>2. ASSUME NEW o \in Ops
        PROVE  OpInv(o)' /\ OpTruth(o)'
    BY <1>4 DEF Serve, TypeOK, OpInv, OpTruth, Recorded
  <2>3. ASSUME NEW q \in Procs
        PROVE  StaleInv(q)'
    BY <1>4 DEF Serve, TypeOK
  <2> QED
    BY <2>1, <2>2, <2>3
<1>5. ASSUME NEW x \in Ops, InterruptEvent(p, x)
      PROVE  IInv'
  <2>1. /\ events' \in [Ops -> [EventTypes -> Nat]]
        /\ \A o \in Ops \ {x} : events'[o] = events[o]
        /\ \A f \in EventTypes \ {"interrupted"} : events'[x][f] = events[x][f]
        /\ status[x] = "absent" => events'[x] = events[x]
    BY <1>5, AppendEffect DEF InterruptEvent, TypeOK, EventTypes
  <2>2. TypeOK'
    BY <1>5, <2>1 DEF InterruptEvent, TypeOK
  <2>3. ASSUME NEW o \in Ops
        PROVE  OpInv(o)' /\ OpTruth(o)'
    <3>1. \A f \in EventTypes \ {"interrupted"} : events'[o][f] = events[o][f]
      BY <2>1
    <3> QED
      BY <1>5, <3>1 DEF InterruptEvent, OpInv, OpTruth, Recorded, SuccessEvents, EventTypes
  <2>4. ASSUME NEW q \in Procs
        PROVE  StaleInv(q)'
    BY <1>5 DEF InterruptEvent, TypeOK
  <2> QED
    BY <2>2, <2>3, <2>4
<1>6. ASSUME NEW x \in Ops, InterruptFinish(p, x)
      PROVE  IInv'
  <2>1. /\ status' \in [Ops -> Statuses]
        /\ \A o \in Ops \ {x} : status'[o] = status[o]
        /\ status'[x] # status[x] => status[x] = "started" /\ status'[x] = "interrupted"
        /\ clean'[p] => status'[x] # "started"
    BY <1>6, FinishEffect DEF InterruptFinish, TypeOK, Statuses
  <2>2. TypeOK'
    <3>1. /\ clean' \in [Procs -> BOOLEAN]
          /\ marking' \in [Procs -> Ops \cup {None}]
          /\ stale' \in [Procs -> SUBSET Ops]
      BY <1>6 DEF InterruptFinish, TypeOK
    <3>2. UNCHANGED <<kind, owner, alone, proc, crashes, pc, events, effects>>
      BY <1>6 DEF InterruptFinish, calls
    <3> QED
      BY <2>1, <3>1, <3>2 DEF TypeOK
  <2>3. x \in stale[p] /\ proc[p] = "recovering"
    BY <1>6 DEF InterruptFinish
  <2>4. ASSUME NEW o \in Ops
        PROVE  OpInv(o)' /\ OpTruth(o)'
    BY <1>6, <2>1, <2>3 DEF InterruptFinish, OpInv, OpTruth, Recorded, Running
  <2>5. ASSUME NEW q \in Procs
        PROVE  StaleInv(q)'
    <3>1. CASE q = p
      BY <1>6, <2>1, <3>1 DEF InterruptFinish, TypeOK
    <3>2. CASE q # p
      <4>1. stale'[q] = stale[q] /\ marking'[q] = marking[q] /\ clean'[q] = clean[q]
        BY <1>6, <3>2 DEF InterruptFinish, TypeOK
      <4>2. alone => stale[q] = {}
        BY <2>3, <3>2
      <4> QED
        BY <1>6, <2>1, <3>2, <4>1, <4>2 DEF InterruptFinish, TypeOK
    <3> QED
      BY <3>1, <3>2
  <2> QED
    BY <2>2, <2>4, <2>5
<1> QED
  BY <1>1, <1>2, <1>3, <1>4, <1>5, <1>6 DEF Process

-----------------------------------------------------------------------------
\* The inductive invariant.

\* The initial state satisfies it.
LEMMA InitIInv == Init => IInv
  BY DEF Init, IInv, TypeOK, OpInv, OpTruth, StaleInv, Recorded, SuccessEvents, Kinds,
         EventTypes, Statuses, Running

\* Every step preserves it.
LEMMA StepIInv == IInv /\ [Next]_vars => IInv'
<1> SUFFICES ASSUME IInv, [Next]_vars
             PROVE  IInv'
  OBVIOUS
<1>1. ASSUME NEW o \in Ops, Handle(o)
      PROVE  IInv'
  <2>1. Only(o) /\ OpInv(o)' /\ OpTruth(o)'
    BY <1>1, HandleStep DEF IInv
  <2>2. ASSUME NEW x \in Ops \ {o}
        PROVE  OpInv(x)' /\ OpTruth(x)'
    BY <2>1 DEF IInv, Only, OpInv, OpTruth, Recorded, procs, calls
  <2>3. ASSUME NEW q \in Procs
        PROVE  StaleInv(q)'
    BY <2>1 DEF IInv, StaleInv, Only, procs, calls, TypeOK
  <2> QED
    BY <2>1, <2>2, <2>3 DEF IInv, Only
<1>2. CASE UNCHANGED vars
  BY <1>2 DEF vars, procs, calls, log, IInv, TypeOK, OpInv, OpTruth, StaleInv, Recorded
<1> QED
  BY <1>1, <1>2, ProcessStep DEF Next

\* The inductive invariant holds in every reachable state.
THEOREM Invariance == Spec => []IInv
  BY InitIInv, StepIInv, PTL DEF Spec

-----------------------------------------------------------------------------
\* What it implies.

\* Every variable keeps its type, and no event is without its operation.
THEOREM TypeCorrect == Spec => []TypeOK
  BY Invariance, PTL DEF IInv

\* The history claims no change that did not happen.
THEOREM Truthful == Spec => []EventTruthful
<1>1. IInv => EventTruthful
  BY DEF IInv, OpTruth, EventTruthful
<1> QED
  BY <1>1, Invariance, PTL

\* A change of one transaction and its event are in the database together,
\* and the event once, wherever a process stops.
THEOREM Atomicity == Spec => []RecordedAtomically
<1>1. IInv => RecordedAtomically
  BY DEF IInv, OpTruth, RecordedAtomically
<1> QED
  BY <1>1, Invariance, PTL

\* A completed operation has changed the library.
THEOREM Completion == Spec => []CompletedTruthful
<1>1. IInv => CompletedTruthful
  BY DEF IInv, OpTruth, CompletedTruthful
<1> QED
  BY <1>1, Invariance, PTL

\* A process that recovered without an error left nothing unfinished behind.
THEOREM Recovery == Spec => []Recovered
<1>1. IInv => Recovered
  BY DEF IInv, StaleInv, Recovered
<1> QED
  BY <1>1, Invariance, PTL

\* While processes do not overlap, only what died is called interrupted.
THEOREM Interruption == Spec => []InterruptedMeansDeadAlone
<1>1. IInv => InterruptedMeansDeadAlone
  BY DEF IInv, OpTruth, InterruptedMeansDeadAlone, InterruptedMeansDead
<1> QED
  BY <1>1, Invariance, PTL

\* An operation that is over keeps its last status.
THEOREM Finality == Spec => TerminalFinal
<1>1. ASSUME IInv, [Next]_vars, NEW o \in Ops, Terminal(status[o])
      PROVE  status'[o] = status[o]
  <2> USE DEF Terminal
  <2>1. ASSUME NEW x \in Ops, Handle(x)
        PROVE  status'[o] = status[o]
    <3>1. CASE x # o
      <4>1. Only(x)
        BY <1>1, <2>1, HandleStep DEF IInv
      <4> QED
        BY <3>1, <4>1 DEF Only
    <3>2. CASE x = o
      <4>1. CASE Create(o)
        BY <1>1, <4>1, GotoEffect DEF IInv, OpInv, Create
      <4>2. CASE Commit(o) \/ ChangeFails(o)
        BY <1>1, <4>2, FinishEffect DEF IInv, Commit, ChangeFails, Statuses
      <4>3. CASE Finish(o)
        BY <1>1, <4>3, FinishEffect DEF IInv, Finish, Statuses
      <4> QED
        BY <2>1, <3>2, <4>1, <4>2, <4>3
        DEF Handle, log, CreateFails, NotFound, RemoveFile, TransactionFails, Apply,
            ApplyFails, NothingMissing, RecordEvent, GiveUp, FinishFails
    <3> QED
      BY <3>1, <3>2
  <2>2. ASSUME NEW p \in Procs, Process(p)
        PROVE  status'[o] = status[o]
    <3>1. ASSUME NEW x \in Ops, InterruptFinish(p, x)
          PROVE  status'[o] = status[o]
      BY <1>1, <3>1, FinishEffect DEF IInv, InterruptFinish, Statuses
    <3> QED
      BY <2>2, <3>1
      DEF Process, log, Crash, Start, StartWithoutRecovery, Serve, InterruptEvent
  <2>3. CASE UNCHANGED vars
    BY <2>3 DEF vars, log
  <2> QED
    BY <1>1, <2>1, <2>2, <2>3 DEF Next
<1>2. IInv /\ [Next]_vars
        => [\A o \in Ops : Terminal(status[o]) => status'[o] = status[o]]_vars
  BY <1>1
<1> QED
  BY <1>2, Invariance, PTL DEF Spec, TerminalFinal

\* While processes do not overlap, the events of an operation that is over
\* are complete.
THEOREM Silence == Spec => NoEventAfterTerminal
<1>1. ASSUME IInv, [Next]_vars, alone, NEW o \in Ops, Terminal(status[o])
      PROVE  events'[o] = events[o]
  <2> USE DEF Terminal
  <2>1. ASSUME NEW x \in Ops, Handle(x)
        PROVE  events'[o] = events[o]
    <3>1. CASE x # o
      <4>1. Only(x)
        BY <1>1, <2>1, HandleStep DEF IInv
      <4> QED
        BY <3>1, <4>1 DEF Only
    <3>2. CASE x = o
      <4>1. pc[o] \notin Running
        BY <1>1 DEF IInv, OpInv, OpTruth, Running
      <4>2. ~Commit(o)
        BY <1>1, <4>1, GotoEffect DEF IInv, Commit, ReadyToWrite, Running
      <4>3. ~RecordEvent(o)
        BY <1>1, <4>1, GotoEffect DEF IInv, RecordEvent, Running
      <4> QED
        BY <2>1, <3>2, <4>2, <4>3
        DEF Handle, log, Create, CreateFails, NotFound, RemoveFile, ChangeFails,
            TransactionFails, Apply, ApplyFails, NothingMissing, GiveUp, Finish,
            FinishFails
    <3> QED
      BY <3>1, <3>2
  <2>2. ASSUME NEW p \in Procs, Process(p)
        PROVE  events'[o] = events[o]
    <3>1. ASSUME NEW x \in Ops, InterruptEvent(p, x)
          PROVE  events'[o] = events[o]
      <4>1. x # o
        BY <1>1, <3>1 DEF IInv, StaleInv, InterruptEvent
      <4> QED
        BY <1>1, <3>1, <4>1, AppendEffect DEF IInv, InterruptEvent, EventTypes
    <3> QED
      BY <2>2, <3>1
      DEF Process, log, Crash, Start, StartWithoutRecovery, Serve, InterruptFinish
  <2>3. CASE UNCHANGED vars
    BY <2>3 DEF vars, log
  <2> QED
    BY <1>1, <2>1, <2>2, <2>3 DEF Next
<1>2. IInv /\ [Next]_vars
        => [alone => \A o \in Ops : Terminal(status[o]) => events'[o] = events[o]]_vars
  BY <1>1
<1> QED
  BY <1>2, Invariance, PTL DEF Spec, NoEventAfterTerminal

\* The history is what happened.
THEOREM History == Spec => []HistoryTrue
<1>1. EventTruthful /\ RecordedAtomically /\ InterruptedMeansDeadAlone => HistoryTrue
  BY DEF HistoryTrue
<1> QED
  BY <1>1, Truthful, Atomicity, Interruption, PTL

\* What is over stays as it is.
THEOREM Over == Spec => OverIsOver
<1>1. (/\ [\A o \in Ops : Terminal(status[o]) => status'[o] = status[o]]_vars
       /\ [alone => \A o \in Ops : Terminal(status[o]) => events'[o] = events[o]]_vars)
      => [\A o \in Ops : Terminal(status[o]) =>
            /\ status'[o] = status[o]
            /\ alone => events'[o] = events[o]]_vars
  OBVIOUS
<1> QED
  BY <1>1, Finality, Silence, PTL DEF OverIsOver, TerminalFinal, NoEventAfterTerminal
=============================================================================
