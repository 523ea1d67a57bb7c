---------------------------- MODULE SettingsChain ----------------------------
(***************************************************************************)
(* ApplicationModule (core/src/lib.rs): the configuration file, the chain  *)
(* of ObservableCaches built on it, and everybody who changes or reads it. *)
(*                                                                         *)
(*     file --> settings --> connection_pool --> db_client --> documents   *)
(*                   \______________________________^                      *)
(*                                                                         *)
(* A cached value is modelled by the set of versions of the file it was    *)
(* built from ({} is an empty cache), so a db_client whose user id and     *)
(* pool come from different versions holds two.  A task inside provide()   *)
(* has one frame per cache it is filling and holds the write locks of all  *)
(* of them.  `documents` is the desktop application's cache on top of      *)
(* db_client; it is expired by a subscriber of the settings cache.         *)
(***************************************************************************)
EXTENDS Naturals, Sequences, FiniteSets

CONSTANTS Readers,     \* tasks that read settings, the pool or db_client
          Views,       \* the desktop application's document views
          Updaters,    \* tasks that call update_settings (REST admin)
          Forms,       \* preference forms that call save_settings (desktop)
          Editors,     \* people who edit the file, then reload_settings
          MaxWrites,   \* bound: how many of them write
          Free         \* nobody holds this lock

Tasks == Readers \cup Views
Writers == Updaters \cup Forms \cup Editors

\* Every writer writes once, and MaxWrites of them do.
Versions == 1..(1 + MaxWrites)

Chain == {"settings", "connection_pool", "db_client"}
Caches == Chain \cup {"documents"}

\* The caches the provider behind each cache calls, in its order.
Upstream == [settings        |-> <<>>,
             connection_pool |-> <<"settings">>,
             db_client       |-> <<"settings", "connection_pool">>,
             documents       |-> <<"db_client">>]

\* Mutant: the derived caches are expired before what they derive from.
InvalidationOrderReversed == <<"db_client", "connection_pool", "settings">>

\* The order of invalidate_caches and set_expired: deepest first.
InvalidationOrder == <<"settings", "connection_pool", "db_client">>

ASSUME WritersAssumption ==
    /\ IsFiniteSet(Writers)
    /\ Editors \cap (Updaters \cup Forms) = {}
    /\ MaxWrites \in 0..Cardinality(Writers)
    /\ Free \notin Tasks \cup Writers

VARIABLES file,     \* version of the configuration file
          content,  \* the writers whose change the file contains
          mutex,    \* settings_write_lock
          wpc,      \* where each writer is
          form,     \* the settings value each writer is about to save
          written,  \* the version each writer saved, 0 before
          exp,      \* how many caches the writer has still to expire, from
          value,    \* the cached values, as sets of versions
          lock,     \* the task inside each cache's write lock
          frame,    \* each task's progress in each cache's provide()
          result,   \* what each task's last call returned
          inbox,    \* a view has an Invalidated message to act on
          acked,    \* history: newest version whose writer has returned
          since     \* history: acked when the task's call began

disk == <<file, content>>
writers == <<mutex, wpc, form, written, exp>>
caches == <<value, lock>>
calls == <<frame, result, since>>
vars == <<disk, writers, caches, calls, inbox, acked>>

Steps == {"idle", "read", "write", "fetch", "await", "store"}
WriterSteps == {"idle", "locked", "extracted", "invalidate", "reload",
                "again", "done", "failed", "cancelled"}

NoFrame == [at |-> "idle", next |-> 1, acc |-> {}]

TypeOK ==
    /\ file \in Versions
    /\ content \subseteq Writers
    /\ mutex \in Writers \cup {Free}
    /\ wpc \in [Writers -> WriterSteps]
    /\ form \in [Writers -> SUBSET Writers]
    /\ written \in [Writers -> Versions \cup {0}]
    /\ exp \in [Writers -> 1..4]
    /\ value \in [Caches -> SUBSET Versions]
    /\ lock \in [Caches -> Tasks \cup {Free}]
    /\ frame \in [Tasks -> [Caches -> [at : Steps, next : 1..3,
                                       acc : SUBSET Versions]]]
    /\ result \in [Tasks -> SUBSET Versions]
    /\ inbox \in [Views -> BOOLEAN]
    /\ acked \in Versions
    /\ since \in [Tasks -> Versions]

\* ApplicationModule::new fills the whole chain eagerly; the preference
\* form takes its copy of the settings when the application starts.
Init ==
    /\ file = 1
    /\ content = {}
    /\ mutex = Free
    /\ wpc = [w \in Writers |-> "idle"]
    /\ form = [w \in Writers |-> {}]
    /\ written = [w \in Writers |-> 0]
    /\ exp = [w \in Writers |-> 1]
    /\ value = [k \in Caches |-> IF k \in Chain THEN {1} ELSE {}]
    /\ lock = [k \in Caches |-> Free]
    /\ frame = [p \in Tasks |-> [k \in Caches |-> NoFrame]]
    /\ result = [p \in Tasks |-> {}]
    /\ inbox = [v \in Views |-> FALSE]
    /\ acked = 1
    /\ since = [p \in Tasks |-> 1]

(***************************************************************************)
(* provide(), one await point at a time, for a task p in cache k.          *)
(***************************************************************************)
Resting(p) == \A k \in Caches : frame[p][k] = NoFrame

Enter(p, k) == frame' = [frame EXCEPT ![p][k].at = "read"]

Begin(p, k) ==
    /\ p \in Readers
    /\ k \in Chain
    /\ Resting(p)
    /\ Enter(p, k)
    /\ result' = [result EXCEPT ![p] = {}]
    /\ since' = [since EXCEPT ![p] = acked]
    /\ UNCHANGED <<disk, writers, caches, inbox, acked>>

\* The caches whose providers are waiting for p's call into k.
Waiting(p, k) ==
    {j \in Caches : /\ frame[p][j].at = "await"
                    /\ Upstream[j][frame[p][j].next] = k}

\* The frames f of a task in which the provider of k has had n - 1 answers
\* and goes on: it calls the next cache it derives from, or has all it needs.
Filling(f, k, n, acc) ==
    IF n <= Len(Upstream[k])
    THEN [f EXCEPT ![k] = [at |-> "await", next |-> n, acc |-> acc],
                   ![Upstream[k][n]].at = "read"]
    ELSE [f EXCEPT ![k] = [at   |-> IF k = "settings" THEN "fetch" ELSE "store",
                           next |-> n,
                           acc  |-> acc]]

\* p's call into k returns v, to the provider that made it or to p itself.
Return(p, k, v) ==
    LET left == [frame[p] EXCEPT ![k] = NoFrame]
    IN  \/ /\ Waiting(p, k) = {}
           /\ frame' = [frame EXCEPT ![p] = left]
           /\ result' = [result EXCEPT ![p] = v]
        \/ \E j \in Waiting(p, k) :
              LET was == frame[p][j]
              IN  /\ frame' = [frame EXCEPT ![p] =
                        Filling(left, j, was.next + 1, was.acc \cup v)]
                  /\ UNCHANGED result

ReadLocked(p, k) ==
    /\ frame[p][k].at = "read"
    /\ lock[k] = Free
    /\ \/ /\ value[k] # {}
          /\ Return(p, k, value[k])
       \/ /\ value[k] = {}
          /\ frame' = [frame EXCEPT ![p][k].at = "write"]
          /\ UNCHANGED result
    /\ UNCHANGED <<disk, writers, caches, since, inbox, acked>>

WriteLocked(p, k) ==
    /\ frame[p][k].at = "write"
    /\ lock[k] = Free
    /\ \/ /\ value[k] # {}
          /\ Return(p, k, value[k])
          /\ UNCHANGED lock
       \/ /\ value[k] = {}
          /\ frame' = [frame EXCEPT ![p] = Filling(@, k, 1, {})]
          /\ lock' = [lock EXCEPT ![k] = p]
          /\ UNCHANGED result
    /\ UNCHANGED <<disk, writers, value, since, inbox, acked>>

\* Settings::extract_from: the file is read, the value not yet stored.
ReadFile(p) ==
    /\ frame[p]["settings"].at = "fetch"
    /\ frame' = [frame EXCEPT ![p]["settings"].at = "store",
                              ![p]["settings"].acc = {file}]
    /\ UNCHANGED <<disk, writers, caches, result, since, inbox, acked>>

Store(p, k) ==
    /\ frame[p][k].at = "store"
    /\ value' = [value EXCEPT ![k] = frame[p][k].acc]
    /\ lock' = [lock EXCEPT ![k] = Free]
    /\ Return(p, k, frame[p][k].acc)
    /\ UNCHANGED <<disk, writers, since, inbox, acked>>

\* Mutant: unwinding keeps the write guards of the caches being filled.
AbandonKeepsGuards(p) ==
    /\ p \in Readers
    /\ ~Resting(p)
    /\ frame' = [frame EXCEPT ![p] = [k \in Caches |-> NoFrame]]
    /\ UNCHANGED <<disk, writers, caches, result, since, inbox, acked>>

\* The file does not parse, or the task is dropped at an await point: every
\* frame is unwound and every guard released, and nothing is stored.
Abandon(p) ==
    /\ p \in Readers
    /\ ~Resting(p)
    /\ frame' = [frame EXCEPT ![p] = [k \in Caches |-> NoFrame]]
    /\ lock' = [k \in Caches |-> IF lock[k] = p THEN Free ELSE lock[k]]
    /\ UNCHANGED <<disk, writers, value, result, since, inbox, acked>>

(***************************************************************************)
(* Writers.                                                                *)
(***************************************************************************)
WriterGoto(w, from, to) ==
    /\ wpc[w] = from
    /\ wpc' = [wpc EXCEPT ![w] = to]

Starting(w) ==
    Cardinality({x \in Writers : x # w /\ wpc[x] # "idle"}) < MaxWrites

\* Mutant: the cycle runs without waiting for settings_write_lock.
AcquireNoWait(w) ==
    /\ Starting(w)
    /\ w \in Updaters \cup Forms
    /\ WriterGoto(w, "idle", IF w \in Updaters THEN "locked" ELSE "extracted")
    /\ mutex' = w
    /\ UNCHANGED <<disk, form, written, exp, caches, calls, inbox, acked>>

\* update_settings and save_settings take settings_write_lock.
Acquire(w) ==
    /\ Starting(w)
    /\ w \in Updaters \cup Forms
    /\ mutex = Free
    /\ WriterGoto(w, "idle", IF w \in Updaters THEN "locked" ELSE "extracted")
    /\ mutex' = w
    /\ UNCHANGED <<disk, form, written, exp, caches, calls, inbox, acked>>

\* update_settings re-reads the file inside the lock.
Extract(w) ==
    /\ WriterGoto(w, "locked", "extracted")
    /\ form' = [form EXCEPT ![w] = content]
    /\ UNCHANGED <<disk, mutex, written, exp, caches, calls, inbox, acked>>

\* The mutation is applied and the whole value replaces the file, in one
\* rename.
Save(w) ==
    /\ WriterGoto(w, "extracted", "invalidate")
    /\ file' = file + 1
    /\ content' = form[w] \cup {w}
    /\ written' = [written EXCEPT ![w] = file + 1]
    /\ UNCHANGED <<mutex, form, exp, caches, calls, inbox, acked>>

\* Reading or writing the file fails: `?` returns and the guard is dropped.
WriteFails(w) ==
    /\ \/ WriterGoto(w, "locked", "failed")
       \/ WriterGoto(w, "extracted", "failed")
    /\ mutex' = Free
    /\ UNCHANGED <<disk, form, written, exp, caches, calls, inbox, acked>>

\* Somebody edits the file in place, outside the program and its lock.
EditFile(w) ==
    /\ Starting(w)
    /\ w \in Editors
    /\ WriterGoto(w, "idle", "reload")
    /\ file' = file + 1
    /\ content' = content \cup {w}
    /\ written' = [written EXCEPT ![w] = file + 1]
    /\ UNCHANGED <<mutex, form, exp, caches, calls, inbox, acked>>

Invalidating(w) == wpc[w] \in {"invalidate", "reload", "again"}

\* The next set_expired() of invalidate_caches: it waits for the cache's
\* write lock, empties it, and tells the subscribers, which only the
\* settings cache has.
Invalidate(w) ==
    /\ Invalidating(w)
    /\ exp[w] <= Len(InvalidationOrder)
    /\ LET k == InvalidationOrder[exp[w]]
       IN  /\ lock[k] = Free
           /\ value' = [value EXCEPT ![k] = {}]
           /\ inbox' = [v \in Views |-> inbox[v] \/ k = "settings"]
    /\ exp' = [exp EXCEPT ![w] = @ + 1]
    /\ UNCHANGED <<disk, mutex, wpc, form, written, lock, calls, acked>>

\* The writer's call returns.  The preferences page then expires the chain
\* once more (SaveComplete).
Finish(w) ==
    /\ exp[w] > Len(InvalidationOrder)
    /\ \/ /\ w \in Updaters
          /\ WriterGoto(w, "invalidate", "done")
          /\ mutex' = Free
          /\ UNCHANGED exp
       \/ /\ w \in Forms
          /\ WriterGoto(w, "invalidate", "again")
          /\ mutex' = Free
          /\ exp' = [exp EXCEPT ![w] = 1]
       \/ /\ WriterGoto(w, "reload", "done") \/ WriterGoto(w, "again", "done")
          /\ UNCHANGED <<mutex, exp>>
    /\ acked' = IF written[w] > acked THEN written[w] ELSE acked
    /\ UNCHANGED <<disk, form, written, caches, calls, inbox>>

\* A REST client goes away: the handler is dropped while it waits for the
\* lock of the next cache to expire.
CancelUpdate(w) ==
    /\ w \in Updaters
    /\ exp[w] <= Len(InvalidationOrder)
    /\ WriterGoto(w, "invalidate", "cancelled")
    /\ mutex' = Free
    /\ UNCHANGED <<disk, form, written, exp, caches, calls, inbox, acked>>

(***************************************************************************)
(* The desktop application: an Invalidated message expires `documents`     *)
(* and the view then loads it again.                                       *)
(***************************************************************************)
Refresh(v) ==
    /\ v \in Views
    /\ Resting(v)
    /\ inbox[v]
    /\ lock["documents"] = Free
    /\ value' = [value EXCEPT !["documents"] = {}]
    /\ inbox' = [inbox EXCEPT ![v] = FALSE]
    /\ Enter(v, "documents")
    /\ result' = [result EXCEPT ![v] = {}]
    /\ since' = [since EXCEPT ![v] = acked]
    /\ UNCHANGED <<disk, writers, lock, acked>>

Provide(p) ==
    \/ ReadFile(p)
    \/ \E k \in Caches :
          \/ ReadLocked(p, k)
          \/ WriteLocked(p, k)
          \/ Store(p, k)

Update(w) ==
    \/ Acquire(w)
    \/ Extract(w)
    \/ Save(w)
    \/ EditFile(w)
    \/ Invalidate(w)
    \/ Finish(w)

Next ==
    \/ \E p \in Tasks :
          \/ Provide(p)
          \/ Abandon(p)
          \/ \E k \in Caches : Begin(p, k)
    \/ \E v \in Views : Refresh(v)
    \/ \E w \in Writers :
          \/ Update(w)
          \/ WriteFails(w)
          \/ CancelUpdate(w)

Spec == Init /\ [][Next]_vars

(***************************************************************************)
(* tokio runs every ready task and its locks are first come, first served, *)
(* so a task or writer that can go on again and again does go on.  That a  *)
(* writer starts at all is part of the question the liveness run asks.     *)
(***************************************************************************)
Fairness ==
    /\ \A p \in Tasks : SF_vars(Provide(p))
    /\ \A w \in Writers : SF_vars(Update(w))

FairSpec == Spec /\ Fairness

(***************************************************************************)
(* Properties.                                                             *)
(***************************************************************************)

\* A call that starts after a writer's call returned sees that writer's
\* change in every part of what it is given: no settings, pool or user id
\* from before, however many rebuilds the invalidation overlapped.
ReadYourWrites ==
    \A p \in Tasks : \A v \in result[p] : since[p] <= v

\* With nobody writing, every cache of the chain is empty or built from the
\* file as it is now: a db_client whose user id and pool disagree, which a
\* rebuild during the invalidation can produce, is not kept.
NobodyWriting ==
    \A w \in Writers :
        wpc[w] \in {"idle", "locked", "extracted", "failed", "again", "done"}

QuietChainFresh ==
    NobodyWriting => \A k \in Chain : value[k] \subseteq {file}

\* Once update_settings or save_settings has returned, its change stays in
\* the file: an update never undoes another writer's change, and only the
\* copy of the settings an older preference form saves can.
UpdatesKept ==
    \A w \in Updaters \cup Forms :
        wpc[w] \in {"again", "done"} =>
            \/ w \in content
            \/ \E f \in Forms : written[f] > written[w]

\* Filling a cache holds its lock while calling the ones it derives from, and
\* a writer waits for settings_write_lock and for one cache after the other
\* while readers keep rebuilding them: still every call returns, and all who
\* write come to their end.
CallsReturn == \A p \in Tasks : []<>Resting(p)

WritersFinish ==
    <>(Cardinality({w \in Writers : wpc[w] \in {"done", "failed", "cancelled"}})
          = MaxWrites)

NobodyWaitsForEver == CallsReturn /\ WritersFinish
=============================================================================
