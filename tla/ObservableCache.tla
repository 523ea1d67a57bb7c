--------------------------- MODULE ObservableCache ---------------------------
(***************************************************************************)
(* provider::async::ObservableCache: a value behind a tokio RwLock, filled *)
(* on demand from an inner provider and dropped by set_expired(), which    *)
(* also broadcasts Invalidated to the subscribers.                         *)
(*                                                                         *)
(* The inner provider's data is a version number that the outside world    *)
(* advances (ChangeSource).  A caller runs provide() one await point at a  *)
(* time; between two await points a tokio task runs without interruption   *)
(* by another holder of the lock, so each action below is one such         *)
(* stretch.                                                                *)
(* A subscriber is a caller that calls provide() whenever the broadcast    *)
(* channel wakes it, and only then: a load that fails is shown as an error *)
(* until the next message.                                                 *)
(***************************************************************************)
EXTENDS Naturals

CONSTANTS Readers,      \* tasks that call provide() when they please
          Subscribers,  \* tasks that call provide() when notified
          Free,         \* the lock has no writer
          Capacity,     \* slots of the broadcast channel (with_capacity)
          MaxVersion    \* bound on the number of versions of the source

Callers == Readers \cup Subscribers

ASSUME CallersAssumption ==
    /\ Readers \cap Subscribers = {}
    /\ Free \notin Callers

ASSUME CapacityAssumption ==
    /\ Capacity \in Nat \ {0}
    /\ MaxVersion \in Nat \ {0}

VARIABLES source,  \* version of the inner provider's data
          value,   \* RwLock<Option<R>>: the cached version, 0 for None
          lock,    \* the caller inside the write lock, or Free
          pc,      \* where each caller is in provide()
          got,     \* what the inner provider returned to the lock's holder
          out,     \* what provide() last returned to each caller, 0 for none
          inbox,   \* Invalidated messages a subscriber has not received
          lagged,  \* the subscriber lost messages: its next recv says Lagged
          floor,   \* history: the oldest version a read may still return
          expired, \* history: the version last announced by set_expired()
          failed   \* history: the subscribers whose last load failed

history == <<floor, expired, failed>>
cacheVars == <<source, value, lock, pc, got, out, inbox, lagged, history>>

Empty == 0

Steps == {"idle", "read", "write", "fetch", "store"}

CacheTypeOK ==
    /\ source \in 1..MaxVersion
    /\ value \in 0..MaxVersion
    /\ lock \in Callers \cup {Free}
    /\ pc \in [Callers -> Steps]
    /\ got \in [Callers -> 0..MaxVersion]
    /\ out \in [Callers -> 0..MaxVersion]
    /\ inbox \in [Subscribers -> 0..Capacity]
    /\ lagged \in [Subscribers -> BOOLEAN]
    /\ floor \in 1..MaxVersion
    /\ expired \in 0..MaxVersion
    /\ failed \subseteq Subscribers

(***************************************************************************)
(* The steps of provide().                                                 *)
(***************************************************************************)
CacheInit ==
    /\ source = 1
    /\ value = Empty
    /\ lock = Free
    /\ pc = [c \in Callers |-> "idle"]
    /\ got = [c \in Callers |-> 0]
    /\ out = [c \in Callers |-> 0]
    /\ inbox = [s \in Subscribers |-> 0]
    /\ lagged = [s \in Subscribers |-> FALSE]
    /\ floor = 1
    /\ expired = 0
    /\ failed = {}

Goto(c, from, to) ==
    /\ pc[c] = from
    /\ pc' = [pc EXCEPT ![c] = to]

\* The world outside the cache changes what the inner provider would return.
ChangeSource ==
    /\ source < MaxVersion
    /\ source' = source + 1
    /\ UNCHANGED <<value, lock, pc, got, out, inbox, lagged, history>>

\* A reader calls provide().
Call(c) ==
    /\ c \in Readers
    /\ Goto(c, "idle", "read")
    /\ UNCHANGED <<source, value, lock, got, out, inbox, lagged, history>>

\* The read-locked look: return the cached value, or go on to the write lock.
ReadLocked(c) ==
    /\ lock = Free
    /\ \/ /\ value # Empty
          /\ Goto(c, "read", "idle")
          /\ out' = [out EXCEPT ![c] = value]
       \/ /\ value = Empty
          /\ Goto(c, "read", "write")
          /\ UNCHANGED out
    /\ UNCHANGED <<source, value, lock, got, inbox, lagged, history>>

\* Mutant: no second look at the value after the write lock is granted.
WriteLockedNoRecheck(c) ==
    /\ lock = Free
    /\ Goto(c, "write", "fetch")
    /\ lock' = c
    /\ UNCHANGED <<source, value, got, out, inbox, lagged, history>>

\* Mutant: the provider is called without the write lock being held.
WriteLockedNotHeld(c) ==
    /\ lock = Free
    /\ value = Empty
    /\ Goto(c, "write", "fetch")
    /\ UNCHANGED <<source, value, lock, got, out, inbox, lagged, history>>

\* The write lock is granted: look again, since another caller may have
\* filled the cache meanwhile; only if it is still empty is the lock kept.
WriteLocked(c) ==
    /\ lock = Free
    /\ \/ /\ value # Empty
          /\ Goto(c, "write", "idle")
          /\ out' = [out EXCEPT ![c] = value]
          /\ UNCHANGED lock
       \/ /\ value = Empty
          /\ Goto(c, "write", "fetch")
          /\ lock' = c
          /\ UNCHANGED out
    /\ UNCHANGED <<source, value, got, inbox, lagged, history>>

\* The inner provider reads its data; its answer is still on the way.
FetchValue(c) ==
    /\ Goto(c, "fetch", "store")
    /\ got' = [got EXCEPT ![c] = source]
    /\ UNCHANGED <<source, value, lock, out, inbox, lagged, history>>

\* The answer arrives: store it, release the lock and return it.
Store(c) ==
    /\ Goto(c, "store", "idle")
    /\ value' = got[c]
    /\ out' = [out EXCEPT ![c] = got[c]]
    /\ lock' = Free
    /\ floor' = IF floor < got[c] THEN got[c] ELSE floor
    /\ UNCHANGED <<source, got, inbox, lagged, expired, failed>>

\* Mutant: the error path returns with the write guard still alive.
FetchFailsLeaksLock(c) ==
    /\ Goto(c, "fetch", "idle")
    /\ failed' = failed \cup ({c} \cap Subscribers)
    /\ UNCHANGED <<source, value, lock, got, out, inbox, lagged, floor, expired>>

\* The inner provider fails: `?` returns the error and the guard is dropped.
\* Nobody calls again: a subscriber shows the error until it is notified.
FetchFails(c) ==
    /\ Goto(c, "fetch", "idle")
    /\ lock' = Free
    /\ failed' = failed \cup ({c} \cap Subscribers)
    /\ UNCHANGED <<source, value, got, out, inbox, lagged, floor, expired>>

\* The future of a reader's call is dropped at an await point.
Cancel(c) ==
    /\ c \in Readers
    /\ pc[c] # "idle"
    /\ pc' = [pc EXCEPT ![c] = "idle"]
    /\ lock' = IF lock = c THEN Free ELSE lock
    /\ UNCHANGED <<source, value, got, out, inbox, lagged, history>>

(***************************************************************************)
(* Invalidation and the broadcast channel.                                 *)
(***************************************************************************)

\* A message overwrites the oldest one of a subscriber whose slots are full.
Send ==
    /\ inbox' = [s \in Subscribers |->
                    IF inbox[s] < Capacity THEN inbox[s] + 1 ELSE inbox[s]]
    /\ lagged' = [s \in Subscribers |-> lagged[s] \/ inbox[s] = Capacity]

\* set_expired(): wait for the write lock, clear the value and broadcast
\* before the lock is released.
SetExpired ==
    /\ lock = Free
    /\ value' = Empty
    /\ Send
    /\ floor' = source
    /\ expired' = source
    /\ UNCHANGED <<source, lock, pc, got, out, failed>>

\* Mutant: any error of recv() ends the subscription, not only Closed.
ReceiveEndsLagged(s) ==
    /\ Goto(s, "idle", "read")
    /\ ~lagged[s]
    /\ inbox[s] > 0
    /\ inbox' = [inbox EXCEPT ![s] = @ - 1]
    /\ failed' = failed \ {s}
    /\ UNCHANGED <<source, value, lock, got, out, lagged, floor, expired>>

\* recv() returns Lagged once and then the messages kept; the subscription
\* wakes its owner for both.
Receive(s) ==
    /\ Goto(s, "idle", "read")
    /\ \/ /\ lagged[s]
          /\ lagged' = [lagged EXCEPT ![s] = FALSE]
          /\ UNCHANGED inbox
       \/ /\ ~lagged[s]
          /\ inbox[s] > 0
          /\ inbox' = [inbox EXCEPT ![s] = @ - 1]
          /\ UNCHANGED lagged
    /\ failed' = failed \ {s}
    /\ UNCHANGED <<source, value, lock, got, out, floor, expired>>

CacheNext ==
    \/ ChangeSource
    \/ SetExpired
    \/ \E s \in Subscribers : Receive(s)
    \/ \E c \in Callers :
          \/ Call(c)
          \/ ReadLocked(c)
          \/ WriteLocked(c)
          \/ FetchValue(c)
          \/ Store(c)
          \/ FetchFails(c)
          \/ Cancel(c)

CacheSpec == CacheInit /\ [][CacheNext]_cacheVars

(***************************************************************************)
(* tokio polls every ready task, and its RwLock grants waiters in the      *)
(* order they arrived, so a caller cannot be overtaken for ever.  The      *)
(* inner provider answers or fails; asked again and again, as happens when *)
(* the cache is expired again and again, it answers in the end.            *)
(***************************************************************************)
Fairness ==
    /\ \A c \in Callers :
          /\ SF_cacheVars(ReadLocked(c))
          /\ SF_cacheVars(WriteLocked(c))
          /\ SF_cacheVars(FetchValue(c))
          /\ WF_cacheVars(Store(c))
    /\ \A s \in Subscribers : WF_cacheVars(Receive(s))

FairSpec == CacheSpec /\ Fairness

(***************************************************************************)
(* Properties.                                                             *)
(***************************************************************************)

\* The lock is held exactly by the caller between its double check and its
\* store or error: no path out of provide() leaks the write guard, and no
\* two callers are ever fetching at the same time.
LockDiscipline ==
    \A c \in Callers : (pc[c] \in {"fetch", "store"}) <=> (lock = c)

\* A cached value is at least as new as the source was at the last
\* set_expired(), even when a fetch and the expiry overlapped.
NotStale == value # Empty => floor <= value /\ value <= source

\* Once filled, the cache changes only by being expired: however many
\* callers missed together, one of them fetches and the others share it.
FilledOnce == [][value # Empty => value' \in {value, Empty}]_value

\* Seen through the callers' results the cache is a FreshCache: every call
\* returns at one instant a version no older than the last expiry and than
\* every version returned before.
Abstract == INSTANCE FreshCache WITH version <- source, floor <- floor, out <- out
ImplementsFreshCache == Abstract!Spec

\* After every expiry a subscriber comes to hold a version at least as new,
\* though its messages may be lost, unless the provider failed the load of
\* the last message it was sent, which is when the error is what it shows.
SubscriberCatchesUp ==
    \A s \in Subscribers, v \in 1..MaxVersion :
        (expired = v) ~> \/ out[s] >= v
                         \/ s \in failed /\ inbox[s] = 0 /\ ~lagged[s]

\* A call of provide() that is not dropped returns.
CallReturns ==
    \A c \in Callers : (pc[c] # "idle") ~> (pc[c] = "idle")
=============================================================================
