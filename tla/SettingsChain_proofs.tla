------------------------- MODULE SettingsChain_proofs -------------------------
(***************************************************************************)
(* Proofs about SettingsChain, for any tasks and any writers.              *)
(*                                                                         *)
(* A version that is cached, or on its way into a cache, is Fine: it is    *)
(* not older than what the writers that have expired that cache wrote, nor *)
(* than what a view that waits for its documents may ask for.  A cache is  *)
(* expired after the caches it is filled from and only when nobody fills   *)
(* it, so nothing that is not Fine comes after.                            *)
(***************************************************************************)
EXTENDS SettingsChain, FiniteSetTheorems, TLAPS

Frame == [at : Steps, next : 1..3, acc : SUBSET Nat]

\* The place of a cache in the chain and in the order of expiry.
Rank(k) == IF k = "settings" THEN 1 ELSE IF k = "connection_pool" THEN 2 ELSE 3

\* The task is inside the cache's write lock.
Active(fr) == fr.at \in {"await", "fetch", "store"}

\* The number of caches the writer has expired since it wrote.
Behind(w) == IF wpc[w] \in {"again", "done"} THEN 3 ELSE exp[w] - 1

Fine(k, v) ==
    /\ v \in 1..file
    /\ k \in Chain => \A w \in Writers : Rank(k) <= Behind(w) => written[w] <= v
    /\ k = "documents" =>
          \A p \in Tasks : frame[p]["documents"].at # "idle" => since[p] <= v

Disk ==
    /\ file \in Nat \ {0} /\ content \subseteq Writers
    /\ mutex \in Writers \cup {Free}
    /\ wpc \in [Writers -> WriterSteps]
    /\ form \in [Writers -> SUBSET Writers]
    /\ written \in [Writers -> 0..file]
    /\ exp \in [Writers -> 1..4]

Calls ==
    /\ value \in [Caches -> SUBSET Nat]
    /\ lock \in [Caches -> Tasks \cup {Free}]
    /\ frame \in [Tasks -> [Caches -> Frame]]
    /\ result \in [Tasks -> SUBSET Nat]
    /\ since \in [Tasks -> Nat]

\* Who fills a cache holds its lock, and awaits a cache it derives from.
Held(p, k) ==
    /\ Active(frame[p][k]) => lock[k] = p
    /\ frame[p][k].at = "await" => frame[p][k].next \in 1..Len(Upstream[k])
    /\ frame[p][k].acc \subseteq 1..file

Locks == \A p \in Tasks, k \in Caches : Held(p, k)

\* Where a writer is, what it wrote, and which of them holds the mutex.
Turn(w) ==
    /\ wpc[w] \in {"locked", "extracted", "invalidate"} =>
          mutex = w /\ w \in Updaters \cup Forms
    /\ wpc[w] \in {"idle", "locked", "extracted", "failed"} => exp[w] = 1 /\ written[w] = 0
    /\ wpc[w] = "reload" => w \in Editors

Turns == \A w \in Writers : Turn(w)

Newest ==
    /\ acked \in 1..file
    /\ acked = 1 \/ \E w \in Writers : written[w] = acked /\ Behind(w) >= 3
    /\ file = 1 \/ \E w \in Writers : written[w] = file
    /\ \A p \in Tasks : since[p] \in 1..acked

Freshness ==
    /\ \A k \in Caches : \A v \in value[k] : Fine(k, v)
    /\ \A p \in Tasks, k \in Caches :
          Active(frame[p][k]) => \A v \in frame[p][k].acc : Fine(k, v)
    /\ \A p \in Tasks : \A v \in result[p] : v \in since[p]..file

IInv == Disk /\ Calls /\ Locks /\ Turns /\ Newest /\ Freshness

-----------------------------------------------------------------------------
LEMMA Constant ==
    /\ IsFiniteSet(Writers) /\ MaxWrites \in Nat
    /\ Editors \cap (Updaters \cup Forms) = {} /\ Free \notin Tasks \cup Writers
<1>1. Cardinality(Writers) \in Nat
  BY WritersAssumption, FS_CardinalityType
<1> QED
  BY <1>1, WritersAssumption

\* A cache derives from caches before it.
LEMMA Derives ==
    ASSUME NEW k \in Caches, NEW n \in 1..Len(Upstream[k])
    PROVE  /\ Upstream[k][n] \in Chain /\ Upstream[k][n] # k
           /\ k \in Chain => Rank(Upstream[k][n]) <= Rank(k)
<1>1. CASE k = "settings"
  BY <1>1 DEF Upstream
<1>2. CASE k = "connection_pool"
  BY <1>2 DEF Upstream, Chain, Rank
<1>3. CASE k = "db_client"
  BY <1>3 DEF Upstream, Chain, Rank
<1>4. CASE k = "documents"
  BY <1>4 DEF Upstream, Chain
<1> QED
  BY <1>1, <1>2, <1>3, <1>4 DEF Caches, Chain

LEMMA Lengths == \A k \in Caches : Len(Upstream[k]) \in 0..2
<1>1. /\ Upstream["settings"] = <<>> /\ Upstream["connection_pool"] = <<"settings">>
      /\ Upstream["db_client"] = <<"settings", "connection_pool">>
      /\ Upstream["documents"] = <<"db_client">>
  BY DEF Upstream
<1>2. Len(<<>>) = 0 /\ Len(<<"settings">>) = 1 /\ Len(<<"settings", "connection_pool">>) = 2
      /\ Len(<<"db_client">>) = 1
  OBVIOUS
<1>3. /\ Len(Upstream["settings"]) = 0 /\ Len(Upstream["connection_pool"]) = 1
      /\ Len(Upstream["db_client"]) = 2 /\ Len(Upstream["documents"]) = 1
  BY <1>1, <1>2
<1> QED
  BY <1>3 DEF Caches, Chain

LEMMA Order ==
    /\ Len(InvalidationOrder) = 3
    /\ \A i \in 1..3 : InvalidationOrder[i] \in Chain /\ Rank(InvalidationOrder[i]) = i
    /\ \A i \in 1..3, k \in Chain : Rank(k) = i => k = InvalidationOrder[i]
  BY DEF InvalidationOrder, Chain, Rank

LEMMA Ranks == \A k \in Chain : k \in Caches /\ k # "documents" /\ Rank(k) \in 1..3
  BY DEF Chain, Caches, Rank

\* What is fine for a cache of the chain is as new as the last write that
\* was acknowledged.
LEMMA FineNew ==
    ASSUME IInv, NEW k \in Chain, NEW v, Fine(k, v)
    PROVE  v \in acked..file
<1>1. acked \in Nat /\ file \in Nat /\ v \in 1..file
  BY DEF IInv, Newest, Disk, Fine
<1>2. CASE acked = 1
  BY <1>1, <1>2
<1>3. CASE acked # 1
  <2>1. PICK w \in Writers : written[w] = acked /\ Behind(w) >= 3
    BY <1>3 DEF IInv, Newest
  <2>2. Behind(w) \in Int /\ Rank(k) \in 1..3
    BY Ranks DEF Behind, IInv, Disk
  <2>3. written[w] <= v
    BY <2>1, <2>2 DEF Fine
  <2> QED
    BY <1>1, <2>1, <2>3
<1> QED
  BY <1>2, <1>3

\* What is fine for a cache is fine for the caches that derive from it.
LEMMA FineBelow ==
    ASSUME IInv, NEW k \in Caches, NEW n \in 1..Len(Upstream[k]),
           NEW v, Fine(Upstream[k][n], v)
    PROVE  Fine(k, v)
<1> DEFINE u == Upstream[k][n]
<1>1. u \in Chain /\ (k \in Chain => Rank(u) <= Rank(k)) /\ Rank(u) \in 1..3
  BY Derives, Ranks
<1> HIDE DEF u
<1>2. Fine(u, v)
  BY DEF u
<1>3. v \in 1..file /\ \A w \in Writers : Rank(u) <= Behind(w) => written[w] <= v
  BY <1>1, <1>2 DEF Fine
<1>4. \A w \in Writers : Behind(w) \in 0..3
  BY DEF Behind, IInv, Disk
<1>5. k \in Chain => \A w \in Writers : Rank(k) <= Behind(w) => written[w] <= v
  BY <1>1, <1>3, <1>4, Ranks
<1>6. v \in acked..file
  BY <1>1, <1>2, FineNew
<1>7. \A p \in Tasks : since[p] <= v
  BY <1>6 DEF IInv, Newest, Disk
<1> QED
  BY <1>3, <1>5, <1>7 DEF Fine

\* What is fine for a cache a task has called is new enough for the task.
LEMMA FineResult ==
    ASSUME IInv, NEW p \in Tasks, NEW k \in Caches, frame[p][k].at # "idle",
           NEW v, Fine(k, v)
    PROVE  v \in since[p]..file
<1>1. v \in 1..file /\ file \in Nat
  BY DEF Fine, IInv, Disk
<1>2. CASE k = "documents"
  BY <1>1, <1>2 DEF Fine, IInv, Calls, Newest
<1>3. CASE k # "documents"
  <2>1. k \in Chain
    BY <1>3 DEF Caches
  <2>2. v \in acked..file
    BY <2>1, FineNew
  <2> QED
    BY <1>1, <2>2 DEF IInv, Newest
<1> QED
  BY <1>2, <1>3

-----------------------------------------------------------------------------
\* What the frames of a task are after it has gone on in cache k.
LEMMA FillingEffect ==
    ASSUME NEW f \in [Caches -> Frame], NEW k \in Caches, NEW n \in 1..3,
           NEW acc \in SUBSET Nat
    PROVE  LET g == Filling(f, k, n, acc)
           IN  /\ g \in [Caches -> Frame]
               /\ Active(g[k]) /\ g[k].acc = acc
               /\ g[k].at = "await" => g[k].next \in 1..Len(Upstream[k])
               /\ \A i \in Caches \ {k} :
                     g[i] = f[i] \/ (g[i].at = "read" /\ g[i].acc = f[i].acc /\ i \in Chain)
<1> DEFINE up == Upstream[k][n]
           there == [at |-> "await", next |-> n, acc |-> acc]
           full == [at |-> IF k = "settings" THEN "fetch" ELSE "store", next |-> n, acc |-> acc]
<1>1. there \in Frame /\ full \in Frame /\ Active(there) /\ Active(full)
      /\ there.acc = acc /\ full.acc = acc /\ full.at # "await" /\ there.next = n
  BY DEF Frame, Steps, Active
<1>2. CASE n <= Len(Upstream[k])
  <2>1. n \in 1..Len(Upstream[k]) /\ up \in Chain /\ up # k /\ up \in Caches
    BY <1>2, Derives, Lengths, Ranks
  <2> HIDE DEF up, there
  <2>2. Filling(f, k, n, acc) = [f EXCEPT ![k] = there, ![up].at = "read"]
    BY <1>2 DEF Filling, up, there
  <2>3. [f[up] EXCEPT !.at = "read"] \in Frame
        /\ [f[up] EXCEPT !.at = "read"].acc = f[up].acc
        /\ [f[up] EXCEPT !.at = "read"].at = "read"
    <3>1. f[up] \in Frame
      BY <2>1
    <3> QED
      BY <3>1 DEF Frame, Steps
  <2>4. LET g == [f EXCEPT ![k] = there, ![up].at = "read"]
        IN  /\ g \in [Caches -> Frame]
            /\ g[k] = there /\ g[up] = [f[up] EXCEPT !.at = "read"]
            /\ \A i \in Caches \ {k, up} : g[i] = f[i]
    BY <1>1, <2>1, <2>3
  <2> QED
    BY <1>1, <2>1, <2>2, <2>3, <2>4
<1>3. CASE ~(n <= Len(Upstream[k]))
  <2> HIDE DEF full
  <2>1. Filling(f, k, n, acc) = [f EXCEPT ![k] = full]
    BY <1>3 DEF Filling, full
  <2> QED
    BY <1>1, <2>1
<1> QED
  BY <1>2, <1>3

\* What a call that returns changes: the task leaves the cache, and what it
\* brings goes to the provider that waits for it, or to the task.
LEMMA ReturnEffect ==
    ASSUME Calls, Locks, NEW p \in Tasks, NEW k \in Caches, NEW v \in SUBSET Nat,
           Return(p, k, v)
    PROVE  /\ frame' \in [Tasks -> [Caches -> Frame]]
           /\ \A q \in Tasks \ {p} : frame'[q] = frame[q]
           /\ result' = result \/ result' = [result EXCEPT ![p] = v]
           /\ \A i \in Caches :
                 \/ i # k /\ frame'[p][i] = frame[p][i]
                 \/ /\ ~Active(frame'[p][i]) /\ frame'[p][i].at # "await"
                    /\ frame'[p][i].acc \in {{}, frame[p][i].acc}
                    /\ i = "documents" => frame'[p][i].at = "idle"
                 \/ /\ i # k /\ frame[p][i].at = "await" /\ Active(frame[p][i])
                    /\ Upstream[i][frame[p][i].next] = k
                    /\ frame'[p][i].acc = frame[p][i].acc \cup v
                    /\ frame'[p][i].at = "await" =>
                          frame'[p][i].next \in 1..Len(Upstream[i])
<1> DEFINE left == [frame[p] EXCEPT ![k] = NoFrame]
<1>1. frame[p] \in [Caches -> Frame] /\ NoFrame \in Frame
      /\ NoFrame.at = "idle" /\ NoFrame.acc = {} /\ ~Active(NoFrame)
  BY DEF Calls, Frame, NoFrame, Steps, Active
<1>2. left \in [Caches -> Frame] /\ left[k] = NoFrame
      /\ \A i \in Caches \ {k} : left[i] = frame[p][i]
  BY <1>1
<1> HIDE DEF left
<1>3. CASE frame' = [frame EXCEPT ![p] = left] /\ result' = [result EXCEPT ![p] = v]
  <2>1. frame' \in [Tasks -> [Caches -> Frame]] /\ frame'[p] = left
        /\ \A q \in Tasks \ {p} : frame'[q] = frame[q]
    BY <1>2, <1>3 DEF Calls
  <2> QED
    BY <1>1, <1>2, <1>3, <2>1
<1>4. ASSUME NEW j \in Waiting(p, k), result' = result,
             frame' = [frame EXCEPT ![p] =
                Filling(left, j, frame[p][j].next + 1, frame[p][j].acc \cup v)]
      PROVE  /\ frame' \in [Tasks -> [Caches -> Frame]]
             /\ \A q \in Tasks \ {p} : frame'[q] = frame[q]
             /\ \A i \in Caches :
                 \/ i # k /\ frame'[p][i] = frame[p][i]
                 \/ /\ ~Active(frame'[p][i]) /\ frame'[p][i].at # "await"
                    /\ frame'[p][i].acc \in {{}, frame[p][i].acc}
                    /\ i = "documents" => frame'[p][i].at = "idle"
                 \/ /\ i # k /\ frame[p][i].at = "await" /\ Active(frame[p][i])
                    /\ Upstream[i][frame[p][i].next] = k
                    /\ frame'[p][i].acc = frame[p][i].acc \cup v
                    /\ frame'[p][i].at = "await" =>
                          frame'[p][i].next \in 1..Len(Upstream[i])
  <2> DEFINE n == frame[p][j].next + 1
             acc == frame[p][j].acc \cup v
             g == Filling(left, j, n, acc)
  <2>1. /\ j \in Caches /\ frame[p][j].at = "await" /\ Upstream[j][frame[p][j].next] = k
        /\ frame[p][j].next \in 1..Len(Upstream[j]) /\ frame[p][j] \in Frame
    BY <1>1 DEF Waiting, Locks, Held
  <2>2. j # k /\ n \in 1..3 /\ acc \in SUBSET Nat /\ Active(frame[p][j])
    <3>1. j # k
      BY <2>1, Derives
    <3>2. Len(Upstream[j]) \in 0..2
      BY <2>1, Lengths
    <3>3. frame[p][j].next \in 1..2
      BY <2>1, <3>2
    <3>4. n \in 1..3
      BY <3>3
    <3>5. frame[p][j].acc \in SUBSET Nat
      BY <2>1 DEF Frame
    <3> QED
      BY <2>1, <3>1, <3>4, <3>5 DEF Active
  <2> HIDE DEF n, acc
  <2>3. /\ g \in [Caches -> Frame]
        /\ Active(g[j]) /\ g[j].acc = acc
        /\ g[j].at = "await" => g[j].next \in 1..Len(Upstream[j])
        /\ \A i \in Caches \ {j} :
              g[i] = left[i] \/ (g[i].at = "read" /\ g[i].acc = left[i].acc /\ i \in Chain)
    BY <1>2, <2>1, <2>2, FillingEffect
  <2>4. frame' = [frame EXCEPT ![p] = g]
    BY <1>4 DEF n, acc
  <2> HIDE DEF g
  <2>5. frame' \in [Tasks -> [Caches -> Frame]] /\ frame'[p] = g
        /\ \A q \in Tasks \ {p} : frame'[q] = frame[q]
    BY <2>3, <2>4 DEF Calls
  <2>6. ASSUME NEW i \in Caches, i # j
        PROVE  \/ i # k /\ g[i] = frame[p][i]
               \/ /\ ~Active(g[i]) /\ g[i].at # "await"
                  /\ g[i].acc \in {{}, frame[p][i].acc}
                  /\ i = "documents" => g[i].at = "idle"
    BY <1>1, <1>2, <2>3, <2>6, Ranks DEF Active
  <2> QED
    BY <2>1, <2>2, <2>3, <2>5, <2>6 DEF acc
<1> QED
  BY <1>3, <1>4 DEF Return, left

-----------------------------------------------------------------------------
\* A task that asks and fills changes neither the file nor a writer, and does
\* not go to the documents: what was fine is fine.
LEMMA StillFine ==
    ASSUME UNCHANGED <<disk, writers, since>>,
           \A p \in Tasks : frame'[p]["documents"].at # "idle" => frame[p]["documents"].at # "idle"
    PROVE  \A k, v : Fine(k, v) => Fine(k, v)'
  BY DEF disk, writers, Fine, Behind

\* A step of readers keeps the writers' part of the invariant.
LEMMA DiskKept ==
    ASSUME IInv, UNCHANGED <<disk, writers, acked>>, \A p \in Tasks : since'[p] \in 1..acked
    PROVE  Disk' /\ Turns' /\ Newest'
<1>1. Disk' /\ Turns'
  BY DEF IInv, disk, writers, Disk, Turns, Turn
<1>2. Newest'
  BY DEF IInv, disk, writers, Newest, Behind
<1> QED
  BY <1>1, <1>2

\* A task gives back what it brings from a cache, after the caches' locks and
\* values are what they are.
LEMMA ReturnKeeps ==
    ASSUME IInv, NEW p \in Tasks, NEW k \in Caches, frame[p][k].at # "idle",
           NEW v \in SUBSET Nat, \A x \in v : Fine(k, x), Return(p, k, v),
           UNCHANGED <<disk, writers, since, acked>>,
           value' \in [Caches -> SUBSET Nat],
           \A i \in Caches : value'[i] = value[i] \/ (i = k /\ value'[i] = v),
           lock' \in [Caches -> Tasks \cup {Free}],
           \A i \in Caches : lock'[i] = lock[i] \/ (i = k /\ lock[i] = p)
    PROVE  IInv'
<1>1. Calls /\ Locks /\ Newest /\ Freshness
  BY DEF IInv
<1>2. /\ frame' \in [Tasks -> [Caches -> Frame]]
      /\ \A q \in Tasks \ {p} : frame'[q] = frame[q]
      /\ result' = result \/ result' = [result EXCEPT ![p] = v]
      /\ \A i \in Caches :
            \/ i # k /\ frame'[p][i] = frame[p][i]
            \/ /\ ~Active(frame'[p][i]) /\ frame'[p][i].at # "await"
               /\ frame'[p][i].acc \in {{}, frame[p][i].acc}
               /\ i = "documents" => frame'[p][i].at = "idle"
            \/ /\ i # k /\ frame[p][i].at = "await" /\ Active(frame[p][i])
               /\ Upstream[i][frame[p][i].next] = k
               /\ frame'[p][i].acc = frame[p][i].acc \cup v
               /\ frame'[p][i].at = "await" => frame'[p][i].next \in 1..Len(Upstream[i])
  BY <1>1, ReturnEffect
<1>3. file' = file
  BY DEF disk
<1>4. v \subseteq 1..file
  BY DEF Fine
<1>5. \A i, x : Fine(i, x) => Fine(i, x)'
  <2>1. \A q \in Tasks : frame'[q]["documents"].at # "idle" => frame[q]["documents"].at # "idle"
    <3>1. "documents" \in Caches
      BY DEF Caches
    <3> QED
      BY <1>2, <3>1
  <2> QED
    BY <2>1, StillFine
<1>6. Disk' /\ Turns' /\ Newest'
  BY <1>1, DiskKept DEF Newest
<1>7. Calls'
  BY <1>1, <1>2 DEF Calls
<1>8. Locks'
  <2> SUFFICES ASSUME NEW q \in Tasks, NEW i \in Caches PROVE Held(q, i)'
    BY DEF Locks
  <2>1. Held(q, i)
    BY <1>1 DEF Locks
  <2>2. CASE q = p
    <3>1. CASE i # k /\ frame'[p][i] = frame[p][i]
      BY <1>3, <2>1, <2>2, <3>1 DEF Held, Active
    <3>2. CASE /\ ~Active(frame'[p][i]) /\ frame'[p][i].at # "await"
               /\ frame'[p][i].acc \in {{}, frame[p][i].acc}
      BY <1>3, <2>1, <2>2, <3>2 DEF Held, Active
    <3>3. CASE /\ i # k /\ Active(frame[p][i])
               /\ frame'[p][i].acc = frame[p][i].acc \cup v
               /\ frame'[p][i].at = "await" => frame'[p][i].next \in 1..Len(Upstream[i])
      <4>1. lock'[i] = p
        BY <2>1, <2>2, <3>3 DEF Held
      <4> QED
        BY <1>3, <1>4, <2>1, <2>2, <3>3, <4>1 DEF Held
    <3> QED
      BY <1>2, <3>1, <3>2, <3>3
  <2>3. CASE q # p
    <3>1. Active(frame[q][i]) => lock'[i] = q
      BY <2>1, <2>3 DEF Held
    <3> QED
      BY <1>2, <1>3, <2>1, <2>3, <3>1 DEF Held, Active
  <2> QED
    BY <2>2, <2>3
<1>9. Freshness'
  <2>1. ASSUME NEW i \in Caches, NEW x \in value'[i] PROVE Fine(i, x)'
    BY <1>1, <1>5, <2>1 DEF Freshness
  <2>2. ASSUME NEW q \in Tasks, NEW i \in Caches, Active(frame'[q][i]), NEW x \in frame'[q][i].acc
        PROVE  Fine(i, x)'
    <3>1. \A y \in frame[q][i].acc : Active(frame[q][i]) => Fine(i, y)
      BY <1>1 DEF Freshness
    <3>2. CASE frame'[q][i] = frame[q][i]
      BY <1>5, <2>2, <3>1, <3>2
    <3>3. CASE frame'[q][i] # frame[q][i]
      <4>1. /\ q = p /\ Active(frame[p][i]) /\ frame[p][i].at = "await"
            /\ Upstream[i][frame[p][i].next] = k
            /\ frame'[p][i].acc = frame[p][i].acc \cup v
        BY <1>2, <2>2, <3>3
      <4>2. frame[p][i].next \in 1..Len(Upstream[i])
        BY <1>1, <4>1 DEF Locks, Held
      <4>3. x \in v => Fine(i, x)
        BY <4>1, <4>2, FineBelow
      <4> QED
        BY <1>5, <2>2, <3>1, <4>1, <4>3
    <3> QED
      BY <3>2, <3>3
  <2>3. ASSUME NEW q \in Tasks, NEW x \in result'[q] PROVE x \in (since[q]..file)'
    <3>1. since' = since
      OBVIOUS
    <3>2. CASE x \in result[q]
      BY <1>1, <1>3, <3>1, <3>2 DEF Freshness
    <3>3. CASE x \notin result[q]
      <4>1. q = p /\ x \in v
        BY <1>1, <1>2, <2>3, <3>3 DEF Calls
      <4>2. x \in since[p]..file
        BY <4>1, FineResult
      <4> QED
        BY <1>3, <3>1, <4>1, <4>2
    <3> QED
      BY <3>2, <3>3
  <2> QED
    BY <2>1, <2>2, <2>3 DEF Freshness
<1> QED
  BY <1>6, <1>7, <1>8, <1>9 DEF IInv

\* The frames change, and nothing comes into them that is not fine.
LEMMA FramesKeep ==
    ASSUME IInv, UNCHANGED <<disk, writers, value, result, since, acked>>,
           lock' \in [Caches -> Tasks \cup {Free}],
           frame' \in [Tasks -> [Caches -> Frame]],
           \A p \in Tasks, k \in Caches : Held(p, k)',
           \A p \in Tasks : frame'[p]["documents"].at # "idle" => frame[p]["documents"].at # "idle",
           \A p \in Tasks, k \in Caches : Active(frame'[p][k]) =>
               \A x \in frame'[p][k].acc :
                   Fine(k, x) \/ (Active(frame[p][k]) /\ x \in frame[p][k].acc)
    PROVE  IInv'
<1>1. Disk' /\ Turns' /\ Newest'
  BY DiskKept DEF IInv, Newest
<1>2. Calls' /\ Locks'
  BY DEF IInv, Calls, Locks
<1>3. \A k, v : Fine(k, v) => Fine(k, v)'
  BY StillFine
<1>4. \A p \in Tasks, k \in Caches : Active(frame'[p][k]) => \A x \in frame'[p][k].acc : Fine(k, x)'
  BY <1>3 DEF IInv, Freshness
<1>5. Freshness'
  BY <1>3, <1>4 DEF IInv, Freshness, disk
<1> QED
  BY <1>1, <1>2, <1>5 DEF IInv

LEMMA OneFrame ==
    ASSUME Calls, NEW p \in Tasks, NEW g \in [Caches -> Frame], frame' = [frame EXCEPT ![p] = g]
    PROVE  /\ frame' \in [Tasks -> [Caches -> Frame]] /\ frame'[p] = g
           /\ \A q \in Tasks \ {p} : frame'[q] = frame[q]
  BY DEF Calls

LEMMA ReadLockedKeeps ==
    ASSUME IInv, NEW p \in Tasks, NEW k \in Caches, ReadLocked(p, k)
    PROVE  IInv'
<1>1. Calls /\ Locks /\ frame[p][k].at = "read"
      /\ UNCHANGED <<disk, writers, value, lock, since, inbox, acked>>
  BY DEF IInv, ReadLocked, caches
<1>2. CASE Return(p, k, value[k])
  <2>1. value[k] \in SUBSET Nat /\ \A x \in value[k] : Fine(k, x)
    BY DEF IInv, Calls, Freshness
  <2> QED
    BY <1>1, <1>2, <2>1, ReturnKeeps DEF Calls
<1>3. CASE frame' = [frame EXCEPT ![p][k].at = "write"] /\ UNCHANGED result
  <2> DEFINE fr == [frame[p][k] EXCEPT !.at = "write"]
             g == [frame[p] EXCEPT ![k] = fr]
  <2>1. frame[p] \in [Caches -> Frame] /\ frame[p][k] \in Frame
    BY <1>1 DEF Calls
  <2>2. fr \in Frame /\ fr.at = "write" /\ fr.acc = frame[p][k].acc /\ ~Active(fr)
    BY <2>1 DEF Frame, Steps, Active
  <2>3. frame' = [frame EXCEPT ![p] = g]
    BY <1>3
  <2> HIDE DEF fr
  <2>4. g \in [Caches -> Frame] /\ g[k] = fr /\ \A i \in Caches \ {k} : g[i] = frame[p][i]
    BY <2>1, <2>2
  <2> HIDE DEF g
  <2>5. /\ frame' \in [Tasks -> [Caches -> Frame]] /\ frame'[p] = g
        /\ \A q \in Tasks \ {p} : frame'[q] = frame[q]
    BY <1>1, <2>3, <2>4, OneFrame
  <2>6. \A q \in Tasks, i \in Caches : frame'[q][i] = frame[q][i] \/ (q = p /\ i = k /\ frame'[q][i] = fr)
    BY <2>4, <2>5
  <2>7. \A q \in Tasks, i \in Caches : Held(q, i)'
    BY <1>1, <2>2, <2>6 DEF Locks, Held, disk
  <2>8. "documents" \in Caches
    BY DEF Caches
  <2> QED
    BY <1>1, <1>3, <2>2, <2>5, <2>6, <2>7, <2>8, FramesKeep DEF Calls
<1> QED
  BY <1>2, <1>3 DEF ReadLocked

LEMMA WriteLockedKeeps ==
    ASSUME IInv, NEW p \in Tasks, NEW k \in Caches, WriteLocked(p, k)
    PROVE  IInv'
<1>1. Calls /\ Locks /\ frame[p][k].at = "write" /\ lock[k] = Free
      /\ UNCHANGED <<disk, writers, value, since, inbox, acked>>
  BY DEF IInv, WriteLocked
<1>2. CASE Return(p, k, value[k]) /\ UNCHANGED lock
  <2>1. value[k] \in SUBSET Nat /\ \A x \in value[k] : Fine(k, x)
    BY DEF IInv, Calls, Freshness
  <2> QED
    BY <1>1, <1>2, <2>1, ReturnKeeps DEF Calls
<1>3. CASE /\ frame' = [frame EXCEPT ![p] = Filling(@, k, 1, {})]
           /\ lock' = [lock EXCEPT ![k] = p]
           /\ UNCHANGED result
  <2> DEFINE g == Filling(frame[p], k, 1, {})
  <2>1. frame[p] \in [Caches -> Frame]
    BY <1>1 DEF Calls
  <2>2. /\ g \in [Caches -> Frame]
        /\ Active(g[k]) /\ g[k].acc = {}
        /\ g[k].at = "await" => g[k].next \in 1..Len(Upstream[k])
        /\ \A i \in Caches \ {k} :
              g[i] = frame[p][i]
                \/ (g[i].at = "read" /\ g[i].acc = frame[p][i].acc /\ i \in Chain)
    BY <2>1, FillingEffect
  <2>3. frame' = [frame EXCEPT ![p] = g]
    BY <1>3
  <2> HIDE DEF g
  <2>4. /\ frame' \in [Tasks -> [Caches -> Frame]] /\ frame'[p] = g
        /\ \A q \in Tasks \ {p} : frame'[q] = frame[q]
    BY <1>1, <2>2, <2>3, OneFrame
  <2>5. /\ lock' \in [Caches -> Tasks \cup {Free}] /\ lock'[k] = p
        /\ \A i \in Caches \ {k} : lock'[i] = lock[i]
    BY <1>1, <1>3 DEF Calls
  <2>6. ASSUME NEW q \in Tasks, NEW i \in Caches PROVE Held(q, i)'
    <3>1. Held(q, i) /\ Held(q, k)
      BY <1>1 DEF Locks
    <3>2. CASE q # p
      <4>1. ~Active(frame[q][k])
        BY <1>1, <3>1, Constant DEF Held
      <4> QED
        BY <1>1, <2>4, <2>5, <3>1, <3>2, <4>1 DEF Held, disk
    <3>3. CASE q = p /\ i = k
      BY <2>2, <2>4, <2>5, <3>3 DEF Held
    <3>4. CASE q = p /\ i # k
      BY <1>1, <2>2, <2>4, <2>5, <3>1, <3>4 DEF Held, disk, Active
    <3> QED
      BY <3>2, <3>3, <3>4
  <2>7. "documents" \in Caches /\ "documents" \notin Chain
    BY DEF Caches, Chain
  <2>8. \A q \in Tasks : frame'[q]["documents"].at # "idle" => frame[q]["documents"].at # "idle"
    BY <1>1, <2>2, <2>4, <2>7
  <2>9. \A q \in Tasks, i \in Caches : Active(frame'[q][i]) =>
               \A x \in frame'[q][i].acc : Active(frame[q][i]) /\ x \in frame[q][i].acc
    BY <2>2, <2>4 DEF Active
  <2> QED
    BY <1>1, <1>3, <2>4, <2>5, <2>6, <2>8, <2>9, FramesKeep
<1> QED
  BY <1>2, <1>3 DEF WriteLocked

LEMMA ReadFileKeeps ==
    ASSUME IInv, NEW p \in Tasks, ReadFile(p)
    PROVE  IInv'
<1> DEFINE fr == [frame[p]["settings"] EXCEPT !.at = "store", !.acc = {file}]
           g == [frame[p] EXCEPT !["settings"] = fr]
<1>1. Calls /\ Locks /\ Disk /\ Newest /\ frame[p]["settings"].at = "fetch"
      /\ UNCHANGED <<disk, writers, value, lock, result, since, inbox, acked>>
  BY DEF IInv, ReadFile, caches
<1>2. frame[p] \in [Caches -> Frame] /\ "settings" \in Caches /\ frame[p]["settings"] \in Frame
  BY <1>1 DEF Calls, Caches, Chain
<1>3. fr \in Frame /\ fr.at = "store" /\ fr.acc = {file}
  BY <1>1, <1>2 DEF Frame, Steps, Disk
<1>4. frame' = [frame EXCEPT ![p] = g]
  BY <1>2 DEF ReadFile, Calls
<1> HIDE DEF fr
<1>5. g \in [Caches -> Frame] /\ g["settings"] = fr
      /\ \A i \in Caches \ {"settings"} : g[i] = frame[p][i]
  BY <1>2, <1>3
<1> HIDE DEF g
<1>6. /\ frame' \in [Tasks -> [Caches -> Frame]] /\ frame'[p] = g
      /\ \A q \in Tasks \ {p} : frame'[q] = frame[q]
  BY <1>1, <1>4, <1>5, OneFrame
<1>7. \A q \in Tasks, i \in Caches :
        frame'[q][i] = frame[q][i] \/ (q = p /\ i = "settings" /\ frame'[q][i] = fr)
  BY <1>5, <1>6
<1>8. Fine("settings", file)
  BY <1>1, Ranks DEF Fine, Disk
<1>9. ASSUME NEW q \in Tasks, NEW i \in Caches PROVE Held(q, i)'
  <2>1. Held(q, i) /\ file \in 1..file
    BY <1>1 DEF Locks, Disk
  <2> QED
    BY <1>1, <1>3, <1>7, <2>1 DEF Held, disk, Active
<1>10. "documents" \in Caches
  BY DEF Caches
<1> QED
  BY <1>1, <1>3, <1>6, <1>7, <1>8, <1>9, <1>10, FramesKeep DEF Calls

LEMMA StoreKeeps ==
    ASSUME IInv, NEW p \in Tasks, NEW k \in Caches, Store(p, k)
    PROVE  IInv'
<1>1. Calls /\ Locks /\ Active(frame[p][k]) /\ frame[p][k] \in Frame
  BY DEF IInv, Calls, Store, Active
<1>2. lock[k] = p
  BY <1>1 DEF Locks, Held
<1>3. frame[p][k].acc \in SUBSET Nat /\ \A x \in frame[p][k].acc : Fine(k, x)
  BY <1>1 DEF IInv, Freshness, Frame
<1>4. /\ value' \in [Caches -> SUBSET Nat]
      /\ \A i \in Caches : value'[i] = value[i] \/ (i = k /\ value'[i] = frame[p][k].acc)
      /\ lock' \in [Caches -> Tasks \cup {Free}]
      /\ \A i \in Caches : lock'[i] = lock[i] \/ (i = k /\ lock[i] = p)
  BY <1>1, <1>2, <1>3 DEF Store, Calls
<1>5. /\ frame[p][k].at # "idle" /\ Return(p, k, frame[p][k].acc)
      /\ UNCHANGED <<disk, writers, since, acked>>
  BY DEF Store
<1> QED
  BY <1>3, <1>4, <1>5, ReturnKeeps

LEMMA AbandonKeeps ==
    ASSUME IInv, NEW p \in Tasks, Abandon(p)
    PROVE  IInv'
<1> DEFINE g == [k \in Caches |-> NoFrame]
<1>1. /\ Calls /\ Locks /\ frame' = [frame EXCEPT ![p] = g]
      /\ lock' = [k \in Caches |-> IF lock[k] = p THEN Free ELSE lock[k]]
      /\ UNCHANGED <<disk, writers, value, result, since, inbox, acked>>
  BY DEF IInv, Abandon
<1>2. NoFrame \in Frame /\ NoFrame.at = "idle" /\ NoFrame.acc = {} /\ ~Active(NoFrame)
  BY DEF Frame, NoFrame, Steps, Active
<1>3. g \in [Caches -> Frame] /\ \A i \in Caches : g[i] = NoFrame
  BY <1>2
<1> HIDE DEF g
<1>4. /\ frame' \in [Tasks -> [Caches -> Frame]] /\ frame'[p] = g
      /\ \A q \in Tasks \ {p} : frame'[q] = frame[q]
  BY <1>1, <1>3, OneFrame
<1>5. lock' \in [Caches -> Tasks \cup {Free}]
  BY <1>1 DEF Calls
<1>6. ASSUME NEW q \in Tasks, NEW i \in Caches PROVE Held(q, i)'
  <2>1. Held(q, i)
    BY <1>1 DEF Locks
  <2> QED
    BY <1>1, <1>2, <1>3, <1>4, <2>1 DEF Held, disk, Active
<1>7. "documents" \in Caches
  BY DEF Caches
<1>8. \A q \in Tasks, i \in Caches : frame'[q][i] = frame[q][i] \/ frame'[q][i] = NoFrame
  BY <1>3, <1>4
<1> QED
  BY <1>1, <1>2, <1>4, <1>5, <1>6, <1>7, <1>8, FramesKeep

\* A call that begins may be given anything that is in the chain; a view that
\* begins has emptied its documents, which nobody was filling.
LEMMA StartKeeps ==
    ASSUME IInv, NEW p \in Tasks, NEW k \in Caches, Resting(p), Enter(p, k),
           result' = [result EXCEPT ![p] = {}], since' = [since EXCEPT ![p] = acked],
           UNCHANGED <<disk, writers, lock, acked>>,
           \/ k \in Chain /\ value' = value
           \/ /\ k = "documents" /\ lock[k] = Free
              /\ value' = [value EXCEPT !["documents"] = {}]
    PROVE  IInv'
<1>1. Calls /\ Locks /\ Newest /\ Disk /\ "documents" \in Caches
  BY DEF IInv, Caches
<1> DEFINE fr == [frame[p][k] EXCEPT !.at = "read"]
           g == [frame[p] EXCEPT ![k] = fr]
<1>2. /\ frame[p] \in [Caches -> Frame] /\ \A i \in Caches : frame[p][i] = NoFrame
  BY <1>1 DEF Calls, Resting
<1>3. fr \in Frame /\ fr.at = "read" /\ fr.acc = {} /\ ~Active(fr)
  BY <1>2 DEF Frame, Steps, Active, NoFrame
<1>4. frame' = [frame EXCEPT ![p] = g]
  BY DEF Enter
<1> HIDE DEF fr
<1>5. g \in [Caches -> Frame] /\ g[k] = fr /\ \A i \in Caches \ {k} : g[i] = NoFrame
  BY <1>2, <1>3
<1> HIDE DEF g
<1>6. /\ frame' \in [Tasks -> [Caches -> Frame]] /\ frame'[p] = g
      /\ \A q \in Tasks \ {p} : frame'[q] = frame[q]
  BY <1>1, <1>4, <1>5, OneFrame
<1>7. \A q \in Tasks, i \in Caches :
        \/ q # p /\ frame'[q][i] = frame[q][i]
        \/ q = p /\ i # k /\ frame'[q][i] = NoFrame
        \/ q = p /\ i = k /\ frame'[q][i] = fr
  BY <1>5, <1>6
<1>8. NoFrame.at = "idle" /\ ~Active(NoFrame) /\ NoFrame.acc = {}
  BY DEF NoFrame, Active
<1>9. /\ since' \in [Tasks -> Nat] /\ since'[p] = acked /\ acked \in 1..file
      /\ \A q \in Tasks \ {p} : since'[q] = since[q]
  BY <1>1 DEF Calls, Newest, Disk
<1>10. Disk' /\ Turns' /\ Newest'
  <2>1. \A q \in Tasks : since'[q] \in 1..acked
    BY <1>1, <1>9 DEF Newest
  <2> QED
    BY <2>1, DiskKept
<1>11. Calls'
  BY <1>1, <1>6, <1>9 DEF Calls
<1>12. Locks'
  <2> SUFFICES ASSUME NEW q \in Tasks, NEW i \in Caches PROVE Held(q, i)'
    BY DEF Locks
  <2>1. Held(q, i)
    BY <1>1 DEF Locks
  <2> QED
    BY <1>3, <1>7, <1>8, <2>1 DEF Held, disk, Active
<1>13. ASSUME NEW i \in Caches, NEW x, Fine(i, x), i # k \/ k \in Chain
       PROVE  Fine(i, x)'
  <2>1. x \in 1..file' /\ (i \in Chain => \A w \in Writers : Rank(i) <= Behind(w)' => written'[w] <= x)
    BY <1>13 DEF Fine, disk, writers, Behind
  <2>2. i = "documents" =>
            \A q \in Tasks : frame'[q]["documents"].at # "idle" => since'[q] <= x
    <3>1. ASSUME i = "documents" PROVE i # k
      BY <1>13, <3>1, Ranks
    <3> QED
      BY <1>1, <1>7, <1>8, <1>9, <1>13, <3>1 DEF Fine
  <2> QED
    BY <2>1, <2>2 DEF Fine
<1>14. ASSUME k \notin Chain PROVE value'[k] = {} /\ \A q \in Tasks : ~Active(frame'[q][k])
  <2>1. k = "documents" /\ lock[k] = Free /\ value'[k] = {}
    BY <1>1, <1>14 DEF Calls
  <2>2. \A q \in Tasks : ~Active(frame[q][k])
    BY <1>1, <2>1, Constant DEF Locks, Held
  <2> QED
    BY <1>3, <1>7, <1>8, <2>1, <2>2
<1>15. Freshness'
  <2>1. ASSUME NEW i \in Caches, NEW x \in value'[i] PROVE Fine(i, x)'
    <3>1. x \in value[i] /\ (i # k \/ k \in Chain)
      BY <1>1, <1>14, <2>1 DEF Calls
    <3> QED
      BY <1>13, <3>1 DEF IInv, Freshness
  <2>2. ASSUME NEW q \in Tasks, NEW i \in Caches, Active(frame'[q][i]), NEW x \in frame'[q][i].acc
        PROVE  Fine(i, x)'
    <3>1. frame'[q][i] = frame[q][i]
      BY <1>3, <1>7, <1>8, <2>2
    <3> QED
      BY <1>13, <1>14, <2>2, <3>1 DEF IInv, Freshness
  <2>3. ASSUME NEW q \in Tasks, NEW x \in result'[q] PROVE x \in (since[q]..file)'
    <3>1. q # p /\ x \in result[q]
      BY <1>1, <2>3 DEF Calls
    <3> QED
      BY <1>9, <3>1 DEF IInv, Freshness, disk
  <2> QED
    BY <2>1, <2>2, <2>3 DEF Freshness
<1> QED
  BY <1>10, <1>11, <1>12, <1>15 DEF IInv

LEMMA CallersKeep ==
    ASSUME IInv, NEW p \in Tasks,
           Provide(p) \/ Abandon(p) \/ Refresh(p) \/ \E k \in Caches : Begin(p, k)
    PROVE  IInv'
<1>1. CASE Refresh(p)
  <2>1. "documents" \in Caches
    BY DEF Caches
  <2> QED
    BY <1>1, <2>1, StartKeeps DEF Refresh
<1>2. ASSUME NEW k \in Caches, Begin(p, k) PROVE IInv'
  BY <1>2, StartKeeps DEF Begin, caches
<1> QED
  BY <1>1, <1>2, ReadLockedKeeps, WriteLockedKeeps, ReadFileKeeps, StoreKeeps, AbandonKeeps
     DEF Provide

-----------------------------------------------------------------------------
Emptied(k) == value'[k] = {} /\ lock[k] = Free

Spared(k) == value'[k] = value[k] /\ \A x : Fine(k, x) => Fine(k, x)'

\* A writer's step leaves the frames, and empties at most caches that nobody
\* fills.
LEMMA WriterStep ==
    ASSUME IInv, UNCHANGED <<lock, calls>>, Disk', file <= file',
           value' \in [Caches -> SUBSET Nat],
           \A k \in Caches : Emptied(k) \/ Spared(k)
    PROVE  Calls' /\ Locks' /\ Freshness'
<1>1. file \in Nat /\ file' \in Nat /\ Calls /\ Locks /\ Freshness
  BY DEF IInv, Disk
<1>2. Calls'
  BY <1>1 DEF Calls, calls
<1>3. Locks'
  <2> SUFFICES ASSUME NEW q \in Tasks, NEW i \in Caches PROVE Held(q, i)'
    BY DEF Locks
  <2>1. Held(q, i)
    BY <1>1 DEF Locks
  <2> QED
    BY <1>1, <2>1 DEF Held, calls
<1>4. Freshness'
  <2>1. ASSUME NEW k \in Caches, NEW q \in Tasks, Active(frame[q][k]) PROVE lock[k] # Free
    BY <1>1, <2>1, Constant DEF Locks, Held
  <2>2. \A q \in Tasks : \A v \in result[q] : v \in since[q]..file'
    BY <1>1 DEF Freshness, Calls
  <2> QED
    BY <1>1, <2>1, <2>2 DEF Freshness, calls, Emptied, Spared
<1> QED
  BY <1>2, <1>3, <1>4

LEMMA WritersTyped ==
    ASSUME Disk, NEW w \in Writers, NEW from, NEW to \in WriterSteps, WriterGoto(w, from, to)
    PROVE  /\ wpc' \in [Writers -> WriterSteps] /\ wpc[w] = from /\ wpc'[w] = to
           /\ \A x \in Writers \ {w} : wpc'[x] = wpc[x]
  BY DEF Disk, WriterGoto

\* A writer starts, reads or fails, or is dropped: no version is written and
\* nothing is expired.
LEMMA QuietStep ==
    ASSUME IInv, NEW w \in Writers, NEW from \in WriterSteps \ {"again", "done"},
           NEW to \in WriterSteps \ {"again", "done", "reload"}, WriterGoto(w, from, to),
           UNCHANGED <<disk, written, exp, value, lock, calls, acked>>,
           form' \in [Writers -> SUBSET Writers],
           \/ mutex' = mutex /\ (to \in {"locked", "extracted", "invalidate"} =>
                                    from \in {"locked", "extracted", "invalidate"})
           \/ mutex = Free /\ mutex' = w /\ w \in Updaters \cup Forms
           \/ /\ mutex' = Free /\ from \in {"locked", "extracted", "invalidate"}
              /\ to \notin {"locked", "extracted", "invalidate"},
           to \in {"idle", "locked", "extracted", "failed"} =>
               from \in {"idle", "locked", "extracted", "failed"}
    PROVE  IInv'
<1>1. Disk /\ Turns /\ Newest /\ Calls
  BY DEF IInv
<1>2. /\ wpc' \in [Writers -> WriterSteps] /\ wpc[w] = from /\ wpc'[w] = to
      /\ \A x \in Writers \ {w} : wpc'[x] = wpc[x]
  BY <1>1, WritersTyped
<1>3. Disk'
  BY <1>1, <1>2 DEF Disk, disk
<1>4. \A x \in Writers : Behind(x)' = Behind(x)
  BY <1>2 DEF Behind
<1>5. Newest'
  BY <1>1, <1>4 DEF Newest, disk, calls
<1>6. Turns'
  <2> SUFFICES ASSUME NEW x \in Writers PROVE Turn(x)'
    BY DEF Turns
  <2>1. Turn(x) /\ Turn(w) /\ w # Free /\ x # Free
    BY <1>1, Constant DEF Turns
  <2> QED
    BY <1>2, <2>1 DEF Turn
<1>7. \A k, x : Fine(k, x) => Fine(k, x)'
  BY <1>4 DEF Fine, disk, calls
<1>8. Calls' /\ Locks' /\ Freshness'
  <2>1. file \in Nat /\ file' = file
    BY <1>1 DEF Disk, disk
  <2> QED
    BY <1>1, <1>3, <1>7, <2>1, WriterStep DEF Calls, Spared
<1> QED
  BY <1>3, <1>5, <1>6, <1>8 DEF IInv

\* A new version is written, by somebody who has expired nothing since.
LEMMA WriteKeeps ==
    ASSUME IInv, NEW w \in Writers, NEW from \in {"extracted", "idle"},
           NEW to \in {"invalidate", "reload"}, WriterGoto(w, from, to),
           to = "invalidate" => from = "extracted",
           to = "reload" => w \in Editors,
           file' = file + 1, content' \subseteq Writers,
           written' = [written EXCEPT ![w] = file + 1],
           UNCHANGED <<mutex, form, exp, value, lock, calls, acked>>
    PROVE  IInv'
<1>1. Disk /\ Turns /\ Newest /\ Calls /\ file \in Nat \ {0}
  BY DEF IInv, Disk
<1>2. /\ wpc' \in [Writers -> WriterSteps] /\ wpc[w] = from /\ wpc'[w] = to
      /\ \A x \in Writers \ {w} : wpc'[x] = wpc[x]
  BY <1>1, WritersTyped DEF WriterSteps
<1>3. exp[w] = 1 /\ written[w] = 0
  BY <1>1, <1>2 DEF Turns, Turn
<1>4. /\ written' \in [Writers -> 0..file'] /\ written'[w] = file'
      /\ \A x \in Writers \ {w} : written'[x] = written[x]
  BY <1>1 DEF Disk
<1>5. Disk'
  BY <1>1, <1>2, <1>4 DEF Disk
<1>6. Behind(w)' = 0 /\ \A x \in Writers \ {w} : Behind(x)' = Behind(x)
  BY <1>2, <1>3 DEF Behind
<1>7. Newest'
  <2>1. acked' \in 1..file' /\ \A p \in Tasks : since'[p] \in 1..acked'
    BY <1>1 DEF Newest, calls
  <2>2. acked' = 1 \/ \E x \in Writers : written'[x] = acked' /\ Behind(x)' >= 3
    <3>1. CASE acked = 1
      BY <3>1
    <3>2. CASE acked # 1
      <4>1. PICK x \in Writers : written[x] = acked /\ Behind(x) >= 3
        BY <1>1, <3>2 DEF Newest
      <4>2. x # w
        BY <1>1, <1>3, <4>1 DEF Newest
      <4> QED
        BY <1>4, <1>6, <4>1, <4>2
    <3> QED
      BY <3>1, <3>2
  <2> QED
    BY <1>4, <2>1, <2>2 DEF Newest
<1>8. Turns'
  <2> SUFFICES ASSUME NEW x \in Writers PROVE Turn(x)'
    BY DEF Turns
  <2>1. Turn(x) /\ Turn(w)
    BY <1>1 DEF Turns
  <2> QED
    BY <1>2, <1>4, <2>1 DEF Turn
<1>9. ASSUME NEW k \in Caches, NEW v, Fine(k, v) PROVE Fine(k, v)'
  <2>1. v \in 1..file'
    BY <1>1, <1>9 DEF Fine
  <2>2. k \in Chain => \A x \in Writers : Rank(k) <= Behind(x)' => written'[x] <= v
    BY <1>4, <1>6, <1>9, Ranks DEF Fine
  <2> QED
    BY <1>9, <2>1, <2>2 DEF Fine, calls
<1>10. Calls' /\ Locks' /\ Freshness'
  <2>1. file <= file'
    BY <1>1
  <2> QED
    BY <1>1, <1>5, <1>9, <2>1, WriterStep DEF Calls, Spared
<1> QED
  BY <1>5, <1>7, <1>8, <1>10 DEF IInv

LEMMA InvalidateKeeps ==
    ASSUME IInv, NEW w \in Writers, Invalidate(w)
    PROVE  IInv'
<1> DEFINE e == InvalidationOrder[exp[w]]
<1>1. Disk /\ Turns /\ Newest /\ Calls /\ file \in Nat
  BY DEF IInv, Disk
<1>2. /\ Invalidating(w) /\ lock[e] = Free /\ value' = [value EXCEPT ![e] = {}]
      /\ exp' = [exp EXCEPT ![w] = @ + 1]
      /\ UNCHANGED <<disk, mutex, wpc, form, written, lock, calls, acked>>
  BY DEF Invalidate
<1>3. exp[w] \in 1..3
  BY <1>1, Order DEF Invalidate, Disk
<1>4. e \in Chain /\ Rank(e) = exp[w] /\ e \in Caches
  BY <1>3, Order, Ranks
<1>5. \A k \in Chain : Rank(k) = exp[w] => k = e
  BY <1>3, Order
<1> HIDE DEF e
<1>6. /\ exp' \in [Writers -> 1..4] /\ exp'[w] = exp[w] + 1
      /\ \A x \in Writers \ {w} : exp'[x] = exp[x]
  BY <1>1, <1>2, <1>3 DEF Disk
<1>7. Disk'
  BY <1>1, <1>2, <1>6 DEF Disk, disk
<1>8. /\ Behind(w)' = Behind(w) \/ (Behind(w) = exp[w] - 1 /\ Behind(w)' = exp[w])
      /\ \A x \in Writers \ {w} : Behind(x)' = Behind(x)
  BY <1>2, <1>3, <1>6 DEF Behind
<1>9. Newest'
  <2>1. \A x \in Writers : Behind(x) >= 3 => Behind(x)' >= 3
    BY <1>3, <1>8
  <2> QED
    BY <1>1, <1>2, <2>1 DEF Newest, disk, calls
<1>10. Turns'
  <2> SUFFICES ASSUME NEW x \in Writers PROVE Turn(x)'
    BY DEF Turns
  <2>1. Turn(x)
    BY <1>1 DEF Turns
  <2> QED
    BY <1>2, <1>6, <2>1 DEF Turn, Invalidating
<1>11. ASSUME NEW k \in Caches, k # e, NEW v, Fine(k, v) PROVE Fine(k, v)'
  <2>1. k \in Chain => \A x \in Writers : Rank(k) <= Behind(x)' => Rank(k) <= Behind(x)
    BY <1>3, <1>5, <1>8, <1>11, Ranks
  <2> QED
    BY <1>2, <1>11, <2>1 DEF Fine, disk, calls
<1>12. Calls' /\ Locks' /\ Freshness'
  <2>1. value' \in [Caches -> SUBSET Nat] /\ value'[e] = {}
        /\ \A k \in Caches \ {e} : value'[k] = value[k]
    BY <1>1, <1>2, <1>4 DEF Calls
  <2>2. file <= file' /\ UNCHANGED <<lock, calls>>
    BY <1>1, <1>2 DEF disk
  <2>3. \A k \in Caches : Emptied(k) \/ Spared(k)
    <3>1. Emptied(e)
      BY <1>2, <2>1 DEF Emptied
    <3>2. \A k \in Caches \ {e} : Spared(k)
      BY <1>11, <2>1 DEF Spared
    <3> QED
      BY <3>1, <3>2
  <2>4. value' \in [Caches -> SUBSET Nat]
    BY <2>1
  <2> QED
    BY <1>7, <2>2, <2>3, <2>4, WriterStep
<1> QED
  BY <1>7, <1>9, <1>10, <1>12 DEF IInv

LEMMA FinishKeeps ==
    ASSUME IInv, NEW w \in Writers, Finish(w)
    PROVE  IInv'
<1>1. Disk /\ Turns /\ Newest /\ Calls /\ file \in Nat
  BY DEF IInv, Disk
<1>2. /\ exp[w] > 3
      /\ acked' = (IF written[w] > acked THEN written[w] ELSE acked)
      /\ UNCHANGED <<disk, form, written, value, lock, calls>>
  BY Order DEF Finish, caches
<1>3. PICK from \in {"invalidate", "reload", "again"}, to \in {"again", "done"} :
         /\ WriterGoto(w, from, to)
         /\ mutex' = mutex \/ (from = "invalidate" /\ mutex' = Free)
         /\ exp' = exp \/ (exp' = [exp EXCEPT ![w] = 1])
  BY DEF Finish
<1>4. /\ wpc' \in [Writers -> WriterSteps] /\ wpc[w] = from /\ wpc'[w] = to
      /\ \A x \in Writers \ {w} : wpc'[x] = wpc[x]
  BY <1>1, <1>3, WritersTyped DEF WriterSteps
<1>5. exp' \in [Writers -> 1..4] /\ \A x \in Writers \ {w} : exp'[x] = exp[x]
  BY <1>1, <1>3 DEF Disk
<1>6. exp[w] = 4 /\ Behind(w) = 3 /\ \A x \in Writers : Behind(x)' = Behind(x)
  BY <1>1, <1>2, <1>4, <1>5 DEF Disk, Behind
<1>7. Disk'
  BY <1>1, <1>2, <1>3, <1>4, <1>5 DEF Disk, disk
<1>8. Newest'
  <2>1. written[w] \in 0..file /\ acked \in 1..file
    BY <1>1 DEF Disk, Newest
  <2>2. acked' \in 1..file /\ acked <= acked'
    BY <1>1, <1>2, <2>1
  <2>3. \A p \in Tasks : since'[p] \in 1..acked'
    BY <1>1, <1>2, <2>1, <2>2 DEF Newest, calls
  <2>4. acked' = 1 \/ \E x \in Writers : written'[x] = acked' /\ Behind(x)' >= 3
    BY <1>1, <1>2, <1>6 DEF Newest
  <2> QED
    BY <1>1, <1>2, <2>2, <2>3, <2>4 DEF Newest, disk
<1>9. Turns'
  <2> SUFFICES ASSUME NEW x \in Writers PROVE Turn(x)'
    BY DEF Turns
  <2>1. Turn(x) /\ Turn(w) /\ w # Free /\ x # Free
    BY <1>1, Constant DEF Turns
  <2> QED
    BY <1>2, <1>3, <1>4, <1>5, <2>1 DEF Turn
<1>10. \A k, v : Fine(k, v) => Fine(k, v)'
  BY <1>2, <1>6 DEF Fine, disk, calls
<1>11. Calls' /\ Locks' /\ Freshness'
  <2>1. file' = file
    BY <1>2 DEF disk
  <2> QED
    BY <1>1, <1>2, <1>7, <1>10, <2>1, WriterStep DEF Calls, Spared
<1> QED
  BY <1>7, <1>8, <1>9, <1>11 DEF IInv

LEMMA WritersKeep ==
    ASSUME IInv, NEW w \in Writers, Update(w) \/ WriteFails(w) \/ CancelUpdate(w)
    PROVE  IInv'
<1>1. form \in [Writers -> SUBSET Writers] /\ content \subseteq Writers
  BY DEF IInv, Disk
<1> USE DEF WriterSteps, caches, disk
<1>2. CASE Acquire(w)
  <2>1. PICK to \in {"locked", "extracted"} : WriterGoto(w, "idle", to)
    BY <1>2 DEF Acquire
  <2> QED
    BY <1>1, <1>2, <2>1, QuietStep DEF Acquire
<1>3. CASE Extract(w)
  <2>1. form' \in [Writers -> SUBSET Writers]
    BY <1>1, <1>3 DEF Extract
  <2> QED
    BY <1>3, <2>1, QuietStep DEF Extract
<1>4. CASE Save(w)
  <2>1. content' \subseteq Writers
    BY <1>1, <1>4 DEF Save
  <2> QED
    BY <1>4, <2>1, WriteKeeps DEF Save
<1>5. CASE EditFile(w)
  <2>1. content' \subseteq Writers
    BY <1>1, <1>5 DEF EditFile
  <2> QED
    BY <1>5, <2>1, WriteKeeps DEF EditFile
<1>6. CASE WriteFails(w)
  <2>1. PICK from \in {"locked", "extracted"} : WriterGoto(w, from, "failed")
    BY <1>6 DEF WriteFails
  <2> QED
    BY <1>1, <1>6, <2>1, QuietStep DEF WriteFails
<1>7. CASE CancelUpdate(w)
  BY <1>1, <1>7, QuietStep DEF CancelUpdate
<1> QED
  BY <1>2, <1>3, <1>4, <1>5, <1>6, <1>7, InvalidateKeeps, FinishKeeps DEF Update

LEMMA InitInv == Init => IInv
<1> SUFFICES ASSUME Init PROVE IInv
  OBVIOUS
<1>1. NoFrame \in Frame /\ ~Active(NoFrame) /\ NoFrame.at = "idle" /\ NoFrame.acc = {}
  BY DEF NoFrame, Frame, Steps, Active
<1>2. Disk
  BY DEF Init, Disk, WriterSteps
<1>3. Calls
  BY <1>1 DEF Init, Calls, Frame, Steps, NoFrame
<1>4. \A p \in Tasks, k \in Caches : frame[p][k] = NoFrame
  BY DEF Init
<1>5. Locks
  BY <1>1, <1>4 DEF Locks, Held
<1>6. Turns /\ Newest
  BY DEF Init, Turns, Turn, Newest
<1>7. \A w \in Writers : written[w] = 0
  BY DEF Init
<1>8. \A k \in Caches : \A v \in value[k] : Fine(k, v)
  <2>1. \A k \in Caches : \A v \in value[k] : v = 1
    BY DEF Init
  <2>2. "documents" \in Caches
    BY DEF Caches
  <2> QED
    BY <1>1, <1>4, <1>7, <2>1, <2>2 DEF Init, Fine
<1>9. Freshness
  BY <1>1, <1>4, <1>8 DEF Freshness, Init
<1> QED
  BY <1>2, <1>3, <1>5, <1>6, <1>9 DEF IInv

LEMMA NextInv == IInv /\ [Next]_vars => IInv'
<1> SUFFICES ASSUME IInv, [Next]_vars PROVE IInv'
  OBVIOUS
<1>1. ASSUME NEW v \in Views, Refresh(v) PROVE IInv'
  BY <1>1, CallersKeep DEF Tasks
<1>2. CASE UNCHANGED vars
  <2>1. Disk' /\ Turns' /\ Newest'
    BY <1>2 DEF vars, disk, writers, calls, IInv, Disk, Turns, Turn, Newest, Behind
  <2>2. Calls' /\ Locks'
    BY <1>2 DEF vars, disk, caches, calls, IInv, Calls, Locks, Held
  <2>3. Freshness'
    BY <1>2 DEF vars, disk, writers, caches, calls, IInv, Freshness, Fine, Behind
  <2> QED
    BY <2>1, <2>2, <2>3 DEF IInv
<1> QED
  BY <1>1, <1>2, CallersKeep, WritersKeep DEF Next

\* The inductive invariant holds whatever the tasks and the writers do.
THEOREM Invariance == Spec => []IInv
  BY InitInv, NextInv, PTL DEF Spec

-----------------------------------------------------------------------------
\* A call that starts after a writer's call returned (lib.rs:312) sees that
\* writer's change in every part of what it is given.
THEOREM YoursRead == Spec => []ReadYourWrites
<1>1. IInv => ReadYourWrites
  <2> SUFFICES ASSUME IInv, NEW p \in Tasks, NEW v \in result[p] PROVE since[p] <= v
    BY DEF ReadYourWrites
  <2>1. v \in since[p]..file /\ since[p] \in Nat /\ file \in Nat
    BY DEF IInv, Freshness, Calls, Disk
  <2> QED
    BY <2>1
<1> QED
  BY <1>1, Invariance, PTL

\* With nobody writing, every cache of the chain is empty or built from the
\* file as it is now.
THEOREM QuietIsFresh == Spec => []QuietChainFresh
<1>1. IInv => QuietChainFresh
  <2> SUFFICES ASSUME IInv, NobodyWriting, NEW k \in Chain, NEW v \in value[k]
               PROVE  v = file
    BY DEF QuietChainFresh
  <2>1. Fine(k, v) /\ v \in 1..file /\ file \in Nat /\ Rank(k) \in 1..3
    BY Ranks DEF IInv, Freshness, Fine, Disk
  <2>2. CASE file = 1
    BY <2>1, <2>2
  <2>3. CASE file # 1
    <3>1. PICK w \in Writers : written[w] = file
      BY <2>3 DEF IInv, Newest
    <3>2. wpc[w] \in {"again", "done"}
      BY <2>3, <3>1 DEF NobodyWriting, IInv, Turns, Turn, Disk
    <3>3. file <= v
      BY <2>1, <3>1, <3>2 DEF Fine, Behind
    <3> QED
      BY <2>1, <3>3
  <2> QED
    BY <2>2, <2>3
<1> QED
  BY <1>1, Invariance, PTL

-----------------------------------------------------------------------------
(***************************************************************************)
(* Updates.  Whoever holds the mutex saves what was in the file, so the    *)
(* program's writers do not undo each other; a form's copy may be older,   *)
(* but then the form is the last to have written.                          *)
(***************************************************************************)
Saved(w) ==
    wpc[w] \in {"invalidate", "again", "done"} =>
        w \in content \/ \E f \in Forms : written[f] > written[w]

Copied(w) ==
    wpc[w] = "extracted" /\ w \in Updaters =>
        content \cap (Updaters \cup Forms) \subseteq form[w]

Updated == \A w \in Updaters \cup Forms : Saved(w) /\ Copied(w)

\* Steps that write nothing.
LEMMA NothingWritten ==
    ASSUME Updated, UNCHANGED <<disk, written>>,
           \A x \in Updaters \cup Forms :
               /\ \/ UNCHANGED <<wpc[x], form[x]>>
                  \/ wpc'[x] \notin {"invalidate", "again", "done", "extracted"}
                  \/ wpc[x] = "invalidate" /\ wpc'[x] \in {"again", "done"}
                  \/ wpc[x] = "again" /\ wpc'[x] = "done"
                  \/ wpc'[x] = "extracted" /\ (x \in Updaters => form'[x] = content)
    PROVE  Updated'
  BY DEF Updated, Saved, Copied, disk

LEMMA UpdatedKept == IInv /\ Updated /\ [Next]_vars => Updated'
<1> SUFFICES ASSUME IInv, Updated, [Next]_vars PROVE Updated'
  OBVIOUS
<1>1. Disk /\ Turns /\ file \in Nat
  BY DEF IInv, Disk
<1>2. Updaters \subseteq Writers /\ Forms \subseteq Writers
  BY DEF Writers
<1> USE DEF WriterSteps
<1>3. CASE UNCHANGED <<disk, writers>>
  BY <1>3, NothingWritten DEF writers
<1>4. ASSUME NEW w \in Writers, Acquire(w) PROVE Updated'
  <2>1. PICK to \in {"locked", "extracted"} :
           WriterGoto(w, "idle", to) /\ (to = "extracted" => w \notin Updaters)
    BY <1>4 DEF Acquire
  <2>2. wpc'[w] = to /\ \A x \in Writers \ {w} : wpc'[x] = wpc[x]
    BY <1>1, <2>1, WritersTyped
  <2> QED
    BY <1>2, <1>4, <2>1, <2>2, NothingWritten DEF Acquire
<1>5. ASSUME NEW w \in Writers, Extract(w) PROVE Updated'
  <2>1. wpc'[w] = "extracted" /\ \A x \in Writers \ {w} : wpc'[x] = wpc[x]
    BY <1>1, <1>5, WritersTyped DEF Extract
  <2>2. form'[w] = content /\ \A x \in Writers \ {w} : form'[x] = form[x]
    BY <1>1, <1>5 DEF Extract, Disk
  <2> QED
    BY <1>2, <1>5, <2>1, <2>2, NothingWritten DEF Extract
<1>6. ASSUME NEW w \in Writers, Save(w) PROVE Updated'
  <2>1. /\ wpc[w] = "extracted" /\ wpc'[w] = "invalidate"
        /\ \A x \in Writers \ {w} : wpc'[x] = wpc[x]
    BY <1>1, <1>6, WritersTyped DEF Save
  <2>2. /\ content' = form[w] \cup {w} /\ form' = form
        /\ written'[w] = file + 1 /\ \A x \in Writers \ {w} : written'[x] = written[x]
    BY <1>1, <1>6 DEF Save, Disk
  <2>3. \A x \in Writers : written[x] \in 0..file
    BY <1>1 DEF Disk
  <2>4. w \in Updaters \cup Forms
    BY <1>1, <2>1 DEF Turns, Turn
  <2>5. ASSUME NEW x \in Updaters \cup Forms PROVE Saved(x)'
    <3>1. CASE x = w
      BY <2>2, <3>1 DEF Saved
    <3>2. CASE x # w /\ w \in Forms
      <4>1. written'[w] > written'[x]
        BY <1>1, <1>2, <2>2, <2>3, <3>2
      <4> QED
        BY <3>2, <4>1 DEF Saved
    <3>3. CASE x # w /\ w \in Updaters
      <4>1. Saved(x) /\ Copied(w)
        BY <3>3 DEF Updated
      <4>2. \A f \in Forms : written[f] > written[x] => written'[f] > written'[x]
        BY <1>1, <1>2, <2>2, <2>3, <3>3
      <4>3. x \in content => x \in content'
        BY <2>1, <2>2, <3>3, <4>1 DEF Copied
      <4> QED
        BY <1>2, <2>1, <3>3, <4>1, <4>2, <4>3 DEF Saved
    <3> QED
      BY <2>4, <3>1, <3>2, <3>3
  <2>6. ASSUME NEW x \in Updaters \cup Forms PROVE Copied(x)'
    <3>1. mutex = w /\ (wpc[x] = "extracted" => mutex = x)
      BY <1>1, <1>2, <2>1 DEF Turns, Turn
    <3>2. wpc'[x] # "extracted"
      BY <1>2, <2>1, <3>1
    <3> QED
      BY <3>2 DEF Copied
  <2> QED
    BY <2>5, <2>6 DEF Updated
<1>7. ASSUME NEW w \in Writers, EditFile(w) PROVE Updated'
  <2>1. /\ wpc'[w] = "reload" /\ \A x \in Writers \ {w} : wpc'[x] = wpc[x]
    BY <1>1, <1>7, WritersTyped DEF EditFile
  <2>2. /\ content' = content \cup {w} /\ form' = form
        /\ \A x \in Writers \ {w} : written'[x] = written[x]
        /\ w \notin Updaters \cup Forms
    BY <1>1, <1>7, Constant DEF EditFile, Disk
  <2>3. \A x \in Updaters \cup Forms : x # w /\ x \in Writers
    BY <1>2, <2>2
  <2> QED
    BY <2>1, <2>2, <2>3 DEF Updated, Saved, Copied
<1>8. ASSUME NEW w \in Writers, Invalidate(w) PROVE Updated'
  BY <1>8, NothingWritten DEF Invalidate
<1>9. ASSUME NEW w \in Writers, Finish(w) PROVE Updated'
  <2>1. PICK from \in {"invalidate", "reload", "again"}, to \in {"again", "done"} :
           /\ WriterGoto(w, from, to) /\ (to = "again" => from = "invalidate")
    BY <1>9 DEF Finish
  <2>2. wpc[w] = from /\ wpc'[w] = to /\ \A x \in Writers \ {w} : wpc'[x] = wpc[x]
    BY <1>1, <2>1, WritersTyped
  <2>3. w \in Updaters \cup Forms => from # "reload"
    BY <1>1, <2>2, Constant DEF Turns, Turn
  <2>4. UNCHANGED <<disk, written, form>>
    BY <1>9 DEF Finish
  <2>5. \A x \in Updaters \cup Forms :
           \/ UNCHANGED <<wpc[x], form[x]>>
           \/ wpc[x] = "invalidate" /\ wpc'[x] \in {"again", "done"}
           \/ wpc[x] = "again" /\ wpc'[x] = "done"
    BY <1>2, <2>1, <2>2, <2>3, <2>4
  <2> QED
    BY <2>4, <2>5, NothingWritten
<1>10. ASSUME NEW w \in Writers, WriteFails(w) \/ CancelUpdate(w) PROVE Updated'
  <2>1. PICK from \in WriterSteps, to \in {"failed", "cancelled"} : WriterGoto(w, from, to)
    BY <1>10 DEF WriteFails, CancelUpdate
  <2>2. wpc'[w] = to /\ \A x \in Writers \ {w} : wpc'[x] = wpc[x]
    BY <1>1, <2>1, WritersTyped
  <2>3. UNCHANGED <<disk, written, form>>
    BY <1>10 DEF WriteFails, CancelUpdate
  <2> QED
    BY <1>2, <2>2, <2>3, NothingWritten
<1>11. ASSUME NEW p \in Tasks,
              Provide(p) \/ Abandon(p) \/ Refresh(p) \/ \E k \in Caches : Begin(p, k)
       PROVE  UNCHANGED <<disk, writers>>
  BY <1>11 DEF Provide, ReadFile, ReadLocked, WriteLocked, Store, Abandon, Refresh, Begin
<1> QED
  BY <1>3, <1>4, <1>5, <1>6, <1>7, <1>8, <1>9, <1>10, <1>11 DEF Next, Update, vars, Tasks

\* Once update_settings or save_settings has returned, its change stays in the
\* file (lib.rs:186): only the copy of an older preference form undoes it.
THEOREM NoUpdateLost == Spec => []UpdatesKept
<1>1. Init => Updated
  BY DEF Init, Updated, Saved, Copied, Writers
<1>2. Updated => UpdatesKept
  BY DEF Updated, Saved, UpdatesKept
<1> QED
  BY <1>1, <1>2, UpdatedKept, Invariance, PTL DEF Spec

-----------------------------------------------------------------------------
(***************************************************************************)
(* Types.  There are no more versions than writers that may write.         *)
(***************************************************************************)
Begun == {w \in Writers : wpc[w] # "idle"}

Wrote == {w \in Writers : written[w] # 0}

Counted ==
    /\ Cardinality(Begun) <= MaxWrites
    /\ file = 1 + Cardinality(Wrote)

LEMMA Finite ==
    /\ IsFiniteSet(Begun) /\ Cardinality(Begun) \in Nat
    /\ IsFiniteSet(Wrote) /\ Cardinality(Wrote) \in Nat
<1>1. Begun \subseteq Writers /\ Wrote \subseteq Writers
  BY DEF Begun, Wrote
<1>2. IsFiniteSet(Begun) /\ IsFiniteSet(Wrote)
  BY <1>1, Constant, FS_Subset
<1> QED
  BY <1>2, FS_CardinalityType

LEMMA StartCounts ==
    ASSUME IInv, NEW w \in Writers, NEW to \in WriterSteps \ {"idle"},
           WriterGoto(w, "idle", to), Starting(w)
    PROVE  Cardinality(Begun)' <= MaxWrites
<1> DEFINE others == {x \in Writers : x # w /\ wpc[x] # "idle"}
<1>1. wpc'[w] = to /\ \A x \in Writers \ {w} : wpc'[x] = wpc[x]
  BY WritersTyped DEF IInv
<1>2. Begun' = others \cup {w} /\ w \notin others
  BY <1>1 DEF Begun
<1>3. IsFiniteSet(others) /\ Cardinality(others) \in Nat /\ Cardinality(others) < MaxWrites
  <2>1. others \subseteq Writers
    OBVIOUS
  <2>2. IsFiniteSet(others)
    BY <2>1, Constant, FS_Subset
  <2> QED
    BY <2>2, FS_CardinalityType DEF Starting
<1> HIDE DEF others
<1>4. Cardinality(others \cup {w}) = Cardinality(others) + 1
  BY <1>2, <1>3, FS_AddElement
<1>5. Cardinality(Begun)' = Cardinality(others) + 1
  BY <1>2, <1>4
<1> QED
  BY <1>3, <1>5, Constant

LEMMA VersionCounts ==
    ASSUME IInv, Counted, NEW w \in Writers, wpc[w] \in {"idle", "extracted"},
           file' = file + 1, written' = [written EXCEPT ![w] = file + 1]
    PROVE  file' = 1 + Cardinality(Wrote)'
<1>1. written[w] = 0 /\ written \in [Writers -> 0..file] /\ file \in Nat
  BY DEF IInv, Turns, Turn, Disk
<1>2. Wrote' = Wrote \cup {w} /\ w \notin Wrote
  BY <1>1 DEF Wrote
<1>3. Cardinality(Wrote \cup {w}) = Cardinality(Wrote) + 1
  BY <1>2, Finite, FS_AddElement
<1> QED
  BY <1>2, <1>3, Finite DEF Counted

LEMMA CountedKept == IInv /\ Counted /\ [Next]_vars => Counted'
<1> SUFFICES ASSUME IInv, Counted, [Next]_vars PROVE Counted'
  OBVIOUS
<1> USE DEF WriterSteps
<1>1. ASSUME UNCHANGED <<file, written>>
      PROVE  file' = 1 + Cardinality(Wrote)'
  <2>1. Wrote' = Wrote
    BY <1>1 DEF Wrote
  <2> QED
    BY <1>1, <2>1 DEF Counted
<1>2. ASSUME NEW w \in Writers, NEW from \in WriterSteps \ {"idle"}, NEW to \in WriterSteps \ {"idle"},
             WriterGoto(w, from, to)
      PROVE  Cardinality(Begun)' <= MaxWrites
  <2>1. Begun' = Begun
    BY <1>2, WritersTyped DEF Begun, IInv
  <2> QED
    BY <2>1 DEF Counted
<1>3. ASSUME UNCHANGED <<file, written, wpc>> PROVE Counted'
  <2>1. Begun' = Begun
    BY <1>3 DEF Begun
  <2> QED
    BY <1>1, <1>3, <2>1 DEF Counted
<1>4. ASSUME NEW w \in Writers, Acquire(w) PROVE Counted'
  <2>1. PICK to \in {"locked", "extracted"} : WriterGoto(w, "idle", to)
    BY <1>4 DEF Acquire
  <2> QED
    BY <1>1, <1>4, <2>1, StartCounts DEF Acquire, disk, Counted
<1>5. ASSUME NEW w \in Writers, Extract(w) PROVE Counted'
  BY <1>1, <1>2, <1>5 DEF Extract, disk, Counted
<1>6. ASSUME NEW w \in Writers, Save(w) PROVE Counted'
  <2>1. wpc[w] = "extracted"
    BY <1>6 DEF Save, WriterGoto
  <2> QED
    BY <1>2, <1>6, <2>1, VersionCounts DEF Save, Counted
<1>7. ASSUME NEW w \in Writers, EditFile(w) PROVE Counted'
  <2>1. wpc[w] = "idle"
    BY <1>7 DEF EditFile, WriterGoto
  <2> QED
    BY <1>7, <2>1, StartCounts, VersionCounts DEF EditFile, Counted
<1>8. ASSUME NEW w \in Writers, Invalidate(w) PROVE Counted'
  BY <1>3, <1>8 DEF Invalidate, disk
<1>9. ASSUME NEW w \in Writers, Finish(w) \/ WriteFails(w) \/ CancelUpdate(w) PROVE Counted'
  <2>1. PICK from \in WriterSteps \ {"idle"}, to \in WriterSteps \ {"idle"} : WriterGoto(w, from, to)
    BY <1>9 DEF Finish, WriteFails, CancelUpdate
  <2> QED
    BY <1>1, <1>2, <1>9, <2>1 DEF Finish, WriteFails, CancelUpdate, disk, Counted
<1>10. ASSUME NEW p \in Tasks,
              Provide(p) \/ Abandon(p) \/ Refresh(p) \/ \E k \in Caches : Begin(p, k)
       PROVE  Counted'
  BY <1>3, <1>10 DEF Provide, ReadFile, ReadLocked, WriteLocked, Store, Abandon, Refresh, Begin,
                     disk, writers
<1>11. CASE UNCHANGED vars
  BY <1>3, <1>11 DEF vars, disk, writers
<1> QED
  BY <1>4, <1>5, <1>6, <1>7, <1>8, <1>9, <1>10, <1>11 DEF Next, Update, Tasks

InboxType == inbox \in [Views -> BOOLEAN]

LEMMA InboxKept == InboxType /\ [Next]_vars => InboxType'
<1> SUFFICES ASSUME InboxType, [Next]_vars PROVE InboxType'
  OBVIOUS
<1>1. ASSUME NEW v \in Views, Refresh(v) PROVE InboxType'
  BY <1>1 DEF Refresh, InboxType
<1>2. ASSUME NEW w \in Writers, Invalidate(w) PROVE InboxType'
  <2>1. PICK k : inbox' = [v \in Views |-> inbox[v] \/ k = "settings"]
    BY <1>2 DEF Invalidate
  <2>2. \A v \in Views : (inbox[v] \/ k = "settings") \in BOOLEAN
    OBVIOUS
  <2> QED
    BY <2>1, <2>2, Zenon DEF InboxType
<1>3. CASE UNCHANGED inbox
  BY <1>3 DEF InboxType
<1> QED
  BY <1>1, <1>2, <1>3
     DEF Next, vars, Provide, ReadFile, ReadLocked, WriteLocked, Store, Abandon, Begin, Update,
         Acquire, Extract, Save, EditFile, Finish, WriteFails, CancelUpdate

\* Every variable keeps its type.
THEOREM TypeCorrect == Spec => []TypeOK
<1>1. Init => Counted
  <2> SUFFICES ASSUME Init PROVE Counted
    OBVIOUS
  <2>1. Begun = {} /\ Wrote = {}
    BY DEF Init, Begun, Wrote
  <2> QED
    BY <2>1, FS_EmptySet, Constant DEF Init, Counted
<1>2. Init => InboxType
  BY DEF Init, InboxType
<1>3. IInv /\ Counted /\ InboxType => TypeOK
  <2> SUFFICES ASSUME IInv, Counted, InboxType PROVE TypeOK
    OBVIOUS
  <2>1. Cardinality(Wrote) <= Cardinality(Begun)
    <3>1. Wrote \subseteq Begun
      BY DEF IInv, Turns, Turn, Wrote, Begun
    <3> QED
      BY <3>1, Finite, FS_Subset
  <2>2. file \in Versions /\ 1..file \subseteq Versions
    BY <2>1, Finite, Constant DEF Counted, Versions, IInv, Disk
  <2>3. \A p \in Tasks, k \in Caches : frame[p][k] \in [at : Steps, next : 1..3, acc : SUBSET Versions]
    <3> SUFFICES ASSUME NEW p \in Tasks, NEW k \in Caches
                 PROVE  frame[p][k] \in [at : Steps, next : 1..3, acc : SUBSET Versions]
      OBVIOUS
    <3>1. frame[p][k] \in Frame /\ frame[p][k].acc \subseteq Versions
      BY <2>2 DEF IInv, Calls, Locks, Held
    <3> QED
      BY <3>1 DEF Frame
  <2>4. frame \in [Tasks -> [Caches -> [at : Steps, next : 1..3, acc : SUBSET Versions]]]
    BY <2>3 DEF IInv, Calls
  <2>5. value \in [Caches -> SUBSET Versions]
    BY <2>2 DEF IInv, Calls, Freshness, Fine
  <2>6. /\ acked \in Versions /\ since \in [Tasks -> Versions]
    <3>1. acked \in 1..file /\ \A p \in Tasks : since[p] \in 1..file
      BY DEF IInv, Newest, Disk
    <3> QED
      BY <2>2, <3>1 DEF IInv, Calls
  <2>7. result \in [Tasks -> SUBSET Versions]
    <3>1. ASSUME NEW p \in Tasks, NEW v \in result[p] PROVE v \in 1..file
      BY DEF IInv, Freshness, Newest, Calls, Disk
    <3> QED
      BY <2>2, <3>1 DEF IInv, Calls
  <2>8. written \in [Writers -> Versions \cup {0}]
    <3>1. \A w \in Writers : written[w] \in 0..file /\ 0..file = (1..file) \cup {0}
      BY DEF IInv, Disk
    <3> QED
      BY <2>2, <3>1 DEF IInv, Disk
  <2> QED
    BY <2>2, <2>4, <2>5, <2>6, <2>7, <2>8 DEF IInv, Disk, Calls, InboxType, TypeOK
<1> QED
  BY <1>1, <1>2, <1>3, CountedKept, InboxKept, Invariance, PTL DEF Spec
=============================================================================
