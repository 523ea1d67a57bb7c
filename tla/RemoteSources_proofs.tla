------------------------ MODULE RemoteSources_proofs ------------------------
(***************************************************************************)
(* Proofs about RemoteSources, for any URLs and any bounds.                *)
(*                                                                         *)
(* That the list is the table in the end rests on what is under way: every *)
(* change of the table leaves a task that a fetch follows (ListInv).  What *)
(* a user who waits can rely on is one invariant (Patience): there is one  *)
(* chain of tasks, a swap is of two neighbours of the table, and no order  *)
(* is beyond the number of rows.  Whose clients there are is an invariant  *)
(* of its own (ClientsInv): changes of different URLs do not meet.         *)
(***************************************************************************)
EXTENDS RemoteSources, FiniteSetTheorems, TLAPS

\* A task that is not about the clients.
Main(t) == t.do \notin {"add", "remove"}

\* The shapes of tasks.
PlainTask == [n : Nat, do : {"failed", "load", "fetch", "broken"}, of : SUBSET Urls]
FormTask == [n : Nat, do : {"count", "update", "submitted"}, of : SUBSET Urls,
             original : Shown \cup {None}, url : Urls, secret : Secrets]
InsertTask == [n : Nat, do : {"insert"}, of : SUBSET Urls, original : {None}, url : Urls,
               secret : Secrets, order : Nat]
DeleteTask == [n : Nat, do : {"delete", "deleted"}, of : SUBSET Urls, id : Ids]
SwapTask == [n : Nat, do : {"swap"}, of : SUBSET Urls, first : Shown, second : Shown]
LoadedTask == [n : Nat, do : {"loaded"}, of : SUBSET Urls, rows : SUBSET Shown]
ClientTask == [n : Nat, do : {"add", "remove"}, of : SUBSET Urls, old : Urls \cup {None},
               url : Urls \cup {None}, secret : Secrets \cup {None}]

TaskOK(t) ==
    /\ t.n \in Nat /\ t.do \in Kinds
    /\ t.do \in {"failed", "load", "fetch", "broken"} => t \in PlainTask
    /\ t.do \in {"count", "update", "submitted"} => t \in FormTask
    /\ t.do = "update" => t.original \in Shown
    /\ t.do = "insert" => t \in InsertTask
    /\ t.do \in {"delete", "deleted"} => t \in DeleteTask
    /\ t.do = "swap" => t \in SwapTask /\ t.first.order < t.second.order
    /\ t.do = "loaded" => t \in LoadedTask
    /\ t.do \in {"add", "remove"} => t \in ClientTask /\ (t.url # None => t.secret \in Secrets)
    /\ t.do = "add" => t.url \in Urls

\* Each button has one such task at a time.
TasksInv ==
    /\ \A t \in tasks : TaskOK(t) /\ t.n <= acts
    /\ \A t, u \in tasks : Main(t) /\ Main(u) /\ t.n = u.n => t = u

TableInv ==
    /\ IsFiniteSet(DOMAIN rows)
    /\ \A i, j \in DOMAIN rows : rows[i].order = rows[j].order => i = j

\* Tasks that a fetch is going to follow.
Dirty == {"submitted", "deleted", "load", "fetch", "broken"}

\* When no fetch is to come, the answer to the last one has the table, and it
\* is shown unless it was overtaken.
ListInv ==
    ~panicked /\ (\A t \in tasks : t.do \notin Dirty) =>
        \/ \E t \in tasks : t.do = "loaded" /\ t.n = fetched /\ t.rows = Remotes
        \/ /\ \A t \in tasks : t.do = "loaded" => t.n # fetched
           /\ list.state = "Loaded" /\ ~overtaken => list.rows = Remotes

\* A list that is not shown is on its way.
Listing ==
    ~panicked /\ list.state # "Loaded" =>
        \E t \in tasks : t.do \in {"load", "fetch", "loaded", "broken"}

\* What a user who waits can rely on.
Patience ==
    /\ ~panicked
    /\ \A t, u \in tasks : Main(t) /\ Main(u) => t = u
    /\ \A t \in tasks : t.do = "loaded" => t.rows = Remotes
    /\ (\A t \in tasks : t.do \notin Dirty \cup {"loaded"}) /\ list.state = "Loaded"
          => list.rows = Remotes
    /\ \A t \in tasks : t.do = "swap" =>
          /\ t.first \in Remotes /\ t.second \in Remotes
          /\ \A r \in Remotes : ~(t.first.order < r.order /\ r.order < t.second.order)
    /\ \A t \in tasks : t.do \in {"delete", "deleted"} =>
          list.state = "Loaded" /\ \E r \in list.rows : r.id = t.id
    /\ \A i \in DOMAIN rows : rows[i].order <= Cardinality(DOMAIN rows)
    /\ \A t \in tasks : t.do = "insert" => t.order = Cardinality(DOMAIN rows) + 1

IInv ==
    /\ TypeOK
    /\ TasksInv
    /\ TableInv
    /\ ListInv
    /\ Listing
    /\ alone => Patience

USE NoneAssumption, BoundsAssumption

-----------------------------------------------------------------------------
\* The table.

\* The rows as the dao returns them.
LEMMA RemotesShown ==
    ASSUME TypeOK
    PROVE  Remotes \subseteq Shown
BY DEF TypeOK, Remotes, Remote, Row, Shown, Ids

\* Ranks of unique orders are unique, grow with them, and are less than the
\* number of rows.
LEMMA Ranks ==
    ASSUME NEW R, IsFiniteSet(DOMAIN R), \A i \in DOMAIN R : R[i].order \in Nat,
           NEW i \in DOMAIN R
    PROVE  /\ RankIn(R, i) \in Nat
           /\ RankIn(R, i) < Cardinality(DOMAIN R)
           /\ \A j \in DOMAIN R : R[i].order < R[j].order <=> RankIn(R, i) < RankIn(R, j)
<1> DEFINE Below(k) == {j \in DOMAIN R : R[j].order < R[k].order}
<1>1. \A k \in DOMAIN R : /\ IsFiniteSet(Below(k))
                          /\ Cardinality(Below(k)) \in Nat
                          /\ RankIn(R, k) = Cardinality(Below(k))
  BY FS_Subset, FS_CardinalityType DEF RankIn
<1>2. \A k, l \in DOMAIN R : R[k].order < R[l].order => Cardinality(Below(k)) < Cardinality(Below(l))
  <2> SUFFICES ASSUME NEW k \in DOMAIN R, NEW l \in DOMAIN R, R[k].order < R[l].order
               PROVE  Cardinality(Below(k)) < Cardinality(Below(l))
    OBVIOUS
  <2>1. Below(k) \subseteq Below(l) /\ k \in Below(l) /\ k \notin Below(k)
    OBVIOUS
  <2>2. Cardinality(Below(k)) <= Cardinality(Below(l)) /\ Cardinality(Below(k)) # Cardinality(Below(l))
    BY <1>1, <2>1, FS_Subset
  <2>3. Cardinality(Below(k)) \in Nat /\ Cardinality(Below(l)) \in Nat
    BY <1>1
  <2> HIDE DEF Below
  <2> QED
    BY <2>2, <2>3
<1>3. \A k, l \in DOMAIN R : R[k].order <= R[l].order => Cardinality(Below(k)) <= Cardinality(Below(l))
  <2> SUFFICES ASSUME NEW k \in DOMAIN R, NEW l \in DOMAIN R, R[k].order <= R[l].order
               PROVE  Cardinality(Below(k)) <= Cardinality(Below(l))
    OBVIOUS
  <2>1. Below(k) \subseteq Below(l)
    OBVIOUS
  <2> QED
    BY <1>1, <2>1, FS_Subset
<1>4. Cardinality(Below(i)) < Cardinality(DOMAIN R)
  <2>1. Below(i) \subseteq DOMAIN R /\ i \notin Below(i)
    OBVIOUS
  <2> QED
    BY <1>1, <2>1, FS_Subset, FS_CardinalityType
<1>5. \A j \in DOMAIN R : R[i].order < R[j].order <=> Cardinality(Below(i)) < Cardinality(Below(j))
  <2> SUFFICES ASSUME NEW j \in DOMAIN R
               PROVE  R[i].order < R[j].order <=> Cardinality(Below(i)) < Cardinality(Below(j))
    OBVIOUS
  <2>1. R[i].order \in Nat /\ R[j].order \in Nat
    OBVIOUS
  <2>2. Cardinality(Below(i)) \in Nat /\ Cardinality(Below(j)) \in Nat
    BY <1>1
  <2>3. R[i].order < R[j].order => Cardinality(Below(i)) < Cardinality(Below(j))
    BY <1>2
  <2>4. R[j].order <= R[i].order => Cardinality(Below(j)) <= Cardinality(Below(i))
    BY <1>3
  <2> HIDE DEF Below
  <2> QED
    BY <2>1, <2>2, <2>3, <2>4
<1> HIDE DEF Below
<1> QED
  BY <1>1, <1>4, <1>5

\* What is left after a removal, numbered from 0.
LEMMA DeletedRows ==
    ASSUME TypeOK, TableInv, NEW id
    PROVE  /\ DOMAIN Deleted(id) = DOMAIN rows \ {id}
           /\ IsFiniteSet(DOMAIN Deleted(id))
           /\ \A i \in DOMAIN Deleted(id) :
                 /\ Deleted(id)[i] \in Row
                 /\ Deleted(id)[i].order < Cardinality(DOMAIN Deleted(id))
                 /\ \A j \in DOMAIN Deleted(id) :
                       rows[i].order < rows[j].order <=> Deleted(id)[i].order < Deleted(id)[j].order
<1> DEFINE R == Without(rows, id)
<1>1. DOMAIN R = DOMAIN rows \ {id} /\ \A i \in DOMAIN R : R[i] = rows[i]
  BY DEF Without
<1>2. IsFiniteSet(DOMAIN R)
  BY <1>1, FS_Subset DEF TableInv
<1>3. \A i \in DOMAIN R : R[i] \in Row /\ R[i].order \in Nat
  BY <1>1 DEF TypeOK, Row
<1>4. \A i \in DOMAIN R : /\ RankIn(R, i) \in Nat
                          /\ RankIn(R, i) < Cardinality(DOMAIN R)
                          /\ \A j \in DOMAIN R : R[i].order < R[j].order <=> RankIn(R, i) < RankIn(R, j)
  BY <1>2, <1>3, Ranks
<1> HIDE DEF R
<1>5. Deleted(id) = [i \in DOMAIN R |-> [R[i] EXCEPT !.order = RankIn(R, i)]]
  BY DEF Deleted, Renumbered, R
<1>6. \A i \in DOMAIN R : Deleted(id)[i] \in Row /\ Deleted(id)[i].order = RankIn(R, i)
  BY <1>3, <1>4, <1>5 DEF Row
<1>7. DOMAIN Deleted(id) = DOMAIN R
  BY <1>5
<1> QED
  BY <1>1, <1>2, <1>4, <1>6, <1>7

-----------------------------------------------------------------------------
\* The tasks.

\* A task that becomes others of its button keeps the tasks in shape.
LEMMA BecomesTasks ==
    ASSUME TasksInv, acts' = acts, NEW t \in tasks,
           \A u \in tasks' : u \in tasks \ {t} \/ (TaskOK(u) /\ u.n = t.n /\ (Main(u) => Main(t))),
           \A u, v \in tasks' : u \notin tasks \ {t} /\ v \notin tasks \ {t} /\ Main(u) /\ Main(v) => u = v
    PROVE  TasksInv'
<1>1. \A u \in tasks' : TaskOK(u) /\ u.n <= acts
  BY DEF TasksInv
<1>2. ASSUME NEW u \in tasks', NEW v \in tasks', Main(u), Main(v), u.n = v.n
      PROVE  u = v
  BY <1>2 DEF TasksInv
<1> QED
  BY <1>1, <1>2 DEF TasksInv

\* What is still to be shown of TypeOK when the tasks are in shape.
LEMMA TasksTyped ==
    ASSUME TasksInv', acts' \in Nat, acts' <= MaxActs
    PROVE  \A t \in tasks' : t.n \in 0..MaxActs /\ t.do \in Kinds
BY DEF TasksInv, TaskOK

\* The list's invariants are about the rows, the list and the tasks that fetch.
LEMMA SameListing ==
    ASSUME ListInv, Listing, rows' = rows, list' = list, panicked' = panicked,
           fetched' = fetched, overtaken' = overtaken,
           \A u \in tasks \cup tasks' : u.do \in Dirty \cup {"loaded"} => (u \in tasks <=> u \in tasks')
    PROVE  ListInv' /\ Listing'
<1>1. Remotes' = Remotes
  BY DEF Remotes, Remote
<1>2. (\A u \in tasks' : u.do \notin Dirty) <=> (\A u \in tasks : u.do \notin Dirty)
  OBVIOUS
<1>3. \A u : u.do = "loaded" => (u \in tasks <=> u \in tasks')
  OBVIOUS
<1>4. \A u : u.do \in {"load", "fetch", "loaded", "broken"} => (u \in tasks <=> u \in tasks')
  BY DEF Dirty
<1>5. Listing'
  BY <1>4 DEF Listing
<1>6. ListInv'
  BY <1>1, <1>2, <1>3 DEF ListInv
<1> QED
  BY <1>5, <1>6

\* One chain: when a task of it becomes another, the rest is about the clients.
LEMMA OneChain ==
    ASSUME Patience, NEW t \in tasks,
           \A u, v \in tasks' : u \notin tasks \ {t} /\ v \notin tasks \ {t} /\ Main(u) /\ Main(v) => u = v,
           (\E u \in tasks' : u \notin tasks \ {t} /\ Main(u)) => Main(t)
    PROVE  /\ \A u, v \in tasks' : Main(u) /\ Main(v) => u = v
           /\ Main(t) => \A u \in tasks' : Main(u) => u \notin tasks \ {t}
BY DEF Patience

-----------------------------------------------------------------------------
\* The buttons.

\* Opening and closing dialogs disturbs none of the invariants.
LEMMA DialogKeeps ==
    ASSUME IInv, Dialog, form'.original \in Shown \cup {None}, deleting' \in Shown \cup {None},
           error' \in BOOLEAN
    PROVE  IInv'
<1>1. TypeOK'
  BY DEF IInv, TypeOK, Dialog, bounds, history
<1>2. TasksInv'
  BY DEF IInv, TasksInv, Dialog, bounds
<1>3. TableInv'
  BY DEF IInv, TableInv, Dialog
<1>4. ListInv' /\ Listing'
  BY SameListing DEF IInv, Dialog, history
<1>5. alone' => Patience'
  BY DEF IInv, Patience, Dialog, history, Remotes, Remote
<1> QED
  BY <1>1, <1>2, <1>3, <1>4, <1>5 DEF IInv

\* A button's task is the first of its chain.
LEMMA PressKeeps ==
    ASSUME IInv, NEW task, TaskOK(task), task.n = acts + 1,
           task.do \in {"count", "update", "delete", "swap"},
           acts < MaxActs, acts' = acts + 1, tasks' = tasks \cup {task},
           alone' \in BOOLEAN, blind' \in BOOLEAN, alone' => alone /\ tasks = {},
           UNCHANGED <<rows, nextId, list, clients, panicked, failures, starts,
                       overtaken, fetched, given>>,
           form' = form, error' = error, deleting' \in Shown \cup {None},
           alone' /\ task.do = "swap" =>
              /\ task.first \in Remotes /\ task.second \in Remotes
              /\ \A r \in Remotes : ~(task.first.order < r.order /\ r.order < task.second.order),
           alone' /\ task.do = "delete" => list.state = "Loaded" /\ \E r \in list.rows : r.id = task.id
    PROVE  IInv'
<1>1. acts \in Nat /\ acts' \in Nat /\ acts' <= MaxActs
  BY DEF IInv, TypeOK
<1>2. TasksInv'
  <2>1. \A t \in tasks' : TaskOK(t) /\ t.n <= acts'
    BY <1>1 DEF IInv, TasksInv, TaskOK
  <2>2. \A t \in tasks : t.n # task.n
    BY <1>1 DEF IInv, TasksInv, TaskOK
  <2> QED
    BY <2>1, <2>2 DEF IInv, TasksInv
<1>3. TypeOK'
  BY <1>1, <1>2, TasksTyped DEF IInv, TypeOK
<1>4. TableInv'
  BY DEF IInv, TableInv
<1>5. ListInv' /\ Listing'
  BY SameListing DEF IInv, Dirty
<1>6. ASSUME alone'
      PROVE  Patience'
  <2>1. Patience /\ tasks' = {task} /\ Remotes' = Remotes
    BY <1>6 DEF IInv, Remotes, Remote
  <2>2. list.state = "Loaded" => list.rows = Remotes
    BY <1>6, <2>1 DEF Patience
  <2> QED
    BY <1>6, <2>1, <2>2 DEF Patience
<1> QED
  BY <1>2, <1>3, <1>4, <1>5, <1>6 DEF IInv

LEMMA ButtonKeeps ==
    ASSUME IInv, Button
    PROVE  IInv'
<1> USE DEF IInv
<1>0. /\ acts \in Nat /\ list.rows \subseteq Shown /\ error \in BOOLEAN
      /\ form.original \in Shown \cup {None} /\ deleting \in Shown \cup {None}
  BY DEF TypeOK
<1>1. CASE ShowAddSourceForm
  BY <1>0, <1>1, DialogKeeps DEF ShowAddSourceForm
<1>2. CASE \E r \in list.rows : EditSource(r) \/ RequestDeleteSource(r)
  BY <1>0, <1>2, DialogKeeps DEF EditSource, RequestDeleteSource
<1>3. CASE CancelForm
  BY <1>0, <1>3, DialogKeeps DEF CancelForm, Closed
<1>4. CASE \E url \in Urls, secret \in Secrets : SubmitSource(url, secret)
  <2> PICK url \in Urls, secret \in Secrets : SubmitSource(url, secret)
    BY <1>4
  <2> DEFINE old == form.original
             of == IF old = None THEN {url} ELSE {old.url, url}
             do == IF old = None THEN "count" ELSE "update"
  <2> PICK task : task = [n |-> acts + 1, do |-> do, of |-> of, original |-> old,
                          url |-> url, secret |-> secret]
    OBVIOUS
  <2>1. TaskOK(task) /\ task.n = acts + 1 /\ task.do \in {"count", "update"}
    BY <1>0 DEF TaskOK, Kinds, FormTask, Shown
  <2>2. Press(task, of, old # None => SameSource(old)) /\ UNCHANGED <<form, deleting, error>>
    BY DEF SubmitSource
  <2>3. alone' \in BOOLEAN /\ blind' \in BOOLEAN /\ (alone' => alone /\ tasks = {})
    BY <2>2 DEF Press, TypeOK
  <2> QED
    BY <1>0, <2>1, <2>2, <2>3, PressKeeps DEF Press
<1>5. CASE CancelDeleteSource
  BY <1>0, <1>5, DialogKeeps DEF CancelDeleteSource
<1>6. CASE ConfirmDeleteSource
  <2> PICK task : task = [n |-> acts + 1, do |-> "delete", of |-> {deleting.url}, id |-> deleting.id]
    OBVIOUS
  <2>1. TaskOK(task) /\ task.n = acts + 1 /\ task.do = "delete"
    BY <1>0, <1>6 DEF TaskOK, Kinds, DeleteTask, Shown, ConfirmDeleteSource
  <2>2. Press(task, {deleting.url}, SameSource(deleting)) /\ UNCHANGED <<form, error>> /\ deleting' = None
    BY <1>6 DEF ConfirmDeleteSource
  <2>3. /\ alone' \in BOOLEAN /\ blind' \in BOOLEAN
        /\ alone' => alone /\ tasks = {} /\ SameSource(deleting)
    BY <2>2 DEF Press, TypeOK
  <2>4. ASSUME alone'
        PROVE  list.state = "Loaded" /\ \E r \in list.rows : r.id = task.id
    <3>1. list.state = "Loaded"
      BY <2>3, <2>4 DEF Listing, Patience
    <3>2. list.rows = Remotes
      BY <2>3, <2>4, <3>1 DEF Patience
    <3>3. PICK q \in Remotes : [q EXCEPT !.order = deleting.order] = deleting
      BY <2>3, <2>4 DEF SameSource
    <3>4. q.id = deleting.id
      BY <3>3 DEF Remotes, Remote
    <3> QED
      BY <3>1, <3>2, <3>4
  <2> QED
    BY <1>0, <2>1, <2>2, <2>3, <2>4, PressKeeps DEF Press
<1>7. CASE \E a, b \in list.rows : MoveSource(a, b)
  <2> PICK a \in list.rows, b \in list.rows : MoveSource(a, b)
    BY <1>7
  <2> PICK task : task = [n |-> acts + 1, do |-> "swap", of |-> {}, first |-> a, second |-> b]
    OBVIOUS
  <2>1. TaskOK(task) /\ task.n = acts + 1 /\ task.do = "swap" /\ task.first = a /\ task.second = b
    BY <1>0 DEF TaskOK, Kinds, SwapTask, MoveSource, Neighbours
  <2>2. Press(task, {}, TRUE) /\ UNCHANGED <<form, deleting, error>>
    BY DEF MoveSource
  <2>3. alone' \in BOOLEAN /\ blind' \in BOOLEAN /\ (alone' => alone /\ tasks = {})
    BY <2>2 DEF Press, TypeOK
  <2>4. ASSUME alone'
        PROVE  /\ a \in Remotes /\ b \in Remotes
               /\ \A r \in Remotes : ~(a.order < r.order /\ r.order < b.order)
    BY <2>3, <2>4 DEF Patience, MoveSource, ListShown, Neighbours
  <2> QED
    BY <1>0, <2>1, <2>2, <2>3, <2>4, PressKeeps DEF Press
<1>8. CASE ClearOperationError
  BY <1>0, <1>8, DialogKeeps DEF ClearOperationError
<1> QED
  BY <1>1, <1>2, <1>3, <1>4, <1>5, <1>6, <1>7, <1>8 DEF Button

-----------------------------------------------------------------------------
\* The tasks, by what follows them.

\* A task that neither changes the table nor fetches becomes one that does not.
LEMMA QuietStep ==
    ASSUME IInv, NEW t \in tasks, NEW next, tasks' = (tasks \ {t}) \cup next,
           t.do \notin Dirty \cup {"loaded"},
           \A u \in next : /\ TaskOK(u) /\ u.n = t.n /\ (Main(u) => Main(t))
                           /\ u.do \in {"insert", "failed", "add"}
                           /\ u.do = "insert" => u.order = Cardinality(DOMAIN rows) + 1,
           \A u, v \in next : u = v,
           UNCHANGED <<rows, nextId, list, form, deleting, panicked, acts, starts, history>>,
           failures' \in 0..MaxFailures, error' \in BOOLEAN,
           DOMAIN clients' \subseteq Urls, \A u \in DOMAIN clients' : clients'[u] \in Secrets
    PROVE  IInv'
<1> USE DEF history
<1>1. TasksInv'
  BY BecomesTasks DEF IInv
<1>2. TypeOK'
  BY <1>1, TasksTyped DEF IInv, TypeOK
<1>3. TableInv'
  BY DEF IInv, TableInv
<1>4. ListInv' /\ Listing'
  BY SameListing DEF IInv, Dirty
<1>5. ASSUME alone'
      PROVE  Patience'
  <2>1. Patience /\ Remotes' = Remotes
    BY <1>5 DEF IInv, Remotes, Remote
  <2>2. \A u, v \in tasks' : Main(u) /\ Main(v) => u = v
    BY <2>1, OneChain
  <2>3. (\A u \in tasks' : u.do \notin Dirty \cup {"loaded"}) => (\A u \in tasks : u.do \notin Dirty \cup {"loaded"})
    OBVIOUS
  <2>4. \A u \in tasks' : u \in tasks \/ u.do = "insert" \/ u.do = "failed" \/ u.do = "add"
    OBVIOUS
  <2> QED
    BY <2>1, <2>2, <2>3, <2>4 DEF Patience
<1> QED
  BY <1>1, <1>2, <1>3, <1>4, <1>5 DEF IInv

\* A task that a fetch is going to follow.
LEMMA FetchFollows ==
    ASSUME IInv, NEW t \in tasks, NEW next, tasks' = (tasks \ {t}) \cup next, Main(t),
           \A u \in next : TaskOK(u) /\ u.n = t.n /\ u.do \in Dirty \cup {"add", "remove"},
           \A u, v \in next : Main(u) /\ Main(v) => u = v,
           \E u \in next : u.do \in Dirty,
           acts' = acts, panicked' = panicked, alone' = alone,
           TasksInv' => TypeOK', TableInv',
           \/ list' = list /\ t.do \notin {"load", "fetch", "loaded", "broken"}
           \/ \E u \in next : u.do \in {"load", "fetch", "broken"},
           alone => \A i \in DOMAIN rows' : rows'[i].order <= Cardinality(DOMAIN rows'),
           alone => \A u \in next : u.do = "deleted" =>
                       list'.state = "Loaded" /\ \E r \in list'.rows : r.id = u.id
    PROVE  IInv'
<1>1. TasksInv'
  BY BecomesTasks DEF IInv
<1>2. PICK d \in tasks' : d.do \in Dirty
  OBVIOUS
<1>3. ListInv'
  BY <1>2 DEF ListInv
<1>4. Listing'
  <2>1. CASE list' = list /\ t.do \notin {"load", "fetch", "loaded", "broken"}
    BY <2>1 DEF IInv, Listing
  <2>2. CASE \E u \in next : u.do \in {"load", "fetch", "broken"}
    BY <2>2 DEF Listing
  <2> QED
    BY <2>1, <2>2
<1>5. ASSUME alone'
      PROVE  Patience'
  <2>1. Patience
    BY <1>5 DEF IInv
  <2>2. /\ \A u, v \in tasks' : Main(u) /\ Main(v) => u = v
        /\ \A u \in tasks' : Main(u) => u \in next
    BY <2>1, OneChain
  <2>3. \A u \in tasks' : u.do \in Dirty \/ ~Main(u)
    BY <2>2 DEF Main
  <2>4. \A u \in tasks' : u.do \notin {"loaded", "swap", "delete", "insert"}
    BY <2>3 DEF Dirty, Main
  <2>5. \A u \in tasks' : u.do = "deleted" => u \in next
    BY <2>2 DEF Main
  <2> QED
    BY <1>2, <1>5, <2>1, <2>2, <2>4, <2>5 DEF Patience
<1> QED
  BY <1>1, <1>3, <1>4, <1>5 DEF IInv

-----------------------------------------------------------------------------
\* The statements.

\* A statement that is refused, or that fails, leaves an error to be shown.
LEMMA StatementFails ==
    ASSUME IInv, NEW t \in tasks, t.do \in {"count", "insert", "update", "delete", "swap"},
           Becomes(t, {Then(t, "failed")}), failures' \in 0..MaxFailures,
           UNCHANGED <<Table, Page, clients, panicked, acts, starts, history>>
    PROVE  IInv'
<1> PICK next : next = {Then(t, "failed")}
  OBVIOUS
<1>1. TaskOK(t) /\ t.n \in Nat /\ t.of \subseteq Urls
  BY DEF IInv, TasksInv, TaskOK, FormTask, InsertTask, DeleteTask, SwapTask
<1>2. \A u \in next : TaskOK(u) /\ u.n = t.n /\ u.do = "failed"
  BY <1>1 DEF Then, TaskOK, Kinds, PlainTask
<1>3. Main(t) /\ t.do \notin Dirty \cup {"loaded"}
  BY DEF Main, Dirty
<1> QED
  BY <1>2, <1>3, QuietStep DEF Becomes, Table, Page, history, IInv, TypeOK

LEMMA CountKeeps ==
    ASSUME IInv, NEW t \in tasks, t.do = "count", CountRows(t)
    PROVE  IInv'
<1> PICK next : next = {[n |-> t.n, do |-> "insert", of |-> t.of, original |-> None, url |-> t.url,
                         secret |-> t.secret, order |-> Cardinality(DOMAIN rows) + 1]}
  OBVIOUS
<1>1. Cardinality(DOMAIN rows) \in Nat
  BY FS_CardinalityType DEF IInv, TableInv
<1>2. t.n \in Nat /\ t.of \subseteq Urls /\ t.url \in Urls /\ t.secret \in Secrets
  BY DEF IInv, TasksInv, TaskOK, FormTask
<1>3. \A u \in next : /\ TaskOK(u) /\ u.n = t.n /\ u.do = "insert"
                      /\ u.order = Cardinality(DOMAIN rows) + 1
  BY <1>1, <1>2 DEF TaskOK, Kinds, InsertTask
<1>4. Main(t) /\ t.do \notin Dirty \cup {"loaded"}
  BY DEF Main, Dirty
<1>5. UNCHANGED <<Table, Page, clients, panicked, bounds, history>> /\ tasks' = (tasks \ {t}) \cup next
  BY DEF CountRows, Becomes
<1>6. /\ failures' \in 0..MaxFailures /\ error' \in BOOLEAN
      /\ DOMAIN clients' \subseteq Urls /\ \A u \in DOMAIN clients' : clients'[u] \in Secrets
  BY <1>5 DEF Page, bounds, IInv, TypeOK
<1> QED
  BY <1>3, <1>4, <1>5, <1>6, QuietStep DEF Table, Page, bounds, history

LEMMA InsertKeeps ==
    ASSUME IInv, NEW t \in tasks, t.do = "insert", InsertRemote(t)
    PROVE  IInv'
<1> USE DEF IInv
<1>0. /\ TaskOK(t) /\ t.n \in Nat /\ t.of \subseteq Urls /\ t.url \in Urls
      /\ t.secret \in Secrets /\ t.order \in Nat
  BY DEF TasksInv, TaskOK, InsertTask
<1>1. CASE InsertRefused(t)
  BY <1>1, StatementFails
  DEF InsertRemote, Table, Page, bounds, history, Ghosts, IInv, TypeOK
<1>2. CASE ~InsertRefused(t)
  <2> DEFINE row == [url |-> t.url, order |-> t.order, secret |-> t.secret]
  <2> PICK next : next = {[n |-> t.n, do |-> "submitted", of |-> t.of, original |-> None,
                           url |-> t.url, secret |-> t.secret]}
    OBVIOUS
  <2>1. \A u \in next : TaskOK(u) /\ u.n = t.n /\ u.do = "submitted"
    BY <1>0 DEF TaskOK, Kinds, FormTask
  <2>2. /\ rows' = With(rows, nextId, row) /\ nextId' = nextId + 1
        /\ given' = given \cup {nextId} /\ tasks' = (tasks \ {t}) \cup next
        /\ UNCHANGED <<Page, clients, panicked, bounds, Ghosts>>
    BY <1>2 DEF InsertRemote, Becomes
  <2>3. nextId \notin DOMAIN rows /\ nextId \in Ids /\ row \in Row
    BY <1>0 DEF TypeOK, Row, Ids
  <2>4. /\ DOMAIN rows' = DOMAIN rows \cup {nextId} /\ rows'[nextId] = row
        /\ \A i \in DOMAIN rows : rows'[i] = rows[i]
    <3>1. /\ DOMAIN With(rows, nextId, row) = DOMAIN rows \cup {nextId}
          /\ With(rows, nextId, row)[nextId] = row
          /\ \A i \in DOMAIN rows \ {nextId} : With(rows, nextId, row)[i] = rows[i]
      BY DEF With
    <3> QED
      BY <2>2, <2>3, <3>1
  <2>5. Cardinality(DOMAIN rows') = Cardinality(DOMAIN rows) + 1 /\ Cardinality(DOMAIN rows) \in Nat
    BY <2>3, <2>4, FS_AddElement, FS_CardinalityType DEF TableInv
  <2>6. TableInv'
    <3>1. IsFiniteSet(DOMAIN rows')
      BY <2>4, FS_AddElement DEF TableInv
    <3>2. \A i \in DOMAIN rows : rows[i].order # t.order
      BY <1>2 DEF InsertRefused
    <3> QED
      BY <2>4, <3>1, <3>2 DEF TableInv
  <2>7. TasksInv' => TypeOK'
    <3>1. /\ DOMAIN rows' \subseteq Ids /\ \A i \in DOMAIN rows' : rows'[i] \in Row
          /\ nextId' \in Ids /\ (\A i \in DOMAIN rows' : i < nextId') /\ given' \subseteq Ids
      <4>1. nextId \in Nat /\ nextId' \in Ids /\ \A i \in DOMAIN rows : i \in Nat /\ i < nextId
        BY <2>2 DEF TypeOK, Ids
      <4> QED
        BY <2>2, <2>3, <2>4, <4>1 DEF TypeOK
    <3> QED
      BY <2>2, <3>1, TasksTyped DEF TypeOK, Page, bounds, Ghosts
  <2>8. alone => \A i \in DOMAIN rows' : rows'[i].order <= Cardinality(DOMAIN rows')
    <3> SUFFICES ASSUME alone, NEW i \in DOMAIN rows'
                 PROVE  rows'[i].order <= Cardinality(DOMAIN rows')
      OBVIOUS
    <3>1. CASE i = nextId
      <4>1. t.order = Cardinality(DOMAIN rows) + 1
        BY DEF Patience
      <4> QED
        BY <2>4, <2>5, <3>1, <4>1
    <3>2. CASE i \in DOMAIN rows
      <4>1. rows[i].order <= Cardinality(DOMAIN rows) /\ rows[i].order \in Nat
        BY <3>2 DEF Patience, TypeOK, Row
      <4> QED
        BY <2>4, <2>5, <3>2, <4>1
    <3> QED
      BY <2>4, <3>1, <3>2
  <2> QED
    BY <2>1, <2>2, <2>6, <2>7, <2>8, FetchFollows DEF Page, bounds, Ghosts, Main, Dirty
<1> QED
  BY <1>1, <1>2

LEMMA UpdateKeeps ==
    ASSUME IInv, NEW t \in tasks, t.do = "update", UpdateRemote(t)
    PROVE  IInv'
<1> USE DEF IInv
<1> DEFINE id == t.original.id
<1>0. /\ TaskOK(t) /\ t.n \in Nat /\ t.of \subseteq Urls /\ t.url \in Urls
      /\ t.secret \in Secrets /\ t \in FormTask
  BY DEF TasksInv, TaskOK, FormTask
<1>1. CASE UrlTaken(t.url, id) /\ id \in DOMAIN rows
  BY <1>1, StatementFails
  DEF UpdateRemote, Table, Page, bounds, history, Ghosts, TypeOK
<1>2. CASE ~(UrlTaken(t.url, id) /\ id \in DOMAIN rows)
  <2> PICK next : next = {[t EXCEPT !.do = "submitted"]}
    OBVIOUS
  <2>1. \A u \in next : TaskOK(u) /\ u.n = t.n /\ u.do = "submitted"
    BY <1>0 DEF TaskOK, Kinds, FormTask
  <2>2. /\ rows' = [i \in DOMAIN rows |->
                      IF i = id THEN [rows[i] EXCEPT !.url = t.url, !.secret = t.secret] ELSE rows[i]]
        /\ given' = given \cup (DOMAIN rows \cap {id}) /\ tasks' = (tasks \ {t}) \cup next
        /\ UNCHANGED <<nextId, Page, clients, panicked, bounds, Ghosts>>
    BY <1>2 DEF UpdateRemote, Becomes
  <2>3. /\ DOMAIN rows' = DOMAIN rows
        /\ \A i \in DOMAIN rows : rows'[i] \in Row /\ rows'[i].order = rows[i].order
    BY <1>0, <2>2 DEF TypeOK, Row
  <2>4. TableInv'
    BY <2>3 DEF TableInv
  <2>5. TasksInv' => TypeOK'
    <3>1. /\ DOMAIN rows' \subseteq Ids /\ \A i \in DOMAIN rows' : rows'[i] \in Row
          /\ nextId' \in Ids /\ (\A i \in DOMAIN rows' : i < nextId') /\ given' \subseteq Ids
      BY <2>2, <2>3 DEF TypeOK
    <3>2. acts' \in Nat /\ acts' <= MaxActs
      <4>1. acts' = acts
        BY <2>2 DEF bounds
      <4> QED
        BY <4>1 DEF TypeOK
    <3>3. TasksInv' => \A u \in tasks' : u.n \in 0..MaxActs /\ u.do \in Kinds
      BY <3>2, TasksTyped
    <3> QED
      BY <2>2, <3>1, <3>3 DEF TypeOK, Page, bounds, Ghosts
  <2>6. alone => \A i \in DOMAIN rows' : rows'[i].order <= Cardinality(DOMAIN rows')
    BY <2>3 DEF Patience
  <2>7. Main(t)
    BY DEF Main
  <2> QED
    BY <2>1, <2>2, <2>4, <2>5, <2>6, <2>7, FetchFollows DEF Page, bounds, Ghosts, Dirty
<1> QED
  BY <1>1, <1>2

LEMMA DeleteKeeps ==
    ASSUME IInv, NEW t \in tasks, t.do = "delete", DeleteRemote(t)
    PROVE  IInv'
<1> USE DEF IInv
<1>0. TaskOK(t) /\ t.n \in Nat /\ t.of \subseteq Urls /\ t \in DeleteTask
  BY DEF TasksInv, TaskOK, DeleteTask
<1>1. CASE DeleteRefused(t.id)
  BY <1>1, StatementFails DEF DeleteRemote, Table, bounds, TypeOK
<1>2. CASE ~DeleteRefused(t.id)
  <2> PICK next : next = {[t EXCEPT !.do = "deleted"]}
    OBVIOUS
  <2>1. \A u \in next : TaskOK(u) /\ u.n = t.n /\ u.do = "deleted" /\ u.id = t.id
    BY <1>0 DEF TaskOK, Kinds, DeleteTask
  <2>2. /\ rows' = Deleted(t.id) /\ tasks' = (tasks \ {t}) \cup next
        /\ UNCHANGED <<nextId, Page, clients, panicked, bounds, history>>
    BY <1>2 DEF DeleteRemote, Becomes
  <2>3. /\ DOMAIN rows' = DOMAIN rows \ {t.id} /\ IsFiniteSet(DOMAIN rows')
        /\ \A i \in DOMAIN rows' :
              /\ rows'[i] \in Row /\ rows'[i].order < Cardinality(DOMAIN rows')
              /\ \A j \in DOMAIN rows' :
                    rows[i].order < rows[j].order <=> rows'[i].order < rows'[j].order
    BY <2>2, DeletedRows
  <2>4. TableInv'
    <3> SUFFICES ASSUME NEW i \in DOMAIN rows', NEW j \in DOMAIN rows', rows'[i].order = rows'[j].order
                 PROVE  i = j
      BY <2>3 DEF TableInv
    <3>1. rows[i].order \in Nat /\ rows[j].order \in Nat /\ i \in DOMAIN rows /\ j \in DOMAIN rows
      BY <2>3 DEF TypeOK, Row
    <3>2. rows'[i].order \in Nat
      BY <2>3 DEF Row
    <3>3. ~(rows[i].order < rows[j].order) /\ ~(rows[j].order < rows[i].order)
      BY <2>3, <3>2
    <3> QED
      BY <3>1, <3>3 DEF TableInv
  <2>5. TasksInv' => TypeOK'
    BY <2>2, <2>3, TasksTyped DEF TypeOK, Page, bounds, history
  <2>6. \A i \in DOMAIN rows' : rows'[i].order <= Cardinality(DOMAIN rows')
    <3>1. Cardinality(DOMAIN rows') \in Nat
      BY <2>3, FS_CardinalityType
    <3>2. \A i \in DOMAIN rows' : rows'[i].order \in Nat /\ rows'[i].order < Cardinality(DOMAIN rows')
      BY <2>3 DEF Row
    <3> QED
      BY <3>1, <3>2
  <2>7. alone => list'.state = "Loaded" /\ \E r \in list'.rows : r.id = t.id
    BY <2>2 DEF Patience, Page
  <2>8. /\ Main(t) /\ t.do \notin {"load", "fetch", "loaded", "broken"}
        /\ \A u \in next : u.do = "deleted" /\ u.do \in Dirty
        /\ alone => \A u \in next : list'.state = "Loaded" /\ \E r \in list'.rows : r.id = u.id
    BY <2>1, <2>7 DEF Main, Dirty
  <2>9. UNCHANGED <<list, acts, panicked, alone>>
    BY <2>2 DEF Page, bounds, history
  <2> QED
    BY <2>1, <2>2, <2>4, <2>5, <2>6, <2>8, <2>9, FetchFollows
<1> QED
  BY <1>1, <1>2

LEMMA SwappedRows ==
    ASSUME TypeOK, TableInv, NEW a \in Shown, NEW b \in Shown, a.order < b.order, ~SwapRefused(a, b)
    PROVE  /\ DOMAIN Swapped(a, b) = DOMAIN rows
           /\ \A i \in DOMAIN rows :
                 /\ Swapped(a, b)[i] \in Row
                 /\ Swapped(a, b)[i].order = SwapOrder(i, a, b)
                 /\ \A j \in DOMAIN rows : SwapOrder(i, a, b) = SwapOrder(j, a, b) => i = j
<1>1. a.order \in Nat /\ b.order \in Nat
  BY DEF Shown
<1>2. \A i \in DOMAIN rows : rows[i] \in Row /\ rows[i].order \in Nat
  BY DEF TypeOK, Row
<1>3. \A i \in DOMAIN rows : SwapOrder(i, a, b) \in Nat
  BY <1>1, <1>2 DEF SwapOrder
<1>4. DOMAIN Swapped(a, b) = DOMAIN rows
  BY DEF Swapped
<1>5. \A i \in DOMAIN rows : Swapped(a, b)[i] \in Row /\ Swapped(a, b)[i].order = SwapOrder(i, a, b)
  BY <1>2, <1>3 DEF Swapped, Row
<1>6. ASSUME NEW i \in DOMAIN rows, NEW j \in DOMAIN rows, SwapOrder(i, a, b) = SwapOrder(j, a, b)
      PROVE  i = j
  <2>1. CASE i \in {a.id, b.id} /\ j \in {a.id, b.id}
    BY <1>1, <1>6, <2>1 DEF SwapOrder
  <2>2. CASE i \in {a.id, b.id} /\ j \notin {a.id, b.id}
    BY <1>6, <2>2 DEF SwapOrder, SwapRefused
  <2>3. CASE i \notin {a.id, b.id} /\ j \in {a.id, b.id}
    BY <1>6, <2>3 DEF SwapOrder, SwapRefused
  <2>4. CASE i \notin {a.id, b.id} /\ j \notin {a.id, b.id}
    BY <1>6, <2>4 DEF SwapOrder, TableInv
  <2> QED
    BY <2>1, <2>2, <2>3, <2>4
<1> QED
  BY <1>4, <1>5, <1>6

LEMMA SwapKeeps ==
    ASSUME IInv, NEW t \in tasks, t.do = "swap", SwapOrderOfRemotes(t)
    PROVE  IInv'
<1> USE DEF IInv
<1>0. /\ TaskOK(t) /\ t.n \in Nat /\ t.of \subseteq Urls
      /\ t.first \in Shown /\ t.second \in Shown /\ t.first.order < t.second.order
  BY DEF TasksInv, TaskOK, SwapTask
<1>1. CASE SwapRefused(t.first, t.second)
  BY <1>1, StatementFails DEF SwapOrderOfRemotes, Table, bounds, TypeOK
<1>2. CASE ~SwapRefused(t.first, t.second)
  <2> PICK next : next = {Then(t, "load")}
    OBVIOUS
  <2>1. \A u \in next : TaskOK(u) /\ u.n = t.n /\ u.do = "load"
    BY <1>0 DEF Then, TaskOK, Kinds, PlainTask
  <2>2. /\ rows' = Swapped(t.first, t.second) /\ tasks' = (tasks \ {t}) \cup next
        /\ UNCHANGED <<nextId, Page, clients, panicked, bounds, history>>
    BY <1>2 DEF SwapOrderOfRemotes, Becomes
  <2>3. /\ DOMAIN rows' = DOMAIN rows
        /\ \A i \in DOMAIN rows :
              /\ rows'[i] \in Row /\ rows'[i].order = SwapOrder(i, t.first, t.second)
              /\ \A j \in DOMAIN rows :
                    SwapOrder(i, t.first, t.second) = SwapOrder(j, t.first, t.second) => i = j
    BY <1>0, <1>2, <2>2, SwappedRows
  <2>4. TableInv'
    BY <2>3 DEF TableInv
  <2>5. TasksInv' => TypeOK'
    BY <2>2, <2>3, TasksTyped DEF TypeOK, Page, bounds, history
  <2>6. ASSUME alone
        PROVE  \A i \in DOMAIN rows' : rows'[i].order <= Cardinality(DOMAIN rows')
    <3>1. t.first \in Remotes /\ t.second \in Remotes
      BY <2>6 DEF Patience
    <3>2. \A i \in DOMAIN rows : rows[i].order <= Cardinality(DOMAIN rows)
      BY <2>6 DEF Patience
    <3>3. t.first.order <= Cardinality(DOMAIN rows) /\ t.second.order <= Cardinality(DOMAIN rows)
      BY <3>1, <3>2 DEF Remotes, Remote
    <3> QED
      BY <2>3, <3>2, <3>3 DEF SwapOrder
  <2>7. /\ Main(t) /\ t.do \notin {"load", "fetch", "loaded", "broken"}
        /\ \A u \in next : u.do = "load" /\ u.do \in Dirty
    BY <2>1 DEF Main, Dirty
  <2>8. UNCHANGED <<list, acts, panicked, alone>>
    BY <2>2 DEF Page, bounds, history
  <2> QED
    BY <2>1, <2>2, <2>4, <2>5, <2>6, <2>7, <2>8, FetchFollows
<1> QED
  BY <1>1, <1>2

LEMMA FetchKeeps ==
    ASSUME IInv, NEW t \in tasks, t.do = "fetch", Fetch(t)
    PROVE  IInv'
<1> USE DEF IInv
<1>1. t.n \in Nat /\ t.n <= acts /\ t.of \subseteq Urls /\ Main(t)
  BY DEF TasksInv, TaskOK, PlainTask, Main
<1> PICK u : u = [n |-> t.n, do |-> "loaded", of |-> t.of, rows |-> Remotes]
  OBVIOUS
<1>2. TaskOK(u) /\ u.n = t.n /\ u.do = "loaded" /\ u.rows = Remotes /\ Main(u)
  BY <1>1, RemotesShown DEF TaskOK, Kinds, LoadedTask, Main
<1>3. /\ tasks' = (tasks \ {t}) \cup {u} /\ fetched' = t.n
      /\ UNCHANGED <<Table, Page, clients, panicked, bounds, alone, blind, overtaken, given>>
  BY DEF Fetch, Becomes
<1>4. TasksInv'
  <2>1. acts' = acts
    BY <1>3 DEF bounds
  <2> QED
    BY <1>1, <1>2, <1>3, <2>1, BecomesTasks
<1>5. TypeOK'
  <2>1. acts' = acts /\ acts \in 0..MaxActs /\ fetched' \in 0..MaxActs
    BY <1>1, <1>3 DEF bounds, TypeOK
  <2> QED
    BY <1>3, <1>4, <2>1, TasksTyped DEF TypeOK, Table, Page, bounds
<1>6. TableInv' /\ Remotes' = Remotes
  BY <1>3 DEF TableInv, Table, Remotes, Remote
<1>7. ListInv' /\ Listing'
  BY <1>2, <1>3, <1>6 DEF ListInv, Listing
<1>8. ASSUME alone'
      PROVE  Patience'
  <2>1. Patience /\ list' = list
    BY <1>3, <1>8 DEF Page
  <2>2. \A v \in tasks' : Main(v) => v = u
    BY <1>1, <1>3, <2>1, OneChain DEF Patience
  <2>3. \A v \in tasks' : v # u => v.do \in {"add", "remove"}
    BY <2>2 DEF Main
  <2> QED
    BY <1>2, <1>3, <1>6, <2>1, <2>2, <2>3 DEF Patience, Table
<1> QED
  BY <1>4, <1>5, <1>6, <1>7, <1>8

LEMMA FailureKeeps ==
    ASSUME IInv, NEW t \in tasks, t.do \in {"count", "insert", "update", "delete", "swap", "fetch"},
           Fails(t)
    PROVE  IInv'
<1>1. failures' \in 0..MaxFailures
  BY DEF Fails, IInv, TypeOK
<1>2. CASE t.do # "fetch"
  BY <1>1, <1>2, StatementFails DEF Fails
<1>3. CASE t.do = "fetch"
  <2> PICK next : next = {Then(t, "broken")}
    OBVIOUS
  <2>1. /\ tasks' = (tasks \ {t}) \cup next
        /\ UNCHANGED <<Table, Page, clients, panicked, acts, starts, history>>
    BY <1>3 DEF Fails, Becomes
  <2>2. t.n \in Nat /\ t.of \subseteq Urls /\ Main(t)
    BY <1>3 DEF IInv, TasksInv, TaskOK, PlainTask, Main
  <2>3. \A u \in next : TaskOK(u) /\ u.n = t.n /\ u.do = "broken" /\ u.do \in Dirty
    BY <2>2 DEF Then, TaskOK, Kinds, PlainTask, Dirty
  <2>4. TasksInv' => TypeOK'
    <3>1. acts' = acts /\ acts \in 0..MaxActs
      BY <2>1 DEF IInv, TypeOK
    <3> QED
      BY <1>1, <2>1, <3>1, TasksTyped DEF IInv, TypeOK, Table, Page, history
  <2>5. TableInv' /\ UNCHANGED <<acts, panicked, alone>>
    BY <2>1 DEF IInv, TableInv, Table, history
  <2>6. alone => \A i \in DOMAIN rows' : rows'[i].order <= Cardinality(DOMAIN rows')
    BY <2>1 DEF IInv, Patience, Table
  <2> QED
    BY <2>1, <2>2, <2>3, <2>4, <2>5, <2>6, FetchFollows
<1> QED
  BY <1>2, <1>3

-----------------------------------------------------------------------------
\* The answers.

LEMMA SubmittedKeeps ==
    ASSUME IInv, NEW t \in tasks, t.do = "submitted", SubmittedSource(t)
    PROVE  IInv'
<1> USE DEF IInv
<1>1. PICK client :
        client = [n |-> t.n, do |-> IF t.original = None THEN "add" ELSE "remove", of |-> t.of,
                  old |-> IF t.original = None THEN None ELSE t.original.url,
                  url |-> t.url, secret |-> t.secret]
  OBVIOUS
<1>2. PICK next : next = {client, Then(t, "load")}
  OBVIOUS
<1>3. /\ t.n \in Nat /\ t.of \subseteq Urls /\ t.url \in Urls /\ t.secret \in Secrets
      /\ t.original \in Shown \cup {None} /\ Main(t)
  BY DEF TasksInv, TaskOK, FormTask, Main
<1>4. TaskOK(client) /\ client.n = t.n /\ client.do \in {"add", "remove"} /\ ~Main(client)
  BY <1>1, <1>3 DEF TaskOK, Kinds, ClientTask, Shown, Main
<1>5. TaskOK(Then(t, "load")) /\ Then(t, "load").n = t.n /\ Then(t, "load").do = "load"
  BY <1>3 DEF Then, TaskOK, Kinds, PlainTask
<1>6. /\ \A u \in next : TaskOK(u) /\ u.n = t.n /\ u.do \in {"add", "remove", "load"}
      /\ \A u, v \in next : Main(u) /\ Main(v) => u = v
      /\ \E u \in next : u.do = "load"
  BY <1>2, <1>4, <1>5
<1>7. /\ form' = Closed /\ tasks' = (tasks \ {t}) \cup next
      /\ UNCHANGED <<Table, list, deleting, error, clients, panicked, bounds, history>>
  BY <1>1, <1>2 DEF SubmittedSource, Becomes
<1>8. TasksInv' => TypeOK'
  <2>1. acts' = acts /\ acts \in 0..MaxActs
    BY <1>7 DEF TypeOK, bounds
  <2> QED
    BY <1>7, <2>1, TasksTyped DEF TypeOK, Table, bounds, history, Closed
<1>9. TableInv' /\ UNCHANGED <<acts, panicked, alone>>
  BY <1>7 DEF TableInv, Table, bounds, history
<1>10. alone => \A i \in DOMAIN rows' : rows'[i].order <= Cardinality(DOMAIN rows')
  BY <1>7 DEF Patience, Table
<1>11. /\ t.do \notin {"load", "fetch", "loaded", "broken"}
       /\ \A u \in next : u.do \in Dirty \cup {"add", "remove"}
       /\ \A u \in next : u.do # "deleted"
       /\ \E u \in next : u.do \in {"load", "fetch", "broken"} /\ u.do \in Dirty
  BY <1>6 DEF Dirty
<1>12. list' = list
  BY <1>7
<1> HIDE DEF IInv
<1> QED
  BY <1>3, <1>6, <1>7, <1>8, <1>9, <1>10, <1>11, <1>12, FetchFollows

LEMMA DeletedKeeps ==
    ASSUME IInv, NEW t \in tasks, t.do = "deleted", DeletedSource(t)
    PROVE  IInv'
<1> USE DEF IInv
<1> DEFINE found == {r \in list.rows : r.id = t.id}
<1>1. t.n \in Nat /\ t.of \subseteq Urls /\ Main(t)
  BY DEF TasksInv, TaskOK, DeleteTask, Main
<1>2. UNCHANGED <<Table, Page, clients, bounds, alone, overtaken, fetched, given>>
  BY DEF DeletedSource
<1>3. CASE list.state = "Loaded" /\ found # {}
  <2> PICK r \in found :
        /\ Becomes(t, {[n |-> t.n, do |-> "remove", of |-> t.of, old |-> r.url,
                        url |-> None, secret |-> None], Then(t, "load")})
        /\ blind' = (blind \/ r.url \notin t.of)
        /\ UNCHANGED panicked
    BY <1>3 DEF DeletedSource
  <2> PICK client : client = [n |-> t.n, do |-> "remove", of |-> t.of, old |-> r.url,
                              url |-> None, secret |-> None]
    OBVIOUS
  <2> PICK next : next = {client, Then(t, "load")}
    OBVIOUS
  <2>1. TaskOK(client) /\ client.n = t.n /\ client.do = "remove" /\ ~Main(client)
    <3>1. r.url \in Urls
      BY DEF TypeOK, Shown
    <3> QED
      BY <1>1, <3>1 DEF TaskOK, Kinds, ClientTask, Main
  <2>2. TaskOK(Then(t, "load")) /\ Then(t, "load").n = t.n /\ Then(t, "load").do = "load"
    BY <1>1 DEF Then, TaskOK, Kinds, PlainTask
  <2>3. /\ \A u \in next : TaskOK(u) /\ u.n = t.n /\ u.do \in {"remove", "load"}
        /\ \A u, v \in next : Main(u) /\ Main(v) => u = v
        /\ \E u \in next : u.do = "load"
    BY <2>1, <2>2
  <2>4. tasks' = (tasks \ {t}) \cup next
    BY DEF Becomes
  <2>5. TasksInv' => TypeOK'
    <3>1. acts' = acts /\ acts \in 0..MaxActs /\ blind' \in BOOLEAN
      BY <1>2 DEF TypeOK, bounds
    <3> QED
      BY <1>2, <3>1, TasksTyped DEF TypeOK, Table, Page, bounds
  <2>6. TableInv' /\ UNCHANGED <<acts, panicked, alone>>
    BY <1>2 DEF TableInv, Table, bounds
  <2>7. alone => \A i \in DOMAIN rows' : rows'[i].order <= Cardinality(DOMAIN rows')
    BY <1>2 DEF Patience, Table
  <2> HIDE DEF IInv
  <2> QED
    BY <1>1, <2>3, <2>4, <2>5, <2>6, <2>7, FetchFollows DEF Dirty
<1>4. CASE ~(list.state = "Loaded" /\ found # {})
  <2>1. panicked' = TRUE /\ tasks' = {} /\ blind' = blind
    BY <1>4 DEF DeletedSource
  <2>2. ~alone'
    <3>1. alone => list.state = "Loaded" /\ \E r \in list.rows : r.id = t.id
      BY DEF Patience
    <3> QED
      BY <1>2, <1>4, <3>1
  <2>3. TasksInv' /\ ListInv' /\ Listing'
    BY <2>1 DEF TasksInv, ListInv, Listing
  <2>4. TypeOK'
    BY <1>2, <2>1 DEF TypeOK, Table, Page, bounds
  <2>5. TableInv'
    BY <1>2 DEF TableInv, Table
  <2> QED
    BY <2>2, <2>3, <2>4, <2>5
<1> QED
  BY <1>3, <1>4

LEMMA ErrorKeeps ==
    ASSUME IInv, NEW t \in tasks, t.do = "failed", SetOperationError(t)
    PROVE  IInv'
<1> PICK next : next = {}
  OBVIOUS
<1>1. /\ error' = TRUE /\ tasks' = (tasks \ {t}) \cup next
      /\ UNCHANGED <<Table, list, form, deleting, clients, panicked, bounds, history>>
  BY DEF SetOperationError, Becomes
<1>2. /\ failures' \in 0..MaxFailures /\ error' \in BOOLEAN
      /\ DOMAIN clients' \subseteq Urls /\ \A u \in DOMAIN clients' : clients'[u] \in Secrets
  BY <1>1 DEF bounds, IInv, TypeOK
<1>3. t.do \notin Dirty \cup {"loaded"}
  BY DEF Dirty
<1> QED
  BY <1>1, <1>2, <1>3, QuietStep DEF Table, bounds, history

LEMMA RemoveClientKeeps ==
    ASSUME IInv, NEW t \in tasks, t.do = "remove", RemoveClient(t)
    PROVE  IInv'
<1> PICK next : next = IF t.url = None THEN {} ELSE {[t EXCEPT !.do = "add"]}
  OBVIOUS
<1>1. /\ clients' = Without(clients, t.old) /\ tasks' = (tasks \ {t}) \cup next
      /\ UNCHANGED <<Table, Page, panicked, bounds, history>>
  BY DEF RemoveClient, Becomes
<1>2. t \in ClientTask /\ (t.url # None => t.secret \in Secrets) /\ t.n \in Nat
  BY DEF IInv, TasksInv, TaskOK
<1>3. \A u \in next : TaskOK(u) /\ u.n = t.n /\ u.do = "add" /\ ~Main(u)
  BY <1>2 DEF TaskOK, Kinds, ClientTask, Main
<1>4. DOMAIN clients' \subseteq Urls /\ \A u \in DOMAIN clients' : clients'[u] \in Secrets
  BY <1>1 DEF Without, IInv, TypeOK
<1>5. failures' \in 0..MaxFailures /\ error' \in BOOLEAN
  BY <1>1 DEF Page, bounds, IInv, TypeOK
<1>6. t.do \notin Dirty \cup {"loaded"}
  BY DEF Dirty
<1>7. UNCHANGED <<rows, nextId, list, form, deleting, panicked, acts, starts, history>>
  BY <1>1 DEF Table, Page, bounds
<1> QED
  BY <1>1, <1>3, <1>4, <1>5, <1>6, <1>7, QuietStep

LEMMA AddClientKeeps ==
    ASSUME IInv, NEW t \in tasks, t.do = "add", AddClient(t)
    PROVE  IInv'
<1> PICK next : next = {}
  OBVIOUS
<1>1. /\ clients' = With(clients, t.url, t.secret) /\ tasks' = (tasks \ {t}) \cup next
      /\ UNCHANGED <<Table, Page, panicked, bounds, history>>
  BY DEF AddClient, Becomes
<1>2. t.url \in Urls /\ t.secret \in Secrets
  BY DEF IInv, TasksInv, TaskOK
<1>3. DOMAIN clients' \subseteq Urls /\ \A u \in DOMAIN clients' : clients'[u] \in Secrets
  BY <1>1, <1>2 DEF With, IInv, TypeOK
<1>4. failures' \in 0..MaxFailures /\ error' \in BOOLEAN
  BY <1>1 DEF Page, bounds, IInv, TypeOK
<1>5. t.do \notin Dirty \cup {"loaded"}
  BY DEF Dirty
<1>6. UNCHANGED <<rows, nextId, list, form, deleting, panicked, acts, starts, history>>
  BY <1>1 DEF Table, Page, bounds
<1> QED
  BY <1>1, <1>3, <1>4, <1>5, <1>6, QuietStep

LEMMA LoadKeeps ==
    ASSUME IInv, NEW t \in tasks, \/ t.do = "load" /\ Load(t)
                                  \/ t.do = "broken" /\ Broken(t)
    PROVE  IInv'
<1> PICK next : next = {IF t.do = "load" THEN [t EXCEPT !.do = "fetch"] ELSE Then(t, "load")}
  OBVIOUS
<1>1. /\ list'.state \in {"Loading", "Failed"} /\ list'.rows = {}
      /\ tasks' = (tasks \ {t}) \cup next
      /\ UNCHANGED <<Table, form, deleting, error, clients, panicked, bounds, history>>
  BY DEF Load, Broken, Becomes
<1>2. t \in PlainTask /\ Main(t)
  BY DEF IInv, TasksInv, TaskOK, Main
<1>3. \A u \in next : TaskOK(u) /\ u.n = t.n /\ u.do \in {"load", "fetch"}
  BY <1>2 DEF Then, TaskOK, Kinds, PlainTask
<1>4. TasksInv' => TypeOK'
  <2>1. acts' = acts /\ acts \in 0..MaxActs
    BY <1>1 DEF IInv, TypeOK, bounds
  <2> QED
    BY <1>1, <2>1, TasksTyped DEF IInv, TypeOK, Table, bounds, history
<1>5. TableInv' /\ UNCHANGED <<acts, panicked, alone>>
  BY <1>1 DEF IInv, TableInv, Table, bounds, history
<1>6. alone => \A i \in DOMAIN rows' : rows'[i].order <= Cardinality(DOMAIN rows')
  BY <1>1 DEF IInv, Patience, Table
<1> QED
  BY <1>1, <1>2, <1>3, <1>4, <1>5, <1>6, FetchFollows DEF Dirty

LEMMA LoadedKeeps ==
    ASSUME IInv, NEW t \in tasks, t.do = "loaded", Loaded(t)
    PROVE  IInv'
<1> USE DEF IInv
<1>1. t \in LoadedTask /\ t.rows \subseteq Shown /\ Main(t)
  BY DEF TasksInv, TaskOK, LoadedTask, Main
<1>2. /\ list' = [state |-> "Loaded", rows |-> t.rows] /\ tasks' = tasks \ {t}
      /\ overtaken' = (fetched # t.n)
      /\ UNCHANGED <<Table, form, deleting, error, clients, panicked, bounds,
                     alone, blind, fetched, given>>
  BY DEF Loaded, Becomes
<1>3. acts' = acts /\ acts \in 0..MaxActs
  BY <1>2 DEF TypeOK, bounds
<1>4. TasksInv'
  BY <1>2, <1>3 DEF TasksInv
<1>5. TypeOK'
  BY <1>1, <1>2, <1>3, <1>4, TasksTyped DEF TypeOK, Table, bounds
<1>6. TableInv' /\ Remotes' = Remotes
  BY <1>2 DEF TableInv, Table, Remotes, Remote
<1>7. Listing'
  BY <1>2 DEF Listing
<1>8. ASSUME ~panicked', \A u \in tasks' : u.do \notin Dirty
      PROVE  \/ \E u \in tasks' : u.do = "loaded" /\ u.n = fetched /\ u.rows = Remotes
             \/ /\ \A u \in tasks' : u.do = "loaded" => u.n # fetched
                /\ ~overtaken' => t.rows = Remotes
  <2>1. ~panicked /\ \A u \in tasks : u.do \notin Dirty
    BY <1>2, <1>8 DEF Dirty
  <2>2. CASE \E u \in tasks : u.do = "loaded" /\ u.n = fetched /\ u.rows = Remotes
    <3> PICK u \in tasks : u.do = "loaded" /\ u.n = fetched /\ u.rows = Remotes
      BY <2>2
    <3>1. CASE u = t
      <4>1. \A v \in tasks' : v.do = "loaded" => v.n # fetched
        BY <1>1, <1>2, <3>1 DEF TasksInv, Main
      <4> QED
        BY <3>1, <4>1
    <3>2. CASE u # t
      BY <1>2, <3>2
    <3> QED
      BY <3>1, <3>2
  <2>3. CASE \A u \in tasks : u.do = "loaded" => u.n # fetched
    BY <1>2, <2>3
  <2> QED
    BY <2>1, <2>2, <2>3 DEF ListInv
<1>9. ListInv'
  BY <1>2, <1>6, <1>8 DEF ListInv
<1>10. ASSUME alone'
       PROVE  Patience'
  <2>1. Patience
    BY <1>2, <1>10
  <2>2. \A u \in tasks' : ~Main(u)
    BY <1>1, <1>2, <2>1 DEF Patience
  <2>3. \A u \in tasks' : u.do \in {"add", "remove"}
    BY <2>2 DEF Main
  <2>4. t.rows = Remotes
    BY <2>1 DEF Patience
  <2> QED
    BY <1>2, <1>6, <2>1, <2>3, <2>4 DEF Patience, Table
<1> QED
  BY <1>4, <1>5, <1>6, <1>7, <1>9, <1>10

LEMMA RestartKeeps ==
    ASSUME IInv, Restart
    PROVE  IInv'
<1> PICK t : t = [FirstLoad EXCEPT !.n = acts]
  OBVIOUS
<1>1. /\ tasks' = {t} /\ panicked' = FALSE /\ starts' = starts + 1 /\ starts < MaxStarts
      /\ UNCHANGED <<rows, nextId, acts, failures, alone>>
  BY DEF Restart, Started
<1>2. acts \in Nat /\ acts' = acts
  BY <1>1 DEF IInv, TypeOK
<1>3. TaskOK(t) /\ t.n = acts /\ t.do = "load"
  BY <1>2 DEF FirstLoad, TaskOK, Kinds, PlainTask
<1>4. TasksInv'
  BY <1>1, <1>2, <1>3 DEF TasksInv
<1>5. TypeOK'
  <2>1. /\ acts' \in 0..MaxActs /\ failures' \in 0..MaxFailures /\ starts' \in 0..MaxStarts
        /\ fetched' \in 0..MaxActs
    BY <1>1 DEF IInv, TypeOK, Restart, Started
  <2>2. \A u \in tasks' : u.n \in 0..MaxActs /\ u.do \in Kinds
    BY <1>4, <2>1, TasksTyped
  <2>3. /\ list'.state = "New" /\ list'.rows = {} /\ form'.original = None /\ deleting' = None
        /\ error' = FALSE /\ blind' = FALSE /\ overtaken' = FALSE /\ given' = {} /\ DOMAIN clients' = {}
    BY DEF Restart, Started, Closed
  <2> QED
    BY <1>1, <2>1, <2>2, <2>3 DEF IInv, TypeOK
<1>6. TableInv'
  BY <1>1 DEF IInv, TableInv
<1>7. ListInv' /\ Listing'
  BY <1>1, <1>3 DEF ListInv, Listing, Dirty
<1>8. alone' => Patience'
  BY <1>1, <1>3 DEF IInv, Patience, Dirty
<1> QED
  BY <1>4, <1>5, <1>6, <1>7, <1>8 DEF IInv

-----------------------------------------------------------------------------
\* The invariant.

\* The rows the application may find.
LEMMA FoundTable ==
    ASSUME NEW k \in Nat, NEW base \in {0, 1}, NEW R \in FoundRows(k, base)
    PROVE  /\ DOMAIN R \subseteq Ids /\ IsFiniteSet(DOMAIN R) /\ Cardinality(DOMAIN R) = k
           /\ \A i \in DOMAIN R : i <= k /\ R[i] \in Row /\ R[i].order <= k
           /\ \A i, j \in DOMAIN R : R[i].order = R[j].order => i = j
<1>1. /\ R \in [1..k -> [url : Urls, order : base..(base + k - 1), secret : Secrets]]
      /\ \A i, j \in 1..k : R[i].url = R[j].url \/ R[i].order = R[j].order => i = j
  BY DEF FoundRows
<1>2. DOMAIN R = 1..k
  BY <1>1
<1>3. IsFiniteSet(1..k) /\ Cardinality(1..k) = k
  BY FS_Interval
<1>4. \A i \in 1..k : R[i] \in Row /\ R[i].order <= k
  BY <1>1 DEF Row
<1> QED
  BY <1>1, <1>2, <1>3, <1>4 DEF Ids

LEMMA InitIInv == Init => IInv
<1> SUFFICES ASSUME Init
             PROVE  IInv
  OBVIOUS
<1>1. /\ DOMAIN rows \subseteq Ids /\ IsFiniteSet(DOMAIN rows)
      /\ Cardinality(DOMAIN rows) \in Nat
      /\ \A i \in DOMAIN rows : i <= Cardinality(DOMAIN rows)
      /\ \A i \in DOMAIN rows : rows[i] \in Row /\ rows[i].order <= Cardinality(DOMAIN rows)
      /\ \A i, j \in DOMAIN rows : rows[i].order = rows[j].order => i = j
  <2> PICK k \in 0..FirstRows, base \in {0, 1} : rows \in FoundRows(k, base)
    BY DEF Init
  <2>1. k \in Nat
    OBVIOUS
  <2> QED
    BY <2>1, FoundTable
<1>2. TaskOK(FirstLoad) /\ FirstLoad.n = 0 /\ FirstLoad.do = "load" /\ tasks = {FirstLoad}
  BY DEF Init, FirstLoad, TaskOK, Kinds, PlainTask
<1>3. TypeOK
  <2>1. nextId \in Ids /\ \A i \in DOMAIN rows : i < nextId
    BY <1>1 DEF Init, Ids
  <2>2. list.state = "New" /\ list.rows = {} /\ form.original = None /\ DOMAIN clients = {}
    BY DEF Init, Closed
  <2>3. /\ list.state \in {"New", "Loading", "Loaded", "Failed"} /\ list.rows \subseteq Shown
        /\ form.original \in Shown \cup {None} /\ deleting \in Shown \cup {None}
        /\ {error, panicked, alone, blind, overtaken} \subseteq BOOLEAN
    BY <2>2 DEF Init
  <2>4. \A t \in tasks : t.n \in 0..MaxActs /\ t.do \in Kinds
    BY <1>2 DEF Kinds
  <2>5. fetched = 0 /\ given = {} /\ acts = 0 /\ failures = 0 /\ starts = 0
    BY DEF Init
  <2> QED
    BY <1>1, <2>1, <2>2, <2>3, <2>4, <2>5 DEF TypeOK
<1>4. TasksInv
  BY <1>2 DEF Init, TasksInv
<1>5. TableInv
  BY <1>1 DEF TableInv
<1>6. ListInv /\ Listing
  BY <1>2 DEF ListInv, Listing, Dirty
<1>7. Patience
  BY <1>1, <1>2 DEF Init, Patience, Dirty
<1> QED
  BY <1>3, <1>4, <1>5, <1>6, <1>7 DEF IInv

LEMMA NextIInv == IInv /\ [Next]_vars => IInv'
<1> SUFFICES ASSUME IInv, [Next]_vars
             PROVE  IInv'
  OBVIOUS
<1>1. CASE Button
  BY <1>1, ButtonKeeps
<1>2. ASSUME NEW t \in tasks, Statement(t)
      PROVE  IInv'
  <2>1. CASE t.do = "count" /\ CountRows(t)
    BY <2>1, CountKeeps
  <2>2. CASE t.do = "insert" /\ InsertRemote(t)
    BY <2>2, InsertKeeps
  <2>3. CASE t.do = "update" /\ UpdateRemote(t)
    BY <2>3, UpdateKeeps
  <2>4. CASE t.do = "delete" /\ DeleteRemote(t)
    BY <2>4, DeleteKeeps
  <2>5. CASE t.do = "swap" /\ SwapOrderOfRemotes(t)
    BY <2>5, SwapKeeps
  <2>6. CASE t.do = "fetch" /\ Fetch(t)
    BY <2>6, FetchKeeps
  <2> QED
    BY <1>2, <2>1, <2>2, <2>3, <2>4, <2>5, <2>6 DEF Statement
<1>3. ASSUME NEW t \in tasks, Answer(t)
      PROVE  IInv'
  <2>1. CASE t.do = "submitted" /\ SubmittedSource(t)
    BY <2>1, SubmittedKeeps
  <2>2. CASE t.do = "deleted" /\ DeletedSource(t)
    BY <2>2, DeletedKeeps
  <2>3. CASE t.do = "failed" /\ SetOperationError(t)
    BY <2>3, ErrorKeeps
  <2>4. CASE t.do = "remove" /\ RemoveClient(t)
    BY <2>4, RemoveClientKeeps
  <2>5. CASE t.do = "add" /\ AddClient(t)
    BY <2>5, AddClientKeeps
  <2>6. CASE (t.do = "load" /\ Load(t)) \/ (t.do = "broken" /\ Broken(t))
    BY <2>6, LoadKeeps
  <2>7. CASE t.do = "loaded" /\ Loaded(t)
    BY <2>7, LoadedKeeps
  <2> QED
    BY <1>3, <2>1, <2>2, <2>3, <2>4, <2>5, <2>6, <2>7 DEF Answer
<1>4. ASSUME NEW t \in tasks, t.do \in {"count", "insert", "update", "delete", "swap", "fetch"}, Fails(t)
      PROVE  IInv'
  BY <1>4, FailureKeeps
<1>5. CASE Restart
  BY <1>5, RestartKeeps
<1>6. CASE UNCHANGED vars
  <2>1. UNCHANGED <<rows, nextId, list, form, deleting, error, clients, tasks, panicked, bounds, history>>
    BY <1>6 DEF vars, Page
  <2> QED
    BY <2>1, DialogKeeps DEF Dialog, IInv, TypeOK
<1> QED
  BY <1>1, <1>2, <1>3, <1>4, <1>5, <1>6 DEF Next

LEMMA Invariance == Spec => []IInv
BY InitIInv, NextIInv, PTL DEF Spec

-----------------------------------------------------------------------------
\* The theorems.

\* The rows, the page, the clients and the tasks keep their shapes.
THEOREM TypeCorrect == Spec => []TypeOK
<1>1. IInv => TypeOK
  BY DEF IInv
<1> QED
  BY <1>1, Invariance, PTL

\* Once every task has ended, the list of sources is the table's unless the
\* answers of two fetches crossed: whatever failed or overlapped, every change
\* of the table was followed by a fetch (preferences.rs, load_remotes).
THEOREM ListIsTable == Spec => []ListTrue
<1>1. IInv => ListTrue
  BY DEF IInv, ListInv, ListTrue, Settled
<1> QED
  BY <1>1, Invariance, PTL

\* For a user who waits, a new source always goes to the end of the list and the
\* page never panics, after any number of changes, failures and restarts: no
\* order is ever beyond the number of rows.
THEOREM PatientUsers == Spec => []PatienceServed
<1>1. ASSUME IInv
      PROVE  PatienceServed
  <2> SUFFICES ASSUME alone
               PROVE  /\ ~panicked
                      /\ \A t \in tasks : t.do = "insert" => \A i \in DOMAIN rows : rows[i].order < t.order
    BY DEF PatienceServed
  <2>1. Patience
    BY <1>1 DEF IInv
  <2>2. Cardinality(DOMAIN rows) \in Nat
    BY <1>1, FS_CardinalityType DEF IInv, TableInv
  <2>3. \A i \in DOMAIN rows : rows[i].order \in Nat /\ rows[i].order <= Cardinality(DOMAIN rows)
    BY <1>1, <2>1 DEF IInv, TypeOK, Row, Patience
  <2>4. \A t \in tasks : t.do = "insert" => t.order = Cardinality(DOMAIN rows) + 1
    BY <2>1 DEF Patience
  <2> QED
    BY <2>1, <2>2, <2>3, <2>4 DEF Patience
<1> QED
  BY <1>1, Invariance, PTL

\* A step keeps the places of the sources, or is a swap of these two.
Kept ==
    \A i, j \in DOMAIN rows \cap DOMAIN rows' :
        Before(rows, i, j) = Before(rows', i, j) \/ Moving(i, j)

\* A swap of two neighbours of the table moves no other.
LEMMA SwapMoves ==
    ASSUME IInv, NEW t \in tasks, t.do = "swap", SwapOrderOfRemotes(t)
    PROVE  Kept
<1> DEFINE a == t.first
           b == t.second
<1>1. /\ TaskOK(t) /\ a \in Shown /\ b \in Shown /\ a.order \in Nat /\ b.order \in Nat
      /\ a.order < b.order
  BY DEF IInv, TasksInv, TaskOK, SwapTask, Shown
<1>2. CASE SwapRefused(a, b)
  BY <1>2 DEF SwapOrderOfRemotes, Kept, Before
<1>3. CASE ~SwapRefused(a, b)
  <2>1. /\ rows' = Swapped(a, b) /\ t \notin tasks'
    BY <1>3 DEF SwapOrderOfRemotes, Becomes, Then
  <2>2. /\ DOMAIN rows' = DOMAIN rows
        /\ \A i \in DOMAIN rows : rows'[i].order = SwapOrder(i, a, b)
    BY <1>1, <1>3, <2>1, SwappedRows DEF IInv
  <2>3. CASE ~alone
    BY <2>1, <2>3 DEF Kept, Moving
  <2>4. CASE alone
    <3>1. /\ a \in Remotes /\ b \in Remotes
          /\ \A r \in Remotes : ~(a.order < r.order /\ r.order < b.order)
      BY <2>4 DEF IInv, Patience
    <3>2. /\ a.id \in DOMAIN rows /\ b.id \in DOMAIN rows
          /\ rows[a.id].order = a.order /\ rows[b.id].order = b.order /\ a.id # b.id
      BY <1>1, <3>1 DEF Remotes, Remote
    <3>3. \A i \in DOMAIN rows : /\ rows[i].order \in Nat
                                /\ ~(a.order < rows[i].order /\ rows[i].order < b.order)
      <4>1. \A i \in DOMAIN rows : Remote(i) \in Remotes /\ Remote(i).order = rows[i].order
        BY DEF Remotes, Remote
      <4> QED
        BY <3>1, <4>1 DEF IInv, TypeOK, Row
    <3>4. \A i \in DOMAIN rows \ {a.id, b.id} : rows[i].order # a.order /\ rows[i].order # b.order
      BY <3>2 DEF IInv, TableInv
    <3>5. \A i \in DOMAIN rows \ {a.id, b.id} : rows[i].order < a.order \/ b.order < rows[i].order
      BY <1>1, <3>3, <3>4
    <3> SUFFICES ASSUME NEW i \in DOMAIN rows, NEW j \in DOMAIN rows, {i, j} # {a.id, b.id}
                 PROVE  Before(rows, i, j) = Before(rows', i, j)
      BY <2>1, <2>2 DEF Kept, Moving
    <3>6. Before(rows', i, j) = (SwapOrder(i, a, b) < SwapOrder(j, a, b))
      BY <2>2 DEF Before
    <3>7. CASE i = j
      BY <1>1, <3>3, <3>6, <3>7 DEF Before, SwapOrder
    <3>8. CASE i \in {a.id, b.id} /\ j \notin {a.id, b.id}
      BY <1>1, <3>2, <3>3, <3>5, <3>6, <3>8 DEF Before, SwapOrder
    <3>9. CASE i \notin {a.id, b.id} /\ j \in {a.id, b.id}
      BY <1>1, <3>2, <3>3, <3>5, <3>6, <3>9 DEF Before, SwapOrder
    <3>10. CASE i \notin {a.id, b.id} /\ j \notin {a.id, b.id}
      BY <3>6, <3>10 DEF Before, SwapOrder
    <3> QED
      BY <3>7, <3>8, <3>9, <3>10
  <2> QED
    BY <2>3, <2>4
<1> QED
  BY <1>2, <1>3

LEMMA StepKeepsPlaces ==
    ASSUME IInv, Next
    PROVE  Kept
<1>1. CASE rows' = rows
  BY <1>1 DEF Kept, Before
<1>2. ASSUME NEW t \in tasks, t.do = "insert", InsertRemote(t), rows' # rows
      PROVE  Kept
  <2>1. rows' = With(rows, nextId, [url |-> t.url, order |-> t.order, secret |-> t.secret])
    BY <1>2 DEF InsertRemote
  <2>2. nextId \notin DOMAIN rows
    BY DEF IInv, TypeOK, Ids
  <2> QED
    BY <2>1, <2>2 DEF With, Kept, Before
<1>3. ASSUME NEW t \in tasks, t.do = "update", UpdateRemote(t), rows' # rows
      PROVE  Kept
  <2> DEFINE id == t.original.id
  <2>1. rows' = [i \in DOMAIN rows |->
                   IF i = id THEN [rows[i] EXCEPT !.url = t.url, !.secret = t.secret] ELSE rows[i]]
    BY <1>3 DEF UpdateRemote
  <2>2. \A i \in DOMAIN rows : rows'[i].order = rows[i].order
    BY <2>1 DEF IInv, TypeOK, Row
  <2> QED
    BY <2>2 DEF Kept, Before
<1>4. ASSUME NEW t \in tasks, t.do = "delete", DeleteRemote(t), rows' # rows
      PROVE  Kept
  <2>1. rows' = Deleted(t.id)
    BY <1>4 DEF DeleteRemote
  <2>2. \A i, j \in DOMAIN rows' : rows[i].order < rows[j].order <=> rows'[i].order < rows'[j].order
    BY <2>1, DeletedRows DEF IInv
  <2> QED
    BY <2>2 DEF Kept, Before
<1>5. ASSUME NEW t \in tasks, t.do = "swap", SwapOrderOfRemotes(t)
      PROVE  Kept
  BY <1>5, SwapMoves
<1>6. ASSUME NEW t \in tasks, Statement(t), rows' # rows
      PROVE  Kept
  BY <1>2, <1>3, <1>4, <1>5, <1>6 DEF Statement, CountRows, Fetch, Table
<1>7. ASSUME NEW t \in tasks, Answer(t)
      PROVE  rows' = rows
  BY <1>7 DEF Answer, SubmittedSource, DeletedSource, SetOperationError, RemoveClient, AddClient,
              Load, Loaded, Broken, Table
<1>8. Button => rows' = rows
  BY DEF Button, ShowAddSourceForm, EditSource, RequestDeleteSource, CancelForm, SubmitSource,
         CancelDeleteSource, ConfirmDeleteSource, MoveSource, ClearOperationError, Dialog, Press
<1>9. \A t \in tasks : Fails(t) => rows' = rows
  BY DEF Fails, Table
<1>10. Restart => rows' = rows
  BY DEF Restart
<1> QED
  BY <1>1, <1>6, <1>7, <1>8, <1>9, <1>10 DEF Next

\* Adding, editing and removing a source leave the others in their places,
\* and a move of a list that is the table exchanges two neighbours and no
\* others (remotes.rs, swap_order_of_remotes, delete_remote_by_id).
THEOREM PlacesAreKept == Spec => PlacesKept
<1>1. IInv /\ [Next]_vars => [Kept]_vars
  BY StepKeepsPlaces
<1>2. Spec => [][Kept]_vars
  BY <1>1, Invariance, PTL DEF Spec
<1> QED
  BY <1>2, PTL DEF PlacesKept, Kept
-----------------------------------------------------------------------------
(***************************************************************************)
(* The clients.  A change is about the URLs of its task, and while no URL  *)
(* is in two of them, what a URL's client should be is known at each step  *)
(* of its change (ChangeOK), and a URL without a change has the client it  *)
(* should have.  The invariant rests on IInv.                              *)
(***************************************************************************)
Changing(t) == t.do \in {"count", "insert", "update", "submitted", "delete", "deleted", "add", "remove"}
ChangedBy(t) == IF Changing(t) THEN t.of ELSE {}

Served == given \cap DOMAIN rows

\* A URL has a client when it was submitted, and the client has the row's secret.
ClientTrue(u) ==
    /\ u \in DOMAIN clients <=> \E i \in Served : rows[i].url = u
    /\ \A i \in Served : rows[i].url = u => clients[u] = rows[i].secret

NoRow(u) == \A i \in DOMAIN rows : rows[i].url # u
Pending(u, s) == \E i \in Served : rows[i].url = u /\ rows[i].secret = s

\* What is known of the URLs of a change at each of its steps.
ChangeOK(t) ==
    /\ t.do \in {"count", "insert"} => t.of = {t.url} /\ ClientTrue(t.url)
    /\ t.do = "update" =>
          /\ t.original # None
          /\ t.of = {t.original.url, t.url} /\ \A u \in t.of : ClientTrue(u)
          /\ t.original.id \in DOMAIN rows /\ rows[t.original.id].url = t.original.url
    /\ t.do = "submitted" =>
          /\ Pending(t.url, t.secret)
          /\ t.original = None => t.of = {t.url}
          /\ t.original # None =>
                /\ t.of = {t.original.url, t.url}
                /\ t.original.url # t.url => NoRow(t.original.url)
    /\ t.do = "delete" =>
          /\ t.id \in DOMAIN rows /\ t.of = {rows[t.id].url} /\ ClientTrue(rows[t.id].url)
    /\ t.do = "deleted" => \E u \in Urls : t.of = {u} /\ NoRow(u)
    /\ t.do = "remove" =>
          /\ t.url = None => t.of = {t.old} /\ NoRow(t.old)
          /\ t.url # None =>
                /\ t.of = {t.old, t.url} /\ Pending(t.url, t.secret)
                /\ t.old # t.url => NoRow(t.old)
    /\ t.do = "add" =>
          /\ t.url \in t.of /\ Pending(t.url, t.secret)
          /\ \A u \in t.of \ {t.url} : ClientTrue(u)

UrlsUnique == \A i, j \in DOMAIN rows : rows[i].url = rows[j].url => i = j

Apart == \A t, u \in tasks : Changing(t) /\ Changing(u) /\ t # u => t.of \cap u.of = {}
ChangesOK == \A t \in tasks : Changing(t) => ChangeOK(t)
RestTrue == \A u \in Urls : (\A t \in tasks : u \notin ChangedBy(t)) => ClientTrue(u)

ClientsInv ==
    /\ UrlsUnique
    /\ ~panicked /\ ~blind => Apart /\ ChangesOK /\ RestTrue

\* A step leaves what is known of a URL alone.
SameFor(u) ==
    /\ \A i : i \in DOMAIN rows' /\ rows'[i].url = u <=> i \in DOMAIN rows /\ rows[i].url = u
    /\ \A i : i \in DOMAIN rows /\ rows[i].url = u =>
          rows'[i].secret = rows[i].secret /\ (i \in given' <=> i \in given)
    /\ u \in DOMAIN clients' <=> u \in DOMAIN clients
    /\ u \in DOMAIN clients => clients'[u] = clients[u]

LEMMA SameKnown ==
    ASSUME NEW u, SameFor(u)
    PROVE  /\ ClientTrue(u) => ClientTrue(u)'
           /\ NoRow(u) => NoRow(u)'
           /\ \A s : Pending(u, s) => Pending(u, s)'
<1>1. \A i : i \in Served' /\ rows'[i].url = u <=> i \in Served /\ rows[i].url = u
  BY DEF SameFor, Served
<1>2. \A i : i \in Served /\ rows[i].url = u => rows'[i].secret = rows[i].secret
  BY DEF SameFor, Served
<1>3. ClientTrue(u) => ClientTrue(u)'
  BY <1>1, <1>2 DEF SameFor, ClientTrue
<1>4. NoRow(u) => NoRow(u)'
  BY DEF SameFor, NoRow
<1>5. ASSUME NEW s, Pending(u, s)
      PROVE  Pending(u, s)'
  <2>1. PICK i \in Served : rows[i].url = u /\ rows[i].secret = s
    BY <1>5 DEF Pending
  <2>2. i \in Served' /\ rows'[i].url = u /\ rows'[i].secret = s
    BY <1>1, <1>2, <2>1
  <2> QED
    BY <2>2 DEF Pending
<1> QED
  BY <1>3, <1>4, <1>5

\* A change whose URLs are left alone is as before.
LEMMA ChangeKept ==
    ASSUME NEW t, TaskOK(t), Changing(t), ChangeOK(t), \A u \in t.of : SameFor(u)
    PROVE  ChangeOK(t)'
<1>1. \A u \in t.of : /\ ClientTrue(u) => ClientTrue(u)'
                      /\ NoRow(u) => NoRow(u)'
                      /\ \A s : Pending(u, s) => Pending(u, s)'
  BY SameKnown
<1>2. \A i \in DOMAIN rows : rows[i].url \in t.of => i \in DOMAIN rows' /\ rows'[i].url = rows[i].url
  BY DEF SameFor
<1>3. CASE t.do \in {"count", "insert"}
  BY <1>1, <1>3 DEF ChangeOK
<1>4. CASE t.do = "update"
  <2>1. t.original # None /\ t.of = {t.original.url, t.url}
    BY <1>4 DEF ChangeOK
  <2>2. t.original.id \in DOMAIN rows /\ rows[t.original.id].url = t.original.url
    BY <1>4 DEF ChangeOK
  <2>3. t.original.id \in DOMAIN rows' /\ rows'[t.original.id].url = t.original.url
    BY <1>2, <2>1, <2>2
  <2> QED
    BY <1>1, <1>4, <2>1, <2>3 DEF ChangeOK
<1>5. CASE t.do = "submitted"
  BY <1>1, <1>5 DEF ChangeOK
<1>6. CASE t.do = "delete"
  <2>1. t.id \in DOMAIN rows /\ t.of = {rows[t.id].url} /\ ClientTrue(rows[t.id].url)
    BY <1>6 DEF ChangeOK
  <2>2. t.id \in DOMAIN rows' /\ rows'[t.id].url = rows[t.id].url
    BY <1>2, <2>1
  <2>3. ClientTrue(rows[t.id].url)'
    BY <1>1, <2>1, <2>2
  <2> QED
    BY <1>6, <2>1, <2>2, <2>3 DEF ChangeOK
<1>7. CASE t.do = "deleted"
  BY <1>1, <1>7 DEF ChangeOK
<1>8. CASE t.do = "remove"
  BY <1>1, <1>8 DEF ChangeOK
<1>9. CASE t.do = "add"
  BY <1>1, <1>9 DEF ChangeOK
<1> QED
  BY <1>3, <1>4, <1>5, <1>6, <1>7, <1>8, <1>9 DEF Changing

\* A change that goes on or ends, and that left the URLs of others alone.
LEMMA ChangeStep ==
    ASSUME TasksInv, ClientsInv, UrlsUnique', ~panicked' => ~panicked, ~blind' => ~blind,
           NEW t \in tasks, NEW next, tasks' = (tasks \ {t}) \cup next,
           \A u \in Urls \ ChangedBy(t) : SameFor(u),
           \A v \in next : Changing(v) => Changing(t) /\ v.of = t.of,
           \A v, w \in next : Changing(v) /\ Changing(w) => v = w,
           ~panicked' /\ ~blind' /\ (Changing(t) => ChangeOK(t)) =>
               /\ \A v \in next : Changing(v) => ChangeOK(v)'
               /\ (\A v \in next : ~Changing(v)) => \A u \in ChangedBy(t) : ClientTrue(u)'
    PROVE  ClientsInv'
<1> SUFFICES ASSUME ~panicked', ~blind'
             PROVE  Apart' /\ ChangesOK' /\ RestTrue'
  BY DEF ClientsInv
<1>1. Apart /\ ChangesOK /\ RestTrue
  BY DEF ClientsInv
<1>2. /\ \A v \in next : Changing(v) => ChangeOK(v)'
      /\ (\A v \in next : ~Changing(v)) => \A u \in ChangedBy(t) : ClientTrue(u)'
  BY <1>1 DEF ChangesOK
<1>3. Apart'
  <2> SUFFICES ASSUME NEW v \in tasks', NEW w \in tasks', Changing(v), Changing(w), v # w
               PROVE  v.of \cap w.of = {}
    BY DEF Apart
  <2>1. CASE v \in tasks \ {t} /\ w \in tasks \ {t}
    BY <1>1, <2>1 DEF Apart
  <2>2. CASE v \in tasks \ {t} /\ w \in next
    BY <1>1, <2>2 DEF Apart
  <2>3. CASE v \in next /\ w \in tasks \ {t}
    BY <1>1, <2>3 DEF Apart
  <2> QED
    BY <2>1, <2>2, <2>3
<1>4. ChangesOK'
  <2> SUFFICES ASSUME NEW v \in tasks', Changing(v)
               PROVE  ChangeOK(v)'
    BY DEF ChangesOK
  <2>1. CASE v \in tasks \ {t}
    <3>1. TaskOK(v) /\ ChangeOK(v)
      BY <1>1, <2>1 DEF TasksInv, ChangesOK
    <3>2. v.of \subseteq Urls
      BY <3>1 DEF TaskOK, Changing, FormTask, InsertTask, DeleteTask, ClientTask
    <3>3. v.of \cap ChangedBy(t) = {}
      BY <1>1, <2>1 DEF Apart, ChangedBy
    <3>4. \A u \in v.of : SameFor(u)
      BY <3>2, <3>3
    <3> QED
      BY <3>1, <3>4, ChangeKept
  <2>2. CASE v \in next
    BY <1>2, <2>2
  <2> QED
    BY <2>1, <2>2
<1>5. RestTrue'
  <2> SUFFICES ASSUME NEW u \in Urls, \A v \in tasks' : u \notin ChangedBy(v)
               PROVE  ClientTrue(u)'
    BY DEF RestTrue, ChangedBy
  <2>1. CASE u \in ChangedBy(t)
    <3>1. \A v \in next : ~Changing(v)
      BY <2>1 DEF ChangedBy
    <3> QED
      BY <1>2, <2>1, <3>1
  <2>2. CASE u \notin ChangedBy(t)
    <3>1. ClientTrue(u)
      BY <1>1, <2>2 DEF RestTrue
    <3> QED
      BY <2>2, <3>1, SameKnown
  <2> QED
    BY <2>1, <2>2
<1> QED
  BY <1>3, <1>4, <1>5

\* Steps that leave rows and clients alone.
LEMMA NothingChanged ==
    ASSUME rows' = rows, clients' = clients, given' = given
    PROVE  \A u : SameFor(u)
BY DEF SameFor

\* A URL without an unfinished change, or one that begins.
LEMMA PressClients ==
    ASSUME IInv, ClientsInv, NEW task, NEW of \in SUBSET Urls, NEW asShown, Press(task, of, asShown),
           task.of = of,
           Changing(task) \/ of = {},
           ~panicked /\ asShown /\ (\A u \in of : ClientTrue(u)) /\ Changing(task) => ChangeOK(task)
    PROVE  ClientsInv'
<1>1. /\ rows' = rows /\ clients' = clients /\ given' = given /\ panicked' = panicked
      /\ tasks' = tasks \cup {task}
      /\ ~blind' => ~blind /\ asShown /\ \A t \in tasks : Changing(t) => t.of \cap of = {}
  BY DEF Press, Changing
<1>2. UrlsUnique'
  BY <1>1 DEF ClientsInv, UrlsUnique
<1> SUFFICES ASSUME ~panicked', ~blind'
             PROVE  Apart' /\ ChangesOK' /\ RestTrue'
  BY <1>2 DEF ClientsInv
<1>3. Apart /\ ChangesOK /\ RestTrue /\ asShown
  BY <1>1 DEF ClientsInv
<1>4. \A u : ClientTrue(u) => ClientTrue(u)'
  BY <1>1, NothingChanged, SameKnown
<1>5. \A t \in tasks : TaskOK(t) /\ Changing(t) /\ ChangeOK(t) => ChangeOK(t)'
  BY <1>1, NothingChanged, ChangeKept
<1>6. \A u \in of : ClientTrue(u)
  BY <1>1, <1>3 DEF RestTrue, ChangedBy
<1>7. Changing(task) => ChangeOK(task)'
  <2>1. Changing(task) => ChangeOK(task)
    BY <1>1, <1>3, <1>6
  <2> QED
    BY <1>1, <2>1 DEF ChangeOK, ClientTrue, NoRow, Pending, Served
<1>8. Apart'
  BY <1>1, <1>3 DEF Apart
<1>9. ChangesOK'
  BY <1>1, <1>3, <1>5, <1>7 DEF ChangesOK, IInv, TasksInv
<1>10. RestTrue'
  BY <1>1, <1>3, <1>4 DEF RestTrue, ChangedBy
<1> QED
  BY <1>8, <1>9, <1>10

\* A dialog is no change.
LEMMA DialogClients ==
    ASSUME ClientsInv, rows' = rows, clients' = clients, given' = given, panicked' = panicked,
           tasks' = tasks, blind' = blind
    PROVE  ClientsInv'
BY DEF ClientsInv, UrlsUnique, Apart, ChangesOK, RestTrue, ChangeOK, ClientTrue, NoRow, Pending, Served

LEMMA ButtonClients ==
    ASSUME IInv, ClientsInv, Button
    PROVE  ClientsInv'
<1>0. /\ form.original \in Shown \cup {None} /\ deleting \in Shown \cup {None}
  BY DEF IInv, TypeOK
<1>1. CASE \E url \in Urls, secret \in Secrets : SubmitSource(url, secret)
  <2> PICK url \in Urls, secret \in Secrets : SubmitSource(url, secret)
    BY <1>1
  <2> DEFINE old == form.original
  <2> PICK of : of = IF old = None THEN {url} ELSE {old.url, url}
    OBVIOUS
  <2> PICK task : task = [n |-> acts + 1, do |-> IF old = None THEN "count" ELSE "update",
                          of |-> of, original |-> old, url |-> url, secret |-> secret]
    OBVIOUS
  <2>1. of \in SUBSET Urls /\ task.of = of /\ Changing(task)
    BY <1>0 DEF Changing, Shown
  <2>2. Press(task, of, old # None => SameSource(old))
    BY DEF SubmitSource
  <2>3. ASSUME old # None => SameSource(old), \A u \in of : ClientTrue(u)
        PROVE  ChangeOK(task)
    <3>1. CASE old = None
      BY <2>3, <3>1 DEF ChangeOK
    <3>2. CASE old # None
      <4>1. PICK q \in Remotes : [q EXCEPT !.order = old.order] = old
        BY <2>3, <3>2 DEF SameSource
      <4>2. old.id \in DOMAIN rows /\ rows[old.id].url = old.url
        BY <4>1 DEF Remotes, Remote
      <4> QED
        BY <2>3, <3>2, <4>2 DEF ChangeOK
    <3> QED
      BY <3>1, <3>2
  <2> QED
    BY <2>1, <2>2, <2>3, PressClients
<1>2. CASE ConfirmDeleteSource
  <2> PICK task : task = [n |-> acts + 1, do |-> "delete", of |-> {deleting.url}, id |-> deleting.id]
    OBVIOUS
  <2>1. {deleting.url} \in SUBSET Urls /\ task.of = {deleting.url} /\ Changing(task)
    BY <1>0, <1>2 DEF Changing, Shown, ConfirmDeleteSource
  <2>2. Press(task, {deleting.url}, SameSource(deleting))
    BY <1>2 DEF ConfirmDeleteSource
  <2>3. ASSUME SameSource(deleting), ClientTrue(deleting.url)
        PROVE  ChangeOK(task)
    <3>1. PICK q \in Remotes : [q EXCEPT !.order = deleting.order] = deleting
      BY <2>3 DEF SameSource
    <3>2. deleting.id \in DOMAIN rows /\ rows[deleting.id].url = deleting.url
      BY <3>1 DEF Remotes, Remote
    <3> QED
      BY <2>3, <3>2 DEF ChangeOK
  <2> QED
    BY <2>1, <2>2, <2>3, PressClients
<1>3. CASE \E a, b \in list.rows : MoveSource(a, b)
  <2> PICK a \in list.rows, b \in list.rows : MoveSource(a, b)
    BY <1>3
  <2> PICK task : task = [n |-> acts + 1, do |-> "swap", of |-> {}, first |-> a, second |-> b]
    OBVIOUS
  <2>1. Press(task, {}, TRUE) /\ task.of = {} /\ ~Changing(task)
    BY DEF MoveSource, Changing
  <2> QED
    BY <2>1, PressClients
<1>4. CASE UNCHANGED <<rows, clients, given, panicked, tasks, blind>>
  BY <1>4, DialogClients
<1> QED
  BY <1>1, <1>2, <1>3, <1>4
  DEF Button, ShowAddSourceForm, EditSource, RequestDeleteSource, CancelForm, CancelDeleteSource,
      ClearOperationError, Dialog, history

\* Statements and answers that change neither a source's URL nor its client.
LEMMA QuietClients ==
    ASSUME IInv, ClientsInv, NEW t \in tasks, ~Changing(t), NEW next,
           tasks' = (tasks \ {t}) \cup next, \A v \in next : ~Changing(v),
           clients' = clients, given' = given, panicked' = panicked, blind' = blind,
           DOMAIN rows' = DOMAIN rows,
           \A i \in DOMAIN rows : rows'[i].url = rows[i].url /\ rows'[i].secret = rows[i].secret
    PROVE  ClientsInv'
<1>1. UrlsUnique'
  BY DEF ClientsInv, UrlsUnique
<1>2. \A u : SameFor(u)
  BY DEF SameFor
<1> QED
  BY <1>1, <1>2, ChangeStep DEF IInv, ChangedBy

\* A statement that is refused or fails ends its change.
LEMMA FailedClients ==
    ASSUME IInv, ClientsInv, NEW t \in tasks,
           t.do \in {"count", "insert", "update", "delete", "swap", "fetch"},
           NEW do \in {"failed", "broken"}, Becomes(t, {Then(t, do)}),
           rows' = rows, clients' = clients, given' = given, panicked' = panicked, blind' = blind
    PROVE  ClientsInv'
<1>1. ~Changing(Then(t, do)) /\ tasks' = (tasks \ {t}) \cup {Then(t, do)}
  BY DEF Becomes, Then, Changing
<1>2. UrlsUnique'
  BY DEF ClientsInv, UrlsUnique
<1>3. ASSUME ChangeOK(t), Changing(t)
      PROVE  \A u \in t.of : ClientTrue(u)
  BY <1>3 DEF ChangeOK, Changing
<1>4. \A u : SameFor(u) /\ (ClientTrue(u) => ClientTrue(u)')
  BY NothingChanged, SameKnown
<1> PICK next : next = {Then(t, do)}
  OBVIOUS
<1> QED
  BY <1>1, <1>2, <1>3, <1>4, ChangeStep DEF IInv, ChangedBy

LEMMA CountClients ==
    ASSUME IInv, ClientsInv, NEW t \in tasks, t.do = "count", CountRows(t)
    PROVE  ClientsInv'
<1> PICK v : v = [n |-> t.n, do |-> "insert", of |-> t.of, original |-> None, url |-> t.url,
                  secret |-> t.secret, order |-> Cardinality(DOMAIN rows) + 1]
  OBVIOUS
<1>1. /\ tasks' = (tasks \ {t}) \cup {v} /\ rows' = rows /\ clients' = clients /\ given' = given
      /\ panicked' = panicked /\ blind' = blind
  BY DEF CountRows, Becomes, Table, history
<1>2. UrlsUnique'
  BY <1>1 DEF ClientsInv, UrlsUnique
<1>3. Changing(t) /\ Changing(v) /\ v.of = t.of
  BY DEF Changing
<1>4. \A u : SameFor(u) /\ (ClientTrue(u) => ClientTrue(u)')
  BY <1>1, NothingChanged, SameKnown
<1>5. ChangeOK(t) => ChangeOK(v)'
  BY <1>4 DEF ChangeOK
<1> PICK next : next = {v}
  OBVIOUS
<1> QED
  BY <1>1, <1>2, <1>3, <1>4, <1>5, ChangeStep DEF IInv

LEMMA InsertClients ==
    ASSUME IInv, ClientsInv, NEW t \in tasks, t.do = "insert", InsertRemote(t)
    PROVE  ClientsInv'
<1>1. CASE InsertRefused(t)
  BY <1>1, FailedClients DEF InsertRemote, Ghosts
<1>2. CASE ~InsertRefused(t)
  <2> DEFINE row == [url |-> t.url, order |-> t.order, secret |-> t.secret]
  <2> PICK v : v = [n |-> t.n, do |-> "submitted", of |-> t.of, original |-> None,
                    url |-> t.url, secret |-> t.secret]
    OBVIOUS
  <2>1. /\ rows' = With(rows, nextId, row) /\ given' = given \cup {nextId}
        /\ tasks' = (tasks \ {t}) \cup {v}
        /\ clients' = clients /\ panicked' = panicked /\ blind' = blind
    BY <1>2 DEF InsertRemote, Becomes, Ghosts
  <2>2. nextId \notin DOMAIN rows
    BY DEF IInv, TypeOK, Ids
  <2>3. /\ DOMAIN rows' = DOMAIN rows \cup {nextId} /\ rows'[nextId] = row
        /\ \A i \in DOMAIN rows : rows'[i] = rows[i]
    BY <2>1, <2>2 DEF With
  <2>4. \A i \in DOMAIN rows : rows[i].url # t.url
    BY <1>2 DEF InsertRefused
  <2>5. UrlsUnique'
    BY <2>3, <2>4 DEF ClientsInv, UrlsUnique
  <2>6. \A u : u # t.url => SameFor(u)
    BY <2>1, <2>2, <2>3 DEF SameFor
  <2>7. Changing(t) /\ Changing(v) /\ v.of = t.of
    BY DEF Changing
  <2>8. ASSUME ChangeOK(t)
        PROVE  ChangeOK(v)' /\ ChangedBy(t) = {t.url}
    <3>1. t.of = {t.url}
      BY <2>8 DEF ChangeOK
    <3>2. Pending(t.url, t.secret)'
      BY <2>1, <2>3 DEF Pending, Served
    <3> QED
      BY <2>7, <3>1, <3>2 DEF ChangeOK, ChangedBy
  <2>9. ASSUME ~panicked', ~blind'
        PROVE  ChangeOK(t)
    BY <2>1, <2>7, <2>9 DEF ClientsInv, ChangesOK
  <2>10. t.of \subseteq Urls /\ t.url \in Urls
    BY DEF IInv, TasksInv, TaskOK, InsertTask
  <2> PICK next : next = {v}
    OBVIOUS
  <2>11. CASE ~panicked' /\ ~blind'
    <3>1. \A u \in Urls \ ChangedBy(t) : SameFor(u)
      BY <2>6, <2>8, <2>9, <2>11
    <3> QED
      BY <2>1, <2>5, <2>7, <2>8, <3>1, ChangeStep DEF IInv
  <2>12. CASE panicked' \/ blind'
    BY <2>5, <2>12 DEF ClientsInv
  <2> QED
    BY <2>11, <2>12
<1> QED
  BY <1>1, <1>2

LEMMA UpdateClients ==
    ASSUME IInv, ClientsInv, NEW t \in tasks, t.do = "update", UpdateRemote(t)
    PROVE  ClientsInv'
<1> DEFINE id == t.original.id
<1>1. CASE UrlTaken(t.url, id) /\ id \in DOMAIN rows
  BY <1>1, FailedClients DEF UpdateRemote, Ghosts
<1>2. CASE ~(UrlTaken(t.url, id) /\ id \in DOMAIN rows)
  <2>0. t \in FormTask
    BY DEF IInv, TasksInv, TaskOK
  <2> PICK v : v = [t EXCEPT !.do = "submitted"]
    OBVIOUS
  <2>1. /\ v.do = "submitted" /\ v.of = t.of /\ v.original = t.original /\ v.url = t.url
        /\ v.secret = t.secret
    BY <2>0 DEF FormTask
  <2>2. /\ rows' = [i \in DOMAIN rows |->
                      IF i = id THEN [rows[i] EXCEPT !.url = t.url, !.secret = t.secret] ELSE rows[i]]
        /\ given' = given \cup (DOMAIN rows \cap {id}) /\ tasks' = (tasks \ {t}) \cup {v}
        /\ clients' = clients /\ panicked' = panicked /\ blind' = blind
    BY <1>2 DEF UpdateRemote, Becomes, Ghosts
  <2>3. /\ DOMAIN rows' = DOMAIN rows
        /\ \A i \in DOMAIN rows \ {id} : rows'[i] = rows[i]
        /\ id \in DOMAIN rows => rows'[id].url = t.url /\ rows'[id].secret = t.secret
    BY <2>2 DEF IInv, TypeOK, Row
  <2>4. id \in DOMAIN rows => \A i \in DOMAIN rows \ {id} : rows[i].url # t.url
    BY <1>2 DEF UrlTaken
  <2>5. UrlsUnique'
    <3> SUFFICES ASSUME NEW i \in DOMAIN rows, NEW j \in DOMAIN rows, rows'[i].url = rows'[j].url
                 PROVE  i = j
      BY <2>3 DEF UrlsUnique
    <3>1. CASE i = id \/ j = id
      BY <2>3, <2>4, <3>1
    <3>2. CASE i # id /\ j # id
      BY <2>3, <3>2 DEF ClientsInv, UrlsUnique
    <3> QED
      BY <3>1, <3>2
  <2>6. Changing(t) /\ Changing(v)
    BY <2>1 DEF Changing
  <2>7. CASE panicked' \/ blind'
    BY <2>5, <2>7 DEF ClientsInv
  <2>8. CASE ~panicked' /\ ~blind'
    <3>1. ChangeOK(t)
      BY <2>2, <2>6, <2>8 DEF ClientsInv, ChangesOK
    <3>2. /\ t.original # None /\ t.of = {t.original.url, t.url} /\ id \in DOMAIN rows /\ rows[id].url = t.original.url
          /\ ChangedBy(t) = t.of
      BY <2>6, <3>1 DEF ChangeOK, ChangedBy
    <3>3. \A u : u \notin t.of => SameFor(u)
      BY <2>2, <2>3, <3>2 DEF SameFor
    <3>4. Pending(t.url, t.secret)'
      BY <2>2, <2>3, <3>2 DEF Pending, Served
    <3>5. t.original.url # t.url => NoRow(t.original.url)'
      BY <2>3, <3>2 DEF NoRow, ClientsInv, UrlsUnique
    <3>6. ChangeOK(v)'
      BY <2>0, <2>1, <3>2, <3>4, <3>5 DEF ChangeOK
    <3>7. \A u \in Urls \ ChangedBy(t) : SameFor(u)
      BY <3>2, <3>3
    <3> PICK next : next = {v}
      OBVIOUS
    <3>8. /\ TasksInv /\ UrlsUnique' /\ tasks' = (tasks \ {t}) \cup next
          /\ (~panicked' => ~panicked) /\ (~blind' => ~blind)
      BY <2>2, <2>5 DEF IInv
    <3>9. /\ \A w \in next : Changing(w) => Changing(t) /\ w.of = t.of
          /\ \A w, x \in next : Changing(w) /\ Changing(x) => w = x
          /\ ~ \A w \in next : ~Changing(w)
          /\ \A w \in next : Changing(w) => ChangeOK(w)'
      BY <2>1, <2>6, <3>6
    <3> QED
      BY <3>7, <3>8, <3>9, ChangeStep
  <2> QED
    BY <2>7, <2>8
<1> QED
  BY <1>1, <1>2

LEMMA DeleteClients ==
    ASSUME IInv, ClientsInv, NEW t \in tasks, t.do = "delete", DeleteRemote(t)
    PROVE  ClientsInv'
<1>1. CASE DeleteRefused(t.id)
  BY <1>1, FailedClients DEF DeleteRemote, history
<1>2. CASE ~DeleteRefused(t.id)
  <2>0. t \in DeleteTask
    BY DEF IInv, TasksInv, TaskOK
  <2> PICK v : v = [t EXCEPT !.do = "deleted"]
    OBVIOUS
  <2>1. v.do = "deleted" /\ v.of = t.of
    BY <2>0 DEF DeleteTask
  <2>2. /\ rows' = Deleted(t.id) /\ tasks' = (tasks \ {t}) \cup {v}
        /\ given' = given /\ clients' = clients /\ panicked' = panicked /\ blind' = blind
    BY <1>2 DEF DeleteRemote, Becomes, history
  <2>3. /\ DOMAIN rows' = DOMAIN rows \ {t.id}
        /\ \A i \in DOMAIN rows' : rows'[i].url = rows[i].url /\ rows'[i].secret = rows[i].secret
    <3>1. /\ DOMAIN rows' = DOMAIN rows \ {t.id}
          /\ \A i \in DOMAIN rows' : rows'[i] = [rows[i] EXCEPT !.order = RankIn(Without(rows, t.id), i)]
      BY <2>2 DEF Deleted, Renumbered, Without
    <3> QED
      BY <3>1 DEF IInv, TypeOK, Row
  <2>4. UrlsUnique'
    BY <2>3 DEF ClientsInv, UrlsUnique
  <2>5. Changing(t) /\ Changing(v)
    BY <2>1 DEF Changing
  <2>6. CASE panicked' \/ blind'
    BY <2>4, <2>6 DEF ClientsInv
  <2>7. CASE ~panicked' /\ ~blind'
    <3>1. ChangeOK(t)
      BY <2>2, <2>5, <2>7 DEF ClientsInv, ChangesOK
    <3>2. t.id \in DOMAIN rows /\ t.of = {rows[t.id].url} /\ ChangedBy(t) = t.of
      BY <2>5, <3>1 DEF ChangeOK, ChangedBy
    <3>3. \A u : u \notin t.of => SameFor(u)
      BY <2>2, <2>3, <3>2 DEF SameFor
    <3>4. ChangeOK(v)'
      <4>1. PICK u : u = rows[t.id].url
        OBVIOUS
      <4>2. u \in Urls /\ v.of = {u} /\ NoRow(u)'
        <5>1. \A i \in DOMAIN rows' : rows'[i].url # u
          BY <2>3, <3>2, <4>1 DEF ClientsInv, UrlsUnique
        <5> QED
          BY <2>1, <3>2, <4>1, <5>1 DEF NoRow, IInv, TypeOK, Row
      <4> QED
        BY <2>1, <4>2 DEF ChangeOK
    <3>5. \A u \in Urls \ ChangedBy(t) : SameFor(u)
      BY <3>2, <3>3
    <3> PICK next : next = {v}
      OBVIOUS
    <3>8. /\ TasksInv /\ UrlsUnique' /\ tasks' = (tasks \ {t}) \cup next
          /\ (~panicked' => ~panicked) /\ (~blind' => ~blind)
      BY <2>2, <2>4 DEF IInv
    <3>9. /\ \A w \in next : Changing(w) => Changing(t) /\ w.of = t.of
          /\ \A w, x \in next : Changing(w) /\ Changing(x) => w = x
          /\ ~ \A w \in next : ~Changing(w)
          /\ \A w \in next : Changing(w) => ChangeOK(w)'
      BY <2>1, <2>5, <3>4
    <3> QED
      BY <3>5, <3>8, <3>9, ChangeStep
  <2> QED
    BY <2>6, <2>7
<1> QED
  BY <1>1, <1>2

LEMMA SwapClients ==
    ASSUME IInv, ClientsInv, NEW t \in tasks, t.do = "swap", SwapOrderOfRemotes(t)
    PROVE  ClientsInv'
<1>1. CASE SwapRefused(t.first, t.second)
  BY <1>1, FailedClients DEF SwapOrderOfRemotes, history
<1>2. CASE ~SwapRefused(t.first, t.second)
  <2> PICK next : next = {Then(t, "load")}
    OBVIOUS
  <2>1. /\ rows' = Swapped(t.first, t.second) /\ tasks' = (tasks \ {t}) \cup next
        /\ given' = given /\ clients' = clients /\ panicked' = panicked /\ blind' = blind
    BY <1>2 DEF SwapOrderOfRemotes, Becomes, history
  <2>2. /\ DOMAIN rows' = DOMAIN rows
        /\ \A i \in DOMAIN rows : rows'[i].url = rows[i].url /\ rows'[i].secret = rows[i].secret
    BY <2>1 DEF Swapped, IInv, TypeOK, Row
  <2>3. ~Changing(t) /\ \A v \in next : ~Changing(v)
    BY DEF Changing, Then
  <2> QED
    BY <2>1, <2>2, <2>3, QuietClients
<1> QED
  BY <1>1, <1>2

LEMMA SubmittedClients ==
    ASSUME IInv, ClientsInv, NEW t \in tasks, t.do = "submitted", SubmittedSource(t)
    PROVE  ClientsInv'
<1>1. PICK client :
        client = [n |-> t.n, do |-> IF t.original = None THEN "add" ELSE "remove", of |-> t.of,
                  old |-> IF t.original = None THEN None ELSE t.original.url,
                  url |-> t.url, secret |-> t.secret]
  OBVIOUS
<1>2. PICK next : next = {client, Then(t, "load")}
  OBVIOUS
<1>3. /\ tasks' = (tasks \ {t}) \cup next /\ rows' = rows /\ clients' = clients /\ given' = given
      /\ panicked' = panicked /\ blind' = blind
  BY <1>1, <1>2 DEF SubmittedSource, Becomes, Table, history
<1>4. t.url # None
  <2>1. t.url \in Urls
    BY DEF IInv, TasksInv, TaskOK, FormTask
  <2> QED
    BY <2>1
<1>5. /\ Changing(t) /\ Changing(client) /\ client.of = t.of
      /\ ~Changing(Then(t, "load"))
  BY <1>1 DEF Changing, Then
<1>6. /\ TasksInv /\ UrlsUnique'
      /\ (~panicked' => ~panicked) /\ (~blind' => ~blind)
  BY <1>3 DEF IInv, ClientsInv, UrlsUnique
<1>7. ChangeOK(t) => ChangeOK(client)'
  <2> SUFFICES ASSUME ChangeOK(t)
               PROVE  ChangeOK(client)'
    OBVIOUS
  <2>1. Pending(t.url, t.secret)' /\ \A u : NoRow(u) => NoRow(u)'
    <3>1. Pending(t.url, t.secret)
      BY DEF ChangeOK
    <3> QED
      BY <1>3, <3>1, NothingChanged, SameKnown
  <2>2. CASE t.original = None
    BY <1>1, <2>1, <2>2 DEF ChangeOK
  <2>3. CASE t.original # None
    BY <1>1, <1>4, <2>1, <2>3 DEF ChangeOK
  <2> QED
    BY <2>2, <2>3
<1>8. \A u : SameFor(u)
  BY <1>3, NothingChanged
<1>9. /\ \A w \in next : Changing(w) => Changing(t) /\ w.of = t.of
      /\ \A w, x \in next : Changing(w) /\ Changing(x) => w = x
      /\ ~ \A w \in next : ~Changing(w)
      /\ ChangeOK(t) => \A w \in next : Changing(w) => ChangeOK(w)'
  BY <1>2, <1>5, <1>7
<1> QED
  BY <1>3, <1>5, <1>6, <1>8, <1>9, ChangeStep

\* The removed client is the one the list shows, and that is the URL of the task
\* unless the user was blind.
LEMMA DeletedClients ==
    ASSUME IInv, ClientsInv, NEW t \in tasks, t.do = "deleted", DeletedSource(t)
    PROVE  ClientsInv'
<1> DEFINE found == {r \in list.rows : r.id = t.id}
<1>1. rows' = rows /\ clients' = clients /\ given' = given
  BY DEF DeletedSource, Table
<1>2. UrlsUnique'
  BY <1>1 DEF ClientsInv, UrlsUnique
<1>3. CASE ~(list.state = "Loaded" /\ found # {})
  <2>1. panicked'
    BY <1>3 DEF DeletedSource
  <2> QED
    BY <1>2, <2>1 DEF ClientsInv
<1>4. CASE list.state = "Loaded" /\ found # {}
  <2> PICK r \in found :
        /\ Becomes(t, {[n |-> t.n, do |-> "remove", of |-> t.of, old |-> r.url,
                        url |-> None, secret |-> None], Then(t, "load")})
        /\ blind' = (blind \/ r.url \notin t.of)
        /\ UNCHANGED panicked
    BY <1>4 DEF DeletedSource
  <2> PICK client : client = [n |-> t.n, do |-> "remove", of |-> t.of, old |-> r.url,
                              url |-> None, secret |-> None]
    OBVIOUS
  <2> PICK next : next = {client, Then(t, "load")}
    OBVIOUS
  <2>1. tasks' = (tasks \ {t}) \cup next
    BY DEF Becomes
  <2>2. /\ Changing(t) /\ Changing(client) /\ client.of = t.of
        /\ ~Changing(Then(t, "load"))
    BY DEF Changing, Then
  <2>3. /\ TasksInv
        /\ (~panicked' => ~panicked) /\ (~blind' => ~blind)
    BY DEF IInv
  <2>4. ASSUME ChangeOK(t), ~blind'
        PROVE  ChangeOK(client)'
    <3>1. PICK u \in Urls : t.of = {u} /\ NoRow(u)
      BY <2>4 DEF ChangeOK
    <3>2. r.url = u /\ NoRow(u)'
      BY <1>1, <2>4, <3>1 DEF NoRow
    <3> QED
      BY <3>1, <3>2 DEF ChangeOK
  <2>5. \A u : SameFor(u)
    BY <1>1, NothingChanged
  <2>6. /\ \A w \in next : Changing(w) => Changing(t) /\ w.of = t.of
        /\ \A w, x \in next : Changing(w) /\ Changing(x) => w = x
        /\ ~ \A w \in next : ~Changing(w)
        /\ ChangeOK(t) /\ ~blind' => \A w \in next : Changing(w) => ChangeOK(w)'
    BY <2>2, <2>4
  <2> QED
    BY <1>2, <2>1, <2>2, <2>3, <2>5, <2>6, ChangeStep
<1> QED
  BY <1>3, <1>4

LEMMA RemoveClientClients ==
    ASSUME IInv, ClientsInv, NEW t \in tasks, t.do = "remove", RemoveClient(t)
    PROVE  ClientsInv'
<1> PICK next : next = IF t.url = None THEN {} ELSE {[t EXCEPT !.do = "add"]}
  OBVIOUS
<1>1. /\ tasks' = (tasks \ {t}) \cup next /\ rows' = rows /\ given' = given
      /\ clients' = Without(clients, t.old) /\ panicked' = panicked /\ blind' = blind
  BY DEF RemoveClient, Becomes, Table, history
<1>2. t \in ClientTask /\ (t.url # None => t.secret \in Secrets)
  BY DEF IInv, TasksInv, TaskOK
<1>3. \A v \in next : /\ v.do = "add" /\ v.of = t.of /\ v.url = t.url /\ v.secret = t.secret
                      /\ t.url # None
  BY <1>2 DEF ClientTask
<1>4. UrlsUnique' /\ TasksInv
  BY <1>1 DEF IInv, ClientsInv, UrlsUnique
<1>5. Changing(t) /\ \A v \in next : Changing(v) /\ v.of = t.of
  BY <1>3 DEF Changing
<1>6. \A w, x \in next : w = x
  OBVIOUS
<1>7. CASE panicked' \/ blind'
  BY <1>4, <1>7 DEF ClientsInv
<1>8. CASE ~panicked' /\ ~blind'
  <2>1. ChangeOK(t)
    BY <1>1, <1>5, <1>8 DEF ClientsInv, ChangesOK
  <2>2. t.old \in t.of /\ ChangedBy(t) = t.of
    BY <1>5, <2>1 DEF ChangeOK, ChangedBy
  <2>3. \A u : u # t.old => SameFor(u)
    BY <1>1 DEF SameFor, Without
  <2>4. NoRow(t.old) => ClientTrue(t.old)'
    BY <1>1 DEF NoRow, ClientTrue, Served, Without
  <2>5. CASE t.url = None
    <3>1. next = {} /\ t.of = {t.old} /\ NoRow(t.old)
      BY <2>1, <2>5 DEF ChangeOK
    <3>2. \A u \in Urls \ ChangedBy(t) : SameFor(u)
      BY <2>2, <2>3
    <3>3. \A u \in ChangedBy(t) : ClientTrue(u)'
      BY <2>2, <2>4, <3>1
    <3> QED
      BY <1>1, <1>4, <3>1, <3>2, <3>3, ChangeStep
  <2>6. CASE t.url # None
    <3>1. t.of = {t.old, t.url} /\ Pending(t.url, t.secret) /\ (t.old # t.url => NoRow(t.old))
      BY <2>1, <2>6 DEF ChangeOK
    <3>2. \A u \in Urls \ ChangedBy(t) : SameFor(u)
      BY <2>2, <2>3
    <3>3. Pending(t.url, t.secret)'
      BY <1>1, <3>1 DEF Pending, Served
    <3>4. \A u \in t.of \ {t.url} : ClientTrue(u)'
      BY <2>4, <3>1
    <3>5. \A v \in next : ChangeOK(v)'
      BY <1>3, <3>1, <3>3, <3>4 DEF ChangeOK
    <3>6. ~ \A v \in next : ~Changing(v)
      BY <1>5, <2>6
    <3> QED
      BY <1>1, <1>4, <1>5, <1>6, <3>2, <3>5, <3>6, ChangeStep
  <2> QED
    BY <2>5, <2>6
<1> QED
  BY <1>7, <1>8

LEMMA AddClientClients ==
    ASSUME IInv, ClientsInv, NEW t \in tasks, t.do = "add", AddClient(t)
    PROVE  ClientsInv'
<1> PICK next : next = {}
  OBVIOUS
<1>1. /\ tasks' = (tasks \ {t}) \cup next /\ rows' = rows /\ given' = given
      /\ clients' = With(clients, t.url, t.secret) /\ panicked' = panicked /\ blind' = blind
  BY DEF AddClient, Becomes, Table, history
<1>2. UrlsUnique' /\ TasksInv
  BY <1>1 DEF IInv, ClientsInv, UrlsUnique
<1>3. Changing(t)
  BY DEF Changing
<1>4. CASE panicked' \/ blind'
  BY <1>2, <1>4 DEF ClientsInv
<1>5. CASE ~panicked' /\ ~blind'
  <2>1. /\ t.url \in t.of /\ Pending(t.url, t.secret) /\ ChangedBy(t) = t.of
        /\ \A u \in t.of \ {t.url} : ClientTrue(u)
    <3>1. ChangeOK(t)
      BY <1>1, <1>3, <1>5 DEF ClientsInv, ChangesOK
    <3> QED
      BY <1>3, <3>1 DEF ChangeOK, ChangedBy
  <2>2. \A u : u # t.url => SameFor(u)
    BY <1>1 DEF SameFor, With
  <2>3. ClientTrue(t.url)'
    <3>1. t.url \in DOMAIN clients' /\ clients'[t.url] = t.secret
      BY <1>1 DEF With
    <3>2. PICK i \in Served : rows[i].url = t.url /\ rows[i].secret = t.secret
      BY <2>1 DEF Pending
    <3>3. Served' = Served
      BY <1>1 DEF Served
    <3>4. \A j \in Served : rows[j].url = t.url => j = i
      BY <3>2 DEF ClientsInv, UrlsUnique, Served
    <3> QED
      BY <1>1, <3>1, <3>2, <3>3, <3>4 DEF ClientTrue
  <2>4. \A u \in t.of : ClientTrue(u)'
    BY <2>1, <2>2, <2>3, SameKnown
  <2>5. \A u \in Urls \ ChangedBy(t) : SameFor(u)
    BY <2>1, <2>2
  <2> QED
    BY <1>1, <1>2, <2>1, <2>4, <2>5, ChangeStep
<1> QED
  BY <1>4, <1>5

\* The errors, and the tasks that load the list.
LEMMA OtherAnswers ==
    ASSUME IInv, ClientsInv, NEW t \in tasks,
           \/ t.do = "failed" /\ SetOperationError(t)
           \/ t.do = "load" /\ Load(t)
           \/ t.do = "fetch" /\ Fetch(t)
           \/ t.do = "loaded" /\ Loaded(t)
           \/ t.do = "broken" /\ Broken(t)
    PROVE  ClientsInv'
<1>1. /\ rows' = rows /\ clients' = clients /\ given' = given /\ panicked' = panicked
      /\ blind' = blind /\ ~Changing(t)
  BY DEF SetOperationError, Load, Fetch, Loaded, Broken, Table, history, Changing
<1>2. t.do = "load" => t \in PlainTask
  BY DEF IInv, TasksInv, TaskOK
<1> PICK next : next = IF t.do \in {"failed", "loaded"} THEN {}
                       ELSE IF t.do = "load" THEN {[t EXCEPT !.do = "fetch"]}
                       ELSE IF t.do = "fetch"
                       THEN {[n |-> t.n, do |-> "loaded", of |-> t.of, rows |-> Remotes]}
                       ELSE {Then(t, "load")}
  OBVIOUS
<1>3. tasks' = (tasks \ {t}) \cup next
  BY DEF SetOperationError, Load, Fetch, Loaded, Broken, Becomes
<1>4. \A v \in next : ~Changing(v)
  <2>1. \A v \in next : v.do \in {"fetch", "loaded", "load"}
    BY <1>2 DEF PlainTask, Then
  <2> QED
    BY <2>1 DEF Changing
<1> QED
  BY <1>1, <1>3, <1>4, QuietClients

\* At a start no source is submitted and none has a client.
LEMMA StartClients ==
    ASSUME UrlsUnique, given = {}, DOMAIN clients = {}, \A t \in tasks : t.do = "load"
    PROVE  ClientsInv
BY DEF ClientsInv, Apart, ChangesOK, RestTrue, Changing, ChangedBy, ClientTrue, Served

LEMMA RestartClients ==
    ASSUME IInv, ClientsInv, Restart
    PROVE  ClientsInv'
<1>1. /\ rows' = rows /\ given' = {} /\ DOMAIN clients' = {} /\ \A t \in tasks' : t.do = "load"
  BY DEF Restart, Started, FirstLoad
<1>2. UrlsUnique'
  BY <1>1 DEF ClientsInv, UrlsUnique
<1> QED
  BY <1>1, <1>2 DEF ClientsInv, Apart, ChangesOK, RestTrue, Changing, ChangedBy, ClientTrue, Served

LEMMA InitClients == Init => ClientsInv
<1> SUFFICES ASSUME Init
             PROVE  ClientsInv
  OBVIOUS
<1>1. UrlsUnique
  <2> PICK k \in 0..FirstRows, base \in {0, 1} : rows \in FoundRows(k, base)
    BY DEF Init
  <2> QED
    BY DEF FoundRows, UrlsUnique
<1>2. given = {} /\ DOMAIN clients = {} /\ \A t \in tasks : t.do = "load"
  BY DEF Init, FirstLoad
<1> QED
  BY <1>1, <1>2, StartClients

LEMMA NextClients == IInv /\ ClientsInv /\ [Next]_vars => ClientsInv'
<1> SUFFICES ASSUME IInv, ClientsInv, [Next]_vars
             PROVE  ClientsInv'
  OBVIOUS
<1>1. CASE Button
  BY <1>1, ButtonClients
<1>2. ASSUME NEW t \in tasks, Statement(t)
      PROVE  ClientsInv'
  <2>1. CASE t.do = "count" /\ CountRows(t)
    BY <2>1, CountClients
  <2>2. CASE t.do = "insert" /\ InsertRemote(t)
    BY <2>2, InsertClients
  <2>3. CASE t.do = "update" /\ UpdateRemote(t)
    BY <2>3, UpdateClients
  <2>4. CASE t.do = "delete" /\ DeleteRemote(t)
    BY <2>4, DeleteClients
  <2>5. CASE t.do = "swap" /\ SwapOrderOfRemotes(t)
    BY <2>5, SwapClients
  <2>6. CASE t.do = "fetch" /\ Fetch(t)
    BY <2>6, OtherAnswers
  <2> QED
    BY <1>2, <2>1, <2>2, <2>3, <2>4, <2>5, <2>6 DEF Statement
<1>3. ASSUME NEW t \in tasks, Answer(t)
      PROVE  ClientsInv'
  <2>1. CASE t.do = "submitted" /\ SubmittedSource(t)
    BY <2>1, SubmittedClients
  <2>2. CASE t.do = "deleted" /\ DeletedSource(t)
    BY <2>2, DeletedClients
  <2>3. CASE t.do = "remove" /\ RemoveClient(t)
    BY <2>3, RemoveClientClients
  <2>4. CASE t.do = "add" /\ AddClient(t)
    BY <2>4, AddClientClients
  <2> QED
    BY <1>3, <2>1, <2>2, <2>3, <2>4, OtherAnswers DEF Answer
<1>4. ASSUME NEW t \in tasks, t.do \in {"count", "insert", "update", "delete", "swap", "fetch"}, Fails(t)
      PROVE  ClientsInv'
  <2>1. PICK do \in {"failed", "broken"} : Becomes(t, {Then(t, do)})
    BY <1>4 DEF Fails
  <2>2. rows' = rows /\ clients' = clients /\ given' = given /\ panicked' = panicked /\ blind' = blind
    BY <1>4 DEF Fails, Table, history
  <2> QED
    BY <1>4, <2>1, <2>2, FailedClients
<1>5. CASE Restart
  BY <1>5, RestartClients
<1>6. CASE UNCHANGED vars
  BY <1>6, DialogClients DEF vars, history
<1> QED
  BY <1>1, <1>2, <1>3, <1>4, <1>5, <1>6 DEF Next

\* Once every task has ended, the sources submitted since the start have a
\* client with the secret of their row and no other source has one, whatever
\* changes of different sources overlapped or failed, unless one was changed
\* while its last change was under way (preferences.rs, SubmittedSource and
\* DeletedSource; the aggregator's add_client and remove_client).
THEOREM ClientsAreTrue == Spec => []ClientsTrue
<1>1. Init => IInv /\ ClientsInv
  BY InitIInv, InitClients
<1>2. (IInv /\ ClientsInv) /\ [Next]_vars => (IInv /\ ClientsInv)'
  BY NextIInv, NextClients
<1>3. IInv /\ ClientsInv => ClientsTrue
  <2> SUFFICES ASSUME IInv, ClientsInv, Settled, ~blind
               PROVE  /\ DOMAIN clients = {rows[i].url : i \in Served}
                      /\ \A i \in Served : clients[rows[i].url] = rows[i].secret
    BY DEF ClientsTrue, Served
  <2>1. \A u \in Urls : ClientTrue(u)
    BY DEF Settled, ClientsInv, RestTrue
  <2>2. DOMAIN clients \subseteq Urls /\ \A i \in Served : rows[i].url \in Urls
    BY DEF IInv, TypeOK, Row, Served
  <2>3. \A u : u \in DOMAIN clients <=> \E i \in Served : rows[i].url = u
    BY <2>1, <2>2 DEF ClientTrue
  <2>4. \A i \in Served : clients[rows[i].url] = rows[i].secret
    BY <2>1, <2>2 DEF ClientTrue
  <2>5. DOMAIN clients = {rows[i].url : i \in Served}
    BY <2>3
  <2> QED
    BY <2>4, <2>5
<1> QED
  BY <1>1, <1>2, <1>3, PTL DEF Spec
=============================================================================
