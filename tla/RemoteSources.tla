---------------------------- MODULE RemoteSources ----------------------------
(***************************************************************************)
(* The other servers a desktop user has configured: the rows of `remotes`  *)
(* (core/src/db/dao/remotes.rs), the list and the dialogs of the           *)
(* preferences page (cosmic/src/page/preferences.rs) and the clients of    *)
(* the document provider, which decide whose documents are shown.          *)
(*                                                                         *)
(*     button --> statement --> answer --> client                          *)
(*                                     --> Load --> fetch --> Loaded       *)
(*                                                                         *)
(* Everything after the button is a task or a message of its own, and      *)
(* nothing orders the tasks of two buttons.  Dialogs are modal; a dialog   *)
(* stays open until the answer to its button has come.  Reachability of a  *)
(* source and the form's verification are left out: they change neither.   *)
(***************************************************************************)
EXTENDS Naturals, FiniteSets

CONSTANTS Urls,        \* base URLs
          Secrets,     \* a user with a passphrase
          None,
          FirstRows,   \* rows the application may find when it first starts
          MaxActs,     \* bound on the user's buttons that change a source
          MaxFailures, \* bound on the fetches of the list that fail
          MaxStarts    \* bound on restarts

ASSUME NoneAssumption == None \notin Urls

ASSUME BoundsAssumption == {FirstRows, MaxActs, MaxFailures, MaxStarts} \subseteq Nat

Ids == Nat \ {0}

VARIABLES rows,      \* id |-> url, order and secret
          nextId,    \* AUTOINCREMENT
          list,      \* remotes_state: how far it is, and the rows it shows
          form,      \* add_source_form: closed, or the source it edits
          deleting,  \* pending_deletion
          error,     \* operation_error
          clients,   \* the aggregator's remote clients: url |-> secret
          tasks,     \* tasks and messages under way, n names the button
          panicked,
          acts, failures, starts,
          alone,     \* history: each button was pressed when the last one's tasks
                     \*          had ended, for a source that is as shown
          blind,     \* history: a change of a source whose last change was
                     \*          unfinished, or is not in the list
          overtaken, \* history: a fetch was answered after a later one
          fetched,   \* history: the last fetch that read the rows
          given      \* history: the sources submitted since the start

Page == <<list, form, deleting, error>>
history == <<alone, blind, overtaken, fetched, given>>
bounds == <<acts, failures, starts>>
vars == <<rows, nextId, Page, clients, tasks, panicked, bounds, history>>

\* A row as the dao returns it, and select_all_remotes.  Orders are unique:
\* the set stands for the sequence.
Remote(i) == [id |-> i, url |-> rows[i].url, order |-> rows[i].order, secret |-> rows[i].secret]
Remotes == {Remote(i) : i \in DOMAIN rows}

Row == [url : Urls, order : Nat, secret : Secrets]
Shown == [id : Ids, url : Urls, order : Nat, secret : Secrets]
Closed == [open |-> FALSE, original |-> None]
Kinds == {"count", "insert", "update", "submitted", "delete", "deleted", "swap", "failed",
          "add", "remove", "load", "fetch", "loaded", "broken"}

TypeOK ==
    /\ DOMAIN rows \subseteq Ids /\ \A i \in DOMAIN rows : rows[i] \in Row
    /\ nextId \in Ids /\ \A i \in DOMAIN rows : i < nextId
    /\ list.state \in {"New", "Loading", "Loaded", "Failed"} /\ list.rows \subseteq Shown
    /\ form.original \in Shown \cup {None}
    /\ deleting \in Shown \cup {None}
    /\ {error, panicked, alone, blind, overtaken} \subseteq BOOLEAN
    /\ DOMAIN clients \subseteq Urls /\ \A u \in DOMAIN clients : clients[u] \in Secrets
    /\ \A t \in tasks : t.n \in 0..MaxActs /\ t.do \in Kinds
    /\ fetched \in 0..MaxActs
    /\ given \subseteq Ids
    /\ acts \in 0..MaxActs /\ failures \in 0..MaxFailures /\ starts \in 0..MaxStarts

-----------------------------------------------------------------------------
(***************************************************************************)
(* The table.  Both columns are UNIQUE, which SQLite checks row by row in  *)
(* the order of the ids.                                                   *)
(***************************************************************************)
Without(f, x) == [y \in DOMAIN f \ {x} |-> f[y]]
With(f, x, v) == [y \in DOMAIN f \cup {x} |-> IF y = x THEN v ELSE f[y]]

UrlTaken(url, id) == \E i \in DOMAIN rows \ {id} : rows[i].url = url

InsertRefused(t) == \E i \in DOMAIN rows : rows[i].url = t.url \/ rows[i].order = t.order

RankByRowid(R, i) == Cardinality({j \in DOMAIN R : j < i})

\* delete_remote_by_id: ROW_NUMBER() - 1 over what is left.
RankIn(R, i) == Cardinality({j \in DOMAIN R : R[j].order < R[i].order})
Renumbered(R) == [i \in DOMAIN R |-> [R[i] EXCEPT !.order = RankIn(R, i)]]
RenumberRefused(R) == \E i, j \in DOMAIN R : i < j /\ R[j].order = RankIn(R, i)
Deleted(id) == Renumbered(Without(rows, id))
DeleteRefused(id) == RenumberRefused(Without(rows, id))

\* swap_order_of_remotes with the rows as the page showed them.  The detour
\* by negative values keeps the two from colliding with each other only.
SwapOrder(i, a, b) == IF i = a.id THEN b.order ELSE IF i = b.id THEN a.order ELSE rows[i].order
Swapped(a, b) == [i \in DOMAIN rows |-> [rows[i] EXCEPT !.order = SwapOrder(i, a, b)]]
SwapRefused(a, b) ==
    \E i \in DOMAIN rows \cap {a.id, b.id} : \E j \in DOMAIN rows \ {a.id, b.id} :
        rows[j].order = SwapOrder(i, a, b)

-----------------------------------------------------------------------------
(***************************************************************************)
(* The start of the application: the document provider has the local       *)
(* client, the preferences page asks for its list.                         *)
(***************************************************************************)
\* Rows that were added, or renumbered, and then moved about.
FoundRows(k, base) ==
    {R \in [1..k -> [url : Urls, order : base..(base + k - 1), secret : Secrets]] :
        \A i, j \in 1..k : R[i].url = R[j].url \/ R[i].order = R[j].order => i = j}

Started(waiting) ==
    /\ list' = [state |-> "New", rows |-> {}]
    /\ form' = Closed
    /\ deleting' = None
    /\ error' = FALSE
    /\ clients' = [u \in {} |-> None]
    /\ tasks' = {waiting}
    /\ panicked' = FALSE
    /\ blind' = FALSE /\ overtaken' = FALSE
    /\ fetched' = 0
    /\ given' = {}

FirstLoad == [n |-> 0, do |-> "load", of |-> {}]

Init ==
    /\ \E k \in 0..FirstRows, base \in {0, 1} : rows \in FoundRows(k, base)
    /\ nextId = Cardinality(DOMAIN rows) + 1
    /\ list = [state |-> "New", rows |-> {}]
    /\ form = Closed /\ deleting = None /\ error = FALSE
    /\ clients = [u \in {} |-> None]
    /\ tasks = {FirstLoad}
    /\ panicked = FALSE
    /\ acts = 0 /\ failures = 0 /\ starts = 0
    /\ alone = TRUE /\ blind = FALSE /\ overtaken = FALSE
    /\ fetched = 0
    /\ given = {}

\* The process ends, or has panicked, and is started again.  What haste did
\* to the orders stays.
Restart ==
    /\ starts < MaxStarts
    /\ starts' = starts + 1
    /\ Started([FirstLoad EXCEPT !.n = acts])
    /\ UNCHANGED <<rows, nextId, acts, failures, alone>>

-----------------------------------------------------------------------------
(***************************************************************************)
(* The user.  The buttons of a source carry the row they were drawn with.  *)
(***************************************************************************)
NoDialog == ~form.open /\ deleting = None /\ ~error
ListShown == ~panicked /\ NoDialog /\ list.state = "Loaded"

SameSource(r) == \E q \in Remotes : [q EXCEPT !.order = r.order] = r

\* A button that starts a task about some URLs, for a source that is as shown.
Press(task, of, asShown) ==
    /\ acts < MaxActs
    /\ acts' = acts + 1
    /\ tasks' = tasks \cup {task}
    /\ alone' = (alone /\ tasks = {} /\ asShown)
    /\ blind' = (blind \/ ~asShown \/ \E t \in tasks : t.do \in {"count", "insert", "update",
                    "submitted", "delete", "deleted", "add", "remove"} /\ t.of \cap of # {})
    /\ UNCHANGED <<rows, nextId, list, clients, panicked, failures, starts,
                   overtaken, fetched, given>>

Dialog == UNCHANGED <<rows, nextId, list, clients, tasks, panicked, bounds, history>>

ShowAddSourceForm ==
    /\ ListShown
    /\ form' = [open |-> TRUE, original |-> None]
    /\ Dialog /\ UNCHANGED <<deleting, error>>

EditSource(r) ==
    /\ ListShown
    /\ form' = [open |-> TRUE, original |-> r]
    /\ Dialog /\ UNCHANGED <<deleting, error>>

CancelForm ==
    /\ ~panicked /\ form.open
    /\ form' = Closed
    /\ Dialog /\ UNCHANGED <<deleting, error>>

SubmitSource(url, secret) ==
    LET old == form.original
        of == IF old = None THEN {url} ELSE {old.url, url}
        do == IF old = None THEN "count" ELSE "update"
    IN  /\ ~panicked /\ form.open
        /\ Press([n |-> acts + 1, do |-> do, of |-> of, original |-> old,
                  url |-> url, secret |-> secret], of, old # None => SameSource(old))
        /\ UNCHANGED <<form, deleting, error>>

RequestDeleteSource(r) ==
    /\ ListShown
    /\ deleting' = r
    /\ Dialog /\ UNCHANGED <<form, error>>

CancelDeleteSource ==
    /\ ~panicked /\ ~form.open /\ deleting # None
    /\ deleting' = None
    /\ Dialog /\ UNCHANGED <<form, error>>

ConfirmDeleteSource ==
    /\ ~panicked /\ ~form.open /\ deleting # None
    /\ deleting' = None
    /\ Press([n |-> acts + 1, do |-> "delete", of |-> {deleting.url}, id |-> deleting.id],
             {deleting.url}, SameSource(deleting))
    /\ UNCHANGED <<form, error>>

\* find_with_previous and find_with_next: both end in a swap of two neighbours
\* of the list, first the upper one.
Neighbours(a, b) ==
    /\ a.order < b.order
    /\ ~ \E r \in list.rows : a.order < r.order /\ r.order < b.order

MoveSource(a, b) ==
    /\ ListShown
    /\ Neighbours(a, b)
    /\ Press([n |-> acts + 1, do |-> "swap", of |-> {}, first |-> a, second |-> b], {}, TRUE)
    /\ UNCHANGED <<form, deleting, error>>

ClearOperationError ==
    /\ ~panicked /\ ~form.open /\ deleting = None /\ error
    /\ error' = FALSE
    /\ Dialog /\ UNCHANGED <<form, deleting>>

-----------------------------------------------------------------------------
(***************************************************************************)
(* The tasks: a statement or a transaction each.                           *)
(***************************************************************************)
Becomes(t, next) == tasks' = (tasks \ {t}) \cup next
Then(t, do) == [n |-> t.n, do |-> do, of |-> t.of]

Table == <<rows, nextId>>
Ghosts == <<alone, blind, overtaken, fetched>>

CountRows(t) ==
    /\ Becomes(t, {[n |-> t.n, do |-> "insert", of |-> t.of, original |-> None, url |-> t.url,
                    secret |-> t.secret, order |-> Cardinality(DOMAIN rows) + 1]})
    /\ UNCHANGED <<Table, Page, clients, panicked, bounds, history>>

InsertRemote(t) ==
    /\ IF InsertRefused(t)
       THEN /\ Becomes(t, {Then(t, "failed")})
            /\ UNCHANGED <<rows, nextId, given>>
       ELSE /\ rows' = With(rows, nextId, [url |-> t.url, order |-> t.order, secret |-> t.secret])
            /\ nextId' = nextId + 1
            /\ given' = given \cup {nextId}
            /\ Becomes(t, {[n |-> t.n, do |-> "submitted", of |-> t.of, original |-> None,
                            url |-> t.url, secret |-> t.secret]})
    /\ UNCHANGED <<Page, clients, panicked, bounds, Ghosts>>

UpdateRemote(t) ==
    LET id == t.original.id IN
    /\ IF UrlTaken(t.url, id) /\ id \in DOMAIN rows
       THEN /\ Becomes(t, {Then(t, "failed")})
            /\ UNCHANGED <<rows, given>>
       ELSE /\ rows' = [i \in DOMAIN rows |->
                          IF i = id THEN [rows[i] EXCEPT !.url = t.url, !.secret = t.secret]
                          ELSE rows[i]]
            /\ given' = given \cup (DOMAIN rows \cap {id})
            /\ Becomes(t, {[t EXCEPT !.do = "submitted"]})
    /\ UNCHANGED <<nextId, Page, clients, panicked, bounds, Ghosts>>

\* Mutant: the list is loaded while the removal is announced.
DeleteRemoteReloads(t) ==
    /\ IF DeleteRefused(t.id)
       THEN /\ Becomes(t, {Then(t, "failed")})
            /\ UNCHANGED rows
       ELSE /\ rows' = Deleted(t.id)
            /\ Becomes(t, {[t EXCEPT !.do = "deleted"], Then(t, "load")})
    /\ UNCHANGED <<nextId, Page, clients, panicked, bounds, history>>

DeleteRemote(t) ==
    /\ IF DeleteRefused(t.id)
       THEN /\ Becomes(t, {Then(t, "failed")})
            /\ UNCHANGED rows
       ELSE /\ rows' = Deleted(t.id)
            /\ Becomes(t, {[t EXCEPT !.do = "deleted"]})
    /\ UNCHANGED <<nextId, Page, clients, panicked, bounds, history>>

SwapOrderOfRemotes(t) ==
    /\ IF SwapRefused(t.first, t.second)
       THEN /\ Becomes(t, {Then(t, "failed")})
            /\ UNCHANGED rows
       ELSE /\ rows' = Swapped(t.first, t.second)
            /\ Becomes(t, {Then(t, "load")})
    /\ UNCHANGED <<nextId, Page, clients, panicked, bounds, history>>

\* The database does not answer.
Fails(t) ==
    /\ failures < MaxFailures
    /\ failures' = failures + 1
    /\ Becomes(t, {Then(t, IF t.do = "fetch" THEN "broken" ELSE "failed")})
    /\ UNCHANGED <<Table, Page, clients, panicked, acts, starts, history>>

(***************************************************************************)
(* The answers, as the page and the pages above it handle them.            *)
(***************************************************************************)
\* Mutant: the list is not loaded again.
SubmittedSourceUnlisted(t) ==
    LET client == [n |-> t.n, do |-> IF t.original = None THEN "add" ELSE "remove", of |-> t.of,
                   old |-> IF t.original = None THEN None ELSE t.original.url,
                   url |-> t.url, secret |-> t.secret]
    IN  /\ form' = Closed
        /\ Becomes(t, {client})
        /\ UNCHANGED <<Table, list, deleting, error, clients, panicked, bounds, history>>

SubmittedSource(t) ==
    LET client == [n |-> t.n, do |-> IF t.original = None THEN "add" ELSE "remove", of |-> t.of,
                   old |-> IF t.original = None THEN None ELSE t.original.url,
                   url |-> t.url, secret |-> t.secret]
    IN  /\ form' = Closed
        /\ Becomes(t, {client, Then(t, "load")})
        /\ UNCHANGED <<Table, list, deleting, error, clients, panicked, bounds, history>>

\* The URL is the one shown; state.unwrap() and find().unwrap() panic.
DeletedSource(t) ==
    LET found == {r \in list.rows : r.id = t.id} IN
    /\ IF list.state = "Loaded" /\ found # {}
       THEN \E r \in found :
              /\ Becomes(t, {[n |-> t.n, do |-> "remove", of |-> t.of, old |-> r.url,
                              url |-> None, secret |-> None],
                             Then(t, "load")})
              /\ blind' = (blind \/ r.url \notin t.of)
              /\ UNCHANGED panicked
       ELSE /\ panicked' = TRUE
            /\ tasks' = {}
            /\ UNCHANGED blind
    /\ UNCHANGED <<Table, Page, clients, bounds, alone, overtaken, fetched, given>>

SetOperationError(t) ==
    /\ error' = TRUE
    /\ Becomes(t, {})
    /\ UNCHANGED <<Table, list, form, deleting, clients, panicked, bounds, history>>

\* Mutant: an edit only adds.
RemoveClientKeepsOld(t) ==
    /\ clients' = IF t.url = None THEN Without(clients, t.old) ELSE clients
    /\ Becomes(t, IF t.url = None THEN {} ELSE {[t EXCEPT !.do = "add"]})
    /\ UNCHANGED <<Table, Page, panicked, bounds, history>>

\* DocumentProvider::remove_client, then add_client when a source was edited.
RemoveClient(t) ==
    /\ clients' = Without(clients, t.old)
    /\ Becomes(t, IF t.url = None THEN {} ELSE {[t EXCEPT !.do = "add"]})
    /\ UNCHANGED <<Table, Page, panicked, bounds, history>>

AddClient(t) ==
    /\ clients' = With(clients, t.url, t.secret)
    /\ Becomes(t, {})
    /\ UNCHANGED <<Table, Page, panicked, bounds, history>>

\* ProvidedState.
Load(t) ==
    /\ list' = [state |-> "Loading", rows |-> {}]
    /\ Becomes(t, {[t EXCEPT !.do = "fetch"]})
    /\ UNCHANGED <<Table, form, deleting, error, clients, panicked, bounds, history>>

Fetch(t) ==
    /\ Becomes(t, {[n |-> t.n, do |-> "loaded", of |-> t.of, rows |-> Remotes]})
    /\ fetched' = t.n
    /\ UNCHANGED <<Table, Page, clients, panicked, bounds, alone, blind, overtaken, given>>

Loaded(t) ==
    /\ list' = [state |-> "Loaded", rows |-> t.rows]
    /\ Becomes(t, {})
    /\ overtaken' = (fetched # t.n)
    /\ UNCHANGED <<Table, form, deleting, error, clients, panicked, bounds,
                   alone, blind, fetched, given>>

Broken(t) ==
    /\ list' = [state |-> "Failed", rows |-> {}]
    /\ Becomes(t, {Then(t, "load")})
    /\ UNCHANGED <<Table, form, deleting, error, clients, panicked, bounds, history>>

-----------------------------------------------------------------------------
Statement(t) ==
    \/ t.do = "count" /\ CountRows(t)
    \/ t.do = "insert" /\ InsertRemote(t)
    \/ t.do = "update" /\ UpdateRemote(t)
    \/ t.do = "delete" /\ DeleteRemote(t)
    \/ t.do = "swap" /\ SwapOrderOfRemotes(t)
    \/ t.do = "fetch" /\ Fetch(t)

Answer(t) ==
    \/ t.do = "submitted" /\ SubmittedSource(t)
    \/ t.do = "deleted" /\ DeletedSource(t)
    \/ t.do = "failed" /\ SetOperationError(t)
    \/ t.do = "remove" /\ RemoveClient(t)
    \/ t.do = "add" /\ AddClient(t)
    \/ t.do = "load" /\ Load(t)
    \/ t.do = "loaded" /\ Loaded(t)
    \/ t.do = "broken" /\ Broken(t)

Button ==
    \/ ShowAddSourceForm
    \/ \E r \in list.rows : EditSource(r) \/ RequestDeleteSource(r)
    \/ CancelForm
    \/ \E url \in Urls, secret \in Secrets : SubmitSource(url, secret)
    \/ CancelDeleteSource
    \/ ConfirmDeleteSource
    \/ \E a, b \in list.rows : MoveSource(a, b)
    \/ ClearOperationError

Next ==
    \/ Button
    \/ \E t \in tasks : Statement(t) \/ Answer(t)
    \/ \E t \in tasks : t.do \in {"count", "insert", "update", "delete", "swap", "fetch"} /\ Fails(t)
    \/ Restart

Spec == Init /\ [][Next]_vars

-----------------------------------------------------------------------------
(***************************************************************************)
(* Properties.                                                             *)
(***************************************************************************)
Settled == tasks = {} /\ ~panicked

\* When every task has ended, and the answer to the last fetch was the last to
\* come, the list shows the table: whatever buttons overlapped, each change is
\* followed by a fetch of its own (preferences.rs, SubmittedSource,
\* DeletedSource, SwapOrderOfRemotes).
ListTrue == Settled /\ list.state = "Loaded" /\ ~overtaken => list.rows = Remotes

\* The sources submitted since the start, and no others, have a client, with the
\* secret of the row, as long as no source was changed while an earlier change
\* of it was under way: tasks of different sources may end in any order.
ClientsTrue ==
    Settled /\ ~blind =>
        LET served == given \cap DOMAIN rows IN
        /\ DOMAIN clients = {rows[i].url : i \in served}
        /\ \A i \in served : clients[rows[i].url] = rows[i].secret

\* A user who always waited for the list after a button finds a new source at
\* its end, it is never refused for its place after whatever removals and moves (the
\* order is the number of rows plus one, preferences.rs:2861), and never meets
\* the panics of state.unwrap() and find().unwrap().
PatienceServed ==
    alone =>
        /\ ~panicked
        /\ \A t \in tasks : t.do = "insert" => \A i \in DOMAIN rows : rows[i].order < t.order

\* Adding, editing and removing a source leave the others in their places, and
\* a move of a list that is the table exchanges two neighbours.
Before(R, i, j) == R[i].order < R[j].order
Moving(i, j) ==
    \E t \in tasks : t.do = "swap" /\ t \notin tasks' /\ (alone => {i, j} = {t.first.id, t.second.id})
PlacesKept ==
    [][\A i, j \in DOMAIN rows \cap DOMAIN rows' :
          Before(rows, i, j) = Before(rows', i, j) \/ Moving(i, j)]_vars
=============================================================================
