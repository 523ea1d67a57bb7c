------------------------- MODULE DocumentList_proofs -------------------------
(***************************************************************************)
(* Proofs about DocumentList, for any documents, tags and bounds, and then *)
(* about ObservableCache, the cache that the list is loaded from, for any  *)
(* callers, any capacity of its channel and any number of versions.        *)
(*                                                                         *)
(* The list.  ShownInv: what is shown are rows, which a filter that was    *)
(* started for other rows would break; FilterInv tells which rows and      *)
(* which criterion a filter or a timer under way is for.  LibraryInv       *)
(* follows a change of the library: until its request has ended nothing    *)
(* that brings documents is under way, and afterwards all that does brings *)
(* what the cache was filled with, so that the list has it once it has     *)
(* been loaded; which is the library if every source has answered.         *)
(*                                                                         *)
(* The cache, which the list's model fills and drops in single steps.      *)
(* NotStale is not inductive: a store could put back an old version unless *)
(* what the lock's holder fetched is already known to be fresh.  FetchInv  *)
(* says so, and that nothing fills the cache while a fetch is under way;   *)
(* both follow from LockDiscipline, which keeps set_expired() out.         *)
(***************************************************************************)
EXTENDS DocumentList, ObservableCache, FiniteSetTheorems, SequenceTheorems, TLAPS

\* Documents of different guids, as a source or the cache has them.
Collection(docs) == docs \subseteq Document /\ \A d, e \in docs : d.guid = e.guid => d = e

\* The tasks of a batch.
Batches == [do : {"batch"}, add : BOOLEAN, tag : Tags, left : SUBSET Docs, docs : SUBSET Document]

\* What a task or a message brings.
TaskType(t) ==
    /\ t.do = "filtered" => t.shown \subseteq Nat
    /\ t.do = "timer" => t.query \in BOOLEAN
    /\ t.do = "loaded" => Collection(t.docs)
    /\ t.do = "batch" => t \in Batches
    /\ t.do = "applied" => t.docs \subseteq Document
    /\ t.do = "item" => t.doc \in Document

\* Every variable keeps its type, and no two rows are of one document.
TypeInv ==
    /\ library \in [DOMAIN library -> SUBSET Tags] /\ DOMAIN library \subseteq Docs
    /\ cache = None \/ Collection(cache)
    /\ list \in [state : {"New", "Loading", "Loaded"}, rows : Seq(Document),
                 shown : SUBSET Nat]
    /\ \A i, j \in DOMAIN list.rows : list.rows[i].guid = list.rows[j].guid => i = j
    /\ criteria \in [query : BOOLEAN, tag : Tags \cup {None}]
    /\ descending \in BOOLEAN /\ filtering \in BOOLEAN /\ owed \in BOOLEAN
    /\ panicked \in BOOLEAN /\ apart \in BOOLEAN /\ whole \in BOOLEAN
    /\ selected \subseteq Docs
    /\ \A t \in tasks : TaskType(t)

\* Nothing is shown that is not in the list, or the page would have panicked,
\* and a list that is not loaded has no rows.
ShownInv ==
    /\ ~panicked => list.shown \subseteq DOMAIN list.rows
    /\ ~Loaded => list.rows = << >>

\* A filter under way is for the rows as they are, unless one is owed; with no
\* timer running it is for what is asked for now.
FilterInv ==
    /\ filtering <=> Pending({"filtered"})
    /\ \A t, u \in tasks : t.do = "filtered" /\ u.do = "filtered" => t = u
    /\ \A t \in tasks : t.do = "timer" => t = [do |-> "timer", query |-> criteria.query]
    /\ ~owed => ~panicked
    /\ ~owed /\ Loaded => \A t \in tasks : t.do = "filtered" =>
           /\ t.shown \subseteq DOMAIN list.rows
           /\ ~Pending({"timer"}) => t.shown = Filtered(criteria, list.rows)
    /\ ~owed /\ Loaded /\ ~filtering /\ ~Pending({"timer"}) =>
           list.shown = Filtered(criteria, list.rows)

\* Tasks that may have changed the library without anybody knowing yet, and
\* those that bring what it has.
Writing == {"batch", "merge", "expire"}
Answers == {"load", "fetch", "loaded", "applied", "read", "item", "merged"}

\* The copies of a batch will be what is stored when it is done.
BatchTrue(t) ==
    \A d \in t.docs :
        /\ d.guid \in DOMAIN library
        /\ d.tags = IF d.guid \notin t.left THEN library[d.guid]
                    ELSE IF t.add THEN library[d.guid] \cup {t.tag} ELSE library[d.guid] \ {t.tag}

\* What is cached is what the sources that answered have, and no load brings
\* anything else; the list may be older until it is loaded again.
AnswersTrue ==
    /\ cache # None => cache \subseteq Stored /\ (whole => cache = Stored)
    /\ \A t \in tasks :
          /\ t.do = "loaded" => cache # None /\ t.docs = cache
          /\ t.do = "applied" => t.docs \subseteq Stored
          /\ t.do = "item" => t.doc \in Stored
    /\ Loaded /\ ~Pending({"load"}) => cache # None /\ list.rows = Sorted(cache, descending)

\* While changes are made one after the other only one is under way, and with it
\* nothing else that concerns the library.
LibraryInv ==
    apart =>
        /\ \A t, u \in tasks : t.do \in Writing /\ u.do \in Writing => t = u
        /\ Pending(Writing) => ~Pending(Answers)
        /\ \A t \in tasks : t.do = "batch" => BatchTrue(t)
        /\ ~Pending(Writing) => AnswersTrue

\* The inductive invariant.
IInv == TypeInv /\ ShownInv /\ FilterInv /\ SelectionExists /\ LibraryInv

USE DEF known
-----------------------------------------------------------------------------

(***************************************************************************)
(* Rows.                                                                   *)
(***************************************************************************)
\* What is sorted is a sequence of the documents, each in one place.
LEMMA Finite == ASSUME NEW docs, Collection(docs) PROVE IsFiniteSet(docs)
<1> DEFINE guid == [d \in docs |-> d.guid]
<1>1. guid \in Injection(docs, Docs)
  BY DEF Collection, Document, Injection, IsInjective
<1> QED
  BY <1>1, FS_Injection, DocsAssumption

\* The documents up to d.
UpTo(docs, down, d) == {e \in docs : IF down THEN e.guid >= d.guid ELSE e.guid <= d.guid}

LEMMA Places ==
    ASSUME NEW docs, Collection(docs), NEW down \in BOOLEAN
    PROVE  /\ Cardinality(docs) \in Nat
           /\ [d \in docs |-> Cardinality(UpTo(docs, down, d))] \in
                  Injection(docs, 1..Cardinality(docs)) \cap Surjection(docs, 1..Cardinality(docs))
<1> DEFINE n == Cardinality(docs)
           place == [d \in docs |-> Cardinality(UpTo(docs, down, d))]
<1>1. IsFiniteSet(docs) /\ n \in Nat
  BY Finite, FS_CardinalityType
<1>2. \A d \in docs : d.guid \in Nat
  BY DocsAssumption DEF Collection, Document
<1>3. \A d \in docs : /\ IsFiniteSet(UpTo(docs, down, d)) /\ d \in UpTo(docs, down, d)
                      /\ place[d] \in 1..n
  <2> SUFFICES ASSUME NEW d \in docs
               PROVE  /\ IsFiniteSet(UpTo(docs, down, d)) /\ d \in UpTo(docs, down, d)
                      /\ place[d] \in 1..n
    OBVIOUS
  <2>1. d \in UpTo(docs, down, d) /\ UpTo(docs, down, d) \subseteq docs
    BY <1>2 DEF UpTo
  <2>2. IsFiniteSet(UpTo(docs, down, d)) /\ Cardinality(UpTo(docs, down, d)) <= n
    BY <1>1, <2>1, FS_Subset
  <2>3. Cardinality(UpTo(docs, down, d)) \in Nat /\ Cardinality(UpTo(docs, down, d)) # 0
    BY <2>1, <2>2, FS_CardinalityType, FS_EmptySet
  <2> QED
    BY <1>1, <2>1, <2>2, <2>3
<1>4. ASSUME NEW d \in docs, NEW e \in docs, UpTo(docs, down, d) \subseteq UpTo(docs, down, e),
             place[d] = place[e]
      PROVE  d = e
  <2>1. UpTo(docs, down, d) = UpTo(docs, down, e)
    BY <1>3, <1>4, FS_Subset
  <2>2. d.guid = e.guid
    BY <1>2, <1>3, <2>1 DEF UpTo
  <2> QED
    BY <2>2 DEF Collection
<1>5. \A d, e \in docs : \/ UpTo(docs, down, d) \subseteq UpTo(docs, down, e)
                         \/ UpTo(docs, down, e) \subseteq UpTo(docs, down, d)
  BY <1>2 DEF UpTo
<1>6. place \in Injection(docs, 1..n)
  <2>1. \A d, e \in docs : place[d] = place[e] => d = e
    BY <1>4, <1>5
  <2>2. place \in [docs -> 1..n]
    BY <1>3
  <2> QED
    BY <2>1, <2>2 DEF Injection, IsInjective
<1>7. IsFiniteSet(1..n) /\ Cardinality(1..n) = n
  BY <1>1, FS_Interval
<1>8. place \in Surjection(docs, 1..n)
  BY <1>6, <1>7, FS_Injection
<1> QED
  BY <1>1, <1>6, <1>8

LEMMA SortedIsAll ==
    ASSUME NEW docs, Collection(docs), NEW down \in BOOLEAN
    PROVE  /\ Sorted(docs, down) \in Seq(docs)
           /\ Range(Sorted(docs, down)) = docs
           /\ DOMAIN Sorted(docs, down) = 1..Cardinality(docs)
           /\ \A i, j \in DOMAIN Sorted(docs, down) :
                  Sorted(docs, down)[i].guid = Sorted(docs, down)[j].guid => i = j
<1> DEFINE n == Cardinality(docs)
           place == [d \in docs |-> Cardinality(UpTo(docs, down, d))]
           s == Sorted(docs, down)
<1>1. n \in Nat /\ place \in Injection(docs, 1..n) \cap Surjection(docs, 1..n)
  BY Places
<1>2. s = [i \in 1..n |-> CHOOSE d \in docs : Cardinality(UpTo(docs, down, d)) = i]
  BY DEF Sorted, UpTo
<1>3. \A i \in 1..n : s[i] \in docs /\ place[s[i]] = i
  <2> SUFFICES ASSUME NEW i \in 1..n
               PROVE  s[i] \in docs /\ place[s[i]] = i
    OBVIOUS
  <2>1. \E d \in docs : Cardinality(UpTo(docs, down, d)) = i
    BY <1>1 DEF Surjection
  <2> QED
    BY <1>2, <2>1
<1>4. \A d \in docs : place[d] \in 1..n /\ s[place[d]] = d
  BY <1>1, <1>3 DEF Injection, IsInjective
<1>5. s \in [1..n -> docs]
  BY <1>2, <1>3
<1>6. Range(s) = docs
  BY <1>3, <1>4, <1>5 DEF Range
<1>7. s \in Seq(docs)
  BY <1>1, <1>5
<1>8. ASSUME NEW i \in 1..n, NEW j \in 1..n, s[i].guid = s[j].guid
      PROVE  i = j
  <2>1. s[i] = s[j]
    BY <1>3, <1>8 DEF Collection
  <2> QED
    BY <1>3, <2>1
<1> QED
  BY <1>5, <1>6, <1>7, <1>8

\* The rows of a list are a collection, and sorting them keeps their number.
LEMMA RowsSorted ==
    ASSUME NEW rows \in Seq(Document), NEW down \in BOOLEAN,
           \A i, j \in DOMAIN rows : rows[i].guid = rows[j].guid => i = j
    PROVE  /\ Collection(Range(rows))
           /\ DOMAIN Sorted(Range(rows), down) = DOMAIN rows
<1>1. PICK n \in Nat : rows \in [1..n -> Document]
  BY SeqDef
<1>2. Collection(Range(rows))
  BY <1>1 DEF Range, Collection
<1>3. rows \in Bijection(1..n, Range(rows))
  BY <1>1 DEF Range, Bijection, Injection, Surjection, IsInjective
<1>4. IsFiniteSet(1..n) /\ Cardinality(1..n) = n
  BY FS_Interval
<1>5. Cardinality(Range(rows)) = n
  BY <1>3, <1>4, FS_Bijection DEF ExistsBijection
<1> QED
  BY <1>1, <1>2, <1>5, SortedIsAll

\* What a source has is a collection.
LEMMA StoredIs ==
    ASSUME TypeInv
    PROVE  /\ Collection(Stored) /\ {d.guid : d \in Stored} = DOMAIN library
           /\ \A d \in Document : d \in Stored <=> d.guid \in DOMAIN library /\ d.tags = library[d.guid]
<1>1. \A g \in DOMAIN library : [guid |-> g, tags |-> library[g]] \in Document
  BY DEF TypeInv, Document
<1>2. \A d \in Stored : d \in Document /\ d.guid \in DOMAIN library /\ d.tags = library[d.guid]
  BY <1>1 DEF Stored
<1>3. \A d \in Document : d = [guid |-> d.guid, tags |-> d.tags]
  BY DEF Document
<1>4. \A d \in Document : d.guid \in DOMAIN library /\ d.tags = library[d.guid] => d \in Stored
  BY <1>3 DEF Stored
<1>5. ASSUME NEW g \in DOMAIN library
      PROVE  g \in {d.guid : d \in Stored}
  <2>1. [guid |-> g, tags |-> library[g]] \in Stored
    BY DEF Stored
  <2> QED
    BY <2>1
<1> QED
  BY <1>2, <1>3, <1>4, <1>5 DEF Collection

\* A row keeps its guid when it is updated.
LEMMA UpdatedIs ==
    ASSUME NEW rows \in Seq(Document), NEW docs, docs \subseteq Document
    PROVE  /\ Updated(rows, docs) \in Seq(Document)
           /\ DOMAIN Updated(rows, docs) = DOMAIN rows
           /\ \A i \in DOMAIN rows : Updated(rows, docs)[i].guid = rows[i].guid
<1>1. \A i \in DOMAIN rows : rows[i] \in Document
  OBVIOUS
<1> DEFINE s == Updated(rows, docs)
<1>2. DOMAIN s = DOMAIN rows
  BY DEF Updated
<1>3. ASSUME NEW i \in DOMAIN rows
      PROVE  s[i] \in Document /\ s[i].guid = rows[i].guid
  <2>1. CASE \E d \in docs : d.guid = rows[i].guid
    <3>1. s[i] = CHOOSE d \in docs : d.guid = rows[i].guid
      BY <2>1 DEF Updated
    <3> QED
      BY <2>1, <3>1
  <2>2. CASE ~\E d \in docs : d.guid = rows[i].guid
    BY <1>1, <2>2 DEF Updated
  <2> QED
    BY <2>1, <2>2
<1>4. s \in Seq(Document)
  <2>1. PICK n \in Nat : rows \in [1..n -> Document]
    BY SeqDef
  <2>2. s \in [1..n -> Document]
    BY <1>2, <1>3, <2>1 DEF Updated
  <2> QED
    BY <2>2, SeqDef
<1> QED
  BY <1>2, <1>3, <1>4

\* Rows that are what is stored are left as they are by what is stored.
LEMMA UpdatedByStored ==
    ASSUME NEW rows \in Seq(Document), NEW docs, docs \subseteq Document,
           NEW all, Collection(all), docs \subseteq all, Range(rows) \subseteq all
    PROVE  Updated(rows, docs) = rows
<1>1. \A i \in DOMAIN rows : rows[i] \in all
  BY DEF Range
<1>2. ASSUME NEW i \in DOMAIN rows
      PROVE  Updated(rows, docs)[i] = rows[i]
  <2>1. \A d \in docs : d.guid = rows[i].guid => d = rows[i]
    BY <1>1 DEF Collection
  <2>2. CASE \E d \in docs : d.guid = rows[i].guid
    <3>1. Updated(rows, docs)[i] = CHOOSE d \in docs : d.guid = rows[i].guid
      BY <2>2 DEF Updated
    <3> QED
      BY <2>1, <2>2, <3>1
  <2>3. CASE ~\E d \in docs : d.guid = rows[i].guid
    BY <2>3 DEF Updated
  <2> QED
    BY <2>2, <2>3
<1>3. PICK n \in Nat : rows \in [1..n -> Document]
  BY SeqDef
<1>4. Updated(rows, docs) = [i \in 1..n |-> Updated(rows, docs)[i]]
  BY <1>3 DEF Updated
<1>5. rows = [i \in 1..n |-> rows[i]]
  BY <1>3
<1> QED
  BY <1>2, <1>3, <1>4, <1>5

(***************************************************************************)
(* Types.                                                                  *)
(***************************************************************************)
\* Everything keeps its type.
LEMMA InitType == Init => TypeInv
<1> SUFFICES ASSUME Init
             PROVE  TypeInv
  OBVIOUS
<1>1. library \in [DOMAIN library -> SUBSET Tags] /\ DOMAIN library \subseteq Docs
  BY BoundsAssumption DEF Init
<1>2. << >> \in Seq(Document) /\ DOMAIN << >> = {}
  BY EmptySeq
<1>3. \A t \in tasks : t.do = "load"
  BY DEF Init, Reload, TaskType
<1>4. list = [state |-> "New", rows |-> << >>, shown |-> {}]
  BY DEF Init, NotLoaded
<1>5. criteria \in [query : BOOLEAN, tag : Tags \cup {None}]
  BY DEF Init
<1>6. descending \in BOOLEAN /\ filtering \in BOOLEAN /\ owed \in BOOLEAN /\ panicked \in BOOLEAN /\ apart \in BOOLEAN
          /\ whole \in BOOLEAN
  BY DEF Init
<1>7. cache = None /\ selected = {}
  BY DEF Init
<1>8. list \in [state : {"New", "Loading", "Loaded"}, rows : Seq(Document),
                shown : SUBSET Nat]
  BY <1>2, <1>4
<1>9. \A i, j \in DOMAIN list.rows : list.rows[i].guid = list.rows[j].guid => i = j
  BY <1>2, <1>4
<1> QED
  BY <1>1, <1>3, <1>5, <1>6, <1>7, <1>8, <1>9 DEF TypeInv, TaskType

\* What Start and FilterNow add are tasks of their types.
LEMMA StartType ==
    ASSUME TypeInv, NEW c, NEW l, NEW ts, Start(c, l, ts),
           \E n \in Nat : DOMAIN l.rows = 1..n
    PROVE  /\ filtering' \in BOOLEAN /\ owed' \in BOOLEAN
           /\ \A t \in tasks' : t \in ts \/ (t.do = "filtered" /\ t.shown \subseteq Nat)
<1>1. Filtered(c, l.rows) \subseteq Nat
  BY DEF Filtered
<1>2. CASE l.state = "Loaded" /\ ~filtering
  <2>1. \A t \in tasks' : t \in ts \/ t = [do |-> "filtered", shown |-> Filtered(c, l.rows)]
    BY <1>2 DEF Start
  <2>2. filtering' = TRUE /\ owed' = FALSE
    BY <1>2 DEF Start
  <2>3. ASSUME NEW t \in tasks', t \notin ts
        PROVE  t.do = "filtered" /\ t.shown \subseteq Nat
    <3>1. t.do = "filtered" /\ t.shown = Filtered(c, l.rows)
      BY <2>1, <2>3
    <3> QED
      BY <1>1, <3>1
  <2> QED
    BY <2>2, <2>3
<1>3. CASE ~(l.state = "Loaded" /\ ~filtering)
  <2>1. filtering' = filtering /\ owed' = (owed \/ l.state = "Loaded") /\ tasks' = ts
    BY <1>3 DEF Start
  <2> QED
    BY <2>1 DEF TypeInv
<1> QED
  BY <1>2, <1>3

LEMMA RowsDomain == ASSUME NEW s \in Seq(Document) PROVE \E n \in Nat : DOMAIN s = 1..n
  BY SeqDef

LEMMA SelectedIs ==
    ASSUME TypeInv
    PROVE  /\ SelectedDocuments \subseteq Document
           /\ \A d \in Document : d.guid \in Docs /\ d.tags \subseteq Tags
           /\ \A d \in Document, add \in BOOLEAN, tag \in Tags :
                  /\ Retagged(d, add, tag) \in Document
                  /\ Retagged(d, add, tag).guid = d.guid
                  /\ Retagged(d, add, tag).tags = IF add THEN d.tags \cup {tag} ELSE d.tags \ {tag}
<1>1. \A i \in DOMAIN list.rows : list.rows[i] \in Document
  BY DEF TypeInv
<1> QED
  BY <1>1 DEF SelectedDocuments, Range, Document, Retagged

LEMMA NotLoadedType ==
    ASSUME NEW state \in {"New", "Loading", "Loaded"}, list' = NotLoaded(state)
    PROVE  /\ list' \in [state : {"New", "Loading", "Loaded"}, rows : Seq(Document),
                         shown : SUBSET Nat]
           /\ DOMAIN list'.rows = {}
<1>1. << >> \in Seq(Document) /\ DOMAIN << >> = {}
  BY EmptySeq
<1> QED
  BY <1>1 DEF NotLoaded

\* The list that is shown when documents have arrived or been sorted.
LEMMA SortedType ==
    ASSUME NEW docs, Collection(docs), NEW down \in BOOLEAN, NEW shown,
           NEW state \in {"New", "Loading", "Loaded"},
           shown \subseteq 1..Cardinality(docs),
           list' = [state |-> state, rows |-> Sorted(docs, down), shown |-> shown]
    PROVE  /\ list' \in [state : {"New", "Loading", "Loaded"}, rows : Seq(Document),
                         shown : SUBSET Nat]
           /\ \A i, j \in DOMAIN list'.rows : list'.rows[i].guid = list'.rows[j].guid => i = j
<1>1. /\ Sorted(docs, down) \in Seq(docs)
      /\ \A i, j \in DOMAIN Sorted(docs, down) :
                  Sorted(docs, down)[i].guid = Sorted(docs, down)[j].guid => i = j
  BY SortedIsAll
<1>2. Sorted(docs, down) \in Seq(Document)
  BY <1>1, SeqDef DEF Collection
<1>3. shown \subseteq Nat
  OBVIOUS
<1> QED
  BY <1>1, <1>2, <1>3

LEMMA ListWith ==
    ASSUME TypeInv, NEW r, NEW s
    PROVE  [list EXCEPT !.rows = r, !.shown = s] = [state |-> list.state, rows |-> r, shown |-> s]
<1> USE DEF TypeInv
<1>1. [list EXCEPT !.rows = r, !.shown = s] = [[list EXCEPT !.rows = r] EXCEPT !.shown = s]
  OBVIOUS
<1>2. [list EXCEPT !.rows = r] = [state |-> list.state, rows |-> r, shown |-> list.shown]
  OBVIOUS
<1>3. [[state |-> list.state, rows |-> r, shown |-> list.shown] EXCEPT !.shown = s]
          = [state |-> list.state, rows |-> r, shown |-> s]
  OBVIOUS
<1> QED
  BY <1>1, <1>2, <1>3

LEMMA TypeStep == TypeInv /\ ShownInv /\ [Next]_vars => TypeInv'
<1> SUFFICES ASSUME TypeInv, ShownInv, [Next]_vars
             PROVE  TypeInv'
  OBVIOUS
<1> USE DEF bounds, filter
<1>0. \E n \in Nat : DOMAIN list.rows = 1..n
  BY RowsDomain DEF TypeInv
<1>1. CASE UNCHANGED vars
  BY <1>1 DEF vars, TypeInv
<1>2. ASSUME NEW t \in tasks, LoadArchive(t) PROVE TypeInv'
  <2>1. \A u \in tasks' : u \in tasks \/ u = [do |-> "fetch", n |-> t.n] \/ u = [do |-> "tags", n |-> t.n]
    BY <1>2 DEF LoadArchive
  <2>2. \A u \in tasks' : TaskType(u)
    BY <2>1 DEF TypeInv, TaskType
  <2>3. list' = NotLoaded("Loading")
    BY <1>2 DEF LoadArchive
  <2> QED
    BY <1>2, <2>2, <2>3, NotLoadedType DEF LoadArchive, Handle, TypeInv
<1>3. ASSUME NEW t \in tasks, DocumentsLoaded(t) PROVE TypeInv'
  <2>1. Collection(t.docs)
    BY <1>3 DEF DocumentsLoaded, TypeInv, TaskType
  <2>2. list' = [state |-> "Loaded", rows |-> Sorted(t.docs, descending),
                 shown |-> Filtered(criteria, Sorted(t.docs, descending))]
    BY <1>3 DEF DocumentsLoaded, LoadedList
  <2>3. Filtered(criteria, Sorted(t.docs, descending)) \subseteq 1..Cardinality(t.docs)
    BY <2>1, SortedIsAll DEF Filtered, TypeInv
  <2>4. /\ list' \in [state : {"New", "Loading", "Loaded"}, rows : Seq(Document),
                      shown : SUBSET Nat]
        /\ \A i, j \in DOMAIN list'.rows : list'.rows[i].guid = list'.rows[j].guid => i = j
    BY <2>1, <2>2, <2>3, SortedType DEF TypeInv
  <2>5. \A u \in tasks' : u \in tasks \/ u = [do |-> "prune"]
    BY <1>3 DEF DocumentsLoaded
  <2>6. \A u \in tasks' : TaskType(u)
    BY <2>5 DEF TypeInv, TaskType
  <2> QED
    BY <1>3, <2>4, <2>6 DEF DocumentsLoaded, Handle, TypeInv
<1>5. ASSUME NEW t \in tasks, TagsLoaded(t) PROVE TypeInv'
  <2>1. /\ filtering' \in BOOLEAN /\ owed' \in BOOLEAN /\ criteria' = criteria
        /\ \A u \in tasks' : u \in tasks \/ (u.do = "filtered" /\ u.shown \subseteq Nat)
    BY <1>0, <1>5, StartType DEF TagsLoaded, FilterNow, NotTimers
  <2>2. \A u \in tasks' : TaskType(u)
    BY <2>1 DEF TypeInv, TaskType
  <2> QED
    BY <1>5, <2>1, <2>2 DEF TagsLoaded, Handle, TypeInv
<1>6. ASSUME NEW t \in tasks, DebounceTimeout(t) PROVE TypeInv'
  <2>1. /\ filtering' \in BOOLEAN /\ owed' \in BOOLEAN /\ criteria' = criteria
        /\ \A u \in tasks' : u \in tasks \/ (u.do = "filtered" /\ u.shown \subseteq Nat)
    BY <1>0, <1>6, StartType DEF DebounceTimeout
  <2>2. \A u \in tasks' : TaskType(u)
    BY <2>1 DEF TypeInv, TaskType
  <2> QED
    BY <1>6, <2>1, <2>2 DEF DebounceTimeout, Handle, TypeInv
<1>7. ASSUME NEW t \in tasks, FilteringComplete(t) PROVE TypeInv'
  <2>1. t.shown \subseteq Nat /\ tasks' \subseteq tasks
    BY <1>7 DEF FilteringComplete, TypeInv, TaskType
  <2>2. /\ list' \in [state : {"New", "Loading", "Loaded"}, rows : Seq(Document),
                      shown : SUBSET Nat]
        /\ list'.rows = list.rows
        /\ panicked' \in BOOLEAN
    <3>1. CASE Loaded
      BY <1>7, <2>1, <3>1 DEF FilteringComplete, TypeInv
    <3>2. CASE ~Loaded
      BY <1>7, <3>2 DEF FilteringComplete, TypeInv
    <3> QED
      BY <3>1, <3>2
  <2> QED
    BY <1>7, <2>1, <2>2 DEF FilteringComplete, Handle, TypeInv
<1>8. ASSUME NEW t \in tasks, NEW docs, docs \subseteq Document, UpdateItems(t, docs), Handle(t)
      PROVE TypeInv'
  <2>1. tasks' \subseteq tasks
    BY <1>8 DEF UpdateItems
  <2>2. CASE Loaded
    <3>1. list' = [list EXCEPT !.rows = Updated(list.rows, docs)] /\ owed' = (owed \/ list' # list)
      BY <1>8, <2>2 DEF UpdateItems
    <3>2. list.rows \in Seq(Document)
      BY DEF TypeInv
    <3>3. /\ Updated(list.rows, docs) \in Seq(Document)
          /\ DOMAIN Updated(list.rows, docs) = DOMAIN list.rows
          /\ \A i \in DOMAIN list.rows : Updated(list.rows, docs)[i].guid = list.rows[i].guid
      BY <1>8, <3>2, UpdatedIs
    <3>4. /\ list' \in [state : {"New", "Loading", "Loaded"}, rows : Seq(Document),
                        shown : SUBSET Nat]
          /\ list'.rows = Updated(list.rows, docs)
      BY <3>1, <3>3 DEF TypeInv
    <3>5. \A i, j \in DOMAIN list'.rows : list'.rows[i].guid = list'.rows[j].guid => i = j
      BY <3>3, <3>4 DEF TypeInv
    <3>6. owed' \in BOOLEAN
      BY <3>1 DEF TypeInv
    <3> QED
      BY <1>8, <2>1, <3>4, <3>5, <3>6 DEF UpdateItems, Handle, TypeInv
  <2>3. CASE ~Loaded
    BY <1>8, <2>1, <2>3 DEF UpdateItems, Handle, TypeInv
  <2> QED
    BY <2>2, <2>3
<1>9. ASSUME NEW t \in tasks, RefreshDocument(t) PROVE TypeInv'
  BY <1>8, <1>9 DEF RefreshDocument, TypeInv, TaskType
<1>10. ASSUME NEW t \in tasks, BatchTagsApplied(t) PROVE TypeInv'
  BY <1>8, <1>10 DEF BatchTagsApplied, TypeInv, TaskType
<1>11. ASSUME NEW t \in tasks, FilterSelectedDocuments(t) PROVE TypeInv'
  <2>1. tasks' \subseteq tasks /\ selected' \subseteq Docs
    BY <1>11 DEF FilterSelectedDocuments, Pruned, TypeInv
  <2> QED
    BY <1>11, <2>1 DEF FilterSelectedDocuments, Handle, TypeInv
<1>12. ASSUME NEW t \in tasks, MergeCompleted(t) PROVE TypeInv'
  <2>1. \A u \in tasks' : u \in tasks \/ u.do = "load"
    BY <1>12 DEF MergeCompleted, Reload
  <2>2. \A u \in tasks' : TaskType(u)
    BY <2>1 DEF TypeInv, TaskType
  <2> QED
    BY <1>12, <2>2 DEF MergeCompleted, Handle, TypeInv
<1>13. ASSUME NEW t \in tasks, Fetch(t) PROVE TypeInv'
  <2>1. /\ \A u \in tasks' : \/ u \in tasks
                             \/ u = [do |-> "loaded", n |-> t.n, docs |-> cache'] /\ Collection(cache')
        /\ cache' = None \/ Collection(cache')
    <3>1. cache' = None \/ Collection(cache')
      BY <1>13, StoredIs DEF Fetch, TypeInv, Collection
    <3>2. cache' # None
      BY <1>13, StoredIs, NoneAssumption DEF Fetch, Collection, Document
    <3> QED
      BY <1>13, <3>1, <3>2 DEF Fetch
  <2>2. \A u \in tasks' : TaskType(u)
    BY <2>1 DEF TypeInv, TaskType
  <2> QED
    BY <1>13, <2>1, <2>2 DEF Fetch, Aggregated, TypeInv
<1>14. ASSUME NEW t \in tasks, BatchDocument(t) PROVE TypeInv'
  <2>1. t \in Batches
    BY <1>14 DEF BatchDocument, TypeInv, TaskType
  <2>2. PICK g \in t.left :
           /\ tasks' = (tasks \ {t}) \cup {[t EXCEPT !.left = @ \ {g}]}
           /\ \/ /\ g \in DOMAIN library
                 /\ library' = [library EXCEPT ![g] = IF t.add THEN @ \cup {t.tag} ELSE @ \ {t.tag}]
                 /\ UNCHANGED <<bounds, apart>>
              \/ /\ IF g \in DOMAIN library THEN Fail ELSE UNCHANGED bounds
                 /\ apart' = FALSE
                 /\ UNCHANGED library
    BY <1>14 DEF BatchDocument
  <2>3. \A u \in tasks' : TaskType(u)
    <3>1. [t EXCEPT !.left = @ \ {g}] \in Batches
      BY <2>1 DEF Batches
    <3>2. [t EXCEPT !.left = @ \ {g}].do = "batch"
      BY <3>1 DEF Batches
    <3> QED
      BY <2>2, <3>1, <3>2 DEF TypeInv, TaskType
  <2>4. library' \in [DOMAIN library' -> SUBSET Tags] /\ DOMAIN library' \subseteq Docs
    BY <2>1, <2>2 DEF TypeInv, Batches
  <2>5. apart' \in BOOLEAN
    BY <2>2 DEF TypeInv
  <2> QED
    BY <1>14, <2>3, <2>4, <2>5 DEF BatchDocument, TypeInv
<1>15. ASSUME NEW t \in tasks, BatchDone(t) PROVE TypeInv'
  <2>1. /\ cache' = None /\ whole' = whole
        /\ \A u \in tasks' : u \in tasks \/ u = [do |-> "applied", docs |-> t.docs] \/ u.do = "load"
    BY <1>15 DEF BatchDone, Finish, Expire, Reload
  <2>2. t \in Batches
    BY <1>15 DEF BatchDone, TypeInv, TaskType
  <2>3. \A u \in tasks' : TaskType(u)
    BY <2>1, <2>2 DEF TypeInv, TaskType, Batches
  <2> QED
    BY <1>15, <2>1, <2>3 DEF BatchDone, Finish, TypeInv
<1>16. ASSUME NEW t \in tasks, MergeDocuments(t) PROVE TypeInv'
  <2>1. /\ cache' = None /\ whole' = whole
        /\ \A u \in tasks' : u \in tasks \/ u = [do |-> "merged"] \/ u.do = "load"
    BY <1>16 DEF MergeDocuments, Finish, Expire, Reload
  <2>2. \A u \in tasks' : TaskType(u)
    BY <2>1 DEF TypeInv, TaskType
  <2>3. /\ Merged(t.winner, t.losers) \in [DOMAIN Merged(t.winner, t.losers) -> SUBSET Tags]
        /\ DOMAIN Merged(t.winner, t.losers) \subseteq Docs
    <3>1. CASE t.winner \notin DOMAIN library
      BY <3>1 DEF Merged, TypeInv
    <3>2. CASE t.winner \in DOMAIN library
      <4>1. UNION {library[h] : h \in ({t.winner} \cup t.losers) \cap DOMAIN library} \subseteq Tags
        BY DEF TypeInv
      <4> DEFINE m == [g \in DOMAIN library \ t.losers |->
             IF g = t.winner
             THEN UNION {library[h] : h \in ({t.winner} \cup t.losers) \cap DOMAIN library}
             ELSE library[g]]
      <4>2. m \in [DOMAIN library \ t.losers -> SUBSET Tags]
        BY <4>1 DEF TypeInv
      <4>3. Merged(t.winner, t.losers) = m
        BY <3>2 DEF Merged
      <4>4. DOMAIN library \ t.losers \subseteq Docs
        BY DEF TypeInv
      <4> QED
        BY <4>2, <4>3, <4>4
    <3> QED
      BY <3>1, <3>2
  <2>4. /\ library' \in [DOMAIN library' -> SUBSET Tags] /\ DOMAIN library' \subseteq Docs
        /\ apart' \in BOOLEAN
    <3>1. CASE library' = Merged(t.winner, t.losers) /\ UNCHANGED <<bounds, apart>>
      BY <2>3, <3>1 DEF TypeInv
    <3>2. CASE apart' = FALSE /\ UNCHANGED library
      BY <3>2 DEF TypeInv
    <3> QED
      BY <1>16, <3>1, <3>2 DEF MergeDocuments
  <2> QED
    BY <1>16, <2>1, <2>2, <2>4 DEF MergeDocuments, Finish, TypeInv
<1>17. ASSUME NEW t \in tasks, EditDone(t) PROVE TypeInv'
  <2>1. /\ cache' = None /\ whole' = whole
        /\ \A u \in tasks' : u \in tasks \/ u = [do |-> "read", guid |-> t.guid] \/ u.do = "load"
    BY <1>17 DEF EditDone, Finish, Expire, Reload
  <2>2. \A u \in tasks' : TaskType(u)
    BY <2>1 DEF TypeInv, TaskType
  <2> QED
    BY <1>17, <2>1, <2>2 DEF EditDone, Finish, TypeInv
<1>18. ASSUME NEW t \in tasks, ReadDocument(t) PROVE TypeInv'
  <2>1. Stored \subseteq Document
    BY StoredIs DEF Collection
  <2>2. \A u \in tasks' : u \in tasks \/ \E d \in Document : u = [do |-> "item", doc |-> d]
    BY <1>18, <2>1 DEF ReadDocument
  <2>3. \A u \in tasks' : TaskType(u)
    BY <2>1, <2>2 DEF TypeInv, TaskType
  <2> QED
    BY <1>18, <2>3 DEF ReadDocument, TypeInv
<1>19. ASSUME NEW query \in BOOLEAN, SearchChanged(query) PROVE TypeInv'
  <2>1. \A u \in tasks' : u \in tasks \/ u = [do |-> "timer", query |-> query]
    BY <1>19 DEF SearchChanged, NotTimers
  <2>2. \A u \in tasks' : TaskType(u)
    BY <2>1 DEF TypeInv, TaskType
  <2> QED
    BY <1>19, <2>2 DEF SearchChanged, Act, TypeInv
<1>20. ASSUME NEW c \in [query : BOOLEAN, tag : Tags \cup {None}], Act, FilterNow(c, list, {}),
              UNCHANGED <<list, descending, selected, dialog>>
       PROVE TypeInv'
  <2>1. /\ filtering' \in BOOLEAN /\ owed' \in BOOLEAN /\ criteria' = c
        /\ \A u \in tasks' : u \in tasks \/ (u.do = "filtered" /\ u.shown \subseteq Nat)
    BY <1>0, <1>20, StartType DEF FilterNow, NotTimers
  <2>2. \A u \in tasks' : TaskType(u)
    BY <2>1 DEF TypeInv, TaskType
  <2> QED
    BY <1>20, <2>1, <2>2 DEF Act, TypeInv
<1>21. CASE ClearSearch
  <2>1. [criteria EXCEPT !.query = FALSE] \in [query : BOOLEAN, tag : Tags \cup {None}]
    BY DEF TypeInv
  <2> QED
    BY <1>20, <1>21, <2>1 DEF ClearSearch
<1>22. ASSUME NEW tag \in Tags \cup {None}, FilterChanged(tag) PROVE TypeInv'
  <2>1. [criteria EXCEPT !.tag = tag] \in [query : BOOLEAN, tag : Tags \cup {None}]
    BY DEF TypeInv
  <2> QED
    BY <1>20, <1>22, <2>1 DEF FilterChanged
<1>23. CASE ToggleSortDirection
  <2>1. CASE ~Loaded
    BY <1>23, <2>1 DEF ToggleSortDirection, Act, TypeInv
  <2>2. CASE Loaded
    <3> DEFINE l == [list EXCEPT !.rows = Sorted(Range(@), descending'), !.shown = DOMAIN list.rows]
    <3>1. list' = l /\ FilterNow(criteria, l, {}) /\ descending' \in BOOLEAN /\ selected' = selected
      BY <1>23, <2>2 DEF ToggleSortDirection, SortNow, TypeInv
    <3>2. Collection(Range(list.rows)) /\ DOMAIN Sorted(Range(list.rows), descending') = DOMAIN list.rows
      BY <3>1, RowsSorted DEF TypeInv
    <3>3. DOMAIN list.rows = 1..Cardinality(Range(list.rows))
      BY <3>1, <3>2, SortedIsAll
    <3>4. l = [state |-> list.state, rows |-> Sorted(Range(list.rows), descending'),
               shown |-> DOMAIN list.rows]
      BY ListWith
    <3>9. list.state \in {"New", "Loading", "Loaded"}
      BY DEF TypeInv
    <3> HIDE DEF l
    <3>5. /\ list' \in [state : {"New", "Loading", "Loaded"}, rows : Seq(Document),
                        shown : SUBSET Nat]
          /\ \A i, j \in DOMAIN list'.rows : list'.rows[i].guid = list'.rows[j].guid => i = j
      BY <3>1, <3>2, <3>3, <3>4, <3>9, SortedType
    <3>6. \E n \in Nat : DOMAIN l.rows = 1..n
      BY <1>0, <3>2, <3>4
    <3>7. /\ filtering' \in BOOLEAN /\ owed' \in BOOLEAN /\ criteria' = criteria
          /\ \A u \in tasks' : u \in tasks \/ (u.do = "filtered" /\ u.shown \subseteq Nat)
      <4>1. Start(criteria, l, NotTimers \ {}) /\ criteria' = criteria
        BY <3>1 DEF FilterNow
      <4>2. \A u \in tasks' : u \in NotTimers \ {} \/ (u.do = "filtered" /\ u.shown \subseteq Nat)
        BY <3>6, <4>1, StartType
      <4> QED
        BY <3>6, <4>1, <4>2, StartType DEF NotTimers
    <3>8. \A u \in tasks' : TaskType(u)
      BY <3>7 DEF TypeInv, TaskType
    <3> QED
      BY <1>23, <3>1, <3>5, <3>7, <3>8 DEF ToggleSortDirection, Act, TypeInv
  <2> QED
    BY <2>1, <2>2
<1>24. ASSUME NEW g \in Docs, ToggleDocumentSelected(g) PROVE TypeInv'
  BY <1>24 DEF ToggleDocumentSelected, Act, TypeInv
<1>25. ASSUME NEW all \in BOOLEAN, ToggleAllSelected(all) PROVE TypeInv'
  <2>1. \A d \in Shown : d.guid \in Docs
    <3>1. list.shown \subseteq DOMAIN list.rows
      BY <1>25 DEF ToggleAllSelected, Act, ShownInv
    <3>2. \A i \in DOMAIN list.rows : list.rows[i] \in Document
      BY DEF TypeInv
    <3> QED
      BY <3>1, <3>2 DEF Shown, Document
  <2>2. selected' \subseteq Docs
    BY <1>25, <2>1 DEF ToggleAllSelected, TypeInv
  <2> QED
    BY <1>25, <2>2 DEF ToggleAllSelected, Act, TypeInv
<1>26. CASE OpenMergeDialog \/ CancelMerge \/ \E g \in Docs : MergeWinnerSelected(g)
  BY <1>26 DEF OpenMergeDialog, CancelMerge, MergeWinnerSelected, Act, Click, TypeInv
<1>27. ASSUME NEW add \in BOOLEAN, NEW tag \in Tags, BatchTags(add, tag) PROVE TypeInv'
  <2>1. \A u \in tasks' : u \in tasks \/
          u = [do |-> "batch", add |-> add, tag |-> tag,
               left |-> {d.guid : d \in SelectedDocuments},
               docs |-> {Retagged(d, add, tag) : d \in SelectedDocuments}]
    BY <1>27 DEF BatchTags
  <2>2. /\ {d.guid : d \in SelectedDocuments} \subseteq Docs
        /\ {Retagged(d, add, tag) : d \in SelectedDocuments} \subseteq Document
    <3>1. \A d \in SelectedDocuments : d.guid \in Docs /\ Retagged(d, add, tag) \in Document
      BY SelectedIs
    <3> QED
      BY <3>1
  <2>3. \A u \in tasks' : TaskType(u)
    BY <2>1, <2>2 DEF TypeInv, TaskType, Batches
  <2>4. apart' \in BOOLEAN
    BY <1>27 DEF BatchTags, Change, TypeInv
  <2> QED
    BY <1>27, <2>3, <2>4 DEF BatchTags, Change, TypeInv
<1>28. CASE ConfirmMerge
  <2>1. \A u \in tasks' : u \in tasks \/ u.do = "merge"
    BY <1>28 DEF ConfirmMerge
  <2>2. \A u \in tasks' : TaskType(u)
    BY <2>1 DEF TypeInv, TaskType
  <2>3. apart' \in BOOLEAN
    BY <1>28 DEF ConfirmMerge, Change, TypeInv
  <2> QED
    BY <1>28, <2>2, <2>3 DEF ConfirmMerge, Change, TypeInv
<1>29. ASSUME NEW g \in Docs, NEW tags \in SUBSET Tags, Edit(g, tags) \/ RemoveDocument(g)
       PROVE TypeInv'
  <2>1. \A u \in tasks' : u \in tasks \/ u = [do |-> "expire", guid |-> g]
    BY <1>29 DEF Edit, RemoveDocument
  <2>2. \A u \in tasks' : TaskType(u)
    BY <2>1 DEF TypeInv, TaskType
  <2>3. apart' \in BOOLEAN /\ panicked' = panicked
    BY <1>29 DEF Edit, RemoveDocument, Change, TypeInv
  <2>4. library' \in [DOMAIN library' -> SUBSET Tags] /\ DOMAIN library' \subseteq Docs
    BY <1>29 DEF Edit, RemoveDocument, TypeInv
  <2>5. UNCHANGED <<known, list, criteria, filtering, owed, descending, selected, dialog>>
    BY <1>29 DEF Edit, RemoveDocument
  <2> QED
    BY <2>2, <2>3, <2>4, <2>5 DEF TypeInv
<1>30. CASE Runs
  BY <1>2, <1>3, <1>5, <1>6, <1>7, <1>9, <1>10, <1>11, <1>12, <1>13, <1>14, <1>15, <1>16,
     <1>17, <1>18, <1>30 DEF Runs, Message, Work
<1>31. CASE Uses
  BY <1>19, <1>21, <1>22, <1>23, <1>24, <1>25, <1>26, <1>31 DEF Uses
<1>32. CASE Changes
  BY <1>27, <1>28, <1>29, <1>32 DEF Changes
<1> QED
  BY <1>1, <1>30, <1>31, <1>32 DEF Next

(***************************************************************************)
(* What is shown.                                                          *)
(***************************************************************************)
\* What is shown is in the list.
LEMMA ShownStep == TypeInv /\ ShownInv /\ [Next]_vars => ShownInv'
<1> SUFFICES ASSUME TypeInv, ShownInv, [Next]_vars
             PROVE  ShownInv'
  OBVIOUS
<1> USE DEF ShownInv, Loaded
<1>1. CASE UNCHANGED <<list, panicked>>
  BY <1>1
<1>2. ASSUME NEW state \in {"New", "Loading", "Loaded"}, list' = NotLoaded(state)
      PROVE  ShownInv'
  BY <1>2, EmptySeq DEF NotLoaded
<1>3. ASSUME NEW t \in tasks, DocumentsLoaded(t) PROVE ShownInv'
  BY <1>3 DEF DocumentsLoaded, LoadedList, Filtered
<1>4. ASSUME NEW t \in tasks, FilteringComplete(t) PROVE ShownInv'
  <2>1. CASE Loaded
    <3>1. list' = [list EXCEPT !.shown = t.shown] /\ panicked' = ~(t.shown \subseteq DOMAIN list.rows)
      BY <1>4, <2>1 DEF FilteringComplete
    <3>2. list'.shown = t.shown /\ list'.rows = list.rows /\ list'.state = list.state
      BY <3>1 DEF TypeInv
    <3> QED
      BY <2>1, <3>1, <3>2
  <2>2. CASE ~Loaded
    BY <1>1, <1>4, <2>2 DEF FilteringComplete
  <2> QED
    BY <2>1, <2>2
<1>5. ASSUME NEW t, NEW docs, docs \subseteq Document, UpdateItems(t, docs) PROVE ShownInv'
  <2>1. CASE Loaded
    <3>1. list' = [list EXCEPT !.rows = Updated(list.rows, docs)] /\ panicked' = panicked
      BY <1>5, <2>1 DEF UpdateItems
    <3>2. DOMAIN Updated(list.rows, docs) = DOMAIN list.rows
      BY DEF Updated
    <3>3. list'.shown = list.shown /\ list'.rows = Updated(list.rows, docs) /\ list'.state = list.state
      BY <3>1 DEF TypeInv
    <3> QED
      BY <2>1, <3>1, <3>2, <3>3
  <2>2. CASE ~Loaded
    BY <1>1, <1>5, <2>2 DEF UpdateItems
  <2> QED
    BY <2>1, <2>2
<1>6. CASE ToggleSortDirection /\ Loaded
  <2>1. list' = [list EXCEPT !.rows = Sorted(Range(list.rows), descending'), !.shown = DOMAIN list.rows]
    BY <1>6 DEF ToggleSortDirection, SortNow
  <2>2. list' = [state |-> list.state, rows |-> Sorted(Range(list.rows), descending'),
                 shown |-> DOMAIN list.rows]
    BY <2>1, ListWith
  <2>3. descending' \in BOOLEAN
    BY <1>6 DEF ToggleSortDirection
  <2>4. DOMAIN Sorted(Range(list.rows), descending') = DOMAIN list.rows
    BY <2>3, RowsSorted DEF TypeInv
  <2> QED
    BY <1>6, <2>2, <2>4
<1>7. CASE Runs
  <2>1. PICK t \in tasks : Message(t) \/ Work(t)
    BY <1>7 DEF Runs
  <2>2. CASE LoadArchive(t)
    BY <1>2, <2>2 DEF LoadArchive
  <2>3. CASE RefreshDocument(t) \/ BatchTagsApplied(t)
    BY <1>5, <2>1, <2>3 DEF RefreshDocument, BatchTagsApplied, TypeInv, TaskType
  <2>4. CASE TagsLoaded(t) \/ DebounceTimeout(t) \/ FilterSelectedDocuments(t) \/ MergeCompleted(t)
    BY <1>1, <2>4 DEF TagsLoaded, DebounceTimeout, FilterSelectedDocuments, MergeCompleted
  <2>5. CASE Work(t)
    BY <1>1, <2>5 DEF Work, Fetch, BatchDocument, BatchDone, MergeDocuments, EditDone, ReadDocument,
                      Finish
  <2> QED
    BY <1>3, <1>4, <2>1, <2>2, <2>3, <2>4, <2>5 DEF Message
<1>8. CASE Uses
  BY <1>1, <1>6, <1>8 DEF Uses, SearchChanged, ClearSearch, FilterChanged, ToggleDocumentSelected,
     MergeWinnerSelected, ToggleAllSelected, OpenMergeDialog, CancelMerge, ToggleSortDirection, Act, Click
<1>9. CASE Changes
  BY <1>1, <1>9 DEF Changes, BatchTags, ConfirmMerge, Edit, RemoveDocument, Change
<1> QED
  BY <1>1, <1>7, <1>8, <1>9 DEF Next, vars

(***************************************************************************)
(* Filters.                                                                *)
(***************************************************************************)
\* What is filtered is what matches.

\* A step that has nothing to do with filters.
LEMMA NoFilter ==
    ASSUME FilterInv, UNCHANGED <<list, filter, panicked>>,
           \A t : t.do \in {"filtered", "timer"} => (t \in tasks' <=> t \in tasks)
    PROVE  FilterInv'
  BY DEF FilterInv, filter, Pending, Loaded, Filtered, Matches

\* A list that is not shown.
LEMMA NotShown ==
    ASSUME FilterInv, list' = NotLoaded("Loading"),
           UNCHANGED <<filter, panicked>>,
           \A t : t.do \in {"filtered", "timer"} => (t \in tasks' <=> t \in tasks)
    PROVE  FilterInv'
<1>1. ~Loaded'
  BY DEF Loaded, NotLoaded
<1> QED
  BY <1>1 DEF FilterInv, filter, Pending

\* A filter by what is asked for, which takes all timers from the tasks.
LEMMA FilterStarted ==
    ASSUME FilterInv, ~panicked, ~panicked', NEW ts, Start(criteria', list', ts),
           list'.state = list.state, TypeInv,
           \A t \in ts : t \in tasks /\ t.do # "timer",
           \A t \in tasks : t.do = "filtered" => t \in ts
    PROVE  FilterInv'
<1>1. CASE Loaded' /\ ~filtering
  <2> DEFINE f == [do |-> "filtered", shown |-> Filtered(criteria', list'.rows)]
  <2>1. filtering' /\ tasks' = ts \cup {f}
    BY <1>1 DEF Start, Loaded
  <2>2. \A t \in ts : t.do # "filtered"
    BY <1>1 DEF FilterInv, Pending
  <2>3. f.do = "filtered" /\ f.shown = Filtered(criteria', list'.rows) /\ f \in tasks'
    BY <2>1
  <2>4. \A t \in tasks' : t.do = "filtered" => t = f
    BY <2>1, <2>2
  <2>5. \A t \in tasks' : t.do # "timer"
    BY <2>1, <2>3
  <2>6. f.shown \subseteq DOMAIN list'.rows
    BY <2>3 DEF Filtered
  <2> HIDE DEF f
  <2>7. Pending({"filtered"})' /\ ~Pending({"timer"})'
    BY <2>3, <2>5 DEF Pending
  <2>8. Filtered(criteria, list.rows)' = Filtered(criteria', list'.rows)
    BY DEF Filtered, Matches
  <2> QED
    BY <2>1, <2>3, <2>4, <2>5, <2>6, <2>7, <2>8 DEF FilterInv
<1>2. CASE ~(Loaded' /\ ~filtering)
  <2>1. tasks' = ts /\ filtering' = filtering /\ owed' = (owed \/ Loaded')
    BY <1>2 DEF Start, Loaded
  <2>2. Pending({"filtered"})' <=> Pending({"filtered"})
    BY <2>1 DEF Pending
  <2>3. ~Loaded' \/ owed'
    BY <2>1
  <2> QED
    BY <2>1, <2>2, <2>3 DEF FilterInv
<1> QED
  BY <1>1, <1>2

\* There is one timer.
LEMMA OneTimer ==
    ASSUME FilterInv, NEW t \in tasks, t.do = "timer"
    PROVE  /\ t.query = criteria.query
           /\ \A u \in tasks \ {t} : u.do # "timer"
  BY DEF FilterInv

LEMMA InitFilter == Init => FilterInv
<1> SUFFICES ASSUME Init
             PROVE  FilterInv
  OBVIOUS
<1>1. \A t \in tasks : t.do = "load"
  BY DEF Init, Reload
<1> QED
  BY <1>1 DEF Init, FilterInv, Pending, Loaded, NotLoaded

LEMMA FilterStep == TypeInv /\ FilterInv /\ [Next]_vars => FilterInv'
<1> SUFFICES ASSUME TypeInv, FilterInv, [Next]_vars
             PROVE  FilterInv'
  OBVIOUS
<1>1. CASE UNCHANGED vars
  BY <1>1, NoFilter DEF vars
<1>2. ASSUME NEW t \in tasks, LoadArchive(t) PROVE FilterInv'
  <2>1. \A u : u.do \in {"filtered", "timer"} => (u \in tasks' <=> u \in tasks)
    BY <1>2 DEF LoadArchive
  <2> QED
    BY <1>2, <2>1, NotShown DEF LoadArchive
<1>3. ASSUME NEW t \in tasks, DocumentsLoaded(t) PROVE FilterInv'
  <2>1. \A u : u.do \in {"filtered", "timer"} => (u \in tasks' <=> u \in tasks)
    BY <1>3 DEF DocumentsLoaded
  <2>2. /\ UNCHANGED <<criteria, filtering, panicked>> /\ owed' = filtering /\ ~panicked
        /\ list'.shown = Filtered(criteria, list'.rows)
    BY <1>3 DEF DocumentsLoaded, LoadedList, Handle
  <2>3. Filtered(criteria, list.rows)' = Filtered(criteria, list'.rows)
    BY <2>2 DEF Filtered, Matches
  <2>4. \A kind \in {"filtered", "timer"} : Pending({kind})' <=> Pending({kind})
    BY <2>1 DEF Pending
  <2> QED
    BY <2>1, <2>2, <2>3, <2>4 DEF FilterInv, Pending
<1>4. ASSUME NEW t \in tasks, TagsLoaded(t) PROVE FilterInv'
  <2>1. /\ ~panicked /\ UNCHANGED <<list, panicked>>
        /\ criteria' = criteria /\ Start(criteria', list', NotTimers \ {t}) /\ t.do = "tags"
    BY <1>4 DEF TagsLoaded, FilterNow, Handle
  <2>2. \A u \in NotTimers \ {t} : u \in tasks /\ u.do # "timer"
    BY DEF NotTimers
  <2>3. \A u \in tasks : u.do = "filtered" => u \in NotTimers \ {t}
    BY <2>1 DEF NotTimers
  <2> QED
    BY <2>1, <2>2, <2>3, FilterStarted
<1>5. ASSUME NEW t \in tasks, DebounceTimeout(t) PROVE FilterInv'
  <2>1. /\ ~panicked /\ UNCHANGED <<criteria, list, panicked>> /\ t.do = "timer"
        /\ Start([criteria EXCEPT !.query = t.query], list, tasks \ {t})
    BY <1>5 DEF DebounceTimeout, Handle
  <2>2. [criteria EXCEPT !.query = t.query] = criteria
    BY <2>1, OneTimer DEF TypeInv
  <2>3. Start(criteria', list', tasks \ {t})
    BY <2>1, <2>2
  <2>4. /\ \A u \in tasks \ {t} : u \in tasks /\ u.do # "timer"
        /\ \A u \in tasks : u.do = "filtered" => u \in tasks \ {t}
    BY <2>1, OneTimer
  <2> QED
    BY <2>1, <2>3, <2>4, FilterStarted
<1>6. ASSUME NEW t \in tasks, FilteringComplete(t) PROVE FilterInv'
  <2>1. /\ ~panicked /\ t.do = "filtered" /\ ~filtering' /\ tasks' = tasks \ {t}
        /\ UNCHANGED <<criteria, owed>>
    BY <1>6 DEF FilteringComplete, Handle
  <2>2. \A u \in tasks' : u \in tasks /\ u.do # "filtered"
    BY <2>1 DEF FilterInv
  <2>3. ~Pending({"filtered"})' /\ (Pending({"timer"})' <=> Pending({"timer"}))
    BY <2>1, <2>2 DEF Pending
  <2>4. CASE ~Loaded
    <3>1. UNCHANGED <<list, panicked>>
      BY <1>6, <2>4 DEF FilteringComplete
    <3> QED
      BY <2>1, <2>2, <2>3, <2>4, <3>1 DEF FilterInv, Loaded
  <2>5. CASE Loaded
    <3>1. list' = [list EXCEPT !.shown = t.shown] /\ panicked' = ~(t.shown \subseteq DOMAIN list.rows)
      BY <1>6, <2>5 DEF FilteringComplete
    <3>2. list'.shown = t.shown /\ list'.rows = list.rows
      BY <3>1 DEF TypeInv
    <3>3. Filtered(criteria, list.rows)' = Filtered(criteria, list.rows)
      BY <2>1, <3>2 DEF Filtered, Matches
    <3>4. ~owed => ~panicked' /\ (~Pending({"timer"}) => t.shown = Filtered(criteria, list.rows))
      BY <2>1, <2>5, <3>1 DEF FilterInv
    <3> QED
      BY <2>1, <2>2, <2>3, <3>2, <3>3, <3>4 DEF FilterInv
  <2> QED
    BY <2>4, <2>5
<1>7. ASSUME NEW t \in tasks, NEW docs, UpdateItems(t, docs), t.do \in {"item", "applied"}, Handle(t)
      PROVE FilterInv'
  <2>1. \A u : u.do \in {"filtered", "timer"} => (u \in tasks' <=> u \in tasks)
    BY <1>7 DEF UpdateItems
  <2>2. /\ UNCHANGED <<criteria, filtering, panicked>> /\ ~panicked
        /\ UNCHANGED <<list, owed>> \/ (owed' = (owed \/ list' # list))
    BY <1>7 DEF UpdateItems, Handle
  <2>3. CASE owed'
    <3>1. \A kind \in {"filtered", "timer"} : Pending({kind})' <=> Pending({kind})
      BY <2>1 DEF Pending
    <3> QED
      BY <2>1, <2>2, <2>3, <3>1 DEF FilterInv
  <2>4. CASE ~owed'
    <3>1. UNCHANGED <<list, owed>>
      BY <2>2, <2>4 DEF TypeInv
    <3> QED
      BY <2>1, <2>2, <3>1, NoFilter DEF filter
  <2> QED
    BY <2>3, <2>4
<1>8. ASSUME NEW t \in tasks, RefreshDocument(t) \/ BatchTagsApplied(t) PROVE FilterInv'
  BY <1>7, <1>8 DEF RefreshDocument, BatchTagsApplied
<1>9. ASSUME NEW t \in tasks, FilterSelectedDocuments(t) \/ MergeCompleted(t) PROVE FilterInv'
  <2>1. \A u : u.do \in {"filtered", "timer"} => (u \in tasks' <=> u \in tasks)
    BY <1>9 DEF FilterSelectedDocuments, MergeCompleted, Reload
  <2> QED
    BY <1>9, <2>1, NoFilter DEF FilterSelectedDocuments, MergeCompleted
<1>10. ASSUME NEW t \in tasks, Work(t) PROVE FilterInv'
  <2>1. UNCHANGED <<list, filter, panicked>>
    BY <1>10 DEF Work, Fetch, BatchDocument, BatchDone, MergeDocuments, EditDone, ReadDocument, Finish
  <2>2. \A u : u.do \in {"filtered", "timer"} => (u \in tasks' <=> u \in tasks)
    <3>1. CASE BatchDocument(t)
      <4>1. t \in Batches
        BY <3>1 DEF BatchDocument, TypeInv, TaskType
      <4>2. PICK g : tasks' = (tasks \ {t}) \cup {[t EXCEPT !.left = @ \ {g}]}
        BY <3>1 DEF BatchDocument
      <4> QED
        BY <4>1, <4>2 DEF Batches
    <3>2. CASE Fetch(t)
      BY <3>2 DEF Fetch
    <3>3. CASE BatchDone(t)
      BY <3>3 DEF BatchDone, Finish, Expire, Reload
    <3>4. CASE MergeDocuments(t)
      BY <3>4 DEF MergeDocuments, Finish, Expire, Reload
    <3>5. CASE EditDone(t)
      BY <3>5 DEF EditDone, Finish, Expire, Reload
    <3>6. CASE ReadDocument(t)
      BY <3>6 DEF ReadDocument
    <3> QED
      BY <1>10, <3>1, <3>2, <3>3, <3>4, <3>5, <3>6 DEF Work
  <2> QED
    BY <2>1, <2>2, NoFilter
<1>11. ASSUME NEW query \in BOOLEAN, SearchChanged(query) PROVE FilterInv'
  <2>1. /\ ~panicked /\ UNCHANGED <<list, filtering, owed, panicked>>
        /\ criteria' = [criteria EXCEPT !.query = query]
        /\ tasks' = NotTimers \cup (IF Loaded THEN {[do |-> "timer", query |-> query]} ELSE {})
    BY <1>11 DEF SearchChanged, Act
  <2>2. \A u : u.do = "filtered" => (u \in tasks' <=> u \in tasks)
    BY <2>1 DEF NotTimers
  <2>3. \A u \in tasks' : u.do = "timer" => u = [do |-> "timer", query |-> query]
    BY <2>1 DEF NotTimers
  <2>4. criteria'.query = query
    BY <2>1 DEF TypeInv
  <2>5. Pending({"filtered"})' <=> Pending({"filtered"})
    BY <2>2 DEF Pending
  <2>6. Loaded' => Loaded /\ Pending({"timer"})'
    <3>1. Loaded => [do |-> "timer", query |-> query] \in tasks'
      BY <2>1
    <3>2. [do |-> "timer", query |-> query].do = "timer"
      OBVIOUS
    <3>3. Loaded => Pending({"timer"})'
      BY <3>1, <3>2 DEF Pending
    <3> QED
      BY <2>1, <3>3 DEF Loaded
  <2> QED
    BY <2>1, <2>2, <2>3, <2>4, <2>5, <2>6 DEF FilterInv
<1>12. ASSUME NEW c, Act, FilterNow(c, list', {}), list'.state = list.state
       PROVE FilterInv'
  <2>1. ~panicked /\ ~panicked' /\ Start(criteria', list', NotTimers)
    BY <1>12 DEF Act, FilterNow
  <2>2. /\ \A u \in NotTimers : u \in tasks /\ u.do # "timer"
        /\ \A u \in tasks : u.do = "filtered" => u \in NotTimers
    BY DEF NotTimers
  <2> QED
    BY <1>12, <2>1, <2>2, FilterStarted
<1>13. CASE ToggleSortDirection
  <2>1. CASE Loaded
    <3>1. list' = [state |-> list.state, rows |-> Sorted(Range(list.rows), descending'),
                   shown |-> DOMAIN list.rows]
      BY <1>13, <2>1, ListWith DEF ToggleSortDirection, SortNow
    <3>2. Act /\ FilterNow(criteria, list', {})
      BY <1>13, <2>1 DEF ToggleSortDirection, SortNow
    <3> QED
      BY <1>12, <3>1, <3>2
  <2>2. CASE ~Loaded
    BY <1>13, <2>2, NoFilter DEF ToggleSortDirection, Act
  <2> QED
    BY <2>1, <2>2
<1>14. CASE ClearSearch \/ \E tag \in Tags \cup {None} : FilterChanged(tag)
  BY <1>12, <1>14 DEF ClearSearch, FilterChanged
<1>15. CASE \/ OpenMergeDialog \/ CancelMerge
            \/ \E g \in Docs : ToggleDocumentSelected(g) \/ MergeWinnerSelected(g)
            \/ \E all \in BOOLEAN : ToggleAllSelected(all)
  <2>1. UNCHANGED <<list, filter, panicked, tasks>>
    BY <1>15 DEF OpenMergeDialog, CancelMerge, ToggleDocumentSelected, MergeWinnerSelected,
                 ToggleAllSelected, Act, Click
  <2> QED
    BY <2>1, NoFilter
<1>16. CASE Changes
  <2>1. UNCHANGED <<list, filter, panicked>>
    BY <1>16 DEF Changes, BatchTags, ConfirmMerge, Edit, RemoveDocument, Change
  <2>2. \A u : u.do \in {"filtered", "timer"} => (u \in tasks' <=> u \in tasks)
    <3>1. CASE \E add \in BOOLEAN, tag \in Tags : BatchTags(add, tag)
      BY <3>1 DEF BatchTags
    <3>2. CASE ConfirmMerge
      BY <3>2 DEF ConfirmMerge
    <3>3. CASE \E g \in Docs : RemoveDocument(g) \/ \E tags \in SUBSET Tags : Edit(g, tags)
      <4>1. PICK g \in Docs : tasks' = tasks \cup {[do |-> "expire", guid |-> g]}
        BY <3>3 DEF Edit, RemoveDocument
      <4> QED
        BY <4>1
    <3> QED
      BY <1>16, <3>1, <3>2, <3>3 DEF Changes
  <2> QED
    BY <2>1, <2>2, NoFilter
<1>17. CASE Runs
  BY <1>2, <1>3, <1>4, <1>5, <1>6, <1>8, <1>9, <1>10, <1>17 DEF Runs, Message
<1>18. CASE Uses
  BY <1>11, <1>13, <1>14, <1>15, <1>18 DEF Uses
<1> QED
  BY <1>1, <1>16, <1>17, <1>18 DEF Next

(***************************************************************************)
(* The selection.                                                          *)
(***************************************************************************)
\* Selected documents exist.
LEMMA SelectionStep == TypeInv /\ ShownInv /\ SelectionExists /\ [Next]_vars => SelectionExists'
<1> SUFFICES ASSUME TypeInv, ShownInv, SelectionExists, [Next]_vars
             PROVE  SelectionExists'
  OBVIOUS
<1>1. ASSUME UNCHANGED <<list, selected>>,
             \A u : u.do = "prune" => (u \in tasks => u \in tasks')
      PROVE  SelectionExists'
  BY <1>1 DEF SelectionExists, Guids, Loaded, Pending
<1>2. ASSUME ~Loaded'
      PROVE  SelectionExists'
  BY <1>2 DEF SelectionExists
<1>3. ASSUME NEW t \in tasks, DocumentsLoaded(t)
      PROVE  SelectionExists'
  <2>1. [do |-> "prune"] \in tasks' /\ [do |-> "prune"].do = "prune"
    BY <1>3 DEF DocumentsLoaded
  <2> QED
    BY <2>1 DEF SelectionExists, Pending
<1>4. ASSUME NEW t \in tasks, FilteringComplete(t)
      PROVE  SelectionExists'
  <2>1. list'.rows = list.rows /\ list'.state = list.state
    BY <1>4 DEF FilteringComplete, TypeInv
  <2>2. selected' = selected /\ tasks' = tasks \ {t} /\ t.do = "filtered"
    BY <1>4 DEF FilteringComplete, Handle
  <2> QED
    BY <2>1, <2>2 DEF SelectionExists, Guids, Loaded, Pending
<1>5. ASSUME NEW t, t.do \in {"item", "applied"}, NEW docs, docs \subseteq Document, UpdateItems(t, docs)
      PROVE  SelectionExists'
  <2>1. selected' = selected /\ tasks' = tasks \ {t}
    BY <1>5 DEF UpdateItems
  <2>2. CASE Loaded
    <3>1. list' = [list EXCEPT !.rows = Updated(list.rows, docs)]
      BY <1>5, <2>2 DEF UpdateItems
    <3>2. list'.rows = Updated(list.rows, docs) /\ list'.state = list.state
      BY <3>1 DEF TypeInv
    <3>3. /\ DOMAIN Updated(list.rows, docs) = DOMAIN list.rows
          /\ \A i \in DOMAIN list.rows : Updated(list.rows, docs)[i].guid = list.rows[i].guid
      BY <1>5, UpdatedIs DEF TypeInv
    <3>4. Guids' = Guids
      BY <3>2, <3>3 DEF Guids
    <3> QED
      BY <1>5, <2>1, <3>2, <3>4 DEF SelectionExists, Loaded, Pending
  <2>3. CASE ~Loaded
    BY <1>1, <1>5, <2>1, <2>3 DEF UpdateItems
  <2> QED
    BY <2>2, <2>3
<1>6. ASSUME NEW t \in tasks, FilterSelectedDocuments(t)
      PROVE  SelectionExists'
  BY <1>6 DEF FilterSelectedDocuments, Pruned, SelectionExists, Guids, Loaded
<1>7. CASE ToggleSortDirection
  <2>1. CASE Loaded
    <3>1. list' = [state |-> list.state, rows |-> Sorted(Range(list.rows), descending'),
                   shown |-> DOMAIN list.rows]
      BY <1>7, <2>1, ListWith DEF ToggleSortDirection, SortNow
    <3>2. descending' \in BOOLEAN /\ selected' = selected
      BY <1>7 DEF ToggleSortDirection
    <3>3. Range(Sorted(Range(list.rows), descending')) = Range(list.rows)
      BY <3>2, RowsSorted, SortedIsAll DEF TypeInv
    <3>4. Guids' = Guids
      <4>1. Guids = {d.guid : d \in Range(list.rows)} /\ Guids' = {d.guid : d \in Range(list'.rows)}
        BY DEF Guids, Range
      <4> QED
        BY <3>1, <3>3, <4>1
    <3>5. \A u : u.do = "prune" => (u \in tasks => u \in tasks')
      BY <1>7, <2>1 DEF ToggleSortDirection, SortNow, FilterNow, Start, NotTimers
    <3> QED
      BY <2>1, <3>1, <3>2, <3>4, <3>5 DEF SelectionExists, Loaded, Pending
  <2>2. CASE ~Loaded
    BY <1>1, <1>7, <2>2 DEF ToggleSortDirection
  <2> QED
    BY <2>1, <2>2
<1>8. ASSUME ~panicked
      PROVE  \A d \in Shown : d.guid \in Guids
  BY <1>8 DEF ShownInv, Shown, Guids
<1>9. ASSUME NEW g \in Docs, ToggleDocumentSelected(g)
      PROVE  SelectionExists'
  <2>1. UNCHANGED <<list, tasks>> /\ selected' \subseteq selected \cup {g} /\ g \in Guids
    BY <1>8, <1>9 DEF ToggleDocumentSelected, Act
  <2> QED
    BY <2>1 DEF SelectionExists, Guids, Loaded, Pending
<1>10. ASSUME NEW all \in BOOLEAN, ToggleAllSelected(all)
       PROVE  SelectionExists'
  <2>1. UNCHANGED <<list, tasks>> /\ selected' \subseteq selected \cup Guids
    BY <1>8, <1>10 DEF ToggleAllSelected, Act
  <2> QED
    BY <2>1 DEF SelectionExists, Guids, Loaded, Pending
<1>11. CASE Runs
  <2>1. PICK t \in tasks : Message(t) \/ Work(t)
    BY <1>11 DEF Runs
  <2>2. CASE LoadArchive(t)
    BY <1>2, <2>2 DEF LoadArchive, Loaded, NotLoaded
  <2>3. CASE RefreshDocument(t) \/ BatchTagsApplied(t)
    BY <1>5, <2>1, <2>3 DEF RefreshDocument, BatchTagsApplied, TypeInv, TaskType
  <2>4. CASE TagsLoaded(t) \/ DebounceTimeout(t)
    <3>1. \A u : u.do = "prune" => (u \in tasks => u \in tasks')
      BY <2>4 DEF TagsLoaded, DebounceTimeout, FilterNow, Start, NotTimers
    <3> QED
      BY <1>1, <2>4, <3>1 DEF TagsLoaded, DebounceTimeout
  <2>5. CASE MergeCompleted(t)
    BY <1>1, <2>5 DEF MergeCompleted, Reload
  <2>6. CASE Work(t)
    <3>1. \A u : u.do = "prune" => (u \in tasks => u \in tasks')
      BY <2>6 DEF Work, Fetch, BatchDocument, BatchDone, MergeDocuments, EditDone, ReadDocument,
                  Finish, Expire, Reload
    <3> QED
      BY <1>1, <2>6, <3>1 DEF Work, Fetch, BatchDocument, BatchDone, MergeDocuments, EditDone,
                  ReadDocument, Finish
  <2> QED
    BY <1>3, <1>4, <1>6, <2>1, <2>2, <2>3, <2>4, <2>5, <2>6 DEF Message
<1>12. CASE Changes
  <2>1. UNCHANGED <<list, selected>> /\ tasks \subseteq tasks'
    BY <1>12 DEF Changes, BatchTags, ConfirmMerge, Edit, RemoveDocument
  <2> QED
    BY <1>1, <2>1
<1>13. CASE (\E query \in BOOLEAN : SearchChanged(query)) \/ ClearSearch
            \/ (\E tag \in Tags \cup {None} : FilterChanged(tag))
  <2>1. \A u : u.do = "prune" => (u \in tasks => u \in tasks')
    BY <1>13 DEF SearchChanged, ClearSearch, FilterChanged, FilterNow, Start, NotTimers
  <2> QED
    BY <1>1, <1>13, <2>1 DEF SearchChanged, ClearSearch, FilterChanged
<1>14. CASE (\E g \in Docs : MergeWinnerSelected(g)) \/ OpenMergeDialog \/ CancelMerge
  BY <1>1, <1>14 DEF MergeWinnerSelected, OpenMergeDialog, CancelMerge
<1>15. CASE Uses
  BY <1>7, <1>9, <1>10, <1>13, <1>14, <1>15 DEF Uses
<1>16. CASE UNCHANGED vars
  BY <1>1, <1>16 DEF vars
<1> QED
  BY <1>11, <1>12, <1>15, <1>16 DEF Next

(***************************************************************************)
(* The library.                                                            *)
(***************************************************************************)
\* The list is the library.

\* A change begins when nothing is under way.
LEMMA ChangeBegins ==
    ASSUME LibraryInv, NEW u, u.do \in Writing, tasks' = tasks \cup {u},
           apart' => apart /\ ~Changing, apart' /\ u.do = "batch" => BatchTrue(u)'
    PROVE  LibraryInv'
<1>1. CASE ~apart'
  BY <1>1 DEF LibraryInv
<1>2. CASE apart'
  <2>1. \A t \in tasks : t.do \notin Writing \cup Answers
    BY <1>2 DEF Changing, Pending, Writing, Answers
  <2>2. \A t \in tasks' : t.do \in Writing \cup Answers => t = u
    BY <2>1
  <2>3. Pending(Writing)' /\ ~Pending(Answers)'
    BY <2>2 DEF Pending, Writing, Answers
  <2>4. \A t \in tasks' : t.do = "batch" => BatchTrue(t)'
    BY <1>2, <2>2 DEF Writing
  <2> QED
    BY <2>2, <2>3, <2>4 DEF LibraryInv
<1> QED
  BY <1>1, <1>2

\* A change is through: what is known of the library is forgotten.
LEMMA ChangeEnds ==
    ASSUME LibraryInv, apart, NEW t \in tasks, t.do \in Writing, NEW then,
           tasks' = Reload((tasks \ {t}) \cup {then}), cache' = None,
           then.do \in {"applied", "merged", "read"},
           then.do = "applied" => then.docs \subseteq Stored'
    PROVE  LibraryInv'
<1>1. \A u \in tasks \ {t} : u.do \notin Writing \cup Answers
  BY DEF LibraryInv, Pending
<1>2. PICK n : tasks' = ((tasks \ {t}) \cup {then}) \cup {[do |-> "load", n |-> n]}
  BY DEF Reload
<1>3. ASSUME NEW u \in tasks', u \notin tasks \ {t}, u # then
      PROVE  u.do = "load"
  <2>1. u = [do |-> "load", n |-> n]
    BY <1>2, <1>3
  <2> QED
    BY <2>1
<1>4. \A u \in tasks' : u.do \notin Writing
  BY <1>1, <1>3 DEF Writing
<1>5. ~Pending(Writing)'
  BY <1>4 DEF Pending
<1>6. Pending({"load"})'
  <2>1. [do |-> "load", n |-> n] \in tasks' /\ [do |-> "load", n |-> n].do = "load"
    BY <1>2
  <2> QED
    BY <2>1 DEF Pending
<1>7. \A u \in tasks' : /\ u.do # "loaded"
                        /\ u.do = "applied" => u.docs \subseteq Stored'
                        /\ u.do = "item" => u.doc \in Stored'
  BY <1>1, <1>3 DEF Answers
<1>8. AnswersTrue'
  BY <1>6, <1>7 DEF AnswersTrue
<1> QED
  BY <1>4, <1>5, <1>8 DEF LibraryInv, Writing

\* The library is not changed.
LEMMA NoChange ==
    ASSUME LibraryInv, UNCHANGED <<library, apart>>,
           \A u : u.do \in Writing => (u \in tasks' <=> u \in tasks),
           Pending(Answers)' => Pending(Answers),
           AnswersTrue => AnswersTrue'
    PROVE  LibraryInv'
<1>1. Pending(Writing)' <=> Pending(Writing)
  BY DEF Pending
<1>2. \A t : BatchTrue(t)' <=> BatchTrue(t)
  BY DEF BatchTrue
<1>3. \A t : t.do = "batch" => t.do \in Writing
  BY DEF Writing
<1> QED
  BY <1>1, <1>2, <1>3 DEF LibraryInv

\* Nothing that is known of the library is touched.
LEMMA AnswersKept ==
    ASSUME AnswersTrue, UNCHANGED <<library, known, descending>>,
           list'.rows = list.rows, list'.state = list.state,
           \A u \in tasks' : u.do \in {"loaded", "applied", "item"} => u \in tasks,
           \A u : u.do = "load" => (u \in tasks => u \in tasks')
    PROVE  AnswersTrue'
<1>1. Pending({"load"}) => Pending({"load"})'
  BY DEF Pending
<1>2. Stored' = Stored
  BY DEF Stored
<1>3. Loaded' <=> Loaded
  BY DEF Loaded
<1> QED
  BY <1>1, <1>2, <1>3 DEF AnswersTrue

\* A step about filters or the selection.
LEMMA Aside ==
    ASSUME LibraryInv, UNCHANGED <<library, known, apart, descending>>,
           list'.rows = list.rows, list'.state = list.state,
           \A u : u.do \in Writing \cup Answers => (u \in tasks' <=> u \in tasks)
    PROVE  LibraryInv'
<1>1. Pending(Answers)' => Pending(Answers)
  BY DEF Pending
<1>2. AnswersTrue => AnswersTrue'
  BY AnswersKept DEF Answers
<1> QED
  BY <1>1, <1>2, NoChange

\* What filters leave alone.
LEMMA FilterAside ==
    ASSUME NEW c, NEW l, NEW done, FilterNow(c, l, done) \/ Start(c, l, tasks \ done),
           \A u \in done : u.do \in {"timer", "tags"}
    PROVE  \A u : u.do \in Writing \cup Answers => (u \in tasks' <=> u \in tasks)
  BY DEF FilterNow, Start, NotTimers, Writing, Answers

LEMMA InitLibrary == Init => LibraryInv
<1> SUFFICES ASSUME Init
             PROVE  LibraryInv
  OBVIOUS
<1>1. \A t \in tasks : t.do = "load"
  BY DEF Init, Reload
<1>2. ~Loaded /\ cache = None
  BY DEF Init, Loaded, NotLoaded
<1> QED
  BY <1>1, <1>2 DEF LibraryInv, AnswersTrue, Pending, Writing

LEMMA LibraryStep == TypeInv /\ ShownInv /\ LibraryInv /\ [Next]_vars => LibraryInv'
<1> SUFFICES ASSUME TypeInv, ShownInv, LibraryInv, [Next]_vars
             PROVE  LibraryInv'
  OBVIOUS
<1>0. Collection(Stored) /\ Stored \subseteq Document
  BY StoredIs DEF Collection
<1>1. CASE UNCHANGED vars
  BY <1>1, Aside DEF vars
<1>2. ASSUME NEW t \in tasks, LoadArchive(t) PROVE LibraryInv'
  <2>1. /\ t.do = "load" /\ list' = NotLoaded("Loading") /\ UNCHANGED <<library, known, apart, descending>>
        /\ tasks' = (tasks \ {t}) \cup {[do |-> "fetch", n |-> t.n], [do |-> "tags", n |-> t.n]}
    BY <1>2 DEF LoadArchive, Handle
  <2>2. ~Loaded'
    BY <2>1 DEF Loaded, NotLoaded
  <2>3. \A u : u.do \in Writing => (u \in tasks' <=> u \in tasks)
    BY <2>1 DEF Writing
  <2>4. Pending(Answers)
    BY <2>1 DEF Pending, Answers
  <2>5. AnswersTrue => AnswersTrue'
    BY <2>1, <2>2 DEF AnswersTrue, Stored
  <2> QED
    BY <2>1, <2>3, <2>4, <2>5, NoChange
<1>4. ASSUME NEW t \in tasks, DocumentsLoaded(t) PROVE LibraryInv'
  <2>1. /\ t.do = "loaded" /\ UNCHANGED <<library, known, apart, descending>>
        /\ tasks' = (tasks \ {t}) \cup {[do |-> "prune"]}
        /\ list'.rows = Sorted(t.docs, descending)
    BY <1>4 DEF DocumentsLoaded, LoadedList, Handle
  <2>2. \A u : u.do \in Writing => (u \in tasks' <=> u \in tasks)
    BY <2>1 DEF Writing
  <2>3. Pending(Answers)
    BY <2>1 DEF Pending, Answers
  <2>4. ASSUME AnswersTrue
        PROVE  AnswersTrue'
    <3>1. cache # None /\ t.docs = cache /\ Stored' = Stored
      BY <2>1, <2>4 DEF AnswersTrue, Stored
    <3>2. \A u \in tasks' : u.do \in {"loaded", "applied", "item"} => u \in tasks
      BY <2>1
    <3>3. Sorted(cache, descending)' = Sorted(cache', descending')
      BY DEF Sorted
    <3> QED
      BY <2>1, <2>4, <3>1, <3>2, <3>3 DEF AnswersTrue
  <2> QED
    BY <2>1, <2>2, <2>3, <2>4, NoChange
<1>5. ASSUME NEW t \in tasks, TagsLoaded(t) \/ DebounceTimeout(t) PROVE LibraryInv'
  <2>1. UNCHANGED <<library, known, apart, descending, list>> /\ t.do \in {"tags", "timer"}
    BY <1>5 DEF TagsLoaded, DebounceTimeout, Handle
  <2>2. \A u : u.do \in Writing \cup Answers => (u \in tasks' <=> u \in tasks)
    <3>1. \E c, l : FilterNow(c, l, {t}) \/ Start(c, l, tasks \ {t})
      BY <1>5 DEF TagsLoaded, DebounceTimeout
    <3> QED
      BY <2>1, <3>1, FilterAside
  <2> QED
    BY <2>1, <2>2, Aside
<1>6. ASSUME NEW t \in tasks, FilteringComplete(t) PROVE LibraryInv'
  <2>1. list'.rows = list.rows /\ list'.state = list.state
    BY <1>6 DEF FilteringComplete, TypeInv
  <2>2. UNCHANGED <<library, known, apart, descending>> /\ t.do = "filtered" /\ tasks' = tasks \ {t}
    BY <1>6 DEF FilteringComplete, Handle
  <2>3. \A u : u.do \in Writing \cup Answers => (u \in tasks' <=> u \in tasks)
    BY <2>2 DEF Writing, Answers
  <2> QED
    BY <2>1, <2>2, <2>3, Aside
<1>7. ASSUME NEW t \in tasks, NEW docs, docs \subseteq Document, Handle(t), UpdateItems(t, docs),
             t.do \in {"item", "applied"}, AnswersTrue => docs \subseteq Stored
      PROVE  LibraryInv'
  <2>1. UNCHANGED <<library, known, apart, descending>> /\ tasks' = tasks \ {t}
    BY <1>7 DEF UpdateItems, Handle
  <2>2. \A u : u.do \in Writing => (u \in tasks' <=> u \in tasks)
    BY <1>7, <2>1 DEF Writing
  <2>3. Pending(Answers)
    BY <1>7 DEF Pending, Answers
  <2>4. ASSUME AnswersTrue
        PROVE  AnswersTrue'
    <3>1. \A u \in tasks' : u.do \in {"loaded", "applied", "item"} => u \in tasks
      BY <2>1
    <3>2. \A u : u.do = "load" => (u \in tasks => u \in tasks')
      BY <1>7, <2>1
    <3>3. CASE ~Loaded
      <4>1. list' = list
        BY <1>7, <3>3 DEF UpdateItems
      <4> QED
        BY <2>1, <2>4, <3>1, <3>2, <4>1, AnswersKept
    <3>4. CASE Loaded
      <4>1. list' = [list EXCEPT !.rows = Updated(list.rows, docs)]
        BY <1>7, <3>4 DEF UpdateItems
      <4>2. list'.rows = Updated(list.rows, docs) /\ list'.state = list.state
        BY <4>1 DEF TypeInv
      <4>3. CASE Pending({"load"})
        <5>1. Pending({"load"})' /\ Stored' = Stored
          BY <2>1, <3>2, <4>3 DEF Pending, Stored
        <5> QED
          BY <2>1, <2>4, <3>1, <5>1 DEF AnswersTrue
      <4>4. CASE ~Pending({"load"})
        <5>1. cache # None /\ cache \subseteq Stored /\ list.rows = Sorted(cache, descending)
          BY <2>4, <3>4, <4>4 DEF AnswersTrue
        <5>2. Range(list.rows) \subseteq Stored
          BY <5>1, SortedIsAll DEF TypeInv
        <5>3. Updated(list.rows, docs) = list.rows
          BY <1>0, <1>7, <2>4, <5>2, UpdatedByStored DEF TypeInv
        <5> QED
          BY <2>1, <2>4, <3>1, <3>2, <4>2, <5>3, AnswersKept
      <4> QED
        BY <4>3, <4>4
    <3> QED
      BY <3>3, <3>4
  <2> QED
    BY <2>1, <2>2, <2>3, <2>4, NoChange
<1>8. ASSUME NEW t \in tasks, RefreshDocument(t) \/ BatchTagsApplied(t) PROVE LibraryInv'
  BY <1>7, <1>8 DEF RefreshDocument, BatchTagsApplied, TypeInv, TaskType, AnswersTrue
<1>9. ASSUME NEW t \in tasks, FilterSelectedDocuments(t) PROVE LibraryInv'
  <2>1. UNCHANGED <<library, known, apart, descending, list>> /\ t.do = "prune" /\ tasks' = tasks \ {t}
    BY <1>9 DEF FilterSelectedDocuments, Handle
  <2>2. \A u : u.do \in Writing \cup Answers => (u \in tasks' <=> u \in tasks)
    BY <2>1 DEF Writing, Answers
  <2> QED
    BY <2>1, <2>2, Aside
<1>10. ASSUME NEW t \in tasks, MergeCompleted(t) PROVE LibraryInv'
  <2>1. UNCHANGED <<library, known, apart, descending, list>> /\ t.do = "merged"
    BY <1>10 DEF MergeCompleted, Handle
  <2>2. PICK n : tasks' = (tasks \ {t}) \cup {[do |-> "load", n |-> n]}
    BY <1>10 DEF MergeCompleted, Reload
  <2>3. \A u : u.do \in Writing => (u \in tasks' <=> u \in tasks)
    BY <2>1, <2>2 DEF Writing
  <2>4. Pending(Answers)
    BY <2>1 DEF Pending, Answers
  <2>5. /\ \A u \in tasks' : u.do \in {"loaded", "applied", "item"} => u \in tasks
        /\ \A u : u.do = "load" => (u \in tasks => u \in tasks')
    BY <2>1, <2>2
  <2>6. AnswersTrue => AnswersTrue'
    BY <2>1, <2>5, AnswersKept
  <2> QED
    BY <2>1, <2>3, <2>4, <2>6, NoChange
<1>11. ASSUME NEW t \in tasks, Fetch(t) PROVE LibraryInv'
  <2>1. t.do = "fetch" /\ UNCHANGED <<library, apart, descending, list>>
    BY <1>11 DEF Fetch
  <2>2. \A u : u.do \in Writing => (u \in tasks' <=> u \in tasks)
    BY <1>11 DEF Fetch, Writing
  <2>3. Pending(Answers)
    BY <2>1 DEF Pending, Answers
  <2>4. ASSUME AnswersTrue
        PROVE  AnswersTrue'
    <3>1. Stored' = Stored /\ (Loaded' <=> Loaded)
      BY <2>1 DEF Stored, Loaded
    <3>2. tasks' = (tasks \ {t}) \cup {[do |-> "loaded", n |-> t.n, docs |-> cache']}
      BY <1>11 DEF Fetch
    <3>3. \A u \in tasks' : u \in tasks \/ (u.do = "loaded" /\ u.docs = cache')
      BY <3>2
    <3>4. Pending({"load"}) => Pending({"load"})'
      BY <2>1, <3>2 DEF Pending
    <3>5. CASE cache # None
      <4>1. UNCHANGED <<cache, whole>>
        BY <1>11, <3>5 DEF Fetch
      <4> QED
        BY <2>1, <2>4, <3>1, <3>3, <3>4, <3>5, <4>1 DEF AnswersTrue
    <3>6. CASE cache = None
      <4>1. cache' \subseteq Stored /\ (whole' => cache' = Stored)
        BY <1>11, <3>6 DEF Fetch, Aggregated
      <4>2. cache' # None
        BY <1>0, <4>1, NoneAssumption DEF Document
      <4>3. \A u \in tasks' : /\ u.do = "loaded" => u.docs = cache'
                              /\ u.do = "applied" => u.docs \subseteq Stored
                              /\ u.do = "item" => u.doc \in Stored
        BY <2>4, <3>3, <3>6 DEF AnswersTrue
      <4> QED
        BY <2>1, <2>4, <3>1, <3>4, <3>6, <4>1, <4>2, <4>3 DEF AnswersTrue
    <3> QED
      BY <3>5, <3>6
  <2> QED
    BY <2>1, <2>2, <2>3, <2>4, NoChange
<1>12. ASSUME NEW t \in tasks, ReadDocument(t) PROVE LibraryInv'
  <2>1. t.do = "read" /\ UNCHANGED <<library, known, descending, list>> /\ apart' \in {apart, FALSE}
    BY <1>12 DEF ReadDocument
  <2>2. CASE ~apart'
    BY <2>2 DEF LibraryInv
  <2>3. CASE apart'
    <3>0. apart' = apart
      BY <2>1, <2>3
    <3>1. \A u \in tasks' : u \in tasks \/ \E d \in Stored : u = [do |-> "item", doc |-> d]
      BY <1>12, <2>3 DEF ReadDocument
    <3>2. /\ \A u : u.do \in Writing => (u \in tasks' <=> u \in tasks)
          /\ \A u : u.do = "load" => (u \in tasks => u \in tasks')
      BY <1>12, <2>1 DEF ReadDocument, Writing
    <3>3. Pending(Answers)
      BY <2>1 DEF Pending, Answers
    <3>4. ASSUME AnswersTrue
          PROVE  AnswersTrue'
      <4>1. Stored' = Stored /\ (Loaded' <=> Loaded)
        BY <2>1 DEF Stored, Loaded
      <4>2. Pending({"load"}) => Pending({"load"})'
        BY <3>2 DEF Pending
      <4>3. \A u \in tasks' : /\ u.do = "loaded" => cache # None /\ u.docs = cache
                              /\ u.do = "applied" => u.docs \subseteq Stored
                              /\ u.do = "item" => u.doc \in Stored
        BY <3>1, <3>4 DEF AnswersTrue
      <4> QED
        BY <2>1, <3>4, <4>1, <4>2, <4>3 DEF AnswersTrue
    <3> QED
      BY <2>1, <3>0, <3>2, <3>3, <3>4, NoChange
  <2> QED
    BY <2>2, <2>3
<1>13. ASSUME NEW t \in tasks, BatchDocument(t) PROVE LibraryInv'
  <2>1. t \in Batches /\ t.do = "batch"
    BY <1>13 DEF BatchDocument, TypeInv, TaskType
  <2>2. PICK g \in t.left :
           /\ tasks' = (tasks \ {t}) \cup {[t EXCEPT !.left = @ \ {g}]}
           /\ \/ /\ g \in DOMAIN library
                 /\ library' = [library EXCEPT ![g] = IF t.add THEN @ \cup {t.tag} ELSE @ \ {t.tag}]
                 /\ UNCHANGED <<bounds, apart>>
              \/ /\ IF g \in DOMAIN library THEN Fail ELSE UNCHANGED bounds
                 /\ apart' = FALSE
                 /\ UNCHANGED library
    BY <1>13 DEF BatchDocument
  <2>3. CASE ~apart'
    BY <2>3 DEF LibraryInv
  <2>4. CASE apart'
    <3> DEFINE n == [t EXCEPT !.left = @ \ {g}]
    <3>1. /\ library' = [library EXCEPT ![g] = IF t.add THEN library[g] \cup {t.tag}
                                               ELSE library[g] \ {t.tag}]
          /\ apart
      BY <2>2, <2>4
    <3>2. n \in Batches /\ n.do = "batch" /\ n.add = t.add /\ n.tag = t.tag /\ n.docs = t.docs
          /\ n.left = t.left \ {g}
      BY <2>1 DEF Batches
    <3>3. tasks' = (tasks \ {t}) \cup {n}
      BY <2>2
    <3> HIDE DEF n
    <3>4. \A u \in tasks \ {t} : u.do \notin Writing \cup Answers
      BY <2>1, <3>1 DEF LibraryInv, Pending, Writing
    <3>5. \A u \in tasks' : u.do \in Writing \cup Answers => u = n
      BY <3>3, <3>4
    <3>6. Pending(Writing)' /\ ~Pending(Answers)'
      BY <3>2, <3>3, <3>5 DEF Pending, Writing, Answers
    <3>7. BatchTrue(t)
      BY <2>1, <3>1 DEF LibraryInv
    <3>8. BatchTrue(n)'
      <4> SUFFICES ASSUME NEW d \in n.docs
                   PROVE  /\ d.guid \in DOMAIN library'
                          /\ d.tags = IF d.guid \notin n.left THEN library'[d.guid]
                                      ELSE IF n.add THEN library'[d.guid] \cup {n.tag}
                                      ELSE library'[d.guid] \ {n.tag}
        BY <3>2 DEF BatchTrue
      <4>1. /\ d.guid \in DOMAIN library
            /\ d.tags = IF d.guid \notin t.left THEN library[d.guid]
                        ELSE IF t.add THEN library[d.guid] \cup {t.tag} ELSE library[d.guid] \ {t.tag}
        BY <3>2, <3>7 DEF BatchTrue
      <4>2. DOMAIN library' = DOMAIN library
        BY <3>1
      <4>3. CASE d.guid = g
        <5>1. library'[g] = IF t.add THEN library[g] \cup {t.tag} ELSE library[g] \ {t.tag}
          BY <3>1, <4>1, <4>3 DEF TypeInv
        <5> QED
          BY <3>2, <4>1, <4>2, <4>3, <5>1
      <4>4. CASE d.guid # g
        <5>1. library'[d.guid] = library[d.guid]
          BY <3>1, <4>1, <4>4 DEF TypeInv
        <5> QED
          BY <3>2, <4>1, <4>2, <4>4, <5>1
      <4> QED
        BY <4>3, <4>4
    <3>9. \A u \in tasks' : u.do = "batch" => BatchTrue(u)'
      BY <3>5, <3>8 DEF Writing
    <3> QED
      BY <3>5, <3>6, <3>9 DEF LibraryInv
  <2> QED
    BY <2>3, <2>4
<1>14. ASSUME NEW t \in tasks, BatchDone(t) PROVE LibraryInv'
  <2>1. /\ t.do = "batch" /\ t.left = {} /\ cache' = None /\ UNCHANGED <<library, apart>>
        /\ tasks' = Reload((tasks \ {t}) \cup {[do |-> "applied", docs |-> t.docs]})
    BY <1>14 DEF BatchDone, Finish, Expire
  <2>2. CASE ~apart'
    BY <2>2 DEF LibraryInv
  <2>3. CASE apart'
    <3>1. BatchTrue(t) /\ t \in Batches
      BY <2>1, <2>3 DEF LibraryInv, TypeInv, TaskType
    <3>2. \A d \in t.docs : d \in Stored'
      BY <2>1, <3>1, StoredIs DEF BatchTrue, Batches, Stored
    <3> DEFINE u == [do |-> "applied", docs |-> t.docs]
    <3>3. u.do = "applied" /\ u.docs \subseteq Stored' /\ tasks' = Reload((tasks \ {t}) \cup {u})
      BY <2>1, <3>2
    <3> HIDE DEF u
    <3> QED
      BY <2>1, <2>3, <3>3, ChangeEnds DEF Writing
  <2> QED
    BY <2>2, <2>3
<1>15. ASSUME NEW t \in tasks, MergeDocuments(t) PROVE LibraryInv'
  <2>1. /\ t.do = "merge" /\ cache' = None /\ (apart' => apart)
        /\ tasks' = Reload((tasks \ {t}) \cup {[do |-> "merged"]})
    BY <1>15 DEF MergeDocuments, Finish, Expire
  <2>2. CASE ~apart'
    BY <2>2 DEF LibraryInv
  <2>3. CASE apart'
    <3> DEFINE u == [do |-> "merged"]
    <3>1. u.do = "merged" /\ tasks' = Reload((tasks \ {t}) \cup {u})
      BY <2>1
    <3> HIDE DEF u
    <3> QED
      BY <2>1, <2>3, <3>1, ChangeEnds DEF Writing
  <2> QED
    BY <2>2, <2>3
<1>16. ASSUME NEW t \in tasks, EditDone(t) PROVE LibraryInv'
  <2>1. /\ t.do = "expire" /\ cache' = None /\ apart' = apart
        /\ tasks' = Reload((tasks \ {t}) \cup {[do |-> "read", guid |-> t.guid]})
    BY <1>16 DEF EditDone, Finish, Expire
  <2>2. CASE ~apart'
    BY <2>2 DEF LibraryInv
  <2>3. CASE apart'
    <3> DEFINE u == [do |-> "read", guid |-> t.guid]
    <3>1. u.do = "read" /\ tasks' = Reload((tasks \ {t}) \cup {u})
      BY <2>1
    <3> HIDE DEF u
    <3> QED
      BY <2>1, <2>3, <3>1, ChangeEnds DEF Writing
  <2> QED
    BY <2>2, <2>3
<1>17. CASE ToggleSortDirection
  <2>1. UNCHANGED <<library, known, apart>> /\ descending' \in BOOLEAN
    BY <1>17 DEF ToggleSortDirection, Act
  <2>2. CASE ~Loaded
    <3>1. UNCHANGED <<list, tasks>>
      BY <1>17, <2>2 DEF ToggleSortDirection
    <3>2. AnswersTrue => AnswersTrue'
      BY <2>1, <2>2, <3>1 DEF AnswersTrue, Stored, Loaded
    <3> QED
      BY <2>1, <3>1, <3>2, NoChange DEF Pending
  <2>3. CASE Loaded
    <3>1. list' = [state |-> list.state, rows |-> Sorted(Range(list.rows), descending'),
                   shown |-> DOMAIN list.rows]
      BY <1>17, <2>3, ListWith DEF ToggleSortDirection, SortNow
    <3>2. \A u : u.do \in Writing \cup Answers => (u \in tasks' <=> u \in tasks)
      <4>1. PICK l : FilterNow(criteria, l, {})
        BY <1>17, <2>3 DEF ToggleSortDirection, SortNow
      <4> QED
        BY <4>1 DEF FilterNow, Start, NotTimers, Writing, Answers
    <3>3. ASSUME AnswersTrue
          PROVE  AnswersTrue'
      <4>1. Stored' = Stored
        BY <2>1 DEF Stored
      <4>2. Pending({"load"})' <=> Pending({"load"})
        BY <3>2 DEF Pending, Answers
      <4>3. \A u \in tasks' : u.do \in {"loaded", "applied", "item"} => u \in tasks
        BY <3>2 DEF Answers
      <4>4. ~Pending({"load"}) => cache # None /\ list'.rows = Sorted(cache, descending')
        BY <2>1, <2>3, <3>1, <3>3, SortedIsAll DEF AnswersTrue, TypeInv
      <4>5. Sorted(cache, descending)' = Sorted(cache', descending')
        BY DEF Sorted
      <4> QED
        BY <2>1, <3>3, <4>1, <4>2, <4>3, <4>4, <4>5 DEF AnswersTrue
    <3>4. Pending(Answers)' => Pending(Answers)
      BY <3>2 DEF Pending
    <3> QED
      BY <2>1, <3>2, <3>3, <3>4, NoChange
  <2> QED
    BY <2>2, <2>3
<1>18. CASE (\E query \in BOOLEAN : SearchChanged(query)) \/ ClearSearch
            \/ (\E tag \in Tags \cup {None} : FilterChanged(tag))
  <2>1. UNCHANGED <<library, known, apart, descending, list>>
    BY <1>18 DEF SearchChanged, ClearSearch, FilterChanged, Act
  <2>2. \A u : u.do \in Writing \cup Answers => (u \in tasks' <=> u \in tasks)
    <3>1. CASE \E query \in BOOLEAN : SearchChanged(query)
      BY <3>1 DEF SearchChanged, NotTimers, Writing, Answers
    <3>2. CASE \E c : FilterNow(c, list, {})
      BY <3>2 DEF FilterNow, Start, NotTimers, Writing, Answers
    <3> QED
      BY <1>18, <3>1, <3>2 DEF ClearSearch, FilterChanged
  <2> QED
    BY <2>1, <2>2, Aside
<1>19. CASE \/ OpenMergeDialog \/ CancelMerge
            \/ \E g \in Docs : ToggleDocumentSelected(g) \/ MergeWinnerSelected(g)
            \/ \E all \in BOOLEAN : ToggleAllSelected(all)
  <2>1. UNCHANGED <<library, known, apart, descending, list, tasks>>
    BY <1>19 DEF OpenMergeDialog, CancelMerge, ToggleDocumentSelected, MergeWinnerSelected,
                 ToggleAllSelected, Act, Click
  <2> QED
    BY <2>1, Aside
<1>20. ASSUME NEW add \in BOOLEAN, NEW tag \in Tags, BatchTags(add, tag) PROVE LibraryInv'
  <2>5. PICK u : u = [do |-> "batch", add |-> add, tag |-> tag,
                      left |-> {d.guid : d \in SelectedDocuments},
                      docs |-> {Retagged(d, add, tag) : d \in SelectedDocuments}]
    OBVIOUS
  <2>1. /\ tasks' = tasks \cup {u} /\ UNCHANGED library /\ SelectedDocuments # {}
        /\ (apart' => apart /\ ~Changing)
    BY <1>20, <2>5 DEF BatchTags, Change
  <2>4. /\ u.do = "batch" /\ u.add = add /\ u.tag = tag
        /\ u.left = {d.guid : d \in SelectedDocuments}
        /\ u.docs = {Retagged(d, add, tag) : d \in SelectedDocuments}
    BY <2>5
  <2>2. ASSUME apart'
        PROVE  BatchTrue(u)'
    <3>1. ~Pending(Writing) /\ ~Pending({"load"}) /\ AnswersTrue
      BY <2>1, <2>2 DEF LibraryInv, Changing, Pending, Writing
    <3>2. SelectedDocuments \subseteq Stored
      <4>1. CASE Loaded
        <5>1. Range(list.rows) \subseteq Stored
          BY <3>1, <4>1, SortedIsAll DEF AnswersTrue, TypeInv
        <5> QED
          BY <5>1 DEF SelectedDocuments
      <4>2. CASE ~Loaded
        BY <4>2 DEF SelectedDocuments, ShownInv, Range
      <4> QED
        BY <4>1, <4>2
    <3>3. ASSUME NEW d \in u.docs
          PROVE  /\ d.guid \in DOMAIN library'
                 /\ d.tags = IF d.guid \notin u.left THEN library'[d.guid]
                             ELSE IF u.add THEN library'[d.guid] \cup {u.tag}
                             ELSE library'[d.guid] \ {u.tag}
      <4>1. PICK e \in SelectedDocuments : d = Retagged(e, add, tag)
        BY <2>4, <3>3
      <4>2. e \in Stored /\ e \in Document
        BY <3>2, <4>1, <1>0
      <4>3. /\ d.guid = e.guid
            /\ d.tags = IF add THEN e.tags \cup {tag} ELSE e.tags \ {tag}
        BY <4>1, <4>2 DEF Retagged, Document
      <4>4. e.guid \in DOMAIN library /\ e.tags = library[e.guid] /\ e.guid \in u.left
        BY <2>4, <4>1, <4>2, StoredIs
      <4> QED
        BY <2>1, <2>4, <4>3, <4>4
    <3> QED
      BY <3>3 DEF BatchTrue
  <2>3. u.do \in Writing
    BY <2>4 DEF Writing
  <2> QED
    BY <2>1, <2>2, <2>3, ChangeBegins
<1>21. CASE ConfirmMerge
  <2>1. PICK w, ls : tasks' = tasks \cup {[do |-> "merge", winner |-> w, losers |-> ls]}
    BY <1>21 DEF ConfirmMerge
  <2>2. apart' => apart /\ ~Changing
    BY <1>21 DEF ConfirmMerge, Change
  <2> DEFINE u == [do |-> "merge", winner |-> w, losers |-> ls]
  <2>3. u.do = "merge" /\ tasks' = tasks \cup {u}
    BY <2>1
  <2> HIDE DEF u
  <2> QED
    BY <2>2, <2>3, ChangeBegins DEF Writing
<1>22. ASSUME NEW g \in Docs, RemoveDocument(g) \/ \E tags \in SUBSET Tags : Edit(g, tags)
       PROVE  LibraryInv'
  <2>1. tasks' = tasks \cup {[do |-> "expire", guid |-> g]} /\ (apart' => apart /\ ~Changing)
    BY <1>22 DEF RemoveDocument, Edit, Change
  <2> DEFINE u == [do |-> "expire", guid |-> g]
  <2>3. u.do = "expire" /\ tasks' = tasks \cup {u}
    BY <2>1
  <2> HIDE DEF u
  <2> QED
    BY <2>1, <2>3, ChangeBegins DEF Writing
<1>23. CASE Runs
  BY <1>2, <1>4, <1>5, <1>6, <1>8, <1>9, <1>10, <1>11, <1>12, <1>13, <1>14, <1>15, <1>16,
     <1>23 DEF Runs, Message, Work
<1>24. CASE Uses
  BY <1>17, <1>18, <1>19, <1>24 DEF Uses
<1>25. CASE Changes
  BY <1>20, <1>21, <1>22, <1>25 DEF Changes
<1> QED
  BY <1>1, <1>23, <1>24, <1>25 DEF Next

(***************************************************************************)
(* The list's theorems.                                                    *)
(***************************************************************************)
\* At first nothing is listed, shown or selected.
LEMMA InitIInv == Init => IInv
<1> SUFFICES ASSUME Init
             PROVE  IInv
  OBVIOUS
<1>1. TypeInv /\ FilterInv /\ LibraryInv
  BY InitType, InitFilter, InitLibrary
<1>2. ShownInv /\ SelectionExists
  BY DEF Init, NotLoaded, ShownInv, SelectionExists, Loaded
<1> QED
  BY <1>1, <1>2 DEF IInv

\* The inductive invariant holds in every reachable state.
THEOREM Invariance == Spec => []IInv
<1>1. IInv /\ [Next]_vars => IInv'
  BY TypeStep, ShownStep, FilterStep, SelectionStep, LibraryStep DEF IInv
<1> QED
  BY <1>1, InitIInv, PTL DEF Spec

\* Every variable keeps its type, the rows are documents, and the spinner of the
\* filter is shown exactly while one runs.
THEOREM TypeCorrect == Spec => []TypeOK
<1>1. IInv => TypeOK
  <2> SUFFICES ASSUME IInv
               PROVE  TypeOK
    OBVIOUS
  <2>1. Range(list.rows) \subseteq Document
    BY RowsSorted DEF IInv, TypeInv, Collection
  <2>2. \A g \in DOMAIN library : library[g] \subseteq Tags
    BY DEF IInv, TypeInv
  <2> QED
    BY <2>1, <2>2 DEF IInv, TypeInv, FilterInv, TypeOK, Collection
<1> QED
  BY <1>1, Invariance, PTL

\* No index is shown that has no row, and what is shown when the filters have
\* run is what matches the query and the filters, unless a filter is owed.
THEOREM FiltersAreTrue == Spec => []FilterTrue
<1>1. IInv => FilterTrue
  BY DEF IInv, FilterInv, FilterTrue
<1> QED
  BY <1>1, Invariance, PTL

\* When nothing is under way the list is the library in the order asked for,
\* or the documents of the sources that answered the last load, if the changes
\* were made one after the other.
THEOREM ListIsLibrary == Spec => []ListTrue
<1>1. IInv => ListTrue
  <2> SUFFICES ASSUME IInv, Loaded, apart, ~Changing
               PROVE  /\ Range(list.rows) \subseteq Stored
                      /\ whole => Range(list.rows) = Stored
                      /\ list.rows = Sorted(Range(list.rows), descending)
    BY DEF ListTrue
  <2>1. ~Pending(Writing) /\ ~Pending({"load"})
    BY DEF Changing, Pending, Writing
  <2>2. /\ Collection(cache) /\ cache \subseteq Stored /\ (whole => cache = Stored)
        /\ list.rows = Sorted(cache, descending)
    BY <2>1 DEF IInv, TypeInv, LibraryInv, AnswersTrue
  <2>3. Range(list.rows) = cache
    BY <2>2, SortedIsAll DEF IInv, TypeInv
  <2> QED
    BY <2>2, <2>3
<1> QED
  BY <1>1, Invariance, PTL

\* Only documents that are in the list are selected, so that a batch or a merge
\* takes none that is gone.
THEOREM SelectedExist == Spec => []SelectionExists
  BY Invariance, PTL DEF IInv
-----------------------------------------------------------------------------

(***************************************************************************)
(* The cache.                                                              *)
(***************************************************************************)
\* A caller that is fetching, or about to store what it fetched.
FetchInv ==
    \A c \in Callers :
        /\ pc[c] \in {"fetch", "store"} => value = Empty
        /\ pc[c] = "store" => floor <= got[c] /\ got[c] <= source

\* The inductive invariant of the cache.
CacheInv ==
    /\ CacheTypeOK
    /\ LockDiscipline
    /\ FetchInv
    /\ floor <= source
    /\ value # Empty => value = floor

USE CallersAssumption, CapacityAssumption

\* The initial state of the cache satisfies its inductive invariant.
LEMMA InitCache == CacheInit => CacheInv
  BY DEF CacheInit, CacheInv, CacheTypeOK, LockDiscipline, FetchInv, Empty, Steps, Callers

\* One step of the cache preserves it.
LEMMA CacheStep == CacheInv /\ [CacheNext]_cacheVars => CacheInv'
<1> SUFFICES ASSUME CacheInv, [CacheNext]_cacheVars
             PROVE  CacheInv'
  OBVIOUS
<1> USE DEF CacheInv, CacheTypeOK, LockDiscipline, FetchInv, Empty, Steps, Goto, history
<1>1. CASE ChangeSource
  BY <1>1 DEF ChangeSource
<1>2. CASE SetExpired
  <2>1. inbox' \in [Subscribers -> 0..Capacity] /\ lagged' \in [Subscribers -> BOOLEAN]
    BY <1>2 DEF SetExpired, Send
  <2>2. \A c \in Callers : pc[c] \notin {"fetch", "store"}
    BY <1>2 DEF SetExpired, Callers
  <2> QED
    BY <1>2, <2>1, <2>2 DEF SetExpired
<1>3. ASSUME NEW s \in Subscribers, Receive(s)
      PROVE  CacheInv'
  <2>1. s \in Callers /\ pc' = [pc EXCEPT ![s] = "read"] /\ pc[s] = "idle"
    BY <1>3 DEF Receive, Callers
  <2>2. lagged' \in [Subscribers -> BOOLEAN] /\ inbox' \in [Subscribers -> 0..Capacity]
    <3>1. CASE lagged[s]
      BY <1>3, <3>1 DEF Receive
    <3>2. CASE ~lagged[s]
      <4>1. inbox' = [inbox EXCEPT ![s] = @ - 1] /\ inbox[s] > 0 /\ lagged' = lagged
        BY <1>3, <3>2 DEF Receive
      <4>2. inbox[s] - 1 \in 0..Capacity
        BY <4>1
      <4> QED
        BY <4>1, <4>2
    <3> QED
      BY <3>1, <3>2
  <2> QED
    BY <1>3, <2>1, <2>2 DEF Receive
<1>4. ASSUME NEW c \in Callers, Call(c)
      PROVE  CacheInv'
  BY <1>4 DEF Call
<1>5. ASSUME NEW c \in Callers, ReadLocked(c)
      PROVE  CacheInv'
  BY <1>5 DEF ReadLocked
<1>6. ASSUME NEW c \in Callers, WriteLocked(c)
      PROVE  CacheInv'
  BY <1>6 DEF WriteLocked
<1>7. ASSUME NEW c \in Callers, FetchValue(c)
      PROVE  CacheInv'
  BY <1>7 DEF FetchValue
<1>8. ASSUME NEW c \in Callers, Store(c)
      PROVE  CacheInv'
  BY <1>8 DEF Store
<1>9. ASSUME NEW c \in Callers, FetchFails(c)
      PROVE  CacheInv'
  BY <1>9 DEF FetchFails
<1>10. ASSUME NEW c \in Callers, Cancel(c)
       PROVE  CacheInv'
  BY <1>10 DEF Cancel
<1>11. CASE UNCHANGED cacheVars
  BY <1>11 DEF cacheVars
<1> QED
  BY <1>1, <1>2, <1>3, <1>4, <1>5, <1>6, <1>7, <1>8, <1>9, <1>10, <1>11 DEF CacheNext

\* The cache's invariant holds in every reachable state.
THEOREM CacheInvariance == CacheSpec => []CacheInv
  BY InitCache, CacheStep, PTL DEF CacheSpec

\* Every variable of the cache keeps its type.
THEOREM CacheTypeCorrect == CacheSpec => []CacheTypeOK
  BY CacheInvariance, PTL DEF CacheInv

\* The write guard is held exactly by the caller that is fetching or
\* storing, so no two callers ever call the inner provider together.
THEOREM MutualExclusion == CacheSpec => []LockDiscipline
  BY CacheInvariance, PTL DEF CacheInv

\* A cached value is never older than the last set_expired().
THEOREM Freshness == CacheSpec => []NotStale
<1>1. CacheInv => NotStale
  BY DEF CacheInv, NotStale, CacheTypeOK, Empty
<1> QED
  BY <1>1, CacheInvariance, PTL

\* Once filled, the cache changes only by being expired: a caller that stores
\* found it empty under the lock it still holds.
THEOREM FilledByOne == CacheSpec => FilledOnce
<1>1. CacheInv /\ [CacheNext]_cacheVars => [value # Empty => value' \in {value, Empty}]_value
  <2> SUFFICES ASSUME CacheInv, [CacheNext]_cacheVars, value # Empty
               PROVE  value' \in {value, Empty}
    OBVIOUS
  <2>1. ASSUME NEW c \in Callers, Store(c) PROVE FALSE
    BY <2>1 DEF CacheInv, FetchInv, Store, Goto
  <2>2. CASE SetExpired
    BY <2>2 DEF SetExpired
  <2> QED
    BY <2>1, <2>2 DEF CacheNext, ChangeSource, Receive, Call, ReadLocked, WriteLocked, FetchValue,
                      FetchFails, Cancel, cacheVars
<1> QED
  BY <1>1, CacheInvariance, PTL DEF CacheSpec, FilledOnce

\* The cache implements the abstract cache: each step of the lock protocol
\* is a read, an expiry, a change of the source, or no step at all.
THEOREM Refinement == CacheSpec => ImplementsFreshCache
<1> USE DEF Abstract!vars
<1>1. CacheInit => Abstract!Init
  BY DEF CacheInit, Abstract!Init
<1>2. CacheInv /\ [CacheNext]_cacheVars => [Abstract!Next]_(Abstract!vars)
  <2> SUFFICES ASSUME CacheInv, [CacheNext]_cacheVars
               PROVE  [Abstract!Next]_(Abstract!vars)
    OBVIOUS
  <2> USE DEF CacheInv, CacheTypeOK, FetchInv, Empty, Goto, history
  <2>1. CASE ChangeSource
    BY <2>1 DEF ChangeSource, Abstract!Next, Abstract!Change
  <2>2. CASE SetExpired
    BY <2>2 DEF SetExpired, Abstract!Next, Abstract!Expire
  <2>3. ASSUME NEW s \in Subscribers, Receive(s)
        PROVE  UNCHANGED Abstract!vars
    BY <2>3 DEF Receive
  <2>4. ASSUME NEW c \in Callers, ReadLocked(c) \/ WriteLocked(c)
        PROVE  [Abstract!Next]_(Abstract!vars)
    <3>1. CASE value # Empty
      <4>1. Abstract!Read(c) \/ UNCHANGED Abstract!vars
        BY <2>4, <3>1 DEF ReadLocked, WriteLocked, Abstract!Read
      <4> QED
        BY <4>1 DEF Abstract!Next
    <3>2. CASE value = Empty
      BY <2>4, <3>2 DEF ReadLocked, WriteLocked
    <3> QED
      BY <3>1, <3>2
  <2>5. ASSUME NEW c \in Callers, Store(c)
        PROVE  Abstract!Next
    <3>1. floor <= got[c] /\ got[c] <= source /\ got[c] \in Nat /\ floor \in Nat /\ source \in Nat
      BY <2>5 DEF Store
    <3>2. floor' = got[c] /\ got[c] \in floor..source
      BY <2>5, <3>1 DEF Store
    <3>3. Abstract!Read(c)
      BY <2>5, <3>2 DEF Store, Abstract!Read
    <3> QED
      BY <3>3 DEF Abstract!Next
  <2>6. ASSUME NEW c \in Callers, Call(c) \/ FetchValue(c) \/ FetchFails(c) \/ Cancel(c)
        PROVE  UNCHANGED Abstract!vars
    BY <2>6 DEF Call, FetchValue, FetchFails, Cancel
  <2>7. CASE UNCHANGED cacheVars
    BY <2>7 DEF cacheVars
  <2> QED
    BY <2>1, <2>2, <2>3, <2>4, <2>5, <2>6, <2>7 DEF CacheNext
<1> QED
  BY <1>1, <1>2, CacheInvariance, PTL DEF CacheSpec, ImplementsFreshCache, Abstract!Spec
=============================================================================
