--------------------------- MODULE Library_proofs ---------------------------
(***************************************************************************)
(* Proofs about Library, for any files, groups, contents and bounds, and   *)
(* at the end about ScanPipeline, which brings it the files, for any files *)
(* and any capacities of its channels.                                     *)
(*                                                                         *)
(* That the rows refer to rows that exist (TypeOK) needs more than itself: *)
(* only contents that have a row are linked (Rows), a task knows what it   *)
(* enriches (Job), and the linking pass which document it writes to        *)
(* (Linker).  That titles are kept follows from the types.                 *)
(*                                                                         *)
(* What a scan brings about - groups linked, contents described - holds    *)
(* when nothing disturbs it.  The second half states what is true, phase   *)
(* by phase, of a scan that is not disturbed (Calm), and proves it         *)
(* inductive on top of the types.                                          *)
(***************************************************************************)
EXTENDS Library, ScanPipeline, TLAPS, FiniteSetTheorems, FunctionTheorems, SequenceTheorems

Maybe(S) == S \cup {None}

Jobs ==
    [at : {"idle", "extract", "ensure", "create", "assign", "read", "write"},
     fp : Maybe(Contents), got : Maybe(Contents), doc : Maybe(Documents),
     saw : Maybe(Metadata)]

\* A task that has begun has its content, and from "ensure" on the metadata.
Job(j) ==
    /\ j \in Jobs
    /\ j.at # "idle" => j.fp \in Contents
    /\ j.at \notin {"idle", "extract"} => j.got \in Contents

Linkers ==
    [at : {"idle", "groups", "merge", "write", "assign"},
     rows : SUBSET Row, todo : SUBSET Groups, doc : Maybe(Documents),
     others : SUBSET Documents, fps : SUBSET Contents,
     saw : Maybe(Metadata), from : Maybe(Metadata)]

\* A group that is being linked has its document.
Linker(k) ==
    /\ k \in Linkers
    /\ k.at \in {"merge", "write", "assign"} => k.doc \in Documents
    /\ k.at = "write" => k.from \in Metadata

Scans == [at : {"idle", "walk", "linking", "completed"},
          found : [Paths -> Maybe(Contents)], seen : SUBSET Paths]

FileRows ==
    /\ file \in [Paths -> Maybe(contents)]
    /\ contents \subseteq Contents

Ids == lastId \in 0..MaxDocuments /\ documents \subseteq 1..lastId

Rows ==
    /\ linked \in [Contents -> Maybe(documents)]
    /\ \A c \in Contents \ contents : linked[c] = None

Metas ==
    /\ meta \in [Documents -> Maybe(Metadata)]
    /\ \A d \in Documents \ documents : meta[d] = None

Counts ==
    /\ scans \in 0..MaxScans /\ changes \in 0..MaxChanges
    /\ scanned \subseteq Paths /\ calm \in BOOLEAN

IInv ==
    /\ disk \in [Paths -> Maybe(Contents)]
    /\ FileRows /\ Ids /\ Rows /\ Metas
    /\ scan \in Scans
    /\ job = [p \in Paths |-> job[p]] /\ \A p \in Paths : Job(job[p])
    /\ Linker(linker)
    /\ form \in [doc : Maybe(Documents), saw : Maybe(Metadata)]
    /\ Counts

-----------------------------------------------------------------------------
LEMMA Constant ==
    /\ GroupOf \in [Paths -> Groups] /\ Described \subseteq Contents
    /\ None \notin Contents /\ None \notin Documents /\ None \notin Metadata
    /\ MaxDocuments \in Nat /\ MaxScans \in Nat /\ MaxChanges \in Nat
  BY LibraryAssumption

LEMMA Idle ==
    /\ Job(IdleJob)
    /\ Linker(IdleLinker) /\ Linker([IdleLinker EXCEPT !.at = "groups"])
    /\ IdleScan \in Scans /\ [IdleScan EXCEPT !.at = "walk"] \in Scans
<1>1. IdleJob \in Jobs
  BY DEF IdleJob, Jobs, Maybe
<1>2. IdleLinker \in Linkers /\ [IdleLinker EXCEPT !.at = "groups"] \in Linkers
  BY DEF IdleLinker, Linkers, Maybe
<1>3. IdleScan \in Scans /\ [IdleScan EXCEPT !.at = "walk"] \in Scans
  BY DEF IdleScan, Scans, NothingFound, Maybe
<1> QED
  BY <1>1, <1>2, <1>3 DEF Job, Linker, IdleJob, IdleLinker

LEMMA InitInv == Init => IInv
<1> SUFFICES ASSUME Init PROVE IInv
  OBVIOUS
<1>1. disk \in [Paths -> Maybe(Contents)] /\ FileRows
  BY DEF Init, FileRows, Maybe
<1>2. Ids /\ Rows /\ Metas
  BY Constant DEF Init, Ids, Rows, Metas, Maybe
<1>3. job = [p \in Paths |-> job[p]] /\ \A p \in Paths : Job(job[p])
  BY Idle DEF Init
<1>4. scan \in Scans /\ Linker(linker)
  BY Idle DEF Init
<1>5. form \in [doc : Maybe(Documents), saw : Maybe(Metadata)] /\ Counts
  BY Constant DEF Init, NoForm, Maybe, Counts
<1> QED
  BY <1>1, <1>2, <1>3, <1>4, <1>5 DEF IInv

-----------------------------------------------------------------------------
(***************************************************************************)
(* What the operators return.                                              *)
(***************************************************************************)
\* Merging keeps a title that is there.
LEMMA MergedKeeps ==
    ASSUME NEW m \in Metadata, NEW n \in Metadata
    PROVE  /\ Merged(m, n) \in Metadata
           /\ m.title # None => Merged(m, n).title = m.title
  BY DEF Merged, Metadata

LEMMA BlankType == Blank \in Metadata
  BY DEF Blank, Metadata

LEMMA StoreKeeps ==
    ASSUME NEW d, NEW saw \in Maybe(Metadata), NEW n \in Metadata,
           Metas, Ids, StoreMerged(d, saw, n), UNCHANGED documents
    PROVE  Metas'
<1>1. Merged(IF saw = None THEN Blank ELSE saw, n) \in Metadata
  BY MergedKeeps, BlankType DEF Maybe
<1>2. CASE d \in documents
  <2>1. d \in Documents
    BY <1>2, Constant DEF Ids, Documents
  <2> QED
    BY <1>1, <1>2, <2>1 DEF StoreMerged, Metas, Maybe
<1>3. CASE d \notin documents
  BY <1>3 DEF StoreMerged, Metas
<1> QED
  BY <1>2, <1>3

\* A title that was read is kept.
LEMMA StoreKeepsTitle ==
    ASSUME NEW d \in Documents, NEW saw \in Maybe(Metadata), NEW n \in Metadata,
           Metas, StoreMerged(d, saw, n), NEW e \in Documents,
           meta[e] # None, meta[e].title # None, d = e => saw = meta[e]
    PROVE  meta'[e].title = meta[e].title
<1>1. CASE d # e
  BY <1>1 DEF StoreMerged, Metas
<1>2. CASE d = e
  <2>1. meta[e] \in Metadata
    BY DEF Metas, Maybe
  <2>2. saw = meta[e] /\ saw # None
    BY <1>2
  <2>3. meta' = meta \/ meta'[e] = Merged(saw, n)
    BY <1>2, <2>2 DEF StoreMerged, Metas
  <2> QED
    BY <2>1, <2>2, <2>3, MergedKeeps
<1> QED
  BY <1>1, <1>2

LEMMA CreateKeeps ==
    ASSUME Ids, Rows, Metas, CreateDocument, UNCHANGED <<contents, linked, meta>>
    PROVE  Ids' /\ Rows' /\ Metas' /\ lastId' \in Documents /\ lastId' \in documents'
<1>1. Ids' /\ lastId' \in Documents /\ lastId' \in documents'
  BY Constant DEF Ids, CreateDocument, Documents
<1>2. Rows' /\ Metas'
  BY DEF Rows, Metas, CreateDocument, Maybe
<1> QED
  BY <1>1, <1>2

LEMMA GotoKeeps ==
    ASSUME IInv, NEW p \in Paths, NEW j, Job(j), JobGoto(p, j)
    PROVE  job' = [q \in Paths |-> job'[q]] /\ \A q \in Paths : Job(job'[q])
  BY DEF IInv, JobGoto

\* What a step leaves alone keeps its part of the invariant.
LEMMA Same ==
    /\ IInv /\ UNCHANGED disk => (disk \in [Paths -> Maybe(Contents)])'
    /\ IInv /\ UNCHANGED <<file, contents>> => FileRows'
    /\ IInv /\ UNCHANGED <<lastId, documents>> => Ids'
    /\ IInv /\ UNCHANGED <<linked, contents, documents>> => Rows'
    /\ IInv /\ UNCHANGED <<meta, documents>> => Metas'
    /\ IInv /\ UNCHANGED scan => scan' \in Scans
    /\ IInv /\ UNCHANGED job => job' = [p \in Paths |-> job'[p]] /\ \A p \in Paths : Job(job'[p])
    /\ IInv /\ UNCHANGED linker => Linker(linker')
    /\ IInv /\ UNCHANGED form => form' \in [doc : Maybe(Documents), saw : Maybe(Metadata)]
    /\ IInv /\ UNCHANGED history => Counts'
  BY DEF IInv, FileRows, Ids, Rows, Metas, Counts, history, Linker

-----------------------------------------------------------------------------
(***************************************************************************)
(* The steps of the scan.                                                  *)
(***************************************************************************)
LEMMA WalkKeeps ==
    ASSUME IInv,
           \/ ScanStart \/ ScanEnd \/ \E p \in Paths : Fingerprint(p)
           \/ \E S \in SUBSET Found : BatchFails(S)
    PROVE  IInv'
<1>1. UNCHANGED <<disk, tables, job, linker, form>>
  BY DEF ScanStart, ScanEnd, Fingerprint, BatchFails, history
<1>2. scan' \in Scans
  <2>1. CASE ScanStart \/ ScanEnd
    BY <2>1, Idle DEF ScanStart, ScanEnd
  <2>2. ASSUME NEW p \in Paths, Fingerprint(p) PROVE scan' \in Scans
    <3>1. disk[p] \in Maybe(Contents)
      BY DEF IInv
    <3> QED
      BY <2>2, <3>1 DEF IInv, Fingerprint, Scans
  <2>3. ASSUME NEW S \in SUBSET Found, BatchFails(S) PROVE scan' \in Scans
    BY <2>3 DEF IInv, BatchFails, Scans, Maybe
  <2> QED
    BY <2>1, <2>2, <2>3
<1>3. Counts'
  <2>1. scans' \in 0..MaxScans
    <3>1. CASE ScanStart
      BY <3>1, Constant DEF IInv, Counts, ScanStart
    <3>2. CASE UNCHANGED scans
      BY <3>2 DEF IInv, Counts
    <3> QED
      BY <3>1, <3>2 DEF ScanEnd, Fingerprint, BatchFails, history
  <2>2. changes' \in 0..MaxChanges /\ scanned' \subseteq Paths
    BY DEF IInv, Counts, ScanStart, ScanEnd, Fingerprint, BatchFails, history
  <2>3. calm' \in BOOLEAN
    BY Zenon DEF IInv, Counts, ScanStart, ScanEnd, Fingerprint, BatchFails, history, Quiet
  <2> QED
    BY <2>1, <2>2, <2>3 DEF Counts
<1> QED
  BY <1>1, <1>2, <1>3, Same DEF IInv, tables

LEMMA WriteBatchKeeps ==
    ASSUME IInv, NEW S \in SUBSET Found, WriteBatch(S)
    PROVE  IInv'
<1>1. \A p \in S : scan.found[p] \in Contents
  BY DEF IInv, Scans, Found, Maybe
<1>2. FileRows'
  <2>1. contents' \subseteq Contents /\ contents \subseteq contents'
    BY <1>1 DEF IInv, FileRows, WriteBatch, WriteScannedFiles
  <2>2. \A p \in S : scan.found[p] \in contents'
    BY DEF WriteBatch, WriteScannedFiles
  <2>3. file' = [p \in Paths |-> IF p \in NewOrUpdated(S) THEN scan.found[p] ELSE file[p]]
    BY DEF WriteBatch, WriteScannedFiles
  <2>4. NewOrUpdated(S) \subseteq S /\ \A p \in Paths : file[p] \in Maybe(contents)
    BY DEF NewOrUpdated, IInv, FileRows
  <2> QED
    BY <2>1, <2>2, <2>3, <2>4 DEF FileRows, Maybe
<1>3. Rows'
  BY DEF IInv, Rows, WriteBatch, WriteScannedFiles
<1>4. job' = [p \in Paths |-> job'[p]] /\ \A p \in Paths : Job(job'[p])
  <2>1. \A p \in S : Job([IdleJob EXCEPT !.at = "extract", !.fp = scan.found[p]])
    BY <1>1 DEF IdleJob, Job, Jobs, Maybe
  <2> QED
    BY <2>1 DEF IInv, WriteBatch, NewOrUpdated
<1>5. scan' \in Scans
  BY DEF IInv, WriteBatch, Scans, Maybe
<1>6. Counts'
  BY DEF IInv, Counts, WriteBatch, NewOrUpdated, Found
<1>7. UNCHANGED <<disk, documents, lastId, meta, linker, form>>
  BY DEF WriteBatch
<1> QED
  BY <1>2, <1>3, <1>4, <1>5, <1>6, <1>7, Same DEF IInv

LEMMA EnrichKeeps ==
    ASSUME IInv, NEW p \in Paths, Enrich(p)
    PROVE  IInv'
<1> DEFINE j == job[p]
<1>1. Job(j) /\ j \in Jobs
  BY DEF IInv, Job
<1>2. UNCHANGED <<disk, file, contents, scan, linker, form, history>>
  BY DEF Enrich, Extract, EnsureSelect, EnsureCreate, EnsureAssign, MergeRead, MergeWrite, tables
<1>3. (\E k : Job(k) /\ JobGoto(p, k)) /\ Ids' /\ Rows' /\ Metas'
  <2>1. CASE Extract(p)
    <3>1. disk[p] \in Described => Job([j EXCEPT !.at = "ensure", !.got = disk[p]])
      BY <1>1, <2>1, Constant DEF Extract, Job, Jobs, Maybe
    <3>2. \E k : Job(k) /\ JobGoto(p, k)
      BY <2>1, <3>1, Idle DEF Extract
    <3> QED
      BY <2>1, <3>2, Same DEF Extract, tables
  <2>2. CASE EnsureSelect(p)
    <3>1. linked[j.fp] \in Maybe(Documents)
      <4>1. j.fp \in Contents
        BY <1>1, <2>2 DEF EnsureSelect, Job
      <4>2. documents \subseteq Documents
        BY Constant DEF IInv, Ids, Documents
      <4> QED
        BY <4>1, <4>2 DEF IInv, Rows, Maybe
    <3>2. Job([j EXCEPT !.at = "create"]) /\ Job([j EXCEPT !.at = "read", !.doc = linked[j.fp]])
      BY <1>1, <2>2, <3>1 DEF EnsureSelect, Job, Jobs
    <3>3. \E k : Job(k) /\ JobGoto(p, k)
      BY <2>2, <3>2 DEF EnsureSelect
    <3> QED
      BY <2>2, <3>3, Same DEF EnsureSelect, tables
  <2>3. CASE EnsureCreate(p)
    <3>1. Ids' /\ Rows' /\ Metas' /\ lastId' \in Documents
      BY <2>3, CreateKeeps DEF IInv, EnsureCreate
    <3>2. Job([j EXCEPT !.at = "assign", !.doc = lastId'])
      BY <1>1, <2>3, <3>1 DEF EnsureCreate, Job, Jobs, Maybe
    <3> QED
      BY <2>3, <3>1, <3>2 DEF EnsureCreate
  <2>4. CASE EnsureAssign(p)
    <3>1. Job([j EXCEPT !.at = "read"])
      BY <1>1, <2>4 DEF EnsureAssign, Job, Jobs
    <3>2. \E k : Job(k) /\ JobGoto(p, k)
      BY <2>4, <3>1, Idle DEF EnsureAssign
    <3>3. Rows'
      BY <2>4 DEF IInv, FileRows, Rows, EnsureAssign, Maybe
    <3> QED
      BY <2>4, <3>2, <3>3, Same DEF EnsureAssign
  <2>5. CASE MergeRead(p)
    <3>1. j.doc \in documents => meta[j.doc] \in Maybe(Metadata)
      BY Constant DEF IInv, Ids, Metas, Documents
    <3>2. j.doc \in documents => Job([j EXCEPT !.at = "write", !.saw = meta[j.doc]])
      BY <1>1, <2>5, <3>1 DEF MergeRead, Job, Jobs
    <3>3. \E k : Job(k) /\ JobGoto(p, k)
      BY <2>5, <3>2, Idle DEF MergeRead
    <3> QED
      BY <2>5, <3>3, Same DEF MergeRead, tables
  <2>6. CASE MergeWrite(p)
    <3>1. j.saw \in Maybe(Metadata) /\ Extracted(j.got) \in Metadata
      BY <1>1, <2>6 DEF MergeWrite, Job, Jobs, Extracted, Metadata
    <3>2. Metas'
      BY <2>6, <3>1, StoreKeeps DEF IInv, MergeWrite
    <3> QED
      BY <2>6, <3>2, Idle, Same DEF MergeWrite
  <2> QED
    BY <2>1, <2>2, <2>3, <2>4, <2>5, <2>6 DEF Enrich
<1>4. job' = [q \in Paths |-> job'[q]] /\ \A q \in Paths : Job(job'[q])
  BY <1>3, GotoKeeps
<1> QED
  BY <1>2, <1>3, <1>4, Same DEF IInv

-----------------------------------------------------------------------------
(***************************************************************************)
(* The steps of the linking pass.                                          *)
(***************************************************************************)
LEMMA SnapshotType == IInv => Snapshot \in SUBSET Row
<1> SUFFICES ASSUME IInv, NEW p \in Paths, file[p] # None
             PROVE  [path |-> p, fp |-> file[p], doc |-> linked[file[p]]] \in Row
  BY DEF Snapshot
<1>1. file[p] \in Contents
  BY DEF IInv, FileRows, Maybe
<1>2. linked[file[p]] \in Documents \cup {None}
  BY <1>1, Constant DEF IInv, Ids, Rows, Maybe, Documents
<1> QED
  BY <1>1, <1>2 DEF Row

\* What a step of the pass does to the pass.
LEMMA LinkerKeeps ==
    ASSUME IInv, Link
    PROVE  Linker(linker')
<1> DEFINE k == linker
<1>1. Linker(k) /\ k \in Linkers
  BY DEF IInv, Linker
<1>2. CASE LinkStart
  <2>1. Snapshot \in SUBSET Row
    BY SnapshotType
  <2>2. {GroupOf[r.path] : r \in Snapshot} \in SUBSET Groups
    BY <2>1, Constant DEF Row
  <2>3. linker' = [IdleLinker EXCEPT !.at = "groups", !.rows = Snapshot,
                                     !.todo = {GroupOf[r.path] : r \in Snapshot}]
    BY <1>2 DEF LinkStart
  <2> HIDE DEF k
  <2> QED
    BY <2>1, <2>2, <2>3 DEF IdleLinker, Linker, Linkers, Maybe
<1>3. ASSUME NEW g \in Groups, SkipGroup(g) PROVE Linker(linker')
  BY <1>1, <1>3 DEF SkipGroup, Linker, Linkers
<1>4. ASSUME NEW g \in Groups, BeginGroup(g) PROVE Linker(linker')
  <2>1. RowsOf(g) \in SUBSET Row
    BY <1>1 DEF RowsOf, Linkers
  <2>2. DocsOf(g) \in SUBSET Documents /\ {r.fp : r \in RowsOf(g)} \in SUBSET Contents
    BY <2>1 DEF DocsOf, Row
  <2>3. DocsOf(g) = {} /\ CreateDocument => lastId' \in Documents
    BY CreateKeeps, Constant DEF IInv, Ids, CreateDocument, Documents
  <2>4. PICK d \in Documents :
            linker' = [k EXCEPT !.at = "merge", !.todo = @ \ {g}, !.doc = d,
                                !.others = DocsOf(g) \ {d},
                                !.fps = {r.fp : r \in RowsOf(g)}]
    BY <1>4, <2>2, <2>3 DEF BeginGroup
  <2>5. DocsOf(g) \ {d} \in SUBSET Documents
    BY <2>2
  <2> QED
    BY <1>1, <2>2, <2>4, <2>5 DEF Linker, Linkers, Maybe
<1>5. CASE LinkRead
  <2>1. \A d \in Documents : meta[d] \in Maybe(Metadata)
    BY DEF IInv, Metas
  <2>2. CASE linker' = [k EXCEPT !.at = "assign"]
    BY <1>1, <1>5, <2>2 DEF LinkRead, Linker, Linkers
  <2>3. ASSUME NEW d \in k.others,
               linker' = [k EXCEPT
                            !.at = IF meta[d] = None THEN "merge" ELSE "write",
                            !.others = @ \ {d},
                            !.from = meta[d],
                            !.saw = IF meta[d] = None THEN None ELSE meta[k.doc]]
        PROVE  Linker(linker')
    <3>1. d \in Documents /\ k.doc \in Documents
      BY <1>1, <1>5 DEF LinkRead, Linker, Linkers
    <3>2. meta[d] \in Maybe(Metadata) /\ meta[k.doc] \in Maybe(Metadata)
      BY <2>1, <3>1
    <3>3. None \in Maybe(Metadata) /\ (meta[d] # None => meta[d] \in Metadata)
      BY <3>2 DEF Maybe
    <3> QED
      BY <1>1, <2>3, <3>1, <3>2, <3>3 DEF Linker, Linkers
  <2> QED
    BY <1>5, <2>2, <2>3 DEF LinkRead
<1>6. CASE LinkWrite
  <2>1. CASE LinkFails
    BY <2>1, Idle DEF LinkFails
  <2>2. CASE linker' = [k EXCEPT !.at = "merge", !.saw = None, !.from = None]
    BY <1>1, <1>6, <2>2 DEF LinkWrite, Linker, Linkers, Maybe
  <2> QED
    BY <1>6, <2>1, <2>2 DEF LinkWrite
<1>7. CASE LinkAssign
  <2>1. CASE LinkFails
    BY <2>1, Idle DEF LinkFails
  <2>2. ASSUME NEW c \in k.fps,
               linker' = [k EXCEPT !.fps = @ \ {c},
                                   !.at = IF k.fps = {c} THEN "groups" ELSE "assign"]
        PROVE  Linker(linker')
    BY <1>1, <1>7, <2>2 DEF LinkAssign, Linker, Linkers
  <2> QED
    BY <1>7, <2>1, <2>2 DEF LinkAssign
<1>8. CASE LinkDone
  BY <1>8, Idle DEF LinkDone
<1> QED
  BY <1>2, <1>3, <1>4, <1>5, <1>6, <1>7, <1>8 DEF Link

LEMMA LinkKeeps ==
    ASSUME IInv, Link
    PROVE  IInv'
<1>1. UNCHANGED <<disk, file, contents, job, form, history>>
  BY DEF Link, LinkStart, SkipGroup, BeginGroup, LinkRead, LinkWrite, LinkAssign,
         LinkDone, tables
<1>2. scan' \in Scans
  BY DEF IInv, Scans, Link, LinkStart, SkipGroup, BeginGroup, LinkRead, LinkWrite,
         LinkAssign, LinkDone
<1>3. Ids' /\ Rows' /\ Metas'
  <2>1. CASE UNCHANGED tables
    BY <2>1, Same DEF tables
  <2>2. ASSUME NEW g \in Groups, BeginGroup(g) PROVE Ids' /\ Rows' /\ Metas'
    <3>1. UNCHANGED <<contents, linked, meta>>
      BY <2>2 DEF BeginGroup
    <3>2. CASE UNCHANGED <<documents, lastId>>
      BY <3>1, <3>2, Same
    <3>3. CASE CreateDocument
      BY <3>1, <3>3, CreateKeeps DEF IInv
    <3> QED
      BY <2>2, <3>2, <3>3 DEF BeginGroup
  <2>3. CASE LinkWrite
    <3>1. UNCHANGED <<contents, documents, lastId, linked>>
      BY <2>3 DEF LinkWrite, LinkFails
    <3>2. CASE UNCHANGED meta
      BY <3>1, <3>2, Same
    <3>3. CASE StoreMerged(linker.doc, linker.saw, linker.from)
      <4>1. linker.saw \in Maybe(Metadata) /\ linker.from \in Metadata
        BY <2>3 DEF IInv, Linker, Linkers, LinkWrite
      <4> QED
        BY <3>1, <3>3, <4>1, StoreKeeps, Same DEF IInv
    <3> QED
      BY <2>3, <3>2, <3>3 DEF LinkWrite, LinkFails
  <2>4. CASE LinkAssign
    <3>1. UNCHANGED <<contents, documents, lastId, meta>>
      BY <2>4 DEF LinkAssign, LinkFails
    <3>2. linker.fps \subseteq Contents
      BY DEF IInv, Linker, Linkers
    <3>3. Rows'
      BY <2>4, <3>1, <3>2 DEF IInv, Rows, LinkAssign, LinkFails, Maybe
    <3> QED
      BY <3>1, <3>3, Same
  <2> QED
    BY <2>1, <2>2, <2>3, <2>4 DEF Link, LinkStart, SkipGroup, LinkRead, LinkDone
<1> QED
  BY <1>1, <1>2, <1>3, LinkerKeeps, Same DEF IInv

LEMMA CrashKeeps ==
    ASSUME IInv, Crash
    PROVE  IInv'
<1>1. job' = [p \in Paths |-> job'[p]] /\ \A p \in Paths : Job(job'[p])
  BY Idle DEF Crash
<1>2. scan' \in Scans /\ Linker(linker')
  BY Idle DEF Crash
<1>3. form' \in [doc : Maybe(Documents), saw : Maybe(Metadata)]
  BY DEF Crash, NoForm, Maybe
<1>4. Counts'
  BY DEF IInv, Crash, Counts
<1> QED
  BY <1>1, <1>2, <1>3, <1>4, Same DEF IInv, Crash, tables

-----------------------------------------------------------------------------
(***************************************************************************)
(* The steps of the user.                                                  *)
(***************************************************************************)
LEMMA CountsKept ==
    ASSUME IInv, Change, Disturbing, UNCHANGED scans, scanned' \subseteq scanned
    PROVE  Counts'
<1>1. changes' \in 0..MaxChanges
  BY Constant DEF IInv, Counts, Change
<1>2. calm' \in BOOLEAN
  BY Zenon DEF IInv, Counts, Disturbing, Quiet
<1> QED
  BY <1>1, <1>2 DEF IInv, Counts

LEMMA ImportKeeps ==
    ASSUME IInv, NEW p \in Paths, Import(p)
    PROVE  IInv'
<1>1. disk[p] \in Contents
  BY DEF IInv, Import, Maybe
<1>2. FileRows' /\ file'[p] \in Contents
  BY <1>1 DEF IInv, FileRows, Import, Maybe
<1>3. Rows'
  BY DEF IInv, Rows, Import
<1>4. job' = [q \in Paths |-> job'[q]] /\ \A q \in Paths : Job(job'[q])
  <2>1. Job([IdleJob EXCEPT !.at = "ensure", !.fp = file'[p], !.got = disk[p]])
    BY <1>1, <1>2 DEF IdleJob, Job, Jobs, Maybe
  <2>2. \E j : Job(j) /\ JobGoto(p, j)
    BY <2>1, Idle DEF Import
  <2> QED
    BY <2>2, GotoKeeps
<1>5. Counts'
  BY CountsKept DEF Import
<1>6. UNCHANGED <<disk, documents, lastId, meta, scan, linker, form>>
  BY DEF Import
<1> QED
  BY <1>2, <1>3, <1>4, <1>5, <1>6, Same DEF IInv

LEMMA MergeDocumentsKeeps ==
    ASSUME IInv, NEW w \in Documents, NEW l \in Documents, MergeDocuments(w, l)
    PROVE  IInv'
<1>1. w \in documents /\ l \in documents /\ w # l
  BY DEF MergeDocuments
<1>2. Ids' /\ Rows'
  <2>1. linked' = [c \in Contents |-> IF linked[c] = l THEN w ELSE linked[c]]
    BY DEF MergeDocuments
  <2>2. documents' = documents \ {l} /\ contents' = contents /\ lastId' = lastId
    BY DEF MergeDocuments
  <2>3. l # None
    BY Constant
  <2>4. Rows'
    BY <1>1, <2>1, <2>2, <2>3 DEF IInv, Rows, Maybe
  <2> QED
    BY <2>2, <2>4 DEF IInv, Ids
<1>3. Metas'
  <2>1. meta[l] \in Maybe(Metadata) /\ meta[w] \in Maybe(Metadata)
    BY DEF IInv, Metas
  <2> DEFINE m == IF meta[l] = None THEN meta[w]
                  ELSE Merged(IF meta[w] = None THEN Blank ELSE meta[w], meta[l])
  <2>2. m \in Maybe(Metadata)
    BY <2>1, MergedKeeps, BlankType DEF Maybe
  <2>3. meta' = [meta EXCEPT ![w] = m, ![l] = None] /\ documents' = documents \ {l}
    BY DEF MergeDocuments, IInv, Metas
  <2> HIDE DEF m
  <2> QED
    BY <1>1, <2>2, <2>3 DEF IInv, Metas, Maybe
<1>4. Counts'
  BY CountsKept DEF MergeDocuments
<1>5. UNCHANGED <<disk, file, contents, scan, job, linker, form>>
  BY DEF MergeDocuments
<1> QED
  BY <1>2, <1>3, <1>4, <1>5, Same DEF IInv

\* The document goes only when nothing is linked to it any more: its own
\* contents are unlinked, and those without a row are linked to nothing.
LEMMA RemoveContentKeeps ==
    ASSUME IInv, NEW d \in Documents, NEW c \in Contents, NEW kept,
           RemoveContent(d, c, kept)
    PROVE  IInv'
<1>1. disk' \in [Paths -> Maybe(Contents)]
  BY DEF IInv, RemoveContent, Maybe
<1>2. FileRows'
  BY DEF IInv, FileRows, RemoveContent, FilesOf, Maybe
<1>3. linked' \in [Contents -> Maybe(documents)] /\ \A e \in Contents \ contents' : linked'[e] = None
  BY DEF IInv, Rows, RemoveContent, Maybe
<1>4. CASE \A e \in contents' : linked'[e] # d
  <2>1. documents' = documents \ {d} /\ meta' = [meta EXCEPT ![d] = None]
    BY <1>4 DEF RemoveContent
  <2>2. d # None
    BY Constant
  <2>3. Rows'
    BY <1>3, <1>4, <2>1, <2>2 DEF Rows, Maybe
  <2>4. Ids' /\ Metas'
    BY <2>1 DEF IInv, Ids, Metas, Maybe, RemoveContent
  <2> QED
    BY <1>1, <1>2, <2>3, <2>4, CountsKept, Same DEF IInv, RemoveContent
<1>5. CASE ~ \A e \in contents' : linked'[e] # d
  <2>1. documents' = documents /\ meta' = meta
    BY <1>5 DEF RemoveContent
  <2>2. Rows' /\ Ids' /\ Metas'
    BY <1>3, <2>1 DEF IInv, Rows, Ids, Metas, RemoveContent
  <2> QED
    BY <1>1, <1>2, <2>2, CountsKept, Same DEF IInv, RemoveContent
<1> QED
  BY <1>4, <1>5

LEMMA RemoveFileKeeps ==
    ASSUME IInv, NEW p \in Paths, RemoveFile(p)
    PROVE  IInv'
<1>1. (disk \in [Paths -> Maybe(Contents)])' /\ FileRows'
  BY DEF IInv, FileRows, RemoveFile, Maybe
<1> QED
  BY <1>1, CountsKept, Same DEF IInv, RemoveFile, tasks

LEMMA FormKeeps ==
    ASSUME IInv, SaveForm \/ \E d \in Documents : OpenForm(d)
    PROVE  IInv'
<1>1. CASE SaveForm
  <2>1. form'  \in [doc : Maybe(Documents), saw : Maybe(Metadata)]
    BY <1>1 DEF SaveForm, NoForm, Maybe
  <2> DEFINE m == [title |-> User,
                   authors |-> IF form.saw = None THEN {} ELSE form.saw.authors]
  <2>2. m \in Metadata
    BY DEF IInv, Maybe, Metadata
  <2>3. meta' = meta \/ (form.doc \in documents /\ meta' = [meta EXCEPT ![form.doc] = m])
    BY <1>1 DEF SaveForm
  <2>4. documents' = documents
    BY <1>1 DEF SaveForm
  <2> HIDE DEF m
  <2>5. Metas'
    BY <2>2, <2>3, <2>4 DEF IInv, Metas, Maybe
  <2> QED
    BY <1>1, <2>1, <2>5, Same DEF IInv, SaveForm
<1>2. ASSUME NEW d \in Documents, OpenForm(d) PROVE IInv'
  <2>1. form' \in [doc : Maybe(Documents), saw : Maybe(Metadata)]
    BY <1>2 DEF OpenForm, IInv, Metas, Maybe
  <2> QED
    BY <1>2, <2>1, CountsKept, Same DEF IInv, OpenForm, tables
<1> QED
  BY <1>1, <1>2

LEMMA DiskChangeKeeps ==
    ASSUME IInv, NEW p \in Paths, NEW c \in Maybe(Contents), DiskChange(p, c)
    PROVE  IInv'
<1>1. (disk \in [Paths -> Maybe(Contents)])'
  BY DEF IInv, DiskChange
<1>2. Counts'
  <2>1. changes' \in 0..MaxChanges
    BY Constant DEF IInv, Counts, DiskChange, Change
  <2>2. calm' \in BOOLEAN
    BY Zenon DEF IInv, Counts, DiskChange
  <2> QED
    BY <2>1, <2>2 DEF IInv, Counts, DiskChange
<1> QED
  BY <1>1, <1>2, Same DEF IInv, DiskChange, tables, tasks

-----------------------------------------------------------------------------
LEMMA NextInv == IInv /\ [Next]_vars => IInv'
<1> SUFFICES ASSUME IInv, [Next]_vars PROVE IInv'
  OBVIOUS
<1>1. CASE ScanStart \/ ScanEnd
  BY <1>1, WalkKeeps
<1>2. CASE Crash
  BY <1>2, CrashKeeps
<1>3. CASE Link
  BY <1>3, LinkKeeps
<1>4. CASE ByUser
  BY <1>4, FormKeeps, ImportKeeps, RemoveFileKeeps, MergeDocumentsKeeps, RemoveContentKeeps
     DEF ByUser
<1>5. ASSUME NEW p \in Paths,
             \/ Fingerprint(p) \/ Enrich(p)
             \/ \E c \in Contents \cup {None} : DiskChange(p, c)
      PROVE  IInv'
  BY <1>5, WalkKeeps, EnrichKeeps, DiskChangeKeeps DEF Maybe
<1>6. ASSUME NEW S \in SUBSET Found, WriteBatch(S) \/ BatchFails(S)
      PROVE  IInv'
  BY <1>6, WalkKeeps, WriteBatchKeeps
<1>7. CASE UNCHANGED vars
  BY <1>7, Same DEF IInv, vars, tables, tasks
<1> QED
  BY <1>1, <1>2, <1>3, <1>4, <1>5, <1>6, <1>7 DEF Next

LEMMA Invariance == Spec => []IInv
  BY InitInv, NextInv, PTL DEF Spec

(***************************************************************************)
(* Every row that is referred to is there, whoever writes and removes.     *)
(***************************************************************************)
THEOREM TypeCorrect == Spec => []TypeOK
<1>1. IInv => TypeOK
  <2> SUFFICES ASSUME IInv PROVE TypeOK
    OBVIOUS
  <2>1. job \in [Paths -> Jobs] /\ linker \in Linkers
    BY DEF IInv, Job, Linker
  <2> QED
    BY <2>1 DEF IInv, FileRows, Ids, Rows, Metas, Counts, Scans, Jobs, Linkers, Maybe, TypeOK
<1> QED
  BY <1>1, Invariance, PTL

(***************************************************************************)
(* Only the user replaces a title, and a merge that had read the row       *)
(* before it was given its title.                                          *)
(***************************************************************************)
LEMMA TitleStep ==
    ASSUME IInv, [Next]_vars, NEW d \in documents \cap documents',
           meta[d] # None, meta[d].title # None, meta'[d].title # meta[d].title,
           ~(form.doc = d /\ form' = NoForm)
    PROVE  \E w \in Writers : w.at = "write" /\ w.doc = d /\ w.saw # meta[d]
<1>0. d \in Documents /\ meta[d] \in Metadata
  BY Constant DEF IInv, Ids, Documents, Metas, Maybe
<1>1. meta' # meta
  OBVIOUS
<1>2. ASSUME NEW p \in Paths, MergeWrite(p)
      PROVE  job[p].at = "write" /\ job[p].doc = d /\ job[p].saw # meta[d]
  <2>1. Job(job[p]) /\ job[p] \in Jobs
    BY DEF IInv, Job
  <2>2. job[p].saw \in Maybe(Metadata) /\ Extracted(job[p].got) \in Metadata
    BY <1>2, <2>1 DEF MergeWrite, Job, Jobs, Extracted, Metadata
  <2>3. job[p].doc \in Documents
    BY <1>1, <1>2, <2>1, Constant DEF MergeWrite, StoreMerged, IInv, Ids, Documents
  <2> QED
    BY <1>0, <1>2, <2>2, <2>3, StoreKeepsTitle DEF MergeWrite, IInv
<1>3. CASE LinkWrite
  <2>1. linker.saw \in Maybe(Metadata) /\ linker.from \in Metadata /\ linker.doc \in Documents
    BY <1>3 DEF IInv, Linker, Linkers, LinkWrite
  <2>2. StoreMerged(linker.doc, linker.saw, linker.from)
    BY <1>1, <1>3 DEF LinkWrite, LinkFails
  <2>3. linker.at = "write" /\ linker.doc = d /\ linker.saw # meta[d]
    BY <1>0, <1>3, <2>1, <2>2, StoreKeepsTitle DEF LinkWrite, IInv
  <2> QED
    BY <2>3 DEF Writers
<1>4. ASSUME NEW w \in Documents, NEW l \in Documents, MergeDocuments(w, l) PROVE FALSE
  <2>1. d # l
    BY <1>4 DEF MergeDocuments
  <2>2. d = w /\ meta[l] # None /\ meta'[d] = Merged(meta[d], meta[l])
    BY <1>0, <1>4, <2>1 DEF MergeDocuments, IInv, Metas
  <2>3. meta[l] \in Metadata
    BY <2>2 DEF IInv, Metas, Maybe
  <2> QED
    BY <1>0, <2>2, <2>3, MergedKeeps
<1>5. ASSUME NEW e \in Documents, NEW c \in Contents, NEW kept, RemoveContent(e, c, kept)
      PROVE  FALSE
  BY <1>0, <1>1, <1>5 DEF RemoveContent, IInv, Metas
<1>6. CASE SaveForm
  BY <1>0, <1>6 DEF SaveForm, IInv, Metas
<1>7. CASE \E p \in Paths : MergeWrite(p)
  BY <1>2, <1>7 DEF Writers
<1>8. CASE UNCHANGED meta
  BY <1>1, <1>8
<1>9. CASE ByUser
  BY <1>4, <1>5, <1>6, <1>8, <1>9
     DEF ByUser, Import, RemoveFile, OpenForm, tables
<1>10. CASE Link
  BY <1>3, <1>8, <1>10
     DEF Link, LinkStart, SkipGroup, BeginGroup, LinkRead, LinkAssign, LinkFails, LinkDone, tables
<1>11. CASE \E p \in Paths : Enrich(p)
  BY <1>7, <1>8, <1>11
     DEF Enrich, Extract, EnsureSelect, EnsureCreate, EnsureAssign, MergeRead, tables
<1> QED
  BY <1>7, <1>8, <1>9, <1>10, <1>11
     DEF Next, vars, tables, ScanStart, ScanEnd, Crash, Fingerprint, DiskChange,
         WriteBatch, BatchFails

THEOREM Titles == Spec => TitlesKept
<1> DEFINE Kept ==
      \A d \in documents \cap documents' :
          meta[d] # None =>
            \/ meta[d].title = None \/ meta'[d].title = meta[d].title
            \/ form.doc = d /\ form' = NoForm
            \/ \E w \in Writers : w.at = "write" /\ w.doc = d /\ w.saw # meta[d]
<1>1. IInv /\ [Next]_vars => [Kept]_vars
  BY TitleStep
<1>2. Spec => [][Kept]_vars
  BY <1>1, Invariance, PTL DEF Spec
<1> QED
  BY <1>2 DEF TitlesKept

(***************************************************************************)
(* Linking and enrichment, as long as nothing disturbs them (calm).  What  *)
(* holds depends on where the scan is:                                     *)
(*   - at rest, one import at most or one editor is under way, and every   *)
(*     content that a scan has found is described by its document;         *)
(*   - in the walk, what was fingerprinted is what the disk has, a content *)
(*     that is not described yet has a task on its way to do it (Coming),  *)
(*     no task loses what another one has written (Stores), and tasks for  *)
(*     two contents meet at a document only when it tells of both (Rivals);*)
(*   - in the linking pass, the rows of the snapshot are true but for the  *)
(*     links of the groups that are done (SnapshotTrue), the document of   *)
(*     the group in hand gets what its contents need (LinkerTold), and the *)
(*     groups that are done are linked (GroupsLinked).                     *)
(***************************************************************************)
Authors(m) == IF m = None THEN {} ELSE m.authors
WithDoc == {"assign", "read", "write"}

\* The contents that a scan has found and that can be described.
Needs == {file[p] : p \in scanned} \cap Described
Told == \A c \in Needs : IsDescribed(c)

\* A task that is about to write loses nothing of what the row has by now.
Stores(p) ==
    LET j == job[p]
    IN  /\ j.at \in WithDoc => j.doc \in documents
        /\ j.at = "write" =>
              /\ meta[j.doc] = None => j.saw = None
              /\ Authors(j.saw) \cup {j.got} = Authors(meta[j.doc]) \cup {j.got}
              /\ j.saw = None /\ meta[j.doc] # None => Tells(meta[j.doc], j.got)

FormAlone ==
    form # NoForm =>
        /\ Enriching = {}
        /\ form.doc \in documents
        /\ form.saw = meta[form.doc]

ImportAlone ==
    \A p \in Enriching :
        /\ job[p].at # "extract"
        /\ job[p].at \in {"create", "assign"} => linked[job[p].fp] = None
        /\ \A q \in Enriching : q = p

AtRest == FormAlone /\ ImportAlone /\ Told /\ \A p \in Paths : Stores(p)

Walked(p) ==
    /\ p \notin scan.seen => scan.found[p] = None
    /\ scan.found[p] # None => scan.found[p] = disk[p]
    /\ p \in scan.seen /\ scan.found[p] = None /\ disk[p] # None => file[p] = disk[p]
    /\ job[p].at # "idle" =>
          /\ job[p].fp = file[p] /\ file[p] = disk[p]
          /\ job[p].at # "extract" =>
                job[p].got = job[p].fp /\ job[p].fp \in Described

\* The documents a task may write to.
Touches(p) ==
    ({linked[job[p].fp]} \cup (IF job[p].at \in WithDoc THEN {job[p].doc} ELSE {}))
        \ {None}

Rivals(p, q) ==
    LET c == job[p].fp
        e == job[q].fp
    IN  {c, e} \subseteq Described /\ c # e =>
            \A d \in Touches(p) \cap Touches(q) :
                Tells(meta[d], c) /\ Tells(meta[d], e)

OnTheWay(p, c) ==
    /\ job[p].fp = c
    /\ \/ job[p].at \in {"extract", "ensure", "create", "assign"}
       \/ (job[p].at \in {"read", "write"} /\ job[p].doc = linked[c])

Coming == \A c \in Needs : IsDescribed(c) \/ \E p \in Paths : OnTheWay(p, c)

InWalk ==
    /\ form = NoForm
    /\ \A p \in Paths : Walked(p) /\ Stores(p)
    /\ \A p, q \in Enriching : Rivals(p, q)
    /\ Coming

\* After the walk: all that is on the disk is in the library.
Written ==
    /\ form = NoForm /\ Enriching = {}
    /\ \A p \in Paths : disk[p] # None => file[p] = disk[p]
    /\ Told

SnapshotTrue ==
    /\ \A p \in Paths : file[p] # None => \E r \in linker.rows : r.path = p
    /\ \A r \in linker.rows :
          /\ file[r.path] = r.fp
          /\ r.doc \in documents \cup {None}
          /\ r.fp \in Needs => r.doc # None /\ Tells(meta[r.doc], r.fp)

OnGroup == {"merge", "write", "assign"}

\* The group's document has the metadata of c, or will have it.
Gets(c) ==
    \/ Tells(meta[linker.doc], c)
    \/ \E d \in linker.others : Tells(meta[d], c)
    \/ (linker.at = "write" /\ Tells(linker.from, c))

LinkerTold ==
    linker.at \in OnGroup =>
        /\ linker.doc \in documents
        /\ linker.at = "write" => linker.saw = meta[linker.doc]
        /\ linker.at = "assign" => linker.others = {}
        /\ \A c \in linker.fps \cap Needs : Gets(c)

\* The contents that still have to be linked to the group's document.
Open == IF linker.at \in OnGroup THEN linker.fps ELSE {}

AreLinked(c, e) ==
    \/ /\ linked[c] # None /\ linked[c] = linked[e]
       /\ c \notin Open /\ e \notin Open
    \/ /\ linker.at \in OnGroup
       /\ \A f \in {c, e} : f \in linker.fps \/ linked[f] = linker.doc

GroupsLinked ==
    /\ \A r \in linker.rows :
          GroupOf[r.path] \in linker.todo => linked[r.fp] = r.doc
    /\ \A c \in Open : \E p \in Paths : file[p] = c /\ GroupOf[p] \notin linker.todo
    /\ \A p, q \in Paths :
          /\ file[p] # None /\ file[q] # None /\ file[p] # file[q]
          /\ GroupOf[p] = GroupOf[q] /\ GroupOf[p] \notin linker.todo
          => AreLinked(file[p], file[q])

Calm ==
    /\ scan.at = "idle" => AtRest
    /\ scan.at = "walk" => InWalk
    /\ scan.at = "linking" =>
          Written /\ SnapshotTrue /\ LinkerTold /\ (Separate => GroupsLinked)
    /\ scan.at = "completed" => Written /\ (Separate => LinkedTogether)

CalmInv ==
    /\ \A p \in scanned : file[p] # None
    /\ linker.at # "idle" => scan.at = "linking"
    /\ calm => Calm

-----------------------------------------------------------------------------
LEMMA Plain ==
    ASSUME IInv
    PROVE  /\ \A p \in Paths : file[p] \in Contents \cup {None} /\ disk[p] \in Contents \cup {None}
           /\ \A p \in Paths : file[p] # None => file[p] \in contents /\ file[p] \in Contents
           /\ documents \subseteq Documents /\ None \notin Documents
           /\ \A c \in Contents : linked[c] \in documents \cup {None}
           /\ \A d \in Documents : meta[d] # None => meta[d] \in Metadata
           /\ \A p \in Paths : job[p] \in Jobs
           /\ \A p \in Paths : job[p].at # "idle" => job[p].fp \in Contents
           /\ \A p \in Paths : job[p].at \notin {"idle", "extract"} => job[p].got \in Contents
           /\ scanned \subseteq Paths /\ Needs \subseteq Contents
           /\ DOMAIN linked = Contents /\ DOMAIN meta = Documents /\ DOMAIN file = Paths
           /\ DOMAIN disk = Paths
<1>1. FileRows /\ Ids /\ Rows /\ Metas /\ Counts
  BY DEF IInv
<1>2. \A p \in Paths : file[p] \in Contents \cup {None} /\ disk[p] \in Contents \cup {None}
  BY <1>1 DEF IInv, FileRows, Maybe
<1>3. \A p \in Paths : file[p] # None => file[p] \in contents /\ file[p] \in Contents
  BY <1>1 DEF FileRows, Maybe
<1>4. documents \subseteq Documents
  BY <1>1, Constant DEF Ids, Documents
<1>5. \A c \in Contents : linked[c] \in documents \cup {None}
  BY <1>1 DEF Rows, Maybe
<1>6. \A d \in Documents : meta[d] # None => meta[d] \in Metadata
  BY <1>1 DEF Metas, Maybe
<1>7. \A p \in Paths : Job(job[p])
  BY DEF IInv
<1>8. scanned \subseteq Paths /\ Needs \subseteq Contents
  BY <1>1, Constant DEF Counts, Needs
<1>9. DOMAIN linked = Contents /\ DOMAIN meta = Documents /\ DOMAIN file = Paths /\ DOMAIN disk = Paths
  BY <1>1 DEF IInv, Rows, Metas, FileRows
<1> QED
  BY <1>2, <1>3, <1>4, <1>5, <1>6, <1>7, <1>8, <1>9, Constant DEF Job

LEMMA MergedAuthors ==
    ASSUME NEW m, NEW n
    PROVE  Merged(m, n).authors = m.authors \cup n.authors
  BY DEF Merged

\* What a merge does to a row, when it brings all that the row has.
LEMMA StoreTells ==
    ASSUME IInv, NEW d \in documents, NEW saw \in Maybe(Metadata), NEW n \in Metadata,
           StoreMerged(d, saw, n), Authors(meta[d]) \subseteq Authors(saw) \cup n.authors
    PROVE  /\ \A c : \A e \in Documents : Tells(meta[e], c) => Tells(meta'[e], c)
           /\ \A e \in Documents \ {d} : meta'[e] = meta[e]
           /\ saw = None /\ meta[d] # None => meta' = meta
           /\ ~(saw = None /\ meta[d] # None) =>
                 /\ meta'[d] # None
                 /\ Authors(meta'[d]) = Authors(saw) \cup n.authors
<1>1. d \in Documents /\ DOMAIN meta = Documents
  BY Plain
<1> DEFINE m == Merged(IF saw = None THEN Blank ELSE saw, n)
<1>2. m \in Metadata
  BY MergedKeeps, BlankType DEF Maybe
<1>3. m # None
  BY <1>2, Constant
<1>4. m.authors = Authors(saw) \cup n.authors
  BY MergedAuthors DEF Authors, Blank
<1>5. CASE saw = None /\ meta[d] # None
  BY <1>5 DEF StoreMerged
<1>6. CASE ~(saw = None /\ meta[d] # None)
  <2>1. meta' = [meta EXCEPT ![d] = m]
    BY <1>6 DEF StoreMerged
  <2>2. meta'[d] = m /\ \A e \in Documents \ {d} : meta'[e] = meta[e]
    BY <1>1, <2>1
  <2> HIDE DEF m
  <2>3. Authors(meta'[d]) = Authors(saw) \cup n.authors
    BY <1>3, <1>4, <2>2 DEF Authors
  <2>4. \A c : \A e \in Documents : Tells(meta[e], c) => Tells(meta'[e], c)
    <3> SUFFICES ASSUME NEW e \in Documents, NEW c, Tells(meta[e], c) PROVE Tells(meta'[e], c)
      OBVIOUS
    <3>1. CASE e = d
      BY <3>1, <1>3, <2>2, <2>3 DEF Tells, Authors
    <3> QED
      BY <3>1, <2>2
  <2> QED
    BY <1>3, <1>6, <2>2, <2>3, <2>4
<1> QED
  BY <1>5, <1>6
-----------------------------------------------------------------------------
LEMMA NeedsSame == UNCHANGED <<file, scanned>> => Needs' = Needs
  BY DEF Needs

LEMMA DescribedSame == UNCHANGED <<linked, meta>> => \A c : IsDescribed(c)' <=> IsDescribed(c)
  BY DEF IsDescribed, Tells

LEMMA IdleStores ==
    ASSUME NEW p
    PROVE  /\ job[p].at \in {"idle", "extract", "ensure", "create"} => Stores(p)
           /\ job'[p].at \in {"idle", "extract", "ensure", "create"} => Stores(p)'
  BY DEF Stores, WithDoc

\* What the guard Quiet says of the tasks.
LEMMA QuietTasks ==
    Quiet => /\ scan.at = "idle" /\ form = NoForm /\ Enriching = {}
             /\ \A p \in Paths : job[p].at = "idle"
  BY DEF Quiet, Enriching, IdleJob

LEMMA ScanStartCalm ==
    ASSUME IInv, CalmInv, ScanStart
    PROVE  CalmInv'
<1>0. UNCHANGED <<disk, file, contents, linked, documents, meta, job, linker, form, scanned>>
  BY DEF ScanStart, tables
<1>1. scan'.at = "walk" /\ scan'.seen = {} /\ scan'.found = NothingFound /\ scan.at = "idle"
  BY DEF ScanStart, IdleScan
<1>2. ASSUME calm' PROVE InWalk'
  <2>1. calm /\ Quiet
    BY <1>2 DEF ScanStart
  <2>2. AtRest
    BY <1>1, <2>1 DEF CalmInv, Calm
  <2>3. form' = NoForm /\ \A p \in Paths : job'[p].at = "idle"
    BY <1>0, <2>1, QuietTasks
  <2>4. \A p \in Paths : Walked(p)' /\ Stores(p)'
    BY <1>1, <2>3, IdleStores DEF Walked, NothingFound
  <2>5. Enriching' = {}
    BY <2>3 DEF Enriching
  <2>6. Coming'
    BY <1>0, <2>2, NeedsSame, DescribedSame DEF Coming, AtRest, Told
  <2> QED
    BY <2>3, <2>4, <2>5, <2>6 DEF InWalk
<1> QED
  BY <1>0, <1>1, <1>2 DEF CalmInv, Calm

LEMMA ScanEndCalm ==
    ASSUME IInv, CalmInv, ScanEnd
    PROVE  CalmInv'
<1>0. UNCHANGED <<disk, file, contents, linked, documents, meta, job, linker, form, scanned, calm>>
  BY DEF ScanEnd, tables, history
<1>1. scan'.at = "idle" /\ scan.at = "completed"
  BY DEF ScanEnd, IdleScan
<1>2. ASSUME calm' PROVE AtRest'
  <2>1. Written
    BY <1>0, <1>1, <1>2 DEF CalmInv, Calm
  <2>2. form' = NoForm /\ Enriching' = {} /\ \A p \in Paths : job'[p].at = "idle"
    BY <1>0, <2>1 DEF Written, Enriching
  <2>3. Told'
    BY <1>0, <2>1, NeedsSame, DescribedSame DEF Written, Told
  <2> QED
    BY <2>2, <2>3, IdleStores DEF AtRest, FormAlone, ImportAlone
<1> QED
  BY <1>0, <1>1, <1>2 DEF CalmInv, Calm

LEMMA FingerprintCalm ==
    ASSUME IInv, CalmInv, NEW p \in Paths, Fingerprint(p)
    PROVE  CalmInv'
<1>0. UNCHANGED <<disk, file, contents, linked, documents, meta, job, linker, form, scanned, calm>>
  BY DEF Fingerprint, tables, history
<1>1. /\ scan.at = "walk" /\ scan'.at = "walk" /\ scan'.seen = scan.seen \cup {p}
      /\ \A q \in Paths : scan'.found[q] = IF q = p THEN disk[p] ELSE scan.found[q]
  BY DEF Fingerprint, IInv, Scans
<1>2. ASSUME calm' PROVE InWalk'
  <2>1. InWalk
    BY <1>0, <1>1, <1>2 DEF CalmInv, Calm
  <2>2. \A q \in Paths : Walked(q)'
    BY <1>0, <1>1, <2>1 DEF InWalk, Walked
  <2>3. \A q \in Paths : Stores(q)'
    BY <1>0, <2>1 DEF InWalk, Stores, Tells
  <2>4. Enriching' = Enriching /\ \A q, r \in Enriching : Rivals(q, r)'
    BY <1>0, <2>1 DEF InWalk, Rivals, Touches, Tells, Enriching
  <2>5. Coming'
    BY <1>0, <2>1, NeedsSame, DescribedSame DEF InWalk, Coming, OnTheWay
  <2> QED
    BY <1>0, <2>1, <2>2, <2>3, <2>4, <2>5 DEF InWalk
<1> QED
  BY <1>0, <1>1, <1>2 DEF CalmInv, Calm

LEMMA WriteBatchCalm ==
    ASSUME IInv, CalmInv, NEW S \in SUBSET Found, WriteBatch(S)
    PROVE  CalmInv'
<1> DEFINE N == NewOrUpdated(S)
<1>0. UNCHANGED <<disk, linked, documents, meta, linker, form>>
  BY DEF WriteBatch
<1>1. N \subseteq S /\ S \subseteq Paths /\ \A p \in S : scan.found[p] # None
  BY DEF NewOrUpdated, Found
<1>2. \A p \in Paths : file'[p] = IF p \in N THEN scan.found[p] ELSE file[p]
  BY DEF WriteBatch, WriteScannedFiles
<1>3. \A p \in Paths :
         job'[p] = IF p \in N THEN [IdleJob EXCEPT !.at = "extract", !.fp = scan.found[p]]
                   ELSE job[p]
  BY DEF WriteBatch
<1>4. \A p \in N : job'[p].at = "extract" /\ job'[p].fp = scan.found[p]
  BY <1>1, <1>3 DEF IdleJob
<1>5. /\ scan.at = "walk" /\ scan'.at = "walk" /\ scan'.seen = scan.seen
      /\ \A p \in Paths : scan'.found[p] = IF p \in S THEN None ELSE scan.found[p]
  BY DEF WriteBatch, IInv, Scans
<1>6. Enriching = {} /\ scanned' = scanned \cup N /\ calm' = (calm /\ Apart(S))
  BY DEF WriteBatch
<1>7. \A p \in Paths \ N : job'[p].at = "idle"
  BY <1>3, <1>6 DEF Enriching
<1>8. \A p \in scanned' : file'[p] # None
  BY <1>1, <1>2, <1>6, Plain DEF CalmInv
<1> HIDE DEF N
<1>9. ASSUME calm' PROVE InWalk'
  <2>1. InWalk /\ Apart(S)
    BY <1>5, <1>6, <1>9 DEF CalmInv, Calm
  <2>2. form' = NoForm
    BY <1>0, <2>1 DEF InWalk
  <2>3. \A p \in S : scan.found[p] = disk[p] /\ p \in scan.seen /\ (p \notin N => file[p] = disk[p])
    BY <1>1, <2>1 DEF InWalk, Walked, NewOrUpdated, N
  <2>4. \A p \in Paths : Walked(p)'
    <3> SUFFICES ASSUME NEW p \in Paths PROVE Walked(p)'
      OBVIOUS
    <3>1. Walked(p)
      BY <2>1 DEF InWalk
    <3>2. CASE p \in N
      BY <1>0, <1>1, <1>2, <1>4, <1>5, <2>3, <3>2 DEF Walked
    <3>3. CASE p \notin N
      BY <1>0, <1>1, <1>2, <1>5, <1>7, <2>3, <3>1, <3>3 DEF Walked
    <3> QED
      BY <3>2, <3>3
  <2>5. \A p \in Paths : Stores(p)'
    BY <1>4, <1>7, IdleStores
  <2>6. ASSUME NEW p \in Enriching', NEW q \in Enriching' PROVE Rivals(p, q)'
    <3>1. p \in N /\ q \in N
      BY <1>7 DEF Enriching
    <3> DEFINE c == scan.found[p]
               e == scan.found[q]
    <3>2. job'[p].fp = c /\ job'[q].fp = e /\ Touches(p)' = {linked[c]} \ {None}
                /\ Touches(q)' = {linked[e]} \ {None}
      BY <1>0, <1>4, <3>1 DEF Touches, WithDoc
    <3>3. /\ {c, e} \subseteq Described /\ c # e /\ linked[c] # None /\ linked[c] = linked[e]
          => IsDescribed(c) /\ IsDescribed(e)
      BY <2>1, <3>1 DEF Apart, N
    <3> HIDE DEF c, e
    <3> QED
      BY <1>0, <3>2, <3>3 DEF Rivals, IsDescribed, Tells
  <2>7. Coming'
    <3> SUFFICES ASSUME NEW c \in Needs' PROVE IsDescribed(c)' \/ \E p \in Paths : OnTheWay(p, c)'
      BY DEF Coming
    <3>1. PICK p \in scanned' : c = file'[p] /\ c \in Described
      BY DEF Needs
    <3>2. CASE p \in N
      BY <1>1, <1>2, <1>4, <3>1, <3>2 DEF OnTheWay
    <3>3. CASE p \notin N
      <4>1. p \in scanned /\ p \in Paths
        BY <1>6, <3>3, Plain
      <4>2. c \in Needs
        BY <1>2, <3>1, <3>3, <4>1 DEF Needs
      <4>3. IsDescribed(c)
        BY <1>6, <2>1, <4>2 DEF InWalk, Coming, OnTheWay, Enriching
      <4> QED
        BY <1>0, <4>3, DescribedSame
    <3> QED
      BY <3>2, <3>3
  <2> QED
    BY <2>2, <2>4, <2>5, <2>6, <2>7 DEF InWalk
<1>10. (linker.at # "idle" => scan.at = "linking")'
  BY <1>0, <1>5 DEF CalmInv
<1> QED
  BY <1>5, <1>8, <1>9, <1>10 DEF CalmInv, Calm
-----------------------------------------------------------------------------
(***************************************************************************)
(* The tasks.                                                              *)
(***************************************************************************)
LEMMA TaskRuns ==
    ASSUME IInv, CalmInv, calm, NEW p \in Paths, job[p].at # "idle"
    PROVE  /\ form = NoForm /\ \A q \in Paths : Stores(q)
           /\ \/ scan.at = "idle" /\ AtRest
              \/ scan.at = "walk" /\ InWalk
           /\ linker.at = "idle"
           /\ \A q \in Paths : scan.at = "idle" /\ job[q].at # "idle" => q = p
<1>1. Calm /\ p \in Enriching
  BY DEF CalmInv, Enriching
<1>2. scan.at \in {"idle", "walk"}
  BY <1>1 DEF IInv, Scans, Calm, Written
<1>3. CASE scan.at = "idle"
  BY <1>1, <1>3 DEF Calm, AtRest, FormAlone, ImportAlone, Enriching, CalmInv
<1>4. CASE scan.at = "walk"
  BY <1>1, <1>4 DEF Calm, InWalk, CalmInv
<1> QED
  BY <1>2, <1>3, <1>4

LEMMA TouchesType ==
    ASSUME IInv, NEW p \in Paths, job[p].at # "idle", Stores(p)
    PROVE  Touches(p) \subseteq documents
  BY Plain DEF Touches, Stores

\* What the step of one task has to show.
LEMMA TaskCalm ==
    ASSUME IInv, CalmInv, NEW p \in Paths, NEW j, JobGoto(p, j), job[p].at # "idle",
           UNCHANGED <<disk, file, contents, scan, linker, form, history>>,
           calm => \A q \in Paths : Stores(q)',
           calm /\ scan.at = "idle" =>
              /\ Told'
              /\ j.at # "extract"
              /\ j.at \in {"create", "assign"} => linked'[j.fp] = None,
           calm /\ scan.at = "walk" =>
              /\ Walked(p)'
              /\ \A q, r \in Enriching' : Rivals(q, r)'
              /\ Coming'
    PROVE  CalmInv'
<1>1. \A q \in Paths : job'[q] = IF q = p THEN j ELSE job[q]
  BY DEF JobGoto, IInv
<1>2. ASSUME calm' PROVE Calm'
  <2>1. calm
    BY <1>2 DEF history
  <2>2. /\ form = NoForm
        /\ \/ scan.at = "idle" /\ AtRest
           \/ scan.at = "walk" /\ InWalk
        /\ \A q \in Paths : scan.at = "idle" /\ job[q].at # "idle" => q = p
    BY <2>1, TaskRuns
  <2>3. CASE scan.at = "idle"
    <3>1. Enriching' \subseteq {p}
      BY <1>1, <2>2, <2>3 DEF Enriching
    <3>2. ImportAlone' /\ FormAlone'
      BY <1>1, <2>1, <2>2, <2>3, <3>1 DEF ImportAlone, FormAlone
    <3>3. AtRest'
      BY <2>1, <2>3, <3>2 DEF AtRest
    <3> QED
      BY <2>3, <3>3 DEF Calm
  <2>4. CASE scan.at = "walk"
    <3>1. InWalk
      BY <2>2, <2>4
    <3>2. \A q \in Paths \ {p} : Walked(q)'
      BY <1>1, <3>1 DEF InWalk, Walked
    <3>3. InWalk'
      BY <2>1, <2>2, <2>4, <3>2 DEF InWalk
    <3> QED
      BY <2>4, <3>3 DEF Calm
  <2> QED
    BY <2>2, <2>3, <2>4
<1> QED
  BY <1>2 DEF CalmInv, history

LEMMA RivalsKept ==
    ASSUME \A p, q \in Enriching : Rivals(p, q),
           \A p \in Enriching' : /\ p \in Enriching /\ job'[p].fp = job[p].fp
                                 /\ Touches(p)' \subseteq Touches(p)
                                 /\ Touches(p) \subseteq Documents,
           \A c : \A d \in Documents : Tells(meta[d], c) => Tells(meta'[d], c)
    PROVE  \A p, q \in Enriching' : Rivals(p, q)'
<1> SUFFICES ASSUME NEW p \in Enriching', NEW q \in Enriching' PROVE Rivals(p, q)'
  OBVIOUS
<1>1. Rivals(p, q)
  OBVIOUS
<1> DEFINE c == job[p].fp
           e == job[q].fp
<1>2. job'[p].fp = c /\ job'[q].fp = e
  OBVIOUS
<1>3. \A d \in Touches(p)' \cap Touches(q)' :
         d \in Touches(p) \cap Touches(q) /\ d \in Documents
  OBVIOUS
<1>4. {c, e} \subseteq Described /\ c # e =>
         \A d \in Touches(p) \cap Touches(q) : Tells(meta[d], c) /\ Tells(meta[d], e)
  BY <1>1 DEF Rivals
<1>5. {c, e} \subseteq Described /\ c # e =>
         \A d \in Touches(p)' \cap Touches(q)' : Tells(meta'[d], c) /\ Tells(meta'[d], e)
  <2> HIDE DEF c, e
  <2> QED
    BY <1>3, <1>4
<1> HIDE DEF c, e
<1> QED
  BY <1>2, <1>5 DEF Rivals, Tells

LEMMA ComingKept ==
    ASSUME Coming, NEW p \in Paths, UNCHANGED <<file, scanned, linked>>,
           \A q \in Paths \ {p} : job'[q] = job[q],
           \A c \in Needs : IsDescribed(c) => IsDescribed(c)',
           \A c \in Needs : OnTheWay(p, c) => OnTheWay(p, c)' \/ IsDescribed(c)'
    PROVE  Coming'
<1>1. Needs' = Needs
  BY NeedsSame
<1> SUFFICES ASSUME NEW c \in Needs PROVE IsDescribed(c)' \/ \E q \in Paths : OnTheWay(q, c)'
  BY <1>1 DEF Coming
<1>2. CASE IsDescribed(c)
  BY <1>2
<1>3. ASSUME NEW q \in Paths, OnTheWay(q, c), q # p
      PROVE  OnTheWay(q, c)'
  BY <1>3 DEF OnTheWay
<1>4. CASE OnTheWay(p, c)
  BY <1>4
<1> QED
  BY <1>2, <1>3, <1>4 DEF Coming

\* A step of a task that leaves the rows alone and touches nothing new.
LEMMA QuietTaskCalm ==
    ASSUME IInv, CalmInv, NEW p \in Paths, NEW j, JobGoto(p, j), job[p].at # "idle",
           UNCHANGED <<disk, tables, scan, linker, form, history>>,
           j.at = "idle" \/ j.fp = job[p].fp,
           calm => /\ j.at # "extract"
                   /\ j.at \in {"create", "assign"} => linked[j.fp] = None
                   /\ j.at \in WithDoc =>
                         /\ j.doc \in documents
                         /\ j.doc = linked[j.fp] \/ (job[p].at \in WithDoc /\ j.doc = job[p].doc)
                   /\ j.at = "write" => j.saw = meta[j.doc]
                   /\ Walked(p) => Walked(p)',
           calm => \A c \in Described : OnTheWay(p, c) => OnTheWay(p, c)'
    PROVE  CalmInv'
<1>0. UNCHANGED <<file, linked, documents, meta, scanned>>
  BY DEF tables, history
<1>1. job'[p] = j /\ \A q \in Paths \ {p} : job'[q] = job[q]
  BY DEF JobGoto, IInv
<1>2. calm => \A q \in Paths : Stores(q)'
  <2> SUFFICES ASSUME calm, NEW q \in Paths PROVE Stores(q)'
    OBVIOUS
  <2>1. Stores(q)
    BY TaskRuns
  <2>2. CASE q # p
    BY <1>0, <1>1, <2>1, <2>2 DEF Stores, Tells
  <2>3. CASE q = p
    BY <1>0, <1>1, <2>3 DEF Stores, Tells
  <2> QED
    BY <2>2, <2>3
<1>3. \A c : IsDescribed(c) => IsDescribed(c)'
  BY <1>0, DescribedSame
<1>4. ASSUME calm, scan.at = "idle" PROVE Told'
  <2>1. Told
    BY <1>4, TaskRuns DEF AtRest
  <2> QED
    BY <1>0, <1>3, <2>1, NeedsSame DEF Told
<1>5. ASSUME calm, scan.at = "walk" 
      PROVE  Walked(p)' /\ (\A q, r \in Enriching' : Rivals(q, r)') /\ Coming'
  <2>1. InWalk
    BY <1>5, TaskRuns
  <2>2. Coming'
    <3>1. Coming
      BY <2>1 DEF InWalk
    <3>2. Needs \subseteq Described
      BY DEF Needs
    <3>3. \A c \in Needs : OnTheWay(p, c) => OnTheWay(p, c)' \/ IsDescribed(c)'
      BY <1>5, <3>2
    <3>4. \A c \in Needs : IsDescribed(c) => IsDescribed(c)'
      BY <1>3
    <3> QED
      BY <1>0, <1>1, <3>1, <3>3, <3>4, ComingKept
  <2>3. ASSUME NEW q \in Enriching'
        PROVE  q \in Enriching /\ job'[q].fp = job[q].fp /\ Touches(q)' \subseteq Touches(q)
               /\ Touches(q) \subseteq Documents
    <3>1. q \in Enriching /\ job[q].at # "idle" /\ q \in Paths
      BY <1>1, <2>3 DEF Enriching
    <3>2. job'[q].fp = job[q].fp
      BY <1>1, <2>3 DEF Enriching
    <3>3. Touches(q) \subseteq Documents
      BY <2>1, <3>1, TouchesType, Plain DEF InWalk
    <3>4. CASE q # p
      BY <1>0, <1>1, <3>1, <3>2, <3>3, <3>4 DEF Touches
    <3>5. CASE q = p
      BY <1>0, <1>1, <1>5, <3>1, <3>2, <3>3, <3>5 DEF Touches
    <3> QED
      BY <3>1, <3>2, <3>3, <3>4, <3>5
  <2>4. \A c : \A d \in Documents : Tells(meta[d], c) => Tells(meta'[d], c)
    BY <1>0
  <2>5. \A q, r \in Enriching : Rivals(q, r)
    BY <2>1 DEF InWalk
  <2>6. \A q, r \in Enriching' : Rivals(q, r)'
    BY <2>3, <2>4, <2>5, RivalsKept
  <2> QED
    BY <1>5, <2>1, <2>2, <2>6 DEF InWalk
<1>6. UNCHANGED <<disk, file, contents, scan, linker, form, history>>
  BY DEF tables
<1>7. calm /\ scan.at = "idle" =>
         /\ j.at # "extract"
         /\ j.at \in {"create", "assign"} => linked'[j.fp] = None
  BY <1>0
<1> QED
  BY <1>2, <1>4, <1>5, <1>6, <1>7, TaskCalm

LEMMA ExtractCalm ==
    ASSUME IInv, CalmInv, NEW p \in Paths, Extract(p)
    PROVE  CalmInv'
<1> DEFINE i == job[p]
           j == IF disk[p] \in Described
                THEN [i EXCEPT !.at = "ensure", !.got = disk[p]] ELSE IdleJob
<1>1. /\ i.at = "extract" /\ JobGoto(p, j) /\ i \in Jobs
      /\ UNCHANGED <<disk, tables, scan, linker, form, history>>
  BY Plain DEF Extract
<1>2. j.at \in {"idle", "ensure"} /\ (j.at = "idle" => disk[p] \notin Described)
      /\ (j.at = "ensure" => j.fp = i.fp /\ j.got = disk[p] /\ disk[p] \in Described)
  BY <1>1 DEF Jobs, IdleJob
<1> PICK k : k = j
  OBVIOUS
<1>3. job'[p] = k
  BY <1>1 DEF JobGoto, IInv
<1>4. ASSUME calm PROVE scan.at = "walk" /\ i.fp = disk[p] /\ file[p] = disk[p]
  <2>1. scan.at = "walk" /\ InWalk
    BY <1>1, <1>4, TaskRuns DEF AtRest, ImportAlone, Enriching
  <2> QED
    BY <1>1, <2>1 DEF InWalk, Walked
<1>5. calm => (Walked(p) => Walked(p)')
  BY <1>1, <1>2, <1>3, <1>4 DEF Walked, tables
<1>6. calm => \A c \in Described : OnTheWay(p, c) => OnTheWay(p, c)'
  BY <1>1, <1>2, <1>3, <1>4 DEF OnTheWay
<1>7. k.at \notin WithDoc /\ k.at # "write"
  BY <1>2 DEF WithDoc
<1> HIDE DEF j
<1> QED
  BY <1>1, <1>2, <1>5, <1>6, <1>7, QuietTaskCalm

LEMMA EnsureSelectCalm ==
    ASSUME IInv, CalmInv, NEW p \in Paths, EnsureSelect(p)
    PROVE  CalmInv'
<1> DEFINE i == job[p]
           d == linked[i.fp]
           j == IF d = None THEN [i EXCEPT !.at = "create"]
                ELSE [i EXCEPT !.at = "read", !.doc = d]
<1>1. /\ i.at = "ensure" /\ JobGoto(p, j) /\ i \in Jobs
      /\ UNCHANGED <<disk, tables, scan, linker, form, history>>
  BY Plain DEF EnsureSelect
<1>2. /\ j.at \in {"create", "read"} /\ j.fp = i.fp /\ j.got = i.got
      /\ j.at = "create" => d = None
      /\ j.at = "read" => d # None /\ j.doc = d
  BY <1>1 DEF Jobs
<1>3. d \in documents \cup {None}
  BY <1>1, Plain
<1> PICK k : k = j
  OBVIOUS
<1>4. job'[p] = k
  BY <1>1 DEF JobGoto, IInv
<1>5. Walked(p) => Walked(p)'
  BY <1>1, <1>2, <1>4 DEF Walked, tables
<1>6. \A c \in Described : OnTheWay(p, c) => OnTheWay(p, c)'
  BY <1>1, <1>2, <1>4 DEF OnTheWay, tables
<1>7. /\ k.at # "extract" /\ k.at # "write"
      /\ k.at \in {"create", "assign"} => linked[k.fp] = None
      /\ k.at \in WithDoc => k.doc \in documents /\ k.doc = linked[k.fp]
  BY <1>2, <1>3 DEF WithDoc
<1>8. k.fp = i.fp /\ i.at # "idle" /\ JobGoto(p, k)
  BY <1>1, <1>2
<1> HIDE DEF j, d
<1> QED
  BY <1>1, <1>5, <1>6, <1>7, <1>8, QuietTaskCalm

LEMMA MergeReadCalm ==
    ASSUME IInv, CalmInv, NEW p \in Paths, MergeRead(p)
    PROVE  CalmInv'
<1> DEFINE i == job[p]
           j == IF i.doc \in documents
                THEN [i EXCEPT !.at = "write", !.saw = meta[i.doc]] ELSE IdleJob
<1>1. /\ i.at = "read" /\ JobGoto(p, j) /\ i \in Jobs
      /\ UNCHANGED <<disk, tables, scan, linker, form, history>>
  BY Plain DEF MergeRead
<1>2. /\ j.at \in {"idle", "write"}
      /\ i.doc \in documents => j.at = "write"
      /\ j.at = "write" => /\ j.fp = i.fp /\ j.got = i.got /\ j.doc = i.doc
                           /\ j.saw = meta[i.doc]
  BY <1>1 DEF Jobs, IdleJob
<1> PICK k : k = j
  OBVIOUS
<1>3. job'[p] = k
  BY <1>1 DEF JobGoto, IInv
<1>4. calm => i.doc \in documents
  BY <1>1, TaskRuns DEF Stores, WithDoc
<1>5. Walked(p) => Walked(p)'
  BY <1>1, <1>2, <1>3 DEF Walked, tables
<1>6. calm => \A c \in Described : OnTheWay(p, c) => OnTheWay(p, c)'
  BY <1>1, <1>2, <1>3, <1>4 DEF OnTheWay, tables
<1>7. k.at \in {"idle", "write"} /\ i.at \in WithDoc
  BY <1>1, <1>2 DEF WithDoc
<1>8. k.at = "write" => k.fp = i.fp /\ k.doc = i.doc /\ k.saw = meta[k.doc]
  BY <1>2
<1>9. k.at = "idle" \/ k.fp = i.fp
  BY <1>2
<1>10. calm =>
              /\ k.at # "extract"
              /\ k.at \in {"create", "assign"} => linked[k.fp] = None
              /\ k.at \in WithDoc =>
                    /\ k.doc \in documents
                    /\ k.doc = linked[k.fp] \/ (i.at \in WithDoc /\ k.doc = i.doc)
              /\ k.at = "write" => k.saw = meta[k.doc]
              /\ Walked(p) => Walked(p)'
  BY <1>4, <1>5, <1>7, <1>8 DEF WithDoc
<1>11. JobGoto(p, k) /\ i.at # "idle"
  BY <1>1
<1>12. UNCHANGED <<disk, tables, scan, linker, form, history>>
  BY <1>1
<1> HIDE DEF j
<1> QED
  BY <1>6, <1>9, <1>10, <1>11, <1>12, QuietTaskCalm

LEMMA EnsureCreateCalm ==
    ASSUME IInv, CalmInv, NEW p \in Paths, EnsureCreate(p)
    PROVE  CalmInv'
<1> DEFINE i == job[p]
           d == lastId'
<1> PICK j : j = [i EXCEPT !.at = "assign", !.doc = d]
  OBVIOUS
<1>1. /\ i.at = "create" /\ JobGoto(p, j) /\ i \in Jobs
      /\ UNCHANGED <<disk, file, contents, linked, meta, scan, linker, form, history>>
      /\ UNCHANGED scanned
  BY Plain DEF EnsureCreate, history
<1>2. j.at = "assign" /\ j.fp = i.fp /\ j.got = i.got /\ j.doc = d
  BY <1>1 DEF Jobs
<1>3. job'[p] = j /\ \A q \in Paths \ {p} : job'[q] = job[q]
  BY <1>1 DEF JobGoto, IInv
<1>4. d \notin documents /\ documents' = documents \cup {d}
  BY DEF EnsureCreate, CreateDocument, IInv, Ids
<1>5. calm => \A q \in Paths : Stores(q)'
  <2> SUFFICES ASSUME calm, NEW q \in Paths PROVE Stores(q)'
    OBVIOUS
  <2>1. Stores(q)
    BY <1>1, TaskRuns
  <2>2. CASE q # p
    BY <1>1, <1>3, <1>4, <2>1, <2>2 DEF Stores, Tells
  <2>3. CASE q = p
    BY <1>1, <1>2, <1>3, <1>4, <2>3 DEF Stores, Tells
  <2> QED
    BY <2>2, <2>3
<1>6. \A c : IsDescribed(c) => IsDescribed(c)'
  BY <1>1, DescribedSame
<1>7. ASSUME calm, scan.at = "idle" PROVE Told' /\ linked'[j.fp] = None
  <2>1. AtRest
    BY <1>1, <1>7, TaskRuns
  <2>2. Told'
    BY <1>1, <1>6, <2>1, NeedsSame DEF AtRest, Told
  <2>3. linked[i.fp] = None
    BY <1>1, <2>1 DEF AtRest, ImportAlone, Enriching
  <2> QED
    BY <1>1, <1>2, <2>2, <2>3
<1>8. ASSUME calm, scan.at = "walk"
      PROVE  Walked(p)' /\ (\A q, r \in Enriching' : Rivals(q, r)') /\ Coming'
  <2>1. InWalk
    BY <1>1, <1>8, TaskRuns
  <2>2. Walked(p)'
    BY <1>1, <1>2, <1>3, <2>1 DEF InWalk, Walked
  <2>3. Coming'
    <3>1. \A c \in Needs : OnTheWay(p, c) => OnTheWay(p, c)' \/ IsDescribed(c)'
      BY <1>1, <1>2, <1>3 DEF OnTheWay
    <3>2. \A c \in Needs : IsDescribed(c) => IsDescribed(c)'
      BY <1>6
    <3> QED
      BY <1>1, <1>3, <2>1, <3>1, <3>2, ComingKept DEF InWalk
  <2>4. ASSUME NEW q \in Enriching', NEW r \in Enriching' PROVE Rivals(q, r)'
    <3>1. q \in Enriching /\ r \in Enriching /\ q \in Paths /\ r \in Paths
      BY <1>1, <1>2, <1>3 DEF Enriching
    <3>2. job'[q].fp = job[q].fp /\ job'[r].fp = job[r].fp
      BY <1>2, <1>3, <3>1
    <3>3. Rivals(q, r)
      BY <2>1, <3>1 DEF InWalk
    <3>4. Touches(q) \subseteq documents /\ Touches(r) \subseteq documents
      BY <2>1, <3>1, TouchesType DEF InWalk, Enriching
    <3>5. \A s \in {q, r} : Touches(s)' = Touches(s) \/ (s = p /\ Touches(s)' \subseteq Touches(s) \cup {d})
      <4> SUFFICES ASSUME NEW s \in {q, r}
                   PROVE  \/ Touches(s)' = Touches(s)
                          \/ s = p /\ Touches(s)' \subseteq Touches(s) \cup {d}
        OBVIOUS
      <4>1. CASE s = p
        BY <1>1, <1>2, <1>3, <4>1 DEF Touches
      <4>2. CASE s # p
        BY <1>1, <1>3, <3>1, <4>2 DEF Touches
      <4> QED
        BY <4>1, <4>2
    <3>6. ASSUME job[q].fp # job[r].fp
          PROVE  Touches(q)' \cap Touches(r)' \subseteq Touches(q) \cap Touches(r)
      <4>1. q # r
        BY <3>6
      <4> QED
        BY <1>4, <3>4, <3>5, <4>1
    <3> QED
      BY <1>1, <3>2, <3>3, <3>6 DEF Rivals, Tells
  <2> QED
    BY <2>2, <2>3, <2>4
<1>9. j.at # "extract" /\ i.at # "idle"
  BY <1>1, <1>2
<1>10. UNCHANGED <<disk, file, contents, scan, linker, form, history>>
  BY <1>1
<1> HIDE DEF d
<1> QED
  BY <1>1, <1>5, <1>7, <1>8, <1>9, <1>10, TaskCalm

\* The tasks for one content may be linked to several new documents, one
\* after the other; the last of them still has to write to the last one.
LEMMA EnsureAssignCalm ==
    ASSUME IInv, CalmInv, NEW p \in Paths, EnsureAssign(p)
    PROVE  CalmInv'
<1> DEFINE i == job[p]
<1> PICK f : f = i.fp
  OBVIOUS
<1> PICK d : d = i.doc
  OBVIOUS
<1> PICK j : j = [i EXCEPT !.at = "read"]
  OBVIOUS
<1>1. /\ i.at = "assign" /\ i \in Jobs
      /\ UNCHANGED <<disk, file, contents, documents, meta, scan, linker, form, history, scanned>>
      /\ f \in Contents /\ DOMAIN linked = Contents
  BY Plain DEF EnsureAssign, history
<1>2. j.at = "read" /\ j.fp = f /\ j.got = i.got /\ j.doc = d
  BY <1>1 DEF Jobs
<1>3. CASE calm
  <2>1. d \in documents
    BY <1>1, <1>3, TaskRuns DEF Stores, WithDoc
  <2>2. JobGoto(p, j) /\ linked' = IF f \in contents THEN [linked EXCEPT ![f] = d] ELSE linked
    BY <2>1 DEF EnsureAssign
  <2>3. job'[p] = j /\ \A q \in Paths \ {p} : job'[q] = job[q]
    BY <2>2 DEF JobGoto, IInv
  <2>4. \A c \in Contents : c # f => linked'[c] = linked[c]
    BY <1>1, <2>2
  <2>5. \A q \in Paths : Stores(q)'
    <3> SUFFICES ASSUME NEW q \in Paths PROVE Stores(q)'
      OBVIOUS
    <3>1. Stores(q)
      BY <1>1, <1>3, TaskRuns
    <3>2. CASE q # p
      BY <1>1, <2>3, <3>1, <3>2 DEF Stores, Tells
    <3>3. CASE q = p
      BY <1>1, <1>2, <2>1, <2>3, <3>3 DEF Stores, Tells
    <3> QED
      BY <3>2, <3>3
  <2>6. \A c \in Contents : c # f => (IsDescribed(c)' <=> IsDescribed(c))
    BY <1>1, <2>4 DEF IsDescribed, Tells
  <2>7. Needs' = Needs /\ Needs \subseteq Contents
    BY <1>1, NeedsSame, Plain
  <2>8. ASSUME scan.at = "idle" PROVE Told'
    <3>1. AtRest
      BY <1>1, <1>3, <2>8, TaskRuns
    <3>2. linked[f] = None
      BY <1>1, <3>1 DEF AtRest, ImportAlone, Enriching
    <3>3. f \notin Needs
      BY <3>1, <3>2 DEF AtRest, Told, IsDescribed
    <3> QED
      BY <2>6, <2>7, <3>1, <3>3 DEF Told, AtRest
  <2>9. ASSUME scan.at = "walk"
        PROVE  Walked(p)' /\ (\A q, r \in Enriching' : Rivals(q, r)') /\ Coming'
    <3>1. InWalk
      BY <1>1, <1>3, <2>9, TaskRuns
    <3>2. Walked(p)'
      BY <1>1, <1>2, <2>3, <3>1 DEF InWalk, Walked
    <3>3. f \in contents
      <4>1. f = file[p]
        BY <1>1, <3>1 DEF InWalk, Walked
      <4> QED
        BY <1>1, <4>1, Constant, Plain
    <3>4. linked'[f] = d
      BY <1>1, <2>2, <3>3
    <3>5. Coming'
      <4> SUFFICES ASSUME NEW c \in Needs
                   PROVE  IsDescribed(c)' \/ \E q \in Paths : OnTheWay(q, c)'
        BY <2>7 DEF Coming
      <4>1. CASE c = f
        BY <1>2, <2>3, <3>4, <4>1 DEF OnTheWay
      <4>2. CASE c # f
        <5>1. CASE IsDescribed(c)
          BY <2>6, <2>7, <4>2, <5>1
        <5>2. ASSUME NEW q \in Paths, OnTheWay(q, c) PROVE OnTheWay(q, c)'
          <6>1. q # p /\ linked'[c] = linked[c]
            BY <2>4, <2>7, <4>2, <5>2 DEF OnTheWay
          <6> QED
            BY <2>3, <5>2, <6>1 DEF OnTheWay
        <5> QED
          BY <3>1, <5>1, <5>2 DEF InWalk, Coming
      <4> QED
        BY <4>1, <4>2
    <3>6. ASSUME NEW q \in Enriching', NEW r \in Enriching' PROVE Rivals(q, r)'
      <4>1. \A s \in {p, q, r} : s \in Enriching /\ s \in Paths /\ job[s].fp \in Contents
                                 /\ job'[s].fp = job[s].fp
        BY <1>1, <1>2, <2>3, Plain DEF Enriching
      <4>2. \A s \in {q, r} : job[s].fp # f => Touches(s)' = Touches(s)
        BY <1>2, <2>3, <2>4, <4>1 DEF Touches
      <4>3. \A s \in {q, r} : job[s].fp = f => Touches(s)' \subseteq Touches(s) \cup {d}
        <5> SUFFICES ASSUME NEW s \in {q, r}, job[s].fp = f
                     PROVE  Touches(s)' \subseteq Touches(s) \cup {d}
          OBVIOUS
        <5>1. CASE s = p
          BY <1>1, <1>2, <2>3, <3>4, <5>1 DEF Touches, WithDoc
        <5>2. CASE s # p
          BY <2>3, <3>4, <4>1, <5>2 DEF Touches
        <5> QED
          BY <5>1, <5>2
      <4>4. d \in Touches(p)
        BY <1>1, <2>1, Plain DEF Touches, WithDoc
      <4>5. \A s, t \in {p, q, r} : Rivals(s, t)
        BY <3>1, <4>1 DEF InWalk
      <4>6. ASSUME NEW c \in Described, NEW e \in Described, c # e,
                   c = job[q].fp, e = job[r].fp, NEW x \in Touches(q)' \cap Touches(r)'
            PROVE  Tells(meta[x], c) /\ Tells(meta[x], e)
        <5>1. CASE x \in Touches(q) \cap Touches(r)
          BY <4>5, <4>6, <5>1 DEF Rivals
        <5>2. CASE c = f /\ x = d
          <6>1. x \in Touches(p) \cap Touches(r)
            BY <4>2, <4>4, <4>6, <5>2
          <6> QED
            BY <4>5, <4>6, <5>2, <6>1 DEF Rivals
        <5>3. CASE e = f /\ x = d
          <6>1. x \in Touches(p) \cap Touches(q)
            BY <4>2, <4>4, <4>6, <5>3
          <6> QED
            BY <4>5, <4>6, <5>3, <6>1 DEF Rivals
        <5> QED
          BY <4>2, <4>3, <4>6, <5>1, <5>2, <5>3
      <4>7. job'[q].fp = job[q].fp /\ job'[r].fp = job[r].fp
        BY <4>1
      <4> QED
        BY <1>1, <4>6, <4>7 DEF Rivals, Tells
    <3> QED
      BY <3>2, <3>5, <3>6
  <2>10. j.at # "extract" /\ j.at \notin {"create", "assign"} /\ i.at # "idle"
    BY <1>1, <1>2
  <2>11. UNCHANGED <<disk, file, contents, scan, linker, form, history>>
    BY <1>1
  <2> QED
    BY <1>3, <2>2, <2>5, <2>8, <2>9, <2>10, <2>11, TaskCalm
<1>4. CASE ~calm
  BY <1>1, <1>4 DEF CalmInv, history
<1> QED
  BY <1>3, <1>4

\* Two tasks that write to one document have the same content, or it tells
\* of both already: the row that was read first brings all the same.
LEMMA MergeWriteCalm ==
    ASSUME IInv, CalmInv, NEW p \in Paths, MergeWrite(p)
    PROVE  CalmInv'
<1> DEFINE i == job[p]
<1> PICK d : d = i.doc
  OBVIOUS
<1> PICK g : g = i.got
  OBVIOUS
<1> PICK saw : saw = i.saw
  OBVIOUS
<1>1. /\ i.at = "write" /\ i \in Jobs /\ JobGoto(p, IdleJob)
      /\ UNCHANGED <<disk, file, contents, linked, documents, scan, linker, form, history, scanned>>
      /\ g \in Contents /\ StoreMerged(d, saw, Extracted(g))
  BY Plain DEF MergeWrite, history
<1>2. job'[p] = IdleJob /\ IdleJob.at = "idle" /\ \A q \in Paths \ {p} : job'[q] = job[q]
  BY <1>1 DEF JobGoto, IInv, IdleJob
<1>3. CASE calm
  <2>1. /\ d \in documents /\ d \in Documents
        /\ meta[d] = None => saw = None
        /\ Authors(saw) \cup {g} = Authors(meta[d]) \cup {g}
        /\ saw = None /\ meta[d] # None => Tells(meta[d], g)
    BY <1>1, <1>3, TaskRuns, Plain DEF Stores, WithDoc
  <2>2. saw \in Maybe(Metadata) /\ Extracted(g) \in Metadata /\ Extracted(g).authors = {g}
    BY <1>1 DEF Jobs, Extracted, Metadata
  <2>3. /\ \A c : \A e \in Documents : Tells(meta[e], c) => Tells(meta'[e], c)
        /\ \A e \in Documents \ {d} : meta'[e] = meta[e]
        /\ saw = None /\ meta[d] # None => meta' = meta
        /\ ~(saw = None /\ meta[d] # None) =>
              /\ meta'[d] # None
              /\ Authors(meta'[d]) = Authors(saw) \cup {g}
    <3>1. Authors(meta[d]) \subseteq Authors(saw) \cup Extracted(g).authors
      BY <2>1, <2>2
    <3> QED
      BY <1>1, <2>1, <2>2, <3>1, StoreTells
  <2>4. Tells(meta'[d], g)
    BY <2>1, <2>3 DEF Tells, Authors
  <2>5. \A c \in Contents : IsDescribed(c) => IsDescribed(c)'
    BY <1>1, <2>3, Plain DEF IsDescribed, Tells
  <2>6. Needs' = Needs /\ Needs \subseteq Contents
    BY <1>1, NeedsSame, Plain
  <2>7. ASSUME scan.at = "idle" PROVE Told' /\ \A q \in Paths : Stores(q)'
    <3>1. AtRest /\ \A q \in Paths : job[q].at # "idle" => q = p
      BY <1>1, <1>3, <2>7, TaskRuns
    <3>2. Told'
      BY <2>5, <2>6, <3>1 DEF AtRest, Told
    <3>3. \A q \in Paths : job'[q].at = "idle"
      BY <1>2, <3>1
    <3> QED
      BY <3>2, <3>3, IdleStores
  <2>8. ASSUME scan.at = "walk"
        PROVE  /\ Walked(p)' /\ (\A q, r \in Enriching' : Rivals(q, r)') /\ Coming'
               /\ \A q \in Paths : Stores(q)'
    <3>1. InWalk
      BY <1>1, <1>3, <2>8, TaskRuns
    <3>2. Walked(p)'
      BY <1>1, <1>2, <3>1 DEF InWalk, Walked
    <3>3. Enriching' \subseteq Enriching /\ \A q \in Enriching' : q # p /\ job'[q] = job[q]
      BY <1>2 DEF Enriching
    <3>4. \A q, r \in Enriching' : Rivals(q, r)'
      <4>1. ASSUME NEW q \in Enriching'
            PROVE  q \in Enriching /\ job'[q].fp = job[q].fp /\ Touches(q)' \subseteq Touches(q)
                   /\ Touches(q) \subseteq Documents
        <5>1. Touches(q) \subseteq Documents
          BY <3>1, <3>3, TouchesType, Plain DEF InWalk, Enriching
        <5> QED
          BY <1>1, <3>3, <5>1 DEF Touches
      <4>2. \A q, r \in Enriching : Rivals(q, r)
        BY <3>1 DEF InWalk
      <4> QED
        BY <2>3, <4>1, <4>2, RivalsKept
    <3>5. Coming'
      <4>1. \A c \in Needs : OnTheWay(p, c) => IsDescribed(c)'
        <5> SUFFICES ASSUME NEW c \in Needs, OnTheWay(p, c) PROVE IsDescribed(c)'
          OBVIOUS
        <5>1. linked[c] = d /\ i.fp = c
          BY <1>1 DEF OnTheWay
        <5>2. g = c
          BY <1>1, <3>1, <5>1 DEF InWalk, Walked
        <5> QED
          BY <1>1, <2>1, <2>4, <5>1, <5>2, Plain DEF IsDescribed, Tells
      <4>2. \A c \in Needs : IsDescribed(c) => IsDescribed(c)'
        BY <2>5, <2>6
      <4>3. \A c \in Needs : OnTheWay(p, c) => OnTheWay(p, c)' \/ IsDescribed(c)'
        BY <4>1
      <4>4. Coming
        BY <3>1 DEF InWalk
      <4> QED
        BY <1>1, <1>2, <4>2, <4>3, <4>4, ComingKept
    <3>6. ASSUME NEW q \in Paths PROVE Stores(q)'
      <4> DEFINE k == job[q]
      <4>1. Stores(q)
        BY <3>1 DEF InWalk
      <4>2. CASE q = p
        BY <1>2, <4>2, IdleStores
      <4>3. CASE q # p /\ (k.at # "write" \/ k.doc # d)
        <5>1. job'[q] = k /\ (k.at = "write" => k.doc \in Documents)
          BY <1>2, <4>1, <4>3, Plain DEF Stores, WithDoc
        <5>2. k.at = "write" => meta'[k.doc] = meta[k.doc]
          BY <2>3, <4>3, <5>1
        <5> QED
          BY <1>1, <4>1, <5>1, <5>2 DEF Stores, Tells
      <4>4. CASE q # p /\ k.at = "write" /\ k.doc = d
        <5>1. job'[q] = k
          BY <1>2, <4>4
        <5>2. /\ meta[d] = None => k.saw = None
              /\ Authors(k.saw) \cup {k.got} = Authors(meta[d]) \cup {k.got}
              /\ k.saw = None /\ meta[d] # None => Tells(meta[d], k.got)
          BY <4>1, <4>4 DEF Stores
        <5>3. i.fp = g /\ k.got = k.fp /\ g \in Described /\ k.fp \in Described
          BY <1>1, <3>1, <4>4 DEF InWalk, Walked
        <5>4. CASE meta' = meta
          BY <1>1, <4>1, <4>4, <5>1, <5>4 DEF Stores, Tells
        <5>5. CASE meta' # meta
          <6>1. meta'[d] # None /\ Authors(meta'[d]) = Authors(saw) \cup {g}
            BY <2>3, <5>5
          <6>2. CASE k.got = g
            BY <1>1, <2>1, <2>4, <4>4, <5>1, <5>2, <6>1, <6>2 DEF Stores, WithDoc, Tells
          <6>3. CASE k.got # g
            <7>1. p \in Enriching /\ q \in Enriching /\ d \in Touches(p) \cap Touches(q)
              BY <1>1, <2>1, <4>4, Plain DEF Touches, WithDoc, Enriching
            <7>2. Tells(meta[d], g) /\ Tells(meta[d], k.got)
              BY <3>1, <5>3, <6>3, <7>1 DEF InWalk, Rivals
            <7>3. Authors(meta'[d]) = Authors(meta[d]) /\ meta[d] # None /\ Tells(meta'[d], k.got)
              BY <2>1, <2>3, <6>1, <7>2 DEF Tells, Authors
            <7> QED
              BY <1>1, <2>1, <4>4, <5>1, <5>2, <6>1, <7>3 DEF Stores, WithDoc, Tells
          <6> QED
            BY <6>2, <6>3
        <5> QED
          BY <5>4, <5>5
      <4> QED
        BY <4>2, <4>3, <4>4
    <3> QED
      BY <3>2, <3>4, <3>5, <3>6
  <2>9. UNCHANGED <<disk, file, contents, scan, linker, form, history>> /\ i.at # "idle"
    BY <1>1
  <2>10. calm => \A q \in Paths : Stores(q)'
    BY <1>1, <1>3, <2>7, <2>8, TaskRuns
  <2> QED
    BY <1>1, <1>2, <2>7, <2>8, <2>9, <2>10, TaskCalm
<1>4. CASE ~calm
  BY <1>1, <1>4 DEF CalmInv, history
<1> QED
  BY <1>3, <1>4
-----------------------------------------------------------------------------
(***************************************************************************)
(* The linking pass.                                                       *)
(***************************************************************************)
LEMMA LinkerPlain ==
    ASSUME IInv
    PROVE  /\ linker \in Linkers /\ linker.fps \subseteq Contents /\ linker.others \subseteq Documents
           /\ linker.saw \in Maybe(Metadata)
           /\ \A r \in linker.rows : /\ r.path \in Paths /\ r.fp \in Contents
                                     /\ GroupOf[r.path] \in Groups
           /\ linker.at \in OnGroup => linker.doc \in Documents
           /\ linker.at = "write" => linker.from \in Metadata
  BY Constant DEF IInv, Linker, Linkers, Row, OnGroup

LEMMA PassRuns ==
    ASSUME CalmInv, calm, linker.at # "idle"
    PROVE  /\ scan.at = "linking"
           /\ Written /\ SnapshotTrue /\ LinkerTold /\ (Separate => GroupsLinked)
  BY DEF CalmInv, Calm

\* What a step of the pass has to show.
LEMMA PassCalm ==
    ASSUME IInv, CalmInv, linker.at # "idle",
           UNCHANGED <<disk, file, contents, scan, job, form, history>>,
           calm => /\ \A c \in Needs : IsDescribed(c) => IsDescribed(c)'
                   /\ SnapshotTrue' /\ LinkerTold' /\ (Separate => GroupsLinked')
    PROVE  CalmInv'
<1>1. UNCHANGED <<scanned, calm>>
  BY DEF history
<1>2. ASSUME calm' PROVE Calm'
  <2>1. scan.at = "linking" /\ Written
    BY <1>1, <1>2, PassRuns
  <2>2. Written'
    BY <1>1, <1>2, <2>1, NeedsSame DEF Written, Told, Enriching
  <2>3. Separate' <=> Separate
    BY DEF Separate
  <2> QED
    BY <1>1, <1>2, <2>1, <2>2, <2>3 DEF Calm
<1> QED
  BY <1>1, <1>2 DEF CalmInv

LEMMA LinkStartCalm ==
    ASSUME IInv, CalmInv, LinkStart
    PROVE  CalmInv'
<1>1. /\ scan.at = "walk" /\ scan.seen = Paths /\ Found = {} /\ Enriching = {}
      /\ scan'.at = "linking"
      /\ linker' = [IdleLinker EXCEPT !.at = "groups", !.rows = Snapshot,
                                      !.todo = {GroupOf[r.path] : r \in Snapshot}]
      /\ UNCHANGED <<disk, tables, job, form, history>>
  BY DEF LinkStart, IInv, Scans
<1>2. UNCHANGED <<file, linked, documents, meta, scanned, calm>>
  BY <1>1 DEF tables, history
<1>3. linker'.at = "groups" /\ linker'.rows = Snapshot
      /\ linker'.todo = {GroupOf[r.path] : r \in Snapshot}
  BY <1>1 DEF IdleLinker
<1>4. ASSUME calm' PROVE Calm'
  <2>1. InWalk
    BY <1>1, <1>2, <1>4 DEF CalmInv, Calm
  <2>2. Told
    BY <1>1, <2>1 DEF InWalk, Coming, Told, OnTheWay, Enriching
  <2>3. Written'
    <3>1. \A p \in Paths : disk[p] # None => file[p] = disk[p]
      BY <1>1, <2>1 DEF InWalk, Walked, Found
    <3>2. Told'
      BY <1>2, <2>2, NeedsSame, DescribedSame DEF Told
    <3> QED
      BY <1>1, <1>2, <2>1, <3>1, <3>2 DEF Written, InWalk, Enriching
  <2>4. \A r \in Snapshot : /\ r.path \in Paths /\ file[r.path] # None /\ r.fp = file[r.path]
                            /\ r.doc = linked[r.fp] /\ r.fp \in Contents
    BY Plain DEF Snapshot
  <2>5. \A p \in Paths : file[p] # None => \E r \in Snapshot : r.path = p
    <3> SUFFICES ASSUME NEW p \in Paths, file[p] # None
                 PROVE  \E r \in Snapshot : r.path = p
      OBVIOUS
    <3>1. [path |-> p, fp |-> file[p], doc |-> linked[file[p]]] \in Snapshot
      BY DEF Snapshot
    <3> QED
      BY <3>1
  <2>6. SnapshotTrue'
    <3>1. ASSUME NEW r \in Snapshot
          PROVE  /\ file[r.path] = r.fp
                 /\ r.doc \in documents \cup {None}
                 /\ r.fp \in Needs => r.doc # None /\ Tells(meta[r.doc], r.fp)
      BY <2>2, <2>4, <3>1, Plain DEF Told, IsDescribed
    <3>2. Needs' = Needs
      BY <1>2, NeedsSame
    <3> QED
      BY <1>2, <1>3, <2>5, <3>1, <3>2 DEF SnapshotTrue, Tells
  <2>7. LinkerTold'
    BY <1>3 DEF LinkerTold, OnGroup
  <2>8. GroupsLinked'
    <3>1. \A r \in linker'.rows : linked'[r.fp] = r.doc
      BY <1>2, <1>3, <2>4
    <3>2. \A p \in Paths : file'[p] # None => GroupOf[p] \in linker'.todo
      BY <1>2, <1>3, <2>5
    <3>3. Open' = {}
      BY <1>3 DEF Open, OnGroup
    <3> QED
      BY <3>1, <3>2, <3>3 DEF GroupsLinked
  <2> QED
    BY <1>1, <2>3, <2>6, <2>7, <2>8 DEF Calm
<1> QED
  BY <1>1, <1>2, <1>3, <1>4 DEF CalmInv

\* The rows of two files of a group.
LEMMA RowOf ==
    ASSUME SnapshotTrue, NEW p \in Paths, file[p] # None
    PROVE  \E r \in RowsOf(GroupOf[p]) : r.path = p /\ r.fp = file[p]
  BY DEF SnapshotTrue, RowsOf

LEMMA TwoElements ==
    ASSUME NEW S, IsFiniteSet(S), NEW a \in S, NEW b \in S, a # b
    PROVE  ~(Cardinality(S) <= 1)
<1>1. Cardinality({a}) = 1 /\ IsFiniteSet({a})
  BY FS_Singleton
<1>2. Cardinality({a} \cup {b}) = 2
  BY <1>1, FS_AddElement
<1>3. {a} \cup {b} \subseteq S
  OBVIOUS
<1>4. 2 <= Cardinality(S) /\ Cardinality(S) \in Nat
  BY <1>2, <1>3, FS_Subset, FS_CardinalityType
<1> QED
  BY <1>4

LEMMA SkipGroupCalm ==
    ASSUME IInv, CalmInv, NEW g \in Groups, SkipGroup(g)
    PROVE  CalmInv'
<1>1. /\ linker.at = "groups" /\ g \in linker.todo /\ Linked(g)
      /\ linker' = [linker EXCEPT !.todo = @ \ {g}]
      /\ UNCHANGED <<disk, tables, scan, job, form, history>>
  BY DEF SkipGroup
<1>2. UNCHANGED <<file, contents, linked, documents, meta, scanned, calm>>
  BY <1>1 DEF tables, history
<1>3. linker'.at = "groups" /\ linker'.todo = linker.todo \ {g} /\ linker'.rows = linker.rows
  BY <1>1, LinkerPlain DEF Linkers
<1>4. \A c \in Needs : IsDescribed(c) => IsDescribed(c)'
  BY <1>2, DescribedSame
<1>5. ASSUME calm PROVE SnapshotTrue' /\ LinkerTold'
  BY <1>1, <1>2, <1>3, <1>5, PassRuns, NeedsSame DEF SnapshotTrue, LinkerTold, OnGroup, Tells
<1>6. ASSUME calm, Separate PROVE GroupsLinked'
  <2>1. SnapshotTrue /\ GroupsLinked
    BY <1>1, <1>6, PassRuns
  <2>2. Open = {} /\ Open' = {}
    BY <1>1, <1>3 DEF Open, OnGroup
  <2>3. ASSUME NEW p \in Paths, NEW q \in Paths, file[p] # None, file[q] # None,
               file[p] # file[q], GroupOf[p] = g, GroupOf[q] = g
        PROVE  linked[file[p]] # None /\ linked[file[p]] = linked[file[q]]
    <3>1. PICK r \in RowsOf(g) : r.path = p /\ r.fp = file[p]
      BY <2>1, <2>3, RowOf
    <3>2. PICK s \in RowsOf(g) : s.path = q /\ s.fp = file[q]
      BY <2>1, <2>3, RowOf
    <3>3. IsFiniteSet({t.fp : t \in RowsOf(g)})
      <4>1. {t.fp : t \in RowsOf(g)} \subseteq Contents
        BY LinkerPlain DEF RowsOf
      <4> QED
        BY <4>1, FS_Subset, LibraryAssumption
    <3>4. ~(Cardinality({t.fp : t \in RowsOf(g)}) <= 1)
      <4>1. r.fp \in {t.fp : t \in RowsOf(g)} /\ s.fp \in {t.fp : t \in RowsOf(g)} /\ r.fp # s.fp
        BY <2>3, <3>1, <3>2
      <4> QED
        BY <3>3, <4>1, TwoElements
    <3>5. PICK d \in Documents : \A t \in RowsOf(g) : t.doc = d
      BY <1>1, <3>4 DEF Linked
    <3>6. linked[r.fp] = r.doc /\ linked[s.fp] = s.doc
      BY <1>1, <2>1, <2>3, <3>1, <3>2 DEF GroupsLinked, RowsOf
    <3> QED
      BY <3>1, <3>2, <3>5, <3>6, Plain
  <2>4. ASSUME NEW p \in Paths, NEW q \in Paths, file[p] # None, file[q] # None,
               file[p] # file[q], GroupOf[p] = GroupOf[q], GroupOf[p] \notin linker'.todo
        PROVE  linked[file[p]] # None /\ linked[file[p]] = linked[file[q]]
    <3>1. CASE GroupOf[p] = g
      BY <2>3, <2>4, <3>1
    <3>2. CASE GroupOf[p] # g
      <4>1. GroupOf[p] \notin linker.todo
        BY <1>3, <2>4, <3>2
      <4>2. AreLinked(file[p], file[q])
        BY <2>1, <2>4, <4>1 DEF GroupsLinked
      <4> QED
        BY <1>1, <4>2 DEF AreLinked, OnGroup
    <3> QED
      BY <3>1, <3>2
  <2>5. \A r \in linker'.rows : GroupOf[r.path] \in linker'.todo => linked'[r.fp] = r.doc
    BY <1>2, <1>3, <2>1 DEF GroupsLinked
  <2> QED
    BY <1>2, <2>2, <2>4, <2>5 DEF GroupsLinked, AreLinked
<1>7. UNCHANGED <<disk, file, contents, scan, job, form, history>> /\ linker.at # "idle"
  BY <1>1, <1>2
<1> QED
  BY <1>4, <1>5, <1>6, <1>7, PassCalm

LEMMA BeginGroupCalm ==
    ASSUME IInv, CalmInv, NEW g \in Groups, BeginGroup(g)
    PROVE  CalmInv'
<1>1. /\ linker.at = "groups" /\ g \in linker.todo
      /\ UNCHANGED <<disk, file, contents, linked, meta, scan, job, form, history>>
  BY DEF BeginGroup
<1>2. UNCHANGED <<scanned, calm>> /\ documents \subseteq documents'
  BY DEF BeginGroup, history, CreateDocument
<1>3. PICK d : /\ linker' = [linker EXCEPT !.at = "merge", !.todo = @ \ {g}, !.doc = d,
                                           !.others = DocsOf(g) \ {d},
                                           !.fps = {r.fp : r \in RowsOf(g)}]
               /\ d \in DocsOf(g) \/ (DocsOf(g) = {} /\ d \in documents')
  <2>1. CASE \E d \in DocsOf(g) :
                linker' = [linker EXCEPT !.at = "merge", !.todo = @ \ {g}, !.doc = d,
                                         !.others = DocsOf(g) \ {d},
                                         !.fps = {r.fp : r \in RowsOf(g)}]
    BY <2>1
  <2>2. CASE DocsOf(g) = {} /\ CreateDocument /\
                linker' = [linker EXCEPT !.at = "merge", !.todo = @ \ {g}, !.doc = lastId',
                                         !.others = DocsOf(g) \ {lastId'},
                                         !.fps = {r.fp : r \in RowsOf(g)}]
    BY <2>2 DEF CreateDocument
  <2> QED
    BY <2>1, <2>2 DEF BeginGroup
<1>4. /\ linker'.at = "merge" /\ linker'.todo = linker.todo \ {g} /\ linker'.rows = linker.rows
      /\ linker'.doc = d /\ linker'.others = DocsOf(g) \ {d}
      /\ linker'.fps = {r.fp : r \in RowsOf(g)}
  BY <1>3, LinkerPlain DEF Linkers
<1>5. \A c \in Needs : IsDescribed(c) => IsDescribed(c)'
  BY <1>1, DescribedSame
<1>6. ASSUME calm PROVE SnapshotTrue' /\ LinkerTold'
  <2>1. SnapshotTrue
    BY <1>1, <1>6, PassRuns
  <2>2. Needs' = Needs
    BY <1>1, <1>2, NeedsSame
  <2>3. SnapshotTrue'
    BY <1>1, <1>2, <1>4, <2>1, <2>2 DEF SnapshotTrue, Tells
  <2>4. d \in documents'
    BY <1>2, <1>3, <2>1 DEF SnapshotTrue, DocsOf, RowsOf
  <2>5. \A c \in linker'.fps \cap Needs :
           Tells(meta[d], c) \/ \E e \in linker'.others : Tells(meta[e], c)
    <3> SUFFICES ASSUME NEW r \in RowsOf(g), r.fp \in Needs
                 PROVE  Tells(meta[d], r.fp) \/ \E e \in linker'.others : Tells(meta[e], r.fp)
      BY <1>4
    <3>1. r.doc # None /\ Tells(meta[r.doc], r.fp)
      BY <2>1 DEF SnapshotTrue, RowsOf
    <3>2. r.doc \in DocsOf(g)
      BY <3>1 DEF DocsOf
    <3> QED
      BY <1>4, <3>1, <3>2
  <2>6. LinkerTold'
    BY <1>1, <1>4, <2>2, <2>4, <2>5 DEF LinkerTold, Gets, Tells
  <2> QED
    BY <2>3, <2>6
<1>7. ASSUME calm, Separate PROVE GroupsLinked'
  <2>1. SnapshotTrue /\ GroupsLinked
    BY <1>1, <1>7, PassRuns
  <2>2. Open = {} /\ Open' = {r.fp : r \in RowsOf(g)} /\ linker'.at \in OnGroup
    BY <1>1, <1>4 DEF Open, OnGroup
  <2>3. \A r \in linker'.rows : GroupOf[r.path] \in linker'.todo => linked'[r.fp] = r.doc
    BY <1>1, <1>4, <2>1 DEF GroupsLinked
  <2>4. ASSUME NEW c \in Open'
        PROVE  \E p \in Paths : file[p] = c /\ GroupOf[p] = g
    <3>1. PICK r \in RowsOf(g) : r.fp = c
      BY <2>2, <2>4
    <3> QED
      BY <2>1, <3>1, LinkerPlain DEF SnapshotTrue, RowsOf
  <2>5. ASSUME NEW p \in Paths, NEW q \in Paths, file[p] # None, file[q] # None,
               file[p] # file[q], GroupOf[p] = GroupOf[q], GroupOf[p] \notin linker'.todo
        PROVE  AreLinked(file[p], file[q])'
    <3>1. CASE GroupOf[p] = g
      <4>1. file[p] \in linker'.fps /\ file[q] \in linker'.fps
        <5>1. PICK r \in RowsOf(g) : r.fp = file[p]
          BY <2>1, <2>5, <3>1, RowOf
        <5>2. PICK s \in RowsOf(g) : s.fp = file[q]
          BY <2>1, <2>5, <3>1, RowOf
        <5> QED
          BY <1>4, <5>1, <5>2
      <4> QED
        BY <1>1, <2>2, <4>1 DEF AreLinked
    <3>2. CASE GroupOf[p] # g
      <4>1. GroupOf[p] \notin linker.todo
        BY <1>4, <2>5, <3>2
      <4>2. AreLinked(file[p], file[q])
        BY <2>1, <2>5, <4>1 DEF GroupsLinked
      <4>3. file[p] \notin Open' /\ file[q] \notin Open'
        BY <1>7, <2>4, <2>5, <3>2 DEF Separate
      <4> QED
        BY <1>1, <4>2, <4>3 DEF AreLinked, OnGroup
    <3> QED
      BY <3>1, <3>2
  <2>6. g \notin linker'.todo
    BY <1>4
  <2> QED
    BY <1>1, <2>3, <2>4, <2>5, <2>6 DEF GroupsLinked
<1>8. linker.at # "idle"
  BY <1>1
<1> QED
  BY <1>1, <1>5, <1>6, <1>7, <1>8, PassCalm

LEMMA LinkReadCalm ==
    ASSUME IInv, CalmInv, LinkRead
    PROVE  CalmInv'
<1>1. linker.at = "merge" /\ UNCHANGED <<disk, tables, scan, job, form, history>>
  BY DEF LinkRead
<1>2. UNCHANGED <<file, contents, linked, documents, meta, scanned, calm>>
  BY <1>1 DEF tables, history
<1>3. /\ linker'.todo = linker.todo /\ linker'.rows = linker.rows /\ linker'.doc = linker.doc
      /\ linker'.fps = linker.fps /\ linker'.at \in OnGroup
      /\ \/ \E d \in linker.others :
               /\ linker'.others = linker.others \ {d}
               /\ linker'.at = IF meta[d] = None THEN "merge" ELSE "write"
               /\ meta[d] # None => linker'.saw = meta[linker.doc] /\ linker'.from = meta[d]
         \/ linker.others = {} /\ linker'.others = {} /\ linker'.at = "assign"
  <2>1. linker \in Linkers
    BY LinkerPlain
  <2>2. ASSUME NEW d \in linker.others,
               linker' = [linker EXCEPT
                            !.at = IF meta[d] = None THEN "merge" ELSE "write",
                            !.others = @ \ {d},
                            !.from = meta[d],
                            !.saw = IF meta[d] = None THEN None ELSE meta[linker.doc]]
        PROVE  /\ linker'.todo = linker.todo /\ linker'.rows = linker.rows
               /\ linker'.doc = linker.doc
               /\ linker'.fps = linker.fps /\ linker'.at \in OnGroup
               /\ linker'.others = linker.others \ {d}
               /\ linker'.at = IF meta[d] = None THEN "merge" ELSE "write"
               /\ meta[d] # None => linker'.saw = meta[linker.doc] /\ linker'.from = meta[d]
    BY <2>1, <2>2 DEF Linkers, OnGroup
  <2>3. ASSUME linker.others = {}, linker' = [linker EXCEPT !.at = "assign"]
        PROVE  /\ linker'.todo = linker.todo /\ linker'.rows = linker.rows
               /\ linker'.doc = linker.doc
               /\ linker'.fps = linker.fps /\ linker'.at = "assign" /\ linker'.others = {}
    BY <2>1, <2>3 DEF Linkers
  <2>4. "assign" \in OnGroup
    BY DEF OnGroup
  <2> QED
    BY <2>2, <2>3, <2>4 DEF LinkRead
<1>4. \A c \in Needs : IsDescribed(c) => IsDescribed(c)'
  BY <1>2, DescribedSame
<1>5. ASSUME calm PROVE SnapshotTrue' /\ LinkerTold'
  <2>1. SnapshotTrue /\ LinkerTold
    BY <1>1, <1>5, PassRuns
  <2>2. Needs' = Needs
    BY <1>2, NeedsSame
  <2>3. SnapshotTrue'
    BY <1>2, <1>3, <2>1, <2>2 DEF SnapshotTrue, Tells
  <2>4. linker.doc \in documents /\ \A c \in linker.fps \cap Needs : Gets(c)
    BY <1>1, <2>1 DEF LinkerTold, OnGroup
  <2>5. \A c : Gets(c) => Gets(c)'
    BY <1>1, <1>2, <1>3 DEF Gets, Tells
  <2>6. /\ linker'.at = "write" => linker'.saw = meta[linker.doc]
        /\ linker'.at = "assign" => linker'.others = {}
    BY <1>3
  <2> QED
    BY <1>2, <1>3, <2>2, <2>3, <2>4, <2>5, <2>6 DEF LinkerTold
<1>6. ASSUME calm, Separate PROVE GroupsLinked'
  <2>1. GroupsLinked
    BY <1>1, <1>6, PassRuns
  <2>2. Open' = Open /\ linker.at \in OnGroup
    BY <1>1, <1>3 DEF Open, OnGroup
  <2>3. \A c, e : AreLinked(c, e) => AreLinked(c, e)'
    BY <1>2, <1>3, <2>2 DEF AreLinked
  <2> QED
    BY <1>2, <1>3, <2>1, <2>2, <2>3 DEF GroupsLinked
<1>7. UNCHANGED <<disk, file, contents, scan, job, form, history>> /\ linker.at # "idle"
  BY <1>1, <1>2
<1> QED
  BY <1>4, <1>5, <1>6, <1>7, PassCalm

LEMMA LinkWriteCalm ==
    ASSUME IInv, CalmInv, LinkWrite
    PROVE  CalmInv'
<1> PICK d : d = linker.doc
  OBVIOUS
<1>1. /\ linker.at = "write" /\ linker.at \in OnGroup
      /\ UNCHANGED <<disk, file, contents, documents, lastId, scan, job, form, history>>
  BY DEF LinkWrite, OnGroup
<1>2. UNCHANGED <<scanned, calm>>
  BY <1>1 DEF history
<1>3. CASE calm
  <2>1. SnapshotTrue /\ LinkerTold /\ (Separate => GroupsLinked)
    BY <1>1, <1>3, PassRuns
  <2>2. d \in documents /\ linker.saw = meta[d] /\ \A c \in linker.fps \cap Needs : Gets(c)
    BY <1>1, <2>1 DEF LinkerTold
  <2>3. /\ StoreMerged(d, linker.saw, linker.from) /\ UNCHANGED linked
        /\ linker' = [linker EXCEPT !.at = "merge", !.saw = None, !.from = None]
    BY <2>2 DEF LinkWrite
  <2>4. /\ linker'.at = "merge" /\ linker'.todo = linker.todo /\ linker'.rows = linker.rows
        /\ linker'.doc = d /\ linker'.fps = linker.fps /\ linker'.others = linker.others
    BY <2>3, LinkerPlain DEF Linkers
  <2>5. /\ linker.saw \in Maybe(Metadata) /\ linker.from \in Metadata
        /\ d \in Documents /\ linker.others \subseteq Documents
    BY <1>1, <2>2, LinkerPlain, Plain
  <2>6. /\ \A c : \A e \in Documents : Tells(meta[e], c) => Tells(meta'[e], c)
        /\ meta'[d] # None
        /\ Authors(meta'[d]) = Authors(linker.saw) \cup linker.from.authors
    BY <2>2, <2>3, <2>5, StoreTells
  <2>7. \A c \in Needs : IsDescribed(c) => IsDescribed(c)'
    BY <2>3, <2>6, Plain DEF IsDescribed, Tells
  <2>8. Needs' = Needs
    BY <1>1, <1>2, NeedsSame
  <2>9. SnapshotTrue'
    <3>1. ASSUME NEW r \in linker.rows, r.fp \in Needs
          PROVE  r.doc # None /\ Tells(meta'[r.doc], r.fp)
      BY <2>1, <2>6, <3>1, Plain DEF SnapshotTrue
    <3> QED
      BY <1>1, <2>1, <2>4, <2>8, <3>1 DEF SnapshotTrue, Tells
  <2>10. LinkerTold'
    <3>1. \A c : Gets(c) => Gets(c)'
      <4> SUFFICES ASSUME NEW c, Gets(c) PROVE Gets(c)'
        OBVIOUS
      <4>1. CASE Tells(meta[d], c)
        BY <2>4, <2>5, <2>6, <4>1 DEF Gets, Tells
      <4>2. ASSUME NEW e \in linker.others, Tells(meta[e], c) PROVE Gets(c)'
        BY <2>4, <2>5, <2>6, <4>2 DEF Gets, Tells
      <4>3. CASE Tells(linker.from, c)
        BY <2>4, <2>6, <4>3 DEF Gets, Tells, Authors
      <4> QED
        BY <4>1, <4>2, <4>3 DEF Gets
    <3> QED
      BY <1>1, <2>2, <2>4, <2>8, <3>1 DEF LinkerTold
  <2>11. ASSUME Separate PROVE GroupsLinked'
    <3>1. Open' = Open /\ linker'.at \in OnGroup
      BY <1>1, <2>4 DEF Open, OnGroup
    <3>2. \A c, e : AreLinked(c, e) => AreLinked(c, e)'
      BY <1>1, <2>3, <2>4, <3>1 DEF AreLinked
    <3> QED
      BY <1>1, <2>1, <2>3, <2>4, <2>11, <3>1, <3>2 DEF GroupsLinked
  <2>12. UNCHANGED <<disk, file, contents, scan, job, form, history>> /\ linker.at # "idle"
    BY <1>1
  <2> QED
    BY <2>7, <2>9, <2>10, <2>11, <2>12, PassCalm
<1>4. CASE ~calm
  BY <1>1, <1>2, <1>4 DEF CalmInv
<1> QED
  BY <1>3, <1>4

LEMMA LinkAssignCalm ==
    ASSUME IInv, CalmInv, LinkAssign
    PROVE  CalmInv'
<1> PICK d : d = linker.doc
  OBVIOUS
<1>1. /\ linker.at = "assign" /\ linker.at \in OnGroup
      /\ UNCHANGED <<disk, file, contents, documents, lastId, scan, job, form, history>>
  BY DEF LinkAssign, OnGroup
<1>2. UNCHANGED <<scanned, calm>>
  BY <1>1 DEF history
<1>3. CASE calm
  <2>1. SnapshotTrue /\ LinkerTold /\ (Separate => GroupsLinked)
    BY <1>1, <1>3, PassRuns
  <2>2. d \in documents /\ linker.others = {} /\ \A c \in linker.fps \cap Needs : Gets(c)
    BY <1>1, <2>1 DEF LinkerTold
  <2>3. PICK c \in linker.fps :
           /\ linked' = IF c \in contents THEN [linked EXCEPT ![c] = d] ELSE linked
           /\ linker' = [linker EXCEPT !.fps = @ \ {c},
                                       !.at = IF linker.fps = {c} THEN "groups" ELSE "assign"]
           /\ UNCHANGED meta
    BY <2>2 DEF LinkAssign
  <2>4. /\ linker'.at = IF linker.fps = {c} THEN "groups" ELSE "assign"
        /\ linker'.todo = linker.todo /\ linker'.rows = linker.rows
        /\ linker'.doc = d /\ linker'.fps = linker.fps \ {c} /\ linker'.others = linker.others
    BY <2>3, LinkerPlain DEF Linkers
  <2>5. /\ c \in Contents /\ DOMAIN linked = Contents
        /\ \A e \in Contents : e # c => linked'[e] = linked[e]
        /\ c \in contents => linked'[c] = d
    BY <2>3, LinkerPlain, Plain
  <2>6. \A e \in Needs : IsDescribed(e) => IsDescribed(e)'
    <3>1. \A e \in Needs : e # c => IsDescribed(e)' = IsDescribed(e)
      BY <2>3, <2>5, Plain DEF IsDescribed, Tells
    <3>2. c \in Needs => Tells(meta[d], c)
      BY <1>1, <2>2, <2>3 DEF Gets
    <3>3. c \in Needs /\ IsDescribed(c) => IsDescribed(c)'
      BY <2>2, <2>3, <2>5, <3>2, Plain DEF IsDescribed, Tells
    <3> QED
      BY <3>1, <3>3
  <2>7. Needs' = Needs
    BY <1>1, <1>2, NeedsSame
  <2>8. SnapshotTrue'
    BY <1>1, <2>1, <2>3, <2>4, <2>7 DEF SnapshotTrue, Tells
  <2>9. LinkerTold'
    <3>1. \A e : Gets(e) => Gets(e)'
      BY <1>1, <2>3, <2>4 DEF Gets, Tells
    <3>2. linker'.at # "write"
      BY <2>4
    <3> QED
      BY <1>1, <2>2, <2>4, <2>7, <3>1, <3>2 DEF LinkerTold
  <2>10. ASSUME Separate PROVE GroupsLinked'
    <3>1. GroupsLinked /\ Open = linker.fps
      BY <1>1, <2>1, <2>10 DEF Open
    <3>2. Open' \subseteq Open \ {c}
      BY <2>4, <3>1 DEF Open, OnGroup
    <3>3. PICK o \in Paths : file[o] = c /\ GroupOf[o] \notin linker.todo
      BY <2>3, <3>1 DEF GroupsLinked
    <3>4. c \in contents /\ linked'[c] = d /\ d # None
      BY <2>2, <2>5, <3>3, Constant, Plain
    <3>5. ASSUME NEW r \in linker.rows, GroupOf[r.path] \in linker.todo
          PROVE  linked'[r.fp] = r.doc
      <4>1. r.path \in Paths /\ r.fp \in Contents /\ file[r.path] = r.fp /\ linked[r.fp] = r.doc
        BY <2>1, <3>1, <3>5, LinkerPlain DEF SnapshotTrue, GroupsLinked
      <4>2. r.fp # c
        BY <2>5, <2>10, <3>3, <3>5, <4>1, Constant DEF Separate
      <4> QED
        BY <2>5, <4>1, <4>2
    <3>6. ASSUME NEW e \in Contents, NEW f \in Contents, AreLinked(e, f)
          PROVE  AreLinked(e, f)'
      <4>1. CASE /\ linked[e] # None /\ linked[e] = linked[f]
                 /\ e \notin Open /\ f \notin Open
        <5>1. e # c /\ f # c /\ e \notin Open' /\ f \notin Open'
          BY <2>3, <3>1, <3>2, <4>1
        <5> QED
          BY <2>5, <4>1, <5>1 DEF AreLinked
      <4>2. CASE \A x \in {e, f} : x \in linker.fps \/ linked[x] = d
        <5>1. \A x \in {e, f} : x \in linker.fps \ {c} \/ linked'[x] = d
          BY <2>5, <3>4, <4>2
        <5>2. CASE linker.fps = {c}
          <6>1. Open' = {} /\ linked'[e] = d /\ linked'[f] = d
            BY <2>4, <5>1, <5>2 DEF Open, OnGroup
          <6> QED
            BY <3>4, <6>1 DEF AreLinked
        <5>3. CASE linker.fps # {c}
          <6>1. linker'.at \in OnGroup
            BY <2>4, <5>3 DEF OnGroup
          <6> QED
            BY <2>4, <5>1, <6>1 DEF AreLinked
        <5> QED
          BY <5>2, <5>3
      <4> QED
        BY <3>6, <4>1, <4>2 DEF AreLinked
    <3>7. ASSUME NEW p \in Paths, NEW q \in Paths, file[p] # None, file[q] # None,
                 file[p] # file[q], GroupOf[p] = GroupOf[q], GroupOf[p] \notin linker.todo
          PROVE  AreLinked(file[p], file[q])'
      <4>1. AreLinked(file[p], file[q])
        BY <3>1, <3>7 DEF GroupsLinked
      <4>2. file[p] \in Contents /\ file[q] \in Contents
        BY <3>7, Plain
      <4>3. \A e, f \in Contents : AreLinked(e, f) => AreLinked(e, f)'
        BY <3>6
      <4> QED
        BY <1>1, <4>1, <4>2, <4>3
    <3>8. \A e \in Open' : \E p \in Paths : file[p] = e /\ GroupOf[p] \notin linker.todo
      BY <3>1, <3>2 DEF GroupsLinked
    <3> QED
      BY <1>1, <2>4, <3>5, <3>7, <3>8 DEF GroupsLinked, AreLinked
  <2>11. UNCHANGED <<disk, file, contents, scan, job, form, history>> /\ linker.at # "idle"
    BY <1>1
  <2> QED
    BY <2>6, <2>8, <2>9, <2>10, <2>11, PassCalm
<1>4. CASE ~calm
  BY <1>1, <1>2, <1>4 DEF CalmInv
<1> QED
  BY <1>3, <1>4

LEMMA LinkDoneCalm ==
    ASSUME IInv, CalmInv, LinkDone
    PROVE  CalmInv'
<1>1. /\ linker.at = "groups" /\ linker.todo = {} /\ scan'.at = "completed"
      /\ linker' = IdleLinker /\ UNCHANGED <<disk, tables, job, form, history>>
  BY DEF LinkDone, IInv, Scans
<1>2. UNCHANGED <<file, linked, documents, meta, scanned, calm>> /\ linker'.at = "idle"
  BY <1>1 DEF tables, history, IdleLinker
<1>3. ASSUME calm' PROVE Calm'
  <2>1. Written /\ (Separate => GroupsLinked)
    BY <1>1, <1>2, <1>3, PassRuns
  <2>2. Told'
    BY <1>2, <2>1, NeedsSame, DescribedSame DEF Written, Told
  <2>3. Written'
    BY <1>1, <1>2, <2>1, <2>2 DEF Written, Enriching
  <2>4. Separate => LinkedTogether
    BY <1>1, <2>1 DEF GroupsLinked, AreLinked, OnGroup, LinkedTogether
  <2>5. (Separate => LinkedTogether)'
    BY <1>2, <2>4 DEF Separate, LinkedTogether
  <2> QED
    BY <1>1, <2>3, <2>5 DEF Calm
<1> QED
  BY <1>2, <1>3 DEF CalmInv
-----------------------------------------------------------------------------
(***************************************************************************)
(* The user and the others.                                                *)
(***************************************************************************)
\* What a step outside the scan has to show.
LEMMA UserCalm ==
    ASSUME IInv, CalmInv, UNCHANGED <<scan, linker>>,
           \A p \in scanned' : file'[p] # None,
           calm' => calm /\ scan.at = "idle",
           calm' /\ AtRest => AtRest'
    PROVE  CalmInv'
<1>1. calm' => AtRest'
  BY DEF CalmInv, Calm
<1> QED
  BY <1>1 DEF CalmInv, Calm

\* ... when nothing else was under way.
LEMMA AloneCalm ==
    ASSUME IInv, CalmInv, UNCHANGED <<scan, linker, job>>, Disturbing,
           \A p \in scanned' : file'[p] # None,
           form # form' => form'.doc \in documents' /\ form'.saw = meta'[form'.doc],
           Told => Told'
    PROVE  CalmInv'
<1>1. calm' => calm /\ Quiet
  BY DEF Disturbing
<1>2. ASSUME calm', AtRest PROVE AtRest'
  <2>1. form = NoForm /\ \A p \in Paths : job'[p].at = "idle"
    BY <1>1, <1>2, QuietTasks
  <2>2. Enriching' = {} /\ \A p \in Paths : Stores(p)'
    BY <2>1, IdleStores DEF Enriching
  <2> QED
    BY <1>2, <2>1, <2>2 DEF AtRest, FormAlone, ImportAlone
<1>3. calm' => calm /\ scan.at = "idle"
  BY <1>1, QuietTasks
<1> QED
  BY <1>2, <1>3, UserCalm

LEMMA ImportCalm ==
    ASSUME IInv, CalmInv, NEW p \in Paths, Import(p)
    PROVE  CalmInv'
<1>1. UNCHANGED <<disk, linked, documents, meta, scan, linker, form, scanned>> /\ Disturbing
  BY DEF Import
<1>2. \A q \in Paths : file[q] # None => file'[q] = file[q]
  BY Plain DEF Import
<1>3. \A q \in scanned : file[q] # None /\ q \in Paths
  BY Plain DEF CalmInv
<1>4. PICK j : JobGoto(p, j) /\ j.at \in {"idle", "ensure"}
  <2>1. PICK got : JobGoto(p, IF got = None THEN IdleJob
                              ELSE [IdleJob EXCEPT !.at = "ensure", !.fp = file'[p], !.got = got])
    BY DEF Import
  <2>2. IdleJob.at = "idle" /\ [IdleJob EXCEPT !.at = "ensure", !.fp = file'[p], !.got = got].at = "ensure"
    BY DEF IdleJob
  <2> QED
    BY <2>1, <2>2
<1>5. \A q \in Paths : job'[q] = IF q = p THEN j ELSE job[q]
  BY <1>4 DEF JobGoto, IInv
<1>6. calm' => calm /\ Quiet
  BY <1>1 DEF Disturbing
<1>7. ASSUME calm', AtRest PROVE AtRest'
  <2>1. form' = NoForm /\ \A q \in Paths : job[q].at = "idle"
    BY <1>1, <1>6, <1>7, QuietTasks
  <2>2. \A q \in Paths : job'[q].at \in {"idle", "ensure"} /\ (q # p => job'[q].at = "idle")
    BY <1>4, <1>5, <2>1
  <2>3. ImportAlone' /\ \A q \in Paths : Stores(q)'
    BY <2>2, IdleStores DEF ImportAlone, Enriching
  <2>4. Needs' = Needs
    BY <1>1, <1>2, <1>3 DEF Needs
  <2>5. Told'
    BY <1>1, <1>7, <2>4, DescribedSame DEF AtRest, Told
  <2> QED
    BY <2>1, <2>3, <2>5 DEF AtRest, FormAlone
<1>8. calm' => calm /\ scan.at = "idle"
  BY <1>6, QuietTasks
<1>9. \A q \in scanned' : file'[q] # None
  BY <1>1, <1>2, <1>3
<1> QED
  BY <1>1, <1>7, <1>8, <1>9, UserCalm

LEMMA MergeDocumentsCalm ==
    ASSUME IInv, CalmInv, NEW w \in Documents, NEW l \in Documents, MergeDocuments(w, l)
    PROVE  CalmInv'
<1>1. /\ w \in documents /\ l \in documents /\ w # l /\ Disturbing
      /\ UNCHANGED <<disk, file, contents, scan, job, linker, form, scanned>>
  BY DEF MergeDocuments
<1> DEFINE m == IF meta[l] = None THEN meta[w]
                ELSE Merged(IF meta[w] = None THEN Blank ELSE meta[w], meta[l])
<1>2. /\ \A c \in Contents : linked'[c] = IF linked[c] = l THEN w ELSE linked[c]
      /\ meta'[w] = m /\ \A d \in Documents \ {w, l} : meta'[d] = meta[d]
  BY <1>1, Plain DEF MergeDocuments
<1>3. \A c : Tells(meta[w], c) \/ Tells(meta[l], c) => Tells(m, c)
  <2>1. meta[l] # None => m \in Metadata
    BY Plain, MergedKeeps, BlankType
  <2>2. meta[l] # None => m.authors = Authors(meta[w]) \cup meta[l].authors
    BY MergedAuthors DEF Authors, Blank
  <2>3. meta[l] # None => m # None
    BY <2>1, Constant
  <2>4. meta[l] = None => m = meta[w]
    OBVIOUS
  <2> HIDE DEF m
  <2> QED
    BY <2>2, <2>3, <2>4 DEF Tells, Authors
<1> HIDE DEF m
<1>4. ASSUME NEW c \in Needs, IsDescribed(c) PROVE IsDescribed(c)'
  <2>1. c \in Contents /\ linked[c] \in Documents /\ Tells(meta[linked[c]], c)
    BY <1>4, Plain DEF IsDescribed
  <2>2. CASE linked[c] \in {w, l}
    <3>1. linked'[c] = w /\ Tells(meta'[w], c)
      BY <1>2, <1>3, <2>1, <2>2
    <3> QED
      BY <1>1, <3>1, Plain DEF IsDescribed, Tells
  <2>3. CASE linked[c] \notin {w, l}
    <3>1. linked'[c] = linked[c] /\ meta'[linked[c]] = meta[linked[c]]
      BY <1>2, <2>1, <2>3
    <3> QED
      BY <1>4, <3>1 DEF IsDescribed, Tells
  <2> QED
    BY <2>2, <2>3
<1>5. Told => Told'
  BY <1>1, <1>4, NeedsSame DEF Told
<1>6. \A p \in scanned' : file'[p] # None
  BY <1>1 DEF CalmInv
<1> QED
  BY <1>1, <1>5, <1>6, AloneCalm

LEMMA RemoveContentCalm ==
    ASSUME IInv, CalmInv, NEW d \in Documents, NEW c \in Contents, NEW kept,
           RemoveContent(d, c, kept)
    PROVE  CalmInv'
<1>1. /\ UNCHANGED <<scan, job, linker, form>> /\ Disturbing
      /\ scanned' = scanned \ FilesOf(c) /\ contents' = contents \ {c}
      /\ \A p \in Paths : file'[p] = IF p \in FilesOf(c) THEN None ELSE file[p]
  BY DEF RemoveContent
<1>2. \A e \in Contents : e # c => linked'[e] = linked[e]
  BY Plain DEF RemoveContent
<1>3. /\ \A e \in Documents : e # d => meta'[e] = meta[e]
      /\ (\E e \in contents' : linked'[e] = d) => meta' = meta
  BY Plain DEF RemoveContent
<1>4. ASSUME NEW e \in Needs' PROVE e \in Needs /\ e # c /\ e \in contents' /\ e \in Contents
  <2>1. PICK p \in scanned' : e = file'[p] /\ e \in Described
    BY DEF Needs
  <2>2. p \in scanned /\ p \in Paths /\ p \notin FilesOf(c) /\ e = file[p]
    BY <1>1, <2>1, Plain
  <2>3. e # None /\ e # c
    BY <2>2 DEF CalmInv, FilesOf
  <2> QED
    BY <1>1, <2>1, <2>2, <2>3, Plain DEF Needs
<1>5. ASSUME NEW e \in Needs', IsDescribed(e) PROVE IsDescribed(e)'
  <2>1. linked'[e] = linked[e] /\ linked[e] \in Documents
    BY <1>2, <1>4, <1>5, Plain DEF IsDescribed
  <2>2. meta'[linked[e]] = meta[linked[e]]
    BY <1>3, <1>4, <2>1
  <2> QED
    BY <1>5, <2>1, <2>2 DEF IsDescribed, Tells
<1>6. Told => Told'
  BY <1>4, <1>5 DEF Told
<1>7. \A p \in scanned' : file'[p] # None
  BY <1>1, Plain DEF CalmInv
<1> QED
  BY <1>1, <1>6, <1>7, AloneCalm

LEMMA RemoveFileCalm ==
    ASSUME IInv, CalmInv, NEW p \in Paths, RemoveFile(p)
    PROVE  CalmInv'
<1>1. /\ UNCHANGED <<linked, meta, scan, job, linker, form>> /\ Disturbing
      /\ scanned' = scanned \ {p} /\ \A q \in Paths \ {p} : file'[q] = file[q]
  BY Plain DEF RemoveFile, tasks
<1>2. Needs' \subseteq Needs
  BY <1>1, Plain DEF Needs
<1>3. Told => Told'
  BY <1>1, <1>2, DescribedSame DEF Told
<1>4. \A q \in scanned' : file'[q] # None
  BY <1>1, Plain DEF CalmInv
<1> QED
  BY <1>1, <1>3, <1>4, AloneCalm

LEMMA OpenFormCalm ==
    ASSUME IInv, CalmInv, NEW d \in Documents, OpenForm(d)
    PROVE  CalmInv'
<1>1. /\ UNCHANGED <<file, linked, documents, meta, scan, job, linker, scanned>> /\ Disturbing
      /\ d \in documents /\ form' = [doc |-> d, saw |-> meta[d]]
  BY DEF OpenForm, tables
<1>2. Told => Told'
  BY <1>1, NeedsSame, DescribedSame DEF Told
<1>3. \A p \in scanned' : file'[p] # None
  BY <1>1 DEF CalmInv
<1> QED
  BY <1>1, <1>2, <1>3, AloneCalm

\* What the editor saves has the authors it showed, and nobody wrote since.
LEMMA SaveFormCalm ==
    ASSUME IInv, CalmInv, SaveForm
    PROVE  CalmInv'
<1>1. /\ form # NoForm /\ form' = NoForm
      /\ UNCHANGED <<disk, file, linked, documents, scan, job, linker, scanned, calm>>
  BY DEF SaveForm, history
<1>2. calm => scan.at = "idle"
  BY <1>1 DEF CalmInv, Calm, InWalk, Written, IInv, Scans
<1>3. ASSUME calm', AtRest PROVE AtRest'
  <2>1. Enriching = {} /\ form.doc \in documents /\ form.saw = meta[form.doc]
    BY <1>1, <1>3 DEF AtRest, FormAlone
  <2> DEFINE d == form.doc
             m == [title |-> User, authors |-> IF form.saw = None THEN {} ELSE form.saw.authors]
  <2>2. meta' = [meta EXCEPT ![d] = m]
    BY <2>1 DEF SaveForm
  <2>3. d \in Documents /\ m \in Metadata /\ m.authors = Authors(meta[d])
    BY <2>1, Plain DEF Metadata, Authors
  <2>4. m # None
    BY <2>3, Constant
  <2>5. meta'[d] = m /\ \A e \in Documents \ {d} : meta'[e] = meta[e]
    BY <2>2, <2>3, Plain
  <2> HIDE DEF m, d
  <2>6. \A c : \A e \in Documents : Tells(meta[e], c) => Tells(meta'[e], c)
    BY <2>3, <2>4, <2>5 DEF Tells, Authors
  <2>7. \A c \in Needs : IsDescribed(c) => IsDescribed(c)'
    BY <1>1, <2>6, Plain DEF IsDescribed, Tells
  <2>8. Told'
    BY <1>1, <1>3, <2>7, NeedsSame DEF AtRest, Told
  <2>9. Enriching' = {} /\ \A p \in Paths : Stores(p)'
    BY <1>1, <2>1, IdleStores DEF Enriching
  <2> QED
    BY <1>1, <2>8, <2>9 DEF AtRest, FormAlone, ImportAlone
<1>4. \A p \in scanned' : file'[p] # None
  BY <1>1 DEF CalmInv
<1> QED
  BY <1>1, <1>2, <1>3, <1>4, UserCalm

LEMMA DiskChangeCalm ==
    ASSUME IInv, CalmInv, NEW p \in Paths, NEW c, DiskChange(p, c)
    PROVE  CalmInv'
<1>1. /\ UNCHANGED <<file, linked, documents, meta, scan, job, linker, form, scanned>>
      /\ calm' => calm /\ scan.at = "idle"
  BY DEF DiskChange, tables, tasks
<1>2. ASSUME AtRest PROVE AtRest'
  <2>1. FormAlone' /\ ImportAlone'
    BY <1>1, <1>2 DEF AtRest, FormAlone, ImportAlone, Enriching
  <2>2. Told'
    BY <1>1, <1>2, NeedsSame, DescribedSame DEF AtRest, Told
  <2>3. \A q \in Paths : Stores(q)'
    BY <1>1, <1>2 DEF AtRest, Stores, Tells
  <2> QED
    BY <2>1, <2>2, <2>3 DEF AtRest
<1>3. \A q \in scanned' : file'[q] # None
  BY <1>1 DEF CalmInv
<1> QED
  BY <1>1, <1>2, <1>3, UserCalm

\* A batch that is lost and a crash are what calm excludes.
LEMMA LossCalm ==
    ASSUME IInv, CalmInv, Crash \/ \E S \in SUBSET Found : BatchFails(S)
    PROVE  CalmInv'
<1>1. ~calm' /\ UNCHANGED <<file, scanned>>
  BY DEF Crash, BatchFails, tables
<1>2. (linker.at # "idle" => scan.at = "linking")'
  BY DEF Crash, BatchFails, CalmInv, IdleLinker
<1> QED
  BY <1>1, <1>2 DEF CalmInv

-----------------------------------------------------------------------------
LEMMA InitCalm == Init => CalmInv
<1> SUFFICES ASSUME Init PROVE CalmInv
  OBVIOUS
<1>1. scan.at = "idle" /\ scanned = {} /\ linker.at = "idle" /\ form = NoForm
  BY DEF Init, IdleScan, IdleLinker
<1>2. \A p \in Paths : job[p].at = "idle"
  BY DEF Init, IdleJob
<1>3. Enriching = {} /\ \A p \in Paths : Stores(p)
  BY <1>2, IdleStores DEF Enriching
<1>4. AtRest
  BY <1>1, <1>3 DEF AtRest, FormAlone, ImportAlone, Told, Needs
<1> QED
  BY <1>1, <1>4 DEF CalmInv, Calm

LEMMA NextCalm == IInv /\ CalmInv /\ [Next]_vars => CalmInv'
<1> SUFFICES ASSUME IInv, CalmInv, [Next]_vars PROVE CalmInv'
  OBVIOUS
<1>1. CASE ScanStart \/ ScanEnd \/ Crash
  BY <1>1, ScanStartCalm, ScanEndCalm, LossCalm
<1>2. CASE Link
  BY <1>2, LinkStartCalm, LinkReadCalm, LinkWriteCalm, LinkAssignCalm, LinkDoneCalm,
     SkipGroupCalm, BeginGroupCalm DEF Link
<1>3. CASE ByUser
  BY <1>3, SaveFormCalm, ImportCalm, RemoveFileCalm, OpenFormCalm, MergeDocumentsCalm,
     RemoveContentCalm DEF ByUser
<1>4. ASSUME NEW p \in Paths,
             \/ Fingerprint(p) \/ Enrich(p)
             \/ \E c \in Contents \cup {None} : DiskChange(p, c)
      PROVE  CalmInv'
  BY <1>4, FingerprintCalm, ExtractCalm, EnsureSelectCalm, EnsureCreateCalm,
     EnsureAssignCalm, MergeReadCalm, MergeWriteCalm, DiskChangeCalm DEF Enrich
<1>5. ASSUME NEW S \in SUBSET Found, WriteBatch(S) \/ BatchFails(S)
      PROVE  CalmInv'
  BY <1>5, WriteBatchCalm, LossCalm
<1>6. CASE UNCHANGED vars
  <2>1. UNCHANGED <<disk, file, contents, linked, documents, meta, scan, job, linker, form,
                    scanned, calm>>
    BY <1>6 DEF vars, tables, tasks, history
  <2>2. Needs' = Needs /\ Enriching' = Enriching /\ Open' = Open
    BY <2>1 DEF Needs, Enriching, Open
  <2>3. /\ \A c : IsDescribed(c)' <=> IsDescribed(c)
        /\ \A p \in Paths : (Stores(p)' <=> Stores(p)) /\ (Walked(p)' <=> Walked(p))
        /\ \A p, q \in Paths : Rivals(p, q)' <=> Rivals(p, q)
        /\ \A p, c : OnTheWay(p, c)' <=> OnTheWay(p, c)
        /\ \A c : Gets(c)' <=> Gets(c)
        /\ \A c, e : AreLinked(c, e)' <=> AreLinked(c, e)
    <3>1. \A c : IsDescribed(c)' <=> IsDescribed(c)
      BY <2>1, DescribedSame
    <3>2. \A p \in Paths : (Stores(p)' <=> Stores(p)) /\ (Walked(p)' <=> Walked(p))
      BY <2>1 DEF Stores, Walked, Tells
    <3>3. \A p, q \in Paths : Rivals(p, q)' <=> Rivals(p, q)
      BY <2>1 DEF Rivals, Touches, Tells
    <3>4. \A p, c : OnTheWay(p, c)' <=> OnTheWay(p, c)
      BY <2>1 DEF OnTheWay
    <3>5. \A c : Gets(c)' <=> Gets(c)
      BY <2>1 DEF Gets, Tells
    <3>6. \A c, e : AreLinked(c, e)' <=> AreLinked(c, e)
      BY <2>1, <2>2 DEF AreLinked
    <3> QED
      BY <3>1, <3>2, <3>3, <3>4, <3>5, <3>6
  <2>4. AtRest' <=> AtRest
    BY <2>1, <2>2, <2>3 DEF AtRest, FormAlone, ImportAlone, Told
  <2>5. InWalk' <=> InWalk
    BY <2>1, <2>2, <2>3 DEF InWalk, Coming, Enriching
  <2>6. Written' <=> Written
    BY <2>1, <2>2, <2>3 DEF Written, Told
  <2>7. SnapshotTrue' <=> SnapshotTrue
    BY <2>1, <2>2 DEF SnapshotTrue, Tells
  <2>8. LinkerTold' <=> LinkerTold
    BY <2>1, <2>2, <2>3 DEF LinkerTold
  <2>9. GroupsLinked' <=> GroupsLinked
    BY <2>1, <2>2, <2>3 DEF GroupsLinked
  <2>10. (Separate' <=> Separate) /\ (LinkedTogether' <=> LinkedTogether)
    BY <2>1 DEF Separate, LinkedTogether
  <2>11. Calm' <=> Calm
    BY <2>1, <2>4, <2>5, <2>6, <2>7, <2>8, <2>9, <2>10 DEF Calm
  <2> QED
    BY <2>1, <2>11 DEF CalmInv
<1> QED
  BY <1>1, <1>2, <1>3, <1>4, <1>5, <1>6 DEF Next

LEMMA CalmInvariance == Spec => []CalmInv
  BY InitInv, NextInv, InitCalm, NextCalm, PTL DEF Spec

(***************************************************************************)
(* When a scan has ended that nothing disturbed, the contents of a stem    *)
(* have one document, unless a content is in two groups.                   *)
(***************************************************************************)
THEOREM Together == Spec => []GroupsTogether
<1>1. CalmInv => GroupsTogether
  BY DEF CalmInv, Calm, GroupsTogether
<1> QED
  BY <1>1, CalmInvariance, PTL

(***************************************************************************)
(* ... and every file it found is in the library and its document tells    *)
(* what was extracted from it.                                             *)
(***************************************************************************)
THEOREM ScanDescribes == Spec => []DescribedAfterScan
<1>1. IInv /\ CalmInv => DescribedAfterScan
  <2> SUFFICES ASSUME IInv, CalmInv, calm, scan.at = "completed", NEW p \in Paths, disk[p] # None
               PROVE  /\ file[p] = disk[p]
                      /\ p \in scanned /\ disk[p] \in Described => IsDescribed(disk[p])
    BY DEF DescribedAfterScan
  <2>1. Written
    BY DEF CalmInv, Calm
  <2> QED
    BY <2>1 DEF Written, Told, Needs
<1> QED
  BY <1>1, Invariance, CalmInvariance, PTL

-----------------------------------------------------------------------------
(***************************************************************************)
(* The scan pipeline.  The order in which the stages end (Ends) is why     *)
(* nothing is forgotten; that the writer's numbers are true needs how many *)
(* files are at a place (FillMoved), and that no place holds too many      *)
(* comes with the types.                                                   *)
(***************************************************************************)
CounterKinds == {"discovered", "processed", "errors"}

WriterStates == {"first", "more", "begin", "reject", "write", "enrich",
            "link", "complete", "finish", "done"}

\* What ScanTypeOK says of everything but the files.
Tasks ==
    /\ dry \in BOOLEAN
    /\ traversal \in {"walk", "report", "done"}
    /\ spawning \in BOOLEAN
    /\ writer \in WriterStates
    /\ progress \in Seq(EventKinds) /\ Len(progress) <= Progress
    /\ caller \in {"listening", "returned", "gone"}
    /\ tally \in [EventKinds -> Nat]
    /\ counters \in [CounterKinds -> Nat]
    /\ autoLinked \subseteq Files

\* What it says of the files.
Room ==
    /\ at \in [Files -> Places]
    /\ Fill("ch1") <= Ch1Capacity
    /\ Fill("worker") <= Concurrency
    /\ Fill("ch2") <= Ch2Capacity
    /\ Fill("batch") + Fill("written") <= MaxBatch

\* A stage ends when the stages before it have, and has left nothing.
Ends ==
    /\ traversal = "done" => \A f \in Files : at[f] # "disk"
    /\ ~spawning => traversal = "done" /\ \A f \in Files : at[f] # "ch1"
    /\ Over => ~spawning /\ \A f \in Files : at[f] \notin {"worker", "ch2"}
    /\ writer \notin {"more", "begin", "reject", "write"} => \A f \in Files : at[f] # "batch"
    /\ writer # "write" => \A f \in Files : at[f] # "written"

ScanInv == Tasks /\ Room /\ Ends

-----------------------------------------------------------------------------
LEMMA Bounds ==
    /\ IsFiniteSet(Files)
    /\ Concurrency \in Nat \ {0} /\ Ch1Capacity \in Nat \ {0} /\ Ch2Capacity \in Nat \ {0}
    /\ Progress \in Nat \ {0} /\ MaxBatch \in Nat \ {0}
  BY CapacityAssumption

LEMMA FillNat == ASSUME NEW p PROVE IsFiniteSet(In(p)) /\ Fill(p) \in Nat /\ Fill(p)' \in Nat
<1>1. In(p) \subseteq Files /\ In(p)' \subseteq Files
  BY DEF In
<1>2. IsFiniteSet(In(p)) /\ IsFiniteSet(In(p)')
  BY <1>1, Bounds, FS_Subset
<1> QED
  BY <1>2, FS_CardinalityType DEF Fill

LEMMA FillEmpty == ASSUME NEW p, \A f \in Files : at[f] # p PROVE In(p) = {} /\ Fill(p) = 0
  BY FS_EmptySet DEF In, Fill

\* One file goes from one place to another.
LEMMA FillMoved ==
    ASSUME NEW f \in Files, NEW from, NEW to \in Places, from # to,
           at \in [Files -> Places], Move(f, from, to)
    PROVE  /\ at' \in [Files -> Places]
           /\ at[f] = from /\ at'[f] = to /\ \A g \in Files \ {f} : at'[g] = at[g]
           /\ Fill(from)' = Fill(from) - 1
           /\ Fill(to)' = Fill(to) + 1
           /\ \A p \in Places \ {from, to} : Fill(p)' = Fill(p)
<1>1. /\ at' \in [Files -> Places]
      /\ at[f] = from /\ at'[f] = to /\ \A g \in Files \ {f} : at'[g] = at[g]
  BY DEF Move
<1>2. In(from)' = In(from) \ {f} /\ f \in In(from)
  BY <1>1 DEF In
<1>3. In(to)' = In(to) \cup {f} /\ f \notin In(to)
  BY <1>1 DEF In
<1>4. ASSUME NEW p \in Places \ {from, to} PROVE Fill(p)' = Fill(p)
  <2>1. In(p)' = In(p)
    BY <1>1 DEF In
  <2> QED
    BY <2>1 DEF Fill
<1>5. Fill(from)' = Fill(from) - 1
  BY <1>2, FillNat, FS_RemoveElement DEF Fill
<1>6. Fill(to)' = Fill(to) + 1
  BY <1>3, FillNat, FS_AddElement DEF Fill
<1> QED
  BY <1>1, <1>4, <1>5, <1>6

\* Files that leave the batch, wherever they go, make room.
LEMMA FillLeft ==
    ASSUME NEW p, at \in [Files -> Places], at' \in [Files -> Places],
           \A f \in Files : at'[f] = p => at[f] = p
    PROVE  Fill(p)' <= Fill(p)
<1>1. In(p)' \subseteq In(p)
  BY DEF In
<1> QED
  BY <1>1, FillNat, FS_Subset DEF Fill

LEMMA FillSame ==
    ASSUME NEW p, \A f \in Files : at'[f] = p <=> at[f] = p
    PROVE  Fill(p)' = Fill(p)
<1>1. In(p)' = In(p)
  BY DEF In
<1> QED
  BY <1>1 DEF Fill

LEMMA SendKeeps ==
    ASSUME Tasks, NEW e \in EventKinds, Send(e)
    PROVE  /\ progress' \in Seq(EventKinds) /\ Len(progress') <= Progress
           /\ caller' = caller /\ tally' = tally
<1>1. progress \in Seq(EventKinds) /\ Len(progress) \in Nat /\ Len(progress) <= Progress
  BY DEF Tasks
<1>2. Append(progress, e) \in Seq(EventKinds) /\ Len(Append(progress, e)) = Len(progress) + 1
  BY <1>1
<1>3. progress' = progress \/ (progress' = Append(progress, e) /\ Len(progress) < Progress)
  BY DEF Send
<1> QED
  BY <1>1, <1>2, <1>3, Bounds DEF Send

LEMMA CountKeeps ==
    ASSUME Tasks, NEW c \in CounterKinds, Count(c)
    PROVE  /\ counters' \in [CounterKinds -> Nat]
           /\ counters'[c] = counters[c] + 1
           /\ \A d \in CounterKinds \ {c} : counters'[d] = counters[d]
  BY DEF Tasks, Count

-----------------------------------------------------------------------------
LEMMA ScanInitInv == ScanInit => ScanInv
<1> SUFFICES ASSUME ScanInit PROVE ScanInv
  OBVIOUS
<1>1. Tasks
  BY Bounds DEF ScanInit, Tasks, WriterStates, CounterKinds, EventKinds
<1>2. \A p \in Places \ {"disk"} : Fill(p) = 0
  BY FillEmpty DEF ScanInit
<1>3. Room
  BY <1>2, Bounds DEF ScanInit, Room, Places
<1>4. Ends
  BY DEF ScanInit, Ends, Over
<1> QED
  BY <1>1, <1>3, <1>4 DEF ScanInv

LEMMA TasksKept == ScanInv /\ [ScanNext]_scanVars => Tasks'
<1> SUFFICES ASSUME ScanInv, [ScanNext]_scanVars PROVE Tasks'
  OBVIOUS
<1>1. Tasks
  BY DEF ScanInv
<1> USE DEF WriterStates, EventKinds, CounterKinds, stages, report
<1>2. CASE Traverse
  <2>1. CASE ReportVisit
    BY <1>1, <2>1, SendKeeps DEF ReportVisit, Tasks
  <2>2. CASE EndTraversal
    BY <1>1, <2>2 DEF EndTraversal, Tasks
  <2>3. ASSUME NEW f \in Files, Visit(f) \/ Skip(f) PROVE Tasks'
    BY <1>1, <2>3 DEF Visit, Skip, Tasks
  <2> QED
    BY <1>2, <2>1, <2>2, <2>3 DEF Traverse
<1>3. CASE EndSpawning
  BY <1>1, <1>3 DEF EndSpawning, Tasks
<1>4. ASSUME NEW f \in Files, Spawn(f) \/ Hash(f) PROVE Tasks'
  BY <1>1, <1>4 DEF Spawn, Hash, HandOver, CannotHash, Tasks
<1>5. CASE WriteNext
  <2>1. CASE StopReceiving \/ Begin \/ EndReject \/ Commit \/ EnrichFiles \/ Finish
    BY <1>1, <2>1 DEF StopReceiving, Begin, EndReject, Commit, EnrichFiles, Finish, WriterGoto, Tasks
  <2>2. CASE AutoLink
    BY <1>1, <2>2 DEF AutoLink, WriterGoto, In, Tasks
  <2>3. CASE Complete
    BY <1>1, <2>3, SendKeeps DEF Complete, WriterGoto, Tasks
  <2>4. ASSUME NEW f \in Files, Receive(f) PROVE Tasks'
    BY <1>1, <2>4, CountKeeps DEF Receive, WriterGoto, Tasks
  <2>5. ASSUME NEW f \in Files, Reject(f) \/ WriteFails(f) \/ EventFails(f) PROVE Tasks'
    BY <1>1, <2>5, CountKeeps, SendKeeps DEF Reject, WriteFails, EventFails, WriterGoto, Tasks
  <2>6. ASSUME NEW f \in Files, Write(f) PROVE Tasks'
    BY <1>1, <2>6, CountKeeps, SendKeeps DEF Write, WriterGoto, Tasks
  <2> QED
    BY <1>5, <2>1, <2>2, <2>3, <2>4, <2>5, <2>6 DEF WriteNext
<1>6. CASE Take
  <2>1. Head(progress) \in EventKinds /\ Tail(progress) \in Seq(EventKinds)
        /\ Len(Tail(progress)) <= Progress
    BY <1>1, <1>6, Bounds DEF Take, Tasks
  <2> QED
    BY <1>1, <1>6, <2>1 DEF Take, Tasks
<1>7. CASE Return
  BY <1>1, <1>7 DEF Return, Tasks
<1>8. CASE Leave
  BY <1>1, <1>8, Bounds DEF Leave, Tasks
<1>9. CASE UNCHANGED scanVars
  BY <1>1, <1>9 DEF scanVars, Tasks
<1> QED
  BY <1>2, <1>3, <1>4, <1>5, <1>6, <1>7, <1>8, <1>9 DEF ScanNext, Listen

\* The files only move in these steps.
LEMMA RoomKept == ScanInv /\ [ScanNext]_scanVars => Room'
<1> SUFFICES ASSUME ScanInv, [ScanNext]_scanVars PROVE Room'
  OBVIOUS
<1>1. Room /\ at \in [Files -> Places]
  BY DEF ScanInv, Room
<1>2. \A p : Fill(p) \in Nat
  BY FillNat
<1> USE DEF Places, stages, report
<1>3. CASE UNCHANGED at
  BY <1>1, <1>3 DEF Room, Fill, In
<1>4. ASSUME NEW f \in Files, Visit(f) PROVE Room'
  <2>1. CASE dry
    BY <1>1, <1>2, <1>4, <2>1, FillMoved DEF Visit, Room
  <2>2. CASE ~dry
    BY <1>1, <1>2, <1>4, <2>2, FillMoved, Bounds DEF Visit, Room
  <2> QED
    BY <2>1, <2>2
<1>5. ASSUME NEW f \in Files, Skip(f) PROVE Room'
  BY <1>1, <1>2, <1>5, FillMoved DEF Skip, Room
<1>6. ASSUME NEW f \in Files, Spawn(f) PROVE Room'
  BY <1>1, <1>2, <1>6, FillMoved, Bounds DEF Spawn, Room
<1>7. ASSUME NEW f \in Files, HandOver(f) PROVE Room'
  BY <1>1, <1>2, <1>7, FillMoved, Bounds DEF HandOver, Room
<1>8. ASSUME NEW f \in Files, CannotHash(f) PROVE Room'
  BY <1>1, <1>2, <1>8, FillMoved, Bounds DEF CannotHash, Room
<1>9. ASSUME NEW f \in Files, Receive(f) PROVE Room'
  <2>1. Fill("batch") < MaxBatch /\ Fill("written") = 0 /\ Move(f, "ch2", "batch")
    BY <1>1, <1>9, Bounds, FillEmpty DEF Receive, WriterGoto, ScanInv, Ends
  <2> QED
    BY <1>1, <1>2, <2>1, FillMoved, Bounds DEF Room
<1>10. ASSUME NEW f \in Files, Reject(f) \/ WriteFails(f) PROVE Room'
  <2>1. Move(f, "batch", "refused")
    BY <1>10 DEF Reject, WriteFails
  <2> QED
    BY <1>1, <1>2, <2>1, FillMoved, Bounds DEF Room
<1>11. ASSUME NEW f \in Files, Write(f) PROVE Room'
  <2>1. Move(f, "batch", "written")
    BY <1>11 DEF Write
  <2> QED
    BY <1>1, <1>2, <2>1, FillMoved, Bounds DEF Room
<1>12. CASE Commit \/ \E f \in Files : EventFails(f)
  <2>1. /\ at' \in [Files -> Places]
        /\ \A g \in Files, p \in {"ch1", "worker", "ch2", "batch", "written"} :
               at'[g] = p => at[g] = p
    BY <1>1, <1>12 DEF EventFails, Commit, DropBatch
  <2>2. \A p \in {"ch1", "worker", "ch2", "batch", "written"} : Fill(p)' <= Fill(p)
    BY <1>1, <2>1, FillLeft
  <2>3. \A p : Fill(p)' \in Nat
    BY FillNat
  <2> QED
    BY <1>1, <1>2, <2>1, <2>2, <2>3, Bounds DEF Room
<1>13. CASE UNCHANGED scanVars \/ EndSpawning \/ Listen \/ Leave
  BY <1>3, <1>13 DEF scanVars, EndSpawning, Listen, Take, Return, Leave
<1>14. CASE Traverse
  BY <1>3, <1>4, <1>5, <1>14 DEF Traverse, ReportVisit, EndTraversal
<1>15. CASE WriteNext
  BY <1>3, <1>9, <1>10, <1>11, <1>12, <1>15
     DEF WriteNext, StopReceiving, Begin, EndReject, EnrichFiles, AutoLink, Complete, Finish
<1> QED
  BY <1>6, <1>7, <1>8, <1>13, <1>14, <1>15 DEF ScanNext, Hash

LEMMA EndsKept == ScanInv /\ [ScanNext]_scanVars => Ends'
<1> SUFFICES ASSUME ScanInv, [ScanNext]_scanVars PROVE Ends'
  OBVIOUS
<1>1. Tasks /\ Ends /\ at \in [Files -> Places]
  BY DEF ScanInv, Room
<1> USE DEF Places, WriterStates, stages, report, Over
<1>2. CASE Traverse
  <2>1. ASSUME NEW f \in Files, Visit(f) PROVE Ends'
    BY <1>1, <2>1 DEF Visit, Move, Tasks, Ends
  <2>2. ASSUME NEW f \in Files, Skip(f) PROVE Ends'
    BY <1>1, <2>2 DEF Skip, Move, Tasks, Ends
  <2>3. CASE ReportVisit
    BY <1>1, <2>3 DEF ReportVisit, Tasks, Ends
  <2>4. CASE EndTraversal
    BY <1>1, <2>4 DEF EndTraversal, In, Tasks, Ends
  <2> QED
    BY <1>2, <2>1, <2>2, <2>3, <2>4 DEF Traverse
<1>3. CASE EndSpawning
  BY <1>1, <1>3 DEF EndSpawning, In, Tasks, Ends
<1>4. ASSUME NEW f \in Files, Spawn(f) PROVE Ends'
  BY <1>1, <1>4 DEF Spawn, Move, Tasks, Ends
<1>5. ASSUME NEW f \in Files, Hash(f) PROVE Ends'
  BY <1>1, <1>5 DEF Hash, HandOver, CannotHash, Move, Tasks, Ends
<1>6. CASE WriteNext
  <2>1. CASE StopReceiving
    BY <1>1, <2>1 DEF StopReceiving, WriterGoto, Ch2Closed, In, Tasks, Ends
  <2>2. CASE Begin
    BY <1>1, <2>2 DEF Begin, WriterGoto, Tasks, Ends
  <2>3. CASE EndReject
    BY <1>1, <2>3 DEF EndReject, WriterGoto, In, Tasks, Ends
  <2>4. CASE Commit
    BY <1>1, <2>4 DEF Commit, WriterGoto, DropBatch, InBatch, In, Tasks, Ends
  <2>5. CASE EnrichFiles \/ AutoLink \/ Complete \/ Finish
    BY <1>1, <2>5 DEF EnrichFiles, AutoLink, Complete, Finish, WriterGoto, Tasks, Ends
  <2>6. ASSUME NEW f \in Files, Receive(f) PROVE Ends'
    BY <1>1, <2>6 DEF Receive, WriterGoto, Move, Tasks, Ends
  <2>7. ASSUME NEW f \in Files, Reject(f) \/ Write(f) \/ WriteFails(f) PROVE Ends'
    BY <1>1, <2>7 DEF Reject, Write, WriteFails, WriterGoto, Move, Tasks, Ends
  <2>8. ASSUME NEW f \in Files, EventFails(f) PROVE Ends'
    BY <1>1, <2>8 DEF EventFails, WriterGoto, InBatch, In, Tasks, Ends
  <2> QED
    BY <1>6, <2>1, <2>2, <2>3, <2>4, <2>5, <2>6, <2>7, <2>8 DEF WriteNext
<1>7. CASE Listen \/ Leave \/ UNCHANGED scanVars
  BY <1>1, <1>7 DEF Listen, Take, Return, Leave, scanVars, Ends
<1> QED
  BY <1>2, <1>3, <1>4, <1>5, <1>6, <1>7 DEF ScanNext

\* The inductive invariant holds in every state of every scan.
THEOREM ScanInvariance == ScanSpec => []ScanInv
<1>1. ScanInv /\ [ScanNext]_scanVars => ScanInv'
  BY TasksKept, RoomKept, EndsKept DEF ScanInv
<1> QED
  BY ScanInitInv, <1>1, PTL DEF ScanSpec

-----------------------------------------------------------------------------
\* Every variable keeps its type, and no channel, task pool or batch ever
\* holds more than it is meant to.
THEOREM ScanTypeCorrect == ScanSpec => []ScanTypeOK
<1>1. ScanInv => ScanTypeOK
  BY DEF ScanInv, Tasks, Room, ScanTypeOK, WriterStates, CounterKinds
<1> QED
  BY <1>1, ScanInvariance, PTL

\* When the writer stops receiving (scanner.rs:599), no file is left in a
\* channel, a task, an open batch or an open transaction.
THEOREM NothingLeftBehind == ScanSpec => []NothingForgotten
<1>1. ScanInv => NothingForgotten
  BY DEF ScanInv, Room, Ends, Over, NothingForgotten, Places, Settled
<1> QED
  BY <1>1, ScanInvariance, PTL

-----------------------------------------------------------------------------
(***************************************************************************)
(* The writer's numbers.  They stop being true when a batch is lost, and   *)
(* a lost batch leaves its files in "dropped" for good.                    *)
(***************************************************************************)
Numbers ==
    Dropped = {} =>
        /\ counters["processed"] = Fill("library") + Fill("written")
        /\ counters["errors"] = Fill("refused")
        /\ counters["discovered"] =
               counters["processed"] + counters["errors"] + Fill("batch")

LEMMA DroppedStay == ScanInv /\ [ScanNext]_scanVars => Dropped \subseteq Dropped'
<1> SUFFICES ASSUME ScanInv, [ScanNext]_scanVars PROVE Dropped \subseteq Dropped'
  OBVIOUS
<1>1. at \in [Files -> Places]
  BY DEF ScanInv, Room
<1> USE DEF Dropped, In
<1>2. ASSUME NEW f \in Files, NEW from \in Places \ {"dropped"}, NEW to, Move(f, from, to)
      PROVE  Dropped \subseteq Dropped'
  BY <1>1, <1>2 DEF Move
<1>3. CASE Commit \/ \E f \in Files : EventFails(f)
  BY <1>1, <1>3 DEF Commit, EventFails, DropBatch, InBatch
<1>4. CASE UNCHANGED at
  BY <1>4
<1>5. CASE Traverse
  BY <1>2, <1>4, <1>5 DEF Traverse, ReportVisit, EndTraversal, Visit, Skip, Places
<1>6. CASE WriteNext
  BY <1>2, <1>3, <1>4, <1>6
     DEF WriteNext, StopReceiving, Begin, EndReject, EnrichFiles, AutoLink, Complete, Finish, Receive,
         Reject, Write, WriteFails, Places
<1>7. CASE EndSpawning \/ \E f \in Files : Spawn(f) \/ Hash(f)
  BY <1>2, <1>4, <1>7 DEF EndSpawning, Spawn, Hash, HandOver, CannotHash, Places
<1>8. CASE Listen \/ Leave \/ UNCHANGED scanVars
  BY <1>4, <1>8 DEF Listen, Take, Return, Leave, scanVars
<1> QED
  BY <1>5, <1>6, <1>7, <1>8 DEF ScanNext

LEMMA NumbersKept == ScanInv /\ Numbers /\ [ScanNext]_scanVars => Numbers'
<1> SUFFICES ASSUME ScanInv, Numbers, [ScanNext]_scanVars, Dropped' = {} PROVE Numbers'
  BY DEF Numbers
<1>1. Tasks /\ at \in [Files -> Places]
  BY DEF ScanInv, Room
<1>2. /\ counters["processed"] = Fill("library") + Fill("written")
      /\ counters["errors"] = Fill("refused")
      /\ counters["discovered"] = counters["processed"] + counters["errors"] + Fill("batch")
  BY DroppedStay DEF Numbers
<1>3. \A p : Fill(p) \in Nat /\ Fill(p)' \in Nat
  BY FillNat
<1>4. counters \in [CounterKinds -> Nat]
  BY <1>1 DEF Tasks
<1> USE DEF Places
\* Before the writer, files go from place to place and the numbers stay.
<1>5. ASSUME UNCHANGED counters,
             UNCHANGED at \/ \E f \in Files, from \in {"disk", "ch1", "worker"},
                 to \in {"proposed", "unread", "ch1", "worker", "ch2", "unhashed"} :
                     from # to /\ Move(f, from, to)
      PROVE  Numbers'
  <2>1. \A p \in {"library", "written", "refused", "batch"} : Fill(p)' = Fill(p)
    <3>1. CASE UNCHANGED at
      BY <3>1 DEF Fill, In
    <3>2. CASE ~UNCHANGED at
      BY <1>1, <1>5, <3>2, FillMoved
    <3> QED
      BY <3>1, <3>2
  <2> QED
    BY <1>2, <1>5, <2>1 DEF Numbers
<1>6. CASE Traverse
  BY <1>5, <1>6 DEF Traverse, ReportVisit, EndTraversal, Visit, Skip
<1>7. CASE EndSpawning \/ \E f \in Files : Spawn(f) \/ Hash(f)
  BY <1>5, <1>7 DEF EndSpawning, Spawn, Hash, HandOver, CannotHash
<1>8. CASE Listen \/ Leave \/ UNCHANGED scanVars
  BY <1>5, <1>8 DEF Listen, Take, Return, Leave, scanVars
<1>9. ASSUME NEW f \in Files, Move(f, "batch", "refused"), Count("errors") PROVE Numbers'
  <2>1. /\ Fill("batch")' = Fill("batch") - 1 /\ Fill("refused")' = Fill("refused") + 1
        /\ Fill("library")' = Fill("library") /\ Fill("written")' = Fill("written")
    BY <1>1, <1>9, FillMoved
  <2>2. /\ counters'["errors"] = counters["errors"] + 1
        /\ counters'["processed"] = counters["processed"]
        /\ counters'["discovered"] = counters["discovered"]
    BY <1>1, <1>9, CountKeeps DEF CounterKinds
  <2> QED
    BY <1>2, <1>3, <1>4, <2>1, <2>2 DEF Numbers, CounterKinds
<1>10. ASSUME NEW f \in Files, Receive(f) PROVE Numbers'
  <2>1. /\ Fill("batch")' = Fill("batch") + 1 /\ Fill("refused")' = Fill("refused")
        /\ Fill("library")' = Fill("library") /\ Fill("written")' = Fill("written")
    BY <1>1, <1>10, FillMoved DEF Receive
  <2>2. /\ counters'["errors"] = counters["errors"]
        /\ counters'["processed"] = counters["processed"]
        /\ counters'["discovered"] = counters["discovered"] + 1
    BY <1>1, <1>10, CountKeeps DEF Receive, CounterKinds
  <2> QED
    BY <1>2, <1>3, <1>4, <2>1, <2>2 DEF Numbers, CounterKinds
<1>11. ASSUME NEW f \in Files, Write(f) PROVE Numbers'
  <2>1. /\ Fill("batch")' = Fill("batch") - 1 /\ Fill("written")' = Fill("written") + 1
        /\ Fill("library")' = Fill("library") /\ Fill("refused")' = Fill("refused")
    BY <1>1, <1>11, FillMoved DEF Write
  <2>2. /\ counters'["errors"] = counters["errors"]
        /\ counters'["processed"] = counters["processed"] + 1
        /\ counters'["discovered"] = counters["discovered"]
    BY <1>1, <1>11, CountKeeps DEF Write, CounterKinds
  <2> QED
    BY <1>2, <1>3, <1>4, <2>1, <2>2 DEF Numbers, CounterKinds
\* No batch is lost in the step, so the file was the only one.
<1>12. ASSUME NEW f \in Files, EventFails(f) PROVE Numbers'
  <2>1. /\ at[f] = "batch" /\ Count("errors")
        /\ at' = [g \in Files |-> IF g = f THEN "refused"
                                  ELSE IF g \in InBatch THEN "dropped" ELSE at[g]]
    BY <1>12 DEF EventFails
  <2>2. \A g \in Files : at'[g] # "dropped"
    BY DEF Dropped, In
  <2>3. at' = [at EXCEPT ![f] = "refused"]
    BY <1>1, <2>1, <2>2
  <2> QED
    BY <1>9, <2>1, <2>3 DEF Move
<1>13. CASE Commit
  <2>1. \A g \in Files : at'[g] # "dropped"
    BY DEF Dropped, In
  <2>2. Fill("batch") = 0
    BY <1>13, FS_EmptySet DEF Commit, Fill
  <2>3. CASE at' = [f \in Files |-> IF at[f] = "written" THEN "library" ELSE at[f]]
    <3>1. /\ In("library")' = In("library") \cup In("written")
          /\ In("library") \cap In("written") = {}
      BY <1>1, <2>3 DEF In
    <3>2. Fill("library")' = Fill("library") + Fill("written")
      <4>1. Cardinality(In("library") \cup In("written"))
              = Cardinality(In("library")) + Cardinality(In("written")) - Cardinality({})
        BY <3>1, FillNat, FS_Union
      <4>2. Fill("library")' = Cardinality(In("library") \cup In("written"))
        BY <3>1 DEF Fill
      <4>3. /\ Cardinality(In("library")) = Fill("library")
            /\ Cardinality(In("written")) = Fill("written")
        BY DEF Fill
      <4>4. Fill("library")' = Fill("library") + Fill("written") - 0
        BY <4>1, <4>2, <4>3, FS_EmptySet
      <4> QED
        BY <1>3, <4>4
    <3>3. Fill("written")' = 0
      <4>1. In("written")' = {}
        BY <1>1, <2>3 DEF In
      <4> QED
        BY <4>1, FS_EmptySet DEF Fill
    <3>4. Fill("batch")' = Fill("batch") /\ Fill("refused")' = Fill("refused")
      BY <1>1, <2>3, FillSame
    <3> QED
      BY <1>2, <1>3, <1>4, <1>13, <2>2, <3>2, <3>3, <3>4 DEF Numbers, Commit, CounterKinds
  <2>4. CASE DropBatch(InBatch)
    <3>1. \A p : Fill(p)' = Fill(p)
      <4>1. \A f \in Files : at'[f] = at[f]
        BY <1>1, <2>1, <2>4 DEF DropBatch
      <4> QED
        BY <4>1, FillSame
    <3> QED
      BY <1>2, <1>13, <3>1 DEF Numbers, Commit
  <2> QED
    BY <1>13, <2>3, <2>4 DEF Commit
<1>14. CASE WriteNext
  BY <1>5, <1>9, <1>10, <1>11, <1>12, <1>13, <1>14
     DEF WriteNext, StopReceiving, Begin, EndReject, EnrichFiles, AutoLink, Complete, Finish,
         Reject, WriteFails
<1> QED
  BY <1>6, <1>7, <1>8, <1>14 DEF ScanNext

\* The completed event (scanner.rs:635) tells what happened to the files the
\* writer received, as long as no batch was lost.
THEOREM TrueNumbers == ScanSpec => []CountersTrue
<1>1. ScanInit => Numbers
  <2> SUFFICES ASSUME ScanInit PROVE Numbers
    OBVIOUS
  <2>1. \A p \in {"library", "written", "refused", "batch"} : Fill(p) = 0
    BY FillEmpty DEF ScanInit
  <2> QED
    BY <2>1 DEF ScanInit, Numbers
<1>2. ScanInv /\ Numbers => CountersTrue
  <2> SUFFICES ASSUME ScanInv, Numbers, Over PROVE CountersTrue
    BY DEF CountersTrue
  <2>1. Fill("written") = 0 /\ Fill("batch") = 0
    BY FillEmpty DEF ScanInv, Ends, Over
  <2>2. Fill("library") \in Nat /\ Fill("refused") \in Nat
    BY FillNat
  <2> QED
    BY <2>1, <2>2 DEF Numbers, CountersTrue
<1> QED
  BY <1>1, <1>2, NumbersKept, ScanInvariance, PTL DEF ScanSpec

-----------------------------------------------------------------------------
(***************************************************************************)
(* What the caller counts: each event that was sent is either counted or   *)
(* still in the channel.                                                   *)
(***************************************************************************)
Occurs(e, s) == Cardinality({i \in 1..Len(s) : s[i] = e})

Sent(e) == tally[e] + Occurs(e, progress)

LEMMA OccursNat == ASSUME NEW S, NEW s \in Seq(S), NEW e PROVE Occurs(e, s) \in Nat
<1>1. {i \in 1..Len(s) : s[i] = e} \subseteq 1..Len(s) /\ IsFiniteSet(1..Len(s))
  BY FS_Interval
<1> QED
  BY <1>1, FS_Subset, FS_CardinalityType DEF Occurs

LEMMA OccursEmpty == ASSUME NEW e PROVE Occurs(e, <<>>) = 0
<1>1. {i \in 1..Len(<<>>) : <<>>[i] = e} = {}
  OBVIOUS
<1> QED
  BY <1>1, FS_EmptySet DEF Occurs

LEMMA OccursAppend ==
    ASSUME NEW S, NEW s \in Seq(S), NEW d \in S, NEW e
    PROVE  Occurs(e, Append(s, d)) = Occurs(e, s) + (IF d = e THEN 1 ELSE 0)
<1> DEFINE before == {i \in 1..Len(s) : s[i] = e}
           n == Len(s) + 1
           t == Append(s, d)
<1>1. /\ Len(s) \in Nat /\ Len(t) = n /\ t[n] = d
      /\ \A i \in 1..Len(s) : t[i] = s[i]
  OBVIOUS
<1>2. IsFiniteSet(before) /\ n \notin before
  <2>1. before \subseteq 1..Len(s) /\ IsFiniteSet(1..Len(s))
    BY FS_Interval
  <2> QED
    BY <1>1, <2>1, FS_Subset
<1>3. {i \in 1..Len(t) : t[i] = e} = IF d = e THEN before \cup {n} ELSE before
  <2>1. 1..n = (1..Len(s)) \cup {n}
    BY <1>1
  <2> HIDE DEF t, n
  <2> QED
    BY <1>1, <2>1 DEF n
<1>4. Cardinality(before) \in Nat
  BY <1>2, FS_CardinalityType
<1>5. Occurs(e, s) = Cardinality(before) /\ Occurs(e, t) = Cardinality({i \in 1..Len(t) : t[i] = e})
  BY DEF Occurs
<1>6. Cardinality(before \cup {n}) = Cardinality(before) + 1
  <2> HIDE DEF before, n
  <2> QED
    BY <1>2, FS_AddElement
<1>7. Occurs(e, t) = Cardinality(IF d = e THEN before \cup {n} ELSE before)
  BY <1>3, <1>5
<1> HIDE DEF before, n
<1>8. Occurs(e, t) = Occurs(e, s) + (IF d = e THEN 1 ELSE 0)
  <2> HIDE DEF t
  <2>1. CASE d = e
    BY <1>4, <1>5, <1>6, <1>7, <2>1
  <2>2. CASE d # e
    <3>1. Occurs(e, t) = Cardinality(before)
      BY <1>7, <2>2
    <3> QED
      BY <1>4, <1>5, <2>2, <3>1
  <2> QED
    BY <2>1, <2>2
<1> QED
  BY <1>8

LEMMA OccursTail ==
    ASSUME NEW S, NEW s \in Seq(S), s # <<>>, NEW e
    PROVE  Occurs(e, Tail(s)) = Occurs(e, s) - (IF Head(s) = e THEN 1 ELSE 0)
<1> DEFINE all == {i \in 1..Len(s) : s[i] = e}
           later == {i \in 1..Len(Tail(s)) : Tail(s)[i] = e}
           shift == [i \in later |-> i + 1]
<1>1. /\ Len(s) \in Nat \ {0} /\ Len(Tail(s)) = Len(s) - 1 /\ Head(s) = s[1]
      /\ \A i \in 1..Len(Tail(s)) : Tail(s)[i] = s[i + 1]
  BY HeadTailProperties
<1>2. IsFiniteSet(all) /\ IsFiniteSet(later)
  <2>1. /\ all \subseteq 1..Len(s) /\ IsFiniteSet(1..Len(s))
        /\ later \subseteq 1..Len(Tail(s)) /\ IsFiniteSet(1..Len(Tail(s)))
    BY <1>1, FS_Interval
  <2> QED
    BY <2>1, FS_Subset
<1>3. Cardinality(later) = Cardinality(all \ {1})
  <2>1. shift \in [later -> all \ {1}]
    BY <1>1
  <2>2. \A i, j \in later : shift[i] = shift[j] => i = j
    OBVIOUS
  <2>3. \A k \in all \ {1} : \E i \in later : shift[i] = k
    <3> SUFFICES ASSUME NEW k \in all \ {1} PROVE \E i \in later : shift[i] = k
      OBVIOUS
    <3>1. k - 1 \in later /\ shift[k - 1] = k
      BY <1>1
    <3> QED
      BY <3>1
  <2>4. ExistsBijection(later, all \ {1})
    <3> HIDE DEF shift, later, all
    <3> QED
      BY <2>1, <2>2, <2>3, Fun_IsBij, Fun_ExistsBij
  <2> QED
    BY <1>2, <2>4, FS_Bijection
<1>4. 1 \in all <=> Head(s) = e
  BY <1>1
<1>5. Cardinality(all) \in Nat /\ Cardinality(all \ {1}) = Cardinality(all) - (IF 1 \in all THEN 1 ELSE 0)
  <2> HIDE DEF all
  <2> QED
    BY <1>2, FS_RemoveElement, FS_CardinalityType
<1> QED
  BY <1>3, <1>4, <1>5 DEF Occurs

-----------------------------------------------------------------------------
Reported == writer \in {"finish", "done"}

\* A caller that has not left has been sent what the stages counted.
Reports ==
    caller # "gone" =>
        /\ Sent("processed") = counters["processed"]
        /\ Sent("error") = counters["errors"]
        /\ Sent("completed") = (IF Reported THEN 1 ELSE 0)
        /\ Sent("discovered") + (IF traversal = "report" THEN 1 ELSE 0)
               + Fill("disk") + Fill("unread") = Cardinality(Files)

\* After the end of the stream nothing is sent.
Silence ==
    caller = "returned" => progress = <<>> /\ traversal = "done" /\ writer = "done"

SInv == Reports /\ Silence

LEMMA SentNat == ASSUME Tasks, NEW e \in EventKinds PROVE Sent(e) \in Nat
  BY OccursNat DEF Tasks, Sent

\* One event is sent, to a caller that is there.
LEMMA SendCounts ==
    ASSUME Tasks, caller' # "gone", NEW e \in EventKinds, Send(e)
    PROVE  \A d \in EventKinds : Sent(d)' = Sent(d) + (IF d = e THEN 1 ELSE 0)
<1>1. progress' = Append(progress, e) /\ tally' = tally /\ progress \in Seq(EventKinds)
      /\ tally \in [EventKinds -> Nat]
  BY DEF Send, Tasks
<1> SUFFICES ASSUME NEW d \in EventKinds
             PROVE  Sent(d)' = Sent(d) + (IF d = e THEN 1 ELSE 0)
  OBVIOUS
<1>2. Sent(d)' = tally'[d] + Occurs(d, progress')
  BY DEF Sent
<1>3. Occurs(d, Append(progress, e)) = Occurs(d, progress) + (IF d = e THEN 1 ELSE 0)
  <2>1. Occurs(d, Append(progress, e)) = Occurs(d, progress) + (IF e = d THEN 1 ELSE 0)
    BY <1>1, OccursAppend
  <2> QED
    BY <2>1
<1>4. Occurs(d, progress) \in Nat
  BY <1>1, OccursNat
<1> QED
  BY <1>1, <1>2, <1>3, <1>4 DEF Sent

LEMMA TakeCounts ==
    ASSUME Tasks, Take
    PROVE  \A d \in EventKinds : Sent(d)' = Sent(d)
<1>1. /\ progress # <<>> /\ progress' = Tail(progress) /\ progress \in Seq(EventKinds)
      /\ tally' = [tally EXCEPT ![Head(progress)] = @ + 1]
      /\ tally \in [EventKinds -> Nat] /\ Head(progress) \in EventKinds
  BY DEF Take, Tasks
<1> SUFFICES ASSUME NEW d \in EventKinds PROVE Sent(d)' = Sent(d)
  OBVIOUS
<1>2. Sent(d)' = tally'[d] + Occurs(d, progress')
  BY DEF Sent
<1>3. Occurs(d, Tail(progress)) = Occurs(d, progress) - (IF Head(progress) = d THEN 1 ELSE 0)
  BY <1>1, OccursTail
<1>4. Occurs(d, progress) \in Nat
  BY <1>1, OccursNat
<1>5. tally'[d] = tally[d] + (IF Head(progress) = d THEN 1 ELSE 0)
  BY <1>1
<1> QED
  BY <1>1, <1>2, <1>3, <1>4, <1>5 DEF Sent

LEMMA SameCounts ==
    ASSUME UNCHANGED <<progress, tally>>
    PROVE  \A d : Sent(d)' = Sent(d)
  BY DEF Sent

\* Only the traversal takes files from the disk.
LEMMA DiskKept ==
    ASSUME ScanInv, [ScanNext]_scanVars, ~Traverse
    PROVE  Fill("disk")' = Fill("disk") /\ Fill("unread")' = Fill("unread")
<1>1. at \in [Files -> Places]
  BY DEF ScanInv, Room
<1>2. CASE UNCHANGED at
  BY <1>2 DEF Fill, In
<1>3. ASSUME NEW f \in Files, Spawn(f) \/ Hash(f) \/ Receive(f) \/ Reject(f) \/ Write(f) \/ WriteFails(f)
      PROVE  \A p \in {"disk", "unread"} : Fill(p)' = Fill(p)
  BY <1>1, <1>3, FillMoved
     DEF Spawn, Hash, HandOver, CannotHash, Receive, Reject, Write, WriteFails, Places
<1>4. CASE Commit \/ \E f \in Files : EventFails(f)
  <2>1. \A g \in Files, p \in {"disk", "unread"} : at'[g] = p <=> at[g] = p
    BY <1>1, <1>4 DEF Commit, EventFails, DropBatch, InBatch, In
  <2> QED
    BY <2>1, FillSame
<1>5. CASE WriteNext
  BY <1>2, <1>3, <1>4, <1>5
     DEF WriteNext, StopReceiving, Begin, EndReject, EnrichFiles, AutoLink, Complete, Finish
<1>6. CASE EndSpawning \/ Listen \/ Leave \/ UNCHANGED scanVars
  BY <1>2, <1>6 DEF EndSpawning, Listen, Take, Return, Leave, scanVars
<1> QED
  BY <1>3, <1>5, <1>6 DEF ScanNext

LEMMA SilenceKept == ScanInv /\ Silence /\ [ScanNext]_scanVars => Silence'
<1> SUFFICES ASSUME ScanInv, Silence, [ScanNext]_scanVars, caller' = "returned"
             PROVE  (progress = <<>> /\ traversal = "done" /\ writer = "done")'
  BY DEF Silence
<1>1. CASE Listen \/ Leave \/ UNCHANGED scanVars
  BY <1>1 DEF Listen, Take, Return, Leave, scanVars, stages, report, Silence
<1>2. CASE Traverse \/ EndSpawning \/ \E f \in Files : Spawn(f) \/ Hash(f)
  BY <1>2 DEF Traverse, ReportVisit, EndTraversal, Visit, Skip, Send, EndSpawning, Spawn,
              Hash, HandOver, CannotHash, stages, report, Silence
<1>3. CASE WriteNext
  <2>1. writer # "done" /\ caller' = caller
    BY <1>3 DEF WriteNext, StopReceiving, Begin, EndReject, Commit, EnrichFiles, AutoLink, Complete,
                Finish, Receive, Reject, Write, WriteFails, EventFails, WriterGoto, Send, report
  <2> QED
    BY <2>1 DEF Silence
<1> QED
  BY <1>1, <1>2, <1>3 DEF ScanNext

LEMMA ReportsKept == ScanInv /\ Reports /\ [ScanNext]_scanVars => Reports'
<1> SUFFICES ASSUME ScanInv, Reports, [ScanNext]_scanVars, caller' # "gone" PROVE Reports'
  BY DEF Reports
<1>1. Tasks /\ at \in [Files -> Places] /\ counters \in [CounterKinds -> Nat] /\ writer \in WriterStates
  BY DEF ScanInv, Room, Tasks
<1>2. caller # "gone"
  BY DEF ScanNext, Traverse, ReportVisit, EndTraversal, Visit, Skip, Send, EndSpawning, Spawn,
         Hash, HandOver, CannotHash, WriteNext, StopReceiving, Begin, EndReject, Commit,
         EnrichFiles, AutoLink, Complete, Finish, Receive, Reject, Write, WriteFails, EventFails,
         WriterGoto, Listen, Take, Return, Leave, scanVars, report, stages
<1>3. /\ Sent("processed") = counters["processed"]
      /\ Sent("error") = counters["errors"]
      /\ Sent("completed") = (IF Reported THEN 1 ELSE 0)
      /\ Sent("discovered") + (IF traversal = "report" THEN 1 ELSE 0)
           + Fill("disk") + Fill("unread") = Cardinality(Files)
  BY <1>2 DEF Reports
<1>4. \A e \in EventKinds : Sent(e) \in Nat
  BY <1>1, SentNat
<1>5. \A p : Fill(p) \in Nat /\ Fill(p)' \in Nat
  BY FillNat
<1> USE DEF EventKinds, CounterKinds, WriterStates
\* Nothing is sent, counted, or taken from the disk.
<1>6. ASSUME \A e \in EventKinds : Sent(e)' = Sent(e), UNCHANGED <<counters, Reported, traversal>>,
             Fill("disk")' = Fill("disk"), Fill("unread")' = Fill("unread")
      PROVE  Reports'
  BY <1>3, <1>6 DEF Reports
<1>7. CASE Traverse
  <2>1. ASSUME NEW f \in Files, Visit(f) PROVE Reports'
    <3>1. \A e \in EventKinds : Sent(e)' = Sent(e)
      BY <2>1, SameCounts DEF Visit, report
    <3>2. Fill("disk")' = Fill("disk") - 1 /\ Fill("unread")' = Fill("unread")
      BY <1>1, <2>1, FillMoved DEF Visit, Places
    <3>3. /\ UNCHANGED <<counters, Reported>> /\ traversal = "walk" /\ traversal' = "report"
      BY <2>1 DEF Visit, Reported
    <3> QED
      BY <1>3, <1>4, <1>5, <3>1, <3>2, <3>3 DEF Reports
  <2>2. ASSUME NEW f \in Files, Skip(f) PROVE Reports'
    <3>1. \A e \in EventKinds : Sent(e)' = Sent(e)
      BY <2>2, SameCounts DEF Skip, report
    <3>2. Fill("disk")' = Fill("disk") - 1 /\ Fill("unread")' = Fill("unread") + 1
      BY <1>1, <2>2, FillMoved DEF Skip, Places
    <3>3. UNCHANGED <<counters, Reported, traversal>>
      BY <2>2 DEF Skip, Reported, stages
    <3> QED
      BY <1>3, <1>4, <1>5, <3>1, <3>2, <3>3 DEF Reports
  <2>3. CASE ReportVisit
    <3>1. \A e \in EventKinds : Sent(e)' = Sent(e) + (IF e = "discovered" THEN 1 ELSE 0)
      BY <1>1, <2>3, SendCounts DEF ReportVisit
    <3>2. Fill("disk")' = Fill("disk") /\ Fill("unread")' = Fill("unread")
      BY <2>3 DEF ReportVisit, Fill, In
    <3>3. /\ UNCHANGED <<counters, Reported>> /\ traversal = "report" /\ traversal' = "walk"
      BY <2>3 DEF ReportVisit, Reported
    <3> QED
      BY <1>3, <1>4, <1>5, <3>1, <3>2, <3>3 DEF Reports
  <2>4. CASE EndTraversal
    <3>1. \A e \in EventKinds : Sent(e)' = Sent(e)
      BY <2>4, SameCounts DEF EndTraversal, report
    <3>2. Fill("disk")' = Fill("disk") /\ Fill("unread")' = Fill("unread")
      BY <2>4 DEF EndTraversal, Fill, In
    <3>3. /\ UNCHANGED <<counters, Reported>> /\ traversal = "walk" /\ traversal' = "done"
      BY <2>4 DEF EndTraversal, Reported
    <3> QED
      BY <1>3, <1>4, <1>5, <3>1, <3>2, <3>3 DEF Reports
  <2> QED
    BY <1>7, <2>1, <2>2, <2>3, <2>4 DEF Traverse
<1>8. CASE ~Traverse
  <2>1. Fill("disk")' = Fill("disk") /\ Fill("unread")' = Fill("unread")
    BY <1>8, DiskKept
  <2>2. CASE EndSpawning \/ Return \/ Leave \/ UNCHANGED scanVars
             \/ \E f \in Files : Spawn(f) \/ Hash(f)
    <3>1. UNCHANGED <<counters, Reported, traversal>> /\ UNCHANGED <<progress, tally>>
      BY <2>2 DEF EndSpawning, Return, Leave, scanVars, Spawn, Hash, HandOver, CannotHash, stages,
                  report, Reported
    <3> QED
      BY <1>6, <2>1, <3>1, SameCounts
  <2>3. CASE Take
    <3>1. UNCHANGED <<counters, Reported, traversal>>
      BY <2>3 DEF Take, stages, Reported
    <3> QED
      BY <1>1, <1>6, <2>1, <2>3, <3>1, TakeCounts
  <2>4. CASE StopReceiving \/ Begin \/ EndReject \/ Commit \/ EnrichFiles \/ AutoLink \/ Finish
    <3>1. UNCHANGED <<counters, Reported, traversal>> /\ UNCHANGED <<progress, tally>>
      BY <2>4 DEF StopReceiving, Begin, EndReject, Commit, EnrichFiles, AutoLink, Finish, WriterGoto,
                  report, Reported
    <3> QED
      BY <1>6, <2>1, <3>1, SameCounts
  <2>5. ASSUME NEW f \in Files, Receive(f) PROVE Reports'
    <3>1. Count("discovered") /\ UNCHANGED <<Reported, traversal>> /\ UNCHANGED <<progress, tally>>
      BY <2>5 DEF Receive, WriterGoto, report, Reported
    <3>2. counters'["processed"] = counters["processed"] /\ counters'["errors"] = counters["errors"]
      BY <1>1, <3>1, CountKeeps
    <3> QED
      BY <1>3, <2>1, <3>1, <3>2, SameCounts DEF Reports
  <2>6. ASSUME NEW f \in Files, Reject(f) \/ WriteFails(f) \/ EventFails(f) PROVE Reports'
    <3>1. Count("errors") /\ Send("error") /\ UNCHANGED <<Reported, traversal>>
      BY <2>6 DEF Reject, WriteFails, EventFails, WriterGoto, Reported
    <3>2. /\ counters'["processed"] = counters["processed"]
          /\ counters'["errors"] = counters["errors"] + 1
      BY <1>1, <3>1, CountKeeps
    <3>3. \A e \in EventKinds : Sent(e)' = Sent(e) + (IF e = "error" THEN 1 ELSE 0)
      BY <1>1, <3>1, SendCounts
    <3> QED
      BY <1>3, <1>4, <2>1, <3>1, <3>2, <3>3 DEF Reports
  <2>7. ASSUME NEW f \in Files, Write(f) PROVE Reports'
    <3>1. Count("processed") /\ Send("processed") /\ UNCHANGED <<Reported, traversal>>
      BY <2>7 DEF Write, WriterGoto, Reported
    <3>2. /\ counters'["processed"] = counters["processed"] + 1
          /\ counters'["errors"] = counters["errors"]
      BY <1>1, <3>1, CountKeeps
    <3>3. \A e \in EventKinds : Sent(e)' = Sent(e) + (IF e = "processed" THEN 1 ELSE 0)
      BY <1>1, <3>1, SendCounts
    <3> QED
      BY <1>3, <1>4, <2>1, <3>1, <3>2, <3>3 DEF Reports
  <2>8. CASE Complete
    <3>1. Send("completed") /\ ~Reported /\ Reported' /\ UNCHANGED <<counters, traversal>>
      BY <2>8 DEF Complete, WriterGoto, Reported
    <3>2. \A e \in EventKinds : Sent(e)' = Sent(e) + (IF e = "completed" THEN 1 ELSE 0)
      BY <1>1, <3>1, SendCounts
    <3> QED
      BY <1>3, <1>4, <2>1, <3>1, <3>2 DEF Reports
  <2> QED
    BY <1>8, <2>2, <2>3, <2>4, <2>5, <2>6, <2>7, <2>8 DEF ScanNext, WriteNext, Listen
<1> QED
  BY <1>7, <1>8

\* A caller that reads the stream to its end has seen the completion once, and
\* counted what the writer counted (scanner.rs:93-133).
THEOREM CallerInformed == ScanSpec => []CallerSeesAll
<1>1. ScanInit => SInv
  <2> SUFFICES ASSUME ScanInit PROVE SInv
    OBVIOUS
  <2>1. \A e \in EventKinds : Sent(e) = 0
    BY OccursEmpty DEF ScanInit, Sent
  <2>2. Fill("unread") = 0 /\ Fill("disk") = Cardinality(Files) /\ Cardinality(Files) \in Nat
    <3>1. In("disk") = Files
      BY DEF ScanInit, In
    <3> QED
      BY <3>1, FillEmpty, Bounds, FS_CardinalityType DEF ScanInit, Fill
  <2> QED
    BY <2>1, <2>2 DEF ScanInit, SInv, Reports, Silence, Reported, EventKinds
<1>2. SInv /\ ScanInv /\ [ScanNext]_scanVars => SInv'
  BY SilenceKept, ReportsKept DEF SInv
<1>3. ScanInv /\ SInv => CallerSeesAll
  <2> SUFFICES ASSUME ScanInv, SInv, caller = "returned" PROVE CallerSeesAll
    BY DEF CallerSeesAll
  <2>1. progress = <<>> /\ traversal = "done" /\ writer = "done" /\ Fill("disk") = 0
    BY FillEmpty DEF SInv, Silence, ScanInv, Ends
  <2>2. \A e \in EventKinds : Sent(e) = tally[e]
    <3>1. tally \in [EventKinds -> Nat]
      BY DEF ScanInv, Tasks
    <3> QED
      BY <2>1, <3>1, OccursEmpty DEF Sent
  <2>3. /\ tally["discovered"] \in Nat /\ Fill("unread") \in Nat
        /\ Cardinality(Files) \in Nat
    BY FillNat, Bounds, FS_CardinalityType DEF ScanInv, Tasks, EventKinds
  <2> QED
    BY <2>1, <2>2, <2>3 DEF SInv, Reports, CallerSeesAll, Reported, EventKinds
<1> QED
  BY <1>1, <1>2, <1>3, ScanInvariance, PTL DEF ScanSpec
=============================================================================
