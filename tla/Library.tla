------------------------------- MODULE Library -------------------------------
(***************************************************************************)
(* The library's rows (core/src/db) and those who write them: the writer   *)
(* task of a scan with its enrichment and its linking pass, the user who   *)
(* imports, merges, edits and removes, and the file system underneath.     *)
(*                                                                         *)
(*     files --fingerprint--> contents --document_id--> documents          *)
(*                                        document_metadata --------^      *)
(*                                                                         *)
(* A step is a transaction or an autocommitted statement; reads whose      *)
(* answer is used later are steps of their own.  Metadata is kept down to  *)
(* a title, which the first value wins, and the authors, which are         *)
(* collected: the title and the author of a content are the content's own  *)
(* name.  Tags, covers and reading states hang on contents and are left    *)
(* out.                                                                    *)
(***************************************************************************)
EXTENDS Naturals, FiniteSets

CONSTANTS Paths,       \* where a file can be
          Groups,      \* directories with a file stem
          GroupOf,     \* the group of each path
          Contents,    \* fingerprints
          Described,   \* the contents metadata can be extracted from
          User,        \* the title the user gives
          None,        \* NULL
          MaxDocuments, MaxScans, MaxChanges

Documents == 1..MaxDocuments
Metadata == [title : Contents \cup {User, None}, authors : SUBSET Contents]

ASSUME LibraryAssumption ==
    /\ GroupOf \in [Paths -> Groups]
    /\ Described \subseteq Contents
    /\ User \notin Contents
    /\ None \notin Contents \cup Documents \cup {User} \cup Metadata
    /\ IsFiniteSet(Contents) /\ IsFiniteSet(Paths)
    /\ {MaxDocuments, MaxScans, MaxChanges} \subseteq Nat

VARIABLES disk,       \* the content at each path
          file,       \* files: the fingerprint of each path's row
          contents,   \* the rows of contents
          linked,     \* contents.document_id
          documents,  \* the rows of documents
          lastId,     \* AUTOINCREMENT: ids are not given twice
          meta,       \* document_metadata
          scan,       \* where the scan is, and what it has fingerprinted
          job,        \* for each path, the task that enriches its content
          linker,     \* the linking pass
          form,       \* the metadata editor
          scans,      \* how many scans began
          changes,    \* how often the user or somebody else did something
          scanned,    \* history: the paths whose row is from a scan
          calm        \* history: nothing ever disturbed a scan or an edit,
                      \* and no enrichment one of the same batch (Apart)

tables == <<file, contents, linked, documents, lastId, meta>>
tasks == <<scan, job, linker, form>>
history == <<scans, changes, scanned, calm>>
vars == <<disk, tables, tasks, history>>

Blank == [title |-> None, authors |-> {}]

IdleJob == [at |-> "idle", fp |-> None, got |-> None, doc |-> None, saw |-> None]
IdleLinker == [at |-> "idle", rows |-> {}, todo |-> {}, doc |-> None,
               others |-> {}, fps |-> {}, saw |-> None, from |-> None]
NoForm == [doc |-> None, saw |-> None]
Row == [path : Paths, fp : Contents, doc : Documents \cup {None}]

TypeOK ==
    /\ disk \in [Paths -> Contents \cup {None}]
    /\ file \in [Paths -> contents \cup {None}]
    /\ contents \subseteq Contents
    /\ linked \in [Contents -> documents \cup {None}]
    /\ lastId \in 0..MaxDocuments
    /\ documents \subseteq 1..lastId
    /\ meta \in [Documents -> Metadata \cup {None}]
    /\ \A d \in Documents \ documents : meta[d] = None
    /\ scan \in [at : {"idle", "walk", "linking", "completed"},
                 found : [Paths -> Contents \cup {None}], seen : SUBSET Paths]
    /\ job \in [Paths ->
                  [at : {"idle", "extract", "ensure", "create", "assign",
                         "read", "write"},
                   fp : Contents \cup {None}, got : Contents \cup {None},
                   doc : Documents \cup {None}, saw : Metadata \cup {None}]]
    /\ linker \in [at : {"idle", "groups", "merge", "write", "assign"},
                   rows : SUBSET Row, todo : SUBSET Groups,
                   doc : Documents \cup {None}, others : SUBSET Documents,
                   fps : SUBSET Contents, saw : Metadata \cup {None},
                   from : Metadata \cup {None}]
    /\ form \in [doc : Documents \cup {None}, saw : Metadata \cup {None}]
    /\ scans \in 0..MaxScans
    /\ changes \in 0..MaxChanges
    /\ scanned \subseteq Paths
    /\ calm \in BOOLEAN

NothingFound == [p \in Paths |-> None]
IdleScan == [at |-> "idle", found |-> NothingFound, seen |-> {}]

\* An empty library and some files on the disk.
Init ==
    /\ disk \in [Paths -> Contents \cup {None}]
    /\ file = [p \in Paths |-> None]
    /\ contents = {}
    /\ linked = [c \in Contents |-> None]
    /\ documents = {}
    /\ lastId = 0
    /\ meta = [d \in Documents |-> None]
    /\ scan = IdleScan
    /\ job = [p \in Paths |-> IdleJob]
    /\ linker = IdleLinker
    /\ form = NoForm
    /\ scans = 0 /\ changes = 0
    /\ scanned = {}
    /\ calm = TRUE

Quiet == scan.at = "idle" /\ (\A p \in Paths : job[p] = IdleJob) /\ form = NoForm

\* What a step outside the scan does to the history.
Disturbing == calm' = (calm /\ Quiet)

(***************************************************************************)
(* Rows.                                                                   *)
(***************************************************************************)

\* Mutant: what the file says replaces what the document has.
MergedOverwrites(m, n) ==
    [title   |-> IF n.title = None THEN m.title ELSE n.title,
     authors |-> m.authors \cup n.authors]

\* The metadata m with n merged in: scalar fields keep what they have, the
\* authors are extended.
Merged(m, n) ==
    [title   |-> IF m.title = None THEN n.title ELSE m.title,
     authors |-> m.authors \cup n.authors]

\* The metadata m has what was extracted from c.
Tells(m, c) == m # None /\ c \in m.authors
IsDescribed(c) == linked[c] # None /\ Tells(meta[linked[c]], c)

Extracted(c) == [title |-> c, authors |-> {c}]

\* upsert_document with a new guid.
CreateDocument ==
    /\ lastId < MaxDocuments
    /\ lastId' = lastId + 1
    /\ documents' = documents \cup {lastId + 1}

\* merge_document_metadata_from_extracted, when the row was saw (None: there
\* was none) at the time it was read.  The insertion fails when the document
\* is gone or somebody else inserted the row; the update does not look.
StoreMerged(d, saw, n) ==
    meta' = IF \/ d \notin documents
               \/ saw = None /\ meta[d] # None
            THEN meta
            ELSE [meta EXCEPT ![d] = Merged(IF saw = None THEN Blank ELSE saw, n)]

(***************************************************************************)
(* The scan: files are fingerprinted, written in batches, each batch is    *)
(* enriched by concurrent tasks, and the files are linked at the end.      *)
(***************************************************************************)
ScanStart ==
    /\ scan.at = "idle"
    /\ scans < MaxScans
    /\ scans' = scans + 1
    /\ scan' = [IdleScan EXCEPT !.at = "walk"]
    /\ calm' = (calm /\ Quiet)
    /\ UNCHANGED <<disk, tables, job, linker, form, changes, scanned>>

Fingerprint(p) ==
    /\ scan.at = "walk"
    /\ p \notin scan.seen
    /\ scan' = [scan EXCEPT !.seen = @ \cup {p}, !.found[p] = disk[p]]
    /\ UNCHANGED <<disk, tables, job, linker, form, history>>

Found == {p \in Paths : scan.found[p] # None}
Enriching == {p \in Paths : job[p].at # "idle"}

\* write_scanned_file: the rows of the contents and of the files; a row that
\* is there is updated when its file has changed.
NewOrUpdated(S) == {p \in S : file[p] # scan.found[p]}

\* History: the contents of the batch that are enriched together have not one
\* document, unless it tells of both already.
Apart(S) ==
    \A p, q \in NewOrUpdated(S) :
        LET c == scan.found[p]
            e == scan.found[q]
        IN  /\ {c, e} \subseteq Described
            /\ c # e
            /\ linked[c] # None
            /\ linked[c] = linked[e]
            => IsDescribed(c) /\ IsDescribed(e)

WriteScannedFiles(S) ==
    /\ contents' = contents \cup {scan.found[p] : p \in S}
    /\ file' = [p \in Paths |->
                  IF p \in NewOrUpdated(S) THEN scan.found[p] ELSE file[p]]

\* flush_batch: write_scanned_file for each file of the batch S, in one
\* transaction; the new and the changed ones are then enriched.
WriteBatch(S) ==
    /\ scan.at = "walk"
    /\ Enriching = {}
    /\ WriteScannedFiles(S)
    /\ job' = [p \in Paths |->
                 IF p \in NewOrUpdated(S)
                 THEN [IdleJob EXCEPT !.at = "extract", !.fp = scan.found[p]]
                 ELSE job[p]]
    /\ scanned' = scanned \cup NewOrUpdated(S)
    /\ scan' = [scan EXCEPT !.found = [p \in Paths |-> IF p \in S THEN None ELSE @[p]]]
    /\ calm' = (calm /\ Apart(S))
    /\ UNCHANGED <<disk, linked, documents, lastId, meta, linker, form, scans,
                   changes>>

\* The transaction of a batch does not begin or commit.
BatchFails(S) ==
    /\ scan.at = "walk"
    /\ Enriching = {}
    /\ scan' = [scan EXCEPT !.found = [p \in Paths |-> IF p \in S THEN None ELSE @[p]]]
    /\ calm' = FALSE
    /\ UNCHANGED <<disk, tables, job, linker, form, scans, changes,
                   scanned>>

(***************************************************************************)
(* enrich_file, and the end of import_with_opds_metadata.                  *)
(***************************************************************************)
JobGoto(p, j) == job' = [job EXCEPT ![p] = j]

\* The metadata is extracted from what the path holds now.
Extract(p) ==
    /\ job[p].at = "extract"
    /\ JobGoto(p, IF disk[p] \in Described
                  THEN [job[p] EXCEPT !.at = "ensure", !.got = disk[p]]
                  ELSE IdleJob)
    /\ UNCHANGED <<disk, tables, scan, linker, form, history>>

\* ensure_document_for_fingerprint: the content's document, or a new one.
EnsureSelect(p) ==
    /\ job[p].at = "ensure"
    /\ LET d == linked[job[p].fp]
       IN  JobGoto(p, IF d = None
                      THEN [job[p] EXCEPT !.at = "create"]
                      ELSE [job[p] EXCEPT !.at = "read", !.doc = d])
    /\ UNCHANGED <<disk, tables, scan, linker, form, history>>

EnsureCreate(p) ==
    /\ job[p].at = "create"
    /\ CreateDocument
    /\ JobGoto(p, [job[p] EXCEPT !.at = "assign", !.doc = lastId'])
    /\ UNCHANGED <<disk, file, contents, linked, meta, scan, linker, form, history>>

\* The new document is assigned, whatever the content is linked to by now;
\* the foreign key refuses a document that is gone.
EnsureAssign(p) ==
    /\ job[p].at = "assign"
    /\ LET c == job[p].fp
           d == job[p].doc
       IN  \/ /\ c \in contents => d \in documents
              /\ linked' = IF c \in contents THEN [linked EXCEPT ![c] = d] ELSE linked
              /\ JobGoto(p, [job[p] EXCEPT !.at = "read"])
           \/ /\ c \in contents /\ d \notin documents
              /\ JobGoto(p, IdleJob)
              /\ UNCHANGED linked
    /\ UNCHANGED <<disk, file, contents, documents, lastId, meta, scan, linker,
                   form, history>>

\* The document's id is looked up again and its metadata read.
MergeRead(p) ==
    /\ job[p].at = "read"
    /\ JobGoto(p, IF job[p].doc \in documents
                  THEN [job[p] EXCEPT !.at = "write", !.saw = meta[job[p].doc]]
                  ELSE IdleJob)
    /\ UNCHANGED <<disk, tables, scan, linker, form, history>>

MergeWrite(p) ==
    /\ job[p].at = "write"
    /\ StoreMerged(job[p].doc, job[p].saw, Extracted(job[p].got))
    /\ JobGoto(p, IdleJob)
    /\ UNCHANGED <<disk, file, contents, linked, documents, lastId, scan, linker,
                   form, history>>

(***************************************************************************)
(* auto_link_documents: on one connection, without a transaction, from a   *)
(* snapshot of all rows.                                                   *)
(***************************************************************************)
Snapshot == {[path |-> p, fp |-> file[p], doc |-> linked[file[p]]] :
                p \in {q \in Paths : file[q] # None}}

LinkStart ==
    /\ scan.at = "walk"
    /\ scan.seen = Paths /\ Found = {} /\ Enriching = {}
    /\ scan' = [scan EXCEPT !.at = "linking"]
    /\ linker' = [IdleLinker EXCEPT !.at = "groups", !.rows = Snapshot,
                                    !.todo = {GroupOf[r.path] : r \in Snapshot}]
    /\ UNCHANGED <<disk, tables, job, form, history>>

RowsOf(g) == {r \in linker.rows : GroupOf[r.path] = g}
DocsOf(g) == {r.doc : r \in RowsOf(g)} \ {None}

\* Nothing to do: one content only, or all linked to one document already.
Linked(g) ==
    \/ Cardinality({r.fp : r \in RowsOf(g)}) <= 1
    \/ \E d \in Documents : \A r \in RowsOf(g) : r.doc = d

SkipGroup(g) ==
    /\ linker.at = "groups"
    /\ g \in linker.todo
    /\ Linked(g)
    /\ linker' = [linker EXCEPT !.todo = @ \ {g}]
    /\ UNCHANGED <<disk, tables, scan, job, form, history>>

\* The groups come in the order of a HashMap, the documents of a group in
\* that of the rows: any one is the canonical document.
BeginGroup(g) ==
    /\ linker.at = "groups"
    /\ g \in linker.todo
    /\ ~Linked(g)
    /\ LET go(d) == [linker EXCEPT !.at = "merge", !.todo = @ \ {g}, !.doc = d,
                                   !.others = DocsOf(g) \ {d},
                                   !.fps = {r.fp : r \in RowsOf(g)}]
       IN  \/ \E d \in DocsOf(g) :
                 /\ linker' = go(d)
                 /\ UNCHANGED <<documents, lastId>>
           \/ /\ DocsOf(g) = {}
              /\ CreateDocument
              /\ linker' = go(lastId')
    /\ UNCHANGED <<disk, file, contents, linked, meta, scan, job, form, history>>

\* merge_document_metadata_from_document, its two reads ...
LinkRead ==
    /\ linker.at = "merge"
    /\ \/ \E d \in linker.others :
             linker' = [linker EXCEPT
                          !.at = IF meta[d] = None THEN "merge" ELSE "write",
                          !.others = @ \ {d},
                          !.from = meta[d],
                          !.saw = IF meta[d] = None THEN None ELSE meta[linker.doc]]
       \/ /\ linker.others = {}
          /\ linker' = [linker EXCEPT !.at = "assign"]
    /\ UNCHANGED <<disk, tables, scan, job, form, history>>

\* An error of a statement ends the pass.
LinkFails ==
    /\ linker' = [IdleLinker EXCEPT !.at = "groups"]
    /\ UNCHANGED <<linked, meta>>

\* ... and its write.
LinkWrite ==
    /\ linker.at = "write"
    /\ \/ /\ linker.saw = None
          /\ \/ linker.doc \notin documents
             \/ meta[linker.doc] # None
          /\ LinkFails
       \/ /\ ~(linker.saw = None /\ (linker.doc \notin documents \/ meta[linker.doc] # None))
          /\ StoreMerged(linker.doc, linker.saw, linker.from)
          /\ linker' = [linker EXCEPT !.at = "merge", !.saw = None, !.from = None]
          /\ UNCHANGED linked
    /\ UNCHANGED <<disk, file, contents, documents, lastId, scan, job, form, history>>

\* Mutant: links are only filled in, as set_content_document does.
AssignUnlinked ==
    /\ linker.at = "assign"
    /\ \E c \in linker.fps :
          /\ linked' = IF c \in contents /\ linked[c] = None
                       THEN [linked EXCEPT ![c] = linker.doc] ELSE linked
          /\ linker' = [linker EXCEPT !.fps = @ \ {c},
                                      !.at = IF linker.fps = {c}
                                             THEN "groups" ELSE "assign"]
    /\ UNCHANGED <<disk, file, contents, documents, lastId, meta, scan, job, form, history>>

\* One content after the other is pointed at the canonical document.
LinkAssign ==
    /\ linker.at = "assign"
    /\ \E c \in linker.fps :
          \/ /\ c \in contents => linker.doc \in documents
             /\ linked' = IF c \in contents
                          THEN [linked EXCEPT ![c] = linker.doc] ELSE linked
             /\ linker' = [linker EXCEPT !.fps = @ \ {c},
                                         !.at = IF linker.fps = {c}
                                                THEN "groups" ELSE "assign"]
             /\ UNCHANGED meta
          \/ /\ c \in contents /\ linker.doc \notin documents
             /\ LinkFails
    /\ UNCHANGED <<disk, file, contents, documents, lastId, scan, job, form, history>>

LinkDone ==
    /\ scan.at = "linking"
    /\ linker.at = "groups" /\ linker.todo = {}
    /\ scan' = [scan EXCEPT !.at = "completed"]
    /\ linker' = IdleLinker
    /\ UNCHANGED <<disk, tables, job, form, history>>

ScanEnd ==
    /\ scan.at = "completed"
    /\ scan' = IdleScan
    /\ UNCHANGED <<disk, tables, job, linker, form, history>>

\* The process stops: what it knew is gone, the rows stay.
Crash ==
    /\ ~Quiet
    /\ scan' = IdleScan
    /\ job' = [p \in Paths |-> IdleJob]
    /\ linker' = IdleLinker
    /\ form' = NoForm
    /\ calm' = FALSE
    /\ UNCHANGED <<disk, tables, scans, changes, scanned>>

(***************************************************************************)
(* The user.                                                               *)
(***************************************************************************)
Change ==
    /\ changes < MaxChanges
    /\ changes' = changes + 1

\* import_file, and what the catalogue says of it (or nothing): the file's
\* row is only inserted, never updated.
Import(p) ==
    /\ Change
    /\ job[p].at = "idle"
    /\ disk[p] # None
    /\ contents' = contents \cup {disk[p]}
    /\ file' = IF file[p] = None THEN [file EXCEPT ![p] = disk[p]] ELSE file
    /\ \E got \in {None, disk[p]} :
          JobGoto(p, IF got = None THEN IdleJob
                     ELSE [IdleJob EXCEPT !.at = "ensure", !.fp = file'[p], !.got = got])
    /\ Disturbing
    /\ UNCHANGED <<disk, linked, documents, lastId, meta, scan, linker, form, scans,
                   scanned>>

\* Mutant: the loser's metadata is not merged into the winner's.
MergeForgets(w, l) ==
    /\ Change
    /\ w \in documents /\ l \in documents \ {w}
    /\ linked' = [c \in Contents |-> IF linked[c] = l THEN w ELSE linked[c]]
    /\ meta' = [meta EXCEPT ![l] = None]
    /\ documents' = documents \ {l}
    /\ Disturbing
    /\ UNCHANGED <<disk, file, contents, lastId, scan, job, linker, form, scans,
                   scanned>>

\* merge_documents: metadata and contents of the loser go to the winner.
MergeDocuments(w, l) ==
    /\ Change
    /\ w \in documents /\ l \in documents \ {w}
    /\ linked' = [c \in Contents |-> IF linked[c] = l THEN w ELSE linked[c]]
    /\ meta' = [meta EXCEPT
                  ![w] = IF meta[l] = None THEN @
                         ELSE Merged(IF @ = None THEN Blank ELSE @, meta[l]),
                  ![l] = None]
    /\ documents' = documents \ {l}
    /\ Disturbing
    /\ UNCHANGED <<disk, file, contents, lastId, scan, job, linker, form, scans,
                   scanned>>

FilesOf(c) == {p \in Paths : file[p] = c}

\* delete_content_from_document: the files with the content (the ones in
\* kept cannot be removed from the disk), their rows, the content's row, and
\* the document when nothing else belongs to it.
RemoveContent(d, c, kept) ==
    /\ Change
    /\ d \in documents
    /\ linked[c] = d
    /\ disk' = [p \in Paths |-> IF p \in FilesOf(c) \ kept THEN None ELSE disk[p]]
    /\ file' = [p \in Paths |-> IF p \in FilesOf(c) THEN None ELSE file[p]]
    /\ contents' = contents \ {c}
    /\ linked' = [linked EXCEPT ![c] = None]
    /\ LET gone == \A e \in contents' : linked'[e] # d
       IN  /\ documents' = IF gone THEN documents \ {d} ELSE documents
           /\ meta' = IF gone THEN [meta EXCEPT ![d] = None] ELSE meta
    /\ scanned' = scanned \ FilesOf(c)
    /\ Disturbing
    /\ UNCHANGED <<lastId, scan, job, linker, form, scans>>

\* delete_file, and one file of check_missing: the row goes, its content and
\* its document stay.
RemoveFile(p) ==
    /\ Change
    /\ file[p] # None
    /\ disk' = [disk EXCEPT ![p] = None]
    /\ file' = [file EXCEPT ![p] = None]
    /\ scanned' = scanned \ {p}
    /\ Disturbing
    /\ UNCHANGED <<contents, linked, documents, lastId, meta, tasks, scans>>

\* The metadata editor shows a document, and later saves all it shows.
OpenForm(d) ==
    /\ Change
    /\ form = NoForm
    /\ d \in documents
    /\ form' = [doc |-> d, saw |-> meta[d]]
    /\ Disturbing
    /\ UNCHANGED <<disk, tables, scan, job, linker, scans, scanned>>

SaveForm ==
    /\ form # NoForm
    /\ meta' = IF form.doc \in documents
               THEN [meta EXCEPT ![form.doc] =
                       [title |-> User,
                        authors |-> IF form.saw = None THEN {} ELSE form.saw.authors]]
               ELSE meta
    /\ form' = NoForm
    /\ UNCHANGED <<disk, file, contents, linked, documents, lastId, scan, job,
                   linker, history>>

\* Somebody adds, replaces or removes a file.
DiskChange(p, c) ==
    /\ Change
    /\ disk[p] # c
    /\ disk' = [disk EXCEPT ![p] = c]
    /\ calm' = (calm /\ scan.at = "idle")
    /\ UNCHANGED <<tables, tasks, scans, scanned>>

Enrich(p) ==
    \/ Extract(p) \/ EnsureSelect(p) \/ EnsureCreate(p) \/ EnsureAssign(p)
    \/ MergeRead(p) \/ MergeWrite(p)

Link ==
    \/ LinkStart \/ LinkRead \/ LinkWrite \/ LinkAssign \/ LinkDone
    \/ \E g \in Groups : SkipGroup(g) \/ BeginGroup(g)

ByUser ==
    \/ SaveForm
    \/ \E p \in Paths : Import(p) \/ RemoveFile(p)
    \/ \E d \in Documents :
          \/ OpenForm(d)
          \/ \E l \in Documents : MergeDocuments(d, l)
          \/ \E c \in Contents : \E kept \in SUBSET FilesOf(c) : RemoveContent(d, c, kept)

Next ==
    \/ ScanStart \/ ScanEnd \/ Crash \/ Link \/ ByUser
    \/ \E p \in Paths :
          \/ Fingerprint(p) \/ Enrich(p)
          \/ \E c \in Contents \cup {None} : DiskChange(p, c)
    \/ \E S \in (SUBSET Found) \ {{}} : WriteBatch(S) \/ BatchFails(S)

Spec == Init /\ [][Next]_vars

(***************************************************************************)
(* Properties.                                                             *)
(***************************************************************************)

\* No content is in two groups.
Separate ==
    \A p, q \in Paths :
        file[p] # None /\ file[p] = file[q] => GroupOf[p] = GroupOf[q]

\* auto_link_documents links "contents that share a stem but have distinct
\* fingerprints to a common Document", whatever document each of them had.
LinkedTogether ==
    \A p, q \in Paths :
        /\ file[p] # None /\ file[q] # None
        /\ file[p] # file[q]
        /\ GroupOf[p] = GroupOf[q]
        => linked[file[p]] # None /\ linked[file[p]] = linked[file[q]]

\* It does when no content has copies in two groups.
GroupsTogether == calm /\ Separate /\ scan.at = "completed" => LinkedTogether

\* When a scan has ended, every file it found is in the library with its
\* content, whose document has the metadata extracted from it: however the
\* batches fell, whichever copy was enriched first, and whatever was merged,
\* edited, removed or replaced between the scans.  (Two contents of one
\* document that are first described in one batch may lose one another's
\* metadata, as each task writes the row it has read: Apart.)
DescribedAfterScan ==
    calm /\ scan.at = "completed" =>
        \A p \in Paths : disk[p] # None =>
            /\ file[p] = disk[p]
            /\ p \in scanned /\ disk[p] \in Described => IsDescribed(disk[p])

\* "keep existing value if non-null": only the user replaces a title, or a
\* merge that had read the row before it was given its title.
Writers == {job[p] : p \in Paths} \cup {linker}

TitlesKept ==
    [][\A d \in documents \cap documents' :
          meta[d] # None =>
            \/ meta[d].title = None \/ meta'[d].title = meta[d].title
            \/ form.doc = d /\ form' = NoForm
            \/ \E w \in Writers : w.at = "write" /\ w.doc = d /\ w.saw # meta[d]]_vars
=============================================================================
