--------------------------- MODULE ReadingProgress ---------------------------
(***************************************************************************)
(* One user's reading state of one content (core/src/db/dao/reading_state  *)
(* .rs), kept by several sources: the local database and the servers of    *)
(* other instances.  Viewers of two formats share it: a viewer reads the   *)
(* sources, puts its own position beside the other format's, stamps the    *)
(* result with its clock and sends it to all of them (save_reading_state   *)
(* in cosmic/src/page/mod.rs, the readers of pwa/src/routes).  A source    *)
(* takes what is newer than its row.                                       *)
(*                                                                         *)
(* Nothing orders two viewers, and a source may be out of reach.  The      *)
(* desktop stamps whole seconds, "...:05Z"; the web application stamps     *)
(* milliseconds, "...:05.250Z"; the strings are compared as strings, and   *)
(* "." sorts before "Z".                                                   *)
(***************************************************************************)
EXTENDS Naturals, FiniteSets

CONSTANTS Sources,      \* the databases
          Viewers,      \* the open viewers, of this or other devices
          Epub,         \* those of the EPUB format, the others show pages
          Web,          \* those of the web application
          MaxTime,      \* bound on the clock, in half seconds
          MaxSaves,     \* bound on the number of saves
          MaxEdits,     \* bound on the number of manual status edits
          MaxFailures,  \* bound on the number of calls a source fails
          Percentages,  \* how far a save may say the reader has come
          StatusChoices \* the statuses the user may set by hand

ASSUME ViewersAssumption ==
    /\ Sources # {}
    /\ Epub \subseteq Viewers
    /\ Web \subseteq Viewers

ASSUME BoundsAssumption ==
    /\ {MaxTime, MaxSaves, MaxEdits, MaxFailures} \subseteq Nat
    /\ MaxTime > 0

\* Up to 1 %, in between, from 99 %.  Unread, Reading, Read.
ASSUME ChoicesAssumption ==
    /\ Percentages \subseteq {"start", "middle", "end"}
    /\ StatusChoices \subseteq 0..2

VARIABLES now,       \* the clock
          row,       \* the row of each source
          phase,     \* "closed", "open" or "saving"
          asked,     \* the sources a viewer has still to hear of
          best,      \* the newest row it has heard of
          net,       \* the writes that are on their way to a source
          saves,     \* history: how many positions were saved
          edits,     \* history: how many statuses were set by hand
          reached,   \* history: what each source was told to store
          newest,    \* history: the last position saved in each format
          failures,  \* history: how many calls failed
          orderly,   \* history: no save overlapped another change
          spaced     \* history: each save was stamped after all rows

viewers == <<phase, asked, best>>
progressHistory == <<saves, edits, newest, failures, orderly, spaced>>
progressVars == <<now, row, viewers, net, reached, progressHistory>>

Formats == {"epub", "mupdf"}

FormatOf(v) == IF v \in Epub THEN "epub" ELSE "mupdf"

\* A position is named by the number of the save that stored it, 0 for none.
ProgressPositions == [Formats -> Nat]

NoPosition == [f \in Formats |-> 0]

Unread == 0
Reading == 1
Read == 2

(***************************************************************************)
(* Stamps, in the order of their strings.                                  *)
(***************************************************************************)
Second == now \div 2

\* iso8601_now, and strftime('%Y-%m-%dT%H:%M:%SZ') in the source.
WholeSecond == 3 * Second + 3

\* Date.toISOString.
Millisecond == 3 * Second + (now % 2) + 1

StampOf(v) == IF v \in Web THEN Millisecond ELSE WholeSecond

\* (The percentage of a row is stored and shown, but nothing depends on it.)
Rows == [position : ProgressPositions, stamp : Nat, status : Unread..Read]

\* The column defaults.  A missing row is this one: any save is newer, and
\* an INSERT computes from it what an UPDATE would.
NoRow == [position |-> NoPosition, stamp |-> 0, status |-> Unread]

Saved == [to : Sources, from : Viewers, position : ProgressPositions,
          percentage : Percentages, stamp : Nat]

Edited == [to : Sources, status : Unread..Read]

ProgressTypeOK ==
    /\ now \in 1..MaxTime
    /\ row \in [Sources -> Rows]
    /\ phase \in [Viewers -> {"closed", "open", "saving"}]
    /\ asked \in [Viewers -> SUBSET Sources]
    /\ best \in [Viewers -> Rows]
    /\ net \subseteq Saved \cup Edited
    /\ saves \in 0..MaxSaves
    /\ edits \in 0..MaxEdits
    /\ reached \in [Sources -> SUBSET [position : ProgressPositions, stamp : Nat]]
    /\ newest \in ProgressPositions
    /\ failures \in 0..MaxFailures
    /\ orderly \in BOOLEAN
    /\ spaced \in BOOLEAN

ProgressInit ==
    /\ now = 1
    /\ row = [s \in Sources |-> NoRow]
    /\ phase = [v \in Viewers |-> "closed"]
    /\ asked = [v \in Viewers |-> {}]
    /\ best = [v \in Viewers |-> NoRow]
    /\ net = {}
    /\ saves = 0
    /\ edits = 0
    /\ reached = [s \in Sources |-> {}]
    /\ newest = NoPosition
    /\ failures = 0
    /\ orderly = TRUE
    /\ spaced = TRUE

(***************************************************************************)
(* A source.                                                               *)
(***************************************************************************)

\* Mutant: no WHERE excluded.last_updated > reading_state.last_updated.
UpsertAlways(old, m) ==
    [position |-> m.position, stamp |-> m.stamp,
     status |-> IF old.status = Unread /\ m.percentage # "start" THEN Reading
                ELSE IF old.status = Reading /\ m.percentage = "end" THEN Read
                ELSE old.status]

\* upsert_reading_state: what is newer replaces the row and may raise the
\* status by one.
Upsert(old, m) ==
    IF m.stamp > old.stamp
      THEN [position |-> m.position, stamp |-> m.stamp,
            status |-> IF old.status = Unread /\ m.percentage # "start" THEN Reading
                       ELSE IF old.status = Reading /\ m.percentage = "end" THEN Read
                       ELSE old.status]
      ELSE old

\* update_reading_status_only: a row that exists keeps its stamp; a new one
\* gets the source's time and no position.
SetStatus(old, m) ==
    [old EXCEPT !.status = m.status,
                !.stamp  = IF old.stamp = 0 THEN WholeSecond ELSE @]

DeliverSave(m) ==
    /\ m \in net /\ m \in Saved
    /\ net' = net \ {m}
    /\ row' = [row EXCEPT ![m.to] = Upsert(@, m)]
    /\ reached' = [reached EXCEPT ![m.to] =
                       @ \cup {[position |-> m.position, stamp |-> m.stamp]}]
    /\ UNCHANGED <<now, viewers, progressHistory>>

DeliverEdit(m) ==
    /\ m \in net /\ m \in Edited
    /\ net' = net \ {m}
    /\ row' = [row EXCEPT ![m.to] = SetStatus(@, m)]
    /\ reached' = IF row[m.to].stamp = 0
                    THEN [reached EXCEPT ![m.to] =
                             @ \cup {[position |-> NoPosition, stamp |-> WholeSecond]}]
                    ELSE reached
    /\ UNCHANGED <<now, viewers, progressHistory>>

Fail ==
    /\ failures < MaxFailures
    /\ failures' = failures + 1
    /\ UNCHANGED <<saves, edits, newest, orderly, spaced>>

\* The source is out of reach or refuses; the caller only logs it.
Lose(m) ==
    /\ m \in net
    /\ Fail
    /\ net' = net \ {m}
    /\ UNCHANGED <<now, row, viewers, reached>>

(***************************************************************************)
(* A viewer.                                                               *)
(***************************************************************************)
Idle(v) == phase[v] = "closed"

\* Nothing else is going on: no other viewer is between its reading of the
\* sources and its last save, and no write is on its way.
Quiet(v) == net = {} /\ \A u \in Viewers \ {v} : Idle(u)

\* A desktop viewer asks the sources when it saves, a page when it opens.
OpenViewer(v) ==
    /\ Idle(v)
    /\ phase' = [phase EXCEPT ![v] = "open"]
    /\ asked' = [asked EXCEPT ![v] = Sources]
    /\ orderly' = (orderly /\ Quiet(v))
    /\ UNCHANGED <<now, row, best, net, reached, saves, edits, newest, spaced, failures>>

\* Aggregator::get_reading_state keeps the row with the greatest stamp; of
\* two with the same, the one that arrives last (Iterator::max_by).
Hear(v, s) ==
    /\ phase[v] = "open"
    /\ s \in asked[v]
    /\ asked' = [asked EXCEPT ![v] = @ \ {s}]
    /\ best' = [best EXCEPT ![v] = IF row[s].stamp >= @.stamp THEN row[s] ELSE @]
    /\ UNCHANGED <<now, row, phase, net, reached, progressHistory>>

\* The source does not answer; the others are believed.
HearNothing(v, s) ==
    /\ phase[v] = "open"
    /\ s \in asked[v]
    /\ Fail
    /\ asked' = [asked EXCEPT ![v] = @ \ {s}]
    /\ UNCHANGED <<now, row, phase, best, net, reached>>

\* Mutant: the viewer's own position replaces the other format's too.
MergeOwnOnly(v, position) == [NoPosition EXCEPT ![FormatOf(v)] = saves + 1]

\* merge, mergePosition: the other format's position stays.
Merge(v, position) == [position EXCEPT ![FormatOf(v)] = saves + 1]

\* save_reading_state, saveProgress: a page merges with what it read when it
\* was opened and with its own saves since.
Save(v) ==
    /\ phase[v] = "open" /\ asked[v] = {}
    /\ saves < MaxSaves
    /\ saves' = saves + 1
    /\ LET position == Merge(v, best[v].position)
       IN  /\ \E p \in Percentages :
                 net' = net \cup {[to |-> s, from |-> v, position |-> position,
                                  percentage |-> p, stamp |-> StampOf(v)] : s \in Sources}
           /\ best' = [best EXCEPT ![v] = [@ EXCEPT !.position = position]]
    /\ phase' = [phase EXCEPT ![v] = IF v \in Web THEN @ ELSE "saving"]
    /\ newest' = [newest EXCEPT ![FormatOf(v)] = saves + 1]
    /\ spaced' = (spaced /\ \A s \in Sources : row[s].stamp < StampOf(v))
    /\ orderly' = (orderly /\ Quiet(v))
    /\ UNCHANGED <<now, row, asked, reached, edits, failures>>

\* The desktop's task ends with the last answer; a page is closed at will,
\* its requests still go through.
Close(v) ==
    /\ \/ phase[v] = "saving" /\ \A m \in net \cap Saved : m.from # v
       \/ phase[v] = "open" /\ v \in Web
    /\ phase' = [phase EXCEPT ![v] = "closed"]
    /\ asked' = [asked EXCEPT ![v] = {}]
    /\ best' = [best EXCEPT ![v] = NoRow]
    /\ UNCHANGED <<now, row, net, reached, progressHistory>>

\* update_reading_status: the user sets the status by hand.
Edit(status) ==
    /\ edits < MaxEdits
    /\ edits' = edits + 1
    /\ net' = net \cup {[to |-> s, status |-> status] : s \in Sources}
    /\ orderly' = (orderly /\ net = {} /\ \A v \in Viewers : Idle(v))
    /\ UNCHANGED <<now, row, viewers, saves, reached, newest, spaced, failures>>

Tick ==
    /\ now < MaxTime
    /\ now' = now + 1
    /\ UNCHANGED <<row, viewers, net, reached, progressHistory>>

ProgressNext ==
    \/ Tick
    \/ \E status \in StatusChoices : Edit(status)
    \/ \E m \in net : DeliverSave(m) \/ DeliverEdit(m) \/ Lose(m)
    \/ \E v \in Viewers :
          \/ OpenViewer(v) \/ Save(v) \/ Close(v)
          \/ \E s \in Sources : Hear(v, s) \/ HearNothing(v, s)

ProgressSpec == ProgressInit /\ [][ProgressNext]_progressVars

(***************************************************************************)
(* Properties.                                                             *)
(***************************************************************************)

\* Whatever the order in which the saves arrive, a source holds the newest
\* that reached it ("stale_timestamp_not_applied" for any sequence).
LastWriterWins ==
    \A s \in Sources : row[s].stamp > 0 =>
        /\ [position |-> row[s].position, stamp |-> row[s].stamp] \in reached[s]
        /\ \A r \in reached[s] : r.stamp <= row[s].stamp

\* Reading on never takes a status back, and raises it by one step at a time
\* ("Read (2): no auto-downgrade"); only the user sets it freely.
StatusOnlyRises ==
    [][\A s \in Sources :
           \/ row'[s].status = row[s].status
           \/ row'[s].status = row[s].status + 1
           \/ \E m \in net \cap Edited : m.to = s]_progressVars

AtRest == net = {} /\ \A v \in Viewers : Idle(v)

ResumesEverywhere == \A s \in Sources : row[s].position = newest

\* "Switching viewers resumes from that viewer's own last spot instead of
\* clobbering the other one's" (cosmic/src/reading_progress.rs:11), for
\* viewers that take turns and stamps that grow.  Two saves within a second
\* bear one stamp and the later is refused: `spaced` sets them apart.
SwitchingResumes == AtRest /\ failures = 0 /\ orderly /\ spaced => ResumesEverywhere
=============================================================================
