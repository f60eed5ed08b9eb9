----------------------------- MODULE MailJournal -----------------------------
(***************************************************************************)
(* The journal mode of MailTracker, with what feeds it: the log kept by    *)
(* the mailbox, whose reading consumes it, and `_async_read_history`       *)
(* (coordinator.py), which collects the streamed entries, dates them and   *)
(* hands them to `MailLogic.on_journal`.                                   *)
(*                                                                         *)
(* A read is an await: door reports, entries and commands interleave with  *)
(* it, and a reader whose link has dropped may wake up, up to 2 s later, in *)
(* the middle of the read of the other task: both use the same fields.     *)
(* Kinds of openings are not told apart, so one date stands for            *)
(* last_vigik_open, last_mifare_open and last_code_open.                   *)
(***************************************************************************)
EXTENDS MailTracker

CONSTANTS ReadMax, \* a read is over that long after its first request
          Faults,  \* what may go wrong with a read, of {"cut", "truncated"}
          Reports, \* bound: the states the door reports
          MaxOpens \* bound: entries and commands together

ASSUME JournalAssumption ==
    /\ ReadMax \in Nat /\ MaxOpens \in Nat
    /\ Faults \subseteq {"cut", "truncated"}
    /\ Reports \subseteq Reported

VARIABLES
    log,       \* the mailbox: openings by code or badge not read yet
    collects,  \* BoksLink._history is a list, and _history_done an event
    events,    \* that list: the entries collected, with their age
    done,      \* that event is set
    reading,   \* instant of the first request of the read under way, or Never
    stale,     \* a reader whose link has dropped waits, and another has begun
    lastOpen,  \* BoksState.last_code_open
    logged     \* history: every opening by code or badge

box == <<log, logged>>
collector == <<collects, events, done>>
reader == <<collector, reading, stale>>
jvars == <<box, reader, lastOpen>>
allVars == <<vars, jvars>>

Entries == [at : Instant, age : Instant]

JTypeOK ==
    /\ TypeOK
    /\ log \subseteq Instant /\ logged \subseteq Instant
    /\ events \subseteq Entries
    /\ collects \in BOOLEAN /\ done \in BOOLEAN /\ stale \in BOOLEAN
    /\ reading \in Instant \cup {Never}
    /\ ~collects => events = {} /\ ~done
    /\ lastOpen \in Instant \cup {Never}

JInit ==
    /\ Mode = "journal" /\ Init /\ door \in Reports
    /\ log = {} /\ logged = {}
    /\ collects = FALSE /\ events = {} /\ done = FALSE /\ reading = Never /\ stale = FALSE
    /\ lastOpen = Never

-----------------------------------------------------------------------------
(* The mailbox. *)

MayOpen == Cardinality(logged) + Cardinality(presses) < MaxOpens

\* Someone opens with a code or a badge: the mailbox logs it.
Visit ==
    /\ Input /\ MayOpen
    /\ log' = log \cup {now} /\ logged' = logged \cup {now}
    /\ UNCHANGED <<vars, reader, lastOpen>>

\* The mailbox streams its oldest entry with its age, and forgets it.
Stream ==
    /\ reading # Never /\ ~done
    /\ \E at \in log :
        /\ \A other \in log : at <= other
        /\ log' = log \ {at}
        /\ events' = IF collects THEN events \cup {[at |-> at, age |-> now - at]} ELSE {}
    /\ UNCHANGED <<vars, collects, done, reading, stale, lastOpen, logged>>

\* LOG_END_HISTORY: nothing is left to stream.
EndHistory ==
    /\ reading # Never /\ ~done /\ log = {}
    /\ collects /\ done' = TRUE
    /\ UNCHANGED <<vars, box, collects, events, reading, stale, lastOpen>>

-----------------------------------------------------------------------------
(* The reader: _async_read_history. *)

Collect ==
    /\ Input /\ reading' = now
    /\ collects' = TRUE /\ events' = {} /\ done' = FALSE
    /\ UNCHANGED <<vars, box, lastOpen>>

StartRead == reading = Never /\ Collect /\ UNCHANGED stale

\* What a reader does in the end, whosever the entries are.
StopCollecting == collects' = FALSE /\ events' = {} /\ done' = FALSE

\* A mistake: the entries are dated from the beginning of the read.
DatedAtStart == {reading - entry.age : entry \in events}

\* The mailbox has no clock: an entry is dated by its age when the read ends.
Dated == {now - entry.age : entry \in events}

\* A mistake: only the newest opening of the read reaches the tracker.
OnJournalNewest(instants) ==
    LET newest == {at \in instants : \A other \in instants : other <= at}
        out == {at \in pending : ~Near(at, newest \cup haOpens)} IN
    /\ flagged' = flagged \cup out
    /\ pending' = {}
    /\ Publish("unauthorized", out)

\* A mistake: an empty read is taken to prove nothing.
OnJournalSkipsEmpty(instants) ==
    LET out == IF instants = {} THEN {}
               ELSE {at \in pending : ~Near(at, instants \cup haOpens)} IN
    /\ flagged' = flagged \cup out
    /\ pending' = {}
    /\ Publish("unauthorized", out)

\* on_journal: every waiting opening is judged against this read alone.
OnJournal(instants) ==
    LET out == {at \in pending : ~Near(at, instants \cup haOpens)} IN
    /\ flagged' = flagged \cup out
    /\ pending' = {}
    /\ Publish("unauthorized", out)

\* The entries are handed over: on LOG_END_HISTORY or, truncated, after a deadline
\* or three windows without an entry.  An empty read is handed over as well.
HandOver ==
    /\ collects /\ StopCollecting
    /\ done \/ "truncated" \in Faults
    /\ OnJournal(Dated)
    /\ \E at \in Dated \cup {lastOpen} :
        /\ \A other \in Dated \cup {lastOpen} : other <= at
        /\ lastOpen' = at
    /\ UNCHANGED <<now, door, flap, flapOpen, haOpens, timers,
                   openings, presses, forgotten, flapTrace, box>>

FinishRead ==
    /\ reading # Never /\ reading' = Never
    /\ HandOver /\ UNCHANGED stale

\* The link drops during the read: its reader finds out at its next request, and what
\* was collected is lost.
CutRead ==
    /\ "cut" \in Faults /\ reading # Never /\ reading' = Never
    /\ StopCollecting
    /\ UNCHANGED <<vars, box, stale, lastOpen>>

\* The other task connects and begins its read while that reader still waits for an
\* entry, at most 2 s.
ReadOver ==
    /\ "cut" \in Faults /\ reading # Never /\ collects
    /\ ~stale /\ stale' = TRUE
    /\ Collect

\* Its window is over: it ends as if it had read what is there, or its
\* request fails.  Either way nobody collects any more.
Wake ==
    /\ stale /\ stale' = FALSE
    /\ \/ HandOver
       \/ StopCollecting /\ UNCHANGED <<vars, box, lastOpen>>
    /\ UNCHANGED reading

\* A reader finds the list gone, which it does not expect: the session fails.
ListIsGone ==
    /\ reading # Never /\ ~collects
    /\ reading' = Never
    /\ UNCHANGED <<vars, box, collector, stale, lastOpen>>

\* A reload cancels the reads with the rest.
JReload ==
    /\ Reload
    /\ "cut" \in Faults \/ reading = Never
    /\ reading' = Never /\ stale' = FALSE /\ StopCollecting
    /\ UNCHANGED <<box, lastOpen>>

\* A reader wakes up at once when the log has ended, within 2 s when its link or its
\* list is gone, and is bounded otherwise.
JAdvance ==
    /\ Advance
    /\ ~done /\ ~stale /\ (reading # Never => collects)
    /\ now < MaxInput + ReadMax
    /\ reading # Never => now < reading + ReadMax
    /\ UNCHANGED jvars

JNext ==
    \/ \E state \in Reports : Door(state) /\ UNCHANGED jvars
    \/ HaOpen /\ MayOpen /\ UNCHANGED jvars
    \/ JReload \/ JAdvance
    \/ Visit \/ Stream \/ EndHistory
    \/ StartRead \/ FinishRead \/ CutRead \/ ReadOver \/ Wake \/ ListIsGone

JSpec == JInit /\ [][JNext]_allVars

-----------------------------------------------------------------------------
(* Properties. *)

\* An opening is never reported by a read that delivers an entry near it: the
\* dates being late by the length of the read at most, an entry within the
\* window less that length is recognised (_async_read_history, on_journal).
JournalMatchesOwnRead ==
    [][ \A at \in flagged' \ flagged, entry \in events :
            Distance(at, entry.at) + ReadMax > Window ]_allVars

\* An opening never vanishes: it waits, is reported, or has an entry or a command
\* near it, unless it was forgotten (on_journal empties the list it judges).
JournalNoMissedAlarm ==
    \A at \in openings \ forgotten :
        \/ at \in pending \cup flagged
        \/ \E entry \in logged : Distance(at, entry) <= Window + ReadMax
        \/ \E press \in presses : Distance(at, press) <= Window

\* The date of the last opening only moves forward, to the newest entry of the
\* read, and is late by the length of the read at most ("approximatives").
OpenDateTracksNewest ==
    [][ lastOpen' # lastOpen =>
        /\ lastOpen' > lastOpen
        /\ \E entry \in events :
            /\ \A other \in events : other.at <= entry.at
            /\ lastOpen' \in entry.at .. (entry.at + ReadMax) ]_allVars

\* README, "Missing from the box's log": an opening with a code or badge entry
\* in the log within the window is legitimate, so an opening that follows one is
\* never reported.  A read between the two takes the entry away.
LoggedIsLegitimate ==
    \A at \in flagged, entry \in logged : entry < at => at - entry > Window

\* The docstring of on_journal: the read covers everything up to now, so when an
\* opening is reported no entry near it is still in the mailbox.
ReadCoversLog ==
    [][ \A at \in flagged' \ flagged, entry \in log :
            entry < at => at - entry > Window ]_allVars
=============================================================================
