---------------------------- MODULE Aggregation ----------------------------
(***************************************************************************)
(* service/aggregation.go beside the SaveBatch calls of FileRepo: one      *)
(* goroutine walks the log files of a date directory every interval and    *)
(* rewrites the summary of each hour unless the summary's modification     *)
(* time is not before the log's.                                           *)
(*                                                                         *)
(* Time is the tick of the file system's timestamps: several writes may    *)
(* fall in one tick.  The walk's ctx.Err checks are not steps of their     *)
(* own: the context is cancelled only when the process is about to end,    *)
(* nothing waits for this goroutine, and ProcessEnds may come anywhere.    *)
(***************************************************************************)
EXTENDS FileRepo

CONSTANTS
    MaxTime,    \* bound on the ticks explored
    MaxFaults   \* bound on the I/O errors and process ends explored

ASSUME AggregationAssumption ==
    /\ Hours \subseteq Nat
    /\ MaxTime \in Nat \ {0}
    /\ MaxFaults \in Nat

VARIABLES
    now,       \* the current tick
    mtime,     \* modification time of each log file
    summary,   \* the summary file of each hour
    apc,       \* program counter of the aggregation goroutine
    visit,     \* files the walk has still to visit, the current one included
    counted,   \* the records counted in requestsPerPath
    faults     \* faults so far

passVars == <<apc, visit, counted>>
aggVars == <<now, mtime, summary, passVars, faults>>
vars == <<repoVars, aggVars>>

\* A summary file: absent, empty or half written, or whole.
Summary ==
    [kind : {"none", "part", "full"}, recs : SUBSET Record, mtime : 0 .. MaxTime]
NoSummary == [kind |-> "none", recs |-> {}, mtime |-> 0]

Init ==
    /\ RepoInit
    /\ now = 1
    /\ mtime = [h \in Hours |-> 0]
    /\ summary = [h \in Hours |-> NoSummary]
    /\ apc = "wait"
    /\ visit = {}
    /\ counted = {}
    /\ faults = 0

\* A step of a SaveBatch call; creating or extending a file stamps it.
Save(s) ==
    /\ SaveBatch(s)
    /\ mtime' = [h \in Hours |->
            IF file'[h] # file[h] \/ h \in exists' \ exists THEN now ELSE mtime[h]]
    /\ UNCHANGED <<now, summary, passVars, faults>>

Tick ==
    /\ now < MaxTime
    /\ now' = now + 1
    /\ UNCHANGED <<repoVars, mtime, summary, passVars, faults>>

Fault ==
    /\ faults < MaxFaults
    /\ faults' = faults + 1

\* Start runs a pass at once and at every tick of its ticker; WalkDir reads
\* the directory's entries.
RunStarts ==
    /\ apc = "wait"
    /\ apc' = "walk"
    /\ visit' = exists
    /\ UNCHANGED <<repoVars, now, mtime, summary, counted, faults>>

RunEnds ==
    /\ apc = "walk"
    /\ visit = {}
    /\ apc' = "wait"
    /\ UNCHANGED <<repoVars, now, mtime, summary, visit, counted, faults>>

\* WalkDir goes in lexical order, which is the order of the hours.
Visits(h) == h \in visit /\ \A k \in visit : h <= k

\* aggregateFile returns and the walk goes on.
Leave(h) ==
    /\ visit' = visit \ {h}
    /\ counted' = {}
    /\ apc' = "walk"

\* The test of line 130: the summary is not before the log.
UpToDate(h) ==
    /\ summary[h].kind # "none"
    /\ ~(summary[h].mtime < mtime[h])

\* A faulty Skip that does not look at the modification times.
SkipIfPresent(h) ==
    /\ apc = "walk" /\ Visits(h)
    /\ summary[h].kind # "none"
    /\ Leave(h)
    /\ UNCHANGED <<repoVars, now, mtime, summary, faults>>

\* Only this goroutine writes summaries, so the two os.Stat calls are as
\* good as one step at the time of the first.
Skip(h) ==
    /\ apc = "walk" /\ Visits(h)
    /\ UpToDate(h)
    /\ Leave(h)
    /\ UNCHANGED <<repoVars, now, mtime, summary, faults>>

GoesOn(h) ==
    /\ apc = "walk" /\ Visits(h)
    /\ ~UpToDate(h)
    /\ apc' = "read"
    /\ UNCHANGED <<repoVars, now, mtime, summary, visit, counted, faults>>

\* os.Stat of the summary fails: aggregateFile goes on whatever its age.
StatFails(h) ==
    /\ apc = "walk" /\ Visits(h)
    /\ Fault
    /\ apc' = "read"
    /\ UNCHANGED <<repoVars, now, mtime, summary, visit, counted>>

\* The scan ends where it meets the end of the file.  Files only grow, so it
\* has then counted what the file holds at that moment.
Scan(h) ==
    /\ apc = "read" /\ Visits(h)
    /\ counted' = Readable(h)
    /\ apc' = "write"
    /\ UNCHANGED <<repoVars, now, mtime, summary, visit, faults>>

\* Opening or scanning the log fails, or creating the summary does.
AggregateFails(h) ==
    /\ apc \in {"read", "write"} /\ Visits(h)
    /\ Fault
    /\ Leave(h)
    /\ UNCHANGED <<repoVars, now, mtime, summary>>

\* os.WriteFile creates or truncates the file, then writes it.
Truncate(h) ==
    /\ apc = "write" /\ Visits(h)
    /\ summary' = [summary EXCEPT ![h] = [kind |-> "part", recs |-> {}, mtime |-> now]]
    /\ apc' = "fill"
    /\ UNCHANGED <<repoVars, now, mtime, visit, counted, faults>>

\* A faulty Fill that saves the summary under the name of another hour's.
FillWrongHour(h) ==
    /\ apc = "fill" /\ Visits(h)
    /\ \E k \in Hours \ {h} :
         summary' = [summary EXCEPT ![k] =
                        [kind |-> "full", recs |-> counted, mtime |-> now]]
    /\ Leave(h)
    /\ UNCHANGED <<repoVars, now, mtime, faults>>

Fill(h) ==
    /\ apc = "fill" /\ Visits(h)
    /\ summary' = [summary EXCEPT ![h] =
                      [kind |-> "full", recs |-> counted, mtime |-> now]]
    /\ Leave(h)
    /\ UNCHANGED <<repoVars, now, mtime, faults>>

\* The write fails and leaves what it had written.
FillFails(h) ==
    /\ apc = "fill" /\ Visits(h)
    /\ Fault
    /\ summary' = [summary EXCEPT ![h].mtime = now]
    /\ Leave(h)
    /\ UNCHANGED <<repoVars, now, mtime>>

\* The process stops or crashes and is started again, and Start runs a pass.
ProcessEnds ==
    /\ Fault
    /\ CallsDie
    /\ mtime' = [h \in Hours |-> IF file'[h] # file[h] THEN now ELSE mtime[h]]
    /\ apc' = "wait"
    /\ visit' = {}
    /\ counted' = {}
    /\ UNCHANGED <<now, summary>>

AggregateFile(h) ==
    Skip(h) \/ GoesOn(h) \/ Scan(h) \/ Truncate(h) \/ Fill(h)

AggregateFaults(h) == StatFails(h) \/ AggregateFails(h) \/ FillFails(h)

AggregateAll == RunStarts \/ RunEnds \/ \E h \in Hours : AggregateFile(h)

Next ==
    \/ \E s \in Savers : Save(s)
    \/ Tick
    \/ AggregateAll
    \/ \E h \in Hours : AggregateFaults(h)
    \/ ProcessEnds

Spec == Init /\ [][Next]_vars

\* The ticker keeps firing and the pass runs on: one goroutine, never
\* blocked.  Nothing is assumed of the clock, the saves or the faults.
Fairness == WF_vars(AggregateAll)

LiveSpec == Spec /\ Fairness

-----------------------------------------------------------------------------

\* Every piece of the aggregation's state (aggregation.go:61-193) has its
\* type.
TypeOK ==
    /\ RepoTypeOK
    /\ now \in 1 .. MaxTime
    /\ mtime \in [Hours -> 0 .. MaxTime]
    /\ summary \in [Hours -> Summary]
    /\ apc \in {"wait", "walk", "read", "write", "fill"}
    /\ visit \subseteq Hours
    /\ counted \subseteq Record
    /\ faults \in 0 .. MaxFaults

\* A summary counts records of its own hour only, all of which a SaveBatch
\* put in that hour's file, across passes, faults and restarts: counts made
\* for one file never reach another's summary (aggregation.go:146-168).
SummaryOfItsHour ==
    \A h \in Hours : \A r \in summary[h].recs :
        /\ HourOf(r) = h
        /\ \E i \in DOMAIN file[h] : file[h][i].rec = r

\* Once nothing fails any more, a log that is newer than its summary, while no
\* pass is between scanning it and writing its summary, is summarised again:
\* each record that can be read in it then is counted in the end, or has
\* become unreadable.  A record appended in that window can be missed
\* (aggregation.go:128-168).
StaleIsRefreshed ==
    \A r \in Record :
        LET h == HourOf(r) IN
        (/\ r \in Readable(h)
         /\ ~UpToDate(h)
         /\ ~(apc \in {"write", "fill"} /\ Visits(h))
         /\ faults = MaxFaults)
            ~> (r \in summary[h].recs \/ r \notin Readable(h))

\* "summary is up-to-date with the log file" (aggregation.go:131): a pass
\* leaves a file alone only if its summary counts all that can be read in it.
SkipIsJustified ==
    \A h \in Hours :
        (apc = "walk" /\ Visits(h) /\ UpToDate(h))
            => summary[h].kind = "full" /\ summary[h].recs = Readable(h)
=============================================================================
