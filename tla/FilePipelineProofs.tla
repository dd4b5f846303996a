------------------------- MODULE FilePipelineProofs -------------------------
(***************************************************************************)
(* Theorems about the two specifications built on FileRepo: DirectServer,  *)
(* the V1 pipeline from the HTTP request to the hourly files, and          *)
(* Aggregation, which summarises them.  Both take FileRepo's steps, so     *)
(* both keep RepoInv of FileRepoProofs.                                    *)
(***************************************************************************)
EXTENDS FileRepoProofs, DirectServer, Aggregation

\* A chunk of a file stays where it is.
FilesAppended ==
    \A h \in Hours : \A i \in DOMAIN file[h] :
        i \in DOMAIN file'[h] /\ file'[h][i] = file[h][i]

LEMMA StepAppends ==
    ASSUME RepoInv, RepoStep
    PROVE  FilesAppended
<1> SUFFICES ASSUME NEW h \in Hours, file'[h] # file[h]
             PROVE  \A i \in DOMAIN file[h] :
                       i \in DOMAIN file'[h] /\ file'[h][i] = file[h][i]
  BY DEF FilesAppended
<1>1. \E s \in Savers, kind \in {"line", "open", "cut"} :
         \E r \in Group(s, h) : Grown(h, s, r, kind)
  BY Growth DEF RepoStep
<1>2. /\ Len(file[h]) \in Nat
      /\ DOMAIN file[h] = 1 .. Len(file[h]) /\ DOMAIN file'[h] = 1 .. Len(file[h]) + 1
      /\ \A i \in 1 .. Len(file[h]) : file'[h][i] = file[h][i]
  BY <1>1, Zenon DEF Grown
<1> QED
  BY <1>2

-----------------------------------------------------------------------------
\* DirectServer: what the statuses say.

\* A request answered 202 is one whose SaveBatch returned nil.
HttpInv ==
    /\ http \in [Savers -> Statuses \cup {NotSent, Handling, Aborted}]
    /\ \A s \in Savers : http[s] = 202 => pc[s] = "ok"

DirectInv == RepoInv /\ HttpInv

LEMMA Codes ==
    /\ \A req : Refusal(req) # 0 => Refusal(req) \in Statuses \ {202}
    /\ \A result : StatusOf(result) \in Statuses
    /\ \A result : StatusOf(result) = 202 => result = "accepted"
    /\ Handling \notin Statuses
  BY DEF Refusal, StatusOf, Unavailable, Statuses, Handling

\* A request gets its status, while the other calls stay where they are.
LEMMA Answered ==
    ASSUME HttpInv, NEW s \in Savers, NEW code \in Statuses \cup {Handling},
           http' = [http EXCEPT ![s] = code], code = 202 => pc'[s] = "ok",
           \A t \in Savers \ {s} : pc'[t] = pc[t]
    PROVE  HttpInv'
<1>1. http' \in [Savers -> Statuses \cup {NotSent, Handling, Aborted}]
  BY DEF HttpInv
<1>2. http'[s] = code /\ \A t \in Savers \ {s} : http'[t] = http[t]
  BY DEF HttpInv
<1> QED
  BY <1>1, <1>2 DEF HttpInv

\* A step of the pipeline keeps what the files and the statuses say, and appends.
LEMMA DirectStep ==
    ASSUME DirectInv, [DirectNext]_directVars
    PROVE  DirectInv' /\ RepoStep
<1>0. RepoInv /\ HttpInv /\ Requests = Savers
  BY DirectServerAssumption DEF DirectInv
<1>1. CASE RunStep \/ Restart \/ UNCHANGED directVars
  <2>1. UNCHANGED repoVars /\ http' = http
    BY <1>1 DEF RunStep, Restart, directVars, serverVars, Listen, BuildFails,
       ListenFails, Sigterm, ShutdownReturns
  <2>2. RepoInv' /\ RepoStep /\ pc' = pc
    BY <1>0, <2>1, RepoStutter DEF repoVars
  <2> QED
    BY <1>0, <2>1, <2>2 DEF DirectInv, HttpInv
<1>2. ASSUME NEW s \in Savers, RequestStep(s)
      PROVE  DirectInv' /\ RepoStep
  <2>1. RepoInv' /\ RepoStep /\ pc' = pc
    BY <1>0, <1>2, RepoStutter DEF RequestStep, repoVars
  <2>2. HttpInv'
    <3>1. CASE Arrive(s)
      <4>1. http' = [http EXCEPT ![s] = Handling] /\ Handling # 202
        BY <3>1 DEF Arrive, Handling
      <4> QED
        BY <1>0, <2>1, <4>1, Answered
    <3>2. CASE Refuse(s)
      <4>1. PICK req \in Traffic : /\ Refusal(req) # 0
                                   /\ http' = [http EXCEPT ![s] = Refusal(req)]
        BY <3>2 DEF Refuse
      <4>2. Refusal(req) \in Statuses /\ Refusal(req) # 202
        BY <4>1, Codes, Zenon
      <4> QED
        BY <1>0, <2>1, <4>1, <4>2, Answered
    <3> QED
      BY <1>2, <3>1, <3>2 DEF RequestStep
  <2> QED
    BY <2>1, <2>2 DEF DirectInv
<1>3. ASSUME NEW s \in Savers, HandlerStep(s)
      PROVE  DirectInv' /\ RepoStep
  <2>1. RepoInv' /\ CallStep(s)
    BY <1>0, <1>3, SaveBatchStep, SaveBatchKeeps DEF HandlerStep
  <2>2. RepoStep /\ \A t \in Savers \ {s} : pc'[t] = pc[t]
    BY <2>1 DEF CallStep, Same
  <2>3. CASE pc'[s] \in {"ok", "failed"}
    <3>1. PICK result \in {"accepted", "contextDone", "failed"} :
             /\ Respond(s, result)
             /\ result = "accepted" => pc'[s] = "ok"
      BY <1>3, <2>3 DEF HandlerStep
    <3>2. http' = [http EXCEPT ![s] = StatusOf(result)]
      BY <3>1 DEF Respond
    <3>3. StatusOf(result) \in Statuses /\ (StatusOf(result) = 202 => pc'[s] = "ok")
      BY <3>1, Codes, Zenon
    <3> QED
      BY <1>0, <2>1, <2>2, <3>2, <3>3, Answered DEF DirectInv
  <2>4. CASE pc'[s] \notin {"ok", "failed"}
    <3>1. http' = http /\ http[s] = Handling
      BY <1>3, <2>4 DEF HandlerStep
    <3>2. HttpInv'
      BY <1>0, <2>2, <3>1 DEF HttpInv, Handling
    <3> QED
      BY <2>1, <2>2, <3>2 DEF DirectInv
  <2> QED
    BY <2>3, <2>4
<1>4. CASE ProcessExits \/ Killed
  <2>1. CallsDie /\ Vanish
    BY <1>4 DEF ProcessExits, Killed, Exit
  <2>2. RepoInv' /\ RepoStep
    BY <1>0, <2>1, CallsDieKeeps
  <2>3. \A s \in Savers : pc[s] = "ok" => pc'[s] = "ok"
    BY <2>1 DEF CallsDie
  <2>4. http' = [s \in Savers |-> IF s \in Active THEN Aborted ELSE http[s]]
    BY <1>0, <2>1 DEF Vanish
  <2>5. HttpInv'
    BY <1>0, <2>3, <2>4 DEF HttpInv, Aborted
  <2> QED
    BY <2>2, <2>5 DEF DirectInv
<1> QED
  BY <1>1, <1>2, <1>3, <1>4 DEF DirectNext

LEMMA DirectInvariant == SafeDirectSpec => []DirectInv
<1>1. DirectInit => DirectInv
  <2> SUFFICES ASSUME DirectInit
               PROVE  DirectInv
    OBVIOUS
  <2>1. RepoInv
    BY RepoInitially DEF DirectInit
  <2>2. HttpInv
    BY DirectServerAssumption
    DEF DirectInit, ServerInit, HttpInv, NotSent, Handling, Aborted
  <2> QED
    BY <2>1, <2>2 DEF DirectInv
<1>2. DirectInv /\ [DirectNext]_directVars => DirectInv'
  BY DirectStep
<1> QED
  BY <1>1, <1>2, PTL DEF SafeDirectSpec

\* The lines of a call stay together in a file: the mutex of lockFor keeps the
\* writes of two SaveBatch calls apart (file_repo.go:49-63), whatever the
\* batches, however many requests are handled at once, and across restarts.
THEOREM LinesStayTogether == SafeDirectSpec => []GroupsContiguous
<1>1. DirectInv => GroupsContiguous
  BY DEF DirectInv, RepoInv
<1> QED
  BY <1>1, DirectInvariant, PTL

\* What a call has put in a file is a prefix of its group, in batch order and
\* without repetition: appendRecords writes the records one after the other and
\* returns at the first error (file_repo.go:71-79).
THEOREM LinesAreAPrefix == SafeDirectSpec => []FileHoldsPrefix
<1>1. DirectInv => FileHoldsPrefix
  BY DEF DirectInv, RepoInv
<1> QED
  BY <1>1, DirectInvariant, PTL

\* A request answered 202 has a whole line for every record in the file of its
\* hour: SaveBatch returns nil only when it has written every group
\* (file_repo.go:31-81), and nothing takes a line away.
THEOREM AcceptedStaysWritten == SafeDirectSpec => []AcceptedIsWritten
<1>1. DirectInv => AcceptedIsWritten
  <2> SUFFICES ASSUME DirectInv, NEW s \in Savers, http[s] = 202, NEW r \in RecordsOf(s)
               PROVE  Line(r) \in Range(file[HourOf(r)])
    BY DEF AcceptedIsWritten, Line
  <2>1. pc[s] = "ok" /\ RepoInv
    BY DEF DirectInv, HttpInv
  <2>2. r \in Group(s, HourOf(r)) /\ HourOf(r) \in Hours
    BY RecordFacts
  <2>3. todo[s] = {}
    BY <2>1 DEF RepoInv, CallInv, CallOK
  <2>4. Progress(s, HourOf(r))
    BY <2>1, <2>2 DEF RepoInv, ProgressInv
  <2> QED
    BY <2>1, <2>2, <2>3, <2>4 DEF Progress, WroteAll
<1> QED
  BY <1>1, DirectInvariant, PTL

\* What a failed write or the end of the process tore is the last its request
\* wrote to the file, and the request was not accepted (file_repo.go:71-79).
THEOREM TornWritesAreLast == SafeDirectSpec => []TornWriteIsLast
<1>1. DirectInv => TornWriteIsLast
  <2> SUFFICES ASSUME DirectInv, NEW h \in Hours, NEW i \in DOMAIN file[h],
                      file[h][i].kind # "line"
               PROVE  /\ http[Writer(h, i)] # 202
                      /\ \A j \in i + 1 .. Len(file[h]) : Writer(h, j) # Writer(h, i)
    BY DEF TornWriteIsLast
  <2>1. /\ pc[Writer(h, i)] = "failed"
        /\ \A j \in i + 1 .. Len(file[h]) : Writer(h, j) # Writer(h, i)
    BY DEF DirectInv, RepoInv, TornInv
  <2>2. Writer(h, i) \in Savers
    <3>1. file[h] \in Seq(Chunk)
      BY DEF DirectInv, RepoInv, RepoTypeOK
    <3>2. file[h][i] \in Chunk
      BY <3>1
    <3>3. file[h][i].rec \in Record
      BY <3>2 DEF Chunk
    <3> QED
      BY <3>3, RecordFacts DEF Writer
  <2> QED
    BY <2>1, <2>2 DEF DirectInv, HttpInv
<1> QED
  BY <1>1, DirectInvariant, PTL

\* No step of the pipeline changes or removes what a file holds: OpenFile asks
\* for O_APPEND (file_repo.go:65), and a restart opens the same files.
THEOREM FilesOnlyGrow == SafeDirectSpec => [][FilesAppended]_directVars
<1>1. DirectInv /\ [DirectNext]_directVars => [FilesAppended]_directVars
  BY DirectStep, StepAppends DEF DirectInv
<1> QED
  BY <1>1, DirectInvariant, PTL DEF SafeDirectSpec

-----------------------------------------------------------------------------
\* The decoders.

\* What the rows of a batch look like.
Row == [width : {3}, ts : {"time", "zero"}, path : BOOLEAN, agent : BOOLEAN]

LEMMA RowsOf ==
    ASSUME NEW records \in Seq(LogRecord)
    PROVE  /\ AsRows(records) \in Seq(Row)
           /\ Len(AsRows(records)) = Len(records)
           /\ DOMAIN AsRows(records) = DOMAIN records
           /\ \A i \in DOMAIN records : FromRow(AsRows(records)[i]) = records[i]
           /\ WellFormed(AsRows(records))
           /\ FromRows(AsRows(records)) = validate(records)
<1>1. /\ DOMAIN records = 1 .. Len(records) /\ Len(records) \in Nat
      /\ \A i \in 1 .. Len(records) : records[i] \in LogRecord
      /\ records = [i \in DOMAIN records |-> records[i]]
  OBVIOUS
<1>2. \A rec \in LogRecord :
         /\ AsRow(rec) \in Row
         /\ FromRow(AsRow(rec)) = rec
         /\ AsRow(rec).width = 3 /\ AsRow(rec).ts \in {"time", "zero"}
  BY DEF LogRecord, Row, AsRow, FromRow
<1>3. /\ AsRows(records) \in Seq(Row)
      /\ Len(AsRows(records)) = Len(records)
      /\ DOMAIN AsRows(records) = DOMAIN records
      /\ \A i \in DOMAIN records : AsRows(records)[i] = AsRow(records[i])
  BY <1>1, <1>2 DEF AsRows
<1>4. WellFormed(AsRows(records))
  BY <1>1, <1>2, <1>3 DEF WellFormed
<1>5. \A i \in DOMAIN records : FromRow(AsRows(records)[i]) = records[i]
  BY <1>1, <1>2, <1>3
<1>6. [i \in DOMAIN AsRows(records) |-> FromRow(AsRows(records)[i])] = records
  BY <1>1, <1>3, <1>5
<1>7. FromRows(AsRows(records)) = validate(records)
  BY <1>4, <1>6 DEF FromRows
<1> QED
  BY <1>3, <1>4, <1>5, <1>7

\* A batch of any length is decoded to the same records, or refused with the same
\* error, as JSON, as CSV and as CSV with a header: decodeJSON and decodeCSV both
\* come down to validating the records that were sent (handler.go:208-279).
THEOREM DecodersAgree ==
    ASSUME NEW records \in Seq(LogRecord), NEW b \in Bodies(records)
    PROVE  decodeRecords(b) = validate(records)
<1> DEFINE rows == AsRows(records)
           headed == <<Header>> \o rows
           n == Len(records)
<1>1. /\ n \in Nat /\ DOMAIN records = 1 .. n /\ DOMAIN rows = 1 .. n /\ Len(rows) = n
      /\ rows \in Seq(Row)
      /\ FromRows(rows) = validate(records)
  BY RowsOf
<1>2. \A i \in 1 .. n : rows[i].width = 3 /\ rows[i].ts # "timestamp"
  <2>1. \A i \in 1 .. n : rows[i] \in Row
    BY <1>1
  <2>2. \A row \in Row : row.width = 3 /\ row.ts # "timestamp"
    BY DEF Row
  <2> QED
    BY <2>1, <2>2, Zenon
<1> HIDE DEF rows
<1>3. CASE b = [type |-> "json",
                body |-> [fault |-> "none", tail |-> "empty", records |-> records]]
  BY <1>3 DEF decodeRecords, decodeJSON
<1>4. CASE b = [type |-> "csv", body |-> [fault |-> "none", rows |-> rows]]
  <2>1. decodeRecords(b) = decodeCSV([fault |-> "none", rows |-> rows])
    BY <1>4 DEF decodeRecords
  <2>2. CASE n = 0
    <3>1. rows = <<>> /\ records = <<>>
      BY <1>1, <2>2
    <3> QED
      BY <2>1, <3>1 DEF decodeCSV, validate
  <2>3. CASE n # 0
    <3>1. rows # <<>> /\ \A i \in DOMAIN rows : rows[i].width = rows[1].width
      BY <1>1, <1>2, <2>3
    <3>2. StartIdx(rows) = 1
      BY <1>1, <1>2, <2>3 DEF StartIdx
    <3>3. SubSeq(rows, 1, Len(rows)) = rows
      BY <1>1
    <3> QED
      BY <1>1, <2>1, <3>1, <3>2, <3>3 DEF decodeCSV
  <2> QED
    BY <2>2, <2>3
<1>5. CASE b = [type |-> "csv", body |-> [fault |-> "none", rows |-> headed]]
  <2>1. decodeRecords(b) = decodeCSV([fault |-> "none", rows |-> headed])
    BY <1>5 DEF decodeRecords
  <2>2. Header.width = 3 /\ Header.ts = "timestamp"
    BY DEF Header
  <2>3. /\ DOMAIN headed = 1 .. n + 1 /\ Len(headed) = n + 1
        /\ headed[1] = Header /\ \A i \in 1 .. n : headed[i + 1] = rows[i]
    BY <1>1
  <2>4. headed # <<>> /\ \A i \in DOMAIN headed : headed[i].width = 3
    BY <1>1, <1>2, <2>2, <2>3
  <2>5. StartIdx(headed) = 2
    BY <2>2, <2>3 DEF StartIdx
  <2>6. SubSeq(headed, 2, Len(headed)) = rows
    BY <1>1, <2>3
  <2> HIDE DEF headed
  <2> DEFINE body == [fault |-> "none", rows |-> headed]
  <2>7. body.fault = "none" /\ body.rows = headed
    OBVIOUS
  <2> HIDE DEF body
  <2>8. 1 \in DOMAIN headed
    BY <1>1, <2>3
  <2>9. decodeCSV(body) = FromRows(rows)
    BY <2>4, <2>5, <2>6, <2>7, <2>8, Zenon DEF decodeCSV
  <2> QED
    BY <1>1, <2>1, <2>9 DEF body
<1> QED
  BY <1>3, <1>4, <1>5 DEF Bodies, rows

\* The same as the invariant of DirectServer's run.
THEOREM FormatsAlwaysAgree == SafeDirectSpec => []FormatsAgree
<1>1. FormatsAgree
  <2>1. ASSUME NEW n \in 0 .. MaxBatch, NEW records \in [1 .. n -> LogRecord]
        PROVE  records \in Seq(LogRecord)
    BY DirectServerAssumption
  <2>2. ASSUME NEW n \in 0 .. MaxBatch, NEW records \in [1 .. n -> LogRecord],
               NEW b1 \in Bodies(records), NEW b2 \in Bodies(records)
        PROVE  decodeRecords(b1) = decodeRecords(b2)
    BY <2>1, DecodersAgree
  <2> QED
    BY <2>2 DEF FormatsAgree
<1> QED
  BY <1>1, PTL

-----------------------------------------------------------------------------
\* Aggregation.

\* Record r is in the file of hour h.
InFile(r, h) == \E c \in Range(file[h]) : c.rec = r

\* What the pass has counted comes from the file it is visiting, and what a
\* summary counts from the file of its hour.
CountedInv ==
    apc \in {"write", "fill"} => \A h \in Hours : Visits(h) =>
        \A r \in counted : InFile(r, h)

SummaryInv == \A h \in Hours : \A r \in summary[h].recs : InFile(r, h)

AggInv == RepoInv /\ TypeOK /\ CountedInv /\ SummaryInv

LEMMA StaysInFile ==
    ASSUME RepoInv, RepoStep, NEW h \in Hours, NEW r, InFile(r, h)
    PROVE  InFile(r, h)'
<1>1. Range(file[h]) \subseteq Range(file'[h])
  BY StepAppends DEF FilesAppended, Range
<1> QED
  BY <1>1, Zenon DEF InFile

\* A step after which the pass holds what it held, and so do the summaries.
LEMMA CountsKept ==
    ASSUME AggInv, RepoStep,
           apc' \in {"write", "fill"} => /\ apc \in {"write", "fill"}
                                         /\ visit' = visit /\ counted' = counted,
           \A h \in Hours : summary'[h].recs \subseteq summary[h].recs
    PROVE  CountedInv' /\ SummaryInv'
<1>1. \A h \in Hours : \A r : InFile(r, h) => InFile(r, h)'
  BY StaysInFile DEF AggInv
<1>2. CountedInv'
  BY <1>1 DEF AggInv, CountedInv, Visits
<1>3. SummaryInv'
  BY <1>1 DEF AggInv, SummaryInv
<1> QED
  BY <1>2, <1>3

\* The steps beside those of the pass: a SaveBatch call, the clock, a restart.
LEMMA OtherAggSteps ==
    ASSUME AggInv,
           (\E s \in Savers : Save(s)) \/ Tick \/ ProcessEnds \/ UNCHANGED vars
    PROVE  AggInv' /\ RepoStep
<1>0. RepoInv /\ TypeOK
  BY DEF AggInv
<1>1. RepoInv' /\ RepoStep
  BY <1>0, SaveBatchKeeps, CallsDieKeeps, RepoStutter
  DEF Save, Tick, ProcessEnds, vars
<1>2. /\ now' \in 1 .. MaxTime /\ faults' \in 0 .. MaxFaults
      /\ mtime' \in [Hours -> 0 .. MaxTime]
      /\ summary' = summary
      /\ \/ apc' = apc /\ visit' = visit /\ counted' = counted
         \/ apc' = "wait" /\ visit' = {} /\ counted' = {}
  <2>1. CASE \E s \in Savers : Save(s)
    BY <1>0, <2>1 DEF Save, TypeOK, passVars
  <2>2. CASE Tick
    BY <1>0, <2>2, AggregationAssumption DEF Tick, TypeOK, passVars
  <2>3. CASE ProcessEnds
    BY <1>0, <2>3, AggregationAssumption DEF ProcessEnds, Fault, TypeOK
  <2>4. CASE UNCHANGED vars
    BY <1>0, <2>4 DEF vars, aggVars, passVars, TypeOK
  <2> QED
    BY <2>1, <2>2, <2>3, <2>4
<1>3. TypeOK'
  BY <1>0, <1>1, <1>2 DEF TypeOK, RepoInv
<1>4. CountedInv' /\ SummaryInv'
  BY <1>1, <1>2, CountsKept
<1> QED
  BY <1>1, <1>3, <1>4 DEF AggInv

\* A fault is counted.
LEMMA FaultTypes ==
    ASSUME TypeOK, faults' = faults \/ Fault
    PROVE  faults' \in 0 .. MaxFaults
  BY AggregationAssumption DEF TypeOK, Fault

\* The steps of a pass that write no summary.
PassStep(h) == Skip(h) \/ GoesOn(h) \/ StatFails(h) \/ AggregateFails(h)

LEMMA PassSteps ==
    ASSUME AggInv, RunStarts \/ RunEnds \/ \E h \in Hours : PassStep(h)
    PROVE  AggInv' /\ RepoStep
<1>0. RepoInv /\ TypeOK
  BY DEF AggInv
<1>1. RepoInv' /\ RepoStep
  BY <1>0, RepoStutter
  DEF RunStarts, RunEnds, PassStep, Skip, GoesOn, StatFails, AggregateFails
<1>2. /\ apc' \in {"wait", "walk", "read"} /\ now' = now /\ mtime' = mtime
      /\ summary' = summary /\ (faults' = faults \/ Fault)
      /\ visit' \subseteq visit \/ visit' = exists
      /\ counted' \subseteq counted
  BY DEF RunStarts, RunEnds, PassStep, Skip, GoesOn, StatFails, AggregateFails, Leave
<1>3. TypeOK'
  <2>1. exists \subseteq Hours /\ visit \subseteq Hours /\ counted \subseteq Record
    BY <1>0 DEF TypeOK, RepoTypeOK
  <2>2. visit' \subseteq Hours /\ counted' \subseteq Record
    BY <1>2, <2>1
  <2>3. faults' \in 0 .. MaxFaults
    BY <1>0, <1>2, FaultTypes
  <2> QED
    BY <1>0, <1>1, <1>2, <2>2, <2>3 DEF TypeOK, RepoInv
<1>4. CountedInv' /\ SummaryInv'
  BY <1>1, <1>2, CountsKept
<1> QED
  BY <1>1, <1>3, <1>4 DEF AggInv

LEMMA ScanStep ==
    ASSUME AggInv, NEW h \in Hours, Scan(h)
    PROVE  AggInv' /\ RepoStep
<1>0. RepoInv /\ TypeOK
  BY DEF AggInv
<1>1. RepoInv' /\ RepoStep /\ file' = file
  BY <1>0, RepoStutter DEF Scan, repoVars
<1>2. \A r \in Readable(h) : InFile(r, h)
  BY DEF Readable, InFile, Range
<1>3. Readable(h) \subseteq Record
  <2>1. file[h] \in Seq(Chunk)
    BY <1>0 DEF TypeOK, RepoTypeOK
  <2>2. \A i \in DOMAIN file[h] : file[h][i] \in Chunk
    BY <2>1
  <2>3. \A c \in Chunk : c.rec \in Record
    BY DEF Chunk
  <2> QED
    BY <2>2, <2>3 DEF Readable
<1>4. /\ Visits(h) /\ visit' = visit /\ counted' = Readable(h) /\ apc' = "write"
      /\ now' = now /\ mtime' = mtime /\ summary' = summary /\ faults' = faults
  BY DEF Scan
<1>5. TypeOK'
  BY <1>0, <1>1, <1>3, <1>4 DEF TypeOK, RepoInv
<1>6. \A k \in Hours : Visits(k)' => k = h
  BY <1>4, AggregationAssumption DEF Visits
<1>7. CountedInv'
  BY <1>1, <1>2, <1>4, <1>6 DEF CountedInv, InFile
<1>8. SummaryInv'
  BY <1>1, <1>4 DEF AggInv, SummaryInv, InFile
<1> QED
  BY <1>1, <1>5, <1>7, <1>8 DEF AggInv

\* os.WriteFile of the summary of the file that was scanned.
LEMMA SummarySteps ==
    ASSUME AggInv, NEW h \in Hours, Truncate(h) \/ Fill(h) \/ FillFails(h)
    PROVE  AggInv' /\ RepoStep
<1>0. RepoInv /\ TypeOK
  BY DEF AggInv
<1>1. RepoInv' /\ RepoStep /\ file' = file
  BY <1>0, RepoStutter DEF Truncate, Fill, FillFails, repoVars
<1>2. PICK sum \in Summary :
         /\ summary' = [summary EXCEPT ![h] = sum]
         /\ sum.recs \in {{}, summary[h].recs} \/ (apc = "fill" /\ sum.recs = counted)
  <2>1. /\ now \in 0 .. MaxTime /\ counted \subseteq Record /\ summary[h] \in Summary
    BY <1>0, AggregationAssumption DEF TypeOK
  <2>2. CASE Truncate(h)
    <3> DEFINE t == [kind |-> "part", recs |-> {}, mtime |-> now]
    <3>1. t \in Summary /\ t.recs = {}
      BY <2>1 DEF Summary
    <3>2. summary' = [summary EXCEPT ![h] = t]
      BY <2>2 DEF Truncate
    <3> QED
      BY <3>1, <3>2
  <2>3. CASE Fill(h)
    <3> DEFINE t == [kind |-> "full", recs |-> counted, mtime |-> now]
    <3>1. t \in Summary /\ t.recs = counted
      BY <2>1 DEF Summary
    <3>2. summary' = [summary EXCEPT ![h] = t] /\ apc = "fill"
      BY <2>3 DEF Fill
    <3> QED
      BY <3>1, <3>2
  <2>4. CASE FillFails(h)
    <3> DEFINE t == [summary[h] EXCEPT !.mtime = now]
    <3>1. t \in Summary /\ t.recs = summary[h].recs
      BY <2>1 DEF Summary
    <3>2. summary' = [summary EXCEPT ![h] = t]
      BY <2>4 DEF FillFails
    <3> QED
      BY <3>1, <3>2
  <2> QED
    BY <2>2, <2>3, <2>4
<1>3. /\ apc \in {"write", "fill"} /\ Visits(h)
      /\ \/ apc' = "walk" /\ visit' = visit \ {h} /\ counted' = {}
         \/ apc' = "fill" /\ visit' = visit /\ counted' = counted
      /\ now' = now /\ mtime' = mtime /\ (faults' = faults \/ Fault)
  BY DEF Truncate, Fill, FillFails, Leave
<1>4. summary' \in [Hours -> Summary]
  BY <1>0, <1>2 DEF TypeOK
<1>5. TypeOK'
  <2>1. faults' \in 0 .. MaxFaults
    BY <1>0, <1>3, FaultTypes
  <2>2. /\ apc' \in {"wait", "walk", "read", "write", "fill"}
        /\ visit' \subseteq Hours /\ counted' \subseteq Record
    BY <1>0, <1>3 DEF TypeOK
  <2> QED
    BY <1>0, <1>1, <1>3, <1>4, <2>1, <2>2 DEF TypeOK, RepoInv
<1>6. summary'[h] = sum /\ \A k \in Hours \ {h} : summary'[k] = summary[k]
  BY <1>0, <1>2 DEF TypeOK
<1>7. \A r \in sum.recs : InFile(r, h)
  BY <1>2, <1>3 DEF AggInv, CountedInv, SummaryInv
<1>8. SummaryInv'
  BY <1>1, <1>6, <1>7 DEF AggInv, SummaryInv, InFile
<1>9. CountedInv'
  BY <1>1, <1>3 DEF AggInv, CountedInv, InFile, Visits
<1> QED
  BY <1>1, <1>5, <1>8, <1>9 DEF AggInv

LEMMA AggStep ==
    ASSUME AggInv, [Next]_vars
    PROVE  AggInv' /\ RepoStep
  BY OtherAggSteps, PassSteps, ScanStep, SummarySteps
  DEF Next, AggregateAll, AggregateFile, AggregateFaults, PassStep

LEMMA AggInvariant == Spec => []AggInv
<1>1. Init => AggInv
  <2> SUFFICES ASSUME Init
               PROVE  AggInv
    OBVIOUS
  <2>1. RepoInv
    BY RepoInitially DEF Init
  <2>2. TypeOK
    BY <2>1, AggregationAssumption DEF Init, RepoInv, TypeOK, Summary, NoSummary
  <2>3. CountedInv /\ SummaryInv
    BY DEF Init, CountedInv, SummaryInv, NoSummary
  <2> QED
    BY <2>1, <2>2, <2>3 DEF AggInv
<1>2. AggInv /\ [Next]_vars => AggInv'
  BY AggStep
<1> QED
  BY <1>1, <1>2, PTL DEF Spec

\* Every piece of the aggregation's and of SaveBatch's state has its type
\* (aggregation.go:61-193, file_repo.go:31-92).
THEOREM AggregationTypes == Spec => []TypeOK
<1>1. AggInv => TypeOK
  BY DEF AggInv
<1> QED
  BY <1>1, AggInvariant, PTL

\* A summary counts records of its own hour only, all of which are in that
\* hour's file: what aggregateFile counts comes from the file it was given, and
\* goes to the summary named after it (aggregation.go:146-168).
THEOREM SummariesMatchHours == Spec => []SummaryOfItsHour
<1>1. AggInv => SummaryOfItsHour
  <2> SUFFICES ASSUME AggInv, NEW h \in Hours, NEW r \in summary[h].recs
               PROVE  HourOf(r) = h /\ \E i \in DOMAIN file[h] : file[h][i].rec = r
    BY DEF SummaryOfItsHour
  <2>1. PICK i \in DOMAIN file[h] : file[h][i].rec = r
    BY DEF AggInv, SummaryInv, InFile, Range
  <2>2. r \in Group(r[1], h)
    BY <2>1 DEF AggInv, RepoInv, FileHoldsPrefix
  <2> QED
    BY <2>1, <2>2 DEF Group
<1> QED
  BY <1>1, AggInvariant, PTL

\* A log file only grows while the aggregation reads it, so the scan that meets
\* the end of the file has counted what the file holds then (aggregation.go:146).
THEOREM LogsOnlyGrow == Spec => [][FilesAppended]_vars
<1>1. AggInv /\ [Next]_vars => [FilesAppended]_vars
  BY AggStep, StepAppends DEF AggInv
<1> QED
  BY <1>1, AggInvariant, PTL DEF Spec

=============================================================================
