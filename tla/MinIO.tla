------------------------------- MODULE MinIO -------------------------------
(***************************************************************************)
(* repo/minio_repo.go and service/minio_aggregation.go: SaveBatch calls in *)
(* several replicas put immutable shard objects in one bucket, and the     *)
(* aggregation goroutine of one replica summarises them hour by hour into  *)
(* local files.  Objects of the former layout, one per hour, and objects   *)
(* that are no logs may be in the bucket from the start.                   *)
(*                                                                         *)
(* An object's LastModified is the store's clock, a summary's modification *)
(* time the replica's: they differ by Skew.                                *)
(***************************************************************************)
EXTENDS Integers, Sequences, Functions

CONSTANTS
    Replicas,   \* processes that write to the bucket
    Local,      \* the replica whose aggregation is modelled
    Savers,     \* the SaveBatch calls
    ReplicaOf,  \* the replica each call runs in
    Hours,      \* the hours, one key prefix each
    BatchOf,    \* the hour of each record of a call's batch, in order
    Found,      \* objects in the bucket before the calls
    FoundKey,   \* their keys
    FoundHours, \* the hour of each of their records, NoHour in a foreign one
    Skew,       \* the store's clock minus the replica's
    MaxTime,    \* bound on the ticks explored
    MaxFaults   \* bound on the errors and restarts explored

\* The parts of a key: a date, an hour (its number) or anything else.
Date == -1
Other == -2
NoHour == -3

\* A key is the path to it and its name: the name's stem, an hour or a writer
\* and its sequence number, and whether ".log.json" follows.  A writer is a
\* process of a replica: 0 the first one modelled, below 0 the ones before it.
Writer == Replicas \X Int
Key == [dirs : Seq(Hours \cup {Date, Other}),
        stem : {<<t>> : t \in Hours \cup {Other}} \cup ({Other} \X Writer \X Nat),
        log  : BOOLEAN]

\* The two layouts: the log of hour h lies in <date>/<hour>/, or is
\* <date>/<hour>.log.json.
LogOf(k, h) ==
    LET n == Len(k.dirs) IN
    /\ k.log
    /\ \/ n >= 2 /\ k.dirs[n - 1] = Date /\ k.dirs[n] = h
       \/ n >= 1 /\ k.dirs[n] = Date /\ k.stem = <<h>>

\* What is found in the bucket was put there by earlier processes, whose writer
\* IDs differ; what lies where an hour's logs lie holds that hour's records.
ASSUME MinIOAssumption ==
    /\ Local \in Replicas
    /\ ReplicaOf \in [Savers -> Replicas]
    /\ Hours \subseteq Nat
    /\ BatchOf \in [Savers -> Seq(Hours) \ {<<>>}]
    /\ Found \cap Savers = {}
    /\ FoundKey \in [Found -> Key]
    /\ \A f \in Found : Len(FoundKey[f].stem) = 3 => FoundKey[f].stem[2][2] < 0
    /\ FoundHours \in [Found -> Seq(Hours \cup {NoHour})]
    /\ \A f \in Found : \A h \in Hours : LogOf(FoundKey[f], h) =>
          \A i \in DOMAIN FoundHours[f] : FoundHours[f][i] = h
    /\ Skew \in Int
    /\ MaxTime \in Nat \ {0} /\ MaxFaults \in Nat

VARIABLES
    pc,         \* program counter of each SaveBatch call
    todo,       \* the hours a call has still to write
    key,        \* the object key a call is putting
    writerID,   \* MinIORepo.writerID, made anew by every process
    objectSeq,  \* MinIORepo.objectSeq
    objects,    \* the bucket: what was put under each key, and when
    now,        \* the replica's clock
    apc,        \* program counter of the aggregation goroutine
    listed,     \* the objects of the last listing
    visit,      \* the hours of the listing still to aggregate
    counted,    \* the records counted for the current hour
    summary,    \* the summary file of each hour
    faults      \* faults so far

saveVars == <<pc, todo, key, writerID, objectSeq, objects>>
passVars == <<apc, listed, visit, counted, summary>>
vars == <<saveVars, passVars, now, faults>>

\* A record is the call or found object it came in, and its position there.
HoursIn(s) == IF s \in Found THEN FoundHours[s] ELSE BatchOf[s]
RecordsOf(s) == {<<s, i>> : i \in DOMAIN HoursIn(s)}
Record == UNION {RecordsOf(s) : s \in Savers \cup Found}
HourOf(rec) == HoursIn(rec[1])[rec[2]]

\* A summary file: absent, empty or half written, or whole.
Summary ==
    [kind : {"none", "part", "full"}, recs : SUBSET Record, mtime : 0 .. MaxTime]

\* Hours are taken in order.
Earliest(h, S) == h \in S /\ \A k \in S : h <= k

\* SaveBatch first groups the records by hour, in locals of the call.
GroupRecords(s) == Range(BatchOf[s])

Init ==
    /\ pc = [s \in Savers |-> "next"]
    /\ todo = [s \in Savers |-> GroupRecords(s)]
    /\ key = [s \in Savers |-> {}]
    /\ writerID = [p \in Replicas |-> <<p, 0>>]
    /\ objectSeq = [p \in Replicas |-> 0]
    /\ objects = [k \in {FoundKey[f] : f \in Found} |->
                    [recs |-> UNION {RecordsOf(f) : f \in {g \in Found : FoundKey[g] = k}},
                     mtime |-> 0]]
    /\ now = 1
    /\ apc = "wait"
    /\ listed = {}
    /\ visit = {}
    /\ counted = {}
    /\ summary = [h \in Hours |-> [kind |-> "none", recs |-> {}, mtime |-> 0]]
    /\ faults = 0

Fault ==
    /\ faults < MaxFaults
    /\ faults' = faults + 1

-----------------------------------------------------------------------------
(* MinIORepo.SaveBatch.                                                    *)

\* logs/<date>/<hour>/<writer>-<seq>.log.json
ShardKey(h, writer, seq) ==
    [dirs |-> <<Other, Date, h>>, stem |-> <<Other, writer, seq>>, log |-> TRUE]

Goto(s, label) == pc' = [pc EXCEPT ![s] = label]

\* A faulty NewShardObjectKey that loads objectSeq in place of adding to it.
KeyFromLoad(s, h) ==
    LET p == ReplicaOf[s] IN
    /\ pc[s] = "next" /\ Earliest(h, todo[s])
    /\ key' = [key EXCEPT ![s] = {ShardKey(h, writerID[p], objectSeq[p])}]
    /\ Goto(s, "put")
    /\ UNCHANGED <<todo, writerID, objectSeq, objects, passVars, now, faults>>

\* A faulty NewShardObjectKey that files every hour under the batch's first.
KeyOfFirstHour(s, h) ==
    LET p == ReplicaOf[s] IN
    /\ pc[s] = "next" /\ Earliest(h, todo[s])
    /\ objectSeq' = [objectSeq EXCEPT ![p] = @ + 1]
    /\ key' = [key EXCEPT ![s] =
                  {ShardKey(Head(BatchOf[s]), writerID[p], objectSeq[p] + 1)}]
    /\ Goto(s, "put")
    /\ UNCHANGED <<todo, writerID, objects, passVars, now, faults>>

\* objectSeq.Add is atomic.
NewShardObjectKey(s, h) ==
    LET p == ReplicaOf[s] IN
    /\ pc[s] = "next" /\ Earliest(h, todo[s])
    /\ objectSeq' = [objectSeq EXCEPT ![p] = @ + 1]
    /\ key' = [key EXCEPT ![s] = {ShardKey(h, writerID[p], objectSeq[p] + 1)}]
    /\ Goto(s, "put")
    /\ UNCHANGED <<todo, writerID, objects, passVars, now, faults>>

\* PutObject replaces whatever the key held.
Put(s, h, k) ==
    objects' = [o \in DOMAIN objects \cup {k} |->
                   IF o = k
                   THEN [recs |-> {r \in RecordsOf(s) : HourOf(r) = h},
                         mtime |-> now + Skew]
                   ELSE objects[o]]

\* SaveBatch returns nil after the last hour.
WriteObject(s, h, k) ==
    /\ pc[s] = "put" /\ Earliest(h, todo[s]) /\ k \in key[s]
    /\ Put(s, h, k)
    /\ todo' = [todo EXCEPT ![s] = @ \ {h}]
    /\ key' = [key EXCEPT ![s] = {}]
    /\ Goto(s, IF todo[s] = {h} THEN "ok" ELSE "next")
    /\ UNCHANGED <<writerID, objectSeq, passVars, now, faults>>

\* The put fails, or its answer is lost after the object was stored; the
\* hours already written stay.
WriteFails(s, h, k) ==
    /\ pc[s] = "put" /\ Earliest(h, todo[s]) /\ k \in key[s]
    /\ Fault
    /\ Put(s, h, k) \/ UNCHANGED objects
    /\ key' = [key EXCEPT ![s] = {}]
    /\ todo' = [todo EXCEPT ![s] = {}]
    /\ Goto(s, "failed")
    /\ UNCHANGED <<writerID, objectSeq, passVars, now>>

\* The context is done before the next hour, or a record does not marshal.
SaveGivesUp(s) ==
    /\ pc[s] = "next"
    /\ Fault
    /\ todo' = [todo EXCEPT ![s] = {}]
    /\ Goto(s, "failed")
    /\ UNCHANGED <<key, writerID, objectSeq, objects, passVars, now>>

SaveBatch(s) ==
    \/ \E h \in Hours :
         \/ NewShardObjectKey(s, h)
         \/ \E k \in key[s] : WriteObject(s, h, k) \/ WriteFails(s, h, k)
    \/ SaveGivesUp(s)

-----------------------------------------------------------------------------
(* MinIOAggregationService.                                                *)

\* Faulty variant of parseHourParts: the date is not looked at.
ParseHourOnly(dateToken, hourToken) == IF hourToken \in Nat THEN hourToken ELSE NoHour

parseHourParts(dateToken, hourToken) ==
    IF dateToken = Date /\ hourToken \in Nat THEN hourToken ELSE NoHour

\* The hour of a sharded key, or else of a key of the former layout,
\* logs/<date>/<hour>.log.json.
parseHourFromObjectKey(k) ==
    LET n == Len(k.dirs)
        sharded == IF n >= 2 THEN parseHourParts(k.dirs[n - 1], k.dirs[n]) ELSE NoHour
    IN  IF n < 1 \/ ~k.log THEN NoHour
        ELSE IF sharded # NoHour THEN sharded
        ELSE parseHourParts(k.dirs[n], Head(k.stem))

Logs == {k \in DOMAIN objects : k.log}

\* AggregateAll lists the logs in the bucket, page by page: what is there when
\* the listing begins is in it, what is put meanwhile may be.
ListBegins ==
    /\ apc = "wait" /\ apc' = "list"
    /\ listed' = Logs
    /\ UNCHANGED <<saveVars, visit, counted, summary, now, faults>>

\* The listing is complete, and is grouped by hour.
ListLogObjects ==
    /\ apc = "list" /\ apc' = "walk"
    /\ \E S \in SUBSET (Logs \ listed) : listed' = listed \cup S
    /\ visit' = {parseHourFromObjectKey(k) : k \in listed'} \ {NoHour}
    /\ UNCHANGED <<saveVars, counted, summary, now, faults>>

RunEnds ==
    /\ apc = "walk" /\ visit = {}
    /\ apc' = "wait"
    /\ listed' = {}
    /\ counted' = {}
    /\ UNCHANGED <<saveVars, visit, summary, now, faults>>

\* The listing failed: the pass ends without visiting anything.
ListFails ==
    /\ apc = "list" /\ apc' = "wait"
    /\ Fault
    /\ listed' = {}
    /\ UNCHANGED <<saveVars, visit, counted, summary, now>>

Visits(h) == Earliest(h, visit)
OfHour(h) == {k \in listed : parseHourFromObjectKey(k) = h}
Leave(h) == visit' = visit \ {h} /\ apc' = "walk"

\* A faulty UpToDate that compares with the oldest object of the hour.
NotBeforeOldest(h) ==
    /\ summary[h].kind # "none"
    /\ \E k \in OfHour(h) : ~(summary[h].mtime < objects[k].mtime)

\* The summary is not before latestObjectModTime, the latest of the hour's
\* objects.
UpToDate(h) ==
    /\ summary[h].kind # "none"
    /\ \A k \in OfHour(h) : ~(summary[h].mtime < objects[k].mtime)

Skip(h) ==
    /\ apc = "walk" /\ Visits(h)
    /\ UpToDate(h)
    /\ Leave(h)
    /\ UNCHANGED <<saveVars, listed, counted, summary, now, faults>>

\* The listed objects of the hour are read and counted, also when os.Stat of
\* the summary fails.  Objects do not change, so reading them one after the
\* other is as good as at once.
CountObjects(h) ==
    /\ apc = "walk" /\ Visits(h)
    /\ (~UpToDate(h) /\ UNCHANGED faults) \/ Fault
    /\ counted' = UNION {objects[k].recs : k \in OfHour(h)}
    /\ apc' = "write"
    /\ UNCHANGED <<saveVars, listed, visit, summary, now>>

\* Reading an object fails, or the summary cannot be created.
AggregateFails(h) ==
    /\ \/ apc = "walk" /\ ~UpToDate(h)
       \/ apc = "write"
    /\ Visits(h)
    /\ Fault
    /\ Leave(h)
    /\ UNCHANGED <<saveVars, listed, counted, summary, now>>

\* os.WriteFile creates or truncates the summary, then writes it.
Truncate(h) ==
    /\ apc = "write" /\ Visits(h)
    /\ summary' = [summary EXCEPT ![h] = [kind |-> "part", recs |-> {}, mtime |-> now]]
    /\ apc' = "fill"
    /\ UNCHANGED <<saveVars, listed, visit, counted, now, faults>>

Fill(h) ==
    /\ apc = "fill" /\ Visits(h)
    /\ summary' = [summary EXCEPT ![h] =
                      [kind |-> "full", recs |-> counted, mtime |-> now]]
    /\ Leave(h)
    /\ UNCHANGED <<saveVars, listed, counted, now, faults>>

FillFails(h) ==
    /\ apc = "fill" /\ Visits(h)
    /\ Fault
    /\ summary' = [summary EXCEPT ![h].mtime = now]
    /\ Leave(h)
    /\ UNCHANGED <<saveVars, listed, counted, now>>

-----------------------------------------------------------------------------

\* The calls of p that have begun to write are over; one that has not is
\* taken to start in the new process.
CallsAreLost(p) ==
    LET lost == {s \in Savers :
                    /\ ReplicaOf[s] = p
                    /\ \/ pc[s] = "put"
                       \/ pc[s] = "next" /\ todo[s] # GroupRecords(s)}
    IN  /\ pc' = [s \in Savers |-> IF s \in lost THEN "failed" ELSE pc[s]]
        /\ todo' = [s \in Savers |-> IF s \in lost THEN {} ELSE todo[s]]
        /\ key' = [s \in Savers |-> IF s \in lost THEN {} ELSE key[s]]

PassIsLost ==
    /\ apc' = "wait"
    /\ listed' = {} /\ visit' = {} /\ counted' = {}

\* A faulty Restart whose writerID is the host's name alone.
RestartSameWriter(p) ==
    /\ Fault
    /\ objectSeq' = [objectSeq EXCEPT ![p] = 0]
    /\ CallsAreLost(p)
    /\ IF p = Local THEN PassIsLost ELSE UNCHANGED <<apc, listed, visit, counted>>
    /\ UNCHANGED <<writerID, objects, summary, now>>

\* A replica's process ends and a new one starts: NewMinIORepo puts the pid
\* and the time in writerID, and objectSeq starts at zero.
Restart(p) ==
    /\ Fault
    /\ writerID' = [writerID EXCEPT ![p] = <<p, @[2] + 1>>]
    /\ objectSeq' = [objectSeq EXCEPT ![p] = 0]
    /\ CallsAreLost(p)
    /\ IF p = Local THEN PassIsLost ELSE UNCHANGED <<apc, listed, visit, counted>>
    /\ UNCHANGED <<objects, summary, now>>

Tick ==
    /\ now < MaxTime
    /\ now' = now + 1
    /\ UNCHANGED <<saveVars, passVars, faults>>

AggregateAll ==
    \/ ListBegins
    \/ ListLogObjects
    \/ RunEnds
    \/ \E h \in Hours : Skip(h) \/ CountObjects(h) \/ Truncate(h) \/ Fill(h)

Next ==
    \/ \E s \in Savers : SaveBatch(s)
    \/ AggregateAll
    \/ ListFails
    \/ \E h \in Hours : AggregateFails(h) \/ FillFails(h)
    \/ \E p \in Replicas : Restart(p)
    \/ Tick

Spec == Init /\ [][Next]_vars

\* The aggregation goroutine keeps running; nothing else is assumed.
LiveSpec == Spec /\ WF_vars(AggregateAll)

-----------------------------------------------------------------------------

\* Every piece of state of minio_repo.go:134-311 and minio_aggregation.go has
\* its type; the key a call holds carries the hour it is writing.
TypeOK ==
    /\ pc \in [Savers -> {"next", "put", "ok", "failed"}]
    /\ todo \in [Savers -> SUBSET Hours]
    /\ key \in [Savers -> SUBSET Key]
    /\ \A s \in Savers : \A k \in key[s] : k.dirs[3] \in todo[s]
    /\ DOMAIN objects \subseteq Key
    /\ objects \in [DOMAIN objects -> [recs : SUBSET Record, mtime : Int]]
    /\ writerID \in [Replicas -> Replicas \X Nat]
    /\ objectSeq \in [Replicas -> Nat]
    /\ now \in 1 .. MaxTime
    /\ apc \in {"wait", "list", "walk", "write", "fill"}
    /\ listed \subseteq DOMAIN objects /\ visit \subseteq Hours
    /\ counted \subseteq Record
    /\ summary \in [Hours -> Summary]
    /\ faults \in 0 .. MaxFaults

\* "This avoids cross-replica lost updates" (minio_repo.go:249): when
\* SaveBatch has returned nil each record of the batch is, and stays, in
\* exactly one object, under the prefix of its hour, whatever other calls,
\* replicas and restarts put.
SavedIsStored ==
    \A s \in Savers : pc[s] = "ok" =>
        \A r \in RecordsOf(s) :
            \E k \in DOMAIN objects :
                /\ k.dirs = <<Other, Date, HourOf(r)>> /\ r \in objects[k].recs
                /\ \A o \in DOMAIN objects : r \in objects[o].recs => o = k

\* An object is written once: no later put replaces it, also after a restart
\* resets objectSeq (minio_repo.go:179, 307-311).
ObjectsImmutable ==
    [][\A k \in DOMAIN objects :
          k \in DOMAIN objects' /\ objects'[k] = objects[k]]_vars

\* A summary counts records of its own hour only, each of them in the bucket:
\* nothing leaks from hour to hour or from pass to pass, and what is no log of
\* the service is not counted (minio_aggregation.go:86-97, 115-155, 183-199).
SummaryOfItsHour ==
    \A h \in Hours : \A r \in summary[h].recs :
        HourOf(r) = h /\ \E k \in DOMAIN objects : r \in objects[k].recs

\* Once nothing fails any more, an hour that has an object newer than its
\* summary is summarised again: each record then in the bucket is counted in
\* the end, unless an object was put during a pass that had already begun to
\* list the bucket (minio_aggregation.go:77-113, 165-199).
StaleIsRefreshed ==
    \A r \in {x \in Record : HourOf(x) # NoHour} :
        LET h == HourOf(r)
            ofHour == {k \in DOMAIN objects : \E x \in objects[k].recs : HourOf(x) = h}
            newer == {k \in ofHour : summary[h].mtime < objects[k].mtime}
        IN  (/\ faults = MaxFaults
             /\ summary[h].kind = "none" \/ newer # {}
             /\ apc = "wait" \/ ofHour \subseteq listed
             /\ \E k \in ofHour : r \in objects[k].recs)
                ~> (r \in summary[h].recs)
=============================================================================
