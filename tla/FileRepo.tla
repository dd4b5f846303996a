------------------------------ MODULE FileRepo ------------------------------
(***************************************************************************)
(* repo/file_repo.go: concurrent SaveBatch calls that append NDJSON lines  *)
(* to hourly files under one mutex per path.                               *)
(*                                                                         *)
(* A file is a sequence of chunks, one per file.Write.  A write that       *)
(* fails may have stored part of its line: "cut" when the JSON text is     *)
(* incomplete, "open" when only the newline is missing.  Whatever is       *)
(* appended next continues the same line.                                  *)
(***************************************************************************)
EXTENDS Integers, Sequences, Functions

CONSTANTS
    Savers,   \* the SaveBatch calls
    Hours,    \* the hours, one file path each
    BatchOf,  \* the hour of each record of a call's batch, in order
    Free      \* the state of a mutex nobody holds

ASSUME FileRepoAssumption ==
    /\ BatchOf \in [Savers -> Seq(Hours) \ {<<>>}]
    /\ Free \notin Savers

VARIABLES
    pc,      \* program counter of each call
    todo,    \* the paths of grouped a call has still to write
    path,    \* the path a call is writing, as a set of at most one
    rest,    \* the records of the group still to write, as a set
    lock,    \* fileLocks
    exists,  \* paths that have been created
    file     \* the chunks of each path

repoVars == <<pc, todo, path, rest, lock, exists, file>>

\* A record is its call and its position in the call's batch.
RecordsOf(s) == {<<s, i>> : i \in DOMAIN BatchOf[s]}
Record == UNION {RecordsOf(s) : s \in Savers}
HourOf(rec) == BatchOf[rec[1]][rec[2]]
Chunk == [rec : Record, kind : {"line", "open", "cut"}]

\* grouped[path]: the batch's records of one hour.  They are written in the
\* batch's order.
Group(s, h) == {r \in RecordsOf(s) : HourOf(r) = h}
Earliest(S) == {r \in S : \A q \in S : r[2] <= q[2]}

RepoInit ==
    /\ pc = [s \in Savers |-> "idle"]
    /\ todo = [s \in Savers |-> {}]
    /\ path = [s \in Savers |-> {}]
    /\ rest = [s \in Savers |-> {}]
    /\ lock = [h \in Hours |-> Free]
    /\ exists = {}
    /\ file = [h \in Hours |-> <<>>]

Goto(s, label) == pc' = [pc EXCEPT ![s] = label]

\* SaveBatch returns and its locals are gone.
Return(s, result) ==
    /\ Goto(s, result)
    /\ todo' = [todo EXCEPT ![s] = {}]
    /\ path' = [path EXCEPT ![s] = {}]
    /\ rest' = [rest EXCEPT ![s] = {}]

\* The deferred lock.Unlock and file.Close of appendRecords.
Unlock(h) == lock' = [lock EXCEPT ![h] = Free]

\* The first loop of SaveBatch groups the records by path; it gives up when
\* the context is done.
GroupRecords(s) ==
    /\ pc[s] = "idle"
    /\ \/ Return(s, "failed")
       \/ /\ Goto(s, "group")
          /\ todo' = [todo EXCEPT ![s] = Range(BatchOf[s])]
          /\ UNCHANGED <<path, rest>>
    /\ UNCHANGED <<lock, exists, file>>

\* The second loop takes the paths in the order of the map's iteration, which
\* is unspecified; MkdirAll may fail.
NextPath(s) ==
    /\ pc[s] = "group"
    /\ todo[s] # {}
    /\ \/ Return(s, "failed")
       \/ \E h \in todo[s] :
            /\ Goto(s, "lock")
            /\ path' = [path EXCEPT ![s] = {h}]
            /\ UNCHANGED <<todo, rest>>
    /\ UNCHANGED <<lock, exists, file>>

SaveReturns(s) ==
    /\ pc[s] = "group"
    /\ todo[s] = {}
    /\ Return(s, "ok")
    /\ UNCHANGED <<lock, exists, file>>

\* A faulty LockAndOpen in which appendRecords writes without the mutex.
OpenUnlocked(s, h) ==
    /\ pc[s] = "lock" /\ h \in path[s]
    /\ exists' = exists \cup {h}
    /\ rest' = [rest EXCEPT ![s] = Group(s, h)]
    /\ Goto(s, "write")
    /\ UNCHANGED <<todo, path, lock, file>>

\* lockFor finds or makes the mutex of the path under s.mu, so callers agree
\* on it; then Lock and OpenFile with O_CREATE|O_APPEND.
LockAndOpen(s, h) ==
    /\ pc[s] = "lock" /\ h \in path[s]
    /\ lock[h] = Free
    /\ lock' = [lock EXCEPT ![h] = s]
    /\ exists' = exists \cup {h}
    /\ rest' = [rest EXCEPT ![s] = Group(s, h)]
    /\ Goto(s, "write")
    /\ UNCHANGED <<todo, path, file>>

\* OpenFile fails: the mutex is taken and released.
OpenFails(s, h) ==
    /\ pc[s] = "lock" /\ h \in path[s]
    /\ lock[h] = Free
    /\ Return(s, "failed")
    /\ UNCHANGED <<lock, exists, file>>

\* file.Write of the next record of the group.
Write(r, h, kind) == file' = [file EXCEPT ![h] = Append(@, [rec |-> r, kind |-> kind])]

WriteRecord(s, h) ==
    /\ pc[s] = "write" /\ h \in path[s]
    /\ \E r \in Earliest(rest[s]) :
          /\ Write(r, h, "line")
          /\ rest' = [rest EXCEPT ![s] = @ \ {r}]
    /\ UNCHANGED <<pc, todo, path, lock, exists>>

\* A faulty WriteFails that logs the error and goes on with the next record.
WriteErrorSkips(s, h) ==
    /\ pc[s] = "write" /\ h \in path[s]
    /\ \E r \in Earliest(rest[s]) :
          /\ \/ UNCHANGED file
             \/ \E kind \in {"open", "cut"} : Write(r, h, kind)
          /\ rest' = [rest EXCEPT ![s] = @ \ {r}]
    /\ UNCHANGED <<pc, todo, path, lock, exists>>

\* A faulty WriteFails that writes the newline of a record Marshal rejected.
MarshalErrorWrites(s, h) ==
    /\ pc[s] = "write" /\ h \in path[s]
    /\ \E r \in Earliest(rest[s]) : Write(r, h, "blank")
    /\ Unlock(h)
    /\ Return(s, "failed")
    /\ UNCHANGED exists

\* A faulty WriteFails that returns without the deferred Unlock.
WriteErrorKeepsLock(s, h) ==
    /\ pc[s] = "write" /\ h \in path[s]
    /\ rest[s] # {}
    /\ Return(s, "failed")
    /\ UNCHANGED <<lock, exists, file>>

\* json.Marshal fails, or Write fails after storing nothing or a part.
WriteFails(s, h) ==
    /\ pc[s] = "write" /\ h \in path[s]
    /\ \E r \in Earliest(rest[s]) :
          \/ UNCHANGED file
          \/ \E kind \in {"open", "cut"} : Write(r, h, kind)
    /\ Unlock(h)
    /\ Return(s, "failed")
    /\ UNCHANGED exists

\* appendRecords returns nil and SaveBatch goes to the next path.
GroupWritten(s, h) ==
    /\ pc[s] = "write" /\ h \in path[s]
    /\ rest[s] = {}
    /\ Unlock(h)
    /\ todo' = [todo EXCEPT ![s] = @ \ {h}]
    /\ path' = [path EXCEPT ![s] = {}]
    /\ Goto(s, "group")
    /\ UNCHANGED <<rest, exists, file>>

\* One step of a SaveBatch call.
SaveBatch(s) ==
    \/ GroupRecords(s)
    \/ NextPath(s)
    \/ SaveReturns(s)
    \/ \E h \in Hours :
         \/ LockAndOpen(s, h)
         \/ OpenFails(s, h)
         \/ WriteRecord(s, h)
         \/ WriteFails(s, h)
         \/ GroupWritten(s, h)

\* What the file of hour h may be left with when the process ends: as it is, or
\* with part of the line that was being written.
Torn(h) ==
    LET next == IF lock[h] = Free THEN {} ELSE Earliest(rest[lock[h]])
    IN  {file[h]} \cup {Append(file[h], c) : c \in [rec : next, kind : {"open", "cut"}]}

\* The process ends: its goroutines and mutexes are gone.
CallsDie ==
    /\ pc' = [s \in Savers |-> IF pc[s] \in {"group", "lock", "write"}
                                THEN "failed" ELSE pc[s]]
    /\ todo' = [s \in Savers |-> {}]
    /\ path' = [s \in Savers |-> {}]
    /\ rest' = [s \in Savers |-> {}]
    /\ lock' = [h \in Hours |-> Free]
    /\ file' \in {f \in [Hours -> UNION {Torn(h) : h \in Hours}] :
                     \A h \in Hours : f[h] \in Torn(h)}
    /\ UNCHANGED exists

-----------------------------------------------------------------------------
\* What a reader of the file gets.

\* The call that wrote chunk i, and whether a line starts at chunk i.
Writer(h, i) == file[h][i].rec[1]
StartsLine(h, i) == i = 1 \/ file[h][i - 1].kind = "line"

\* bufio.Scanner yields chunk i as one line of its own: it starts a line and
\* ends it, with a newline or with the end of the file.
IsLine(h, i) ==
    /\ StartsLine(h, i)
    /\ \/ file[h][i].kind = "line"
       \/ file[h][i].kind = "open" /\ i = Len(file[h])

\* The records json.Unmarshal recovers from the lines of a file.
Readable(h) == {file[h][i].rec : i \in {j \in DOMAIN file[h] : IsLine(h, j)}}

-----------------------------------------------------------------------------

\* Every piece of SaveBatch's state (file_repo.go:31-92) has its type.
RepoTypeOK ==
    /\ pc \in [Savers -> {"idle", "group", "lock", "write", "ok", "failed"}]
    /\ todo \in [Savers -> SUBSET Hours]
    /\ path \in [Savers -> SUBSET Hours]
    /\ rest \in [Savers -> SUBSET Record]
    /\ lock \in [Hours -> Savers \cup {Free}]
    /\ exists \subseteq Hours
    /\ file \in [Hours -> Seq(Chunk)]

\* The lines of one SaveBatch call stay together in a file: the mutex of
\* lockFor keeps the writes of two calls (file_repo.go:61-63) apart.
GroupsContiguous ==
    \A h \in Hours : \A i, j, k \in DOMAIN file[h] :
        i < j /\ j < k /\ Writer(h, i) = Writer(h, k)
            => Writer(h, j) = Writer(h, i)

\* What a call has put in a file is a prefix of its group for that hour, in
\* batch order and without repetition, whether the call is running, has
\* succeeded or has failed part way (file_repo.go:71-79): a record comes after
\* all the earlier ones of its group, and after no other of its call.
FileHoldsPrefix ==
    \A h \in Hours : \A k \in DOMAIN file[h] :
        LET r == file[h][k].rec
            before == {file[h][j].rec : j \in 1 .. k - 1}
        IN  /\ r \in Group(r[1], h)
            /\ {q \in before : q[1] = r[1]} = {q \in Group(r[1], h) : q[2] < r[2]}

=============================================================================
