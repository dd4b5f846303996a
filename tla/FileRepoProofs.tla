--------------------------- MODULE FileRepoProofs ---------------------------
(***************************************************************************)
(* The inductive invariant of FileRepo: every step of a SaveBatch call,    *)
(* and the end of the process, keep it, for any calls, batches and hours.  *)
(* FilePipelineProofs draws the theorems about the specifications that     *)
(* extend FileRepo.                                                        *)
(*                                                                         *)
(* A step changes a file by at most one chunk at its end, which the holder *)
(* of the path's mutex writes.  What files look like follows from that and *)
(* from how far each call has come.                                        *)
(***************************************************************************)
EXTENDS FileRepo, TLAPS

Writing(s, h) == pc[s] = "write" /\ h \in path[s]
Line(r) == [rec |-> r, kind |-> "line"]
WroteNothing(s, h) == \A c \in Range(file[h]) : c.rec[1] # s
WroteAll(s, h) == \A r \in Group(s, h) : Line(r) \in Range(file[h])

\* A call has a path from NextPath to the end of appendRecords, and records to
\* write only inside appendRecords.
CallOK(s) ==
    /\ todo[s] \subseteq Range(BatchOf[s])
    /\ \A h \in path[s] :
          path[s] = {h} /\ h \in todo[s] /\ rest[s] \subseteq Group(s, h)
    /\ pc[s] \notin {"lock", "write"} => path[s] = {}
    /\ pc[s] # "write" => rest[s] = {}
    /\ pc[s] = "ok" => todo[s] = {}

CallInv == \A s \in Savers : CallOK(s)

\* The holder of a path's mutex is the one call that writes the path.
LockInv ==
    \A h \in Hours :
        /\ lock[h] # Free => Writing(lock[h], h)
        /\ \A s \in Savers : Writing(s, h) => lock[h] = s

\* How far call s has come with hour h.
Progress(s, h) ==
    /\ pc[s] = "idle" => WroteNothing(s, h)
    /\ h \in todo[s] /\ ~Writing(s, h) => WroteNothing(s, h)
    /\ Writing(s, h) =>
          /\ \A c \in Range(file[h]) : c.rec[1] = s =>
                \A q \in rest[s] : c.rec[2] < q[2]
          /\ \A r \in Group(s, h) \ rest[s] : Line(r) \in Range(file[h])
          /\ WroteNothing(s, h) \/ Writer(h, Len(file[h])) = s
    /\ h \notin todo[s] /\ pc[s] \in {"group", "lock", "write", "ok"} => WroteAll(s, h)

ProgressInv == \A s \in Savers, h \in Hours : Progress(s, h)

\* What is no whole line is the last its call wrote, and the call has failed.
TornInv ==
    \A h \in Hours : \A i \in DOMAIN file[h] : file[h][i].kind # "line" =>
        /\ pc[Writer(h, i)] = "failed"
        /\ \A j \in i + 1 .. Len(file[h]) : Writer(h, j) # Writer(h, i)

RepoInv ==
    /\ RepoTypeOK /\ CallInv /\ LockInv /\ ProgressInv
    /\ TornInv /\ GroupsContiguous /\ FileHoldsPrefix

-----------------------------------------------------------------------------
\* Records and files.

\* A record is told by its call and its position.
LEMMA RecordFacts ==
    /\ \A s \in Savers : \A h : Group(s, h) \subseteq RecordsOf(s)
    /\ \A s \in Savers : RecordsOf(s) \subseteq Record
    /\ \A s \in Savers : \A r \in RecordsOf(s) : r[1] = s /\ r[2] \in Nat
    /\ \A s \in Savers : \A r, q \in RecordsOf(s) : r[2] = q[2] => r = q
    /\ \A s \in Savers : \A r \in RecordsOf(s) : r \in Group(s, HourOf(r))
    /\ \A s \in Savers : \A h : Group(s, h) # {} => h \in Range(BatchOf[s])
    /\ \A s \in Savers : Range(BatchOf[s]) \subseteq Hours
    /\ \A r \in Record : r[1] \in Savers /\ r \in RecordsOf(r[1])
<1>1. \A s \in Savers : BatchOf[s] \in Seq(Hours)
  BY FileRepoAssumption
<1>2. \A s \in Savers : \A r \in RecordsOf(s) :
          r[1] = s /\ r[2] \in Nat /\ r[2] \in DOMAIN BatchOf[s] /\ r = <<s, r[2]>>
  BY <1>1 DEF RecordsOf
<1>3. \A r \in Record : r[1] \in Savers /\ r \in RecordsOf(r[1])
  BY <1>2 DEF Record
<1>4. \A s \in Savers : Range(BatchOf[s]) \subseteq Hours
  BY <1>1 DEF Range
<1>5. \A s \in Savers : \A h : Group(s, h) # {} => h \in Range(BatchOf[s])
  BY <1>2 DEF Group, HourOf, Range
<1>6. \A s \in Savers : \A h : /\ Group(s, h) \subseteq RecordsOf(s)
                               /\ RecordsOf(s) \subseteq Record
  BY DEF Group, Record
<1>7. \A s \in Savers : \A r, q \in RecordsOf(s) : r[2] = q[2] => r = q
  BY <1>2
<1>8. \A s \in Savers : \A r \in RecordsOf(s) : r \in Group(s, HourOf(r))
  BY DEF Group
<1> QED
  BY <1>2, <1>3, <1>4, <1>5, <1>6, <1>7, <1>8

\* What a write appends, and what it leaves.
LEMMA AppendChunk ==
    ASSUME NEW f \in Seq(Chunk), NEW c \in Chunk
    PROVE  /\ Append(f, c) \in Seq(Chunk)
           /\ Len(Append(f, c)) = Len(f) + 1
           /\ DOMAIN f = 1 .. Len(f) /\ DOMAIN Append(f, c) = 1 .. Len(f) + 1
           /\ \A i \in 1 .. Len(f) : Append(f, c)[i] = f[i]
           /\ Append(f, c)[Len(f) + 1] = c
           /\ Range(Append(f, c)) = Range(f) \cup {c}
<1>1. /\ Append(f, c) \in Seq(Chunk)
      /\ Len(Append(f, c)) = Len(f) + 1
      /\ DOMAIN f = 1 .. Len(f) /\ DOMAIN Append(f, c) = 1 .. Len(f) + 1
      /\ \A i \in 1 .. Len(f) : Append(f, c)[i] = f[i]
      /\ Append(f, c)[Len(f) + 1] = c /\ Len(f) \in Nat
  OBVIOUS
<1>2. Range(Append(f, c)) = {Append(f, c)[i] : i \in 1 .. Len(f) + 1}
  BY <1>1 DEF Range
<1>3. Range(f) = {f[i] : i \in 1 .. Len(f)}
  BY <1>1 DEF Range
<1>4. 1 .. Len(f) + 1 = (1 .. Len(f)) \cup {Len(f) + 1}
  BY <1>1
<1>5. Range(Append(f, c)) = Range(f) \cup {c}
  BY <1>1, <1>2, <1>3, <1>4
<1> QED
  BY <1>1, <1>5

-----------------------------------------------------------------------------
\* What any step does to files.

\* The file of hour h stays as it is, or the holder of its mutex appends the
\* next record of its group, or part of it and then fails.
Extends(h) ==
    \/ file'[h] = file[h]
    \/ /\ lock[h] # Free
       /\ \E r \in Earliest(rest[lock[h]]), kind \in {"line", "open", "cut"} :
             /\ kind # "line" => pc'[lock[h]] = "failed"
             /\ file'[h] = Append(file[h], [rec |-> r, kind |-> kind])

RepoStep ==
    /\ \A h \in Hours : Extends(h)
    /\ \A s \in Savers : pc[s] = "failed" => pc'[s] = "failed"

\* Call s has appended record r to the file of hour h.
Grown(h, s, r, kind) ==
    /\ Writing(s, h) /\ lock[h] = s
    /\ r \in rest[s] /\ \A q \in rest[s] : r[2] <= q[2]
    /\ kind # "line" => pc'[s] = "failed"
    /\ Len(file[h]) \in Nat /\ Len(file'[h]) = Len(file[h]) + 1
    /\ DOMAIN file[h] = 1 .. Len(file[h]) /\ DOMAIN file'[h] = 1 .. Len(file[h]) + 1
    /\ \A i \in 1 .. Len(file[h]) : file'[h][i] = file[h][i]
    /\ file'[h][Len(file[h]) + 1] = [rec |-> r, kind |-> kind]
    /\ Range(file'[h]) = Range(file[h]) \cup {[rec |-> r, kind |-> kind]}
    /\ file'[h] \in Seq(Chunk)

\* A file that changes has grown by a record of the call that holds its mutex.
LEMMA Growth ==
    ASSUME RepoInv, NEW h \in Hours, Extends(h), file'[h] # file[h]
    PROVE  \E s \in Savers, kind \in {"line", "open", "cut"} :
              \E r \in Group(s, h) : Grown(h, s, r, kind)
<1> DEFINE s == lock[h]
<1>1. PICK r \in Earliest(rest[s]), kind \in {"line", "open", "cut"} :
          /\ kind # "line" => pc'[s] = "failed"
          /\ file'[h] = Append(file[h], [rec |-> r, kind |-> kind])
  BY Zenon DEF Extends
<1>2. s \in Savers /\ s # Free
  BY DEF RepoInv, RepoTypeOK, Extends
<1>3. Writing(s, h)
  BY <1>2 DEF RepoInv, LockInv
<1>4. r \in rest[s] /\ \A q \in rest[s] : r[2] <= q[2]
  BY <1>1 DEF Earliest
<1>5. r \in Group(s, h)
  BY <1>2, <1>3, <1>4 DEF RepoInv, CallInv, CallOK, Writing
<1>6. file[h] \in Seq(Chunk) /\ [rec |-> r, kind |-> kind] \in Chunk
  <2>1. file[h] \in Seq(Chunk)
    BY DEF RepoInv, RepoTypeOK
  <2>2. r \in Record
    BY <1>2, <1>5, RecordFacts
  <2> QED
    BY <2>1, <2>2 DEF Chunk
<1> HIDE DEF s
<1>7. Grown(h, s, r, kind)
  BY <1>1, <1>3, <1>4, <1>6, AppendChunk DEF Grown, s
<1> QED
  BY <1>1, <1>2, <1>5, <1>7

\* w gives the writers of n lines, and those of a writer stand together.
Together(w, n) ==
    \A x, y, z \in 1 .. n : x < y /\ y < z /\ w[x] = w[z] => w[y] = w[x]

\* One more line keeps them together when its writer wrote the last, or none.
LEMMA OneMore ==
    ASSUME NEW n \in Nat, NEW w, Together(w, n),
           \A x \in 1 .. n : w[x] = w[n + 1] => w[n] = w[n + 1]
    PROVE  Together(w, n + 1)
<1> SUFFICES ASSUME NEW x \in 1 .. n + 1, NEW y \in 1 .. n + 1, NEW z \in 1 .. n + 1,
                    x < y, y < z, w[x] = w[z]
             PROVE  w[y] = w[x]
  BY DEF Together
<1> DEFINE s == w[n + 1]
<1> USE DEF Together
<1>1. x \in 1 .. n /\ y \in 1 .. n /\ n \in 1 .. n
  OBVIOUS
<1>2. CASE z \in 1 .. n
  BY <1>1, <1>2
<1>3. CASE z = n + 1
  <2>1. w[x] = s /\ w[n] = s
    BY <1>1, <1>3
  <2>2. CASE y = n
    BY <2>1, <2>2
  <2>3. CASE y < n
    BY <1>1, <2>1, <2>3
  <2> QED
    BY <1>1, <2>2, <2>3
<1> QED
  BY <1>2, <1>3

\* The lines of a call stay together: nobody else writes the file while a call
\* holds its mutex.
LEMMA ContiguousKept ==
    ASSUME RepoInv, RepoStep
    PROVE  GroupsContiguous'
<1> SUFFICES ASSUME NEW h \in Hours
             PROVE  \A i, j, k \in DOMAIN file'[h] :
                       i < j /\ j < k /\ file'[h][i].rec[1] = file'[h][k].rec[1]
                          => file'[h][j].rec[1] = file'[h][i].rec[1]
  BY DEF GroupsContiguous, Writer
<1>1. CASE file'[h] = file[h]
  BY <1>1 DEF RepoInv, GroupsContiguous, Writer
<1>2. CASE file'[h] # file[h]
  <2>1. PICK s \in Savers, kind \in {"line", "open", "cut"} :
           \E r \in Group(s, h) : Grown(h, s, r, kind)
    BY <1>2, Growth DEF RepoStep
  <2>2. PICK r \in Group(s, h) : Grown(h, s, r, kind)
    BY <2>1
  <2> DEFINE n == Len(file[h])
             w == [x \in 1 .. n + 1 |-> file'[h][x].rec[1]]
  <2>3. /\ n \in Nat /\ DOMAIN file[h] = 1 .. n /\ DOMAIN file'[h] = 1 .. n + 1
        /\ \A x \in 1 .. n : file'[h][x] = file[h][x]
        /\ file'[h][n + 1].rec = r
    BY <2>2 DEF Grown
  <2>4. r[1] = s
    BY RecordFacts
  <2>5. WroteNothing(s, h) \/ file[h][n].rec[1] = s
    BY <2>2 DEF Grown, RepoInv, ProgressInv, Progress, Writer
  <2>6. \A x \in 1 .. n : file[h][x] \in Range(file[h])
    BY <2>3 DEF Range
  <2>7. \A i, j, k \in DOMAIN file[h] :
           i < j /\ j < k /\ file[h][i].rec[1] = file[h][k].rec[1]
              => file[h][j].rec[1] = file[h][i].rec[1]
    BY DEF RepoInv, GroupsContiguous, Writer
  <2> HIDE DEF n
  <2>8. /\ \A x \in 1 .. n + 1 : w[x] = file'[h][x].rec[1]
        /\ \A x \in 1 .. n : w[x] = file[h][x].rec[1]
        /\ w[n + 1] = s
    BY <2>3, <2>4
  <2> HIDE DEF w
  <2>9. Together(w, n)
    <3> SUFFICES ASSUME NEW x \in 1 .. n, NEW y \in 1 .. n, NEW z \in 1 .. n,
                        x < y, y < z, w[x] = w[z]
                 PROVE  w[y] = w[x]
      BY DEF Together
    <3>1. x \in DOMAIN file[h] /\ y \in DOMAIN file[h] /\ z \in DOMAIN file[h]
      BY <2>3
    <3>2. /\ w[x] = file[h][x].rec[1] /\ w[y] = file[h][y].rec[1]
          /\ w[z] = file[h][z].rec[1]
      BY <2>8
    <3> QED
      BY <2>7, <3>1, <3>2, Zenon
  <2>10. \A x \in 1 .. n : w[x] = s => w[n] = s
    <3> SUFFICES ASSUME NEW x \in 1 .. n, w[x] = s
                 PROVE  w[n] = s
      OBVIOUS
    <3>1. ~WroteNothing(s, h)
      BY <2>6, <2>8, Zenon DEF WroteNothing
    <3>2. n \in 1 .. n
      BY <2>3
    <3> QED
      BY <2>5, <2>8, <3>1, <3>2, Zenon
  <2>11. Together(w, n + 1)
    <3>1. n \in Nat /\ w[n + 1] = s
      BY <2>3, <2>8
    <3> QED
      BY <2>9, <2>10, <3>1, OneMore, Zenon
  <2>12. SUFFICES ASSUME NEW i \in DOMAIN file'[h], NEW j \in DOMAIN file'[h],
                         NEW k \in DOMAIN file'[h], i < j, j < k,
                         file'[h][i].rec[1] = file'[h][k].rec[1]
                  PROVE  file'[h][j].rec[1] = file'[h][i].rec[1]
    BY Zenon
  <2>13. i \in 1 .. n + 1 /\ j \in 1 .. n + 1 /\ k \in 1 .. n + 1
    BY <2>3
  <2>14. /\ w[i] = file'[h][i].rec[1] /\ w[j] = file'[h][j].rec[1]
         /\ w[k] = file'[h][k].rec[1]
    BY <2>8, <2>13, Zenon
  <2> QED
    BY <2>11, <2>12, <2>13, <2>14 DEF Together
<1> QED
  BY <1>1, <1>2

\* Chunk k of f comes after the earlier records of its group, and after no
\* other of its call.
PrefixAt(f, h, k) ==
    /\ f[k].rec \in Group(f[k].rec[1], h)
    /\ {q \in {f[j].rec : j \in 1 .. k - 1} : q[1] = f[k].rec[1]}
          = {q \in Group(f[k].rec[1], h) : q[2] < f[k].rec[2]}

LEMMA PrefixesAt ==
    FileHoldsPrefix <=> \A h \in Hours : \A k \in DOMAIN file[h] : PrefixAt(file[h], h, k)
  BY Zenon DEF FileHoldsPrefix, PrefixAt

\* A call's lines are a prefix of its group: what it writes is the first of what
\* is left, and the rest of its group is in the file already.
LEMMA PrefixKept ==
    ASSUME RepoInv, RepoStep
    PROVE  FileHoldsPrefix'
<1> SUFFICES ASSUME NEW h \in Hours, NEW k \in DOMAIN file'[h]
             PROVE  PrefixAt(file'[h], h, k)
  BY DEF FileHoldsPrefix, PrefixAt
<1>0. \A i \in DOMAIN file[h] : PrefixAt(file[h], h, i)
  BY PrefixesAt DEF RepoInv
<1>1. CASE file'[h] = file[h]
  BY <1>0, <1>1
<1>2. CASE file'[h] # file[h]
  <2>1. PICK s \in Savers, kind \in {"line", "open", "cut"} :
           \E r \in Group(s, h) : Grown(h, s, r, kind)
    BY <1>2, Growth DEF RepoStep
  <2>2. PICK r \in Group(s, h) : Grown(h, s, r, kind)
    BY <2>1
  <2> DEFINE n == Len(file[h])
             f == file[h]
             g == file'[h]
  <2>3. /\ n \in Nat /\ DOMAIN f = 1 .. n /\ DOMAIN g = 1 .. n + 1
        /\ \A x \in 1 .. n : g[x] = f[x]
        /\ g[n + 1].rec = r
        /\ Writing(s, h) /\ r \in rest[s] /\ \A q \in rest[s] : r[2] <= q[2]
    BY <2>2 DEF Grown
  <2>4. /\ \A c \in Range(f) : c.rec[1] = s => c.rec[2] < r[2]
        /\ \A q \in Group(s, h) \ rest[s] : Line(q) \in Range(f)
    BY <2>3 DEF RepoInv, ProgressInv, Progress
  <2>5. Range(f) = {f[x] : x \in 1 .. n}
    BY <2>3 DEF Range
  <2>6. /\ r[1] = s /\ r[2] \in Nat
        /\ \A q \in Group(s, h) : q[1] = s /\ q[2] \in Nat
    BY RecordFacts
  <2> HIDE DEF n, f, g
  <2>7. CASE k \in 1 .. n
    <3>1. PrefixAt(f, h, k) /\ g[k] = f[k]
      BY <1>0, <2>3, <2>7 DEF f
    <3>2. {g[j].rec : j \in 1 .. k - 1} = {f[j].rec : j \in 1 .. k - 1}
      BY <2>3, <2>7
    <3>3. PrefixAt(g, h, k)
      BY <3>1, <3>2 DEF PrefixAt
    <3> QED
      BY <3>3 DEF g
  <2>8. CASE k = n + 1
    <3> DEFINE before == {g[j].rec : j \in 1 .. k - 1}
    <3>1. before = {f[j].rec : j \in 1 .. n}
      BY <2>3, <2>8
    <3>2. ASSUME NEW q \in before, q[1] = s
          PROVE  q \in Group(s, h) /\ q[2] < r[2]
      <4>1. PICK j \in 1 .. n : q = f[j].rec
        BY <3>1
      <4>2. PrefixAt(f, h, j) /\ f[j] \in Range(f)
        BY <1>0, <2>3, <2>5 DEF f
      <4> QED
        BY <2>4, <3>2, <4>1, <4>2 DEF PrefixAt
    <3>3. ASSUME NEW q \in Group(s, h), q[2] < r[2]
          PROVE  q \in before /\ q[1] = s
      <4>1. q \notin rest[s]
        BY <2>3, <2>6, <3>3
      <4>2. PICK j \in 1 .. n : f[j] = Line(q)
        BY <2>4, <2>5, <4>1
      <4>3. f[j].rec = q
        BY <4>2 DEF Line
      <4> QED
        BY <2>6, <3>1, <4>3
    <3>4. g[k].rec = r
      BY <2>3, <2>8
    <3> HIDE DEF before
    <3>5. {q \in before : q[1] = s} = {q \in Group(s, h) : q[2] < r[2]}
      BY <3>2, <3>3, Zenon
    <3>6. PrefixAt(g, h, k)
      BY <2>6, <3>4, <3>5 DEF PrefixAt, before
    <3> QED
      BY <3>6 DEF g
  <2> QED
    BY <2>3, <2>7, <2>8 DEF g
<1> QED
  BY <1>1, <1>2

\* What is no whole line stays the last its call wrote: a failed call writes no
\* more.
LEMMA TornKept ==
    ASSUME RepoInv, RepoStep
    PROVE  TornInv'
<1> SUFFICES ASSUME NEW h \in Hours, NEW i \in DOMAIN file'[h],
                    file'[h][i].kind # "line"
             PROVE  /\ pc'[file'[h][i].rec[1]] = "failed"
                    /\ \A j \in i + 1 .. Len(file'[h]) :
                          file'[h][j].rec[1] # file'[h][i].rec[1]
  BY DEF TornInv, Writer
<1>0. \A x \in DOMAIN file[h] : file[h][x].kind # "line" =>
         /\ file[h][x].rec[1] \in Savers /\ pc[file[h][x].rec[1]] = "failed"
         /\ pc'[file[h][x].rec[1]] = "failed"
         /\ \A j \in x + 1 .. Len(file[h]) : file[h][j].rec[1] # file[h][x].rec[1]
  <2>1. \A x \in DOMAIN file[h] : file[h][x].rec \in Record
    <3>1. file[h] \in Seq(Chunk)
      BY DEF RepoInv, RepoTypeOK
    <3>2. \A x \in DOMAIN file[h] : file[h][x] \in Chunk
      BY <3>1
    <3> QED
      BY <3>2 DEF Chunk
  <2>2. \A x \in DOMAIN file[h] : file[h][x].rec[1] \in Savers
    BY <2>1, RecordFacts
  <2>3. \A x \in DOMAIN file[h] : file[h][x].kind # "line" =>
           /\ pc[file[h][x].rec[1]] = "failed"
           /\ \A j \in x + 1 .. Len(file[h]) : file[h][j].rec[1] # file[h][x].rec[1]
    BY Zenon DEF RepoInv, TornInv, Writer
  <2>4. \A x \in DOMAIN file[h] : pc[file[h][x].rec[1]] = "failed"
                                      => pc'[file[h][x].rec[1]] = "failed"
    BY <2>2, Zenon DEF RepoStep
  <2> QED
    BY <2>2, <2>3, <2>4, Zenon
<1>1. CASE file'[h] = file[h]
  BY <1>0, <1>1
<1>2. CASE file'[h] # file[h]
  <2>1. PICK s \in Savers, kind \in {"line", "open", "cut"} :
           \E r \in Group(s, h) : Grown(h, s, r, kind)
    BY <1>2, Growth DEF RepoStep
  <2>2. PICK r \in Group(s, h) : Grown(h, s, r, kind)
    BY <2>1
  <2> DEFINE n == Len(file[h])
  <2>3. /\ n \in Nat /\ DOMAIN file[h] = 1 .. n /\ DOMAIN file'[h] = 1 .. n + 1
        /\ Len(file'[h]) = n + 1
        /\ \A x \in 1 .. n : file'[h][x] = file[h][x]
        /\ file'[h][n + 1].rec[1] = s /\ file'[h][n + 1].kind = kind
        /\ pc[s] = "write" /\ (kind # "line" => pc'[s] = "failed")
    BY <2>2, RecordFacts DEF Grown, Writing
  <2> HIDE DEF n
  <2>4. CASE i \in 1 .. n
    <3>1. /\ file[h][i].kind # "line" /\ i \in DOMAIN file[h]
          /\ file'[h][i] = file[h][i]
      BY <2>3, <2>4
    <3>2. /\ file[h][i].rec[1] # s
          /\ \A j \in i + 1 .. n : file[h][j].rec[1] # file[h][i].rec[1]
      BY <1>0, <2>3, <3>1 DEF n
    <3>3. ASSUME NEW j \in i + 1 .. n + 1
          PROVE  file'[h][j].rec[1] # file'[h][i].rec[1]
      <4>1. CASE j = n + 1
        BY <2>3, <3>1, <3>2, <4>1
      <4>2. CASE j # n + 1
        <5>1. j \in i + 1 .. n /\ j \in 1 .. n
          BY <2>3, <2>4, <4>2
        <5> QED
          BY <2>3, <3>1, <3>2, <5>1
      <4> QED
        BY <4>1, <4>2
    <3> QED
      BY <1>0, <2>3, <3>1, <3>3
  <2>5. CASE i = n + 1
    BY <2>3, <2>5
  <2> QED
    BY <2>3, <2>4, <2>5
<1> QED
  BY <1>1, <1>2

-----------------------------------------------------------------------------
\* How far the calls have come.

\* Files only grow, by records of the call that holds the mutex.
LEMMA FilesGrow ==
    ASSUME RepoInv, RepoStep, NEW s \in Savers, NEW h \in Hours
    PROVE  /\ Range(file[h]) \subseteq Range(file'[h])
           /\ WroteAll(s, h) => WroteAll(s, h)'
           /\ WroteNothing(s, h) /\ ~Writing(s, h) => WroteNothing(s, h)'
           /\ file'[h] # file[h] => lock[h] \in Savers /\ Writing(lock[h], h)
<1>1. CASE file'[h] = file[h]
  BY <1>1, Zenon DEF WroteAll, WroteNothing
<1>2. CASE file'[h] # file[h]
  <2>1. PICK t \in Savers, kind \in {"line", "open", "cut"} :
           \E r \in Group(t, h) : Grown(h, t, r, kind)
    BY <1>2, Growth DEF RepoStep
  <2>2. PICK r \in Group(t, h) : Grown(h, t, r, kind)
    BY <2>1
  <2>3. /\ Range(file'[h]) = Range(file[h]) \cup {[rec |-> r, kind |-> kind]}
        /\ Writing(t, h) /\ lock[h] = t
    BY <2>2 DEF Grown
  <2>4. [rec |-> r, kind |-> kind].rec[1] = t
    BY RecordFacts
  <2>5. WroteAll(s, h) => WroteAll(s, h)'
    BY <2>3 DEF WroteAll
  <2>6. WroteNothing(s, h) /\ ~Writing(s, h) => WroteNothing(s, h)'
    BY <2>3, <2>4 DEF WroteNothing
  <2> QED
    BY <2>3, <2>5, <2>6
<1> QED
  BY <1>1, <1>2

\* A step leaves the locals of a call alone.
Same(t) ==
    pc'[t] = pc[t] /\ todo'[t] = todo[t] /\ path'[t] = path[t] /\ rest'[t] = rest[t]

\* A call is where it was when another one takes a step.
LEMMA OthersKept ==
    ASSUME RepoInv, RepoStep, NEW s \in Savers, NEW t \in Savers \ {s}, Same(t),
           \A h \in Hours : file'[h] # file[h] => lock[h] = s
    PROVE  CallOK(t)' /\ \A h \in Hours : Progress(t, h)'
<1>1. CallOK(t)'
  BY DEF RepoInv, CallInv, CallOK, Same
<1>2. ASSUME NEW h \in Hours
      PROVE  Progress(t, h)'
  <2>1. Progress(t, h) /\ (Writing(t, h)' <=> Writing(t, h))
    BY DEF RepoInv, ProgressInv, Same, Writing
  <2>2. CASE Writing(t, h)
    <3>1. file'[h] = file[h]
      BY <2>2 DEF RepoInv, LockInv
    <3> QED
      BY <2>1, <3>1 DEF Progress, WroteNothing, WroteAll, Writer, Same
  <2>3. CASE ~Writing(t, h)
    <3>1. /\ WroteAll(t, h) => WroteAll(t, h)'
          /\ WroteNothing(t, h) => WroteNothing(t, h)'
      BY <2>3, FilesGrow
    <3> QED
      BY <2>1, <2>3, <3>1 DEF Progress, Same
  <2> QED
    BY <2>2, <2>3
<1> QED
  BY <1>1, <1>2

\* The mutexes when a step takes none and frees none.
LEMMA LocksKept ==
    ASSUME RepoInv, lock' = lock,
           \A t \in Savers, h \in Hours : Writing(t, h)' <=> Writing(t, h)
    PROVE  LockInv'
<1>1. \A h \in Hours : lock[h] # Free => lock[h] \in Savers
  BY DEF RepoInv, RepoTypeOK
<1>2. LockInv
  BY DEF RepoInv
<1> QED
  BY <1>1, <1>2, Zenon DEF LockInv

\* A call takes the mutex of the path it is going to write.
LEMMA LockTaken ==
    ASSUME RepoInv, NEW s \in Savers, NEW h \in Hours, lock[h] = Free,
           lock' = [lock EXCEPT ![h] = s], ~Writing(s, h),
           \A t \in Savers, k \in Hours :
              Writing(t, k)' <=> Writing(t, k) \/ (t = s /\ k = h)
    PROVE  LockInv'
<1>1. /\ \A k \in Hours : lock[k] # Free => lock[k] \in Savers
      /\ lock'[h] = s /\ \A k \in Hours \ {h} : lock'[k] = lock[k]
  BY DEF RepoInv, RepoTypeOK
<1>2. /\ \A k \in Hours : lock[k] # Free => Writing(lock[k], k)
      /\ \A k \in Hours : \A t \in Savers : Writing(t, k) => lock[k] = t
  BY DEF RepoInv, LockInv
<1>3. Free \notin Savers
  BY FileRepoAssumption
<1>4. ASSUME NEW k \in Hours
      PROVE  /\ lock'[k] # Free => Writing(lock[k], k)' \/ k = h
             /\ \A t \in Savers : Writing(t, k)' => lock'[k] = t
  BY <1>1, <1>2, <1>3
<1>5. Writing(s, h)'
  OBVIOUS
<1> QED
  BY <1>1, <1>4, <1>5 DEF LockInv

\* The call that holds the mutex of its path gives it back.
LEMMA LockFreed ==
    ASSUME RepoInv, NEW s \in Savers, NEW h \in Hours, Writing(s, h),
           lock' = [lock EXCEPT ![h] = Free],
           \A t \in Savers, k \in Hours :
              Writing(t, k)' <=> Writing(t, k) /\ t # s
    PROVE  LockInv'
<1>1. /\ \A k \in Hours : lock[k] # Free => lock[k] \in Savers
      /\ lock'[h] = Free /\ \A k \in Hours \ {h} : lock'[k] = lock[k]
  BY DEF RepoInv, RepoTypeOK
<1>2. /\ \A k \in Hours : lock[k] # Free => Writing(lock[k], k)
      /\ \A k \in Hours : \A t \in Savers : Writing(t, k) => lock[k] = t
  BY DEF RepoInv, LockInv
<1>3. \A k \in Hours : Writing(s, k) => k = h
  BY DEF RepoInv, CallInv, CallOK, Writing
<1>4. ASSUME NEW k \in Hours
      PROVE  /\ lock'[k] # Free => Writing(lock[k], k)'
             /\ \A t \in Savers : Writing(t, k)' => lock'[k] = t
  BY <1>1, <1>2, <1>3
<1> QED
  BY <1>4 DEF LockInv

-----------------------------------------------------------------------------
\* One step of SaveBatch(s).

\* What a step of call s leaves alone, and what holds of it afterwards.
CallStep(s) ==
    /\ RepoTypeOK' /\ RepoStep /\ LockInv' /\ CallOK(s)'
    /\ \A t \in Savers \ {s} : Same(t)
    /\ \A h \in Hours : file'[h] # file[h] => lock[h] = s
    /\ \A h \in Hours : Progress(s, h)'

LEMMA CallStepKeeps ==
    ASSUME RepoInv, NEW s \in Savers, CallStep(s)
    PROVE  RepoInv'
<1>1. \A t \in Savers : CallOK(t)' /\ \A h \in Hours : Progress(t, h)'
  BY OthersKept DEF CallStep
<1>2. CallInv' /\ ProgressInv'
  BY <1>1 DEF CallInv, ProgressInv
<1>3. GroupsContiguous' /\ FileHoldsPrefix' /\ TornInv'
  BY ContiguousKept, PrefixKept, TornKept DEF CallStep
<1> QED
  BY <1>2, <1>3 DEF RepoInv, CallStep

\* A step that writes nothing is a step of files in which nothing happens.
LEMMA NoWrite ==
    ASSUME RepoTypeOK, NEW s \in Savers, file' = file,
           \A t \in Savers \ {s} : pc'[t] = pc[t],
           pc[s] # "failed"
    PROVE  RepoStep
  BY DEF RepoStep, Extends

\* SaveBatch returns an error before it has written, or between two paths.
LEMMA ReturnsFailed ==
    ASSUME RepoInv, NEW s \in Savers, pc[s] \notin {"write", "failed"},
           Return(s, "failed"), UNCHANGED <<lock, exists, file>>
    PROVE  CallStep(s)
<1>1. RepoTypeOK
  BY DEF RepoInv
<1>2. /\ pc'[s] = "failed" /\ todo'[s] = {} /\ path'[s] = {} /\ rest'[s] = {}
      /\ \A t \in Savers \ {s} : Same(t)
      /\ lock' = lock /\ file' = file
  BY <1>1 DEF RepoTypeOK, Return, Goto, Same
<1>3. RepoTypeOK'
  BY <1>1 DEF RepoTypeOK, Return, Goto
<1>4. RepoStep
  BY <1>1, <1>2, NoWrite DEF Same
<1>5. LockInv'
  <2>1. \A t \in Savers, h \in Hours : Writing(t, h)' <=> Writing(t, h)
    BY <1>2 DEF Writing, Same
  <2> QED
    BY <1>2, <2>1, LocksKept
<1>6. CallOK(s)' /\ \A h \in Hours : Progress(s, h)'
  BY <1>2 DEF CallOK, Progress, Writing
<1> QED
  BY <1>2, <1>3, <1>4, <1>5, <1>6 DEF CallStep

LEMMA GroupRecordsStep ==
    ASSUME RepoInv, NEW s \in Savers, GroupRecords(s)
    PROVE  CallStep(s)
<1>1. CASE Return(s, "failed")
  BY <1>1, ReturnsFailed DEF GroupRecords
<1>2. CASE /\ Goto(s, "group") /\ todo' = [todo EXCEPT ![s] = Range(BatchOf[s])]
           /\ UNCHANGED <<path, rest>>
  <2>1. RepoTypeOK /\ pc[s] = "idle" /\ UNCHANGED <<lock, exists, file>>
    BY DEF RepoInv, GroupRecords
  <2>2. /\ pc'[s] = "group" /\ todo'[s] = Range(BatchOf[s])
        /\ path'[s] = path[s] /\ rest'[s] = rest[s]
        /\ \A t \in Savers \ {s} : Same(t)
        /\ lock' = lock /\ file' = file
    BY <1>2, <2>1 DEF RepoTypeOK, Goto, Same
  <2>3. RepoTypeOK'
    BY <1>2, <2>1, RecordFacts DEF RepoTypeOK, Goto
  <2>4. RepoStep
    BY <2>1, <2>2, NoWrite DEF Same
  <2>5. LockInv'
    <3>1. \A t \in Savers, h \in Hours : Writing(t, h)' <=> Writing(t, h)
      BY <2>1, <2>2 DEF Writing, Same
    <3> QED
      BY <2>2, <3>1, LocksKept
  <2>6. CallOK(s)'
    BY <2>1, <2>2 DEF RepoInv, CallInv, CallOK
  <2>7. ASSUME NEW h \in Hours
        PROVE  Progress(s, h)'
    <3>1. WroteNothing(s, h)'
      BY <2>1, <2>2 DEF RepoInv, ProgressInv, Progress, WroteNothing
    <3>2. h \notin todo'[s] => WroteAll(s, h)'
      BY <2>2, RecordFacts DEF WroteAll
    <3> QED
      BY <2>2, <3>1, <3>2 DEF Progress, Writing
  <2> QED
    BY <2>2, <2>3, <2>4, <2>5, <2>6, <2>7 DEF CallStep
<1> QED
  BY <1>1, <1>2 DEF GroupRecords

LEMMA NextPathStep ==
    ASSUME RepoInv, NEW s \in Savers, NextPath(s)
    PROVE  CallStep(s)
<1>1. CASE Return(s, "failed")
  BY <1>1, ReturnsFailed DEF NextPath
<1>2. ASSUME NEW h \in todo[s], Goto(s, "lock"), path' = [path EXCEPT ![s] = {h}],
             UNCHANGED <<todo, rest>>
      PROVE  CallStep(s)
  <2>1. RepoTypeOK /\ pc[s] = "group" /\ UNCHANGED <<lock, exists, file>>
    BY DEF RepoInv, NextPath
  <2>2. /\ pc'[s] = "lock" /\ todo'[s] = todo[s]
        /\ path'[s] = {h} /\ rest'[s] = rest[s]
        /\ \A t \in Savers \ {s} : Same(t)
        /\ lock' = lock /\ file' = file
    BY <1>2, <2>1 DEF RepoTypeOK, Goto, Same
  <2>3. RepoTypeOK'
    BY <1>2, <2>1 DEF RepoTypeOK, Goto
  <2>4. RepoStep
    BY <2>1, <2>2, NoWrite DEF Same
  <2>5. LockInv'
    <3>1. \A t \in Savers, k \in Hours : Writing(t, k)' <=> Writing(t, k)
      BY <2>1, <2>2 DEF Writing, Same
    <3> QED
      BY <2>2, <3>1, LocksKept
  <2>6. CallOK(s)'
    BY <2>1, <2>2 DEF RepoInv, CallInv, CallOK
  <2>7. ASSUME NEW k \in Hours
        PROVE  Progress(s, k)'
    BY <2>1, <2>2 DEF RepoInv, ProgressInv, Progress, WroteNothing, WroteAll, Writing
  <2> QED
    BY <2>2, <2>3, <2>4, <2>5, <2>6, <2>7 DEF CallStep
<1> QED
  BY <1>1, <1>2 DEF NextPath

LEMMA SaveReturnsStep ==
    ASSUME RepoInv, NEW s \in Savers, SaveReturns(s)
    PROVE  CallStep(s)
<1>1. RepoTypeOK /\ pc[s] = "group" /\ todo[s] = {} /\ Return(s, "ok")
      /\ UNCHANGED <<lock, exists, file>>
  BY DEF RepoInv, SaveReturns
<1>2. /\ pc'[s] = "ok" /\ todo'[s] = {} /\ path'[s] = {} /\ rest'[s] = {}
      /\ \A t \in Savers \ {s} : Same(t)
      /\ lock' = lock /\ file' = file
  BY <1>1 DEF RepoTypeOK, Return, Goto, Same
<1>3. RepoTypeOK'
  BY <1>1 DEF RepoTypeOK, Return, Goto
<1>4. RepoStep
  BY <1>1, <1>2, NoWrite DEF Same
<1>5. LockInv'
  <2>1. \A t \in Savers, h \in Hours : Writing(t, h)' <=> Writing(t, h)
    BY <1>1, <1>2 DEF Writing, Same
  <2> QED
    BY <1>2, <2>1, LocksKept
<1>6. CallOK(s)'
  BY <1>2 DEF CallOK
<1>7. ASSUME NEW h \in Hours
      PROVE  Progress(s, h)'
  BY <1>1, <1>2 DEF RepoInv, ProgressInv, Progress, WroteAll, Writing
<1> QED
  BY <1>2, <1>3, <1>4, <1>5, <1>6, <1>7 DEF CallStep

LEMMA LockAndOpenStep ==
    ASSUME RepoInv, NEW s \in Savers, NEW h \in Hours, LockAndOpen(s, h)
    PROVE  CallStep(s)
<1>1. /\ RepoTypeOK /\ pc[s] = "lock" /\ h \in path[s] /\ lock[h] = Free
      /\ lock' = [lock EXCEPT ![h] = s] /\ file' = file
  BY DEF RepoInv, LockAndOpen
<1>2. /\ pc'[s] = "write" /\ todo'[s] = todo[s]
      /\ path'[s] = path[s] /\ rest'[s] = Group(s, h)
      /\ \A t \in Savers \ {s} : Same(t)
  BY <1>1 DEF RepoTypeOK, LockAndOpen, Goto, Same
<1>3. RepoTypeOK'
  <2>1. Group(s, h) \subseteq Record
    BY RecordFacts
  <2> QED
    BY <1>1, <2>1 DEF RepoTypeOK, LockAndOpen, Goto
<1>4. RepoStep
  BY <1>1, <1>2, NoWrite DEF Same
<1>5. path[s] = {h} /\ h \in todo[s]
  BY <1>1 DEF RepoInv, CallInv, CallOK
<1>6. LockInv'
  <2>1. ~Writing(s, h)
    BY <1>1 DEF Writing
  <2>2. \A t \in Savers, k \in Hours :
           Writing(t, k)' <=> Writing(t, k) \/ (t = s /\ k = h)
    BY <1>1, <1>2, <1>5 DEF Writing, Same
  <2> QED
    BY <1>1, <2>1, <2>2, LockTaken
<1>7. CallOK(s)'
  <2>1. CallOK(s)
    BY DEF RepoInv, CallInv
  <2> QED
    BY <1>2, <1>5, <2>1 DEF CallOK
<1>8. ASSUME NEW k \in Hours
      PROVE  Progress(s, k)'
  <2>1. Progress(s, k) /\ ~Writing(s, k) /\ (Writing(s, k)' <=> k = h)
    BY <1>1, <1>2, <1>5 DEF RepoInv, ProgressInv, Writing
  <2>2. CASE k = h
    <3>1. WroteNothing(s, k)'
      BY <1>1, <1>5, <2>1, <2>2 DEF Progress, WroteNothing
    <3> QED
      BY <1>2, <1>5, <2>2, <3>1 DEF Progress, WroteNothing
  <2>3. CASE k # h
    BY <1>1, <1>2, <2>1, <2>3 DEF Progress, WroteNothing, WroteAll
  <2> QED
    BY <2>2, <2>3
<1> QED
  BY <1>1, <1>2, <1>3, <1>4, <1>6, <1>7, <1>8 DEF CallStep

LEMMA OpenFailsStep ==
    ASSUME RepoInv, NEW s \in Savers, NEW h \in Hours, OpenFails(s, h)
    PROVE  CallStep(s)
  BY ReturnsFailed DEF OpenFails

\* What a write of call s does to the files, seen from any hour.
Written(s, h, r, kind) ==
    /\ file' \in [Hours -> Seq(Chunk)]
    /\ \A k \in Hours : Extends(k)
    /\ \A k \in Hours \ {h} : file'[k] = file[k]
    /\ lock[h] = s /\ r \in Group(s, h) /\ Grown(h, s, r, kind)

LEMMA WriteStep ==
    ASSUME RepoInv, NEW s \in Savers, NEW h \in Hours, Writing(s, h),
           NEW r \in Earliest(rest[s]), NEW kind \in {"line", "open", "cut"},
           Write(r, h, kind), kind = "line" \/ pc'[s] = "failed"
    PROVE  Written(s, h, r, kind)
<1>1. file \in [Hours -> Seq(Chunk)] /\ lock[h] = s /\ s # Free
  BY FileRepoAssumption DEF RepoInv, RepoTypeOK, LockInv
<1>2. r \in rest[s] /\ \A q \in rest[s] : r[2] <= q[2]
  BY DEF Earliest
<1>3. r \in Group(s, h)
  BY <1>2 DEF RepoInv, CallInv, CallOK, Writing
<1>4. [rec |-> r, kind |-> kind] \in Chunk
  <2>1. r \in Record
    BY <1>3, RecordFacts
  <2> QED
    BY <2>1 DEF Chunk
<1>5. /\ file'[h] = Append(file[h], [rec |-> r, kind |-> kind])
      /\ \A k \in Hours \ {h} : file'[k] = file[k]
      /\ file' = [file EXCEPT ![h] = file'[h]]
  BY <1>1 DEF Write
<1>6. Grown(h, s, r, kind)
  <2> DEFINE c == [rec |-> r, kind |-> kind]
  <2>1. file[h] \in Seq(Chunk) /\ c \in Chunk /\ file'[h] = Append(file[h], c)
    BY <1>1, <1>4, <1>5
  <2>2. Len(file[h]) \in Nat
    BY <2>1
  <2> HIDE DEF c
  <2>3. /\ Append(file[h], c) \in Seq(Chunk)
        /\ Len(Append(file[h], c)) = Len(file[h]) + 1
        /\ DOMAIN file[h] = 1 .. Len(file[h])
        /\ DOMAIN Append(file[h], c) = 1 .. Len(file[h]) + 1
        /\ \A i \in 1 .. Len(file[h]) : Append(file[h], c)[i] = file[h][i]
        /\ Append(file[h], c)[Len(file[h]) + 1] = c
        /\ Range(Append(file[h], c)) = Range(file[h]) \cup {c}
    BY <2>1, AppendChunk, Zenon
  <2> QED
    BY <1>1, <1>2, <2>1, <2>2, <2>3, Zenon DEF Grown, c
<1>7. file' \in [Hours -> Seq(Chunk)]
  <2>1. file'[h] \in Seq(Chunk)
    BY <1>6 DEF Grown
  <2> QED
    BY <1>1, <1>5, <2>1
<1>8. \A k \in Hours : Extends(k)
  BY <1>1, <1>5 DEF Extends
<1> QED
  BY <1>1, <1>3, <1>5, <1>6, <1>7, <1>8 DEF Written

LEMMA WriteRecordStep ==
    ASSUME RepoInv, NEW s \in Savers, NEW h \in Hours, WriteRecord(s, h)
    PROVE  CallStep(s)
<1>1. /\ RepoTypeOK /\ pc[s] = "write" /\ h \in path[s] /\ Writing(s, h)
      /\ pc' = pc /\ todo' = todo /\ path' = path /\ lock' = lock /\ exists' = exists
  BY DEF RepoInv, WriteRecord, Writing
<1>2. PICK r \in Earliest(rest[s]) : Write(r, h, "line")
                                     /\ rest' = [rest EXCEPT ![s] = @ \ {r}]
  BY DEF WriteRecord
<1>3. /\ file' \in [Hours -> Seq(Chunk)]
      /\ \A k \in Hours : Extends(k)
      /\ \A k \in Hours \ {h} : file'[k] = file[k]
      /\ lock[h] = s /\ r \in Group(s, h) /\ Grown(h, s, r, "line")
  <2>1. Written(s, h, r, "line")
    BY <1>1, <1>2, WriteStep
  <2> QED
    BY <2>1, Zenon DEF Written
<1>4. rest'[s] = rest[s] \ {r} /\ \A t \in Savers \ {s} : Same(t)
  BY <1>1, <1>2 DEF RepoTypeOK, Same
<1>5. RepoTypeOK'
  <2>1. rest' \in [Savers -> SUBSET Record]
    BY <1>1, <1>2 DEF RepoTypeOK
  <2> QED
    BY <1>1, <1>3, <2>1 DEF RepoTypeOK
<1>6. RepoStep
  BY <1>1, <1>3 DEF RepoStep
<1>7. LockInv'
  <2>1. \A t \in Savers, k \in Hours : Writing(t, k)' <=> Writing(t, k)
    BY <1>1 DEF Writing
  <2> QED
    BY <1>1, <2>1, LocksKept
<1>8. CallOK(s)'
  BY <1>1, <1>4 DEF RepoInv, CallInv, CallOK
<1>9. path[s] = {h}
  BY <1>1 DEF RepoInv, CallInv, CallOK
<1>10. Progress(s, h)'
  <2>0. /\ Len(file'[h]) = Len(file[h]) + 1
        /\ file'[h][Len(file[h]) + 1] = Line(r)
    BY <1>3, Zenon DEF Grown, Line
  <2>1. /\ r \in rest[s] /\ \A q \in rest[s] : r[2] <= q[2]
        /\ Range(file'[h]) = Range(file[h]) \cup {Line(r)}
    BY <1>3, Zenon DEF Grown, Line
  <2>2. /\ \A c \in Range(file[h]) : c.rec[1] = s => \A q \in rest[s] : c.rec[2] < q[2]
        /\ \A q \in Group(s, h) \ rest[s] : Line(q) \in Range(file[h])
    BY <1>1 DEF RepoInv, ProgressInv, Progress
  <2>3. rest[s] \subseteq Group(s, h) /\ h \in todo[s]
    BY <1>1 DEF RepoInv, CallInv, CallOK
  <2>4. /\ r[1] = s /\ r[2] \in Nat /\ Line(r).rec = r
        /\ \A q \in Group(s, h) : q[2] \in Nat /\ (q[2] = r[2] => q = r)
    <3>1. Line(r).rec = r
      BY DEF Line
    <3>2. \A q \in Group(s, h) : q \in RecordsOf(s) /\ q[1] = s /\ q[2] \in Nat
      BY RecordFacts
    <3> QED
      BY <1>3, <3>1, <3>2, RecordFacts
  <2>5. ASSUME NEW q \in rest[s] \ {r}
        PROVE  r[2] < q[2]
    <3>1. r[2] <= q[2] /\ r[2] # q[2] /\ r[2] \in Nat /\ q[2] \in Nat
      BY <2>1, <2>3, <2>4, Zenon
    <3> QED
      BY <3>1
  <2>6. \A c \in Range(file'[h]) : c.rec[1] = s => \A q \in rest'[s] : c.rec[2] < q[2]
    BY <1>4, <2>1, <2>2, <2>4, <2>5
  <2>7. \A q \in Group(s, h) \ rest'[s] : Line(q) \in Range(file'[h])
    BY <1>4, <2>1, <2>2
  <2>8. Writer(h, Len(file[h]))' = s
    BY <2>0, <2>4 DEF Writer
  <2>9. pc'[s] = "write" /\ h \in todo'[s] /\ Writing(s, h)'
    BY <1>1, <2>3 DEF Writing
  <2> QED
    BY <2>6, <2>7, <2>8, <2>9 DEF Progress
<1>11. ASSUME NEW k \in Hours \ {h}
       PROVE  Progress(s, k)'
  BY <1>1, <1>3, <1>9 DEF RepoInv, ProgressInv, Progress, WroteNothing, WroteAll, Writing
<1> QED
  BY <1>3, <1>4, <1>5, <1>6, <1>7, <1>8, <1>10, <1>11 DEF CallStep

\* A call that was writing path h is back at the group, or has failed.
LEMMA LeavesWrite ==
    ASSUME RepoInv, NEW s \in Savers, NEW h \in Hours, Writing(s, h),
           lock' = [lock EXCEPT ![h] = Free], pc'[s] # "write",
           \A t \in Savers \ {s} : Same(t)
    PROVE  LockInv'
<1>1. \A t \in Savers, k \in Hours : Writing(t, k)' <=> Writing(t, k) /\ t # s
  BY DEF Writing, Same
<1> QED
  BY <1>1, LockFreed

LEMMA WriteFailsStep ==
    ASSUME RepoInv, NEW s \in Savers, NEW h \in Hours, WriteFails(s, h)
    PROVE  CallStep(s)
<1>1. /\ RepoTypeOK /\ pc[s] = "write" /\ h \in path[s] /\ Writing(s, h)
      /\ Return(s, "failed") /\ exists' = exists
      /\ lock' = [lock EXCEPT ![h] = Free]
  BY DEF RepoInv, WriteFails, Writing, Unlock
<1>2. /\ pc'[s] = "failed" /\ todo'[s] = {} /\ path'[s] = {} /\ rest'[s] = {}
      /\ \A t \in Savers \ {s} : Same(t)
  BY <1>1 DEF RepoTypeOK, Return, Goto, Same
<1>3. /\ file' \in [Hours -> Seq(Chunk)]
      /\ \A k \in Hours : Extends(k)
      /\ \A k \in Hours : file'[k] # file[k] => lock[k] = s
  <2>1. PICK r \in Earliest(rest[s]) :
           UNCHANGED file \/ \E kind \in {"open", "cut"} : Write(r, h, kind)
    BY DEF WriteFails
  <2>2. CASE UNCHANGED file
    BY <1>1, <2>2 DEF Extends, RepoTypeOK
  <2>3. ASSUME NEW kind \in {"open", "cut"}, Write(r, h, kind)
        PROVE  /\ file' \in [Hours -> Seq(Chunk)]
               /\ \A k \in Hours : Extends(k)
               /\ \A k \in Hours : file'[k] # file[k] => lock[k] = s
    <3>1. /\ kind \in {"line", "open", "cut"} /\ pc'[s] = "failed"
          /\ Writing(s, h) /\ Write(r, h, kind) /\ r \in Earliest(rest[s])
      BY <1>1, <1>2, <2>3
    <3>2. Written(s, h, r, kind)
      BY <3>1, WriteStep, Zenon
    <3> QED
      BY <3>2, Zenon DEF Written
  <2> QED
    BY <2>1, <2>2, <2>3
<1>4. RepoTypeOK'
  <2>1. /\ pc' \in [Savers -> {"idle", "group", "lock", "write", "ok", "failed"}]
        /\ todo' \in [Savers -> SUBSET Hours] /\ path' \in [Savers -> SUBSET Hours]
        /\ rest' \in [Savers -> SUBSET Record]
        /\ lock' \in [Hours -> Savers \cup {Free}]
    BY <1>1 DEF RepoTypeOK, Return, Goto
  <2> QED
    BY <1>1, <1>3, <2>1 DEF RepoTypeOK
<1>5. RepoStep
  BY <1>1, <1>2, <1>3 DEF RepoStep, Same
<1>6. LockInv'
  BY <1>1, <1>2, LeavesWrite
<1>7. CallOK(s)' /\ \A k \in Hours : Progress(s, k)'
  BY <1>2 DEF CallOK, Progress, Writing
<1> QED
  BY <1>2, <1>3, <1>4, <1>5, <1>6, <1>7 DEF CallStep

LEMMA GroupWrittenStep ==
    ASSUME RepoInv, NEW s \in Savers, NEW h \in Hours, GroupWritten(s, h)
    PROVE  CallStep(s)
<1>1. /\ RepoTypeOK /\ pc[s] = "write" /\ h \in path[s] /\ Writing(s, h)
      /\ rest[s] = {} /\ rest' = rest /\ exists' = exists /\ file' = file
      /\ lock' = [lock EXCEPT ![h] = Free]
  BY DEF RepoInv, GroupWritten, Writing, Unlock
<1>2. /\ pc'[s] = "group" /\ todo'[s] = todo[s] \ {h} /\ path'[s] = {}
      /\ rest'[s] = {}
      /\ \A t \in Savers \ {s} : Same(t)
  BY <1>1 DEF RepoTypeOK, GroupWritten, Goto, Same
<1>3. RepoTypeOK'
  BY <1>1 DEF RepoTypeOK, GroupWritten, Goto
<1>4. RepoStep
  BY <1>1, <1>2, NoWrite DEF Same
<1>5. LockInv'
  BY <1>1, <1>2, LeavesWrite
<1>6. CallOK(s) /\ path[s] = {h}
  BY <1>1 DEF RepoInv, CallInv, CallOK
<1>7. CallOK(s)'
  BY <1>2, <1>6 DEF CallOK
<1>8. ASSUME NEW k \in Hours
      PROVE  Progress(s, k)'
  <2>1. Progress(s, k) /\ (Writing(s, k) <=> k = h)
    BY <1>1, <1>6 DEF RepoInv, ProgressInv, Writing
  <2>2. CASE k = h
    <3>1. WroteAll(s, k)'
      BY <1>1, <2>1, <2>2 DEF Progress, WroteAll
    <3> QED
      BY <1>2, <2>2, <3>1 DEF Progress, Writing
  <2>3. CASE k # h
    BY <1>1, <1>2, <2>1, <2>3 DEF Progress, WroteNothing, WroteAll, Writing
  <2> QED
    BY <2>2, <2>3
<1> QED
  BY <1>1, <1>2, <1>3, <1>4, <1>5, <1>7, <1>8 DEF CallStep

\* Every step of a SaveBatch call keeps the invariant.
LEMMA SaveBatchStep ==
    ASSUME RepoInv, NEW s \in Savers, SaveBatch(s)
    PROVE  CallStep(s)
  BY GroupRecordsStep, NextPathStep, SaveReturnsStep, LockAndOpenStep, OpenFailsStep,
     WriteRecordStep, WriteFailsStep, GroupWrittenStep DEF SaveBatch

LEMMA SaveBatchKeeps ==
    ASSUME RepoInv, NEW s \in Savers, SaveBatch(s)
    PROVE  RepoInv' /\ RepoStep
  BY SaveBatchStep, CallStepKeeps DEF CallStep

-----------------------------------------------------------------------------
\* The process ends.

\* What Torn(h) holds.
LEMMA TornFiles ==
    ASSUME RepoInv, CallsDie, NEW h \in Hours
    PROVE  /\ file'[h] \in Torn(h) /\ Extends(h)
           /\ file' = [k \in Hours |-> file'[k]]
<1>1. file' \in [Hours -> UNION {Torn(k) : k \in Hours}] /\ file'[h] \in Torn(h)
  BY DEF CallsDie
<1>2. CASE file'[h] = file[h]
  BY <1>1, <1>2 DEF Extends
<1>3. CASE file'[h] # file[h]
  <2>1. /\ lock[h] # Free
        /\ \E r \in Earliest(rest[lock[h]]), k \in {"open", "cut"} :
              file'[h] = Append(file[h], [rec |-> r, kind |-> k])
    <3> DEFINE parts(S) == [rec : S, kind : {"open", "cut"}]
    <3>1. CASE lock[h] = Free
      <4>1. \E c \in parts({}) : file'[h] = Append(file[h], c)
        BY <1>1, <1>3, <3>1, Zenon DEF Torn
      <4> QED
        BY <4>1
    <3>2. CASE lock[h] # Free
      <4>1. PICK c \in parts(Earliest(rest[lock[h]])) : file'[h] = Append(file[h], c)
        BY <1>1, <1>3, <3>2, Zenon DEF Torn
      <4>2. c = [rec |-> c.rec, kind |-> c.kind] /\ c.rec \in Earliest(rest[lock[h]])
            /\ c.kind \in {"open", "cut"}
        OBVIOUS
      <4> QED
        BY <3>2, <4>1, <4>2, Zenon
    <3> QED
      BY <3>1, <3>2
  <2>2. lock[h] \in Savers /\ pc[lock[h]] = "write"
    BY <2>1 DEF RepoInv, RepoTypeOK, LockInv, Writing
  <2>3. pc'[lock[h]] = "failed"
    BY <2>2 DEF CallsDie
  <2> QED
    BY <1>1, <2>1, <2>3 DEF Extends
<1> QED
  BY <1>2, <1>3

\* The end of the process keeps the invariant: the calls it cuts short count as
\* failed, and each leaves at most part of one line.
LEMMA CallsDieKeeps ==
    ASSUME RepoInv, CallsDie
    PROVE  RepoInv' /\ RepoStep
<1>1. RepoStep
  <2>1. \A s \in Savers : pc[s] = "failed" => pc'[s] = "failed"
    BY DEF CallsDie
  <2> QED
    BY <2>1, TornFiles DEF RepoStep
<1>2. \A s \in Savers :
         /\ pc'[s] = IF pc[s] \in {"group", "lock", "write"} THEN "failed" ELSE pc[s]
         /\ todo'[s] = {} /\ path'[s] = {} /\ rest'[s] = {}
  BY DEF CallsDie
<1>3. \A h \in Hours : lock'[h] = Free
  BY DEF CallsDie
<1>4. RepoTypeOK'
  <2>1. \A h \in Hours : file'[h] \in Seq(Chunk)
    <3> SUFFICES ASSUME NEW h \in Hours
                 PROVE  file'[h] \in Seq(Chunk)
      OBVIOUS
    <3>1. CASE file'[h] = file[h]
      BY <3>1 DEF RepoInv, RepoTypeOK
    <3>2. CASE file'[h] # file[h]
      <4>1. \E s \in Savers, kind \in {"line", "open", "cut"} :
               \E r \in Group(s, h) : Grown(h, s, r, kind)
        BY <1>1, <3>2, Growth DEF RepoStep
      <4> QED
        BY <4>1 DEF Grown
    <3> QED
      BY <3>1, <3>2
  <2>2. file' \in [Hours -> Seq(Chunk)]
    <3>1. file' \in [Hours -> UNION {Torn(h) : h \in Hours}]
      BY DEF CallsDie
    <3> QED
      BY <2>1, <3>1
  <2>3. pc' \in [Savers -> {"idle", "group", "lock", "write", "ok", "failed"}]
    BY DEF CallsDie, RepoInv, RepoTypeOK
  <2>4. /\ todo' \in [Savers -> SUBSET Hours] /\ path' \in [Savers -> SUBSET Hours]
        /\ rest' \in [Savers -> SUBSET Record]
        /\ lock' \in [Hours -> Savers \cup {Free}] /\ exists' \subseteq Hours
    BY DEF CallsDie, RepoInv, RepoTypeOK
  <2> QED
    BY <2>2, <2>3, <2>4 DEF RepoTypeOK
<1>5. CallInv'
  BY <1>2 DEF CallInv, CallOK
<1>6. LockInv'
  BY <1>2, <1>3 DEF LockInv, Writing
<1>7. ProgressInv'
  <2> SUFFICES ASSUME NEW s \in Savers, NEW h \in Hours
               PROVE  Progress(s, h)'
    BY DEF ProgressInv
  <2>1. /\ Progress(s, h) /\ CallOK(s)
        /\ pc[s] \in {"idle", "group", "lock", "write", "ok", "failed"}
    BY DEF RepoInv, ProgressInv, CallInv, RepoTypeOK
  <2>2. /\ WroteAll(s, h) => WroteAll(s, h)'
        /\ WroteNothing(s, h) /\ ~Writing(s, h) => WroteNothing(s, h)'
    BY <1>1, FilesGrow
  <2>3. pc'[s] = "idle" => WroteNothing(s, h)'
    BY <1>2, <2>1, <2>2 DEF Progress, Writing
  <2>4. pc'[s] = "ok" => WroteAll(s, h)'
    BY <1>2, <2>1, <2>2 DEF Progress, CallOK
  <2> QED
    BY <1>2, <2>1, <2>3, <2>4 DEF Progress, Writing
<1>8. GroupsContiguous' /\ FileHoldsPrefix' /\ TornInv'
  BY <1>1, ContiguousKept, PrefixKept, TornKept
<1> QED
  BY <1>1, <1>4, <1>5, <1>6, <1>7, <1>8 DEF RepoInv

\* No call has started and no file exists.
LEMMA RepoInitially ==
    ASSUME RepoInit
    PROVE  RepoInv
<1>1. RepoTypeOK
  BY DEF RepoInit, RepoTypeOK
<1>2. CallInv /\ LockInv
  BY DEF RepoInit, CallInv, CallOK, LockInv, Writing
<1>3. /\ \A h \in Hours : file[h] = <<>>
      /\ \A s \in Savers : pc[s] = "idle" /\ todo[s] = {}
  BY DEF RepoInit
<1>4. \A h \in Hours : Range(file[h]) = {} /\ DOMAIN file[h] = {}
  BY <1>3 DEF Range
<1>5. ProgressInv
  BY <1>3, <1>4 DEF ProgressInv, Progress, Writing, WroteNothing
<1>6. TornInv /\ GroupsContiguous /\ FileHoldsPrefix
  BY <1>4 DEF TornInv, GroupsContiguous, FileHoldsPrefix
<1> QED
  BY <1>1, <1>2, <1>5, <1>6 DEF RepoInv

\* A step that leaves the repository alone keeps the invariant.
LEMMA RepoStutter ==
    ASSUME RepoInv, UNCHANGED repoVars
    PROVE  RepoInv' /\ RepoStep
<1>1. /\ pc' = pc /\ todo' = todo /\ path' = path /\ rest' = rest
      /\ lock' = lock /\ exists' = exists /\ file' = file
  BY DEF repoVars
<1>2. RepoTypeOK' /\ CallInv' /\ LockInv'
  BY <1>1 DEF RepoInv, RepoTypeOK, CallInv, CallOK, LockInv, Writing
<1>3. ProgressInv'
  <2> SUFFICES ASSUME NEW s \in Savers, NEW h \in Hours
               PROVE  Progress(s, h)'
    BY DEF ProgressInv
  <2>1. Progress(s, h)
    BY DEF RepoInv, ProgressInv
  <2> QED
    BY <1>1, <2>1 DEF Progress, Writing, WroteNothing, WroteAll, Writer
<1>4. RepoStep
  BY <1>1 DEF RepoStep, Extends
<1>5. GroupsContiguous' /\ FileHoldsPrefix' /\ TornInv'
  BY <1>4, ContiguousKept, PrefixKept, TornKept
<1> QED
  BY <1>2, <1>3, <1>4, <1>5 DEF RepoInv

=============================================================================
