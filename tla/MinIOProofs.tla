----------------------------- MODULE MinIOProofs -----------------------------
(***************************************************************************)
(* Theorems about MinIO, for any replicas, calls, batches and objects      *)
(* found in the bucket.                                                    *)
(*                                                                         *)
(* A key names its writer, a process of a replica, and the writer's        *)
(* sequence number.  No process made the keys of another and none makes a  *)
(* key twice, so a put never meets an object: from that follows where a    *)
(* call's records are, and that what the aggregation counts stays there.   *)
(***************************************************************************)
EXTENDS MinIO, TLAPS

\* The number n of writer w has been given out.
GivenOut(w, n) ==
    \/ w[2] < writerID[w[1]][2]
    \/ w[2] = writerID[w[1]][2] /\ n <= objectSeq[w[1]]

\* A process has its replica's name in its writer ID, and every shard in the
\* bucket has a number that was given out.
WriterInv ==
    /\ \A p \in Replicas : writerID[p][1] = p
    /\ \A k \in DOMAIN objects : Len(k.stem) = 3 => GivenOut(k.stem[2], k.stem[3])

\* The key of a call that is putting: of its process and of the hour the call is
\* at, given out, not in the bucket, and no other call's.
KeyOK(s) ==
    /\ pc[s] # "put" => key[s] = {}
    /\ \A k \in key[s] :
          /\ key[s] = {k}
          /\ \E h \in Hours, n \in Nat :
                /\ Earliest(h, todo[s])
                /\ k = ShardKey(h, writerID[ReplicaOf[s]], n)
                /\ n <= objectSeq[ReplicaOf[s]]
          /\ k \notin DOMAIN objects
          /\ \A t \in Savers \ {s} : k \notin key[t]

KeyInv == \A s \in Savers : KeyOK(s)

\* The objects that hold record r.
Holders(r) == {o \in DOMAIN objects : r \in objects[o].recs}

\* A record of a call is in one object, under its hour's prefix, once the call
\* has done the hour, and in none before.
StoredOK(s) ==
    /\ pc[s] = "ok" => todo[s] = {}
    /\ \A r \in RecordsOf(s) :
          /\ \A o \in Holders(r) :
                o.dirs = <<Other, Date, HourOf(r)>> /\ Holders(r) = {o}
          /\ HourOf(r) \in todo[s] => Holders(r) = {}
          /\ pc[s] # "failed" /\ HourOf(r) \notin todo[s] => Holders(r) # {}

StoredInv == \A s \in Savers : StoredOK(s)

\* What lies where an hour's logs lie holds records of that hour.
HourInv ==
    \A k \in DOMAIN objects : \A h \in Hours : LogOf(k, h) =>
        \A r \in objects[k].recs : HourOf(r) = h

\* Record r is one of hour h and in the bucket.
Counts(r, h) == HourOf(r) = h /\ Holders(r) # {}

\* What the pass has counted, and what the summaries hold.
CountedInv ==
    apc \in {"write", "fill"} =>
        \A h \in Hours : Visits(h) => \A r \in counted : Counts(r, h)
SummaryInv == \A h \in Hours : \A r \in summary[h].recs : Counts(r, h)

\* The types of the state of SaveBatch and of that of the aggregation.
Stored == [recs : SUBSET Record, mtime : Int]
SaveTypes ==
    /\ pc \in [Savers -> {"next", "put", "ok", "failed"}]
    /\ todo \in [Savers -> SUBSET Hours]
    /\ key \in [Savers -> SUBSET Key]
    /\ DOMAIN objects \subseteq Key /\ objects \in [DOMAIN objects -> Stored]
    /\ writerID \in [Replicas -> Replicas \X Nat]
    /\ objectSeq \in [Replicas -> Nat]
PassTypes ==
    /\ apc \in {"wait", "list", "walk", "write", "fill"}
    /\ listed \subseteq DOMAIN objects /\ visit \subseteq Hours
    /\ counted \subseteq Record
    /\ summary \in [Hours -> Summary]
ClockTypes == now \in 1 .. MaxTime /\ faults \in 0 .. MaxFaults

SaveInv == SaveTypes /\ WriterInv /\ KeyInv /\ StoredInv /\ HourInv
PassInv == PassTypes /\ CountedInv /\ SummaryInv
BucketInv == SaveInv /\ PassInv /\ ClockTypes

-----------------------------------------------------------------------------
\* Keys and records.

\* What is assumed of the bounds and of the calls.
LEMMA Bounds ==
    Hours \subseteq Nat /\ Skew \in Int /\ MaxTime \in Nat \ {0} /\ MaxFaults \in Nat
BY MinIOAssumption

LEMMA Callers ==
    (\A s \in Savers : ReplicaOf[s] \in Replicas) /\ Found \cap Savers = {}
BY MinIOAssumption

\* What a shard's key says.
LEMMA ShardKeys ==
    ASSUME NEW h \in Hours, NEW w \in Writer, NEW n \in Nat
    PROVE  /\ ShardKey(h, w, n) \in Key
           /\ ShardKey(h, w, n).dirs = <<Other, Date, h>>
           /\ ShardKey(h, w, n).dirs[3] = h
           /\ Len(ShardKey(h, w, n).stem) = 3
           /\ ShardKey(h, w, n).stem[2] = w /\ ShardKey(h, w, n).stem[3] = n
           /\ \A g \in Hours : LogOf(ShardKey(h, w, n), g) => g = h
<1> DEFINE k == ShardKey(h, w, n)
<1>1. k.dirs = <<Other, Date, h>> /\ k.stem = <<Other, w, n>> /\ k.log
  BY DEF ShardKey
<1>2. k \in Key
  <2>1. <<Other, Date, h>> \in Seq(Hours \cup {Date, Other})
    OBVIOUS
  <2>2. <<Other, w, n>> \in {Other} \X Writer \X Nat
    OBVIOUS
  <2> QED
    BY <2>1, <2>2 DEF ShardKey, Key
<1>3. h # Date
  BY Bounds DEF Date
<1> HIDE DEF k
<1>4. Len(k.dirs) = 3 /\ k.dirs[3] = h
  BY <1>1
<1>5. Len(k.stem) = 3 /\ k.stem[2] = w /\ k.stem[3] = n
  BY <1>1
<1>6. \A g \in Hours : LogOf(k, g) => g = h
  BY <1>3, <1>4 DEF LogOf
<1> QED
  BY <1>1, <1>2, <1>4, <1>5, <1>6 DEF k

LEMMA ShardParts ==
    ASSUME NEW h \in Hours, NEW w \in Writer, NEW n \in Nat,
           NEW k, k = ShardKey(h, w, n)
    PROVE  k \in Key /\ Len(k.stem) = 3 /\ k.stem[2] = w /\ k.stem[3] = n
BY ShardKeys

\* A name of three parts is a writer's.
LEMMA StemParts ==
    ASSUME NEW k \in Key, Len(k.stem) = 3
    PROVE  k.stem[2] \in Writer /\ k.stem[2][1] \in Replicas /\ k.stem[3] \in Nat
<1>1. k.stem \in {Other} \X Writer \X Nat
  <2>1. k.stem \in {<<t>> : t \in Hours \cup {Other}} \cup ({Other} \X Writer \X Nat)
    BY DEF Key
  <2>2. \A t : Len(<<t>>) = 1
    OBVIOUS
  <2>3. k.stem \notin {<<t>> : t \in Hours \cup {Other}}
    BY <2>2
  <2> QED
    BY <2>1, <2>3
<1>2. k.stem[2] \in Writer /\ k.stem[3] \in Nat
  BY <1>1
<1> QED
  BY <1>2 DEF Writer

\* A record is told by the call or found object it came in.
LEMMA RecordFacts ==
    /\ \A s \in Savers \cup Found : RecordsOf(s) \subseteq Record
    /\ \A s : \A r \in RecordsOf(s) : r[1] = s
    /\ \A s \in Savers : \A r \in RecordsOf(s) : HourOf(r) \in GroupRecords(s)
    /\ \A s \in Savers : GroupRecords(s) \subseteq Hours
    /\ \A f \in Found : \A r \in RecordsOf(f) :
          \E i \in DOMAIN FoundHours[f] : HourOf(r) = FoundHours[f][i]
<1>1. \A s \in Savers \cup Found : RecordsOf(s) \subseteq Record
  BY DEF Record
<1>2. \A s : \A r \in RecordsOf(s) : r[1] = s /\ r[2] \in DOMAIN HoursIn(s)
  BY DEF RecordsOf
<1>3. \A s \in Savers : HoursIn(s) = BatchOf[s] /\ BatchOf[s] \in Seq(Hours)
  BY MinIOAssumption DEF HoursIn
<1>4. \A s \in Savers : GroupRecords(s) \subseteq Hours
  BY <1>3 DEF GroupRecords, Range
<1>5. \A s \in Savers : \A r \in RecordsOf(s) : HourOf(r) \in GroupRecords(s)
  BY <1>2, <1>3 DEF GroupRecords, Range, HourOf
<1>6. \A f \in Found : \A r \in RecordsOf(f) :
          \E i \in DOMAIN FoundHours[f] : HourOf(r) = FoundHours[f][i]
  BY <1>2 DEF HourOf, HoursIn
<1> QED
  BY <1>1, <1>2, <1>4, <1>5, <1>6

\* parseHourFromObjectKey finds the hour of what lies where an hour's logs lie.
LEMMA ParsedHours ==
    ASSUME NEW k \in Key
    PROVE  /\ parseHourFromObjectKey(k) \in Hours \cup {NoHour}
           /\ \A h \in Hours : parseHourFromObjectKey(k) = h => LogOf(k, h)
<1> DEFINE n == Len(k.dirs)
<1>1. /\ k.dirs \in Seq(Hours \cup {Date, Other}) /\ n \in Nat
      /\ \A i \in 1 .. n : k.dirs[i] \in Hours \cup {Date, Other}
      /\ k.log \in BOOLEAN
  BY DEF Key
<1>2. /\ Head(k.stem) \in Hours \cup {Other}
      /\ Head(k.stem) \in Hours => k.stem = <<Head(k.stem)>>
  <2>1. CASE k.stem \in {<<t>> : t \in Hours \cup {Other}}
    BY <2>1
  <2>2. CASE k.stem \in {Other} \X Writer \X Nat
    <3>1. Head(k.stem) = Other
      BY <2>2
    <3> QED
      BY <3>1, MinIOAssumption DEF Other
  <2> QED
    BY <2>1, <2>2 DEF Key
<1>3. \A d, t \in Hours \cup {Date, Other} :
         /\ parseHourParts(d, t) \in Hours \cup {NoHour}
         /\ parseHourParts(d, t) \in Hours => d = Date /\ t = parseHourParts(d, t)
  BY MinIOAssumption DEF parseHourParts, Date, Other, NoHour
<1>4. NoHour \notin Hours
  BY MinIOAssumption DEF NoHour
<1> HIDE DEF n
<1>5. CASE n < 1 \/ ~k.log
  BY <1>4, <1>5 DEF parseHourFromObjectKey, n
<1>6. CASE n >= 1 /\ k.log
  <2> DEFINE old == parseHourParts(k.dirs[n], Head(k.stem))
             new == parseHourParts(k.dirs[n - 1], k.dirs[n])
  <2>1. k.dirs[n] \in Hours \cup {Date, Other}
    BY <1>1, <1>6
  <2>2. /\ old \in Hours \cup {NoHour}
        /\ old \in Hours => k.dirs[n] = Date /\ Head(k.stem) = old
    BY <1>2, <1>3, <2>1
  <2>3. \A h \in Hours : old = h => LogOf(k, h)
    BY <1>2, <1>6, <2>2 DEF LogOf, n
  <2>4. CASE n >= 2
    <3>1. k.dirs[n - 1] \in Hours \cup {Date, Other}
      BY <1>1, <2>4
    <3>2. /\ new \in Hours \cup {NoHour}
          /\ new \in Hours => k.dirs[n - 1] = Date /\ k.dirs[n] = new
      BY <1>3, <2>1, <3>1
    <3>3. \A h \in Hours : new = h => LogOf(k, h)
      BY <1>6, <2>4, <3>2 DEF LogOf, n
    <3>4. parseHourFromObjectKey(k) \in {new, old}
      BY <1>1, <1>6, <2>4 DEF parseHourFromObjectKey, n
    <3> QED
      BY <2>2, <2>3, <3>2, <3>3, <3>4
  <2>5. CASE n < 2
    <3>1. parseHourFromObjectKey(k) = old
      BY <1>1, <1>6, <2>5 DEF parseHourFromObjectKey, n
    <3> QED
      BY <2>2, <2>3, <3>1
  <2> QED
    BY <1>1, <2>4, <2>5
<1> QED
  BY <1>1, <1>5, <1>6

-----------------------------------------------------------------------------
\* The bucket.

\* What is in the bucket stays there as it is.
Grows ==
    \A k \in DOMAIN objects : k \in DOMAIN objects' /\ objects'[k] = objects[k]

\* Call s has put its records of hour h, under a key the bucket did not have.
Added(s, h, k) ==
    /\ k \in Key /\ k \notin DOMAIN objects
    /\ k.dirs = <<Other, Date, h>>
    /\ \A g \in Hours : LogOf(k, g) => g = h
    /\ Len(k.stem) = 3 => GivenOut(k.stem[2], k.stem[3])
    /\ DOMAIN objects' = DOMAIN objects \cup {k}
    /\ \A o \in DOMAIN objects : objects'[o] = objects[o]
    /\ objects'[k].recs = {r \in RecordsOf(s) : HourOf(r) = h}
    /\ objects' \in [DOMAIN objects' -> Stored]

LEMMA PutAdds ==
    ASSUME SaveInv, ClockTypes, NEW s \in Savers, NEW h \in Hours, NEW k \in key[s],
           Earliest(h, todo[s]), Put(s, h, k)
    PROVE  Added(s, h, k)
<1>0. SaveTypes /\ KeyOK(s)
  BY DEF SaveInv, KeyInv
<1> DEFINE p == ReplicaOf[s]
<1>1. p \in Replicas
  BY Callers
<1>2. PICK g \in Hours, n \in Nat : /\ Earliest(g, todo[s])
                                    /\ k = ShardKey(g, writerID[p], n)
                                    /\ n <= objectSeq[p]
  BY <1>0 DEF KeyOK
<1>3. g = h
  BY <1>2, Bounds DEF Earliest
<1>4. writerID[p] \in Writer /\ writerID[p][1] = p
  BY <1>0, <1>1 DEF SaveTypes, Writer, SaveInv, WriterInv
<1>5. /\ k \in Key /\ k.dirs = <<Other, Date, h>>
      /\ \A f \in Hours : LogOf(k, f) => f = h
      /\ k.stem[2] = writerID[p] /\ k.stem[3] = n
  BY <1>2, <1>3, <1>4, ShardKeys
<1>6. GivenOut(k.stem[2], k.stem[3])
  BY <1>2, <1>4, <1>5 DEF GivenOut
<1>7. k \notin DOMAIN objects
  BY <1>0 DEF KeyOK
<1>8. /\ DOMAIN objects' = DOMAIN objects \cup {k}
      /\ \A o \in DOMAIN objects : objects'[o] = objects[o]
      /\ objects'[k] = [recs |-> {r \in RecordsOf(s) : HourOf(r) = h},
                        mtime |-> now + Skew]
  BY <1>7 DEF Put
<1>9. objects'[k] \in Stored
  <2>1. RecordsOf(s) \subseteq Record
    BY RecordFacts
  <2>2. now + Skew \in Int
    BY Bounds DEF ClockTypes
  <2> QED
    BY <1>8, <2>1, <2>2 DEF Stored
<1>10. objects' \in [DOMAIN objects' -> Stored]
  <2>1. objects' = [o \in DOMAIN objects' |-> objects'[o]]
    BY DEF Put
  <2>2. \A o \in DOMAIN objects' : objects'[o] \in Stored
    BY <1>0, <1>8, <1>9 DEF SaveTypes
  <2> QED
    BY <2>1, <2>2
<1>11. objects'[k].recs = {r \in RecordsOf(s) : HourOf(r) = h}
  BY <1>8
<1> QED
  BY <1>5, <1>6, <1>7, <1>8, <1>10, <1>11 DEF Added

\* Who holds a record when the bucket has grown.
LEMMA HoldersAfter ==
    ASSUME NEW s \in Savers, NEW h, NEW k, Added(s, h, k), NEW r
    PROVE  /\ r \in RecordsOf(s) /\ HourOf(r) = h => Holders(r)' = Holders(r) \cup {k}
           /\ ~(r \in RecordsOf(s) /\ HourOf(r) = h) => Holders(r)' = Holders(r)
  BY DEF Added, Holders

LEMMA AddedGrows ==
    ASSUME NEW s, NEW h, NEW k, Added(s, h, k)
    PROVE  Grows
  BY DEF Added, Grows

\* A put leaves what other calls have stored.
LEMMA OthersStored ==
    ASSUME SaveInv, NEW s \in Savers, NEW h, NEW k, Added(s, h, k),
           NEW t \in Savers \ {s}, pc'[t] = pc[t], todo'[t] = todo[t]
    PROVE  StoredOK(t)'
<1>1. \A r \in RecordsOf(t) : r \notin RecordsOf(s)
  BY RecordFacts
<1>2. \A r \in RecordsOf(t) : Holders(r)' = Holders(r)
  BY <1>1, HoldersAfter
<1>3. StoredOK(t)
  BY DEF SaveInv, StoredInv
<1> QED
  BY <1>2, <1>3 DEF StoredOK

\* What a put does to the records of its call: the hour it wrote is done.
LEMMA OwnStored ==
    ASSUME SaveInv, NEW s \in Savers, NEW h \in Hours, NEW k, Added(s, h, k),
           h \in todo[s], todo'[s] = todo[s] \ {h} \/ todo'[s] = {},
           pc[s] # "failed",
           pc'[s] = "ok" => todo'[s] = {},
           pc'[s] # "failed" => todo'[s] = todo[s] \ {h}
    PROVE  StoredOK(s)'
<1>1. StoredOK(s)
  BY DEF SaveInv, StoredInv
<1> SUFFICES ASSUME NEW r \in RecordsOf(s)
             PROVE  /\ \A o \in Holders(r)' :
                          o.dirs = <<Other, Date, HourOf(r)>> /\ Holders(r)' = {o}
                    /\ HourOf(r) \in todo'[s] => Holders(r)' = {}
                    /\ pc'[s] # "failed" /\ HourOf(r) \notin todo'[s] => Holders(r)' # {}
  BY DEF StoredOK
<1>2. CASE HourOf(r) = h
  <2>1. Holders(r)' = {k}
    BY <1>1, <1>2, HoldersAfter DEF StoredOK
  <2>2. k.dirs = <<Other, Date, HourOf(r)>>
    BY <1>2 DEF Added
  <2> QED
    BY <1>2, <2>1, <2>2
<1>3. CASE HourOf(r) # h
  <2>1. Holders(r)' = Holders(r)
    BY <1>3, HoldersAfter
  <2> QED
    BY <1>1, <1>3, <2>1 DEF StoredOK
<1> QED
  BY <1>2, <1>3

\* A put keeps the hours apart.
LEMMA HoursKept ==
    ASSUME SaveInv, NEW s \in Savers, NEW h \in Hours, NEW k, Added(s, h, k)
    PROVE  HourInv'
<1> SUFFICES ASSUME NEW o \in DOMAIN objects', NEW g \in Hours, LogOf(o, g),
                    NEW r \in objects'[o].recs
             PROVE  HourOf(r) = g
  BY DEF HourInv
<1>1. CASE o = k
  BY <1>1 DEF Added
<1>2. CASE o \in DOMAIN objects
  BY <1>2 DEF Added, SaveInv, HourInv
<1> QED
  BY <1>1, <1>2 DEF Added

-----------------------------------------------------------------------------
\* SaveBatch.

\* A step leaves the locals of call t alone.
Same(t) == pc'[t] = pc[t] /\ todo'[t] = todo[t] /\ key'[t] = key[t]

\* The key of a call that takes no step stays good while its process goes on.
LEMMA KeyStays ==
    ASSUME SaveInv, SaveTypes', NEW t \in Savers, Same(t),
           writerID'[ReplicaOf[t]] = writerID[ReplicaOf[t]],
           objectSeq[ReplicaOf[t]] <= objectSeq'[ReplicaOf[t]],
           \A k \in key[t] : k \notin DOMAIN objects',
           \A k \in key[t] : \A u \in Savers \ {t} : k \notin key'[u]
    PROVE  KeyOK(t)'
<1>1. KeyOK(t) /\ ReplicaOf[t] \in Replicas
  BY Callers DEF SaveInv, KeyInv
<1>2. ASSUME NEW k \in key[t]
      PROVE  \E h \in Hours, n \in Nat :
                /\ Earliest(h, todo'[t])
                /\ k = ShardKey(h, writerID'[ReplicaOf[t]], n)
                /\ n <= objectSeq'[ReplicaOf[t]]
  <2>1. PICK h \in Hours, n \in Nat :
                /\ Earliest(h, todo[t])
                /\ k = ShardKey(h, writerID[ReplicaOf[t]], n)
                /\ n <= objectSeq[ReplicaOf[t]]
    BY <1>1 DEF KeyOK
  <2>2. n <= objectSeq'[ReplicaOf[t]]
    BY <1>1, <2>1 DEF SaveInv, SaveTypes
  <2> QED
    BY <2>1, <2>2 DEF Same
<1> QED
  BY <1>1, <1>2 DEF KeyOK, Same

\* Whose key a call holds.
LEMMA KeyParts ==
    ASSUME SaveInv, NEW t \in Savers, NEW k \in key[t]
    PROVE  \E q \in Replicas : k.stem[2] = writerID[q] /\ k.stem[3] <= objectSeq[q]
<1> DEFINE q == ReplicaOf[t]
<1>1. q \in Replicas
  BY Callers
<1>2. PICK g \in Hours, m \in Nat : k = ShardKey(g, writerID[q], m) /\ m <= objectSeq[q]
  BY DEF SaveInv, KeyInv, KeyOK
<1>3. writerID[q] \in Writer
  BY <1>1 DEF SaveInv, SaveTypes, Writer
<1>4. k.stem[2] = writerID[q] /\ k.stem[3] = m
  BY <1>2, <1>3, ShardParts
<1> QED
  BY <1>1, <1>2, <1>4

\* What the bucket holds was given out, whatever is given out after it.
LEMMA WritersKept ==
    ASSUME SaveInv, SaveTypes', writerID' = writerID,
           \A p \in Replicas : objectSeq[p] <= objectSeq'[p],
           \A k \in DOMAIN objects' : k \in DOMAIN objects
              \/ (Len(k.stem) = 3 => GivenOut(k.stem[2], k.stem[3]))
    PROVE  WriterInv'
<1> SUFFICES ASSUME NEW k \in DOMAIN objects', Len(k.stem) = 3
             PROVE  GivenOut(k.stem[2], k.stem[3])'
  BY DEF SaveInv, WriterInv
<1>1. GivenOut(k.stem[2], k.stem[3])
  BY DEF SaveInv, WriterInv
<1>2. k.stem[2][1] \in Replicas /\ k.stem[3] \in Nat
  <2>1. k \in Key
    BY DEF SaveTypes
  <2> QED
    BY <2>1, StemParts
<1>3. PICK w, n : w = k.stem[2] /\ n = k.stem[3]
  OBVIOUS
<1>4. /\ n \in Nat /\ objectSeq[w[1]] \in Nat /\ objectSeq'[w[1]] \in Nat
      /\ objectSeq[w[1]] <= objectSeq'[w[1]]
  BY <1>2, <1>3 DEF SaveInv, SaveTypes
<1>5. GivenOut(w, n)
  BY <1>1, <1>3
<1>6. GivenOut(w, n)'
  BY <1>4, <1>5 DEF GivenOut
<1> QED
  BY <1>3, <1>6

\* Nothing is stored.
LEMMA StoredKept ==
    ASSUME SaveInv, objects' = objects,
           \A t \in Savers :
              \/ pc'[t] = "failed" /\ todo'[t] = {}
              \/ todo'[t] = todo[t] /\ pc'[t] = pc[t]
              \/ todo'[t] = todo[t] /\ pc[t] = "next" /\ pc'[t] = "put"
    PROVE  StoredInv' /\ HourInv' /\ Grows
<1>1. \A r : Holders(r)' = Holders(r)
  BY DEF Holders
<1>2. ASSUME NEW t \in Savers
      PROVE  StoredOK(t)'
  <2>1. StoredOK(t)
    BY DEF SaveInv, StoredInv
  <2> QED
    BY <1>1, <2>1 DEF StoredOK
<1>3. HourInv' /\ Grows
  BY DEF SaveInv, HourInv, Grows
<1> QED
  BY <1>2, <1>3 DEF StoredInv

LEMMA NewKeyStep ==
    ASSUME BucketInv, NEW s \in Savers, NEW h \in Hours, NewShardObjectKey(s, h)
    PROVE  SaveInv' /\ Grows
<1> DEFINE p == ReplicaOf[s]
           n == objectSeq[p] + 1
           k == ShardKey(h, writerID[p], n)
<1>0. SaveInv /\ SaveTypes /\ KeyInv /\ p \in Replicas
  BY Callers DEF BucketInv, SaveInv
<1>1. /\ pc[s] = "next" /\ Earliest(h, todo[s])
      /\ todo' = todo /\ writerID' = writerID /\ objects' = objects
      /\ objectSeq' = [objectSeq EXCEPT ![p] = @ + 1]
      /\ key' = [key EXCEPT ![s] = {k}] /\ pc' = [pc EXCEPT ![s] = "put"]
  BY DEF NewShardObjectKey, Goto
<1>2. /\ pc'[s] = "put" /\ todo'[s] = todo[s] /\ key'[s] = {k}
      /\ \A t \in Savers \ {s} : Same(t)
      /\ objectSeq'[p] = n /\ \A q \in Replicas \ {p} : objectSeq'[q] = objectSeq[q]
  BY <1>0, <1>1 DEF SaveTypes, Same
<1>3. n \in Nat /\ objectSeq[p] \in Nat /\ writerID[p] \in Writer
  BY <1>0 DEF SaveTypes, Writer
<1> HIDE DEF k, n
<1>4. /\ k \in Key /\ Len(k.stem) = 3 /\ k.stem[2] = writerID[p] /\ k.stem[3] = n
  <2>1. k = ShardKey(h, writerID[p], n)
    BY DEF k
  <2> QED
    BY <1>3, <2>1, ShardParts
<1>5. SaveTypes'
  BY <1>0, <1>1, <1>4 DEF SaveTypes
<1>6. \A q \in Replicas : objectSeq[q] <= objectSeq'[q]
  BY <1>0, <1>2, <1>3 DEF SaveTypes, n
<1>7. WriterInv'
  BY <1>0, <1>1, <1>5, <1>6, WritersKept
<1>8. StoredInv' /\ HourInv' /\ Grows
  BY <1>0, <1>1, <1>2, StoredKept DEF Same
<1>9. k \notin DOMAIN objects
  <2>1. ~GivenOut(writerID[p], n)
    <3>1. writerID[p][1] = p /\ writerID[p][2] \in Nat
      BY <1>0 DEF SaveTypes, SaveInv, WriterInv
    <3> QED
      BY <1>3, <3>1 DEF GivenOut, n
  <2> QED
    BY <1>0, <1>4, <2>1 DEF SaveInv, WriterInv
<1>10. \A t \in Savers \ {s} : k \notin key[t]
  <2> SUFFICES ASSUME NEW t \in Savers \ {s}, k \in key[t]
               PROVE  FALSE
    OBVIOUS
  <2>1. PICK q \in Replicas : k.stem[2] = writerID[q] /\ k.stem[3] <= objectSeq[q]
    BY <1>0, KeyParts
  <2>2. writerID[q][1] = q /\ writerID[p][1] = p
    BY <1>0, <2>1 DEF SaveInv, WriterInv
  <2>3. p = q
    BY <1>4, <2>1, <2>2
  <2> QED
    BY <1>3, <1>4, <2>1, <2>3 DEF n
<1>11. KeyOK(s)'
  <2>1. \A t \in Savers \ {s} : key'[t] = key[t]
    BY <1>2 DEF Same
  <2>2. \E g \in Hours, m \in Nat : /\ Earliest(g, todo'[s])
                                    /\ k = ShardKey(g, writerID'[p], m)
                                    /\ m <= objectSeq'[p]
    <3>1. n <= objectSeq'[p]
      BY <1>2, <1>3
    <3>2. Earliest(h, todo'[s]) /\ k = ShardKey(h, writerID'[p], n)
      BY <1>1, <1>2 DEF k
    <3> QED
      BY <1>3, <3>1, <3>2, Zenon
  <2> QED
    BY <1>1, <1>2, <1>9, <1>10, <2>1, <2>2 DEF KeyOK
<1>12. ASSUME NEW t \in Savers \ {s}
       PROVE  KeyOK(t)'
  <2>1. /\ \A o \in key[t] : o \notin DOMAIN objects'
        /\ \A o \in key[t] : \A u \in Savers \ {t} : o \notin key[u]
    BY <1>0, <1>1 DEF KeyInv, KeyOK
  <2>2. \A o \in key[t] : \A u \in Savers \ {t} : o \notin key'[u]
    <3> SUFFICES ASSUME NEW o \in key[t], NEW u \in Savers \ {t}
                 PROVE  o \notin key'[u]
      OBVIOUS
    <3>1. CASE u = s
      BY <1>2, <1>10, <3>1
    <3>2. CASE u # s
      BY <1>2, <2>1, <3>2 DEF Same
    <3> QED
      BY <3>1, <3>2
  <2>3. ReplicaOf[t] \in Replicas
    BY Callers
  <2> QED
    BY <1>0, <1>1, <1>2, <1>5, <1>6, <2>1, <2>2, <2>3, KeyStays
<1>13. KeyInv'
  BY <1>11, <1>12 DEF KeyInv
<1> QED
  BY <1>5, <1>7, <1>8, <1>13 DEF SaveInv

\* The keys of the other calls when call s has put its own, or given it up.
LEMMA OtherKeysStay ==
    ASSUME SaveInv, SaveTypes', NEW s \in Savers, key'[s] = {}, pc'[s] # "put",
           \A t \in Savers \ {s} : Same(t),
           writerID' = writerID, objectSeq' = objectSeq,
           \A o \in DOMAIN objects' : o \in DOMAIN objects \/ o \in key[s]
    PROVE  KeyInv'
<1>1. \A p \in Replicas : objectSeq[p] <= objectSeq'[p]
  BY DEF SaveInv, SaveTypes
<1>2. ASSUME NEW t \in Savers \ {s}
      PROVE  KeyOK(t)'
  <2>1. KeyOK(t)
    BY DEF SaveInv, KeyInv
  <2>2. \A o \in key[t] : o \notin DOMAIN objects'
    BY <2>1 DEF KeyOK
  <2>3. \A u \in Savers : key'[u] = {} \/ key'[u] = key[u]
    BY DEF Same
  <2>4. \A o \in key[t] : \A u \in Savers \ {t} : o \notin key'[u]
    BY <2>1, <2>3 DEF KeyOK
  <2>5. ReplicaOf[t] \in Replicas
    BY Callers
  <2> QED
    BY <1>1, <2>2, <2>4, <2>5, KeyStays
<1>3. KeyOK(s)'
  BY DEF KeyOK
<1> QED
  BY <1>2, <1>3 DEF KeyInv

\* PutObject stores the hour's records, whatever SaveBatch makes of its answer.
LEMMA PutStep ==
    ASSUME SaveInv, ClockTypes, NEW s \in Savers, NEW h \in Hours, NEW k \in key[s],
           pc[s] = "put", Earliest(h, todo[s]), Put(s, h, k), key'[s] = {},
           \A t \in Savers \ {s} : Same(t),
           writerID' = writerID, objectSeq' = objectSeq,
           pc' \in [Savers -> {"next", "put", "ok", "failed"}],
           todo' \in [Savers -> SUBSET Hours], key' \in [Savers -> SUBSET Key],
           \/ pc'[s] = "failed" /\ todo'[s] = {}
           \/ pc'[s] = "ok" /\ todo'[s] = todo[s] \ {h} /\ todo[s] = {h}
           \/ pc'[s] = "next" /\ todo'[s] = todo[s] \ {h}
    PROVE  SaveInv' /\ Grows
<1>1. Added(s, h, k)
  BY PutAdds
<1>2. SaveTypes'
  <2>1. DOMAIN objects' \subseteq Key /\ objects' \in [DOMAIN objects' -> Stored]
    BY <1>1 DEF Added, SaveInv, SaveTypes
  <2> QED
    BY <2>1 DEF SaveInv, SaveTypes
<1>3. \A o \in DOMAIN objects' : o \in DOMAIN objects \/ o = k
  BY <1>1 DEF Added
<1>4. WriterInv'
  <2>1. Len(k.stem) = 3 => GivenOut(k.stem[2], k.stem[3])
    BY <1>1 DEF Added
  <2>2. \A p \in Replicas : objectSeq[p] <= objectSeq'[p]
    BY DEF SaveInv, SaveTypes
  <2> QED
    BY <1>2, <1>3, <2>1, <2>2, WritersKept
<1>5. KeyInv'
  BY <1>2, <1>3, OtherKeysStay
<1>6. StoredInv'
  <2>1. \A t \in Savers \ {s} : StoredOK(t)'
    BY <1>1, OthersStored DEF Same
  <2>2. h \in todo[s] /\ pc[s] # "failed"
    BY DEF Earliest
  <2>3. /\ todo'[s] = todo[s] \ {h} \/ todo'[s] = {}
        /\ pc'[s] = "ok" => todo'[s] = {}
        /\ pc'[s] # "failed" => todo'[s] = todo[s] \ {h}
    OBVIOUS
  <2>4. StoredOK(s)'
    BY <1>1, <2>2, <2>3, OwnStored
  <2> QED
    BY <2>1, <2>4 DEF StoredInv
<1>7. HourInv'
  BY <1>1, HoursKept
<1>8. Grows
  BY <1>1, AddedGrows
<1> QED
  BY <1>2, <1>4, <1>5, <1>6, <1>7, <1>8 DEF SaveInv

\* A call ends with an error and stores nothing more.
LEMMA FailStep ==
    ASSUME SaveInv, NEW s \in Savers, objects' = objects,
           writerID' = writerID, objectSeq' = objectSeq,
           pc' = [pc EXCEPT ![s] = "failed"], todo' = [todo EXCEPT ![s] = {}],
           key' = [key EXCEPT ![s] = {}]
    PROVE  SaveInv' /\ Grows
<1>0. SaveTypes /\ KeyInv
  BY DEF SaveInv
<1>1. SaveTypes'
  BY <1>0 DEF SaveTypes
<1>2. /\ pc'[s] = "failed" /\ todo'[s] = {} /\ key'[s] = {}
      /\ \A t \in Savers \ {s} : Same(t)
  BY <1>0 DEF SaveTypes, Same
<1>3. WriterInv'
  <2>1. \A p \in Replicas : objectSeq[p] <= objectSeq'[p]
    BY <1>0 DEF SaveTypes
  <2> QED
    BY <1>1, <2>1, WritersKept
<1>4. KeyInv'
  BY <1>1, <1>2, OtherKeysStay
<1>5. StoredInv' /\ HourInv' /\ Grows
  BY <1>2, StoredKept DEF Same
<1> QED
  BY <1>1, <1>3, <1>4, <1>5 DEF SaveInv

\* Every step of SaveBatch.
LEMMA SaveBatchStep ==
    ASSUME BucketInv, NEW s \in Savers, SaveBatch(s)
    PROVE  SaveInv' /\ Grows
<1>0. SaveInv /\ SaveTypes /\ ClockTypes
  BY DEF BucketInv, SaveInv
<1>1. ASSUME NEW h \in Hours, NewShardObjectKey(s, h)
      PROVE  SaveInv' /\ Grows
  BY <1>1, NewKeyStep
<1>2. ASSUME NEW h \in Hours, NEW k \in key[s], WriteObject(s, h, k)
      PROVE  SaveInv' /\ Grows
  <2>0. /\ pc[s] = "put" /\ Earliest(h, todo[s]) /\ Put(s, h, k)
        /\ writerID' = writerID /\ objectSeq' = objectSeq
    BY <1>2 DEF WriteObject
  <2>1. /\ todo' = [todo EXCEPT ![s] = @ \ {h}] /\ key' = [key EXCEPT ![s] = {}]
        /\ pc' = [pc EXCEPT ![s] = IF todo[s] = {h} THEN "ok" ELSE "next"]
    BY <1>2 DEF WriteObject, Goto
  <2>2. /\ pc' \in [Savers -> {"next", "put", "ok", "failed"}]
        /\ todo' \in [Savers -> SUBSET Hours] /\ key' \in [Savers -> SUBSET Key]
    BY <1>0, <2>1 DEF SaveTypes
  <2>3. key'[s] = {} /\ \A t \in Savers \ {s} : Same(t)
    BY <1>0, <2>1 DEF SaveTypes, Same
  <2>4. \/ pc'[s] = "ok" /\ todo'[s] = todo[s] \ {h} /\ todo[s] = {h}
        \/ pc'[s] = "next" /\ todo'[s] = todo[s] \ {h}
    BY <1>0, <2>1 DEF SaveTypes
  <2> QED
    BY <1>0, <2>0, <2>2, <2>3, <2>4, PutStep
<1>3. ASSUME NEW h \in Hours, NEW k \in key[s], WriteFails(s, h, k)
      PROVE  SaveInv' /\ Grows
  <2>1. /\ pc[s] = "put" /\ Earliest(h, todo[s])
        /\ Put(s, h, k) \/ objects' = objects
        /\ todo' = [todo EXCEPT ![s] = {}] /\ key' = [key EXCEPT ![s] = {}]
        /\ pc' = [pc EXCEPT ![s] = "failed"]
        /\ writerID' = writerID /\ objectSeq' = objectSeq
    BY <1>3 DEF WriteFails, Goto
  <2>2. /\ pc' \in [Savers -> {"next", "put", "ok", "failed"}]
        /\ todo' \in [Savers -> SUBSET Hours] /\ key' \in [Savers -> SUBSET Key]
    BY <1>0, <2>1 DEF SaveTypes
  <2>3. /\ key'[s] = {} /\ todo'[s] = {} /\ pc'[s] = "failed"
        /\ \A t \in Savers \ {s} : Same(t)
    BY <1>0, <2>1 DEF SaveTypes, Same
  <2>4. CASE Put(s, h, k)
    BY <1>0, <2>1, <2>2, <2>3, <2>4, PutStep
  <2>5. CASE objects' = objects
    BY <1>0, <2>1, <2>5, FailStep
  <2> QED
    BY <2>1, <2>4, <2>5
<1>4. ASSUME SaveGivesUp(s)
      PROVE  SaveInv' /\ Grows
  <2>1. /\ pc[s] = "next" /\ key' = key /\ objects' = objects
        /\ todo' = [todo EXCEPT ![s] = {}] /\ pc' = [pc EXCEPT ![s] = "failed"]
        /\ writerID' = writerID /\ objectSeq' = objectSeq
    BY <1>4 DEF SaveGivesUp, Goto
  <2>2. key[s] = {}
    BY <1>0, <2>1 DEF SaveInv, KeyInv, KeyOK
  <2>3. key' = [key EXCEPT ![s] = {}]
    BY <1>0, <2>1, <2>2 DEF SaveTypes
  <2> QED
    BY <1>0, <2>1, <2>3, FailStep
<1> QED
  BY <1>1, <1>2, <1>3, <1>4 DEF SaveBatch

\* A new process has a writer ID no process had, and the calls of the old one
\* are over.
LEMMA RestartStep ==
    ASSUME SaveInv, NEW p \in Replicas, Restart(p)
    PROVE  SaveInv' /\ Grows
<1>0. SaveTypes /\ WriterInv /\ KeyInv
  BY DEF SaveInv
<1>1. /\ writerID' = [writerID EXCEPT ![p] = <<p, @[2] + 1>>]
      /\ objectSeq' = [objectSeq EXCEPT ![p] = 0]
      /\ CallsAreLost(p) /\ objects' = objects
  BY DEF Restart
<1>2. \A t \in Savers :
         \/ Same(t) /\ (ReplicaOf[t] = p => pc[t] # "put")
         \/ pc'[t] = "failed" /\ todo'[t] = {} /\ key'[t] = {}
  BY <1>1 DEF CallsAreLost, Same
<1>3. SaveTypes'
  <2>1. /\ pc' \in [Savers -> {"next", "put", "ok", "failed"}]
        /\ todo' \in [Savers -> SUBSET Hours] /\ key' \in [Savers -> SUBSET Key]
    BY <1>0, <1>1 DEF SaveTypes, CallsAreLost
  <2>2. <<p, writerID[p][2] + 1>> \in Replicas \X Nat
    BY <1>0 DEF SaveTypes
  <2>3. writerID' \in [Replicas -> Replicas \X Nat] /\ objectSeq' \in [Replicas -> Nat]
    BY <1>0, <1>1, <2>2 DEF SaveTypes
  <2> QED
    BY <1>0, <1>1, <2>1, <2>3 DEF SaveTypes
<1>4. /\ writerID'[p][1] = p /\ writerID'[p][2] = writerID[p][2] + 1
      /\ \A q \in Replicas \ {p} :
            writerID'[q] = writerID[q] /\ objectSeq'[q] = objectSeq[q]
  BY <1>0, <1>1 DEF SaveTypes
<1>5. WriterInv'
  <2>1. \A q \in Replicas : writerID'[q][1] = q
    BY <1>0, <1>4 DEF WriterInv
  <2>2. ASSUME NEW k \in DOMAIN objects, Len(k.stem) = 3
        PROVE  GivenOut(k.stem[2], k.stem[3])'
    <3>1. PICK w, n : w = k.stem[2] /\ n = k.stem[3]
      OBVIOUS
    <3>2. GivenOut(w, n)
      BY <1>0, <2>2, <3>1 DEF WriterInv
    <3>3. w \in Writer
      <4>1. k \in Key
        BY <1>0 DEF SaveTypes
      <4> QED
        BY <2>2, <3>1, <4>1, StemParts
    <3>4. w[1] \in Replicas /\ w[2] \in Int /\ writerID[p][2] \in Nat
      BY <1>0, <3>3 DEF Writer, SaveTypes
    <3>5. GivenOut(w, n)'
      BY <1>4, <3>2, <3>4 DEF GivenOut
    <3> QED
      BY <3>1, <3>5
  <2> QED
    BY <1>1, <2>1, <2>2 DEF WriterInv
<1>6. ASSUME NEW t \in Savers
      PROVE  KeyOK(t)'
  <2>1. KeyOK(t)
    BY <1>0 DEF KeyInv
  <2>2. CASE key'[t] = {}
    BY <2>2 DEF KeyOK
  <2>3. CASE key'[t] # {}
    <3>1. Same(t) /\ ReplicaOf[t] # p
      BY <1>2, <2>1, <2>3 DEF KeyOK, Same
    <3>2. /\ writerID'[ReplicaOf[t]] = writerID[ReplicaOf[t]]
          /\ objectSeq[ReplicaOf[t]] <= objectSeq'[ReplicaOf[t]]
      BY <1>0, <1>4, <3>1, Callers DEF SaveTypes
    <3>3. \A k \in key[t] : k \notin DOMAIN objects'
      BY <1>1, <2>1 DEF KeyOK
    <3>4. \A u \in Savers : key'[u] = {} \/ key'[u] = key[u]
      BY <1>2 DEF Same
    <3>5. \A k \in key[t] : \A u \in Savers \ {t} : k \notin key'[u]
      BY <2>1, <3>4 DEF KeyOK
    <3> QED
      BY <1>3, <3>1, <3>2, <3>3, <3>5, KeyStays
  <2> QED
    BY <2>2, <2>3
<1>7. StoredInv' /\ HourInv' /\ Grows
  BY <1>1, <1>2, StoredKept DEF Same
<1> QED
  BY <1>3, <1>5, <1>6, <1>7 DEF SaveInv, KeyInv

-----------------------------------------------------------------------------
\* The aggregation.

\* A step that is none of SaveBatch's.
LEMMA SaveStutter ==
    ASSUME SaveInv, saveVars' = saveVars
    PROVE  SaveInv' /\ Grows /\ objects' = objects
<1>1. /\ pc' = pc /\ todo' = todo /\ key' = key
      /\ writerID' = writerID /\ objectSeq' = objectSeq /\ objects' = objects
  BY DEF saveVars
<1>2. SaveTypes' /\ WriterInv'
  BY <1>1 DEF SaveInv, SaveTypes, WriterInv, GivenOut
<1>3. KeyInv'
  <2>1. \A s \in Savers : KeyOK(s)'
    BY <1>1, Zenon DEF SaveInv, KeyInv, KeyOK
  <2> QED
    BY <2>1 DEF KeyInv
<1>4. StoredInv' /\ HourInv' /\ Grows
  BY <1>1, StoredKept
<1> QED
  BY <1>1, <1>2, <1>3, <1>4 DEF SaveInv

\* What is counted stays in the bucket.
LEMMA CountsStay ==
    ASSUME Grows, NEW r, NEW h, Counts(r, h)
    PROVE  Counts(r, h)'
  BY DEF Grows, Counts, Holders

\* A step that leaves the aggregation alone.
LEMMA PassStays ==
    ASSUME PassInv, Grows, passVars' = passVars
    PROVE  PassInv'
<1>1. PassTypes'
  BY DEF PassInv, PassTypes, passVars, Grows
<1>2. CountedInv'
  BY CountsStay DEF PassInv, CountedInv, passVars, Visits
<1>3. SummaryInv'
  BY CountsStay DEF PassInv, SummaryInv, passVars
<1> QED
  BY <1>1, <1>2, <1>3 DEF PassInv

LEMMA FaultTypes ==
    ASSUME ClockTypes, now' = now, faults' = faults \/ Fault
    PROVE  ClockTypes'
  BY Bounds DEF ClockTypes, Fault

\* A pass between two summaries, or over.
LEMMA PassWalks ==
    ASSUME PassInv, objects' = objects, summary' = summary,
           apc' \in {"wait", "list", "walk"}, counted' \in {counted, {}},
           listed' \subseteq DOMAIN objects, visit' \subseteq Hours
    PROVE  PassInv'
<1>1. PassTypes'
  BY DEF PassInv, PassTypes
<1>2. CountedInv'
  BY DEF CountedInv
<1>3. SummaryInv'
  BY DEF PassInv, SummaryInv, Counts, Holders
<1> QED
  BY <1>1, <1>2, <1>3 DEF PassInv

\* The listing, and an hour that is skipped or given up.
LEMMA WalkSteps ==
    ASSUME BucketInv,
           \/ ListBegins \/ ListLogObjects \/ ListFails \/ RunEnds
           \/ \E h \in Hours : Skip(h) \/ AggregateFails(h)
    PROVE  BucketInv' /\ Grows
<1>0. SaveInv /\ SaveTypes /\ PassInv /\ PassTypes /\ ClockTypes
  BY DEF BucketInv, SaveInv, PassInv
<1>1. /\ saveVars' = saveVars /\ summary' = summary
      /\ now' = now /\ (faults' = faults \/ Fault)
      /\ apc' \in {"wait", "list", "walk"} /\ counted' \in {counted, {}}
  BY DEF ListBegins, ListLogObjects, ListFails, RunEnds, Skip, AggregateFails, Leave
<1>2. listed' \subseteq DOMAIN objects /\ visit' \subseteq Hours
  <2>1. CASE ListLogObjects
    <3>1. /\ listed' \subseteq DOMAIN objects
          /\ visit' = {parseHourFromObjectKey(k) : k \in listed'} \ {NoHour}
      BY <1>0, <2>1 DEF ListLogObjects, Logs, PassTypes
    <3>2. \A k \in DOMAIN objects : parseHourFromObjectKey(k) \in Hours \cup {NoHour}
      BY <1>0, ParsedHours DEF SaveTypes
    <3> QED
      BY <3>1, <3>2
  <2>2. CASE ListBegins \/ ListFails \/ RunEnds
    BY <1>0, <2>2 DEF ListBegins, ListFails, RunEnds, Logs, PassTypes
  <2>3. CASE \E h \in Hours : Skip(h) \/ AggregateFails(h)
    BY <1>0, <2>3 DEF Skip, AggregateFails, Leave, PassTypes
  <2> QED
    BY <2>1, <2>2, <2>3
<1>3. SaveInv' /\ Grows /\ objects' = objects
  BY <1>0, <1>1, SaveStutter
<1>4. PassInv'
  BY <1>0, <1>1, <1>2, <1>3, PassWalks
<1>5. ClockTypes'
  BY <1>0, <1>1, FaultTypes
<1> QED
  BY <1>3, <1>4, <1>5 DEF BucketInv

\* What is counted for an hour is what its objects hold.
LEMMA CountStep ==
    ASSUME BucketInv, NEW h \in Hours, CountObjects(h)
    PROVE  BucketInv' /\ Grows
<1>0. SaveInv /\ SaveTypes /\ PassInv /\ PassTypes /\ ClockTypes
  BY DEF BucketInv, SaveInv, PassInv
<1>1. /\ saveVars' = saveVars /\ summary' = summary /\ now' = now
      /\ listed' = listed /\ visit' = visit /\ apc' = "write"
      /\ faults' = faults \/ Fault
      /\ counted' = UNION {objects[k].recs : k \in OfHour(h)}
  BY DEF CountObjects
<1>2. SaveInv' /\ Grows /\ objects' = objects
  BY <1>0, <1>1, SaveStutter
<1>3. ASSUME NEW r \in counted'
      PROVE  r \in Record /\ Counts(r, h)
  <2>1. PICK k \in OfHour(h) : r \in objects[k].recs
    BY <1>1
  <2>2. k \in DOMAIN objects /\ k \in Key /\ parseHourFromObjectKey(k) = h
    BY <1>0 DEF OfHour, PassTypes, SaveTypes
  <2>3. LogOf(k, h)
    BY <2>2, ParsedHours
  <2>4. HourOf(r) = h /\ k \in Holders(r)
    BY <1>0, <2>1, <2>2, <2>3 DEF SaveInv, HourInv, Holders
  <2>5. objects[k] \in Stored
    BY <1>0, <2>2 DEF SaveTypes
  <2> QED
    BY <2>1, <2>4, <2>5 DEF Counts, Stored
<1>4. PassTypes'
  BY <1>0, <1>1, <1>2, <1>3 DEF PassTypes
<1>5. CountedInv'
  <2> SUFFICES ASSUME NEW g \in Hours, Earliest(g, visit), NEW r \in counted'
               PROVE  Counts(r, g)'
    BY <1>1 DEF CountedInv, Visits
  <2>1. g = h
    BY Bounds DEF CountObjects, Visits, Earliest
  <2> QED
    BY <1>2, <1>3, <2>1, CountsStay
<1>6. SummaryInv'
  BY <1>0, <1>1, <1>2, CountsStay DEF PassInv, SummaryInv
<1>7. ClockTypes'
  BY <1>0, <1>1, FaultTypes
<1> QED
  BY <1>2, <1>4, <1>5, <1>6, <1>7 DEF BucketInv, PassInv

\* os.WriteFile, whole or in part, of what was counted for the hour.
LEMMA SummarySteps ==
    ASSUME BucketInv, NEW h \in Hours, Truncate(h) \/ Fill(h) \/ FillFails(h)
    PROVE  BucketInv' /\ Grows
<1>0. SaveInv /\ PassInv /\ PassTypes /\ ClockTypes
  BY DEF BucketInv, PassInv
<1>1. PICK sum \in Summary :
         /\ summary' = [summary EXCEPT ![h] = sum]
         /\ sum.recs \in {{}, summary[h].recs} \/ (apc = "fill" /\ sum.recs = counted)
  <2>1. now \in 0 .. MaxTime /\ counted \subseteq Record /\ summary[h] \in Summary
    BY <1>0, Bounds DEF PassTypes, ClockTypes
  <2>2. CASE Truncate(h)
    <3> DEFINE t == [kind |-> "part", recs |-> {}, mtime |-> now]
    <3>1. t \in Summary /\ t.recs = {}
      BY <2>1 DEF Summary
    <3>2. summary' = [summary EXCEPT ![h] = t]
      BY <2>2 DEF Truncate
    <3> QED
      BY <3>1, <3>2
  <2>3. CASE Fill(h)
    <3> DEFINE t == [kind |-> "full", recs |-> counted, mtime |-> now]
    <3>1. t \in Summary /\ t.recs = counted
      BY <2>1 DEF Summary
    <3>2. summary' = [summary EXCEPT ![h] = t] /\ apc = "fill"
      BY <2>3 DEF Fill
    <3> QED
      BY <3>1, <3>2
  <2>4. CASE FillFails(h)
    <3> DEFINE t == [summary[h] EXCEPT !.mtime = now]
    <3>1. t \in Summary /\ t.recs = summary[h].recs
      BY <2>1 DEF Summary
    <3>2. summary' = [summary EXCEPT ![h] = t]
      BY <2>4 DEF FillFails
    <3> QED
      BY <3>1, <3>2
  <2> QED
    BY <2>2, <2>3, <2>4
<1>2. /\ apc \in {"write", "fill"} /\ Visits(h)
      /\ \/ apc' = "walk" /\ visit' = visit \ {h}
         \/ apc' = "fill" /\ visit' = visit
      /\ saveVars' = saveVars /\ listed' = listed /\ counted' = counted
      /\ now' = now /\ (faults' = faults \/ Fault)
  BY DEF Truncate, Fill, FillFails, Leave
<1>3. SaveInv' /\ Grows /\ objects' = objects
  BY <1>0, <1>2, SaveStutter
<1>4. summary' \in [Hours -> Summary]
  BY <1>0, <1>1 DEF PassTypes
<1>5. PassTypes'
  BY <1>0, <1>2, <1>3, <1>4 DEF PassTypes
<1>6. summary'[h] = sum /\ \A k \in Hours \ {h} : summary'[k] = summary[k]
  BY <1>0, <1>1 DEF PassTypes
<1>7. \A r \in sum.recs : Counts(r, h)
  BY <1>0, <1>1, <1>2 DEF PassInv, CountedInv, SummaryInv
<1>8. SummaryInv'
  <2>1. \A g \in Hours : \A r \in summary'[g].recs : Counts(r, g)
    BY <1>0, <1>6, <1>7 DEF PassInv, SummaryInv
  <2> QED
    BY <1>3, <2>1, CountsStay DEF SummaryInv
<1>9. CountedInv'
  <2> SUFFICES ASSUME apc' \in {"write", "fill"}, NEW g \in Hours, Visits(g)',
                      NEW r \in counted'
               PROVE  Counts(r, g)'
    BY DEF CountedInv
  <2>1. Visits(g) /\ r \in counted
    BY <1>2 DEF Visits
  <2>2. Counts(r, g)
    BY <1>0, <1>2, <2>1 DEF PassInv, CountedInv
  <2> QED
    BY <1>3, <2>2, CountsStay
<1>10. ClockTypes'
  BY <1>0, <1>2, FaultTypes
<1> QED
  BY <1>3, <1>5, <1>8, <1>9, <1>10 DEF BucketInv, PassInv

-----------------------------------------------------------------------------
\* The invariant and the theorems.

LEMMA BucketStep ==
    ASSUME BucketInv, [Next]_vars
    PROVE  BucketInv' /\ Grows
<1>0. SaveInv /\ PassInv /\ ClockTypes
  BY DEF BucketInv
<1>1. ASSUME NEW s \in Savers, SaveBatch(s)
      PROVE  BucketInv' /\ Grows
  <2>1. SaveInv' /\ Grows
    BY <1>1, SaveBatchStep
  <2>2. passVars' = passVars /\ now' = now /\ (faults' = faults \/ Fault)
    BY <1>1 DEF SaveBatch, NewShardObjectKey, WriteObject, WriteFails, SaveGivesUp, passVars
  <2>3. PassInv'
    BY <1>0, <2>1, <2>2, PassStays
  <2>4. ClockTypes'
    BY <1>0, <2>2, FaultTypes
  <2> QED
    BY <2>1, <2>3, <2>4 DEF BucketInv
<1>2. ASSUME NEW p \in Replicas, Restart(p)
      PROVE  BucketInv' /\ Grows
  <2>1. SaveInv' /\ Grows
    BY <1>0, <1>2, RestartStep
  <2>2. objects' = objects /\ summary' = summary /\ now' = now /\ Fault
    BY <1>2 DEF Restart
  <2>3. PassInv'
    <3>1. CASE p = Local
      <4>1. apc' = "wait" /\ listed' = {} /\ visit' = {} /\ counted' = {}
        BY <1>2, <3>1 DEF Restart, PassIsLost
      <4> QED
        BY <1>0, <2>2, <4>1, PassWalks
    <3>2. CASE p # Local
      <4>1. passVars' = passVars
        BY <1>2, <2>2, <3>2 DEF Restart, passVars
      <4> QED
        BY <1>0, <2>1, <4>1, PassStays
    <3> QED
      BY <3>1, <3>2
  <2>4. ClockTypes'
    BY <1>0, <2>2, FaultTypes
  <2> QED
    BY <2>1, <2>3, <2>4 DEF BucketInv
<1>3. ASSUME Tick \/ UNCHANGED vars
      PROVE  BucketInv' /\ Grows
  <2>1. saveVars' = saveVars /\ passVars' = passVars
    BY <1>3 DEF Tick, vars, passVars
  <2>2. SaveInv' /\ Grows
    BY <1>0, <2>1, SaveStutter
  <2>3. PassInv'
    BY <1>0, <2>1, <2>2, PassStays
  <2>4. ClockTypes'
    <3>1. \/ now' = now /\ (faults' = faults \/ Fault)
          \/ faults' = faults /\ now < MaxTime /\ now' = now + 1
      BY <1>3 DEF Tick, vars
    <3> QED
      BY <1>0, <3>1, FaultTypes, Bounds DEF ClockTypes
  <2> QED
    BY <2>2, <2>3, <2>4 DEF BucketInv
<1>4. ASSUME AggregateAll \/ ListFails \/ \E h \in Hours : AggregateFails(h) \/ FillFails(h)
      PROVE  BucketInv' /\ Grows
  BY <1>4, WalkSteps, CountStep, SummarySteps DEF AggregateAll
<1> QED
  BY <1>1, <1>2, <1>3, <1>4 DEF Next

\* What is in the bucket before the calls.
LEMMA FoundObjects ==
    ASSUME Init
    PROVE  /\ DOMAIN objects \subseteq Key /\ objects \in [DOMAIN objects -> Stored]
           /\ \A k \in DOMAIN objects : \A r \in objects[k].recs :
                 \E f \in Found : FoundKey[f] = k /\ r \in RecordsOf(f)
           /\ \A k \in DOMAIN objects : Len(k.stem) = 3 => k.stem[2][2] < 0
<1> DEFINE Of(k) == {g \in Found : FoundKey[g] = k}
           Put0(k) == [recs |-> UNION {RecordsOf(f) : f \in Of(k)}, mtime |-> 0]
<1>1. objects = [k \in {FoundKey[f] : f \in Found} |-> Put0(k)]
  BY DEF Init
<1>2. DOMAIN objects = {FoundKey[f] : f \in Found}
  BY <1>1
<1>3. ASSUME NEW k PROVE Put0(k) \in Stored
  <2>1. \A f \in Found : RecordsOf(f) \subseteq Record
    BY RecordFacts
  <2>2. UNION {RecordsOf(f) : f \in Of(k)} \subseteq Record
    BY <2>1
  <2> QED
    BY <2>2 DEF Stored
<1>4. \A k : \A r \in Put0(k).recs : \E f \in Found : FoundKey[f] = k /\ r \in RecordsOf(f)
  OBVIOUS
<1> HIDE DEF Put0
<1>5. \A k \in DOMAIN objects : objects[k] = Put0(k)
  BY <1>1, <1>2
<1>6. objects \in [DOMAIN objects -> Stored]
  BY <1>1, <1>2, <1>3
<1>7. \A f \in Found : /\ FoundKey[f] \in Key
                       /\ Len(FoundKey[f].stem) = 3 => FoundKey[f].stem[2][2] < 0
  BY MinIOAssumption
<1> QED
  BY <1>2, <1>4, <1>5, <1>6, <1>7

LEMMA BucketInitially ==
    ASSUME Init
    PROVE  BucketInv
<1>1. /\ pc = [s \in Savers |-> "next"] /\ todo = [s \in Savers |-> GroupRecords(s)]
      /\ key = [s \in Savers |-> {}]
      /\ writerID = [p \in Replicas |-> <<p, 0>>] /\ objectSeq = [p \in Replicas |-> 0]
  BY DEF Init
<1>2. SaveTypes
  <2>1. todo \in [Savers -> SUBSET Hours]
    BY <1>1, RecordFacts
  <2>2. writerID \in [Replicas -> Replicas \X Nat] /\ objectSeq \in [Replicas -> Nat]
    BY <1>1
  <2> QED
    BY <1>1, <2>1, <2>2, FoundObjects DEF SaveTypes
<1>3. WriterInv
  <2>1. \A p \in Replicas : writerID[p][1] = p /\ writerID[p][2] = 0
    BY <1>1
  <2>2. ASSUME NEW k \in DOMAIN objects, Len(k.stem) = 3
        PROVE  GivenOut(k.stem[2], k.stem[3])
    <3>1. k \in Key /\ k.stem[2][2] < 0
      BY <2>2, FoundObjects
    <3>2. k.stem[2][1] \in Replicas
      BY <2>2, <3>1, StemParts
    <3> QED
      BY <2>1, <3>1, <3>2 DEF GivenOut
  <2> QED
    BY <2>1, <2>2 DEF WriterInv
<1>4. KeyInv
  BY <1>1 DEF KeyInv, KeyOK
<1>5. StoredInv
  <2> SUFFICES ASSUME NEW s \in Savers
               PROVE  StoredOK(s)
    BY DEF StoredInv
  <2>1. pc[s] = "next" /\ todo[s] = GroupRecords(s)
    BY <1>1
  <2>2. ASSUME NEW r \in RecordsOf(s)
        PROVE  HourOf(r) \in todo[s] /\ Holders(r) = {}
    <3>1. r[1] = s /\ HourOf(r) \in GroupRecords(s)
      BY RecordFacts
    <3>2. \A f \in Found : r \notin RecordsOf(f)
      BY <3>1, RecordFacts, Callers
    <3>3. \A k \in DOMAIN objects : r \notin objects[k].recs
      BY <3>2, FoundObjects
    <3> QED
      BY <2>1, <3>1, <3>3 DEF Holders
  <2> QED
    BY <2>1, <2>2 DEF StoredOK
<1>6. HourInv
  <2> SUFFICES ASSUME NEW k \in DOMAIN objects, NEW h \in Hours, LogOf(k, h),
                      NEW r \in objects[k].recs
               PROVE  HourOf(r) = h
    BY DEF HourInv
  <2>1. PICK f \in Found : FoundKey[f] = k /\ r \in RecordsOf(f)
    BY FoundObjects
  <2>2. PICK i \in DOMAIN FoundHours[f] : HourOf(r) = FoundHours[f][i]
    BY <2>1, RecordFacts
  <2> QED
    BY <2>1, <2>2, MinIOAssumption
<1>7. PassTypes /\ SummaryInv
  <2>1. [kind |-> "none", recs |-> {}, mtime |-> 0] \in Summary
    BY Bounds DEF Summary
  <2>2. summary = [h \in Hours |-> [kind |-> "none", recs |-> {}, mtime |-> 0]]
    BY DEF Init
  <2>3. apc = "wait" /\ listed = {} /\ visit = {} /\ counted = {}
    BY DEF Init
  <2> QED
    BY <2>1, <2>2, <2>3 DEF PassTypes, SummaryInv
<1>8. CountedInv /\ ClockTypes
  <2>1. apc = "wait" /\ now = 1 /\ faults = 0
    BY DEF Init
  <2> QED
    BY <2>1, Bounds DEF CountedInv, ClockTypes
<1> QED
  BY <1>2, <1>3, <1>4, <1>5, <1>6, <1>7, <1>8 DEF BucketInv, SaveInv, PassInv

LEMMA BucketInvariant == Spec => []BucketInv
<1>1. Init => BucketInv
  BY BucketInitially
<1>2. BucketInv /\ [Next]_vars => BucketInv'
  BY BucketStep
<1> QED
  BY <1>1, <1>2, PTL DEF Spec

\* Every piece of state has its type, and the key a call is putting carries an
\* hour the call has still to write (minio_repo.go:134-311,
\* minio_aggregation.go:77-256).
THEOREM BucketTypes == Spec => []TypeOK
<1>1. BucketInv => TypeOK
  <2> SUFFICES ASSUME BucketInv
               PROVE  TypeOK
    OBVIOUS
  <2>1. SaveTypes /\ PassTypes /\ ClockTypes
    BY DEF BucketInv, SaveInv, PassInv
  <2>2. ASSUME NEW s \in Savers, NEW k \in key[s]
        PROVE  k.dirs[3] \in todo[s]
    <3>1. PICK h \in Hours, n \in Nat : /\ Earliest(h, todo[s])
                                        /\ k = ShardKey(h, writerID[ReplicaOf[s]], n)
      BY DEF BucketInv, SaveInv, KeyInv, KeyOK
    <3>2. k.dirs[3] = h
      BY <3>1 DEF ShardKey
    <3> QED
      BY <3>1, <3>2 DEF Earliest
  <2> QED
    BY <2>1, <2>2 DEF TypeOK, SaveTypes, PassTypes, ClockTypes, Stored
<1> QED
  BY <1>1, BucketInvariant, PTL

\* When SaveBatch has returned nil each record of its batch is, and stays, in
\* exactly one object, under the prefix of its hour, whatever other calls,
\* replicas and restarts put (minio_repo.go:179, 249-289, 307-311).
THEOREM SavedStaysStored == Spec => []SavedIsStored
<1>1. BucketInv => SavedIsStored
  <2> SUFFICES ASSUME BucketInv, NEW s \in Savers, pc[s] = "ok", NEW r \in RecordsOf(s)
               PROVE  \E k \in DOMAIN objects :
                         /\ k.dirs = <<Other, Date, HourOf(r)>> /\ r \in objects[k].recs
                         /\ \A o \in DOMAIN objects : r \in objects[o].recs => o = k
    BY DEF SavedIsStored
  <2>1. StoredOK(s)
    BY DEF BucketInv, SaveInv, StoredInv
  <2>2. PICK k \in Holders(r) : TRUE
    BY <2>1 DEF StoredOK
  <2>3. k.dirs = <<Other, Date, HourOf(r)>> /\ Holders(r) = {k}
    BY <2>1 DEF StoredOK
  <2> QED
    BY <2>3 DEF Holders
<1> QED
  BY <1>1, BucketInvariant, PTL

\* An object is written once: a writer ID names one process of one replica and
\* objectSeq.Add gives each number once, so no put meets a key the bucket has,
\* also after a restart sets objectSeq back (minio_repo.go:179, 307-311).
THEOREM ObjectsNeverChange == Spec => ObjectsImmutable
<1>1. BucketInv /\ [Next]_vars => [Grows]_vars
  BY BucketStep
<1>2. Spec => [][Grows]_vars
  BY <1>1, BucketInvariant, PTL DEF Spec
<1> QED
  BY <1>2 DEF ObjectsImmutable, Grows

\* A summary counts records of its own hour only, each of them in the bucket:
\* parseHourFromObjectKey tells the hours of both layouts apart, and objects
\* that are no logs are not counted (minio_aggregation.go:86-97, 115-155).
THEOREM SummariesOfTheirHour == Spec => []SummaryOfItsHour
<1>1. BucketInv => SummaryOfItsHour
  BY DEF BucketInv, PassInv, SummaryInv, Counts, Holders, SummaryOfItsHour
<1> QED
  BY <1>1, BucketInvariant, PTL

=============================================================================
