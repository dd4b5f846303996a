------------------------------ MODULE Handler -------------------------------
(***************************************************************************)
(* What handleLogs (internal/http/handler.go) decides about one request:   *)
(* method, key and body before ProcessBatch, the status code after it.     *)
(*                                                                         *)
(* A record or CSV row keeps only what the decoders look at: what its      *)
(* timestamp field holds, and whether its path and user agent are more     *)
(* than blanks.                                                            *)
(***************************************************************************)
EXTENDS Integers, Sequences

CONSTANT AuthEnabled   \* Handler.authEnabled

LogRecord == [ts : {"time", "zero"}, path : BOOLEAN, agent : BOOLEAN]

\* The outcomes of decodeRecords: the records, or one of three errors.
Records(s) == [err |-> "none", records |-> s]
DecodeError(e) == [err |-> e, records |-> <<>>]

\* A batch has a record, and every record a time, a path and a user agent.
validate(records) ==
    IF /\ records # <<>>
       /\ \A i \in DOMAIN records :
             records[i].ts # "zero" /\ records[i].path /\ records[i].agent
    THEN Records(records) ELSE DecodeError("invalid")

\* The array is followed by nothing but white space; an error while looking,
\* the size limit included, counts as trailing data.
decodeJSON(body) ==
    IF body.fault # "none" THEN DecodeError(body.fault)
    ELSE IF body.tail # "empty" THEN DecodeError("invalid")
    ELSE validate(body.records)

\* A first row of three or more columns that starts with "timestamp", in any
\* case, is a header.
StartIdx(rows) == IF rows[1].width >= 3 /\ rows[1].ts = "timestamp" THEN 2 ELSE 1

\* ReadAll fails on rows of unequal width.  Every row but the header needs three
\* columns and an RFC 3339 time.
WellFormed(rows) ==
    \A i \in DOMAIN rows : rows[i].width >= 3 /\ rows[i].ts \in {"time", "zero"}
FromRow(row) == [ts |-> row.ts, path |-> row.path, agent |-> row.agent]
FromRows(rows) ==
    IF WellFormed(rows) THEN validate([i \in DOMAIN rows |-> FromRow(rows[i])])
    ELSE DecodeError("invalid")

\* Faulty variant of decodeCSV: the first row is always taken for a header.
DecodeSkipsFirst(body) ==
    IF body.fault # "none" THEN DecodeError(body.fault)
    ELSE IF body.rows = <<>> THEN DecodeError("invalid")
    ELSE FromRows(Tail(body.rows))

decodeCSV(body) ==
    IF body.fault # "none" THEN DecodeError(body.fault)
    ELSE IF \/ body.rows = <<>>
            \/ \E i \in DOMAIN body.rows : body.rows[i].width # body.rows[1].width
         THEN DecodeError("invalid")
    ELSE FromRows(SubSeq(body.rows, StartIdx(body.rows), Len(body.rows)))

\* The media type chooses the decoder.
decodeRecords(req) ==
    CASE req.type = "json" -> decodeJSON(req.body)
      [] req.type = "csv"  -> decodeCSV(req.body)
      [] OTHER             -> DecodeError("unsupported")

\* An unset or blank header is no key.
authorizeLogsRequest(req) == AuthEnabled => req.key = "allowed"

\* The status handleLogs answers before it calls ProcessBatch, 0 for none.  (The
\* 503 of a handler without ingestion service is left out: BuildApp makes none.)
Refusal(req) ==
    LET decoded == decodeRecords(req)
    IN  IF req.method # "POST" THEN 405
        ELSE IF ~authorizeLogsRequest(req) THEN 401
        ELSE CASE decoded.err = "none"        -> 0
               [] decoded.err = "unsupported" -> 415
               [] decoded.err = "tooLarge"    -> 413
               [] OTHER                       -> 400

\* The errors of ProcessBatch that a client may retry.  BuildApp always gives
\* ingestion a producer or a repository, so that neither notConfigured occurs.
Unavailable == {"notStarted", "stopped", "circuitOpen", "ingestionStopped",
                "producerNotConfigured", "logStoreNotConfigured",
                "contextDone", "timedOut"}

\* Faulty variant of StatusOf: the open circuit is not in the list.
StatusWithoutCircuit(result) ==
    CASE result = "accepted"                          -> 202
      [] result = "full"                              -> 429
      [] result \in Unavailable \ {"circuitOpen"}     -> 503
      [] OTHER                                        -> 500

\* The status for what ProcessBatch returned.
StatusOf(result) ==
    CASE result = "accepted"       -> 202
      [] result = "full"           -> 429
      [] result \in Unavailable    -> 503
      [] OTHER                     -> 500

\* The bodies that carry the same records as JSON, as CSV, and as CSV with a
\* header.
AsRow(rec) == [width |-> 3, ts |-> rec.ts, path |-> rec.path, agent |-> rec.agent]
AsRows(records) == [i \in DOMAIN records |-> AsRow(records[i])]
Header == [width |-> 3, ts |-> "timestamp", path |-> TRUE, agent |-> TRUE]
Bodies(records) ==
    {[type |-> "json", body |-> [fault |-> "none", tail |-> "empty", records |-> records]],
     [type |-> "csv",  body |-> [fault |-> "none", rows |-> AsRows(records)]],
     [type |-> "csv",  body |-> [fault |-> "none", rows |-> <<Header>> \o AsRows(records)]]}

=============================================================================
