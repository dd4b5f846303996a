---------------------------- MODULE DirectServer ----------------------------
(***************************************************************************)
(* The V1 pipeline from the HTTP request to the hourly files: Server       *)
(* composed with FileRepo.  handleLogs calls ProcessBatch, which in direct *)
(* mode is SaveBatch; ingestion's Close does nothing in this mode, so the  *)
(* process ends right after server.Shutdown.  It can also be killed at any *)
(* time, and is started again on the files it left.                        *)
(***************************************************************************)
EXTENDS FileRepo, Server

CONSTANTS
    MaxRestarts,  \* bound on the process restarts explored
    MaxBatch      \* bound on the batches the decoders are compared on

ASSUME DirectServerAssumption ==
    Requests = Savers /\ MaxRestarts \in Nat /\ MaxBatch \in Nat

VARIABLE restarts

directVars == <<repoVars, serverVars, restarts>>

DirectInit == RepoInit /\ ServerInit /\ restarts = 0

RunStep ==
    /\ Listen \/ BuildFails \/ ListenFails \/ Sigterm \/ ShutdownReturns
    /\ UNCHANGED <<repoVars, restarts>>

RequestStep(s) ==
    /\ pc[s] = "idle"
    /\ Arrive(s) \/ Refuse(s)
    /\ UNCHANGED <<repoVars, restarts>>

\* A step of SaveBatch; its return is the response.  Only the first loop looks
\* at the context.
HandlerStep(s) ==
    /\ SaveBatch(s)
    /\ http[s] = Handling
    /\ pc[s] = "idle" => Decoded(s)
    /\ CASE pc'[s] = "ok"     -> Respond(s, "accepted")
         [] pc'[s] = "failed" ->
              Respond(s, IF pc[s] = "idle" THEN "contextDone" ELSE "failed")
         [] OTHER             -> UNCHANGED http
    /\ UNCHANGED <<phase, expired, restarts>>

\* main returns while a request that outlived Shutdown may still be saving.
ProcessExits == Exit /\ CallsDie /\ UNCHANGED restarts

\* The process is killed; what it has written stays with the kernel.
Killed ==
    /\ phase \in {"serving", "draining"}
    /\ Vanish /\ CallsDie /\ UNCHANGED restarts

\* The process is started again on the files the last one left.
Restart ==
    /\ phase = "exited" /\ restarts < MaxRestarts
    /\ phase' = "building" /\ expired' = FALSE /\ restarts' = restarts + 1
    /\ UNCHANGED <<repoVars, http>>

DirectNext ==
    \/ RunStep
    \/ \E s \in Savers : RequestStep(s) \/ HandlerStep(s)
    \/ ProcessExits
    \/ Killed
    \/ Restart

\* A goroutine that can run does, and Shutdown's deadline fires.  A disk operation
\* is taken to end in success or error: FileRepo does not heed the request's
\* timeout, and a request waits as long as its disk does.
DirectFairness ==
    /\ \A s \in Savers :
          WF_directVars(http[s] = Handling /\ (RequestStep(s) \/ HandlerStep(s)))
    /\ WF_directVars(phase = "draining" /\ RunStep)
    /\ WF_directVars(ProcessExits)

SafeDirectSpec == DirectInit /\ [][DirectNext]_directVars
DirectSpec == SafeDirectSpec /\ DirectFairness

-----------------------------------------------------------------------------

\* A request answered 202 has a whole line for every record in the file of its
\* hour, also after the process was killed and restarted (file_repo.go:31-81).
AcceptedIsWritten ==
    \A s \in Savers : http[s] = 202 =>
        \A r \in RecordsOf(s) :
            [rec |-> r, kind |-> "line"] \in Range(file[HourOf(r)])

\* Whatever a failed write or the end of the process tore is the last its request
\* wrote to the file, and the request was not accepted: a torn line costs other
\* requests the one record that is glued to it, and no more (file_repo.go:71-79).
TornWriteIsLast ==
    \A h \in Hours : \A i \in DOMAIN file[h] :
        file[h][i].kind # "line" =>
            /\ http[Writer(h, i)] # 202
            /\ \A j \in i + 1 .. Len(file[h]) : Writer(h, j) # Writer(h, i)

\* A batch is decoded to the same records, or refused with the same error, in
\* each format it can be sent in: a CSV header is neither kept as a record nor a
\* first record dropped as a header (handler.go:208-279).
FormatsAgree ==
    phase = "building" =>
        \A n \in 0 .. MaxBatch : \A records \in [1 .. n -> LogRecord] :
            \A b1, b2 \in Bodies(records) : decodeRecords(b1) = decodeRecords(b2)

=============================================================================
