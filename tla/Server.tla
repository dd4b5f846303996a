------------------------------- MODULE Server -------------------------------
(***************************************************************************)
(* The life of the process around its HTTP server: BuildApp and Run of     *)
(* cmd/bootstrap/app.go and the requests of POST /logs that net/http is    *)
(* handling.  What ProcessBatch does belongs to the modules that compose   *)
(* this one with a storage path; they conjoin its steps with the actions   *)
(* below.                                                                  *)
(***************************************************************************)
EXTENDS Handler

CONSTANTS
    Requests,  \* the requests clients make, one batch each
    Traffic    \* what such a request can look like

VARIABLES
    phase,    \* how far Run has come
    http,     \* the status each request was answered with, or one of the below
    expired   \* server.Shutdown gave up on requests that were still handled

serverVars == <<phase, http, expired>>

NotSent == 0
Handling == 1    \* net/http runs handleLogs for the request
Aborted == 2     \* the connection was cut: a panic, or the process ended

Active == {r \in Requests : http[r] = Handling}

\* Run has just called BuildApp.
ServerInit ==
    /\ phase = "building"
    /\ http = [r \in Requests |-> NotSent]
    /\ expired = FALSE

\* ListenAndServe in its own goroutine, once BuildApp has returned a server.
Listen ==
    /\ phase = "building" /\ phase' = "serving"
    /\ UNCHANGED <<http, expired>>

\* BuildApp fails, or the startup check of Kafka does: Run returns the error.
BuildFails ==
    /\ phase = "building" /\ phase' = "exited"
    /\ UNCHANGED <<http, expired>>

\* ListenAndServe cannot bind: logger.Fatal ends the process, cleanups and all.
ListenFails ==
    /\ phase = "serving" /\ phase' = "exited"
    /\ \A r \in Requests : http[r] = NotSent
    /\ UNCHANGED <<http, expired>>

\* A request reaches the listener.
Arrive(r) ==
    /\ phase = "serving"
    /\ http[r] = NotSent
    /\ http' = [http EXCEPT ![r] = Handling]
    /\ UNCHANGED <<phase, expired>>

\* handleLogs refuses the request without calling ProcessBatch.
Refuse(r) ==
    /\ http[r] = Handling
    /\ \E req \in Traffic : /\ Refusal(req) # 0
                            /\ http' = [http EXCEPT ![r] = Refusal(req)]
    /\ UNCHANGED <<phase, expired>>

\* The guard of ProcessBatch: the request was authorised and decoded.
Decoded(r) == http[r] = Handling /\ \E req \in Traffic : Refusal(req) = 0

\* handleLogs answers with what ProcessBatch returned.  A panic is recovered by
\* net/http, which closes the connection.
Respond(r, result) ==
    http' = [http EXCEPT ![r] = IF result = "panic" THEN Aborted ELSE StatusOf(result)]

\* Faulty variant of Sigterm: the cleanups start at once.
SigtermClosesAtOnce ==
    /\ phase = "serving" /\ phase' = "closing"
    /\ UNCHANGED <<http, expired>>

\* SIGTERM cancels Run's context; server.Shutdown closes the listener.
Sigterm ==
    /\ phase = "serving" /\ phase' = "draining"
    /\ UNCHANGED <<http, expired>>

\* server.Shutdown returns when no request is being handled, or after its ten
\* seconds; either way the deferred cleanups follow.
ShutdownReturns ==
    /\ phase = "draining" /\ phase' = "closing"
    /\ expired' = (Active # {})
    /\ UNCHANGED http

\* The process is gone, and with it the requests it was handling.
Vanish ==
    /\ phase' = "exited"
    /\ http' = [r \in Requests |-> IF r \in Active THEN Aborted ELSE http[r]]
    /\ UNCHANGED expired

\* main returns after the cleanups.
Exit == phase = "closing" /\ Vanish

Statuses == {202, 400, 401, 405, 413, 415, 429, 500, 503}

ServerTypeOK ==
    /\ phase \in {"building", "serving", "draining", "closing", "exited"}
    /\ http \in [Requests -> Statuses \cup {NotSent, Handling, Aborted}]
    /\ expired \in BOOLEAN

\* A request the server took is answered, or its connection is cut: no step of
\* handleLogs and of what it calls waits for ever, neither for a place in workCh
\* nor, where it saves to files, for a mutex another call has kept.
RequestsAreAnswered ==
    \A r \in Requests : (http[r] = Handling) ~> (http[r] # Handling)

=============================================================================
