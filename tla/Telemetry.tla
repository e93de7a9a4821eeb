----------------------------- MODULE Telemetry -----------------------------
(***************************************************************************)
(* The telemetry worker that pg_lakehouse and its sister extensions start  *)
(* (src/datafusion/shared/src/telemetry): a background process of the      *)
(* server that reports the extension's deployment once and the size of its *)
(* directory twice a day.                                                  *)
(*                                                                         *)
(* One extension; the workers of several share nothing.  The build has     *)
(* telemetry compiled in.  The worker is never restarted but by a start of *)
(* the server.  The service keeps what it receives.  Times are hours.      *)
(***************************************************************************)
EXTENDS Naturals, FiniteSets

CONSTANTS
  Interval,   \* directory_check_interval
  Uuids,      \* those Uuid::new_v4 may give, never the same twice
  MaxTime, MaxRemovals, MaxFaults,  \* bounds
  None, Garbage   \* of the uuid file: no file, no uuid in it

ASSUME TelemetryAssumption ==
  /\ Interval \in Nat \ {0} /\ MaxTime \in Nat
  /\ MaxRemovals \in Nat /\ MaxFaults \in Nat
  /\ None \notin Uuids /\ Garbage \notin Uuids /\ None # Garbage

Events == {"Deployment", "DirectoryStatus"}

VARIABLES
  server,    \* up, stopping or down
  now,
  config,    \* paradedb.<extension>_telemetry in the server's configuration
  file,      \* the uuid file in the data directory
  used,      \* the uuids that were generated
  pc,        \* where the worker is
  event, uuid,  \* what it is about to send
  setting,   \* the setting as its process has it
  spi,       \* the number of times its process connected to SPI
  last,      \* last_action_time
  term,      \* sigterm_received
  deployments,  \* at the service: the number of Deployment events
  ids,          \* ... the uuids of all events
  directory,    \* ... and when the last DirectoryStatus was received
  removals,  \* history: the times the file was removed or damaged
  unseen,    \* history: the times a file that is there was not found
  unread,    \* history: the times a file with a uuid could not be read
  late       \* history: events sent since the process learned that it must not

Worker == <<pc, event, uuid, setting, spi, last, term>>
Service == <<deployments, ids, directory, late>>
Losses == <<removals, unseen, unread>>
vars == <<server, now, config, file, used, Worker, Service, Losses>>

Running == {"starting", "creating", "writing", "checking", "sending", "answering", "asleep",
            "polling"}
Places == Running \cup {"none", "dead"}  \* dead until the server starts again

Alive == pc \in Running

-----------------------------------------------------------------------------
(* extension_uuid, send_deployment and send_directory_check.               *)

\* Any error of reading or parsing leads to a new uuid, also one that a file
\* with a uuid gives once.
ExtensionUuid(e) ==
  /\ event' = e
  /\ \/ file \in Uuids /\ pc' = "checking" /\ uuid' = file /\ UNCHANGED unread
     \/ file \notin Uuids /\ pc' = "creating" /\ UNCHANGED <<uuid, unread>>
     \/ /\ file \in Uuids /\ unread < MaxFaults
        /\ pc' = "creating" /\ unread' = unread + 1 /\ UNCHANGED uuid

\* Mutant: the file is not looked for.
SendDeploymentAgain ==
  /\ pc = "starting"
  /\ ExtensionUuid("Deployment")
  /\ UNCHANGED <<server, now, config, file, used, setting, spi, last, term, Service, removals,
                 unseen>>

\* Any file means that the extension has been deployed before; `exists` is false
\* for a file it cannot look at.
SendDeployment ==
  /\ pc = "starting"
  /\ \/ file # None /\ pc' = "asleep" /\ UNCHANGED <<event, uuid, unseen, unread>>
     \/ file = None /\ ExtensionUuid("Deployment") /\ UNCHANGED unseen
     \/ /\ file # None /\ unseen < MaxFaults
        /\ ExtensionUuid("Deployment") /\ unseen' = unseen + 1
  /\ UNCHANGED <<server, now, config, file, used, setting, spi, last, term, Service, removals>>

\* fs::write creates the file or empties it ...
OpenFile ==
  /\ pc = "creating"
  /\ file' = Garbage
  /\ pc' = "writing"
  /\ UNCHANGED <<server, now, config, used, event, uuid, setting, spi, last, term, Service,
                 Losses>>

\* ... and then fills it, though its name may be gone.
CreateUuid ==
  /\ pc = "writing"
  /\ \E u \in Uuids \ used :
       file' = (IF file = None THEN None ELSE u) /\ uuid' = u /\ used' = used \cup {u}
  /\ pc' = "checking"
  /\ UNCHANGED <<server, now, config, event, setting, spi, last, term, Service, Losses>>

Due == now - last >= Interval

\* The end of a sleep.
Wake ==
  /\ pc = "asleep"
  /\ IF Due THEN ExtensionUuid("DirectoryStatus")
     ELSE pc' = "polling" /\ UNCHANGED <<event, uuid, unread>>
  /\ UNCHANGED <<server, now, config, file, used, setting, spi, last, term, Service, removals,
                 unseen>>

-----------------------------------------------------------------------------
(* send.                                                                    *)

\* Mutant: last_action_time stays.
DoneUnnoted == (pc' = IF event = "Deployment" THEN "asleep" ELSE "polling") /\ UNCHANGED last

\* send returned Ok.
Done ==
  /\ pc' = IF event = "Deployment" THEN "asleep" ELSE "polling"
  /\ last' = IF event = "Deployment" THEN last ELSE now

\* Mutant: connect at every check.
ConnectAgain == spi' = spi + 1

\* CONNECTED_TO_SPI.
Connect == spi' = IF spi = 0 THEN 1 ELSE spi

\* Mutant: disabled telemetry is noticed at the start only.
EnabledAtStart == setting \/ spi > 0

Enabled == setting

\* check_telemetry_setting.
TelemetryEnabled ==
  /\ pc = "checking"
  /\ Connect
  /\ IF Enabled THEN pc' = "sending" /\ UNCHANGED last ELSE Done
  /\ UNCHANGED <<server, now, config, file, used, event, uuid, setting, term, Service, Losses>>

\* The service receives the event.
Post ==
  /\ pc = "sending"
  /\ pc' = "answering"
  /\ ids' = ids \cup {uuid}
  /\ late' = IF setting THEN 0 ELSE late + 1
  /\ IF event = "Deployment"
     THEN deployments' = deployments + 1 /\ UNCHANGED directory
     ELSE directory' = now /\ UNCHANGED deployments
  /\ UNCHANGED <<server, now, config, file, used, event, uuid, setting, spi, last, term, Losses>>

\* The worker has its answer; its status does not matter.
Answer ==
  /\ pc = "answering"
  /\ Done
  /\ UNCHANGED <<server, now, config, file, used, event, uuid, setting, spi, term, Service, Losses>>

\* An error, of the file system, of SPI or of the network, before or after the
\* service received the event: the worker panics.
Fails ==
  /\ pc \in {"creating", "writing", "checking", "sending", "answering"}
  /\ pc' = "dead"
  /\ UNCHANGED <<server, now, config, file, used, event, uuid, setting, spi, last, term, Service,
                 Losses>>

\* Mutant: the loop polls only when there was something to send.
PollAfterSend ==
  /\ pc = "polling"
  /\ pc' = IF term /\ last = now THEN "dead" ELSE "asleep"
  /\ UNCHANGED <<server, now, config, file, used, event, uuid, setting, spi, last, term, Service,
                 Losses>>

Poll ==
  /\ pc = "polling"
  /\ pc' = IF term THEN "dead" ELSE "asleep"
  /\ UNCHANGED <<server, now, config, file, used, event, uuid, setting, spi, last, term, Service,
                 Losses>>

Step == \/ SendDeployment \/ OpenFile \/ CreateUuid
        \/ Wake \/ TelemetryEnabled \/ Post \/ Answer \/ Poll

-----------------------------------------------------------------------------
(* The server, its administrator and time.                                 *)

\* _PG_init registers the worker, telemetry_worker runs when recovery is over.
Start ==
  /\ server = "down"
  /\ server' = "up"
  /\ pc' = "starting" /\ setting' = config /\ spi' = 0 /\ last' = now /\ term' = FALSE
  /\ late' = 0
  /\ UNCHANGED <<now, config, file, used, event, uuid, deployments, ids, directory, Losses>>

\* pg_ctl stop: SIGTERM for the worker, which the server waits for.
Stop ==
  /\ server = "up"
  /\ server' = "stopping"
  /\ term' = TRUE
  /\ UNCHANGED <<now, config, file, used, pc, event, uuid, setting, spi, last, Service, Losses>>

Stopped ==
  /\ server = "stopping" /\ ~Alive
  /\ server' = "down"
  /\ pc' = "none"
  /\ UNCHANGED <<now, config, file, used, event, uuid, setting, spi, last, term, Service, Losses>>

\* A crash, or pg_ctl stop -m immediate.
Crash ==
  /\ server # "down"
  /\ server' = "down"
  /\ pc' = "none"
  /\ UNCHANGED <<now, config, file, used, event, uuid, setting, spi, last, term, Service, Losses>>

\* pg_terminate_backend.
Terminate ==
  /\ Alive /\ ~term
  /\ term' = TRUE
  /\ UNCHANGED <<server, now, config, file, used, pc, event, uuid, setting, spi, last, Service,
                 Losses>>

\* ALTER SYSTEM SET.
Configure ==
  /\ config' = ~config
  /\ UNCHANGED <<server, now, file, used, Worker, Service, Losses>>

\* SIGHUP makes the process read the configuration.
Reload ==
  /\ Alive /\ setting # config
  /\ setting' = config
  /\ late' = 0
  /\ UNCHANGED <<server, now, config, file, used, pc, event, uuid, spi, last, term,
                 deployments, ids, directory, Losses>>

RemoveFile ==
  /\ removals < MaxRemovals
  /\ \E f \in {None, Garbage} : f # file /\ file' = f
  /\ removals' = removals + 1
  /\ UNCHANGED <<server, now, config, used, Worker, Service, unseen, unread>>

Tick ==
  /\ now < MaxTime
  /\ now' = now + 1
  /\ UNCHANGED <<server, config, file, used, Worker, Service, Losses>>

-----------------------------------------------------------------------------
Init ==
  /\ server = "down" /\ now = 0 /\ config = TRUE
  /\ file = None /\ used = {}
  /\ pc = "none" /\ event = "Deployment" /\ uuid = None
  /\ setting = FALSE /\ spi = 0 /\ last = 0 /\ term = FALSE
  /\ deployments = 0 /\ ids = {} /\ directory = None
  /\ removals = 0 /\ unseen = 0 /\ unread = 0 /\ late = 0

Next == \/ Step \/ Fails
        \/ Start \/ Stop \/ Stopped \/ Crash \/ Terminate
        \/ Configure \/ Reload \/ RemoveFile \/ Tick

Spec == Init /\ [][Next]_vars

\* The process is scheduled, every call it makes returns, and the server notices
\* its end.
FairSpec == Spec /\ WF_vars(Step) /\ WF_vars(Stopped)

-----------------------------------------------------------------------------
(* Correctness.                                                             *)

\* A worker connects to SPI at most once, or it crashes (bgworker.rs).
TypeOK ==
  /\ server \in {"up", "stopping", "down"}
  /\ now \in Nat /\ last \in 0..now
  /\ config \in BOOLEAN /\ setting \in BOOLEAN /\ term \in BOOLEAN
  /\ file \in Uuids \cup {None, Garbage} /\ used \subseteq Uuids
  /\ pc \in Places /\ event \in Events /\ uuid \in Uuids \cup {None}
  /\ spi \in {0, 1}
  /\ deployments \in Nat /\ ids \subseteq used
  /\ directory \in 0..now \cup {None}
  /\ server = "down" <=> pc = "none"
  /\ removals \in Nat /\ unseen \in Nat /\ unread \in Nat /\ late \in Nat

\* However often the server crashes, restarts or the network fails, the service
\* hears of a deployment once, and once more for each time the file was lost or
\* not found (the file is there before the event); of one uuid in all events,
\* and one more for each time it was lost or could not be read.
DeployedOnce ==
  /\ deployments <= 1 + removals + unseen
  /\ Cardinality(ids) <= 1 + removals + unread

\* Once its process knows that telemetry is disabled, at most the one event that
\* was checked before goes out.
DisabledIsSilent == late <= 1

\* The service hears of the directory at most twice a day, from whichever runs of
\* the worker.
DirectoryChecksApart ==
  [][Post /\ event = "DirectoryStatus" /\ directory # None => now - directory >= Interval]_vars

\* SIGTERM ends the worker, whatever it is about; so a server that is told to stop
\* stops.
WorkerEnds ==
  /\ (Alive /\ term) ~> ~Alive
  /\ server = "stopping" ~> server = "down"

=============================================================================
