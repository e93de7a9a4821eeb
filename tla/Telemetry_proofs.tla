-------------------------- MODULE Telemetry_proofs --------------------------
(***************************************************************************)
(* Proofs about Telemetry: one deployment and one identity per data        *)
(* directory, silence once disabled, and directory checks apart.           *)
(***************************************************************************)
EXTENDS Telemetry, FiniteSetTheorems, TLAPS

\* An event is prepared; a check for the directory is due.
Preparing == pc \in {"creating", "writing", "checking", "sending"}

\* A uuid that is on file, or about to be sent, is one that was generated.
UuidInv ==
  /\ IsFiniteSet(used)
  /\ file \in Uuids => file \in used
  /\ pc \in {"checking", "sending", "answering"} => uuid \in used

\* Until there is a new one, each uuid was lost with the file, or is about to be.
LossInv ==
  /\ Cardinality(used) <= 1 + removals + unread
  /\ file \notin Uuids \/ pc \in {"creating", "writing"} => Cardinality(used) <= removals + unread
  /\ file = None /\ pc = "writing" => Cardinality(used) + 1 <= removals + unread

\* A deployment that is about to be sent counts as sent; as long as there is no
\* file, and none is being made, one is missing.
InFlight == IF Preparing /\ event = "Deployment" THEN 1 ELSE 0
DeployInv ==
  /\ deployments + InFlight <= 1 + removals + unseen
  /\ file = None => deployments <= removals + unseen
  /\ file = None /\ pc # "creating" => deployments + InFlight <= removals + unseen

\* The event that was checked before has gone out.
SilentInv == late <= 1 /\ (late = 1 => ~setting /\ pc # "sending")

\* What was sent is known to the worker, except while it waits for the answer.
ApartInv ==
  /\ Preparing /\ event = "DirectoryStatus" => Due
  /\ directory # None /\ Alive /\ (pc = "answering" => event = "Deployment")
       => directory <= last

IInv == TypeOK /\ UuidInv /\ LossInv /\ DeployInv /\ SilentInv /\ ApartInv

USE TelemetryAssumption

LEMMA InitInv == Init => IInv
PROOF
<1> SUFFICES ASSUME Init PROVE IInv
  OBVIOUS
<1>1. TypeOK
  <2>1. now \in Nat /\ last \in 0..now /\ spi \in {0, 1} /\ deployments \in Nat
        /\ directory \in 0..now \cup {None} /\ removals \in Nat /\ unseen \in Nat
        /\ unread \in Nat /\ late \in Nat
    BY DEF Init
  <2>2. config \in BOOLEAN /\ setting \in BOOLEAN /\ term \in BOOLEAN
    BY DEF Init
  <2>3. file \in Uuids \cup {None, Garbage} /\ used \subseteq Uuids /\ ids \subseteq used
        /\ uuid \in Uuids \cup {None} /\ event \in Events
    BY DEF Init, Events
  <2>4. server \in {"up", "stopping", "down"} /\ pc \in Places /\ (server = "down" <=> pc = "none")
    BY DEF Init, Places, Running
  <2>. QED BY <2>1, <2>2, <2>3, <2>4 DEF TypeOK
<1>2. UuidInv /\ LossInv
  BY FS_EmptySet DEF Init, UuidInv, LossInv
<1>3. DeployInv /\ SilentInv /\ ApartInv
  BY DEF Init, DeployInv, InFlight, Preparing, SilentInv, ApartInv, Alive, Running
<1>. QED BY <1>1, <1>2, <1>3 DEF IInv

-----------------------------------------------------------------------------
(* Each action of the worker and of its surroundings keeps the invariant.  *)

LEMMA SendDeploymentInv == IInv /\ SendDeployment => IInv'
PROOF
<1> SUFFICES ASSUME IInv, SendDeployment PROVE IInv'
  OBVIOUS
<1> USE DEF IInv, SendDeployment, ExtensionUuid, Service, Losses
<1>1. TypeOK'
  BY DEF TypeOK, Places, Running, Events
<1>2. UuidInv' /\ LossInv'
  <2>1. Cardinality(used) \in Nat
    BY FS_CardinalityType DEF UuidInv
  <2>. QED BY <2>1 DEF TypeOK, UuidInv, LossInv
<1>3. DeployInv'
  BY DEF TypeOK, DeployInv, InFlight, Preparing
<1>4. SilentInv' /\ ApartInv'
  BY DEF TypeOK, SilentInv, ApartInv, Preparing, Due, Alive, Running
<1>. QED BY <1>1, <1>2, <1>3, <1>4

LEMMA OpenFileInv == IInv /\ OpenFile => IInv'
PROOF
<1> SUFFICES ASSUME IInv, OpenFile PROVE IInv'
  OBVIOUS
<1> USE DEF IInv, OpenFile, Service, Losses
<1>1. TypeOK'
  BY DEF TypeOK, Places, Running, Events
<1>2. UuidInv' /\ LossInv'
  BY DEF TypeOK, UuidInv, LossInv
<1>3. DeployInv'
  BY DEF TypeOK, DeployInv, InFlight, Preparing
<1>4. SilentInv' /\ ApartInv'
  BY DEF TypeOK, SilentInv, ApartInv, Preparing, Due, Alive, Running
<1>. QED BY <1>1, <1>2, <1>3, <1>4

LEMMA CreateUuidInv == IInv /\ CreateUuid => IInv'
PROOF
<1> SUFFICES ASSUME IInv, CreateUuid PROVE IInv'
  OBVIOUS
<1> USE DEF IInv, CreateUuid, Service, Losses
<1>1. TypeOK'
  BY DEF TypeOK, Places, Running, Events
<1>2. UuidInv' /\ LossInv'
  <2>1. PICK u \in Uuids \ used :
           file' = (IF file = None THEN None ELSE u) /\ uuid' = u /\ used' = used \cup {u}
    OBVIOUS
  <2>2. IsFiniteSet(used') /\ Cardinality(used') = Cardinality(used) + 1
    BY <2>1, FS_AddElement DEF UuidInv
  <2>3. Cardinality(used) \in Nat
    BY FS_CardinalityType DEF UuidInv
  <2>. QED BY <2>1, <2>2, <2>3 DEF TypeOK, UuidInv, LossInv
<1>3. DeployInv'
  BY DEF TypeOK, DeployInv, InFlight, Preparing
<1>4. SilentInv' /\ ApartInv'
  BY DEF TypeOK, SilentInv, ApartInv, Preparing, Due, Alive, Running
<1>. QED BY <1>1, <1>2, <1>3, <1>4

LEMMA WakeInv == IInv /\ Wake => IInv'
PROOF
<1> SUFFICES ASSUME IInv, Wake PROVE IInv'
  OBVIOUS
<1> USE DEF IInv, Wake, ExtensionUuid, Service, Losses
<1>1. TypeOK'
  BY DEF TypeOK, Places, Running, Events
<1>2. UuidInv' /\ LossInv'
  <2>1. Cardinality(used) \in Nat
    BY FS_CardinalityType DEF UuidInv
  <2>. QED BY <2>1 DEF TypeOK, UuidInv, LossInv
<1>3. DeployInv'
  BY DEF TypeOK, DeployInv, InFlight, Preparing
<1>4. SilentInv' /\ ApartInv'
  BY DEF TypeOK, SilentInv, ApartInv, Preparing, Due, Alive, Running
<1>. QED BY <1>1, <1>2, <1>3, <1>4

LEMMA TelemetryEnabledInv == IInv /\ TelemetryEnabled => IInv'
PROOF
<1> SUFFICES ASSUME IInv, TelemetryEnabled PROVE IInv'
  OBVIOUS
<1> USE DEF IInv, TelemetryEnabled, Connect, Enabled, Done, Service, Losses
<1>1. TypeOK'
  BY DEF TypeOK, Places, Running, Events
<1>2. UuidInv' /\ LossInv'
  BY DEF TypeOK, UuidInv, LossInv
<1>3. DeployInv'
  BY DEF TypeOK, DeployInv, InFlight, Preparing
<1>4. SilentInv' /\ ApartInv'
  BY DEF TypeOK, Events, SilentInv, ApartInv, Preparing, Due, Alive, Running
<1>. QED BY <1>1, <1>2, <1>3, <1>4

LEMMA PostInv == IInv /\ Post => IInv'
PROOF
<1> SUFFICES ASSUME IInv, Post PROVE IInv'
  OBVIOUS
<1> USE DEF IInv, Post, Service, Losses
<1>1. TypeOK'
  BY DEF TypeOK, UuidInv, Places, Running, Events
<1>2. UuidInv' /\ LossInv'
  BY DEF TypeOK, UuidInv, LossInv
<1>3. DeployInv'
  BY DEF TypeOK, DeployInv, InFlight, Preparing
<1>4. SilentInv' /\ ApartInv'
  BY DEF TypeOK, Events, SilentInv, ApartInv, Preparing, Due, Alive, Running
<1>. QED BY <1>1, <1>2, <1>3, <1>4

LEMMA AnswerInv == IInv /\ Answer => IInv'
PROOF
<1> SUFFICES ASSUME IInv, Answer PROVE IInv'
  OBVIOUS
<1> USE DEF IInv, Answer, Done, Service, Losses
<1>1. TypeOK'
  BY DEF TypeOK, Places, Running, Events
<1>2. UuidInv' /\ LossInv'
  BY DEF TypeOK, UuidInv, LossInv
<1>3. DeployInv'
  BY DEF TypeOK, DeployInv, InFlight, Preparing
<1>4. SilentInv' /\ ApartInv'
  BY DEF TypeOK, Events, SilentInv, ApartInv, Preparing, Due, Alive, Running
<1>. QED BY <1>1, <1>2, <1>3, <1>4

\* Steps after which the worker has nothing more to send until it wakes or starts.
LEMMA RestInv == IInv /\ (Fails \/ Poll \/ Start \/ Stopped \/ Crash) => IInv'
PROOF
<1> SUFFICES ASSUME IInv, Fails \/ Poll \/ Start \/ Stopped \/ Crash PROVE IInv'
  OBVIOUS
<1> USE DEF IInv, Fails, Poll, Start, Stopped, Crash, Service, Losses
<1>1. TypeOK'
  <2>1. now' \in Nat /\ last' \in 0..now' /\ directory' \in 0..now' \cup {None}
    BY DEF TypeOK
  <2>2. config' \in BOOLEAN /\ setting' \in BOOLEAN /\ term' \in BOOLEAN
    BY DEF TypeOK
  <2>3. file' \in Uuids \cup {None, Garbage} /\ used' \subseteq Uuids /\ ids' \subseteq used'
        /\ uuid' \in Uuids \cup {None} /\ event' \in Events
    BY DEF TypeOK
  <2>4. server' \in {"up", "stopping", "down"} /\ pc' \in Places
        /\ (server' = "down" <=> pc' = "none")
    BY DEF TypeOK, Places, Running, Alive
  <2>5. spi' \in {0, 1} /\ deployments' \in Nat /\ removals' \in Nat
        /\ unseen' \in Nat /\ unread' \in Nat /\ late' \in Nat
    BY DEF TypeOK
  <2>. QED BY <2>1, <2>2, <2>3, <2>4, <2>5 DEF TypeOK
<1>2. UuidInv' /\ LossInv'
  BY DEF TypeOK, UuidInv, LossInv
<1>3. DeployInv'
  BY DEF TypeOK, DeployInv, InFlight, Preparing
<1>4. SilentInv' /\ ApartInv'
  BY DEF TypeOK, Events, SilentInv, ApartInv, Preparing, Due, Alive, Running
<1>. QED BY <1>1, <1>2, <1>3, <1>4

\* Steps of others, which leave the worker where it is.
LEMMA OutsideInv ==
  IInv /\ (Stop \/ Terminate \/ Configure \/ Reload \/ RemoveFile \/ Tick \/ UNCHANGED vars) => IInv'
PROOF
<1> SUFFICES ASSUME IInv,
                    Stop \/ Terminate \/ Configure \/ Reload \/ RemoveFile \/ Tick \/ UNCHANGED vars
             PROVE  IInv'
  OBVIOUS
<1> USE DEF IInv, Stop, Terminate, Configure, Reload, RemoveFile, Tick, vars, Worker, Service, Losses
<1>1. TypeOK'
  <2>1. now' \in Nat /\ last' \in 0..now' /\ directory' \in 0..now' \cup {None}
    BY DEF TypeOK
  <2>2. config' \in BOOLEAN /\ setting' \in BOOLEAN /\ term' \in BOOLEAN
    BY DEF TypeOK
  <2>3. file' \in Uuids \cup {None, Garbage} /\ used' \subseteq Uuids /\ ids' \subseteq used'
        /\ uuid' \in Uuids \cup {None} /\ event' \in Events
    BY DEF TypeOK
  <2>4. server' \in {"up", "stopping", "down"} /\ pc' \in Places
        /\ (server' = "down" <=> pc' = "none")
    BY DEF TypeOK, Places, Running, Alive
  <2>5. spi' \in {0, 1} /\ deployments' \in Nat /\ removals' \in Nat
        /\ unseen' \in Nat /\ unread' \in Nat /\ late' \in Nat
    BY DEF TypeOK
  <2>. QED BY <2>1, <2>2, <2>3, <2>4, <2>5 DEF TypeOK
<1>2. UuidInv' /\ LossInv'
  <2>1. Cardinality(used) \in Nat
    BY FS_CardinalityType DEF UuidInv
  <2>. QED BY <2>1 DEF TypeOK, UuidInv, LossInv
<1>3. DeployInv'
  BY DEF TypeOK, DeployInv, InFlight, Preparing
<1>4. SilentInv' /\ ApartInv'
  BY DEF TypeOK, Events, SilentInv, ApartInv, Preparing, Due, Alive, Running
<1>. QED BY <1>1, <1>2, <1>3, <1>4

LEMMA StepInv == IInv /\ [Next]_vars => IInv'
PROOF
BY SendDeploymentInv, OpenFileInv, CreateUuidInv, WakeInv, TelemetryEnabledInv, PostInv, AnswerInv,
   RestInv, OutsideInv
   DEF Next, Step

LEMMA Invariance == Spec => []IInv
PROOF
BY InitInv, StepInv, PTL DEF Spec

-----------------------------------------------------------------------------
(* The properties.                                                         *)

\* The types of the worker, its server and the service; above all that no process
\* connects to SPI twice.
THEOREM TypeCorrect == Spec => []TypeOK
PROOF
<1>1. IInv => TypeOK
  BY DEF IInv
<1>. QED BY Invariance, <1>1, PTL

\* For any interval and any number of starts and crashes the service hears of a
\* deployment once, and once more for each time the file was lost or not found;
\* of one uuid, and one more for each time it was lost or not read.
THEOREM AlwaysDeployedOnce == Spec => []DeployedOnce
PROOF
<1>1. IInv => DeployedOnce
  <2> SUFFICES ASSUME IInv PROVE DeployedOnce
    OBVIOUS
  <2>1. deployments <= 1 + removals + unseen
    BY DEF IInv, TypeOK, DeployInv, InFlight
  <2>2. Cardinality(ids) <= Cardinality(used) /\ Cardinality(ids) \in Nat
    BY FS_Subset, FS_CardinalityType DEF IInv, TypeOK, UuidInv
  <2>3. Cardinality(ids) <= 1 + removals + unread
    BY <2>2, FS_CardinalityType DEF IInv, TypeOK, UuidInv, LossInv
  <2>. QED BY <2>1, <2>3 DEF DeployedOnce
<1>. QED BY Invariance, <1>1, PTL

\* A worker whose process knows that telemetry is disabled sends at most the event
\* it had already checked.
THEOREM AlwaysSilent == Spec => []DisabledIsSilent
PROOF
<1>1. IInv => DisabledIsSilent
  BY DEF IInv, SilentInv, DisabledIsSilent
<1>. QED BY Invariance, <1>1, PTL

\* The service never hears of the directory twice within the interval, from
\* whichever runs of the worker.
THEOREM ChecksAlwaysApart == Spec => DirectoryChecksApart
PROOF
<1> DEFINE Apart == Post /\ event = "DirectoryStatus" /\ directory # None
                      => now - directory >= Interval
<1>1. IInv => Apart
  <2> SUFFICES ASSUME IInv, Post, event = "DirectoryStatus", directory # None
               PROVE  now - directory >= Interval
    OBVIOUS
  <2>1. now - last >= Interval /\ directory <= last
    BY DEF Post, IInv, ApartInv, Preparing, Due, Alive, Running
  <2>. QED BY <2>1 DEF IInv, TypeOK
<1>2. []IInv => [][Apart]_vars
  BY <1>1, PTL
<1>. QED BY Invariance, <1>2, PTL DEF DirectoryChecksApart

=============================================================================
