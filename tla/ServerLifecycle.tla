--------------------------- MODULE ServerLifecycle ---------------------------
(***************************************************************************)
(* The life of a broker process, from StartWithContext in                  *)
(* internal/broker/server.go to its deferred calls, with the health flags  *)
(* of internal/metrics/health.go and the kubelet that probes them and      *)
(* starts the container again.  The process holds a NATS connection that   *)
(* may drop and come back at any moment; the nats.go library tells the     *)
(* broker later, in order, through its callbacks.                          *)
(*                                                                         *)
(* The hot reload that runs inside the process is ConfigWatcher itself: a  *)
(* step of the system is a step of the server, of the connection, of the   *)
(* kubelet, or of the watcher.                                             *)
(*                                                                         *)
(* Metrics are taken to be enabled, since nothing probes the broker        *)
(* otherwise.  The start reads the files in one step: ConfigWatcher has    *)
(* the reads that interleave with edits.                                   *)
(***************************************************************************)
EXTENDS Integers, Sequences

CONSTANTS
  NumFiles, Watched, Valid, Broken, NumIdps, Required, Changes, MaxVersion,
  MaxQueue,        \* as in ConfigWatcher
  MaxCallbacks,    \* bound: callbacks the connection has not yet run
  MaxMishaps       \* bound: times a process is ended from outside

VARIABLES
  disk, idpUp, queue, loop, timer, stopCh, cursor, read, found, live, outcome,
  unheard,         \* as in ConfigWatcher
  natsUp,          \* the NATS servers can be reached
  phase,           \* where StartWithContext is; "down" when no process runs
  conn,            \* the NATS connection, as the library sees it
  callbacks,       \* what the callbacks not yet run will tell SetNATSConnected
  sampled,         \* what nc.IsConnected told SetNATSConn
  health,          \* the HealthChecker
  sigterm,         \* the process has been told to end
  mishaps,         \* how often a process was ended from outside
  told             \* history: a callback has run since SetNATSConn returned

watcherVars == <<disk, idpUp, queue, loop, timer, stopCh, cursor, read, found,
                 live, outcome, unheard>>

serverVars == <<phase, conn, callbacks, sampled, health, sigterm, told>>

vars == <<watcherVars, natsUp, mishaps, serverVars>>

Watcher == INSTANCE ConfigWatcher

Idps == Watcher!Idps

ASSUME LifecycleAssumption ==
  /\ Watcher!Parameters
  /\ MaxCallbacks \in Nat \ {0}
  /\ MaxMishaps \in Nat

(***************************************************************************)
(* health.go.                                                              *)
(***************************************************************************)
NewHealthChecker ==
  [nc |-> FALSE, natsConnected |-> FALSE, idpVerifiersReady |-> FALSE,
   serviceRegistered |-> FALSE]

\* nc.IsConnected, which holds of a connection that is being drained, too.
IsConnected == conn \in {"up", "draining"}

\* Fault: /healthz answers for the process alone.
IsAliveAlways == TRUE

IsAlive == health.nc => health.natsConnected

IsReady ==
  /\ health.natsConnected
  /\ health.idpVerifiersReady
  /\ health.serviceRegistered

(***************************************************************************)
(* The end of a process takes with it all it had in memory; live remains   *)
(* as the record of what was last published.                               *)
(***************************************************************************)
Running == phase # "down"

Exit ==
  /\ phase' = "down"
  /\ conn' = "none"
  /\ callbacks' = <<>>
  /\ sampled' = FALSE
  /\ health' = NewHealthChecker
  /\ sigterm' = FALSE
  /\ told' = FALSE
  /\ loop' = "off"
  /\ queue' = <<>>
  /\ timer' = "idle"
  /\ stopCh' = "open"
  /\ cursor' = 1
  /\ found' = {}
  /\ outcome' = "ok"
  /\ UNCHANGED <<disk, idpUp, read, live, unheard, natsUp>>

(***************************************************************************)
(* StartWithContext, one action per call that matters.                     *)
(***************************************************************************)
\* Fault: the start takes a configuration that was not validated.
LoadConfigUnchecked ==
  /\ phase = "down"
  /\ phase' = "connecting"
  /\ read' = disk
  /\ unheard' = [f \in Watcher!Files |-> "heard"]
  /\ UNCHANGED <<disk, idpUp, queue, loop, timer, stopCh, cursor, found, live,
                 outcome, natsUp, mishaps, conn, callbacks, sampled, health, sigterm, told>>

\* A configuration that does not load ends the process before it did anything.
LoadConfig ==
  /\ phase = "down"
  /\ Watcher!Usable
  /\ phase' = "connecting"
  /\ read' = disk
  /\ unheard' = [f \in Watcher!Files |-> "heard"]
  /\ UNCHANGED <<disk, idpUp, queue, loop, timer, stopCh, cursor, found, live,
                 outcome, natsUp, mishaps, conn, callbacks, sampled, health, sigterm, told>>

\* Fault: the error of nats.Connect is not looked at.
ConnectUnchecked ==
  /\ phase = "connecting"
  /\ conn' = IF natsUp THEN "up" ELSE "none"
  /\ phase' = "storing"
  /\ UNCHANGED <<watcherVars, natsUp, mishaps, callbacks, sampled, health, sigterm, told>>

\* nats.Connect does not retry the first connection.
Connect ==
  /\ phase = "connecting"
  /\ IF natsUp
       THEN /\ conn' = "up"
            /\ phase' = "storing"
            /\ UNCHANGED <<watcherVars, natsUp, mishaps, callbacks, sampled, health, sigterm, told>>
       ELSE Exit /\ UNCHANGED mishaps

\* SetNATSConn stores the connection, asks it, and stores the answer.
StoreConn ==
  /\ phase = "storing"
  /\ phase' = "sampling"
  /\ health' = [health EXCEPT !.nc = TRUE]
  /\ UNCHANGED <<watcherVars, natsUp, mishaps, conn, callbacks, sampled, sigterm, told>>

SampleConn ==
  /\ phase = "sampling"
  /\ phase' = "flagging"
  /\ sampled' = IsConnected
  /\ UNCHANGED <<watcherVars, natsUp, mishaps, conn, callbacks, health, sigterm, told>>

FlagConn ==
  /\ phase = "flagging"
  /\ phase' = "discovering"
  /\ health' = [health EXCEPT !.natsConnected = sampled]
  /\ told' = FALSE
  /\ UNCHANGED <<watcherVars, natsUp, mishaps, conn, callbacks, sampled, sigterm>>

\* Fault: an IdP that cannot be set up never stops the start.
SetUpIdpLenient ==
  /\ phase = "discovering"
  /\ cursor \in Idps
  /\ found' = found \cup ({cursor} \cap idpUp)
  /\ cursor' = cursor + 1
  /\ UNCHANGED <<disk, idpUp, queue, loop, timer, stopCh, read, live, outcome,
                 unheard, natsUp, mishaps, serverVars>>

\* NewIdpVerifiers, IdP after IdP.
SetUpIdp ==
  /\ phase = "discovering"
  /\ cursor \in Idps
  /\ IF cursor \in Required \ idpUp
       THEN Exit /\ UNCHANGED mishaps
       ELSE /\ found' = found \cup ({cursor} \cap idpUp)
            /\ cursor' = cursor + 1
            /\ UNCHANGED <<disk, idpUp, queue, loop, timer, stopCh, read, live,
                           outcome, unheard, natsUp, mishaps, serverVars>>

\* SetIDPVerifiersReady, and the initial LiveState.
BuildLiveState ==
  /\ phase = "discovering"
  /\ cursor > NumIdps
  /\ phase' = "watching"
  /\ health' = [health EXCEPT !.idpVerifiersReady = found # {}]
  /\ live' = [files |-> read, verifiers |-> found]
  /\ cursor' = 1
  /\ found' = {}
  /\ UNCHANGED <<disk, idpUp, queue, loop, timer, stopCh, read, outcome, unheard,
                 natsUp, mishaps, conn, callbacks, sampled, sigterm, told>>

\* watcher.Start; hot reload may be off, and its failure is not fatal.
StartWatcher ==
  /\ phase = "watching"
  /\ phase' = "registering"
  /\ Watcher!StartWatching \/ UNCHANGED watcherVars
  /\ UNCHANGED <<natsUp, mishaps, conn, callbacks, sampled, health, sigterm, told>>

\* micro.AddService, which only a closed connection refuses, and then
\* SetServiceRegistered.
Register ==
  /\ phase = "registering"
  /\ IF conn = "closed"
       THEN Exit /\ UNCHANGED mishaps
       ELSE /\ phase' = "announcing"
            /\ UNCHANGED <<watcherVars, natsUp, mishaps, conn, callbacks, sampled,
                           health, sigterm, told>>

Announce ==
  /\ phase = "announcing"
  /\ phase' = "serving"
  /\ health' = [health EXCEPT !.serviceRegistered = TRUE]
  /\ UNCHANGED <<watcherVars, natsUp, mishaps, conn, callbacks, sampled, sigterm, told>>

(***************************************************************************)
(* <-ctx.Done() and the deferred calls.                                    *)
(***************************************************************************)
LeaveWait ==
  /\ phase = "serving"
  /\ sigterm
  /\ phase' = "stopping"
  /\ UNCHANGED <<watcherVars, natsUp, mishaps, conn, callbacks, sampled, health, sigterm, told>>

StopWatcher ==
  /\ phase = "stopping"
  /\ phase' = "draining"
  /\ IF loop = "off" THEN UNCHANGED watcherVars ELSE Watcher!Stop
  /\ UNCHANGED <<natsUp, mishaps, conn, callbacks, sampled, health, sigterm, told>>

\* nc.Drain returns at once; a connection that is down it closes.
Drain ==
  /\ phase = "draining"
  /\ phase' = "ending"
  /\ CASE conn = "up"           -> conn' = "draining" /\ UNCHANGED callbacks
       [] conn = "reconnecting" -> conn' = "closed" /\ callbacks' = Append(callbacks, FALSE)
       [] conn = "closed"       -> UNCHANGED <<conn, callbacks>>
  /\ UNCHANGED <<watcherVars, natsUp, mishaps, sampled, health, sigterm, told>>

\* metricsServer.Stop, and main returns.
Return == phase = "ending" /\ Exit /\ UNCHANGED mishaps

Startup ==
  \/ LoadConfig \/ Connect \/ StoreConn \/ SampleConn \/ FlagConn \/ SetUpIdp
  \/ BuildLiveState \/ StartWatcher \/ Register \/ Announce

Shutdown == LeaveWait \/ StopWatcher \/ Drain \/ Return

(***************************************************************************)
(* The NATS connection.  The library notices a loss, reconnects for ever,  *)
(* and queues a callback each time; one goroutine runs them in order.      *)
(***************************************************************************)
NatsToggle ==
  /\ natsUp' = ~ natsUp
  /\ UNCHANGED <<watcherVars, mishaps, serverVars>>

ConnectionTurns(from, to) ==
  /\ conn = from
  /\ Len(callbacks) < MaxCallbacks
  /\ conn' = to
  /\ callbacks' = Append(callbacks, to = "up")
  /\ UNCHANGED <<watcherVars, natsUp, mishaps, phase, sampled, health, sigterm, told>>

Disconnect == ~ natsUp /\ ConnectionTurns("up", "reconnecting")

Reconnect == natsUp /\ ConnectionTurns("reconnecting", "up")

FinishDrain == ConnectionTurns("draining", "closed")

\* The servers have refused the credentials twice.
GiveUp == natsUp /\ ConnectionTurns("reconnecting", "closed")

\* Fault: the reconnect handler only logs.
RunCallbackDeaf ==
  /\ callbacks # <<>>
  /\ callbacks' = Tail(callbacks)
  /\ health' = [health EXCEPT !.natsConnected = @ /\ Head(callbacks)]
  /\ told' = TRUE
  /\ UNCHANGED <<watcherVars, natsUp, mishaps, phase, conn, sampled, sigterm>>

RunCallback ==
  /\ callbacks # <<>>
  /\ callbacks' = Tail(callbacks)
  /\ health' = [health EXCEPT !.natsConnected = Head(callbacks)]
  /\ told' = TRUE
  /\ UNCHANGED <<watcherVars, natsUp, mishaps, phase, conn, sampled, sigterm>>

Library == Reconnect \/ FinishDrain \/ RunCallback

(***************************************************************************)
(* The kubelet, and what else may end a process.                           *)
(***************************************************************************)
\* A process told to end: by an interrupt, which cancels the context, or by a
\* SIGTERM, which nothing catches, so that ForceKill follows at once.
Cancel ==
  /\ Running
  /\ ~ sigterm
  /\ sigterm' = TRUE
  /\ UNCHANGED <<watcherVars, natsUp, phase, conn, callbacks, sampled, health, told>>

\* Three probes of /healthz 15 s apart have failed; the calls inside
\* SetNATSConn are not that far apart.
LivenessKill ==
  /\ ~ IsAlive
  /\ phase \notin {"sampling", "flagging"}
  /\ Cancel
  /\ UNCHANGED mishaps

\* A signal that is not caught, or the end of the grace period.
ForceKill == sigterm /\ Exit /\ UNCHANGED mishaps

\* A rollout or an eviction; a panic, the OOM killer, a lost node.
Mishap ==
  /\ mishaps < MaxMishaps
  /\ mishaps' = mishaps + 1
  /\ Cancel \/ (Running /\ Exit)

Kubelet == LivenessKill \/ ForceKill

-----------------------------------------------------------------------------
Init ==
  /\ Watcher!Init
  /\ natsUp \in BOOLEAN
  /\ phase = "down"
  /\ conn = "none"
  /\ callbacks = <<>>
  /\ sampled = FALSE
  /\ health = NewHealthChecker
  /\ sigterm = FALSE
  /\ mishaps = 0
  /\ told = FALSE

HotReload ==
  /\ Watcher!Environment \/ Watcher!WatchLoop
  /\ UNCHANGED <<natsUp, mishaps, serverVars>>

Next ==
  \/ Startup \/ Shutdown
  \/ NatsToggle \/ Disconnect \/ GiveUp \/ Library
  \/ Kubelet \/ Mishap
  \/ HotReload

Spec == Init /\ [][Next]_vars

(***************************************************************************)
(* The main goroutine runs on, its network calls have deadlines; the       *)
(* library reconnects for ever (MaxReconnects(-1)) and runs its callbacks; *)
(* the kubelet starts the container again, and kills one whose liveness    *)
(* probe fails or that outlives its grace period.                          *)
(***************************************************************************)
Fairness ==
  /\ WF_vars(Startup)
  /\ WF_vars(Shutdown)
  /\ WF_vars(Reconnect)
  /\ WF_vars(RunCallback)
  /\ WF_vars(LivenessKill)
  /\ WF_vars(ForceKill)

FairSpec == Spec /\ Fairness

-----------------------------------------------------------------------------
(***************************************************************************)
(* Properties.                                                             *)
(***************************************************************************)
Phases ==
  {"down", "connecting", "storing", "sampling", "flagging", "discovering",
   "watching", "registering", "announcing", "serving", "stopping", "draining",
   "ending"}

\* Every variable has its type, and there is a connection when, and only when,
\* the process has got as far as making one.
TypeOK ==
  /\ Watcher!TypeOK
  /\ natsUp \in BOOLEAN
  /\ phase \in Phases
  /\ conn \in {"none", "up", "reconnecting", "draining", "closed"}
  /\ conn = "none" <=> phase \in {"down", "connecting"}
  /\ callbacks \in Seq(BOOLEAN)
  /\ sampled \in BOOLEAN
  /\ health \in [nc : BOOLEAN, natsConnected : BOOLEAN,
                 idpVerifiersReady : BOOLEAN, serviceRegistered : BOOLEAN]
  /\ sigterm \in BOOLEAN
  /\ mishaps \in 0 .. MaxMishaps
  /\ told \in BOOLEAN

\* Once a callback has run since SetNATSConn, the flag /healthz and /readyz
\* read is the state of the connection whenever no callback is waiting,
\* however drops, reconnections and late callbacks were interleaved.
FlagSettles ==
  told /\ callbacks = <<>> => health.natsConnected = IsConnected

\* A process that has got past its start has published a configuration that
\* passed validation, with the verifier of every required IdP, and so has every
\* reload since, even though IdPs come and go and processes die half-way.
ServesSound ==
  phase \in {"registering", "announcing", "serving"} => Watcher!LiveIsSound

\* Restarts keep the promise of hot reload: across processes, too, the
\* configuration published is never older than one published before.
KeepsPromise == Watcher!KeepsPromise

\* The system heals: if NATS and the required IdPs stay reachable and the
\* configuration usable, and nobody ends the process for ever, then in the end
\* the broker is ready for good on a live connection.  A flag that SetNATSConn
\* left wrong is repaired by the liveness probe and a restart.
Calm == natsUp /\ Required \subseteq idpUp /\ Watcher!Usable

Serving == phase = "serving" /\ IsReady /\ conn = "up"

Heals == Required # {} /\ <>[]Calm => <>[]Serving

\* "Returns 200 when NATS is connected, at least one IDP verifier is ready, and
\* the micro service endpoint is registered" (charts/nats-iam-broker/README.md).
ReadyAsDocumented ==
  phase = "serving" /\ callbacks = <<>> /\ health.natsConnected = IsConnected =>
    (IsReady <=> conn = "up" /\ live.verifiers # {})

=============================================================================
