------------------------ MODULE ServerLifecycleProofs ------------------------
(***************************************************************************)
(* Type correctness of the server, the flag its health checks read, the    *)
(* soundness of what it serves and its refinement of LiveConfig across     *)
(* restarts, for any files, IdPs and bounds.                               *)
(*                                                                         *)
(* What the watcher does inside the server is taken from its own proofs.   *)
(***************************************************************************)
EXTENDS ServerLifecycle, SequenceTheorems, TLAPS

W == INSTANCE ConfigWatcherProofs

\* The watcher of the proofs is the watcher of the server.
LEMMA SameState ==
  /\ Watcher!TypeOK <=> W!TypeOK
  /\ Watcher!TypeOK' <=> W!TypeOK'
  /\ Watcher!LiveIsSound <=> W!LiveIsSound
  /\ Watcher!Init <=> W!Init
  /\ Watcher!Usable => disk \in Valid
  /\ watcherVars = W!vars
  /\ W!Parameters
<1> USE DEF Watcher!Files, W!Files, Watcher!Idps, W!Idps, Watcher!Unedited, W!Unedited
<1>1. (Watcher!TypeOK <=> W!TypeOK) /\ (Watcher!TypeOK' <=> W!TypeOK')
  BY DEF Watcher!TypeOK, W!TypeOK, Watcher!Event, W!Event, Watcher!AnyOther, W!AnyOther,
         Watcher!Reasons, W!Reasons
<1>2. Watcher!LiveIsSound <=> W!LiveIsSound
  BY DEF Watcher!LiveIsSound, W!LiveIsSound
<1>3. Watcher!Init <=> W!Init
  BY DEF Watcher!Init, W!Init
<1>4. Watcher!Usable => disk \in Valid
  BY DEF Watcher!Usable
<1>5. watcherVars = W!vars
  BY DEF watcherVars, W!vars
<1>6. W!Parameters
  BY LifecycleAssumption DEF Watcher!Parameters, W!Parameters, Watcher!ChangeKinds, W!ChangeKinds
<1> QED
  BY <1>1, <1>2, <1>3, <1>4, <1>5, <1>6

\* The watcher's steps are the steps of the proofs.
LEMMA SameSteps ==
  /\ Watcher!Environment <=> W!Environment
  /\ Watcher!WatchLoop <=> W!WatchLoop
  /\ Watcher!StartWatching <=> W!StartWatching
  /\ Watcher!Stop <=> W!Stop
<1> USE DEF Watcher!Files, W!Files, Watcher!Idps, W!Idps, Watcher!environment, W!environment,
            Watcher!IsRelevantEvent, W!IsRelevantEvent, Watcher!AnyOther, W!AnyOther
<1>1. Watcher!Environment <=> W!Environment
  BY DEF Watcher!Environment, W!Environment, Watcher!EditFile, W!EditFile,
         Watcher!RemoveFile, W!RemoveFile, Watcher!RotateSymlink, W!RotateSymlink,
         Watcher!IdpToggle, W!IdpToggle, Watcher!Emit, W!Emit, Watcher!Watching, W!Watching,
         Watcher!Reason, W!Reason
<1>2. Watcher!Reload <=> W!Reload
  BY DEF Watcher!Reload, W!Reload, Watcher!ReadFile, W!ReadFile, Watcher!Validate, W!Validate,
         Watcher!DiscoverIdp, W!DiscoverIdp, Watcher!SwapState, W!SwapState,
         Watcher!EndReload, W!EndReload
<1>3. Watcher!WatchLoop <=> W!WatchLoop
  BY <1>2 DEF Watcher!WatchLoop, W!WatchLoop, Watcher!TakeEvent, W!TakeEvent,
              Watcher!TimerFires, W!TimerFires, Watcher!ExitLoop, W!ExitLoop
<1>4. Watcher!StartWatching <=> W!StartWatching
  BY DEF Watcher!StartWatching, W!StartWatching
<1>5. Watcher!Stop <=> W!Stop
  BY DEF Watcher!Stop, W!Stop, Watcher!Watching, W!Watching
<1> QED
  BY <1>1, <1>3, <1>4, <1>5

\* What hot reload promises is the same promise.
LEMMA SamePromise ==
  /\ Watcher!Promise!vars = W!Promise!vars
  /\ Watcher!Promise!Next <=> W!Promise!Next
  /\ W!Init => Watcher!Promise!Init
<1> USE DEF Watcher!Promise!Files, W!Promise!Files
<1>1. Watcher!Promise!vars = W!Promise!vars
  BY DEF Watcher!Promise!vars, W!Promise!vars
<1>2. Watcher!Promise!Next <=> W!Promise!Next
  BY DEF Watcher!Promise!Next, W!Promise!Next, Watcher!Promise!Edit, W!Promise!Edit,
         Watcher!Promise!Publish, W!Promise!Publish
<1>3. W!Init => Watcher!Promise!Init
  BY DEF W!Init, Watcher!Promise!Init, Watcher!Promise!Unedited, W!Unedited, W!Files
<1> QED
  BY <1>1, <1>2, <1>3

\* Of the watcher's invariant the server keeps all but the part that ties what is
\* live to the disk: a broker may be started on files that were edited while no
\* process was there to hear of it.
WatcherInv == W!TypeOK /\ W!SafeInv

\* A step of the watcher, taken inside the server.
LEMMA WatcherStep ==
  ASSUME WatcherInv, W!Next
  PROVE  /\ WatcherInv'
         /\ [Watcher!Promise!Next]_(Watcher!Promise!vars)
         /\ loop = "off" => UNCHANGED <<cursor, read, found, live>>
         /\ loop # "off" => loop' # "off"
<1>1. WatcherInv' /\ [W!Promise!Next]_(W!Promise!vars)
  BY W!TypeStep, W!SafeStep, W!PromiseStep, SameState DEF WatcherInv
<1>2. CASE W!Environment
  BY <1>1, <1>2, W!ChangeStep, SameState, SamePromise
     DEF WatcherInv, Watcher!Promise!vars, W!Promise!vars
<1>3. CASE W!StartWatching \/ W!Stop
  BY <1>1, <1>3, SamePromise DEF W!StartWatching, W!Stop, Watcher!Promise!vars, W!Promise!vars
<1>4. CASE W!WatchLoop
  <2>1. loop # "off" /\ loop' # "off"
    BY <1>4 DEF W!WatchLoop, W!TakeEvent, W!TimerFires, W!ExitLoop, W!Reload, W!ReadFile,
                W!Validate, W!DiscoverIdp, W!SwapState, W!EndReload
  <2> QED
    BY <1>1, <2>1, SamePromise DEF Watcher!Promise!vars, W!Promise!vars
<1> QED
  BY <1>2, <1>3, <1>4 DEF W!Next

\* With the loop off, the watcher's invariant is about what is live and what was
\* read last.
LEMMA OffSafe ==
  ASSUME loop' = "off", W!LiveIsSound',
         \A f \in 1 .. NumFiles : live'.files[f] <= disk'[f] /\ read'[f] <= disk'[f]
  PROVE  W!SafeInv'
  BY DEF W!SafeInv, W!CursorInv, W!BuildInv, W!PastInv, W!ForwardInv, W!Files

\* When the watcher may run: hot reload is started late and ends with the process.
Late == {"registering", "announcing", "serving", "stopping", "draining", "ending"}

\* While a configuration is read and the verifiers are set up for it.
Starting == {"connecting", "storing", "sampling", "flagging", "discovering"}

\* What has been read for a start is valid and no older than what was published
\* last, and the required verifiers are there as far as the set-up has got.
StartInv ==
  /\ loop # "off" => phase \in Late
  /\ phase \in Starting =>
       read \in Valid /\ \A f \in 1 .. NumFiles : live.files[f] <= read[f]
  /\ loop = "off" /\ phase # "discovering" => cursor = 1 /\ found = {}
  /\ phase = "discovering" =>
       cursor \in 1 .. NumIdps + 1 /\ \A i \in Required : i < cursor => i \in found

\* The callbacks that wait end in the state of the connection.
CallbackInv ==
  /\ conn = "none" => callbacks = <<>> /\ ~ told
  /\ callbacks # <<>> => callbacks[Len(callbacks)] = IsConnected
  /\ FlagSettles

-----------------------------------------------------------------------------
(***************************************************************************)
(* The steps of the server.                                                *)
(***************************************************************************)

\* What a step of the server does to the watcher in it, and how it moves on.
Onward ==
  /\ phase' \in Starting => phase \in Starting
  /\ phase \in Late => phase' \in Late
  /\ phase = "discovering" => phase' = "discovering"

\* Every step of the server ends the process, is one of the three of the start
\* that touch what the watcher owns, is a step of the watcher, or leaves the
\* watcher alone.
LEMMA ServerStep ==
  ASSUME [Next]_vars
  PROVE  \/ Exit
         \/ LoadConfig
         \/ SetUpIdp
         \/ BuildLiveState
         \/ W!Next /\ loop = "off" /\ phase = "watching" /\ phase' = "registering"
         \/ W!Next /\ phase \in Late /\ phase' \in Late
         \/ W!Next /\ UNCHANGED phase /\ (loop = "off" => UNCHANGED loop)
         \/ UNCHANGED watcherVars /\ Onward
<1> USE DEF Onward, Starting, Late
<1>1. Connect \/ StoreConn \/ SampleConn \/ FlagConn \/ Register \/ Announce =>
        Exit \/ (UNCHANGED watcherVars /\ Onward)
  BY DEF Connect, StoreConn, SampleConn, FlagConn, Register, Announce
<1>2. CASE StartWatcher
  <2>1. CASE UNCHANGED watcherVars
    BY <1>2, <2>1 DEF StartWatcher
  <2>2. CASE Watcher!StartWatching
    <3>1. W!StartWatching /\ loop = "off"
      BY <2>2, SameSteps DEF Watcher!StartWatching
    <3> QED
      BY <1>2, <3>1 DEF StartWatcher, W!Next
  <2> QED
    BY <1>2, <2>1, <2>2 DEF StartWatcher
<1>3. CASE StopWatcher
  BY <1>3, SameSteps DEF StopWatcher, W!Next
<1>4. LeaveWait \/ Drain => UNCHANGED watcherVars /\ Onward
  BY DEF LeaveWait, Drain
<1>5. NatsToggle \/ Disconnect \/ GiveUp \/ Library => UNCHANGED watcherVars /\ Onward
  BY DEF NatsToggle, Disconnect, GiveUp, Library, Reconnect, FinishDrain, RunCallback,
         ConnectionTurns, serverVars
<1>6. LivenessKill \/ Mishap => Exit \/ (UNCHANGED watcherVars /\ Onward)
  BY DEF LivenessKill, Mishap, Cancel
<1>7. CASE HotReload
  <2>1. W!Environment \/ W!WatchLoop
    BY <1>7, SameSteps DEF HotReload
  <2>2. W!Next /\ UNCHANGED phase
    BY <1>7, <2>1 DEF HotReload, serverVars, W!Next
  <2>3. loop = "off" => UNCHANGED loop
    BY <2>1 DEF W!Environment, W!EditFile, W!RemoveFile, W!RotateSymlink, W!IdpToggle,
                W!WatchLoop, W!TakeEvent, W!TimerFires, W!ExitLoop, W!Reload, W!ReadFile,
                W!Validate, W!DiscoverIdp, W!SwapState
  <2> QED
    BY <2>2, <2>3
<1>8. CASE UNCHANGED vars
  BY <1>8 DEF vars, serverVars
<1> QED
  BY <1>1, <1>2, <1>3, <1>4, <1>5, <1>6, <1>7, <1>8
     DEF Next, Startup, Shutdown, Return, Kubelet, ForceKill

-----------------------------------------------------------------------------
(***************************************************************************)
(* Type correctness.                                                       *)
(***************************************************************************)

\* Drain is called once, last.
DrainInv == conn = "draining" => phase = "ending"

\* The end of a process leaves nothing undefined.
LEMMA ExitType ==
  ASSUME TypeOK, Exit, UNCHANGED mishaps \/ mishaps' \in 0 .. MaxMishaps
  PROVE  TypeOK' /\ DrainInv'
<1>1. W!TypeOK
  BY SameState DEF TypeOK
<1>2. queue' \in Seq(W!Event) /\ callbacks' \in Seq(BOOLEAN)
  BY EmptySeq DEF Exit
<1>3. W!TypeOK'
  BY <1>1, <1>2 DEF Exit, W!TypeOK
<1>4. Watcher!TypeOK'
  BY <1>3, SameState
<1> QED
  BY <1>2, <1>4 DEF Exit, NewHealthChecker, TypeOK, Phases, DrainInv

\* A callback is queued with every change of the connection.
LEMMA TurnType ==
  ASSUME TypeOK, DrainInv,
         NEW from \in {"up", "reconnecting", "draining"},
         NEW to \in {"up", "reconnecting", "closed"},
         ConnectionTurns(from, to)
  PROVE  TypeOK' /\ DrainInv'
<1>1. callbacks \in Seq(BOOLEAN) /\ (to = "up") \in BOOLEAN
  BY DEF TypeOK
<1>2. callbacks' \in Seq(BOOLEAN)
  BY <1>1, AppendProperties DEF ConnectionTurns
<1>3. Watcher!TypeOK'
  BY SameState DEF ConnectionTurns, TypeOK, watcherVars, W!vars, W!TypeOK
<1> QED
  BY <1>2, <1>3 DEF ConnectionTurns, TypeOK, DrainInv

\* Every step keeps the types.  Where the connection is drained it is one that
\* can be.
LEMMA TypeStep ==
  ASSUME TypeOK, DrainInv, [Next]_vars
  PROVE  TypeOK' /\ DrainInv'
<1>1. ASSUME UNCHANGED watcherVars PROVE Watcher!TypeOK'
  BY <1>1, SameState DEF TypeOK, watcherVars, W!TypeOK
<1>2. ASSUME W!Next PROVE Watcher!TypeOK'
  BY <1>2, W!TypeStep, SameState DEF TypeOK
<1>3. ASSUME Exit, UNCHANGED mishaps PROVE TypeOK' /\ DrainInv'
  BY <1>3, ExitType
<1>4. CASE LoadConfig
  <2>1. W!TypeOK'
    BY <1>4, SameState DEF LoadConfig, TypeOK, W!TypeOK, W!Reasons, Watcher!Files, W!Files
  <2> QED
    BY <1>4, <2>1, SameState DEF LoadConfig, TypeOK, Phases, DrainInv
<1>5. CASE Connect
  BY <1>1, <1>3, <1>5 DEF Connect, TypeOK, Phases, DrainInv
<1>6. CASE StoreConn \/ SampleConn \/ FlagConn
  <2>1. CASE StoreConn
    BY <1>1, <2>1 DEF StoreConn, TypeOK, Phases, DrainInv
  <2>2. CASE SampleConn
    <3>1. sampled' \in BOOLEAN
      BY <2>2 DEF SampleConn, IsConnected
    <3> QED
      BY <1>1, <2>2, <3>1 DEF SampleConn, TypeOK, Phases, DrainInv
  <2>3. CASE FlagConn
    BY <1>1, <2>3 DEF FlagConn, TypeOK, Phases, DrainInv
  <2> QED
    BY <1>6, <2>1, <2>2, <2>3
<1>7. CASE SetUpIdp
  <2>1. CASE ~ Exit
    <3>1. /\ found' = found \cup ({cursor} \cap idpUp) /\ cursor' = cursor + 1 /\ cursor \in Idps
          /\ UNCHANGED <<disk, idpUp, queue, loop, timer, stopCh, read, live, outcome, unheard,
                         natsUp, mishaps, serverVars>>
      BY <1>7, <2>1 DEF SetUpIdp
    <3>2. W!TypeOK'
      BY <3>1, SameState, SMTT(30) DEF TypeOK, W!TypeOK, W!Idps, Idps, Watcher!Idps
    <3> QED
      BY <3>1, <3>2, SameState DEF TypeOK, serverVars, DrainInv
  <2> QED
    BY <1>3, <1>7, <2>1 DEF SetUpIdp
<1>8. CASE BuildLiveState
  <2>1. W!TypeOK'
    BY <1>8, SameState DEF BuildLiveState, TypeOK, W!TypeOK
  <2> QED
    BY <1>8, <2>1, SameState DEF BuildLiveState, TypeOK, Phases, DrainInv
<1>9. CASE StartWatcher
  <2>1. Watcher!TypeOK'
    BY <1>1, <1>2, <1>9, SameSteps DEF StartWatcher, W!Next
  <2> QED
    BY <1>9, <2>1 DEF StartWatcher, TypeOK, Phases, DrainInv
<1>10. CASE Register \/ Announce \/ LeaveWait
  BY <1>1, <1>3, <1>10 DEF Register, Announce, LeaveWait, TypeOK, Phases, DrainInv
<1>11. CASE StopWatcher
  <2>1. Watcher!TypeOK'
    BY <1>1, <1>2, <1>11, SameSteps DEF StopWatcher, W!Next
  <2> QED
    BY <1>11, <2>1 DEF StopWatcher, TypeOK, Phases, DrainInv
<1>12. CASE Drain
  <2>1. conn \in {"up", "reconnecting", "closed"} /\ phase = "draining" /\ phase' = "ending"
    BY <1>12 DEF Drain, TypeOK, DrainInv
  <2>2. Append(callbacks, FALSE) \in Seq(BOOLEAN)
    BY AppendProperties DEF TypeOK
  <2>3. conn' \in {"draining", "closed"} /\ callbacks' \in Seq(BOOLEAN)
    BY <1>12, <2>1, <2>2 DEF Drain, TypeOK
  <2> QED
    BY <1>1, <1>12, <2>1, <2>3 DEF Drain, TypeOK, Phases, DrainInv
<1>13. CASE NatsToggle
  BY <1>1, <1>13 DEF NatsToggle, serverVars, TypeOK, DrainInv
<1>14. CASE Disconnect \/ GiveUp \/ Reconnect \/ FinishDrain
  BY <1>14, TurnType DEF Disconnect, GiveUp, Reconnect, FinishDrain
<1>15. CASE RunCallback
  <2>1. Head(callbacks) \in BOOLEAN /\ callbacks' \in Seq(BOOLEAN)
    BY <1>15, HeadTailProperties DEF RunCallback, TypeOK
  <2> QED
    BY <1>1, <1>15, <2>1 DEF RunCallback, TypeOK, DrainInv
<1>16. ASSUME Cancel, UNCHANGED mishaps \/ mishaps' \in 0 .. MaxMishaps
       PROVE  TypeOK' /\ DrainInv'
  BY <1>1, <1>16 DEF Cancel, TypeOK, DrainInv
<1>17. CASE Mishap
  <2>1. mishaps' \in 0 .. MaxMishaps
    BY <1>17, LifecycleAssumption DEF Mishap, TypeOK
  <2> QED
    BY <1>16, <1>17, <2>1, ExitType DEF Mishap
<1>18. CASE HotReload
  <2>1. W!Next /\ UNCHANGED <<natsUp, mishaps, serverVars>>
    BY <1>18, SameSteps DEF HotReload, W!Next
  <2> QED
    BY <1>2, <2>1 DEF serverVars, TypeOK, DrainInv
<1>19. CASE UNCHANGED vars
  BY <1>1, <1>19 DEF vars, serverVars, TypeOK, DrainInv
<1> QED
  BY <1>3, <1>4, <1>5, <1>6, <1>7, <1>8, <1>9, <1>10, <1>11, <1>12, <1>13, <1>14,
     <1>15, <1>16, <1>17, <1>18, <1>19
     DEF Next, Startup, Shutdown, Library, Return, Kubelet, LivenessKill, ForceKill

-----------------------------------------------------------------------------
(***************************************************************************)
(* The flag of the health checks.                                          *)
(***************************************************************************)

\* What is queued comes last.
LEMMA LastAppended ==
  ASSUME NEW q \in Seq(BOOLEAN), NEW b \in BOOLEAN
  PROVE  Append(q, b) # <<>> /\ Append(q, b)[Len(Append(q, b))] = b
  BY AppendProperties

\* A change of the connection puts its news at the end of what waits.
LEMMA TurnCallback ==
  ASSUME TypeOK, NEW from, NEW to \in {"up", "reconnecting", "closed"},
         ConnectionTurns(from, to)
  PROVE  CallbackInv'
<1>1. callbacks \in Seq(BOOLEAN) /\ (to = "up") \in BOOLEAN
  BY DEF TypeOK
<1>2. /\ callbacks' = Append(callbacks, to = "up")
      /\ callbacks' # <<>>
      /\ callbacks'[Len(callbacks')] = (to = "up")
  BY <1>1, LastAppended DEF ConnectionTurns
<1>3. IsConnected' = (to = "up") /\ conn' # "none"
  BY DEF ConnectionTurns, IsConnected
<1> QED
  BY <1>2, <1>3 DEF CallbackInv, FlagSettles

\* The last callback to run tells the state of the connection.
LEMMA CallbackStep ==
  ASSUME TypeOK, DrainInv, CallbackInv, [Next]_vars
  PROVE  CallbackInv'
<1>1. ASSUME UNCHANGED <<conn, callbacks, told, health>> PROVE CallbackInv'
  BY <1>1 DEF CallbackInv, FlagSettles, IsConnected
<1>2. CASE Exit
  BY <1>2 DEF Exit, CallbackInv, FlagSettles
<1>3. CASE Connect
  <2>1. callbacks = <<>> /\ ~ told
    BY <1>3 DEF Connect, TypeOK, CallbackInv
  <2> QED
    BY <1>2, <1>3, <2>1 DEF Connect, CallbackInv, FlagSettles
<1>4. CASE StoreConn \/ BuildLiveState \/ Announce
  <2>1. health'.natsConnected = health.natsConnected /\ UNCHANGED <<conn, callbacks, told>>
    BY <1>4 DEF StoreConn, BuildLiveState, Announce, TypeOK
  <2> QED
    BY <2>1 DEF CallbackInv, FlagSettles, IsConnected
<1>5. CASE FlagConn
  BY <1>5 DEF FlagConn, CallbackInv, FlagSettles, IsConnected
<1>6. CASE Drain
  <2>1. CASE conn = "reconnecting"
    <3>1. callbacks \in Seq(BOOLEAN) /\ callbacks' = Append(callbacks, FALSE)
      BY <1>6, <2>1 DEF Drain, TypeOK
    <3>2. callbacks' # <<>> /\ callbacks'[Len(callbacks')] = FALSE
      BY <3>1, LastAppended
    <3>3. IsConnected' = FALSE /\ conn' # "none"
      BY <1>6, <2>1 DEF Drain, IsConnected
    <3> QED
      BY <3>2, <3>3 DEF CallbackInv, FlagSettles
  <2>2. CASE conn \in {"up", "closed"}
    <3>1. conn' \in {"draining", "closed"} /\ UNCHANGED <<callbacks, told, health>>
      BY <1>6, <2>2 DEF Drain
    <3>2. IsConnected' <=> IsConnected
      BY <1>6, <2>2 DEF Drain, IsConnected
    <3> QED
      BY <3>1, <3>2, Zenon DEF CallbackInv, FlagSettles
  <2> QED
    BY <1>6, <2>1, <2>2 DEF Drain, TypeOK, DrainInv
<1>7. CASE Disconnect \/ GiveUp \/ Reconnect \/ FinishDrain
  BY <1>7, TurnCallback DEF Disconnect, GiveUp, Reconnect, FinishDrain
<1>8. CASE RunCallback
  <2>1. callbacks \in Seq(BOOLEAN) /\ callbacks # <<>> /\ callbacks' = Tail(callbacks)
    BY <1>8 DEF RunCallback, TypeOK
  <2>2. conn # "none" /\ callbacks[Len(callbacks)] = IsConnected /\ UNCHANGED conn
    BY <1>8, <2>1 DEF RunCallback, CallbackInv
  <2>3. /\ Len(callbacks') = Len(callbacks) - 1
        /\ \A i \in 1 .. Len(callbacks') : callbacks'[i] = callbacks[i + 1]
        /\ Head(callbacks) = callbacks[1]
        /\ Len(callbacks) \in Nat \ {0}
    BY <2>1
  <2>4. CASE callbacks' = <<>>
    <3>1. Len(callbacks) = 1
      BY <2>3, <2>4
    <3>2. health'.natsConnected = IsConnected
      BY <1>8, <2>2, <2>3, <3>1 DEF RunCallback, TypeOK
    <3> QED
      BY <2>2, <2>4, <3>2 DEF CallbackInv, FlagSettles, IsConnected
  <2>5. CASE callbacks' # <<>>
    <3>1. Len(callbacks') \in 1 .. Len(callbacks')
      BY <2>1, <2>5
    <3>2. callbacks'[Len(callbacks')] = callbacks[Len(callbacks)]
      BY <2>3, <3>1
    <3> QED
      BY <2>2, <2>5, <3>2 DEF CallbackInv, FlagSettles, IsConnected
  <2> QED
    BY <2>4, <2>5
<1>9. CASE LoadConfig \/ SampleConn \/ StartWatcher \/ LeaveWait \/ StopWatcher \/ NatsToggle
           \/ Cancel \/ HotReload \/ UNCHANGED vars
  BY <1>1, <1>9 DEF LoadConfig, SampleConn, StartWatcher, LeaveWait, StopWatcher, NatsToggle,
                    Cancel, HotReload, serverVars, vars
<1>10. CASE SetUpIdp \/ Register
  BY <1>1, <1>2, <1>10 DEF SetUpIdp, Register, serverVars
<1> QED
  BY <1>2, <1>3, <1>4, <1>5, <1>6, <1>7, <1>8, <1>9, <1>10
     DEF Next, Startup, Shutdown, Library, Return, Kubelet, LivenessKill, ForceKill, Mishap

-----------------------------------------------------------------------------
(***************************************************************************)
(* What is published, across starts and reloads.  The watcher's own lemmas *)
(* cover its steps; what is left are the steps of the start.               *)
(***************************************************************************)

\* What a step must establish.
Kept ==
  /\ WatcherInv'
  /\ StartInv'
  /\ [Watcher!Promise!Next]_(Watcher!Promise!vars)

\* A process that ends leaves the published files and the disk as they are.
LEMMA ExitStep ==
  ASSUME WatcherInv, W!TypeOK', Exit
  PROVE  Kept
<1>1. /\ loop' = "off" /\ phase' = "down" /\ cursor' = 1 /\ found' = {}
      /\ UNCHANGED <<disk, read, live>>
  BY DEF Exit
<1>2. W!SafeInv'
  <2>1. W!LiveIsSound'
    BY <1>1 DEF WatcherInv, W!SafeInv, W!LiveIsSound
  <2> QED
    BY <1>1, <2>1, OffSafe DEF WatcherInv, W!SafeInv, W!PastInv, W!Files
<1>3. StartInv'
  BY <1>1 DEF StartInv, Starting
<1> QED
  BY <1>1, <1>2, <1>3 DEF Kept, WatcherInv, Watcher!Promise!vars

\* A start takes the files on disk, if they are valid.
LEMMA LoadStep ==
  ASSUME WatcherInv, StartInv, W!TypeOK', LoadConfig
  PROVE  Kept
<1>1. /\ phase = "down" /\ phase' = "connecting" /\ loop = "off" /\ loop' = "off"
      /\ read' = disk /\ disk \in Valid
      /\ UNCHANGED <<disk, live, cursor, found>>
  BY SameState DEF LoadConfig, StartInv, Late
<1>2. \A f \in 1 .. NumFiles : disk[f] \in Nat /\ live.files[f] <= disk[f]
  BY DEF WatcherInv, W!TypeOK, W!SafeInv, W!PastInv, W!Files
<1>3. W!SafeInv'
  <2>1. W!LiveIsSound'
    BY <1>1 DEF WatcherInv, W!SafeInv, W!LiveIsSound
  <2>2. \A f \in 1 .. NumFiles : live'.files[f] <= disk'[f] /\ read'[f] <= disk'[f]
    BY <1>1, <1>2
  <2> QED
    BY <1>1, <2>1, <2>2, OffSafe
<1>4. StartInv'
  BY <1>1, <1>2 DEF StartInv, Starting
<1> QED
  BY <1>1, <1>3, <1>4 DEF Kept, WatcherInv, Watcher!Promise!vars

\* A required IdP that is passed has been set up.
LEMMA SetUpStep ==
  ASSUME WatcherInv, StartInv, W!TypeOK', SetUpIdp
  PROVE  Kept
<1>1. CASE Exit
  BY <1>1, ExitStep
<1>2. CASE ~ Exit
  <2>1. /\ phase = "discovering" /\ UNCHANGED phase
        /\ cursor \in 1 .. NumIdps /\ cursor \notin Required \ idpUp
        /\ found' = found \cup ({cursor} \cap idpUp) /\ cursor' = cursor + 1
        /\ UNCHANGED <<disk, loop, read, live>>
    BY <1>2 DEF SetUpIdp, serverVars, Idps, Watcher!Idps
  <2>2. loop = "off"
    BY <2>1 DEF StartInv, Late
  <2>3. W!SafeInv'
    <3>1. W!LiveIsSound'
      BY <2>1 DEF WatcherInv, W!SafeInv, W!LiveIsSound
    <3> QED
      BY <2>1, <2>2, <3>1, OffSafe DEF WatcherInv, W!SafeInv, W!PastInv, W!Files
  <2>4. NumIdps \in Nat /\ Required \subseteq 1 .. NumIdps
    BY SameState DEF W!Parameters, W!Idps
  <2>5. cursor' \in 1 .. NumIdps + 1
    BY <2>1, <2>4
  <2>6. \A i \in Required : i < cursor' => i < cursor \/ i = cursor
    BY <2>1, <2>4
  <2>7. \A i \in Required : i < cursor' => i \in found'
    BY <2>1, <2>6 DEF StartInv
  <2>8. StartInv'
    BY <2>1, <2>2, <2>5, <2>7 DEF StartInv, Starting
  <2> QED
    BY <2>1, <2>3, <2>8 DEF Kept, WatcherInv, Watcher!Promise!vars
<1> QED
  BY <1>1, <1>2

\* The first LiveState of a process is a publication.
LEMMA BuildStep ==
  ASSUME WatcherInv, StartInv, W!TypeOK', BuildLiveState
  PROVE  Kept
<1>1. /\ phase = "discovering" /\ phase' = "watching" /\ cursor > NumIdps
      /\ live' = [files |-> read, verifiers |-> found]
      /\ cursor' = 1 /\ found' = {}
      /\ UNCHANGED <<disk, read, loop>>
  BY DEF BuildLiveState
<1>2. loop = "off" /\ read \in Valid /\ \A f \in 1 .. NumFiles : live.files[f] <= read[f]
  BY <1>1 DEF StartInv, Starting, Late
<1>3. Required \subseteq found
  <2>1. NumIdps \in Nat /\ Required \subseteq 1 .. NumIdps
    BY SameState DEF W!Parameters, W!Idps
  <2>2. cursor \in 1 .. NumIdps + 1 /\ \A i \in Required : i < cursor => i \in found
    BY <1>1 DEF StartInv
  <2> QED
    BY <1>1, <2>1, <2>2
<1>4. \A f \in 1 .. NumFiles : read[f] <= disk[f]
  BY DEF WatcherInv, W!SafeInv, W!PastInv, W!Files
<1>5. W!SafeInv'
  <2>1. W!LiveIsSound'
    BY <1>1, <1>2, <1>3 DEF W!LiveIsSound
  <2> QED
    BY <1>1, <1>2, <1>4, <2>1, OffSafe
<1>6. StartInv'
  BY <1>1, <1>2 DEF StartInv, Starting
<1>7. Watcher!Promise!Publish
  BY <1>1, <1>2, <1>4 DEF Watcher!Promise!Publish, Watcher!Promise!Files
<1> QED
  BY <1>5, <1>6, <1>7 DEF Kept, WatcherInv, Watcher!Promise!Next

\* Every step publishes only what is sound and no older, if it publishes at all.
LEMMA InvStep ==
  ASSUME TypeOK, DrainInv, WatcherInv, StartInv, [Next]_vars
  PROVE  Kept
<1>1. W!TypeOK'
  BY TypeStep, SameState DEF TypeOK
<1>2. CASE Exit \/ LoadConfig \/ SetUpIdp \/ BuildLiveState
  BY <1>1, <1>2, ExitStep, LoadStep, SetUpStep, BuildStep
<1>3. CASE W!Next /\ loop = "off" /\ phase = "watching" /\ phase' = "registering"
  <2>1. cursor = 1 /\ found = {} /\ UNCHANGED <<cursor, found>>
    BY <1>3, WatcherStep DEF StartInv
  <2>2. StartInv'
    BY <1>3, <2>1 DEF StartInv, Starting, Late
  <2> QED
    BY <1>3, <2>2, WatcherStep DEF Kept
<1>4. CASE W!Next /\ phase \in Late /\ phase' \in Late
  <2>1. /\ loop = "off" => UNCHANGED <<cursor, found>>
        /\ loop # "off" => loop' # "off"
    BY <1>4, WatcherStep
  <2>2. StartInv'
    BY <1>4, <2>1 DEF StartInv, Starting, Late
  <2> QED
    BY <1>4, <2>2, WatcherStep DEF Kept
<1>5. CASE W!Next /\ UNCHANGED phase /\ (loop = "off" => UNCHANGED loop)
  <2>1. /\ loop = "off" => UNCHANGED <<cursor, read, found, live>>
        /\ loop # "off" => loop' # "off"
    BY <1>5, WatcherStep
  <2>2. CASE loop = "off"
    <3>1. StartInv'
      BY <1>5, <2>1, <2>2 DEF StartInv
    <3> QED
      BY <1>5, <3>1, WatcherStep DEF Kept
  <2>3. CASE loop # "off"
    <3>1. phase \in Late /\ phase \notin Starting
      BY <2>3 DEF StartInv, Late, Starting
    <3>2. StartInv'
      BY <1>5, <2>1, <2>3, <3>1 DEF StartInv, Starting
    <3> QED
      BY <1>5, <3>2, WatcherStep DEF Kept
  <2> QED
    BY <2>2, <2>3
<1>6. CASE UNCHANGED watcherVars /\ Onward
  <2>1. UNCHANGED <<loop, cursor, read, found, live, disk>>
    BY <1>6 DEF watcherVars
  <2>2. W!SafeInv'
    BY <2>1 DEF WatcherInv, W!SafeInv, W!CursorInv, W!LiveIsSound, W!BuildInv, W!PastInv,
                W!ForwardInv
  <2>3. CASE phase' = "discovering" /\ phase # "discovering"
    <3>1. phase \in Starting
      BY <1>6, <2>3 DEF Onward, Starting
    <3>2. loop = "off" /\ cursor = 1
      BY <2>3, <3>1 DEF StartInv, Starting, Late
    <3>3. NumIdps \in Nat /\ Required \subseteq 1 .. NumIdps
      BY SameState DEF W!Parameters, W!Idps
    <3>4. 1 \in 1 .. NumIdps + 1 /\ \A i \in Required : ~ (i < 1)
      BY <3>3
    <3> QED
      BY <2>1, <2>2, <2>3, <1>1, <3>1, <3>2, <3>4
         DEF Kept, WatcherInv, StartInv, Watcher!Promise!vars
  <2>4. CASE ~ (phase' = "discovering" /\ phase # "discovering")
    <3>1. StartInv'
      BY <1>6, <2>1, <2>4 DEF Onward, StartInv
    <3> QED
      BY <1>1, <2>1, <2>2, <3>1 DEF Kept, WatcherInv, Watcher!Promise!vars
  <2> QED
    BY <2>3, <2>4
<1> QED
  BY <1>2, <1>3, <1>4, <1>5, <1>6, ServerStep

-----------------------------------------------------------------------------
(***************************************************************************)
(* The theorems.                                                           *)
(***************************************************************************)

\* The inductive invariant.
IInv ==
  /\ TypeOK
  /\ DrainInv
  /\ CallbackInv
  /\ StartInv
  /\ WatcherInv

\* It holds before the first process is started.
LEMMA InitInv ==
  ASSUME Init
  PROVE  IInv
<1>1. W!Init
  BY SameState DEF Init
<1>2. W!TypeOK
  BY <1>1, W!InitType, SameState
<1>3. W!SafeInv
  BY <1>1, W!SafeInit, SameState
<1>4. TypeOK
  <2>1. callbacks \in Seq(BOOLEAN) /\ mishaps \in 0 .. MaxMishaps
    BY EmptySeq, LifecycleAssumption DEF Init
  <2> QED
    BY <1>2, <2>1, SameState DEF Init, TypeOK, NewHealthChecker, Phases
<1>5. DrainInv /\ CallbackInv
  BY DEF Init, DrainInv, CallbackInv, FlagSettles
<1>6. StartInv
  BY <1>1 DEF Init, W!Init, StartInv, Starting
<1> QED
  BY <1>2, <1>3, <1>4, <1>5, <1>6 DEF IInv, WatcherInv

\* Every reachable state satisfies the inductive invariant.
THEOREM Inductive == Spec => []IInv
<1>1. Init => IInv
  BY InitInv
<1>2. IInv /\ [Next]_vars => IInv'
  BY TypeStep, CallbackStep, InvStep DEF IInv, Kept
<1> QED
  BY <1>1, <1>2, PTL DEF Spec

\* Every variable has its type, and there is a connection exactly when the
\* process has got as far as making one.
THEOREM TypeCorrect == Spec => []TypeOK
<1>1. IInv => TypeOK
  BY DEF IInv
<1> QED
  BY <1>1, Inductive, PTL

\* Once a callback has run, the flag /healthz and /readyz read is the state of
\* the connection whenever no callback waits.
THEOREM FlagAlwaysSettles == Spec => []FlagSettles
<1>1. IInv => FlagSettles
  BY DEF IInv, CallbackInv
<1> QED
  BY <1>1, Inductive, PTL

\* What a broker serves is validated and has every required verifier, whichever
\* process of it published that.
THEOREM ServesAlwaysSound == Spec => []ServesSound
<1>1. IInv => ServesSound
  BY SameState DEF IInv, WatcherInv, W!SafeInv, ServesSound
<1> QED
  BY <1>1, Inductive, PTL

\* Across restarts the server implements LiveConfig.
THEOREM Refinement == Spec => KeepsPromise
<1>1. Init => Watcher!Promise!Init
  BY SameState, SamePromise DEF Init
<1>2. IInv /\ [Next]_vars => [Watcher!Promise!Next]_(Watcher!Promise!vars)
  BY InvStep DEF IInv, Kept
<1> QED
  BY <1>1, <1>2, Inductive, PTL DEF Spec, KeepsPromise, Watcher!KeepsPromise, Watcher!Promise!Spec

==============================================================================
