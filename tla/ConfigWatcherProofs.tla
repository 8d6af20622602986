------------------------- MODULE ConfigWatcherProofs -------------------------
(***************************************************************************)
(* Type correctness, soundness and freshness of the live configuration,    *)
(* and the refinement of LiveConfig, for any number of files and IdPs, any *)
(* notion of a valid configuration and any queue length.                   *)
(***************************************************************************)
EXTENDS ConfigWatcher, TLAPS

\* A relevant event waits in the queue, or the debounce timer runs.
Heeded(q) == \E i \in 1 .. Len(q) : IsRelevantEvent(q[i])
ReloadDue == timer = "armed" \/ Heeded(queue)

\* The cursor counts files while reading and IdPs while discovering.
CursorInv ==
  /\ loop = "reading" => cursor \in 1 .. NumFiles + 1
  /\ loop = "discovering" => cursor \in 1 .. NumIdps + 1

\* What a reload has checked and built so far.
BuildInv ==
  loop = "discovering" =>
    /\ read \in Valid
    /\ \A i \in Required : i < cursor => i \in found

\* What has been read, and what has been published, was on disk ...
PastInv == \A f \in Files : live.files[f] <= disk[f] /\ read[f] <= disk[f]

\* ... and what the running reload has read is no older than what is published.
ForwardInv ==
  \A f \in Files :
    loop = "discovering" \/ (loop = "reading" /\ f < cursor) =>
      live.files[f] <= read[f]

\* A change that was heard is either already in the hands of the reload, or
\* there will be another reload.
HeardInv ==
  \A f \in Files : unheard[f] = "heard" /\ ~ ReloadDue =>
    /\ loop = "reading" /\ f < cursor => read[f] = disk[f]
    /\ loop = "discovering" => read[f] = disk[f]
    /\ loop = "select" /\ outcome = "ok" => live.files[f] = disk[f]
    /\ loop = "off" => live.files[f] = disk[f]

\* What holds however often the watcher is started ...
SafeInv ==
  /\ CursorInv
  /\ LiveIsSound
  /\ BuildInv
  /\ PastInv
  /\ ForwardInv

\* ... and what holds of one that was started with the broker.
IInv == SafeInv /\ HeardInv

-----------------------------------------------------------------------------
(***************************************************************************)
(* Type correctness.                                                       *)
(***************************************************************************)

\* Emitting an event leaves the queue a sequence of events.
LEMMA EmitType ==
  ASSUME queue \in Seq(Event), NEW e \in Event, Emit(e)
  PROVE  queue' \in Seq(Event)
  BY DEF Emit

\* The reasons recorded are the declared ones.
LEMMA ReasonType ==
  ASSUME NEW e
  PROVE  Reason(e) \in Reasons
  BY DEF Reason, Reasons

\* Every step keeps the types.
LEMMA TypeStep ==
  ASSUME TypeOK, [Next]_vars
  PROVE  TypeOK'
<1> USE DEF TypeOK
<1>1. ASSUME NEW f \in Files, NEW op \in {"write", "create"}, EditFile(f, op)
      PROVE  TypeOK'
  <2> DEFINE e == [name |-> f, op |-> op]
  <2>1. e \in Event
    BY DEF Event
  <2>2. queue' \in Seq(Event)
    BY <1>1, <2>1, EmitType DEF EditFile
  <2>3. Reason(e) \in Reasons
    BY ReasonType
  <2> HIDE DEF e
  <2>4. unheard' \in [Files -> Reasons]
    BY <1>1, <2>3 DEF EditFile, e
  <2>5. disk' \in [Files -> Nat]
    BY <1>1 DEF EditFile
  <2> QED
    BY <1>1, <2>2, <2>4, <2>5 DEF EditFile
<1>2. ASSUME NEW f \in Files, RemoveFile(f) PROVE TypeOK'
  <2> DEFINE e == [name |-> f, op |-> "remove"]
  <2>1. e \in Event
    BY DEF Event
  <2>2. queue' \in Seq(Event)
    BY <1>2, <2>1, EmitType DEF RemoveFile
  <2>3. Reason(e) \in Reasons
    BY ReasonType
  <2> HIDE DEF e
  <2>4. unheard' \in [Files -> Reasons]
    BY <1>2, <2>3 DEF RemoveFile, e
  <2>5. disk' \in [Files -> Nat]
    BY <1>2 DEF RemoveFile
  <2> QED
    BY <1>2, <2>2, <2>4, <2>5 DEF RemoveFile
<1>3. CASE RotateSymlink
  <2>1. queue' \in Seq(Event)
    <3>1. [name |-> AnyOther, op |-> "create"] \in Event
      BY DEF Event
    <3> QED
      BY <1>3, <3>1, EmitType DEF RotateSymlink
  <2>2. disk' \in [Files -> Nat]
    <3>1. \A f \in Files : disk[f] + 1 \in Nat
      OBVIOUS
    <3> QED
      BY <1>3, <3>1 DEF RotateSymlink
  <2>3. unheard' \in [Files -> Reasons]
    BY <1>3 DEF RotateSymlink, Reasons
  <2> QED
    BY <1>3, <2>1, <2>2, <2>3 DEF RotateSymlink
<1>4. ASSUME NEW i \in Idps, IdpToggle(i) PROVE TypeOK'
  BY <1>4 DEF IdpToggle
<1>5. CASE StartWatching
  BY <1>5 DEF StartWatching, environment
<1>6. CASE Stop
  BY <1>6 DEF Stop, environment
<1>7. CASE TakeEvent
  BY <1>7 DEF TakeEvent, environment, IsRelevantEvent
<1>8. CASE TimerFires
  BY <1>8 DEF TimerFires, environment
<1>9. CASE ExitLoop
  BY <1>9 DEF ExitLoop, environment
<1>10. CASE ReadFile
  <2>1. read' \in [Files -> Nat] /\ unheard' \in [Files -> Reasons]
    BY <1>10 DEF ReadFile, Reasons
  <2>2. cursor' \in Nat \ {0} /\ found' \subseteq Idps
    BY <1>10 DEF ReadFile, EndReload
  <2>3. loop' \in {"select", "reading"} /\ outcome' \in {"ok", "failed"}
    BY <1>10 DEF ReadFile, EndReload
  <2> QED
    BY <1>10, <2>1, <2>2, <2>3 DEF ReadFile
<1>11. CASE Validate
  BY <1>11 DEF Validate, EndReload, environment
<1>12. CASE DiscoverIdp
  <2>1. cursor' \in Nat \ {0}
    BY <1>12 DEF DiscoverIdp, EndReload
  <2>2. found' \subseteq Idps
    BY <1>12 DEF DiscoverIdp, EndReload
  <2>3. loop' \in {"select", "discovering"} /\ outcome' \in {"ok", "failed"}
    BY <1>12 DEF DiscoverIdp, EndReload
  <2> QED
    BY <1>12, <2>1, <2>2, <2>3 DEF DiscoverIdp, environment
<1>13. CASE SwapState
  BY <1>13 DEF SwapState, EndReload, environment
<1>14. CASE UNCHANGED vars
  BY <1>14 DEF vars
<1> QED
  BY <1>1, <1>2, <1>3, <1>4, <1>5, <1>6, <1>7, <1>8, <1>9, <1>10, <1>11,
     <1>12, <1>13, <1>14 DEF Next, Environment, WatchLoop, Reload

\* The state the watcher starts in has its types.
LEMMA InitType ==
  ASSUME Init
  PROVE  TypeOK
  BY WatcherAssumption DEF Parameters, Init, TypeOK, Unedited, Reasons

\* The declared types hold in every reachable state.
THEOREM TypeCorrect == Spec => []TypeOK
<1>1. Init => TypeOK
  BY InitType
<1>2. TypeOK /\ [Next]_vars => TypeOK'
  BY TypeStep
<1> QED
  BY <1>1, <1>2, PTL DEF Spec

-----------------------------------------------------------------------------
(***************************************************************************)
(* The inductive invariant.                                                *)
(***************************************************************************)

\* An event that enters the queue keeps the relevant ones there, and counts.
LEMMA HeededAppend ==
  ASSUME NEW q \in Seq(Event), NEW e \in Event
  PROVE  /\ Heeded(q) => Heeded(Append(q, e))
         /\ IsRelevantEvent(e) => Heeded(Append(q, e))
<1>1. ASSUME Heeded(q) PROVE Heeded(Append(q, e))
  <2>1. PICK i \in 1 .. Len(q) : IsRelevantEvent(q[i])
    BY <1>1 DEF Heeded
  <2>2. i \in 1 .. Len(Append(q, e)) /\ Append(q, e)[i] = q[i]
    OBVIOUS
  <2> QED
    BY <2>1, <2>2 DEF Heeded
<1>2. ASSUME IsRelevantEvent(e) PROVE Heeded(Append(q, e))
  <2>1. Len(q) + 1 \in 1 .. Len(Append(q, e)) /\ Append(q, e)[Len(q) + 1] = e
    OBVIOUS
  <2> QED
    BY <1>2, <2>1 DEF Heeded
<1> QED
  BY <1>1, <1>2

\* A relevant event leaves the queue only by being taken.
LEMMA HeededTail ==
  ASSUME NEW q \in Seq(Event), q # <<>>, Heeded(q)
  PROVE  IsRelevantEvent(Head(q)) \/ Heeded(Tail(q))
<1>1. PICK i \in 1 .. Len(q) : IsRelevantEvent(q[i])
  BY DEF Heeded
<1>2. CASE i = 1
  BY <1>1, <1>2
<1>3. CASE i # 1
  <2>1. i - 1 \in 1 .. Len(Tail(q)) /\ Tail(q)[i - 1] = q[i]
    BY <1>3
  <2> QED
    BY <1>1, <2>1 DEF Heeded
<1> QED
  BY <1>2, <1>3

\* Emitting e: what was due stays due, and a heard event makes a reload due.
LEMMA EmitHeeded ==
  ASSUME TypeOK, NEW e \in Event, Emit(e), UNCHANGED timer
  PROVE  /\ ReloadDue => ReloadDue'
         /\ Reason(e) = "heard" => ReloadDue'
<1>1. queue \in Seq(Event) /\ MaxQueue \in Nat
  BY WatcherAssumption DEF Parameters, TypeOK
<1>2. CASE Watching /\ Len(queue) < MaxQueue
  BY <1>1, <1>2, HeededAppend DEF Emit, ReloadDue, Reason
<1>3. CASE ~ (Watching /\ Len(queue) < MaxQueue)
  <2>1. Reason(e) # "heard"
    BY <1>1, <1>3 DEF Reason
  <2> QED
    BY <1>3, <2>1 DEF Emit, ReloadDue
<1> QED
  BY <1>2, <1>3

\* A change of the disk: versions only grow, what was due stays due, and a file
\* whose change was heard has a reload coming.
LEMMA ChangeStep ==
  ASSUME TypeOK, Environment
  PROVE  /\ \A f \in Files : disk[f] <= disk'[f]
         /\ \A f \in Files : \/ disk'[f] = disk[f] /\ unheard'[f] = unheard[f]
                             \/ unheard'[f] # "heard"
                             \/ ReloadDue'
         /\ ReloadDue => ReloadDue'
         /\ UNCHANGED <<loop, timer, stopCh, cursor, read, found, live, outcome>>
<1> DEFINE Changed ==
      /\ \A f \in Files : disk[f] <= disk'[f]
      /\ \A f \in Files : \/ disk'[f] = disk[f] /\ unheard'[f] = unheard[f]
                          \/ unheard'[f] # "heard"
                          \/ ReloadDue'
      /\ ReloadDue => ReloadDue'
      /\ UNCHANGED <<loop, timer, stopCh, cursor, read, found, live, outcome>>
<1>1. ASSUME NEW f \in Files, NEW op \in {"write", "create"}, EditFile(f, op) PROVE Changed
  <2> DEFINE e == [name |-> f, op |-> op]
  <2>1. e \in Event /\ Emit(e) /\ UNCHANGED timer
    BY <1>1 DEF Event, EditFile
  <2>2. \A g \in Files : disk[g] <= disk'[g]
    BY <1>1 DEF EditFile, TypeOK
  <2>3. unheard'[f] = Reason(e)
    BY <1>1 DEF EditFile, TypeOK
  <2>4. \A g \in Files \ {f} : disk'[g] = disk[g] /\ unheard'[g] = unheard[g]
    BY <1>1 DEF EditFile, TypeOK
  <2> HIDE DEF e
  <2>5. (ReloadDue => ReloadDue') /\ (Reason(e) = "heard" => ReloadDue')
    BY <2>1, EmitHeeded
  <2> QED
    BY <1>1, <2>2, <2>3, <2>4, <2>5 DEF EditFile
<1>2. ASSUME NEW f \in Files, RemoveFile(f) PROVE Changed
  <2> DEFINE e == [name |-> f, op |-> "remove"]
  <2>1. e \in Event /\ Emit(e) /\ UNCHANGED timer
    BY <1>2 DEF Event, RemoveFile
  <2>2. \A g \in Files : disk[g] <= disk'[g]
    BY <1>2 DEF RemoveFile, TypeOK
  <2>3. unheard'[f] = Reason(e)
    BY <1>2 DEF RemoveFile, TypeOK
  <2>4. \A g \in Files \ {f} : disk'[g] = disk[g] /\ unheard'[g] = unheard[g]
    BY <1>2 DEF RemoveFile, TypeOK
  <2> HIDE DEF e
  <2>5. (ReloadDue => ReloadDue') /\ (Reason(e) = "heard" => ReloadDue')
    BY <2>1, EmitHeeded
  <2> QED
    BY <1>2, <2>2, <2>3, <2>4, <2>5 DEF RemoveFile
<1>3. CASE RotateSymlink
  <2> DEFINE e == [name |-> AnyOther, op |-> "create"]
  <2>1. e \in Event /\ Emit(e) /\ UNCHANGED timer
    BY <1>3 DEF Event, RotateSymlink
  <2>2. \A g \in Files : disk[g] <= disk'[g]
    <3>1. \A g \in Files : disk[g] \in Nat /\ disk'[g] = disk[g] + 1
      BY <1>3 DEF RotateSymlink, TypeOK
    <3> QED
      BY <3>1
  <2>3. \A g \in Files : unheard'[g] # "heard"
    BY <1>3 DEF RotateSymlink
  <2> HIDE DEF e
  <2>4. ReloadDue => ReloadDue'
    BY <2>1, EmitHeeded
  <2> QED
    BY <1>3, <2>2, <2>3, <2>4 DEF RotateSymlink
<1>4. ASSUME NEW i \in Idps, IdpToggle(i) PROVE Changed
  BY <1>4 DEF IdpToggle, TypeOK, ReloadDue, Heeded
<1> QED
  BY <1>1, <1>2, <1>3, <1>4 DEF Environment

\* Soundness and order of what is read, built and published are kept by every
\* step, whatever was missed.
LEMMA SafeStep ==
  ASSUME TypeOK, SafeInv, [Next]_vars
  PROVE  SafeInv'
<1> USE DEF SafeInv
<1>1. TypeOK'
  BY TypeStep
<1>2. CASE Environment
  <2>1. /\ UNCHANGED <<loop, cursor, read, found, live>>
        /\ \A f \in Files : disk[f] <= disk'[f]
    BY <1>2, ChangeStep
  <2>2. CursorInv' /\ LiveIsSound' /\ BuildInv' /\ ForwardInv'
    BY <2>1 DEF CursorInv, LiveIsSound, BuildInv, ForwardInv
  <2>3. PastInv'
    BY <1>1, <2>1 DEF PastInv, TypeOK
  <2> QED
    BY <2>2, <2>3
<1>3. CASE StartWatching \/ Stop \/ TakeEvent \/ ExitLoop \/ UNCHANGED vars
  BY <1>3 DEF StartWatching, Stop, TakeEvent, ExitLoop, environment, vars,
              CursorInv, LiveIsSound, BuildInv, PastInv, ForwardInv
<1>4. CASE TimerFires
  <2>1. CursorInv' /\ LiveIsSound' /\ BuildInv' /\ PastInv'
    BY <1>4, WatcherAssumption DEF Parameters, TimerFires, environment, CursorInv,
                                   LiveIsSound, BuildInv, PastInv
  <2>2. \A f \in Files : ~ (f < 1)
    BY DEF Files
  <2>3. ForwardInv'
    BY <1>4, <2>2 DEF TimerFires, ForwardInv
  <2> QED
    BY <2>1, <2>3
<1>5. CASE ReadFile
  <2>1. /\ loop = "reading" /\ cursor \in Files /\ cursor \in Nat
        /\ read' = [read EXCEPT ![cursor] = disk[cursor]]
        /\ UNCHANGED <<disk, idpUp, queue, timer, stopCh, live>>
    BY <1>5 DEF ReadFile, TypeOK
  <2>2. LiveIsSound' /\ PastInv'
    BY <2>1 DEF LiveIsSound, PastInv, TypeOK
  <2>3. CASE loop' = "select"
    BY <2>1, <2>2, <2>3 DEF CursorInv, BuildInv, ForwardInv
  <2>4. CASE loop' = "reading" /\ cursor' = cursor + 1
    <3>1. CursorInv' /\ BuildInv'
      BY <2>1, <2>4, WatcherAssumption DEF Parameters, CursorInv, BuildInv, Files
    <3>2. \A f \in Files : f < cursor' => f < cursor \/ f = cursor
      BY <2>1, <2>4 DEF Files
    <3>3. ForwardInv'
      BY <2>1, <2>4, <3>2 DEF ForwardInv, PastInv, TypeOK
    <3> QED
      BY <2>2, <3>1, <3>3
  <2> QED
    BY <1>5, <2>1, <2>3, <2>4 DEF ReadFile, EndReload
<1>6. CASE Validate
  <2>1. /\ loop = "reading" /\ cursor > NumFiles /\ cursor \in Nat
        /\ UNCHANGED <<environment, read, live>>
    BY <1>6 DEF Validate, TypeOK
  <2>2. LiveIsSound' /\ PastInv'
    BY <2>1 DEF environment, LiveIsSound, PastInv
  <2>3. CASE loop' = "select"
    BY <2>2, <2>3 DEF CursorInv, BuildInv, ForwardInv
  <2>4. CASE loop' = "discovering" /\ cursor' = 1 /\ read \in Valid
    <3>1. CursorInv' /\ BuildInv'
      BY <2>1, <2>4, WatcherAssumption DEF Parameters, CursorInv, BuildInv, Idps
    <3>2. \A f \in Files : f < cursor
      BY <2>1, WatcherAssumption DEF Parameters, Files
    <3>3. ForwardInv'
      BY <2>1, <2>4, <3>2 DEF environment, ForwardInv
    <3> QED
      BY <2>2, <3>1, <3>3
  <2> QED
    BY <1>6, <2>3, <2>4 DEF Validate, EndReload
<1>7. CASE DiscoverIdp
  <2>1. /\ loop = "discovering" /\ cursor \in Idps /\ cursor \in Nat
        /\ UNCHANGED <<environment, read, live>>
    BY <1>7 DEF DiscoverIdp, TypeOK
  <2>2. LiveIsSound' /\ PastInv'
    BY <2>1 DEF environment, LiveIsSound, PastInv
  <2>3. CASE loop' = "select"
    BY <2>2, <2>3 DEF CursorInv, BuildInv, ForwardInv
  <2>4. CASE /\ loop' = "discovering" /\ cursor' = cursor + 1
             /\ cursor \notin Required \ idpUp
             /\ found' = found \cup ({cursor} \cap idpUp)
    <3>1. CursorInv'
      BY <2>1, <2>4, WatcherAssumption DEF Parameters, CursorInv, Idps
    <3>2. \A i \in Required : i < cursor' => i < cursor \/ i = cursor
      BY <2>1, <2>4, WatcherAssumption DEF Parameters, Idps
    <3>3. BuildInv'
      BY <2>1, <2>4, <3>2 DEF environment, BuildInv
    <3>4. ForwardInv'
      BY <2>1, <2>4 DEF environment, ForwardInv
    <3> QED
      BY <2>2, <3>1, <3>3, <3>4
  <2> QED
    BY <1>7, <2>1, <2>3, <2>4 DEF DiscoverIdp, EndReload
<1>8. CASE SwapState
  <2>1. /\ loop = "discovering" /\ cursor > NumIdps /\ cursor \in Nat
        /\ loop' = "select" /\ live' = [files |-> read, verifiers |-> found]
        /\ UNCHANGED <<environment, read>>
    BY <1>8 DEF SwapState, EndReload, TypeOK
  <2>2. \A i \in Required : i < cursor
    BY <2>1, WatcherAssumption DEF Parameters, Idps
  <2>3. LiveIsSound'
    BY <2>1, <2>2 DEF LiveIsSound, BuildInv
  <2>4. CursorInv' /\ BuildInv' /\ PastInv' /\ ForwardInv'
    BY <2>1 DEF environment, CursorInv, BuildInv, PastInv, ForwardInv
  <2> QED
    BY <2>3, <2>4
<1> QED
  BY <1>2, <1>3, <1>4, <1>5, <1>6, <1>7, <1>8 DEF Next, WatchLoop, Reload

\* A heard change is not forgotten by any step.
LEMMA HeardStep ==
  ASSUME TypeOK, IInv, [Next]_vars
  PROVE  HeardInv'
<1>1. HeardInv
  BY DEF IInv
<1>2. CASE Environment
  <2>1. /\ \A f \in Files : \/ disk'[f] = disk[f] /\ unheard'[f] = unheard[f]
                            \/ unheard'[f] # "heard"
                            \/ ReloadDue'
        /\ ReloadDue => ReloadDue'
        /\ UNCHANGED <<loop, cursor, read, live, outcome>>
    BY <1>2, ChangeStep
  <2> QED
    BY <1>1, <2>1 DEF HeardInv
<1>3. CASE StartWatching \/ Stop \/ ExitLoop \/ UNCHANGED vars
  BY <1>1, <1>3 DEF StartWatching, Stop, ExitLoop, environment, vars, HeardInv, ReloadDue, Heeded
<1>4. CASE TakeEvent
  <2>1. Heeded(queue) => IsRelevantEvent(Head(queue)) \/ Heeded(Tail(queue))
    BY <1>4, HeededTail DEF TakeEvent, TypeOK
  <2>2. ReloadDue => ReloadDue'
    BY <1>4, <2>1 DEF TakeEvent, ReloadDue
  <2> QED
    BY <1>1, <1>4, <2>2 DEF TakeEvent, environment, HeardInv
<1>5. CASE TimerFires
  <2>1. \A f \in Files : ~ (f < 1)
    BY DEF Files
  <2> QED
    BY <1>5, <2>1 DEF TimerFires, HeardInv
<1>6. CASE ReadFile
  <2>1. /\ loop = "reading" /\ cursor \in Files /\ cursor \in Nat
        /\ read' = [read EXCEPT ![cursor] = disk[cursor]]
        /\ unheard' = [unheard EXCEPT ![cursor] = "heard"]
        /\ UNCHANGED <<disk, queue, timer, live>>
    BY <1>6 DEF ReadFile, TypeOK
  <2>2. CASE loop' = "select" /\ outcome' = "failed"
    BY <2>2 DEF HeardInv
  <2>3. CASE loop' = "reading" /\ cursor' = cursor + 1
    <3>1. \A f \in Files : f < cursor' => f < cursor \/ f = cursor
      BY <2>1, <2>3 DEF Files
    <3> QED
      BY <1>1, <2>1, <2>3, <3>1 DEF HeardInv, ReloadDue, TypeOK
  <2> QED
    BY <1>6, <2>1, <2>2, <2>3 DEF ReadFile, EndReload
<1>7. CASE Validate
  <2>1. /\ loop = "reading" /\ cursor > NumFiles /\ cursor \in Nat
        /\ UNCHANGED <<environment, queue, timer, read, live>>
    BY <1>7 DEF Validate, TypeOK
  <2>2. \A f \in Files : f < cursor
    BY <2>1, WatcherAssumption DEF Parameters, Files
  <2> QED
    BY <1>1, <1>7, <2>1, <2>2 DEF Validate, EndReload, environment, HeardInv, ReloadDue
<1>8. CASE DiscoverIdp
  <2>1. loop = "discovering" /\ UNCHANGED <<environment, queue, timer, read, live>>
    BY <1>8 DEF DiscoverIdp
  <2> QED
    BY <1>1, <1>8, <2>1 DEF DiscoverIdp, EndReload, environment, HeardInv, ReloadDue
<1>9. CASE SwapState
  <2>1. /\ loop = "discovering" /\ loop' = "select"
        /\ live' = [files |-> read, verifiers |-> found]
        /\ UNCHANGED <<environment, queue, timer, read>>
    BY <1>9 DEF SwapState, EndReload
  <2> QED
    BY <1>1, <2>1 DEF environment, HeardInv, ReloadDue
<1> QED
  BY <1>2, <1>3, <1>4, <1>5, <1>6, <1>7, <1>8, <1>9 DEF Next, WatchLoop, Reload

\* It is safe to start with.
LEMMA SafeInit ==
  ASSUME Init
  PROVE  SafeInv
<1>1. CursorInv /\ BuildInv /\ LiveIsSound
  BY WatcherAssumption DEF Parameters, Init, CursorInv, BuildInv, LiveIsSound
<1>2. PastInv /\ ForwardInv
  BY DEF Init, PastInv, ForwardInv, Unedited
<1> QED
  BY <1>1, <1>2 DEF SafeInv

\* Every reachable state satisfies the inductive invariant.
THEOREM Inductive == Spec => []IInv
<1>1. Init => IInv
  <2>1. Init => HeardInv
    BY DEF Init, HeardInv, Unedited
  <2> QED
    BY <2>1, SafeInit DEF IInv
<1>2. TypeOK /\ IInv /\ [Next]_vars => IInv'
  BY SafeStep, HeardStep DEF IInv
<1> QED
  BY <1>1, <1>2, TypeCorrect, PTL DEF Spec

-----------------------------------------------------------------------------
(***************************************************************************)
(* What follows from it.                                                   *)
(***************************************************************************)

\* The state handlers load is always validated and has every required verifier.
THEOREM LiveAlwaysSound == Spec => []LiveIsSound
<1>1. IInv => LiveIsSound
  BY DEF IInv, SafeInv
<1> QED
  BY <1>1, Inductive, PTL

\* When the loop is quiet after a successful reload, the live configuration is
\* the one on disk, except for files whose change was never heard.
THEOREM FreshAtRest == Spec => []FreshWhenQuiet
<1>1. TypeOK /\ IInv => FreshWhenQuiet
  <2>1. queue = <<>> => ~ Heeded(queue)
    BY DEF Heeded
  <2> QED
    BY <2>1 DEF IInv, HeardInv, FreshWhenQuiet, Quiet, ReloadDue
<1> QED
  BY <1>1, Inductive, TypeCorrect, PTL

\* Publishing is the atomic swap, editing is any change of the disk, and
\* everything else is invisible.
LEMMA PromiseStep ==
  ASSUME TypeOK, SafeInv, [Next]_vars
  PROVE  [Promise!Next]_(Promise!vars)
<1>1. TypeOK'
  BY TypeStep
<1>2. CASE SwapState
  <2>1. UNCHANGED disk /\ live'.files = read /\ loop = "discovering"
    BY <1>2 DEF SwapState, environment
  <2>2. read \in Valid
    BY <2>1 DEF SafeInv, BuildInv
  <2>3. \A f \in Files : live.files[f] <= live'.files[f] /\ live'.files[f] <= disk[f]
    BY <2>1 DEF SafeInv, ForwardInv, PastInv
  <2> QED
    BY <2>1, <2>2, <2>3 DEF Promise!Next, Promise!Publish, Promise!Files, Files
<1>3. CASE Environment
  <2>1. UNCHANGED live /\ \A f \in Files : disk[f] <= disk'[f]
    BY <1>3, ChangeStep
  <2> QED
    BY <1>1, <2>1 DEF TypeOK, Promise!Next, Promise!Edit, Promise!Files, Files
<1>4. CASE UNCHANGED <<disk, live>>
  BY <1>4 DEF Promise!vars
<1>5. (Next \/ UNCHANGED vars) /\ ~ SwapState /\ ~ Environment => UNCHANGED <<disk, live>>
  BY DEF Next, WatchLoop, Reload, StartWatching, Stop, TakeEvent, TimerFires,
         ExitLoop, ReadFile, Validate, DiscoverIdp, environment, vars
<1> QED
  BY <1>2, <1>3, <1>4, <1>5

\* The watcher implements LiveConfig.
THEOREM Refinement == Spec => KeepsPromise
<1>1. Init => Promise!Init
  BY DEF Init, Promise!Init, Unedited, Promise!Unedited, Files, Promise!Files
<1>2. TypeOK /\ IInv /\ [Next]_vars => [Promise!Next]_(Promise!vars)
  BY PromiseStep DEF IInv
<1> QED
  BY <1>1, <1>2, Inductive, TypeCorrect, PTL DEF Spec, KeepsPromise, Promise!Spec

=============================================================================
