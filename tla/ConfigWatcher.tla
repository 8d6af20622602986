---------------------------- MODULE ConfigWatcher ----------------------------
(***************************************************************************)
(* The hot-reload machinery of internal/broker/config_watcher.go: the      *)
(* fsnotify queue, the debounced watch loop, the reload that reads the     *)
(* files one after the other, validates the result, rediscovers the IdPs   *)
(* over the network and swaps the live state.                              *)
(*                                                                         *)
(* The content of a file is a version number: every change of a file is a  *)
(* new version, so "older" and "newer" make sense.  A removed file, an     *)
(* unreadable one and one that is not YAML are versions in Broken.         *)
(*                                                                         *)
(* The model starts when StartWithContext has loaded the configuration and *)
(* built the verifiers, and before it starts the watcher.                  *)
(***************************************************************************)
EXTENDS Integers, Sequences

CONSTANTS
  NumFiles,    \* the configuration files are 1 .. NumFiles, in merge order
  Watched,     \* those that existed when Start resolved the patterns
  Valid,       \* the contents that merge, parse and pass validation
  Broken,      \* the <<file, version>> pairs ReadFile or yaml.Unmarshal rejects
  NumIdps,     \* the identity providers are 1 .. NumIdps, in config order
  Required,    \* those without ignore_setup_error
  Changes,     \* the kinds of change the environment makes
  MaxVersion,  \* bound: versions a file goes through
  MaxQueue     \* events the kernel queues before it overflows

Files == 1 .. NumFiles
Idps  == 1 .. NumIdps

Unedited == [f \in Files |-> 0]   \* the contents the broker started with

ChangeKinds == {"write", "create", "remove", "rotate"}

Parameters ==
  /\ NumFiles \in Nat \ {0}
  /\ Watched \subseteq Files
  /\ Valid \subseteq [Files -> Nat]
  /\ Unedited \in Valid
  /\ Broken \subseteq Files \X Nat
  /\ NumIdps \in Nat
  /\ Required \subseteq Idps
  /\ Changes \subseteq ChangeKinds
  /\ MaxVersion \in Nat
  /\ MaxQueue \in Nat \ {0}

ASSUME WatcherAssumption == Parameters

VARIABLES
  disk,       \* the content of each file
  idpUp,      \* the IdPs whose discovery endpoint answers
  queue,      \* file events not yet taken by the watch loop
  loop,       \* where the watch loop is
  timer,      \* debounceTimer: "armed" when a reload is scheduled
  stopCh,     \* "closed" once Stop was called
  cursor,     \* the next file to read, or the next IdP to set up
  read,       \* the contents the last reload read
  found,      \* the verifiers the running reload has built
  live,       \* the LiveState handlers load
  outcome,    \* how the last reload ended
  unheard     \* history: why a file's latest change raised no heeded event

vars == <<disk, idpUp, queue, loop, timer, stopCh, cursor, read, found,
          live, outcome, unheard>>

environment == <<disk, idpUp, unheard>>

(***************************************************************************)
(* Events.  AnyOther is the name of every path in a watched directory that *)
(* is not a configuration file, such as the ..data link of a ConfigMap.    *)
(***************************************************************************)
AnyOther == 0

Event == [name : Files \cup {AnyOther}, op : {"write", "create", "remove"}]

IsRelevantEvent(e) == e.op \in {"write", "create"} /\ e.name \in Watched

(***************************************************************************)
(* The environment.  A change emits one event when the directory is        *)
(* watched and the queue has room.  A change whose event is not relevant   *)
(* or not delivered is recorded in unheard with the reason.                *)
(***************************************************************************)
Watching == loop \notin {"off", "exited"} /\ stopCh = "open"

Emit(e) ==
  queue' = IF Watching /\ Len(queue) < MaxQueue THEN Append(queue, e) ELSE queue

Reason(e) ==
  IF ~ Watching THEN "not watching"
  ELSE IF ~ IsRelevantEvent(e) THEN "not relevant"
  ELSE IF Len(queue) >= MaxQueue THEN "overflow"
  ELSE "heard"

Reasons == {"not watching", "rotated", "not relevant", "overflow", "heard"}

\* A file is written in place, or another is renamed over it.
EditFile(f, op) ==
  LET e == [name |-> f, op |-> op] IN
  /\ op \in Changes \cap {"write", "create"}
  /\ disk[f] < MaxVersion
  /\ disk' = [disk EXCEPT ![f] = @ + 1]
  /\ Emit(e)
  /\ unheard' = [unheard EXCEPT ![f] = Reason(e)]
  /\ UNCHANGED <<idpUp, loop, timer, stopCh, cursor, read, found, live, outcome>>

RemoveFile(f) ==
  LET e == [name |-> f, op |-> "remove"] IN
  /\ "remove" \in Changes
  /\ disk[f] < MaxVersion
  /\ <<f, disk[f] + 1>> \in Broken
  /\ disk' = [disk EXCEPT ![f] = @ + 1]
  /\ Emit(e)
  /\ unheard' = [unheard EXCEPT ![f] = Reason(e)]
  /\ UNCHANGED <<idpUp, loop, timer, stopCh, cursor, read, found, live, outcome>>

\* A ConfigMap update renames ..data, and every file behind it changes at once.
RotateSymlink ==
  LET e == [name |-> AnyOther, op |-> "create"] IN
  /\ "rotate" \in Changes
  /\ \A f \in Files : disk[f] < MaxVersion
  /\ disk' = [f \in Files |-> disk[f] + 1]
  /\ Emit(e)
  /\ unheard' = [f \in Files |-> IF Watching THEN "rotated" ELSE "not watching"]
  /\ UNCHANGED <<idpUp, loop, timer, stopCh, cursor, read, found, live, outcome>>

IdpToggle(i) ==
  /\ idpUp' = IF i \in idpUp THEN idpUp \ {i} ELSE idpUp \cup {i}
  /\ UNCHANGED <<disk, queue, loop, timer, stopCh, cursor, read, found, live,
                 outcome, unheard>>

(***************************************************************************)
(* Start, the watch loop's select, and Stop.                               *)
(***************************************************************************)
StartWatching ==
  /\ loop = "off"
  /\ loop' = "select"
  /\ UNCHANGED <<environment, queue, timer, stopCh, cursor, read, found, live,
                 outcome>>

\* Fault: once a reload has failed, events no longer start the timer.
TakeEventGivesUp ==
  /\ loop = "select"
  /\ queue # <<>>
  /\ queue' = Tail(queue)
  /\ timer' = IF IsRelevantEvent(Head(queue)) /\ outcome = "ok" THEN "armed" ELSE timer
  /\ UNCHANGED <<environment, loop, stopCh, cursor, read, found, live, outcome>>

\* case event := <-Events: a relevant event (re)starts the debounce timer.
TakeEvent ==
  /\ loop = "select"
  /\ queue # <<>>
  /\ queue' = Tail(queue)
  /\ timer' = IF IsRelevantEvent(Head(queue)) THEN "armed" ELSE timer
  /\ UNCHANGED <<environment, loop, stopCh, cursor, read, found, live, outcome>>

\* Fault: the files are counted from zero.
TimerFiresAtZero ==
  /\ loop = "select"
  /\ timer = "armed"
  /\ timer' = "idle"
  /\ loop' = "reading"
  /\ cursor' = 0
  /\ UNCHANGED <<environment, queue, stopCh, read, found, live, outcome>>

\* case <-debounceCh: doReload, whose steps follow.
TimerFires ==
  /\ loop = "select"
  /\ timer = "armed"
  /\ timer' = "idle"
  /\ loop' = "reading"
  /\ cursor' = 1
  /\ UNCHANGED <<environment, queue, stopCh, read, found, live, outcome>>

Stop ==
  /\ Watching
  /\ stopCh' = "closed"
  /\ UNCHANGED <<environment, queue, loop, timer, cursor, read, found, live,
                 outcome>>

\* case <-stopCh, or Events closed by watcher.Close.
ExitLoop ==
  /\ loop = "select"
  /\ stopCh = "closed"
  /\ loop' = "exited"
  /\ timer' = "idle"
  /\ UNCHANGED <<environment, queue, stopCh, cursor, read, found, live, outcome>>

(***************************************************************************)
(* reload: NewConfigManager, GetConfig, NewIdpVerifiers, state.Store.      *)
(***************************************************************************)
EndReload(result) ==
  /\ loop' = "select"
  /\ outcome' = result
  /\ cursor' = 1
  /\ found' = {}

ReadFile ==
  /\ loop = "reading"
  /\ cursor \in Files
  /\ read' = [read EXCEPT ![cursor] = disk[cursor]]
  /\ unheard' = [unheard EXCEPT ![cursor] = "heard"]
  /\ IF <<cursor, disk[cursor]>> \in Broken
       THEN EndReload("failed")
       ELSE /\ cursor' = cursor + 1
            /\ UNCHANGED <<loop, outcome, found>>
  /\ UNCHANGED <<disk, idpUp, queue, timer, stopCh, live>>

Validate ==
  /\ loop = "reading"
  /\ cursor > NumFiles
  /\ IF read \in Valid
       THEN /\ loop' = "discovering"
            /\ cursor' = 1
            /\ found' = {}
            /\ UNCHANGED outcome
       ELSE EndReload("failed")
  /\ UNCHANGED <<environment, queue, timer, stopCh, read, live>>

\* Fault: every IdP is treated as if it had ignore_setup_error.
DiscoverIdpLenient ==
  /\ loop = "discovering"
  /\ cursor \in Idps
  /\ found' = found \cup ({cursor} \cap idpUp)
  /\ cursor' = cursor + 1
  /\ UNCHANGED <<environment, queue, loop, timer, stopCh, read, live, outcome>>

\* Fault: a failed reload goes back to the configuration of the start.
DiscoverIdpReverts ==
  /\ loop = "discovering"
  /\ cursor \in Idps
  /\ IF cursor \in Required \ idpUp
       THEN /\ EndReload("failed")
            /\ live' = [live EXCEPT !.files = Unedited]
       ELSE /\ found' = found \cup ({cursor} \cap idpUp)
            /\ cursor' = cursor + 1
            /\ UNCHANGED <<loop, outcome, live>>
  /\ UNCHANGED <<environment, queue, timer, stopCh, read>>

\* An IdP that cannot be set up is skipped if the config says so.
DiscoverIdp ==
  /\ loop = "discovering"
  /\ cursor \in Idps
  /\ IF cursor \in Required \ idpUp
       THEN EndReload("failed")
       ELSE /\ found' = found \cup ({cursor} \cap idpUp)
            /\ cursor' = cursor + 1
            /\ UNCHANGED <<loop, outcome>>
  /\ UNCHANGED <<environment, queue, timer, stopCh, read, live>>

\* Fault: the events that came in during the reload are thrown away.
SwapStateDrains ==
  /\ loop = "discovering"
  /\ cursor > NumIdps
  /\ live' = [files |-> read, verifiers |-> found]
  /\ queue' = <<>>
  /\ EndReload("ok")
  /\ UNCHANGED <<environment, timer, stopCh, read>>

SwapState ==
  /\ loop = "discovering"
  /\ cursor > NumIdps
  /\ live' = [files |-> read, verifiers |-> found]
  /\ EndReload("ok")
  /\ UNCHANGED <<environment, queue, timer, stopCh, read>>

-----------------------------------------------------------------------------
Init ==
  /\ disk = Unedited
  /\ idpUp \in {up \in SUBSET Idps : Required \subseteq up}
  /\ queue = <<>>
  /\ loop = "off"
  /\ timer = "idle"
  /\ stopCh = "open"
  /\ cursor = 1
  /\ read = Unedited
  /\ found = {}
  /\ live = [files |-> Unedited, verifiers |-> idpUp]
  /\ outcome = "ok"
  /\ unheard = [f \in Files |-> "heard"]

Environment ==
  \/ \E f \in Files, op \in {"write", "create"} : EditFile(f, op)
  \/ \E f \in Files : RemoveFile(f)
  \/ RotateSymlink
  \/ \E i \in Idps : IdpToggle(i)

Reload == ReadFile \/ Validate \/ DiscoverIdp \/ SwapState

WatchLoop == TakeEvent \/ TimerFires \/ ExitLoop \/ Reload

Next == Environment \/ StartWatching \/ Stop \/ WatchLoop

Spec == Init /\ [][Next]_vars

(***************************************************************************)
(* The watch loop is a goroutine: it keeps running.  Its select picks at   *)
(* random among the ready cases, so a ready timer is not passed over for   *)
(* ever; the network calls of a reload have a 30 s timeout.                *)
(***************************************************************************)
Fairness ==
  /\ WF_vars(TakeEvent)
  /\ WF_vars(TimerFires)
  /\ WF_vars(ExitLoop)
  /\ WF_vars(Reload)

FairSpec == Spec /\ Fairness

-----------------------------------------------------------------------------
(***************************************************************************)
(* Properties.                                                             *)
(***************************************************************************)

\* Every variable has its type, the published state included.
TypeOK ==
  /\ disk \in [Files -> Nat]
  /\ idpUp \subseteq Idps
  /\ queue \in Seq(Event)
  /\ loop \in {"off", "select", "reading", "discovering", "exited"}
  /\ timer \in {"idle", "armed"}
  /\ stopCh \in {"open", "closed"}
  /\ cursor \in Nat \ {0}
  /\ read \in [Files -> Nat]
  /\ found \subseteq Idps
  /\ live \in [files : [Files -> Nat], verifiers : SUBSET Idps]
  /\ outcome \in {"ok", "failed"}
  /\ unheard \in [Files -> Reasons]

\* The loop waits in its select with no event to take and no timer running.
Quiet == loop = "select" /\ stopCh = "open" /\ timer = "idle" /\ queue = <<>>

\* Once the dust settles after a reload that succeeded, the live configuration
\* is what is on disk, file by file, however edits, queued events, the debounce
\* timer and the file-by-file reads of reload interleaved.  Only the files
\* whose latest change the watcher was never told about are excepted.
FreshWhenQuiet ==
  Quiet /\ outcome = "ok" =>
    \A f \in Files : unheard[f] = "heard" => live.files[f] = disk[f]

\* The same for a ConfigMap update: "watches parent directories to handle
\* ConfigMap symlink rotations" (docs/site/configuration.qmd).
RotationGoesLive ==
  Quiet /\ outcome = "ok" =>
    \A f \in Files : unheard[f] \in {"heard", "rotated"} => live.files[f] = disk[f]

\* Handlers never load a state that failed validation or that lacks the
\* verifier of an IdP without ignore_setup_error, even though the IdPs come and
\* go while a reload is setting them up.
LiveIsSound == live.files \in Valid /\ Required \subseteq live.verifiers

\* Hot reload keeps its promises: what is published is validated, made of
\* contents the files had, and never takes a file back to an older content.
Promise == INSTANCE LiveConfig WITH files <- live.files

KeepsPromise == Promise!Spec

\* An edit the watcher was told about does go live: if the required IdPs stay
\* reachable, then in the end the live configuration is the one on disk, unless
\* that one is invalid, the loop is not running, or a change was not heard.
Usable == disk \in Valid /\ \A f \in Files : <<f, disk[f]>> \notin Broken

EditsGoLive ==
  [](Required \subseteq idpUp) =>
    <>[](\/ loop \in {"off", "exited"}
         \/ ~ Usable
         \/ \E f \in Files : unheard[f] # "heard"
         \/ live.files = disk)

=============================================================================
