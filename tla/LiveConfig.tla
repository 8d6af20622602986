------------------------------ MODULE LiveConfig ------------------------------
(***************************************************************************)
(* What hot reload promises, with no watcher in sight.  Files change on    *)
(* disk at any time; now and then a configuration is published.  Whatever  *)
(* is published has passed validation, is assembled from contents the      *)
(* files really had, and never takes a file back to an older content.      *)
(*                                                                         *)
(* The contents of a file are the versions 0, 1, 2, ... it goes through.   *)
(***************************************************************************)
EXTENDS Naturals

CONSTANTS
  NumFiles,   \* the configuration files are 1 .. NumFiles, in merge order
  Valid       \* the contents in [Files -> Nat] that parse, merge and pass validation

Files == 1 .. NumFiles

Unedited == [f \in Files |-> 0]

VARIABLES
  disk,       \* the content of each file
  files       \* the contents the published configuration was built from

vars == <<disk, files>>

Init ==
  /\ disk = Unedited
  /\ files = Unedited

Edit ==
  /\ disk' \in [Files -> Nat]
  /\ \A f \in Files : disk[f] <= disk'[f]
  /\ UNCHANGED files

Publish ==
  /\ files' \in Valid
  /\ \A f \in Files : files[f] <= files'[f] /\ files'[f] <= disk[f]
  /\ UNCHANGED disk

Next == Edit \/ Publish

Spec == Init /\ [][Next]_vars

=============================================================================
