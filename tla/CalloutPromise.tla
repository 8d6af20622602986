---------------------------- MODULE CalloutPromise ----------------------------
(***************************************************************************)
(* What the auth callout promises a NATS server, with no handler in sight: *)
(* a request is settled once, and a user JWT is only handed out that one   *)
(* single configuration, in force at some moment since the request was     *)
(* made, entitles it to.                                                   *)
(***************************************************************************)

CONSTANTS
  Requests,   \* the authorization requests a server may send
  Configs,    \* the configurations that may be in force
  NoJwt,      \* stands for no JWT
  Entitled    \* Entitled[r][c] \subseteq Jwts: what request r may get under configuration c

VARIABLES
  live,      \* the configuration in force
  seen,      \* for each request, those in force while it was pending
  status,    \* how far each request is
  jwt        \* the JWT each request got

vars == <<live, seen, status, jwt>>

Init ==
  /\ live \in Configs
  /\ seen = [r \in Requests |-> {}]
  /\ status = [r \in Requests |-> "unasked"]
  /\ jwt = [r \in Requests |-> NoJwt]

Ask(r) ==
  /\ status[r] = "unasked"
  /\ seen' = [seen EXCEPT ![r] = {live}]
  /\ status' = [status EXCEPT ![r] = "pending"]
  /\ UNCHANGED <<live, jwt>>

Swap ==
  /\ live' \in Configs
  /\ seen' = [r \in Requests |->
                IF status[r] = "pending" THEN seen[r] \cup {live'} ELSE seen[r]]
  /\ UNCHANGED <<status, jwt>>

Grant(r) ==
  /\ status[r] = "pending"
  /\ seen' = [seen EXCEPT ![r] = {}]
  /\ status' = [status EXCEPT ![r] = "granted"]
  /\ \E c \in seen[r] : \E j \in Entitled[r][c] : jwt' = [jwt EXCEPT ![r] = j]
  /\ UNCHANGED live

\* The answer may be no, and a request may be made in vain.
Deny(r) ==
  /\ status[r] \in {"unasked", "pending"}
  /\ seen' = [seen EXCEPT ![r] = {}]
  /\ status' = [status EXCEPT ![r] = "denied"]
  /\ UNCHANGED <<live, jwt>>

\* All that is pending may be lost at once.
Lose ==
  /\ seen' = [r \in Requests |-> {}]
  /\ status' = [r \in Requests |-> IF status[r] = "pending" THEN "denied" ELSE status[r]]
  /\ UNCHANGED <<live, jwt>>

Next ==
  \/ Swap
  \/ Lose
  \/ \E r \in Requests : Ask(r) \/ Grant(r) \/ Deny(r)

Spec == Init /\ [][Next]_vars

=============================================================================
