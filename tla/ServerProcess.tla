---------------------------- MODULE ServerProcess ----------------------------
(***************************************************************************)
(* What the server keeps in memory next to the database: the copy of the   *)
(* configuration and, of API tokens, the calls counted and the uses noted. *)
(* One process has them all, and loses them all when it is restarted.      *)
(***************************************************************************)
EXTENDS ConfigService, ApiTokens

CONSTANTS
    Work,         \* the kinds of work that go on together
    MaxRestarts   \* bound

ASSUME ProcessAssumption == Work \subseteq SUBSET {"config", "api"} /\ MaxRestarts \in Nat

VARIABLES work, restarts

vars == <<server, configVars, apiVars, work, restarts>>

TypeOK ==
    /\ ConfigTypeOK
    /\ ApiTypeOK
    /\ work \in Work
    /\ restarts \in 0 .. MaxRestarts

Init ==
    /\ ConfigInit
    /\ ApiInit
    /\ work \in Work
    /\ restarts = 0

\* Killed, or stopped after a start that failed.
Restart ==
    /\ server # "down"
    /\ restarts < MaxRestarts
    /\ restarts' = restarts + 1
    /\ server' = "down"
    /\ ConfigLost
    /\ ApiLost
    /\ UNCHANGED work

Starts == server \in {"down", "loaded"}

Next ==
    \/ /\ "config" \in work \/ Starts
       /\ ConfigNext
       /\ UNCHANGED <<apiVars, work, restarts>>
    \/ /\ "api" \in work /\ server = "up"
       /\ ApiNext
       /\ UNCHANGED <<server, configVars, work, restarts>>
    \/ Restart

Spec == Init /\ [][Next]_vars
=============================================================================
