------------------------------ MODULE ApiTokens ------------------------------
(***************************************************************************)
(* API tokens and the guards of API v1 (apiToken.service.ts,               *)
(* apiTokenUsage.service.ts, apiV1Throttler.guard.ts, apiToken.guard.ts):  *)
(* a call is counted against the limit of its token, then the token is     *)
(* looked up, then its use is noted.  The counts and the notes are kept in *)
(* memory; the row gets the time of the last use once per window, by a     *)
(* write nobody waits for.                                                 *)
(***************************************************************************)
EXTENDS Naturals, Sequences, FiniteSets

CONSTANTS
    ApiTokenIds,
    Calls,     \* slots for calls of API v1
    Limit,     \* policy.limit
    Ttl,       \* policy.ttlSeconds
    Window,    \* API_TOKEN_USAGE_WINDOW_MS
    MaxTime    \* bound: the clock stops here

ASSUME ApiAssumption ==
    /\ Limit \in Nat \ {0} /\ Ttl \in Nat \ {0} /\ Window \in Nat \ {0}
    /\ MaxTime \in Nat /\ MaxTime >= Window

VARIABLES
    clock,
    token,    \* token[t]: the ApiToken row
    hits,     \* hits[t]: the timestamps the throttler keeps, by the time
    usage,    \* usage[t]: tokenUsage; persisted is 0 before the first use
    writes,   \* the updates of lastUsedAt under way, in the order they began
    call,     \* call[c]: the token of a call being looked up
    let,      \* history: let[t][n]: calls let through at n since the start
    failed    \* history: the tokens for which an update has failed

apiVars == <<clock, token, hits, usage, writes, call, let, failed>>

NoToken == "none"

\* A point after which now - 0 exceeds the window, as it does of Date.now().
Start == Window

Times == Start .. MaxTime

Counts == [Times -> 0 .. Limit]

NoHits == [n \in Times |-> 0]

NoUsage == [persisted |-> 0, seen |-> 0]

ApiTypeOK ==
    /\ clock \in Times
    /\ token \in [ApiTokenIds -> [state: {"none", "live", "revoked", "gone"},
                                  lastUsed: Times \cup {0}]]
    /\ hits \in [ApiTokenIds -> Counts]
    /\ usage \in [ApiTokenIds -> [persisted: Times \cup {0}, seen: Times \cup {0}]]
    /\ writes \in Seq(ApiTokenIds \X Times)
    /\ call \in [Calls -> ApiTokenIds \cup {NoToken}]
    /\ let \in [ApiTokenIds -> Counts]
    /\ failed \subseteq ApiTokenIds

ApiInit ==
    /\ clock = Start
    /\ token = [t \in ApiTokenIds |-> [state |-> "none", lastUsed |-> 0]]
    /\ hits = [t \in ApiTokenIds |-> NoHits]
    /\ usage = [t \in ApiTokenIds |-> NoUsage]
    /\ writes = <<>>
    /\ call = [c \in Calls |-> NoToken]
    /\ let = [t \in ApiTokenIds |-> NoHits]
    /\ failed = {}

-----------------------------------------------------------------------------
Tick ==
    /\ clock < MaxTime
    /\ clock' = clock + 1
    /\ UNCHANGED <<token, hits, usage, writes, call, let, failed>>

CreateForUser(t) ==
    /\ token[t].state = "none"
    /\ token' = [token EXCEPT ![t].state = "live"]
    /\ UNCHANGED <<clock, hits, usage, writes, call, let, failed>>

RevokeForUser(t) ==
    /\ token[t].state = "live"
    /\ token' = [token EXCEPT ![t].state = "revoked"]
    /\ UNCHANGED <<clock, hits, usage, writes, call, let, failed>>

\* Its user has been removed.
Cascade(t) ==
    /\ token[t].state \in {"live", "revoked"}
    /\ token' = [token EXCEPT ![t].state = "gone"]
    /\ UNCHANGED <<clock, hits, usage, writes, call, let, failed>>

\* Mutant of Recent: the count starts afresh with each period.
RecentInPeriod(t) ==
    [n \in Times |-> IF n \div Ttl = clock \div Ttl THEN hits[t][n] ELSE 0]

\* timestamp > now - ttl
Recent(t) == [n \in Times |-> IF n + Ttl > clock THEN hits[t][n] ELSE 0]

\* How many calls that makes: each is told by its time and a number.
Total(count) == Cardinality(UNION {{n} \X (1 .. count[n]) : n \in Times})

\* Mutant of Throttle: off by one.
ThrottleOneMore(c, t) ==
    /\ call[c] = NoToken
    /\ Total(Recent(t)) <= Limit
    /\ hits' = [hits EXCEPT ![t] = [Recent(t) EXCEPT ![clock] = @ + 1]]
    /\ let' = [let EXCEPT ![t][clock] = @ + 1]
    /\ call' = [call EXCEPT ![c] = t]
    /\ UNCHANGED <<clock, token, usage, writes, failed>>

\* A token that is not there is counted like one that is.
Throttle(c, t) ==
    /\ call[c] = NoToken
    /\ Total(Recent(t)) < Limit
    /\ hits' = [hits EXCEPT ![t] = [Recent(t) EXCEPT ![clock] = @ + 1]]
    /\ let' = [let EXCEPT ![t][clock] = @ + 1]
    /\ call' = [call EXCEPT ![c] = t]
    /\ UNCHANGED <<clock, token, usage, writes, failed>>

Due(t) == clock >= usage[t].persisted + Window

\* Mutant of RecordUsage: every use counts as persisted.
RecordUsageAlways(t) ==
    /\ usage' = [usage EXCEPT ![t] = [persisted |-> clock, seen |-> clock]]
    /\ writes' = IF Due(t) THEN Append(writes, <<t, clock>>) ELSE writes

RecordUsage(t) ==
    IF Due(t)
    THEN /\ usage' = [usage EXCEPT ![t] = [persisted |-> clock, seen |-> clock]]
         /\ writes' = Append(writes, <<t, clock>>)
    ELSE /\ usage' = [usage EXCEPT ![t].seen = clock]
         /\ UNCHANGED writes

\* Noted, or refused: the token is gone, revoked or expired, or the secret wrong.
Validate(c) ==
    LET t == call[c] IN
    /\ t # NoToken
    /\ call' = [call EXCEPT ![c] = NoToken]
    /\ \/ token[t].state = "live" /\ RecordUsage(t)
       \/ UNCHANGED <<usage, writes>>
    /\ UNCHANGED <<clock, token, hits, let, failed>>

\* The database answers in the order it is asked; a failed update is logged.
PersistUsage ==
    /\ writes # <<>>
    /\ LET t == Head(writes)[1] IN
       \/ /\ token[t].state \in {"live", "revoked"}
          /\ token' = [token EXCEPT ![t].lastUsed = Head(writes)[2]]
          /\ UNCHANGED failed
       \/ failed' = failed \cup {t} /\ UNCHANGED token
    /\ writes' = Tail(writes)
    /\ UNCHANGED <<clock, hits, usage, call, let>>

\* What is in memory goes with the process.
ApiLost ==
    /\ hits' = [t \in ApiTokenIds |-> NoHits]
    /\ let' = [t \in ApiTokenIds |-> NoHits]
    /\ usage' = [t \in ApiTokenIds |-> NoUsage]
    /\ writes' = <<>>
    /\ call' = [c \in Calls |-> NoToken]
    /\ UNCHANGED <<clock, token, failed>>

ApiCalls ==
    \/ \E c \in Calls : Validate(c) \/ \E t \in ApiTokenIds : Throttle(c, t)
    \/ PersistUsage

ApiNext ==
    \/ Tick
    \/ ApiCalls
    \/ \E t \in ApiTokenIds : CreateForUser(t) \/ RevokeForUser(t) \/ Cascade(t)

-----------------------------------------------------------------------------
(* In every stretch of Ttl, wherever it begins, a token has at most Limit  *)
(* calls let through, refused calls not counted.  (By one process.)        *)
WithinLimit ==
    \A t \in ApiTokenIds, n \in Times :
       Total([m \in Times |-> IF m \in n .. n + Ttl - 1 THEN let[t][m] ELSE 0]) <= Limit

(* The row's last use is less than a window older than the last use seen,  *)
(* for a token in steady use too, unless an update is under way or failed. *)
UsageIsRecent ==
    \A t \in ApiTokenIds :
       (token[t].state \in {"live", "revoked"} /\ t \notin failed /\ usage[t] # NoUsage)
       => \/ \E i \in DOMAIN writes : writes[i][1] = t
          \/ usage[t].seen < token[t].lastUsed + Window
=============================================================================
