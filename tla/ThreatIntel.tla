----------------------------- MODULE ThreatIntel -----------------------------
(***************************************************************************)
(* Threat-intelligence lookups: the client, its cache, and for each        *)
(* provider a circuit breaker around a retried call                        *)
(* (server/oseye/threat_intel/client.py, cache.py, breaker.py, retry.py,   *)
(* providers/, api/routers/ti.py).                                         *)
(*                                                                         *)
(* A lookup that misses the cache calls every provider concurrently under  *)
(* one timeout.  Every await is a point where the calls of other lookups   *)
(* go on, so a breaker may be opened, probed and closed by other lookups   *)
(* while a call is in flight, and a call may be cancelled in any state of  *)
(* its breaker.                                                            *)
(*                                                                         *)
(* RaisingCalls: may the function handed to the breaker raise?  The        *)
(* breaker is written for that; the providers hand it retry_async, which   *)
(* turns every failure into None and never raises.                         *)
(***************************************************************************)
EXTENDS Integers, Sequences, FiniteSets, SequencesExt

CONSTANTS
    Lookups,        \* concurrent calls of ThreatIntelClient.lookup
    Indicators,     \* what callers ask about
    Hashes,         \* the indicators that are file hashes, the rest are addresses
    Malformed,      \* neither an address nor a hash
    NonPublic,      \* private, loopback, link-local and multicast addresses
    Confidence,     \* AbuseIPDB: abuseConfidenceScore of an address
    Whitelisted,    \* AbuseIPDB: addresses with isWhitelisted
    Stats,          \* VirusTotal: last_analysis_stats of an indicator
    TTL, ShortTTL,  \* _cache_ttl and _SHORT_UNAVAILABLE_TTL
    Timeout,        \* _timeout
    MaxSize,        \* MemoryTICache._MAX_SIZE
    FailMax, ResetTimeout,
    Attempts,       \* attempts of retry_async
    RaisingCalls,
    MaxClock,       \* bound on the clock
    MaxQueries      \* bound on the lookups started

Providers == {"abuseipdb", "virustotal"}

ASSUME ThreatIntelAssumption ==
    /\ Malformed \cup NonPublic \cup Hashes \subseteq Indicators
    /\ Confidence \in [Indicators -> 0..100] /\ Whitelisted \subseteq Indicators
    /\ Stats \in [Indicators -> [malicious : Nat, suspicious : Nat, harmless : Nat]]
    /\ TTL \in Nat /\ ShortTTL \in 0 .. TTL /\ Timeout \in Nat \ {0}
    /\ MaxSize \in Nat \ {0} /\ FailMax \in Nat \ {0} /\ ResetTimeout \in Nat
    /\ Attempts \in Nat \ {0} /\ RaisingCalls \in BOOLEAN
    /\ MaxClock \in Nat /\ MaxQueries \in Nat

VARIABLES
    now,
    store,     \* MemoryTICache._store, oldest entry first
    breaker,   \* the circuit breaker of each provider
    lookup,    \* the lookup each caller has under way
    answer,    \* the last report given to a caller
    queries    \* lookups started so far

tiVars == <<now, store, breaker, lookup, answer, queries>>

Results  == {"report", "none", "lost"}
Idle     == [pc |-> "idle"]
NoAnswer == [got |-> FALSE]

\* AggregatedTIReport with its stub in the cache: `failed` is a ghost, the
\* providers that could not be reached.
Report(i, malicious, unavailable, failed) ==
    [ind |-> i, malicious |-> malicious, ti_unavailable |-> unavailable,
     queried_at |-> now, failed |-> failed]

-----------------------------------------------------------------------------
(* MemoryTICache.                                                          *)

Keys       == {store[k].key : k \in DOMAIN store}
PlaceOf(i) == CHOOSE k \in DOMAIN store : store[k].key = i
EntryOf(i) == store[PlaceOf(i)]
Without(i) == IF i \in Keys THEN RemoveAt(store, PlaceOf(i)) ELSE store

\* Mutant of Live: the expiry of an entry is not looked at
LiveForever(i) == i \in Keys

Live(i)    == i \in Keys /\ now <= EntryOf(i).expires_at

\* get: a hit moves to the end, an expired entry is deleted.
CacheGet(i) ==
    store' = CASE Live(i)        -> Append(Without(i), EntryOf(i))
               [] i \notin Keys  -> store
               [] OTHER          -> Without(i)

\* set: the oldest entry makes room for a new key.
CacheSet(i, report, ttl) ==
    LET room == IF i \in Keys \/ Len(store) < MaxSize THEN Without(i) ELSE Tail(store)
    IN  store' = Append(room, [key |-> i, expires_at |-> now + ttl, report |-> report])

-----------------------------------------------------------------------------
(* AsyncCircuitBreaker.call: admission, and the three ways a call ends.    *)

Closed == [state |-> "closed", failures |-> 0, opened_at |-> 0, probe |-> FALSE]

\* The state after an elapsed reset timeout has been noticed.
Noticed(b) ==
    IF b.state = "open" /\ now - b.opened_at >= ResetTimeout
    THEN [b EXCEPT !.state = "half_open"] ELSE b

Admits(b) ==
    LET n == Noticed(b)
    IN n.state = "closed" \/ (n.state = "half_open" /\ ~ n.probe)

Entered(b) ==
    LET n == Noticed(b)
    IN  IF n.state = "half_open" THEN [n EXCEPT !.probe = TRUE] ELSE n

Succeeded(b) == [b EXCEPT !.state = "closed", !.failures = 0, !.probe = FALSE]

Failed(b) ==
    LET count == b.failures + 1
        opens == b.state = "half_open" \/ count >= FailMax
    IN [state     |-> IF opens THEN "open" ELSE b.state,
        failures  |-> count,
        opened_at |-> IF opens /\ b.state # "open" THEN now ELSE b.opened_at,
        probe     |-> FALSE]

\* Mutant of Cancelled: no finally clause
CancelledKeepsProbe(b) == b

\* CancelledError reaches neither except nor else, only finally.
Cancelled(b) == IF b.state = "half_open" THEN [b EXCEPT !.probe = FALSE] ELSE b

-----------------------------------------------------------------------------
(* What the providers report and what becomes of it. *)

\* AbuseIPDBProvider._parse
AbuseMalicious(i) == Confidence[i] > 0 /\ i \notin Whitelisted

\* VirusTotalProvider._compute_score as a fraction of 200: malicious engines
\* count twice as much as suspicious ones, undecided ones not at all.
ComputeScore(stats) ==
    [num |-> (2 * stats.malicious + stats.suspicious) * 100,
     den |-> 2 * (stats.malicious + stats.suspicious + stats.harmless)]

\* _parse_report: ten per cent of the engines with a verdict.
VtMalicious(i) ==
    LET score == ComputeScore(Stats[i])
    IN  score.den # 0 /\ score.num >= 10 * score.den

MaliciousFor(p, i) == IF p = "abuseipdb" THEN AbuseMalicious(i) ELSE VtMalicious(i)

\* _aggregate
Aggregate(i, reports, unavailable, failed) ==
    Report(i, \E p \in reports : MaliciousFor(p, i), unavailable, failed)

\* _validate_indicator
Validated(i) == i \notin Malformed /\ i \notin NonPublic

-----------------------------------------------------------------------------

\* The providers of an indicator; AbuseIPDB answers None for a hash.
Asked(i) == IF i \in Hashes THEN {"virustotal"} ELSE Providers

TInit ==
    /\ now = 0
    /\ store = <<>>
    /\ breaker = [p \in Providers |-> Closed]
    /\ lookup  = [l \in Lookups |-> Idle]
    /\ answer  = NoAnswer
    /\ queries = 0

Give(report) == answer' = [got |-> TRUE, at |-> now, report |-> report]

\* lookup, up to the cache: a hit is the answer.
Hit(l, i) ==
    /\ lookup[l].pc = "idle" /\ queries < MaxQueries
    /\ Live(i)
    /\ CacheGet(i)
    /\ Give(EntryOf(i).report)
    /\ queries' = queries + 1
    /\ UNCHANGED <<now, breaker, lookup>>

Miss(l, i) ==
    /\ lookup[l].pc = "idle" /\ queries < MaxQueries
    /\ ~ Live(i)
    /\ CacheGet(i)
    /\ lookup' = [lookup EXCEPT ![l] =
                    [pc |-> "calling", ind |-> i, start |-> now,
                     call |-> [p \in Asked(i) |-> "pending"],
                     tries |-> [p \in Asked(i) |-> 0]]]
    /\ queries' = queries + 1
    /\ UNCHANGED <<now, breaker, answer>>

ClientLookup(l, i) == Validated(i) /\ (Hit(l, i) \/ Miss(l, i))

\* The route checks the format only, and answers 400 when lookup raises.
ApiLookup(l, i) == i \notin Malformed /\ ClientLookup(l, i)

\* The worker skips what is malformed and most of what is not public; lookup
\* raises for the rest, and the worker goes on with the next indicator.
WorkerLookup(l, i) == ClientLookup(l, i)

Calling(l, p, stage) ==
    /\ lookup[l].pc = "calling"
    /\ p \in DOMAIN lookup[l].call
    /\ lookup[l].call[p] = stage

Move(l, p, stage) == lookup' = [lookup EXCEPT ![l].call[p] = stage]

\* The provider's task starts: an open circuit is skipped with None.
EnterBreaker(l, p) ==
    /\ Calling(l, p, "pending")
    /\ IF Admits(breaker[p])
       THEN Move(l, p, "in_flight") /\ breaker' = [breaker EXCEPT ![p] = Entered(@)]
       ELSE Move(l, p, "lost") /\ UNCHANGED breaker
    /\ UNCHANGED <<now, store, answer, queries>>

\* retry_async: a transient error is tried again until the attempts are used
\* up; the last one ("lost") and a client error ("none") both return None.
RetryLater(l, p) ==
    /\ Calling(l, p, "in_flight")
    /\ lookup[l].tries[p] + 1 < Attempts
    /\ lookup' = [lookup EXCEPT ![l].tries[p] = @ + 1]
    /\ UNCHANGED <<now, store, breaker, answer, queries>>

CallReturns(l, p, result) ==
    /\ Calling(l, p, "in_flight")
    /\ result = "lost" => lookup[l].tries[p] + 1 = Attempts
    /\ Move(l, p, result)
    /\ breaker' = [breaker EXCEPT ![p] = Succeeded(@)]
    /\ UNCHANGED <<now, store, answer, queries>>

\* The provider turns an exception of the breaker into None as well.
CallRaises(l, p) ==
    /\ RaisingCalls
    /\ Calling(l, p, "in_flight")
    /\ Move(l, p, "lost")
    /\ breaker' = [breaker EXCEPT ![p] = Failed(@)]
    /\ UNCHANGED <<now, store, answer, queries>>

With(l, result) == {p \in DOMAIN lookup[l].call : lookup[l].call[p] = result}

\* The rest of lookup.  No provider lets an exception out, so
\* provider_error_count stays 0 and ti_unavailable needs the timeout.
Conclude(l, reports, lost, timedOut) ==
    LET i == lookup[l].ind
        r == Aggregate(i, reports, timedOut /\ reports = {}, lost)
    IN  /\ CacheSet(i, r, IF r.ti_unavailable THEN ShortTTL ELSE TTL)
        /\ Give(r)
        /\ lookup' = [lookup EXCEPT ![l] = Idle]

Complete(l) ==
    /\ lookup[l].pc = "calling"
    /\ \A p \in DOMAIN lookup[l].call : lookup[l].call[p] \in Results
    /\ Conclude(l, With(l, "report"), With(l, "lost"), FALSE)
    /\ UNCHANGED <<now, breaker, queries>>

Late(l) == lookup[l].pc = "calling" /\ now - lookup[l].start >= Timeout

\* wait_for: what is still in flight is cancelled and every result dropped.
TimedOut(l) ==
    /\ Late(l)
    /\ breaker' = [p \in Providers |->
                     IF Calling(l, p, "in_flight") THEN Cancelled(breaker[p]) ELSE breaker[p]]
    /\ Conclude(l, {}, Asked(lookup[l].ind), TRUE)
    /\ UNCHANGED <<now, queries>>

TTick ==
    /\ now < MaxClock
    /\ \A l \in Lookups : ~ Late(l)
    /\ now' = now + 1
    /\ UNCHANGED <<store, breaker, lookup, answer, queries>>

TNext ==
    \/ \E l \in Lookups :
         \/ \E i \in Indicators : ApiLookup(l, i) \/ WorkerLookup(l, i)
         \/ \E p \in Providers :
              \/ EnterBreaker(l, p) \/ RetryLater(l, p) \/ CallRaises(l, p)
              \/ \E result \in Results : CallReturns(l, p, result)
         \/ Complete(l) \/ TimedOut(l)
    \/ TTick

TSpec == TInit /\ [][TNext]_tiVars

-----------------------------------------------------------------------------

\* The probe slot of a half-open circuit is only taken while a call to that
\* provider is in flight, whatever calls end, fail or are cancelled around
\* it: otherwise the circuit would refuse every call for ever (breaker.py,
\* the finally clause of call).
ProbeSlotNotLeaked ==
    \A p \in Providers : breaker[p].probe =>
        \E l \in Lookups : Calling(l, p, "in_flight")

\* The cache holds one entry per indicator and never more than its limit, and
\* no caller is given a report older than the TTL, nor one that is marked
\* unavailable and older than the short TTL, however lookups of the same
\* indicator overlap.
CacheSound ==
    /\ Len(store) <= MaxSize
    /\ \A j, k \in DOMAIN store : store[j].key = store[k].key => j = k
    /\ answer.got =>
        answer.at - answer.report.queried_at
            <= IF answer.report.ti_unavailable THEN ShortTTL ELSE TTL

\* What client.py says of its cache, "use a short TTL when TI is unavailable
\* to avoid caching stale 'no data'": a report made while none of the
\* providers could be reached is not served past the short TTL.
OutageNotCached ==
    answer.got /\ answer.report.failed = Asked(answer.report.ind)
        => answer.at - answer.report.queried_at <= ShortTTL

=============================================================================
