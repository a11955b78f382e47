----------------------------- MODULE AgentAccess -----------------------------
(***************************************************************************)
(* How an agent gets in, and is kept out: one-time enrollment tokens, the  *)
(* list of blocked agents, the streams agents open, and the start-up of    *)
(* the server that restores all of it                                      *)
(* (server/oseye/enrollment_store.py, storage/repositories/                *)
(* enrollment_tokens.py, blocked_agents.py and agents.py, api/routers/     *)
(* enrollment.py and agents.py, ingest/grpc_service.py, main.py).          *)
(*                                                                         *)
(* Requests of administrators and of enrolling agents run on the event     *)
(* loop and interleave at every database call; streams run on threads of   *)
(* the gRPC server and hand their database writes to the event loop, which *)
(* completes them in any order.  Memory is lost when the server stops, the *)
(* database is not.                                                        *)
(***************************************************************************)
EXTENDS Integers, FiniteSets

CONSTANTS
    CNs,          \* agent names: the hostname in the certificate
    Tokens,       \* enrollment tokens
    Enrollers,    \* concurrent POST /enroll/sign requests
    Admins,       \* concurrent requests to block or unblock an agent
    Streams,      \* concurrent IngestEvents streams
    KeyHolders,   \* agents with an Ed25519 key in the keys directory
    NoAgent,      \* an unused stream
    TokenTTL,
    MaxTime,      \* bound on the clock
    MaxAdmin,     \* bound on the block and unblock requests
    MaxOpens,     \* bound on the streams opened
    MaxFaults     \* bound on crashes and failing database calls

ASSUME AgentAccessAssumption ==
    /\ NoAgent \notin CNs /\ KeyHolders \subseteq CNs
    /\ TokenTTL \in Nat /\ MaxTime \in Nat /\ MaxAdmin \in Nat
    /\ MaxOpens \in Nat /\ MaxFaults \in Nat

VARIABLES
    now,
    phase,       \* where the server is in its start-up
    tokenRows,   \* enrollment_tokens: the tokens with a row
    expires,     \* expires_at of each token created
    enroll,      \* the request of each enrolling agent
    signed,      \* ghost: certificates signed with each token
    withdrawn,   \* ghost: tokens whose revocation was answered 204
    enrolled,    \* agents that hold a certificate
    blockedDb,   \* blocked_agents
    blockedMem,  \* AgentServiceServicer._blocked_cns
    admin,       \* the request of each administrator
    admins,      \* requests of administrators so far
    blocked,     \* ghost: agents whose last request is a completed block
    stream,      \* the agent on each stream
    activeCns,   \* AgentServiceServicer._active_cns
    online,      \* agents.online
    jobs,        \* database writes of the streams not executed yet
    opens,       \* streams opened so far
    seen,        \* ghost: agents that had a stream since the server started
    faults

tokenVars  == <<tokenRows, expires, enroll, signed, withdrawn, enrolled>>
blockVars  == <<blockedDb, blockedMem, admin, admins, blocked>>
streamVars == <<stream, activeCns, online, jobs, opens, seen>>
vars == <<now, phase, tokenVars, blockVars, streamVars, faults>>

Idle == [pc |-> "idle"]
Serving == phase = "serving"

Fault == faults < MaxFaults /\ faults' = faults + 1

Init ==
    /\ now = 0 /\ faults = 0 /\ phase = "down"
    /\ tokenRows = {} /\ expires = [t \in {} |-> 0]
    /\ enroll = [e \in Enrollers |-> Idle]
    /\ signed = [t \in Tokens |-> 0] /\ withdrawn = {} /\ enrolled = {}
    /\ blockedDb = {} /\ blockedMem = {} /\ admins = 0
    /\ admin = [a \in Admins |-> Idle] /\ blocked = {}
    /\ stream = [s \in Streams |-> NoAgent]
    /\ activeCns = {} /\ online = {} /\ jobs = {} /\ opens = 0 /\ seen = {}

-----------------------------------------------------------------------------
(* lifespan: the blocklist is loaded, then stale online flags are cleared,  *)
(* and only then does the gRPC server accept connections.                  *)

\* Mutant of LoadBlocked: the blocklist is not read at start-up
LoadBlockedNothing ==
    /\ phase = "down"
    /\ phase' = "loaded"
    /\ UNCHANGED <<now, blockVars, faults>>
    /\ UNCHANGED tokenVars /\ UNCHANGED streamVars

LoadBlocked ==
    /\ phase = "down"
    /\ phase' = "loaded"
    /\ blockedMem' = blockedMem \cup blockedDb
    /\ UNCHANGED <<now, blockedDb, admin, admins, blocked, faults>>
    /\ UNCHANGED tokenVars /\ UNCHANGED streamVars

\* Mutant of Startup: the flags of the previous process are left alone
StartupKeepsFlags ==
    /\ phase = "loaded"
    /\ phase' = "reset"
    /\ UNCHANGED <<now, faults>>
    /\ UNCHANGED tokenVars /\ UNCHANGED blockVars /\ UNCHANGED streamVars

\* AgentServiceServicer.startup and SQLAgentRepository.reset_all_offline.
Startup ==
    /\ phase = "loaded"
    /\ phase' = "reset"
    /\ online' = {}
    /\ UNCHANGED <<now, stream, activeCns, jobs, opens, seen, faults>>
    /\ UNCHANGED tokenVars /\ UNCHANGED blockVars

StartGrpc ==
    /\ phase = "reset"
    /\ phase' = "serving"
    /\ UNCHANGED <<now, faults>>
    /\ UNCHANGED tokenVars /\ UNCHANGED blockVars /\ UNCHANGED streamVars

\* The process dies: what it had in memory and under way is gone.
Crash ==
    /\ phase # "down" /\ Fault
    /\ phase' = "down"
    /\ blockedMem' = {} /\ admin' = [a \in Admins |-> Idle]
    /\ enroll' = [e \in Enrollers |-> Idle]
    /\ stream' = [s \in Streams |-> NoAgent]
    /\ activeCns' = {} /\ jobs' = {} /\ seen' = {}
    /\ UNCHANGED <<now, tokenRows, expires, signed, withdrawn, enrolled,
                   blockedDb, admins, blocked, online, opens>>

-----------------------------------------------------------------------------
(* Enrollment.                                                             *)

\* EnrollmentStore.create_token: a fresh token with its expiry.
FreshToken(t) ==
    /\ t \notin DOMAIN expires
    /\ expires' = [u \in DOMAIN expires \cup {t} |-> IF u = t THEN now + TokenTTL ELSE expires[u]]

\* SQLEnrollmentTokenRepository.create.
InsertToken(t) == tokenRows' = tokenRows \cup {t}

CreateToken(t) ==
    /\ FreshToken(t) /\ InsertToken(t)
    /\ UNCHANGED <<now, phase, enroll, signed, withdrawn, enrolled, faults>>
    /\ UNCHANGED blockVars /\ UNCHANGED streamVars

\* The endpoint, and the command-line tool, which opens the database itself
\* and works whether or not the server is up.
ApiCreateToken(t) == Serving /\ CreateToken(t)
CliCreateToken(t) == CreateToken(t)

\* Mutant of Consume: the token is checked and stays in the table
ConsumeChecksOnly(t) == t \in tokenRows /\ expires[t] > now /\ UNCHANGED tokenRows

\* verify_and_consume: one DELETE with the expiry in its condition.
Consume(t) ==
    /\ t \in tokenRows /\ expires[t] > now
    /\ tokenRows' = tokenRows \ {t}

\* sign_agent_csr, first half: the token is spent before the request is
\* looked at; an unknown, spent or expired token is refused with 404.
SpendToken(e, t, cn) ==
    /\ Serving /\ enroll[e].pc = "idle"
    /\ Consume(t)
    /\ enroll' = [enroll EXCEPT ![e] = [pc |-> "spent", token |-> t, cn |-> cn]]
    /\ UNCHANGED <<now, phase, expires, signed, withdrawn, enrolled, faults>>
    /\ UNCHANGED blockVars /\ UNCHANGED streamVars

\* sign_csr: a certificate in the name of the requested host.
SignCsr(e) ==
    /\ enroll[e].pc = "spent"
    /\ signed' = [signed EXCEPT ![enroll[e].token] = @ + 1]
    /\ enrolled' = enrolled \cup {enroll[e].cn}
    /\ enroll' = [enroll EXCEPT ![e] = Idle]
    /\ UNCHANGED <<now, phase, tokenRows, expires, withdrawn, faults>>
    /\ UNCHANGED blockVars /\ UNCHANGED streamVars

\* A malformed request is refused with 422; its token stays spent.
RejectCsr(e) ==
    /\ enroll[e].pc = "spent"
    /\ enroll' = [enroll EXCEPT ![e] = Idle]
    /\ UNCHANGED <<now, phase, tokenRows, expires, signed, withdrawn, enrolled, faults>>
    /\ UNCHANGED blockVars /\ UNCHANGED streamVars

\* SQLEnrollmentTokenRepository.revoke.
DeleteToken(t) == t \in tokenRows /\ tokenRows' = tokenRows \ {t}

\* revoke_token: 204 when the row existed, 404 otherwise.
RevokeToken(t) ==
    /\ DeleteToken(t)
    /\ withdrawn' = withdrawn \cup {t}
    /\ UNCHANGED <<now, phase, expires, enroll, signed, enrolled, faults>>
    /\ UNCHANGED blockVars /\ UNCHANGED streamVars

ApiRevokeToken(t) == Serving /\ RevokeToken(t)
CliRevokeToken(t) == RevokeToken(t)

\* list_active purges the expired rows it meets.
PurgeExpired ==
    /\ \E t \in tokenRows : expires[t] < now
    /\ tokenRows' = {t \in tokenRows : expires[t] >= now}

ListTokens ==
    /\ PurgeExpired
    /\ UNCHANGED <<now, phase, expires, enroll, signed, withdrawn, enrolled, faults>>
    /\ UNCHANGED blockVars /\ UNCHANGED streamVars

ApiListTokens == Serving /\ ListTokens
CliListTokens == ListTokens

\* The subcommands of oseye-server enrollment.
EnrollmentCli ==
    \/ \E t \in Tokens : CliCreateToken(t) \/ CliRevokeToken(t)
    \/ CliListTokens

-----------------------------------------------------------------------------
(* Blocking: the set in memory first, then the row.                        *)

Block(cn)   == blockedMem' = blockedMem \cup {cn}
Unblock(cn) == blockedMem' = blockedMem \ {cn}

BlockAgent(a, cn) ==
    /\ Serving /\ admin[a].pc = "idle" /\ admins < MaxAdmin
    /\ admins' = admins + 1
    /\ Block(cn)
    /\ admin' = [admin EXCEPT ![a] = [pc |-> "block", cn |-> cn]]
    /\ UNCHANGED <<now, phase, blockedDb, blocked, faults>>
    /\ UNCHANGED tokenVars /\ UNCHANGED streamVars

UnblockAgent(a, cn) ==
    /\ Serving /\ admin[a].pc = "idle" /\ admins < MaxAdmin
    /\ admins' = admins + 1
    /\ Unblock(cn)
    /\ admin' = [admin EXCEPT ![a] = [pc |-> "unblock", cn |-> cn]]
    /\ blocked' = blocked \ {cn}
    /\ UNCHANGED <<now, phase, blockedDb, faults>>
    /\ UNCHANGED tokenVars /\ UNCHANGED streamVars

Unblocking(cn) == \E a \in Admins : admin[a].pc = "unblock" /\ admin[a].cn = cn

\* The row is written and the request answered.  The ghost counts a block as
\* done when no request to unblock the same agent overlaps it.
StoreBlock(a) ==
    /\ admin[a].pc \in {"block", "unblock"}
    /\ LET cn == admin[a].cn IN
       IF admin[a].pc = "block"
       THEN /\ blockedDb' = blockedDb \cup {cn}
            /\ blocked' = IF Unblocking(cn) \/ cn \notin blockedMem
                          THEN blocked ELSE blocked \cup {cn}
       ELSE /\ blockedDb' = blockedDb \ {cn} /\ blocked' = blocked \ {cn}
    /\ admin' = [admin EXCEPT ![a] = Idle]
    /\ UNCHANGED <<now, phase, blockedMem, admins, faults>>
    /\ UNCHANGED tokenVars /\ UNCHANGED streamVars

\* The write fails: the administrator gets an error, memory keeps the change.
StoreBlockFails(a) ==
    /\ admin[a].pc \in {"block", "unblock"} /\ Fault
    /\ admin' = [admin EXCEPT ![a] = Idle]
    /\ UNCHANGED <<now, phase, blockedDb, blockedMem, admins, blocked>>
    /\ UNCHANGED tokenVars /\ UNCHANGED streamVars

-----------------------------------------------------------------------------
(* IngestEvents.                                                           *)

\* _extract_cn_from_context: the name in a certificate signed by the server's
\* authority.
Certified(cn) == cn \in enrolled

\* _require_cn: a certificate, and a name that is not blocked.
RequireCn(cn) == Certified(cn) /\ cn \notin blockedMem

\* The stream is registered and the agent marked online.
OpenStream(s, cn) ==
    /\ Serving /\ stream[s] = NoAgent /\ opens < MaxOpens
    /\ RequireCn(cn)
    /\ opens' = opens + 1
    /\ stream' = [stream EXCEPT ![s] = cn]
    /\ activeCns' = activeCns \cup {cn}
    /\ jobs' = jobs \cup {[cn |-> cn, online |-> TRUE, n |-> opens]}
    /\ seen' = seen \cup {cn}
    /\ UNCHANGED <<now, phase, online, faults>>
    /\ UNCHANGED tokenVars /\ UNCHANGED blockVars

\* Every way out of the handler (end of stream, RPC error, exception) marks
\* the agent offline, and the finally clause drops it from the active set.
Leave(cn) == activeCns' = activeCns \ {cn}

CloseStream(s) ==
    /\ stream[s] # NoAgent
    /\ stream' = [stream EXCEPT ![s] = NoAgent]
    /\ Leave(stream[s])
    /\ jobs' = jobs \cup {[cn |-> stream[s], online |-> FALSE, n |-> opens]}
    /\ UNCHANGED <<now, phase, online, opens, seen, faults>>
    /\ UNCHANGED tokenVars /\ UNCHANGED blockVars

\* The first batch of an agent without a registered key, when keys are
\* enforced: context.abort raises, so the stream ends like any other.
AbortUnsigned(s) ==
    /\ KeyHolders # {} /\ stream[s] \notin KeyHolders
    /\ CloseStream(s)

\* SQLAgentRepository.upsert and set_offline, on the event loop.
Upsert(cn)     == online' = online \cup {cn}
SetOffline(cn) == online' = online \ {cn}

RunJob(j) ==
    /\ j \in jobs
    /\ jobs' = jobs \ {j}
    /\ IF j.online THEN Upsert(j.cn) ELSE SetOffline(j.cn)
    /\ UNCHANGED <<now, phase, stream, activeCns, opens, seen, faults>>
    /\ UNCHANGED tokenVars /\ UNCHANGED blockVars

Tick ==
    /\ now < MaxTime /\ now' = now + 1
    /\ UNCHANGED <<phase, faults>>
    /\ UNCHANGED tokenVars /\ UNCHANGED blockVars /\ UNCHANGED streamVars

Next ==
    \/ LoadBlocked \/ Startup \/ StartGrpc \/ Crash \/ Tick
    \/ ApiListTokens \/ EnrollmentCli
    \/ \E t \in Tokens : \/ ApiCreateToken(t) \/ ApiRevokeToken(t)
                         \/ \E e \in Enrollers, cn \in CNs : SpendToken(e, t, cn)
    \/ \E e \in Enrollers : SignCsr(e) \/ RejectCsr(e)
    \/ \E a \in Admins : \/ StoreBlock(a) \/ StoreBlockFails(a)
                         \/ \E cn \in CNs : BlockAgent(a, cn) \/ UnblockAgent(a, cn)
    \/ \E s \in Streams : \/ CloseStream(s) \/ AbortUnsigned(s)
                          \/ \E cn \in CNs : OpenStream(s, cn)
    \/ \E j \in jobs : RunJob(j)

Spec == Init /\ [][Next]_vars

-----------------------------------------------------------------------------

\* A token buys at most one certificate, and none once its revocation has
\* been acknowledged, however requests to sign, to revoke and to list
\* overlap or are cut off by a crash (enrollment_tokens.py, "eliminates the
\* SELECT+delete TOCTOU race").
TokenSpentOnce ==
    \A t \in Tokens :
        /\ signed[t] <= 1
        /\ t \in withdrawn => signed[t] = 0

\* Once the block of an agent has been acknowledged, and until somebody asks
\* to lift it, that agent opens no new stream, whatever the server is
\* restarted in between (main.py, "so revocations survive restarts").
BlockedStaysOut ==
    [][\A s \in Streams :
         stream[s] = NoAgent /\ stream'[s] # NoAgent => stream'[s] \notin blocked]_vars

\* The set backpressure addresses holds only agents with a live stream, and
\* an agent is shown online only if it had a stream since the server last
\* started (AG-R-07, "stale flags from a previous crash are cleared").
NoGhostAgents ==
    /\ \A cn \in activeCns : \E s \in Streams : stream[s] = cn
    /\ Serving => online \subseteq seen

=============================================================================
