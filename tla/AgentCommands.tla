---------------------------- MODULE AgentCommands ----------------------------
(***************************************************************************)
(* What the server sends to its agents, on top of how they get in          *)
(* (AgentAccess): operators' pings, the throttle commands of the           *)
(* backpressure controller and the surveillance profiles                   *)
(* (server/oseye/ingest/grpc_service.py, ingest/backpressure.py,           *)
(* policy/engine.py, api/routers/agents.py and policies.py,                *)
(* cli/cmd_agents.py, bus/redis_bus.py).                                   *)
(*                                                                         *)
(* Every agent has two topics, a Redis stream each with one consumer       *)
(* group.  A handler (StreamCommands or ReceivePolicy) is a subscriber on  *)
(* the event loop that moves messages into a queue, and a thread of the    *)
(* gRPC server that takes them out and sends them.  When an agent leaves,  *)
(* the thread notices up to a second later, so the handlers of an agent    *)
(* that comes back overlap.                                                *)
(***************************************************************************)
EXTENDS AgentAccess, Sequences, SequencesExt

CONSTANTS
    Profiles,      \* names of surveillance profiles
    Handlers,      \* concurrent StreamCommands and ReceivePolicy calls
    PingTimeout,
    ReadBatch,     \* RedisEventBus._read_batch_size
    MaxRequests    \* bound on the messages, the handlers, and the requests and
                   \* streams of AgentAccess together

ASSUME AgentCommandsAssumption ==
    PingTimeout \in Nat /\ ReadBatch \in Nat \ {0} /\ MaxRequests \in Nat

Kinds   == {"commands", "policy"}
Full    == "1.0"               \* a throttle factor: full speed
Factors == {"0.1", Full}       \* what _check_and_throttle may compute

VARIABLES
    topic,      \* kind, agent -> the messages published
    cursor,     \* kind, agent -> how many of them the group was given
    handler,    \* where each handler is
    handled,    \* handlers opened so far
    got,        \* agent -> the messages it has received, in order
    pongs,      \* reports of agents on their way
    pending,    \* AgentServiceServicer._pending_pings
    signalled,  \* pings whose event is set
    answered,   \* ghost: pings answered "ok"
    factor,     \* BackpressureController._current_factor
    telling,    \* agents _publish_throttle has still to publish to
    sent        \* messages published so far, the next identifier

pingVars   == <<pongs, pending, signalled, answered>>
streamState == <<topic, cursor, handler, handled, got, sent>>
controlVars == <<factor, telling>>
commandVars == <<pingVars, streamState, controlVars>>
allVars    == <<vars, commandVars>>

IdleHandler == [pc |-> "idle"]

Requests == admins + opens + handled + sent

CInit ==
    /\ Init
    /\ topic  = [k \in Kinds |-> [cn \in CNs |-> <<>>]]
    /\ cursor = [k \in Kinds |-> [cn \in CNs |-> 0]]
    /\ handler = [h \in Handlers |-> IdleHandler] /\ handled = 0
    /\ got = [cn \in CNs |-> <<>>]
    /\ pongs = {} /\ pending = {} /\ signalled = {} /\ answered = {}
    /\ factor = Full /\ telling = {} /\ sent = 0

\* RedisEventBus.publish.
Publish(kind, cn, what) ==
    /\ Requests < MaxRequests /\ sent' = sent + 1
    /\ topic' = [topic EXCEPT ![kind][cn] = Append(@, [id |-> sent + 1, what |-> what])]
    /\ UNCHANGED <<cursor, handler, handled, got>>

-----------------------------------------------------------------------------
(* The handlers.                                                           *)

\* Both begin by checking the certificate and subscribing; the group exists
\* already or begins with the oldest message.
Open(h, kind, cn) ==
    /\ Serving /\ RequireCn(cn)
    /\ handler[h].pc = "idle" /\ Requests < MaxRequests
    /\ handled' = handled + 1
    /\ handler' = [handler EXCEPT ![h] = [pc |-> "open", kind |-> kind, cn |-> cn, queue |-> <<>>]]
    /\ UNCHANGED <<topic, cursor, got, sent>>
    /\ UNCHANGED vars /\ UNCHANGED pingVars /\ UNCHANGED controlVars

StreamCommands(h, cn) == Open(h, "commands", cn)

\* No policy engine is attached to the servicer, so nothing is pushed here.
ReceivePolicy(h, cn) == Open(h, "policy", cn)

\* XREADGROUP gives the group's next messages to whoever asks, a batch at a
\* time.
Batch(kind, cn) ==
    LET left == Len(topic[kind][cn]) - cursor[kind][cn]
    IN  IF left < ReadBatch THEN left ELSE ReadBatch

\* Mutant of Advance: the group's position is kept by the handler
AdvanceNot(kind, cn) == UNCHANGED cursor

Advance(kind, cn) == cursor' = [cursor EXCEPT ![kind][cn] = @ + Batch(kind, cn)]

\* What a handler takes from its subscription.
Slice(kind, cn, n) == SubSeq(topic[kind][cn], cursor[kind][cn] + 1, cursor[kind][cn] + n)

\* _subscriber: the messages of a batch move into the queue one by one.  When
\* the agent has left and the thread has not noticed yet, the subscriber stops
\* after one message and the rest of the batch reaches nobody: the group has
\* handed it out.  An agent that leaves while the batch is being moved does
\* what one that leaves just after it does, as nobody reads that queue again.
Fetch(h) ==
    /\ handler[h].pc \in {"open", "left"}
    /\ LET k == handler[h].kind
           cn == handler[h].cn
           n  == IF handler[h].pc = "left" THEN 1 ELSE Batch(k, cn)
       IN  /\ cursor[k][cn] < Len(topic[k][cn])
           /\ Advance(k, cn)
           /\ handler' = [handler EXCEPT ![h].pc = IF @ = "left" THEN "stopped" ELSE @,
                                        ![h].queue = @ \o Slice(k, cn, n)]
    /\ UNCHANGED <<topic, handled, got, sent>>
    /\ UNCHANGED vars /\ UNCHANGED pingVars /\ UNCHANGED controlVars

\* The thread yields the head of its queue to the agent, which answers a ping.
Yield(h) ==
    /\ handler[h].pc = "open" /\ handler[h].queue # <<>>
    /\ LET cn  == handler[h].cn
           msg == Head(handler[h].queue)
       IN  /\ got' = [got EXCEPT ![cn] = Append(@, msg)]
           /\ pongs' = IF msg.what = "PING" THEN pongs \cup {[cn |-> cn, id |-> msg.id]} ELSE pongs
    /\ handler' = [handler EXCEPT ![h].queue = Tail(@)]
    /\ UNCHANGED <<topic, cursor, handled, sent, pending, signalled, answered>>
    /\ UNCHANGED vars /\ UNCHANGED controlVars

\* The agent closes the stream or loses its connection.
AgentLeaves(h) ==
    /\ handler[h].pc = "open"
    /\ handler' = [handler EXCEPT ![h].pc = "left"]
    /\ UNCHANGED <<topic, cursor, handled, got, sent>>
    /\ UNCHANGED vars /\ UNCHANGED pingVars /\ UNCHANGED controlVars

\* The thread notices: the subscriber is cancelled, the queue is gone.
EndHandler(h) ==
    /\ handler[h].pc \in {"left", "stopped"}
    /\ handler' = [handler EXCEPT ![h] = IdleHandler]
    /\ UNCHANGED <<topic, cursor, handled, got, sent>>
    /\ UNCHANGED vars /\ UNCHANGED pingVars /\ UNCHANGED controlVars

-----------------------------------------------------------------------------
(* Pings: ping_agent and the end of ReportActions.                         *)

\* register_ping under a new identifier; the request shares the slots of
\* AgentAccess.
Ping(a, cn) ==
    /\ Serving /\ admin[a].pc = "idle"
    /\ Publish("commands", cn, "PING")
    /\ pending' = pending \cup {sent + 1}
    /\ admin' = [admin EXCEPT ![a] = [pc |-> "ping", cn |-> cn, id |-> sent + 1, until |-> now + PingTimeout]]
    /\ UNCHANGED <<now, phase, blockedDb, blockedMem, admins, blocked, faults>>
    /\ UNCHANGED tokenVars /\ UNCHANGED streamVars
    /\ UNCHANGED <<pongs, signalled, answered>> /\ UNCHANGED controlVars

\* ReportActions: a waiting ping is signalled.  No row of response_actions
\* ever exists, so the rest of the handler ends at "unknown command".
Signal(id) == signalled' = IF id \in pending THEN signalled \cup {id} ELSE signalled

ReportActions(r) ==
    /\ Serving /\ r \in pongs
    /\ pongs' = pongs \ {r}
    /\ IF RequireCn(r.cn) THEN Signal(r.id) ELSE UNCHANGED signalled
    /\ UNCHANGED <<pending, answered>>
    /\ UNCHANGED vars /\ UNCHANGED streamState /\ UNCHANGED controlVars

\* Mutant of Unregister: the registry keeps pings that timed out
UnregisterAnswered(id) == pending' = IF id \in signalled THEN pending \ {id} ELSE pending

\* unregister_ping, in the finally clause.
Unregister(id) == pending' = pending \ {id}

EndPing(a) ==
    /\ admin' = [admin EXCEPT ![a] = Idle]
    /\ Unregister(admin[a].id)
    /\ signalled' = signalled \ {admin[a].id}
    /\ UNCHANGED <<now, phase, blockedDb, blockedMem, admins, blocked, faults>>
    /\ UNCHANGED tokenVars /\ UNCHANGED streamVars
    /\ UNCHANGED pongs /\ UNCHANGED streamState /\ UNCHANGED controlVars

PingOk(a) ==
    /\ admin[a].pc = "ping" /\ admin[a].id \in signalled
    /\ answered' = answered \cup {admin[a].id}
    /\ EndPing(a)

\* wait_for gives up; a reply may arrive at the same time.
PingTimesOut(a) ==
    /\ admin[a].pc = "ping" /\ now >= admin[a].until
    /\ UNCHANGED answered
    /\ EndPing(a)

-----------------------------------------------------------------------------
(* Backpressure and profiles.                                              *)

\* _check_and_throttle: the factor changes and every agent with an event
\* stream is to be told, one after the other.  The lag it follows, the length
\* of events:raw, is an input: nothing in the server writes that stream.
CheckAndThrottle(f) ==
    /\ Serving /\ telling = {} /\ f # factor
    /\ factor' = f /\ telling' = activeCns
    /\ UNCHANGED vars /\ UNCHANGED pingVars /\ UNCHANGED streamState

\* _publish_throttle.
PublishThrottle(cn) ==
    /\ cn \in telling /\ telling' = telling \ {cn}
    /\ Publish("commands", cn, factor)
    /\ UNCHANGED factor /\ UNCHANGED vars /\ UNCHANGED pingVars

\* A failed publication is only logged.
PublishThrottleFails(cn) ==
    /\ cn \in telling /\ telling' = telling \ {cn}
    /\ Fault
    /\ UNCHANGED <<now, phase>> /\ UNCHANGED tokenVars /\ UNCHANGED blockVars /\ UNCHANGED streamVars
    /\ UNCHANGED factor /\ UNCHANGED pingVars /\ UNCHANGED streamState

\* push_to_agent, and apply_profile for one agent.
PushToAgent(cn, profile) ==
    /\ Publish("policy", cn, profile)
    /\ UNCHANGED controlVars /\ UNCHANGED vars /\ UNCHANGED pingVars

ApplyProfile(cn, profile) == Serving /\ PushToAgent(cn, profile)

-----------------------------------------------------------------------------

\* A restart forgets all but the streams in Redis and what agents hold.
CommandsGone ==
    /\ handler' = [h \in Handlers |-> IdleHandler]
    /\ pending' = {} /\ signalled' = {}
    /\ factor' = Full /\ telling' = {}
    /\ UNCHANGED <<topic, cursor, handled, got, sent, pongs, answered>>

AccessStep ==
    \/ LoadBlocked \/ Startup \/ StartGrpc \/ Tick
    \/ ApiListTokens \/ EnrollmentCli
    \/ \E t \in Tokens : \/ ApiCreateToken(t) \/ ApiRevokeToken(t)
                         \/ \E e \in Enrollers, cn \in CNs : SpendToken(e, t, cn)
    \/ \E e \in Enrollers : SignCsr(e) \/ RejectCsr(e)
    \/ \E a \in Admins : \/ StoreBlock(a) \/ StoreBlockFails(a)
                         \/ \E cn \in CNs : BlockAgent(a, cn) \/ UnblockAgent(a, cn)
    \/ \E s \in Streams : \/ CloseStream(s) \/ AbortUnsigned(s)
                          \/ \E cn \in CNs : OpenStream(s, cn)
    \/ \E j \in jobs : RunJob(j)

CNext ==
    \/ AccessStep /\ UNCHANGED commandVars /\ Requests' <= MaxRequests
    \/ Crash /\ CommandsGone
    \/ \E h \in Handlers : \/ Fetch(h) \/ Yield(h) \/ AgentLeaves(h) \/ EndHandler(h)
                           \/ \E cn \in CNs : StreamCommands(h, cn) \/ ReceivePolicy(h, cn)
    \/ \E a \in Admins : \/ PingOk(a) \/ PingTimesOut(a)
                         \/ \E cn \in CNs : Ping(a, cn)
    \/ \E r \in pongs : ReportActions(r)
    \/ \E f \in Factors : CheckAndThrottle(f)
    \/ \E cn \in CNs : PublishThrottle(cn) \/ PublishThrottleFails(cn)
    \/ \E cn \in CNs, p \in Profiles : ApplyProfile(cn, p)

CSpec == CInit /\ [][CNext]_allVars

-----------------------------------------------------------------------------

\* A ping answered "ok" was received by the agent it was sent to, under its
\* own identifier: a late reply to an earlier ping never answers a later
\* one.  And the registry holds only pings somebody is waiting for.
PingHonest ==
    /\ \A id \in answered : \E cn \in CNs : \E i \in DOMAIN got[cn] : got[cn][i].id = id
    /\ pending = {admin[a].id : a \in {b \in Admins : admin[b].pc = "ping"}}

\* No message reaches an agent twice, however its handlers overlap and
\* whenever the server restarts: the group gives every message to one of
\* them, so no command is executed twice.
DeliveredOnce ==
    \A cn \in CNs : \A i, j \in DOMAIN got[cn] : got[cn][i].id = got[cn][j].id => i = j

\* What backpressure.py says of its commands, sent "to every connected
\* agent": when the controller has finished, every agent with a live event
\* stream that was open before the change has been told the factor in force.
EveryAgentTold ==
    telling = {} /\ Serving =>
        \A s \in Streams : stream[s] # NoAgent =>
            LET told == SelectSeq(topic["commands"][stream[s]], LAMBDA m : m.what \in Factors)
            IN  told # <<>> => Last(told).what = factor

=============================================================================
