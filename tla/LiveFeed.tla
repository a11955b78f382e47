------------------------------ MODULE LiveFeed ------------------------------
(***************************************************************************)
(* The live feeds of alerts and decisions over WebSocket, on top of the    *)
(* sessions that open them (server/oseye/api/ws/*.py).                     *)
(*                                                                         *)
(* A connection is checked once, with the token of its first frame, and    *)
(* then lives until its client leaves: nothing closes it when the token    *)
(* expires or is revoked.  Each feed has a registry with a lock.  A        *)
(* broadcast takes a snapshot of the registry under the lock and sends     *)
(* without it, so clients come and go while it runs.  With Redis, the      *)
(* message is published too, for the other servers; the subscriber of this *)
(* server receives it as well and sends it a second time.                  *)
(***************************************************************************)
EXTENDS Sessions, SequencesExt

CONSTANTS
    Sockets,        \* the connections, each used once
    MaxGlobal,      \* _MAX_GLOBAL_CONNECTIONS
    MaxPerUser,     \* _MAX_PER_USER_CONNECTIONS
    Redis,          \* whether redis_url is set
    MaxCasts,       \* bound on the broadcasts
    MaxWork,        \* bound on tokens, tool runs and faults together
    MaxFeedWork,    \* the same, once there is a connection,
    MaxFeedTime     \* and a bound on the clock

ASSUME LiveFeedAssumption ==
    /\ MaxGlobal \in Nat /\ MaxPerUser \in Nat /\ Redis \in BOOLEAN
    /\ MaxCasts \in Nat /\ MaxWork \in Nat /\ MaxFeedWork \in Nat /\ MaxFeedTime \in Nat

Feeds   == {"alerts", "decisions"}
Casters == {"publisher"} \cup Feeds      \* a subscriber is named after its feed
NoCast  == [msg |-> 0]

VARIABLES
    socket,        \* where the handler of each connection is
    connections,   \* feed -> WebSocketManager._connections
    perUser,       \* feed -> WebSocketManager._per_user, absent is empty
    cast,          \* the broadcasts under way
    casts,         \* broadcasts so far: the next message
    channel,       \* feed -> messages on their way to this server's subscriber
    owed           \* ghost: <<connection, message>> of every snapshot whose
                   \* client is connected and has not got the message yet

registryVars == <<socket, connections, perUser>>
castVars     == <<cast, casts, channel, owed>>
feedVars     == <<registryVars, castVars>>
feedAllVars  == <<vars, feedVars>>

New  == [pc |-> "new"]
Gone == [pc |-> "gone"]

\* The connections whose handler has got as far as one of pcs.
At(pcs) == {w \in Sockets : socket[w].pc \in pcs}

Work  == Len(tokens) + edits + faults

Bounded ==
    \/ Work' <= MaxWork /\ At({"new"}) = Sockets
    \/ Work' <= MaxFeedWork /\ now' <= MaxFeedTime

FInit ==
    /\ Init
    /\ socket = [w \in Sockets |-> New]
    /\ connections = [f \in Feeds |-> {}]
    /\ perUser = [f \in Feeds |-> [u \in Users |-> {}]]
    /\ cast = [c \in Casters |-> NoCast] /\ casts = 0
    /\ channel = [f \in Feeds |-> <<>>]
    /\ owed = {}

\* The lock is held across an await only while a refused client is closed.
LockFree(f) == \A w \in At({"refusing"}) : socket[w].feed # f

-----------------------------------------------------------------------------
(* One connection: ws_alerts and ws_decisions.                             *)

\* accept, and the first frame within five seconds: a token verify_token
\* accepts; every role there is may listen.  Without one the connection ends
\* there.  So it does with an API key: verify answers a dictionary, whose
\* attribute "name" the handler asks for, and the handler dies of it.
FirstFrame(w, f, jti, ok) ==
    /\ socket[w] = New
    /\ Verified(jti)
    /\ \/ VerifyEffect(ok)
       \/ Kept = revoked /\ ok /\ UNCHANGED <<revoked, disk, unsaved, faults>>
    /\ socket' = [socket EXCEPT ![w] =
                    [pc |-> "joining", feed |-> f, sub |-> tokens[jti].sub, alive |-> TRUE]]
    /\ UNCHANGED <<now, cache, cacheTs, tokens, forgotten, ended>> /\ UNCHANGED userVars
    /\ UNCHANGED <<connections, perUser>> /\ UNCHANGED castVars
    /\ Work' <= MaxFeedWork /\ now <= MaxFeedTime

WsAlerts(w, jti, ok)    == FirstFrame(w, "alerts", jti, ok)
WsDecisions(w, jti, ok) == FirstFrame(w, "decisions", jti, ok)

AtCap(f, u) ==
    \/ Cardinality(connections[f]) >= MaxGlobal
    \/ Cardinality(perUser[f][u]) >= MaxPerUser

\* WebSocketManager.connect.
Connect(w) ==
    LET f == socket[w].feed
        u == socket[w].sub
    IN  /\ socket[w].pc = "joining" /\ LockFree(f)
        /\ IF AtCap(f, u)
           THEN /\ socket' = [socket EXCEPT ![w].pc = "refusing"]
                /\ UNCHANGED <<connections, perUser>>
           ELSE /\ socket' = [socket EXCEPT ![w].pc = "serving"]
                /\ connections' = [connections EXCEPT ![f] = @ \cup {w}]
                /\ perUser' = [perUser EXCEPT ![f][u] = @ \cup {w}]
        /\ UNCHANGED castVars /\ UNCHANGED vars

\* The end of close(4008).  The handler is not told and goes on to its loop.
Refused(w) ==
    /\ socket[w].pc = "refusing"
    /\ socket' = [socket EXCEPT ![w].pc = "refused", ![w].alive = FALSE]
    /\ UNCHANGED <<connections, perUser>> /\ UNCHANGED castVars /\ UNCHANGED vars

ClientLeaves(w) ==
    /\ socket[w].pc \in {"joining", "serving"} /\ socket[w].alive
    /\ socket' = [socket EXCEPT ![w].alive = FALSE]
    /\ owed' = {p \in owed : p[1] # w}
    /\ UNCHANGED <<connections, perUser, cast, casts, channel>> /\ UNCHANGED vars

\* Mutant of Disconnect: the set of the user keeps the connection
DisconnectGlobalOnly(w, f) ==
    /\ LockFree(f)
    /\ connections' = [connections EXCEPT ![f] = @ \ {w}]
    /\ UNCHANGED perUser

\* WebSocketManager.disconnect, by the handler or by a broadcast, in any
\* order and possibly twice.
Disconnect(w, f) ==
    /\ LockFree(f)
    /\ connections' = [connections EXCEPT ![f] = @ \ {w}]
    /\ perUser' = [perUser EXCEPT ![f] = [u \in Users |-> @[u] \ {w}]]

\* The ping every thirty seconds fails; the finally clause runs.
PingFails(w) ==
    /\ socket[w].pc \in {"serving", "refused"} /\ ~ socket[w].alive
    /\ Disconnect(w, socket[w].feed)
    /\ socket' = [socket EXCEPT ![w] = Gone]
    /\ UNCHANGED castVars /\ UNCHANGED vars

-----------------------------------------------------------------------------
(* Broadcasts.                                                             *)

Alive(w) == socket[w].pc = "serving" /\ socket[w].alive

\* _broadcast_local: the snapshot.
Snapshot(c, f, m) ==
    /\ cast[c] = NoCast /\ LockFree(f)
    /\ cast' = [cast EXCEPT ![c] = [msg |-> m, feed |-> f, todo |-> connections[f], dead |-> {}]]
    /\ owed' = owed \cup ({w \in connections[f] : Alive(w)} \X {m})
    /\ UNCHANGED registryVars /\ UNCHANGED vars

\* The first half of broadcast.  Before the first connection nobody would
\* notice.
Broadcast(f) ==
    /\ casts < MaxCasts /\ At({"new"}) # Sockets
    /\ casts' = casts + 1
    /\ Snapshot("publisher", f, casts + 1)
    /\ UNCHANGED channel

\* Its two callers: new alerts are not sent at all.
AcknowledgeAlert  == Broadcast("alerts")
BroadcastDecision == Broadcast("decisions")

\* Mutant of Send: the first client that fails ends the loop
SendUntilFailure(c, w) ==
    /\ w \in cast[c].todo
    /\ IF Alive(w)
       THEN /\ cast' = [cast EXCEPT ![c].todo = @ \ {w}]
            /\ owed' = owed \ {<<w, cast[c].msg>>}
       ELSE /\ cast' = [cast EXCEPT ![c].todo = {}, ![c].dead = @ \cup {w}]
            /\ UNCHANGED owed

\* send_bytes to one client of the snapshot.
Send(c, w) ==
    /\ w \in cast[c].todo
    /\ IF Alive(w)
       THEN /\ cast' = [cast EXCEPT ![c].todo = @ \ {w}]
            /\ owed' = owed \ {<<w, cast[c].msg>>}
       ELSE /\ cast' = [cast EXCEPT ![c].todo = @ \ {w}, ![c].dead = @ \cup {w}]
            /\ UNCHANGED owed

SendNext(c) ==
    /\ cast[c] # NoCast
    /\ \E w \in cast[c].todo : Send(c, w)
    /\ UNCHANGED <<casts, channel>> /\ UNCHANGED registryVars /\ UNCHANGED vars

\* The clients that failed leave the registry, one after the other.
DropDead(c) ==
    /\ cast[c] # NoCast
    /\ cast[c].todo = {}
    /\ \E w \in cast[c].dead :
        /\ Disconnect(w, cast[c].feed)
        /\ cast' = [cast EXCEPT ![c].dead = @ \ {w}]
    /\ UNCHANGED socket /\ UNCHANGED <<casts, channel, owed>> /\ UNCHANGED vars

\* The rest of broadcast: publish on Redis.  A subscriber has nothing left.
CastDone(c) ==
    /\ cast[c] # NoCast
    /\ cast[c].todo = {} /\ cast[c].dead = {}
    /\ cast' = [cast EXCEPT ![c] = NoCast]
    /\ channel' = IF c = "publisher" /\ Redis
                  THEN [channel EXCEPT ![cast[c].feed] = Append(@, cast[c].msg)]
                  ELSE channel
    /\ UNCHANGED <<casts, owed>> /\ UNCHANGED registryVars /\ UNCHANGED vars

\* _redis_subscribe_loop: the next message of the channel.
Relay(f) ==
    /\ channel[f] # <<>>
    /\ Snapshot(f, f, Head(channel[f]))
    /\ channel' = [channel EXCEPT ![f] = Tail(@)]
    /\ UNCHANGED casts

\* Redis fails: what was on the channel is lost, the subscriber subscribes
\* again.
ChannelLost(f) ==
    /\ channel[f] # <<>>
    /\ channel' = [channel EXCEPT ![f] = <<>>]
    /\ UNCHANGED <<cast, casts, owed>> /\ UNCHANGED registryVars /\ UNCHANGED vars

-----------------------------------------------------------------------------

\* The server stops: connections, broadcasts and the subscribers end.
RestartAll ==
    /\ Restart
    /\ socket' = [w \in Sockets |-> IF socket[w] = New THEN New ELSE Gone]
    /\ connections' = [f \in Feeds |-> {}]
    /\ perUser' = [f \in Feeds |-> [u \in Users |-> {}]]
    /\ cast' = [c \in Casters |-> NoCast]
    /\ channel' = [f \in Feeds |-> <<>>]
    /\ owed' = {} /\ UNCHANGED casts

FNext ==
    \/ SessionStep /\ UNCHANGED feedVars /\ Bounded
    \/ RestartAll /\ Bounded
    \/ \E w \in Sockets :
        \/ \E jti \in Jtis, ok \in BOOLEAN : WsAlerts(w, jti, ok) \/ WsDecisions(w, jti, ok)
        \/ Connect(w) \/ Refused(w)
        \/ ClientLeaves(w) \/ PingFails(w)
    \/ AcknowledgeAlert \/ BroadcastDecision
    \/ \E f \in Feeds : Relay(f) \/ ChannelLost(f)
    \/ \E c \in Casters : SendNext(c) \/ DropDead(c) \/ CastDone(c)

FSpec == FInit /\ [][FNext]_feedAllVars

-----------------------------------------------------------------------------

\* The registry of a feed is exact, whatever handlers and broadcasts remove a
\* connection, in which order and how often: the caps hold, the sets of the
\* users are the connections, no more and no less, so no slot of a user is
\* lost, and every connection in it has a handler that will take it out.
RegistryExact ==
    \A f \in Feeds :
        /\ Cardinality(connections[f]) <= MaxGlobal
        /\ \A u \in Users : Cardinality(perUser[f][u]) <= MaxPerUser
        /\ \A w \in Sockets :
            w \in connections[f] <=> \E u \in Users : w \in perUser[f][u]
        /\ connections[f] \subseteq At({"serving"})

\* A broadcast reaches every client of its snapshot that is still connected
\* when it ends, whichever of the others fail, leave or join meanwhile.
FeedReachesAll ==
    \A p \in owed : \E c \in Casters : cast[c].msg = p[2] /\ p[1] \in cast[c].todo

=============================================================================
