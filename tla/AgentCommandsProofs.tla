------------------------- MODULE AgentCommandsProofs -------------------------
(***************************************************************************)
(* The agent: how agents get in and what they are sent, for any number of  *)
(* agents, tokens, administrators, streams, handlers, requests and faults; *)
(* then, from ReportOf on, the path of an event through the merger.        *)
(***************************************************************************)
EXTENDS AgentCommands, EventMerger, FiniteSetTheorems, SequenceTheorems, TLAPS

-----------------------------------------------------------------------------
(* Types.                                                                  *)

Msg  == [id : Nat, what : {"PING"} \cup Factors \cup Profiles]
Jobs == [cn : CNs, online : BOOLEAN, n : Nat]
Pong == [cn : CNs, id : Nat]

EnrollState  == {Idle} \cup [pc : {"spent"}, token : Tokens, cn : CNs]
AdminState   == {Idle} \cup [pc : {"block", "unblock"}, cn : CNs]
                       \cup [pc : {"ping"}, cn : CNs, id : Nat, until : Nat]
HandlerState == {IdleHandler} \cup
                [pc : {"open", "left", "stopped"}, kind : Kinds, cn : CNs, queue : Seq(Msg)]

TokenType ==
    /\ tokenRows \subseteq Tokens /\ withdrawn \subseteq Tokens
    /\ enroll \in [Enrollers -> EnrollState] /\ signed \in [Tokens -> Nat]
    /\ enrolled \subseteq CNs
BlockType ==
    /\ now \in Nat /\ phase \in {"down", "loaded", "reset", "serving"}
    /\ blockedDb \subseteq CNs /\ blockedMem \subseteq CNs /\ blocked \subseteq CNs
    /\ admin \in [Admins -> AdminState] /\ admins \in Nat
StreamType ==
    /\ stream \in [Streams -> CNs \cup {NoAgent}] /\ opens \in Nat
    /\ activeCns \subseteq CNs /\ online \subseteq CNs /\ seen \subseteq CNs
    /\ jobs \subseteq Jobs
CommandType ==
    /\ topic \in [Kinds -> [CNs -> Seq(Msg)]] /\ cursor \in [Kinds -> [CNs -> Nat]]
    /\ handler \in [Handlers -> HandlerState] /\ handled \in Nat
    /\ got \in [CNs -> Seq(Msg)] /\ sent \in Nat
    /\ pongs \subseteq Pong
    /\ pending \subseteq Nat /\ signalled \subseteq Nat /\ answered \subseteq Nat
    /\ factor \in Factors /\ telling \subseteq CNs
TypeOK == TokenType /\ BlockType /\ StreamType /\ CommandType

-----------------------------------------------------------------------------
(* The inductive invariants.                                               *)

(* A token is in one place: its row, a request that has spent it, a        *)
(* certificate, or nowhere once it is withdrawn.                           *)
SpentBy(e, t) == enroll[e].pc = "spent" /\ enroll[e].token = t
Spent(t) == \E e \in Enrollers : SpentBy(e, t)
TokenInv ==
    \A t \in Tokens :
        /\ signed[t] \in {0, 1}
        /\ t \in tokenRows => signed[t] = 0 /\ ~ Spent(t) /\ t \notin withdrawn
        /\ Spent(t) => signed[t] = 0 /\ t \notin withdrawn
        /\ \A e, f \in Enrollers : SpentBy(e, t) /\ SpentBy(f, t) => e = f
        /\ t \in withdrawn => signed[t] = 0
        /\ t \in tokenRows \/ Spent(t) \/ signed[t] = 1 \/ t \in withdrawn => t \in DOMAIN expires

(* A block that was acknowledged is in the table, and in memory once the   *)
(* server has read the table.                                              *)
BlockInv ==
    /\ blocked \subseteq blockedDb
    /\ phase # "down" => blocked \subseteq blockedMem

(* What a stream has still to write about an agent is about one that was   *)
(* seen.                                                                   *)
GhostInv ==
    /\ \A cn \in activeCns : \E s \in Streams : stream[s] = cn
    /\ \A j \in jobs : j.online => j.cn \in seen
    /\ phase \in {"reset", "serving"} => online \subseteq seen

(* Pings: nobody waits for another's identifier, and whoever is signalled  *)
(* or reported was received.                                               *)
Received(id) == \E cn \in CNs : \E i \in DOMAIN got[cn] : got[cn][i].id = id
Pinging(a) == admin[a].pc = "ping"
PingInv ==
    /\ \A a \in Admins : Pinging(a) => admin[a].id \in pending /\ admin[a].id <= sent
    /\ \A id \in pending : \E a \in Admins : Pinging(a) /\ admin[a].id = id
    /\ \A a, b \in Admins : Pinging(a) /\ Pinging(b) /\ admin[a].id = admin[b].id => a = b
    /\ \A r \in pongs : Received(r.id)
    /\ \A id \in signalled \cup answered : Received(id)

(* Messages have identifiers of their own, and each is in one place: still *)
(* to be fetched, in the queue of one handler, or received.                *)
Queue(h) == IF handler[h].pc = "idle" THEN <<>> ELSE handler[h].queue
IdAt(k, cn, i) == topic[k][cn][i].id
TopicInv ==
    /\ \A k \in Kinds, cn \in CNs : \A i \in DOMAIN topic[k][cn] : IdAt(k, cn, i) <= sent
    /\ \A k, l \in Kinds, cn, dn \in CNs : \A i \in DOMAIN topic[k][cn], j \in DOMAIN topic[l][dn] :
          IdAt(k, cn, i) = IdAt(l, dn, j) => k = l /\ cn = dn /\ i = j
QueueInv ==
    /\ \A h \in Handlers : \A p \in DOMAIN Queue(h) :
          /\ Queue(h)[p].id <= sent
          /\ \A k \in Kinds, cn \in CNs : \A i \in DOMAIN topic[k][cn] :
                i > cursor[k][cn] => IdAt(k, cn, i) # Queue(h)[p].id
    /\ \A g, h \in Handlers : \A p \in DOMAIN Queue(g), q \in DOMAIN Queue(h) :
          Queue(g)[p].id = Queue(h)[q].id => g = h /\ p = q
GotInv ==
    \A cn \in CNs : \A m \in DOMAIN got[cn] :
        /\ got[cn][m].id <= sent
        /\ \A k \in Kinds, dn \in CNs : \A i \in DOMAIN topic[k][dn] :
              i > cursor[k][dn] => IdAt(k, dn, i) # got[cn][m].id
        /\ \A h \in Handlers : \A p \in DOMAIN Queue(h) : Queue(h)[p].id # got[cn][m].id

IInv == /\ TypeOK /\ TokenInv /\ BlockInv /\ GhostInv
        /\ PingInv /\ TopicInv /\ QueueInv /\ GotInv /\ DeliveredOnce

-----------------------------------------------------------------------------
(* What a step may do to each group of variables.                          *)

LEMMA HandlerKeeps ==
    ASSUME NEW h \in Handlers,
           \/ Fetch(h) \/ Yield(h) \/ AgentLeaves(h) \/ EndHandler(h)
           \/ \E cn \in CNs : StreamCommands(h, cn) \/ ReceivePolicy(h, cn)
    PROVE  UNCHANGED vars
  <1>1. CASE Fetch(h)
    BY <1>1 DEF Fetch
  <1>2. CASE Yield(h) \/ AgentLeaves(h) \/ EndHandler(h)
    BY <1>2 DEF Yield, AgentLeaves, EndHandler
  <1>3. CASE \E cn \in CNs : StreamCommands(h, cn) \/ ReceivePolicy(h, cn)
    BY <1>3 DEF StreamCommands, ReceivePolicy, Open
  <1> QED BY <1>1, <1>2, <1>3

LEMMA TokenCases ==
    ASSUME [CNext]_allVars
    PROVE  \/ UNCHANGED tokenVars
           \/ \E t \in Tokens : CreateToken(t) \/ RevokeToken(t)
           \/ ListTokens \/ Crash
           \/ \E e \in Enrollers, t \in Tokens, cn \in CNs : SpendToken(e, t, cn)
           \/ \E e \in Enrollers : SignCsr(e) \/ RejectCsr(e)
  <1>1. CASE AccessStep
    BY <1>1 DEF AccessStep, LoadBlocked, Startup, StartGrpc, Tick, ApiListTokens, EnrollmentCli,
        CliListTokens, CliCreateToken, CliRevokeToken, ApiCreateToken, ApiRevokeToken,
        StoreBlock, StoreBlockFails, BlockAgent, UnblockAgent, CloseStream, AbortUnsigned,
        OpenStream, RunJob
  <1>2. CASE \E h \in Handlers : \/ Fetch(h) \/ Yield(h) \/ AgentLeaves(h) \/ EndHandler(h)
                                 \/ \E cn \in CNs : StreamCommands(h, cn) \/ ReceivePolicy(h, cn)
    BY <1>2, HandlerKeeps DEF vars
  <1>3. CASE \E a \in Admins : \/ PingOk(a) \/ PingTimesOut(a) \/ \E cn \in CNs : Ping(a, cn)
    BY <1>3 DEF PingOk, PingTimesOut, EndPing, Ping
  <1>4. CASE \/ \E r \in pongs : ReportActions(r)
             \/ \E f \in Factors : CheckAndThrottle(f)
             \/ \E cn \in CNs : PublishThrottle(cn) \/ PublishThrottleFails(cn)
             \/ \E cn \in CNs, p \in Profiles : ApplyProfile(cn, p)
    BY <1>4 DEF ReportActions, CheckAndThrottle, PublishThrottle, PublishThrottleFails,
        ApplyProfile, PushToAgent, vars
  <1>5. CASE UNCHANGED allVars
    BY <1>5 DEF allVars, vars
  <1> QED BY <1>1, <1>2, <1>3, <1>4, <1>5 DEF CNext

LEMMA BlockCases ==
    ASSUME [CNext]_allVars
    PROVE  \/ UNCHANGED <<phase, blockedDb, blockedMem, blocked, admin, admins>> /\ now' \in {now, now + 1}
           \/ UNCHANGED blockVars /\ UNCHANGED now /\ (Startup \/ StartGrpc)
           \/ LoadBlocked \/ Crash
           \/ \E a \in Admins : \/ StoreBlock(a) \/ StoreBlockFails(a) \/ PingOk(a) \/ PingTimesOut(a)
                                \/ \E cn \in CNs : BlockAgent(a, cn) \/ UnblockAgent(a, cn) \/ Ping(a, cn)
  <1>1. CASE AccessStep
    <2>1. CASE \/ LoadBlocked \/ Startup \/ StartGrpc \/ Tick
               \/ \E a \in Admins : \/ StoreBlock(a) \/ StoreBlockFails(a)
                                    \/ \E cn \in CNs : BlockAgent(a, cn) \/ UnblockAgent(a, cn)
      BY <2>1 DEF Startup, StartGrpc, Tick, blockVars
    <2>2. CASE \/ ApiListTokens \/ EnrollmentCli
               \/ \E t \in Tokens : \/ ApiCreateToken(t) \/ ApiRevokeToken(t)
                                    \/ \E e \in Enrollers, cn \in CNs : SpendToken(e, t, cn)
               \/ \E e \in Enrollers : SignCsr(e) \/ RejectCsr(e)
      BY <2>2 DEF ApiListTokens, EnrollmentCli, CliListTokens, CliCreateToken, CliRevokeToken,
        ApiCreateToken, ApiRevokeToken, ListTokens, CreateToken, RevokeToken, SpendToken, SignCsr,
        RejectCsr, blockVars
    <2>3. CASE \/ \E s \in Streams : \/ CloseStream(s) \/ AbortUnsigned(s)
                                     \/ \E cn \in CNs : OpenStream(s, cn)
               \/ \E j \in jobs : RunJob(j)
      BY <2>3 DEF CloseStream, AbortUnsigned, OpenStream, RunJob, blockVars
    <2> QED BY <1>1, <2>1, <2>2, <2>3 DEF AccessStep
  <1>2. CASE \E h \in Handlers : \/ Fetch(h) \/ Yield(h) \/ AgentLeaves(h) \/ EndHandler(h)
                                 \/ \E cn \in CNs : StreamCommands(h, cn) \/ ReceivePolicy(h, cn)
    BY <1>2, HandlerKeeps DEF vars, blockVars
  <1>3. CASE \E a \in Admins : \/ PingOk(a) \/ PingTimesOut(a) \/ \E cn \in CNs : Ping(a, cn)
    BY <1>3
  <1>4. CASE \/ \E r \in pongs : ReportActions(r)
             \/ \E f \in Factors : CheckAndThrottle(f)
             \/ \E cn \in CNs : PublishThrottle(cn) \/ PublishThrottleFails(cn)
             \/ \E cn \in CNs, p \in Profiles : ApplyProfile(cn, p)
    BY <1>4 DEF ReportActions, CheckAndThrottle, PublishThrottle, PublishThrottleFails,
        ApplyProfile, PushToAgent, vars, blockVars
  <1>5. CASE UNCHANGED allVars
    BY <1>5 DEF allVars, vars, blockVars
  <1> QED BY <1>1, <1>2, <1>3, <1>4, <1>5 DEF CNext

LEMMA StreamCases ==
    ASSUME [CNext]_allVars
    PROVE  \/ UNCHANGED <<phase, stream, activeCns, online, jobs, opens, seen>>
           \/ LoadBlocked \/ Startup \/ StartGrpc \/ Crash
           \/ \E s \in Streams : CloseStream(s) \/ \E cn \in CNs : OpenStream(s, cn)
           \/ \E j \in jobs : RunJob(j)
  <1>1. CASE AccessStep
    BY <1>1 DEF AccessStep, Tick, ApiListTokens, EnrollmentCli, CliListTokens, CliCreateToken,
        CliRevokeToken, ApiCreateToken, ApiRevokeToken, ListTokens, CreateToken, RevokeToken,
        SpendToken, SignCsr, RejectCsr, StoreBlock, StoreBlockFails, BlockAgent, UnblockAgent,
        AbortUnsigned, streamVars
  <1>2. CASE \E h \in Handlers : \/ Fetch(h) \/ Yield(h) \/ AgentLeaves(h) \/ EndHandler(h)
                                 \/ \E cn \in CNs : StreamCommands(h, cn) \/ ReceivePolicy(h, cn)
    BY <1>2, HandlerKeeps DEF vars, streamVars
  <1>3. CASE \E a \in Admins : \/ PingOk(a) \/ PingTimesOut(a) \/ \E cn \in CNs : Ping(a, cn)
    BY <1>3 DEF PingOk, PingTimesOut, EndPing, Ping, streamVars
  <1>4. CASE \/ \E r \in pongs : ReportActions(r)
             \/ \E f \in Factors : CheckAndThrottle(f)
             \/ \E cn \in CNs : PublishThrottle(cn) \/ PublishThrottleFails(cn)
             \/ \E cn \in CNs, p \in Profiles : ApplyProfile(cn, p)
    BY <1>4 DEF ReportActions, CheckAndThrottle, PublishThrottle, PublishThrottleFails,
        ApplyProfile, PushToAgent, vars, streamVars
  <1>5. CASE UNCHANGED allVars
    BY <1>5 DEF allVars, vars, streamVars
  <1> QED BY <1>1, <1>2, <1>3, <1>4, <1>5 DEF CNext

-----------------------------------------------------------------------------
(* Enrollment tokens.                                                      *)

LEMMA TokenTypeStep ==
    ASSUME TokenType, [CNext]_allVars
    PROVE  TokenType'
  <1>1. CASE UNCHANGED tokenVars
    BY <1>1 DEF TokenType, tokenVars
  <1>2. CASE \E t \in Tokens : CreateToken(t) \/ RevokeToken(t)
    BY <1>2 DEF TokenType, CreateToken, InsertToken, RevokeToken, DeleteToken
  <1>3. CASE ListTokens
    BY <1>3 DEF TokenType, ListTokens, PurgeExpired
  <1>4. CASE Crash
    BY <1>4 DEF TokenType, Crash, EnrollState
  <1>5. CASE \E e \in Enrollers, t \in Tokens, cn \in CNs : SpendToken(e, t, cn)
    BY <1>5 DEF TokenType, SpendToken, Consume, EnrollState
  <1>6. ASSUME NEW e \in Enrollers, SignCsr(e) PROVE TokenType'
    <2>1. enroll[e].pc = "spent" /\ enroll[e] \in EnrollState
      BY <1>6 DEF TokenType, SignCsr
    <2>2. enroll[e].token \in Tokens /\ enroll[e].cn \in CNs
      BY <2>1 DEF EnrollState, Idle
    <2> QED BY <1>6, <2>2 DEF TokenType, SignCsr, EnrollState
  <1>7. ASSUME NEW e \in Enrollers, RejectCsr(e) PROVE TokenType'
    BY <1>7 DEF TokenType, RejectCsr, EnrollState
  <1> QED BY <1>1, <1>2, <1>3, <1>4, <1>5, <1>6, <1>7, TokenCases

LEMMA TokenStep ==
    ASSUME TokenType, TokenInv, [CNext]_allVars
    PROVE  TokenInv'
  <1>1. CASE UNCHANGED tokenVars
    BY <1>1 DEF TokenInv, Spent, SpentBy, tokenVars
  <1>2. ASSUME NEW t \in Tokens, CreateToken(t) PROVE TokenInv'
    <2>1. /\ t \notin DOMAIN expires /\ DOMAIN expires' = DOMAIN expires \cup {t}
          /\ tokenRows' = tokenRows \cup {t}
          /\ UNCHANGED <<enroll, signed, withdrawn>>
      BY <1>2 DEF CreateToken, FreshToken, InsertToken
    <2>2. signed[t] = 0 /\ ~ Spent(t) /\ t \notin withdrawn
      BY <2>1 DEF TokenInv
    <2>3. \A u \in Tokens : Spent(u)' <=> Spent(u)
      BY <2>1 DEF Spent, SpentBy
    <2> QED BY <2>1, <2>2, <2>3 DEF TokenInv, SpentBy
  <1>3. ASSUME NEW t \in Tokens, RevokeToken(t) PROVE TokenInv'
    <2>1. /\ t \in tokenRows /\ tokenRows' = tokenRows \ {t} /\ withdrawn' = withdrawn \cup {t}
          /\ UNCHANGED <<enroll, signed, expires>>
      BY <1>3 DEF RevokeToken, DeleteToken
    <2>2. \A u \in Tokens : Spent(u)' <=> Spent(u)
      BY <2>1 DEF Spent, SpentBy
    <2> QED BY <2>1, <2>2 DEF TokenInv, SpentBy
  <1>4. CASE ListTokens
    <2>1. tokenRows' \subseteq tokenRows /\ UNCHANGED <<enroll, signed, expires, withdrawn>>
      BY <1>4 DEF ListTokens, PurgeExpired
    <2>2. \A u \in Tokens : Spent(u)' <=> Spent(u)
      BY <2>1 DEF Spent, SpentBy
    <2> QED BY <2>1, <2>2 DEF TokenInv, SpentBy
  <1>5. CASE Crash
    <2>1. /\ UNCHANGED <<tokenRows, expires, signed, withdrawn>>
          /\ \A e \in Enrollers : enroll'[e] = Idle
      BY <1>5 DEF Crash
    <2>2. \A u \in Tokens, e \in Enrollers : ~ SpentBy(e, u)'
      BY <2>1 DEF SpentBy, Idle
    <2> QED BY <2>1, <2>2 DEF TokenInv, Spent
  <1>6. ASSUME NEW e \in Enrollers, NEW t \in Tokens, NEW cn \in CNs, SpendToken(e, t, cn)
        PROVE  TokenInv'
    <2>1. /\ t \in tokenRows /\ tokenRows' = tokenRows \ {t} /\ enroll[e].pc = "idle"
          /\ enroll' = [enroll EXCEPT ![e] = [pc |-> "spent", token |-> t, cn |-> cn]]
          /\ UNCHANGED <<signed, expires, withdrawn>>
      BY <1>6 DEF SpendToken, Consume
    <2>2. \A f \in Enrollers, u \in Tokens : SpentBy(f, u)' <=> SpentBy(f, u) \/ (f = e /\ u = t)
      BY <2>1 DEF SpentBy, TokenType
    <2>3. \A u \in Tokens : Spent(u)' <=> Spent(u) \/ u = t
      BY <2>2 DEF Spent
    <2>4. \A f \in Enrollers : ~ SpentBy(f, t)
      BY <2>1 DEF TokenInv, Spent
    <2> QED BY <2>1, <2>2, <2>3, <2>4 DEF TokenInv
  <1>7. ASSUME NEW e \in Enrollers, SignCsr(e) PROVE TokenInv'
    <2>0. enroll[e].pc = "spent" /\ enroll[e].token \in Tokens
      BY <1>7 DEF TokenType, SignCsr, EnrollState, Idle
    <2>1. PICK t \in Tokens : t = enroll[e].token
      BY <2>0
    <2>2. SpentBy(e, t) /\ Spent(t) /\ signed[t] = 0
      BY <2>0, <2>1 DEF SpentBy, Spent, TokenInv
    <2>3. /\ signed' = [signed EXCEPT ![t] = 1] /\ enroll' = [enroll EXCEPT ![e] = Idle]
          /\ UNCHANGED <<tokenRows, expires, withdrawn>>
      BY <1>7, <2>1, <2>2 DEF SignCsr
    <2>4. \A f \in Enrollers, u \in Tokens : SpentBy(f, u)' <=> SpentBy(f, u) /\ f # e
      BY <2>3 DEF SpentBy, TokenType, Idle
    <2>5. \A u \in Tokens : Spent(u)' => Spent(u)
      BY <2>4 DEF Spent
    <2>6. ~ Spent(t)'
      BY <2>1, <2>2, <2>4 DEF Spent, TokenInv
    <2>7. \A u \in Tokens : signed'[u] = IF u = t THEN 1 ELSE signed[u]
      BY <2>3 DEF TokenType
    <2> QED BY <2>1, <2>2, <2>3, <2>4, <2>5, <2>6, <2>7 DEF TokenInv
  <1>8. ASSUME NEW e \in Enrollers, RejectCsr(e) PROVE TokenInv'
    <2>1. /\ enroll' = [enroll EXCEPT ![e] = Idle]
          /\ UNCHANGED <<tokenRows, expires, signed, withdrawn>>
      BY <1>8 DEF RejectCsr
    <2>2. \A f \in Enrollers, u \in Tokens : SpentBy(f, u)' => SpentBy(f, u)
      BY <2>1 DEF SpentBy, TokenType, Idle
    <2>3. \A u \in Tokens : Spent(u)' => Spent(u)
      BY <2>2 DEF Spent
    <2> QED BY <2>1, <2>2, <2>3 DEF TokenInv
  <1> QED BY <1>1, <1>2, <1>3, <1>4, <1>5, <1>6, <1>7, <1>8, TokenCases

-----------------------------------------------------------------------------
(* The list of blocked agents.                                             *)

LEMMA AdminFacts ==
    ASSUME BlockType, NEW a \in Admins
    PROVE  /\ admin[a].pc \in {"block", "unblock"} => admin[a].cn \in CNs
           /\ admin[a].pc = "ping" => admin[a].id \in Nat /\ admin[a].cn \in CNs
  BY DEF BlockType, AdminState, Idle

LEMMA BlockTypeStep ==
    ASSUME BlockType, sent \in Nat, [CNext]_allVars
    PROVE  BlockType'
  <1>1. CASE UNCHANGED <<phase, blockedDb, blockedMem, blocked, admin, admins>> /\ now' \in {now, now + 1}
    BY <1>1 DEF BlockType
  <1>2. CASE UNCHANGED blockVars /\ UNCHANGED now /\ (Startup \/ StartGrpc)
    BY <1>2 DEF BlockType, blockVars, Startup, StartGrpc
  <1>3. CASE LoadBlocked
    BY <1>3 DEF BlockType, LoadBlocked
  <1>4. CASE Crash
    BY <1>4 DEF BlockType, Crash, AdminState
  <1>5. ASSUME NEW a \in Admins, StoreBlock(a) PROVE BlockType'
    <2>1. admin[a].cn \in CNs
      BY <1>5, AdminFacts DEF StoreBlock
    <2> QED BY <1>5, <2>1 DEF BlockType, StoreBlock, AdminState
  <1>6. ASSUME NEW a \in Admins, StoreBlockFails(a) \/ PingOk(a) \/ PingTimesOut(a) PROVE BlockType'
    BY <1>6 DEF BlockType, StoreBlockFails, PingOk, PingTimesOut, EndPing, AdminState
  <1>7. ASSUME NEW a \in Admins, NEW cn \in CNs, BlockAgent(a, cn) \/ UnblockAgent(a, cn)
        PROVE  BlockType'
    BY <1>7 DEF BlockType, BlockAgent, UnblockAgent, Block, Unblock, AdminState
  <1>8. ASSUME NEW a \in Admins, NEW cn \in CNs, Ping(a, cn) PROVE BlockType'
    <2>1. sent + 1 \in Nat /\ now + PingTimeout \in Nat
      BY AgentCommandsAssumption DEF BlockType
    <2>2. [pc |-> "ping", cn |-> cn, id |-> sent + 1, until |-> now + PingTimeout] \in AdminState
      BY <2>1 DEF AdminState
    <2> QED BY <1>8, <2>2 DEF BlockType, Ping
  <1> QED BY <1>1, <1>2, <1>3, <1>4, <1>5, <1>6, <1>7, <1>8, BlockCases

LEMMA BlockStep ==
    ASSUME BlockType, BlockInv, [CNext]_allVars
    PROVE  BlockInv'
  <1>1. CASE UNCHANGED <<phase, blockedDb, blockedMem, blocked, admin, admins>>
    BY <1>1 DEF BlockInv
  <1>2. CASE UNCHANGED blockVars /\ (Startup \/ StartGrpc)
    BY <1>2 DEF BlockInv, blockVars, Startup, StartGrpc
  <1>3. CASE LoadBlocked
    BY <1>3 DEF BlockInv, LoadBlocked
  <1>4. CASE Crash
    BY <1>4 DEF BlockInv, Crash
  <1>5. ASSUME NEW a \in Admins, StoreBlock(a) PROVE BlockInv'
    BY <1>5 DEF BlockInv, StoreBlock
  <1>6. ASSUME NEW a \in Admins, StoreBlockFails(a) \/ PingOk(a) \/ PingTimesOut(a) PROVE BlockInv'
    BY <1>6 DEF BlockInv, StoreBlockFails, PingOk, PingTimesOut, EndPing
  <1>7. ASSUME NEW a \in Admins, NEW cn \in CNs,
               BlockAgent(a, cn) \/ UnblockAgent(a, cn) \/ Ping(a, cn)
        PROVE  BlockInv'
    BY <1>7 DEF BlockInv, BlockAgent, UnblockAgent, Block, Unblock, Ping
  <1> QED BY <1>1, <1>2, <1>3, <1>4, <1>5, <1>6, <1>7, BlockCases

-----------------------------------------------------------------------------
(* The streams.                                                            *)

LEMMA StreamTypeStep ==
    ASSUME StreamType, [CNext]_allVars
    PROVE  StreamType'
  <1>1. CASE UNCHANGED <<phase, stream, activeCns, online, jobs, opens, seen>>
    BY <1>1 DEF StreamType
  <1>2. CASE LoadBlocked \/ Startup \/ StartGrpc
    BY <1>2 DEF StreamType, LoadBlocked, Startup, StartGrpc, streamVars
  <1>3. CASE Crash
    BY <1>3 DEF StreamType, Crash
  <1>4. ASSUME NEW s \in Streams, CloseStream(s) PROVE StreamType'
    <2>1. stream[s] \in CNs
      BY <1>4 DEF StreamType, CloseStream
    <2>2. [cn |-> stream[s], online |-> FALSE, n |-> opens] \in Jobs
      BY <2>1 DEF StreamType, Jobs
    <2> QED BY <1>4, <2>2 DEF StreamType, CloseStream, Leave
  <1>5. ASSUME NEW s \in Streams, NEW cn \in CNs, OpenStream(s, cn) PROVE StreamType'
    <2>1. [cn |-> cn, online |-> TRUE, n |-> opens] \in Jobs
      BY DEF StreamType, Jobs
    <2>2. stream' \in [Streams -> CNs \cup {NoAgent}] /\ opens' \in Nat
      BY <1>5 DEF StreamType, OpenStream
    <2>3. /\ activeCns' \subseteq CNs /\ seen' \subseteq CNs /\ online' \subseteq CNs
          /\ jobs' = jobs \cup {[cn |-> cn, online |-> TRUE, n |-> opens]}
      BY <1>5 DEF StreamType, OpenStream
    <2> QED BY <2>1, <2>2, <2>3 DEF StreamType
  <1>6. ASSUME NEW j \in jobs, RunJob(j) PROVE StreamType'
    <2>1. j.cn \in CNs
      BY DEF StreamType, Jobs
    <2> QED BY <1>6, <2>1 DEF StreamType, RunJob, Upsert, SetOffline
  <1> QED BY <1>1, <1>2, <1>3, <1>4, <1>5, <1>6, StreamCases

LEMMA GhostStep ==
    ASSUME StreamType, GhostInv, [CNext]_allVars
    PROVE  GhostInv'
  <1>1. CASE UNCHANGED <<phase, stream, activeCns, online, jobs, opens, seen>>
    BY <1>1 DEF GhostInv
  <1>2. CASE LoadBlocked \/ Startup \/ StartGrpc
    BY <1>2 DEF GhostInv, LoadBlocked, Startup, StartGrpc, streamVars
  <1>3. CASE Crash
    BY <1>3 DEF GhostInv, Crash
  <1>4. ASSUME NEW s \in Streams, CloseStream(s) PROVE GhostInv'
    BY <1>4 DEF GhostInv, StreamType, CloseStream, Leave
  <1>5. ASSUME NEW s \in Streams, NEW cn \in CNs, OpenStream(s, cn) PROVE GhostInv'
    <2>1. NoAgent \notin CNs
      BY AgentAccessAssumption
    <2> QED BY <1>5, <2>1 DEF GhostInv, StreamType, OpenStream
  <1>6. ASSUME NEW j \in jobs, RunJob(j) PROVE GhostInv'
    BY <1>6 DEF GhostInv, RunJob, Upsert, SetOffline
  <1> QED BY <1>1, <1>2, <1>3, <1>4, <1>5, <1>6, StreamCases

-----------------------------------------------------------------------------
(* Sequences of messages.                                                  *)

LEMMA AppendFacts ==
    ASSUME NEW S, NEW s \in Seq(S), NEW e \in S
    PROVE  /\ Append(s, e) \in Seq(S)
           /\ DOMAIN Append(s, e) = DOMAIN s \cup {Len(s) + 1} /\ Len(s) + 1 \notin DOMAIN s
           /\ \A i \in DOMAIN s : Append(s, e)[i] = s[i]
           /\ Append(s, e)[Len(s) + 1] = e
  OBVIOUS

LEMMA TailFacts ==
    ASSUME NEW S, NEW s \in Seq(S), s # <<>>
    PROVE  /\ Tail(s) \in Seq(S) /\ Head(s) \in S
           /\ 1 \in DOMAIN s /\ Head(s) = s[1]
           /\ \A i \in DOMAIN Tail(s) : i + 1 \in DOMAIN s /\ i + 1 # 1 /\ Tail(s)[i] = s[i + 1]
           /\ \A i, j \in DOMAIN Tail(s) : i + 1 = j + 1 => i = j
  OBVIOUS

-----------------------------------------------------------------------------
(* The steps of the handlers and of the publishers, by what they do to     *)
(* topics, queues and what was received.                                   *)

LEMMA HandlerFacts ==
    ASSUME CommandType, NEW h \in Handlers
    PROVE  /\ Queue(h) \in Seq(Msg)
           /\ handler[h].pc # "idle" =>
                /\ handler[h].kind \in Kinds /\ handler[h].cn \in CNs
                /\ Queue(h) = handler[h].queue
                /\ handler[h] \in [pc : {"open", "left", "stopped"}, kind : Kinds, cn : CNs, queue : Seq(Msg)]
  <1>1. handler[h] \in HandlerState
    BY DEF CommandType
  <1>2. CASE handler[h] = IdleHandler
    BY <1>2 DEF IdleHandler, Queue
  <1>3. CASE handler[h] \in [pc : {"open", "left", "stopped"}, kind : Kinds, cn : CNs, queue : Seq(Msg)]
    BY <1>3 DEF Queue
  <1> QED BY <1>1, <1>2, <1>3 DEF HandlerState

\* A message is published under a new identifier.
Published(k, cn, m) ==
    /\ m \in Msg /\ m.id = sent + 1 /\ sent' = sent + 1
    /\ topic' \in [Kinds -> [CNs -> Seq(Msg)]]
    /\ topic'[k][cn] = Append(topic[k][cn], m)
    /\ \A l \in Kinds, dn \in CNs : l # k \/ dn # cn => topic'[l][dn] = topic[l][dn]
    /\ UNCHANGED <<cursor, handler, handled, got>>

LEMMA PublishEffect ==
    ASSUME CommandType, NEW k \in Kinds, NEW cn \in CNs,
           NEW what \in {"PING"} \cup Factors \cup Profiles, Publish(k, cn, what)
    PROVE  Published(k, cn, [id |-> sent + 1, what |-> what])
  <1> DEFINE m == [id |-> sent + 1, what |-> what]
  <1>1. m \in Msg /\ m.id = sent + 1
    BY DEF Msg, CommandType
  <1>2. topic' = [topic EXCEPT ![k][cn] = Append(topic[k][cn], m)]
    BY DEF Publish
  <1>3. topic[k][cn] \in Seq(Msg) /\ Append(topic[k][cn], m) \in Seq(Msg)
    BY <1>1, AppendFacts DEF CommandType
  <1>4. /\ topic' \in [Kinds -> [CNs -> Seq(Msg)]] /\ topic'[k][cn] = Append(topic[k][cn], m)
        /\ \A l \in Kinds, dn \in CNs : l # k \/ dn # cn => topic'[l][dn] = topic[l][dn]
    BY <1>2, <1>3 DEF CommandType
  <1> QED BY <1>1, <1>4 DEF Publish, Published

\* The group's position and a queue after a batch of n messages was given out
\* and m of them were put into the queue of a handler.
Fetched(h, k, cn, n, m) ==
    /\ n \in Nat /\ m \in 1..n /\ cursor[k][cn] + n <= Len(topic[k][cn])
    /\ cursor' \in [Kinds -> [CNs -> Nat]] /\ cursor'[k][cn] = cursor[k][cn] + n
    /\ \A l \in Kinds, dn \in CNs : l # k \/ dn # cn => cursor'[l][dn] = cursor[l][dn]
    /\ handler' \in [Handlers -> HandlerState]
    /\ Queue(h)' = Queue(h) \o Slice(k, cn, m)
    /\ \A g \in Handlers : g # h => Queue(g)' = Queue(g)
    /\ UNCHANGED <<topic, handled, got, sent>>
Fetches(h) == \E k \in Kinds, cn \in CNs, n \in Nat, m \in Nat : Fetched(h, k, cn, n, m)

\* The messages a handler takes, one by one.
LEMMA SliceFacts ==
    ASSUME CommandType, NEW k \in Kinds, NEW cn \in CNs, NEW m \in Nat, m # 0,
           cursor[k][cn] + m <= Len(topic[k][cn])
    PROVE  /\ Slice(k, cn, m) \in Seq(Msg) /\ Len(Slice(k, cn, m)) = m
           /\ \A i \in 1..m : /\ cursor[k][cn] + i \in DOMAIN topic[k][cn]
                              /\ Slice(k, cn, m)[i] = topic[k][cn][cursor[k][cn] + i]
  <1>1. PICK s \in Seq(Msg) : s = topic[k][cn]
    BY DEF CommandType
  <1>2. PICK c \in Nat : c = cursor[k][cn]
    BY DEF CommandType
  <1>3. c + 1 \in 1..Len(s) + 1 /\ c + m \in 0..Len(s) /\ c + m - (c + 1) + 1 = m /\ c + 1 <= c + m
    <2>1. Len(s) \in Nat /\ c + m <= Len(s)
      BY <1>1, <1>2
    <2> QED BY ONLY <2>1, c \in Nat, m \in Nat, m # 0
  <1>4. /\ SubSeq(s, c + 1, c + m) \in Seq(Msg) /\ Len(SubSeq(s, c + 1, c + m)) = m
        /\ \A i \in 1..m : SubSeq(s, c + 1, c + m)[i] = s[c + i]
    BY <1>3, SubSeqProperties, Z3
  <1>5. \A i \in 1..m : c + i \in DOMAIN s
    BY <1>1, <1>2
  <1> QED BY <1>1, <1>2, <1>4, <1>5 DEF Slice

LEMMA FetchEffect ==
    ASSUME CommandType, NEW h \in Handlers, Fetch(h)
    PROVE  Fetches(h)
  <1>1. PICK k \in Kinds, cn \in CNs : k = handler[h].kind /\ cn = handler[h].cn
    BY HandlerFacts DEF Fetch
  <1>2. PICK n \in Nat : n = Batch(k, cn) /\ n # 0 /\ cursor[k][cn] + n <= Len(topic[k][cn])
    <2>1. cursor[k][cn] \in Nat /\ Len(topic[k][cn]) \in Nat /\ cursor[k][cn] < Len(topic[k][cn])
      BY <1>1 DEF Fetch, CommandType
    <2> QED BY <2>1, AgentCommandsAssumption DEF Batch
  <1>3. PICK m \in 1..n : m = IF handler[h].pc = "left" THEN 1 ELSE Batch(k, cn)
    BY <1>2
  <1>4. /\ handler[h].pc \in {"open", "left"}
        /\ cursor' = [cursor EXCEPT ![k][cn] = cursor[k][cn] + n]
        /\ UNCHANGED <<topic, handled, got, sent>>
    BY <1>1, <1>2 DEF Fetch, Advance
  <1>5. cursor[k][cn] \in Nat /\ Slice(k, cn, m) \in Seq(Msg)
    BY <1>2, <1>3, SliceFacts DEF CommandType
  <1>6. PICK s \in Seq(Msg) : s = handler[h].queue \o Slice(k, cn, m)
    BY <1>4, <1>5, HandlerFacts, ConcatProperties
  <1>7. PICK r \in HandlerState : /\ r.pc # "idle" /\ r.queue = s
                                  /\ handler' = [handler EXCEPT ![h] = r]
    <2> DEFINE r == [handler[h] EXCEPT !.pc = IF handler[h].pc = "left" THEN "stopped" ELSE handler[h].pc,
                                       !.queue = s]
    <2>1. r \in HandlerState /\ r.pc # "idle" /\ r.queue = s
      BY <1>4, <1>6, HandlerFacts DEF HandlerState
    <2>2. handler' = [handler EXCEPT ![h] = r]
      BY <1>1, <1>3, <1>6 DEF Fetch, CommandType
    <2> HIDE DEF r
    <2> QED BY <2>1, <2>2
  <1>8. handler' \in [Handlers -> HandlerState] /\ handler'[h] = r
        /\ \A g \in Handlers : g # h => handler'[g] = handler[g]
    BY <1>7 DEF CommandType
  <1>9. Queue(h)' = Queue(h) \o Slice(k, cn, m)
    BY <1>4, <1>6, <1>7, <1>8, HandlerFacts DEF Queue
  <1>10. \A g \in Handlers : g # h => Queue(g)' = Queue(g)
    BY <1>8 DEF Queue
  <1>11. /\ cursor' \in [Kinds -> [CNs -> Nat]] /\ cursor'[k][cn] = cursor[k][cn] + n
         /\ \A l \in Kinds, dn \in CNs : l # k \/ dn # cn => cursor'[l][dn] = cursor[l][dn]
    BY <1>4, <1>5 DEF CommandType
  <1>12. Fetched(h, k, cn, n, m)
    BY <1>2, <1>3, <1>4, <1>8, <1>9, <1>10, <1>11 DEF Fetched
  <1> QED BY <1>12 DEF Fetches

\* The head of a queue is received.
Yielded(h, cn) ==
    /\ Queue(h) # <<>> /\ Queue(h)' = Tail(Queue(h))
    /\ handler' \in [Handlers -> HandlerState]
    /\ \A g \in Handlers : g # h => Queue(g)' = Queue(g)
    /\ got' \in [CNs -> Seq(Msg)] /\ got'[cn] = Append(got[cn], Head(Queue(h)))
    /\ \A dn \in CNs : dn # cn => got'[dn] = got[dn]
    /\ pongs' \subseteq pongs \cup {[cn |-> cn, id |-> Head(Queue(h)).id]}
    /\ UNCHANGED <<topic, cursor, handled, sent, pending, signalled, answered>>

LEMMA YieldEffect ==
    ASSUME CommandType, NEW h \in Handlers, Yield(h)
    PROVE  \E cn \in CNs : Yielded(h, cn)
  <1>1. PICK cn \in CNs : cn = handler[h].cn
    BY HandlerFacts DEF Yield
  <1>2. Queue(h) = handler[h].queue /\ Queue(h) \in Seq(Msg) /\ Queue(h) # <<>>
    BY HandlerFacts DEF Yield
  <1>3. Head(Queue(h)) \in Msg /\ Tail(Queue(h)) \in Seq(Msg)
    BY <1>2, TailFacts
  <1>4. got[cn] \in Seq(Msg) /\ Append(got[cn], Head(Queue(h))) \in Seq(Msg)
    BY <1>3, AppendFacts DEF CommandType
  <1>5. /\ got' \in [CNs -> Seq(Msg)] /\ got'[cn] = Append(got[cn], Head(Queue(h)))
        /\ \A dn \in CNs : dn # cn => got'[dn] = got[dn]
    BY <1>1, <1>2, <1>4 DEF Yield, CommandType
  <1>6. PICK r \in HandlerState : /\ r.pc # "idle" /\ r.queue = Tail(Queue(h))
                                  /\ handler' = [handler EXCEPT ![h] = r]
    <2> DEFINE r == [handler[h] EXCEPT !.queue = Tail(Queue(h))]
    <2>1. r \in HandlerState /\ r.pc # "idle" /\ r.queue = Tail(Queue(h))
      BY <1>3, HandlerFacts DEF HandlerState, Yield
    <2>2. handler' = [handler EXCEPT ![h] = r]
      BY <1>2 DEF Yield
    <2> QED BY <2>1, <2>2
  <1>7. handler' \in [Handlers -> HandlerState] /\ handler'[h] = r
        /\ \A g \in Handlers : g # h => handler'[g] = handler[g]
    BY <1>6 DEF CommandType
  <1>8. Queue(h)' = Tail(Queue(h)) /\ \A g \in Handlers : g # h => Queue(g)' = Queue(g)
    BY <1>6, <1>7 DEF Queue
  <1>9. pongs' \subseteq pongs \cup {[cn |-> cn, id |-> Head(Queue(h)).id]}
    BY <1>1, <1>2 DEF Yield
  <1>10. Yielded(h, cn)
    BY <1>2, <1>5, <1>7, <1>8, <1>9 DEF Yield, Yielded
  <1> QED BY <1>10

\* Queues stay or are dropped, and nothing else moves.
Dropped ==
    /\ handler' \in [Handlers -> HandlerState]
    /\ \A h \in Handlers : Queue(h)' \in {Queue(h), <<>>}
    /\ handled' \in Nat
    /\ UNCHANGED <<topic, cursor, got, sent>>

LEMMA OpenEffect ==
    ASSUME CommandType, NEW h \in Handlers, NEW k \in Kinds, NEW cn \in CNs, Open(h, k, cn)
    PROVE  Dropped
  <1> DEFINE r == [pc |-> "open", kind |-> k, cn |-> cn, queue |-> <<>>]
  <1>1. r \in HandlerState
    BY DEF HandlerState
  <1>2. /\ handler' = [handler EXCEPT ![h] = r] /\ handler[h].pc = "idle"
        /\ handled' = handled + 1 /\ UNCHANGED <<topic, cursor, got, sent>>
    BY DEF Open
  <1>3. handler' \in [Handlers -> HandlerState] /\ handler'[h] = r
        /\ \A g \in Handlers : g # h => handler'[g] = handler[g]
    BY <1>1, <1>2 DEF CommandType
  <1> QED BY <1>2, <1>3 DEF Dropped, Queue, CommandType

LEMMA LeaveEffect ==
    ASSUME CommandType, NEW h \in Handlers, AgentLeaves(h) \/ EndHandler(h)
    PROVE  Dropped
  <1>1. CASE AgentLeaves(h)
    <2>1. PICK r \in HandlerState : /\ r.pc = "left" /\ r.queue = handler[h].queue
                                    /\ handler' = [handler EXCEPT ![h] = r]
      <3> DEFINE r == [handler[h] EXCEPT !.pc = "left"]
      <3>1. r \in HandlerState /\ r.pc = "left" /\ r.queue = handler[h].queue
        BY <1>1, HandlerFacts DEF HandlerState, AgentLeaves
      <3>2. handler' = [handler EXCEPT ![h] = r]
        BY <1>1 DEF AgentLeaves
      <3> QED BY <3>1, <3>2
    <2>2. handler' \in [Handlers -> HandlerState] /\ handler'[h] = r
          /\ \A g \in Handlers : g # h => handler'[g] = handler[g]
      BY <2>1 DEF CommandType
    <2>3. \A g \in Handlers : Queue(g)' = Queue(g)
      BY <1>1, <2>1, <2>2, HandlerFacts DEF Queue, AgentLeaves
    <2> QED BY <1>1, <2>2, <2>3 DEF Dropped, AgentLeaves, CommandType
  <1>2. CASE EndHandler(h)
    <2>1. handler' \in [Handlers -> HandlerState] /\ handler'[h] = IdleHandler
          /\ \A g \in Handlers : g # h => handler'[g] = handler[g]
      BY <1>2 DEF CommandType, EndHandler, HandlerState
    <2> QED BY <1>2, <2>1 DEF Dropped, Queue, EndHandler, IdleHandler, CommandType
  <1> QED BY <1>1, <1>2

LEMMA CrashEffect ==
    ASSUME CommandType, CommandsGone
    PROVE  Dropped
  BY DEF CommandsGone, Dropped, Queue, IdleHandler, HandlerState, CommandType

-----------------------------------------------------------------------------
(* Every step is one of these, as far as messages are concerned.           *)

Quiet == UNCHANGED <<topic, cursor, handler, handled, got, sent>>
Moved ==
    \/ Quiet \/ Dropped
    \/ \E k \in Kinds, cn \in CNs : \E m \in Msg : Published(k, cn, m)
    \/ \E h \in Handlers : Fetches(h)
    \/ \E h \in Handlers, cn \in CNs : Yielded(h, cn)

LEMMA PublishedMoves ==
    ASSUME CommandType, NEW k \in Kinds, NEW cn \in CNs,
           NEW what \in {"PING"} \cup Factors \cup Profiles, Publish(k, cn, what)
    PROVE  \E m \in Msg : Published(k, cn, m)
  BY PublishEffect DEF Published

LEMMA MessageCases ==
    ASSUME CommandType, [CNext]_allVars
    PROVE  Moved
  <1>1. CASE UNCHANGED commandVars \/ UNCHANGED allVars
    BY <1>1 DEF Moved, Quiet, allVars, commandVars, streamState
  <1>2. CASE CommandsGone
    BY <1>2, CrashEffect DEF Moved
  <1>3. ASSUME NEW h \in Handlers, Fetch(h) PROVE Moved
    BY <1>3, FetchEffect DEF Moved
  <1>4. ASSUME NEW h \in Handlers, Yield(h) PROVE Moved
    BY <1>4, YieldEffect DEF Moved
  <1>5. ASSUME NEW h \in Handlers, AgentLeaves(h) \/ EndHandler(h) PROVE Moved
    BY <1>5, LeaveEffect DEF Moved
  <1>6. ASSUME NEW h \in Handlers, NEW cn \in CNs, StreamCommands(h, cn) \/ ReceivePolicy(h, cn)
        PROVE  Moved
    BY <1>6, OpenEffect DEF Moved, StreamCommands, ReceivePolicy, Kinds
  <1>7. ASSUME NEW a \in Admins, PingOk(a) \/ PingTimesOut(a) PROVE Moved
    BY <1>7 DEF Moved, Quiet, PingOk, PingTimesOut, EndPing, streamState
  <1>8. ASSUME NEW a \in Admins, NEW cn \in CNs, Ping(a, cn) PROVE Moved
    <2>1. Publish("commands", cn, "PING") /\ "commands" \in Kinds
      BY <1>8 DEF Ping, Kinds
    <2> QED BY <2>1, PublishedMoves DEF Moved
  <1>9. ASSUME NEW r \in pongs, ReportActions(r) PROVE Moved
    BY <1>9 DEF Moved, Quiet, ReportActions, streamState
  <1>10. ASSUME NEW f \in Factors, CheckAndThrottle(f) PROVE Moved
    BY <1>10 DEF Moved, Quiet, CheckAndThrottle, streamState
  <1>11. ASSUME NEW cn \in CNs, PublishThrottle(cn) PROVE Moved
    <2>1. Publish("commands", cn, factor) /\ "commands" \in Kinds /\ factor \in Factors
      BY <1>11 DEF PublishThrottle, Kinds, CommandType
    <2> QED BY <2>1, PublishedMoves DEF Moved
  <1>12. ASSUME NEW cn \in CNs, PublishThrottleFails(cn) PROVE Moved
    BY <1>12 DEF Moved, Quiet, PublishThrottleFails, streamState
  <1>13. ASSUME NEW cn \in CNs, NEW p \in Profiles, ApplyProfile(cn, p) PROVE Moved
    <2>1. Publish("policy", cn, p) /\ "policy" \in Kinds
      BY <1>13 DEF ApplyProfile, PushToAgent, Kinds
    <2> QED BY <2>1, PublishedMoves DEF Moved
  <1> QED BY <1>1, <1>2, <1>3, <1>4, <1>5, <1>6, <1>7, <1>8, <1>9, <1>10, <1>11, <1>12, <1>13
          DEF CNext

LEMMA MessageTypes ==
    ASSUME CommandType, Moved
    PROVE  /\ topic' \in [Kinds -> [CNs -> Seq(Msg)]] /\ cursor' \in [Kinds -> [CNs -> Nat]]
           /\ handler' \in [Handlers -> HandlerState] /\ handled' \in Nat
           /\ got' \in [CNs -> Seq(Msg)] /\ sent' \in Nat /\ sent' >= sent
  <1>1. CASE Quiet
    BY <1>1 DEF Quiet, CommandType
  <1>2. CASE Dropped
    BY <1>2 DEF Dropped, CommandType
  <1>3. CASE \E k \in Kinds, cn \in CNs : \E m \in Msg : Published(k, cn, m)
    BY <1>3 DEF Published, CommandType
  <1>4. CASE \E h \in Handlers : Fetches(h)
    BY <1>4 DEF Fetches, Fetched, CommandType
  <1>5. CASE \E h \in Handlers, cn \in CNs : Yielded(h, cn)
    BY <1>5 DEF Yielded, CommandType
  <1> QED BY <1>1, <1>2, <1>3, <1>4, <1>5 DEF Moved

\* Every step, as far as pings and throttling are concerned.
LEMMA ControlTypes ==
    ASSUME CommandType, BlockType, StreamType, [CNext]_allVars
    PROVE  /\ pongs' \subseteq Pong /\ factor' \in Factors /\ telling' \subseteq CNs
           /\ pending' \subseteq Nat /\ signalled' \subseteq Nat /\ answered' \subseteq Nat
  <1> DEFINE Good == /\ pongs' \subseteq Pong /\ factor' \in Factors /\ telling' \subseteq CNs
                     /\ pending' \subseteq Nat /\ signalled' \subseteq Nat /\ answered' \subseteq Nat
  <1>1. CASE UNCHANGED commandVars \/ UNCHANGED allVars
    BY <1>1 DEF CommandType, allVars, commandVars, pingVars, controlVars
  <1>2. CASE CommandsGone
    BY <1>2 DEF CommandsGone, CommandType, Factors
  <1>3. ASSUME NEW h \in Handlers, Yield(h) PROVE Good
    <2>1. PICK cn \in CNs : Yielded(h, cn)
      BY <1>3, YieldEffect
    <2>2. Head(Queue(h)).id \in Nat
      <3>1. Queue(h) \in Seq(Msg) /\ Queue(h) # <<>>
        BY <2>1, HandlerFacts DEF Yielded
      <3>2. Head(Queue(h)) \in Msg
        BY <3>1, TailFacts
      <3> QED BY <3>2 DEF Msg
    <2>3. pongs' \subseteq Pong
      BY <2>1, <2>2 DEF Yielded, Pong, CommandType
    <2> QED BY <1>3, <2>3 DEF Yield, CommandType, controlVars
  <1>4. ASSUME NEW h \in Handlers, NEW cn \in CNs,
               \/ Fetch(h) \/ AgentLeaves(h) \/ EndHandler(h)
               \/ StreamCommands(h, cn) \/ ReceivePolicy(h, cn)
        PROVE  Good
    BY <1>4 DEF Fetch, AgentLeaves, EndHandler, StreamCommands, ReceivePolicy, Open, CommandType,
        pingVars, controlVars
  <1>5. ASSUME NEW h \in Handlers, Fetch(h) \/ AgentLeaves(h) \/ EndHandler(h) PROVE Good
    BY <1>5 DEF Fetch, AgentLeaves, EndHandler, CommandType, pingVars, controlVars
  <1>6. ASSUME NEW a \in Admins, PingOk(a) \/ PingTimesOut(a) PROVE Good
    BY <1>6, AdminFacts DEF PingOk, PingTimesOut, EndPing, Unregister, CommandType, controlVars
  <1>7. ASSUME NEW a \in Admins, NEW cn \in CNs, Ping(a, cn) PROVE Good
    BY <1>7 DEF Ping, CommandType, controlVars
  <1>8. ASSUME NEW r \in pongs, ReportActions(r) PROVE Good
    BY <1>8 DEF ReportActions, Signal, CommandType, controlVars
  <1>9. ASSUME NEW f \in Factors, CheckAndThrottle(f) PROVE Good
    BY <1>9 DEF CheckAndThrottle, CommandType, StreamType, pingVars
  <1>10. ASSUME NEW cn \in CNs, PublishThrottle(cn) \/ PublishThrottleFails(cn) PROVE Good
    BY <1>10 DEF PublishThrottle, PublishThrottleFails, CommandType, pingVars
  <1>11. ASSUME NEW cn \in CNs, NEW p \in Profiles, ApplyProfile(cn, p) PROVE Good
    BY <1>11 DEF ApplyProfile, PushToAgent, CommandType, pingVars, controlVars
  <1> QED BY <1>1, <1>2, <1>3, <1>4, <1>5, <1>6, <1>7, <1>8, <1>9, <1>10, <1>11 DEF CNext

LEMMA CommandTypeStep ==
    ASSUME CommandType, BlockType, StreamType, [CNext]_allVars
    PROVE  CommandType'
  BY MessageCases, MessageTypes, ControlTypes DEF CommandType

-----------------------------------------------------------------------------
(* Each message in one place.                                              *)

\* Where a message of a queue or of a topic after a step was before it.
LEMMA TopicOrigin ==
    ASSUME CommandType, NEW k \in Kinds, NEW cn \in CNs, NEW m, Published(k, cn, m),
           NEW l \in Kinds, NEW dn \in CNs, NEW i \in DOMAIN topic'[l][dn]
    PROVE  \/ i \in DOMAIN topic[l][dn] /\ IdAt(l, dn, i)' = IdAt(l, dn, i)
           \/ l = k /\ dn = cn /\ i = Len(topic[k][cn]) + 1 /\ IdAt(l, dn, i)' = sent + 1
  <1>1. topic[k][cn] \in Seq(Msg) /\ m \in Msg
    BY DEF CommandType, Published
  <1>2. CASE l = k /\ dn = cn
    BY <1>1, <1>2, AppendFacts DEF Published, IdAt
  <1>3. CASE l # k \/ dn # cn
    BY <1>3 DEF Published, IdAt
  <1> QED BY <1>2, <1>3

LEMMA FetchOrigin ==
    ASSUME CommandType, NEW h \in Handlers, NEW k \in Kinds, NEW cn \in CNs, NEW n, NEW m,
           Fetched(h, k, cn, n, m), NEW g \in Handlers, NEW p \in DOMAIN Queue(g)'
    PROVE  \/ p \in DOMAIN Queue(g) /\ Queue(g)'[p] = Queue(g)[p]
           \/ \E i \in 1..n : /\ g = h /\ p = Len(Queue(h)) + i
                              /\ cursor[k][cn] + i \in DOMAIN topic[k][cn]
                              /\ Queue(g)'[p].id = IdAt(k, cn, cursor[k][cn] + i)
  <1>1. n \in Nat /\ m \in 1..n /\ cursor[k][cn] + m <= Len(topic[k][cn])
    BY DEF Fetched, CommandType
  <1>2. CASE g = h
    <2>1. PICK s \in Seq(Msg) : s = Queue(h)
      BY HandlerFacts
    <2>2. PICK t \in Seq(Msg) : t = Slice(k, cn, m)
      BY <1>1, SliceFacts
    <2>3. /\ Len(t) = m
          /\ \A i \in 1..m : /\ cursor[k][cn] + i \in DOMAIN topic[k][cn]
                             /\ t[i] = topic[k][cn][cursor[k][cn] + i]
      BY <1>1, <2>2, SliceFacts
    <2>4. Queue(g)' = s \o t /\ p \in DOMAIN (s \o t)
      BY <1>2, <2>1, <2>2 DEF Fetched
    <2>5. CASE p \in DOMAIN s
      BY <1>2, <2>1, <2>4, <2>5
    <2>6. CASE p \notin DOMAIN s
      <3>0. /\ Len(s) \in Nat /\ DOMAIN s = 1..Len(s) /\ p \in 1..Len(s) + m
            /\ (s \o t)[p] = t[p - Len(s)]
        BY <2>3, <2>4, <2>6, ConcatProperties
      <3>1. PICK i \in 1..m : p = Len(s) + i /\ (s \o t)[p] = t[i]
        <4>1. p - Len(s) \in 1..m /\ p = Len(s) + (p - Len(s))
          BY ONLY <1>1, <2>6, <3>0
        <4> QED BY <3>0, <4>1
      <3>2. i \in 1..n
        BY <1>1
      <3>3. t[i].id = IdAt(k, cn, cursor[k][cn] + i)
        BY <2>3 DEF IdAt
      <3> QED BY <1>2, <2>1, <2>3, <2>4, <3>1, <3>2, <3>3
    <2> QED BY <2>5, <2>6
  <1>3. CASE g # h
    BY <1>3 DEF Fetched
  <1> QED BY <1>2, <1>3

LEMMA YieldOrigin ==
    ASSUME CommandType, NEW h \in Handlers, NEW cn \in CNs, Yielded(h, cn)
    PROVE  /\ 1 \in DOMAIN Queue(h) /\ Head(Queue(h)) = Queue(h)[1]
           /\ \A g \in Handlers : g # h => Queue(g)' = Queue(g)
           /\ \A p \in DOMAIN Queue(h)' :
                 p + 1 \in DOMAIN Queue(h) /\ p + 1 # 1 /\ Queue(h)'[p] = Queue(h)[p + 1]
           /\ \A p, q \in DOMAIN Queue(h)' : p + 1 = q + 1 => p = q
           /\ \A dn \in CNs : \A n \in DOMAIN got'[dn] :
                 \/ n \in DOMAIN got[dn] /\ got'[dn][n] = got[dn][n]
                 \/ dn = cn /\ n = Len(got[cn]) + 1 /\ got'[dn][n] = Queue(h)[1]
           /\ \A dn \in CNs : \A n \in DOMAIN got[dn] : n \in DOMAIN got'[dn] /\ got'[dn][n] = got[dn][n]
  <1>1. Queue(h) \in Seq(Msg) /\ Queue(h) # <<>> /\ got[cn] \in Seq(Msg)
    BY HandlerFacts DEF CommandType, Yielded
  <1>2. 1 \in DOMAIN Queue(h) /\ Head(Queue(h)) = Queue(h)[1] /\ Head(Queue(h)) \in Msg
    BY <1>1, TailFacts
  <1>3. /\ \A p \in DOMAIN Queue(h)' :
              p + 1 \in DOMAIN Queue(h) /\ p + 1 # 1 /\ Queue(h)'[p] = Queue(h)[p + 1]
        /\ \A p, q \in DOMAIN Queue(h)' : p + 1 = q + 1 => p = q
    BY <1>1, TailFacts DEF Yielded
  <1>4. ASSUME NEW dn \in CNs, NEW n \in DOMAIN got'[dn]
        PROVE  \/ n \in DOMAIN got[dn] /\ got'[dn][n] = got[dn][n]
               \/ dn = cn /\ n = Len(got[cn]) + 1 /\ got'[dn][n] = Queue(h)[1]
    <2>1. CASE dn = cn
      BY <1>1, <1>2, <2>1, AppendFacts DEF Yielded
    <2>2. CASE dn # cn
      BY <2>2 DEF Yielded
    <2> QED BY <2>1, <2>2
  <1>5. ASSUME NEW dn \in CNs, NEW n \in DOMAIN got[dn]
        PROVE  n \in DOMAIN got'[dn] /\ got'[dn][n] = got[dn][n]
    <2>1. CASE dn = cn
      BY <1>1, <1>2, <2>1, AppendFacts DEF Yielded
    <2>2. CASE dn # cn
      BY <2>2 DEF Yielded
    <2> QED BY <2>1, <2>2
  <1> QED BY <1>2, <1>3, <1>4, <1>5 DEF Yielded

LEMMA TopicStep ==
    ASSUME CommandType, TopicInv, Moved
    PROVE  TopicInv'
  <1>1. CASE UNCHANGED <<topic, sent>>
    BY <1>1 DEF TopicInv, IdAt
  <1>2. ASSUME NEW k \in Kinds, NEW cn \in CNs, NEW m \in Msg, Published(k, cn, m)
        PROVE  TopicInv'
    <2>1. sent' = sent + 1 /\ sent \in Nat
      BY <1>2 DEF Published, CommandType
    <2>2. \A l \in Kinds, dn \in CNs : \A i \in DOMAIN topic[l][dn] :
             IdAt(l, dn, i) \in Nat /\ IdAt(l, dn, i) <= sent
      <3>1. ASSUME NEW l \in Kinds, NEW dn \in CNs, NEW i \in DOMAIN topic[l][dn]
            PROVE  IdAt(l, dn, i) \in Nat
        <4>1. topic[l][dn][i] \in Msg
          BY DEF CommandType
        <4> QED BY <4>1 DEF IdAt, Msg
      <3> QED BY <3>1 DEF TopicInv
    <2>3. \A l \in Kinds, dn \in CNs : \A i \in DOMAIN topic'[l][dn] :
             \/ i \in DOMAIN topic[l][dn] /\ IdAt(l, dn, i)' = IdAt(l, dn, i)
             \/ l = k /\ dn = cn /\ i = Len(topic[k][cn]) + 1 /\ IdAt(l, dn, i)' = sent + 1
      BY <1>2, TopicOrigin
    <2>4. \A l \in Kinds, dn \in CNs : \A i \in DOMAIN topic'[l][dn] : IdAt(l, dn, i)' <= sent'
      BY <2>1, <2>2, <2>3
    <2>5. ASSUME NEW l1 \in Kinds, NEW l2 \in Kinds, NEW d1 \in CNs, NEW d2 \in CNs,
                 NEW i \in DOMAIN topic'[l1][d1], NEW j \in DOMAIN topic'[l2][d2],
                 IdAt(l1, d1, i)' = IdAt(l2, d2, j)'
          PROVE  l1 = l2 /\ d1 = d2 /\ i = j
      <3>1. CASE i \in DOMAIN topic[l1][d1] /\ IdAt(l1, d1, i)' = IdAt(l1, d1, i)
        <4>1. IdAt(l1, d1, i) # sent + 1
          BY <2>1, <2>2, <3>1
        <4>2. j \in DOMAIN topic[l2][d2] /\ IdAt(l2, d2, j)' = IdAt(l2, d2, j)
          BY <2>3, <2>5, <3>1, <4>1
        <4>3. IdAt(l1, d1, i) = IdAt(l2, d2, j) /\ i \in DOMAIN topic[l1][d1]
          BY <2>5, <3>1, <4>2
        <4> QED BY <4>2, <4>3 DEF TopicInv
      <3>2. CASE l1 = k /\ d1 = cn /\ i = Len(topic[k][cn]) + 1 /\ IdAt(l1, d1, i)' = sent + 1
        <4>1. ~ (j \in DOMAIN topic[l2][d2] /\ IdAt(l2, d2, j)' = IdAt(l2, d2, j))
          BY <2>1, <2>2, <2>5, <3>2
        <4> QED BY <2>3, <3>2, <4>1
      <3> QED BY <2>3, <3>1, <3>2
    <2> QED BY <2>4, <2>5 DEF TopicInv
  <1> QED BY <1>1, <1>2 DEF Moved, Quiet, Dropped, Fetches, Fetched, Yielded

\* The queues after a step of a handler that only drops queues, or of nobody.
LEMMA QueueKept ==
    ASSUME CommandType, Quiet \/ Dropped
    PROVE  /\ \A h \in Handlers : Queue(h)' \in {Queue(h), <<>>}
           /\ UNCHANGED <<topic, cursor, got, sent>>
  BY DEF Quiet, Dropped, Queue

LEMMA QueueStep ==
    ASSUME CommandType, TopicInv, QueueInv, Moved
    PROVE  QueueInv'
  <1>1. CASE Quiet \/ Dropped
    <2>1. /\ \A h \in Handlers : Queue(h)' \in {Queue(h), <<>>}
          /\ UNCHANGED <<topic, cursor, sent>>
      BY <1>1, QueueKept
    <2>2. \A h \in Handlers : \A p \in DOMAIN Queue(h)' : p \in DOMAIN Queue(h) /\ Queue(h)'[p] = Queue(h)[p]
      BY <2>1
    <2> QED BY <2>1, <2>2 DEF QueueInv, IdAt
  <1>2. ASSUME NEW k \in Kinds, NEW cn \in CNs, NEW m \in Msg, Published(k, cn, m)
        PROVE  QueueInv'
    <2>1. sent' = sent + 1 /\ sent \in Nat /\ UNCHANGED cursor
      BY <1>2 DEF Published, CommandType
    <2>2. \A h \in Handlers : Queue(h)' = Queue(h)
      BY <1>2 DEF Published, Queue
    <2>3. \A h \in Handlers : \A p \in DOMAIN Queue(h) : Queue(h)[p].id \in Nat /\ Queue(h)[p].id <= sent
      <3>1. ASSUME NEW h \in Handlers, NEW p \in DOMAIN Queue(h) PROVE Queue(h)[p].id \in Nat
        <4>1. Queue(h)[p] \in Msg
          BY HandlerFacts
        <4> QED BY <4>1 DEF Msg
      <3> QED BY <3>1 DEF QueueInv
    <2>4. \A l \in Kinds, dn \in CNs : \A i \in DOMAIN topic'[l][dn] :
             \/ i \in DOMAIN topic[l][dn] /\ IdAt(l, dn, i)' = IdAt(l, dn, i)
             \/ IdAt(l, dn, i)' = sent + 1
      BY <1>2, TopicOrigin
    <2>5. \A h \in Handlers : \A p \in DOMAIN Queue(h)' :
             /\ Queue(h)'[p].id <= sent'
             /\ \A l \in Kinds, dn \in CNs : \A i \in DOMAIN topic'[l][dn] :
                   i > cursor'[l][dn] => IdAt(l, dn, i)' # Queue(h)'[p].id
      BY <2>1, <2>2, <2>3, <2>4 DEF QueueInv
    <2> QED BY <2>2, <2>5 DEF QueueInv
  <1>3. ASSUME NEW h \in Handlers, NEW k \in Kinds, NEW cn \in CNs, NEW n \in Nat, NEW m \in Nat,
               Fetched(h, k, cn, n, m)
        PROVE  QueueInv'
    <2> DEFINE New(i) == /\ i \in DOMAIN topic[k][cn]
                         /\ i > cursor[k][cn] /\ i <= cursor'[k][cn]
    <2>1. /\ cursor[k][cn] \in Nat /\ cursor'[k][cn] = cursor[k][cn] + n /\ UNCHANGED <<topic, sent>>
          /\ \A l \in Kinds, dn \in CNs : l # k \/ dn # cn => cursor'[l][dn] = cursor[l][dn]
      BY <1>3 DEF Fetched, CommandType
    <2>2. \A g \in Handlers : \A p \in DOMAIN Queue(g)' :
             \/ p \in DOMAIN Queue(g) /\ Queue(g)'[p] = Queue(g)[p]
             \/ \E i \in 1..n : /\ g = h /\ p = Len(Queue(h)) + i /\ New(cursor[k][cn] + i)
                                /\ Queue(g)'[p].id = IdAt(k, cn, cursor[k][cn] + i)
      BY <1>3, <2>1, FetchOrigin
    <2>3. \A l \in Kinds, dn \in CNs : \A i \in DOMAIN topic[l][dn] :
             i > cursor'[l][dn] => i > cursor[l][dn] /\ (l # k \/ dn # cn \/ ~ New(i))
      <3>1. ASSUME NEW i \in DOMAIN topic[k][cn], i > cursor'[k][cn]
            PROVE  i > cursor[k][cn] /\ ~ New(i)
        <4>1. i \in Nat
          BY DEF CommandType
        <4> QED BY <2>1, <3>1, <4>1
      <3> QED BY <2>1, <3>1
    <2>4. \A g \in Handlers : \A p \in DOMAIN Queue(g) : \A i : New(i) => Queue(g)[p].id # IdAt(k, cn, i)
      BY <2>1 DEF QueueInv
    <2>5. \A l \in Kinds, dn \in CNs : \A i \in DOMAIN topic[l][dn] : IdAt(l, dn, i)' = IdAt(l, dn, i)
      BY <2>1 DEF IdAt
    <2>6. \A i : New(i) => i \in DOMAIN topic[k][cn]
      OBVIOUS
    <2> HIDE DEF New
    <2>7. ASSUME NEW g \in Handlers, NEW p \in DOMAIN Queue(g)'
          PROVE  /\ Queue(g)'[p].id <= sent'
                 /\ \A l \in Kinds, dn \in CNs : \A i \in DOMAIN topic'[l][dn] :
                       i > cursor'[l][dn] => IdAt(l, dn, i)' # Queue(g)'[p].id
      <3>1. CASE p \in DOMAIN Queue(g) /\ Queue(g)'[p] = Queue(g)[p]
        BY <2>1, <2>3, <2>5, <3>1 DEF QueueInv
      <3>2. ASSUME NEW i \in 1..n, New(cursor[k][cn] + i), Queue(g)'[p].id = IdAt(k, cn, cursor[k][cn] + i)
            PROVE  /\ Queue(g)'[p].id <= sent'
                   /\ \A l \in Kinds, dn \in CNs : \A j \in DOMAIN topic'[l][dn] :
                         j > cursor'[l][dn] => IdAt(l, dn, j)' # Queue(g)'[p].id
        <4>1. PICK c : c = cursor[k][cn] + i
          OBVIOUS
        <4>2. New(c) /\ c \in DOMAIN topic[k][cn] /\ Queue(g)'[p].id = IdAt(k, cn, c)
          BY <2>6, <3>2, <4>1
        <4> QED BY <2>1, <2>3, <2>5, <4>2 DEF TopicInv
      <3> QED BY <2>2, <3>1, <3>2
    <2>8. ASSUME NEW f \in Handlers, NEW g \in Handlers,
                 NEW p \in DOMAIN Queue(f)', NEW q \in DOMAIN Queue(g)',
                 Queue(f)'[p].id = Queue(g)'[q].id
          PROVE  f = g /\ p = q
      <3>1. CASE p \in DOMAIN Queue(f) /\ Queue(f)'[p] = Queue(f)[p]
        <4>1. q \in DOMAIN Queue(g) /\ Queue(g)'[q] = Queue(g)[q]
          BY <2>2, <2>4, <2>8, <3>1
        <4> QED BY <2>8, <3>1, <4>1 DEF QueueInv
      <3>2. CASE ~ (p \in DOMAIN Queue(f) /\ Queue(f)'[p] = Queue(f)[p])
        <4>1. PICK i \in 1..n : /\ f = h /\ p = Len(Queue(h)) + i /\ New(cursor[k][cn] + i)
                                /\ Queue(f)'[p].id = IdAt(k, cn, cursor[k][cn] + i)
          BY <2>2, <3>2
        <4>2. ~ (q \in DOMAIN Queue(g) /\ Queue(g)'[q] = Queue(g)[q])
          BY <2>4, <2>8, <4>1
        <4>3. PICK j \in 1..n : /\ g = h /\ q = Len(Queue(h)) + j /\ New(cursor[k][cn] + j)
                                /\ Queue(g)'[q].id = IdAt(k, cn, cursor[k][cn] + j)
          BY <2>2, <4>2
        <4>4. cursor[k][cn] + i = cursor[k][cn] + j
          BY <2>6, <2>8, <4>1, <4>3 DEF TopicInv
        <4>5. i = j
          BY <2>1, <4>4
        <4> QED BY <4>1, <4>3, <4>5
      <3> QED BY <3>1, <3>2
    <2> QED BY <2>7, <2>8 DEF QueueInv
  <1>4. ASSUME NEW h \in Handlers, NEW cn \in CNs, Yielded(h, cn)
        PROVE  QueueInv'
    <2>1. UNCHANGED <<topic, cursor, sent>>
      BY <1>4 DEF Yielded
    <2>2. /\ \A g \in Handlers : g # h => Queue(g)' = Queue(g)
          /\ \A p \in DOMAIN Queue(h)' : p + 1 \in DOMAIN Queue(h) /\ Queue(h)'[p] = Queue(h)[p + 1]
          /\ \A p, q \in DOMAIN Queue(h)' : p + 1 = q + 1 => p = q
      BY <1>4, YieldOrigin
    <2>3. \A g \in Handlers : \A p \in DOMAIN Queue(g)' :
             \E r \in DOMAIN Queue(g) : Queue(g)'[p] = Queue(g)[r]
      BY <2>2
    <2>4. ASSUME NEW f \in Handlers, NEW g \in Handlers,
                 NEW p \in DOMAIN Queue(f)', NEW q \in DOMAIN Queue(g)',
                 Queue(f)'[p].id = Queue(g)'[q].id
          PROVE  f = g /\ p = q
      <3>1. f = g
        BY <2>3, <2>4 DEF QueueInv
      <3>2. CASE f = h
        BY <2>2, <2>4, <3>1, <3>2 DEF QueueInv
      <3>3. CASE f # h
        BY <2>2, <2>4, <3>1, <3>3 DEF QueueInv
      <3> QED BY <3>1, <3>2, <3>3
    <2>5. \A g \in Handlers : \A p \in DOMAIN Queue(g)' :
             /\ Queue(g)'[p].id <= sent'
             /\ \A l \in Kinds, dn \in CNs : \A i \in DOMAIN topic'[l][dn] :
                   i > cursor'[l][dn] => IdAt(l, dn, i)' # Queue(g)'[p].id
      BY <2>1, <2>3 DEF QueueInv, IdAt
    <2> QED BY <2>4, <2>5 DEF QueueInv
  <1> QED BY <1>1, <1>2, <1>3, <1>4 DEF Moved, Fetches

LEMMA GotStep ==
    ASSUME CommandType, TopicInv, QueueInv, GotInv, Moved
    PROVE  GotInv'
  <1>0. \A dn \in CNs : \A n \in DOMAIN got[dn] : got[dn][n].id \in Nat /\ got[dn][n].id <= sent
    <2>1. ASSUME NEW dn \in CNs, NEW n \in DOMAIN got[dn] PROVE got[dn][n].id \in Nat
      <3>1. got[dn][n] \in Msg
        BY DEF CommandType
      <3> QED BY <3>1 DEF Msg
    <2> QED BY <2>1 DEF GotInv
  <1>1. CASE Quiet \/ Dropped
    <2>1. /\ \A h \in Handlers : Queue(h)' \in {Queue(h), <<>>}
          /\ UNCHANGED <<topic, cursor, got, sent>>
      BY <1>1, QueueKept
    <2>2. \A h \in Handlers : \A p \in DOMAIN Queue(h)' : p \in DOMAIN Queue(h) /\ Queue(h)'[p] = Queue(h)[p]
      BY <2>1
    <2> QED BY <2>1, <2>2 DEF GotInv, IdAt
  <1>2. ASSUME NEW k \in Kinds, NEW cn \in CNs, NEW m \in Msg, Published(k, cn, m)
        PROVE  GotInv'
    <2>1. sent' = sent + 1 /\ sent \in Nat /\ UNCHANGED <<cursor, got>>
      BY <1>2 DEF Published, CommandType
    <2>2. \A h \in Handlers : Queue(h)' = Queue(h)
      BY <1>2 DEF Published, Queue
    <2>3. \A l \in Kinds, dn \in CNs : \A i \in DOMAIN topic'[l][dn] :
             \/ i \in DOMAIN topic[l][dn] /\ IdAt(l, dn, i)' = IdAt(l, dn, i)
             \/ IdAt(l, dn, i)' = sent + 1
      BY <1>2, TopicOrigin
    <2>4. ASSUME NEW d \in CNs, NEW n \in DOMAIN got[d]
          PROVE  /\ got[d][n].id <= sent'
                 /\ \A l \in Kinds, dn \in CNs : \A i \in DOMAIN topic'[l][dn] :
                       i > cursor'[l][dn] => IdAt(l, dn, i)' # got[d][n].id
                 /\ \A h \in Handlers : \A p \in DOMAIN Queue(h)' : Queue(h)'[p].id # got[d][n].id
      <3>1. got[d][n].id <= sent' /\ got[d][n].id # sent + 1
        BY <1>0, <2>1
      <3>2. \A h \in Handlers : \A p \in DOMAIN Queue(h)' : Queue(h)'[p].id # got[d][n].id
        BY <2>2 DEF GotInv
      <3>3. \A l \in Kinds, dn \in CNs : \A i \in DOMAIN topic'[l][dn] :
               i > cursor'[l][dn] => IdAt(l, dn, i)' # got[d][n].id
        BY <2>1, <2>3, <3>1 DEF GotInv
      <3> QED BY <3>1, <3>2, <3>3
    <2> QED BY <2>1, <2>4 DEF GotInv
  <1>3. ASSUME NEW h \in Handlers, NEW k \in Kinds, NEW cn \in CNs, NEW n \in Nat, NEW m \in Nat,
               Fetched(h, k, cn, n, m)
        PROVE  GotInv'
    <2> DEFINE New(i) == i \in DOMAIN topic[k][cn] /\ i > cursor[k][cn]
    <2>1. /\ cursor[k][cn] \in Nat /\ cursor'[k][cn] = cursor[k][cn] + n
          /\ UNCHANGED <<topic, sent, got>>
          /\ \A l \in Kinds, dn \in CNs : l # k \/ dn # cn => cursor'[l][dn] = cursor[l][dn]
      BY <1>3 DEF Fetched, CommandType
    <2>2. \A g \in Handlers : \A p \in DOMAIN Queue(g)' :
             \/ p \in DOMAIN Queue(g) /\ Queue(g)'[p] = Queue(g)[p]
             \/ \E c : New(c) /\ Queue(g)'[p].id = IdAt(k, cn, c)
      BY <1>3, <2>1, FetchOrigin
    <2>3. \A l \in Kinds, dn \in CNs : \A i \in DOMAIN topic[l][dn] :
             i > cursor'[l][dn] => i > cursor[l][dn]
      <3>1. ASSUME NEW i \in DOMAIN topic[k][cn], i > cursor'[k][cn] PROVE i > cursor[k][cn]
        <4>1. i \in Nat
          BY DEF CommandType
        <4> QED BY <2>1, <3>1, <4>1
      <3> QED BY <2>1, <3>1
    <2>4. \A d \in CNs : \A i \in DOMAIN got[d] : \A c : New(c) => got[d][i].id # IdAt(k, cn, c)
      BY DEF GotInv
    <2> HIDE DEF New
    <2>5. \A d \in CNs : \A i \in DOMAIN got[d] : \A g \in Handlers : \A p \in DOMAIN Queue(g)' :
             Queue(g)'[p].id # got[d][i].id
      BY <2>2, <2>4 DEF GotInv
    <2> QED BY <2>1, <2>3, <2>5 DEF GotInv, IdAt
  <1>4. ASSUME NEW h \in Handlers, NEW cn \in CNs, Yielded(h, cn)
        PROVE  GotInv'
    <2>1. UNCHANGED <<topic, cursor, sent>>
      BY <1>4 DEF Yielded
    <2>2. /\ 1 \in DOMAIN Queue(h)
          /\ \A g \in Handlers : g # h => Queue(g)' = Queue(g)
          /\ \A p \in DOMAIN Queue(h)' :
                p + 1 \in DOMAIN Queue(h) /\ p + 1 # 1 /\ Queue(h)'[p] = Queue(h)[p + 1]
      BY <1>4, YieldOrigin
    <2>3. \A d \in CNs : \A n \in DOMAIN got'[d] :
             \/ n \in DOMAIN got[d] /\ got'[d][n] = got[d][n]
             \/ got'[d][n] = Queue(h)[1]
      BY <1>4, YieldOrigin
    <2>4. \A g \in Handlers : \A p \in DOMAIN Queue(g)' :
             \E r \in DOMAIN Queue(g) : Queue(g)'[p] = Queue(g)[r] /\ (g = h => r # 1)
      BY <2>2
    <2>5. ASSUME NEW d \in CNs, NEW n \in DOMAIN got'[d]
          PROVE  /\ got'[d][n].id <= sent'
                 /\ \A l \in Kinds, dn \in CNs : \A i \in DOMAIN topic'[l][dn] :
                       i > cursor'[l][dn] => IdAt(l, dn, i)' # got'[d][n].id
                 /\ \A g \in Handlers : \A p \in DOMAIN Queue(g)' : Queue(g)'[p].id # got'[d][n].id
      <3>1. CASE n \in DOMAIN got[d] /\ got'[d][n] = got[d][n]
        BY <2>1, <2>4, <3>1 DEF GotInv, IdAt
      <3>2. CASE got'[d][n] = Queue(h)[1]
        <4>1. /\ got'[d][n].id <= sent'
              /\ \A l \in Kinds, dn \in CNs : \A i \in DOMAIN topic'[l][dn] :
                    i > cursor'[l][dn] => IdAt(l, dn, i)' # got'[d][n].id
          BY <2>1, <2>2, <3>2 DEF QueueInv, IdAt
        <4>2. \A g \in Handlers : \A p \in DOMAIN Queue(g)' : Queue(g)'[p].id # got'[d][n].id
          BY <2>2, <2>4, <3>2 DEF QueueInv
        <4> QED BY <4>1, <4>2
      <3> QED BY <2>3, <3>1, <3>2
    <2> QED BY <2>5 DEF GotInv
  <1> QED BY <1>1, <1>2, <1>3, <1>4 DEF Moved, Fetches

LEMMA DeliveredStep ==
    ASSUME CommandType, GotInv, DeliveredOnce, Moved
    PROVE  DeliveredOnce'
  <1>1. CASE UNCHANGED got
    BY <1>1 DEF DeliveredOnce
  <1>2. ASSUME NEW h \in Handlers, NEW cn \in CNs, Yielded(h, cn)
        PROVE  DeliveredOnce'
    <2>1. 1 \in DOMAIN Queue(h)
      BY <1>2, YieldOrigin
    <2>2. \A d \in CNs : \A n \in DOMAIN got'[d] :
             \/ n \in DOMAIN got[d] /\ got'[d][n] = got[d][n]
             \/ d = cn /\ n = Len(got[cn]) + 1 /\ got'[d][n] = Queue(h)[1]
      BY <1>2, YieldOrigin
    <2>3. \A d \in CNs : \A n \in DOMAIN got[d] : got[d][n].id # Queue(h)[1].id
      BY <2>1 DEF GotInv
    <2>4. ASSUME NEW d \in CNs, NEW i \in DOMAIN got'[d], NEW j \in DOMAIN got'[d],
                 got'[d][i].id = got'[d][j].id
          PROVE  i = j
      BY <2>2, <2>3, <2>4 DEF DeliveredOnce
    <2> QED BY <2>4 DEF DeliveredOnce
  <1> QED BY <1>1, <1>2 DEF Moved, Quiet, Dropped, Published, Fetches, Fetched

-----------------------------------------------------------------------------
(* Pings.                                                                  *)

LEMMA ReceivedGrows ==
    ASSUME CommandType, Moved, NEW id, Received(id)
    PROVE  Received(id)'
  <1>1. PICK cn \in CNs : \E i \in DOMAIN got[cn] : got[cn][i].id = id
    BY DEF Received
  <1>2. PICK i \in DOMAIN got[cn] : got[cn][i].id = id
    BY <1>1
  <1>3. CASE UNCHANGED got
    BY <1>2, <1>3 DEF Received
  <1>4. ASSUME NEW h \in Handlers, NEW dn \in CNs, Yielded(h, dn)
        PROVE  Received(id)'
    <2>1. i \in DOMAIN got'[cn] /\ got'[cn][i] = got[cn][i]
      BY <1>4, YieldOrigin
    <2> QED BY <1>2, <2>1 DEF Received
  <1> QED BY <1>3, <1>4 DEF Moved, Quiet, Dropped, Published, Fetches, Fetched

\* The requests of administrators that wait for a ping are left alone.
PingsKept ==
    \A a \in Admins : /\ Pinging(a)' <=> Pinging(a)
                      /\ Pinging(a) => admin'[a].id = admin[a].id

LEMMA AccessKeepsPings ==
    ASSUME BlockType, AccessStep
    PROVE  PingsKept
  <1>1. CASE UNCHANGED admin
    BY <1>1 DEF PingsKept, Pinging
  <1>2. ASSUME NEW a \in Admins, StoreBlock(a) \/ StoreBlockFails(a) PROVE PingsKept
    <2>1. /\ admin[a].pc \in {"block", "unblock"} /\ admin' = [admin EXCEPT ![a] = Idle]
      BY <1>2 DEF StoreBlock, StoreBlockFails
    <2> QED BY <2>1 DEF PingsKept, Pinging, Idle, BlockType
  <1>3. ASSUME NEW a \in Admins, NEW cn \in CNs, BlockAgent(a, cn) \/ UnblockAgent(a, cn)
        PROVE  PingsKept
    <2>1. PICK r : /\ r.pc \in {"block", "unblock"} /\ admin[a].pc = "idle"
                   /\ admin' = [admin EXCEPT ![a] = r]
      <3>1. CASE BlockAgent(a, cn)
        BY <3>1 DEF BlockAgent
      <3>2. CASE UnblockAgent(a, cn)
        BY <3>2 DEF UnblockAgent
      <3> QED BY <1>3, <3>1, <3>2
    <2> QED BY <2>1 DEF PingsKept, Pinging, BlockType
  <1>4. CASE \/ LoadBlocked \/ Startup \/ StartGrpc \/ Tick
             \/ ApiListTokens \/ EnrollmentCli
             \/ \E t \in Tokens : \/ ApiCreateToken(t) \/ ApiRevokeToken(t)
                                  \/ \E e \in Enrollers, cn \in CNs : SpendToken(e, t, cn)
             \/ \E e \in Enrollers : SignCsr(e) \/ RejectCsr(e)
    BY <1>1, <1>4 DEF LoadBlocked, Startup, StartGrpc, Tick, ApiListTokens, EnrollmentCli,
        CliListTokens, CliCreateToken, CliRevokeToken, ApiCreateToken, ApiRevokeToken, ListTokens,
        CreateToken, RevokeToken, SpendToken, SignCsr, RejectCsr, blockVars
  <1>5. CASE \/ \E s \in Streams : \/ CloseStream(s) \/ AbortUnsigned(s)
                                   \/ \E cn \in CNs : OpenStream(s, cn)
             \/ \E j \in jobs : RunJob(j)
    BY <1>1, <1>5 DEF CloseStream, AbortUnsigned, OpenStream, RunJob, blockVars
  <1> QED BY <1>2, <1>3, <1>4, <1>5 DEF AccessStep

LEMMA QuietPings ==
    ASSUME BlockType, CommandType, PingInv, Moved, PingsKept, UNCHANGED <<pending, signalled, answered>>,
           \A r \in pongs' : r \in pongs \/ Received(r.id)'
    PROVE  PingInv'
  <1>1. sent' >= sent /\ sent' \in Nat /\ sent \in Nat
    BY MessageTypes DEF CommandType
  <1>2. \A id : Received(id) => Received(id)'
    BY ReceivedGrows
  <1>3. \A a \in Admins : Pinging(a)' => admin'[a].id \in pending' /\ admin'[a].id <= sent'
    <2>1. ASSUME NEW a \in Admins, Pinging(a)' PROVE admin'[a].id \in pending' /\ admin'[a].id <= sent'
      <3>1. Pinging(a) /\ admin'[a].id = admin[a].id
        BY <2>1 DEF PingsKept
      <3>2. admin[a].id \in Nat /\ admin[a].id <= sent /\ admin[a].id \in pending
        BY <3>1, AdminFacts DEF Pinging, PingInv
      <3> QED BY <1>1, <3>1, <3>2
    <2> QED BY <2>1
  <1>4. \A id \in pending' : \E a \in Admins : Pinging(a)' /\ admin'[a].id = id
    BY DEF PingInv, PingsKept
  <1>5. \A a, b \in Admins : Pinging(a)' /\ Pinging(b)' /\ admin'[a].id = admin'[b].id => a = b
    BY DEF PingInv, PingsKept
  <1>6. \A r \in pongs' : Received(r.id)'
    BY <1>2 DEF PingInv
  <1>7. \A id \in signalled' \cup answered' : Received(id)'
    BY <1>2 DEF PingInv
  <1> QED BY <1>3, <1>4, <1>5, <1>6, <1>7 DEF PingInv

\* The request of an administrator ends.
LEMMA EndedPings ==
    ASSUME BlockType, CommandType, PingInv, Moved, NEW a \in Admins, PingOk(a) \/ PingTimesOut(a)
    PROVE  PingInv'
  <1>1. /\ Pinging(a) /\ admin' = [admin EXCEPT ![a] = Idle]
        /\ pending' = pending \ {admin[a].id} /\ signalled' = signalled \ {admin[a].id}
        /\ answered' = answered \/ (admin[a].id \in signalled /\ answered' = answered \cup {admin[a].id})
        /\ UNCHANGED <<pongs, sent>>
    BY DEF PingOk, PingTimesOut, EndPing, Unregister, Pinging, streamState
  <1>2. \A b \in Admins : /\ Pinging(b)' <=> Pinging(b) /\ b # a
                          /\ b # a => admin'[b] = admin[b]
    BY <1>1 DEF Pinging, BlockType, Idle
  <1>3. \A id : Received(id) => Received(id)'
    BY ReceivedGrows
  <1>4. \A b \in Admins : Pinging(b)' => admin'[b].id \in pending' /\ admin'[b].id <= sent'
    BY <1>1, <1>2 DEF PingInv
  <1>5. \A id \in pending' : \E b \in Admins : Pinging(b)' /\ admin'[b].id = id
    BY <1>1, <1>2 DEF PingInv
  <1>6. \A b, c \in Admins : Pinging(b)' /\ Pinging(c)' /\ admin'[b].id = admin'[c].id => b = c
    BY <1>1, <1>2 DEF PingInv
  <1>7. /\ \A r \in pongs' : Received(r.id)'
        /\ \A id \in signalled' \cup answered' : Received(id)'
    BY <1>1, <1>3 DEF PingInv
  <1> QED BY <1>4, <1>5, <1>6, <1>7 DEF PingInv

\* An administrator asks: the identifier is new.
LEMMA NewPing ==
    ASSUME BlockType, CommandType, PingInv, Moved, NEW a \in Admins, NEW cn \in CNs, Ping(a, cn)
    PROVE  PingInv'
  <1>1. PICK r : /\ r.pc = "ping" /\ r.id = sent + 1 /\ admin' = [admin EXCEPT ![a] = r]
    BY DEF Ping
  <1>2. /\ admin[a].pc = "idle" /\ sent' = sent + 1 /\ sent \in Nat
        /\ pending' = pending \cup {sent + 1} /\ UNCHANGED <<pongs, signalled, answered>>
    BY DEF Ping, Publish, CommandType
  <1>3. /\ Pinging(a)' /\ admin'[a].id = sent + 1 /\ ~ Pinging(a)
        /\ \A b \in Admins : b # a => admin'[b] = admin[b] /\ (Pinging(b)' <=> Pinging(b))
    BY <1>1, <1>2 DEF Pinging, BlockType
  <1>4. \A id : Received(id) => Received(id)'
    BY ReceivedGrows
  <1>5. \A b \in Admins : Pinging(b) => admin[b].id \in Nat /\ admin[b].id <= sent /\ admin[b].id \in pending
    BY AdminFacts DEF Pinging, PingInv
  <1>6. \A b \in Admins : Pinging(b)' => admin'[b].id \in pending' /\ admin'[b].id <= sent'
    BY <1>2, <1>3, <1>5
  <1>7. \A id \in pending' : \E b \in Admins : Pinging(b)' /\ admin'[b].id = id
    <2>1. ASSUME NEW id \in pending PROVE \E b \in Admins : Pinging(b)' /\ admin'[b].id = id
      <3>1. PICK b \in Admins : Pinging(b) /\ admin[b].id = id
        BY DEF PingInv
      <3> QED BY <1>3, <3>1
    <2> QED BY <1>2, <1>3, <2>1
  <1>8. \A b, c \in Admins : Pinging(b)' /\ Pinging(c)' /\ admin'[b].id = admin'[c].id => b = c
    <2>1. ASSUME NEW b \in Admins, NEW c \in Admins, Pinging(b)', Pinging(c)', admin'[b].id = admin'[c].id
          PROVE  b = c
      <3>1. CASE b # a /\ c # a
        BY <1>3, <2>1, <3>1 DEF PingInv
      <3>2. CASE b = a /\ c # a
        BY <1>2, <1>3, <1>5, <2>1, <3>2
      <3>3. CASE b # a /\ c = a
        BY <1>2, <1>3, <1>5, <2>1, <3>3
      <3> QED BY <3>1, <3>2, <3>3
    <2> QED BY <2>1
  <1>9. /\ \A q \in pongs' : Received(q.id)'
        /\ \A id \in signalled' \cup answered' : Received(id)'
    BY <1>2, <1>4 DEF PingInv
  <1> QED BY <1>6, <1>7, <1>8, <1>9 DEF PingInv

LEMMA PingStep ==
    ASSUME BlockType, CommandType, PingInv, [CNext]_allVars
    PROVE  PingInv'
  <1>0. Moved
    BY MessageCases
  <1>1. CASE AccessStep /\ UNCHANGED commandVars
    BY <1>0, <1>1, AccessKeepsPings, QuietPings DEF commandVars, pingVars
  <1>2. CASE Crash /\ CommandsGone
    <2>1. /\ pending' = {} /\ signalled' = {} /\ UNCHANGED <<pongs, answered, got>>
          /\ \A a \in Admins : admin'[a] = Idle
      BY <1>2 DEF Crash, CommandsGone
    <2>2. \A a \in Admins : ~ Pinging(a)'
      BY <2>1 DEF Pinging, Idle
    <2>3. \A id : Received(id)' <=> Received(id)
      BY <2>1 DEF Received
    <2> QED BY <2>1, <2>2, <2>3 DEF PingInv
  <1>3. CASE UNCHANGED <<admin, pingVars>>
    <2>1. PingsKept
      BY <1>3 DEF PingsKept, Pinging
    <2> QED BY <1>0, <1>3, <2>1, QuietPings DEF pingVars
  <1>4. ASSUME NEW h \in Handlers, Yield(h) PROVE PingInv'
    <2>1. PICK cn \in CNs : Yielded(h, cn)
      BY <1>4, YieldEffect
    <2>2. PICK n \in DOMAIN got'[cn] : got'[cn][n] = Head(Queue(h))
      <3>1. got[cn] \in Seq(Msg) /\ Queue(h) \in Seq(Msg) /\ Queue(h) # <<>>
        BY <2>1, HandlerFacts DEF CommandType, Yielded
      <3>2. Head(Queue(h)) \in Msg
        BY <3>1, TailFacts
      <3> QED BY <2>1, <3>1, <3>2, AppendFacts DEF Yielded
    <2>3. PICK id : id = Head(Queue(h)).id
      OBVIOUS
    <2>4. Received(id)' /\ \A r \in pongs' : r \in pongs \/ r.id = id
      <3>1. got'[cn][n].id = id
        BY <2>2, <2>3
      <3>2. Received(id)'
        BY <3>1 DEF Received
      <3>3. \A r \in pongs' : r \in pongs \/ r = [cn |-> cn, id |-> id]
        BY <2>1, <2>3 DEF Yielded
      <3> QED BY <3>2, <3>3
    <2>5. PingsKept
      BY <1>4 DEF Yield, PingsKept, Pinging, vars, blockVars
    <2> QED BY <1>0, <2>1, <2>3, <2>4, <2>5, QuietPings DEF Yielded
  <1>5. ASSUME NEW h \in Handlers, NEW cn \in CNs,
               StreamCommands(h, cn) \/ ReceivePolicy(h, cn)
        PROVE  PingInv'
    BY <1>3, <1>5 DEF StreamCommands, ReceivePolicy, Open, vars, blockVars
  <1>6. ASSUME NEW h \in Handlers, Fetch(h) \/ AgentLeaves(h) \/ EndHandler(h) PROVE PingInv'
    BY <1>3, <1>6 DEF Fetch, AgentLeaves, EndHandler, vars, blockVars
  <1>7. ASSUME NEW a \in Admins, PingOk(a) \/ PingTimesOut(a) PROVE PingInv'
    BY <1>0, <1>7, EndedPings
  <1>8. ASSUME NEW a \in Admins, NEW cn \in CNs, Ping(a, cn) PROVE PingInv'
    BY <1>0, <1>8, NewPing
  <1>9. ASSUME NEW r \in pongs, ReportActions(r) PROVE PingInv'
    <2>1. /\ pongs' = pongs \ {r} /\ signalled' \subseteq signalled \cup {r.id}
          /\ UNCHANGED <<pending, answered, admin, got, sent>>
      BY <1>9 DEF ReportActions, Signal, vars, blockVars, streamState
    <2>2. \A id : Received(id)' <=> Received(id)
      BY <2>1 DEF Received
    <2>3. \A id \in signalled' \cup answered' : Received(id)
      BY <2>1 DEF PingInv
    <2> QED BY <2>1, <2>2, <2>3 DEF PingInv, Pinging
  <1>10. ASSUME NEW f \in Factors, CheckAndThrottle(f) PROVE PingInv'
    BY <1>3, <1>10 DEF CheckAndThrottle, vars, blockVars
  <1>11. ASSUME NEW cn \in CNs, PublishThrottle(cn) \/ PublishThrottleFails(cn) PROVE PingInv'
    BY <1>3, <1>11 DEF PublishThrottle, PublishThrottleFails, vars, blockVars
  <1>12. ASSUME NEW cn \in CNs, NEW p \in Profiles, ApplyProfile(cn, p) PROVE PingInv'
    BY <1>3, <1>12 DEF ApplyProfile, PushToAgent, vars, blockVars
  <1>13. CASE UNCHANGED allVars
    BY <1>3, <1>13 DEF allVars, vars, blockVars, commandVars
  <1> QED BY <1>1, <1>2, <1>4, <1>5, <1>6, <1>7, <1>8, <1>9, <1>10, <1>11, <1>12, <1>13 DEF CNext

-----------------------------------------------------------------------------
(* The invariant, and what it says.                                        *)

LEMMA InitInv == CInit => IInv
  <1> SUFFICES ASSUME CInit PROVE IInv
    OBVIOUS
  <1>1. TokenType /\ BlockType /\ StreamType
    BY DEF CInit, Init, TokenType, BlockType, StreamType, EnrollState, AdminState
  <1>2. \A h \in Handlers : handler[h] = IdleHandler /\ Queue(h) = <<>>
    BY DEF CInit, Queue, IdleHandler
  <1>3. CommandType
    BY DEF CInit, CommandType, HandlerState, Factors
  <1>4. TokenInv
    BY DEF CInit, Init, TokenInv, Spent, SpentBy, Idle
  <1>5. BlockInv /\ GhostInv
    BY DEF CInit, Init, BlockInv, GhostInv
  <1>6. PingInv
    BY DEF CInit, Init, PingInv, Pinging, Idle
  <1>7. /\ \A k \in Kinds, cn \in CNs : DOMAIN topic[k][cn] = {}
        /\ \A cn \in CNs : DOMAIN got[cn] = {}
    BY DEF CInit
  <1>8. TopicInv /\ QueueInv /\ GotInv /\ DeliveredOnce
    BY <1>2, <1>7 DEF TopicInv, QueueInv, GotInv, DeliveredOnce
  <1> QED BY <1>1, <1>3, <1>4, <1>5, <1>6, <1>8 DEF IInv, TypeOK

LEMMA NextInv == IInv /\ [CNext]_allVars => IInv'
  <1> SUFFICES ASSUME IInv, [CNext]_allVars PROVE IInv'
    OBVIOUS
  <1>1. TokenType /\ BlockType /\ StreamType /\ CommandType /\ sent \in Nat
    BY DEF IInv, TypeOK, CommandType
  <1>2. TypeOK'
    BY <1>1, TokenTypeStep, BlockTypeStep, StreamTypeStep, CommandTypeStep DEF TypeOK
  <1>3. Moved
    BY <1>1, MessageCases
  <1>4. TokenInv' /\ BlockInv' /\ GhostInv' /\ PingInv'
    BY <1>1, TokenStep, BlockStep, GhostStep, PingStep DEF IInv
  <1>5. TopicInv' /\ QueueInv' /\ GotInv' /\ DeliveredOnce'
    BY <1>1, <1>3, TopicStep, QueueStep, GotStep, DeliveredStep DEF IInv
  <1> QED BY <1>2, <1>4, <1>5 DEF IInv

\* The invariant of everything that follows.
THEOREM Invariance == CSpec => []IInv
  BY InitInv, NextInv, PTL DEF CSpec

\* Every variable keeps its type: no request, stream, job, handler or message
\* of the model is ever one the code could not hold.
THEOREM TypeCorrect == CSpec => []TypeOK
  <1>1. IInv => TypeOK
    BY DEF IInv
  <1> QED BY <1>1, Invariance, PTL

\* An enrollment token buys at most one certificate, and none once its
\* revocation was acknowledged, whatever requests, listings and crashes
\* overlap (EnrollmentStore, SQLEnrollmentTokenRepository.verify_and_consume).
THEOREM TokensSpentOnce == CSpec => []TokenSpentOnce
  <1>1. IInv => TokenSpentOnce
    BY DEF IInv, TokenInv, TokenSpentOnce
  <1> QED BY <1>1, Invariance, PTL

\* Backpressure addresses only agents with a live stream, and an agent is
\* shown online only if it had a stream since the server started, for any
\* order in which the event loop runs the writes of the streams.
THEOREM NoGhosts == CSpec => []NoGhostAgents
  <1>1. IInv => NoGhostAgents
    BY DEF IInv, GhostInv, NoGhostAgents, Serving
  <1> QED BY <1>1, Invariance, PTL

\* An agent whose block was acknowledged opens no stream until somebody asks
\* to lift the block, across any number of restarts of the server: the row is
\* written before the answer and read before the first connection.
THEOREM BlockedOut == CSpec => BlockedStaysOut
  <1>1. ASSUME IInv, [CNext]_allVars,
               NEW s \in Streams, stream[s] = NoAgent, stream'[s] # NoAgent
        PROVE  stream'[s] \notin blocked
    <2>1. StreamType /\ BlockInv
      BY <1>1 DEF IInv, TypeOK
    <2>2. CASE \/ UNCHANGED <<phase, stream, activeCns, online, jobs, opens, seen>>
               \/ LoadBlocked \/ Startup \/ StartGrpc
      BY <1>1, <2>2 DEF LoadBlocked, Startup, StartGrpc, streamVars
    <2>3. CASE Crash
      BY <1>1, <2>3 DEF Crash
    <2>4. ASSUME NEW r \in Streams, CloseStream(r) PROVE stream'[s] = NoAgent
      BY <1>1, <2>1, <2>4 DEF CloseStream, StreamType
    <2>5. ASSUME NEW r \in Streams, NEW cn \in CNs, OpenStream(r, cn) PROVE stream'[s] \notin blocked
      <3>1. phase = "serving" /\ cn \notin blockedMem /\ stream' = [stream EXCEPT ![r] = cn]
        BY <2>5 DEF OpenStream, Serving, RequireCn
      <3>2. stream'[s] = cn
        BY <1>1, <2>1, <3>1 DEF StreamType
      <3> QED BY <2>1, <3>1, <3>2 DEF BlockInv
    <2>6. ASSUME NEW j \in jobs, RunJob(j) PROVE stream' = stream
      BY <2>6 DEF RunJob
    <2> QED BY <1>1, <2>2, <2>3, <2>4, <2>5, <2>6, StreamCases
  <1>2. IInv /\ [CNext]_allVars =>
          [\A s \in Streams : stream[s] = NoAgent /\ stream'[s] # NoAgent => stream'[s] \notin blocked]_vars
    BY <1>1
  <1> QED BY <1>2, Invariance, PTL DEF CSpec, BlockedStaysOut

\* A ping answered "ok" was received under its own identifier, and the
\* registry of the servicer holds exactly the pings somebody waits for, with
\* any number of administrators pinging, timing out and being answered late.
THEOREM PingsHonest == CSpec => []PingHonest
  <1>1. IInv => PingHonest
    BY DEF IInv, PingInv, PingHonest, Pinging, Received
  <1> QED BY <1>1, Invariance, PTL

\* No message reaches an agent twice, for any number of overlapping handlers
\* of the same agent, messages and restarts: each is in one place, its topic
\* past the group's cursor, one queue, or what one agent received.
THEOREM DeliveredAtMostOnce == CSpec => []DeliveredOnce
  <1>1. IInv => DeliveredOnce
    BY DEF IInv
  <1> QED BY <1>1, Invariance, PTL

-----------------------------------------------------------------------------
(***************************************************************************)
(* The agent's merger: every report is in one place, and what netlink      *)
(* alone knows is not lost, for any activity, keys and capacities.         *)
(***************************************************************************)

\* A report, whatever address the merger added to it.
ReportOf(e)  == <<e.of, e.via>>
Reports(S)   == {ReportOf(e) : e \in S}
AllReports   == Reports({o \in Observation : o.via \in SeenBy[o.of]})
NoTwoAlike(s) == \A i, j \in 1 .. Len(s) : ReportOf(s[i]) = ReportOf(s[j]) => i = j

PathHomes ==
    {"unseen", "in", "batcherCh", "held", "out", "delivered", "todo", "grouped", "absorbed", "dropped"}

\* Every report has one home.
OneHome(P) ==
    /\ P \in [PathHomes -> SUBSET AllReports]
    /\ \A x \in AllReports : \E h \in PathHomes : x \in P[h]
    /\ \A g, h \in PathHomes : g # h => P[g] \cap P[h] = {}

Rehomed(P, a, b, X) == [h \in PathHomes |-> IF h = a THEN P[h] \ X ELSE IF h = b THEN P[h] \cup X ELSE P[h]]

LEMMA RehomedOneHome ==
    ASSUME NEW P, OneHome(P), NEW a \in PathHomes, NEW b \in PathHomes, a # b, NEW X \in SUBSET P[a]
    PROVE  OneHome(Rehomed(P, a, b, X))
  <1> DEFINE Q == Rehomed(P, a, b, X)
  <1>1. \A h \in PathHomes : Q[h] = IF h = a THEN P[h] \ X ELSE IF h = b THEN P[h] \cup X ELSE P[h]
    BY DEF Rehomed
  <1>2. P \in [PathHomes -> SUBSET AllReports] /\ X \subseteq AllReports
    BY DEF OneHome
  <1>3. Q \in [PathHomes -> SUBSET AllReports]
    BY <1>2 DEF Rehomed
  <1>4. ASSUME NEW x \in AllReports
        PROVE  \E h \in PathHomes : x \in Q[h]
    <2>1. PICK h \in PathHomes : x \in P[h]
      BY DEF OneHome
    <2>2. CASE h = a /\ x \in X
      BY <1>1, <2>2
    <2>3. CASE ~ (h = a /\ x \in X)
      BY <1>1, <2>1, <2>3
    <2> QED BY <2>2, <2>3
  <1>5. ASSUME NEW g \in PathHomes, NEW h \in PathHomes, g # h, NEW x, x \in Q[g], x \in Q[h]
        PROVE  FALSE
    <2>1. \A c, e \in PathHomes : x \in P[c] /\ x \in P[e] => c = e
      BY DEF OneHome
    <2>2. CASE x \in X
      <3>1. x \in P[a]
        BY <2>2
      <3> QED BY <1>1, <1>5, <2>1, <2>2, <3>1
    <2>3. CASE x \notin X
      BY <1>1, <1>5, <2>1, <2>3
    <2> QED BY <2>2, <2>3
  <1> QED BY <1>3, <1>4, <1>5 DEF OneHome

-----------------------------------------------------------------------------
(* Sequences and groups of events.                                         *)

LEMMA RangeOf ==
    ASSUME NEW S, NEW s \in Seq(S)
    PROVE  Range(s) = {s[i] : i \in 1 .. Len(s)} /\ Range(s) \subseteq S
  BY DEF Range

LEMMA ReportSent ==
    ASSUME NEW S, NEW s \in Seq(S), NEW e \in S
    PROVE  /\ Append(s, e) \in Seq(S) /\ Range(Append(s, e)) = Range(s) \cup {e}
           /\ Reports(Range(Append(s, e))) = Reports(Range(s)) \cup {ReportOf(e)}
           /\ NoTwoAlike(s) /\ ReportOf(e) \notin Reports(Range(s)) => NoTwoAlike(Append(s, e))
  <1> DEFINE t == Append(s, e)
  <1>1. /\ t \in Seq(S) /\ Len(t) = Len(s) + 1 /\ Len(s) \in Nat /\ t[Len(s) + 1] = e
        /\ \A i \in 1 .. Len(s) : t[i] = s[i]
    OBVIOUS
  <1> HIDE DEF t
  <1>2. \A i : i \in 1 .. Len(t) <=> i \in 1 .. Len(s) \/ i = Len(s) + 1
    BY <1>1
  <1>3. Range(t) = {t[i] : i \in 1 .. Len(t)} /\ Range(s) = {s[i] : i \in 1 .. Len(s)}
    BY <1>1, RangeOf
  <1>4. Range(t) = Range(s) \cup {e}
    BY <1>1, <1>2, <1>3
  <1>5. Reports(Range(t)) = Reports(Range(s)) \cup {ReportOf(e)}
    BY <1>4 DEF Reports
  <1>6. ASSUME NoTwoAlike(s), ReportOf(e) \notin Reports(Range(s))
        PROVE  NoTwoAlike(t)
    <2>1. \A i \in 1 .. Len(s) : ReportOf(s[i]) # ReportOf(e)
      BY <1>3, <1>6 DEF Reports
    <2> QED BY <1>1, <1>2, <1>6, <2>1 DEF NoTwoAlike
  <1> QED BY <1>1, <1>4, <1>5, <1>6 DEF t

LEMMA ReportTaken ==
    ASSUME NEW S, NEW s \in Seq(S), s # << >>, NoTwoAlike(s)
    PROVE  /\ Head(s) \in S /\ Tail(s) \in Seq(S) /\ NoTwoAlike(Tail(s))
           /\ Range(s) = Range(Tail(s)) \cup {Head(s)}
           /\ ReportOf(Head(s)) \in Reports(Range(s))
           /\ Reports(Range(Tail(s))) = Reports(Range(s)) \ {ReportOf(Head(s))}
  <1> DEFINE t == Tail(s)
  <1>1. /\ Head(s) = s[1] /\ Head(s) \in S /\ t \in Seq(S) /\ Len(s) \in Nat /\ Len(s) >= 1
        /\ Len(t) = Len(s) - 1 /\ \A i \in 1 .. Len(t) : t[i] = s[i + 1]
    BY HeadTailProperties
  <1> HIDE DEF t
  <1>2. Range(t) = {t[i] : i \in 1 .. Len(t)} /\ Range(s) = {s[i] : i \in 1 .. Len(s)}
    BY <1>1, RangeOf
  <1>3. \A i \in 1 .. Len(t) : i + 1 \in 1 .. Len(s) /\ i + 1 # 1 /\ t[i] = s[i + 1]
    BY <1>1
  <1>4. \A i \in 1 .. Len(s) : i = 1 \/ (i - 1 \in 1 .. Len(t) /\ t[i - 1] = s[i])
    BY <1>1
  <1>5. Range(s) = Range(t) \cup {Head(s)} /\ ReportOf(Head(s)) \in Reports(Range(s))
    <2>1. Range(s) \subseteq Range(t) \cup {Head(s)}
      BY <1>1, <1>2, <1>4
    <2>2. Range(t) \subseteq Range(s) /\ Head(s) \in Range(s)
      BY <1>1, <1>2, <1>3
    <2> QED BY <2>1, <2>2 DEF Reports
  <1>6. \A i \in 1 .. Len(t) : ReportOf(t[i]) # ReportOf(Head(s))
    <2>1. 1 \in 1 .. Len(s)
      BY <1>1
    <2> QED BY <1>1, <1>3, <2>1 DEF NoTwoAlike
  <1>7. Reports(Range(t)) = Reports(Range(s)) \ {ReportOf(Head(s))}
    BY <1>2, <1>5, <1>6 DEF Reports
  <1>8. NoTwoAlike(t)
    BY <1>1, <1>3 DEF NoTwoAlike
  <1> QED BY <1>1, <1>5, <1>7, <1>8 DEF t

Keyed(g) ==
    /\ g \in [Key -> Event \cup {NoEvent}]
    /\ \A k \in Key : g[k] # NoEvent => KeyOf[g[k].of] = k /\ g[k].via # "other"

GroupedIn(g) == {g[k] : k \in Key} \ {NoEvent}
Swap(S, X, e) == (S \ X) \cup {e}
OldOf(g, k)  == IF g[k] = NoEvent THEN {} ELSE {g[k]}

LEMMA NoEventIsNone == NoEvent \notin Event
  BY MergerAssumption DEF NoEvent, Event

LEMMA GroupReplaced ==
    ASSUME NEW g, Keyed(g), NEW k \in Key, NEW e \in Event, KeyOf[e.of] = k, e.via # "other",
           NEW f, f = [g EXCEPT ![k] = e]
    PROVE  /\ Keyed(f)
           /\ GroupedIn(f) = Swap(GroupedIn(g), OldOf(g, k), e)
           /\ Reports(GroupedIn(f)) = Swap(Reports(GroupedIn(g)), Reports(OldOf(g, k)), ReportOf(e))
  <1>1. g \in [Key -> Event \cup {NoEvent}] /\ f[k] = e /\ \A j \in Key : j # k => f[j] = g[j]
    BY DEF Keyed
  <1>2. f \in [Key -> Event \cup {NoEvent}]
    BY <1>1
  <1>3. Keyed(f)
    BY <1>1, <1>2 DEF Keyed
  <1>4. e # NoEvent
    BY NoEventIsNone
  <1>5. \A j \in Key : g[j] # NoEvent /\ j # k => KeyOf[g[j].of] = j
    BY DEF Keyed
  <1>6. \A j \in Key : g[j] # NoEvent /\ g[k] # NoEvent /\ j # k => ReportOf(g[j]) # ReportOf(g[k])
    BY <1>5 DEF ReportOf, Keyed
  <1>7. GroupedIn(f) = (GroupedIn(g) \ OldOf(g, k)) \cup {e}
    BY <1>1, <1>4, <1>6 DEF GroupedIn, OldOf
  <1>8. Reports(GroupedIn(g) \ OldOf(g, k)) = Reports(GroupedIn(g)) \ Reports(OldOf(g, k))
    BY <1>6 DEF GroupedIn, OldOf, Reports
  <1>9. Reports(GroupedIn(f)) = (Reports(GroupedIn(g)) \ Reports(OldOf(g, k))) \cup {ReportOf(e)}
    BY <1>7, <1>8 DEF Reports
  <1> QED BY <1>3, <1>7, <1>9 DEF Swap

LEMMA GroupTakes ==
    ASSUME Keyed(groups), NEW k \in Key, NEW e \in Event, KeyOf[e.of] = k, e.via # "other",
           groups' = [groups EXCEPT ![k] = e]
    PROVE  /\ Keyed(groups') /\ GroupedIn(groups') = Swap(GroupedIn(groups), OldOf(groups, k), e)
           /\ Reports(GroupedIn(groups'))
                 = Swap(Reports(GroupedIn(groups)), Reports(OldOf(groups, k)), ReportOf(e))
  BY GroupReplaced

LEMMA GroupsLeave ==
    ASSUME NEW g, Keyed(g), NEW S \in SUBSET Key, \A k \in S : g[k] # NoEvent
    PROVE  LET f == [k \in Key |-> IF k \in S THEN NoEvent ELSE g[k]]
               L == {g[k] : k \in S}
           IN  /\ Keyed(f) /\ L \subseteq Event /\ L \subseteq GroupedIn(g)
               /\ GroupedIn(g) = GroupedIn(f) \cup L
               /\ Reports(GroupedIn(f)) = Reports(GroupedIn(g)) \ Reports(L)
               /\ \A d, e \in L : ReportOf(d) = ReportOf(e) => d = e
  <1> DEFINE f == [k \in Key |-> IF k \in S THEN NoEvent ELSE g[k]]
             L == {g[k] : k \in S}
  <1>1. /\ g \in [Key -> Event \cup {NoEvent}]
        /\ \A k \in Key : f[k] = IF k \in S THEN NoEvent ELSE g[k]
    BY DEF Keyed
  <1>2. f \in [Key -> Event \cup {NoEvent}]
    BY <1>1
  <1> HIDE DEF f
  <1>3. Keyed(f)
    BY <1>1, <1>2 DEF Keyed
  <1>4. \A j, k \in Key : g[j] # NoEvent /\ g[k] # NoEvent /\ j # k => ReportOf(g[j]) # ReportOf(g[k])
    BY DEF Keyed, ReportOf
  <1>5. L \subseteq Event /\ L \subseteq GroupedIn(g) /\ GroupedIn(g) = GroupedIn(f) \cup L
    BY <1>1 DEF GroupedIn
  <1>6. Reports(GroupedIn(f)) = Reports(GroupedIn(g)) \ Reports(L)
    BY <1>1, <1>4, <1>5 DEF GroupedIn, Reports
  <1>7. \A d, e \in L : ReportOf(d) = ReportOf(e) => d = e
    BY <1>4
  <1> QED BY <1>3, <1>5, <1>6, <1>7 DEF f

-----------------------------------------------------------------------------
(* The homes of the reports, as sets.                                      *)

HomeSets(u, i, b, h, o, d, t, g, a, x) ==
    [home \in PathHomes |->
        CASE home = "unseen"    -> u
          [] home = "in"        -> i
          [] home = "batcherCh" -> b
          [] home = "held"      -> h
          [] home = "out"       -> o
          [] home = "delivered" -> d
          [] home = "todo"      -> t
          [] home = "grouped"   -> g
          [] home = "absorbed"  -> a
          [] home = "dropped"   -> x]

LEMMA HomeSetsAt ==
    ASSUME NEW u, NEW i, NEW b, NEW h, NEW o, NEW d, NEW t, NEW g, NEW a, NEW x
    PROVE  LET P == HomeSets(u, i, b, h, o, d, t, g, a, x)
           IN  /\ P["unseen"] = u /\ P["in"] = i /\ P["batcherCh"] = b /\ P["held"] = h /\ P["out"] = o
               /\ P["delivered"] = d /\ P["todo"] = t /\ P["grouped"] = g /\ P["absorbed"] = a
               /\ P["dropped"] = x
  BY DEF HomeSets, PathHomes

\* The ways a report takes.
LEMMA HomeMoves ==
    ASSUME NEW u, NEW i, NEW b, NEW h, NEW o, NEW d, NEW t, NEW g, NEW a, NEW x, NEW X,
           OneHome(HomeSets(u, i, b, h, o, d, t, g, a, x))
    PROVE  /\ X \subseteq u => OneHome(HomeSets(u \ X, i \cup X, b, h, o, d, t, g, a, x))
           /\ X \subseteq i => OneHome(HomeSets(u, i \ X, b, h, o, d, t \cup X, g, a, x))
           /\ X \subseteq i => OneHome(HomeSets(u, i \ X, b, h, o, d, t, g \cup X, a, x))
           /\ X \subseteq i => OneHome(HomeSets(u, i \ X, b, h, o, d, t, g, a \cup X, x))
           /\ X \subseteq g => OneHome(HomeSets(u, i, b, h, o, d, t, g \ X, a \cup X, x))
           /\ X \subseteq g => OneHome(HomeSets(u, i, b, h, o \cup X, d, t, g \ X, a, x))
           /\ X \subseteq g => OneHome(HomeSets(u, i, b, h, o, d, t, g \ X, a, x \cup X))
           /\ X \subseteq g => OneHome(HomeSets(u, i, b, h, o, d, t \cup X, g \ X, a, x))
           /\ X \subseteq t => OneHome(HomeSets(u, i, b, h, o \cup X, d, t \ X, g, a, x))
           /\ X \subseteq o => OneHome(HomeSets(u, i, b, h \cup X, o \ X, d, t, g, a, x))
           /\ X \subseteq h => OneHome(HomeSets(u, i, b \cup X, h \ X, o, d, t, g, a, x))
           /\ X \subseteq h => OneHome(HomeSets(u, i, b, h \ X, o, d, t, g, a, x \cup X))
           /\ X \subseteq b => OneHome(HomeSets(u, i, b \ X, h, o, d \cup X, t, g, a, x))
  <1> DEFINE P == HomeSets(u, i, b, h, o, d, t, g, a, x)
  <1>1. /\ P["unseen"] = u /\ P["in"] = i /\ P["batcherCh"] = b /\ P["held"] = h /\ P["out"] = o
        /\ P["delivered"] = d /\ P["todo"] = t /\ P["grouped"] = g /\ P["absorbed"] = a
        /\ P["dropped"] = x
    BY HomeSetsAt
  <1>2. /\ Rehomed(P, "unseen", "in", X) = HomeSets(u \ X, i \cup X, b, h, o, d, t, g, a, x)
        /\ Rehomed(P, "in", "todo", X) = HomeSets(u, i \ X, b, h, o, d, t \cup X, g, a, x)
        /\ Rehomed(P, "in", "grouped", X) = HomeSets(u, i \ X, b, h, o, d, t, g \cup X, a, x)
        /\ Rehomed(P, "in", "absorbed", X) = HomeSets(u, i \ X, b, h, o, d, t, g, a \cup X, x)
    BY <1>1 DEF Rehomed, HomeSets, PathHomes
  <1>3. /\ Rehomed(P, "grouped", "absorbed", X) = HomeSets(u, i, b, h, o, d, t, g \ X, a \cup X, x)
        /\ Rehomed(P, "grouped", "out", X) = HomeSets(u, i, b, h, o \cup X, d, t, g \ X, a, x)
        /\ Rehomed(P, "grouped", "dropped", X) = HomeSets(u, i, b, h, o, d, t, g \ X, a, x \cup X)
        /\ Rehomed(P, "grouped", "todo", X) = HomeSets(u, i, b, h, o, d, t \cup X, g \ X, a, x)
    BY <1>1 DEF Rehomed, HomeSets, PathHomes
  <1>4. /\ Rehomed(P, "todo", "out", X) = HomeSets(u, i, b, h, o \cup X, d, t \ X, g, a, x)
        /\ Rehomed(P, "out", "held", X) = HomeSets(u, i, b, h \cup X, o \ X, d, t, g, a, x)
        /\ Rehomed(P, "held", "batcherCh", X) = HomeSets(u, i, b \cup X, h \ X, o, d, t, g, a, x)
        /\ Rehomed(P, "held", "dropped", X) = HomeSets(u, i, b, h \ X, o, d, t, g, a, x \cup X)
        /\ Rehomed(P, "batcherCh", "delivered", X) = HomeSets(u, i, b \ X, h, o, d \cup X, t, g, a, x)
    BY <1>1 DEF Rehomed, HomeSets, PathHomes
  <1>5. \A c, e \in PathHomes : c # e /\ X \in SUBSET P[c] => OneHome(Rehomed(P, c, e, X))
    BY RehomedOneHome
  <1>6. {"unseen", "in", "batcherCh", "held", "out", "delivered", "todo", "grouped", "absorbed",
         "dropped"} \subseteq PathHomes
    BY DEF PathHomes
  <1> HIDE DEF P
  <1>7. /\ X \subseteq u => OneHome(Rehomed(P, "unseen", "in", X))
        /\ X \subseteq i => OneHome(Rehomed(P, "in", "todo", X))
        /\ X \subseteq i => OneHome(Rehomed(P, "in", "grouped", X))
        /\ X \subseteq i => OneHome(Rehomed(P, "in", "absorbed", X))
    BY <1>1, <1>5, <1>6
  <1>8. /\ X \subseteq g => OneHome(Rehomed(P, "grouped", "absorbed", X))
        /\ X \subseteq g => OneHome(Rehomed(P, "grouped", "out", X))
        /\ X \subseteq g => OneHome(Rehomed(P, "grouped", "dropped", X))
        /\ X \subseteq g => OneHome(Rehomed(P, "grouped", "todo", X))
    BY <1>1, <1>5, <1>6
  <1>9. /\ X \subseteq t => OneHome(Rehomed(P, "todo", "out", X))
        /\ X \subseteq o => OneHome(Rehomed(P, "out", "held", X))
        /\ X \subseteq h => OneHome(Rehomed(P, "held", "batcherCh", X))
        /\ X \subseteq h => OneHome(Rehomed(P, "held", "dropped", X))
        /\ X \subseteq b => OneHome(Rehomed(P, "batcherCh", "delivered", X))
    BY <1>1, <1>5, <1>6
  <1> QED BY <1>2, <1>3, <1>4, <1>7, <1>8, <1>9

LEMMA NotElsewhere ==
    ASSUME NEW u, NEW i, NEW b, NEW h, NEW o, NEW d, NEW t, NEW g, NEW a, NEW x, NEW y,
           OneHome(HomeSets(u, i, b, h, o, d, t, g, a, x))
    PROVE  /\ y \in u => y \notin i
           /\ y \in t \/ y \in g => y \notin o
           /\ y \in h => y \notin b
           /\ y \in b => y \notin d
  <1> DEFINE P == HomeSets(u, i, b, h, o, d, t, g, a, x)
  <1>1. /\ P["unseen"] = u /\ P["in"] = i /\ P["batcherCh"] = b /\ P["held"] = h /\ P["out"] = o
        /\ P["delivered"] = d /\ P["todo"] = t /\ P["grouped"] = g
    BY HomeSetsAt
  <1>2. \A c, e \in PathHomes : c # e => P[c] \cap P[e] = {}
    BY DEF OneHome
  <1> HIDE DEF P
  <1> QED BY <1>1, <1>2 DEF PathHomes

-----------------------------------------------------------------------------
(* Addresses.                                                              *)

Addressed(e)   == e.src # None \/ e.via = "netlink"
AddressKept(W, A) ==
    /\ \A e \in W : e.src # None => KeyOf[e.src] = KeyOf[e.of]
    /\ \A o \in A : o.via = "netlink" => \E e \in W : KeyOf[e.of] = KeyOf[o.of] /\ Addressed(e)

\* An event takes the place of another of its key.
Passes(W, A, V, B, old, new, gone) ==
    /\ W \ {old} \subseteq V /\ V \subseteq W \cup {new} /\ new \in V
    /\ new.src # None => KeyOf[new.src] = KeyOf[new.of]
    /\ KeyOf[old.of] = KeyOf[new.of] /\ (Addressed(old) => Addressed(new))
    /\ B \subseteq A \cup {gone}
    /\ gone.via = "netlink" => KeyOf[new.of] = KeyOf[gone.of] /\ Addressed(new)

LEMMA AddressPasses ==
    ASSUME NEW W, NEW A, NEW V, NEW B, NEW old, NEW new, NEW gone,
           AddressKept(W, A), Passes(W, A, V, B, old, new, gone)
    PROVE  AddressKept(V, B)
  <1>1. \A e \in V : e.src # None => KeyOf[e.src] = KeyOf[e.of]
    BY DEF AddressKept, Passes
  <1>2. ASSUME NEW o \in B, o.via = "netlink"
        PROVE  \E e \in V : KeyOf[e.of] = KeyOf[o.of] /\ Addressed(e)
    <2>1. CASE o = gone
      BY <1>2, <2>1 DEF Passes
    <2>2. CASE o \in A
      <3>1. PICK e \in W : KeyOf[e.of] = KeyOf[o.of] /\ Addressed(e)
        BY <1>2, <2>2 DEF AddressKept
      <3>2. CASE e = old
        BY <3>1, <3>2 DEF Passes
      <3>3. CASE e # old
        BY <3>1, <3>3 DEF Passes
      <3> QED BY <3>2, <3>3
    <2> QED BY <2>1, <2>2 DEF Passes
  <1> QED BY <1>1, <1>2 DEF AddressKept

-----------------------------------------------------------------------------
(* The invariant.                                                          *)

HeldSet == IF fanout = "send" THEN {held} ELSE {}
PathPlaces ==
    HomeSets(Reports(unseen), Reports(Range(in)), Reports(Range(batcherCh)), Reports(HeldSet),
             Reports(Range(out)), Reports(delivered), Reports(todo), Reports(GroupedIn(groups)),
             Reports(absorbed), Reports(dropped))
Carried ==
    delivered \cup Range(batcherCh) \cup HeldSet \cup Range(out) \cup todo \cup GroupedIn(groups) \cup dropped

PathType ==
    /\ unseen \subseteq Observation /\ in \in Seq(Observation) /\ NoTwoAlike(in)
    /\ out \in Seq(Event) /\ NoTwoAlike(out)
    /\ batcherCh \in Seq(Event) /\ NoTwoAlike(batcherCh)
    /\ HeldSet \subseteq Event /\ Keyed(groups)
    /\ todo \subseteq Event /\ \A d, e \in todo : ReportOf(d) = ReportOf(e) => d = e
    /\ merger # "emit" => todo = {}
    /\ delivered \subseteq Event /\ absorbed \subseteq Event /\ dropped \subseteq Event

PathInv ==
    PathType /\ OneHome(PathPlaces) /\ twice = {} /\ AddressKept(Carried, absorbed)

LEMMA Apart ==
    ASSUME OneHome(PathPlaces), NEW y
    PROVE  /\ y \in Reports(unseen) => y \notin Reports(Range(in))
           /\ y \in Reports(todo) \/ y \in Reports(GroupedIn(groups)) => y \notin Reports(Range(out))
           /\ y \in Reports(HeldSet) => y \notin Reports(Range(batcherCh))
           /\ y \in Reports(Range(batcherCh)) => y \notin Reports(delivered)
  BY NotElsewhere DEF PathPlaces

LEMMA ObservationFacts ==
    /\ Observation \subseteq Event
    /\ \A o, p \in Observation : ReportOf(o) = ReportOf(p) => o = p
    /\ \A o \in Observation : o.src = None /\ o.of \in Activity /\ o.via \in Source
  BY DEF Observation, Event, ReportOf

LEMMA PathInit == MInit => PathInv
  <1> SUFFICES ASSUME MInit
               PROVE  PathInv
    OBVIOUS
  <1>1. /\ Range(in) = {} /\ Range(out) = {} /\ Range(batcherCh) = {} /\ HeldSet = {}
        /\ GroupedIn(groups) = {} /\ todo = {} /\ delivered = {} /\ absorbed = {} /\ dropped = {}
    BY DEF MInit, Range, HeldSet, GroupedIn
  <1>2. PathType
    BY <1>1 DEF MInit, PathType, NoTwoAlike, Keyed
  <1>3. Reports(unseen) = AllReports /\ Reports({}) = {}
    BY DEF MInit, AllReports, Reports
  <1>4. OneHome(HomeSets(AllReports, {}, {}, {}, {}, {}, {}, {}, {}, {}))
    <2> DEFINE P == HomeSets(AllReports, {}, {}, {}, {}, {}, {}, {}, {}, {})
    <2>1. \A h \in PathHomes : P[h] = IF h = "unseen" THEN AllReports ELSE {}
      BY DEF HomeSets, PathHomes
    <2>2. P \in [PathHomes -> SUBSET AllReports]
      BY DEF HomeSets, PathHomes
    <2>3. "unseen" \in PathHomes
      BY DEF PathHomes
    <2> HIDE DEF P
    <2>4. \A x \in AllReports : \E h \in PathHomes : x \in P[h]
      BY <2>1, <2>3
    <2>5. \A g, h \in PathHomes : g # h => P[g] \cap P[h] = {}
      BY <2>1
    <2> QED BY <2>2, <2>4, <2>5 DEF OneHome, P
  <1>5. OneHome(PathPlaces)
    BY <1>1, <1>3, <1>4 DEF PathPlaces
  <1>6. AddressKept(Carried, absorbed)
    BY <1>1 DEF AddressKept, Carried
  <1> QED BY <1>2, <1>5, <1>6 DEF PathInv, MInit

LEMMA CollectKeeps ==
    ASSUME PathInv, NEW o \in unseen, Collect(o)
    PROVE  PathInv'
  <1> DEFINE r == ReportOf(o)
  <1>1. PathType /\ OneHome(PathPlaces) /\ twice = {} /\ AddressKept(Carried, absorbed)
    BY DEF PathInv
  <1>2. /\ unseen' = unseen \ {o} /\ in' = Append(in, o)
        /\ UNCHANGED <<groups, merger, todo, out, fanout, held, batcherCh, delivered, twice, absorbed, dropped>>
    BY DEF Collect, mvars, dvars, hvars
  <1>3. HeldSet' = HeldSet /\ o \in Observation /\ unseen \subseteq Observation /\ in \in Seq(Observation)
    BY <1>1, <1>2 DEF HeldSet, PathType
  <1>4. r \in Reports(unseen) /\ Reports(unseen') = Reports(unseen) \ {r}
    BY <1>2, <1>3, ObservationFacts DEF Reports
  <1>5. r \notin Reports(Range(in))
    BY <1>1, <1>4, Apart
  <1>6. /\ in' \in Seq(Observation) /\ NoTwoAlike(in')
        /\ Reports(Range(in')) = Reports(Range(in)) \cup {r}
    BY <1>1, <1>2, <1>3, <1>5, ReportSent DEF PathType
  <1>7. PathType'
    BY <1>1, <1>2, <1>3, <1>6 DEF PathType
  <1>8. OneHome(PathPlaces')
    <2>1. {r} \subseteq Reports(unseen)
      BY <1>4
    <2> HIDE DEF r
    <2>2. OneHome(HomeSets(Reports(unseen) \ {r}, Reports(Range(in)) \cup {r}, Reports(Range(batcherCh)),
                           Reports(HeldSet), Reports(Range(out)), Reports(delivered), Reports(todo),
                           Reports(GroupedIn(groups)), Reports(absorbed), Reports(dropped)))
      BY <1>1, <2>1, HomeMoves DEF PathPlaces
    <2> QED BY <1>2, <1>3, <1>4, <1>6, <2>2 DEF PathPlaces
  <1>9. Carried' = Carried
    BY <1>2, <1>3 DEF Carried
  <1> QED BY <1>1, <1>2, <1>7, <1>8, <1>9 DEF PathInv

\* An event is sent on the merger's channel, or dropped.
LEMMA EmitKeeps ==
    ASSUME PathInv, emit
    PROVE  PathInv'
  <1>1. PathType /\ OneHome(PathPlaces) /\ twice = {} /\ AddressKept(Carried, absorbed)
    BY DEF PathInv
  <1>2. PICK e \in todo :
          /\ out' = Append(out, e) /\ todo' = todo \ {e}
          /\ merger' = IF todo = {e} THEN "select" ELSE "emit"
    BY DEF emit
  <1>3. UNCHANGED <<unseen, in, groups, fanout, held, batcherCh, delivered, twice, absorbed, dropped>>
    BY DEF emit, dvars, hvars
  <1> DEFINE r == ReportOf(e)
  <1>4. /\ HeldSet' = HeldSet /\ e \in Event /\ out \in Seq(Event) /\ NoTwoAlike(out)
        /\ \A d, f \in todo : ReportOf(d) = ReportOf(f) => d = f
    BY <1>1, <1>3 DEF HeldSet, PathType
  <1>5. r \in Reports(todo) /\ Reports(todo') = Reports(todo) \ {r}
    BY <1>2, <1>4 DEF Reports
  <1>6. r \notin Reports(Range(out))
    BY <1>1, <1>5, Apart
  <1>7. /\ out' \in Seq(Event) /\ NoTwoAlike(out') /\ Range(out') = Range(out) \cup {e}
        /\ Reports(Range(out')) = Reports(Range(out)) \cup {r}
    BY <1>2, <1>4, <1>6, ReportSent
  <1>8. PathType'
    <2>1. merger' # "emit" => todo' = {}
      BY <1>2
    <2> QED BY <1>1, <1>2, <1>3, <1>4, <1>7, <2>1 DEF PathType
  <1>9. OneHome(PathPlaces')
    <2>1. {r} \subseteq Reports(todo)
      BY <1>5
    <2> HIDE DEF r
    <2>2. OneHome(HomeSets(Reports(unseen), Reports(Range(in)), Reports(Range(batcherCh)),
                           Reports(HeldSet), Reports(Range(out)) \cup {r}, Reports(delivered),
                           Reports(todo) \ {r}, Reports(GroupedIn(groups)), Reports(absorbed),
                           Reports(dropped)))
      BY <1>1, <2>1, HomeMoves DEF PathPlaces
    <2> QED BY <1>3, <1>4, <1>5, <1>7, <2>2 DEF PathPlaces
  <1>10. Carried' = Carried
    BY <1>2, <1>3, <1>4, <1>7 DEF Carried
  <1> QED BY <1>1, <1>3, <1>8, <1>9, <1>10 DEF PathInv

LEMMA ExpireKeeps ==
    ASSUME PathInv, NEW S \in SUBSET Key, flushExpired(S)
    PROVE  PathInv'
  <1>1. PathType /\ OneHome(PathPlaces) /\ twice = {} /\ AddressKept(Carried, absorbed)
    BY DEF PathInv
  <1> DEFINE L == {groups[k] : k \in S}
  <1>2. /\ merger = "select" /\ \A k \in S : groups[k] # NoEvent
        /\ todo' = L /\ merger' = "emit"
        /\ groups' = [k \in Key |-> IF k \in S THEN NoEvent ELSE groups[k]]
        /\ UNCHANGED <<unseen, in, out, fanout, held, batcherCh, delivered, twice, absorbed, dropped>>
    BY DEF flushExpired, Expired, dvars, hvars
  <1>3. HeldSet' = HeldSet /\ Keyed(groups) /\ todo = {}
    BY <1>1, <1>2 DEF HeldSet, PathType
  <1> HIDE DEF L
  <1>4. /\ Keyed(groups') /\ L \subseteq Event /\ L \subseteq GroupedIn(groups)
        /\ GroupedIn(groups) = GroupedIn(groups') \cup L
        /\ Reports(GroupedIn(groups')) = Reports(GroupedIn(groups)) \ Reports(L)
        /\ \A d, e \in L : ReportOf(d) = ReportOf(e) => d = e
    <2> DEFINE f == [k \in Key |-> IF k \in S THEN NoEvent ELSE groups[k]]
    <2>1. /\ Keyed(f) /\ L \subseteq Event /\ L \subseteq GroupedIn(groups)
          /\ GroupedIn(groups) = GroupedIn(f) \cup L
          /\ Reports(GroupedIn(f)) = Reports(GroupedIn(groups)) \ Reports(L)
          /\ \A d, e \in L : ReportOf(d) = ReportOf(e) => d = e
      BY <1>2, <1>3, GroupsLeave DEF L
    <2>2. groups' = f
      BY <1>2
    <2> HIDE DEF f
    <2> QED BY <2>1, <2>2
  <1>5. PathType'
    BY <1>1, <1>2, <1>3, <1>4 DEF PathType
  <1>6. OneHome(PathPlaces')
    <2>1. Reports(L) \subseteq Reports(GroupedIn(groups)) /\ Reports(todo') = Reports(todo) \cup Reports(L)
      BY <1>2, <1>3, <1>4 DEF Reports
    <2>2. OneHome(HomeSets(Reports(unseen), Reports(Range(in)), Reports(Range(batcherCh)),
                           Reports(HeldSet), Reports(Range(out)), Reports(delivered),
                           Reports(todo) \cup Reports(L), Reports(GroupedIn(groups)) \ Reports(L),
                           Reports(absorbed), Reports(dropped)))
      BY <1>1, <2>1, HomeMoves DEF PathPlaces
    <2> QED BY <1>2, <1>3, <1>4, <2>1, <2>2 DEF PathPlaces
  <1>7. Carried' = Carried
    BY <1>2, <1>3, <1>4 DEF Carried
  <1> QED BY <1>1, <1>2, <1>5, <1>6, <1>7 DEF PathInv

LEMMA FanoutRangeKeeps ==
    ASSUME PathInv, FanoutRange
    PROVE  PathInv'
  <1>1. PathType /\ OneHome(PathPlaces) /\ twice = {} /\ AddressKept(Carried, absorbed)
    BY DEF PathInv
  <1>2. /\ fanout = "range"
        /\ UNCHANGED <<unseen, in, groups, merger, todo, batcherCh, delivered, twice, absorbed, dropped>>
    BY DEF FanoutRange, mvars, dvars, hvars
  <1>3. HeldSet = {} /\ Reports({}) = {}
    BY <1>2 DEF HeldSet, Reports
  <1>4. CASE out # << >> /\ held' = Head(out) /\ out' = Tail(out) /\ fanout' = "send"
    <2> DEFINE e == Head(out)
               r == ReportOf(e)
    <2>1. out \in Seq(Event) /\ NoTwoAlike(out)
      BY <1>1 DEF PathType
    <2>2. /\ e \in Event /\ out' \in Seq(Event) /\ NoTwoAlike(out')
          /\ Range(out) = Range(out') \cup {e} /\ r \in Reports(Range(out))
          /\ Reports(Range(out')) = Reports(Range(out)) \ {r}
      BY <1>4, <2>1, ReportTaken
    <2> HIDE DEF e
    <2>3. HeldSet' = {e} /\ Reports(HeldSet') = Reports(HeldSet) \cup {r}
      BY <1>3, <1>4 DEF HeldSet, Reports, e
    <2>4. PathType'
      BY <1>1, <1>2, <2>2, <2>3 DEF PathType
    <2>5. OneHome(PathPlaces')
      <3>1. {r} \subseteq Reports(Range(out))
        BY <2>2
      <3> HIDE DEF r
      <3>2. OneHome(HomeSets(Reports(unseen), Reports(Range(in)), Reports(Range(batcherCh)),
                             Reports(HeldSet) \cup {r}, Reports(Range(out)) \ {r}, Reports(delivered),
                             Reports(todo), Reports(GroupedIn(groups)), Reports(absorbed),
                             Reports(dropped)))
        BY <1>1, <3>1, HomeMoves DEF PathPlaces
      <3> QED BY <1>2, <2>2, <2>3, <3>2 DEF PathPlaces
    <2>6. Carried' = Carried
      BY <1>2, <1>3, <2>2, <2>3 DEF Carried
    <2> QED BY <1>1, <1>2, <2>4, <2>5, <2>6 DEF PathInv
  <1>5. CASE fanout' = "done" /\ UNCHANGED <<held, out>>
    <2>1. HeldSet' = HeldSet
      BY <1>3, <1>5 DEF HeldSet
    <2> QED BY <1>1, <1>2, <1>5, <2>1 DEF PathInv, PathType, PathPlaces, Carried
  <1> QED BY <1>4, <1>5 DEF FanoutRange

LEMMA FanoutSendKeeps ==
    ASSUME PathInv, FanoutSend
    PROVE  PathInv'
  <1>1. PathType /\ OneHome(PathPlaces) /\ twice = {} /\ AddressKept(Carried, absorbed)
    BY DEF PathInv
  <1>2. /\ fanout = "send"
        /\ UNCHANGED <<unseen, in, groups, merger, todo, out, delivered, twice, absorbed>>
    BY DEF FanoutSend, mvars, dvars
  <1> DEFINE r == ReportOf(held)
  <1>3. /\ HeldSet = {held} /\ held \in Event /\ Reports(HeldSet) = {r}
    BY <1>1, <1>2 DEF HeldSet, PathType, Reports
  <1>4. fanout' # "send"
    BY DEF FanoutSend
  <1>5. HeldSet' = {} /\ Reports(HeldSet') = Reports(HeldSet) \ {r} /\ {r} \subseteq Reports(HeldSet)
    BY <1>3, <1>4 DEF HeldSet, Reports
  <1>6. CASE batcherCh' = Append(batcherCh, held) /\ UNCHANGED dropped
    <2>1. r \notin Reports(Range(batcherCh))
      BY <1>1, <1>5, Apart
    <2>2. batcherCh \in Seq(Event) /\ NoTwoAlike(batcherCh)
      BY <1>1 DEF PathType
    <2>3. /\ batcherCh' \in Seq(Event) /\ NoTwoAlike(batcherCh')
          /\ Range(batcherCh') = Range(batcherCh) \cup {held}
          /\ Reports(Range(batcherCh')) = Reports(Range(batcherCh)) \cup {r}
      BY <1>3, <1>6, <2>1, <2>2, ReportSent
    <2>4. PathType'
      BY <1>1, <1>2, <1>5, <1>6, <2>3 DEF PathType
    <2>5. OneHome(PathPlaces')
      <3> HIDE DEF r
      <3>1. OneHome(HomeSets(Reports(unseen), Reports(Range(in)), Reports(Range(batcherCh)) \cup {r},
                             Reports(HeldSet) \ {r}, Reports(Range(out)), Reports(delivered),
                             Reports(todo), Reports(GroupedIn(groups)), Reports(absorbed),
                             Reports(dropped)))
        BY <1>1, <1>5, HomeMoves DEF PathPlaces
      <3> QED BY <1>2, <1>5, <1>6, <2>3, <3>1 DEF PathPlaces
    <2>6. Carried' = Carried
      BY <1>2, <1>3, <1>5, <1>6, <2>3 DEF Carried
    <2> QED BY <1>1, <1>2, <2>4, <2>5, <2>6 DEF PathInv
  <1>7. CASE dropped' = dropped \cup {held} /\ UNCHANGED batcherCh
    <2>1. Reports(dropped') = Reports(dropped) \cup {r}
      BY <1>7 DEF Reports
    <2>2. PathType'
      BY <1>1, <1>2, <1>3, <1>5, <1>7 DEF PathType
    <2>3. OneHome(PathPlaces')
      <3> HIDE DEF r
      <3>1. OneHome(HomeSets(Reports(unseen), Reports(Range(in)), Reports(Range(batcherCh)),
                             Reports(HeldSet) \ {r}, Reports(Range(out)), Reports(delivered),
                             Reports(todo), Reports(GroupedIn(groups)), Reports(absorbed),
                             Reports(dropped) \cup {r}))
        BY <1>1, <1>5, HomeMoves DEF PathPlaces
      <3> QED BY <1>2, <1>5, <1>7, <2>1, <3>1 DEF PathPlaces
    <2>4. Carried' = Carried
      BY <1>2, <1>3, <1>5, <1>7 DEF Carried
    <2> QED BY <1>1, <1>2, <2>2, <2>3, <2>4 DEF PathInv
  <1> QED BY <1>6, <1>7 DEF FanoutSend

LEMMA ReceiveKeeps ==
    ASSUME PathInv, BatcherReceive
    PROVE  PathInv'
  <1>1. PathType /\ OneHome(PathPlaces) /\ twice = {} /\ AddressKept(Carried, absorbed)
    BY DEF PathInv
  <1> DEFINE e == Head(batcherCh)
             r == ReportOf(e)
  <1>2. /\ batcherCh # << >> /\ batcherCh' = Tail(batcherCh)
        /\ delivered' = delivered \cup {e} /\ twice' = twice \cup (delivered \cap {e})
        /\ UNCHANGED <<unseen, in, groups, merger, todo, out, fanout, held, absorbed, dropped>>
    BY DEF BatcherReceive, mvars, hvars
  <1>3. HeldSet' = HeldSet /\ batcherCh \in Seq(Event) /\ NoTwoAlike(batcherCh)
    BY <1>1, <1>2 DEF HeldSet, PathType
  <1>4. /\ e \in Event /\ batcherCh' \in Seq(Event) /\ NoTwoAlike(batcherCh')
        /\ Range(batcherCh) = Range(batcherCh') \cup {e} /\ r \in Reports(Range(batcherCh))
        /\ Reports(Range(batcherCh')) = Reports(Range(batcherCh)) \ {r}
    BY <1>2, <1>3, ReportTaken
  <1> HIDE DEF e
  <1>5. r \notin Reports(delivered)
    BY <1>1, <1>4, Apart
  <1>6. twice' = {} /\ Reports(delivered') = Reports(delivered) \cup {r}
    BY <1>1, <1>2, <1>5 DEF Reports
  <1>7. PathType'
    BY <1>1, <1>2, <1>3, <1>4 DEF PathType
  <1>8. OneHome(PathPlaces')
    <2>1. {r} \subseteq Reports(Range(batcherCh))
      BY <1>4
    <2> HIDE DEF r
    <2>2. OneHome(HomeSets(Reports(unseen), Reports(Range(in)), Reports(Range(batcherCh)) \ {r},
                           Reports(HeldSet), Reports(Range(out)), Reports(delivered) \cup {r},
                           Reports(todo), Reports(GroupedIn(groups)), Reports(absorbed),
                           Reports(dropped)))
      BY <1>1, <2>1, HomeMoves DEF PathPlaces
    <2> QED BY <1>2, <1>3, <1>4, <1>6, <2>2 DEF PathPlaces
  <1>9. Carried' = Carried
    BY <1>2, <1>3, <1>4 DEF Carried
  <1> QED BY <1>1, <1>2, <1>6, <1>7, <1>8, <1>9 DEF PathInv

LEMMA GroupLeaves ==
    ASSUME NEW g, Keyed(g), NEW k \in Key, g[k] # NoEvent
    PROVE  LET f == [g EXCEPT ![k] = NoEvent]
           IN  /\ Keyed(f) /\ g[k] \in Event /\ g[k] \in GroupedIn(g)
               /\ GroupedIn(g) = GroupedIn(f) \cup {g[k]}
               /\ Reports(GroupedIn(f)) = Reports(GroupedIn(g)) \ {ReportOf(g[k])}
  <1> DEFINE f == [g EXCEPT ![k] = NoEvent]
  <1>1. g \in [Key -> Event \cup {NoEvent}] /\ f[k] = NoEvent /\ \A j \in Key : j # k => f[j] = g[j]
    BY DEF Keyed
  <1>2. f \in [Key -> Event \cup {NoEvent}]
    BY <1>1
  <1> HIDE DEF f
  <1>3. Keyed(f)
    BY <1>1, <1>2 DEF Keyed
  <1>4. \A j \in Key : g[j] # NoEvent /\ j # k => ReportOf(g[j]) # ReportOf(g[k])
    BY DEF Keyed, ReportOf
  <1>5. g[k] \in Event /\ g[k] \in GroupedIn(g) /\ GroupedIn(g) = GroupedIn(f) \cup {g[k]}
    BY <1>1 DEF GroupedIn
  <1>6. Reports(GroupedIn(f)) = Reports(GroupedIn(g)) \ {ReportOf(g[k])}
    BY <1>1, <1>4, <1>5 DEF GroupedIn, Reports
  <1> QED BY <1>3, <1>5, <1>6 DEF f

LEMMA FlushAllKeeps ==
    ASSUME PathInv, flushAll
    PROVE  PathInv'
  <1>1. PathType /\ OneHome(PathPlaces) /\ twice = {} /\ AddressKept(Carried, absorbed)
    BY DEF PathInv
  <1>2. /\ merger = "flush" /\ UNCHANGED <<unseen, in, todo, fanout, held, batcherCh, delivered, twice>>
    BY DEF flushAll, dvars
  <1>3. HeldSet' = HeldSet /\ Keyed(groups) /\ todo = {}
    BY <1>1, <1>2 DEF HeldSet, PathType
  <1>4. ASSUME NEW k \in Key, groups[k] # NoEvent, TrySend(groups[k]),
               groups' = [groups EXCEPT ![k] = NoEvent], UNCHANGED <<merger, absorbed>>
        PROVE  PathInv'
    <2> DEFINE e == groups[k]
               r == ReportOf(e)
    <2>1. /\ Keyed(groups') /\ e \in Event /\ e \in GroupedIn(groups)
          /\ GroupedIn(groups) = GroupedIn(groups') \cup {e}
          /\ Reports(GroupedIn(groups')) = Reports(GroupedIn(groups)) \ {r}
      BY <1>3, <1>4, GroupLeaves
    <2>2. r \in Reports(GroupedIn(groups)) /\ r \notin Reports(Range(out))
      <3>1. r \in Reports(GroupedIn(groups))
        BY <2>1 DEF Reports
      <3> HIDE DEF r
      <3> QED BY <1>1, <3>1, Apart
    <2>3. out \in Seq(Event) /\ NoTwoAlike(out)
      BY <1>1 DEF PathType
    <2> HIDE DEF e
    <2>4. CASE out' = Append(out, e) /\ UNCHANGED dropped
      <3>1. /\ out' \in Seq(Event) /\ NoTwoAlike(out') /\ Range(out') = Range(out) \cup {e}
            /\ Reports(Range(out')) = Reports(Range(out)) \cup {r}
        BY <2>1, <2>2, <2>3, <2>4, ReportSent
      <3>2. PathType'
        BY <1>1, <1>2, <1>3, <1>4, <2>1, <2>4, <3>1 DEF PathType
      <3>3. OneHome(PathPlaces')
        <4>1. {r} \subseteq Reports(GroupedIn(groups))
          BY <2>2
        <4> HIDE DEF r
        <4>2. OneHome(HomeSets(Reports(unseen), Reports(Range(in)), Reports(Range(batcherCh)),
                               Reports(HeldSet), Reports(Range(out)) \cup {r}, Reports(delivered),
                               Reports(todo), Reports(GroupedIn(groups)) \ {r}, Reports(absorbed),
                               Reports(dropped)))
          BY <1>1, <4>1, HomeMoves DEF PathPlaces
        <4> QED BY <1>2, <1>3, <1>4, <2>1, <2>4, <3>1, <4>2 DEF PathPlaces
      <3>4. Carried' = Carried
        BY <1>2, <1>3, <2>1, <2>4, <3>1 DEF Carried
      <3> QED BY <1>1, <1>2, <1>4, <3>2, <3>3, <3>4 DEF PathInv
    <2>5. CASE dropped' = dropped \cup {e} /\ UNCHANGED out
      <3>1. Reports(dropped') = Reports(dropped) \cup {r}
        BY <2>5 DEF Reports
      <3>2. PathType'
        BY <1>1, <1>2, <1>3, <1>4, <2>1, <2>5 DEF PathType
      <3>3. OneHome(PathPlaces')
        <4>1. {r} \subseteq Reports(GroupedIn(groups))
          BY <2>2
        <4> HIDE DEF r
        <4>2. OneHome(HomeSets(Reports(unseen), Reports(Range(in)), Reports(Range(batcherCh)),
                               Reports(HeldSet), Reports(Range(out)), Reports(delivered),
                               Reports(todo), Reports(GroupedIn(groups)) \ {r}, Reports(absorbed),
                               Reports(dropped) \cup {r}))
          BY <1>1, <4>1, HomeMoves DEF PathPlaces
        <4> QED BY <1>2, <1>3, <1>4, <2>1, <2>5, <3>1, <4>2 DEF PathPlaces
      <3>4. Carried' = Carried
        BY <1>2, <1>3, <2>1, <2>5 DEF Carried
      <3> QED BY <1>1, <1>2, <1>4, <3>2, <3>3, <3>4 DEF PathInv
    <2> QED BY <1>4, <2>4, <2>5 DEF TrySend, e
  <1>5. CASE merger' = "done" /\ UNCHANGED <<groups, out, absorbed, dropped>>
    <2>1. PathType'
      BY <1>1, <1>2, <1>3, <1>5 DEF PathType
    <2> QED BY <1>1, <1>2, <1>3, <1>5, <2>1 DEF PathInv, PathPlaces, Carried
  <1> QED BY <1>4, <1>5 DEF flushAll, hvars

\* What ingest takes from the manager's channel.
LEMMA IngestTakes ==
    ASSUME PathInv, ingest
    PROVE  /\ Head(in) \in Observation /\ Head(in) \in Event
           /\ Head(in).src = None /\ KeyOf[Head(in).of] \in Key
           /\ in' \in Seq(Observation) /\ NoTwoAlike(in')
           /\ ReportOf(Head(in)) \in Reports(Range(in))
           /\ Reports(Range(in')) = Reports(Range(in)) \ {ReportOf(Head(in))}
           /\ HeldSet' = HeldSet /\ todo = {} /\ merger = "select" /\ Keyed(groups)
           /\ UNCHANGED <<unseen, fanout, held, batcherCh, delivered, twice>>
  <1>1. in \in Seq(Observation) /\ NoTwoAlike(in) /\ Keyed(groups)
    BY DEF PathInv, PathType
  <1>2. in # << >> /\ in' = Tail(in) /\ merger = "select" /\ UNCHANGED <<unseen, fanout, held, batcherCh, delivered, twice>>
    BY DEF ingest, dvars
  <1>3. /\ Head(in) \in Observation /\ in' \in Seq(Observation) /\ NoTwoAlike(in')
        /\ ReportOf(Head(in)) \in Reports(Range(in))
        /\ Reports(Range(in')) = Reports(Range(in)) \ {ReportOf(Head(in))}
    BY <1>1, <1>2, ReportTaken
  <1>4. HeldSet' = HeldSet /\ todo = {}
    BY <1>2 DEF HeldSet, PathInv, PathType
  <1>5. Head(in) \in Event /\ Head(in).src = None /\ KeyOf[Head(in).of] \in Key
    BY <1>3, ObservationFacts, MergerAssumption
  <1> QED BY <1>1, <1>2, <1>3, <1>4, <1>5

LEMMA IngestAlone ==
    ASSUME PathInv, ingest, todo' = {Head(in)}, merger' = "emit",
           UNCHANGED <<groups, out, absorbed, dropped>>
    PROVE  PathInv'
  <1> DEFINE o == Head(in)
             r == ReportOf(o)
  <1>1. PathType /\ OneHome(PathPlaces) /\ twice = {} /\ AddressKept(Carried, absorbed)
    BY DEF PathInv
  <1>2. /\ o \in Event /\ o.src = None
        /\ in' \in Seq(Observation) /\ NoTwoAlike(in') /\ r \in Reports(Range(in))
        /\ Reports(Range(in')) = Reports(Range(in)) \ {r}
        /\ HeldSet' = HeldSet /\ todo = {}
        /\ UNCHANGED <<unseen, fanout, held, batcherCh, delivered, twice>>
    BY IngestTakes
  <1> HIDE DEF o
  <1>3. Reports(todo') = Reports(todo) \cup {r} /\ todo' = {o}
    BY <1>2 DEF Reports, o
  <1>4. PathType'
    BY <1>1, <1>2, <1>3 DEF PathType
  <1>5. OneHome(PathPlaces')
    <2>1. {r} \subseteq Reports(Range(in))
      BY <1>2
    <2> HIDE DEF r
    <2>2. OneHome(HomeSets(Reports(unseen), Reports(Range(in)) \ {r}, Reports(Range(batcherCh)),
                           Reports(HeldSet), Reports(Range(out)), Reports(delivered),
                           Reports(todo) \cup {r}, Reports(GroupedIn(groups)), Reports(absorbed),
                           Reports(dropped)))
      BY <1>1, <2>1, HomeMoves DEF PathPlaces
    <2> QED BY <1>2, <1>3, <2>2 DEF PathPlaces
  <1>6. Carried' = Carried \cup {o}
    BY <1>2, <1>3 DEF Carried
  <1>7. AddressKept(Carried', absorbed')
    <2> DEFINE W == Carried
    <2>1. AddressKept(W, absorbed) /\ Carried' = W \cup {o}
      BY <1>1, <1>6
    <2> HIDE DEF W
    <2> QED BY <1>2, <2>1 DEF AddressKept
  <1> QED BY <1>1, <1>2, <1>4, <1>5, <1>7 DEF PathInv

LEMMA IngestFirst ==
    ASSUME PathInv, ingest, NEW o, o = Head(in), NEW k \in Key, k = KeyOf[o.of],
           Mergeable(o), groups[k] = NoEvent,
           groups' = [groups EXCEPT ![k] = o], UNCHANGED <<merger, todo, out, absorbed, dropped>>
    PROVE  PathInv'
  <1> DEFINE r == ReportOf(o)
  <1>1. PathType /\ OneHome(PathPlaces) /\ twice = {} /\ AddressKept(Carried, absorbed)
    BY DEF PathInv
  <1>2. /\ o \in Event /\ o.src = None /\ Keyed(groups)
        /\ in' \in Seq(Observation) /\ NoTwoAlike(in') /\ r \in Reports(Range(in))
        /\ Reports(Range(in')) = Reports(Range(in)) \ {r}
        /\ HeldSet' = HeldSet /\ todo = {}
        /\ UNCHANGED <<unseen, fanout, held, batcherCh, delivered, twice>>
    BY IngestTakes
  <1>3. OldOf(groups, k) = {} /\ Reports({}) = {} /\ o.via # "other" /\ KeyOf[o.of] = k
    BY DEF OldOf, Reports, Mergeable
  <1>4. /\ Keyed(groups') /\ GroupedIn(groups') = GroupedIn(groups) \cup {o}
        /\ Reports(GroupedIn(groups')) = Reports(GroupedIn(groups)) \cup {r}
    <2>2. /\ Keyed(groups') /\ GroupedIn(groups') = Swap(GroupedIn(groups), OldOf(groups, k), o)
          /\ Reports(GroupedIn(groups')) = Swap(Reports(GroupedIn(groups)), Reports(OldOf(groups, k)), r)
      <3>1. Keyed(groups) /\ o \in Event /\ KeyOf[o.of] = k /\ o.via # "other"
        BY <1>2, <1>3
      <3> QED BY <3>1, GroupTakes
    <2> QED BY <1>3, <2>2 DEF Swap
  <1>5. PathType'
    BY <1>1, <1>2, <1>4 DEF PathType
  <1>6. OneHome(PathPlaces')
    <2>1. {r} \subseteq Reports(Range(in))
      BY <1>2
    <2> HIDE DEF r
    <2>2. OneHome(HomeSets(Reports(unseen), Reports(Range(in)) \ {r}, Reports(Range(batcherCh)),
                           Reports(HeldSet), Reports(Range(out)), Reports(delivered),
                           Reports(todo), Reports(GroupedIn(groups)) \cup {r}, Reports(absorbed),
                           Reports(dropped)))
      BY <1>1, <2>1, HomeMoves DEF PathPlaces
    <2> QED BY <1>2, <1>4, <2>2 DEF PathPlaces
  <1>7. Carried' = Carried \cup {o}
    BY <1>2, <1>4 DEF Carried
  <1>8. AddressKept(Carried', absorbed')
    <2> DEFINE W == Carried
    <2>1. AddressKept(W, absorbed) /\ Carried' = W \cup {o}
      BY <1>1, <1>7
    <2> HIDE DEF W
    <2> QED BY <1>2, <2>1 DEF AddressKept
  <1> QED BY <1>1, <1>2, <1>5, <1>6, <1>8 DEF PathInv

\* A group has an event, with its key.
LEMMA GroupHolds ==
    ASSUME PathInv, NEW k \in Key, groups[k] # NoEvent
    PROVE  /\ groups[k] \in Event /\ KeyOf[groups[k].of] = k /\ groups[k].via # "other"
           /\ OldOf(groups, k) = {groups[k]} /\ Reports(OldOf(groups, k)) = {ReportOf(groups[k])}
           /\ groups[k] \in GroupedIn(groups) /\ groups[k] \in Carried
           /\ ReportOf(groups[k]) \in Reports(GroupedIn(groups))
           /\ groups[k].src # None => KeyOf[groups[k].src] = k
  <1>1. /\ groups[k] \in Event /\ KeyOf[groups[k].of] = k /\ groups[k].via # "other"
    BY DEF PathInv, PathType, Keyed
  <1>2. OldOf(groups, k) = {groups[k]} /\ Reports(OldOf(groups, k)) = {ReportOf(groups[k])}
    BY DEF OldOf, Reports
  <1>3. groups[k] \in GroupedIn(groups) /\ ReportOf(groups[k]) \in Reports(GroupedIn(groups))
    BY DEF GroupedIn, Reports
  <1>4. groups[k] \in Carried
    BY <1>3 DEF Carried
  <1>5. groups[k].src # None => KeyOf[groups[k].src] = k
    BY <1>1, <1>4 DEF PathInv, AddressKept
  <1> QED BY <1>1, <1>2, <1>3, <1>4, <1>5

\* An eBPF event takes the group of an event of lower priority.
LEMMA IngestPromotes ==
    ASSUME PathInv, ingest, NEW o, o = Head(in), NEW k \in Key, k = KeyOf[o.of], o.via = "ebpf",
           NEW e, e = groups[k], e # NoEvent, NEW n, n = Promote(e, o),
           groups' = [groups EXCEPT ![k] = n],
           absorbed' = absorbed \cup {[e EXCEPT !.src = None]},
           UNCHANGED <<merger, todo, out, dropped>>
    PROVE  PathInv'
  <1> DEFINE r == ReportOf(o)
             q == ReportOf(e)
             gone == [e EXCEPT !.src = None]
  <1>1. PathType /\ OneHome(PathPlaces) /\ twice = {} /\ AddressKept(Carried, absorbed)
    BY DEF PathInv
  <1>2. /\ o \in Event /\ o.src = None /\ Keyed(groups) /\ o \in Observation
        /\ in' \in Seq(Observation) /\ NoTwoAlike(in') /\ r \in Reports(Range(in))
        /\ Reports(Range(in')) = Reports(Range(in)) \ {r}
        /\ HeldSet' = HeldSet /\ todo = {}
        /\ UNCHANGED <<unseen, fanout, held, batcherCh, delivered, twice>>
    BY IngestTakes
  <1>3. /\ e \in Event /\ KeyOf[e.of] = k /\ e.via # "other"
        /\ OldOf(groups, k) = {e} /\ Reports(OldOf(groups, k)) = {q}
        /\ e \in GroupedIn(groups) /\ q \in Reports(GroupedIn(groups))
        /\ e.src # None => KeyOf[e.src] = k
    BY GroupHolds
  <1>4. /\ n \in Event /\ n.of = o.of /\ n.via = o.via /\ ReportOf(n) = r
        /\ n.src = IF e.src # None THEN e.src ELSE IF e.via = "netlink" THEN e.of ELSE None
    <2>1. /\ e.src \in Activity \cup {None} /\ e.of \in Activity
          /\ o.of \in Activity /\ o.via \in Source /\ o = [of |-> o.of, via |-> o.via, src |-> o.src]
      BY <1>2, <1>3 DEF Event
    <2>2. n = [of |-> o.of, via |-> o.via,
               src |-> IF e.src # None THEN e.src ELSE IF e.via = "netlink" THEN e.of ELSE None]
      BY <2>1 DEF Promote
    <2>3. /\ n.of = o.of /\ n.via = o.via
          /\ n.src = IF e.src # None THEN e.src ELSE IF e.via = "netlink" THEN e.of ELSE None
      BY ONLY <2>2
    <2>4. ReportOf(n) = ReportOf(o)
      BY <2>3 DEF ReportOf
    <2>5. (IF e.src # None THEN e.src ELSE IF e.via = "netlink" THEN e.of ELSE None) \in Activity \cup {None}
      BY <2>1
    <2>6. n \in Event
      <3>1. PICK src \in Activity \cup {None} : n = [of |-> o.of, via |-> o.via, src |-> src]
        BY ONLY <2>2, <2>5
      <3> QED BY ONLY <2>1, <3>1 DEF Event
    <2> QED BY <2>3, <2>4, <2>6
  <1>5. /\ Keyed(groups') /\ GroupedIn(groups') = (GroupedIn(groups) \ {e}) \cup {n}
        /\ Reports(GroupedIn(groups')) = (Reports(GroupedIn(groups)) \ {q}) \cup {r}
    <2>1. Keyed(groups) /\ n \in Event /\ KeyOf[n.of] = k /\ n.via # "other"
      BY <1>2, <1>4
    <2>2. /\ Keyed(groups') /\ GroupedIn(groups') = Swap(GroupedIn(groups), OldOf(groups, k), n)
          /\ Reports(GroupedIn(groups'))
                = Swap(Reports(GroupedIn(groups)), Reports(OldOf(groups, k)), ReportOf(n))
      BY <2>1, GroupTakes
    <2> QED BY <1>3, <1>4, <2>2 DEF Swap
  <1>6. gone \in Event /\ ReportOf(gone) = q /\ gone.of = e.of /\ gone.via = e.via
    BY <1>3 DEF Event, ReportOf
  <1>7. Reports(absorbed') = Reports(absorbed) \cup {q} /\ absorbed' = absorbed \cup {gone}
    BY <1>6 DEF Reports
  <1> HIDE DEF gone
  <1>8. PathType'
    BY <1>1, <1>2, <1>5, <1>6, <1>7 DEF PathType
  <1>9. OneHome(PathPlaces')
    <2>1. {r} \subseteq Reports(Range(in)) /\ {q} \subseteq Reports(GroupedIn(groups))
      BY <1>2, <1>3
    <2> HIDE DEF r, q
    <2>2. OneHome(HomeSets(Reports(unseen), Reports(Range(in)), Reports(Range(batcherCh)),
                           Reports(HeldSet), Reports(Range(out)), Reports(delivered),
                           Reports(todo), Reports(GroupedIn(groups)) \ {q}, Reports(absorbed) \cup {q},
                           Reports(dropped)))
      BY <1>1, <2>1, HomeMoves DEF PathPlaces
    <2>3. OneHome(HomeSets(Reports(unseen), Reports(Range(in)) \ {r}, Reports(Range(batcherCh)),
                           Reports(HeldSet), Reports(Range(out)), Reports(delivered),
                           Reports(todo), (Reports(GroupedIn(groups)) \ {q}) \cup {r},
                           Reports(absorbed) \cup {q}, Reports(dropped)))
      BY <2>1, <2>2, HomeMoves
    <2> QED BY <1>2, <1>5, <1>7, <2>3 DEF PathPlaces
  <1>10. AddressKept(Carried', absorbed')
    <2>1. Carried \ {e} \subseteq Carried' /\ Carried' \subseteq Carried \cup {n} /\ n \in Carried'
      BY <1>2, <1>5 DEF Carried
    <2>2. e.of # None /\ e.of \in Activity
      BY <1>3, MergerAssumption DEF Event
    <2>3. n.src # None => KeyOf[n.src] = KeyOf[n.of]
      BY <1>3, <1>4
    <2>4. KeyOf[e.of] = KeyOf[n.of] /\ (Addressed(e) => Addressed(n))
      BY <1>3, <1>4, <2>2 DEF Addressed
    <2>5. gone.via = "netlink" => KeyOf[n.of] = KeyOf[gone.of] /\ Addressed(n)
      BY <1>6, <2>4 DEF Addressed
    <2>6. absorbed' \subseteq absorbed \cup {gone}
      BY <1>7
    <2>7. Passes(Carried, absorbed, Carried', absorbed', e, n, gone)
      BY <2>1, <2>3, <2>4, <2>5, <2>6 DEF Passes
    <2> QED BY <1>1, <2>7, AddressPasses
  <1> QED BY <1>1, <1>2, <1>8, <1>9, <1>10 DEF PathInv

\* A netlink or auditd report joins the group.
LEMMA IngestJoins ==
    ASSUME PathInv, ingest, NEW o, o = Head(in), NEW k \in Key, k = KeyOf[o.of],
           NEW e, e = groups[k], e # NoEvent,
           NEW n, n = [e EXCEPT !.src = IF o.via = "netlink" THEN o.of ELSE @],
           groups' = [groups EXCEPT ![k] = n],
           absorbed' = absorbed \cup {o},
           UNCHANGED <<merger, todo, out, dropped>>
    PROVE  PathInv'
  <1> DEFINE r == ReportOf(o)
             q == ReportOf(e)
  <1>1. PathType /\ OneHome(PathPlaces) /\ twice = {} /\ AddressKept(Carried, absorbed)
    BY DEF PathInv
  <1>2. /\ o \in Event /\ o.src = None /\ Keyed(groups) /\ o \in Observation
        /\ in' \in Seq(Observation) /\ NoTwoAlike(in') /\ r \in Reports(Range(in))
        /\ Reports(Range(in')) = Reports(Range(in)) \ {r}
        /\ HeldSet' = HeldSet /\ todo = {}
        /\ UNCHANGED <<unseen, fanout, held, batcherCh, delivered, twice>>
    BY IngestTakes
  <1>3. /\ e \in Event /\ KeyOf[e.of] = k /\ e.via # "other"
        /\ OldOf(groups, k) = {e} /\ Reports(OldOf(groups, k)) = {q}
        /\ e \in GroupedIn(groups) /\ q \in Reports(GroupedIn(groups))
        /\ e.src # None => KeyOf[e.src] = k
    BY GroupHolds
  <1>4. /\ n \in Event /\ n.of = e.of /\ n.via = e.via /\ ReportOf(n) = q
        /\ n.src = IF o.via = "netlink" THEN o.of ELSE e.src
    <2>1. o.of \in Activity
      BY <1>2 DEF Event
    <2> QED BY <1>3, <2>1 DEF Event, ReportOf
  <1>5. /\ Keyed(groups') /\ GroupedIn(groups') = (GroupedIn(groups) \ {e}) \cup {n}
        /\ Reports(GroupedIn(groups')) = Reports(GroupedIn(groups))
    <2>1. Keyed(groups) /\ n \in Event /\ KeyOf[n.of] = k /\ n.via # "other"
      BY <1>2, <1>3, <1>4
    <2>2. /\ Keyed(groups') /\ GroupedIn(groups') = Swap(GroupedIn(groups), OldOf(groups, k), n)
          /\ Reports(GroupedIn(groups'))
                = Swap(Reports(GroupedIn(groups)), Reports(OldOf(groups, k)), ReportOf(n))
      BY <2>1, GroupTakes
    <2> HIDE DEF q
    <2>3. Swap(Reports(GroupedIn(groups)), {q}, q) = Reports(GroupedIn(groups))
      BY <1>3 DEF Swap
    <2> QED BY <1>3, <1>4, <2>2, <2>3 DEF Swap
  <1>6. Reports(absorbed') = Reports(absorbed) \cup {r}
    BY DEF Reports
  <1>7. PathType'
    BY <1>1, <1>2, <1>5 DEF PathType
  <1>8. OneHome(PathPlaces')
    <2>1. {r} \subseteq Reports(Range(in))
      BY <1>2
    <2> HIDE DEF r
    <2>2. OneHome(HomeSets(Reports(unseen), Reports(Range(in)) \ {r}, Reports(Range(batcherCh)),
                           Reports(HeldSet), Reports(Range(out)), Reports(delivered),
                           Reports(todo), Reports(GroupedIn(groups)), Reports(absorbed) \cup {r},
                           Reports(dropped)))
      BY <1>1, <2>1, HomeMoves DEF PathPlaces
    <2> QED BY <1>2, <1>5, <1>6, <2>2 DEF PathPlaces
  <1>9. AddressKept(Carried', absorbed')
    <2>1. Carried \ {e} \subseteq Carried' /\ Carried' \subseteq Carried \cup {n} /\ n \in Carried'
      BY <1>2, <1>5 DEF Carried
    <2>2. o.of # None /\ KeyOf[o.of] = k
      BY <1>2, MergerAssumption DEF Event
    <2>3. n.src # None => KeyOf[n.src] = KeyOf[n.of]
      BY <1>3, <1>4, <2>2
    <2>4. KeyOf[e.of] = KeyOf[n.of] /\ (Addressed(e) => Addressed(n))
      BY <1>3, <1>4, <2>2 DEF Addressed
    <2>5. o.via = "netlink" => KeyOf[n.of] = KeyOf[o.of] /\ Addressed(n)
      BY <1>3, <1>4, <2>2 DEF Addressed
    <2>6. absorbed' \subseteq absorbed \cup {o}
      OBVIOUS
    <2>7. Passes(Carried, absorbed, Carried', absorbed', e, n, o)
      BY <2>1, <2>3, <2>4, <2>5, <2>6 DEF Passes
    <2> QED BY <1>1, <2>7, AddressPasses
  <1> QED BY <1>1, <1>2, <1>7, <1>8, <1>9 DEF PathInv

\* A second eBPF event of the same key flushes the group of the first.
LEMMA IngestFlushes ==
    ASSUME PathInv, ingest, NEW o, o = Head(in), NEW k \in Key, k = KeyOf[o.of], o.via = "ebpf",
           NEW e, e = groups[k], e # NoEvent,
           groups' = [groups EXCEPT ![k] = o], TrySend(e), UNCHANGED <<merger, todo, absorbed>>
    PROVE  PathInv'
  <1> DEFINE r == ReportOf(o)
             q == ReportOf(e)
  <1>1. PathType /\ OneHome(PathPlaces) /\ twice = {} /\ AddressKept(Carried, absorbed)
    BY DEF PathInv
  <1>2. /\ o \in Event /\ o.src = None /\ Keyed(groups)
        /\ in' \in Seq(Observation) /\ NoTwoAlike(in') /\ r \in Reports(Range(in))
        /\ Reports(Range(in')) = Reports(Range(in)) \ {r}
        /\ HeldSet' = HeldSet /\ todo = {}
        /\ UNCHANGED <<unseen, fanout, held, batcherCh, delivered, twice>>
    BY IngestTakes
  <1>3. /\ e \in Event /\ OldOf(groups, k) = {e} /\ Reports(OldOf(groups, k)) = {q}
        /\ e \in GroupedIn(groups) /\ q \in Reports(GroupedIn(groups))
    BY GroupHolds
  <1>4. /\ Keyed(groups') /\ GroupedIn(groups') = (GroupedIn(groups) \ {e}) \cup {o}
        /\ Reports(GroupedIn(groups')) = (Reports(GroupedIn(groups)) \ {q}) \cup {r}
    <2>1. Keyed(groups) /\ o \in Event /\ KeyOf[o.of] = k /\ o.via # "other"
      BY <1>2
    <2>2. /\ Keyed(groups') /\ GroupedIn(groups') = Swap(GroupedIn(groups), OldOf(groups, k), o)
          /\ Reports(GroupedIn(groups'))
                = Swap(Reports(GroupedIn(groups)), Reports(OldOf(groups, k)), ReportOf(o))
      BY <2>1, GroupTakes
    <2> QED BY <1>3, <2>2 DEF Swap
  <1>11. GroupedIn(groups') \cup {e} = GroupedIn(groups) \cup {o}
    <2>1. e \in GroupedIn(groups) /\ GroupedIn(groups') = (GroupedIn(groups) \ {e}) \cup {o}
      BY <1>3, <1>4
    <2> QED BY ONLY <2>1
  <1>5. {r} \subseteq Reports(Range(in)) /\ {q} \subseteq Reports(GroupedIn(groups))
    BY <1>2, <1>3
  <1>6. out \in Seq(Event) /\ NoTwoAlike(out)
    BY <1>1 DEF PathType
  <1>7. q \notin Reports(Range(out))
    <2> HIDE DEF q
    <2> QED BY <1>1, <1>3, Apart
  <1>8. ASSUME Carried' = Carried \cup {o}
        PROVE  AddressKept(Carried', absorbed')
    <2> DEFINE W == Carried
    <2>1. AddressKept(W, absorbed) /\ Carried' = W \cup {o}
      BY <1>1, <1>8
    <2> HIDE DEF W
    <2> QED BY <1>2, <2>1 DEF AddressKept
  <1>9. CASE out' = Append(out, e) /\ UNCHANGED dropped
    <2>1. /\ out' \in Seq(Event) /\ NoTwoAlike(out') /\ Range(out') = Range(out) \cup {e}
          /\ Reports(Range(out')) = Reports(Range(out)) \cup {q}
      BY <1>3, <1>6, <1>7, <1>9, ReportSent
    <2>2. PathType'
      BY <1>1, <1>2, <1>4, <1>9, <2>1 DEF PathType
    <2>3. OneHome(PathPlaces')
      <3> HIDE DEF r, q
      <3>1. OneHome(HomeSets(Reports(unseen), Reports(Range(in)), Reports(Range(batcherCh)),
                             Reports(HeldSet), Reports(Range(out)) \cup {q}, Reports(delivered),
                             Reports(todo), Reports(GroupedIn(groups)) \ {q}, Reports(absorbed),
                             Reports(dropped)))
        BY <1>1, <1>5, HomeMoves DEF PathPlaces
      <3>2. OneHome(HomeSets(Reports(unseen), Reports(Range(in)) \ {r}, Reports(Range(batcherCh)),
                             Reports(HeldSet), Reports(Range(out)) \cup {q}, Reports(delivered),
                             Reports(todo), (Reports(GroupedIn(groups)) \ {q}) \cup {r},
                             Reports(absorbed), Reports(dropped)))
        BY <1>5, <3>1, HomeMoves
      <3> QED BY <1>2, <1>4, <1>9, <2>1, <3>2 DEF PathPlaces
    <2>4. Carried' = Carried \cup {o}
      BY <1>2, <1>9, <1>11, <2>1 DEF Carried
    <2> QED BY <1>1, <1>2, <1>8, <2>2, <2>3, <2>4 DEF PathInv
  <1>10. CASE dropped' = dropped \cup {e} /\ UNCHANGED out
    <2>1. Reports(dropped') = Reports(dropped) \cup {q}
      BY <1>10 DEF Reports
    <2>2. PathType'
      BY <1>1, <1>2, <1>3, <1>4, <1>10 DEF PathType
    <2>3. OneHome(PathPlaces')
      <3> HIDE DEF r, q
      <3>1. OneHome(HomeSets(Reports(unseen), Reports(Range(in)), Reports(Range(batcherCh)),
                             Reports(HeldSet), Reports(Range(out)), Reports(delivered),
                             Reports(todo), Reports(GroupedIn(groups)) \ {q}, Reports(absorbed),
                             Reports(dropped) \cup {q}))
        BY <1>1, <1>5, HomeMoves DEF PathPlaces
      <3>2. OneHome(HomeSets(Reports(unseen), Reports(Range(in)) \ {r}, Reports(Range(batcherCh)),
                             Reports(HeldSet), Reports(Range(out)), Reports(delivered),
                             Reports(todo), (Reports(GroupedIn(groups)) \ {q}) \cup {r},
                             Reports(absorbed), Reports(dropped) \cup {q}))
        BY <1>5, <3>1, HomeMoves
      <3> QED BY <1>2, <1>4, <1>10, <2>1, <3>2 DEF PathPlaces
    <2>4. Carried' = Carried \cup {o}
      BY <1>2, <1>10, <1>11 DEF Carried
    <2> QED BY <1>1, <1>2, <1>8, <2>2, <2>3, <2>4 DEF PathInv
  <1> QED BY <1>9, <1>10 DEF TrySend

LEMMA IngestKeeps ==
    ASSUME PathInv, ingest
    PROVE  PathInv'
  <1>1. PICK o : o = Head(in)
    OBVIOUS
  <1>2. PICK k \in Key : k = KeyOf[o.of]
    BY <1>1, IngestTakes
  <1>3. CASE ~ Mergeable(o) /\ todo' = {o} /\ merger' = "emit" /\ UNCHANGED <<groups, out, hvars>>
    BY <1>1, <1>3, IngestAlone DEF hvars
  <1>4. CASE /\ Mergeable(o) /\ groups[k] = NoEvent
             /\ groups' = [groups EXCEPT ![k] = o]
             /\ UNCHANGED <<merger, todo, out, hvars>>
    BY <1>1, <1>2, <1>4, IngestFirst DEF hvars
  <1>5. CASE /\ Mergeable(o) /\ groups[k] # NoEvent
             /\ IF o.via = "ebpf" THEN IngestPrimary(o, k) ELSE IngestSecondary(o, k)
             /\ UNCHANGED <<merger, todo>>
    <2>1. PICK e : e = groups[k]
      OBVIOUS
    <2>2. CASE o.via = "ebpf" /\ e.via # "ebpf"
      <3>1. PICK n : n = Promote(e, o)
        OBVIOUS
      <3>2. /\ groups' = [groups EXCEPT ![k] = n]
            /\ absorbed' = absorbed \cup {[e EXCEPT !.src = None]}
            /\ UNCHANGED <<dropped, out>>
        BY <1>5, <2>1, <2>2, <3>1 DEF IngestPrimary
      <3> QED BY <1>1, <1>2, <1>5, <2>1, <2>2, <3>1, <3>2, IngestPromotes
    <2>3. CASE o.via = "ebpf" /\ e.via = "ebpf"
      <3>1. groups' = [groups EXCEPT ![k] = o] /\ TrySend(e) /\ UNCHANGED absorbed
        BY <1>5, <2>1, <2>3 DEF IngestPrimary
      <3> QED BY <1>1, <1>2, <1>5, <2>1, <2>3, <3>1, IngestFlushes
    <2>4. CASE o.via # "ebpf"
      <3>1. PICK n : n = [e EXCEPT !.src = IF o.via = "netlink" THEN o.of ELSE @]
        OBVIOUS
      <3>2. IngestSecondary(o, k)
        BY <1>5, <2>4
      <3>3. groups \in [Key -> Event \cup {NoEvent}] /\ e \in Event
        BY <1>5, <2>1, GroupHolds DEF PathInv, PathType, Keyed
      <3>4. /\ groups' = [groups EXCEPT ![k] = n]
            /\ absorbed' = absorbed \cup {o} /\ UNCHANGED <<dropped, out>>
        BY <2>1, <3>1, <3>2, <3>3 DEF IngestSecondary, Event
      <3> QED BY <1>1, <1>2, <1>5, <2>1, <3>1, <3>4, IngestJoins
    <2> QED BY <2>2, <2>3, <2>4
  <1> QED BY <1>1, <1>2, <1>3, <1>4, <1>5 DEF ingest

LEMMA PathNext ==
    ASSUME PathInv, [MNext]_mergerVars
    PROVE  PathInv'
  <1>1. ASSUME UNCHANGED <<unseen, in, groups, todo, out, held, batcherCh, delivered, twice, absorbed, dropped>>,
               UNCHANGED fanout, merger' # "emit" => todo = {}
        PROVE  PathInv'
    <2>1. HeldSet' = HeldSet
      BY <1>1 DEF HeldSet
    <2> QED BY <1>1, <2>1 DEF PathInv, PathType, PathPlaces, Carried
  <1>2. CASE CollectorsExit \/ BatcherReturn \/ Shutdown \/ MainReturn \/ MergerReturn \/ UNCHANGED mergerVars
    <2>1. merger # "emit" => todo = {}
      BY DEF PathInv, PathType
    <2> QED BY <1>1, <1>2, <2>1
            DEF CollectorsExit, BatcherReturn, Shutdown, MainReturn, MergerReturn, mergerVars, mvars, dvars, hvars
  <1> QED BY <1>2, CollectKeeps, ExpireKeeps, IngestKeeps, EmitKeeps, FlushAllKeeps, FanoutRangeKeeps,
             FanoutSendKeeps, ReceiveKeeps DEF MNext

-----------------------------------------------------------------------------
(* What the invariant says of the properties.                              *)

LEMMA ConcatAlike ==
    ASSUME NEW S, NEW s \in Seq(S), NEW t \in Seq(S), NoTwoAlike(s), NoTwoAlike(t),
           Reports(Range(s)) \cap Reports(Range(t)) = {}
    PROVE  /\ s \o t \in Seq(S) /\ NoTwoAlike(s \o t)
           /\ Range(s \o t) = Range(s) \cup Range(t)
           /\ Reports(Range(s \o t)) = Reports(Range(s)) \cup Reports(Range(t))
  <1> DEFINE c == s \o t
  <1>1. /\ c \in Seq(S) /\ Len(c) = Len(s) + Len(t) /\ Len(s) \in Nat /\ Len(t) \in Nat
        /\ \A i \in 1 .. Len(c) : c[i] = IF i <= Len(s) THEN s[i] ELSE t[i - Len(s)]
    BY ConcatProperties
  <1> HIDE DEF c
  <1>2. /\ Range(c) = {c[i] : i \in 1 .. Len(c)} /\ Range(s) = {s[i] : i \in 1 .. Len(s)}
        /\ Range(t) = {t[i] : i \in 1 .. Len(t)}
    <2>1. c \in Seq(S)
      BY <1>1
    <2> QED BY ONLY <2>1, s \in Seq(S), t \in Seq(S), RangeOf
  <1>3. \A i \in 1 .. Len(c) : \/ i \in 1 .. Len(s) /\ c[i] = s[i]
                               \/ i - Len(s) \in 1 .. Len(t) /\ c[i] = t[i - Len(s)]
    BY <1>1
  <1>4. \A i \in 1 .. Len(s) : i \in 1 .. Len(c) /\ c[i] = s[i]
    BY <1>1
  <1>5. \A i \in 1 .. Len(t) : i + Len(s) \in 1 .. Len(c) /\ c[i + Len(s)] = t[i]
    BY <1>1
  <1>6. Range(c) = Range(s) \cup Range(t)
    <2>1. Range(c) \subseteq Range(s) \cup Range(t)
      BY <1>2, <1>3
    <2>2. Range(s) \subseteq Range(c) /\ Range(t) \subseteq Range(c)
      BY <1>2, <1>4, <1>5
    <2> QED BY <2>1, <2>2
  <1>7. Reports(Range(c)) = Reports(Range(s)) \cup Reports(Range(t))
    BY <1>6 DEF Reports
  <1>8. \A i \in 1 .. Len(s), j \in 1 .. Len(t) : ReportOf(s[i]) # ReportOf(t[j])
    BY <1>2 DEF Reports
  <1>9. ASSUME NEW i \in 1 .. Len(c), NEW j \in 1 .. Len(c), ReportOf(c[i]) = ReportOf(c[j])
        PROVE  i = j
    <2>1. CASE i \in 1 .. Len(s) /\ j \in 1 .. Len(s)
      BY <1>4, <1>9, <2>1 DEF NoTwoAlike
    <2>2. CASE i - Len(s) \in 1 .. Len(t) /\ j - Len(s) \in 1 .. Len(t)
      <3>1. c[i] = t[i - Len(s)] /\ c[j] = t[j - Len(s)]
        BY <1>1, <2>2
      <3>2. i - Len(s) = j - Len(s)
        BY <1>9, <2>2, <3>1 DEF NoTwoAlike
      <3> QED BY <1>1, <3>2
    <2>3. CASE i \in 1 .. Len(s) /\ j - Len(s) \in 1 .. Len(t)
      BY <1>1, <1>8, <1>9, <2>3
    <2>4. CASE j \in 1 .. Len(s) /\ i - Len(s) \in 1 .. Len(t)
      BY <1>1, <1>8, <1>9, <2>4
    <2> QED BY <1>1, <2>1, <2>2, <2>3, <2>4
  <1>10. NoTwoAlike(c)
    BY <1>9 DEF NoTwoAlike
  <1> QED BY <1>1, <1>6, <1>7, <1>10 DEF c

LEMMA TimesInLine ==
    ASSUME NEW S, NEW s \in Seq(S), NoTwoAlike(s), NEW o
    PROVE  Cardinality({i \in DOMAIN s : SameReport(s[i], o)})
              = IF ReportOf(o) \in Reports(Range(s)) THEN 1 ELSE 0
  <1> DEFINE T == {i \in DOMAIN s : SameReport(s[i], o)}
  <1>1. DOMAIN s = 1 .. Len(s) /\ Range(s) = {s[i] : i \in 1 .. Len(s)}
    BY RangeOf
  <1>2. T = {i \in 1 .. Len(s) : ReportOf(s[i]) = ReportOf(o)}
    BY <1>1 DEF SameReport, ReportOf
  <1>3. CASE ReportOf(o) \in Reports(Range(s))
    <2>1. PICK i \in 1 .. Len(s) : ReportOf(s[i]) = ReportOf(o)
      BY <1>1, <1>3 DEF Reports
    <2>2. T = {i}
      BY <1>2, <2>1 DEF NoTwoAlike
    <2>3. Cardinality({i}) = 1
      BY FS_Singleton
    <2> QED BY <1>3, <2>2, <2>3
  <1>4. CASE ReportOf(o) \notin Reports(Range(s))
    <2>1. T = {}
      BY <1>1, <1>2, <1>4 DEF Reports
    <2> QED BY <1>4, <2>1, FS_EmptySet
  <1> QED BY <1>3, <1>4

LEMMA LineFacts ==
    ASSUME PathInv
    PROVE  /\ Line \in Seq(Event) /\ NoTwoAlike(Line)
           /\ Range(Line) = Range(batcherCh) \cup HeldSet \cup Range(out)
           /\ Reports(Range(Line)) = Reports(Range(batcherCh)) \cup Reports(HeldSet) \cup Reports(Range(out))
  <1> DEFINE h == IF fanout = "send" THEN <<held>> ELSE << >>
  <1>1. /\ batcherCh \in Seq(Event) /\ NoTwoAlike(batcherCh) /\ out \in Seq(Event) /\ NoTwoAlike(out)
        /\ HeldSet \subseteq Event
    BY DEF PathInv, PathType
  <1>2. h \in Seq(Event) /\ NoTwoAlike(h) /\ Range(h) = HeldSet
    <2>1. CASE fanout = "send"
      BY <1>1, <2>1 DEF HeldSet, NoTwoAlike, Range
    <2>2. CASE fanout # "send"
      BY <2>2 DEF HeldSet, NoTwoAlike, Range
    <2> QED BY <2>1, <2>2
  <1> HIDE DEF h
  <1>3. /\ Reports(Range(batcherCh)) \cap Reports(HeldSet) = {}
        /\ Reports(Range(batcherCh)) \cap Reports(Range(out)) = {}
        /\ Reports(HeldSet) \cap Reports(Range(out)) = {}
    <2>1. /\ PathPlaces["batcherCh"] = Reports(Range(batcherCh)) /\ PathPlaces["held"] = Reports(HeldSet)
          /\ PathPlaces["out"] = Reports(Range(out))
      BY HomeSetsAt DEF PathPlaces
    <2>2. \A x, y \in PathHomes : x # y => PathPlaces[x] \cap PathPlaces[y] = {}
      BY DEF PathInv, OneHome
    <2> QED BY <2>1, <2>2 DEF PathHomes
  <1>8. PICK c : c = batcherCh \o h
    OBVIOUS
  <1>4. /\ c \in Seq(Event) /\ NoTwoAlike(c) /\ Range(c) = Range(batcherCh) \cup HeldSet
        /\ Reports(Range(c)) = Reports(Range(batcherCh)) \cup Reports(HeldSet)
    BY <1>1, <1>2, <1>3, <1>8, ConcatAlike
  <1>5. /\ c \o out \in Seq(Event) /\ NoTwoAlike(c \o out) /\ Range(c \o out) = Range(c) \cup Range(out)
        /\ Reports(Range(c \o out)) = Reports(Range(c)) \cup Reports(Range(out))
    <2>1. Reports(Range(c)) \cap Reports(Range(out)) = {}
      BY <1>3, <1>4
    <2>2. c \in Seq(Event) /\ out \in Seq(Event) /\ NoTwoAlike(c) /\ NoTwoAlike(out)
      BY <1>1, <1>4
    <2> QED BY ONLY <2>1, <2>2, ConcatAlike
  <1>6. Line = c \o out
    BY <1>8 DEF Line, h
  <1> QED BY <1>4, <1>5, <1>6

\* One of ten homes holds the report of an observation the merger received, and
\* it is none of the first two.
LEMMA HomesCounted ==
    ASSUME NEW u, NEW i, NEW b, NEW h, NEW w, NEW d, NEW t, NEW g, NEW a, NEW x, NEW y \in AllReports,
           OneHome(HomeSets(u, i, b, h, w, d, t, g, a, x)), y \notin u, y \notin i
    PROVE  LET In(S) == IF y \in S THEN 1 ELSE 0
           IN  In(b \cup h \cup w) + In(d) + In(t) + In(g) + In(a) + In(x) = 1
  <1> DEFINE P == HomeSets(u, i, b, h, w, d, t, g, a, x)
  <1>1. /\ P["unseen"] = u /\ P["in"] = i /\ P["batcherCh"] = b /\ P["held"] = h /\ P["out"] = w
        /\ P["delivered"] = d /\ P["todo"] = t /\ P["grouped"] = g /\ P["absorbed"] = a
        /\ P["dropped"] = x
    BY HomeSetsAt
  <1>2. /\ \E c \in PathHomes : y \in P[c]
        /\ \A c, e \in PathHomes : y \in P[c] /\ y \in P[e] => c = e
    BY DEF OneHome
  <1> HIDE DEF P
  <1>3. PICK c \in PathHomes : y \in P[c] /\ \A e \in PathHomes : y \in P[e] => c = e
    BY <1>2
  <1>4. /\ "batcherCh" \in PathHomes /\ "held" \in PathHomes /\ "out" \in PathHomes
        /\ "delivered" \in PathHomes /\ "todo" \in PathHomes /\ "grouped" \in PathHomes
        /\ "absorbed" \in PathHomes /\ "dropped" \in PathHomes
    BY DEF PathHomes
  <1>5. /\ (y \in b \cup h \cup w) <=> c \in {"batcherCh", "held", "out"}
        /\ (y \in d) <=> c = "delivered"
        /\ (y \in t) <=> c = "todo"
        /\ (y \in g) <=> c = "grouped"
        /\ (y \in a) <=> c = "absorbed"
        /\ (y \in x) <=> c = "dropped"
    BY <1>1, <1>3, <1>4
  <1>6. c \in {"batcherCh", "held", "out"} \/ c \in {"delivered", "todo", "grouped", "absorbed", "dropped"}
    BY <1>1, <1>3 DEF PathHomes
  <1>7. CASE c \in {"batcherCh", "held", "out"}
    BY <1>5, <1>7
  <1>8. CASE c \in {"delivered", "todo", "grouped", "absorbed", "dropped"}
    BY <1>5, <1>8
  <1> QED BY <1>6, <1>7, <1>8

LEMMA PathCounts ==
    ASSUME PathInv
    PROVE  OneEventPerGroup
  <1>1. twice = {} /\ OneHome(PathPlaces) /\ unseen \subseteq Observation /\ in \in Seq(Observation)
    BY DEF PathInv, PathType
  <1>2. ASSUME NEW o \in Taken
        PROVE  LET At(S) == IF \E e \in S : SameReport(e, o) THEN 1 ELSE 0
                   Times == Cardinality({i \in DOMAIN Line : SameReport(Line[i], o)})
               IN Times + At(delivered) + At(todo) + At(Grouped) + At(absorbed) + At(dropped) = 1
    <2> DEFINE y == ReportOf(o)
               In(S) == IF y \in S THEN 1 ELSE 0
               At(S) == IF \E e \in S : SameReport(e, o) THEN 1 ELSE 0
               Times == Cardinality({i \in DOMAIN Line : SameReport(Line[i], o)})
    <2>1. o \in Observation /\ o.via \in SeenBy[o.of] /\ o \notin unseen /\ o \notin Range(in)
      BY DEF Taken
    <2>2. Range(in) \subseteq Observation
      BY <1>1, RangeOf
    <2>3. y \in AllReports
      BY <2>1 DEF AllReports, Reports
    <2>4. y \notin Reports(unseen) /\ y \notin Reports(Range(in))
      BY <1>1, <2>1, <2>2, ObservationFacts DEF Reports
    <2>5. \A e : SameReport(e, o) <=> ReportOf(e) = y
      BY DEF SameReport, ReportOf
    <2>6. \A S : (\E e \in S : SameReport(e, o)) <=> y \in Reports(S)
      BY <2>5 DEF Reports
    <2>7. Times = In(Reports(Range(batcherCh)) \cup Reports(HeldSet) \cup Reports(Range(out)))
      BY LineFacts, TimesInLine
    <2> HIDE DEF y, Times
    <2>8. In(Reports(Range(batcherCh)) \cup Reports(HeldSet) \cup Reports(Range(out)))
            + In(Reports(delivered)) + In(Reports(todo)) + In(Reports(GroupedIn(groups)))
            + In(Reports(absorbed)) + In(Reports(dropped)) = 1
      BY <1>1, <2>3, <2>4, HomesCounted DEF PathPlaces
    <2>9. /\ At(delivered) = In(Reports(delivered)) /\ At(todo) = In(Reports(todo))
          /\ At(GroupedIn(groups)) = In(Reports(GroupedIn(groups)))
          /\ At(absorbed) = In(Reports(absorbed)) /\ At(dropped) = In(Reports(dropped))
      BY <2>6
    <2>10. Grouped = GroupedIn(groups)
      BY DEF Grouped, GroupedIn
    <2> HIDE DEF In, At
    <2>11. Times + At(delivered) + At(todo) + At(Grouped) + At(absorbed) + At(dropped) = 1
      BY <2>7, <2>8, <2>9, <2>10
    <2> QED BY <2>11 DEF Times, At
  <1> QED BY <1>1, <1>2 DEF OneEventPerGroup

LEMMA PathAddresses ==
    ASSUME PathInv
    PROVE  AddressSurvives
  <1>1. AddressKept(Carried, absorbed)
    BY DEF PathInv
  <1>2. Surviving \cup dropped = Carried
    BY LineFacts DEF Surviving, Grouped, GroupedIn, Carried
  <1> QED BY <1>1, <1>2 DEF AddressSurvives, AddressKept, Addressed

(* Whatever the collectors report and whichever channel is full, whether the *)
(* ticker, a newer eBPF event or the shutdown flushes a group: an            *)
(* observation EventMerger.Run has received is in exactly one place, and the *)
(* batcher gets no event twice (internal/merger/merger.go: ingest,           *)
(* flushExpired, flushAll; the fanout goroutine of main_linux.go).           *)
THEOREM ReportsAccountedFor == MSpec => []OneEventPerGroup
  <1>1. MInit => PathInv
    BY PathInit
  <1>2. PathInv /\ [MNext]_mergerVars => PathInv'
    BY PathNext
  <1>3. PathInv => OneEventPerGroup
    BY PathCounts
  <1> QED BY <1>1, <1>2, <1>3, PTL DEF MSpec

(* The merge of ebpf and netlink keeps the local address, in either order of *)
(* arrival: promotion takes it over, a secondary event adds it, and neither  *)
(* a later promotion nor a later secondary loses it (merger.go: ingest with  *)
(* extractLocalAddr).                                                        *)
THEOREM AddressesSurvive == MSpec => []AddressSurvives
  <1>1. MInit => PathInv
    BY PathInit
  <1>2. PathInv /\ [MNext]_mergerVars => PathInv'
    BY PathNext
  <1>3. PathInv => AddressSurvives
    BY PathAddresses
  <1> QED BY <1>1, <1>2, <1>3, PTL DEF MSpec

\* The types: the channels keep to their capacities.
LEMMA SentInBounds ==
    ASSUME NEW S, NEW s \in Seq(S), NEW e \in S, NEW n \in Nat, Len(s) < n
    PROVE  Append(s, e) \in Seq(S) /\ Len(Append(s, e)) <= n
  OBVIOUS

LEMMA TakenInBounds ==
    ASSUME NEW S, NEW s \in Seq(S), s # << >>, NEW n \in Nat, Len(s) <= n
    PROVE  Head(s) \in S /\ Tail(s) \in Seq(S) /\ Len(Tail(s)) <= n
  BY HeadTailProperties

Typed == PathType /\ MergerTypeOK

LEMMA LineGrows ==
    ASSUME MergerTypeOK, out' = out \/ \E e : TrySend(e), OutCap \in Nat
    PROVE  Len(out') <= OutCap
  BY DEF TrySend, MergerTypeOK


LEMMA TypedNext ==
    ASSUME Typed, PathType', [MNext]_mergerVars
    PROVE  MergerTypeOK'
  <1>1. /\ PathType /\ MergerTypeOK /\ InCap \in Nat /\ OutCap \in Nat /\ BatcherCap \in Nat
        /\ Observation \subseteq Event
    BY MergerAssumption, ObservationFacts DEF Typed
  <1>2. CASE \E o \in unseen : Collect(o)
    <2>1. PICK o \in unseen : Collect(o)
      BY <1>2
    <2>2. in' \in Seq(Event) /\ Len(in') <= InCap
      BY <1>1, <2>1, SentInBounds DEF Collect, MergerTypeOK
    <2> QED BY <1>1, <2>1, <2>2 DEF Collect, MergerTypeOK, mvars, dvars, hvars
  <1>3. CASE CollectorsExit \/ MergerReturn \/ BatcherReturn \/ Shutdown \/ MainReturn \/ UNCHANGED mergerVars
    BY <1>1, <1>3 DEF CollectorsExit, MergerReturn, BatcherReturn, Shutdown, MainReturn, mergerVars,
                      MergerTypeOK, mvars, dvars, hvars
  <1>4. CASE \E S \in SUBSET Key : flushExpired(S)
    BY <1>1, <1>4 DEF flushExpired, PathType, MergerTypeOK, mvars, dvars, hvars
  <1>5. CASE ingest
    <2>1. in' \in Seq(Event) /\ Len(in') <= InCap
      BY <1>1, <1>5, TakenInBounds DEF ingest, MergerTypeOK
    <2>2. out' = out \/ \E e : TrySend(e)
      BY <1>5 DEF ingest, IngestPrimary, IngestSecondary
    <2>3. Len(out') <= OutCap
      BY <1>1, <2>2, LineGrows
    <2>4. merger' \in {"select", "emit"}
      BY <1>5 DEF ingest, MergerTypeOK
    <2>5. UNCHANGED <<unseen, collecting, fanout, held, batcherCh, batcher, main, cancelled, delivered, twice>>
      BY <1>5 DEF ingest, dvars
    <2> QED BY <1>1, <2>1, <2>3, <2>4, <2>5 DEF Typed, PathType, Keyed, MergerTypeOK
  <1>6. CASE emit
    BY <1>1, <1>6 DEF emit, PathType, MergerTypeOK, mvars, dvars, hvars
  <1>7. CASE flushAll
    <2>1. out' = out \/ \E e : TrySend(e)
      BY <1>7 DEF flushAll
    <2>2. Len(out') <= OutCap
      BY <1>1, <2>1, LineGrows
    <2>3. merger' \in {"flush", "done"}
      BY <1>7 DEF flushAll
    <2>4. UNCHANGED <<unseen, collecting, in, fanout, held, batcherCh, batcher, main, cancelled, delivered, twice>>
      BY <1>7 DEF flushAll, dvars
    <2> QED BY <1>1, <2>2, <2>3, <2>4 DEF Typed, PathType, Keyed, MergerTypeOK
  <1>8. CASE FanoutRange
    BY <1>1, <1>8 DEF FanoutRange, PathType, MergerTypeOK, mvars, dvars, hvars
  <1>9. CASE FanoutSend
    BY <1>1, <1>9 DEF FanoutSend, PathType, MergerTypeOK, mvars, dvars, hvars
  <1>10. CASE BatcherReceive
    BY <1>1, <1>10 DEF BatcherReceive, PathType, MergerTypeOK, mvars, dvars, hvars
  <1> QED BY <1>2, <1>3, <1>4, <1>5, <1>6, <1>7, <1>8, <1>9, <1>10 DEF MNext

(* The channels of the path never hold more than their capacities (fanInBufSize, *)
(* 512, fanInBufSize), whatever is sent with and without blocking, and each      *)
(* goroutine is in one of its places with what it holds there: an event to emit, *)
(* a group, nothing (collector/manager.go, merger.go: Run; main_linux.go).          *)
THEOREM PathTypeCorrect == MSpec => []MergerTypeOK
  <1> DEFINE TypedInv == PathInv /\ MergerTypeOK
  <1>1. MInit => TypedInv
    <2> SUFFICES ASSUME MInit
                 PROVE  MergerTypeOK
      BY PathInit
    <2>1. unseen \subseteq Observation /\ groups \in [Key -> Event \cup {NoEvent}]
      BY DEF MInit
    <2>2. InCap \in Nat /\ OutCap \in Nat /\ BatcherCap \in Nat
      BY MergerAssumption
    <2>3. in \in Seq(Event) /\ Len(in) <= InCap /\ out \in Seq(Event) /\ Len(out) <= OutCap
      BY <2>2 DEF MInit
    <2>4. batcherCh \in Seq(Event) /\ Len(batcherCh) <= BatcherCap
      BY <2>2 DEF MInit
    <2> QED BY <2>1, <2>3, <2>4 DEF MInit, MergerTypeOK
  <1>2. TypedInv /\ [MNext]_mergerVars => TypedInv'
    BY PathNext, TypedNext DEF PathInv, Typed
  <1>3. TypedInv => MergerTypeOK
    OBVIOUS
  <1> QED BY <1>1, <1>2, <1>3, PTL DEF MSpec


=============================================================================
