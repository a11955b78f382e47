--------------------------- MODULE LiveFeedProofs ---------------------------
(***************************************************************************)
(* The API side of the server: sessions and live feeds, for any number of  *)
(* users, tokens, connections, broadcasts, edits of the user file,         *)
(* restarts and failed writes; then, from Status on, the plugins, the      *)
(* ML models and the requests of the server process.                       *)
(***************************************************************************)
EXTENDS LiveFeed, ServerProcess, FiniteSetTheorems, SequenceTheorems, TLAPS

-----------------------------------------------------------------------------
(* Types.                                                                  *)

Claims == [sub : Users, roles : RoleGrants \cup {NoRoles}, iat : Nat, exp : Nat, root : Nat]

StoreType ==
    /\ now \in Nat /\ cacheTs \in Nat
    /\ usersFile \in UserTable \cup {Torn} /\ cli \in UserTable \cup {Torn}
    /\ cache \in UserTable
    /\ lastHeld \in Int
TokenType ==
    /\ tokens \in Seq(Claims)
    /\ revoked \subseteq Jtis /\ disk \subseteq Jtis /\ unsaved \subseteq Jtis
    /\ forgotten \subseteq Jtis /\ ended \subseteq Jtis

Handling == [pc : {"joining", "serving", "refusing", "refused"}, feed : Feeds, sub : Users, alive : BOOLEAN]
Casting  == [msg : Nat \ {0}, feed : Feeds, todo : SUBSET Sockets, dead : SUBSET Sockets]

RegistryType ==
    /\ socket \in [Sockets -> {New, Gone} \cup Handling]
    /\ connections \in [Feeds -> SUBSET Sockets]
    /\ perUser \in [Feeds -> [Users -> SUBSET Sockets]]
CastType ==
    /\ cast \in [Casters -> {NoCast} \cup Casting] /\ casts \in Nat
    /\ channel \in [Feeds -> Seq(Nat \ {0})]
    /\ owed \subseteq Sockets \X (Nat \ {0})

TypeOK == StoreType /\ TokenType /\ RegistryType /\ CastType

-----------------------------------------------------------------------------
(* The inductive invariants.                                               *)

(* The blocklist: what memory holds is on disk or is known to be unsaved,  *)
(* so a token that was ended stays out until it expires or a restart       *)
(* forgets it.                                                             *)
BlocklistInv ==
    /\ revoked \subseteq disk \cup unsaved
    /\ \A jti \in ended : Expired(jti) \/ jti \in revoked \/ jti \in forgotten

(* Every token of a session but the newest was ended, unless a restart     *)
(* forgot one of them.                                                     *)
Spoilt(root) == \E jti \in forgotten : tokens[jti].root = root
SessionInv ==
    /\ \A i \in Jtis : tokens[i].root <= i
    /\ \A i, j \in Jtis : i < j /\ tokens[i].root = tokens[j].root /\ ~ Spoilt(tokens[i].root) => i \in ended

(* The watched grant: in the file it is in force now, in the cache it was  *)
(* in force when the cache was read, in a token one TTL before its issue.  *)
Grants(table) == Probe.role \in table[Probe.user]
GrantInv ==
    /\ cacheTs <= now /\ lastHeld <= now
    /\ Grants(LoadUsers(usersFile)) => lastHeld = now
    /\ Grants(cache) => lastHeld >= 0 /\ cacheTs <= lastHeld
    /\ \A i \in Jtis : tokens[i].exp = tokens[i].iat + Lifetime
    /\ \A i \in Jtis : tokens[i].sub = Probe.user /\ Probe.role \in tokens[i].roles =>
          lastHeld >= 0 /\ tokens[i].iat <= lastHeld + UsersTTL

(* The registry: a connection in it is served on that feed.                *)
RegistryInv ==
    \A f \in Feeds :
        /\ IsFiniteSet(connections[f])
        /\ \A u \in Users : perUser[f][u] \subseteq connections[f]
        /\ \A w \in connections[f] : /\ socket[w].pc = "serving" /\ socket[w].feed = f
                                     /\ \E u \in Users : w \in perUser[f][u]
CapInv ==
    \A f \in Feeds :
        /\ Cardinality(connections[f]) <= MaxGlobal
        /\ \A u \in Users : Cardinality(perUser[f][u]) <= MaxPerUser

(* Whoever is owed a message is connected.                                 *)
OwedInv == \A p \in owed : Alive(p[1])

IInv == /\ TypeOK /\ BlocklistInv /\ SessionInv /\ GrantInv
        /\ RegistryInv /\ CapInv /\ OwedInv /\ FeedReachesAll

-----------------------------------------------------------------------------
(* What a step may do to sessions.                                         *)

LEMMA Tables ==
    ASSUME StoreType
    PROVE  /\ \A f \in UserTable \cup {Torn} : LoadUsers(f) \in UserTable
           /\ GetUsers \in UserTable /\ Empty \in UserTable
  <1>1. Empty \in UserTable
    BY DEF Empty, UserTable
  <1>2. \A f \in UserTable \cup {Torn} : LoadUsers(f) \in UserTable
    BY SessionsAssumption DEF LoadUsers
  <1> QED BY <1>1, <1>2 DEF GetUsers, StoreType

LEMMA EditCases ==
    ASSUME StoreType, CliRun
    PROVE  \E table \in UserTable : Edit(table)
  <1>1. PICK u \in Users : (\E g \in RoleGrants : CmdCreate(u, g)) \/ CmdDelete(u) \/ CmdPasswd(u)
    BY DEF CliRun
  <1>2. ASSUME NEW g \in RoleGrants, CmdCreate(u, g) PROVE \E table \in UserTable : Edit(table)
    <2>1. usersFile \in UserTable
      BY <1>2 DEF CmdCreate, StoreType
    <2>2. [usersFile EXCEPT ![u] = g] \in UserTable
      BY <2>1 DEF UserTable
    <2> QED BY <1>2, <2>2 DEF CmdCreate
  <1>3. CASE CmdDelete(u)
    <2>1. usersFile \in UserTable
      BY <1>3 DEF CmdDelete, StoreType
    <2>2. [usersFile EXCEPT ![u] = NoRoles] \in UserTable
      BY <2>1 DEF UserTable
    <2> QED BY <1>3, <2>2 DEF CmdDelete
  <1>4. CASE CmdPasswd(u)
    BY <1>4 DEF CmdPasswd, StoreType
  <1> QED BY <1>1, <1>2, <1>3, <1>4

LEMMA SessionCases ==
    ASSUME StoreType, [FNext]_feedAllVars
    PROVE  \/ UNCHANGED vars
           \/ \E u \in Users : Login(u) \/ LoginRefused(u)
           \/ \E jti \in Jtis, ok \in BOOLEAN : Refresh(jti, ok) \/ Logout(jti, ok)
           \/ \E ok \in BOOLEAN : ApiRequest(ok)
           \/ \E table \in UserTable : Edit(table)
           \/ SaveUsers \/ CliKilled \/ Tick \/ Restart
  <1>1. CASE SessionStep
    BY <1>1, EditCases DEF SessionStep
  <1>2. CASE RestartAll
    BY <1>2 DEF RestartAll
  <1>3. ASSUME NEW w \in Sockets, NEW jti \in Jtis, NEW ok \in BOOLEAN,
               WsAlerts(w, jti, ok) \/ WsDecisions(w, jti, ok)
        PROVE  UNCHANGED vars \/ ApiRequest(ok)
    <2>1. PICK f : FirstFrame(w, f, jti, ok)
      BY <1>3 DEF WsAlerts, WsDecisions
    <2>2. CASE VerifyEffect(ok)
      BY <2>1, <2>2 DEF FirstFrame, ApiRequest
    <2>3. CASE UNCHANGED <<revoked, disk, unsaved, faults>>
      BY <2>1, <2>3 DEF FirstFrame, vars, userVars
    <2> QED BY <2>1, <2>2, <2>3 DEF FirstFrame
  <1>4. ASSUME NEW w \in Sockets, Connect(w) \/ Refused(w) \/ ClientLeaves(w) \/ PingFails(w)
        PROVE  UNCHANGED vars
    BY <1>4 DEF Connect, Refused, ClientLeaves, PingFails
  <1>5. CASE AcknowledgeAlert \/ BroadcastDecision
    BY <1>5 DEF AcknowledgeAlert, BroadcastDecision, Broadcast, Snapshot
  <1>6. ASSUME NEW f \in Feeds, Relay(f) \/ ChannelLost(f) PROVE UNCHANGED vars
    BY <1>6 DEF Relay, Snapshot, ChannelLost
  <1>7. ASSUME NEW c \in Casters, SendNext(c) \/ DropDead(c) \/ CastDone(c) PROVE UNCHANGED vars
    BY <1>7 DEF SendNext, DropDead, CastDone
  <1>8. CASE UNCHANGED feedAllVars
    BY <1>8 DEF feedAllVars
  <1> QED BY <1>1, <1>2, <1>3, <1>4, <1>5, <1>6, <1>7, <1>8 DEF FNext

LEMMA StoreTypeStep ==
    ASSUME StoreType, [FNext]_feedAllVars
    PROVE  StoreType'
  <1>0. GetUsers \in UserTable /\ Empty \in UserTable
    BY Tables
  <1>1. CASE UNCHANGED vars
    BY <1>1 DEF StoreType, vars
  <1>2. CASE RefreshCache /\ UNCHANGED <<now, usersFile, cli, lastHeld>>
    <2>1. cache' \in UserTable /\ cacheTs' \in Nat
      BY <1>0, <1>2 DEF RefreshCache, StoreType
    <2> QED BY <1>2, <2>1 DEF StoreType
  <1>3. ASSUME NEW u \in Users, Login(u) \/ LoginRefused(u) PROVE StoreType'
    BY <1>2, <1>3 DEF Login, LoginRefused, userVars
  <1>4. ASSUME NEW jti \in Jtis, NEW ok \in BOOLEAN, Refresh(jti, ok) PROVE StoreType'
    BY <1>2, <1>4 DEF Refresh, userVars
  <1>5. ASSUME NEW jti \in Jtis, NEW ok \in BOOLEAN, Logout(jti, ok) \/ ApiRequest(ok) PROVE StoreType'
    BY <1>5 DEF Logout, ApiRequest, userVars, StoreType
  <1>6. ASSUME NEW ok \in BOOLEAN, ApiRequest(ok) PROVE StoreType'
    BY <1>6 DEF ApiRequest, userVars, StoreType
  <1>7. ASSUME NEW table \in UserTable, Edit(table) PROVE StoreType'
    BY <1>7 DEF Edit, Held, StoreType
  <1>8. CASE SaveUsers
    BY <1>8 DEF SaveUsers, Held, StoreType, NoWrite
  <1>9. CASE CliKilled
    BY <1>9 DEF CliKilled, NoWrite, StoreType
  <1>10. CASE Tick
    BY <1>10 DEF Tick, Held, StoreType
  <1>11. CASE Restart
    BY <1>0, <1>11 DEF Restart, userVars, StoreType
  <1> QED BY <1>1, <1>3, <1>4, <1>5, <1>6, <1>7, <1>8, <1>9, <1>10, <1>11, SessionCases

-----------------------------------------------------------------------------
(* Tokens.                                                                 *)

LEMMA IssueFacts ==
    ASSUME tokens \in Seq(Claims), NEW t \in Claims, tokens' = Append(tokens, t)
    PROVE  /\ tokens' \in Seq(Claims)
           /\ Jtis' = Jtis \cup {Len(tokens) + 1} /\ Len(tokens) + 1 \notin Jtis
           /\ \A i \in Jtis : tokens'[i] = tokens[i] /\ i < Len(tokens) + 1 /\ i \in Nat
           /\ tokens'[Len(tokens) + 1] = t
  BY DEF Jtis

LEMMA TokenFacts ==
    ASSUME StoreType, NEW u \in Users, NEW root \in Nat
    PROVE  Token(u, GetUsers[u], root) \in Claims
  <1>1. GetUsers[u] \in RoleGrants \cup {NoRoles}
    BY Tables DEF UserTable
  <1>2. now \in Nat /\ now + Lifetime \in Nat
    BY SessionsAssumption DEF StoreType
  <1> QED BY <1>1, <1>2 DEF Token, Claims

LEMMA ClaimFacts ==
    ASSUME tokens \in Seq(Claims), NEW i \in Jtis
    PROVE  /\ tokens[i] \in Claims /\ tokens[i].sub \in Users /\ tokens[i].root \in Nat
           /\ tokens[i].iat \in Nat /\ tokens[i].exp \in Nat /\ i \in Nat
  <1>1. tokens[i] \in Claims /\ i \in Nat
    BY DEF Jtis
  <1> QED BY <1>1 DEF Claims

\* The blocklist becomes list, in memory, and on disk unless the save fails.
Listed(list) ==
    /\ revoked' = list
    /\ \/ disk' = list /\ unsaved' = {}
       \/ UNCHANGED disk /\ unsaved' = list

\* What a step is for tokens and the blocklist.
Rested == UNCHANGED <<tokens, revoked, disk, unsaved, forgotten, ended>>
Issued(u) ==
    /\ tokens' = Append(tokens, Token(u, GetUsers[u], Len(tokens) + 1))
    /\ UNCHANGED <<now, revoked, disk, unsaved, forgotten, ended>>
Rotated(jti) ==
    /\ ~ Expired(jti) /\ jti \notin revoked
    /\ tokens' = Append(tokens, Token(tokens[jti].sub, GetUsers[tokens[jti].sub], tokens[jti].root))
    /\ Listed(Kept \cup {jti}) /\ ended' = ended \cup {jti}
    /\ UNCHANGED <<now, forgotten>>
LoggedOut(jti) ==
    /\ Listed(revoked \cup {jti}) /\ ended' = ended \cup {jti}
    /\ UNCHANGED <<now, tokens, forgotten>>
Pruned == Listed(Kept) /\ UNCHANGED <<now, tokens, forgotten, ended>>
Reread ==
    /\ revoked' = disk /\ forgotten' = forgotten \cup unsaved /\ unsaved' = {}
    /\ UNCHANGED <<now, tokens, disk, ended>>
Outcome ==
    \/ Rested /\ now' \in {now, now + 1}
    \/ \E u \in Users : Issued(u)
    \/ \E jti \in Jtis : Rotated(jti) \/ LoggedOut(jti)
    \/ Pruned \/ Reread

LEMMA TokenCases ==
    ASSUME StoreType, TokenType, [FNext]_feedAllVars
    PROVE  Outcome
  <1>1. CASE UNCHANGED vars
    BY <1>1 DEF Outcome, Rested, vars
  <1>2. ASSUME NEW u \in Users, Login(u) PROVE Outcome
    BY <1>2 DEF Login, Outcome, Issued
  <1>3. ASSUME NEW u \in Users, LoginRefused(u) PROVE Outcome
    BY <1>3 DEF LoginRefused, Outcome, Rested, sessionVars
  <1>4. ASSUME NEW list, NEW ok \in BOOLEAN, revoked' = list, SaveBlocklist(list, ok) PROVE Listed(list)
    BY <1>4 DEF SaveBlocklist, Listed
  <1>5. ASSUME NEW jti \in Jtis, NEW ok \in BOOLEAN, Refresh(jti, ok) PROVE Outcome
    <2>1. ~ Expired(jti) /\ jti \notin revoked
      BY <1>5 DEF Refresh, Verified, Kept
    <2>2. Listed(Kept \cup {jti}) /\ ended' = ended \cup {jti}
      BY <1>4, <1>5 DEF Refresh, RevokeEffect
    <2>3. Rotated(jti)
      BY <1>5, <2>1, <2>2 DEF Refresh, Rotated
    <2> QED BY <2>3 DEF Outcome
  <1>6. ASSUME NEW jti \in Jtis, NEW ok \in BOOLEAN, Logout(jti, ok) PROVE Outcome
    <2>1. Listed(revoked \cup {jti}) /\ ended' = ended \cup {jti}
      BY <1>4, <1>6 DEF Logout, RevokeEffect
    <2> QED BY <1>6, <2>1 DEF Logout, LoggedOut, Outcome
  <1>7. ASSUME NEW ok \in BOOLEAN, ApiRequest(ok) PROVE Outcome
    <2>1. Listed(Kept)
      BY <1>4, <1>7 DEF ApiRequest, VerifyEffect
    <2> QED BY <1>7, <2>1 DEF ApiRequest, Pruned, Outcome
  <1>8. ASSUME NEW table \in UserTable, Edit(table) PROVE Outcome
    BY <1>8 DEF Edit, Outcome, Rested, sessionVars
  <1>9. CASE SaveUsers \/ CliKilled \/ Tick
    BY <1>9 DEF SaveUsers, CliKilled, Tick, Outcome, Rested, sessionVars
  <1>10. CASE Restart
    BY <1>10 DEF Restart, Outcome, Reread
  <1> QED BY <1>1, <1>2, <1>3, <1>5, <1>6, <1>7, <1>8, <1>9, <1>10, SessionCases

LEMMA TokenTypeStep ==
    ASSUME StoreType, TokenType, Outcome
    PROVE  TokenType'
  <1>0. tokens \in Seq(Claims) /\ Kept \subseteq Jtis
    BY DEF TokenType, Kept
  <1>1. CASE Rested
    BY <1>1 DEF Rested, TokenType, Jtis
  <1>2. ASSUME NEW u \in Users, Issued(u) PROVE TokenType'
    <2>1. Token(u, GetUsers[u], Len(tokens) + 1) \in Claims
      BY <1>0, TokenFacts
    <2>2. tokens' \in Seq(Claims) /\ Jtis \subseteq Jtis'
      BY <1>0, <1>2, <2>1, IssueFacts DEF Issued
    <2> QED BY <1>2, <2>2 DEF Issued, TokenType
  <1>3. ASSUME NEW jti \in Jtis, Rotated(jti) PROVE TokenType'
    <2>1. Token(tokens[jti].sub, GetUsers[tokens[jti].sub], tokens[jti].root) \in Claims
      BY <1>0, TokenFacts, ClaimFacts
    <2>2. tokens' \in Seq(Claims) /\ Jtis \subseteq Jtis'
      BY <1>0, <1>3, <2>1, IssueFacts DEF Rotated
    <2> QED BY <1>0, <1>3, <2>2 DEF Rotated, Listed, TokenType
  <1>4. ASSUME NEW jti \in Jtis, LoggedOut(jti) PROVE TokenType'
    BY <1>4 DEF LoggedOut, Listed, TokenType, Jtis
  <1>5. CASE Pruned
    BY <1>0, <1>5 DEF Pruned, Listed, TokenType, Jtis
  <1>6. CASE Reread
    BY <1>6 DEF Reread, TokenType, Jtis
  <1> QED BY <1>1, <1>2, <1>3, <1>4, <1>5, <1>6 DEF Outcome

\* Tokens never change, and what has expired stays expired.
LEMMA TokensGrow ==
    ASSUME StoreType, TokenType, Outcome
    PROVE  /\ Jtis \subseteq Jtis' /\ forgotten \subseteq forgotten' /\ ended \subseteq ended'
           /\ \A i \in Jtis : tokens'[i] = tokens[i]
           /\ now' \in {now, now + 1}
           /\ \A i \in Jtis : Expired(i) => Expired(i)'
  <1>0. tokens \in Seq(Claims)
    BY DEF TokenType
  <1>1. /\ Jtis \subseteq Jtis' /\ \A i \in Jtis : tokens'[i] = tokens[i]
    <2>1. CASE UNCHANGED tokens
      BY <2>1 DEF Jtis
    <2>2. ASSUME NEW u \in Users, Issued(u)
          PROVE  Jtis \subseteq Jtis' /\ \A i \in Jtis : tokens'[i] = tokens[i]
      <3>1. Token(u, GetUsers[u], Len(tokens) + 1) \in Claims
        BY <1>0, TokenFacts
      <3> QED BY <1>0, <2>2, <3>1, IssueFacts DEF Issued
    <2>3. ASSUME NEW jti \in Jtis, Rotated(jti)
          PROVE  Jtis \subseteq Jtis' /\ \A i \in Jtis : tokens'[i] = tokens[i]
      <3>1. Token(tokens[jti].sub, GetUsers[tokens[jti].sub], tokens[jti].root) \in Claims
        BY <1>0, TokenFacts, ClaimFacts
      <3> QED BY <1>0, <2>3, <3>1, IssueFacts DEF Rotated
    <2> QED BY <2>1, <2>2, <2>3 DEF Outcome, Rested, LoggedOut, Pruned, Reread
  <1>2. now' \in {now, now + 1} /\ forgotten \subseteq forgotten' /\ ended \subseteq ended'
    BY DEF Outcome, Rested, Issued, Rotated, LoggedOut, Pruned, Reread
  <1>3. ASSUME NEW i \in Jtis, Expired(i) PROVE Expired(i)'
    <2>1. tokens[i].exp \in Nat /\ now \in Nat /\ tokens[i].exp <= now
      BY <1>0, <1>3, ClaimFacts DEF Expired, StoreType
    <2> QED BY <1>1, <1>2, <2>1 DEF Expired
  <1> QED BY <1>1, <1>2, <1>3

LEMMA BlocklistStep ==
    ASSUME StoreType, TokenType, BlocklistInv, Outcome
    PROVE  BlocklistInv'
  <1>0. /\ forgotten \subseteq forgotten' /\ ended \subseteq Jtis /\ revoked \subseteq Jtis
        /\ \A i \in Jtis : Expired(i) => Expired(i)'
    BY TokensGrow DEF TokenType
  <1>1. ASSUME NEW list, Listed(list), Kept \subseteq list, ended' \subseteq ended \cup list
        PROVE  BlocklistInv'
    <2>1. revoked' = list /\ revoked' \subseteq disk' \cup unsaved'
      BY <1>1 DEF Listed
    <2>2. \A j \in revoked : Expired(j) \/ j \in list
      BY <1>1 DEF Kept
    <2>3. \A j \in ended' : Expired(j)' \/ j \in revoked' \/ j \in forgotten'
      BY <1>0, <1>1, <2>1, <2>2 DEF BlocklistInv
    <2> QED BY <2>1, <2>3 DEF BlocklistInv
  <1>2. CASE Rested \/ \E u \in Users : Issued(u)
    <2>1. UNCHANGED <<revoked, disk, unsaved, forgotten, ended>>
      BY <1>2 DEF Rested, Issued
    <2>2. \A j \in ended' : Expired(j)' \/ j \in revoked' \/ j \in forgotten'
      BY <1>0, <2>1 DEF BlocklistInv
    <2> QED BY <2>1, <2>2 DEF BlocklistInv
  <1>3. ASSUME NEW jti \in Jtis, Rotated(jti) PROVE BlocklistInv'
    BY <1>1, <1>3 DEF Rotated
  <1>4. ASSUME NEW jti \in Jtis, LoggedOut(jti) PROVE BlocklistInv'
    <2>1. Kept \subseteq revoked \cup {jti}
      BY DEF Kept
    <2> QED BY <1>1, <1>4, <2>1 DEF LoggedOut
  <1>5. CASE Pruned
    BY <1>1, <1>5 DEF Pruned
  <1>6. CASE Reread
    <2>1. revoked' = disk' /\ UNCHANGED ended /\ disk' = disk /\ forgotten' = forgotten \cup unsaved
      BY <1>6 DEF Reread
    <2>2. \A j \in ended' : Expired(j)' \/ j \in revoked' \/ j \in forgotten'
      BY <1>0, <2>1 DEF BlocklistInv
    <2> QED BY <2>1, <2>2 DEF BlocklistInv
  <1> QED BY <1>2, <1>3, <1>4, <1>5, <1>6 DEF Outcome

LEMMA SessionInvStep ==
    ASSUME StoreType, TokenType, BlocklistInv, SessionInv, Outcome
    PROVE  SessionInv'
  <1>0. /\ tokens \in Seq(Claims) /\ forgotten \subseteq Jtis /\ ended \subseteq ended'
        /\ forgotten \subseteq forgotten' /\ \A i \in Jtis : tokens'[i] = tokens[i]
    BY TokensGrow DEF TokenType
  <1>1. ASSUME NEW r, Spoilt(r) PROVE Spoilt(r)'
    BY <1>0, <1>1 DEF Spoilt
  <1>2. ASSUME NEW i \in Jtis, NEW j \in Jtis, i < j, tokens[i].root = tokens[j].root,
               ~ Spoilt(tokens[i].root)
        PROVE  i \in ended'
    BY <1>0, <1>2 DEF SessionInv
  <1>3. CASE UNCHANGED tokens
    <2>1. Jtis' = Jtis
      BY <1>3 DEF Jtis
    <2>2. \A i \in Jtis : ~ Spoilt(tokens[i].root)' => ~ Spoilt(tokens[i].root)
      <3>1. ASSUME NEW i \in Jtis, Spoilt(tokens[i].root) PROVE Spoilt(tokens[i].root)'
        <4>1. PICK r : r = tokens[i].root
          OBVIOUS
        <4>2. Spoilt(r)'
          BY <1>1, <3>1, <4>1
        <4> QED BY <1>3, <4>1, <4>2
      <3> QED BY <3>1
    <2> QED BY <1>2, <1>3, <2>1, <2>2 DEF SessionInv
  <1>4. ASSUME NEW t \in Claims, tokens' = Append(tokens, t), t.root <= Len(tokens) + 1,
               \A i \in Jtis : tokens[i].root = t.root /\ ~ Spoilt(t.root) => i \in ended'
        PROVE  SessionInv'
    <2> DEFINE n == Len(tokens) + 1
    <2>1. /\ Jtis' = Jtis \cup {n} /\ tokens'[n] = t
          /\ \A i \in Jtis : i < n /\ i \in Nat /\ i # n
      BY <1>0, <1>4, IssueFacts
    <2>2. n \in Nat
      BY <1>0
    <2> HIDE DEF n
    <2>3. \A i \in Jtis' : tokens'[i].root <= i
      BY <1>0, <1>4, <2>1 DEF SessionInv, n
    <2>4. ASSUME NEW i \in Jtis', NEW j \in Jtis', i < j, tokens'[i].root = tokens'[j].root,
                 NEW r, r = tokens'[i].root, ~ Spoilt(r)'
          PROVE  i \in ended'
      <3>1. ~ Spoilt(r)
        BY <1>1, <2>4
      <3>2. i \in Jtis
        BY <2>1, <2>2, <2>4
      <3>3. tokens[i].root = r
        BY <1>0, <2>4, <3>2
      <3>4. CASE j = n
        BY <1>4, <2>1, <2>4, <3>1, <3>2, <3>3, <3>4
      <3>5. CASE j \in Jtis
        BY <1>0, <1>2, <2>4, <3>1, <3>2, <3>3, <3>5
      <3> QED BY <2>1, <3>4, <3>5
    <2> QED BY <2>3, <2>4 DEF SessionInv
  <1>5. ASSUME NEW u \in Users, Issued(u) PROVE SessionInv'
    <2> DEFINE t == Token(u, GetUsers[u], Len(tokens) + 1)
    <2>1. t \in Claims /\ tokens' = Append(tokens, t) /\ t.root = Len(tokens) + 1
      BY <1>0, <1>5, TokenFacts DEF Issued, Token
    <2>2. Len(tokens) + 1 \in Nat
      BY <1>0
    <2>3. \A i \in Jtis : tokens[i].root # t.root
      <3>1. ASSUME NEW i \in Jtis PROVE tokens[i].root # Len(tokens) + 1
        <4>1. tokens[i].root \in Nat /\ tokens[i].root <= i /\ i \in Nat /\ i <= Len(tokens)
          BY <1>0, ClaimFacts DEF SessionInv, Jtis
        <4> QED BY <1>0, <4>1
      <3> QED BY <2>1, <3>1
    <2> HIDE DEF t
    <2> QED BY <1>4, <2>1, <2>2, <2>3
  <1>6. ASSUME NEW jti \in Jtis, Rotated(jti) PROVE SessionInv'
    <2> DEFINE t == Token(tokens[jti].sub, GetUsers[tokens[jti].sub], tokens[jti].root)
    <2>1. t \in Claims /\ tokens' = Append(tokens, t) /\ t.root = tokens[jti].root
      BY <1>0, <1>6, TokenFacts, ClaimFacts DEF Rotated, Token
    <2>2. t.root <= Len(tokens) + 1
      <3>1. tokens[jti].root \in Nat /\ tokens[jti].root <= jti /\ jti \in Nat /\ jti <= Len(tokens)
        BY <1>0, ClaimFacts DEF SessionInv, Jtis
      <3> QED BY <1>0, <2>1, <3>1
    <2>3. ASSUME NEW i \in Jtis, tokens[i].root = t.root, ~ Spoilt(t.root) PROVE i \in ended'
      <3>1. jti \in ended' /\ ~ Expired(jti) /\ jti \notin revoked
        BY <1>6 DEF Rotated
      <3>2. jti \notin ended
        BY <2>1, <2>3, <3>1 DEF BlocklistInv, Spoilt
      <3>3. ~ (jti < i)
        BY <2>1, <2>3, <3>2 DEF SessionInv
      <3>4. i < jti \/ i = jti
        BY <3>3 DEF Jtis
      <3> QED BY <1>2, <2>1, <2>3, <3>1, <3>4
    <2> HIDE DEF t
    <2> QED BY <1>4, <2>1, <2>2, <2>3
  <1> QED BY <1>3, <1>5, <1>6 DEF Outcome, Rested, LoggedOut, Pruned, Reread

-----------------------------------------------------------------------------
(* Roles.                                                                  *)

\* What GetUsers answers is at most one TTL old.
LEMMA FreshGrant ==
    ASSUME StoreType, GrantInv, RefreshCache
    PROVE  /\ Grants(GetUsers) => lastHeld >= 0 /\ now <= lastHeld + UsersTTL
           /\ cacheTs' <= now /\ cacheTs' \in Nat
           /\ Grants(cache') => lastHeld >= 0 /\ cacheTs' <= lastHeld
  <1>0. /\ now \in Nat /\ cacheTs \in Nat /\ UsersTTL \in Nat /\ lastHeld \in Int
    BY SessionsAssumption DEF StoreType
  <1>1. CASE CacheStale
    <2>1. GetUsers = LoadUsers(usersFile) /\ cache' = GetUsers /\ cacheTs' = now
      BY <1>1 DEF RefreshCache, GetUsers
    <2>2. Grants(GetUsers) => lastHeld = now
      BY <2>1 DEF GrantInv
    <2> QED BY <1>0, <2>1, <2>2
  <1>2. CASE ~ CacheStale
    <2>1. GetUsers = cache /\ cache' = GetUsers /\ cacheTs' = cacheTs
      BY <1>2 DEF RefreshCache, GetUsers
    <2>2. now - cacheTs <= UsersTTL
      BY <1>0, <1>2 DEF CacheStale
    <2>3. cacheTs <= now /\ (Grants(cache) => lastHeld >= 0 /\ cacheTs <= lastHeld)
      BY DEF GrantInv
    <2> QED BY <1>0, <2>1, <2>2, <2>3
  <1> QED BY <1>1, <1>2

\* Tokens and the grant, when a token may be issued.
TokenGrants ==
    /\ \A i \in Jtis : tokens[i].exp = tokens[i].iat + Lifetime
    /\ \A i \in Jtis : tokens[i].sub = Probe.user /\ Probe.role \in tokens[i].roles =>
          lastHeld >= 0 /\ tokens[i].iat <= lastHeld + UsersTTL

LEMMA IssueGrants ==
    ASSUME StoreType, TokenType, GrantInv, RefreshCache, UNCHANGED <<now, lastHeld>>,
           NEW u \in Users, NEW root \in Nat, tokens' = Append(tokens, Token(u, GetUsers[u], root))
    PROVE  TokenGrants'
  <1> DEFINE t == Token(u, GetUsers[u], root)
  <1>1. /\ t \in Claims /\ t.sub = u /\ t.roles = GetUsers[u] /\ t.iat = now /\ t.exp = now + Lifetime
    BY TokenFacts DEF Token
  <1>2. /\ Jtis' = Jtis \cup {Len(tokens) + 1} /\ tokens'[Len(tokens) + 1] = t
        /\ \A i \in Jtis : tokens'[i] = tokens[i]
    BY <1>1, IssueFacts DEF TokenType
  <1>3. t.sub = Probe.user /\ Probe.role \in t.roles => lastHeld >= 0 /\ t.iat <= lastHeld + UsersTTL
    BY <1>1, FreshGrant DEF Grants
  <1> HIDE DEF t
  <1> QED BY <1>1, <1>2, <1>3 DEF TokenGrants, GrantInv

LEMMA KeptGrants ==
    ASSUME StoreType, TokenType, GrantInv, UNCHANGED tokens, lastHeld' \in Int, lastHeld' >= lastHeld
    PROVE  TokenGrants'
  <1>1. lastHeld \in Int /\ UsersTTL \in Nat /\ Jtis' = Jtis
    BY SessionsAssumption DEF StoreType, Jtis
  <1>2. ASSUME NEW i \in Jtis, tokens[i].sub = Probe.user, Probe.role \in tokens[i].roles
        PROVE  lastHeld' >= 0 /\ tokens[i].iat <= lastHeld' + UsersTTL
    <2>1. tokens[i].iat \in Nat
      BY ClaimFacts DEF TokenType
    <2>2. lastHeld >= 0 /\ tokens[i].iat <= lastHeld + UsersTTL
      BY <1>2 DEF GrantInv
    <2> QED BY <1>1, <2>1, <2>2
  <1> QED BY <1>1, <1>2 DEF TokenGrants, GrantInv

LEMMA GrantStep ==
    ASSUME StoreType, TokenType, GrantInv, [FNext]_feedAllVars
    PROVE  GrantInv'
  <1>0. /\ now \in Nat /\ cacheTs \in Nat /\ lastHeld \in Int /\ UsersTTL \in Nat
        /\ StoreType'
    BY SessionsAssumption, StoreTypeStep DEF StoreType
  <1>1. CASE UNCHANGED <<now, usersFile, cache, cacheTs, tokens, lastHeld>>
    BY <1>1 DEF GrantInv, Jtis, Grants, LoadUsers, Torn
  <1>2. CASE RefreshCache /\ TokenGrants' /\ UNCHANGED <<now, usersFile, lastHeld>>
    <2>1. cacheTs' <= now /\ (Grants(cache') => lastHeld >= 0 /\ cacheTs' <= lastHeld)
      BY <1>2, FreshGrant
    <2>2. Grants(cache)' => Grants(cache')
      BY DEF Grants
    <2>3. Grants(LoadUsers(usersFile))' => Grants(LoadUsers(usersFile))
      BY <1>2 DEF Grants, LoadUsers, Torn
    <2> QED BY <1>2, <2>1, <2>2, <2>3 DEF GrantInv, TokenGrants
  <1>3. ASSUME NEW u \in Users, Login(u) PROVE GrantInv'
    <2>1. RefreshCache /\ UNCHANGED <<now, usersFile, lastHeld>>
      BY <1>3 DEF Login, userVars
    <2>2. Len(tokens) + 1 \in Nat
      BY DEF TokenType
    <2>3. TokenGrants'
      BY <1>3, <2>1, <2>2, IssueGrants DEF Login
    <2> QED BY <1>2, <2>1, <2>3
  <1>4. ASSUME NEW u \in Users, LoginRefused(u) PROVE GrantInv'
    <2>1. RefreshCache /\ UNCHANGED <<now, usersFile, lastHeld, tokens>>
      BY <1>4 DEF LoginRefused, userVars, sessionVars
    <2>2. TokenGrants'
      BY <1>0, <2>1, KeptGrants
    <2> QED BY <1>2, <2>1, <2>2
  <1>5. ASSUME NEW jti \in Jtis, NEW ok \in BOOLEAN, Refresh(jti, ok) PROVE GrantInv'
    <2>1. RefreshCache /\ UNCHANGED <<now, usersFile, lastHeld>>
      BY <1>5 DEF Refresh, userVars
    <2>2. tokens[jti].sub \in Users /\ tokens[jti].root \in Nat
      BY ClaimFacts DEF TokenType
    <2>3. TokenGrants'
      BY <1>5, <2>1, <2>2, IssueGrants DEF Refresh
    <2> QED BY <1>2, <2>1, <2>3
  <1>6. ASSUME NEW jti \in Jtis, NEW ok \in BOOLEAN, Logout(jti, ok) PROVE GrantInv'
    BY <1>1, <1>6 DEF Logout, userVars
  <1>7. ASSUME NEW ok \in BOOLEAN, ApiRequest(ok) PROVE GrantInv'
    BY <1>1, <1>7 DEF ApiRequest, userVars
  <1>8. ASSUME NEW t \in {now, now + 1}, now' = t, UNCHANGED <<cache, cacheTs, tokens>>,
               lastHeld' = IF Grants(LoadUsers(usersFile)') THEN t ELSE lastHeld
        PROVE  GrantInv'
    <2>1. lastHeld <= now /\ cacheTs <= now /\ (Grants(cache) => lastHeld >= 0 /\ cacheTs <= lastHeld)
      BY DEF GrantInv
    <2>2. lastHeld' >= lastHeld /\ lastHeld' <= now' /\ cacheTs' <= now' /\ lastHeld' \in Int
      BY <1>0, <1>8, <2>1
    <2>3. TokenGrants'
      BY <1>8, <2>2, KeptGrants
    <2>4. Grants(LoadUsers(usersFile))' => lastHeld' = now'
      BY <1>8 DEF Grants
    <2>5. Grants(cache)' => lastHeld' >= 0 /\ cacheTs' <= lastHeld'
      <3>1. Grants(cache)' => Grants(cache)
        BY <1>8 DEF Grants
      <3> QED BY <1>0, <1>8, <2>1, <2>2, <3>1
    <2> QED BY <2>2, <2>3, <2>4, <2>5 DEF GrantInv, TokenGrants
  <1>9. ASSUME NEW table \in UserTable, Edit(table) PROVE GrantInv'
    BY <1>8, <1>9 DEF Edit, Held, Grants, LoadUsers, sessionVars, Torn, Empty
  <1>10. CASE SaveUsers
    BY <1>8, <1>10 DEF SaveUsers, Held, Grants, LoadUsers, sessionVars, Torn, Empty
  <1>11. CASE CliKilled
    BY <1>1, <1>11 DEF CliKilled, sessionVars
  <1>12. CASE Tick
    BY <1>8, <1>12 DEF Tick, Held, Grants, LoadUsers, sessionVars, Torn, Empty
  <1>13. CASE Restart
    <2>1. UNCHANGED <<now, usersFile, tokens, lastHeld>> /\ cache' = Empty /\ cacheTs' = 0
      BY <1>13 DEF Restart, userVars
    <2>2. ~ Grants(cache)'
      BY <2>1, SessionsAssumption DEF Grants, Empty, NoRoles
    <2>3. TokenGrants'
      BY <1>0, <2>1, KeptGrants
    <2>4. Grants(LoadUsers(usersFile))' => Grants(LoadUsers(usersFile))
      BY <2>1 DEF Grants, LoadUsers, Torn
    <2> QED BY <1>0, <2>1, <2>2, <2>3, <2>4 DEF GrantInv, TokenGrants
  <1>14. CASE UNCHANGED vars
    BY <1>1, <1>14 DEF vars
  <1> QED BY <1>3, <1>4, <1>5, <1>6, <1>7, <1>9, <1>10, <1>11, <1>12, <1>13, <1>14, SessionCases

-----------------------------------------------------------------------------
(* The registry.                                                           *)

LEMMA RegistryCases ==
    ASSUME [FNext]_feedAllVars
    PROVE  \/ UNCHANGED registryVars
           \/ RestartAll
           \/ \E w \in Sockets, f \in Feeds : \E jti \in Jtis, ok \in BOOLEAN : FirstFrame(w, f, jti, ok)
           \/ \E w \in Sockets : Connect(w) \/ Refused(w) \/ ClientLeaves(w) \/ PingFails(w)
           \/ \E c \in Casters : DropDead(c)
  <1>1. CASE SessionStep /\ UNCHANGED feedVars
    BY <1>1 DEF feedVars
  <1>2. ASSUME NEW w \in Sockets, NEW jti \in Jtis, NEW ok \in BOOLEAN,
               WsAlerts(w, jti, ok) \/ WsDecisions(w, jti, ok)
        PROVE  \E f \in Feeds : FirstFrame(w, f, jti, ok)
    BY <1>2 DEF WsAlerts, WsDecisions, Feeds
  <1>3. CASE AcknowledgeAlert \/ BroadcastDecision
    BY <1>3 DEF AcknowledgeAlert, BroadcastDecision, Broadcast, Snapshot
  <1>4. ASSUME NEW f \in Feeds, Relay(f) \/ ChannelLost(f) PROVE UNCHANGED registryVars
    BY <1>4 DEF Relay, Snapshot, ChannelLost
  <1>5. ASSUME NEW c \in Casters, SendNext(c) \/ CastDone(c) PROVE UNCHANGED registryVars
    BY <1>5 DEF SendNext, CastDone
  <1>6. CASE UNCHANGED feedAllVars
    BY <1>6 DEF feedAllVars, feedVars
  <1> QED BY <1>1, <1>2, <1>3, <1>4, <1>5, <1>6 DEF FNext

LEMMA SocketFacts ==
    ASSUME RegistryType, NEW w \in Sockets
    PROVE  /\ socket[w].pc \in {"joining", "serving", "refusing", "refused"} =>
                 socket[w] \in Handling /\ socket[w].feed \in Feeds /\ socket[w].sub \in Users
           /\ socket[w] = New => socket[w].pc = "new"
  <1>1. socket[w] \in {New, Gone} \cup Handling
    BY DEF RegistryType
  <1>2. socket[w] \in Handling => socket[w].feed \in Feeds /\ socket[w].sub \in Users
    BY DEF Handling
  <1> QED BY <1>1, <1>2 DEF New, Gone

\* A handler moves on, and nothing else does.
Moves(w, s) == /\ s \in {New, Gone} \cup Handling
               /\ socket' = [socket EXCEPT ![w] = s]
Removed(w, f) ==
    /\ connections' \in [Feeds -> SUBSET Sockets] /\ connections'[f] = connections[f] \ {w}
    /\ perUser' \in [Feeds -> [Users -> SUBSET Sockets]]
    /\ \A u \in Users : perUser'[f][u] = perUser[f][u] \ {w}
    /\ \A g \in Feeds : g # f => connections'[g] = connections[g] /\ perUser'[g] = perUser[g]
Added(w, f, u) ==
    /\ connections' \in [Feeds -> SUBSET Sockets] /\ connections'[f] = connections[f] \cup {w}
    /\ perUser' \in [Feeds -> [Users -> SUBSET Sockets]]
    /\ perUser'[f][u] = perUser[f][u] \cup {w}
    /\ \A v \in Users : v # u => perUser'[f][v] = perUser[f][v]
    /\ \A g \in Feeds : g # f => connections'[g] = connections[g] /\ perUser'[g] = perUser[g]

LEMMA DisconnectEffect ==
    ASSUME RegistryType, NEW w \in Sockets, NEW f \in Feeds, Disconnect(w, f)
    PROVE  Removed(w, f)
  <1>1. /\ connections' = [connections EXCEPT ![f] = connections[f] \ {w}]
        /\ perUser' = [perUser EXCEPT ![f] = [u \in Users |-> perUser[f][u] \ {w}]]
    BY DEF Disconnect
  <1>2. perUser[f] \in [Users -> SUBSET Sockets]
    BY DEF RegistryType
  <1>3. [u \in Users |-> perUser[f][u] \ {w}] \in [Users -> SUBSET Sockets]
    BY <1>2
  <1> QED BY <1>1, <1>3 DEF Removed, RegistryType

LEMMA FirstFrameEffect ==
    ASSUME RegistryType, TokenType, NEW w \in Sockets, NEW f \in Feeds, NEW jti \in Jtis,
           NEW ok \in BOOLEAN, FirstFrame(w, f, jti, ok)
    PROVE  \E s \in Handling : s.pc = "joining" /\ Moves(w, s) /\ socket[w].pc = "new"
  <1> DEFINE s == [pc |-> "joining", feed |-> f, sub |-> tokens[jti].sub, alive |-> TRUE]
  <1>1. tokens[jti].sub \in Users
    BY ClaimFacts DEF TokenType
  <1>2. s \in Handling /\ s.pc = "joining"
    BY <1>1 DEF Handling
  <1>3. socket' = [socket EXCEPT ![w] = s] /\ socket[w].pc = "new"
    BY SocketFacts DEF FirstFrame
  <1> HIDE DEF s
  <1> QED BY <1>2, <1>3 DEF Moves

LEMMA ConnectEffect ==
    ASSUME RegistryType, NEW w \in Sockets, Connect(w)
    PROVE  \E f \in Feeds, u \in Users : \E s \in Handling :
              /\ socket[w].pc = "joining" /\ s.feed = f /\ Moves(w, s)
              /\ \/ s.pc = "refusing" /\ UNCHANGED <<connections, perUser>>
                 \/ s.pc = "serving" /\ ~ AtCap(f, u) /\ Added(w, f, u)
  <1>1. PICK f \in Feeds, u \in Users : f = socket[w].feed /\ u = socket[w].sub
    BY SocketFacts DEF Connect
  <1>2. socket[w].pc = "joining" /\ socket[w] \in Handling
    BY SocketFacts DEF Connect
  <1>3. CASE AtCap(f, u)
    <2>1. PICK s \in Handling : s.pc = "refusing" /\ s.feed = f /\ socket' = [socket EXCEPT ![w] = s]
      <3> DEFINE s == [socket[w] EXCEPT !.pc = "refusing"]
      <3>1. s \in Handling /\ s.pc = "refusing" /\ s.feed = f
        BY <1>1, <1>2 DEF Handling
      <3>2. socket' = [socket EXCEPT ![w] = s]
        BY <1>1, <1>3 DEF Connect
      <3> QED BY <3>1, <3>2
    <2>2. UNCHANGED <<connections, perUser>>
      BY <1>1, <1>3 DEF Connect
    <2> QED BY <1>2, <2>1, <2>2 DEF Moves
  <1>4. CASE ~ AtCap(f, u)
    <2>1. PICK s \in Handling : s.pc = "serving" /\ s.feed = f /\ socket' = [socket EXCEPT ![w] = s]
      <3> DEFINE s == [socket[w] EXCEPT !.pc = "serving"]
      <3>1. s \in Handling /\ s.pc = "serving" /\ s.feed = f
        BY <1>1, <1>2 DEF Handling
      <3>2. socket' = [socket EXCEPT ![w] = s]
        BY <1>1, <1>4 DEF Connect
      <3> QED BY <3>1, <3>2
    <2>2. /\ connections' = [connections EXCEPT ![f] = connections[f] \cup {w}]
          /\ perUser' = [perUser EXCEPT ![f][u] = perUser[f][u] \cup {w}]
      BY <1>1, <1>4 DEF Connect
    <2>3. Added(w, f, u)
      BY <2>2 DEF Added, RegistryType
    <2> QED BY <1>2, <1>4, <2>1, <2>3 DEF Moves
  <1> QED BY <1>3, <1>4

LEMMA RefusedEffect ==
    ASSUME RegistryType, NEW w \in Sockets, Refused(w)
    PROVE  \E s \in Handling : s.pc = "refused" /\ Moves(w, s) /\ socket[w].pc = "refusing"
  <1>1. socket[w].pc = "refusing" /\ socket[w] \in Handling
    BY SocketFacts DEF Refused
  <1> DEFINE s == [socket[w] EXCEPT !.pc = "refused", !.alive = FALSE]
  <1>2. s \in Handling /\ s.pc = "refused"
    BY <1>1 DEF Handling
  <1>3. socket' = [socket EXCEPT ![w] = s]
    BY <1>2 DEF Refused, RegistryType
  <1> HIDE DEF s
  <1> QED BY <1>1, <1>2, <1>3 DEF Moves

LEMMA LeavesEffect ==
    ASSUME RegistryType, NEW w \in Sockets, ClientLeaves(w)
    PROVE  \E s \in Handling : /\ s.pc = socket[w].pc /\ s.feed = socket[w].feed
                               /\ Moves(w, s) /\ socket[w].pc \in {"joining", "serving"}
  <1>1. socket[w].pc \in {"joining", "serving"} /\ socket[w] \in Handling
    BY SocketFacts DEF ClientLeaves
  <1> DEFINE s == [socket[w] EXCEPT !.alive = FALSE]
  <1>2. s \in Handling /\ s.pc = socket[w].pc /\ s.feed = socket[w].feed
    BY <1>1 DEF Handling
  <1>3. socket' = [socket EXCEPT ![w] = s]
    BY DEF ClientLeaves
  <1> HIDE DEF s
  <1> QED BY <1>1, <1>2, <1>3 DEF Moves

\* What a step is for the registry.
Passes(w, s) ==
    /\ Moves(w, s) /\ UNCHANGED <<connections, perUser>>
    /\ socket[w].pc = "serving" => s.pc = "serving" /\ s.feed = socket[w].feed
Joins(w, f, u, s) ==
    /\ Moves(w, s) /\ s.pc = "serving" /\ s.feed = f /\ socket[w].pc = "joining"
    /\ ~ AtCap(f, u) /\ Added(w, f, u)
Parts(w, f) ==
    \/ Removed(w, f) /\ UNCHANGED socket
    \/ Removed(w, f) /\ Moves(w, Gone) /\ f = socket[w].feed
Emptied ==
    /\ socket' \in [Sockets -> {New, Gone} \cup Handling]
    /\ connections' = [f \in Feeds |-> {}] /\ perUser' = [f \in Feeds |-> [u \in Users |-> {}]]
Registered ==
    \/ UNCHANGED registryVars \/ Emptied
    \/ \E w \in Sockets : \E s \in Handling : Passes(w, s)
    \/ \E w \in Sockets, f \in Feeds, u \in Users : \E s \in Handling : Joins(w, f, u, s)
    \/ \E w \in Sockets, f \in Feeds : Parts(w, f)

LEMMA CastFacts ==
    ASSUME CastType, NEW c \in Casters, cast[c] # NoCast
    PROVE  /\ cast[c] \in Casting /\ cast[c].msg \in Nat \ {0} /\ cast[c].feed \in Feeds
           /\ cast[c].todo \subseteq Sockets /\ cast[c].dead \subseteq Sockets
  <1>1. cast[c] \in Casting
    BY DEF CastType
  <1> QED BY <1>1 DEF Casting

LEMMA RegisteredCases ==
    ASSUME RegistryType, TokenType, CastType, [FNext]_feedAllVars
    PROVE  Registered
  <1>1. CASE RestartAll
    BY <1>1 DEF RestartAll, Registered, Emptied
  <1>2. ASSUME NEW w \in Sockets, NEW f \in Feeds, NEW jti \in Jtis, NEW ok \in BOOLEAN,
               FirstFrame(w, f, jti, ok)
        PROVE  Registered
    <2>1. PICK s \in Handling : s.pc = "joining" /\ Moves(w, s) /\ socket[w].pc = "new"
      BY <1>2, FirstFrameEffect
    <2>2. Passes(w, s)
      BY <1>2, <2>1 DEF Passes, FirstFrame
    <2> QED BY <2>2 DEF Registered
  <1>3. ASSUME NEW w \in Sockets, Connect(w) PROVE Registered
    <2>1. PICK f \in Feeds, u \in Users : \E s \in Handling :
              /\ socket[w].pc = "joining" /\ s.feed = f /\ Moves(w, s)
              /\ \/ s.pc = "refusing" /\ UNCHANGED <<connections, perUser>>
                 \/ s.pc = "serving" /\ ~ AtCap(f, u) /\ Added(w, f, u)
      BY <1>3, ConnectEffect
    <2>2. PICK s \in Handling :
              /\ socket[w].pc = "joining" /\ s.feed = f /\ Moves(w, s)
              /\ \/ s.pc = "refusing" /\ UNCHANGED <<connections, perUser>>
                 \/ s.pc = "serving" /\ ~ AtCap(f, u) /\ Added(w, f, u)
      BY <2>1
    <2>3. Passes(w, s) \/ Joins(w, f, u, s)
      BY <2>2 DEF Passes, Joins
    <2> QED BY <2>3 DEF Registered
  <1>4. ASSUME NEW w \in Sockets, Refused(w) PROVE Registered
    <2>1. PICK s \in Handling : s.pc = "refused" /\ Moves(w, s) /\ socket[w].pc = "refusing"
      BY <1>4, RefusedEffect
    <2>2. Passes(w, s)
      BY <1>4, <2>1 DEF Passes, Refused
    <2> QED BY <2>2 DEF Registered
  <1>5. ASSUME NEW w \in Sockets, ClientLeaves(w) PROVE Registered
    <2>1. PICK s \in Handling : /\ s.pc = socket[w].pc /\ s.feed = socket[w].feed
                                /\ Moves(w, s) /\ socket[w].pc \in {"joining", "serving"}
      BY <1>5, LeavesEffect
    <2>2. Passes(w, s)
      BY <1>5, <2>1 DEF Passes, ClientLeaves
    <2> QED BY <2>2 DEF Registered
  <1>6. ASSUME NEW w \in Sockets, PingFails(w) PROVE Registered
    <2>1. PICK f \in Feeds : f = socket[w].feed
      BY <1>6, SocketFacts DEF PingFails
    <2>2. Removed(w, f) /\ Moves(w, Gone)
      BY <1>6, <2>1, DisconnectEffect DEF PingFails, Moves
    <2> QED BY <2>1, <2>2 DEF Registered, Parts
  <1>7. ASSUME NEW c \in Casters, DropDead(c) PROVE Registered
    <2>1. PICK w \in cast[c].dead : Disconnect(w, cast[c].feed)
      BY <1>7 DEF DropDead
    <2>2. w \in Sockets /\ cast[c].feed \in Feeds
      BY <1>7, CastFacts DEF DropDead
    <2>3. Removed(w, cast[c].feed) /\ UNCHANGED socket
      BY <1>7, <2>1, <2>2, DisconnectEffect DEF DropDead
    <2> QED BY <2>2, <2>3 DEF Registered, Parts
  <1> QED BY <1>1, <1>2, <1>3, <1>4, <1>5, <1>6, <1>7, RegistryCases DEF Registered

LEMMA RegistryTypeStep ==
    ASSUME RegistryType, Registered
    PROVE  RegistryType'
  <1>1. CASE UNCHANGED registryVars \/ Emptied
    BY <1>1 DEF registryVars, Emptied, RegistryType
  <1>2. ASSUME NEW w \in Sockets, NEW s, Passes(w, s) PROVE RegistryType'
    BY <1>2 DEF Passes, Moves, RegistryType
  <1>3. ASSUME NEW w \in Sockets, NEW f, NEW u, NEW s, Joins(w, f, u, s) PROVE RegistryType'
    BY <1>3 DEF Joins, Moves, Added, RegistryType
  <1>4. ASSUME NEW w \in Sockets, NEW f \in Feeds, Parts(w, f) PROVE RegistryType'
    BY <1>4 DEF Parts, Moves, Removed, RegistryType
  <1> QED BY <1>1, <1>2, <1>3, <1>4 DEF Registered

\* The sets of one feed, before and after.
LEMMA RegistryStep ==
    ASSUME RegistryType, RegistryInv, CapInv, Registered
    PROVE  RegistryInv' /\ CapInv'
  <1>0. \A f \in Feeds : /\ IsFiniteSet(connections[f]) /\ connections[f] \subseteq Sockets
                         /\ Cardinality(connections[f]) \in Nat
                         /\ \A u \in Users : /\ perUser[f][u] \subseteq connections[f]
                                             /\ IsFiniteSet(perUser[f][u])
                                             /\ Cardinality(perUser[f][u]) \in Nat
    BY FS_Subset, FS_CardinalityType DEF RegistryInv, RegistryType
  <1>a. MaxGlobal \in Nat /\ MaxPerUser \in Nat
    BY LiveFeedAssumption
  <1>1. CASE UNCHANGED registryVars
    BY <1>1 DEF registryVars, RegistryInv, CapInv
  <1>2. CASE Emptied
    BY <1>2, <1>a, FS_EmptySet DEF Emptied, RegistryInv, CapInv
  <1>3. ASSUME NEW w \in Sockets, NEW s \in Handling, Passes(w, s) PROVE RegistryInv' /\ CapInv'
    <2>1. UNCHANGED <<connections, perUser>> /\ socket'[w] = s
          /\ \A v \in Sockets : v # w => socket'[v] = socket[v]
      BY <1>3 DEF Passes, Moves, RegistryType
    <2>2. \A f \in Feeds : \A v \in connections[f] : socket'[v].pc = "serving" /\ socket'[v].feed = f
      BY <1>0, <1>3, <2>1 DEF Passes, RegistryInv
    <2> QED BY <2>1, <2>2 DEF RegistryInv, CapInv
  <1>4. ASSUME NEW w \in Sockets, NEW f \in Feeds, NEW u \in Users, NEW s \in Handling, Joins(w, f, u, s)
        PROVE  RegistryInv' /\ CapInv'
    <2>1. /\ socket'[w] = s /\ s.pc = "serving" /\ s.feed = f /\ socket[w].pc = "joining"
          /\ \A v \in Sockets : v # w => socket'[v] = socket[v]
      BY <1>4 DEF Joins, Moves, RegistryType
    <2>2. Added(w, f, u) /\ ~ AtCap(f, u)
      BY <1>4 DEF Joins
    <2>3. \A g \in Feeds : w \notin connections[g]
      BY <2>1 DEF RegistryInv
    <2>4. /\ IsFiniteSet(connections'[f]) /\ Cardinality(connections'[f]) <= MaxGlobal
      <3>1. Cardinality(connections[f]) < MaxGlobal
        BY <1>0, <1>a, <2>2 DEF AtCap
      <3>2. /\ IsFiniteSet(connections[f] \cup {w})
            /\ Cardinality(connections[f] \cup {w}) = Cardinality(connections[f]) + 1
        BY <1>0, <2>3, FS_AddElement
      <3> QED BY <1>0, <1>a, <2>2, <3>1, <3>2 DEF Added
    <2>5. Cardinality(perUser'[f][u]) <= MaxPerUser
      <3>1. Cardinality(perUser[f][u]) < MaxPerUser
        BY <1>0, <1>a, <2>2 DEF AtCap
      <3>2. w \notin perUser[f][u]
        BY <1>0, <2>3
      <3>3. Cardinality(perUser[f][u] \cup {w}) = Cardinality(perUser[f][u]) + 1
        BY <1>0, <3>2, FS_AddElement
      <3> QED BY <1>0, <1>a, <2>2, <3>1, <3>3 DEF Added
    <2>6. CapInv'
      BY <2>2, <2>4, <2>5 DEF CapInv, Added
    <2>7. ASSUME NEW g \in Feeds
          PROVE  /\ IsFiniteSet(connections'[g])
                 /\ \A v \in Users : perUser'[g][v] \subseteq connections'[g]
                 /\ \A x \in connections'[g] : /\ socket'[x].pc = "serving" /\ socket'[x].feed = g
                                               /\ \E v \in Users : x \in perUser'[g][v]
      <3>1. CASE g = f
        <4>1. \A v \in Users : perUser'[f][v] \subseteq connections'[f]
          BY <1>0, <2>2 DEF Added
        <4>2. \A x \in connections'[f] : /\ socket'[x].pc = "serving" /\ socket'[x].feed = f
          BY <1>0, <2>1, <2>2 DEF Added, RegistryInv
        <4>3. \A x \in connections'[f] : \E v \in Users : x \in perUser'[f][v]
          <5>1. ASSUME NEW x \in connections[f] PROVE \E v \in Users : x \in perUser'[f][v]
            <6>1. PICK v \in Users : x \in perUser[f][v]
              BY DEF RegistryInv
            <6> QED BY <2>2, <6>1 DEF Added
          <5> QED BY <2>2, <5>1 DEF Added
        <4> QED BY <2>4, <3>1, <4>1, <4>2, <4>3
      <3>2. CASE g # f
        <4>1. connections'[g] = connections[g] /\ perUser'[g] = perUser[g]
          BY <2>2, <3>2 DEF Added
        <4>2. \A x \in connections[g] : socket'[x] = socket[x]
          BY <1>0, <2>1, <2>3
        <4> QED BY <1>0, <4>1, <4>2 DEF RegistryInv
      <3> QED BY <3>1, <3>2
    <2> QED BY <2>6, <2>7 DEF RegistryInv
  <1>5. ASSUME NEW w \in Sockets, NEW f \in Feeds, Parts(w, f) PROVE RegistryInv' /\ CapInv'
    <2>1. Removed(w, f)
      BY <1>5 DEF Parts
    <2>2. \A g \in Feeds : connections'[g] \subseteq connections[g]
                           /\ \A u \in Users : perUser'[g][u] \subseteq perUser[g][u]
      BY <2>1 DEF Removed
    <2>3. \A g \in Feeds : \A x \in connections'[g] : socket'[x] = socket[x]
      <3>1. CASE UNCHANGED socket
        BY <3>1
      <3>2. CASE Moves(w, Gone) /\ f = socket[w].feed
        <4>1. \A v \in Sockets : v # w => socket'[v] = socket[v]
          BY <3>2 DEF Moves, RegistryType
        <4>2. \A g \in Feeds : w \notin connections'[g]
          BY <2>1, <3>2 DEF Removed, RegistryInv
        <4> QED BY <1>0, <2>2, <4>1, <4>2
      <3> QED BY <1>5, <3>1, <3>2 DEF Parts
    <2>4. CapInv'
      <3>1. ASSUME NEW g \in Feeds
            PROVE  /\ Cardinality(connections'[g]) <= MaxGlobal
                   /\ \A u \in Users : Cardinality(perUser'[g][u]) <= MaxPerUser
        <4>1. /\ IsFiniteSet(connections[g]) /\ Cardinality(connections[g]) \in Nat
              /\ connections'[g] \subseteq connections[g] /\ Cardinality(connections[g]) <= MaxGlobal
          BY <1>0, <2>2 DEF CapInv
        <4>2. Cardinality(connections'[g]) \in Nat /\ Cardinality(connections'[g]) <= Cardinality(connections[g])
          BY <4>1, FS_Subset, FS_CardinalityType
        <4>3. ASSUME NEW u \in Users PROVE Cardinality(perUser'[g][u]) <= MaxPerUser
          <5>1. /\ IsFiniteSet(perUser[g][u]) /\ Cardinality(perUser[g][u]) \in Nat
                /\ perUser'[g][u] \subseteq perUser[g][u] /\ Cardinality(perUser[g][u]) <= MaxPerUser
            BY <1>0, <2>2 DEF CapInv
          <5>2. Cardinality(perUser'[g][u]) \in Nat /\ Cardinality(perUser'[g][u]) <= Cardinality(perUser[g][u])
            BY <5>1, FS_Subset, FS_CardinalityType
          <5> QED BY <1>a, <5>1, <5>2
        <4> QED BY <1>a, <4>1, <4>2, <4>3
      <3> QED BY <3>1 DEF CapInv
    <2>5. ASSUME NEW g \in Feeds
          PROVE  /\ IsFiniteSet(connections'[g])
                 /\ \A v \in Users : perUser'[g][v] \subseteq connections'[g]
                 /\ \A x \in connections'[g] : /\ socket'[x].pc = "serving" /\ socket'[x].feed = g
                                               /\ \E v \in Users : x \in perUser'[g][v]
      <3>1. IsFiniteSet(connections'[g])
        BY <1>0, <2>2, FS_Subset
      <3>2. \A x \in connections'[g] : socket'[x].pc = "serving" /\ socket'[x].feed = g
        BY <2>2, <2>3 DEF RegistryInv
      <3>3. \A v \in Users : perUser'[g][v] \subseteq connections'[g]
        BY <1>0, <2>1 DEF Removed
      <3>4. ASSUME NEW x \in connections'[g] PROVE \E v \in Users : x \in perUser'[g][v]
        <4>1. PICK v \in Users : x \in perUser[g][v]
          BY <2>2 DEF RegistryInv
        <4>2. x \in perUser'[g][v]
          BY <2>1, <4>1 DEF Removed
        <4> QED BY <4>2
      <3> QED BY <3>1, <3>2, <3>3, <3>4
    <2> QED BY <2>4, <2>5 DEF RegistryInv
  <1> QED BY <1>1, <1>2, <1>3, <1>4, <1>5 DEF Registered

-----------------------------------------------------------------------------
(* Broadcasts.                                                             *)

\* What a step is for the broadcasts.
Unheard ==
    /\ UNCHANGED castVars
    /\ \A w \in Sockets : Alive(w) => Alive(w)'
Started(c, f, m) ==
    /\ Snapshot(c, f, m) /\ casts' \in Nat /\ channel' \in [Feeds -> Seq(Nat \ {0})]
Lost == /\ channel' \in [Feeds -> Seq(Nat \ {0})]
        /\ UNCHANGED <<cast, casts, owed>> /\ UNCHANGED registryVars
Heard ==
    \/ Unheard \/ RestartAll \/ Lost
    \/ \E w \in Sockets : ClientLeaves(w)
    \/ \E c \in Casters, f \in Feeds : \E m \in Nat \ {0} : Started(c, f, m)
    \/ \E c \in Casters : SendNext(c) \/ DropDead(c) \/ CastDone(c)

LEMMA MoveAlive ==
    ASSUME RegistryType, NEW w \in Sockets, ~ Alive(w), NEW s, socket' = [socket EXCEPT ![w] = s]
    PROVE  \A v \in Sockets : Alive(v) => Alive(v)'
  BY DEF RegistryType, Alive

LEMMA HeardCases ==
    ASSUME RegistryType, TokenType, CastType, [FNext]_feedAllVars
    PROVE  Heard
  <1>1. CASE UNCHANGED feedVars
    BY <1>1 DEF feedVars, registryVars, Heard, Unheard, Alive
  <1>2. ASSUME NEW w \in Sockets, NEW f \in Feeds, NEW jti \in Jtis, NEW ok \in BOOLEAN,
               FirstFrame(w, f, jti, ok)
        PROVE  Unheard
    <2>1. PICK s \in Handling : s.pc = "joining" /\ Moves(w, s) /\ socket[w].pc = "new"
      BY <1>2, FirstFrameEffect
    <2>2. ~ Alive(w) /\ socket' = [socket EXCEPT ![w] = s]
      BY <2>1 DEF Alive, Moves
    <2> QED BY <1>2, <2>2, MoveAlive DEF FirstFrame, Unheard
  <1>3. ASSUME NEW w \in Sockets, Connect(w) PROVE Unheard
    <2>1. PICK s : socket' = [socket EXCEPT ![w] = s]
      BY <1>3, ConnectEffect DEF Moves
    <2>2. ~ Alive(w) /\ UNCHANGED castVars
      BY <1>3 DEF Alive, Connect
    <2> QED BY <2>1, <2>2, MoveAlive DEF Unheard
  <1>4. ASSUME NEW w \in Sockets, Refused(w) PROVE Unheard
    <2>1. PICK s : socket' = [socket EXCEPT ![w] = s]
      BY <1>4, RefusedEffect DEF Moves
    <2>2. ~ Alive(w) /\ UNCHANGED castVars
      BY <1>4 DEF Alive, Refused
    <2> QED BY <2>1, <2>2, MoveAlive DEF Unheard
  <1>5. ASSUME NEW w \in Sockets, PingFails(w) PROVE Unheard
    <2>1. ~ Alive(w) /\ socket' = [socket EXCEPT ![w] = Gone] /\ UNCHANGED castVars
      BY <1>5 DEF Alive, PingFails
    <2> QED BY <2>1, MoveAlive DEF Unheard
  <1>6. ASSUME NEW f \in Feeds, Broadcast(f) PROVE Heard
    <2>1. casts + 1 \in Nat \ {0} /\ "publisher" \in Casters
      BY DEF CastType, Casters
    <2>2. Started("publisher", f, casts + 1)
      BY <1>6, <2>1 DEF Broadcast, Started, CastType
    <2> QED BY <2>1, <2>2 DEF Heard
  <1>7. ASSUME NEW f \in Feeds, Relay(f) PROVE Heard
    <2>1. channel[f] \in Seq(Nat \ {0}) /\ channel[f] # <<>> /\ f \in Casters
      BY <1>7 DEF CastType, Relay, Casters
    <2>2. Head(channel[f]) \in Nat \ {0} /\ Tail(channel[f]) \in Seq(Nat \ {0})
      BY <2>1
    <2>3. casts' \in Nat /\ channel' \in [Feeds -> Seq(Nat \ {0})]
      BY <1>7, <2>2 DEF Relay, CastType
    <2>4. Started(f, f, Head(channel[f]))
      BY <1>7, <2>3 DEF Relay, Started
    <2> QED BY <2>1, <2>2, <2>4 DEF Heard
  <1>8. ASSUME NEW f \in Feeds, ChannelLost(f) PROVE Heard
    <2>1. channel' \in [Feeds -> Seq(Nat \ {0})]
      BY <1>8 DEF ChannelLost, CastType
    <2> QED BY <1>8, <2>1 DEF ChannelLost, Heard, Lost
  <1>9. CASE SessionStep /\ UNCHANGED feedVars
    BY <1>1, <1>9
  <1>10. ASSUME NEW w \in Sockets, NEW jti \in Jtis, NEW ok \in BOOLEAN,
                WsAlerts(w, jti, ok) \/ WsDecisions(w, jti, ok)
         PROVE  Heard
    BY <1>2, <1>10 DEF WsAlerts, WsDecisions, Feeds, Heard
  <1>11. CASE AcknowledgeAlert \/ BroadcastDecision
    BY <1>6, <1>11 DEF AcknowledgeAlert, BroadcastDecision, Feeds
  <1>12. CASE UNCHANGED feedAllVars
    BY <1>1, <1>12 DEF feedAllVars
  <1> QED BY <1>3, <1>4, <1>5, <1>7, <1>8, <1>9, <1>10, <1>11, <1>12 DEF FNext, Heard

\* The steps of one broadcast.
Continued(c, r) ==
    /\ r \in {NoCast} \cup Casting /\ cast' = [cast EXCEPT ![c] = r]

LEMMA StartEffect ==
    ASSUME RegistryType, CastType, NEW c \in Casters, NEW f \in Feeds, NEW m \in Nat \ {0}, Started(c, f, m)
    PROVE  \E r \in Casting : /\ r.msg = m /\ r.todo = connections[f] /\ cast[c] = NoCast
                              /\ Continued(c, r)
  <1> DEFINE r == [msg |-> m, feed |-> f, todo |-> connections[f], dead |-> {}]
  <1>1. connections[f] \subseteq Sockets
    BY DEF RegistryType
  <1>2. r \in Casting /\ r.msg = m /\ r.todo = connections[f]
    BY <1>1 DEF Casting
  <1>3. cast' = [cast EXCEPT ![c] = r] /\ cast[c] = NoCast
    BY DEF Started, Snapshot
  <1> HIDE DEF r
  <1> QED BY <1>2, <1>3 DEF Continued

LEMMA SendEffect ==
    ASSUME CastType, NEW c \in Casters, SendNext(c)
    PROVE  \E w \in Sockets : \E r \in Casting :
              /\ cast[c] \in Casting /\ w \in cast[c].todo
              /\ r.msg = cast[c].msg /\ r.todo = cast[c].todo \ {w} /\ Continued(c, r)
              /\ IF Alive(w) THEN owed' = owed \ {<<w, cast[c].msg>>} ELSE owed' = owed
  <1>1. PICK w \in cast[c].todo : Send(c, w)
    BY DEF SendNext
  <1>2. cast[c] \in Casting /\ w \in Sockets
    BY <1>1, CastFacts DEF SendNext
  <1>3. CASE Alive(w)
    <2> DEFINE r == [cast[c] EXCEPT !.todo = cast[c].todo \ {w}]
    <2>1. r \in Casting /\ r.msg = cast[c].msg /\ r.todo = cast[c].todo \ {w}
      BY <1>2 DEF Casting
    <2>2. cast' = [cast EXCEPT ![c] = r] /\ owed' = owed \ {<<w, cast[c].msg>>}
      BY <1>1, <1>3 DEF Send
    <2> HIDE DEF r
    <2> QED BY <1>1, <1>2, <1>3, <2>1, <2>2 DEF Continued
  <1>4. CASE ~ Alive(w)
    <2> DEFINE r == [cast[c] EXCEPT !.todo = cast[c].todo \ {w}, !.dead = cast[c].dead \cup {w}]
    <2>1. r \in Casting /\ r.msg = cast[c].msg /\ r.todo = cast[c].todo \ {w}
      BY <1>2 DEF Casting
    <2>2. cast' = [cast EXCEPT ![c] = r] /\ owed' = owed
      <3>1. cast' = [cast EXCEPT ![c].todo = cast[c].todo \ {w}, ![c].dead = cast[c].dead \cup {w}]
        BY <1>1, <1>4 DEF Send
      <3> QED BY <1>1, <1>2, <1>4, <3>1 DEF Send, CastType
    <2> HIDE DEF r
    <2> QED BY <1>1, <1>2, <1>4, <2>1, <2>2 DEF Continued
  <1> QED BY <1>3, <1>4

LEMMA DropEffect ==
    ASSUME CastType, NEW c \in Casters, DropDead(c)
    PROVE  \E r \in Casting : /\ cast[c] \in Casting /\ r.msg = cast[c].msg /\ r.todo = cast[c].todo
                              /\ Continued(c, r)
  <1>1. cast[c] \in Casting
    BY CastFacts DEF DropDead
  <1>2. PICK w \in cast[c].dead : cast' = [cast EXCEPT ![c].dead = cast[c].dead \ {w}]
    BY DEF DropDead
  <1> DEFINE r == [cast[c] EXCEPT !.dead = cast[c].dead \ {w}]
  <1>3. r \in Casting /\ r.msg = cast[c].msg /\ r.todo = cast[c].todo
    BY <1>1 DEF Casting
  <1>4. cast' = [cast EXCEPT ![c] = r]
    BY <1>2
  <1> HIDE DEF r
  <1> QED BY <1>1, <1>3, <1>4 DEF Continued

LEMMA DoneEffect ==
    ASSUME CastType, NEW c \in Casters, CastDone(c)
    PROVE  /\ Continued(c, NoCast) /\ cast[c].todo = {} /\ UNCHANGED owed
           /\ channel' \in [Feeds -> Seq(Nat \ {0})]
  <1>1. cast[c].feed \in Feeds /\ cast[c].msg \in Nat \ {0}
    BY CastFacts DEF CastDone
  <1>2. PICK f \in Feeds, m \in Nat \ {0} : f = cast[c].feed /\ m = cast[c].msg
    BY <1>1
  <1>3. channel[f] \in Seq(Nat \ {0}) /\ Append(channel[f], m) \in Seq(Nat \ {0})
    BY DEF CastType
  <1>4. channel' = channel \/ channel' = [channel EXCEPT ![f] = Append(channel[f], m)]
    BY <1>2 DEF CastDone
  <1>5. channel' \in [Feeds -> Seq(Nat \ {0})]
    BY <1>3, <1>4 DEF CastType
  <1> QED BY <1>5 DEF CastDone, Continued

LEMMA CastTypeStep ==
    ASSUME RegistryType, CastType, Heard
    PROVE  CastType'
  <1>0. ASSUME NEW c \in Casters, NEW r, Continued(c, r)
        PROVE  cast' \in [Casters -> {NoCast} \cup Casting]
    BY <1>0 DEF Continued, CastType
  <1>1. CASE Unheard \/ Lost
    BY <1>1 DEF Unheard, Lost, castVars, CastType
  <1>2. CASE RestartAll
    BY <1>2 DEF RestartAll, CastType
  <1>3. ASSUME NEW w \in Sockets, ClientLeaves(w) PROVE CastType'
    <2>1. owed' \subseteq owed
      BY <1>3 DEF ClientLeaves
    <2> QED BY <1>3, <2>1 DEF ClientLeaves, CastType
  <1>4. ASSUME NEW c \in Casters, NEW f \in Feeds, NEW m \in Nat \ {0}, Started(c, f, m) PROVE CastType'
    <2>1. cast' \in [Casters -> {NoCast} \cup Casting]
      BY <1>0, <1>4, StartEffect
    <2>2. owed' \subseteq Sockets \X (Nat \ {0})
      <3>1. connections[f] \subseteq Sockets
        BY DEF RegistryType
      <3>2. owed' = owed \cup ({w \in connections[f] : Alive(w)} \X {m})
        BY <1>4 DEF Started, Snapshot
      <3> QED BY <3>1, <3>2 DEF CastType
    <2> QED BY <1>4, <2>1, <2>2 DEF Started, CastType
  <1>5. ASSUME NEW c \in Casters, SendNext(c) PROVE CastType'
    <2>1. cast' \in [Casters -> {NoCast} \cup Casting] /\ owed' \subseteq owed
      BY <1>0, <1>5, SendEffect
    <2> QED BY <1>5, <2>1 DEF SendNext, CastType
  <1>6. ASSUME NEW c \in Casters, DropDead(c) PROVE CastType'
    <2>1. cast' \in [Casters -> {NoCast} \cup Casting]
      BY <1>0, <1>6, DropEffect
    <2> QED BY <1>6, <2>1 DEF DropDead, CastType
  <1>7. ASSUME NEW c \in Casters, CastDone(c) PROVE CastType'
    <2>1. cast' \in [Casters -> {NoCast} \cup Casting] /\ channel' \in [Feeds -> Seq(Nat \ {0})]
      BY <1>0, <1>7, DoneEffect
    <2> QED BY <1>7, <2>1 DEF CastDone, CastType
  <1> QED BY <1>1, <1>2, <1>3, <1>4, <1>5, <1>6, <1>7 DEF Heard

LEMMA OwedStep ==
    ASSUME RegistryType, CastType, OwedInv, Heard
    PROVE  OwedInv'
  <1>0. \A p \in owed : p[1] \in Sockets /\ Alive(p[1])
    BY DEF CastType, OwedInv
  <1>1. CASE owed' \subseteq owed /\ \A p \in owed' : Alive(p[1])'
    BY <1>1 DEF OwedInv
  <1>2. CASE Unheard
    <2>1. \A p \in owed' : p[1] \in Sockets /\ Alive(p[1])
      BY <1>0, <1>2 DEF Unheard, castVars
    <2>2. ASSUME NEW p \in owed' PROVE Alive(p[1])'
      <3>1. PICK w \in Sockets : w = p[1]
        BY <2>1
      <3>2. Alive(w)'
        BY <1>2, <2>1, <3>1 DEF Unheard
      <3> QED BY <3>1, <3>2
    <2> QED BY <2>2 DEF OwedInv
  <1>3. CASE RestartAll
    BY <1>3 DEF RestartAll, OwedInv
  <1>4. CASE UNCHANGED socket /\ owed' \subseteq owed
    BY <1>0, <1>4 DEF OwedInv, Alive
  <1>5. ASSUME NEW w \in Sockets, ClientLeaves(w) PROVE OwedInv'
    <2>1. PICK s : socket' = [socket EXCEPT ![w] = s]
      BY <1>5, LeavesEffect DEF Moves
    <2>2. \A p \in owed' : p \in owed /\ p[1] # w
      BY <1>5 DEF ClientLeaves
    <2>3. \A p \in owed' : socket'[p[1]] = socket[p[1]]
      BY <1>0, <2>1, <2>2 DEF RegistryType
    <2>4. \A p \in owed' : Alive(p[1])'
      BY <1>0, <2>2, <2>3 DEF Alive
    <2> QED BY <2>4 DEF OwedInv
  <1>6. ASSUME NEW c \in Casters, NEW f \in Feeds, NEW m \in Nat \ {0}, Started(c, f, m) PROVE OwedInv'
    <2>1. owed' = owed \cup ({w \in connections[f] : Alive(w)} \X {m}) /\ UNCHANGED socket
      BY <1>6 DEF Started, Snapshot, registryVars
    <2>2. \A p \in owed' : Alive(p[1])
      BY <1>0, <2>1
    <2> QED BY <2>1, <2>2 DEF OwedInv, Alive
  <1>7. ASSUME NEW c \in Casters, SendNext(c) PROVE OwedInv'
    BY <1>4, <1>7, SendEffect DEF SendNext, registryVars
  <1>8. ASSUME NEW c \in Casters, DropDead(c) PROVE OwedInv'
    BY <1>4, <1>8 DEF DropDead
  <1>9. ASSUME NEW c \in Casters, CastDone(c) PROVE OwedInv'
    BY <1>4, <1>9 DEF CastDone, registryVars
  <1>10. CASE Lost
    BY <1>4, <1>10 DEF Lost, registryVars
  <1> QED BY <1>2, <1>3, <1>5, <1>6, <1>7, <1>8, <1>9, <1>10 DEF Heard

LEMMA ReachStep ==
    ASSUME RegistryType, CastType, OwedInv, FeedReachesAll, Heard
    PROVE  FeedReachesAll'
  <1> DEFINE Covers(p, c) == cast[c].msg = p[2] /\ p[1] \in cast[c].todo
  <1>0. \A p \in owed : /\ p[1] \in Sockets /\ p[2] \in Nat \ {0} /\ p = <<p[1], p[2]>>
                        /\ Alive(p[1]) /\ \E c \in Casters : Covers(p, c)
    BY DEF CastType, OwedInv, FeedReachesAll
  <1>1. CASE UNCHANGED cast /\ owed' \subseteq owed
    BY <1>1 DEF FeedReachesAll
  <1>2. CASE RestartAll
    BY <1>2 DEF RestartAll, FeedReachesAll
  <1>3. ASSUME NEW c \in Casters, NEW r, Continued(c, r),
               \A p \in owed' : \/ p[2] = r.msg /\ p[1] \in r.todo
                                \/ \E d \in Casters : d # c /\ Covers(p, d)
        PROVE  FeedReachesAll'
    <2>1. cast'[c] = r /\ \A d \in Casters : d # c => cast'[d] = cast[d]
      BY <1>3 DEF Continued, CastType
    <2>2. ASSUME NEW p \in owed' PROVE \E d \in Casters : cast'[d].msg = p[2] /\ p[1] \in cast'[d].todo
      BY <1>3, <2>1
    <2> QED BY <2>2 DEF FeedReachesAll
  <1>4. ASSUME NEW c \in Casters, NEW f \in Feeds, NEW m \in Nat \ {0}, Started(c, f, m)
        PROVE  FeedReachesAll'
    <2>1. PICK r \in Casting : /\ r.msg = m /\ r.todo = connections[f] /\ cast[c] = NoCast
                               /\ Continued(c, r)
      BY <1>4, StartEffect
    <2>2. owed' = owed \cup ({w \in connections[f] : Alive(w)} \X {m})
      BY <1>4 DEF Started, Snapshot
    <2>3. \A p \in owed : ~ Covers(p, c)
      BY <1>0, <2>1 DEF NoCast
    <2>4. \A p \in owed : \E d \in Casters : d # c /\ Covers(p, d)
      BY <1>0, <2>3
    <2>5. \A p \in owed' : \/ p[2] = r.msg /\ p[1] \in r.todo
                           \/ \E d \in Casters : d # c /\ Covers(p, d)
      BY <2>1, <2>2, <2>4
    <2> QED BY <1>3, <2>1, <2>5
  <1>5. ASSUME NEW c \in Casters, SendNext(c) PROVE FeedReachesAll'
    <2>1. PICK w \in Sockets : \E r \in Casting :
              /\ cast[c] \in Casting /\ w \in cast[c].todo
              /\ r.msg = cast[c].msg /\ r.todo = cast[c].todo \ {w} /\ Continued(c, r)
              /\ IF Alive(w) THEN owed' = owed \ {<<w, cast[c].msg>>} ELSE owed' = owed
      BY <1>5, SendEffect
    <2>2. PICK r \in Casting :
              /\ cast[c] \in Casting /\ w \in cast[c].todo
              /\ r.msg = cast[c].msg /\ r.todo = cast[c].todo \ {w} /\ Continued(c, r)
              /\ IF Alive(w) THEN owed' = owed \ {<<w, cast[c].msg>>} ELSE owed' = owed
      BY <2>1
    <2>3. ASSUME NEW p \in owed'
          PROVE  \/ p[2] = r.msg /\ p[1] \in r.todo
                 \/ \E d \in Casters : d # c /\ Covers(p, d)
      <3>1. p \in owed
        BY <2>2
      <3>2. PICK d \in Casters : Covers(p, d)
        BY <1>0, <3>1
      <3>3. CASE d = c
        <4>1. p[2] = cast[c].msg /\ p[1] \in cast[c].todo /\ p = <<p[1], p[2]>> /\ Alive(p[1])
          BY <1>0, <3>1, <3>2, <3>3
        <4>2. p[1] # w
          BY <2>2, <4>1
        <4> QED BY <2>2, <4>1, <4>2
      <3> QED BY <3>2, <3>3
    <2> QED BY <1>3, <2>2, <2>3
  <1>6. ASSUME NEW c \in Casters, DropDead(c) PROVE FeedReachesAll'
    <2>1. PICK r \in Casting : /\ r.msg = cast[c].msg /\ r.todo = cast[c].todo /\ Continued(c, r)
      BY <1>6, DropEffect
    <2>2. owed' = owed
      BY <1>6 DEF DropDead
    <2>3. \A p \in owed' : \/ p[2] = r.msg /\ p[1] \in r.todo
                           \/ \E d \in Casters : d # c /\ Covers(p, d)
      BY <1>0, <2>1, <2>2
    <2> QED BY <1>3, <2>1, <2>3
  <1>7. ASSUME NEW c \in Casters, CastDone(c) PROVE FeedReachesAll'
    <2>1. Continued(c, NoCast) /\ cast[c].todo = {} /\ UNCHANGED owed
      BY <1>7, DoneEffect
    <2>2. \A p \in owed' : \E d \in Casters : d # c /\ Covers(p, d)
      BY <1>0, <2>1
    <2> QED BY <1>3, <2>1, <2>2
  <1>8. CASE Unheard \/ Lost
    BY <1>1, <1>8 DEF Unheard, Lost, castVars
  <1>9. ASSUME NEW w \in Sockets, ClientLeaves(w) PROVE FeedReachesAll'
    BY <1>1, <1>9 DEF ClientLeaves
  <1> QED BY <1>2, <1>4, <1>5, <1>6, <1>7, <1>8, <1>9 DEF Heard

-----------------------------------------------------------------------------
(* The invariant, and what it says.                                        *)

LEMMA InitInv == FInit => IInv
  <1> SUFFICES ASSUME FInit PROVE IInv
    OBVIOUS
  <1>1. StoreType /\ TokenType
    <2>1. Empty \in UserTable
      BY DEF Empty, UserTable
    <2>2. lastHeld \in Int
      BY DEF FInit, Init
    <2>3. Jtis = {}
      BY DEF FInit, Init, Jtis
    <2> QED BY <2>1, <2>2, <2>3, SessionsAssumption DEF FInit, Init, StoreType, TokenType, NoWrite
  <1>2. RegistryType /\ CastType
    BY DEF FInit, RegistryType, CastType
  <1>3. Jtis = {}
    BY DEF FInit, Init, Jtis
  <1>4. BlocklistInv /\ SessionInv
    BY <1>3 DEF FInit, Init, BlocklistInv, SessionInv
  <1>5. GrantInv
    <2>1. ~ Grants(cache)
      BY SessionsAssumption DEF FInit, Init, Grants, Empty, NoRoles
    <2> QED BY <1>3, <2>1 DEF FInit, Init, GrantInv, Grants
  <1>6. RegistryInv /\ CapInv
    BY FS_EmptySet, LiveFeedAssumption DEF FInit, RegistryInv, CapInv
  <1>7. OwedInv /\ FeedReachesAll
    BY DEF FInit, OwedInv, FeedReachesAll
  <1> QED BY <1>1, <1>2, <1>4, <1>5, <1>6, <1>7 DEF IInv, TypeOK

LEMMA NextInv == IInv /\ [FNext]_feedAllVars => IInv'
  <1> SUFFICES ASSUME IInv, [FNext]_feedAllVars PROVE IInv'
    OBVIOUS
  <1>1. StoreType /\ TokenType /\ RegistryType /\ CastType
    BY DEF IInv, TypeOK
  <1>2. Outcome /\ Registered /\ Heard
    BY <1>1, TokenCases, RegisteredCases, HeardCases
  <1>3. TypeOK'
    BY <1>1, <1>2, StoreTypeStep, TokenTypeStep, RegistryTypeStep, CastTypeStep DEF TypeOK
  <1>4. BlocklistInv' /\ SessionInv' /\ GrantInv'
    BY <1>1, <1>2, BlocklistStep, SessionInvStep, GrantStep DEF IInv
  <1>5. RegistryInv' /\ CapInv' /\ OwedInv' /\ FeedReachesAll'
    BY <1>1, <1>2, RegistryStep, OwedStep, ReachStep DEF IInv
  <1> QED BY <1>3, <1>4, <1>5 DEF IInv

\* The invariant of everything that follows.
THEOREM Invariance == FSpec => []IInv
  BY InitInv, NextInv, PTL DEF FSpec

\* Every variable keeps its type: the blocklist holds identifiers of tokens
\* that were issued, the registry connections, a broadcast its own message.
THEOREM TypeCorrect == FSpec => []TypeOK
  <1>1. IInv => TypeOK
    BY DEF IInv
  <1> QED BY <1>1, Invariance, PTL

\* A session has at most one token the server accepts, and none that was
\* logged out or rotated away, for any number of users, refreshes, restarts
\* and prunings, unless the blocklist could not be saved before a restart
\* (JWTHandler.verify_token, revoke_token, _prune_revoked, _save_blocklist).
THEOREM SessionsIntact == FSpec => []SessionIntegrity
  <1>1. IInv => SessionIntegrity
    <2> SUFFICES ASSUME IInv,
                        NEW t \in Usable, ~ Spoilt(tokens[t].root)
                 PROVE  /\ t \notin ended
                        /\ \A u \in Usable : ~ Spoilt(tokens[u].root) /\ tokens[t].root = tokens[u].root
                              => t = u
      BY DEF SessionIntegrity, Spoilt
    <2>1. \A u \in Usable : ~ Spoilt(tokens[u].root) => u \in Jtis /\ u \notin ended
      BY DEF Usable, IInv, BlocklistInv, Spoilt
    <2>2. ASSUME NEW u \in Usable, ~ Spoilt(tokens[u].root), tokens[t].root = tokens[u].root
          PROVE  t = u
      <3>1. t \in Jtis /\ u \in Jtis /\ t \notin ended /\ u \notin ended
        BY <2>1, <2>2
      <3>2. ~ (t < u) /\ ~ (u < t)
        BY <2>2, <3>1 DEF IInv, SessionInv
      <3> QED BY <3>1, <3>2 DEF Jtis
    <2> QED BY <2>1, <2>2
  <1> QED BY <1>1, Invariance, PTL

\* A role that is withdrawn is gone from every accepted token after one cache
\* TTL and one token lifetime, for any user and role, any TTL and lifetime and
\* any number of refreshes meanwhile (_get_users, refresh).
THEOREM Offboarding == FSpec => []OffboardedInTime
  <1>1. IInv => OffboardedInTime
    <2> SUFFICES ASSUME IInv, NEW t \in Usable,
                        tokens[t].sub = Probe.user, Probe.role \in tokens[t].roles
                 PROVE  lastHeld >= 0 /\ now < lastHeld + UsersTTL + Lifetime
      BY DEF OffboardedInTime
    <2>1. t \in Jtis /\ ~ (tokens[t].exp <= now)
      BY DEF Usable, Expired
    <2>2. /\ tokens[t].iat \in Nat /\ tokens[t].exp \in Nat /\ now \in Nat /\ lastHeld \in Int
          /\ UsersTTL \in Nat /\ Lifetime \in Nat
      BY <2>1, ClaimFacts, SessionsAssumption DEF IInv, TypeOK, TokenType, StoreType
    <2>3. /\ tokens[t].exp = tokens[t].iat + Lifetime
          /\ lastHeld >= 0 /\ tokens[t].iat <= lastHeld + UsersTTL
      BY <2>1 DEF IInv, GrantInv
    <2> QED BY <2>1, <2>2, <2>3
  <1> QED BY <1>1, Invariance, PTL

\* The caps of a feed hold and its two tables agree, for any number of
\* connections and users and any order in which handlers and broadcasts take
\* connections out (WebSocketManager.connect, disconnect, _broadcast_local).
THEOREM RegistryIsExact == FSpec => []RegistryExact
  <1>1. IInv => RegistryExact
    <2> SUFFICES ASSUME IInv PROVE RegistryExact
      OBVIOUS
    <2>1. \A f \in Feeds : \A w \in Sockets : w \in connections[f] <=> \E u \in Users : w \in perUser[f][u]
      BY DEF IInv, RegistryInv
    <2>2. \A f \in Feeds : connections[f] \subseteq At({"serving"})
      BY DEF IInv, TypeOK, RegistryType, RegistryInv, At
    <2> QED BY <2>1, <2>2 DEF IInv, CapInv, RegistryExact
  <1> QED BY <1>1, Invariance, PTL

\* A broadcast still has to send to every connected client of its snapshot
\* that it has not reached, so it ends only when all of them have the message,
\* for any number of clients that fail, leave or join meanwhile.
THEOREM BroadcastReachesAll == FSpec => []FeedReachesAll
  <1>1. IInv => FeedReachesAll
    BY DEF IInv
  <1> QED BY <1>1, Invariance, PTL

-----------------------------------------------------------------------------
(***************************************************************************)
(* The server process, for any number of plugins, requests, processes,     *)
(* starts, saves and states of the models.                                 *)
(***************************************************************************)

(* Types.                                                                  *)

Status   == {"absent", "loaded", "running", "stopped", "error"}
Verdicts == {"none", "true", "false", "raises"}
ReqType  == [op : {"none", "install", "enable", "disable", "delete"}, name : Names \cup {"none"},
             verdict : Verdicts, pc : {"idle", "waiting", "starting", "terminating"},
             proc : P!Procs \cup {0}]
ProcType == [name : Names \cup {"none"}, gen : Nat, state : {"free", "live", "dead"}]

PluginType ==
    /\ server \in {"up", "draining", "stopping", "down"} /\ gen \in Nat /\ files \subseteq Names
    /\ info \in [Names -> Status] /\ sandbox \in [Names -> P!Procs \cup {0}]
    /\ proc \in [P!Procs -> ProcType] /\ req \in [Requests -> ReqType]
    /\ clients \subseteq P!Procs /\ reinstalled \subseteq Names /\ served \in Nat

(* The inductive invariant of the plugins.                                 *)

(* A request other than an idle one is about a plugin, and one request at  *)
(* most is past the lock.                                                  *)
Holding(r) == req[r].pc \in {"starting", "terminating"}
LockInv ==
    /\ \A r \in Requests : req[r].pc # "idle" => req[r].name \in Names
    /\ \A r, s \in Requests : Holding(r) /\ Holding(s) => r = s

(* A registered sandbox is that of a running plugin or of one installed    *)
(* over it; one about to be started or stopped has none.                   *)
SandboxInv ==
    /\ \A n \in Names : sandbox[n] # 0 => info[n] = "running" \/ n \in reinstalled
    /\ \A n \in Names : info[n] = "running" /\ ~ P!Terminating(n) => sandbox[n] # 0
    /\ \A r \in Requests :
          /\ req[r].pc = "starting" => info[req[r].name] # "running"
          /\ req[r].pc = "terminating" => sandbox[req[r].name] = 0 /\ req[r].proc # 0

(* Processes are those of this run or of an earlier one; a server that is  *)
(* down has no sandbox and no request.                                     *)
RunInv ==
    /\ \A p \in P!Procs : /\ proc[p].gen <= gen
                          /\ proc[p].state = "live" => proc[p].name \in Names
    /\ server = "down" => /\ \A n \in Names : sandbox[n] = 0
                          /\ \A r \in Requests : req[r] = P!Idle

PluginInv == PluginType /\ LockInv /\ SandboxInv /\ RunInv /\ EveryProcessManaged

LEMMA PluginInit == SInit => PluginInv
  BY DEF SInit, P!Init, P!Idle, P!Procs, PluginInv, PluginType, ReqType, ProcType, Status, Verdicts,
         LockInv, Holding, SandboxInv, RunInv, EveryProcessManaged, P!EveryProcessManaged

LEMMA PluginCases ==
    ASSUME [SNext]_serverVars
    PROVE  [P!Next]_plugins
  BY DEF SNext, serverVars, plugins, P!Next, P!vars, CreateEngines, StartPlugins, OpenGrpc,
         StartWorkers, ExposeState, Ask, Operate, Environment, StartWork, Threads, StopWorkers, WorkersStopped,
         StopPlugins, ProcessEnds, ProcessCrashes

(* Types are kept, one operation at a time.                                *)

LEMMA VerdictType ==
    \A sig, v : P!Verdict(sig, v) \in Verdicts
  BY DEF P!Verdict, P!Verify, Verdicts

LEMMA SubmitType ==
    ASSUME PluginType, NEW r \in Requests, NEW n \in Names, NEW v \in Verdicts,
           NEW op \in {"install", "enable", "disable", "delete"}, P!Submit(r, op, n, v)
    PROVE  PluginType'
  BY DEF PluginType, ReqType, P!Submit, P!Procs

LEMMA AskIsSubmit ==
    ASSUME P!Ask
    PROVE  \E r \in Requests, n \in Names, v \in Verdicts, op \in {"install", "enable", "disable", "delete"} :
              P!Submit(r, op, n, v)
  BY VerdictType DEF P!Ask, P!UploadPlugin, P!InstallPlugin, P!EnablePlugin, P!DisablePlugin, P!DeletePlugin, Verdicts

LEMMA OperateType ==
    ASSUME PluginType, LockInv, SandboxInv, NEW r \in Requests, P!Operate(r)
    PROVE  PluginType'
  <1> USE DEF PluginType, LockInv, ReqType
  <1>1. P!Idle \in ReqType
    BY DEF P!Idle, Verdicts
  <1>2. CASE P!Install(r)
    BY <1>1, <1>2 DEF P!Install, P!Acquire, P!Answer, P!FilesAfter, Status
  <1>3. CASE P!Refused(r)
    BY <1>1, <1>3 DEF P!Refused, P!Acquire, P!Answer, P!disk
  <1>4. CASE P!Enable(r)
    BY <1>4 DEF P!Enable, P!Acquire, P!disk
  <1>5. CASE P!Started(r)
    BY <1>1, <1>5 DEF P!Started, P!Answer, P!disk, Status, ProcType
  <1>6. CASE P!StartFails(r)
    BY <1>1, <1>6 DEF P!StartFails, P!Answer, P!disk, Status
  <1>7. CASE P!Disable(r)
    BY <1>1, <1>7 DEF P!Disable, P!Acquire, P!Answer, P!Stopped, Status
  <1>8. CASE P!Waited(r)
    BY <1>1, <1>8 DEF P!Waited, P!Answer, P!Stopped, Status
  <1>9. CASE P!KillAfterTimeout(r)
    <2>1. req[r].proc \in P!Procs
      BY <1>9 DEF P!KillAfterTimeout, SandboxInv
    <2> QED BY <1>9, <2>1 DEF P!KillAfterTimeout, P!ExitOf, P!disk, ProcType
  <1> QED BY <1>2, <1>3, <1>4, <1>5, <1>6, <1>7, <1>8, <1>9 DEF P!Operate

LEMMA EnvironmentType ==
    ASSUME PluginType, P!Environment
    PROVE  PluginType'
  <1> USE DEF PluginType
  <1>1. ASSUME NEW p \in P!Procs, P!ProcessExits(p)
        PROVE  PluginType'
    BY <1>1 DEF P!ProcessExits, P!ExitOf, P!disk, ProcType
  <1>2. ASSUME NEW p \in P!Procs, P!Connect(p)
        PROVE  PluginType'
    BY <1>2 DEF P!Connect, P!disk
  <1>3. ASSUME NEW n \in Names, NEW sig \in P!Sigs, P!CmdUpload(n, sig)
        PROVE  PluginType'
    BY <1>3 DEF P!CmdUpload, P!FilesAfter
  <1> QED BY <1>1, <1>2, <1>3 DEF P!Environment

LEMMA ServerType ==
    ASSUME PluginType, P!BeginShutdown \/ P!CloseSocket \/ P!EndShutdown \/ P!Crash \/ P!Restart
    PROVE  PluginType'
  <1> USE DEF PluginType
  <1>1. CASE P!BeginShutdown \/ P!CloseSocket
    BY <1>1 DEF P!BeginShutdown, P!CloseSocket
  <1>2. CASE P!EndShutdown \/ P!Crash
    BY <1>2 DEF P!EndShutdown, P!Crash, P!Fall, P!Idle, ReqType, Verdicts, Status
  <1>3. CASE P!Restart
    <2>1. P!Discover \in [Names -> Status]
      BY DEF P!Discover, Status
    <2> QED BY <1>3, <2>1 DEF P!Restart
  <1> QED BY <1>1, <1>2, <1>3

(* The invariant is kept by what a request does.                           *)

\* The parts that one operation at a time disturbs.
PluginRest == LockInv /\ SandboxInv /\ RunInv /\ EveryProcessManaged

LEMMA SubmitKeeps ==
    ASSUME PluginInv, NEW r \in Requests, NEW n \in Names, NEW v \in Verdicts,
           NEW op \in {"install", "enable", "disable", "delete"}, P!Submit(r, op, n, v)
    PROVE  PluginRest'
  <1> USE DEF PluginInv, PluginType
  <1>1. req' = [req EXCEPT ![r] = [op |-> op, name |-> n, verdict |-> v, pc |-> "waiting", proc |-> 0]]
        /\ req[r].pc = "idle" /\ server' = "up"
    BY DEF P!Submit, P!Idle
  <1>2. UNCHANGED <<gen, info, sandbox, proc, reinstalled>> /\ server = "up"
    BY DEF P!Submit
  <1>3. LockInv'
    BY <1>1 DEF LockInv, Holding
  <1>4. \A m \in Names : P!Terminating(m)' <=> P!Terminating(m)
    BY <1>1 DEF P!Terminating
  <1>5. SandboxInv'
    BY <1>1, <1>2, <1>4 DEF SandboxInv
  <1>6. RunInv'
    BY <1>1, <1>2 DEF RunInv
  <1>7. \A q \in Requests : req[q].pc = "terminating" => req'[q] = req[q]
    BY <1>1
  <1>8. EveryProcessManaged'
    BY <1>1, <1>2, <1>4, <1>7 DEF EveryProcessManaged, P!EveryProcessManaged
  <1> QED BY <1>3, <1>5, <1>6, <1>8 DEF PluginRest

\* Nobody is past the lock when a request takes it.
LEMMA LockTaken ==
    ASSUME NEW r \in Requests, NEW ops, P!Acquire(r, ops)
    PROVE  \A q \in Requests : ~ Holding(q)
  BY DEF P!Acquire, P!LockFree, Holding

LEMMA NoneTerminating ==
    ASSUME \A q \in Requests : ~ Holding(q)
    PROVE  \A m : ~ P!Terminating(m)
  BY DEF P!Terminating, Holding

LEMMA InstallKeeps ==
    ASSUME PluginInv, NEW r \in Requests, P!Install(r)
    PROVE  PluginRest'
  <1> USE DEF PluginInv, PluginType
  <1> DEFINE n == req[r].name
  <1>1. \A q \in Requests : ~ Holding(q)
    BY LockTaken DEF P!Install
  <1>2. /\ req' = [req EXCEPT ![r] = P!Idle] /\ n \in Names
        /\ UNCHANGED <<server, gen, sandbox, proc>>
    BY DEF P!Install, P!Answer, P!Acquire, LockInv
  <1>3. \A q \in Requests : ~ Holding(q)'
    BY <1>1, <1>2 DEF Holding, P!Idle
  <1>4. \/ /\ info' = [info EXCEPT ![n] = "loaded"]
           /\ reinstalled' = IF sandbox[n] = 0 THEN reinstalled ELSE reinstalled \cup {n}
        \/ UNCHANGED <<info, reinstalled>>
    BY DEF P!Install
  <1>5. LockInv'
    BY <1>2, <1>3 DEF LockInv, P!Idle
  <1>6. (\A m : ~ P!Terminating(m)) /\ (\A m : ~ P!Terminating(m)')
    BY <1>1, <1>3 DEF P!Terminating, Holding
  <1>7. SandboxInv'
    <2>1. \A m \in Names : sandbox[m] # 0 => info'[m] = "running" \/ m \in reinstalled'
      BY <1>2, <1>4 DEF SandboxInv
    <2>2. \A m \in Names : info'[m] = "running" => sandbox[m] # 0
      BY <1>2, <1>4, <1>6 DEF SandboxInv
    <2> QED BY <1>2, <1>3, <2>1, <2>2 DEF SandboxInv, Holding
  <1>8. RunInv'
    BY <1>2 DEF RunInv
  <1>9. EveryProcessManaged'
    <2>1. reinstalled \subseteq reinstalled'
      BY <1>4
    <2>2. \A m \in Names : info'[m] = "running" => sandbox[m] # 0
      BY <1>2, <1>4, <1>6 DEF SandboxInv
    <2> QED BY <1>1, <1>2, <2>1, <2>2 DEF EveryProcessManaged, P!EveryProcessManaged, Holding
  <1> QED BY <1>5, <1>7, <1>8, <1>9 DEF PluginRest

LEMMA RefusedKeeps ==
    ASSUME PluginInv, NEW r \in Requests, P!Refused(r)
    PROVE  PluginRest'
  <1> USE DEF PluginInv, PluginType
  <1>1. \A q \in Requests : ~ Holding(q)
    BY LockTaken DEF P!Refused
  <1>2. /\ req' = [req EXCEPT ![r] = P!Idle]
        /\ UNCHANGED <<server, gen, info, sandbox, proc, reinstalled>>
    BY DEF P!Refused, P!Answer, P!disk
  <1>3. \A q \in Requests : ~ Holding(q)'
    BY <1>1, <1>2 DEF Holding, P!Idle
  <1>4. (\A m : ~ P!Terminating(m)) /\ (\A m : ~ P!Terminating(m)')
    BY <1>1, <1>3 DEF P!Terminating, Holding
  <1>5. LockInv'
    BY <1>2, <1>3 DEF LockInv, P!Idle
  <1>6. SandboxInv'
    BY <1>2, <1>3, <1>4 DEF SandboxInv, Holding
  <1>7. RunInv'
    BY <1>2 DEF RunInv
  <1>8. EveryProcessManaged'
    BY <1>1, <1>2, <1>4 DEF EveryProcessManaged, P!EveryProcessManaged, Holding
  <1> QED BY <1>5, <1>6, <1>7, <1>8 DEF PluginRest

LEMMA EnableKeeps ==
    ASSUME PluginInv, NEW r \in Requests, P!Enable(r)
    PROVE  PluginRest'
  <1> USE DEF PluginInv, PluginType
  <1>1. \A q \in Requests : ~ Holding(q)
    BY LockTaken DEF P!Enable
  <1>2. /\ req' = [req EXCEPT ![r].pc = "starting"] /\ info[req[r].name] # "running"
        /\ req[r].pc = "waiting"
        /\ UNCHANGED <<server, gen, info, sandbox, proc, reinstalled>>
    BY DEF P!Enable, P!Acquire, P!disk
  <1>3. req'[r] = [req[r] EXCEPT !.pc = "starting"] /\ \A q \in Requests \ {r} : req'[q] = req[q]
    BY <1>2
  <1>4. /\ req'[r].pc = "starting" /\ req'[r].name = req[r].name
        /\ \A q \in Requests : Holding(q)' => q = r
    BY <1>1, <1>3 DEF Holding, ReqType
  <1>5. (\A m : ~ P!Terminating(m)) /\ (\A m : ~ P!Terminating(m)')
    BY <1>1, <1>4 DEF P!Terminating, Holding
  <1>6. LockInv'
    BY <1>2, <1>3, <1>4 DEF LockInv
  <1>7. SandboxInv'
    BY <1>2, <1>4, <1>5 DEF SandboxInv, Holding
  <1>8. RunInv'
    BY <1>2 DEF RunInv, P!Idle
  <1>9. EveryProcessManaged'
    BY <1>1, <1>2, <1>5 DEF EveryProcessManaged, P!EveryProcessManaged, Holding
  <1> QED BY <1>6, <1>7, <1>8, <1>9 DEF PluginRest

LEMMA StartedKeeps ==
    ASSUME PluginInv, NEW r \in Requests, P!Started(r)
    PROVE  PluginRest'
  <1> USE DEF PluginInv, PluginType
  <1> DEFINE n == req[r].name
  <1>1. PICK p \in P!Procs :
           /\ proc[p].state = "free"
           /\ proc' = [proc EXCEPT ![p] = [name |-> n, gen |-> gen, state |-> "live"]]
           /\ sandbox' = [sandbox EXCEPT ![n] = p]
    BY DEF P!Started
  <1>2. /\ req' = [req EXCEPT ![r] = P!Idle] /\ n \in Names /\ req[r].pc = "starting"
        /\ info' = [info EXCEPT ![n] = "running"]
        /\ UNCHANGED <<server, gen, reinstalled>>
    BY DEF P!Started, P!Answer, P!disk, LockInv
  <1>3. p # 0
    BY DEF P!Procs
  <1>4. (\A q \in Requests : Holding(q) => q = r) /\ (\A q \in Requests : ~ Holding(q)')
    BY <1>2 DEF Holding, P!Idle, LockInv
  <1>5. (\A m : ~ P!Terminating(m)) /\ (\A m : ~ P!Terminating(m)')
    BY <1>2, <1>4 DEF P!Terminating, Holding
  <1>6. LockInv'
    BY <1>2, <1>4 DEF LockInv, P!Idle
  <1>7. SandboxInv'
    BY <1>1, <1>2, <1>3, <1>4, <1>5 DEF SandboxInv, Holding
  <1>8. RunInv'
    <2>1. server # "down"
      BY <1>2 DEF RunInv, P!Idle
    <2> QED BY <1>1, <1>2, <2>1 DEF RunInv
  <1>9. EveryProcessManaged'
    <2>1. \A q \in P!Procs : q # p => proc'[q] = proc[q]
      BY <1>1
    <2>2. sandbox[n] # 0 => n \in reinstalled
      BY <1>2 DEF SandboxInv
    <2>3. ASSUME server' = "up", NEW q \in P!Procs, proc'[q].state = "live", proc'[q].gen = gen'
          PROVE  proc'[q].name \in reinstalled' \/ sandbox'[proc'[q].name] = q
      <3>1. CASE q = p
        BY <1>1, <1>2, <3>1
      <3>2. CASE q # p
        <4>1. proc[q].name \in reinstalled \/ sandbox[proc[q].name] = q
          BY <1>2, <2>1, <2>3, <3>2, <1>4 DEF EveryProcessManaged, P!EveryProcessManaged, Holding
        <4>2. proc[q].name \in Names /\ q # 0
          BY <2>1, <2>3, <3>2 DEF RunInv, P!Procs
        <4> QED BY <1>1, <1>2, <2>1, <2>2, <3>2, <4>1, <4>2
      <3> QED BY <3>1, <3>2
    <2>4. \A m \in Names : info'[m] = "running" => sandbox'[m] # 0
      BY <1>1, <1>2, <1>3, <1>5 DEF SandboxInv
    <2> QED BY <2>3, <2>4 DEF EveryProcessManaged, P!EveryProcessManaged
  <1> QED BY <1>6, <1>7, <1>8, <1>9 DEF PluginRest

LEMMA StartFailsKeeps ==
    ASSUME PluginInv, NEW r \in Requests, P!StartFails(r)
    PROVE  PluginRest'
  <1> USE DEF PluginInv, PluginType
  <1> DEFINE n == req[r].name
  <1>1. /\ req' = [req EXCEPT ![r] = P!Idle] /\ n \in Names /\ req[r].pc = "starting"
        /\ info' = [info EXCEPT ![n] = "error"]
        /\ UNCHANGED <<server, gen, sandbox, proc, reinstalled>>
    BY DEF P!StartFails, P!Answer, P!disk, LockInv
  <1>2. (\A q \in Requests : Holding(q) => q = r) /\ (\A q \in Requests : ~ Holding(q)')
    BY <1>1 DEF Holding, P!Idle, LockInv
  <1>3. (\A m : ~ P!Terminating(m)) /\ (\A m : ~ P!Terminating(m)')
    BY <1>1, <1>2 DEF P!Terminating, Holding
  <1>4. LockInv'
    BY <1>1, <1>2 DEF LockInv, P!Idle
  <1>5. SandboxInv'
    BY <1>1, <1>2, <1>3 DEF SandboxInv, Holding
  <1>6. RunInv'
    BY <1>1 DEF RunInv
  <1>7. EveryProcessManaged'
    BY <1>1, <1>2, <1>3 DEF EveryProcessManaged, P!EveryProcessManaged, Holding
  <1> QED BY <1>4, <1>5, <1>6, <1>7 DEF PluginRest

\* A plugin is stopped by the request that holds the lock, and has no process
\* of its own left.
LEMMA StoppedKeeps ==
    ASSUME PluginInv, NEW r \in Requests, P!Stopped(r), NEW n \in Names, n = req[r].name,
           \A q \in Requests : Holding(q) => q = r,
           sandbox' = [sandbox EXCEPT ![n] = 0],
           \A p \in P!Procs :
              sandbox[n] = p \/ (req[r].pc = "terminating" /\ req[r].proc = p) => proc[p].state # "live",
           UNCHANGED <<server, gen, proc, reinstalled>>
    PROVE  PluginRest'
  <1> USE DEF PluginInv, PluginType
  <1>1. /\ req' = [req EXCEPT ![r] = P!Idle]
        /\ info' = [info EXCEPT ![n] = IF req[r].op = "disable" THEN "stopped" ELSE "absent"]
    BY DEF P!Stopped, P!Answer
  <1>2. \A q \in Requests : ~ Holding(q)'
    BY <1>1 DEF Holding, P!Idle
  <1>3. \A m : ~ P!Terminating(m)'
    BY <1>2 DEF P!Terminating, Holding
  <1>4. \A m \in Names : m # n => ~ P!Terminating(m)
    BY DEF P!Terminating, Holding
  <1>5. LockInv'
    BY <1>1, <1>2 DEF LockInv, P!Idle
  <1>6. \A m \in Names : info'[m] = "running" => sandbox'[m] # 0
    BY <1>1, <1>4 DEF SandboxInv
  <1>7. SandboxInv'
    BY <1>1, <1>2, <1>6 DEF SandboxInv, Holding
  <1>8. RunInv'
    BY <1>1 DEF RunInv
  <1>9. EveryProcessManaged'
    <2>1. ASSUME server = "up", NEW q \in P!Procs, proc[q].state = "live", proc[q].gen = gen
          PROVE  proc[q].name \in reinstalled \/ sandbox'[proc[q].name] = q
      <3>1. \/ proc[q].name \in reinstalled
            \/ sandbox[proc[q].name] = q
        BY <2>1 DEF EveryProcessManaged, P!EveryProcessManaged, Holding
      <3>2. proc[q].name \in Names
        BY <2>1 DEF RunInv
      <3> QED BY <2>1, <3>1, <3>2
    <2> QED BY <1>6, <2>1 DEF EveryProcessManaged, P!EveryProcessManaged
  <1> QED BY <1>5, <1>7, <1>8, <1>9 DEF PluginRest

LEMMA DisableKeeps ==
    ASSUME PluginInv, NEW r \in Requests, P!Disable(r)
    PROVE  PluginRest'
  <1> USE DEF PluginInv, PluginType
  <1> DEFINE n == req[r].name
             p == sandbox[n]
  <1>1. \A q \in Requests : ~ Holding(q)
    BY LockTaken DEF P!Disable
  <1>2. /\ sandbox' = [sandbox EXCEPT ![n] = 0] /\ n \in Names /\ req[r].pc = "waiting"
        /\ UNCHANGED <<server, gen, proc, reinstalled>>
    BY DEF P!Disable, P!Acquire, LockInv
  <1>3. CASE p # 0 /\ proc[p].state = "live"
    <2>1. /\ req' = [req EXCEPT ![r].pc = "terminating", ![r].proc = p]
          /\ UNCHANGED info
      BY <1>3 DEF P!Disable
    <2>2. /\ req'[r].pc = "terminating" /\ req'[r].proc = p /\ req'[r].name = n
          /\ \A q \in Requests \ {r} : req'[q] = req[q]
      BY <2>1 DEF ReqType
    <2>3. \A q \in Requests : Holding(q)' <=> q = r
      BY <1>1, <2>2 DEF Holding
    <2>4. \A m \in Names : P!Terminating(m)' <=> m = n
      BY <2>2, <2>3 DEF P!Terminating, Holding
    <2>5. LockInv'
      BY <1>2, <2>2, <2>3 DEF LockInv
    <2>6. \A m \in Names : info'[m] = "running" /\ m # n => sandbox'[m] # 0
      BY <1>1, <1>2, <2>1, NoneTerminating DEF SandboxInv
    <2>7. SandboxInv'
      BY <1>2, <1>3, <2>1, <2>2, <2>3, <2>4, <2>6 DEF SandboxInv, Holding
    <2>8. RunInv'
      BY <1>2, <2>1 DEF RunInv, P!Idle
    <2>9. EveryProcessManaged'
      <3>1. ASSUME server = "up", NEW q \in P!Procs, proc[q].state = "live", proc[q].gen = gen
            PROVE  \/ proc[q].name \in reinstalled
                   \/ sandbox'[proc[q].name] = q
                   \/ req'[r].pc = "terminating" /\ req'[r].proc = q
        <4>1. proc[q].name \in reinstalled \/ sandbox[proc[q].name] = q
          BY <1>1, <3>1 DEF EveryProcessManaged, P!EveryProcessManaged, Holding
        <4>2. proc[q].name \in Names
          BY <3>1 DEF RunInv
        <4> QED BY <1>2, <2>2, <4>1, <4>2
      <3> QED BY <1>2, <2>4, <2>6, <3>1 DEF EveryProcessManaged, P!EveryProcessManaged
    <2> QED BY <2>5, <2>7, <2>8, <2>9 DEF PluginRest
  <1>4. CASE ~ (p # 0 /\ proc[p].state = "live")
    <2>1. P!Stopped(r)
      BY <1>4 DEF P!Disable
    <2>2. \A q \in P!Procs : q # 0
      BY DEF P!Procs
    <2> QED BY <1>1, <1>2, <1>4, <2>1, <2>2, StoppedKeeps
  <1> QED BY <1>3, <1>4

LEMMA WaitedKeeps ==
    ASSUME PluginInv, NEW r \in Requests, P!Waited(r)
    PROVE  PluginRest'
  <1> USE DEF PluginInv, PluginType
  <1> DEFINE n == req[r].name
  <1>1. /\ req[r].pc = "terminating" /\ proc[req[r].proc].state = "dead" /\ P!Stopped(r)
        /\ UNCHANGED <<server, gen, sandbox, proc, reinstalled>>
    BY DEF P!Waited
  <1>2. n \in Names /\ \A q \in Requests : Holding(q) => q = r
    BY <1>1 DEF LockInv, Holding
  <1>3. sandbox[n] = 0 /\ sandbox' = [sandbox EXCEPT ![n] = 0]
    BY <1>1, <1>2 DEF SandboxInv
  <1>4. \A p \in P!Procs :
           sandbox[n] = p \/ (req[r].pc = "terminating" /\ req[r].proc = p) => proc[p].state # "live"
    BY <1>1, <1>3 DEF P!Procs
  <1> HIDE DEF PluginInv, n
  <1>5. n = req[r].name
    BY DEF n
  <1> QED BY <1>1, <1>2, <1>3, <1>4, <1>5, StoppedKeeps

\* A process that ends leaves fewer to look after.
LEMMA ExitKeeps ==
    ASSUME PluginInv, NEW p \in P!Procs, P!ExitOf(p)
    PROVE  PluginRest'
  <1> USE DEF PluginInv, PluginType
  <1>1. /\ \A q \in P!Procs : /\ proc'[q].gen = proc[q].gen /\ proc'[q].name = proc[q].name
                              /\ proc'[q].state = "live" => proc[q].state = "live"
        /\ UNCHANGED <<server, gen, info, sandbox, req, reinstalled>>
    BY DEF P!ExitOf, P!disk, ProcType
  <1>2. LockInv' /\ SandboxInv'
    BY <1>1 DEF LockInv, SandboxInv, Holding, P!Terminating
  <1>3. RunInv'
    BY <1>1 DEF RunInv
  <1>4. EveryProcessManaged'
    BY <1>1 DEF EveryProcessManaged, P!EveryProcessManaged, P!Terminating
  <1> QED BY <1>2, <1>3, <1>4 DEF PluginRest

LEMMA OperateKeeps ==
    ASSUME PluginInv, NEW r \in Requests, P!Operate(r)
    PROVE  PluginRest'
  <1>1. CASE P!KillAfterTimeout(r)
    <2>1. req[r].proc \in P!Procs
      BY <1>1 DEF P!KillAfterTimeout, PluginInv, PluginType, ReqType, SandboxInv
    <2> QED BY <1>1, <2>1, ExitKeeps DEF P!KillAfterTimeout
  <1> QED BY <1>1, InstallKeeps, RefusedKeeps, EnableKeeps, StartedKeeps, StartFailsKeeps,
             DisableKeeps, WaitedKeeps DEF P!Operate

(* ... by the processes, the tool, and the server itself.                  *)

LEMMA EnvironmentKeeps ==
    ASSUME PluginInv, P!Environment
    PROVE  PluginRest'
  <1>1. ASSUME NEW p \in P!Procs, P!ProcessExits(p)
        PROVE  PluginRest'
    BY <1>1, ExitKeeps DEF P!ProcessExits
  <1>2. ASSUME UNCHANGED <<server, gen, info, sandbox, proc, req, reinstalled>>
        PROVE  PluginRest'
    BY <1>2 DEF PluginInv, PluginRest, LockInv, SandboxInv, RunInv, Holding, P!Terminating,
                EveryProcessManaged, P!EveryProcessManaged
  <1>3. ASSUME NEW p \in P!Procs, P!Connect(p)
        PROVE  PluginRest'
    BY <1>2, <1>3 DEF P!Connect, P!disk
  <1>4. ASSUME NEW n \in Names, NEW sig \in P!Sigs, P!CmdUpload(n, sig)
        PROVE  PluginRest'
    BY <1>2, <1>4 DEF P!CmdUpload
  <1> QED BY <1>1, <1>3, <1>4 DEF P!Environment

LEMMA ServerKeeps ==
    ASSUME PluginInv, P!BeginShutdown \/ P!CloseSocket \/ P!EndShutdown \/ P!Crash \/ P!Restart
    PROVE  PluginRest'
  <1> USE DEF PluginInv, PluginType
  <1>1. CASE P!BeginShutdown \/ P!CloseSocket
    <2>1. server' \in {"draining", "stopping"} /\ UNCHANGED <<gen, info, sandbox, proc, req, reinstalled>>
      BY <1>1 DEF P!BeginShutdown, P!CloseSocket
    <2> QED BY <2>1 DEF PluginRest, LockInv, SandboxInv, RunInv, Holding, P!Terminating,
                        EveryProcessManaged, P!EveryProcessManaged
  <1>2. CASE P!EndShutdown \/ P!Crash
    <2>1. /\ server' = "down" /\ info' = [n \in Names |-> "absent"]
          /\ sandbox' = [n \in Names |-> 0] /\ req' = [r \in Requests |-> P!Idle]
          /\ UNCHANGED <<gen, proc>>
      BY <1>2 DEF P!EndShutdown, P!Crash, P!Fall
    <2> QED BY <2>1 DEF PluginRest, LockInv, SandboxInv, RunInv, Holding, P!Idle,
                        EveryProcessManaged, P!EveryProcessManaged
  <1>3. CASE P!Restart
    <2>1. /\ server = "down" /\ server' = "up" /\ gen' = gen + 1 /\ info' = P!Discover
          /\ UNCHANGED <<proc, req, sandbox, reinstalled>>
      BY <1>3 DEF P!Restart
    <2>2. /\ \A n \in Names : sandbox[n] = 0
          /\ \A r \in Requests : req[r] = P!Idle
      BY <2>1 DEF RunInv
    <2>3. \A n \in Names : info'[n] # "running"
      BY <2>1 DEF P!Discover
    <2>4. \A p \in P!Procs : proc[p].gen < gen'
      BY <2>1 DEF RunInv, ProcType
    <2>5. LockInv' /\ SandboxInv'
      BY <2>1, <2>2, <2>3 DEF LockInv, SandboxInv, Holding, P!Idle
    <2>6. RunInv'
      BY <2>1, <2>4 DEF RunInv, ProcType
    <2>7. EveryProcessManaged'
      BY <2>1, <2>3, <2>4 DEF EveryProcessManaged, P!EveryProcessManaged, ProcType
    <2> QED BY <2>5, <2>6, <2>7 DEF PluginRest
  <1> QED BY <1>1, <1>2, <1>3

LEMMA PluginNext ==
    ASSUME PluginInv, [SNext]_serverVars
    PROVE  PluginInv'
  <1>1. [P!Next]_plugins
    BY PluginCases
  <1>2. CASE P!Ask
    BY <1>2, AskIsSubmit, SubmitType, SubmitKeeps DEF PluginInv, PluginRest
  <1>3. ASSUME NEW r \in Requests, P!Operate(r)
        PROVE  PluginInv'
    BY <1>3, OperateType, OperateKeeps DEF PluginInv, PluginRest
  <1>4. CASE P!Environment
    BY <1>4, EnvironmentType, EnvironmentKeeps DEF PluginInv, PluginRest
  <1>5. CASE P!BeginShutdown \/ P!CloseSocket \/ P!EndShutdown \/ P!Crash \/ P!Restart
    BY <1>5, ServerType, ServerKeeps DEF PluginInv, PluginRest
  <1>6. CASE UNCHANGED plugins
    BY <1>6 DEF plugins, PluginInv, PluginType, LockInv, SandboxInv, RunInv, Holding, P!Terminating,
                EveryProcessManaged, P!EveryProcessManaged
  <1> QED BY <1>1, <1>2, <1>3, <1>4, <1>5, <1>6 DEF P!Next

\* The lock keeps the registry and the processes together: for any number of
\* plugins, requests, processes and runs of the server, every live process of
\* this run is the registered sandbox of its plugin or is being stopped, unless
\* its plugin was installed over it (manager.py, enable, disable, delete).
THEOREM ProcessesManaged == SSpec => []EveryProcessManaged
  <1>1. SInit => PluginInv
    BY PluginInit
  <1>2. PluginInv /\ [SNext]_serverVars => PluginInv'
    BY PluginNext
  <1>3. PluginInv => EveryProcessManaged
    BY DEF PluginInv
  <1> QED BY <1>1, <1>2, <1>3, PTL DEF SSpec

\* The plugin system of the server process is the one of Plugins, whatever the
\* models do beside it.
THEOREM PluginsAlone == SSpec => P!Spec
  <1>1. SInit => P!Init
    BY DEF SInit
  <1>2. [SNext]_serverVars => [P!Next]_P!vars
    BY PluginCases DEF P!vars, plugins
  <1> QED BY <1>1, <1>2, PTL DEF SSpec, P!Spec

(***************************************************************************)
(* The checkpoint, one half at a time.  Of a half that two saves write     *)
(* beside each other only the types and that nothing is kept, are known.  *)
(***************************************************************************)

Labels == {"idle", "dump", "sign", "replace", "replaceMac"}

ModelType ==
    /\ file \in [M!Halves -> [M!Kinds -> Int]] /\ pc \in [M!Savers -> Labels]
    /\ half \in [M!Savers -> M!Halves \cup {"none"}] /\ snap \in [M!Savers -> Nat]
    /\ handle \in [M!Savers -> {"none", "tmp", "data"}]
    /\ trained \in [M!Halves -> Nat] /\ training \subseteq M!Halves /\ model \in Nat
    /\ beside \subseteq M!Halves /\ kept \in [M!Halves -> Nat]

\* The steps of each half.
Places ==
    \A s \in M!Savers :
        /\ half[s] = "none" <=> pc[s] = "idle"
        /\ pc[s] = "replaceMac" => half[s] = "anomaly"

\* What a save that has a half to itself has written when it comes to a step.
Wrote(s, h) ==
    /\ handle[s] = IF pc[s] = "dump" THEN "tmp" ELSE "none"
    /\ pc[s] \in {"sign", "replace"} => file[h].tmp >= snap[s]
    /\ pc[s] = "replace" => file[h].tmp = IF h = "anomaly" THEN file[h].tmpMac ELSE file[h].mac
    /\ pc[s] = "replaceMac" => file[h].data >= snap[s] /\ file[h].tmpMac = file[h].data

KeptInv(h) ==
    kept[h] > 0 /\ (\A s \in M!Savers : ~ M!Between(s, h))
        => M!Loadable(h) /\ file[h].data >= kept[h]

HalfInv(h) ==
    /\ h \in beside => kept[h] = 0
    /\ h \notin beside =>
          \A s \in M!Savers : half[s] = h =>
              Wrote(s, h) /\ \A t \in M!Savers : half[t] = h => t = s
    /\ KeptInv(h)

CheckpointInv == ModelType /\ Places /\ \A h \in M!Halves : HalfInv(h)

LEMMA CheckpointImplied == CheckpointInv => CheckpointKept
  BY DEF CheckpointInv, HalfInv, KeptInv, CheckpointKept, M!CheckpointKept

LEMMA CheckpointInit == SInit => CheckpointInv
  <1> SUFFICES ASSUME SInit PROVE CheckpointInv
    OBVIOUS
  <1>1. M!Init
    BY DEF SInit
  <1>2. ModelType
    BY <1>1 DEF M!Init, M!Absent, ModelType, Labels
  <1>3. Places
    BY <1>1 DEF M!Init, Places
  <1>4. ASSUME NEW h \in M!Halves PROVE HalfInv(h)
    BY <1>1 DEF M!Init, M!Absent, M!Halves, HalfInv, KeptInv
  <1> QED BY <1>2, <1>3, <1>4 DEF CheckpointInv

LEMMA CheckpointCases ==
    ASSUME [SNext]_serverVars
    PROVE  \/ M!Work \/ M!Threads \/ M!Cancelled \/ M!RunEnds \/ M!Exit \/ M!Crash \/ M!Restart
           \/ UNCHANGED models
  BY DEF SNext, serverVars, CreateEngines, StartPlugins, OpenGrpc, StartWorkers, ExposeState, Ask,
         Operate, Environment, StartWork, Threads, StopWorkers, WorkersStopped, StopPlugins, ProcessEnds,
         ProcessCrashes

\* What does not touch a half leaves what is known of it.
LEMMA HalfFrame ==
    ASSUME NEW h \in M!Halves, HalfInv(h), file'[h] = file[h], kept'[h] = kept[h],
           h \in beside' <=> h \in beside,
           \A t \in M!Savers :
               /\ half'[t] = h <=> half[t] = h
               /\ half[t] = h => pc'[t] = pc[t] /\ snap'[t] = snap[t] /\ handle'[t] = handle[t]
    PROVE  HalfInv(h)'
  <1>1. (h \in beside => kept[h] = 0)'
    BY DEF HalfInv
  <1>2. ASSUME h \notin beside', NEW s \in M!Savers, half'[s] = h
        PROVE  Wrote(s, h)' /\ \A t \in M!Savers : half'[t] = h => t = s
    BY <1>2 DEF HalfInv, Wrote
  <1>3. KeptInv(h)'
    <2>1. \A s \in M!Savers : M!Between(s, h)' <=> M!Between(s, h)
      BY DEF M!Between
    <2>2. M!Loadable(h)' <=> M!Loadable(h)
      BY DEF M!Loadable
    <2> QED BY <2>1, <2>2 DEF HalfInv, KeptInv
  <1> QED BY <1>1, <1>2, <1>3 DEF HalfInv

LEMMA TrainingChecked ==
    ASSUME CheckpointInv,
           \/ \E h \in M!Halves : M!BeginTraining(h) \/ M!Train(h)
           \/ M!RunEnds \/ M!Restart \/ UNCHANGED models
    PROVE  CheckpointInv'
  <1>1. UNCHANGED <<file, pc, half, snap, handle, beside, kept>>
    BY DEF M!BeginTraining, M!Train, M!RunEnds, M!Restart, M!saver, M!memory, models
  <1>2. trained' \in [M!Halves -> Nat] /\ training' \subseteq M!Halves /\ model' \in Nat
    <2>1. CASE M!Restart
      <3>1. model' = model + 1 /\ UNCHANGED training
            /\ trained' = [h \in M!Halves |-> IF M!Loadable("anomaly") /\ M!Loadable(h)
                                              THEN file[h].data ELSE model']
        BY <2>1 DEF M!Restart
      <3>2. ASSUME NEW h \in M!Halves, M!Loadable(h) PROVE file[h].data \in Nat
        BY <3>2 DEF M!Loadable, M!Kinds, CheckpointInv, ModelType
      <3> QED BY <3>1, <3>2 DEF CheckpointInv, ModelType
    <2>2. CASE \E h \in M!Halves : M!BeginTraining(h) \/ M!Train(h)
      BY <2>2 DEF M!BeginTraining, M!Train, CheckpointInv, ModelType
    <2> QED BY <2>1, <2>2 DEF M!RunEnds, M!memory, models, CheckpointInv, ModelType
  <1>3. ModelType'
    BY <1>1, <1>2 DEF CheckpointInv, ModelType
  <1>4. Places'
    BY <1>1 DEF CheckpointInv, Places
  <1>5. ASSUME NEW h \in M!Halves PROVE HalfInv(h)'
    BY <1>1, HalfFrame DEF CheckpointInv
  <1> QED BY <1>3, <1>4, <1>5 DEF CheckpointInv

\* A saver comes to a half.
LEMMA EnterChecked ==
    ASSUME CheckpointInv, NEW s \in M!Savers, NEW h \in M!Halves, half[s] # h,
           NEW base \in [M!Halves -> [M!Kinds -> Int]], base[h] = file[h],
           NEW claim \in [M!Halves -> Nat], claim[h] = kept[h],
           M!Enter(s, h, base), M!Keep(claim)
    PROVE  /\ file' \in [M!Halves -> [M!Kinds -> Int]] /\ pc' \in [M!Savers -> Labels]
           /\ half' \in [M!Savers -> M!Halves \cup {"none"}] /\ snap' \in [M!Savers -> Nat]
           /\ handle' \in [M!Savers -> {"none", "tmp", "data"}]
           /\ beside' \subseteq M!Halves /\ kept' \in [M!Halves -> Nat]
           /\ Places' /\ HalfInv(h)'
           /\ pc' = [pc EXCEPT ![s] = "dump"] /\ half' = [half EXCEPT ![s] = h]
           /\ snap' = [snap EXCEPT ![s] = trained[h]] /\ handle' = [handle EXCEPT ![s] = "tmp"]
           /\ \A g \in M!Halves \ {h} :
                 /\ file'[g] = base[g] /\ (g \in beside' <=> g \in beside)
                 /\ kept'[g] = IF g \in beside THEN 0 ELSE claim[g]
  <1> USE DEF CheckpointInv, ModelType
  <1>1. /\ pc' = [pc EXCEPT ![s] = "dump"] /\ half' = [half EXCEPT ![s] = h]
        /\ snap' = [snap EXCEPT ![s] = trained[h]] /\ handle' = [handle EXCEPT ![s] = "tmp"]
        /\ file' = [base EXCEPT ![h].tmp = -1]
        /\ beside' = IF M!Shared(s, h) THEN beside \cup {h} ELSE beside \ {h}
        /\ kept' = [g \in M!Halves |-> IF g \in beside' THEN 0 ELSE claim[g]]
    BY DEF M!Enter, M!Opened, M!Keep, M!Torn, M!Absent
  <1>2. -1 \in Int /\ "tmp" \in M!Kinds
    BY DEF M!Kinds
  <1>3. file' \in [M!Halves -> [M!Kinds -> Int]]
    BY <1>1, <1>2
  <1>4. beside' \subseteq M!Halves /\ kept' \in [M!Halves -> Nat]
    BY <1>1
  <1>5. Places'
    BY <1>1 DEF Places, M!Halves
  <1>6. KeptInv(h)'
    <2>1. ASSUME kept'[h] > 0
          PROVE  h \notin beside' /\ kept'[h] = kept[h] /\ ~ M!Shared(s, h) /\ h \notin beside
      BY <1>1, <2>1 DEF HalfInv
    <2>2. ASSUME kept'[h] > 0, NEW t \in M!Savers PROVE ~ M!Between(t, h)
      BY <2>1, <2>2 DEF M!Between, M!Shared
    <2>3. file'[h].data = file[h].data /\ file'[h].mac = file[h].mac
      BY <1>1 DEF M!Kinds
    <2> QED BY <2>1, <2>2, <2>3 DEF KeptInv, HalfInv, M!Loadable
  <1>7. HalfInv(h)'
    <2>1. h \in beside' => kept'[h] = 0
      BY <1>1
    <2>2. ASSUME h \notin beside', NEW t \in M!Savers, half'[t] = h
          PROVE  t = s
      BY <1>1, <2>2 DEF M!Shared
    <2>3. Wrote(s, h)'
      BY <1>1 DEF Wrote
    <2> QED BY <1>6, <2>1, <2>2, <2>3 DEF HalfInv
  <1> QED BY <1>1, <1>3, <1>4, <1>5, <1>7 DEF Labels

\* A save begins: the periodic one, or the last one, alone or not.
LEMMA BeginChecked ==
    ASSUME CheckpointInv, M!Periodic \/ M!Cancelled
    PROVE  CheckpointInv'
  <1>1. PICK s \in M!Savers : M!BeginSave(s)
    BY DEF M!Periodic, M!Cancelled, M!Savers
  <1>2. /\ pc[s] = "idle" /\ M!Enter(s, "anomaly", file) /\ M!Keep(kept)
        /\ UNCHANGED <<trained, training, model>>
    BY <1>1 DEF M!BeginSave, M!memory
  <1>3. half[s] = "none" /\ "anomaly" \in M!Halves
    BY <1>2 DEF CheckpointInv, Places, M!Halves
  <1>4. /\ file \in [M!Halves -> [M!Kinds -> Int]] /\ kept \in [M!Halves -> Nat]
        /\ half \in [M!Savers -> M!Halves \cup {"none"}]
        /\ pc \in [M!Savers -> Labels] /\ snap \in [M!Savers -> Nat]
        /\ handle \in [M!Savers -> {"none", "tmp", "data"}]
    BY DEF CheckpointInv, ModelType
  <1>5. /\ file' \in [M!Halves -> [M!Kinds -> Int]] /\ pc' \in [M!Savers -> Labels]
        /\ half' \in [M!Savers -> M!Halves \cup {"none"}] /\ snap' \in [M!Savers -> Nat]
        /\ handle' \in [M!Savers -> {"none", "tmp", "data"}]
        /\ beside' \subseteq M!Halves /\ kept' \in [M!Halves -> Nat]
        /\ Places' /\ HalfInv("anomaly")'
        /\ pc' = [pc EXCEPT ![s] = "dump"] /\ half' = [half EXCEPT ![s] = "anomaly"]
        /\ snap' = [snap EXCEPT ![s] = trained["anomaly"]]
        /\ handle' = [handle EXCEPT ![s] = "tmp"]
        /\ \A g \in M!Halves \ {"anomaly"} :
              /\ file'[g] = file[g] /\ (g \in beside' <=> g \in beside)
              /\ kept'[g] = IF g \in beside THEN 0 ELSE kept[g]
    BY <1>2, <1>3, <1>4, EnterChecked DEF M!Halves
  <1>6. ModelType'
    BY <1>2, <1>5 DEF CheckpointInv, ModelType
  <1>7. ASSUME NEW g \in M!Halves \ {"anomaly"} PROVE HalfInv(g)'
    <2>1. HalfInv(g) /\ kept'[g] = kept[g]
      BY <1>5 DEF CheckpointInv, HalfInv
    <2>2. ASSUME NEW t \in M!Savers
          PROVE  /\ half'[t] = g <=> half[t] = g
                 /\ half[t] = g => pc'[t] = pc[t] /\ snap'[t] = snap[t] /\ handle'[t] = handle[t]
      BY <1>3, <1>4, <1>5 DEF M!Halves
    <2> QED BY <1>5, <2>1, <2>2, HalfFrame
  <1> QED BY <1>5, <1>6, <1>7 DEF CheckpointInv


\* A step within a half, of a save that the half does not end with.
LEMMA StepChecked ==
    ASSUME CheckpointInv, NEW s \in M!Savers, NEW label \in Labels \ {"idle"},
           NEW next \in Labels \ {"idle"}, M!Step(s, label, next),
           next = "replaceMac" => half[s] = "anomaly",
           UNCHANGED <<trained, training, model>>,
           file' \in [M!Halves -> [M!Kinds -> Int]],
           handle' \in [M!Savers -> {"none", "tmp", "data"}],
           \A g \in M!Halves : g # half[s] => file'[g] = file[g],
           \A t \in M!Savers : half[t] # half[s] => handle'[t] = handle[t],
           \A g \in M!Halves : g = half[s] => HalfInv(g)'
    PROVE  CheckpointInv'
  <1> USE DEF CheckpointInv, ModelType
  <1>1. /\ pc[s] = label /\ pc' = [pc EXCEPT ![s] = next]
        /\ UNCHANGED <<half, snap, beside, kept>>
    BY DEF M!Step
  <1>2. ModelType'
    BY <1>1
  <1>3. Places'
    BY <1>1 DEF Places
  <1>4. ASSUME NEW g \in M!Halves, g # half[s] PROVE HalfInv(g)'
    <2>1. ASSUME NEW t \in M!Savers, half[t] = g
          PROVE  pc'[t] = pc[t] /\ snap'[t] = snap[t] /\ handle'[t] = handle[t]
      BY <1>1, <1>4, <2>1
    <2>2. HalfInv(g) /\ file'[g] = file[g]
      BY <1>4
    <2>3. kept'[g] = kept[g] /\ (g \in beside' <=> g \in beside)
      BY <1>1
    <2>4. \A t \in M!Savers : half'[t] = g <=> half[t] = g
      BY <1>1
    <2> HIDE DEF CheckpointInv, ModelType
    <2> QED BY <2>1, <2>2, <2>3, <2>4, HalfFrame
  <1> QED BY <1>2, <1>3, <1>4

\* Where a save is, and what it knows when it has its half to itself.
LEMMA SaverIn ==
    ASSUME CheckpointInv, NEW s \in M!Savers, pc[s] # "idle"
    PROVE  /\ half[s] \in M!Halves /\ HalfInv(half[s])
           /\ half[s] \notin beside =>
                 Wrote(s, half[s]) /\ \A t \in M!Savers : half[t] = half[s] => t = s
  <1>1. half[s] \in M!Halves
    BY DEF CheckpointInv, ModelType, Places
  <1> QED BY <1>1 DEF CheckpointInv, HalfInv

LEMMA DumpChecked ==
    ASSUME CheckpointInv, NEW s \in M!Savers, M!Dump(s), UNCHANGED <<trained, training, model>>
    PROVE  CheckpointInv'
  <1>0. PICK h \in M!Halves : h = half[s]
    BY SaverIn DEF M!Dump, M!Step
  <1>1. M!Step(s, "dump", "sign") /\ handle' = [handle EXCEPT ![s] = "none"]
    BY DEF M!Dump
  <1>2. /\ pc[s] = "dump" /\ pc' = [pc EXCEPT ![s] = "sign"]
        /\ UNCHANGED <<half, snap, beside, kept>>
    BY <1>0, <1>1 DEF M!Step
  <1>3. PICK m \in snap[s] .. trained[h] :
           file' = [file EXCEPT ![h] = [k \in M!Kinds |->
                       IF k # handle[s] THEN file[h][k]
                       ELSE IF \E t \in M!Savers \ {s} : half[t] = h /\ handle[t] = handle[s]
                            THEN -1 ELSE m]]
    BY <1>0 DEF M!Dump, M!Torn
  <1>4. /\ h \in M!Halves /\ HalfInv(h)
        /\ h \notin beside => Wrote(s, h) /\ \A t \in M!Savers : half[t] = h => t = s
    BY <1>0, <1>2, SaverIn
  <1>5. /\ file \in [M!Halves -> [M!Kinds -> Int]] /\ handle \in [M!Savers -> {"none", "tmp", "data"}]
        /\ snap \in [M!Savers -> Nat] /\ trained \in [M!Halves -> Nat]
        /\ half \in [M!Savers -> M!Halves \cup {"none"}] /\ pc \in [M!Savers -> Labels]
    BY DEF CheckpointInv, ModelType
  <1>6. m \in Int /\ m >= snap[s] /\ -1 \in Int
    BY <1>0, <1>3, <1>4, <1>5
  <1>7. \A k \in M!Kinds : file'[h][k] =
           IF k # handle[s] THEN file[h][k]
           ELSE IF \E t \in M!Savers \ {s} : half[t] = h /\ handle[t] = handle[s] THEN -1 ELSE m
    BY <1>0, <1>3, <1>4, <1>5
  <1>8. file' \in [M!Halves -> [M!Kinds -> Int]]
    <2>1. [k \in M!Kinds |-> IF k # handle[s] THEN file[h][k]
                             ELSE IF \E t \in M!Savers \ {s} : half[t] = h /\ handle[t] = handle[s]
                                  THEN -1 ELSE m] \in [M!Kinds -> Int]
      BY <1>0, <1>4, <1>5, <1>6
    <2> QED BY <1>0, <1>3, <1>5, <2>1
  <1>9. \A g \in M!Halves : g # h => file'[g] = file[g]
    BY <1>0, <1>3, <1>5
  <1>10. ASSUME h \notin beside
         PROVE  file'[h].tmp = m /\ file'[h].data = file[h].data /\ file'[h].mac = file[h].mac
    <2>1. handle[s] = "tmp"
      BY <1>0, <1>2, <1>4, <1>10 DEF Wrote
    <2> QED BY <1>0, <1>4, <1>7, <1>10, <2>1 DEF M!Kinds
  <1>11. HalfInv(h)'
    <2>1. h \in beside' => kept'[h] = 0
      BY <1>0, <1>2, <1>4 DEF HalfInv
    <2>2. h \notin beside' => Wrote(s, h)'
      BY <1>0, <1>2, <1>1, <1>5, <1>6, <1>10 DEF Wrote
    <2>3. KeptInv(h)'
      <3>1. h \in beside => kept'[h] = 0
        BY <1>0, <1>2, <1>4 DEF HalfInv
      <3>2. ASSUME h \notin beside PROVE KeptInv(h)'
        <4>1. \A t \in M!Savers : ~ M!Between(t, h)
          BY <1>0, <1>2, <1>4, <3>2 DEF M!Between
        <4> QED BY <1>0, <1>2, <1>4, <1>10, <3>2, <4>1 DEF KeptInv, HalfInv, M!Loadable
      <3> QED BY <3>1, <3>2 DEF KeptInv
    <2> QED BY <1>0, <1>2, <1>4, <2>1, <2>2, <2>3 DEF HalfInv
  <1> QED BY <1>0, <1>1, <1>2, <1>5, <1>8, <1>9, <1>11, StepChecked DEF Labels

LEMMA SignChecked ==
    ASSUME CheckpointInv, NEW s \in M!Savers, M!Sign(s), UNCHANGED <<trained, training, model>>
    PROVE  CheckpointInv'
  <1>0. PICK h \in M!Halves : h = half[s]
    BY SaverIn DEF M!Sign, M!Step
  <1>1. /\ M!Step(s, "sign", "replace") /\ UNCHANGED handle
        /\ file' = IF h = "anomaly" THEN [file EXCEPT ![h].tmpMac = file[h].tmp]
                                    ELSE [file EXCEPT ![h].mac = file[h].tmp]
    BY <1>0 DEF M!Sign
  <1>2. /\ pc[s] = "sign" /\ pc' = [pc EXCEPT ![s] = "replace"]
        /\ UNCHANGED <<half, snap, beside, kept>>
    BY <1>0, <1>1 DEF M!Step
  <1>3. /\ h \in M!Halves /\ HalfInv(h)
        /\ h \notin beside => Wrote(s, h) /\ \A t \in M!Savers : half[t] = h => t = s
    BY <1>0, <1>2, SaverIn
  <1>4. /\ file \in [M!Halves -> [M!Kinds -> Int]] /\ pc \in [M!Savers -> Labels]
        /\ handle \in [M!Savers -> {"none", "tmp", "data"}]
    BY DEF CheckpointInv, ModelType
  <1>5. /\ file' \in [M!Halves -> [M!Kinds -> Int]]
        /\ \A g \in M!Halves : g # h => file'[g] = file[g]
        /\ file'[h].tmp = file[h].tmp /\ file'[h].data = file[h].data
        /\ h = "anomaly" => file'[h].tmpMac = file[h].tmp /\ file'[h].mac = file[h].mac
        /\ h # "anomaly" => file'[h].mac = file[h].tmp
    BY <1>0, <1>1, <1>3, <1>4 DEF M!Kinds
  <1>6. HalfInv(h)'
    <2>1. h \in beside => kept'[h] = 0
      BY <1>0, <1>2, <1>3 DEF HalfInv
    <2>2. h \notin beside' => Wrote(s, h)'
      BY <1>0, <1>1, <1>2, <1>3, <1>4, <1>5 DEF Wrote
    <2>3. ASSUME h \notin beside PROVE KeptInv(h)'
      <3>1. CASE h = "anomaly"
        <4>1. \A t \in M!Savers : ~ M!Between(t, h)
          BY <1>0, <1>2, <1>3, <2>3, <3>1 DEF M!Between
        <4> QED BY <1>0, <1>2, <1>3, <1>5, <2>3, <3>1, <4>1 DEF KeptInv, HalfInv, M!Loadable
      <3>2. CASE h # "anomaly"
        <4>1. M!Between(s, h)'
          BY <1>0, <1>2, <1>4, <3>2 DEF M!Between
        <4> QED BY <1>0, <1>2, <4>1 DEF KeptInv
      <3> QED BY <3>1, <3>2
    <2> QED BY <1>0, <1>2, <1>3, <2>1, <2>2, <2>3 DEF HalfInv, KeptInv
  <1> QED BY <1>0, <1>1, <1>2, <1>4, <1>5, <1>6, StepChecked DEF Labels

LEMMA ReplacePklChecked ==
    ASSUME CheckpointInv, NEW s \in M!Savers, M!ReplacePkl(s), UNCHANGED <<trained, training, model>>
    PROVE  CheckpointInv'
  <1>0. PICK h \in M!Halves : h = half[s]
    BY SaverIn DEF M!ReplacePkl, M!Step
  <1>1. /\ h = "anomaly" /\ M!Step(s, "replace", "replaceMac")
        /\ file' = [file EXCEPT ![h].data = file[h].tmp, ![h].tmp = 0]
        /\ handle' = [t \in M!Savers |-> IF half[t] # h THEN handle[t]
                                         ELSE IF handle[t] = "tmp" THEN "data"
                                         ELSE IF handle[t] = "data" THEN "none" ELSE handle[t]]
    BY <1>0 DEF M!ReplacePkl, M!Moved, M!Absent
  <1>2. /\ pc[s] = "replace" /\ pc' = [pc EXCEPT ![s] = "replaceMac"]
        /\ UNCHANGED <<half, snap, beside, kept>>
    BY <1>0, <1>1 DEF M!Step
  <1>3. /\ h \in M!Halves /\ HalfInv(h)
        /\ h \notin beside => Wrote(s, h) /\ \A t \in M!Savers : half[t] = h => t = s
    BY <1>0, <1>2, SaverIn
  <1>4. /\ file \in [M!Halves -> [M!Kinds -> Int]] /\ pc \in [M!Savers -> Labels]
        /\ handle \in [M!Savers -> {"none", "tmp", "data"}]
    BY DEF CheckpointInv, ModelType
  <1>5. /\ file' \in [M!Halves -> [M!Kinds -> Int]]
        /\ \A g \in M!Halves : g # h => file'[g] = file[g]
        /\ file'[h].data = file[h].tmp /\ file'[h].tmpMac = file[h].tmpMac
    <2>1. 0 \in Int
      OBVIOUS
    <2> QED BY <1>0, <1>1, <1>3, <1>4, <2>1 DEF M!Kinds
  <1>6. handle' \in [M!Savers -> {"none", "tmp", "data"}]
    BY <1>0, <1>1, <1>4
  <1>7. HalfInv(h)'
    <2>1. h \in beside => kept'[h] = 0
      BY <1>0, <1>2, <1>3 DEF HalfInv
    <2>2. h \notin beside' => Wrote(s, h)'
      BY <1>0, <1>1, <1>2, <1>3, <1>4, <1>5 DEF Wrote
    <2>3. KeptInv(h)'
      <3>1. M!Between(s, h)'
        BY <1>0, <1>1, <1>2, <1>4 DEF M!Between
      <3> QED BY <1>0, <1>2, <3>1 DEF KeptInv
    <2> QED BY <1>0, <1>2, <1>3, <2>1, <2>2, <2>3 DEF HalfInv
  <1>8. \A t \in M!Savers : half[t] # half[s] => handle'[t] = handle[t]
    BY <1>0, <1>1
  <1>9. "replace" \in Labels \ {"idle"} /\ "replaceMac" \in Labels \ {"idle"} /\ half[s] = "anomaly"
    BY <1>0, <1>1 DEF Labels
  <1>10. /\ M!Step(s, "replace", "replaceMac")
         /\ \A g \in M!Halves : g # half[s] => file'[g] = file[g]
         /\ \A g \in M!Halves : g = half[s] => HalfInv(g)'
    BY <1>0, <1>1, <1>5, <1>7
  <1> QED BY <1>5, <1>6, <1>8, <1>9, <1>10, StepChecked

\* The anomaly models are saved and the classifier is next.
LEMMA ReplaceMacChecked ==
    ASSUME CheckpointInv, NEW s \in M!Savers, M!ReplaceMac(s), UNCHANGED <<trained, training, model>>
    PROVE  CheckpointInv'
  <1> DEFINE base == [file EXCEPT !["anomaly"].mac = file["anomaly"].tmpMac, !["anomaly"].tmpMac = 0]
             claim == [kept EXCEPT ![half[s]] = snap[s]]
  <1>1. /\ pc[s] = "replaceMac" /\ M!Enter(s, "classifier", base) /\ M!Keep(claim)
    BY DEF M!ReplaceMac, M!Absent, M!Saved
  <1>2. /\ half[s] = "anomaly" /\ HalfInv("anomaly")
        /\ "anomaly" \notin beside =>
              Wrote(s, "anomaly") /\ \A t \in M!Savers : half[t] = "anomaly" => t = s
    BY <1>1, SaverIn DEF CheckpointInv, Places
  <1>3. /\ file \in [M!Halves -> [M!Kinds -> Int]] /\ kept \in [M!Halves -> Nat]
        /\ half \in [M!Savers -> M!Halves \cup {"none"}]
        /\ pc \in [M!Savers -> Labels] /\ snap \in [M!Savers -> Nat]
        /\ handle \in [M!Savers -> {"none", "tmp", "data"}]
        /\ "anomaly" \in M!Halves /\ "classifier" \in M!Halves /\ M!Halves = {"anomaly", "classifier"}
    BY DEF CheckpointInv, ModelType, M!Halves
  <1>4. /\ base \in [M!Halves -> [M!Kinds -> Int]] /\ base["classifier"] = file["classifier"]
        /\ base["anomaly"].mac = file["anomaly"].tmpMac
        /\ base["anomaly"].data = file["anomaly"].data
    <2>1. 0 \in Int
      OBVIOUS
    <2> QED BY <1>3, <2>1 DEF M!Kinds
  <1>5. /\ claim \in [M!Halves -> Nat] /\ claim["classifier"] = kept["classifier"]
        /\ claim["anomaly"] = snap[s]
    BY <1>2, <1>3
  <1> HIDE DEF base, claim
  <1>6. /\ file' \in [M!Halves -> [M!Kinds -> Int]] /\ pc' \in [M!Savers -> Labels]
        /\ half' \in [M!Savers -> M!Halves \cup {"none"}] /\ snap' \in [M!Savers -> Nat]
        /\ handle' \in [M!Savers -> {"none", "tmp", "data"}]
        /\ beside' \subseteq M!Halves /\ kept' \in [M!Halves -> Nat]
        /\ Places' /\ HalfInv("classifier")'
        /\ pc' = [pc EXCEPT ![s] = "dump"] /\ half' = [half EXCEPT ![s] = "classifier"]
        /\ \A g \in M!Halves \ {"classifier"} :
              /\ file'[g] = base[g] /\ (g \in beside' <=> g \in beside)
              /\ kept'[g] = IF g \in beside THEN 0 ELSE claim[g]
    BY <1>1, <1>2, <1>3, <1>4, <1>5, EnterChecked
  <1>7. ModelType'
    BY <1>6 DEF CheckpointInv, ModelType
  <1>8. HalfInv("anomaly")'
    <2>1. /\ file'["anomaly"] = base["anomaly"] /\ ("anomaly" \in beside' <=> "anomaly" \in beside)
          /\ kept'["anomaly"] = IF "anomaly" \in beside THEN 0 ELSE snap[s]
      BY <1>3, <1>5, <1>6
    <2>2. ASSUME "anomaly" \notin beside', NEW t \in M!Savers PROVE half'[t] # "anomaly"
      BY <1>2, <1>3, <1>6, <2>1, <2>2
    <2>3. KeptInv("anomaly")'
      <3>1. ASSUME "anomaly" \notin beside
            PROVE  file["anomaly"].data >= snap[s] /\ file["anomaly"].tmpMac = file["anomaly"].data
        BY <1>1, <1>2, <3>1 DEF Wrote
      <3>2. "data" \in M!Kinds /\ file["anomaly"].data \in Int /\ snap[s] \in Nat
        BY <1>3 DEF M!Kinds
      <3> QED BY <1>4, <2>1, <3>1, <3>2 DEF KeptInv, M!Loadable
    <2> QED BY <2>1, <2>2, <2>3 DEF HalfInv
  <1> QED BY <1>3, <1>6, <1>7, <1>8 DEF CheckpointInv

\* The classifier is saved, and with it the checkpoint.
LEMMA ReplaceClfChecked ==
    ASSUME CheckpointInv, NEW s \in M!Savers, M!ReplaceClf(s), UNCHANGED <<trained, training, model>>
    PROVE  CheckpointInv'
  <1> DEFINE h == "classifier"
  <1>1. /\ half[s] = h /\ pc[s] = "replace"
        /\ file' = [file EXCEPT ![h].data = file[h].tmp, ![h].tmp = 0]
        /\ handle' = [t \in M!Savers |-> IF half[t] # h THEN handle[t]
                                         ELSE IF handle[t] = "tmp" THEN "data"
                                         ELSE IF handle[t] = "data" THEN "none" ELSE handle[t]]
        /\ pc' = [pc EXCEPT ![s] = "idle"] /\ half' = [half EXCEPT ![s] = "none"]
        /\ snap' = [snap EXCEPT ![s] = 0] /\ UNCHANGED beside
        /\ kept' = [g \in M!Halves |-> IF g \in beside' THEN 0 ELSE [kept EXCEPT ![h] = snap[s]][g]]
    BY DEF M!ReplaceClf, M!Moved, M!Idle, M!Keep, M!Saved, M!Absent
  <1>2. /\ HalfInv(h)
        /\ h \notin beside => Wrote(s, h) /\ \A t \in M!Savers : half[t] = h => t = s
    BY <1>1, SaverIn
  <1>3. /\ file \in [M!Halves -> [M!Kinds -> Int]] /\ kept \in [M!Halves -> Nat]
        /\ half \in [M!Savers -> M!Halves \cup {"none"}]
        /\ pc \in [M!Savers -> Labels] /\ snap \in [M!Savers -> Nat]
        /\ handle \in [M!Savers -> {"none", "tmp", "data"}]
        /\ h \in M!Halves /\ "none" \notin M!Halves
    BY DEF CheckpointInv, ModelType, M!Halves
  <1>4. /\ file' \in [M!Halves -> [M!Kinds -> Int]]
        /\ file'[h].data = file[h].tmp /\ file'[h].mac = file[h].mac
        /\ \A g \in M!Halves : g # h => file'[g] = file[g]
    <2>1. 0 \in Int
      OBVIOUS
    <2> QED BY <1>1, <1>3, <2>1 DEF M!Kinds
  <1>5. /\ kept' \in [M!Halves -> Nat] /\ kept'[h] = IF h \in beside THEN 0 ELSE snap[s]
        /\ \A g \in M!Halves : g # h => kept'[g] = IF g \in beside THEN 0 ELSE kept[g]
    BY <1>1, <1>3
  <1>6. ModelType'
    <2>1. handle' \in [M!Savers -> {"none", "tmp", "data"}]
      BY <1>1, <1>3
    <2>2. /\ pc' \in [M!Savers -> Labels] /\ half' \in [M!Savers -> M!Halves \cup {"none"}]
          /\ snap' \in [M!Savers -> Nat]
      BY <1>1, <1>3 DEF Labels
    <2> QED BY <1>1, <1>4, <1>5, <2>1, <2>2 DEF CheckpointInv, ModelType
  <1>7. Places'
    BY <1>1, <1>3 DEF CheckpointInv, Places
  <1>8. HalfInv(h)'
    <2>1. ASSUME h \notin beside', NEW t \in M!Savers PROVE half'[t] # h
      BY <1>1, <1>2, <1>3, <2>1
    <2>2. KeptInv(h)'
      <3>1. ASSUME h \notin beside
            PROVE  file[h].tmp >= snap[s] /\ file[h].mac = file[h].tmp
        BY <1>1, <1>2, <3>1 DEF Wrote
      <3>2. file[h].tmp \in Int /\ snap[s] \in Nat
        BY <1>3 DEF M!Kinds
      <3> QED BY <1>4, <1>5, <3>1, <3>2 DEF KeptInv, M!Loadable
    <2> QED BY <1>1, <1>5, <2>1, <2>2 DEF HalfInv
  <1>9. ASSUME NEW g \in M!Halves, g # h PROVE HalfInv(g)'
    <2>1. HalfInv(g) /\ kept'[g] = kept[g] /\ file'[g] = file[g] /\ (g \in beside' <=> g \in beside)
      BY <1>1, <1>4, <1>5, <1>9 DEF CheckpointInv, HalfInv
    <2>2. ASSUME NEW t \in M!Savers
          PROVE  /\ half'[t] = g <=> half[t] = g
                 /\ half[t] = g => pc'[t] = pc[t] /\ snap'[t] = snap[t] /\ handle'[t] = handle[t]
      BY <1>1, <1>3, <1>9
    <2> QED BY <2>1, <2>2, HalfFrame
  <1> QED BY <1>6, <1>7, <1>8, <1>9 DEF CheckpointInv

\* What a half keeps when savers of it go, wherever they are.
LEMMA GoneKept ==
    ASSUME NEW h \in M!Halves, KeptInv(h), NEW gone \in SUBSET M!Savers, M!Lost(gone),
           NEW mac \in M!MacLeft(gone), file'[h].data = file[h].data,
           file'[h].mac = IF h = "classifier" THEN mac ELSE file[h].mac,
           \A t \in M!Savers \ gone : half'[t] = half[t] /\ pc'[t] = pc[t]
    PROVE  KeptInv(h)'
  <1> SUFFICES ASSUME kept'[h] > 0, \A s \in M!Savers : ~ M!Between(s, h)'
               PROVE  M!Loadable(h)' /\ file'[h].data >= kept'[h]
    BY DEF KeptInv
  <1>1. kept'[h] = IF \E s \in gone : M!Between(s, h) THEN 0 ELSE kept[h]
    BY DEF M!Lost, M!Absent
  <1>2. (\A s \in gone : ~ M!Between(s, h)) /\ kept'[h] = kept[h]
    BY <1>1
  <1>3. ASSUME NEW s \in M!Savers \ gone PROVE ~ M!Between(s, h)
    BY <1>3 DEF M!Between
  <1>4. file'[h].mac = file[h].mac
    <2>1. CASE h = "classifier"
      <3>1. ~ \E s \in gone : half[s] = "classifier" /\ pc[s] = "sign"
        BY <1>2, <2>1 DEF M!Between
      <3> QED BY <2>1, <3>1 DEF M!MacLeft
    <2> QED BY <2>1
  <1> QED BY <1>2, <1>3, <1>4 DEF KeptInv, M!Loadable

\* A save that fails, at any step of it.
LEMMA FailsChecked ==
    ASSUME CheckpointInv, NEW s \in M!Savers, M!SaveFails(s), UNCHANGED <<trained, training, model>>
    PROVE  CheckpointInv'
  <1>0. PICK h \in M!Halves : h = half[s]
    BY SaverIn DEF M!SaveFails
  <1>1. PICK mac \in M!MacLeft({s}) :
           file' = [[file EXCEPT !["classifier"].mac = mac] EXCEPT ![h].tmp = 0, ![h].tmpMac = 0]
    BY <1>0 DEF M!SaveFails, M!Absent
  <1>2. /\ pc[s] # "idle"
        /\ handle' = [t \in M!Savers |-> IF t = s \/ (half[t] = h /\ handle[t] = "tmp")
                                         THEN "none" ELSE handle[t]]
        /\ pc' = [pc EXCEPT ![s] = "idle"] /\ half' = [half EXCEPT ![s] = "none"]
        /\ snap' = [snap EXCEPT ![s] = 0] /\ M!Lost({s}) /\ UNCHANGED beside
    BY <1>0 DEF M!SaveFails, M!Idle, M!Absent
  <1>3. /\ h \in M!Halves /\ HalfInv(h)
        /\ h \notin beside => Wrote(s, h) /\ \A t \in M!Savers : half[t] = h => t = s
    BY <1>0, <1>2, SaverIn
  <1>4. /\ file \in [M!Halves -> [M!Kinds -> Int]] /\ kept \in [M!Halves -> Nat]
        /\ half \in [M!Savers -> M!Halves \cup {"none"}]
        /\ pc \in [M!Savers -> Labels] /\ snap \in [M!Savers -> Nat]
        /\ handle \in [M!Savers -> {"none", "tmp", "data"}]
        /\ M!Halves = {"anomaly", "classifier"} /\ M!Kinds = {"tmp", "tmpMac", "data", "mac"}
    BY DEF CheckpointInv, ModelType, M!Halves, M!Kinds
  <1>5. mac \in Int /\ (h # "classifier" => mac = file["classifier"].mac) /\ 0 \in Int
    <2>1. -1 \in Int
      OBVIOUS
    <2> QED BY <1>0, <1>4, <2>1 DEF M!MacLeft, M!Torn
  <1>6. file' \in [M!Halves -> [M!Kinds -> Int]]
    BY <1>0, <1>1, <1>3, <1>4, <1>5
  <1>7. \A g \in M!Halves : g # h => file'[g] = file[g]
    <2>1. CASE h = "classifier"
      BY <1>0, <1>1, <1>4, <2>1
    <2>2. CASE h = "anomaly"
      <3>1. file'["classifier"] = [file["classifier"] EXCEPT !["mac"] = mac]
        BY <1>0, <1>1, <1>4, <2>2
      <3> QED BY <1>0, <1>4, <1>5, <2>2, <3>1
    <2> QED BY <1>0, <1>3, <1>4, <2>1, <2>2
  <1>8. file'[h].data = file[h].data /\ file'[h].mac = IF h = "classifier" THEN mac ELSE file[h].mac
    BY <1>0, <1>1, <1>3, <1>4
  <1>9. /\ kept' \in [M!Halves -> Nat]
        /\ \A g \in M!Halves : kept'[g] = 0 \/ kept'[g] = kept[g]
        /\ \A g \in M!Halves : g # h => kept'[g] = kept[g]
    BY <1>0, <1>2, <1>4 DEF M!Lost, M!Absent, M!Between
  <1>10. ModelType'
    <2>1. handle' \in [M!Savers -> {"none", "tmp", "data"}]
      BY <1>0, <1>2, <1>4
    <2>2. /\ pc' \in [M!Savers -> Labels] /\ half' \in [M!Savers -> M!Halves \cup {"none"}]
          /\ snap' \in [M!Savers -> Nat]
      BY <1>0, <1>2, <1>4 DEF Labels
    <2> QED BY <1>0, <1>2, <1>6, <1>9, <2>1, <2>2 DEF CheckpointInv, ModelType
  <1>11. Places'
    BY <1>0, <1>2, <1>4 DEF CheckpointInv, Places
  <1>12. HalfInv(h)'
    <2>1. ASSUME h \notin beside', NEW t \in M!Savers PROVE half'[t] # h
      BY <1>0, <1>2, <1>3, <1>4, <2>1
    <2>2. \A t \in M!Savers \ {s} : half'[t] = half[t] /\ pc'[t] = pc[t]
      BY <1>0, <1>2, <1>4
    <2>3. KeptInv(h)
      BY <1>0, <1>3 DEF HalfInv
    <2>4. KeptInv(h)'
      BY <1>0, <1>2, <1>8, <2>2, <2>3, GoneKept
    <2>5. h \in beside' => kept'[h] = 0
      BY <1>0, <1>2, <1>3, <1>9 DEF HalfInv
    <2> QED BY <2>1, <2>4, <2>5 DEF HalfInv
  <1>13. ASSUME NEW g \in M!Halves, g # h PROVE HalfInv(g)'
    <2>1. HalfInv(g) /\ kept'[g] = kept[g] /\ file'[g] = file[g] /\ (g \in beside' <=> g \in beside)
      BY <1>0, <1>2, <1>7, <1>9, <1>13 DEF CheckpointInv
    <2>2. ASSUME NEW t \in M!Savers
          PROVE  /\ half'[t] = g <=> half[t] = g
                 /\ half[t] = g => pc'[t] = pc[t] /\ snap'[t] = snap[t] /\ handle'[t] = handle[t]
      BY <1>0, <1>2, <1>3, <1>4, <1>13
    <2> QED BY <1>0, <2>1, <2>2, HalfFrame
  <1> QED BY <1>0, <1>10, <1>11, <1>12, <1>13 DEF CheckpointInv

\* The process ends, of itself or killed, whatever is under way.
LEMMA FallChecked ==
    ASSUME CheckpointInv, M!Fall
    PROVE  CheckpointInv'
  <1>1. PICK mac \in M!MacLeft(M!Savers) : file' = [file EXCEPT !["classifier"].mac = mac]
    BY DEF M!Fall
  <1>2. /\ pc' = [s \in M!Savers |-> "idle"] /\ half' = [s \in M!Savers |-> "none"]
        /\ snap' = [s \in M!Savers |-> 0] /\ handle' = [s \in M!Savers |-> "none"]
        /\ trained' = [h \in M!Halves |-> 0] /\ training' = {} /\ beside' = {}
        /\ M!Lost(M!Savers) /\ UNCHANGED model
    BY DEF M!Fall, M!Absent
  <1>3. /\ file \in [M!Halves -> [M!Kinds -> Int]] /\ kept \in [M!Halves -> Nat] /\ model \in Nat
        /\ M!Halves = {"anomaly", "classifier"} /\ M!Kinds = {"tmp", "tmpMac", "data", "mac"}
    BY DEF CheckpointInv, ModelType, M!Halves, M!Kinds
  <1>4. mac \in Int
    <2>1. -1 \in Int
      OBVIOUS
    <2> QED BY <1>3, <2>1 DEF M!MacLeft, M!Torn
  <1>5. ModelType'
    <2>1. file' \in [M!Halves -> [M!Kinds -> Int]]
      BY <1>1, <1>3, <1>4
    <2>2. kept' \in [M!Halves -> Nat]
      BY <1>2, <1>3 DEF M!Lost, M!Absent
    <2>3. /\ pc' \in [M!Savers -> Labels] /\ half' \in [M!Savers -> M!Halves \cup {"none"}]
          /\ snap' \in [M!Savers -> Nat] /\ handle' \in [M!Savers -> {"none", "tmp", "data"}]
      BY <1>2 DEF Labels
    <2>4. trained' \in [M!Halves -> Nat] /\ training' \subseteq M!Halves /\ beside' \subseteq M!Halves
      BY <1>2
    <2> QED BY <1>2, <1>3, <2>1, <2>2, <2>3, <2>4 DEF ModelType
  <1>6. Places'
    BY <1>2 DEF Places
  <1>7. ASSUME NEW h \in M!Halves PROVE HalfInv(h)'
    <2>1. file'[h].data = file[h].data /\ file'[h].mac = IF h = "classifier" THEN mac ELSE file[h].mac
      BY <1>1, <1>3
    <2>2. KeptInv(h)
      BY DEF CheckpointInv, HalfInv
    <2>3. KeptInv(h)'
      BY <1>2, <2>1, <2>2, GoneKept
    <2>4. \A t \in M!Savers : half'[t] # h
      BY <1>2, <1>3
    <2> QED BY <1>2, <2>3, <2>4 DEF HalfInv
  <1> QED BY <1>5, <1>6, <1>7 DEF CheckpointInv

LEMMA CheckpointNext ==
    ASSUME CheckpointInv, [SNext]_serverVars
    PROVE  CheckpointInv'
  <1>1. ASSUME NEW s \in M!Savers, M!Save(s)
        PROVE  CheckpointInv'
    <2>1. UNCHANGED <<trained, training, model>>
      BY <1>1 DEF M!Save, M!memory
    <2> QED BY <1>1, <2>1, DumpChecked, SignChecked, ReplacePklChecked, ReplaceMacChecked,
               ReplaceClfChecked, FailsChecked DEF M!Save
  <1>2. CASE M!Work
    BY <1>2, BeginChecked, TrainingChecked DEF M!Work
  <1>3. CASE M!Threads
    BY <1>1, <1>3, TrainingChecked DEF M!Threads
  <1>4. CASE M!Exit \/ M!Crash
    BY <1>4, FallChecked DEF M!Exit, M!Crash
  <1> QED BY <1>2, <1>3, <1>4, CheckpointCases, BeginChecked, TrainingChecked

\* A half of the checkpoint that a save has written by itself can be loaded
\* and is no older than what that save found, until two saves write that half
\* beside each other: whatever fails, whatever is trained meanwhile, and
\* wherever the process is killed but between two writes that belong together
\* (anomaly.py and engine.py, save).
THEOREM CheckpointSafe == SSpec => []CheckpointKept
  <1>1. SInit => CheckpointInv
    BY CheckpointInit
  <1>2. CheckpointInv /\ [SNext]_serverVars => CheckpointInv'
    BY CheckpointNext
  <1>3. CheckpointInv => CheckpointKept
    BY CheckpointImplied
  <1> QED BY <1>1, <1>2, <1>3, PTL DEF SSpec

=============================================================================
