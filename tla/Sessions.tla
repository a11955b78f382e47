------------------------------ MODULE Sessions ------------------------------
(***************************************************************************)
(* Operator sessions: JSON web tokens, the blocklist that revokes them,    *)
(* the user store and its cache, and the command-line tool that edits the  *)
(* user store behind the server's back                                     *)
(* (server/oseye/api/auth/jwt.py, api/auth/rbac.py, api/routers/auth.py,   *)
(* cli/cmd_user.py).                                                       *)
(*                                                                         *)
(* login, refresh and logout run on one event loop and do not await        *)
(* between reading the blocklist and writing it, so each is one step.      *)
(* What interleaves with them is the clock, the command-line tool (another *)
(* process, which truncates the user file before it writes it), failing    *)
(* writes of the blocklist file and restarts of the server.                *)
(***************************************************************************)
EXTENDS Integers, Sequences, FiniteSets

CONSTANTS
    Users,          \* user names
    InitialFiles,   \* the user files the server may find when it is installed
    EnvUsers,       \* what _load_users answers without a usable file
    UsersTTL,       \* _USERS_TTL
    Lifetime,       \* jwt_access_token_expire_minutes
    MaxSession,     \* _MAX_SESSION_LIFETIME_SECONDS
    Probe,          \* the user and the role whose withdrawal is watched
    MaxTime, MaxTokens,
    MaxEdits,       \* bound on the runs of the command-line tool
    MaxFaults       \* bound on restarts, failed saves and killed tools

Roles == {"analyst", "admin"}
NoRoles == {}

\* _ROLE_GRANTS: an admin is an analyst too.
RoleGrants == { {"analyst"}, {"admin", "analyst"} }
UserTable  == [Users -> RoleGrants \cup {NoRoles}]

Torn    == [u \in {} |-> NoRoles]   \* the file is truncated, not yet written
NoWrite == Torn                     \* the tool has nothing to write

ASSUME SessionsAssumption ==
    /\ EnvUsers \in UserTable /\ InitialFiles \subseteq UserTable
    /\ UsersTTL \in Nat /\ Lifetime \in Nat \ {0} /\ MaxSession \in Nat
    /\ MaxTime \in Nat /\ MaxTokens \in Nat
    /\ MaxEdits \in Nat /\ MaxFaults \in Nat
    /\ Probe \in [user : Users, role : Roles]

VARIABLES
    now,         \* the clock, counted from the boot of the host
    usersFile,   \* users.json: a table, or Torn
    cli,         \* the table `oseye-server user` is about to write
    cache,       \* _users_cache
    cacheTs,     \* _users_cache_ts
    tokens,      \* every token issued, in order: a jti is an index
    revoked,     \* JWTHandler._revoked, the blocklist in memory
    disk,        \* revoked_tokens.json
    unsaved,     \* ghost: revocations whose last save failed
    forgotten,   \* ghost: revocations a restart lost that way
    ended,       \* ghost: tokens revoke_token was called on
    lastHeld,    \* ghost: when Probe.user last had Probe.role
    edits,       \* runs of the command-line tool so far
    faults       \* faults so far

vars == <<now, usersFile, cli, cache, cacheTs, tokens, revoked, disk,
          unsaved, forgotten, ended, lastHeld, edits, faults>>

sessionVars == <<tokens, revoked, disk, unsaved, forgotten, ended>>
userVars    == <<usersFile, cli, lastHeld, edits>>

Empty == [u \in Users |-> NoRoles]
Jtis  == 1 .. Len(tokens)

\* _load_users: the file when it can be read and names someone, else the
\* users of the environment.
LoadUsers(file) ==
    IF file = Torn \/ file = Empty THEN EnvUsers ELSE file

\* Mutant of CacheStale: the users are read once and for all
CacheStaleOnce == cacheTs = 0 /\ now > UsersTTL

\* _get_users: the cache is reread once it is older than the TTL.
CacheStale == now - cacheTs > UsersTTL
GetUsers   == IF CacheStale THEN LoadUsers(usersFile) ELSE cache
RefreshCache ==
    /\ cache'   = GetUsers
    /\ cacheTs' = IF CacheStale THEN now ELSE cacheTs

\* create_token: the expiry is fixed when the token is made.
Token(user, roles, root) ==
    [sub |-> user, roles |-> roles, iat |-> now, exp |-> now + Lifetime,
     root |-> root]

Expired(jti) == tokens[jti].exp <= now

\* Mutant of Kept: an entry is pruned one step before its token expires
KeptShort == {jti \in revoked : tokens[jti].exp > now + 1}

\* _prune_revoked: entries past their expiry leave the blocklist.
Kept == {jti \in revoked : ~ Expired(jti)}

\* verify_token: signature and expiry, then the blocklist.
Verified(jti) == ~ Expired(jti) /\ jti \notin Kept

Fault(happens) ==
    /\ happens => faults < MaxFaults
    /\ faults' = IF happens THEN faults + 1 ELSE faults

\* _save_blocklist: a failure is only logged.
SaveBlocklist(list, ok) ==
    /\ Fault(~ ok)
    /\ disk'    = IF ok THEN list ELSE disk
    /\ unsaved' = IF ok THEN {} ELSE list

\* verify_token prunes first, and saves when something was pruned.
VerifyEffect(ok) ==
    /\ Kept # revoked
    /\ revoked' = Kept
    /\ SaveBlocklist(Kept, ok)

\* revoke_token: the jti joins the blocklist whether or not it has expired.
RevokeEffect(list, jti, ok) ==
    /\ revoked' = list \cup {jti}
    /\ SaveBlocklist(list \cup {jti}, ok)
    /\ ended'   = ended \cup {jti}

-----------------------------------------------------------------------------

Init ==
    /\ now = 0
    /\ usersFile \in InitialFiles
    /\ cli = NoWrite
    /\ cache = Empty /\ cacheTs = 0
    /\ tokens = <<>>
    /\ revoked = {} /\ disk = {}
    /\ unsaved = {} /\ forgotten = {} /\ ended = {}
    /\ edits = 0 /\ faults = 0
    /\ lastHeld = IF Probe.role \in LoadUsers(usersFile)[Probe.user] THEN 0 ELSE -1

\* _authenticate and login: a known user with the right password.  The cache
\* starts empty with a time stamp of 0, so nobody is known until the host has
\* been up for UsersTTL.
Login(u) ==
    /\ Len(tokens) < MaxTokens
    /\ GetUsers[u] # NoRoles
    /\ RefreshCache
    /\ tokens' = Append(tokens, Token(u, GetUsers[u], Len(tokens) + 1))
    /\ UNCHANGED <<now, revoked, disk, unsaved, forgotten, ended, faults>>
    /\ UNCHANGED userVars

\* A request of somebody the user store does not know still rereads it.
LoginRefused(u) ==
    /\ GetUsers[u] = NoRoles
    /\ RefreshCache
    /\ UNCHANGED <<now, faults>> /\ UNCHANGED sessionVars /\ UNCHANGED userVars

\* refresh: verify, check the age and the user, revoke the old token, issue
\* its successor.
Refresh(jti, ok) ==
    /\ Len(tokens) < MaxTokens
    /\ Verified(jti)
    /\ now - tokens[jti].iat <= MaxSession
    /\ LET u == tokens[jti].sub IN
       /\ GetUsers[u] # NoRoles
       /\ tokens' = Append(tokens, Token(u, GetUsers[u], tokens[jti].root))
    /\ RefreshCache
    /\ RevokeEffect(Kept, jti, ok)
    /\ UNCHANGED <<now, forgotten>> /\ UNCHANGED userVars

\* logout: no verification, so an expired or revoked token is accepted too.
Logout(jti, ok) ==
    /\ RevokeEffect(revoked, jti, ok)
    /\ UNCHANGED <<now, cache, cacheTs, tokens, forgotten>> /\ UNCHANGED userVars

\* _resolve_identity on any other request, accepted or refused: its only
\* effect on the session state is the pruning of verify_token.
ApiRequest(ok) ==
    /\ VerifyEffect(ok)
    /\ UNCHANGED <<now, cache, cacheTs, tokens, forgotten, ended>>
    /\ UNCHANGED userVars

\* The server is restarted: JWTHandler.__init__ reads the blocklist back and
\* the module-level cache of users is empty again.
Restart ==
    /\ Fault(TRUE)
    /\ revoked'   = disk
    /\ forgotten' = forgotten \cup unsaved
    /\ unsaved'   = {}
    /\ cache' = Empty /\ cacheTs' = 0
    /\ UNCHANGED <<now, tokens, disk, ended>> /\ UNCHANGED userVars

-----------------------------------------------------------------------------

\* The ghost that remembers until when the watched grant was in force.
Held(file, t) ==
    lastHeld' = IF Probe.role \in LoadUsers(file)[Probe.user] THEN t ELSE lastHeld

\* The three subcommands read the file, change it and call _save, which
\* truncates the file first.  A torn file makes _load raise.
Edit(table) ==
    /\ usersFile # Torn /\ cli = NoWrite
    /\ usersFile' = Torn /\ cli' = table
    /\ edits < MaxEdits /\ edits' = edits + 1
    /\ Held(Torn, now)
    /\ UNCHANGED <<now, cache, cacheTs, faults>> /\ UNCHANGED sessionVars

\* _cmd_create (--force overwrites).
CmdCreate(u, grant) ==
    /\ usersFile # Torn
    /\ Edit([usersFile EXCEPT ![u] = grant])

\* _cmd_delete.
CmdDelete(u) ==
    /\ usersFile # Torn
    /\ usersFile[u] # NoRoles
    /\ Edit([usersFile EXCEPT ![u] = NoRoles])

\* _cmd_passwd: the table of roles is written back unchanged.
CmdPasswd(u) ==
    /\ usersFile # Torn
    /\ usersFile[u] # NoRoles
    /\ Edit(usersFile)

\* The rest of _save: the new content reaches the file.
SaveUsers ==
    /\ cli # NoWrite
    /\ usersFile' = cli /\ cli' = NoWrite
    /\ Held(cli, now)
    /\ UNCHANGED <<now, cache, cacheTs, edits, faults>> /\ UNCHANGED sessionVars

\* The tool is killed before it wrote: the file stays truncated.
CliKilled ==
    /\ cli # NoWrite
    /\ cli' = NoWrite
    /\ Fault(TRUE)
    /\ UNCHANGED <<now, usersFile, cache, cacheTs, lastHeld, edits>>
    /\ UNCHANGED sessionVars

\* run: the subcommand chosen on the command line.
CliRun ==
    \E u \in Users :
        \/ \E g \in RoleGrants : CmdCreate(u, g)
        \/ CmdDelete(u)
        \/ CmdPasswd(u)

Tick ==
    /\ now < MaxTime
    /\ now' = now + 1
    /\ Held(usersFile, now + 1)
    /\ UNCHANGED <<usersFile, cli, cache, cacheTs, edits, faults>>
    /\ UNCHANGED sessionVars

SessionStep ==
    \/ \E u \in Users : Login(u) \/ LoginRefused(u)
    \/ \E jti \in Jtis, ok \in BOOLEAN : Refresh(jti, ok) \/ Logout(jti, ok)
    \/ \E ok \in BOOLEAN : ApiRequest(ok)
    \/ CliRun
    \/ SaveUsers
    \/ CliKilled
    \/ Tick

Next == SessionStep \/ Restart

Spec == Init /\ [][Next]_vars

-----------------------------------------------------------------------------

\* What require_role sees: a token the server accepts now.
Usable == {jti \in Jtis : ~ Expired(jti) /\ jti \notin revoked}

\* At any time a session, however often refreshed, has at most one token the
\* server accepts, and a token that was logged out or rotated away is never
\* accepted again, whatever is pruned and whenever the server restarts.  The
\* only way out is a blocklist that could not be written before a restart
\* (jwt.py _save_blocklist logs the failure and goes on).
SessionIntegrity ==
    LET spoilt == {tokens[jti].root : jti \in forgotten}
        sound  == {jti \in Usable : tokens[jti].root \notin spoilt}
    IN \A t \in sound :
        /\ t \notin ended
        /\ \A u \in sound : tokens[t].root = tokens[u].root => t = u

\* Nobody acts under a role longer than one cache TTL and one token lifetime
\* after that role was last written in the user store, however often tokens
\* are refreshed meanwhile (routers/auth.py refresh rereads the roles).
OffboardedInTime ==
    \A t \in Usable :
        tokens[t].sub = Probe.user /\ Probe.role \in tokens[t].roles
            => lastHeld >= 0 /\ now < lastHeld + UsersTTL + Lifetime

=============================================================================
