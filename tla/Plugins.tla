------------------------------ MODULE Plugins ------------------------------
(***************************************************************************)
(* The plugin system: the registry and the sandboxed processes of the      *)
(* plugin manager, its routes and command-line tool, and the socket that   *)
(* plugins connect to (server/oseye/plugin/, api/routers/plugins.py,       *)
(* cli/cmd_plugin.py, sdk/oseye_sdk/ipc.py, main.py).                      *)
(*                                                                         *)
(* One asyncio lock serialises the operations of the manager, and two of   *)
(* them await under it: the start of a process and its stop, which lasts   *)
(* until the process has gone.  Nothing but disable and delete stops a     *)
(* process, so it outlives the server; gen tells the processes of this run *)
(* of the server from those of earlier ones.                               *)
(***************************************************************************)
EXTENDS Integers, FiniteSets

CONSTANTS
    Names,             \* names of plugins
    Requests,          \* requests in flight at one time
    RequireSignature,  \* setting plugin_require_signature
    Keys,              \* "none": no key directory; "empty"; "some"
    SigBeside,         \* for each name, the .sig an operator left in plugins_dir
    MaxProcs,          \* bound on the processes started
    MaxRequests,       \* bound on the requests served
    MaxStarts          \* bound on the starts of the server

\* The .sig next to a file, or "unchecked" for a request with verify=False,
\* which looks at none.
Sigs == {"unchecked", "none", "good", "bad", "oversized"}

VARIABLES
    server,       \* "up", "draining", "stopping" (in IPCServer.stop) or "down"
    gen,          \* number of the run of the server
    files,        \* names with a file in plugins_dir
    info,         \* status of every registered plugin, "absent" if none
    sandbox,      \* process of the registered sandbox, 0 if none
    proc,         \* every process: its plugin, its run of the server, its state
    req,          \* the requests in flight
    clients,      \* processes connected to the socket
    reinstalled,  \* names installed again over a registered sandbox
    served

vars == <<server, gen, files, info, sandbox, proc, req, clients, reinstalled, served>>
disk == <<server, gen, files, served>>

Procs == 1..MaxProcs
Idle  == [op |-> "none", name |-> "none", verdict |-> "none", pc |-> "idle", proc |-> 0]

-----------------------------------------------------------------------------
(* Signatures. *)

\* main.py makes a verifier for any key directory, the tool for one with a key.
ServerVerifier == Keys # "none"
CliVerifier    == Keys = "some"

\* install refuses before it copies when a signature is required and missing.
Admissible(sig, verifier) ==
    RequireSignature /\ sig # "unchecked" => verifier /\ sig # "none"

NeedsVerify(sig, verifier) == verifier /\ sig \notin {"unchecked", "none"}

\* PluginVerifier.verify: FALSE without keys, before the size is looked at.
Verify(sig) ==
    CASE Keys # "some"       -> "false"
      [] sig = "oversized"   -> "raises"
      [] sig = "good"        -> "true"
      [] OTHER               -> "false"

\* How the verification after the copy ends.
Verdict(sig, verifier) == IF NeedsVerify(sig, verifier) THEN Verify(sig) ELSE "true"

\* What install does to plugins_dir: a failed verification removes the copy,
\* an exception leaves it there.
FilesAfter(n, verdict) == IF verdict = "false" THEN files \ {n} ELSE files \cup {n}

\* _discover: an answer of FALSE is not looked at, only an exception is.
Discover ==
    [n \in Names |->
        IF n \notin files THEN "absent"
        ELSE IF ~ RequireSignature THEN "loaded"
        ELSE IF SigBeside[n] = "none" THEN "error"
        ELSE IF ServerVerifier /\ Verify(SigBeside[n]) = "raises" THEN "error"
        ELSE "loaded"]

-----------------------------------------------------------------------------
(* Requests and the lock. *)

Init ==
    /\ server = "down" /\ gen = 0 /\ files = {}
    /\ info = [n \in Names |-> "absent"] /\ sandbox = [n \in Names |-> 0]
    /\ proc = [p \in Procs |-> [name |-> "none", gen |-> 0, state |-> "free"]]
    /\ req = [r \in Requests |-> Idle]
    /\ clients = {} /\ reinstalled = {} /\ served = 0

Submit(r, op, n, verdict) ==
    /\ server = "up" /\ req[r] = Idle /\ served < MaxRequests
    /\ served' = served + 1
    /\ req' = [req EXCEPT ![r] = [op |-> op, name |-> n, verdict |-> verdict,
                                  pc |-> "waiting", proc |-> 0]]
    /\ UNCHANGED <<server, gen, files, info, sandbox, proc, clients, reinstalled>>

\* A file sent from the browser comes without its signature.
UploadPlugin(r, n, sig) ==
    /\ sig \in {"unchecked", "none"}
    /\ Admissible(sig, ServerVerifier)
    /\ Submit(r, "install", n, Verdict(sig, ServerVerifier))

\* A file of the upload directory, with the .sig next to it if there is one.
InstallPlugin(r, n, sig) ==
    /\ Admissible(sig, ServerVerifier)
    /\ Submit(r, "install", n, Verdict(sig, ServerVerifier))

\* The three other routes answer 404 for a name that is not registered.
EnablePlugin(r, n)  == info[n] # "absent" /\ Submit(r, "enable", n, "none")
DisablePlugin(r, n) == info[n] # "absent" /\ Submit(r, "disable", n, "none")
DeletePlugin(r, n)  == info[n] # "absent" /\ Submit(r, "delete", n, "none")

\* Mutant of LockFree: the manager without its lock.
LockFreeAlways == TRUE

LockFree == \A r \in Requests : req[r].pc \in {"idle", "waiting"}

Acquire(r, ops) == req[r].pc = "waiting" /\ req[r].op \in ops /\ LockFree

Answer(r) == req' = [req EXCEPT ![r] = Idle]

\* install awaits nothing under the lock.
Install(r) ==
    LET n == req[r].name
    IN  /\ Acquire(r, {"install"}) /\ Answer(r)
        /\ files' = FilesAfter(n, req[r].verdict)
        /\ IF req[r].verdict = "true"
           THEN /\ info' = [info EXCEPT ![n] = "loaded"]
                /\ reinstalled' = IF sandbox[n] = 0 THEN reinstalled
                                  ELSE reinstalled \cup {n}
           ELSE UNCHANGED <<info, reinstalled>>
        /\ UNCHANGED <<server, gen, served, sandbox, proc, clients>>

\* KeyError for a name deleted meanwhile, RuntimeError for a running plugin.
Refused(r) ==
    /\ Acquire(r, {"enable", "disable", "delete"}) /\ Answer(r)
    /\ \/ info[req[r].name] = "absent"
       \/ req[r].op = "enable" /\ info[req[r].name] = "running"
    /\ UNCHANGED <<disk, info, sandbox, proc, clients, reinstalled>>

Enable(r) ==
    /\ Acquire(r, {"enable"}) /\ info[req[r].name] \notin {"absent", "running"}
    /\ req' = [req EXCEPT ![r].pc = "starting"]
    /\ UNCHANGED <<disk, info, sandbox, proc, clients, reinstalled>>

\* sandbox.start has come back with the process.
Started(r) ==
    LET n == req[r].name
    IN  /\ req[r].pc = "starting" /\ Answer(r)
        /\ \E p \in Procs :
              /\ proc[p].state = "free"
              /\ \A q \in Procs : q < p => proc[q].state # "free"
              /\ proc' = [proc EXCEPT ![p] = [name |-> n, gen |-> gen, state |-> "live"]]
              /\ sandbox' = [sandbox EXCEPT ![n] = p]
        /\ info' = [info EXCEPT ![n] = "running"]
        /\ UNCHANGED <<disk, clients, reinstalled>>

StartFails(r) ==
    /\ req[r].pc = "starting" /\ Answer(r)
    /\ info' = [info EXCEPT ![req[r].name] = "error"]
    /\ UNCHANGED <<disk, sandbox, proc, clients, reinstalled>>

\* The end of disable and of delete, once the process has gone.
Stopped(r) ==
    LET n == req[r].name
    IN  /\ Answer(r)
        /\ info' = [info EXCEPT ![n] = IF req[r].op = "disable" THEN "stopped" ELSE "absent"]
        /\ files' = IF req[r].op = "disable" THEN files ELSE files \ {n}

\* disable and delete pop the sandbox and stop it: sandbox.stop returns at
\* once when its process has exited.
Disable(r) ==
    LET n == req[r].name
        p == sandbox[n]
    IN  /\ Acquire(r, {"disable", "delete"}) /\ info[n] # "absent"
        /\ sandbox' = [sandbox EXCEPT ![n] = 0]
        /\ IF p # 0 /\ proc[p].state = "live"
           THEN /\ req' = [req EXCEPT ![r].pc = "terminating", ![r].proc = p]
                /\ UNCHANGED <<info, files>>
           ELSE Stopped(r)
        /\ UNCHANGED <<server, gen, served, proc, clients, reinstalled>>

\* process.wait has returned.
Waited(r) ==
    /\ req[r].pc = "terminating" /\ proc[req[r].proc].state = "dead"
    /\ Stopped(r)
    /\ UNCHANGED <<server, gen, served, sandbox, proc, clients, reinstalled>>

ExitOf(p) ==
    /\ proc' = [proc EXCEPT ![p].state = "dead"] /\ clients' = clients \ {p}
    /\ UNCHANGED <<disk, info, sandbox, req, reinstalled>>

\* Mutant of KillAfterTimeout: the wait for the process has no timeout.
KillAfterTimeoutNever(r) == FALSE /\ ExitOf(req[r].proc)

\* Five seconds after SIGTERM the process is killed.
KillAfterTimeout(r) ==
    req[r].pc = "terminating" /\ proc[req[r].proc].state = "live" /\ ExitOf(req[r].proc)

\* A process ends by itself: its limits, an error, SIGTERM.  Nobody is told.
ProcessExits(p) == proc[p].state = "live" /\ ExitOf(p)

-----------------------------------------------------------------------------
(* The socket, the command-line tool and the server process. *)

Connect(p) ==
    /\ server \in {"up", "draining"} /\ proc[p].state = "live" /\ p \notin clients
    /\ clients' = clients \cup {p}
    /\ UNCHANGED <<disk, info, sandbox, proc, req, reinstalled>>

\* The tool installs into plugins_dir with a manager and a lock of its own.
CmdUpload(n, sig) ==
    /\ Admissible(sig, CliVerifier)
    /\ files' = FilesAfter(n, Verdict(sig, CliVerifier))
    /\ files' # files
    /\ UNCHANGED <<server, gen, served, info, sandbox, proc, req, clients, reinstalled>>

\* lifespan after yield: the routes have answered and the workers are stopped.
BeginShutdown ==
    /\ server = "up" /\ \A r \in Requests : req[r] = Idle
    /\ server' = "draining"
    /\ UNCHANGED <<gen, files, served, info, sandbox, proc, req, clients, reinstalled>>

\* IPCServer.stop begins: nobody connects any more.
CloseSocket ==
    /\ server = "draining" /\ server' = "stopping"
    /\ UNCHANGED <<gen, files, served, info, sandbox, proc, req, clients, reinstalled>>

\* The end of the process takes its memory and its connections, and leaves
\* the processes of the plugins.
Fall ==
    /\ server' = "down"
    /\ info' = [n \in Names |-> "absent"] /\ sandbox' = [n \in Names |-> 0]
    /\ req' = [r \in Requests |-> Idle] /\ clients' = {} /\ reinstalled' = {}
    /\ UNCHANGED <<gen, files, served, proc>>

\* Server.wait_closed waits for every connection before any is closed.
EndShutdown == server = "stopping" /\ clients = {} /\ Fall

Crash == server # "down" /\ Fall

\* IPCServer.start and PluginManager.__init__ at a start of the server.
Restart ==
    /\ server = "down" /\ gen < MaxStarts
    /\ server' = "up" /\ gen' = gen + 1
    /\ info' = Discover
    /\ UNCHANGED <<files, served, proc, req, sandbox, clients, reinstalled>>

Operate(r) ==
    \/ Install(r) \/ Refused(r) \/ Enable(r) \/ Started(r) \/ StartFails(r)
    \/ Disable(r) \/ Waited(r) \/ KillAfterTimeout(r)

Ask ==
    \E r \in Requests, n \in Names :
        \/ \E sig \in Sigs : UploadPlugin(r, n, sig) \/ InstallPlugin(r, n, sig)
        \/ EnablePlugin(r, n) \/ DisablePlugin(r, n) \/ DeletePlugin(r, n)

Environment ==
    \/ \E p \in Procs : ProcessExits(p) \/ Connect(p)
    \/ \E n \in Names, sig \in Sigs : CmdUpload(n, sig)

Next ==
    \/ Ask
    \/ \E r \in Requests : Operate(r)
    \/ Environment
    \/ BeginShutdown \/ CloseSocket \/ EndShutdown \/ Crash \/ Restart

Spec == Init /\ [][Next]_vars

-----------------------------------------------------------------------------

Terminating(n) == \E r \in Requests : req[r].pc = "terminating" /\ req[r].name = n

\* The lock keeps the registry and the processes together (manager.py, enable,
\* disable and delete): while the server is up, every live process it started
\* is the registered sandbox of its plugin or is being stopped, so that
\* disable and delete reach it, and a plugin shown as running has a registered
\* sandbox.  An install over a registered sandbox is the one exception.
EveryProcessManaged ==
    server = "up" =>
        /\ \A p \in Procs :
              proc[p].state = "live" /\ proc[p].gen = gen =>
                 \/ proc[p].name \in reinstalled
                 \/ sandbox[proc[p].name] = p
                 \/ \E r \in Requests : req[r].pc = "terminating" /\ req[r].proc = p
        /\ \A n \in Names :
              info[n] = "running" /\ ~ Terminating(n) => sandbox[n] # 0

\* What the docstring of enable says: "Raises RuntimeError if the plugin is
\* already running".  An install resets the status of a running plugin, so
\* that a second process starts.
NeverTwice ==
    \A p, q \in Procs :
        (/\ proc[p].state = "live" /\ proc[q].state = "live"
         /\ proc[p].name = proc[q].name /\ proc[p].gen = proc[q].gen) => p = q

=============================================================================
