--------------------------- MODULE ServerProcess ---------------------------
(***************************************************************************)
(* The server process as lifespan (server/oseye/main.py) runs it: the      *)
(* plugin system and the ML worker start, stop, crash and restart          *)
(* together.  The shutdown first cancels the workers and waits for them,   *)
(* the last save of the models included, then stops the plugin socket,     *)
(* where a connected plugin holds it, and the process ends when its        *)
(* threads have.                                                           *)
(***************************************************************************)
EXTENDS Integers, FiniteSets

CONSTANTS
    Names, Requests, RequireSignature, Keys, SigBeside,
    MaxProcs, MaxRequests, MaxStarts,
    MaxModel, MaxSaves,
    MaxLoad      \* bound on the requests, the saves and the training taken together

ASSUME ServerProcessAssumption ==
    /\ RequireSignature \in BOOLEAN /\ Keys \in {"none", "empty", "some"}
    /\ MaxProcs \in Nat /\ MaxRequests \in Nat /\ MaxStarts \in Nat
    /\ MaxModel \in Nat /\ MaxSaves \in Nat /\ MaxLoad \in Nat

VARIABLES
    server, gen, files, info, sandbox, proc, req, clients, reinstalled, served,
    file, pc, half, snap, handle, trained, training, model, worker, beside, kept, saves,
    boot    \* how far the start has come: "off" ... "ready"

P == INSTANCE Plugins
M == INSTANCE MLCheckpoint

plugins == <<server, gen, files, info, sandbox, proc, req, clients, reinstalled, served>>
models  == <<file, pc, half, snap, handle, trained, training, model, worker, beside, kept, saves>>
serverVars == <<plugins, models, boot>>

SInit == P!Init /\ M!Init /\ boot = "off"

-----------------------------------------------------------------------------
(* The part of lifespan before the yield.  It may raise at any await, which  *)
(* ends the process without the part after the yield: see ProcessCrashes.    *)

Step(from, to) == boot = from /\ boot' = to

\* The buses, the database, and the engines that only live in memory.
CreateEngines == gen < MaxStarts /\ Step("off", "engines") /\ UNCHANGED <<plugins, models>>

\* The socket of the plugins, then the manager, which discovers them.
StartPlugins == Step("engines", "plugins") /\ P!Restart /\ UNCHANGED models

\* The gRPC server with what it restores: keys, known and blocked agents.
OpenGrpc == Step("plugins", "grpc") /\ UNCHANGED <<plugins, models>>

\* The tasks of the workers; that of the ML worker loads the checkpoint.
StartWorkers == Step("grpc", "workers") /\ M!Restart /\ UNCHANGED plugins

\* The repositories and the engines become visible to the routes.
ExposeState == Step("workers", "ready") /\ UNCHANGED <<plugins, models>>

-----------------------------------------------------------------------------
(* The server runs: its components take turns. *)

\* The bounds of both systems together: the more of one, the less of the other.
Within == served' * (saves' + model' + Cardinality(training')) <= MaxLoad

Ask     == boot = "ready" /\ P!Ask /\ UNCHANGED <<models, boot>> /\ Within
Operate == (\E r \in Requests : P!Operate(r)) /\ UNCHANGED <<models, boot>>
Environment == P!Environment /\ UNCHANGED <<models, boot>>
StartWork == M!Work /\ UNCHANGED <<plugins, boot>> /\ Within
Threads   == M!Threads /\ UNCHANGED <<plugins, boot>>

\* stop.set, the cancellation of the tasks and the gather that waits for them.
StopWorkers == boot = "ready" /\ P!BeginShutdown /\ M!Cancelled /\ UNCHANGED boot
WorkersStopped == server = "draining" /\ M!RunEnds /\ UNCHANGED <<plugins, boot>>

\* await ipc_server.stop()
StopPlugins == worker = "stopped" /\ P!CloseSocket /\ UNCHANGED <<models, boot>>

\* The loop waits for the threads of its executor.
ProcessEnds == boot' = "off" /\ P!EndShutdown /\ M!Exit

ProcessCrashes ==
    /\ boot # "off" /\ boot' = "off"
    /\ IF server = "down" THEN UNCHANGED plugins ELSE P!Crash
    /\ IF worker = "down" THEN UNCHANGED models ELSE M!Crash

SNext ==
    \/ CreateEngines \/ StartPlugins \/ OpenGrpc \/ StartWorkers \/ ExposeState
    \/ Ask \/ Operate \/ Environment \/ StartWork \/ Threads
    \/ StopWorkers \/ WorkersStopped \/ StopPlugins \/ ProcessEnds
    \/ ProcessCrashes

\* The event loop runs whatever can go on.
SFairness == \A r \in Requests : WF_serverVars(P!Operate(r) /\ UNCHANGED <<models, boot>>)

SSpec == SInit /\ [][SNext]_serverVars /\ SFairness

\* So do the threads, which a shutdown waits for.
ShutdownFairness ==
    /\ \A s \in M!Savers : WF_serverVars(M!Save(s) /\ UNCHANGED <<plugins, boot>>)
    /\ \A h \in M!Halves : WF_serverVars(M!Train(h) /\ UNCHANGED <<plugins, boot>>)
    /\ WF_serverVars(WorkersStopped) /\ WF_serverVars(StopPlugins) /\ WF_serverVars(ProcessEnds)

ShutdownSpec == SSpec /\ ShutdownFairness

-----------------------------------------------------------------------------

\* The lock keeps the registry and the processes together (manager.py, enable,
\* disable and delete): while the server is up, every live process it started
\* is the registered sandbox of its plugin or is being stopped, so that
\* disable and delete reach it, and a plugin shown as running has a registered
\* sandbox.  An install over a registered sandbox is the one exception.
EveryProcessManaged == P!EveryProcessManaged

\* A half of the checkpoint that a save has written by itself stays: until two
\* saves write that half beside each other, it can be loaded and is no older
\* than what the models were when that save came to it, whatever fails and
\* wherever the process is killed (anomaly.py and engine.py, save).  The
\* exceptions are an exception or a kill between the two renames of the
\* anomaly models, and one between the write of the classifier's MAC and its
\* rename.  The last save of a run is one such save: what a thread trains
\* beside it or after it, the cancellation outlived, may be missing.
CheckpointKept == M!CheckpointKept

\* A request for a plugin is answered, however the plugin behaves (sandbox.py,
\* stop): the lock is held while a process is being stopped, and a process
\* that ignores SIGTERM is killed.
RequestsAnswered == \A r \in Requests : req[r].pc # "idle" ~> req[r].pc = "idle"

\* What the docstring of enable says: "Raises RuntimeError if the plugin is
\* already running".  An install resets the status of a running plugin, so
\* that a second process starts.
NeverTwice == P!NeverTwice

\* A shutdown is meant to end (main.py, after the yield).  IPCServer.stop waits
\* for the plugins that are connected, and nothing stops them.
ShutdownEnds == server = "draining" ~> server = "down"

=============================================================================
