---------------------------- MODULE MLCheckpoint ----------------------------
(***************************************************************************)
(* The checkpoint of the ML engine: the anomaly models and the classifier, *)
(* each a file with a MAC file, the saves that write them and the load at  *)
(* the next start (server/oseye/ml_engine/engine.py, ml_engine/anomaly.py, *)
(* workers/ml_worker.py).                                                  *)
(*                                                                         *)
(* What runs on a thread is not stopped by a shutdown: the periodic save   *)
(* may run beside the last one, on the same files, and an event may be     *)
(* scored or an alert learnt beside either.  A file holds the number of    *)
(* the model state dumped into it; a MAC is what the file held when it was *)
(* computed.                                                               *)
(***************************************************************************)
EXTENDS Integers

CONSTANTS
    MaxModel,    \* bound on the states the models go through
    MaxSaves     \* bound on the saves

Absent == 0           \* no such file
Torn   == -1          \* a write under way, or two of them in one file
Savers == {"periodic", "final"}          \* the saves that may overlap
Halves == {"anomaly", "classifier"}      \* of a save, in this order
Kinds  == {"tmp", "tmpMac", "data", "mac"}

VARIABLES
    file,       \* contents of the files of each half
    pc,         \* the next step of each saver
    half,       \* the half it is writing
    snap,       \* the state that half had when the saver came to it
    handle,     \* the name the file a saver has open goes by now
    trained,    \* state in memory of each half, Absent before the first start
    training,   \* halves a thread is training
    model,      \* states the models have gone through
    worker,     \* "running", "stopping" (the last save), "stopped", "down"
    beside,     \* halves that two saves have written beside each other
    kept,       \* state a start must find of each half, Absent: any
    saves

saver == <<pc, half, snap, handle>>
memory == <<trained, training, model>>
vars == <<file, saver, memory, worker, beside, kept, saves>>

Init ==
    /\ file = [h \in Halves |-> [k \in Kinds |-> Absent]]
    /\ pc = [s \in Savers |-> "idle"] /\ half = [s \in Savers |-> "none"]
    /\ snap = [s \in Savers |-> Absent] /\ handle = [s \in Savers |-> "none"]
    /\ trained = [h \in Halves |-> Absent] /\ training = {} /\ model = 0
    /\ worker = "down" /\ beside = {} /\ kept = [h \in Halves |-> Absent] /\ saves = 0

-----------------------------------------------------------------------------
(* Training: score_event that of the anomaly models, for an event of the   *)
(* worker, learn_from_alert and negative_feedback that of the classifier.  *)

BeginTraining(h) ==
    /\ worker = "running" /\ h \notin training /\ model < MaxModel
    /\ training' = training \cup {h}
    /\ UNCHANGED <<file, saver, trained, model, worker, beside, kept, saves>>

\* The thread goes on after the task that awaits it is cancelled.
Train(h) ==
    /\ h \in training /\ training' = training \ {h}
    /\ model' = model + 1 /\ trained' = [trained EXCEPT ![h] = model']
    /\ UNCHANGED <<file, saver, worker, beside, kept, saves>>

-----------------------------------------------------------------------------
(* save_checkpoint: the anomaly models, then the classifier.               *)

Shared(s, h) == \E t \in Savers \ {s} : half[t] = h

\* Mutant of Opened: the dump goes into the checkpoint itself.
OpenedInPlace(now, h) == [now EXCEPT ![h].tmp = Torn, ![h].data = Torn]

\* open(tmp, "wb") empties the file, which another saver may be writing.
Opened(now, h) == [now EXCEPT ![h].tmp = Torn]

\* A saver comes to a half, alone or beside another one, and opens its file.
Enter(s, h, now) ==
    /\ pc' = [pc EXCEPT ![s] = "dump"] /\ half' = [half EXCEPT ![s] = h]
    /\ snap' = [snap EXCEPT ![s] = trained[h]]
    /\ handle' = [handle EXCEPT ![s] = "tmp"]
    /\ file' = Opened(now, h)
    /\ beside' = IF Shared(s, h) THEN beside \cup {h} ELSE beside \ {h}

\* What two savers write at once is kept to nobody.
Keep(of) == kept' = [h \in Halves |-> IF h \in beside' THEN Absent ELSE of[h]]

BeginSave(s) ==
    /\ pc[s] = "idle" /\ saves' = saves + 1
    /\ Enter(s, "anomaly", file) /\ Keep(kept)
    /\ UNCHANGED memory

\* _periodic_checkpoint hands the save to a thread.
Periodic ==
    /\ worker = "running" /\ saves < MaxSaves
    /\ BeginSave("periodic") /\ UNCHANGED worker

\* The worker is cancelled: the periodic task with it, the threads not, and
\* run saves once more before it ends.
Cancelled == worker = "running" /\ worker' = "stopping" /\ BeginSave("final")

RunEnds ==
    /\ worker = "stopping" /\ pc["final"] = "idle" /\ worker' = "stopped"
    /\ UNCHANGED <<file, saver, memory, beside, kept, saves>>

Step(s, label, next) ==
    /\ pc[s] = label /\ pc' = [pc EXCEPT ![s] = next]
    /\ UNCHANGED <<half, snap, beside, kept>>

\* pickle.dump writes to the open file, wherever it has been moved, the state
\* the models had at the start or one they are trained to meanwhile.
Dump(s) ==
    /\ Step(s, "dump", "sign")
    /\ \E m \in snap[s] .. trained[half[s]] :
         LET h == half[s]
             other == \E t \in Savers \ {s} : half[t] = h /\ handle[t] = handle[s]
         IN  file' = [file EXCEPT ![h] = [k \in Kinds |->
                         IF k # handle[s] THEN file[h][k] ELSE IF other THEN Torn ELSE m]]
    /\ handle' = [handle EXCEPT ![s] = "none"]

\* The MAC of the temporary file, under the final name for the classifier.
Sign(s) ==
    LET h == half[s]
    IN  /\ Step(s, "sign", "replace") /\ file[h].tmp # Absent
        /\ file' = IF h = "anomaly" THEN [file EXCEPT ![h].tmpMac = file[h].tmp]
                                    ELSE [file EXCEPT ![h].mac = file[h].tmp]
        /\ UNCHANGED handle

\* os.replace(tmp, path): whoever has the file open goes on writing to it.
Moved(s) ==
    LET h == half[s]
    IN  /\ pc[s] = "replace" /\ file[h].tmp # Absent
        /\ file' = [file EXCEPT ![h].data = file[h].tmp, ![h].tmp = Absent]
        /\ handle' = [t \in Savers |-> IF half[t] # h THEN handle[t]
                                       ELSE IF handle[t] = "tmp" THEN "data"
                                       ELSE IF handle[t] = "data" THEN "none" ELSE handle[t]]

\* A saver that had a half to itself has saved it.
Saved(s) == [kept EXCEPT ![half[s]] = snap[s]]

Idle(s) ==
    /\ pc' = [pc EXCEPT ![s] = "idle"] /\ half' = [half EXCEPT ![s] = "none"]
    /\ snap' = [snap EXCEPT ![s] = Absent]

ReplacePkl(s) == half[s] = "anomaly" /\ Step(s, "replace", "replaceMac") /\ Moved(s)

\* The MAC follows, and the classifier is next.
ReplaceMac(s) ==
    /\ pc[s] = "replaceMac" /\ file["anomaly"].tmpMac # Absent
    /\ Enter(s, "classifier", [file EXCEPT !["anomaly"].mac = file["anomaly"].tmpMac,
                                           !["anomaly"].tmpMac = Absent])
    /\ Keep(Saved(s))

ReplaceClf(s) ==
    /\ half[s] = "classifier" /\ Moved(s)
    /\ Idle(s) /\ UNCHANGED beside /\ Keep(Saved(s))

\* The files of a half do not belong together.
Between(s, h) ==
    half[s] = h /\ pc[s] \in IF h = "anomaly" THEN {"replaceMac"} ELSE {"sign", "replace"}

Lost(gone) == kept' = [h \in Halves |-> IF \E s \in gone : Between(s, h) THEN Absent ELSE kept[h]]

\* What is left of the MAC of the classifier when its write is cut short.
MacLeft(gone) ==
    IF \E s \in gone : half[s] = "classifier" /\ pc[s] = "sign"
    THEN {file["classifier"].mac, Torn} ELSE {file["classifier"].mac}

\* An exception, of any step, removes the temporary files and ends the save.
SaveFails(s) ==
    LET h == half[s]
    IN  /\ pc[s] # "idle"
        /\ \E mac \in MacLeft({s}) :
             file' = [[file EXCEPT !["classifier"].mac = mac]
                           EXCEPT ![h].tmp = Absent, ![h].tmpMac = Absent]
        /\ handle' = [t \in Savers |-> IF t = s \/ (half[t] = h /\ handle[t] = "tmp")
                                       THEN "none" ELSE handle[t]]
        /\ Idle(s) /\ Lost({s}) /\ UNCHANGED beside

Save(s) ==
    /\ \/ Dump(s) \/ Sign(s) \/ ReplacePkl(s) \/ ReplaceMac(s) \/ ReplaceClf(s) \/ SaveFails(s)
    /\ UNCHANGED <<memory, worker, saves>>

-----------------------------------------------------------------------------

Fall ==
    /\ worker' = "down" /\ training' = {} /\ beside' = {}
    /\ trained' = [h \in Halves |-> Absent]
    /\ \E mac \in MacLeft(Savers) : file' = [file EXCEPT !["classifier"].mac = mac]
    /\ pc' = [s \in Savers |-> "idle"] /\ half' = [s \in Savers |-> "none"]
    /\ snap' = [s \in Savers |-> Absent] /\ handle' = [s \in Savers |-> "none"]
    /\ Lost(Savers)
    /\ UNCHANGED <<model, saves>>

Crash == worker # "down" /\ Fall

\* The process waits for its threads before it ends.
Exit == worker = "stopped" /\ training = {} /\ (\A s \in Savers : pc[s] = "idle") /\ Fall

\* _verify_mac, and the pickle is whole.
Loadable(h) == file[h].data > 0 /\ file[h].mac = file[h].data

\* _try_load_checkpoint: the classifier is loaded after the anomaly models,
\* an error in either only ends the load, and what is not loaded is new.
Restart ==
    /\ worker = "down" /\ worker' = "running" /\ model' = model + 1
    /\ trained' = [h \in Halves |-> IF Loadable("anomaly") /\ Loadable(h)
                                    THEN file[h].data ELSE model']
    /\ UNCHANGED <<file, saver, training, beside, kept, saves>>

Work    == Periodic \/ \E h \in Halves : BeginTraining(h)
Threads == (\E h \in Halves : Train(h)) \/ \E s \in Savers : Save(s)

Next ==
    \/ Work \/ Threads \/ Cancelled \/ RunEnds \/ Exit \/ Crash
    \/ (model < MaxModel /\ Restart)

Spec == Init /\ [][Next]_vars

-----------------------------------------------------------------------------

\* A half of the checkpoint that a save has written by itself stays: until two
\* saves write that half beside each other, it can be loaded and is no older
\* than what the models were when that save came to it, whatever fails and
\* wherever the process is killed (anomaly.py and engine.py, save).  The
\* exceptions are an exception or a kill between the two renames of the
\* anomaly models, and one between the write of the classifier's MAC and its
\* rename.  The last save of a run is one such save: what a thread trains
\* beside it or after it, the cancellation outlived, may be missing.
CheckpointKept ==
    \A h \in Halves :
        kept[h] > 0 /\ (\A s \in Savers : ~ Between(s, h))
            => Loadable(h) /\ file[h].data >= kept[h]

\* What anomaly.py says of save: "a crash mid-write never corrupts the
\* existing checkpoint", and of the two renames, "A crash between os.replace
\* calls would leave the old .pkl with its valid .mac".  The checkpoint a save
\* has written by itself can still be loaded after a crash.
CheckpointSurvivesCrash == [][Crash /\ kept["anomaly"] > 0 => Loadable("anomaly")']_vars

=============================================================================
