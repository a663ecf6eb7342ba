--------------------------- MODULE ReplayControl ----------------------------
(***************************************************************************)
(* The life of replays: ReplayController of                                *)
(* backend/app/services/replay_controller.py, the runtime it builds, and   *)
(* ReplayControl and the run loop of simulation/replay.py.                 *)
(*                                                                         *)
(* A run's worker thread builds a runtime, then processes window after     *)
(* window with a checkpoint before and after each.  Client calls take the  *)
(* controller's lock for their checks and assignments, but the checkpoint  *)
(* reads and clears the control's fields without it, and play, pause and   *)
(* step publish their event after they have released it.                   *)
(***************************************************************************)
EXTENDS Naturals, FiniteSets

CONSTANTS
    MaxRuns,      \* bound: replays created
    NumWindows,   \* bound: windows of a session
    MaxCommands,  \* bound: play, pause and step calls accepted
    MaxFaults,    \* bound: exceptions in building, windows and snapshots
    Nil           \* no run, no step limit

ASSUME ReplayAssumption ==
    MaxRuns \in Nat \ {0} /\ NumWindows \in Nat /\ Nil \notin Nat

Runs == 1 .. MaxRuns
States == {"CREATED", "RUNNING", "PAUSED", "COMPLETED", "FAILED"}
Terminal == {"COMPLETED", "FAILED"}
Places == {"none", "start", "build", "attach", "ready", "started", "check", "compare", "clear",
           "gate", "waiting", "recheck", "window", "finish", "snapshots", "completing", "failing",
           "closing", "dead"}

VARIABLES
    created,    \* number of runs created; run ids are never used again
    registered, \* _runs
    active,     \* _active_id
    lifecycle,  \* the call that holds _lifecycle_lock
    state,      \* per run: state
    cancelReq,  \* per run: cancel_requested
    worker,     \* per run: where its thread is
    bottom,     \* per run: the checkpoint is the one after a window
    runtime,    \* per run: the runtime is published in run.runtime
    gate,       \* per run: control.pause_event is set
    limit,      \* per run: control.step_limit
    cancelled,  \* per run: control._cancelled
    seen,       \* per run: window_ids_seen
    last,       \* per run: the event published last
    late,       \* events of client calls that have released the lock
    commands,   \* client calls so far
    faults,     \* exceptions so far
    granted     \* per run: windows a paused run may still come to (history)

controlVars == <<gate, limit, cancelled>>
runVars == <<state, cancelReq, runtime, gate, limit, cancelled, granted>>
threadVars == <<worker, bottom, seen, faults>>
ownerVars == <<created, registered, active, lifecycle>>
replayVars == <<created, registered, active, lifecycle, state, cancelReq, worker, bottom,
                runtime, gate, limit, cancelled, seen, last, late, commands, faults, granted>>

Free == [op |-> "free", run |-> Nil]

ReplayInit ==
    /\ created = 0
    /\ registered = {}
    /\ active = Nil
    /\ lifecycle = Free
    /\ state = [r \in Runs |-> "CREATED"]
    /\ cancelReq = [r \in Runs |-> FALSE]
    /\ worker = [r \in Runs |-> "none"]
    /\ bottom = [r \in Runs |-> FALSE]
    /\ runtime = [r \in Runs |-> FALSE]
    /\ gate = [r \in Runs |-> TRUE]
    /\ limit = [r \in Runs |-> Nil]
    /\ cancelled = [r \in Runs |-> FALSE]
    /\ seen = [r \in Runs |-> 0]
    /\ last = [r \in Runs |-> Nil]
    /\ late = {}
    /\ commands = 0
    /\ faults = 0
    /\ granted = [r \in Runs |-> 0]

Alive(r) == worker[r] \notin {"none", "dead"}

\* _publish: under the lock, the next event of the run's own sequence.
Publish(r, e) == last' = [last EXCEPT ![r] = e]

-----------------------------------------------------------------------------
(* create and restart, under the lifecycle lock. *)

\* _create_replay, first section: an active run that is not terminal blocks;
\* a terminal one is joined first.  (catalog: an unknown session is refused.)
CreateBegin ==
    /\ lifecycle = Free /\ created < MaxRuns
    /\ active # Nil => state[active] \in Terminal
    /\ lifecycle' = [op |-> "create", run |-> active]
    /\ UNCHANGED <<created, registered, active, runVars, threadVars, last, late, commands>>

\* Mutant: the join's timeout is not noticed.
JoinedAnyway(r) == TRUE

\* The join has succeeded: no thread, or it has ended.
Joined(r) == r # Nil => ~ Alive(r)

\* Drop the old run, register a new one, publish REPLAY_CREATED.  restart
\* calls this with the overrides, which an unknown session or mode refuses.
Replace(next) ==
    /\ created' = created + 1
    /\ registered' = (registered \ {lifecycle.run}) \cup {created + 1}
    /\ active' = created + 1
    /\ Publish(created + 1, "REPLAY_CREATED")
    /\ lifecycle' = next

CreateRegister ==
    /\ lifecycle.op = "create" /\ Joined(lifecycle.run)
    /\ Replace(Free)
    /\ UNCHANGED <<runVars, threadVars, late, commands>>

\* restart, first section: mark the run and open its gate for good.
RestartBegin(r) ==
    /\ lifecycle = Free /\ r \in registered /\ created < MaxRuns
    /\ lifecycle' = [op |-> "restart", run |-> r]
    /\ cancelReq' = [cancelReq EXCEPT ![r] = TRUE]
    /\ cancelled' = [cancelled EXCEPT ![r] = @ \/ runtime[r]]
    /\ gate' = [gate EXCEPT ![r] = @ \/ runtime[r]]
    /\ UNCHANGED <<created, registered, active, state, runtime, limit, granted, threadVars,
                   last, late, commands>>

ActiveWithout(r) == IF active = r THEN Nil ELSE active

\* The old run is popped; a new one takes its place, or the overrides name an
\* unknown session or mode and there is none.
RestartRegister ==
    /\ lifecycle.op = "restart" /\ Joined(lifecycle.run)
    /\ \/ Replace([op |-> "autoplay", run |-> created + 1])
       \/ /\ registered' = registered \ {lifecycle.run}
          /\ active' = ActiveWithout(lifecycle.run)
          /\ lifecycle' = Free
          /\ UNCHANGED <<created, last>>
    /\ UNCHANGED <<runVars, threadVars, late, commands>>

\* The join timed out: restart_timeout, or replay_stopping for create.
JoinTimesOut ==
    /\ lifecycle.op \in {"create", "restart"} /\ ~ Joined(lifecycle.run)
    /\ lifecycle' = Free
    /\ UNCHANGED <<created, registered, active, runVars, threadVars, last, late, commands>>

-----------------------------------------------------------------------------
(* Client calls. *)

\* Mutant: a terminal run takes commands.
RunnableAlways(r) == r \in registered /\ ~ cancelReq[r]

\* Mutant: a run that is stopping takes commands.
RunnableStopping(r) == r \in registered /\ state[r] \notin Terminal

\* _require and _ensure_active_runnable.
Runnable(r) == r \in registered /\ ~ cancelReq[r] /\ state[r] \notin Terminal

CanStart(r) == Runnable(r) /\ state[r] = "CREATED" /\ ~ Alive(r)

\* play of a CREATED run starts its worker unless there is one.
StartWorker(r) ==
    /\ CanStart(r)
    /\ worker' = [worker EXCEPT ![r] = "start"]
    /\ UNCHANGED <<runVars, bottom, seen, faults, last, late>>

PlayCreated(r) ==
    /\ commands < MaxCommands
    /\ StartWorker(r)
    /\ commands' = commands + 1
    /\ UNCHANGED ownerVars

\* play at the end of restart; it fails if someone else was faster.
AutoPlay ==
    /\ lifecycle.op = "autoplay"
    /\ \/ StartWorker(lifecycle.run)
       \/ /\ ~ CanStart(lifecycle.run)
          /\ UNCHANGED <<runVars, threadVars, last, late>>
    /\ lifecycle' = Free
    /\ UNCHANGED <<created, registered, active, commands>>

\* A client call of one locked section, whose event is published later.
Command(r, e) ==
    /\ commands < MaxCommands
    /\ commands' = commands + 1
    /\ late' = late \cup {[run |-> r, event |-> e, nr |-> commands]}
    /\ UNCHANGED <<ownerVars, threadVars, cancelReq, runtime, cancelled, last>>

\* play, resume of a PAUSED run: no step limit, gate open.
Play(r) ==
    /\ Runnable(r) /\ state[r] \notin {"RUNNING", "CREATED"}
    /\ limit' = [limit EXCEPT ![r] = Nil]
    /\ gate' = [gate EXCEPT ![r] = TRUE]
    /\ state' = [state EXCEPT ![r] = "RUNNING"]
    /\ UNCHANGED granted
    /\ Command(r, "REPLAY_RESUMED")

\* Mutant: the gate is left open.
PauseGateOpen(r) ==
    /\ Runnable(r) /\ state[r] = "RUNNING"
    /\ state' = [state EXCEPT ![r] = "PAUSED"]
    /\ granted' = [granted EXCEPT ![r] = seen[r] + 1]
    /\ UNCHANGED <<limit, gate>>
    /\ Command(r, "REPLAY_PAUSED")

Pause(r) ==
    /\ Runnable(r) /\ state[r] = "RUNNING"
    /\ gate' = [gate EXCEPT ![r] = FALSE]
    /\ state' = [state EXCEPT ![r] = "PAUSED"]
    /\ granted' = [granted EXCEPT ![r] = seen[r] + 1]
    /\ UNCHANGED limit
    /\ Command(r, "REPLAY_PAUSED")

\* step: one window more than have been seen; the state stays PAUSED.
Step(r) ==
    /\ Runnable(r) /\ state[r] = "PAUSED"
    /\ limit' = [limit EXCEPT ![r] = seen[r] + 1]
    /\ gate' = [gate EXCEPT ![r] = TRUE]
    /\ granted' = [granted EXCEPT ![r] = IF @ < seen[r] + 1 THEN seen[r] + 1 ELSE @]
    /\ UNCHANGED state
    /\ Command(r, "REPLAY_STEPPED")

\* The tail of such a call.
PublishLate(c) ==
    /\ c \in late
    /\ Publish(c.run, c.event)
    /\ late' = late \ {c}
    /\ UNCHANGED <<ownerVars, runVars, threadVars, commands>>

\* shutdown: every run is cancelled, its thread joined or abandoned.
Shutdown ==
    /\ \E r \in registered : ~ cancelReq[r]
    /\ cancelReq' = [r \in Runs |-> cancelReq[r] \/ r \in registered]
    /\ cancelled' = [r \in Runs |-> cancelled[r] \/ (r \in registered /\ runtime[r])]
    /\ gate' = [r \in Runs |-> gate[r] \/ (r \in registered /\ runtime[r])]
    /\ UNCHANGED <<ownerVars, state, runtime, limit, granted, threadVars, last, late, commands>>

-----------------------------------------------------------------------------
(* The worker thread. *)

Goto(r, where) == worker' = [worker EXCEPT ![r] = where]

\* The handler of _worker: FAILED; only a run that was not cancelled tells.
\* The state is written before the event goes out.
Fail(r, byCancel) ==
    /\ state' = [state EXCEPT ![r] = "FAILED"]
    /\ Goto(r, IF byCancel THEN "closing" ELSE "failing")

\* Before the runtime is built, and, once it is, before it is published.
WorkerStart(r) ==
    /\ worker[r] \in {"start", "attach"}
    /\ IF cancelReq[r]
       THEN Fail(r, TRUE) /\ UNCHANGED runtime
       ELSE /\ Goto(r, IF worker[r] = "start" THEN "build" ELSE "ready")
            /\ runtime' = [runtime EXCEPT ![r] = worker[r] = "attach"]
            /\ UNCHANGED state
    /\ UNCHANGED <<ownerVars, cancelReq, controlVars, granted, bottom, seen, faults, last,
                   late, commands>>

\* build_runtime; a missing model or session raises.
Build(r) ==
    /\ worker[r] = "build"
    /\ Goto(r, "attach")
    /\ UNCHANGED <<ownerVars, runVars, bottom, seen, faults, last, late, commands>>

\* CREATED -> RUNNING, then REPLAY_STARTED.
Ready(r) ==
    /\ worker[r] = "ready"
    /\ state' = [state EXCEPT ![r] = IF @ = "CREATED" THEN "RUNNING" ELSE @]
    /\ Goto(r, "started")
    /\ UNCHANGED <<ownerVars, cancelReq, runtime, controlVars, granted, bottom, seen, faults,
                   last, late, commands>>

Started(r) ==
    /\ worker[r] = "started"
    /\ Publish(r, "REPLAY_STARTED")
    /\ Goto(r, "check")
    /\ bottom' = [bottom EXCEPT ![r] = FALSE]
    /\ UNCHANGED <<ownerVars, runVars, seen, faults, late, commands>>

\* checkpoint, read by read: _cancelled; step_limit is not None; the limit
\* compared, which is a TypeError if it is None by now; clear; is_set; wait;
\* _cancelled again.
Checkpoint(r) ==
    /\ \/ /\ worker[r] \in {"check", "recheck"} /\ cancelled[r]
          /\ Fail(r, TRUE)
          /\ UNCHANGED gate
       \/ /\ worker[r] = "check" /\ ~ cancelled[r]
          /\ Goto(r, IF limit[r] = Nil THEN "gate" ELSE "compare")
          /\ UNCHANGED <<state, gate>>
       \/ /\ worker[r] = "compare" /\ limit[r] = Nil
          /\ Fail(r, FALSE)
          /\ UNCHANGED gate
       \/ /\ worker[r] = "compare" /\ limit[r] # Nil
          /\ Goto(r, IF seen[r] >= limit[r] THEN "clear" ELSE "gate")
          /\ UNCHANGED <<state, gate>>
       \/ /\ worker[r] = "clear"
          /\ gate' = [gate EXCEPT ![r] = FALSE]
          /\ Goto(r, "gate")
          /\ UNCHANGED state
       \/ /\ worker[r] = "gate"
          /\ Goto(r, IF gate[r] THEN "recheck" ELSE "waiting")
          /\ UNCHANGED <<state, gate>>
       \/ /\ worker[r] = "waiting" /\ gate[r]
          /\ Goto(r, "recheck")
          /\ UNCHANGED <<state, gate>>
       \/ /\ worker[r] = "recheck" /\ ~ cancelled[r]
          /\ Goto(r, IF bottom[r] THEN "check" ELSE "window")
          /\ UNCHANGED <<state, gate>>
    /\ bottom' = [bottom EXCEPT ![r] = @ /\ ~ (worker[r] = "recheck")]
    /\ UNCHANGED <<ownerVars, cancelReq, runtime, limit, cancelled, granted, seen, faults,
                   last, late, commands>>

\* The body of the loop: the next window, or the end of the streams.
Window(r) ==
    /\ worker[r] = "window"
    /\ IF seen[r] < NumWindows
       THEN /\ seen' = [seen EXCEPT ![r] = @ + 1]
            /\ Publish(r, "WINDOW_COMPLETED")
            /\ bottom' = [bottom EXCEPT ![r] = TRUE]
            /\ Goto(r, "check")
       ELSE Goto(r, "finish") /\ UNCHANGED <<seen, last, bottom>>
    /\ UNCHANGED <<ownerVars, runVars, faults, late, commands>>

\* COMPLETED is set before the final snapshots and REPLAY_COMPLETED go out.
Finish(r) ==
    /\ worker[r] = "finish"
    /\ state' = [state EXCEPT ![r] = "COMPLETED"]
    /\ Goto(r, "snapshots")
    /\ UNCHANGED <<ownerVars, cancelReq, runtime, controlVars, granted, bottom, seen, faults,
                   last, late, commands>>

Snapshots(r) ==
    /\ worker[r] = "snapshots"
    /\ Publish(r, "SREP_SNAPSHOT")
    /\ Goto(r, "completing")
    /\ UNCHANGED <<ownerVars, runVars, bottom, seen, faults, late, commands>>

\* The terminal event, then the finally clause.
End(r) ==
    /\ \/ worker[r] = "completing" /\ Publish(r, "REPLAY_COMPLETED") /\ Goto(r, "closing")
       \/ worker[r] = "failing" /\ Publish(r, "REPLAY_FAILED") /\ Goto(r, "closing")
       \/ worker[r] = "closing" /\ Goto(r, "dead") /\ UNCHANGED last
    /\ UNCHANGED <<ownerVars, runVars, bottom, seen, faults, late, commands>>

\* Building the runtime, a window or the final snapshots raise.
Fault(r) ==
    /\ worker[r] \in {"build", "window", "snapshots"} /\ faults < MaxFaults
    /\ faults' = faults + 1
    /\ Fail(r, FALSE)
    /\ UNCHANGED <<ownerVars, cancelReq, runtime, controlVars, granted, bottom, seen, last,
                   late, commands>>

Worker(r) ==
    \/ WorkerStart(r) \/ Build(r) \/ Ready(r) \/ Started(r) \/ Checkpoint(r)
    \/ Window(r) \/ Finish(r) \/ Snapshots(r) \/ End(r)

ReplayNext ==
    \/ CreateBegin \/ CreateRegister \/ RestartRegister \/ JoinTimesOut \/ AutoPlay
    \/ \E r \in Runs : RestartBegin(r) \/ PlayCreated(r) \/ Play(r) \/ Pause(r) \/ Step(r)
    \/ \E c \in late : PublishLate(c)
    \/ Shutdown
    \/ \E r \in Runs : Worker(r) \/ Fault(r)

\* A thread that can go on does; nobody has to call.
ReplaySpec == /\ ReplayInit /\ [][ReplayNext]_replayVars
              /\ \A r \in Runs : WF_replayVars(Worker(r))

-----------------------------------------------------------------------------
(* Properties. *)

ReplayTypeOK ==
    /\ created \in 0 .. MaxRuns
    /\ registered \subseteq 1 .. created
    /\ active \in registered \cup {Nil}
    /\ lifecycle \in [op : {"free", "create", "restart", "autoplay"}, run : Runs \cup {Nil}]
    /\ worker \in [Runs -> Places]
    /\ state \in [Runs -> States]
    /\ cancelReq \in [Runs -> BOOLEAN] /\ cancelled \in [Runs -> BOOLEAN]
    /\ runtime \in [Runs -> BOOLEAN] /\ gate \in [Runs -> BOOLEAN]
    /\ bottom \in [Runs -> BOOLEAN]
    /\ limit \in [Runs -> 1 .. NumWindows + 1 \cup {Nil}]
    /\ seen \in [Runs -> 0 .. NumWindows]
    /\ granted \in [Runs -> 0 .. NumWindows + 1]

\* Whatever is created, restarted or timed out, at most one worker thread is
\* alive, and it belongs to a run the controller still knows.
OneWorker ==
    /\ Cardinality({r \in Runs : Alive(r)}) <= 1
    /\ \A r \in Runs : Alive(r) => r \in registered

\* A PAUSED run completes at most the window that was under way when pause was
\* accepted, and the windows its steps have granted since.
PausedHoldsStill ==
    \A r \in Runs : state[r] = "PAUSED" => seen[r] <= granted[r]

\* A run that has ended takes no command: it never runs again, and no window
\* is processed after the end.
EndedStaysEnded ==
    [][\A r \in Runs : state[r] \in Terminal =>
          state'[r] \in Terminal /\ seen'[r] = seen[r]]_replayVars

\* A worker whose run is to be restarted or shut down ends, wherever it was:
\* building, in a window, between windows, or waiting while paused.  The one
\* place where a cancel is lost is between the checkpoint's test of the step
\* limit and its clear of the gate, which closes what cancel has opened.
CancelledWorkersEnd ==
    \A r \in Runs :
        (cancelReq[r] /\ gate[r] /\ worker[r] \notin {"compare", "clear"}) ~> ~ Alive(r)

\* The statement that play opens the gate of a paused run: no RUNNING worker
\* waits at a closed gate.
RunningIsNotStuck ==
    \A r \in Runs : ~ (state[r] = "RUNNING" /\ worker[r] = "waiting" /\ ~ gate[r])

\* The statement that the terminal event is the last one of a replay.
TerminalEventIsLast ==
    [][\A r \in Runs : last[r] \in {"REPLAY_COMPLETED", "REPLAY_FAILED"} =>
          last'[r] = last[r]]_replayVars
=============================================================================
