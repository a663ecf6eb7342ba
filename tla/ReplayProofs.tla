---------------------------- MODULE ReplayProofs ----------------------------
(***************************************************************************)
(* Theorems about the life of replays, for any number of replays, windows, *)
(* client calls and faults, and about the stored session a replay plays,   *)
(* for any raw files, settings and deaths of the extracting process.       *)
(***************************************************************************)
EXTENDS ReplayControl, SessionReplay, FiniteSetTheorems, SequenceTheorems,
        WellFoundedInduction, TLAPS

\* The controller knows one run at most, the active one, and nobody but its
\* worker is alive.  While create or restart waits for a join, that run and
\* the number of the next one stay what they were.
OwnersAgree ==
    /\ \A r \in registered : r = active
    /\ \A r \in Runs : Alive(r) => r \in registered
    /\ lifecycle.op \in {"create", "restart"} => lifecycle.run = active /\ created < MaxRuns

\* A run that has ended is past its windows, and only a paused run has a step
\* limit.
EndedIsPast ==
    \A r \in Runs :
        /\ state[r] \in Terminal =>
              worker[r] \in {"snapshots", "completing", "failing", "closing", "dead"}
        /\ state[r] \in {"CREATED", "RUNNING"} => limit[r] = Nil

\* What lets a paused run hold still.  Its gate is open only behind a step
\* limit that was granted, unless it is cancelled; and a worker that has
\* passed its last test before a window may still come to one.
PausedIsLimited ==
    \A r \in Runs : state[r] = "PAUSED" =>
        /\ seen[r] <= granted[r]
        /\ limit[r] # Nil => limit[r] <= granted[r]
        /\ gate[r] /\ ~ cancelled[r] => limit[r] # Nil
        /\ worker[r] = "window" => seen[r] < granted[r]
        /\ ~ bottom[r] /\ ~ cancelled[r] =>
              /\ worker[r] = "recheck" => seen[r] < granted[r]
              /\ worker[r] \in {"gate", "waiting"} /\ gate[r] => seen[r] < granted[r]

\* The inductive invariant.
ReplayInv ==
    /\ ReplayTypeOK
    /\ OwnersAgree
    /\ EndedIsPast
    /\ PausedIsLimited

-----------------------------------------------------------------------------
LEMMA ReplayInitInv == ReplayInit => ReplayInv
BY ReplayAssumption
DEF ReplayInit, ReplayInv, ReplayTypeOK, OwnersAgree, EndedIsPast, PausedIsLimited, Free, Alive,
    Runs, States, Terminal, Places

\* create and restart replace the active run once its worker is gone.
LEMMA OwnersKeepInv ==
    ASSUME ReplayInv,
           \/ CreateBegin \/ CreateRegister \/ RestartRegister \/ JoinTimesOut
    PROVE  ReplayInv'
<1> USE ReplayAssumption DEF ReplayInv, ownerVars, runVars, threadVars
<1>1. UNCHANGED <<state, cancelReq, runtime, gate, limit, cancelled, granted, worker, bottom,
                  seen, faults>>
  BY DEF CreateBegin, CreateRegister, RestartRegister, JoinTimesOut
<1>2. EndedIsPast' /\ PausedIsLimited'
  BY <1>1 DEF EndedIsPast, PausedIsLimited
<1>3. /\ ReplayTypeOK'
      /\ OwnersAgree'
  <2>1. CASE CreateBegin
    <3>1. /\ UNCHANGED <<created, registered, active, last, late, commands>>
          /\ created < MaxRuns /\ lifecycle' = [op |-> "create", run |-> active]
      BY <2>1 DEF CreateBegin
    <3>2. ReplayTypeOK'
      <4>1. active \in Runs \cup {Nil}
        BY DEF ReplayTypeOK, Runs
      <4>2. lifecycle' \in [op : {"free", "create", "restart", "autoplay"}, run : Runs \cup {Nil}]
        BY <3>1, <4>1
      <4> QED  BY <1>1, <3>1, <4>2 DEF ReplayTypeOK
    <3>3. OwnersAgree'
      BY <1>1, <3>1 DEF OwnersAgree, Alive
    <3> QED  BY <3>2, <3>3
  <2>2. ASSUME lifecycle.op \in {"create", "restart"}, Joined(lifecycle.run)
        PROVE  /\ registered \ {lifecycle.run} = {}
               /\ \A r \in Runs : ~ Alive(r)
               /\ created + 1 \in Runs /\ created < MaxRuns
    <3>1. lifecycle.run = active /\ created < MaxRuns
      BY <2>2 DEF OwnersAgree
    <3>2. registered \ {lifecycle.run} = {}
      BY <3>1 DEF OwnersAgree
    <3>3. created + 1 \in Runs
      BY <3>1 DEF ReplayTypeOK, Runs
    <3>4. ASSUME NEW r \in Runs, Alive(r) PROVE FALSE
      BY <2>2, <3>1, <3>4 DEF OwnersAgree, Joined, Runs
    <3> QED  BY <3>1, <3>2, <3>3, <3>4
  <2>3. ASSUME lifecycle.op \in {"create", "restart"}, Joined(lifecycle.run), NEW next,
               Replace(next), next = Free \/ next = [op |-> "autoplay", run |-> created + 1]
        PROVE  ReplayTypeOK' /\ OwnersAgree'
    <3>1. /\ created' = created + 1 /\ registered' = {created'} /\ active' = created'
          /\ created' \in Runs
          /\ lifecycle' = next
      BY <2>2, <2>3 DEF Replace
    <3>2. lifecycle' \in [op : {"free", "autoplay"}, run : Runs \cup {Nil}]
      BY <2>3, <3>1 DEF Free
    <3>3. ReplayTypeOK'
      BY <1>1, <3>1, <3>2 DEF ReplayTypeOK, Runs
    <3>4. OwnersAgree'
      BY <1>1, <2>2, <2>3, <3>1, <3>2 DEF OwnersAgree, Alive
    <3> QED  BY <3>3, <3>4
  <2>4. CASE CreateRegister
    BY <2>3, <2>4 DEF CreateRegister
  <2>5. CASE RestartRegister /\ ~ Replace([op |-> "autoplay", run |-> created + 1])
    <3>1. registered' = {} /\ active' = Nil /\ lifecycle' = Free /\ created' = created
      BY <2>2, <2>5 DEF RestartRegister, ActiveWithout, OwnersAgree
    <3> QED  BY <1>1, <2>2, <2>5, <3>1 DEF RestartRegister, ReplayTypeOK, OwnersAgree, Free, Alive, Runs
  <2>6. CASE RestartRegister /\ Replace([op |-> "autoplay", run |-> created + 1])
    BY <2>3, <2>6 DEF RestartRegister
  <2>7. CASE JoinTimesOut
    BY <1>1, <2>7 DEF JoinTimesOut, ReplayTypeOK, OwnersAgree, Free, Alive, Runs
  <2> QED  BY <2>1, <2>4, <2>5, <2>6, <2>7
<1> QED  BY <1>2, <1>3

\* A client call sees one run, in one locked section.
LEMMA ClientsKeepInv ==
    ASSUME ReplayInv,
           \/ \E r \in Runs : RestartBegin(r) \/ PlayCreated(r) \/ Play(r) \/ Pause(r) \/ Step(r)
           \/ AutoPlay \/ Shutdown
           \/ \E c \in late : PublishLate(c)
    PROVE  ReplayInv'
<1> USE ReplayAssumption DEF ReplayInv, ownerVars, runVars, threadVars
<1>1. ASSUME NEW r \in Runs, RestartBegin(r)
      PROVE  ReplayInv'
  <2>1. ReplayTypeOK'
    BY <1>1 DEF RestartBegin, ReplayTypeOK
  <2>2. OwnersAgree'
    BY <1>1 DEF RestartBegin, OwnersAgree, Alive
  <2>3. EndedIsPast' /\ PausedIsLimited'
    BY <1>1 DEF RestartBegin, EndedIsPast, PausedIsLimited, ReplayTypeOK
  <2> QED  BY <2>1, <2>2, <2>3
<1>2. ASSUME NEW r \in Runs, StartWorker(r), UNCHANGED <<created, registered, active>>,
             lifecycle' = lifecycle \/ lifecycle' = Free
      PROVE  ReplayInv'
  <2>1. lifecycle' \in [op : {"free", "create", "restart", "autoplay"}, run : Runs \cup {Nil}]
    BY <1>2 DEF Free, ReplayTypeOK
  <2>2. ReplayTypeOK'
    BY <1>2, <2>1 DEF StartWorker, ReplayTypeOK, Places
  <2>3. OwnersAgree'
    BY <1>2 DEF StartWorker, CanStart, Runnable, OwnersAgree, Alive, Free, ReplayTypeOK
  <2>4. EndedIsPast' /\ PausedIsLimited'
    BY <1>2 DEF StartWorker, CanStart, EndedIsPast, PausedIsLimited, ReplayTypeOK, Terminal
  <2> QED  BY <2>2, <2>3, <2>4
<1>3. ASSUME NEW r \in Runs, PlayCreated(r)
      PROVE  ReplayInv'
  BY <1>2, <1>3 DEF PlayCreated
<1>4. CASE AutoPlay
  <2>1. CASE StartWorker(lifecycle.run)
    <3>1. registered \subseteq Runs
      BY DEF ReplayTypeOK, Runs
    <3>2. lifecycle.run \in Runs
      BY <2>1, <3>1 DEF StartWorker, CanStart, Runnable
    <3> QED  BY <1>2, <1>4, <2>1, <3>2 DEF AutoPlay
  <2>2. CASE UNCHANGED <<runVars, threadVars>>
    BY <1>4, <2>2
    DEF AutoPlay, ReplayTypeOK, OwnersAgree, EndedIsPast, PausedIsLimited, Alive, Free
  <2> QED  BY <1>4, <2>1, <2>2 DEF AutoPlay
<1>5. ASSUME NEW r \in Runs, Play(r) \/ Pause(r) \/ Step(r)
      PROVE  ReplayInv'
  <2>1. ReplayTypeOK' /\ OwnersAgree'
    <3>1. seen[r] \in 0 .. NumWindows /\ seen[r] + 1 \in 1 .. NumWindows + 1
      BY DEF ReplayTypeOK
    <3>2. state' \in [Runs -> States] /\ gate' \in [Runs -> BOOLEAN]
      BY <1>5 DEF Play, Pause, Step, ReplayTypeOK, States
    <3>3. limit' \in [Runs -> 1 .. NumWindows + 1 \cup {Nil}]
      <4> DEFINE L == 1 .. NumWindows + 1 \cup {Nil}
      <4>1. seen[r] + 1 \in L /\ Nil \in L /\ limit \in [Runs -> L]
        BY <3>1 DEF ReplayTypeOK
      <4> HIDE DEF L
      <4>2. limit' \in [Runs -> L]
        BY <1>5, <4>1 DEF Play, Pause, Step
      <4> QED  BY <4>2 DEF L
    <3>4. granted' \in [Runs -> 0 .. NumWindows + 1]
      BY <1>5, <3>1 DEF Play, Pause, Step, ReplayTypeOK
    <3>5. UNCHANGED <<created, registered, active, lifecycle, worker, bottom, seen, cancelReq,
                      runtime, cancelled>>
      BY <1>5 DEF Play, Pause, Step, Command
    <3> QED  BY <3>2, <3>3, <3>4, <3>5 DEF ReplayTypeOK, OwnersAgree, Alive
  <2>2. EndedIsPast'
    BY <1>5 DEF Play, Pause, Step, Command, Runnable, ReplayTypeOK, EndedIsPast, Terminal, States
  <2>3. PausedIsLimited'
    <3>1. CASE Play(r)
      BY <3>1 DEF Play, Command, ReplayTypeOK, PausedIsLimited
    <3>2. CASE Pause(r)
      BY <3>2 DEF Pause, Command, ReplayTypeOK, PausedIsLimited, EndedIsPast
    <3>3. CASE Step(r)
      BY <3>3 DEF Step, Command, ReplayTypeOK, PausedIsLimited
    <3> QED  BY <1>5, <3>1, <3>2, <3>3
  <2> QED  BY <2>1, <2>2, <2>3
<1>6. CASE Shutdown
  <2>1. ReplayTypeOK' /\ OwnersAgree'
    BY <1>6 DEF Shutdown, ReplayTypeOK, OwnersAgree, Alive
  <2>2. EndedIsPast' /\ PausedIsLimited'
    BY <1>6 DEF Shutdown, EndedIsPast, PausedIsLimited, ReplayTypeOK
  <2> QED  BY <2>1, <2>2
<1>7. ASSUME NEW c \in late, PublishLate(c)
      PROVE  ReplayInv'
  BY <1>7 DEF PublishLate, ReplayTypeOK, OwnersAgree, EndedIsPast, PausedIsLimited, Alive
<1> QED  BY <1>1, <1>3, <1>4, <1>5, <1>6, <1>7

\* A step of a worker: it stays where it is owned, ends for good, and comes
\* to a window only as far as it was granted.
LEMMA WorkersKeepInv ==
    ASSUME ReplayInv, NEW r \in Runs, Worker(r) \/ Fault(r)
    PROVE  /\ ReplayInv'
           /\ \A q \in Runs : state[q] \in Terminal =>
                 state'[q] \in Terminal /\ seen'[q] = seen[q]
<1> USE ReplayAssumption DEF ReplayInv, ownerVars, runVars, threadVars, controlVars, Goto, Fail
<1>1. /\ UNCHANGED <<created, registered, active, lifecycle, cancelReq, cancelled, limit, granted>>
      /\ \A q \in Runs \ {r} : /\ worker'[q] = worker[q] /\ state'[q] = state[q]
                              /\ seen'[q] = seen[q] /\ gate'[q] = gate[q]
                              /\ bottom'[q] = bottom[q]
      /\ Alive(r) /\ worker' \in [Runs -> Places]
  BY DEF Worker, Fault, WorkerStart, Build, Ready, Started, Checkpoint, Window, Finish, Snapshots,
         End, ReplayTypeOK, Alive, Places
<1>2. /\ state' \in [Runs -> States] /\ runtime' \in [Runs -> BOOLEAN]
      /\ gate' \in [Runs -> BOOLEAN] /\ bottom' \in [Runs -> BOOLEAN]
      /\ seen' \in [Runs -> 0 .. NumWindows]
  <2>1. state' \in [Runs -> States]
    BY DEF Worker, Fault, WorkerStart, Build, Ready, Started, Checkpoint, Window, Finish,
           Snapshots, End, ReplayTypeOK, States
  <2>2. runtime' \in [Runs -> BOOLEAN] /\ gate' \in [Runs -> BOOLEAN]
    BY DEF Worker, Fault, WorkerStart, Build, Ready, Started, Checkpoint, Window, Finish,
           Snapshots, End, ReplayTypeOK
  <2>3. bottom' \in [Runs -> BOOLEAN]
    BY DEF Worker, Fault, WorkerStart, Build, Ready, Started, Checkpoint, Window, Finish,
           Snapshots, End, ReplayTypeOK
  <2>4. seen' \in [Runs -> 0 .. NumWindows]
    BY DEF Worker, Fault, WorkerStart, Build, Ready, Started, Checkpoint, Window, Finish,
           Snapshots, End, ReplayTypeOK
  <2> QED  BY <2>1, <2>2, <2>3, <2>4
<1>3. ReplayTypeOK' /\ OwnersAgree'
  BY <1>1, <1>2 DEF ReplayTypeOK, OwnersAgree, Alive
<1>4. EndedIsPast'
  BY <1>1 DEF Worker, Fault, WorkerStart, Build, Ready, Started, Checkpoint, Window, Finish,
              Snapshots, End, ReplayTypeOK, EndedIsPast, Terminal
<1>5. PausedIsLimited'
  <2>1. CASE Checkpoint(r)
    BY <1>1, <2>1 DEF Checkpoint, ReplayTypeOK, PausedIsLimited
  <2>2. CASE Window(r)
    BY <1>1, <2>2 DEF Window, ReplayTypeOK, PausedIsLimited
  <2>3. CASE \/ WorkerStart(r) \/ Build(r) \/ Ready(r) \/ Started(r) \/ Finish(r)
             \/ Snapshots(r) \/ End(r) \/ Fault(r)
    BY <1>1, <2>3 DEF WorkerStart, Build, Ready, Started, Finish, Snapshots, End, Fault,
                      ReplayTypeOK, PausedIsLimited
  <2> QED  BY <2>1, <2>2, <2>3 DEF Worker
<1>6. ASSUME state[r] \in Terminal
      PROVE  state'[r] \in Terminal /\ seen'[r] = seen[r]
  BY <1>6 DEF Worker, Fault, WorkerStart, Build, Ready, Started, Checkpoint, Window, Finish,
              Snapshots, End, ReplayTypeOK, EndedIsPast, Terminal
<1> QED  BY <1>1, <1>3, <1>4, <1>5, <1>6

LEMMA ReplayNextInv == ReplayInv /\ [ReplayNext]_replayVars => ReplayInv'
<1> SUFFICES ASSUME ReplayInv, [ReplayNext]_replayVars PROVE ReplayInv'
  OBVIOUS
<1>1. CASE UNCHANGED replayVars
  BY <1>1 DEF replayVars, ReplayInv, ReplayTypeOK, OwnersAgree, EndedIsPast, PausedIsLimited, Alive
<1> QED  BY <1>1, OwnersKeepInv, ClientsKeepInv, WorkersKeepInv DEF ReplayNext

LEMMA ReplayInvariance == ReplaySpec => []ReplayInv
BY ReplayInitInv, ReplayNextInv, PTL DEF ReplaySpec

-----------------------------------------------------------------------------
(* The theorems. *)

\* Type correctness of the controller's and the runs' fields.
THEOREM ReplayTypes == ReplaySpec => []ReplayTypeOK
BY ReplayInvariance, PTL DEF ReplayInv

\* However create, restart, play and shutdown interleave with joins that time
\* out, at most one worker thread is alive, and the controller knows its run.
THEOREM OneWorkerAtATime == ReplaySpec => []OneWorker
<1>1. ReplayInv => OneWorker
  <2> SUFFICES ASSUME ReplayInv PROVE OneWorker
    OBVIOUS
  <2> DEFINE A == {r \in Runs : Alive(r)}
  <2>1. A \subseteq {active}
    BY DEF ReplayInv, OwnersAgree
  <2>2. IsFiniteSet({active}) /\ Cardinality({active}) = 1
    BY FS_Singleton
  <2>3. Cardinality(A) <= 1
    BY <2>1, <2>2, FS_Subset
  <2> QED  BY <2>3 DEF OneWorker, ReplayInv, OwnersAgree
<1> QED  BY <1>1, ReplayInvariance, PTL

\* A PAUSED run completes no window that it was not granted, whichever of the
\* checkpoint's unlocked reads pause and step fall between.
THEOREM PausedRunsHoldStill == ReplaySpec => []PausedHoldsStill
<1>1. ReplayInv => PausedHoldsStill
  BY DEF ReplayInv, PausedIsLimited, PausedHoldsStill
<1> QED  BY <1>1, ReplayInvariance, PTL

\* A run that has ended never runs again and processes no further window.
THEOREM EndedRunsStayEnded == ReplaySpec => EndedStaysEnded
<1> DEFINE A == \A r \in Runs : state[r] \in Terminal =>
                   state'[r] \in Terminal /\ seen'[r] = seen[r]
<1>1. ReplayInv /\ [ReplayNext]_replayVars => [A]_replayVars
  <2> SUFFICES ASSUME ReplayInv, ReplayNext PROVE A
    OBVIOUS
  <2>1. CASE \E r \in Runs : Worker(r) \/ Fault(r)
    BY <2>1, WorkersKeepInv
  <2>2. CASE \E r \in Runs : Play(r) \/ Pause(r) \/ Step(r)
    BY <2>2 DEF Play, Pause, Step, Command, Runnable, threadVars, ReplayInv, ReplayTypeOK
  <2>3. CASE UNCHANGED <<state, seen>>
    BY <2>3
  <2>4. ASSUME \/ CreateBegin \/ CreateRegister \/ RestartRegister \/ JoinTimesOut \/ AutoPlay
               \/ \E r \in Runs : RestartBegin(r) \/ PlayCreated(r)
               \/ \E c \in late : PublishLate(c)
               \/ Shutdown
        PROVE  UNCHANGED <<state, seen>>
    BY <2>4 DEF CreateBegin, CreateRegister, RestartRegister, JoinTimesOut, AutoPlay, RestartBegin,
                PlayCreated, StartWorker, PublishLate, Shutdown, runVars, threadVars
  <2> QED  BY <2>1, <2>2, <2>3, <2>4 DEF ReplayNext
<1> QED  BY <1>1, ReplayInvariance, PTL DEF ReplaySpec, EndedStaysEnded

-----------------------------------------------------------------------------
(* The directories of an extraction. *)

\* The phases of run_session in which the writers are open, and those after
\* the checkpoint in_progress.
WritersOpen == {"packets", "events", "finalize", "abort"}
Recorded == WritersOpen \cup {"open", "fail", "mark"}

\* A temporary directory is that of the running process, or a disk error left
\* it, or a process that died after it had recorded in_progress; then no later
\* process has got past its clean-up.
LitterInv ==
    /\ tmp = [m \in Modality |-> tmp[m]]
    /\ \A m \in Modality : tmp[m].there => pc \in WritersOpen
    /\ pc \in Recorded => checkpoint.status = "in_progress"
    /\ stale \subseteq undeleted
       \/ (checkpoint.status = "in_progress" /\ pc \in {"idle", "clean"})

LEMMA LitterInit == SessionInit => LitterInv
BY DEF SessionInit, ExtractInit, LitterInv, NoWriter, WritersOpen, Recorded

\* A process that finds the traces of a dead one cleans up first.
LEMMA StartLitter ==
    ASSUME LitterInv, NEW c, NEW force, Start(c, force)
    PROVE  LitterInv'
<1>1. /\ pc = "idle" /\ UNCHANGED <<checkpoint, tmp, stale, undeleted>>
      /\ pc' \in {"idle", "save", "clean"}
  BY DEF Start, diskVars, litterVars, DecideResume
<1>2. ASSUME checkpoint.status = "in_progress"
      PROVE  pc' = "clean"
  <2>1. DecideResume(c, force) = "rerun"
    BY <1>2 DEF DecideResume
  <2> QED
    BY <2>1 DEF Start
<1> QED
  BY <1>1, <1>2 DEF LitterInv, WritersOpen, Recorded

\* The steps from the clean-up to the opening of the writers.
LEMMA PrepareLitter ==
    ASSUME LitterInv, CleanFinal \/ CleanStale \/ SaveInProgress \/ Open \/ OpenFails
    PROVE  LitterInv'
<1> USE DEF litterVars
<1>1. CASE CleanFinal
  BY <1>1 DEF CleanFinal, LitterInv, WritersOpen, Recorded
<1>2. CASE CleanStale
  BY <1>2 DEF CleanStale, LitterInv, WritersOpen, Recorded
<1>3. CASE SaveInProgress
  BY <1>3 DEF SaveInProgress, LitterInv, WritersOpen, Recorded
<1>4. CASE Open
  <2>1. tmp' = [m \in Modality |-> tmp'[m]]
    BY <1>4 DEF Open
  <2> QED
    BY <1>4, <2>1 DEF Open, LitterInv, WritersOpen, Recorded
<1>5. CASE OpenFails
  <2>1. PICK n \in DOMAIN Modalities :
            /\ tmp' = [m \in Modality |->
                          [NoWriter EXCEPT !.there = \E k \in 1 .. (n - 1) : m = Modalities[k]]]
            /\ pc' = IF n = 1 THEN "fail" ELSE "abort"
    BY <1>5 DEF OpenFails
  <2>2. tmp' = [m \in Modality |-> tmp'[m]]
    BY <2>1
  <2>3. ASSUME n = 1, NEW m \in Modality PROVE ~ tmp'[m].there
    <3>1. ~ \E k \in 1 .. (n - 1) : m = Modalities[k]
      BY <2>3
    <3>2. \A y : [NoWriter EXCEPT !.there = y].there = y
      BY DEF NoWriter
    <3> QED
      BY <2>1, <3>1, <3>2
  <2> QED
    BY <1>5, <2>1, <2>2, <2>3 DEF OpenFails, LitterInv, WritersOpen, Recorded
<1> QED
  BY <1>1, <1>2, <1>3, <1>4, <1>5

\* Reading and writing rows leaves the session's phase among those in which
\* the writers are open, and the files of dead processes alone.
LEMMA ReadingLitter ==
    ASSUME LitterInv, ReadPacket \/ PacketsEnd \/ ReadEvent \/ EventsEnd \/ ReadFails
    PROVE  LitterInv'
<1>1. pc \in WritersOpen /\ pc' \in WritersOpen /\ UNCHANGED <<checkpoint, stale, undeleted>>
  BY DEF ReadPacket, PacketsEnd, ReadEvent, EventsEnd, ReadFails, WritersOpen, diskVars,
         litterVars
<1>2. tmp' = [m \in Modality |-> tmp'[m]]
  <2>1. CASE ReadPacket
    <3>1. \/ tmp' = tmp
          \/ \E n, c : tmp' = [tmp EXCEPT !["network"] = Write(@, n), !["communication"] = Write(@, c)]
      BY <2>1 DEF ReadPacket
    <3> QED
      BY <3>1 DEF LitterInv
  <2>2. CASE PacketsEnd
    <3>1. \E n, c : tmp' = [tmp EXCEPT !["network"] = Write(@, n), !["communication"] = Write(@, c)]
      BY <2>2 DEF PacketsEnd
    <3> QED
      BY <3>1 DEF LitterInv
  <2>3. CASE ReadEvent
    <3>1. tmp' = tmp \/ \E b : tmp' = [tmp EXCEPT !["behavior"] = Write(@, b)]
      BY <2>3 DEF ReadEvent
    <3> QED
      BY <3>1 DEF LitterInv
  <2>4. CASE EventsEnd
    <3>1. \E b : tmp' = [tmp EXCEPT !["behavior"] = Write(@, b)]
      BY <2>4 DEF EventsEnd
    <3> QED
      BY <3>1 DEF LitterInv
  <2>5. CASE ReadFails
    BY <2>5 DEF ReadFails, diskVars, LitterInv
  <2> QED
    BY <2>1, <2>2, <2>3, <2>4, <2>5
<1> QED
  BY <1>1, <1>2 DEF LitterInv, WritersOpen, Recorded

\* The last writer to be left is the last that had a directory.
LEMMA FinalizeLitter ==
    ASSUME LitterInv, Finalize
    PROVE  LitterInv'
<1>1. PICK n \in DOMAIN ExitOrder :
        /\ \A k \in 1 .. (n - 1) : ~ tmp[ExitOrder[k]].there
        /\ tmp' = [tmp EXCEPT ![ExitOrder[n]] = NoWriter]
        /\ pc' = IF n = Len(ExitOrder) THEN "mark" ELSE pc
  BY DEF Finalize, Leaves
<1>2. pc = "finalize" /\ UNCHANGED <<checkpoint, stale, undeleted>>
  BY DEF Finalize, litterVars
<1>3. tmp' = [m \in Modality |-> tmp'[m]]
  BY <1>1 DEF LitterInv
<1>4. ~ NoWriter.there
  BY DEF NoWriter
<1>5. DOMAIN ExitOrder = 1 .. 3 /\ Len(ExitOrder) = 3
  BY DEF ExitOrder
<1>6. Modality = {ExitOrder[1], ExitOrder[2], ExitOrder[3]}
  BY DEF Modality, Modalities, ExitOrder, Range
<1>7. ASSUME n = 3, NEW m \in Modality
      PROVE  ~ tmp'[m].there
  <2>1. ExitOrder[1] # ExitOrder[3] /\ ExitOrder[2] # ExitOrder[3]
    BY DEF ExitOrder
  <2>2. ~ tmp[ExitOrder[1]].there /\ ~ tmp[ExitOrder[2]].there
    BY <1>1, <1>7
  <2>3. tmp'[ExitOrder[3]] = NoWriter
    BY <1>1, <1>6, <1>7 DEF LitterInv
  <2>4. tmp'[ExitOrder[1]] = tmp[ExitOrder[1]] /\ tmp'[ExitOrder[2]] = tmp[ExitOrder[2]]
    BY <1>1, <1>6, <1>7, <2>1 DEF LitterInv
  <2> QED
    BY <1>4, <1>6, <1>7, <2>2, <2>3, <2>4
<1>8. CASE n = 3
  BY <1>1, <1>2, <1>3, <1>5, <1>7, <1>8 DEF LitterInv, WritersOpen, Recorded
<1>9. CASE n # 3
  BY <1>1, <1>2, <1>3, <1>5, <1>9 DEF LitterInv, WritersOpen, Recorded
<1> QED
  BY <1>8, <1>9

\* A failed run removes its directories but for those an error leaves, a dead
\* one leaves them behind: with the checkpoint still at in_progress.
LEMMA EndLitter ==
    ASSUME LitterInv, FinalizeFails \/ Abort \/ SaveFailed \/ SaveCompleted \/ Crash
    PROVE  LitterInv'
<1> USE DEF litterVars
<1>1. ~ NoWriter.there
  BY DEF NoWriter
<1>2. CASE FinalizeFails \/ Abort
  <2>1. /\ pc \in {"finalize", "abort"} /\ UNCHANGED checkpoint
        /\ pc' = IF \E m \in Modality : tmp'[m].there THEN "abort" ELSE "fail"
    BY <1>2 DEF FinalizeFails, Abort
  <2>2. stale \subseteq undeleted
    BY <2>1 DEF LitterInv
  <2>3. \/ UNCHANGED <<stale, undeleted>>
        \/ \E n \in DOMAIN ExitOrder : LeaveDirectory(ExitOrder[n])
    BY <1>2 DEF FinalizeFails, Abort
  <2>4. stale' \subseteq undeleted'
    BY <2>2, <2>3 DEF LeaveDirectory
  <2>5. tmp' = [m \in Modality |-> tmp'[m]]
    <3>1. \E n \in DOMAIN ExitOrder : tmp' = [tmp EXCEPT ![ExitOrder[n]] = NoWriter]
      BY <1>2 DEF FinalizeFails, Abort, Leaves
    <3> QED
      BY <3>1 DEF LitterInv
  <2> QED
    BY <2>1, <2>4, <2>5 DEF LitterInv, WritersOpen, Recorded
<1>3. CASE SaveFailed
  BY <1>3 DEF SaveFailed, LitterInv, WritersOpen, Recorded
<1>4. CASE SaveCompleted
  BY <1>4 DEF SaveCompleted, LitterInv, WritersOpen, Recorded
<1>5. CASE Crash
  <2>1. /\ tmp' = [m \in Modality |-> NoWriter] /\ pc' = "idle" /\ UNCHANGED <<checkpoint, undeleted>>
        /\ stale' = stale \cup {m \in Modality : tmp[m].there}
    BY <1>5 DEF Crash
  <2>2. stale' \subseteq undeleted \/ checkpoint.status = "in_progress"
    BY <2>1 DEF LitterInv, Recorded
  <2> QED
    BY <1>1, <2>1, <2>2 DEF LitterInv, WritersOpen, Recorded
<1> QED
  BY <1>2, <1>3, <1>4, <1>5

LEMMA LitterNext == LitterInv /\ [SessionNext]_sessionVars => LitterInv'
<1> SUFFICES ASSUME LitterInv, [SessionNext]_sessionVars
             PROVE  LitterInv'
  OBVIOUS
<1>1. CASE ExtractNext
  BY <1>1, StartLitter, PrepareLitter, ReadingLitter, FinalizeLitter, EndLitter DEF ExtractNext
<1>2. CASE UNCHANGED extractVars
  BY <1>2 DEF extractVars, LitterInv
<1> QED
  BY <1>1, <1>2 DEF SessionNext, OpenReplay, PlayWindow, EndReplay, sessionVars

\* A session that run_session has marked completed or failed has no temporary
\* directory left, of its own run or of a process that died earlier, but for
\* those that a disk error kept from being renamed or removed: after a death
\* the checkpoint reads in_progress until a process has cleaned up and got
\* through, or failed in turn.
THEOREM SessionsLeaveNoLitter == SessionSpec => []NoLitter
<1>1. LitterInv => NoLitter
  BY DEF LitterInv, NoLitter
<1> QED
  BY <1>1, LitterInit, LitterNext, PTL DEF SessionSpec

-----------------------------------------------------------------------------
(* The output is in place before a session is marked. *)

Shaped(w) == w = [there |-> w.there, parts |-> w.parts, buffer |-> w.buffer]

\* The writers have their directories until finalize renames them, one by one.
StoredInv ==
    /\ LitterInv
    /\ checkpoint = [status |-> checkpoint.status, config |-> checkpoint.config]
    /\ final = [m \in Modality |-> final[m]]
    /\ \A m \in Modality : Shaped(tmp[m])
    /\ pc \in {"packets", "events"} => \A m \in Modality : tmp[m].there
    /\ pc = "finalize" => \A m \in Modality : tmp[m].there \/ final[m].there
    /\ pc = "mark" => InPlace

\* A session may be marked completed by this step only with its output there.
MarkedInPlace == checkpoint'.status = "completed" /\ checkpoint # checkpoint' => InPlace'

LEMMA WriteKeepsDirectory ==
    ASSUME NEW w, Shaped(w), NEW rows
    PROVE  Shaped(Write(w, rows)) /\ Write(w, rows).there = w.there
<1>1. PICK parts, buffer : Write(w, rows) = [w EXCEPT !.parts = parts, !.buffer = buffer]
  BY DEF Write
<1> QED
  BY <1>1 DEF Shaped

LEMMA StoredInit == SessionInit => StoredInv
BY LitterInit DEF SessionInit, ExtractInit, StoredInv, Shaped, NoWriter

\* The steps of a process before its writers are open, and after.
LEMMA OutsideStored ==
    ASSUME StoredInv, LitterInv',
           \/ \E c, force : Start(c, force)
           \/ CleanFinal \/ CleanStale \/ SaveInProgress \/ Open \/ OpenFails
           \/ FinalizeFails \/ Abort \/ SaveFailed \/ SaveCompleted \/ Crash
    PROVE  StoredInv' /\ MarkedInPlace
<1>1. /\ Shaped(NoWriter)
      /\ \A y : Shaped([NoWriter EXCEPT !.there = y])
      /\ [NoWriter EXCEPT !.there = TRUE].there
  <2>1. PICK no, p, q : NoWriter = [there |-> no, parts |-> p, buffer |-> q]
    BY Zenon DEF NoWriter
  <2>2. \A y : [NoWriter EXCEPT !.there = y] = [there |-> y, parts |-> p, buffer |-> q]
    BY <2>1
  <2>3. \A y : Shaped([NoWriter EXCEPT !.there = y]) /\ [NoWriter EXCEPT !.there = y].there = y
    BY <2>2 DEF Shaped
  <2>4. Shaped(NoWriter)
    BY <2>1 DEF Shaped
  <2> QED
    BY <2>3, <2>4
<1>2. ASSUME NEW c, NEW force, Start(c, force) PROVE StoredInv' /\ MarkedInPlace
  <2>1. UNCHANGED <<checkpoint, final, tmp>> /\ pc' \in {"idle", "save", "clean"}
    BY <1>2 DEF Start, diskVars, litterVars, DecideResume
  <2> QED
    BY <2>1 DEF StoredInv, MarkedInPlace
<1>3. CASE CleanFinal
  <2>1. UNCHANGED <<checkpoint, tmp, pc>> /\ pc = "clean"
    BY <1>3 DEF CleanFinal
  <2>2. \E m, d : final' = [final EXCEPT ![m] = d]
    BY <1>3 DEF CleanFinal
  <2>3. final' = [m \in Modality |-> final'[m]]
    BY <2>2 DEF StoredInv
  <2> QED
    BY <2>1, <2>3 DEF StoredInv, MarkedInPlace
<1>4. CASE CleanStale
  BY <1>4 DEF CleanStale, StoredInv, MarkedInPlace
<1>5. CASE SaveInProgress
  BY <1>5 DEF SaveInProgress, StoredInv, MarkedInPlace
<1>6. CASE Open
  <2>1. \A m \in Modality : tmp'[m] = [NoWriter EXCEPT !.there = TRUE]
    BY <1>6 DEF Open
  <2>2. UNCHANGED <<checkpoint, final>> /\ pc' = "packets"
    BY <1>6 DEF Open
  <2> QED
    BY <1>1, <2>1, <2>2 DEF StoredInv, MarkedInPlace
<1>7. CASE OpenFails \/ Crash
  <2>1. \A m \in Modality : tmp'[m] = NoWriter \/ \E y : tmp'[m] = [NoWriter EXCEPT !.there = y]
    BY <1>7 DEF OpenFails, Crash
  <2>2. UNCHANGED <<checkpoint, final>> /\ pc' \in {"abort", "fail", "idle"}
    BY <1>7 DEF OpenFails, Crash
  <2> QED
    BY <1>1, <2>1, <2>2 DEF StoredInv, MarkedInPlace
<1>10. CASE FinalizeFails \/ Abort
  <2>1. PICK n \in DOMAIN ExitOrder : tmp' = [tmp EXCEPT ![ExitOrder[n]] = NoWriter]
    BY <1>10 DEF FinalizeFails, Abort, Leaves
  <2>2. \A m \in Modality : tmp'[m] = NoWriter \/ tmp'[m] = tmp[m]
    BY <2>1 DEF StoredInv, LitterInv
  <2>3. UNCHANGED <<checkpoint, final>> /\ pc' \in {"abort", "fail"}
    BY <1>10 DEF FinalizeFails, Abort
  <2> QED
    BY <1>1, <2>2, <2>3 DEF StoredInv, MarkedInPlace
<1>8. CASE SaveFailed
  <2>1. UNCHANGED <<final, tmp>> /\ pc' = "idle" /\ checkpoint' = [checkpoint EXCEPT !.status = "failed"]
    BY <1>8 DEF SaveFailed
  <2>2. /\ checkpoint' = [status |-> checkpoint'.status, config |-> checkpoint'.config]
        /\ checkpoint'.status = "failed"
    BY <2>1 DEF StoredInv
  <2> QED
    BY <2>1, <2>2 DEF StoredInv, MarkedInPlace
<1>9. CASE SaveCompleted
  <2>1. /\ UNCHANGED <<final, tmp>> /\ pc = "mark" /\ pc' = "idle"
        /\ checkpoint' = [checkpoint EXCEPT !.status = "completed"]
    BY <1>9 DEF SaveCompleted
  <2>2. checkpoint' = [status |-> checkpoint'.status, config |-> checkpoint'.config]
    BY <2>1 DEF StoredInv
  <2>3. InPlace'
    BY <2>1 DEF StoredInv, InPlace
  <2> QED
    BY <2>1, <2>2, <2>3 DEF StoredInv, MarkedInPlace
<1> QED
  BY <1>2, <1>3, <1>4, <1>5, <1>6, <1>7, <1>8, <1>9, <1>10

\* The writers take rows and keep their directories.
LEMMA ReadingStored ==
    ASSUME StoredInv, LitterInv', ReadPacket \/ PacketsEnd \/ ReadEvent \/ EventsEnd \/ ReadFails
    PROVE  StoredInv' /\ MarkedInPlace
<1>1. UNCHANGED <<checkpoint, final>>
  BY DEF ReadPacket, PacketsEnd, ReadEvent, EventsEnd, ReadFails, diskVars
<1>2. \/ pc' = "abort"
      \/ (pc \in {"packets", "events"} /\ pc' \in {"packets", "events", "finalize"})
  BY DEF ReadPacket, PacketsEnd, ReadEvent, EventsEnd, ReadFails
<1>3. \/ tmp' = tmp
      \/ \E n, c : tmp' = [tmp EXCEPT !["network"] = Write(@, n), !["communication"] = Write(@, c)]
      \/ \E b : tmp' = [tmp EXCEPT !["behavior"] = Write(@, b)]
  <2>1. CASE ReadPacket
    BY <2>1 DEF ReadPacket
  <2>2. CASE PacketsEnd
    BY <2>2 DEF PacketsEnd
  <2>3. CASE ReadEvent
    BY <2>3 DEF ReadEvent
  <2>4. CASE EventsEnd
    BY <2>4 DEF EventsEnd
  <2>5. CASE ReadFails
    BY <2>5 DEF ReadFails, diskVars
  <2> QED
    BY <2>1, <2>2, <2>3, <2>4, <2>5
<1>4. tmp = [m \in Modality |-> tmp[m]]
  BY DEF StoredInv, LitterInv
<1>5. ASSUME NEW m \in Modality
      PROVE  tmp'[m] = tmp[m] \/ \E rows : tmp'[m] = Write(tmp[m], rows)
  BY <1>3, <1>4, <1>5
<1>6. \A m \in Modality : Shaped(tmp'[m]) /\ tmp'[m].there = tmp[m].there
  BY <1>5, WriteKeepsDirectory DEF StoredInv
<1>7. pc' \in {"packets", "events", "finalize"} => \A m \in Modality : tmp'[m].there
  BY <1>2, <1>6 DEF StoredInv
<1> QED
  BY <1>1, <1>2, <1>6, <1>7 DEF StoredInv, MarkedInPlace

\* The rename of one writer's directory; the last one leaves all three there.
LEMMA FinalizeStored ==
    ASSUME StoredInv, LitterInv', Finalize
    PROVE  StoredInv' /\ MarkedInPlace
<1>1. PICK n \in DOMAIN ExitOrder :
        /\ \A k \in 1 .. (n - 1) : ~ tmp[ExitOrder[k]].there
        /\ \E parts : final' = [final EXCEPT ![ExitOrder[n]] = [there |-> TRUE, parts |-> parts]]
        /\ tmp' = [tmp EXCEPT ![ExitOrder[n]] = NoWriter]
        /\ pc' = IF n = Len(ExitOrder) THEN "mark" ELSE pc
  BY DEF Finalize, Leaves
<1>2. pc = "finalize" /\ UNCHANGED checkpoint
  BY DEF Finalize
<1>3. /\ tmp = [m \in Modality |-> tmp[m]] /\ final = [m \in Modality |-> final[m]]
      /\ \A m \in Modality : Shaped(tmp[m]) /\ (tmp[m].there \/ final[m].there)
  BY <1>2 DEF StoredInv, LitterInv
<1>4. DOMAIN ExitOrder = 1 .. 3 /\ Len(ExitOrder) = 3
  BY DEF ExitOrder
<1>5. Modality = {ExitOrder[1], ExitOrder[2], ExitOrder[3]}
  BY DEF Modality, Modalities, ExitOrder, Range
<1>6. ExitOrder[n] \in Modality
  BY <1>4, <1>5
<1>7. ASSUME NEW m \in Modality
      PROVE  /\ m = ExitOrder[n] => tmp'[m] = NoWriter /\ final'[m].there
             /\ m # ExitOrder[n] => tmp'[m] = tmp[m] /\ final'[m] = final[m]
  <2>1. /\ m = ExitOrder[n] => tmp'[m] = NoWriter
        /\ m # ExitOrder[n] => tmp'[m] = tmp[m]
    BY <1>1, <1>3, <1>6, <1>7
  <2>2. PICK d : final' = [final EXCEPT ![ExitOrder[n]] = d] /\ d.there
    <3>1. PICK parts : final' = [final EXCEPT ![ExitOrder[n]] = [there |-> TRUE, parts |-> parts]]
      BY <1>1
    <3>2. [there |-> TRUE, parts |-> parts].there
      OBVIOUS
    <3> QED
      BY <3>1, <3>2
  <2>3. /\ m = ExitOrder[n] => final'[m] = d
        /\ m # ExitOrder[n] => final'[m] = final[m]
    BY <1>3, <1>6, <1>7, <2>2
  <2> QED
    BY <2>1, <2>2, <2>3
<1>8. Shaped(NoWriter)
  BY DEF Shaped, NoWriter
<1>9. \A m \in Modality : Shaped(tmp'[m]) /\ (tmp'[m].there \/ final'[m].there)
  BY <1>3, <1>7, <1>8
<1>10. ASSUME n = 3 PROVE InPlace'
  <2>1. ~ tmp[ExitOrder[1]].there /\ ~ tmp[ExitOrder[2]].there
    BY <1>1, <1>10
  <2>2. final[ExitOrder[1]].there /\ final[ExitOrder[2]].there
    BY <1>3, <1>5, <2>1
  <2> QED
    BY <1>5, <1>7, <1>10, <2>2 DEF InPlace
<1>11. final' = [m \in Modality |-> final'[m]]
  BY <1>1, <1>3
<1> QED
  BY <1>1, <1>2, <1>4, <1>9, <1>10, <1>11 DEF StoredInv, MarkedInPlace

LEMMA StoredNext ==
    ASSUME StoredInv, [SessionNext]_sessionVars
    PROVE  StoredInv' /\ MarkedInPlace
<1>1. LitterInv'
  BY LitterNext DEF StoredInv
<1>2. CASE ExtractNext
  BY <1>1, <1>2, OutsideStored, ReadingStored, FinalizeStored DEF ExtractNext
<1>3. CASE UNCHANGED extractVars
  BY <1>1, <1>3 DEF extractVars, StoredInv, InPlace, MarkedInPlace
<1> QED
  BY <1>2, <1>3 DEF SessionNext, OpenReplay, PlayWindow, EndReplay, sessionVars

\* run_session marks a session completed only when all three output
\* directories have been renamed into place, however often processes died
\* between two renames before: the first thing that MarkedWhenWhole asks for.
THEOREM MarkedOutputIsInPlace == SessionSpec => [][MarkedInPlace]_sessionVars
<1>1. StoredInv /\ [SessionNext]_sessionVars => StoredInv' /\ [MarkedInPlace]_sessionVars
  BY StoredNext
<1> QED
  BY <1>1, StoredInit, PTL DEF SessionSpec

-----------------------------------------------------------------------------
(* The merge of ReplayRunner.run. *)

\* A sequence of rows, by window.
Ascending(rows) ==
    /\ rows \in Seq(Range(rows))
    /\ \A i \in DOMAIN rows : rows[i].wid \in Int
    /\ \A i, j \in DOMAIN rows : i <= j => rows[i].wid <= rows[j].wid

\* What iter_sorted promises the runner about the streams it has read.
SorterSorts == \A m \in Modality : Ascending(IterSorted(source[m]))

\* The rows still to be drained are sorted, and of later windows than those
\* that have been played.
MergeInv ==
    /\ heads = [m \in Modality |-> heads[m]]
    /\ \A m \in Modality : Ascending(heads[m])
    /\ played \in Seq(Range(played))
    /\ \A n \in DOMAIN played : played[n].wid \in Int
    /\ \A n \in DOMAIN played, m \in Modality :
          \A i \in DOMAIN heads[m] : played[n].wid < heads[m][i].wid

\* The next window is later than all that have been played: the runner never
\* raises that its streams are out of order.
NextIsLater ==
    (\E m \in Modality : heads[m] # <<>>) =>
        \A n \in DOMAIN played :
            played[n].wid < Min({Head(heads[m]).wid : m \in {k \in Modality : heads[k] # <<>>}})

LEMMA LeastNumber ==
    ASSUME NEW S \in SUBSET Nat, S # {}
    PROVE  \E n \in S : \A q \in S : n <= q
<1>1. PICK n \in S : \A q \in S : ~ (<<q, n>> \in OpToRel(<, Nat))
  BY NatLessThanWellFounded, WFMin
<1>2. \A q \in S : ~ (q < n)
  BY <1>1 DEF OpToRel
<1> QED
  BY <1>2

\* Of the streams that are not drained, one has the lowest head.
LEMMA LowestStream ==
    ASSUME NEW T \in SUBSET Modality, T # {}, NEW f, \A m \in T : f[m] \in Int
    PROVE  \E m \in T : \A n \in T : f[m] <= f[n]
<1>1. Modality = {Modalities[1], Modalities[2], Modalities[3]}
  BY DEF Modality, Modalities, Range
<1>2. PICK a, b, c : Modality = {a, b, c}
  BY <1>1
<1> QED
  BY <1>2

\* A sorted stream that starts at window w or later is drained of exactly its
\* rows of w.
LEMMA DrainedRows ==
    ASSUME NEW rows, Ascending(rows), NEW w \in Int,
           \A i \in DOMAIN rows : w <= rows[i].wid
    PROVE  \E n \in 0 .. Len(rows) :
              /\ Drained(rows, w) = SubSeq(rows, 1, n)
              /\ \A i \in 1 .. n : rows[i].wid = w
              /\ \A i \in (n + 1) .. Len(rows) : w < rows[i].wid
<1>1. Len(rows) \in Nat /\ DOMAIN rows = 1 .. Len(rows)
  BY DEF Ascending
<1> DEFINE Stops(k) == /\ \A i \in 1 .. k : rows[i].wid = w
                       /\ k < Len(rows) => rows[k + 1].wid # w
<1>2. \E k \in 0 .. Len(rows) : Stops(k)
  <2>1. CASE \A i \in 1 .. Len(rows) : rows[i].wid = w
    BY <1>1, <2>1
  <2>2. CASE ~ \A i \in 1 .. Len(rows) : rows[i].wid = w
    <3>1. PICK S : S = {i \in 1 .. Len(rows) : rows[i].wid # w}
      OBVIOUS
    <3>2. S \in SUBSET Nat /\ S # {}
      BY <1>1, <2>2, <3>1
    <3>3. PICK k \in S : \A q \in S : k <= q
      BY <3>2, LeastNumber
    <3>4. k - 1 \in 0 .. Len(rows) /\ k \in 1 .. Len(rows) /\ rows[k].wid # w
      BY <1>1, <3>1, <3>3
    <3>5. \A i \in 1 .. (k - 1) : rows[i].wid = w
      BY <1>1, <3>1, <3>3, <3>4
    <3>6. (k - 1) + 1 = k
      BY <3>4
    <3>7. Stops(k - 1)
      BY <3>4, <3>5, <3>6
    <3> QED
      BY <3>4, <3>7
  <2> QED
    BY <2>1, <2>2
<1>3. PICK n : n = CHOOSE k \in 0 .. Len(rows) : Stops(k)
  OBVIOUS
<1>4. n \in 0 .. Len(rows) /\ Stops(n)
  BY <1>2, <1>3
<1>5. Drained(rows, w) = SubSeq(rows, 1, n)
  BY <1>3 DEF Drained
<1>6. ASSUME NEW i \in (n + 1) .. Len(rows)
      PROVE  w < rows[i].wid
  <2>1. n + 1 \in 1 .. Len(rows) /\ i \in 1 .. Len(rows) /\ n + 1 <= i /\ n < Len(rows)
    BY <1>1, <1>4, <1>6
  <2>2. rows[n + 1].wid # w
    BY <1>4, <2>1
  <2>3. rows[n + 1].wid <= rows[i].wid /\ rows[n + 1].wid \in Int /\ rows[i].wid \in Int
    BY <1>1, <2>1 DEF Ascending
  <2>4. w <= rows[n + 1].wid
    BY <1>1, <2>1
  <2> QED
    BY <2>2, <2>3, <2>4
<1> QED
  BY <1>4, <1>5, <1>6

\* What is left of a sorted stream is sorted.
LEMMA RestAscends ==
    ASSUME NEW rows, Ascending(rows), NEW n \in 0 .. Len(rows)
    PROVE  /\ Ascending(SubSeq(rows, n + 1, Len(rows)))
           /\ \A i \in DOMAIN SubSeq(rows, n + 1, Len(rows)) :
                 \E j \in (n + 1) .. Len(rows) : SubSeq(rows, n + 1, Len(rows))[i] = rows[j]
           /\ Len(SubSeq(rows, 1, n)) = n
           /\ DOMAIN SubSeq(rows, 1, n) = 1 .. n
           /\ \A i \in 1 .. n : SubSeq(rows, 1, n)[i] = rows[i]
<1>1. /\ Len(rows) \in Nat /\ DOMAIN rows = 1 .. Len(rows)
      /\ \A i \in 1 .. Len(rows) : rows[i] \in Range(rows)
  BY DEF Ascending, Range
<1>2. PICK rest : rest = SubSeq(rows, n + 1, Len(rows))
  OBVIOUS
<1>3. n \in Nat /\ n <= Len(rows)
  BY <1>1
<1>4. /\ rest \in Seq(Range(rows)) /\ Len(rest) = Len(rows) - n
      /\ \A i \in 1 .. (Len(rows) - n) : rest[i] = rows[n + i]
  <2>1. \A i \in (n + 1) .. Len(rows) : rows[i] \in Range(rows)
    BY <1>1, <1>3
  <2>2. n + 1 \in Int /\ Len(rows) \in Int
    BY <1>1, <1>3
  <2>3. /\ rest \in Seq(Range(rows))
        /\ Len(rest) = IF n + 1 <= Len(rows) THEN Len(rows) - (n + 1) + 1 ELSE 0
        /\ \A i \in 1 .. Len(rows) - (n + 1) + 1 : rest[i] = rows[(n + 1) + i - 1]
    BY <1>2, <2>1, <2>2, SubSeqProperties
  <2>4. \A l \in Nat : l - (n + 1) + 1 = l - n /\ (n <= l => n + 1 <= l \/ l - n = 0)
    BY <1>3
  <2>5. \A i \in 1 .. (Len(rows) - n) : (n + 1) + i - 1 = n + i
    BY <1>1, <1>3
  <2> QED
    BY <1>1, <1>3, <2>3, <2>4, <2>5
<1>5. DOMAIN rest = 1 .. (Len(rows) - n)
  BY <1>4
<1>6. rest \in Seq(Range(rest))
  <2>1. \A i \in 1 .. Len(rest) : rest[i] \in Range(rest)
    BY <1>4, <1>5 DEF Range
  <2> QED
    BY <1>4, <2>1
<1>7. \A i \in DOMAIN rest : n + i \in (n + 1) .. Len(rows) /\ n + i \in DOMAIN rows /\ rest[i] = rows[n + i]
  BY <1>1, <1>3, <1>4, <1>5
<1>8. \A i, j \in DOMAIN rest : i <= j => n + i <= n + j
  BY <1>3, <1>5
<1>9. Ascending(rest)
  BY <1>6, <1>7, <1>8 DEF Ascending
<1>10. Len(SubSeq(rows, 1, n)) = n /\ \A i \in 1 .. n : SubSeq(rows, 1, n)[i] = rows[i]
  BY <1>1, <1>3, SubSeqProperties
<1>11. DOMAIN SubSeq(rows, 1, n) = 1 .. n
  <2>1. \A i \in 1 .. n : rows[i] \in Range(rows)
    BY <1>1, <1>3
  <2>2. SubSeq(rows, 1, n) \in Seq(Range(rows))
    BY <1>3, <2>1, SubSeqProperties
  <2> QED
    BY <1>10, <2>2
<1> QED
  BY <1>2, <1>7, <1>9, <1>10, <1>11

LEMMA MergeInit == SessionInit /\ SorterSorts => MergeInv /\ WindowsInOrder
<1> SUFFICES ASSUME SessionInit
             PROVE  MergeInv /\ WindowsInOrder
  OBVIOUS
<1>1. heads = [m \in Modality |-> <<>>] /\ played = <<>>
  BY DEF SessionInit, PlayInit, NoRows
<1>2. Ascending(<<>>)
  BY DEF Ascending, Range
<1> QED
  BY <1>1, <1>2 DEF MergeInv, WindowsInOrder, Range

\* The streams of a new replay are sorted, and nothing has been played.
LEMMA OpenMerge ==
    ASSUME MergeInv, SorterSorts', OpenReplay
    PROVE  MergeInv' /\ WindowsInOrder'
<1>1. /\ played' = <<>>
      /\ heads' = [m \in Modality |-> IterSorted(source'[m])]
  BY DEF OpenReplay
<1>2. \A m \in Modality : Ascending(heads'[m])
  BY <1>1 DEF SorterSorts
<1> QED
  BY <1>1, <1>2 DEF MergeInv, WindowsInOrder, Range

\* The window of a round is the lowest at any head, and later than all that
\* have been played.
LEMMA RoundWindow ==
    ASSUME MergeInv, NEW w,
           w = Min({Head(heads[m]).wid : m \in {n \in Modality : heads[n] # <<>>}}),
           \E m \in Modality : heads[m] # <<>>
    PROVE  /\ w \in Int
           /\ \A m \in Modality : \A i \in DOMAIN heads[m] : w <= heads[m][i].wid
           /\ \A n \in DOMAIN played : played[n].wid < w
<1>1. PICK T : T = {n \in Modality : heads[n] # <<>>}
  OBVIOUS
<1>2. PICK f : f = [m \in Modality |-> heads[m][1].wid]
  OBVIOUS
<1>3. ASSUME NEW m \in T
      PROVE  /\ 1 \in DOMAIN heads[m] /\ Head(heads[m]) = heads[m][1]
             /\ f[m] = Head(heads[m]).wid /\ f[m] \in Int
  <2>1. heads[m] \in Seq(Range(heads[m])) /\ heads[m] # <<>> /\ m \in Modality
    BY <1>1 DEF MergeInv, Ascending
  <2>2. 1 \in DOMAIN heads[m] /\ Head(heads[m]) = heads[m][1]
    BY <2>1
  <2> QED
    BY <1>2, <2>1, <2>2 DEF MergeInv, Ascending
<1>4. PICK l \in T : \A n \in T : f[l] <= f[n]
  <2>1. T \in SUBSET Modality /\ T # {}
    BY <1>1
  <2>2. \A m \in T : f[m] \in Int
    BY <1>3
  <2> QED
    BY <2>1, <2>2, LowestStream
<1>5. PICK H : H = {Head(heads[m]).wid : m \in T}
  OBVIOUS
<1>6. f[l] \in H /\ \A y \in H : f[l] <= y
  BY <1>3, <1>4, <1>5
<1>7. w \in H /\ \A y \in H : w <= y
  BY <1>1, <1>5, <1>6 DEF Min
<1>8. w \in Int
  BY <1>3, <1>5, <1>7
<1>9. ASSUME NEW m \in Modality, NEW i \in DOMAIN heads[m]
      PROVE  w <= heads[m][i].wid
  <2>1. heads[m] # <<>>
    BY <1>9
  <2>2. m \in T
    BY <1>1, <2>1
  <2>3. w <= heads[m][1].wid /\ heads[m][1].wid \in Int /\ 1 \in DOMAIN heads[m]
    BY <1>2, <1>3, <1>5, <1>7, <2>2
  <2>4. DOMAIN heads[m] = 1 .. Len(heads[m]) /\ Len(heads[m]) \in Nat
    BY DEF MergeInv, Ascending
  <2>5. 1 <= i
    BY <2>4
  <2>6. heads[m][1].wid <= heads[m][i].wid /\ heads[m][i].wid \in Int
    BY <2>3, <2>5 DEF MergeInv, Ascending
  <2> QED
    BY <1>8, <2>3, <2>6
<1>10. ASSUME NEW n \in DOMAIN played
       PROVE  played[n].wid < w
  <2>1. PICK m \in T : w = Head(heads[m]).wid
    BY <1>5, <1>7
  <2> QED
    BY <1>1, <1>3, <2>1 DEF MergeInv
<1> QED
  BY <1>8, <1>9, <1>10

LEMMA PlayMerge ==
    ASSUME MergeInv, WindowsInOrder, PlayWindow
    PROVE  MergeInv' /\ WindowsInOrder'
<1>1. PICK w : w = Min({Head(heads[m]).wid : m \in {n \in Modality : heads[n] # <<>>}})
  OBVIOUS
<1>2. PICK rows : rows = [m \in Modality |-> Drained(heads[m], w)]
  OBVIOUS
<1>3. PICK e : e = [wid |-> w, rows |-> rows]
  OBVIOUS
<1>4. /\ heads' = [m \in Modality |-> SubSeq(heads[m], Len(rows[m]) + 1, Len(heads[m]))]
      /\ played' = Append(played, e)
  BY <1>1, <1>2, <1>3 DEF PlayWindow
<1>5. /\ w \in Int
      /\ \A m \in Modality : \A i \in DOMAIN heads[m] : w <= heads[m][i].wid
      /\ \A n \in DOMAIN played : played[n].wid < w
  BY <1>1, RoundWindow DEF PlayWindow
<1>6. ASSUME NEW m \in Modality
      PROVE  /\ Ascending(heads'[m])
             /\ \A i \in DOMAIN heads'[m] :
                   w < heads'[m][i].wid /\ \E j \in DOMAIN heads[m] : heads'[m][i] = heads[m][j]
             /\ \A i \in DOMAIN rows[m] : rows[m][i].wid = w
  <2>1. PICK s : s = heads[m]
    OBVIOUS
  <2>2. Ascending(s) /\ Len(s) \in Nat /\ DOMAIN s = 1 .. Len(s)
    BY <2>1 DEF MergeInv, Ascending
  <2>3. PICK n \in 0 .. Len(s) :
              /\ Drained(s, w) = SubSeq(s, 1, n)
              /\ \A i \in 1 .. n : s[i].wid = w
              /\ \A i \in (n + 1) .. Len(s) : w < s[i].wid
    BY <1>5, <2>1, <2>2, DrainedRows
  <2>4. PICK rest : rest = SubSeq(s, n + 1, Len(s))
    OBVIOUS
  <2>5. /\ Ascending(rest)
        /\ \A i \in DOMAIN rest : \E j \in (n + 1) .. Len(s) : rest[i] = s[j]
        /\ Len(SubSeq(s, 1, n)) = n
        /\ DOMAIN SubSeq(s, 1, n) = 1 .. n
        /\ \A i \in 1 .. n : SubSeq(s, 1, n)[i] = s[i]
    BY <2>2, <2>4, RestAscends
  <2>6. rows[m] = SubSeq(s, 1, n)
    BY <1>2, <2>1, <2>3
  <2>7. heads'[m] = rest
    BY <1>4, <2>1, <2>4, <2>5, <2>6
  <2>8. \A j \in (n + 1) .. Len(s) : j \in DOMAIN s
    BY <2>2
  <2> QED
    BY <2>1, <2>3, <2>5, <2>6, <2>7, <2>8
<1>7. PICK l : l = Len(played)
  OBVIOUS
<1>8. /\ l \in Nat /\ DOMAIN played = 1 .. l
      /\ DOMAIN played' = 1 .. (l + 1)
      /\ \A n \in 1 .. l : played'[n] = played[n]
      /\ played'[l + 1] = e
      /\ played' \in Seq(Range(played'))
  <2>1. played \in Seq(Range(played) \cup {e}) /\ e \in Range(played) \cup {e}
    BY SeqMonotonic DEF MergeInv
  <2>2. /\ played' \in Seq(Range(played) \cup {e})
        /\ Len(played') = l + 1
        /\ \A n \in 1 .. l : played'[n] = played[n]
        /\ played'[l + 1] = e
    BY <1>4, <1>7, <2>1, AppendProperties
  <2>3. l \in Nat /\ DOMAIN played = 1 .. l /\ DOMAIN played' = 1 .. (l + 1)
    BY <1>7, <2>1, <2>2
  <2>4. \A n \in 1 .. Len(played') : played'[n] \in Range(played')
    BY <2>2, <2>3 DEF Range
  <2>5. played' \in Seq(Range(played'))
    BY <2>2, <2>4
  <2> QED
    BY <2>2, <2>3, <2>5
<1>9. e.wid = w /\ e.rows = rows
  BY <1>3
<1>10. \A n \in DOMAIN played' : \/ (n \in DOMAIN played /\ n # l + 1 /\ played'[n] = played[n])
                                 \/ (n = l + 1 /\ played'[n] = e)
  BY <1>8
<1>11. \A n \in DOMAIN played' : played'[n].wid \in Int /\ played'[n].wid <= w
  BY <1>5, <1>9, <1>10 DEF MergeInv
<1>12. MergeInv'
  <2>1. heads' = [m \in Modality |-> heads'[m]]
    BY <1>4
  <2>2. ASSUME NEW n \in DOMAIN played', NEW m \in Modality, NEW i \in DOMAIN heads'[m]
        PROVE  played'[n].wid < heads'[m][i].wid
    <3>1. w < heads'[m][i].wid /\ heads'[m][i].wid \in Int
      BY <1>6, <2>2 DEF Ascending
    <3> QED
      BY <1>5, <1>11, <2>2, <3>1
  <2> QED
    BY <1>6, <1>8, <1>11, <2>1, <2>2 DEF MergeInv
<1>13. ASSUME NEW i \in DOMAIN played', NEW j \in DOMAIN played', i < j
       PROVE  played'[i].wid < played'[j].wid
  <2>1. i \in DOMAIN played /\ played'[i] = played[i]
    BY <1>8, <1>10, <1>13
  <2>2. CASE j = l + 1
    BY <1>5, <1>8, <1>9, <2>1, <2>2
  <2>3. CASE j # l + 1
    BY <1>10, <1>13, <2>1, <2>3 DEF WindowsInOrder
  <2> QED
    BY <2>2, <2>3
<1>14. ASSUME NEW n \in DOMAIN played', NEW m \in Modality, NEW i \in DOMAIN played'[n].rows[m]
       PROVE  played'[n].rows[m][i].wid = played'[n].wid
  <2>1. CASE played'[n] = e
    BY <1>6, <1>9, <1>14, <2>1
  <2>2. CASE n \in DOMAIN played /\ played'[n] = played[n]
    BY <1>14, <2>2 DEF WindowsInOrder
  <2> QED
    BY <1>10, <2>1, <2>2
<1> QED
  BY <1>12, <1>13, <1>14 DEF WindowsInOrder

\* ReplayRunner.run plays windows in strictly ascending order and every row in
\* its own window, whatever rows the three streams hold and however they
\* overlap, if WindowSorter gives it each stream sorted: the merge needs no
\* more of the sorter, and the check that its windows do not go back never
\* raises.
THEOREM ReplaysInOrder ==
    SessionSpec /\ []SorterSorts => []WindowsInOrder /\ []NextIsLater
<1>1. ASSUME MergeInv, WindowsInOrder, SorterSorts', [SessionNext]_sessionVars
      PROVE  MergeInv' /\ WindowsInOrder'
  <2>1. ASSUME UNCHANGED <<heads, played>>
        PROVE  MergeInv' /\ WindowsInOrder'
    BY <1>1, <2>1 DEF MergeInv, WindowsInOrder
  <2>2. CASE UNCHANGED playVars
    BY <2>1, <2>2 DEF playVars
  <2>3. CASE OpenReplay
    BY <1>1, <2>3, OpenMerge
  <2>4. CASE PlayWindow
    BY <1>1, <2>4, PlayMerge
  <2>5. CASE EndReplay
    BY <2>1, <2>5 DEF EndReplay
  <2> QED
    BY <1>1, <2>2, <2>3, <2>4, <2>5 DEF SessionNext, sessionVars
<1>2. MergeInv /\ WindowsInOrder /\ SorterSorts' /\ [SessionNext]_sessionVars
          => MergeInv' /\ WindowsInOrder'
  BY <1>1
<1>3. MergeInv => NextIsLater
  BY RoundWindow DEF NextIsLater
<1> QED
  BY <1>2, <1>3, MergeInit, PTL DEF SessionSpec
=============================================================================
