------------------------------ MODULE DPWaves ------------------------------
(* Data parallel waves (vllm/v1/engine): the engines of a data parallel      *)
(* mixture-of-experts deployment (DPEngineCoreProc, core.py) run every       *)
(* forward pass together, so an engine without requests runs dummy passes    *)
(* while another one has work.  A wave is a period in which they run.  The   *)
(* API servers (DPAsyncMPClient, core_client.py) and the coordinator         *)
(* (DPCoordinatorProc, coordinator.py) wake the engines for a new wave, and  *)
(* an all-reduce every SyncInterval steps lets all of them stop at once.     *)
(*                                                                           *)
(* A message in a channel may not have arrived yet: an engine handles what   *)
(* has arrived and goes on with its step (_process_input_queue).  Request    *)
(* counts for load balancing, elastic scaling and shutdown are left out; the *)
(* engine of a request is any of them.                                       *)
EXTENDS Integers, Sequences, FiniteSetsExt

CONSTANTS NumEngines, Clients, Requests,
          ClientOf,       \* the API server that receives the request
          Steps,          \* the passes a request takes before it is finished
          SyncInterval,   \* 32 in the code
          Admin,          \* the API server that pauses and resumes
          MaxPauses,      \* bound on the calls of pause_generation
          Settings        \* the requests sent, the ones aborted, the pauses used

ASSUME DPConstants ==
    /\ NumEngines \in Nat \ {0}
    /\ SyncInterval \in Nat \ {0}
    /\ MaxPauses \in Nat
    /\ Admin \in Clients
    /\ ClientOf \in [Requests -> Clients]
    /\ Steps \in [Requests -> Nat \ {0}]

VARIABLES
    setting,
    \* DPAsyncMPClient
    client,             \* current_wave, engines_running, last state received
    first_reqs,         \* FIRST_REQ messages to the stats update task
    chosen_engine, num_pauses, aborted,
    \* channels
    input_q,            \* API server -> engine
    front_q,            \* API server -> coordinator
    published,          \* coordinator -> API servers: all states so far
    start_q,            \* coordinator -> engine, START_DP_WAVE
    output_q,           \* engine -> coordinator
    \* DPCoordinatorProc
    coordinator,        \* current_wave and engines_running
    \* DPEngineCoreProc
    pc, engines_running, current_wave, step_counter, executed, pause_state,
    \* the scheduler's view of a request
    status, steps_left

clientVars == <<setting, client, first_reqs, chosen_engine, num_pauses, aborted>>
coordVars  == <<coordinator, published>>
loopVars   == <<pc, step_counter, executed>>
waveVars   == <<engines_running, current_wave>>
reqVars    == <<status, steps_left>>
channels   == <<input_q, front_q, start_q, output_q>>
vars == <<clientVars, coordVars, loopVars, waveVars, pause_state, reqVars, channels>>

Engines == 0..(NumEngines - 1)
Modes == {"keep", "abort", "wait"}

WaveState(wave, running) == [wave |-> wave, running |-> running]

(* An engine is named by its identity, which is bytes, in the messages of    *)
(* the API servers and by its index in the messages of the engines.          *)
Identity(e) == <<"bytes", e>>
Index(e)    == <<"int", e>>
Nobody      == <<"None", 0>>

DPInit ==
    /\ setting \in Settings
    /\ client = [c \in Clients |-> [wave |-> 0, running |-> FALSE, seen |-> 1]]
    /\ first_reqs = [c \in Clients |-> <<>>]
    /\ chosen_engine = [r \in Requests |-> 0]
    /\ num_pauses = 0
    /\ aborted = {}
    /\ input_q = [c \in Clients |-> [e \in Engines |-> <<>>]]
    /\ front_q = [c \in Clients |-> <<>>]
    /\ published = <<WaveState(0, FALSE)>>
    /\ start_q = [e \in Engines |-> <<>>]
    /\ output_q = [e \in Engines |-> <<>>]
    /\ coordinator = WaveState(0, FALSE)
    /\ pc = [e \in Engines |-> "input"]
    /\ engines_running = [e \in Engines |-> FALSE]
    /\ current_wave = [e \in Engines |-> 0]
    /\ step_counter = [e \in Engines |-> 0]
    /\ executed = [e \in Engines |-> FALSE]
    /\ pause_state = [e \in Engines |-> "UNPAUSED"]
    /\ status = [r \in Requests |-> "new"]
    /\ steps_left = Steps

-----------------------------------------------------------------------------
(* API server.                                                               *)

SendAll(msg) ==
    input_q' = [input_q EXCEPT ![Admin] = [e \in Engines |-> Append(@[e], msg)]]

(* The stats update task keeps the latest state of the coordinator that has  *)
(* arrived.  The coordinator publishes its state when it changes and from    *)
(* time to time, so the last one seen may arrive again.  Nothing but the     *)
(* next operation of the API server depends on it, so it is received there:  *)
(* n = 0 when nothing has arrived.                                           *)
Published(c) == {0} \cup (client[c].seen..Len(published))

View(c, n) == IF n = 0 THEN client[c] ELSE published[n]

Receive(c, n, running) ==
    client' = [client EXCEPT ![c] = [wave |-> View(c, n).wave, running |-> running,
                                     seen |-> IF n = 0 THEN @.seen ELSE n]]

(* The request carries the wave this API server knows of; FIRST_REQ makes    *)
(* the stats update task tell the coordinator.                               *)
AddRequest(c, r, e) ==
    /\ r \in setting.requests
    /\ ClientOf[r] = c
    /\ status[r] = "new"
    /\ \E n \in Published(c) :
          LET view == View(c, n) IN
          /\ Receive(c, n, view.running)
          /\ input_q' = [input_q EXCEPT ![c][e] =
                            Append(@, [type |-> "ADD", req |-> r, wave |-> view.wave])]
          /\ first_reqs' = IF view.running THEN first_reqs
                           ELSE [first_reqs EXCEPT ![c] = Append(@, e)]
    /\ chosen_engine' = [chosen_engine EXCEPT ![r] = e]
    /\ status' = [status EXCEPT ![r] = "sent"]
    /\ UNCHANGED <<setting, num_pauses, aborted, front_q, start_q, output_q,
                   coordVars, loopVars, waveVars, pause_state, steps_left>>

AbortRequests(c, r) ==
    /\ r \in setting.aborts
    /\ ClientOf[r] = c
    /\ status[r] \notin {"new", "done"}
    /\ r \notin aborted
    /\ aborted' = aborted \cup {r}
    /\ input_q' = [input_q EXCEPT ![c][chosen_engine[r]] =
                      Append(@, [type |-> "ABORT", req |-> r])]
    /\ UNCHANGED <<setting, client, first_reqs, chosen_engine, num_pauses, front_q,
                   start_q, output_q, coordVars, loopVars, waveVars, pause_state,
                   reqVars>>

(* pause_generation and resume_generation call the utility of every engine.  *)
(* The calls are counted: an odd number of them leaves the engines paused.   *)
Paused == num_pauses % 2 = 1

PauseGeneration(mode) ==
    /\ mode \in setting.modes
    /\ ~Paused
    /\ num_pauses < 2 * MaxPauses
    /\ num_pauses' = num_pauses + 1
    /\ SendAll([type |-> "PAUSE", mode |-> mode])
    /\ UNCHANGED <<setting, client, first_reqs, chosen_engine, aborted, front_q,
                   start_q, output_q, coordVars, loopVars, waveVars, pause_state,
                   reqVars>>

ResumeGeneration ==
    /\ Paused
    /\ num_pauses' = num_pauses + 1
    /\ SendAll([type |-> "RESUME"])
    /\ UNCHANGED <<setting, client, first_reqs, chosen_engine, aborted, front_q,
                   start_q, output_q, coordVars, loopVars, waveVars, pause_state,
                   reqVars>>

SendFirstReq(c) ==
    /\ first_reqs[c] # <<>>
    /\ first_reqs' = [first_reqs EXCEPT ![c] = Tail(@)]
    /\ \E n \in Published(c) :
          /\ Receive(c, n, TRUE)
          /\ front_q' = [front_q EXCEPT ![c] =
                Append(@, [engine |-> Identity(Head(first_reqs[c])), wave |-> View(c, n).wave])]
    /\ UNCHANGED <<setting, chosen_engine, num_pauses, aborted, input_q, start_q,
                   output_q, coordVars, loopVars, waveVars, pause_state, reqVars>>

-----------------------------------------------------------------------------
(* Coordinator.                                                              *)

SetWave(wave, running) ==
    /\ coordinator' = WaveState(wave, running)
    /\ published' = Append(published, WaveState(wave, running))

SendStartWave(wave, exclude) ==
    start_q' = [e \in Engines |->
                   Append(start_q[e], [wave |-> wave, exclude |-> exclude])]

(* A request was sent while the engines were paused.                         *)
FrontEndMessage(c) ==
    /\ front_q[c] # <<>>
    /\ front_q' = [front_q EXCEPT ![c] = Tail(@)]
    /\ IF coordinator.running
       THEN UNCHANGED <<coordVars, start_q>>
       ELSE LET msg == Head(front_q[c]) IN
            /\ SetWave(coordinator.wave, TRUE)
            /\ SendStartWave(coordinator.wave,
                             IF msg.wave < coordinator.wave THEN Nobody ELSE msg.engine)
    /\ UNCHANGED <<clientVars, loopVars, waveVars, pause_state, reqVars, input_q,
                   output_q>>

BugWaveComplete(wave) ==
    /\ IF coordinator.wave < wave THEN SetWave(wave + 1, FALSE) ELSE UNCHANGED coordVars
    /\ UNCHANGED start_q

WaveComplete(wave) ==
    /\ IF coordinator.wave <= wave THEN SetWave(wave + 1, FALSE)
                                   ELSE UNCHANGED coordVars
    /\ UNCHANGED start_q

BugStartWave(e, wave) ==
    IF wave > coordinator.wave
    THEN SetWave(wave, TRUE) /\ SendStartWave(wave, Index(e))
    ELSE UNCHANGED <<coordVars, start_q>>

StartWave(e, wave) ==
    IF \/ wave > coordinator.wave
       \/ wave = coordinator.wave /\ ~coordinator.running
    THEN SetWave(wave, TRUE) /\ SendStartWave(wave, Index(e))
    ELSE UNCHANGED <<coordVars, start_q>>

EngineMessage(e) ==
    /\ output_q[e] # <<>>
    /\ output_q' = [output_q EXCEPT ![e] = Tail(@)]
    /\ LET msg == Head(output_q[e]) IN
       \/ msg.type = "wave_complete" /\ WaveComplete(msg.wave)
       \/ msg.type = "start_wave" /\ StartWave(e, msg.wave)
    /\ UNCHANGED <<clientVars, loopVars, waveVars, pause_state, reqVars, input_q,
                   front_q>>

-----------------------------------------------------------------------------
(* Engine.                                                                   *)

Local(e, states) == {r \in Requests : chosen_engine[r] = e /\ status[r] \in states}

(* The statuses of the requests the scheduler would run (in schedule() and   *)
(* get_num_unfinished_requests()).                                           *)
Schedulable(e) ==
    CASE pause_state[e] = "UNPAUSED"   -> {"waiting", "running"}
      [] pause_state[e] = "PAUSED_NEW" -> {"running"}
      [] pause_state[e] = "PAUSED_ALL" -> {}

HasUnfinished(e) == Local(e, Schedulable(e)) # {}

HasWork(e) == engines_running[e] \/ HasUnfinished(e)

NotifyStartWave(e) ==
    output_q' = [output_q EXCEPT ![e] =
                    Append(@, [type |-> "start_wave", wave |-> current_wave[e]])]

Add(e, r, wave) ==
    /\ status' = [status EXCEPT ![r] = "waiting"]
    /\ UNCHANGED pause_state
    /\ IF wave > current_wave[e]
       THEN /\ current_wave' = [current_wave EXCEPT ![e] = wave]
            /\ UNCHANGED <<engines_running, output_q>>
       ELSE IF wave < current_wave[e] /\ ~engines_running[e] /\ pause_state[e] = "UNPAUSED"
       THEN /\ engines_running' = [engines_running EXCEPT ![e] = TRUE]
            /\ NotifyStartWave(e)
            /\ UNCHANGED current_wave
       ELSE UNCHANGED <<waveVars, output_q>>

(* Requests that are finished already are ignored.                           *)
Finished(reqs) == [r \in Requests |-> IF r \in reqs THEN "done" ELSE status[r]]

Abort(e, r) ==
    /\ status' = Finished({r} \cap Local(e, {"waiting", "running"}))
    /\ UNCHANGED <<waveVars, pause_state, output_q>>

PauseScheduler(e, mode) ==
    /\ status' = IF mode = "abort" THEN Finished(Local(e, {"waiting", "running"}))
                                   ELSE status
    /\ pause_state' = [pause_state EXCEPT ![e] =
                          IF mode = "keep" THEN "PAUSED_ALL" ELSE "PAUSED_NEW"]
    /\ UNCHANGED <<waveVars, output_q>>

ResumeScheduler(e) ==
    /\ pause_state' = [pause_state EXCEPT ![e] = "UNPAUSED"]
    /\ IF ~engines_running[e] /\ Local(e, {"waiting", "running"}) # {}
       THEN NotifyStartWave(e)
       ELSE UNCHANGED output_q
    /\ UNCHANGED <<waveVars, status>>

HandleClientRequest(c, e) ==
    /\ pc[e] = "input"
    /\ input_q[c][e] # <<>>
    /\ input_q' = [input_q EXCEPT ![c][e] = Tail(@)]
    /\ LET msg == Head(input_q[c][e]) IN
       \/ msg.type = "ADD" /\ Add(e, msg.req, msg.wave)
       \/ msg.type = "ABORT" /\ Abort(e, msg.req)
       \/ msg.type = "PAUSE" /\ PauseScheduler(e, msg.mode)
       \/ msg.type = "RESUME" /\ ResumeScheduler(e)
    /\ UNCHANGED <<clientVars, coordVars, loopVars, steps_left, front_q, start_q>>

BugExcluded(e, exclude) == exclude # Nobody /\ exclude[2] = e

(* The engine the message leaves out is compared with the engine's index.    *)
Excluded(e, exclude) == exclude = Index(e)

StartDPWave(e) ==
    /\ pc[e] = "input"
    /\ start_q[e] # <<>>
    /\ start_q' = [start_q EXCEPT ![e] = Tail(@)]
    /\ LET msg == Head(start_q[e]) IN
       IF ~Excluded(e, msg.exclude) /\ msg.wave >= current_wave[e]
       THEN /\ current_wave' = [current_wave EXCEPT ![e] = msg.wave]
            /\ engines_running' = [engines_running EXCEPT ![e] = TRUE]
       ELSE UNCHANGED waveVars
    /\ UNCHANGED <<clientVars, coordVars, loopVars, pause_state, reqVars, input_q,
                   front_q, output_q>>

(* The scheduler runs what it may, and without any such request the engine   *)
(* runs a dummy batch.  A step that only clears finished requests runs no    *)
(* pass and is left out.                                                     *)
ProcessEngineStep(e) ==
    /\ pc[e] = "input"
    /\ HasWork(e)
    /\ pc' = [pc EXCEPT ![e] = "forward"]
    /\ executed' = [executed EXCEPT ![e] = HasUnfinished(e)]
    /\ status' = [r \in Requests |-> IF r \in Local(e, Schedulable(e)) THEN "running"
                                                                      ELSE status[r]]
    /\ UNCHANGED <<clientVars, coordVars, step_counter, waveVars, pause_state,
                   steps_left, channels>>

(* Aborts that arrived during the pass are applied at once                   *)
(* (_process_aborts_queue), and again when their turn in the input queue     *)
(* comes.  arrived[c] messages of API server c have arrived.                 *)
AbortedInPass(e, arrived) ==
    {r \in Local(e, {"waiting", "running"}) :
        \E i \in 1..arrived[ClientOf[r]] :
            LET msg == input_q[ClientOf[r]][e][i] IN msg.type = "ABORT" /\ msg.req = r}

Arrivals(e) == {n \in [Clients -> 0..Max({Len(input_q[c][e]) : c \in Clients})] :
                   \A c \in Clients : n[c] <= Len(input_q[c][e])}

(* update_from_output counts the pass for the requests that ran in it.       *)
Ran(e) == IF executed[e] THEN Local(e, {"running"}) ELSE {}

UpdateFromOutput(gone) ==
    LET ran == UNION {Ran(e) : e \in Engines} \ gone IN
    /\ steps_left' = [r \in Requests |-> IF r \in ran THEN steps_left[r] - 1
                                                       ELSE steps_left[r]]
    /\ status' = Finished(gone \cup {r \in ran : steps_left[r] = 1})

BugNewStepCounter(e) == IF executed[e] THEN step_counter[e] + 1 ELSE step_counter[e]

NewStepCounter(e) == step_counter[e] + 1

(* The expert-parallel collectives of a pass need every engine.  No engine   *)
(* sees another one before its next message, so they end the step together.  *)
(* _has_global_unfinished_reqs calls the all-reduce every SyncInterval       *)
(* steps; before it the engine takes the wave to be running.                 *)
ForwardPass ==
    /\ \A e \in Engines : pc[e] = "forward"
    /\ \E aborts \in {f \in [Engines -> SUBSET Requests] :
           \A e \in Engines :
              f[e] \in IF executed[e] THEN {AbortedInPass(e, n) : n \in Arrivals(e)} ELSE {{}}} :
           UpdateFromOutput(UNION {aborts[e] : e \in Engines})
    /\ step_counter' = [e \in Engines |-> NewStepCounter(e)]
    /\ pc' = [e \in Engines |-> IF NewStepCounter(e) % SyncInterval # 0 THEN "input"
                                                                       ELSE "reduce"]
    /\ engines_running' = [e \in Engines |->
                              engines_running[e] \/ NewStepCounter(e) % SyncInterval # 0]
    /\ executed' = [e \in Engines |-> FALSE]
    /\ UNCHANGED <<clientVars, coordVars, current_wave, pause_state, channels>>

BugNextWave(e) == IF e = 0 THEN current_wave[e] + 1 ELSE current_wave[e]

NextWave(e) == current_wave[e] + 1

AllReduce ==
    /\ \A e \in Engines : pc[e] = "reduce"
    /\ pc' = [e \in Engines |-> "input"]
    /\ LET unfinished == \E e \in Engines : HasUnfinished(e) IN
       /\ engines_running' = [e \in Engines |-> unfinished]
       /\ IF unfinished
          THEN UNCHANGED <<current_wave, step_counter, output_q>>
          ELSE /\ output_q' = [output_q EXCEPT ![0] =
                      Append(@, [type |-> "wave_complete", wave |-> current_wave[0]])]
               /\ current_wave' = [e \in Engines |-> NextWave(e)]
               /\ step_counter' = [e \in Engines |-> 0]
    /\ UNCHANGED <<clientVars, coordVars, executed, pause_state, reqVars, input_q,
                   front_q, start_q>>

-----------------------------------------------------------------------------
APIServer(c) ==
    \E r \in Requests : \/ \E e \in Engines : AddRequest(c, r, e)
                        \/ AbortRequests(c, r)

Engine(e) ==
    \/ \E c \in Clients : HandleClientRequest(c, e)
    \/ StartDPWave(e)
    \/ ProcessEngineStep(e)

System ==
    \/ \E c \in Clients : SendFirstReq(c) \/ FrontEndMessage(c)
    \/ \E e \in Engines : EngineMessage(e) \/ Engine(e)
    \/ ForwardPass
    \/ AllReduce

DPNext ==
    \/ \E c \in Clients : APIServer(c)
    \/ \E mode \in Modes : PauseGeneration(mode)
    \/ ResumeGeneration
    \/ System

DPSpec == DPInit /\ [][DPNext]_vars

(* The processes keep running.  Requests, pauses and aborts come as they     *)
(* please, and no published state has to arrive.                             *)
DPFairSpec == DPSpec /\ WF_vars(System)

-----------------------------------------------------------------------------
(* The collectives of the engines match: no engine waits in the all-reduce   *)
(* of _has_global_unfinished_reqs while another one waits in a forward pass, *)
(* where each would wait for the other forever.                              *)
CollectivesMatch ==
    \A e, f \in Engines : pc[e] = "reduce" => pc[f] # "forward"

(* The engines count the same waves, and nobody is ahead of them: when rank  *)
(* 0 reports wave_complete, the wave it names is the one every engine has    *)
(* finished, and a request is never taken for one of a later wave.           *)
WavesInStep ==
    /\ \A e, f \in Engines : current_wave[e] = current_wave[f]
    /\ \A e \in Engines : coordinator.wave <= current_wave[e]
    /\ \A c \in Clients : client[c].wave <= coordinator.wave

(* When nothing is under way (no message in a channel, every engine waiting  *)
(* for input) the coordinator agrees that the engines have stopped and knows *)
(* the wave that comes next.  Otherwise the next request would not be        *)
(* announced, or would start a wave that has been.                           *)
Quiet ==
    /\ \A c \in Clients : first_reqs[c] = <<>> /\ front_q[c] = <<>>
    /\ \A e \in Engines :
          /\ \A c \in Clients : input_q[c][e] = <<>>
          /\ start_q[e] = <<>> /\ output_q[e] = <<>>
          /\ pc[e] = "input" /\ ~HasWork(e)

QuietIsAgreed ==
    Quiet => /\ ~coordinator.running
             /\ \A e \in Engines : coordinator.wave = current_wave[e]

(* Unless generation stays paused, every request sent to an engine finishes, *)
(* whatever the wave it was sent in and whichever engines were idle.         *)
EveryRequestServed ==
    <>[]~Paused => \A r \in Requests : status[r] = "sent" ~> status[r] = "done"

(* The engines stop in the end: no engine is left in a pass that the others  *)
(* do not join, and no wave goes on without requests.                        *)
WavesEnd == <>[](\A e \in Engines : pc[e] = "input" /\ ~HasWork(e))
=============================================================================
