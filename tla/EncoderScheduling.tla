--------------------------- MODULE EncoderScheduling ---------------------------
(***************************************************************************)
(* Encoder inputs from the scheduler to the worker: the parts of           *)
(* Scheduler.schedule and update_from_output (scheduler.py) that call the  *)
(* encoder cache manager, and the encoder cache of the model runner        *)
(* (gpu_model_runner.py), which learns of evictions only through the next  *)
(* scheduler output.  The engine keeps up to MaxConcurrentBatches outputs  *)
(* in flight.  A pass of schedule() is one action per request it looks at, *)
(* so that the worker may run in between.                                  *)
(*                                                                         *)
(* The KV cache is module KVCacheManager's business: here a prefix-cache   *)
(* hit is any of HitLengths, and allocate_slots may fail MaxPreemptions    *)
(* times.  Requests end with their first output token.                     *)
(***************************************************************************)
EXTENDS EncoderCacheManager

CONSTANTS
    PromptLen,             \* prompt tokens of a request
    Inputs,                \* its encoder inputs: <<offset, length, mm_hash>> in prompt order
    HitLengths,            \* tokens a prefix-cache hit may cover
    MaxNumSeqs,            \* max_num_running_reqs
    TokenBudget,           \* max_num_scheduled_tokens
    EncoderBudget,         \* max_num_encoder_input_tokens
    MaxConcurrentBatches,  \* batch_queue_size
    MaxPreemptions,        \* bound: calls of allocate_slots that fail
    MaxResets,             \* bound: calls of reset_encoder_cache
    Configs                \* the settings a run explores

\* Every placeholder position of an input takes one embedding.
ASSUME InputsAssumption ==
    \A r \in Requests : \A i \in DOMAIN Inputs[r] : Inputs[r][i][2] = Embeds[Inputs[r][i][3]]

VARIABLES
    config,             \* policy, eagle (draft model), whole (disable_chunked_mm_input), commands
    arrived,            \* the requests the engine has received
    ecm,                \* Scheduler.encoder_cache_manager
    waiting,            \* Scheduler.waiting
    running,            \* Scheduler.running
    num_computed,       \* Request.num_computed_tokens
    pass,               \* local variables of schedule() between two requests
    in_flight,          \* the batch queue: scheduler outputs, oldest first
    encoder_cache,      \* GPUModelRunner.encoder_cache: the hashes it holds
    preemptions, resets \* how much of the two bounds is used

vars == <<config, arrived, ecm, waiting, running, num_computed, pass, in_flight, encoder_cache,
          preemptions, resets>>

Shift == IF config.eagle THEN 1 ELSE 0
Hash(input) == input[3]
HashesOf(r) == [i \in DOMAIN Inputs[r] |-> Hash(Inputs[r][i])]

Without(s, r) == SelectSeq(s, LAMBDA x : x # r)
Alive == ToSet(waiting) \cup ToSet(running)
Idle == [phase |-> "idle"]

Init ==
    /\ config \in Configs
    /\ ecm = EmptyManager
    /\ arrived = {}
    /\ waiting = << >>
    /\ running = << >>
    /\ num_computed = [r \in Requests |-> 0]
    /\ pass = Idle
    /\ in_flight = << >>
    /\ encoder_cache = {}
    /\ preemptions = 0
    /\ resets = 0

-----------------------------------------------------------------------------
(* _try_schedule_encoder_inputs *)

\* One iteration of its loop, on the input in = <<offset, length, mm_hash>>.
\* t: the manager m, the chosen inputs, their embeddings pending, the encoder
\* budget, the tokens n to schedule, and whether the loop has ended.
TryInput(t, r, c, in) ==
    LET start == in[1]
        end == in[1] + in[2]
        h == Hash(in)
        room == Evicted(t.m, Embeds[h] + t.pending)
        embeds == Min({in[2], c + t.n - start}) - Max({0, c - start})
    IN  CASE t.ended \/ start >= c + t.n + Shift -> [t EXCEPT !.ended = TRUE]
        []   end <= c \/ h \in ToSet(t.chosen) -> t
        []   h \in Cached(t.m) -> [t EXCEPT !.m = CheckAndUpdateCache(t.m, r, h)]
        []   config.whole /\ c < start /\ c + t.n < end ->
                 [t EXCEPT !.n = Max({0, start - (c + Shift)}), !.ended = TRUE]
        []   ~CanAllocate(t.m, h, t.budget, t.pending) ->
                 [t EXCEPT !.n = Max({0, start - (c + Shift)}), !.ended = TRUE]
        []   embeds = 0 -> [t EXCEPT !.m = room]
        []   OTHER -> [t EXCEPT !.m = room, !.chosen = Append(@, h),
                                !.pending = @ + Embeds[h], !.budget = @ - Embeds[h]]

TryScheduleEncoderInputs(r, c, n) ==
    After(LAMBDA t, in : TryInput(t, r, c, in),
          [m |-> ecm, chosen |-> << >>, pending |-> 0, budget |-> pass.encoder_budget,
           n |-> n, ended |-> FALSE],
          IF n = 0 THEN << >> ELSE Inputs[r])

-----------------------------------------------------------------------------
(* schedule() *)

StartSchedule ==
    /\ pass = Idle
    /\ Alive # {}
    /\ Len(in_flight) < MaxConcurrentBatches
    /\ pass' = [phase |-> "running", index |-> 1, budget |-> TokenBudget,
                encoder_budget |-> EncoderBudget, plan |-> << >>, preempted |-> FALSE]
    /\ UNCHANGED <<config, arrived, ecm, waiting, running, num_computed, in_flight, encoder_cache,
                   preemptions, resets>>

\* The first k victims of the preemption loop: from the end of the list, or by
\* decreasing priority value (the request id here).
Victims(k) ==
    IF config.policy = "fcfs" THEN SubSeq(Reverse(running), 1, k)
    ELSE SubSeq(SetToSortSeq(ToSet(running), LAMBDA a, b : a > b), 1, k)

\* The pass without the victims: under the priority policy a victim may have
\* been scheduled by this very pass, and its tokens and encoder budget come back.
PassWithout(victims) ==
    LET lost == SelectSeq(pass.plan, LAMBDA e : e.req \in ToSet(victims))
    IN  [pass EXCEPT
            !.plan = SelectSeq(@, LAMBDA e : e.req \notin ToSet(victims)),
            !.index = @ - Len(lost),
            !.budget = @ + FoldLeft(LAMBDA n, e : n + e.count, 0, lost),
            !.encoder_budget = @ + FoldLeft(LAMBDA n, e : n + Total(ToSet(e.encode)), 0, lost),
            !.preempted = @ \/ victims # << >>]

\* The pass with r scheduled for the tokens and encoder inputs of t.
PassWith(p, r, c, t) ==
    [p EXCEPT !.plan = Append(@, [req |-> r, start |-> c, count |-> t.n, encode |-> t.chosen]),
              !.budget = @ - t.n,
              !.encoder_budget = IF t.chosen = << >> THEN @ ELSE t.budget]
Allocated(m, r, chosen) == After(LAMBDA n, h : Allocate(n, r, h), m, chosen)

\* The next running request.  It is scheduled once allocate_slots succeeds,
\* after k preemptions; if it is the k-th victim itself, the loop ends.
ScheduleRunning ==
    /\ pass.phase = "running"
    /\ pass.index <= Len(running) /\ pass.budget > 0
    /\ \E r \in {running[pass.index]} :
       \E c \in {num_computed[r]} :
       \E t \in {TryScheduleEncoderInputs(r, c, Min({PromptLen[r] - c, pass.budget}))} :
           \/ /\ t.n = 0
              /\ ecm' = t.m
              /\ pass' = [pass EXCEPT !.index = @ + 1]
              /\ UNCHANGED <<waiting, running, num_computed, preemptions>>
           \/ /\ t.n > 0
              /\ \E k \in 0..Min({Len(running), MaxPreemptions - preemptions}) :
                  LET victims == Victims(k)
                      gone == ToSet(victims)
                      freed == After(LAMBDA m, v : FreeInputs(m, v, HashesOf(v)), t.m, victims)
                      left == PassWithout(victims)
                  IN  /\ r \in gone => r = victims[k]
                      /\ running' = SelectSeq(running, LAMBDA x : x \notin gone)
                      /\ waiting' = Reverse(victims) \o waiting
                      /\ num_computed' = [x \in Requests |->
                                             IF x \in gone THEN 0 ELSE num_computed[x]]
                      /\ preemptions' = preemptions + k
                      /\ \/ /\ r \in gone
                            /\ ecm' = freed
                            /\ pass' = [left EXCEPT !.phase = "finish"]
                         \/ /\ r \notin gone
                            /\ ecm' = Allocated(freed, r, t.chosen)
                            /\ pass' = [PassWith(left, r, c, t) EXCEPT !.index = @ + 1]
    /\ UNCHANGED <<config, arrived, in_flight, encoder_cache, resets>>

EndRunning ==
    /\ pass.phase = "running"
    /\ pass.index > Len(running) \/ pass.budget = 0
    /\ pass' = [pass EXCEPT !.phase = IF pass.preempted THEN "finish" ELSE "waiting"]
    /\ UNCHANGED <<config, arrived, ecm, waiting, running, num_computed, in_flight, encoder_cache,
                   preemptions, resets>>

\* The request the waiting queue would pop.
NextWaiting ==
    IF config.policy = "fcfs" THEN Head(waiting) ELSE Min(ToSet(waiting))

MoreWaiting == waiting # << >> /\ pass.budget > 0 /\ Len(running) < MaxNumSeqs

\* The next waiting request: scheduled, or the loop ends.  A request that is
\* left with no token keeps the references it got on the way; one that
\* allocate_slots turns down gives them back.
ScheduleWaiting ==
    /\ pass.phase = "waiting" /\ MoreWaiting
    /\ \E r \in {NextWaiting} :
       \E c \in {Min({hit, PromptLen[r] - 1}) : hit \in HitLengths} :
       \E t \in {TryScheduleEncoderInputs(r, c, Min({PromptLen[r] - c, pass.budget}))} :
            \/ /\ t.n = 0
               /\ ecm' = t.m
               /\ pass' = [pass EXCEPT !.phase = "finish"]
               /\ UNCHANGED <<waiting, running, num_computed, preemptions>>
            \/ /\ t.n > 0 /\ preemptions < MaxPreemptions
               /\ ecm' = FreeInputs(t.m, r, HashesOf(r))
               /\ pass' = [pass EXCEPT !.phase = "finish"]
               /\ preemptions' = preemptions + 1
               /\ UNCHANGED <<waiting, running, num_computed>>
            \/ /\ t.n > 0
               /\ ecm' = Allocated(t.m, r, t.chosen)
               /\ pass' = PassWith(pass, r, c, t)
               /\ waiting' = Without(waiting, r)
               /\ running' = Append(running, r)
               /\ num_computed' = [num_computed EXCEPT ![r] = c]
               /\ UNCHANGED preemptions
    /\ UNCHANGED <<config, arrived, in_flight, encoder_cache, resets>>

\* The scheduler output, evictions included, goes to the workers, and
\* _update_after_schedule advances num_computed_tokens.
FinishSchedule ==
    /\ \/ pass.phase = "finish"
       \/ pass.phase = "waiting" /\ ~MoreWaiting
    /\ in_flight' = Append(in_flight, [free |-> ecm.freed, plan |-> pass.plan, done |-> FALSE])
    /\ ecm' = FreedHandedOver(ecm)
    /\ num_computed' = [r \in Requests |->
           num_computed[r] + FoldLeft(LAMBDA n, e : IF e.req = r THEN n + e.count ELSE n,
                                      0, pass.plan)]
    /\ pass' = Idle
    /\ UNCHANGED <<config, arrived, waiting, running, encoder_cache, preemptions, resets>>

-----------------------------------------------------------------------------
(* The worker *)

Pending == {i \in DOMAIN in_flight : ~in_flight[i].done}
Encoded(batch) == UNION {ToSet(batch.plan[i].encode) : i \in DOMAIN batch.plan}

\* Mutant: evictions are applied after the encoder has run.
BugAfterEncoder(batch) == (encoder_cache \cup Encoded(batch)) \ batch.free

\* _update_states drops the evicted outputs, then _execute_mm_encoder stores
\* the new ones.
AfterEncoder(batch) == (encoder_cache \ batch.free) \cup Encoded(batch)

\* The hashes _gather_mm_embeddings reads for the scheduled tokens, moved by
\* shift for the draft model.
Gathered(batch, shift) ==
    UNION {LET e == batch.plan[i]
               from == e.start + shift
           IN  {Hash(in) : in \in {in \in ToSet(Inputs[e.req]) :
                    in[1] < from + e.count /\ in[1] + in[2] > from}} :
           i \in DOMAIN batch.plan}

ExecuteModel ==
    /\ Pending # {}
    /\ LET i == Min(Pending)
       IN  /\ encoder_cache' = AfterEncoder(in_flight[i])
           /\ in_flight' = [in_flight EXCEPT ![i].done = TRUE]
    /\ UNCHANGED <<config, arrived, ecm, waiting, running, num_computed, pass, preemptions, resets>>

-----------------------------------------------------------------------------
(* update_from_output and commands *)

\* _free_encoder_inputs: the inputs whose tokens are all counted as computed.
Consumed(r) == SelectSeq(Inputs[r], LAMBDA in : in[1] + in[2] <= num_computed[r])
FreeConsumed(m, r) == After(LAMBDA n, in : FreeEncoderInput(n, r, Hash(in)), m, Consumed(r))

\* The oldest batch is back.  A request whose last prompt token it held has
\* its output token and ends.
UpdateFromOutput ==
    /\ pass = Idle
    /\ in_flight # << >> /\ Head(in_flight).done
    /\ LET plan == SelectSeq(Head(in_flight).plan, LAMBDA e : e.req \in Alive)
           ends == {e.req : e \in {e \in ToSet(plan) : e.start + e.count = PromptLen[e.req]}}
           step(m, e) == IF e.req \in ends
                         THEN FreeInputs(FreeConsumed(m, e.req), e.req, HashesOf(e.req))
                         ELSE FreeConsumed(m, e.req)
       IN  /\ ecm' = After(step, ecm, plan)
           /\ running' = SelectSeq(running, LAMBDA r : r \notin ends)
           /\ waiting' = SelectSeq(waiting, LAMBDA r : r \notin ends)
    /\ in_flight' = Tail(in_flight)
    /\ UNCHANGED <<config, arrived, num_computed, pass, encoder_cache, preemptions, resets>>

AddRequest(r) ==
    /\ pass = Idle /\ r \notin arrived
    /\ arrived' = arrived \cup {r}
    /\ waiting' = Append(waiting, r)
    /\ UNCHANGED <<config, ecm, running, num_computed, pass, in_flight, encoder_cache,
                   preemptions, resets>>

\* finish_requests for an aborted request.
Abort(r) ==
    /\ config.commands
    /\ pass = Idle /\ r \in Alive
    /\ ecm' = FreeInputs(ecm, r, HashesOf(r))
    /\ waiting' = Without(waiting, r)
    /\ running' = Without(running, r)
    /\ UNCHANGED <<config, arrived, num_computed, pass, in_flight, encoder_cache, preemptions, resets>>

\* EngineCore.reset_encoder_cache: the manager at once; the workers' call
\* queues up behind the batches in flight, and its answer is awaited.
ResetEncoderCache ==
    /\ config.commands
    /\ pass = Idle /\ Pending = {} /\ resets < MaxResets
    /\ ecm' = EmptyManager
    /\ encoder_cache' = {}
    /\ resets' = resets + 1
    /\ UNCHANGED <<config, arrived, waiting, running, num_computed, pass, in_flight, preemptions>>

Engine ==
    \/ StartSchedule \/ ScheduleRunning \/ EndRunning \/ ScheduleWaiting \/ FinishSchedule
    \/ UpdateFromOutput

Next ==
    \/ Engine
    \/ ExecuteModel
    \/ \E r \in Requests : AddRequest(r) \/ Abort(r)
    \/ ResetEncoderCache

Spec == Init /\ [][Next]_vars

\* The engine loop and the workers do not both stop while one of them can step:
\* neither can go on for ever without the other.
FairSpec == Spec /\ WF_vars(Engine \/ ExecuteModel)

-----------------------------------------------------------------------------
(* Properties. *)

\* num_free_slots and num_freeable_slots are what the entries leave, whatever
\* is evicted, preempted, aborted or reset in between.
EncoderSlotsAccounted == SlotsAccounted(ecm)

\* The assertion "Encoder cache miss" of _gather_mm_embeddings: every batch
\* finds the encoder outputs its tokens need in the worker's cache, although
\* hits were promised and evictions decided while older batches were in flight.
NoEncoderCacheMiss ==
    Pending # {} =>
        LET batch == in_flight[Min(Pending)]
        IN  /\ Gathered(batch, 0) \subseteq AfterEncoder(batch)
            /\ config.eagle => Gathered(batch, 1) \subseteq AfterEncoder(batch)

\* An evicted output leaves the workers: once every batch has run, they hold
\* what the manager has cached or is about to announce as freed, no more, so
\* cache_size bounds their memory.
WorkerHoldsNoMore ==
    in_flight = << >> => encoder_cache \subseteq Cached(ecm) \cup ecm.freed

\* A request that no longer exists refers to no entry.
NoStaleReferences == \A h \in Cached(ecm) : ecm.cached[h] \subseteq Alive

\* No request waits for ever for encoder budget or cache space: everything a
\* waiting or running request can hold on to is given back.
EveryRequestEnds == \A r \in Requests : r \in Alive ~> r \notin Alive
=============================================================================
