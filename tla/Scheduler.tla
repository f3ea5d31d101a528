------------------------------ MODULE Scheduler ------------------------------
(***************************************************************************)
(* The V1 engine core: Scheduler (core/sched/scheduler.py) on top of the   *)
(* KV cache manager, driven by EngineCore.step / step_with_batch_queue     *)
(* (engine/core.py), with a KV connector that loads and stores blocks.     *)
(*                                                                         *)
(* schedule(), update_from_output() and reset_prefix_cache() run to        *)
(* completion in the engine thread.  They are split into steps of one call *)
(* of the KV cache manager each, in the order of the code; pc tells which  *)
(* part of which method runs, and requests arrive or are aborted only      *)
(* where the engine loop polls for them.  What overlaps with them is the   *)
(* worker: up to MaxConcurrentBatches batches are in flight.               *)
(*                                                                         *)
(* kv models the contents of the KV blocks on the worker: kv[b] is the     *)
(* token prefix for which block b holds right keys and values.  The worker *)
(* runs batches in order, so a batch takes effect on kv when it is sent.   *)
(***************************************************************************)
EXTENDS KVCacheManager

CONSTANTS
    Priority,              \* (priority, arrival_time) of each request, as a number
    None,                  \* no request
    MaxNumSeqs,            \* max_num_running_reqs
    MaxNumBatchedTokens,   \* max_num_scheduled_tokens
    LongPrefillThreshold,  \* long_prefill_token_threshold, 0 for none
    Configs                \* the configurations the engine may be started with

Policies == {"fcfs", "priority"}
ConnectorModes == {"sync", "async", "unsure", "send"}
ClientCommands == {"abort", "pause", "reset", "reset_running"}

ASSUME SchedulerAssumption ==
    /\ Requests \subseteq Nat /\ None \notin Requests
    /\ Priority \in [Requests -> Nat] /\ IsInjective(Priority)
    /\ MaxNumSeqs \in Nat \ {0}
    /\ MaxNumBatchedTokens \in Nat \ {0}
    /\ LongPrefillThreshold \in Nat
    /\ \A p \in Prompts : Len(p) < MaxModelLen
    /\ \A c \in Configs :
        /\ c.policy \in Policies
        /\ {c.chunked, c.reserve, c.failures, c.recompute} \subseteq BOOLEAN
        /\ c.batches \in Nat \ {0}
        /\ c.connector \subseteq ConnectorModes
        /\ c.commands \subseteq ClientCommands

VARIABLES
    config,               \* the configuration the engine was started with
    status,               \* Request.status; "NEW" before add_request, "FINISHED" for
                          \* any finished status, "GONE" once out of self.requests
    num_computed_tokens,  \* Request.num_computed_tokens
    preempted_once,       \* requests with num_preemptions > 0
    running, waiting, skipped_waiting,   \* the three queues
    pause_state,          \* UNPAUSED, PAUSED_NEW, PAUSED_ALL
    finished_req_ids,     \* finished since the last schedule()
    finished_recving,     \* finished_recving_kv_req_ids
    failed_recving,       \* failed_recving_kv_req_ids
    batch_queue,          \* batches in flight, oldest first
    pc,                   \* which part of the engine loop runs
    sch,                  \* locals of schedule()
    upd,                  \* locals of update_from_output()
    kv,                   \* worker: the prefix each block holds keys and values of
    loading,              \* worker: the blocks an asynchronous load writes, per request
    sending               \* worker: requests whose blocks are being sent

reqVars == <<status, num_computed_tokens, preempted_once>>
settings == <<config, pause_state>>
queueVars == <<running, waiting, skipped_waiting>>
connVars == <<finished_recving, failed_recving, loading, sending>>
schedVars == <<config, status, num_computed_tokens, preempted_once, running, waiting,
               skipped_waiting, pause_state, finished_req_ids, finished_recving,
               failed_recving, batch_queue, pc, sch, upd, kv, loading, sending>>
allVars == <<vars, schedVars>>

-----------------------------------------------------------------------------
(* The configuration. *)

Policy == config.policy                  \* scheduling policy
ChunkedPrefill == config.chunked         \* enable_chunked_prefill
ReserveFullIsl == config.reserve         \* scheduler_reserve_full_isl
MaxConcurrentBatches == config.batches   \* batch_queue_size; 1 for EngineCore.step
Connector == config.connector            \* what the KV connector does
LoadsMayFail == config.failures          \* loads may report invalid blocks
RecomputeFailures == config.recompute    \* recompute_kv_load_failures
Commands == config.commands              \* what clients ask for besides requests

(* Helpers. *)

NoSchedule == [index |-> 1, budget |-> 0, batch |-> << >>, req |-> None, new |-> 0,
                 preempted |-> FALSE, skipped |-> << >>, loads |-> {}, invalid |-> {}]
NoUpdate == [work |-> << >>, stop |-> None, failed |-> {}, recv |-> {}, sent |-> {}]

Without(queue, r) == Excluding(queue, {r})
Position(queue, r) == CHOOSE i \in DOMAIN queue : queue[i] = r

\* Request.__lt__: the request first served among those of S.
Best(S) == CHOOSE r \in S : \A q \in S : Priority[r] <= Priority[q]
Worst(S) == CHOOSE r \in S : \A q \in S : Priority[q] <= Priority[r]

\* peek_request of a queue: FCFSRequestQueue or PriorityRequestQueue.
Peek(queue) == IF Policy = "fcfs" THEN queue[1] ELSE Best(ToSet(queue))

\* _select_waiting_queue_for_scheduling: is it skipped_waiting?
FromSkipped ==
    /\ skipped_waiting # << >>
    /\ \/ waiting = << >>
       \/ Policy = "fcfs"
       \/ Priority[Peek(skipped_waiting)] <= Priority[Peek(waiting)]
Candidate == IF FromSkipped THEN Peek(skipped_waiting) ELSE Peek(waiting)
PopCandidate ==
    IF FromSkipped
    THEN skipped_waiting' = Without(skipped_waiting, Candidate) /\ UNCHANGED waiting
    ELSE waiting' = Without(waiting, Candidate) /\ UNCHANGED skipped_waiting

NumTokens(r) == Len(all_token_ids[r])

\* long_prefill_token_threshold.
Chunk(n) == IF LongPrefillThreshold > 0 THEN Lesser(n, LongPrefillThreshold) ELSE n

\* has_requests: unfinished ones, by pause state, or finished ones to report.
HasRequests ==
    \/ finished_req_ids # {}
    \/ pause_state \in {"UNPAUSED", "PAUSED_NEW"} /\ running # << >>
    \/ pause_state = "UNPAUSED" /\ (waiting # << >> \/ skipped_waiting # << >>)

\* Blocks that get_new_blocks hands out hold nothing of use: kv after a step
\* that gives the table of r the blocks hit and then fresh ones.
KvAfterAllocate(r, hit) ==
    LET old == ToSet(req_to_blocks[r]) \cup ToSet(hit)
    IN  [b \in Blocks |-> IF b \in ToSet(req_to_blocks'[r]) \ old THEN << >> ELSE kv[b]]

-----------------------------------------------------------------------------
(* Clients: the input queue, polled between two engine steps, and the       *)
(* aborts queue, also polled before a model output is processed.            *)

\* add_request; requests are numbered in the order of their arrival.
AddRequest(r) ==
    /\ pc = "idle"
    /\ status[r] = "NEW"
    /\ \A q \in Requests : q < r => status[q] # "NEW"
    /\ status' = [status EXCEPT ![r] = "WAITING"]
    /\ waiting' = Append(waiting, r)
    /\ UNCHANGED <<vars, num_computed_tokens, preempted_once, running, skipped_waiting,
                   settings, finished_req_ids, connVars, batch_queue, pc, sch, upd, kv>>

\* Mutant: the blocks of a finished request are not released.
BugFreeRequest(r, delay) ==
    /\ finished_req_ids' = finished_req_ids \cup {r}
    /\ status' = [status EXCEPT ![r] = IF delay THEN "FINISHED" ELSE "GONE"]
    /\ UNCHANGED kvVars

\* _free_request and _free_blocks: release the blocks unless a transfer still
\* needs them; then the request stays in self.requests.
FreeRequest(r, delay) ==
    /\ finished_req_ids' = finished_req_ids \cup {r}
    /\ status' = [status EXCEPT ![r] = IF delay THEN "FINISHED" ELSE "GONE"]
    /\ IF delay THEN UNCHANGED kvVars ELSE Free(r)

\* _connector_finished: the connector may keep the blocks of a request that ran
\* in order to send them.
SendOnFinish(r) ==
    IF "send" \in Connector /\ status[r] = "RUNNING" THEN BOOLEAN ELSE {FALSE}

RemoveFromQueues(r) ==
    IF status[r] = "RUNNING"
    THEN running' = Without(running, r) /\ UNCHANGED <<waiting, skipped_waiting>>
    ELSE /\ waiting' = Without(waiting, r)
         /\ skipped_waiting' = Without(skipped_waiting, r)
         /\ UNCHANGED running

\* Mutants: blocks are never kept; blocks are kept although the load is done.
BugDelayFreeNever(r) == FALSE
BugDelayFreeAlways(r) == status[r] = "REMOTE"

\* The worker may still be loading into the blocks of a finished request.
DelayFree(r) == status[r] = "REMOTE" /\ r \notin finished_recving

\* finish_requests for one request.
FinishRequest(r) ==
    \E send \in SendOnFinish(r) :
        /\ RemoveFromQueues(r)
        /\ FreeRequest(r, send \/ DelayFree(r))
        /\ finished_recving' = finished_recving \ {r}
        /\ failed_recving' = failed_recving \ {r}
        /\ sending' = IF send THEN sending \cup {r} ELSE sending
        /\ UNCHANGED <<all_token_ids, num_computed_tokens, preempted_once, loading>>

Unfinished(r) == status[r] \in {"WAITING", "PREEMPTED", "RUNNING", "REMOTE"}

AbortRequest(r) ==
    /\ "abort" \in Commands
    /\ pc \in {"idle", "await"}
    /\ Unfinished(r)
    /\ FinishRequest(r)
    /\ UNCHANGED <<settings, batch_queue, pc, sch, upd, kv>>

SetPauseState ==
    /\ "pause" \in Commands
    /\ pc = "idle"
    /\ pause_state' \in {"UNPAUSED", "PAUSED_NEW", "PAUSED_ALL"} \ {pause_state}
    /\ UNCHANGED <<vars, config, reqVars, queueVars, finished_req_ids, connVars, batch_queue,
                   pc, sch, upd, kv>>

\* Mutant: the blocks are not released.
BugPreemptKeepsBlocks(v) ==
    /\ status' = [status EXCEPT ![v] = "PREEMPTED"]
    /\ num_computed_tokens' = [num_computed_tokens EXCEPT ![v] = 0]
    /\ preempted_once' = preempted_once \cup {v}
    /\ running' = Without(running, v)
    /\ waiting' = <<v>> \o waiting
    /\ UNCHANGED <<vars, skipped_waiting, settings, finished_req_ids, connVars,
                   batch_queue, upd, kv>>

\* _preempt_request: give up all blocks, start again from the waiting queue.
Preempt(v) ==
    /\ Free(v)
    /\ status' = [status EXCEPT ![v] = "PREEMPTED"]
    /\ num_computed_tokens' = [num_computed_tokens EXCEPT ![v] = 0]
    /\ preempted_once' = preempted_once \cup {v}
    /\ running' = Without(running, v)
    /\ waiting' = <<v>> \o waiting
    /\ UNCHANGED <<all_token_ids, skipped_waiting, settings, finished_req_ids, connVars,
                   batch_queue, upd, kv>>

\* reset_prefix_cache; with reset_running_requests all running requests are
\* preempted first, last one first.
BeginReset ==
    /\ pc = "idle"
    /\ \/ "reset" \in Commands /\ ResetPrefixCache /\ UNCHANGED pc
       \/ "reset_running" \in Commands /\ pc' = "reset" /\ UNCHANGED kvVars
    /\ UNCHANGED <<all_token_ids, reqVars, queueVars, settings, finished_req_ids, connVars,
                   batch_queue, sch, upd, kv>>

ResetPreempt ==
    /\ pc = "reset"
    /\ running # << >>
    /\ Preempt(running[Len(running)])
    /\ UNCHANGED <<pc, sch>>

EndReset ==
    /\ pc = "reset"
    /\ running = << >>
    /\ ResetPrefixCache
    /\ pc' = "idle"
    /\ UNCHANGED <<all_token_ids, reqVars, queueVars, settings, finished_req_ids, connVars,
                   batch_queue, sch, upd, kv>>

-----------------------------------------------------------------------------
(* schedule(): the loop over the running requests. *)

\* EngineCore.step and step_with_batch_queue call schedule() when there are
\* requests; the batch queue has room then.
BeginSchedule ==
    /\ pc = "idle"
    /\ HasRequests
    /\ pc' = "running"
    /\ sch' = [NoSchedule EXCEPT
                  !.budget = IF pause_state = "PAUSED_ALL" THEN 0 ELSE MaxNumBatchedTokens]
    /\ UNCHANGED <<vars, reqVars, queueVars, settings, finished_req_ids, connVars,
                   batch_queue, upd, kv>>

\* What the running request at the loop index still has to compute.
NumNewRunning(r) ==
    LET todo == NumTokens(r) - num_computed_tokens[r]
        fits == MaxModelLen - 1 - num_computed_tokens[r]
    IN  Lesser(Lesser(Chunk(todo), sch.budget), fits)

AtRunning ==
    /\ pc = "running"
    /\ sch.req = None
    /\ sch.index <= Len(running)
    /\ sch.budget > 0

\* Nothing to schedule for this request: continue with the next one.
SkipRunning ==
    /\ AtRunning
    /\ NumNewRunning(running[sch.index]) = 0
    /\ sch' = [sch EXCEPT !.index = @ + 1]
    /\ UNCHANGED <<vars, reqVars, queueVars, settings, finished_req_ids, connVars,
                   batch_queue, pc, upd, kv>>

\* The request to be scheduled and its number of new tokens; sch.req and
\* sch.new keep them while other requests are preempted for it.
Current == IF sch.req = None THEN running[sch.index] ELSE sch.req
CurrentNew == IF sch.req = None THEN NumNewRunning(running[sch.index]) ELSE sch.new
TryRunning == pc = "running" /\ (sch.req # None \/ (AtRunning /\ CurrentNew > 0))
RoomForCurrent ==
    CanAllocate(Current, num_computed_tokens[Current], << >>, 0, CurrentNew, NumLookahead)

\* A batch entry: new tokens from start on, after local tokens found in the
\* prefix cache and the rest of start loaded by the connector.
Entry(r, local, start, n) == [req |-> r, local |-> local, start |-> start, new |-> n]

ScheduleRunning ==
    /\ TryRunning
    /\ RoomForCurrent
    /\ LET r == Current
           start == num_computed_tokens[r]
       IN  /\ AllocateSlots(r, start, << >>, 0, CurrentNew, NumLookahead, FALSE)
           /\ kv' = KvAfterAllocate(r, << >>)
           /\ sch' = [sch EXCEPT !.index = @ + 1, !.budget = @ - CurrentNew,
                                 !.batch = Append(@, Entry(r, start, start, CurrentNew)),
                                 !.req = None, !.new = 0]
    /\ UNCHANGED <<all_token_ids, reqVars, queueVars, settings, finished_req_ids, connVars,
                   batch_queue, pc, upd>>

Victim == IF Policy = "priority" THEN Worst(ToSet(running)) ELSE running[Len(running)]

\* Mutant: the tokens of a preempted request are lost.
BugUndoneTokens(v) == 0

\* What the request had been given in this step, if anything.
UndoneTokens(v) ==
    FoldSet(LAMBDA i, n : sch.batch[i].new + n, 0,
            {i \in DOMAIN sch.batch : sch.batch[i].req = v})

\* No room: preempt the lowest-priority running request and try again.  With
\* the priority policy it may have been scheduled in this step already; its
\* tokens go back to the budget then.  When it is the request itself, the loop
\* ends, and after a preemption no waiting request is scheduled.
PreemptForRunning ==
    /\ TryRunning
    /\ ~RoomForCurrent
    /\ LET v == Victim
       IN  /\ Preempt(v)
           /\ sch' = [sch EXCEPT
                !.preempted = TRUE,
                !.batch = SelectSeq(@, LAMBDA e : e.req # v),
                !.budget = @ + UndoneTokens(v),
                !.index = IF v = Current THEN 1
                          ELSE IF \E i \in DOMAIN sch.batch : sch.batch[i].req = v
                          THEN @ - 1 ELSE @,
                !.req = IF v = Current THEN None ELSE Current,
                !.new = IF v = Current THEN 0 ELSE CurrentNew]
           /\ pc' = IF v = Current THEN "execute" ELSE pc

EndRunning ==
    /\ pc = "running"
    /\ sch.req = None
    /\ ~(sch.index <= Len(running) /\ sch.budget > 0)
    /\ pc' = IF ~sch.preempted /\ pause_state = "UNPAUSED" THEN "waiting" ELSE "execute"
    /\ sch' = [sch EXCEPT !.index = 1]
    /\ UNCHANGED <<vars, reqVars, queueVars, settings, finished_req_ids, connVars,
                   batch_queue, upd, kv>>

-----------------------------------------------------------------------------
(* schedule(): the loop over the waiting requests. *)

AtWaiting ==
    /\ pc = "waiting"
    /\ waiting # << >> \/ skipped_waiting # << >>
    /\ sch.budget > 0
    /\ Len(running) # MaxNumSeqs

\* Set the request aside for this step: its blocks are still being loaded, or
\* the connector cannot tell yet how much it can load.
SkipWaiting ==
    /\ AtWaiting
    /\ \/ status[Candidate] = "REMOTE" /\ Candidate \notin finished_recving
       \/ /\ status[Candidate] # "REMOTE"
          /\ num_computed_tokens[Candidate] = 0
          /\ "unsure" \in Connector
    /\ PopCandidate
    /\ sch' = [sch EXCEPT !.skipped = <<Candidate>> \o @]
    /\ UNCHANGED <<vars, reqVars, running, settings, finished_req_ids, connVars,
                   batch_queue, pc, upd, kv>>

LoadDone(r) == status[r] = "REMOTE" /\ r \in finished_recving
KeepLoaded(r) ==
    IF r \in failed_recving /\ num_computed_tokens[r] = 0
    THEN Free(r) ELSE CacheBlocks(r, num_computed_tokens[r])

\* _try_promote_blocked_waiting_request, _update_waiting_for_remote_kv: the load
\* of the request has finished; cache what was loaded, or release everything if
\* nothing was; the last token of a fully loaded request is computed again.
PromoteWaiting ==
    /\ AtWaiting
    /\ LET r == Candidate
           n == num_computed_tokens[r]
           failed == r \in failed_recving
       IN  /\ LoadDone(r)
           /\ KeepLoaded(r)
           /\ num_computed_tokens' = [num_computed_tokens EXCEPT
                                         ![r] = IF ~failed /\ n = NumTokens(r) THEN n - 1 ELSE n]
           /\ status' = [status EXCEPT
                            ![r] = IF r \in preempted_once THEN "PREEMPTED" ELSE "WAITING"]
           /\ finished_recving' = finished_recving \ {r}
           /\ failed_recving' = failed_recving \ {r}
    /\ UNCHANGED <<all_token_ids, preempted_once, queueVars, settings, finished_req_ids,
                   loading, sending, batch_queue, pc, sch, upd, kv>>

\* get_num_new_matched_tokens: tokens the connector can load beyond the local
\* hit.  A synchronous load leaves at least the last token to be computed.
ExternalTokens(r, local, async) ==
    IF async THEN IF "async" \in Connector THEN 1..(NumTokens(r) - local) ELSE {}
    ELSE {0} \cup (IF "sync" \in Connector THEN 1..(NumTokens(r) - local - 1) ELSE {})

\* The ways the candidate may start: from the prefix cache and the connector,
\* or, after a load, from the tokens it has.
Starts(r) ==
    IF num_computed_tokens[r] = 0
    THEN UNION {{[hit |-> hit, ext |-> ext, async |-> async] :
                     ext \in ExternalTokens(r, Len(hit) * BlockSize, async)} :
                hit \in ComputedBlocks(r), async \in BOOLEAN}
    ELSE {[hit |-> << >>, ext |-> 0, async |-> FALSE]}

StartTokens(r, s) == num_computed_tokens[r] + Len(s.hit) * BlockSize + s.ext
NumNewWaiting(r, s) == Chunk(NumTokens(r) - StartTokens(r, s))
NewTokens(r, s) == IF s.async THEN 0 ELSE Lesser(NumNewWaiting(r, s), sch.budget)
Lookahead(r) == IF num_computed_tokens[r] = 0 THEN 0 ELSE NumLookahead

\* The conditions under which the loop goes on to schedule the candidate.
Admissible(r, s) ==
    /\ ChunkedPrefill \/ s.async \/ NumNewWaiting(r, s) <= sch.budget
    /\ ReserveFullIsl => CanFitFullSequence(r, s.hit)
    /\ CanAllocate(r, num_computed_tokens[r], s.hit, s.ext, NewTokens(r, s), Lookahead(r))

AdmitWaiting ==
    /\ AtWaiting
    /\ status[Candidate] \in {"WAITING", "PREEMPTED"}
    /\ \E s \in Starts(Candidate) :
        LET r == Candidate
            n == NewTokens(r, s)
            local == StartTokens(r, s) - s.ext
        IN  /\ Admissible(r, s)
            /\ AllocateSlots(r, num_computed_tokens[r], s.hit, s.ext, n, Lookahead(r), s.async)
            /\ kv' = KvAfterAllocate(r, s.hit)
            /\ PopCandidate
            /\ num_computed_tokens' = [num_computed_tokens EXCEPT ![r] = StartTokens(r, s)]
            /\ IF s.async
               THEN /\ status' = [status EXCEPT ![r] = "REMOTE"]
                    /\ loading' = [loading EXCEPT
                                      ![r] = ToSet(req_to_blocks'[r]) \ ToSet(s.hit)]
                    /\ sch' = [sch EXCEPT !.skipped = <<r>> \o @, !.loads = @ \cup {r}]
                    /\ UNCHANGED running
               ELSE /\ status' = [status EXCEPT ![r] = "RUNNING"]
                    /\ running' = Append(running, r)
                    /\ sch' = [sch EXCEPT !.budget = @ - n,
                                          !.batch = Append(@, Entry(r, local, StartTokens(r, s), n))]
                    /\ UNCHANGED loading
    /\ UNCHANGED <<all_token_ids, preempted_once, settings, finished_req_ids,
                   finished_recving, failed_recving, sending, batch_queue, pc, upd>>

\* The loop ends: nobody left, no budget, no free seat, or no room for the
\* candidate.  Requests set aside go ahead of older skipped ones.
EndWaiting ==
    /\ pc = "waiting"
    /\ \/ ~AtWaiting
       \/ /\ AtWaiting
          /\ status[Candidate] \in {"WAITING", "PREEMPTED"}
          /\ \E s \in Starts(Candidate) : ~Admissible(Candidate, s)
    /\ skipped_waiting' = Reverse(sch.skipped) \o skipped_waiting
    /\ sch' = [sch EXCEPT !.skipped = << >>, !.index = 1]
    /\ pc' = "execute"
    /\ UNCHANGED <<vars, reqVars, running, waiting, settings, finished_req_ids, connVars,
                   batch_queue, upd, kv>>

-----------------------------------------------------------------------------
(* The worker runs the batch: external. *)

\* Block b holds the keys and values of the first n tokens of toks, as far as
\* the block with index i reaches.
Holds(contents, b, i, toks, n) ==
    LET upto == Lesser(i * BlockSize, n)
    IN  Len(contents[b]) >= upto /\ SubSeq(contents[b], 1, upto) = SubSeq(toks, 1, upto)

\* contents after positions from+1 .. upto of toks were written to the table.
Written(contents, table, toks, from, upto) ==
    LET filled == {i \in DOMAIN table : Lesser(i * BlockSize, upto) > Greater((i - 1) * BlockSize, from)}
    IN  [b \in Blocks |->
            IF \E i \in filled : table[i] = b
            THEN SubSeq(toks, 1, Lesser(upto, BlockSize * CHOOSE i \in filled : table[i] = b))
            ELSE contents[b]]

\* The blocks with tokens the connector loads for an entry.
LoadedBlocks(e) ==
    {req_to_blocks[e.req][i] : i \in {j \in DOMAIN req_to_blocks[e.req] :
        Lesser(j * BlockSize, e.start) > Greater((j - 1) * BlockSize, e.local)}}

\* One entry of the batch: load its external tokens, some of which may fail,
\* then read the first start tokens and compute the new ones.  What is computed
\* from wrong contents is wrong.  A token is sampled once all known tokens are
\* computed.  _update_after_schedule advances num_computed_tokens.
ExecuteEntry ==
    /\ pc = "execute"
    /\ sch.index <= Len(sch.batch)
    /\ LET e == sch.batch[sch.index]
           toks == all_token_ids[e.req]
           table == req_to_blocks[e.req]
           end == e.start + e.new
       IN  \E bad \in IF LoadsMayFail THEN SUBSET LoadedBlocks(e) ELSE {{}} :
            LET arrived == Written(kv, table, toks, e.local, e.start)
                loaded == [b \in Blocks |-> IF b \in bad THEN << >> ELSE arrived[b]]
                right == \A i \in DOMAIN table :
                            (i - 1) * BlockSize < e.start => Holds(loaded, table[i], i, toks, e.start)
                computed == Written(loaded, table, toks, e.start, end)
            IN  /\ kv' = [b \in Blocks |->
                             IF right \/ computed[b] = loaded[b] THEN computed[b] ELSE << >>]
                /\ num_computed_tokens' = [num_computed_tokens EXCEPT ![e.req] = @ + e.new]
                /\ sch' = [sch EXCEPT
                      !.index = @ + 1,
                      !.invalid = @ \cup bad,
                      !.batch[sch.index] = [req |-> e.req, new |-> e.new, end |-> end,
                                            samples |-> end = Len(toks), right |-> right]]
    /\ UNCHANGED <<vars, status, preempted_once, queueVars, settings, finished_req_ids,
                   connVars, batch_queue, pc, upd>>

\* Mutant: one batch too many.
BugQueueHasRoom == Len(batch_queue) < MaxConcurrentBatches

QueueHasRoom == Len(batch_queue) + 1 < MaxConcurrentBatches

\* The batch is in flight.  The engine goes on to the next input and the next
\* schedule() if the model runs, the queue has room and the oldest batch is not
\* done; else it waits for the oldest batch.
EndSchedule ==
    /\ pc = "execute"
    /\ sch.index > Len(sch.batch)
    /\ batch_queue' = Append(batch_queue, [entries |-> sch.batch, loads |-> sch.loads,
                                           invalid |-> sch.invalid])
    /\ finished_req_ids' = {}
    /\ \/ pc' = "await"
       \/ /\ sch.batch # << >>
          /\ QueueHasRoom
          /\ pc' = "idle"
    /\ sch' = NoSchedule
    /\ UNCHANGED <<vars, reqVars, queueVars, settings, connVars, upd, kv>>

\* Nothing to schedule, but batches in flight.
AwaitOutput ==
    /\ pc = "idle"
    /\ ~HasRequests
    /\ batch_queue # << >>
    /\ pc' = "await"
    /\ UNCHANGED <<vars, reqVars, queueVars, settings, finished_req_ids, connVars,
                   batch_queue, sch, upd, kv>>

-----------------------------------------------------------------------------
(* update_from_output(). *)

\* _update_requests_with_invalid_blocks for the requests of a queue: those that
\* have an invalid block among the computed ones, and, of these, the first
\* block that no earlier request is going to recompute.  Mutants: a block that is
\* computed in part is not looked at; the failed block itself is kept.
BugInvalidAt(r, invalid, num_scheduled) ==
    {i \in DOMAIN req_to_blocks[r] :
        /\ i <= (num_computed_tokens[r] - num_scheduled[r]) \div BlockSize
        /\ req_to_blocks[r][i] \in invalid}
InvalidAt(r, invalid, num_scheduled) ==
    {i \in DOMAIN req_to_blocks[r] :
        /\ i <= cdiv(num_computed_tokens[r] - num_scheduled[r], BlockSize)
        /\ req_to_blocks[r][i] \in invalid}
AffectedIn(queue, invalid, num_scheduled) ==
    {r \in ToSet(queue) : InvalidAt(r, invalid, num_scheduled) # {}}
NewlyInvalidAt(queue, r, invalid, num_scheduled) ==
    {i \in InvalidAt(r, invalid, num_scheduled) :
        \A k \in 1..(Position(queue, r) - 1) :
            \A j \in InvalidAt(queue[k], invalid, num_scheduled) :
                req_to_blocks[queue[k]][j] # req_to_blocks[r][i]}
BugComputedAfterInvalid(queue, r, invalid, num_scheduled) ==
    LET mine == NewlyInvalidAt(queue, r, invalid, num_scheduled)
    IN  IF mine # {} THEN Lesser(Min(mine) * BlockSize, num_computed_tokens[r])
                     ELSE num_computed_tokens[r] - num_scheduled[r]
ComputedAfterInvalid(queue, r, invalid, num_scheduled) ==
    LET mine == NewlyInvalidAt(queue, r, invalid, num_scheduled)
    IN  IF mine # {} THEN (Min(mine) - 1) * BlockSize
                     ELSE num_computed_tokens[r] - num_scheduled[r]
BlocksToEvict(queue, invalid, num_scheduled) ==
    UNION {LET mine == NewlyInvalidAt(queue, r, invalid, num_scheduled)
           IN  {req_to_blocks[r][i] : i \in {j \in DOMAIN req_to_blocks[r] :
                                                mine # {} /\ j >= Min(mine)}} :
           r \in ToSet(queue)}

\* Requests of skipped_waiting whose blocks are being loaded.
AsyncLoadReqs == Excluding(skipped_waiting, {r \in Requests : status[r] # "REMOTE"})

\* _handle_invalid_blocks: truncate the computed tokens of the affected
\* requests; drop the blocks from the prefix cache unless they will be
\* recomputed.
HandleInvalidBlocks(invalid, num_scheduled) ==
    LET async == AffectedIn(AsyncLoadReqs, invalid, num_scheduled)
        sync == AffectedIn(running, invalid, num_scheduled)
        evict == BlocksToEvict(running, invalid, num_scheduled)
    IN  /\ num_computed_tokens' =
               [r \in Requests |->
                  IF r \in async
                  THEN ComputedAfterInvalid(AsyncLoadReqs, r, invalid, num_scheduled)
                  ELSE IF r \in sync
                  THEN ComputedAfterInvalid(running, r, invalid, num_scheduled)
                  ELSE num_computed_tokens[r]]
        /\ IF evict # {} /\ ~RecomputeFailures THEN EvictBlocks(evict) ELSE UNCHANGED kvVars
        /\ failed_recving' = IF RecomputeFailures THEN failed_recving \cup async
                                                  ELSE failed_recving
\* The requests it returns, to be left out of the update.
FailedByInvalid(invalid, num_scheduled) ==
    AffectedIn(running, invalid, num_scheduled)
        \cup (IF RecomputeFailures THEN {}
              ELSE AffectedIn(AsyncLoadReqs, invalid, num_scheduled))

NumScheduled(b) ==
    [r \in Requests |-> LET es == {i \in DOMAIN b.entries : b.entries[i].req = r}
                        IN  IF es = {} THEN 0 ELSE b.entries[CHOOSE i \in es : TRUE].new]

\* Loads that the worker may report with the oldest batch.
StartedLoads ==
    {r \in Requests : loading[r] # {}}
        \ UNION {batch_queue[i].loads : i \in 2..Len(batch_queue)}

\* kv after the loads of recv have written their blocks, but for the bad ones.
KvAfterLoad(recv, bad) ==
    [b \in Blocks |->
        IF b \in bad THEN << >>
        ELSE IF \E r \in recv : b \in loading[r]
        THEN LET r == CHOOSE q \in recv : b \in loading[q]
                 i == CHOOSE j \in DOMAIN req_to_blocks[r] : req_to_blocks[r][j] = b
             IN  SubSeq(all_token_ids[r], 1, Lesser(i * BlockSize, num_computed_tokens[r]))
        ELSE kv[b]]

\* The output of the oldest batch arrives, with the transfers that finished
\* and the blocks that could not be loaded.
BeginUpdate ==
    /\ pc = "await"
    /\ \E recv \in SUBSET StartedLoads, sent \in SUBSET sending :
       \E bad \in IF LoadsMayFail THEN SUBSET UNION {loading[r] : r \in recv} ELSE {{}} :
        LET b == batch_queue[1]
            invalid == b.invalid \cup bad
            some == invalid # {}
        IN  /\ IF some THEN HandleInvalidBlocks(invalid, NumScheduled(b))
                       ELSE UNCHANGED <<kvVars, num_computed_tokens, failed_recving>>
            /\ kv' = KvAfterLoad(recv, bad)
            /\ loading' = [r \in Requests |-> IF r \in recv THEN {} ELSE loading[r]]
            /\ sending' = sending \ sent
            /\ upd' = [work |-> b.entries, stop |-> None, recv |-> recv, sent |-> sent,
                       failed |-> IF some THEN FailedByInvalid(invalid, NumScheduled(b)) ELSE {}]
    /\ batch_queue' = Tail(batch_queue)
    /\ pc' = "update"
    /\ UNCHANGED <<all_token_ids, status, preempted_once, queueVars, settings,
                   finished_req_ids, finished_recving, sch>>

\* Mutant: the output of a prefill chunk is taken.
BugApplies(e) == e.req \notin upd.failed /\ Unfinished(e.req)

\* A request's output is ignored if its load failed or if it has finished
\* meanwhile; a prefill chunk has none.
Applies(e) == e.samples /\ e.req \notin upd.failed /\ Unfinished(e.req)

SkipOutput ==
    /\ pc = "update"
    /\ upd.stop = None
    /\ upd.work # << >>
    /\ ~Applies(Head(upd.work))
    /\ upd' = [upd EXCEPT !.work = Tail(@)]
    /\ UNCHANGED <<vars, reqVars, queueVars, settings, finished_req_ids, connVars,
                   batch_queue, pc, sch, kv>>

\* _update_request_with_output: append the sampled token; check_stop may end
\* the request, and ends it at max_model_len.
ApplyOutput ==
    /\ pc = "update"
    /\ upd.stop = None
    /\ upd.work # << >>
    /\ Applies(Head(upd.work))
    /\ LET r == Head(upd.work).req
       IN  /\ AppendOutputToken(r)
           /\ \E stop \in BOOLEAN :
                /\ NumTokens(r) + 1 >= MaxModelLen => stop
                /\ upd' = [upd EXCEPT !.work = Tail(@), !.stop = IF stop THEN r ELSE None]
    /\ UNCHANGED <<reqVars, queueVars, settings, finished_req_ids, connVars, batch_queue, pc,
                   sch, kv>>

\* Mutant: a stopped request is looked for among the running ones only.
BugRemoveStopped(r) == running' = Without(running, r) /\ UNCHANGED waiting

RemoveStopped(r) ==
    IF status[r] = "RUNNING"
    THEN running' = Without(running, r) /\ UNCHANGED waiting
    ELSE waiting' = Without(waiting, r) /\ UNCHANGED running

\* The stopped request is freed and leaves the running queue, or the waiting
\* queue if it was preempted meanwhile.
StopRequest ==
    /\ pc = "update"
    /\ upd.stop # None
    /\ LET r == upd.stop
       IN  \E send \in SendOnFinish(r) :
            /\ FreeRequest(r, send)
            /\ sending' = IF send THEN sending \cup {r} ELSE sending
            /\ RemoveStopped(r)
    /\ upd' = [upd EXCEPT !.stop = None]
    /\ UNCHANGED <<all_token_ids, num_computed_tokens, preempted_once, skipped_waiting,
                   settings, finished_recving, failed_recving, loading, batch_queue, pc,
                   sch, kv>>

OutputsDone == pc = "update" /\ upd.stop = None /\ upd.work = << >>

\* Requests whose load failed are finished with an error, or recomputed.
FinishFailed ==
    /\ OutputsDone
    /\ \E r \in upd.failed :
        /\ IF ~RecomputeFailures /\ Unfinished(r)
           THEN FinishRequest(r)
           ELSE UNCHANGED <<vars, reqVars, queueVars, finished_req_ids, connVars>>
        /\ upd' = [upd EXCEPT !.failed = @ \ {r}]
    /\ UNCHANGED <<settings, batch_queue, pc, sch, kv>>

\* _update_from_kv_xfer_finished: a finished load makes its request schedulable,
\* or releases the blocks of one that was aborted; a finished send releases.
TransferFinished ==
    /\ OutputsDone
    /\ upd.failed = {}
    /\ \/ \E r \in upd.recv :
            /\ upd' = [upd EXCEPT !.recv = @ \ {r}]
            /\ IF status[r] = "REMOTE"
               THEN /\ finished_recving' = finished_recving \cup {r}
                    /\ UNCHANGED <<kvVars, status>>
               ELSE /\ status[r] = "FINISHED"
                    /\ Free(r)
                    /\ status' = [status EXCEPT ![r] = "GONE"]
                    /\ UNCHANGED finished_recving
       \/ \E r \in upd.sent :
            /\ upd.recv = {}
            /\ status[r] = "FINISHED"
            /\ upd' = [upd EXCEPT !.sent = @ \ {r}]
            /\ Free(r)
            /\ status' = [status EXCEPT ![r] = "GONE"]
            /\ UNCHANGED finished_recving
    /\ UNCHANGED <<all_token_ids, num_computed_tokens, preempted_once, queueVars, settings,
                   finished_req_ids, failed_recving, loading, sending, batch_queue, pc, sch, kv>>

EndUpdate ==
    /\ OutputsDone
    /\ upd.failed = {} /\ upd.recv = {} /\ upd.sent = {}
    /\ pc' = "idle"
    /\ UNCHANGED <<vars, reqVars, queueVars, settings, finished_req_ids, connVars,
                   batch_queue, sch, upd, kv>>

-----------------------------------------------------------------------------
(* The engine. *)

SchedInit ==
    /\ Init
    /\ config \in Configs
    /\ status = [r \in Requests |-> "NEW"]
    /\ num_computed_tokens = [r \in Requests |-> 0]
    /\ preempted_once = {}
    /\ running = << >> /\ waiting = << >> /\ skipped_waiting = << >>
    /\ pause_state = "UNPAUSED"
    /\ finished_req_ids = {} /\ finished_recving = {} /\ failed_recving = {}
    /\ batch_queue = << >>
    /\ pc = "idle"
    /\ sch = NoSchedule /\ upd = NoUpdate
    /\ kv = [b \in Blocks |-> << >>]
    /\ loading = [r \in Requests |-> {}] /\ sending = {}

Schedule ==
    \/ BeginSchedule \/ SkipRunning \/ ScheduleRunning \/ PreemptForRunning \/ EndRunning
    \/ SkipWaiting \/ PromoteWaiting \/ AdmitWaiting \/ EndWaiting
    \/ ExecuteEntry \/ EndSchedule

Update ==
    \/ AwaitOutput \/ BeginUpdate \/ SkipOutput \/ ApplyOutput \/ StopRequest
    \/ FinishFailed \/ TransferFinished \/ EndUpdate

Client ==
    \/ \E r \in Requests : AddRequest(r) \/ AbortRequest(r)
    \/ SetPauseState
    \/ BeginReset

ResetStep == ResetPreempt \/ EndReset

\* The engine thread has nothing to do: it waits for input.
Quiescent ==
    /\ pc = "idle"
    /\ ~HasRequests
    /\ batch_queue = << >>
    /\ UNCHANGED allVars

EngineStep == Schedule \/ Update \/ ResetStep

SchedNext == Client \/ EngineStep \/ Quiescent

SchedSpec == SchedInit /\ [][SchedNext]_allVars

\* The worker reports that the load of r has finished.
LoadReported(r) == BeginUpdate /\ r \in upd'.recv

\* The engine thread keeps running its loop, and a load that is started ends:
\* it is reported with one of the outputs that keep coming.
FairSpec ==
    /\ SchedSpec
    /\ WF_allVars(EngineStep)
    /\ \A r \in Requests : SF_allVars(LoadReported(r))

-----------------------------------------------------------------------------
(* Properties. *)

Statuses == {"NEW", "WAITING", "PREEMPTED", "RUNNING", "REMOTE", "FINISHED", "GONE"}

\* Every variable of the engine keeps its type.
SchedTypeOK ==
    /\ config \in Configs
    /\ status \in [Requests -> Statuses]
    /\ num_computed_tokens \in [Requests -> 0..MaxModelLen]
    /\ preempted_once \subseteq Requests
    /\ {running, waiting, skipped_waiting} \subseteq Seq(Requests)
    /\ pause_state \in {"UNPAUSED", "PAUSED_NEW", "PAUSED_ALL"}
    /\ finished_req_ids \subseteq Requests
    /\ finished_recving \subseteq Requests /\ failed_recving \subseteq Requests
    /\ Len(batch_queue) <= MaxConcurrentBatches
    /\ pc \in {"idle", "running", "waiting", "execute", "await", "update", "reset"}
    /\ sch.budget \in 0..MaxNumBatchedTokens
    /\ kv \in [Blocks -> Seq(Token)]
    /\ loading \in [Requests -> SUBSET Blocks] /\ sending \subseteq Requests

\* The scheduler calls the KV cache manager the way module KVCacheManager
\* allows, so everything proved there holds of the engine.
KVContract == Spec

\* Queues and statuses agree: a running request is in the running queue, a
\* waiting, preempted or loading one in exactly one waiting queue (or set aside
\* by schedule()), and no other request is in any queue.
QueuesMatchStatus ==
    LET set_aside == waiting \o skipped_waiting \o sch.skipped
    IN  /\ IsInjective(running) /\ IsInjective(set_aside)
        /\ ToSet(running) = {r \in Requests : status[r] = "RUNNING"}
        /\ ToSet(set_aside) = {r \in Requests : status[r] \in {"WAITING", "PREEMPTED", "REMOTE"}}

\* schedule() neither loses nor invents token budget (a preempted request's
\* share returns), schedules a request once, schedules running requests only,
\* and never exceeds max_num_running_reqs (the assertions at its end).
BatchWithinLimits ==
    LET reqs == [i \in DOMAIN sch.batch |-> sch.batch[i].req]
    IN  /\ Len(running) <= MaxNumSeqs
        /\ IsInjective(reqs)
        /\ ToSet(reqs) \subseteq ToSet(running)
        /\ pc \in {"running", "waiting", "execute"} /\ pause_state # "PAUSED_ALL" =>
               sch.budget + FoldSet(LAMBDA i, n : sch.batch[i].new + n, 0, DOMAIN sch.batch)
                   = MaxNumBatchedTokens

\* What update_from_output appends to a request is the token that follows the
\* request's tokens: it was sampled after exactly these, and from right keys
\* and values, whatever was preempted, resumed, reused or in flight meanwhile.
OutputFollowsTokens ==
    pc = "update" /\ upd.stop = None /\ upd.work # << >> =>
        LET e == Head(upd.work)
        IN  Applies(e) => e.right /\ e.end = NumTokens(e.req)

\* Between two engine steps every block of the prefix cache holds the keys and
\* values of its hash, so get_computed_blocks returns computed blocks, unless the
\* report of a failed load is still under way.
CachedBlocksAreComputed ==
    /\ pc = "idle"
    /\ \A i \in DOMAIN batch_queue : batch_queue[i].invalid = {}
    => \A entry \in cached : kv[entry[2]] = entry[1]

\* Blocks that a load is writing belong to its request alone, are not in the
\* prefix cache, and are not released before the worker is done with them.
LoadingBlocksAreHeld ==
    \A r \in Requests :
        \A b \in loading[r] :
            /\ Holders(b) = {r}
            /\ block_hash[b] = NoHash

\* Only requests that run, load, wait with loaded tokens, or whose blocks a
\* transfer still uses hold blocks: nothing is leaked.
BlocksHaveAReason ==
    \A r \in Requests :
        /\ req_to_blocks[r] # << >> =>
               \/ status[r] \in {"RUNNING", "REMOTE", "FINISHED"}
               \/ status[r] \in {"WAITING", "PREEMPTED"} /\ num_computed_tokens[r] > 0
        /\ status[r] = "FINISHED" =>
               loading[r] # {} \/ r \in sending \cup upd.recv \cup upd.sent

\* When reset_prefix_cache has preempted all running requests, no block is in
\* use any more and the reset succeeds (no RuntimeError).
ResetRunningSucceeds == pc = "reset" /\ running = << >> => ToSet(free_queue) = Blocks

\* Every request that arrives is answered: preemption does not starve anybody.
EveryRequestFinishes ==
    \A r \in Requests : status[r] = "WAITING" ~> status[r] = "GONE"
=============================================================================
