--------------------------- MODULE AsyncScheduler ---------------------------
(***************************************************************************)
(* The token counters of a request while its outputs are in flight:        *)
(* AsyncScheduler (async_scheduler.py), the draft-token parts of           *)
(* Scheduler.schedule and update_from_output, and the controller that      *)
(* adapts the number of draft tokens to the acceptance rate (scheduler.py).*)
(*                                                                         *)
(* Tokens are counted, not named.  A list of draft tokens is its length;   *)
(* the list of placeholders that all requests and batches in flight share  *)
(* is one object, so a list is either a length of its own or the shared    *)
(* one, whose length is the variable shared_len.  KV blocks are module     *)
(* KVCacheManager's business: here allocate_slots may fail MaxPreemptions  *)
(* times, and a prefix-cache hit may have any length.                      *)
(***************************************************************************)
EXTENDS Integers, FiniteSets, SequencesExt

CONSTANTS
    Requests,        \* request ids
    PromptLen,       \* num_prompt_tokens
    MaxTokens,       \* max_tokens of every request
    MaxModelLen,     \* max_model_len
    MaxNumSeqs,      \* max_num_running_reqs
    IntervalSteps,   \* interval_steps of the controller
    MinDraftTokens,  \* min_draft_tokens of the controller
    MaxPreemptions,  \* bound: calls of allocate_slots that fail
    MaxResets,       \* bound: forced resets
    Configs          \* the settings a run explores

VARIABLES
    config,                   \* async (else step()), uniproc, max_k, budget, commands
    status,                   \* "none", "waiting", "running", "finished"
    waiting, running,         \* Scheduler.waiting, Scheduler.running
    finished_req_ids,         \* Scheduler.finished_req_ids
    num_tokens,               \* Request.num_tokens
    num_computed_tokens,      \* Request.num_computed_tokens
    num_output_placeholders,  \* Request.num_output_placeholders
    spec_token_ids,           \* Request.spec_token_ids
    discard,                  \* Request.discard_latest_async_tokens
    shared_len,               \* len(_spec_token_placeholders)
    controller,               \* active_k and the window of counts
    pass,                     \* local variables of schedule() between two requests
    in_flight,                \* batch_queue, oldest first
    blocked,                  \* step_with_batch_queue waits for the oldest output
    preemptions, resets       \* how much of the two bounds is used

queues == <<status, waiting, running>>
counters == <<num_tokens, num_computed_tokens, num_output_placeholders, spec_token_ids, discard>>
vars == <<config, queues, finished_req_ids, counters, shared_len, controller, pass, in_flight, blocked,
          preemptions, resets>>

QueueSize == IF config.async THEN 2 ELSE 1   \* batch_queue_size
Idle == [phase |-> "idle"]
NoTokens == [shared |-> FALSE, len |-> 0]
Own(n) == [shared |-> FALSE, len |-> n]
SharedList == [shared |-> TRUE, len |-> 0]
Length(list) == IF list.shared THEN shared_len ELSE list.len
Unfinished == {r \in Requests : status[r] \in {"waiting", "running"}}
HasRequests == Unfinished # {} \/ finished_req_ids # {}
Without(s, S) == SelectSeq(s, LAMBDA x : x \notin S)

Init ==
    /\ config \in Configs
    /\ status = [r \in Requests |-> "none"]
    /\ waiting = << >> /\ running = << >> /\ finished_req_ids = {}
    /\ num_tokens = PromptLen
    /\ num_computed_tokens = [r \in Requests |-> 0]
    /\ num_output_placeholders = [r \in Requests |-> 0]
    /\ spec_token_ids = [r \in Requests |-> NoTokens]
    /\ discard = [r \in Requests |-> FALSE]
    /\ shared_len = config.max_k
    /\ controller = [active_k |-> config.max_k, steps |-> 0, drafts |-> 0, accepted |-> 0]
    /\ pass = Idle
    /\ in_flight = << >>
    /\ blocked = FALSE
    /\ preemptions = 0 /\ resets = 0

-----------------------------------------------------------------------------
(* schedule() *)

StartSchedule ==
    /\ pass = Idle /\ ~blocked /\ HasRequests
    /\ pass' = [phase |-> "running", index |-> 1, budget |-> config.budget, batch |-> << >>,
                preempted |-> FALSE]
    /\ UNCHANGED <<config, queues, finished_req_ids, counters, shared_len, controller, in_flight, blocked,
                   preemptions, resets>>

\* Mutant: drafts that wait from an earlier step are not cut.
BugTruncated(r) == FALSE

\* The lists after "del request.spec_token_ids[step_active_k:]" for request r.
Truncated(r) == Length(spec_token_ids[r]) > controller.active_k
TruncatedSpec(r) ==
    IF Truncated(r) /\ ~spec_token_ids[r].shared THEN Own(controller.active_k)
    ELSE spec_token_ids[r]
TruncatedShared(r) ==
    IF Truncated(r) /\ spec_token_ids[r].shared THEN controller.active_k ELSE shared_len

\* Mutant: one step too late.
BugReachesMaxTokens(r) ==
    /\ num_output_placeholders[r] > 0
    /\ num_computed_tokens[r] + 1 - num_output_placeholders[r] >= PromptLen[r] + MaxTokens

\* The outputs in flight are sure to reach max_tokens.
ReachesMaxTokens(r) ==
    /\ num_output_placeholders[r] > 0
    /\ num_computed_tokens[r] + 2 - num_output_placeholders[r] >= PromptLen[r] + MaxTokens

\* Mutant: one position too few below max_model_len.
BugNumNewTokens(r, k) ==
    Min({num_tokens[r] + k + num_output_placeholders[r] - num_computed_tokens[r],
         pass.budget, MaxModelLen - 2 - num_computed_tokens[r]})

\* num_new_tokens of a running request with a list of drafts of length k.
NumNewTokens(r, k) ==
    Min({num_tokens[r] + k + num_output_placeholders[r] - num_computed_tokens[r],
         pass.budget, MaxModelLen - 1 - num_computed_tokens[r]})

\* An entry of the batch.  sent: the drafts as the workers get them.
Entry(r, n, list, sent) ==
    [req |-> r, count |-> n, list |-> list, sent |-> sent, samples |-> FALSE]

\* The drafts that go with n new tokens of r, out of its list.
ScheduledSpec(r, n, list, k) ==
    LET num_scheduled_spec_tokens ==
            n + num_computed_tokens[r] - num_tokens[r] - num_output_placeholders[r]
    IN  IF k = 0 \/ num_scheduled_spec_tokens <= 0 THEN NoTokens
        ELSE IF k > num_scheduled_spec_tokens THEN Own(num_scheduled_spec_tokens) ELSE list

\* The next running request: skipped, or scheduled after the last `lost`
\* requests of the list are preempted, or preempted itself.
ScheduleRunning ==
    /\ pass.phase = "running" /\ pass.index <= Len(running) /\ pass.budget > 0
    /\ shared_len' = TruncatedShared(running[pass.index])
    /\ LET r == running[pass.index]
           list == TruncatedSpec(r)
           k == IF list.shared THEN shared_len' ELSE list.len
           n == NumNewTokens(r, k)
           skip == ReachesMaxTokens(r) \/ n = 0
       IN  \/ /\ skip
              /\ pass' = [pass EXCEPT !.index = @ + 1]
              /\ spec_token_ids' = [spec_token_ids EXCEPT ![r] = list]
              /\ UNCHANGED <<queues, num_computed_tokens, preemptions>>
           \/ /\ ~skip
              /\ \E lost \in 0..Min({Len(running) - pass.index + 1,
                                     MaxPreemptions - preemptions}) :
                  LET gone == ToSet(SubSeq(running, Len(running) - lost + 1, Len(running)))
                      spec == ScheduledSpec(r, n, list, k)
                      sent == IF spec.shared THEN k ELSE spec.len
                  IN  /\ running' = Without(running, gone)
                      /\ waiting' = SubSeq(running, Len(running) - lost + 1, Len(running))
                                    \o waiting
                      /\ status' = [x \in Requests |->
                                       IF x \in gone THEN "waiting" ELSE status[x]]
                      /\ num_computed_tokens' = [x \in Requests |->
                             IF x \in gone THEN 0 ELSE num_computed_tokens[x]]
                      /\ spec_token_ids' = [x \in Requests |->
                             IF x \in gone \cup {r} THEN NoTokens ELSE spec_token_ids[x]]
                      /\ preemptions' = preemptions + lost
                      /\ pass' = IF r \in gone
                                 THEN [pass EXCEPT !.phase = "finish"]
                                 ELSE [pass EXCEPT !.index = @ + 1, !.budget = @ - n,
                                                   !.batch = Append(@, Entry(r, n, spec, sent)),
                                                   !.preempted = @ \/ lost > 0]
    /\ UNCHANGED <<config, finished_req_ids, num_tokens, num_output_placeholders, discard,
                   controller, in_flight, blocked, resets>>

EndRunning ==
    /\ pass.phase = "running"
    /\ pass.index > Len(running) \/ pass.budget = 0
    /\ pass' = [pass EXCEPT !.phase = IF pass.preempted THEN "finish" ELSE "waiting"]
    /\ UNCHANGED <<config, queues, finished_req_ids, counters, shared_len, controller, in_flight, blocked,
                   preemptions, resets>>

MoreWaiting == waiting # << >> /\ pass.budget > 0 /\ Len(running) < MaxNumSeqs

\* The next waiting request: c of its tokens are found in the prefix cache.
ScheduleWaiting ==
    /\ pass.phase = "waiting" /\ MoreWaiting
    /\ LET r == Head(waiting)
       IN  \/ \E c \in {0, num_tokens[r] - 1} :
               LET n == Min({num_tokens[r] - c, pass.budget})
               IN  /\ waiting' = Tail(waiting)
                   /\ running' = Append(running, r)
                   /\ status' = [status EXCEPT ![r] = "running"]
                   /\ num_computed_tokens' = [num_computed_tokens EXCEPT ![r] = c]
                   /\ pass' = [pass EXCEPT !.budget = @ - n,
                                           !.batch = Append(@, Entry(r, n, NoTokens, 0))]
                   /\ UNCHANGED preemptions
           \/ /\ preemptions < MaxPreemptions
              /\ preemptions' = preemptions + 1
              /\ pass' = [pass EXCEPT !.phase = "finish"]
              /\ UNCHANGED <<queues, num_computed_tokens>>
    /\ UNCHANGED <<config, finished_req_ids, num_tokens, num_output_placeholders, spec_token_ids,
                   discard, shared_len, controller, in_flight, blocked, resets>>

\* What _update_after_schedule finds for entry e: the tokens to come are all
\* scheduled, so the step samples.
Samples(e) ==
    num_computed_tokens[e.req] + e.count >= num_tokens[e.req] + num_output_placeholders[e.req]

\* Mutant: the draft tokens get no placeholders.
BugNewPlaceholders(e) == 1

\* The placeholders an entry adds.
NewPlaceholders(e) == 1 + (IF e.list.shared THEN shared_len ELSE e.list.len)

\* The batch is sent, num_computed_tokens advances, and the asynchronous
\* scheduler adds placeholders for the tokens to come.  The step then waits for
\* the oldest output if the batch is empty, the queue is full, or that output is
\* there already; a FutureWrapper of the MultiprocExecutor never says so.
FinishSchedule ==
    /\ \/ pass.phase = "finish"
       \/ pass.phase = "waiting" /\ ~MoreWaiting
    /\ LET batch == [i \in DOMAIN pass.batch |->
                        [pass.batch[i] EXCEPT !.samples = Samples(pass.batch[i])]]
           ours(r) == {e \in ToSet(batch) : e.req = r}
           drafting(r) == config.async /\ \E e \in ours(r) : e.samples
       IN  /\ num_computed_tokens' = [r \in Requests |->
                  SumSet({e.count : e \in ours(r)}) + num_computed_tokens[r]]
           /\ num_output_placeholders' = [r \in Requests |->
                  num_output_placeholders[r]
                  + (IF drafting(r) THEN SumSet({NewPlaceholders(e) : e \in ours(r)}) ELSE 0)]
           /\ spec_token_ids' = [r \in Requests |->
                  IF drafting(r) THEN SharedList ELSE spec_token_ids[r]]
           /\ in_flight' = Append(in_flight, [entries |-> batch,
                                              active_k |-> controller.active_k])
           /\ \E done \in IF config.uniproc THEN BOOLEAN ELSE {FALSE} :
               blocked' = (done \/ batch = << >> \/ Len(in_flight') = QueueSize)
    /\ finished_req_ids' = {}
    /\ pass' = Idle
    /\ UNCHANGED <<config, queues, num_tokens, discard, shared_len, controller, preemptions,
                   resets>>

-----------------------------------------------------------------------------
(* update_from_output() *)

\* AcceptanceRateSpecTokenController.observe, with the rates 0.25 and 0.45.
Observe(accepted, drafts) ==
    LET seen == [controller EXCEPT !.steps = @ + 1, !.drafts = @ + drafts,
                                   !.accepted = @ + Min({accepted, drafts})]
        next_k == IF seen.accepted * 100 < seen.drafts * 25
                  THEN Max({1, seen.active_k - 2})
                  ELSE IF seen.accepted * 100 > seen.drafts * 45
                  THEN Min({config.max_k, seen.active_k + 2})
                  ELSE seen.active_k
    IN  IF drafts <= 0 THEN controller
        ELSE IF seen.steps < IntervalSteps \/ seen.drafts < MinDraftTokens THEN seen
        ELSE [active_k |-> next_k, steps |-> 0, drafts |-> 0, accepted |-> 0]

\* Mutant: the bonus token is taken for an accepted draft.
BugRejected(e, g) == IF Length(e.list) = 0 THEN 0 ELSE Length(e.list) - g

\* Draft tokens of entry e the update counts as rejected when g tokens arrived;
\* the list is read now.
Rejected(e, g) == IF Length(e.list) = 0 THEN 0 ELSE Length(e.list) - (g - 1)

\* Tokens that r can still take before check_stop ends it.
Room(r) == Min({PromptLen[r] + MaxTokens, MaxModelLen}) - num_tokens[r]

\* What may come back for an entry: generated tokens, how many of them are kept,
\* and whether the request stops (at an end token, or out of room).
Outcomes(e) ==
    {o \in [generated : 1..e.sent + 1, kept : 1..e.sent + 1, stopped : BOOLEAN] :
        /\ o.kept <= o.generated /\ o.kept <= Room(e.req)
        /\ ~o.stopped => o.kept = o.generated /\ o.kept < Room(e.req)}

\* The oldest output.  Without asynchronous scheduling the new draft tokens are
\* fetched in the same step (post_step).
UpdateFromOutput ==
    /\ pass = Idle /\ in_flight # << >> /\ (blocked \/ ~HasRequests)
    /\ LET live == {e \in ToSet(Head(in_flight).entries) : e.req \in Unfinished}
           sampled == {e \in live : e.samples}
           ours(r) == CHOOSE e \in sampled : e.req = r
           found == {e.req : e \in sampled}
           thrown == {r \in found : config.async /\ discard[r]}
       IN  \E o \in [found -> UNION {Outcomes(e) : e \in sampled}] :
            /\ \A r \in found : o[r] \in Outcomes(ours(r))
            /\ LET rejected(r) == IF r \in found THEN Rejected(ours(r), o[r].generated) ELSE 0
                   kept(r) == IF r \in found \ thrown THEN o[r].kept ELSE 0
                   ends == {r \in found \ thrown : o[r].stopped}
                   checked == {e \in sampled : Length(e.list) > 0}
                   Drafts == FoldSet(LAMBDA e, n : n + Length(e.list), 0, checked)
                   Accepted == FoldSet(LAMBDA e, n : n + Min({o[e.req].generated - 1,
                                                              Length(e.list)}), 0, checked)
               IN  /\ num_computed_tokens' = [r \in Requests |->
                          IF num_computed_tokens[r] > 0 THEN num_computed_tokens[r] - rejected(r)
                          ELSE 0]
                   /\ num_output_placeholders' = [r \in Requests |->
                          IF num_output_placeholders[r] > 0
                          THEN num_output_placeholders[r] - rejected(r)
                               - (IF config.async THEN kept(r) ELSE 0)
                          ELSE 0 - (IF config.async THEN kept(r) ELSE 0)]
                   /\ num_tokens' = [r \in Requests |-> num_tokens[r] + kept(r)]
                   /\ discard' = [r \in Requests |-> discard[r] /\ r \notin thrown]
                   /\ status' = [r \in Requests |->
                                    IF r \in ends THEN "finished" ELSE status[r]]
                   /\ finished_req_ids' = finished_req_ids \cup ends
                   /\ running' = Without(running, ends)
                   /\ waiting' = Without(waiting, ends)
                   /\ controller' = Observe(Accepted, Drafts)
                   /\ \E proposed \in {0, config.max_k} :
                       spec_token_ids' = [r \in Requests |->
                           IF config.async \/ r \notin {e.req : e \in live} \ ends
                           THEN spec_token_ids[r]
                           ELSE IF r \in found THEN Own(Min({proposed, controller'.active_k}))
                           ELSE NoTokens]
    /\ in_flight' = Tail(in_flight)
    /\ blocked' = FALSE
    /\ UNCHANGED <<config, shared_len, pass, preemptions, resets>>

-----------------------------------------------------------------------------
(* Clients *)

AddRequest(r) ==
    /\ pass = Idle /\ ~blocked /\ status[r] = "none"
    /\ status' = [status EXCEPT ![r] = "waiting"]
    /\ waiting' = Append(waiting, r)
    /\ UNCHANGED <<config, running, finished_req_ids, counters, shared_len, controller, pass, in_flight, blocked,
                   preemptions, resets>>

\* finish_requests; aborts are also taken while an output is awaited.
Abort(r) ==
    /\ config.commands /\ pass = Idle /\ r \in Unfinished
    /\ status' = [status EXCEPT ![r] = "finished"]
    /\ finished_req_ids' = finished_req_ids \cup {r}
    /\ running' = Without(running, {r})
    /\ waiting' = Without(waiting, {r})
    /\ UNCHANGED <<config, counters, shared_len, controller, pass, in_flight, blocked,
                   preemptions, resets>>

\* reset_prefix_cache(reset_running_requests=True).
ResetRunning ==
    /\ config.commands /\ pass = Idle /\ ~blocked /\ resets < MaxResets
    /\ LET gone == ToSet(running)
       IN  /\ waiting' = running \o waiting
           /\ running' = << >>
           /\ status' = [r \in Requests |-> IF r \in gone THEN "waiting" ELSE status[r]]
           /\ num_computed_tokens' = [r \in Requests |->
                  IF r \in gone THEN 0 ELSE num_computed_tokens[r]]
           /\ num_output_placeholders' = [r \in Requests |->
                  IF r \in gone THEN 0 ELSE num_output_placeholders[r]]
           /\ spec_token_ids' = [r \in Requests |->
                  IF r \in gone THEN NoTokens ELSE spec_token_ids[r]]
           /\ discard' = [r \in Requests |-> discard[r] \/ r \in gone]
    /\ resets' = resets + 1
    /\ UNCHANGED <<config, finished_req_ids, num_tokens, shared_len, controller, pass, in_flight,
                   blocked, preemptions>>

Engine ==
    \/ StartSchedule \/ ScheduleRunning \/ EndRunning \/ ScheduleWaiting \/ FinishSchedule
    \/ UpdateFromOutput

Next ==
    \/ Engine
    \/ \E r \in Requests : AddRequest(r) \/ Abort(r)
    \/ ResetRunning

Spec == Init /\ [][Next]_vars

\* The busy loop goes on while there is work, and the workers answer every call.
FairSpec == Spec /\ WF_vars(Engine)

-----------------------------------------------------------------------------
(* Properties. *)

\* The steps in flight whose output r will get.  The oldest output of a request
\* that was reset is thrown away.
Expected(r) ==
    {i \in DOMAIN in_flight :
        /\ ~(discard[r] /\ i = 1)
        /\ \E e \in ToSet(in_flight[i].entries) : e.req = r /\ e.samples}

\* Tokens that may come back for r: of each step the drafts that the workers
\* were sent, and one more.
Awaited(r) ==
    SumFunction([i \in Expected(r) |->
        SumSet({e.sent + 1 : e \in {e \in ToSet(in_flight[i].entries) : e.req = r}})])

\* Whatever is accepted, rejected, preempted or discarded, and however the
\* number of drafts changes meanwhile, num_output_placeholders of a request is
\* exactly what its steps in flight may still return.
PlaceholdersAreInFlight ==
    config.async => \A r \in Unfinished : num_output_placeholders[r] = Awaited(r)

\* num_computed_tokens of a running request never counts a position that no
\* step computes: it stays below the tokens it has and the tokens it awaits.
\* The next step starts there, and cache_blocks relies on it.
NoPositionSkipped ==
    pass = Idle =>
        \A r \in ToSet(running) : num_computed_tokens[r] < num_tokens[r] + Awaited(r)

\* The worker's check "Scheduled draft tokens exceed active K": wherever the
\* controller moves the number of drafts, it announces one in its range with a
\* batch, and no entry of the batch has more drafts than that.
DraftsWithinActiveK ==
    \A i \in DOMAIN in_flight :
        /\ config.max_k > 0 => in_flight[i].active_k \in 1..config.max_k
        /\ \A e \in ToSet(in_flight[i].entries) : e.sent <= in_flight[i].active_k

\* No step is scheduled for a request whose steps in flight are sure to reach
\* max_tokens even if all their drafts are rejected.
NoUselessStep ==
    [][\A e \in ToSet(IF Len(in_flight') > Len(in_flight) THEN Last(in_flight').entries
                      ELSE << >>) :
          num_tokens[e.req] + Cardinality(Expected(e.req)) < PromptLen[e.req] + MaxTokens]_vars

\* Every request ends: no combination of placeholders, rejections and length
\* limits leaves a request that is never scheduled again.
EveryRequestDone == \A r \in Requests : (r \in Unfinished) ~> (r \notin Unfinished)
=============================================================================
