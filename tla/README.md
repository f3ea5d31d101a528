# Verification of the vLLM V1 engine core

TLA+ models, TLC runs and TLAPS proofs for the part of this repository that
decides which request gets which memory when, and that keeps the processes of an
engine in step: the scheduler, the caches under it, the executor's message
queue and the data-parallel waves (`vllm/vllm/v1/core`, `engine`, `executor`).
All paths below are relative to `src/vllm/vllm/v1/` unless they start with `src/`.

## 1. The system

| part | state | operations | interacts with |
|---|---|---|---|
| KV cache manager (`core/kv_cache_manager.py`, `core/single_type_kv_cache_manager.py`, `core/block_pool.py`) | block tables, reference counts, free queue, hash of each block, hash map, number of cached blocks per request | get_computed_blocks, can_fit_full_sequence, allocate_slots, cache_blocks, free, evict_blocks, reset_prefix_cache, get_num_common_prefix_blocks | called by the scheduler only |
| Free block queue (`core/kv_cache_utils.py`) | doubly linked list through the blocks, two sentinels, a counter | popleft, popleft_n, remove, append, append_n | block pool |
| Scheduler (`core/sched/scheduler.py`, `request_queue.py`) | requests with status and num_computed_tokens, queues running / waiting / skipped_waiting, pause state, finished and received ids | add_request, schedule, update_from_output, finish_requests, set_pause_state, reset_prefix_cache | KV cache manager, KV connector, engine loop |
| Asynchronous scheduler, speculative decoding (`core/sched/async_scheduler.py`) | output placeholders, draft tokens, discard flag | _update_after_schedule, _update_request_with_output | scheduler, worker |
| Acceptance-rate controller (`core/sched/scheduler.py:68-232`) | active_k and a window of counts | observe | scheduler |
| Encoder cache manager (`core/encoder_cache_manager.py`) | cached, freeable, freed, two slot counters | check_and_update_cache, can_allocate, allocate, free_encoder_input, free, reset | scheduler, worker |
| Engine loop (`engine/core.py`) | input queue, aborts queue, batch queue | step, step_with_batch_queue, busy loop | scheduler, executor |
| Data-parallel coordination (`engine/coordinator.py`, `engine/core_client.py`, `engine/core.py:1653-1830`) | wave numbers, running flags, request counts | start wave, wave complete, stats | front ends, engines |
| Output processor, AsyncLLM (`engine/output_processor.py`, `engine/async_llm.py`) | request states, per-request collectors | add_request, process_outputs, abort | front end, engine client |
| Executor message queue (`src/vllm/vllm/distributed/device_communicators/shm_broadcast.py`) | ring of chunks with a written flag and reader flags | acquire_write, acquire_read | engine, workers |
| KV offloading, KV connectors, worker, Ascend plugin, Mooncake store | see `PROJECT.json` | | |

What is hard about it: up to `batch_queue_size` batches are in flight while the
scheduler already works on the next one; an output arrives for a request that
has been preempted, aborted, reset or resumed meanwhile; blocks are shared by
content, kept after use, reused in LRU order, and entered into the prefix cache
*before* they are computed; loads from a connector finish late, in part, or for
requests that no longer exist. Around the scheduler, processes without locks or
acknowledgements must agree on what is in a shared chunk, on which answer
belongs to which call, and on whether a wave of requests is over.

## 2. Modules

| module | models | source |
|---|---|---|
| `BlockLists` | ceiling division, removal from a list | helpers |
| `KVCacheManager` | the KV cache manager for one full-attention group | `core/kv_cache_manager.py`, `core/single_type_kv_cache_manager.py`, `core/block_pool.py` |
| `FreeBlockList` | what the free queue promises: a sequence | abstract |
| `FreeKVCacheBlockQueue` | the doubly linked list | `core/kv_cache_utils.py` |
| `Scheduler` (extends `KVCacheManager`) | scheduler, engine loop, connector and worker as seen by the scheduler | `core/sched/scheduler.py`, `engine/core.py` |
| `AsyncScheduler` | placeholders, draft tokens, acceptance-rate controller | `core/sched/async_scheduler.py`, `core/sched/scheduler.py` |
| `EncoderCacheManager` | the methods of the encoder cache manager, on a record | `core/encoder_cache_manager.py` |
| `EncoderScheduling` (extends it) | the scheduler's calls of it and the worker's copy | `core/sched/scheduler.py`, worker external |
| `BroadcastChannel` | what the message queue promises: everybody gets every message, in order | abstract |
| `MessageQueue` | the ring in shared memory | `src/vllm/vllm/distributed/device_communicators/shm_broadcast.py` |
| `MultiprocExecutor` (extends it) | remote calls, futures, worker loop | `executor/multiproc_executor.py` |
| `DPWaves` | API servers, coordinator, engines | `engine/core_client.py`, `engine/coordinator.py`, `engine/core.py` |
| `MC...` | constants for TLC | |
| `BlockListTheorems`, `KVCacheInvariant`, `KVCacheMethods`, `KVCacheManagerProofs` | proofs about `KVCacheManager` | |
| `FreeBlockQueueLinks`, `FreeBlockQueueProofs` | proofs about `FreeKVCacheBlockQueue` | |
| `DPWavesProofs` | proofs about `DPWaves` | |

**KVCacheManager.** The variables carry the names of the fields:
`req_to_blocks`, `num_cached_block`, `ref_cnt`, `block_hash`, `free_queue`
(the order of the linked list), `cached` (BlockHashToBlockMap, as a set of pairs
of hash and block). Each public method that changes state is an action with the
method's arguments. The chained block hash is modelled by the token prefix it
is computed from, that is, without collisions. `Next` is the weakest caller:
any request may allocate, be freed, be cached, grow, or lose cached blocks at
any time the methods allow it.

**Scheduler.** schedule() and update_from_output() are cut into one step per
call of the KV cache manager, in the order of the code; `pc` says where the
engine thread is, `sch` and `upd` hold the methods' local variables. Clients act
only where the engine polls: requests, pauses and resets at `pc = "idle"`, aborts
also at `pc = "await"` (`_process_aborts_queue` before an output is processed).
The worker is represented by `kv`, the token prefix for which each block holds
right keys and values: a batch reads and writes it when it is sent, since the
worker runs batches in order; a freshly allocated block holds nothing. Each entry
of a batch remembers whether all it read was right. The connector is a set of
abilities (`sync`, `async`, `unsure`, `send`); the amounts it can load and the
loads that fail are nondeterministic. `FINISHED` stands for every finished status
of a request that is still in `self.requests`, `GONE` for one that has left it.

Abstractions: tokens are drawn from a set of two; sampling appends any token and
may stop at any token (end of sequence, stop strings, max_tokens), and stops at
max_model_len. A candidate of the waiting loop that is skipped because of LoRA
limits behaves like one for which the connector is `unsure`.

**FreeKVCacheBlockQueue.** Links, counter and sentinels as in the code, and one
action per method; `returned` is the result of the last call, an exception
included, and `taken` what the block pool has in hand. The mapping to `FreeBlockList`
reads the list off the links the way get_all_free_blocks does.

**AsyncScheduler.** Tokens are counted, not named: num_tokens,
num_computed_tokens, num_output_placeholders and the drafts of each request. The
placeholder list that all requests and all batches in flight share is one object in
the model as in the code. The worker accepts any number of the drafts it was
sent. The scheduling pass is one action per request it looks at; KV blocks are
reduced to whether allocate_slots fails. `config` chooses the executor (a uniproc
executor has its answer before the next step), the drafts and the commands.

**EncoderScheduling.** The manager is a record that its methods transform; a pass
of schedule() is one action per request, and the worker runs between them. The
worker's `encoder_cache` learns of evictions only with a batch. Every placeholder
position takes one embedding.

**MessageQueue, MultiprocExecutor.** Each load is a step; a store enters the store
buffer of its process and drains later, in order on a machine with total store
order. `memory_fence` waits for an empty buffer. Large messages go over
a socket, idle readers sleep until pinged. The executor adds the order-based
matching of answers with calls; a response queue is a sequence, which is what
`ImplementsBroadcastChannel` shows of a queue with one reader.

**DPWaves.** Channels are sequences whose messages arrive when they are taken.
Engines handle what has arrived, then run a pass together with all
others (`ForwardPass`) and, every SyncInterval steps, an all-reduce (`AllReduce`);
an engine that waits in a collective does nothing else. FIRST_REQ names an
engine by its identity (bytes) and the engine compares it with its
index (`engine/core.py:1743`), so nobody is left out of a start of a wave.
The model follows the code in this, not the docstring of `_send_start_wave`.

## 3. Runs

Most modules have a variable (`config`, `setting`) chosen in Init from a constant
(`Configs`, `Settings`), so that a run covers several configurations.

Passing runs:

| run | question |
|---|---|
| `kv_cache_manager` | Is the bookkeeping exact under any caller: counts, free queue, hashes, sharing, common prefix? (That the hash map is exact and that all state keeps its type is proved.) |
| `free_block_queue` | Does the linked list implement a sequence, for every order of calls? |
| `scheduler` | Three requests, two seats, three blocks, two batches in flight: outputs, contents and shape of the prefix cache, whatever is preempted and resumed. |
| `scheduler_transfers` | Three configurations: loads and sends in every mode while requests are aborted; asynchronous loads that fail in part and are recomputed; pause, reset, forced reset and abort without chunked prefill and without the full-sequence gate. Is a block held as long as a transfer needs it and no longer, and used only once it is right? Do queues and statuses agree throughout? |
| `scheduler_contract` | Does the scheduler use the manager as `KVCacheManager!Spec` allows? The theorems then carry over to it. |
| `scheduler_liveness` | Under each policy, is every request answered, and are the limits of a batch kept when a request already scheduled in this step is the victim? |
| `async_scheduler` | Are placeholders always exactly what the steps in flight may return? Is no position skipped, no step useless, every request done? |
| `encoder_cache` | Does every batch find the encoder outputs it needs on the worker, although hits and evictions were decided while older batches were in flight? Are slots accounted for, and does every request end? |
| `multiproc_executor` | Is a chunk stable while it is read, does every worker get every call, does an answer belong to its call, does every waiting call return? |
| `dp_waves` | Do the collectives of the engines match, does everybody count the same waves, is every request served, does every wave end? |

Runs that expect a violation state what a comment or docstring of the
repository says, and TLC shows an execution of the code that contradicts it:

| run | what happens |
|---|---|
| `priority_preemption` | a request scheduled and then preempted in one step leaves uncomputed blocks in the prefix cache |
| `async_shared_list` | the controller lowers active_k, the shared placeholder list is shortened in place, and a request keeps placeholders for tokens that will never come |

**Configurations left out of the passing runs.** The models violate the named
property in the following cases. These are executions of the models; they have
not been replayed against the Python code or on a device.

`Scheduler`:

- three batches in flight and a connector that is unsure: a request that stops while in
  skipped_waiting stays there (`QueuesMatchStatus`, `core/sched/scheduler.py:1823`);
- synchronous loads that fail and end their requests: blocks a second request computed
  from a shared failed block are not evicted (`CachedBlocksAreComputed`,
  `core/sched/scheduler.py:2529`);
- asynchronous loads of parts of two prompts that together hold all blocks: both
  wait for ever (`EveryRequestFinishes`, `core/sched/scheduler.py:1024`);
- three or more batches in flight and an abort: a preempted request resumes before
  its output arrives, and a position is sampled twice (`OutputFollowsTokens`);
- `reset_running` with two batches in flight: the same, since only
  AsyncScheduler reads `discard_latest_async_tokens`;
- synchronous loads that fail with the recompute policy: the blocks keep their
  hashes, and after a preemption they are found as computed (`CachedBlocksAreComputed`);
- synchronous loads that fail while their request is aborted: nothing is evicted
  (`CachedBlocksAreComputed`).

`AsyncScheduler` (`PlaceholdersAreInFlight`, `core/sched/scheduler.py:2226-2229`):

- a forced reset with the uniproc executor: no output is in flight, the flag stays
  and the next real token is discarded;
- a forced reset with a chunk of a prefill, or with drafts, in flight.

`EncoderScheduling`:

- EAGLE, which reads one position ahead (`NoEncoderCacheMiss`, `EveryRequestEnds`,
  `core/sched/scheduler.py:1475`);
- the priority policy: encoder inputs of a request preempted in the step that
  scheduled them stay in the cache but are never computed (`NoEncoderCacheMiss`).

`MultiprocExecutor`:

- calls answered by all workers of which one fails: the other answers stay in their
  queues and are taken for the next call (`AnswersBelongToCall`,
  `executor/multiproc_executor.py:389`). Calls answered by `output_rank` alone,
  the ones made in every step, are not affected. The same holds for a timeout after
  which the engine would go on; the run has timeouts of calls after which it stops;
- stores out of order (TotalStoreOrder = FALSE): nothing orders the reset of the
  written flag before the reset of the read flags (`ChunkIsStable`,
  `src/vllm/vllm/distributed/device_communicators/shm_broadcast.py:576-588`).

`DPWaves`:

- pause and resume, and then an abort or another pause before the engine that
  sent start_wave steps: it never joins the pass that the others have begun
  (`WavesEnd`, `engine/core.py:1726-1736`).

**Bounds.**

- *Scheduler and KV cache*: two or three requests of two or three (up to six)
  tokens, three blocks of two tokens, sequences of at most five tokens. Three
  blocks for two requests that may each need three force preemption, eviction and
  reuse; prompts that agree on the first token only or on a whole block give
  shared, partly shared and private blocks; a budget of three tokens forces
  chunks; two batches in flight are the smallest number at which an output can
  be late. Two tokens suffice to tell a right prefix from a wrong one.
  `MCPriorityPreemption` needs a longer prompt (six blocks of one token) because
  the victim must be scheduled first and the later request must then lack a block.
- *Free queue*: four blocks in every order in which they can lie in the list; the
  proof does without the bound.
- *AsyncScheduler*: two requests, up to three drafts, four output tokens, one
  failing allocation, one forced reset. The controller looks at every step
  (IntervalSteps = 1), so that it moves within a run of that length; twelve output
  tokens in `async_shared_list` give it time to rise and fall.
- *Encoder cache*: three slots, three inputs of one or two embeddings that three
  requests share, budget of two, two batches in flight: an input can be evicted,
  encoded again and read while the eviction is still on its way.
- *Executor*: two workers, a ring of two chunks and three calls, so that the ring
  wraps around while a reader lags.
- *DP waves*: two engines, two API servers, two requests of one and two steps, an
  all-reduce every second step. A request can arrive before, in and after the
  end of a wave, at an idle or a busy engine. The proofs cover any number.

Symmetry is used only in the run of the KV cache manager, on request ids, which
that module only compares for equality. Deadlock is not checked where the
modelled system may rest: a manager nobody calls, engines without requests.

**Fairness.**

- `Scheduler`: weak fairness of the engine's steps (the busy loop never stops while
  there is work) and strong fairness of the report of each started load (a
  transfer that was started ends and is reported with one of the outputs).
- `AsyncScheduler`, `EncoderScheduling`: weak fairness of the engine, for the latter
  of engine or worker, neither of which can go on for ever without the other.
- `MultiprocExecutor`: weak fairness of the engine with the draining of stores, and
  of each worker: all are busy loops, and a store reaches memory.
- `DPWaves`: weak fairness of the system as a whole. No message of the published
  state is required to arrive.

No fairness is assumed of clients, of aborts and pauses, of timeouts, and none
of a request's stopping: max_tokens and max_model_len end it.

## 4. Proofs

**KV cache manager.** `KVCacheManagerProofs` proves, for every number of requests, blocks and tokens and
every block size, from the assumption `KVAssumption` on the constants:
`InvariantHolds`, `TypeCorrect`, `RefCountsExact`, `NoBlockLeaks`, `HashMapExact`,
`UncachedPrivate`, `SharingIsSound`, `HashesMatchHolders`, `CascadePrefixSound`.

The inductive invariant `Inv` has two parts. `Counted`: a reference count is the
number of tables with the block, and the free queue lists exactly the blocks with
count zero, once each. `Coherent`: the map is the inverse of the hashes; a block
past the cached prefix of a request has no hash and no other holder; two requests
share a block only at the same index and with the same tokens up to its end; the
hash of a held block is that of its holder. None of the properties is inductive
alone: that a touched block is not handed out again needs the free queue to be
exact, that caching a block gives it the right hash needs it to be private, and
that needs the hit blocks to agree with the tokens. An allocation is followed in
two stages (take and evict, then cache), which is why the parts take the state
as parameters. `BlockListTheorems` has the facts on lists and ceiling division.

**Free block queue.** `FreeBlockQueueProofs` proves, for every number of blocks
(`QueueAssumption`), `LinksAlwaysFormAList` and `LinkedListImplementsList`: the
specification of the linked list implies that of the sequence under the mapping
by which get_all_free_blocks reads it. The inductive invariant `QueueInv` says that
some list of distinct blocks, with the sentinels around it, is what the next and
the prev links spell out, that its length is the counter, and that the
blocks in it are those not taken. The mapping follows links, so that it yields that
list is a fact about chains of any length: `FreeBlockQueueLinks` proves it with a
least counterexample (`LeastNat`, from the well-foundedness of the naturals), and
with it that unlinking in the middle, taking n from the front and appending n
give the expected lists. So `free_queue` of `KVCacheManager` may be a sequence.

**Data-parallel waves.** `DPWavesProofs` proves, for any number of engines,
clients, requests and any interval (`DPConstants`), `CollectivesAlwaysMatch` and
`WavesStayInStep`. Matching collectives are not inductive: an engine enters the
all-reduce because of its own counter. The invariant `Inv` adds that the step
counters agree and that either all engines or none are at the all-reduce
(`StepsAgree`), that engines agree on the wave (`WavesAgree`), and that no state
and no message in a channel names a wave the engines have not reached, while
wave_complete names one they have left (`NobodyAhead`). The
branch of add_request for a request of a later wave (`engine/core.py:1713`) is
therefore not taken without elastic scaling.

Only model-checked: `CacheIsPrefixClosed` and everything about the scheduler, the
asynchronous scheduler, the encoder cache and the executor. Liveness under
fairness and ENABLED are outside what the prover handles, and so are theorems on
recursive definitions that need an induction principle with an operator as
parameter; where a least counterexample suffices, as above, they are not.

## 5. Not modelled, and the plan

Within the modelled files: other attention types (sliding window, chunked local,
Mamba) and hybrid groups, structured output and streaming waits, LoRA limits, KV
events and statistics; grammars on draft tokens; the manager for
encoder-decoder models; remote readers and start-up of the message queue, death of
a worker and shutdown of the executor; load balancing, elastic scaling and
several batches per engine in the data-parallel engines. `PROJECT.json` lists every
part of the system with its status and every known hazard, those without a
property included.

The models cover a small share of the repository's lines. The repository holds three
systems (vLLM, its Ascend plugin, Mooncake), and by far most of it is model
definitions, kernels, quantization, multimodal preprocessing, device code, API
servers, configuration and benchmarks: numeric code, I/O or tables, with no
states to explore. The part whose correctness depends on the order of events
is a few ten thousand lines; the modules above take its core.

Plan, in this order:

1. Sliding window and hybrid cache groups: the hit length of several groups, null
   blocks.
2. KV offloading: CPU block pool with pending transfers.
3. Output processor: request streams, abort and merging of collectors.
4. Engine failure and elastic scaling in `DPWaves`, death of a worker in
   `MultiprocExecutor`.
5. Mooncake master service: leases, eviction, replica states.
6. Proofs: the queue and status bookkeeping of the scheduler, that it implements
   `KVCacheManager!Spec` (now checked by `scheduler_contract`), and that the ring
   implements the channel.
