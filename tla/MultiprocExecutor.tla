-------------------------- MODULE MultiprocExecutor --------------------------
(***************************************************************************)
(* Remote calls of MultiprocExecutor (multiproc_executor.py): the engine   *)
(* broadcasts a call through rpc_broadcast_mq, module MessageQueue, every  *)
(* worker executes it, and the workers that shall answer put an answer     *)
(* into their response queue.  The engine matches answers with calls by    *)
(* their order alone: it keeps its calls in futures_queue and takes for    *)
(* the oldest one the next answer of each queue it expects one from.       *)
(*                                                                         *)
(* A response queue is a MessageQueue with one reader and hence, by        *)
(* ImplementsBroadcastChannel, a sequence.  Results of methods are left    *)
(* out: an answer is the number of its call and whether it succeeded.      *)
(***************************************************************************)
EXTENDS MessageQueue

CONSTANTS
    OutputRank, \* output_rank, the worker that answers most calls
    MaxCalls,   \* bound: calls of the engine
    Settings    \* the settings a run explores

AllRanks == 0   \* every worker answers (None in the code)
Calls == [call : 1..MaxCalls, output_rank : {AllRanks, OutputRank}]
CallsToAll == {m \in Calls : m.output_rank = AllRanks}

VARIABLES
    setting,    \* non_block: whether calls may be made without waiting;
                \* fail, expire: output_rank of calls that may fail, run out of time
    num_calls,  \* calls made
    block,      \* whether the call being made waits for its answer
    futures,    \* futures_queue, oldest first
    awaited,    \* the future whose result() is running, 0 when none is
    responses,  \* responses[r]: response_mqs[r]
    result,     \* result[n]: state, output_rank and answers of the future of call n
    stopped     \* the engine has ended with an error

rpc == <<setting, num_calls, block, futures, awaited, responses, result, stopped>>
executor_vars == <<queue_vars, rpc>>

Init ==
    /\ QueueInit
    /\ setting \in Settings
    /\ num_calls = 0
    /\ block = FALSE
    /\ futures = << >>
    /\ awaited = 0
    /\ responses = [r \in Readers |-> << >>]
    /\ result = [n \in 1..MaxCalls |-> [state |-> "none", rank |-> 0, answers |-> << >>]]
    /\ stopped = FALSE

-----------------------------------------------------------------------------
(* The engine *)

\* collective_rpc until enqueue.
CollectiveRpc(rank) ==
    /\ awaited = 0 /\ ~stopped /\ num_calls < MaxCalls
    /\ Enqueue([call |-> num_calls + 1, output_rank |-> rank])
    /\ num_calls' = num_calls + 1
    /\ block' \in {TRUE, ~setting.non_block}
    /\ UNCHANGED <<setting, futures, awaited, responses, result, stopped>>

\* The queues that get_response reads, in this order.
ResponseQueues(rank) == IF rank = AllRanks THEN [r \in Readers |-> r] ELSE <<rank>>

\* The end of enqueue and the rest of collective_rpc.
MakeFuture ==
    /\ Notify
    /\ LET m == message[Writer]
       IN  /\ futures' = Append(futures, [call |-> m.call,
                                          queues |-> ResponseQueues(m.output_rank)])
           /\ awaited' = IF block THEN m.call ELSE 0
           /\ result' = [result EXCEPT ![m.call].state = "pending",
                                       ![m.call].rank = m.output_rank]
    /\ block' = FALSE
    /\ UNCHANGED <<setting, num_calls, responses, stopped>>

\* An error in a step of the model ends the engine; that of a call to all
\* workers is reported to the client.
Fatal(n) == result[n].rank # AllRanks

\* future.result() of a call that was made without waiting.
Result(n) ==
    /\ at[Writer] = "ready" /\ awaited = 0 /\ ~stopped
    /\ \/ result[n].state = "pending" /\ awaited' = n /\ UNCHANGED stopped
       \/ result[n].state = "failed" /\ Fatal(n) /\ stopped' = TRUE /\ UNCHANGED awaited
    /\ UNCHANGED <<queue_vars, setting, num_calls, block, futures, responses, result>>

\* The future at the head of the queue, of call n, is done or has failed.
Resolve(n, state) ==
    /\ result' = [result EXCEPT ![n].state = state]
    /\ futures' = Tail(futures)
    /\ awaited' = IF awaited = n THEN 0 ELSE awaited
    /\ stopped' = (awaited = n /\ state = "failed" /\ Fatal(n))

\* The future that result() takes from the queue.
Oldest == Head(futures)

\* One round of get_response for the oldest future.
GetResponse ==
    /\ awaited # 0
    /\ LET n == Oldest.call
           r == Head(Oldest.queues)
           answer == Head(responses[r])
           taken == [result EXCEPT ![n].answers = Append(@, answer.call)]
       IN  /\ responses[r] # << >>
           /\ responses' = [responses EXCEPT ![r] = Tail(@)]
           /\ \/ ~answer.success /\ Resolve(n, "failed")
              \/ /\ answer.success /\ Len(Oldest.queues) = 1
                 /\ result' = [taken EXCEPT ![n].state = "done"]
                 /\ futures' = Tail(futures)
                 /\ awaited' = IF awaited = n THEN 0 ELSE awaited
                 /\ UNCHANGED stopped
              \/ /\ answer.success /\ Len(Oldest.queues) > 1
                 /\ result' = taken
                 /\ futures' = [futures EXCEPT ![1].queues = Tail(@)]
                 /\ UNCHANGED <<awaited, stopped>>
    /\ UNCHANGED <<queue_vars, setting, num_calls, block>>

\* dequeue raises TimeoutError.
ResponseTimeout ==
    /\ awaited # 0
    /\ result[Oldest.call].rank \in setting.expire
    /\ responses[Head(Oldest.queues)] = << >>
    /\ Resolve(Oldest.call, "failed")
    /\ UNCHANGED <<queue_vars, setting, num_calls, block, responses>>

-----------------------------------------------------------------------------
(* A worker *)

\* Mutant: every worker answers every call.
BugAnswers(r, m) == TRUE

\* The worker shall answer, also when the method has raised an exception.
Answers(r, m) == m.output_rank \in {AllRanks, r}

\* worker_busy_loop between two calls of dequeue, with handle_output and
\* enqueue_output.
Execute(r) ==
    /\ Dequeue(r)
    /\ \E success \in {TRUE, message[r].output_rank \notin setting.fail} :
        responses' = IF Answers(r, message[r])
                     THEN [responses EXCEPT ![r] =
                              Append(@, [call |-> message[r].call, success |-> success])]
                     ELSE responses
    /\ UNCHANGED <<setting, num_calls, block, futures, awaited, result, stopped>>

-----------------------------------------------------------------------------

Engine ==
    \/ (AcquireWrite \/ Publish \/ ReleaseWrite) /\ UNCHANGED rpc
    \/ MakeFuture
    \/ GetResponse

Worker(r) == (Reading(r) /\ UNCHANGED rpc) \/ Execute(r)

Drained == \E p \in Processes : Drain(p) /\ UNCHANGED rpc

Next ==
    \/ Engine \/ ResponseTimeout
    \/ \E rank \in {AllRanks, OutputRank} : CollectiveRpc(rank)
    \/ \E n \in 1..MaxCalls : Result(n)
    \/ \E r \in Readers : Worker(r)
    \/ Drained

Spec == Init /\ [][Next]_executor_vars

\* Every process runs, and stores reach memory.
FairSpec ==
    /\ Spec
    /\ WF_executor_vars(Engine \/ Drained)
    /\ \A r \in Readers : WF_executor_vars(Worker(r))

-----------------------------------------------------------------------------
(* Properties *)

\* A call that succeeds returns the answers of its workers to this very call.
\* Order is all that ties an answer to a call, so this depends on every earlier
\* call having taken all of its answers.
AnswersBelongToCall ==
    \A n \in 1..MaxCalls :
        \A i \in DOMAIN result[n].answers : result[n].answers[i] = n

\* Every call that waits for its answer gets it.
EveryCallReturns == (awaited # 0) ~> (awaited = 0)
=============================================================================
