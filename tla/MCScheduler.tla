----------------------------- MODULE MCScheduler -----------------------------
(* Constants of the TLC runs of module Scheduler. *)
EXTENDS Scheduler

\* Two prompts that share their first block and differ in the second.
MCPrompts == {<<1, 1, 1>>, <<1, 2>>}

\* One long prompt and one short one, for blocks of a single token.
MCLongPrompts == {<<1, 1, 1, 1, 1, 1>>, <<2>>}

\* With the priority policy later requests are served first.
MCPriority == [r \in Requests |-> Cardinality(Requests) - r]

\* Two batches in flight, no connector, no commands.
Plain == [policy |-> "fcfs", chunked |-> TRUE, reserve |-> TRUE, batches |-> 2,
          connector |-> {}, failures |-> FALSE, recompute |-> FALSE, commands |-> {}]
MCPlain == {Plain}

\* Each policy.
MCPolicies == {[Plain EXCEPT !.policy = p] : p \in Policies}

\* A connector that can do everything while requests are aborted; asynchronous
\* loads that fail and are recomputed; every command, between two steps of an
\* engine that neither splits prompts nor reserves whole ones.
MCTransfers ==
    {[Plain EXCEPT !.connector = ConnectorModes, !.commands = {"abort"}],
     [Plain EXCEPT !.connector = {"async"}, !.failures = TRUE, !.recompute = TRUE],
     [Plain EXCEPT !.batches = 1, !.chunked = FALSE, !.reserve = FALSE,
                   !.commands = ClientCommands]}

\* Loads that fail and end their requests; aborts with two batches in flight.
MCContract ==
    {[Plain EXCEPT !.batches = 1, !.connector = {"sync", "async"}, !.failures = TRUE],
     [Plain EXCEPT !.commands = {"abort"}]}

\* The priority policy alone, one batch at a time.
MCPriorityPolicy == {[Plain EXCEPT !.batches = 1, !.policy = "priority"]}
=============================================================================
