-------------------------- MODULE MCAsyncScheduler --------------------------
(* Instances of AsyncScheduler for TLC. *)
EXTENDS AsyncScheduler

MCPromptLen == <<3, 2>>

Setting(async, uniproc, k, budget, commands) ==
    [async |-> async, uniproc |-> uniproc, max_k |-> k, budget |-> budget,
     commands |-> commands]

\* At most one draft token a step, with prefills in chunks and either executor;
\* no drafts and prompts in one piece, with aborts and forced resets; drafts
\* without asynchronous scheduling.
MCConfigs ==
    {Setting(TRUE, TRUE, 1, 3, FALSE), Setting(TRUE, FALSE, 0, 16, TRUE),
     Setting(FALSE, TRUE, 3, 4, FALSE)}

\* Asynchronous scheduling with an adaptive number of draft tokens.
MCAdaptive == {Setting(TRUE, FALSE, 3, 8, FALSE)}
=============================================================================
