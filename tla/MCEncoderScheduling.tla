------------------------- MODULE MCEncoderScheduling -------------------------
(* Instances of EncoderScheduling for TLC. *)
EXTENDS EncoderScheduling

CONSTANTS h1, h2, h3

MCEmbeds == h1 :> 1 @@ h2 :> 2 @@ h3 :> 1
MCPromptLen == <<4, 5, 2>>
MCInputs == << <<<<1, 1, h3>>, <<2, 2, h2>>>>, <<<<0, 2, h2>>, <<3, 1, h1>>, <<4, 1, h1>>>>,
              <<<<0, 1, h3>>, <<1, 1, h1>>>> >>

Base == [policy |-> "fcfs", eagle |-> FALSE, whole |-> FALSE, commands |-> FALSE]
MCConfigs ==
    {[Base EXCEPT !.commands = TRUE], [Base EXCEPT !.whole = TRUE]}
=============================================================================
