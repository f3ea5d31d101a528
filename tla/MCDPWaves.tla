----------------------------- MODULE MCDPWaves -----------------------------
(* Two engines, two API servers with a request each; generation is paused    *)
(* and resumed once, or requests are aborted.                                *)
EXTENDS DPWaves

CONSTANTS c1, c2, r1, r2

MCClientOf == [r \in Requests |-> IF r = r1 THEN c1 ELSE c2]
MCSteps == [r \in Requests |-> IF r = r1 THEN 1 ELSE 2]

Setting(requests, aborts, modes) ==
    [requests |-> requests, aborts |-> aborts, modes |-> modes]

MCSettings == {Setting({r1, r2}, {r1}, {}), Setting({r1}, {}, Modes)}
=============================================================================
