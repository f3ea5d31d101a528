--------------------------- MODULE DPWavesProofs ---------------------------
(* Proofs about data parallel waves for every number of engines, API servers *)
(* and requests, every SyncInterval, and any mix of aborts and pauses.       *)
EXTENDS DPWaves, TLAPS

Names == {"bytes", "int", "None"} \X Engines
States == [wave : Nat, running : BOOLEAN]
InputMsgs == [type : {"ADD"}, req : Requests, wave : Nat]
             \cup [type : {"ABORT"}, req : Requests]
             \cup [type : {"PAUSE"}, mode : Modes]
             \cup [type : {"RESUME"}]

FrontMsgs == [engine : Names, wave : Nat]
StartMsgs == [wave : Nat, exclude : Names]
OutputMsgs == [type : {"wave_complete", "start_wave"}, wave : Nat]

(* What the channels and the processes hold. *)
TypeInv ==
    /\ client \in [Clients -> [wave : Nat, running : BOOLEAN, seen : Nat \ {0}]]
    /\ first_reqs \in [Clients -> Seq(Engines)]
    /\ chosen_engine \in [Requests -> Engines]
    /\ input_q \in [Clients -> [Engines -> Seq(InputMsgs)]]
    /\ front_q \in [Clients -> Seq(FrontMsgs)]
    /\ published \in Seq(States)
    /\ start_q \in [Engines -> Seq(StartMsgs)]
    /\ output_q \in [Engines -> Seq(OutputMsgs)]
    /\ coordinator \in States
    /\ pc \in [Engines -> {"input", "forward", "reduce"}]
    /\ current_wave \in [Engines -> Nat]
    /\ step_counter \in [Engines -> Nat]

(* The engines have taken the same number of steps and stand at the          *)
(* all-reduce together.                                                      *)
StepsAgree ==
    \A e, f \in Engines : /\ step_counter[e] = step_counter[f]
                          /\ pc[e] = "reduce" <=> pc[f] = "reduce"

WavesAgree == \A e, f \in Engines : current_wave[e] = current_wave[f]

(* No state and no message names a wave the engines have not reached, and    *)
(* wave_complete names one they have left.                                   *)
NobodyAhead ==
    /\ coordinator.wave <= current_wave[0]
    /\ \A c \in Clients : client[c].wave <= coordinator.wave
    /\ \A i \in 1..Len(published) : published[i].wave <= coordinator.wave
    /\ \A c \in Clients, e \in Engines : \A i \in 1..Len(input_q[c][e]) :
          input_q[c][e][i].type = "ADD" => input_q[c][e][i].wave <= coordinator.wave
    /\ \A e \in Engines : \A i \in 1..Len(start_q[e]) :
          start_q[e][i].wave <= coordinator.wave
    /\ \A e \in Engines : \A i \in 1..Len(output_q[e]) :
          /\ output_q[e][i].wave <= current_wave[0]
          /\ output_q[e][i].type = "wave_complete" => output_q[e][i].wave < current_wave[0]

Inv == TypeInv /\ StepsAgree /\ WavesAgree /\ NobodyAhead

-----------------------------------------------------------------------------
LEMMA ZeroIsAnEngine == 0 \in Engines
  BY DPConstants DEF Engines

LEMMA InitInv == DPInit => Inv
<1> SUFFICES ASSUME DPInit PROVE Inv
  OBVIOUS
<1> USE DPConstants, ZeroIsAnEngine
<1>1. TypeInv
  BY DEF DPInit, TypeInv, WaveState, States
<1>2. StepsAgree /\ WavesAgree
  BY DEF DPInit, StepsAgree, WavesAgree
<1>3. NobodyAhead
  BY DEF DPInit, NobodyAhead, WaveState
<1> QED BY <1>1, <1>2, <1>3 DEF Inv

-----------------------------------------------------------------------------
(* The steps of an API server leave the coordinator and the engines alone;   *)
(* what they send carries a wave the coordinator has published.              *)

LEMMA AppendFacts ==
  ASSUME NEW S, NEW q \in Seq(S), NEW m \in S
  PROVE  /\ Append(q, m) \in Seq(S)
         /\ \A i \in 1..Len(Append(q, m)) :
               Append(q, m)[i] = m \/ (i \in 1..Len(q) /\ Append(q, m)[i] = q[i])
  OBVIOUS

LEMMA TailFacts ==
  ASSUME NEW S, NEW q \in Seq(S), q # <<>>
  PROVE  /\ Tail(q) \in Seq(S)
         /\ Head(q) = q[1] /\ 1 \in 1..Len(q) /\ q[1] \in S
         /\ \A i \in 1..Len(Tail(q)) : i + 1 \in 1..Len(q) /\ Tail(q)[i] = q[i + 1]
  OBVIOUS

(* A channel that grows by an allowed message at most, or loses its first    *)
(* one, still holds allowed messages.                                        *)
LEMMA InputChannels ==
  ASSUME Inv, NEW Q, NEW c \in Clients, NEW e \in Engines,
         \/ Q = Tail(input_q[c][e]) /\ input_q[c][e] # <<>>
         \/ Q = input_q[c][e]
         \/ \E m \in InputMsgs : /\ m.type = "ADD" => m.wave <= coordinator.wave
                                 /\ Q = Append(input_q[c][e], m)
  PROVE  /\ Q \in Seq(InputMsgs)
         /\ \A i \in 1..Len(Q) : Q[i].type = "ADD" => Q[i].wave <= coordinator.wave
<1> DEFINE q == input_q[c][e]
<1>1. /\ q \in Seq(InputMsgs)
      /\ \A i \in 1..Len(q) : q[i].type = "ADD" => q[i].wave <= coordinator.wave
  <2>1. q \in Seq(InputMsgs)
    BY DEF Inv, TypeInv
  <2>2. \A i \in 1..Len(q) : q[i].type = "ADD" => q[i].wave <= coordinator.wave
    BY DEF Inv, NobodyAhead
  <2> QED BY <2>1, <2>2
<1>2. CASE Q = q
  BY <1>1, <1>2
<1>3. CASE Q = Tail(q) /\ q # <<>>
  BY <1>1, <1>3, TailFacts
<1>4. ASSUME NEW m \in InputMsgs, m.type = "ADD" => m.wave <= coordinator.wave,
             Q = Append(q, m)
      PROVE  /\ Q \in Seq(InputMsgs)
             /\ \A i \in 1..Len(Q) : Q[i].type = "ADD" => Q[i].wave <= coordinator.wave
  <2> HIDE DEF q
  <2>1. /\ Q \in Seq(InputMsgs)
        /\ \A i \in 1..Len(Q) : Q[i] = m \/ (i \in 1..Len(q) /\ Q[i] = q[i])
    BY <1>1, <1>4, AppendFacts
  <2>2. ASSUME NEW i \in 1..Len(Q), Q[i].type = "ADD"
        PROVE  Q[i].wave <= coordinator.wave
    <3>1. CASE Q[i] = m
      BY Zenon, <1>4, <2>2, <3>1
    <3>2. CASE i \in 1..Len(q) /\ Q[i] = q[i]
      BY Zenon, <1>1, <2>2, <3>2
    <3> QED BY <2>1, <3>1, <3>2
  <2> QED BY <2>1, <2>2
<1> QED BY <1>2, <1>3, <1>4

LEMMA ViewIsAState ==
  ASSUME Inv, NEW c \in Clients, NEW n \in Published(c)
  PROVE  View(c, n).running \in BOOLEAN
<1>1. CASE n = 0
  BY <1>1 DEF Inv, TypeInv, View
<1>2. CASE n # 0
  <2>1. n \in 1..Len(published)
    BY <1>2 DEF Inv, TypeInv, Published
  <2>2. View(c, n) = published[n]
    BY <1>2 DEF View
  <2>3. published[n] \in States
    BY <2>1 DEF Inv, TypeInv
  <2> QED BY <2>2, <2>3 DEF States
<1> QED BY <1>1, <1>2

LEMMA ViewIsPublished ==
  ASSUME Inv, NEW c \in Clients, NEW n \in Published(c), NEW b \in BOOLEAN, Receive(c, n, b)
  PROVE  /\ View(c, n).wave \in Nat
         /\ View(c, n).wave <= coordinator.wave
         /\ View(c, n).running \in BOOLEAN
         /\ client' \in [Clients -> [wave : Nat, running : BOOLEAN, seen : Nat \ {0}]]
         /\ \A d \in Clients : client'[d].wave <= coordinator.wave
<1>1. CASE n = 0
  <2>1. View(c, n) = client[c]
    BY <1>1 DEF View
  <2>2. client' = [client EXCEPT ![c] = [wave |-> client[c].wave, running |-> b,
                                         seen |-> client[c].seen]]
    BY <1>1, <2>1 DEF Receive
  <2>3. /\ client \in [Clients -> [wave : Nat, running : BOOLEAN, seen : Nat \ {0}]]
        /\ \A d \in Clients : client[d].wave <= coordinator.wave
    BY DEF Inv, TypeInv, NobodyAhead
  <2>4. client[c] \in [wave : Nat, running : BOOLEAN, seen : Nat \ {0}]
    BY <2>3
  <2>5. /\ client' \in [Clients -> [wave : Nat, running : BOOLEAN, seen : Nat \ {0}]]
        /\ \A d \in Clients : client'[d].wave = client[d].wave
    BY <2>2, <2>3, <2>4
  <2> QED BY <2>1, <2>3, <2>4, <2>5
<1>2. CASE n # 0
  <2>1. n \in 1..Len(published)
    BY <1>2 DEF Inv, TypeInv, Published
  <2>2. View(c, n) = published[n]
    BY <1>2 DEF View
  <2>3. published[n] \in States /\ published[n].wave <= coordinator.wave
    BY <2>1 DEF Inv, TypeInv, NobodyAhead
  <2>4. /\ View(c, n).wave \in Nat /\ View(c, n).wave <= coordinator.wave
        /\ View(c, n).running \in BOOLEAN
    BY <2>2, <2>3 DEF States
  <2>5. /\ client \in [Clients -> [wave : Nat, running : BOOLEAN, seen : Nat \ {0}]]
        /\ \A d \in Clients : client[d].wave <= coordinator.wave
    BY DEF Inv, TypeInv, NobodyAhead
  <2>6. client' = [client EXCEPT ![c] = [wave |-> View(c, n).wave, running |-> b, seen |-> n]]
    BY <1>2 DEF Receive
  <2> HIDE DEF View
  <2> QED BY <2>1, <2>4, <2>5, <2>6
<1> QED BY <1>1, <1>2

LEMMA AddRequestInv ==
  ASSUME Inv, NEW c \in Clients, NEW r \in Requests, NEW e \in Engines, AddRequest(c, r, e)
  PROVE  Inv'
<1>1. PICK n \in Published(c) :
        /\ Receive(c, n, View(c, n).running)
        /\ input_q' = [input_q EXCEPT ![c][e] =
              Append(@, [type |-> "ADD", req |-> r, wave |-> View(c, n).wave])]
        /\ first_reqs' = IF View(c, n).running THEN first_reqs
                         ELSE [first_reqs EXCEPT ![c] = Append(@, e)]
  BY DEF AddRequest
<1> DEFINE msg == [type |-> "ADD", req |-> r, wave |-> View(c, n).wave]
<1>2. View(c, n).running \in BOOLEAN
  BY ViewIsAState
<1>3. /\ View(c, n).wave \in Nat
      /\ View(c, n).wave <= coordinator.wave
      /\ client' \in [Clients -> [wave : Nat, running : BOOLEAN, seen : Nat \ {0}]]
      /\ \A d \in Clients : client'[d].wave <= coordinator.wave
  BY <1>1, <1>2, ViewIsPublished
<1>4. msg \in InputMsgs
  BY <1>3 DEF InputMsgs
<1>5. UNCHANGED <<front_q, start_q, output_q, published, coordinator, pc, current_wave, step_counter>>
  BY DEF AddRequest, coordVars, loopVars, waveVars
<1>i. /\ input_q' = [d \in Clients |-> [f \in Engines |-> input_q'[d][f]]]
      /\ \A d \in Clients, f \in Engines :
            \/ input_q'[d][f] = input_q[d][f]
            \/ input_q'[d][f] = Append(input_q[d][f], msg)
  BY <1>1 DEF Inv, TypeInv
<1>q. ASSUME NEW d \in Clients, NEW f \in Engines
      PROVE  /\ input_q'[d][f] \in Seq(InputMsgs)
             /\ \A i \in 1..Len(input_q'[d][f]) :
                  input_q'[d][f][i].type = "ADD" => input_q'[d][f][i].wave <= coordinator.wave
  <2>1. msg.type = "ADD" => msg.wave <= coordinator.wave
    BY <1>3
  <2> HIDE DEF msg
  <2> QED BY <1>4, <1>i, <2>1, InputChannels
<1>6. TypeInv'
  <2>1. input_q' \in [Clients -> [Engines -> Seq(InputMsgs)]]
    BY <1>i, <1>q DEF Inv, TypeInv
  <2>2. first_reqs' \in [Clients -> Seq(Engines)]
    BY SMTT(30), <1>1 DEF Inv, TypeInv
  <2>3. chosen_engine' \in [Requests -> Engines]
    BY DEF Inv, TypeInv, AddRequest
  <2> QED BY <1>3, <1>5, <2>1, <2>2, <2>3 DEF Inv, TypeInv
<1>7. StepsAgree' /\ WavesAgree'
  BY <1>5 DEF Inv, StepsAgree, WavesAgree
<1>9. NobodyAhead'
  BY <1>3, <1>5, <1>q DEF Inv, NobodyAhead
<1> QED BY <1>6, <1>7, <1>9 DEF Inv

(* Aborts, pauses and resumes carry no wave. *)
LEMMA OtherInputInv ==
  ASSUME Inv, NEW msg \in InputMsgs, msg.type # "ADD",
         UNCHANGED <<client, first_reqs, chosen_engine, front_q, published, start_q, output_q,
                     coordinator, pc, current_wave, step_counter>>,
         input_q' = [d \in Clients |-> [f \in Engines |-> input_q'[d][f]]],
         \A d \in Clients, f \in Engines :
            \/ input_q'[d][f] = input_q[d][f]
            \/ input_q'[d][f] = Append(input_q[d][f], msg)
  PROVE  Inv'
<1>1. ASSUME NEW d \in Clients, NEW f \in Engines
      PROVE  /\ input_q'[d][f] \in Seq(InputMsgs)
             /\ \A i \in 1..Len(input_q'[d][f]) :
                  input_q'[d][f][i].type = "ADD" => input_q'[d][f][i].wave <= coordinator.wave
  BY InputChannels
<1>2. TypeInv'
  <2>1. input_q' \in [Clients -> [Engines -> Seq(InputMsgs)]]
    BY <1>1
  <2> QED BY <2>1 DEF Inv, TypeInv
<1>3. StepsAgree' /\ WavesAgree'
  BY DEF Inv, StepsAgree, WavesAgree
<1>4. NobodyAhead'
  BY <1>1 DEF Inv, NobodyAhead
<1> QED BY <1>2, <1>3, <1>4 DEF Inv

LEMMA AbortRequestsInv ==
  ASSUME Inv, NEW c \in Clients, NEW r \in Requests, AbortRequests(c, r)
  PROVE  Inv'
<1> DEFINE msg == [type |-> "ABORT", req |-> r]
<1>1. msg \in InputMsgs /\ msg.type # "ADD"
  BY DEF InputMsgs
<1>2. UNCHANGED <<client, first_reqs, chosen_engine, front_q, published, start_q, output_q,
                  coordinator, pc, current_wave, step_counter>>
  BY DEF AbortRequests, coordVars, loopVars, waveVars
<1>3. chosen_engine[r] \in Engines /\ input_q \in [Clients -> [Engines -> Seq(InputMsgs)]]
  BY DEF Inv, TypeInv
<1>4. input_q' = [input_q EXCEPT ![c][chosen_engine[r]] = Append(@, msg)]
  BY DEF AbortRequests
<1> HIDE DEF msg
<1>5. /\ input_q' = [d \in Clients |-> [f \in Engines |-> input_q'[d][f]]]
      /\ \A d \in Clients, f \in Engines :
            \/ input_q'[d][f] = input_q[d][f]
            \/ input_q'[d][f] = Append(input_q[d][f], msg)
  BY <1>3, <1>4
<1> QED BY <1>1, <1>2, <1>5, OtherInputInv

LEMMA SendAllFacts ==
  ASSUME Inv, NEW msg, SendAll(msg)
  PROVE  /\ input_q' = [d \in Clients |-> [f \in Engines |-> input_q'[d][f]]]
         /\ \A d \in Clients, f \in Engines :
               \/ input_q'[d][f] = input_q[d][f]
               \/ input_q'[d][f] = Append(input_q[d][f], msg)
<1>1. input_q \in [Clients -> [Engines -> Seq(InputMsgs)]]
  BY DEF Inv, TypeInv
<1> QED BY <1>1, DPConstants DEF SendAll

LEMMA PauseInv ==
  ASSUME Inv, (\E mode \in Modes : PauseGeneration(mode)) \/ ResumeGeneration
  PROVE  Inv'
<1>1. UNCHANGED <<client, first_reqs, chosen_engine, front_q, published, start_q, output_q,
                  coordinator, pc, current_wave, step_counter>>
  BY DEF PauseGeneration, ResumeGeneration, coordVars, loopVars, waveVars
<1>2. ASSUME NEW mode \in Modes, SendAll([type |-> "PAUSE", mode |-> mode])
      PROVE  Inv'
  <2> DEFINE msg == [type |-> "PAUSE", mode |-> mode]
  <2>1. msg \in InputMsgs /\ msg.type # "ADD"
    BY DEF InputMsgs
  <2>2. SendAll(msg)
    BY <1>2
  <2> HIDE DEF msg
  <2> QED BY <1>1, <2>1, <2>2, SendAllFacts, OtherInputInv
<1>3. ASSUME SendAll([type |-> "RESUME"])
      PROVE  Inv'
  <2> DEFINE msg == [type |-> "RESUME"]
  <2>1. msg \in InputMsgs /\ msg.type # "ADD"
    BY DEF InputMsgs
  <2>2. SendAll(msg)
    BY <1>3
  <2> HIDE DEF msg
  <2> QED BY <1>1, <2>1, <2>2, SendAllFacts, OtherInputInv
<1> QED BY <1>2, <1>3 DEF PauseGeneration, ResumeGeneration

LEMMA SendFirstReqInv ==
  ASSUME Inv, NEW c \in Clients, SendFirstReq(c)
  PROVE  Inv'
<1>1. PICK n \in Published(c) :
        /\ Receive(c, n, TRUE)
        /\ front_q' = [front_q EXCEPT ![c] =
              Append(@, [engine |-> Identity(Head(first_reqs[c])), wave |-> View(c, n).wave])]
  BY DEF SendFirstReq
<1> DEFINE msg == [engine |-> Identity(Head(first_reqs[c])), wave |-> View(c, n).wave]
<1>2. /\ View(c, n).wave \in Nat
      /\ client' \in [Clients -> [wave : Nat, running : BOOLEAN, seen : Nat \ {0}]]
      /\ \A d \in Clients : client'[d].wave <= coordinator.wave
  BY <1>1, ViewIsPublished
<1>3. /\ first_reqs \in [Clients -> Seq(Engines)] /\ first_reqs[c] \in Seq(Engines)
      /\ first_reqs[c] # <<>>
      /\ front_q \in [Clients -> Seq(FrontMsgs)]
  BY DEF Inv, TypeInv, SendFirstReq
<1>4. Head(first_reqs[c]) \in Engines /\ Tail(first_reqs[c]) \in Seq(Engines)
  BY <1>3
<1>5. msg \in FrontMsgs
  BY <1>2, <1>4 DEF Identity, Names, FrontMsgs
<1>6. UNCHANGED <<chosen_engine, input_q, start_q, output_q, published, coordinator, pc,
                  current_wave, step_counter>>
  BY DEF SendFirstReq, coordVars, loopVars, waveVars
<1>7. first_reqs' \in [Clients -> Seq(Engines)]
  BY <1>3, <1>4 DEF SendFirstReq
<1>8. front_q' \in [Clients -> Seq(FrontMsgs)]
  <2>1. front_q' = [front_q EXCEPT ![c] = Append(@, msg)]
    BY <1>1
  <2> HIDE DEF msg
  <2> QED BY <1>3, <1>5, <2>1
<1>9. TypeInv'
  BY <1>2, <1>6, <1>7, <1>8 DEF Inv, TypeInv
<1>10. StepsAgree' /\ WavesAgree'
  BY <1>6 DEF Inv, StepsAgree, WavesAgree
<1>11. NobodyAhead'
  BY <1>2, <1>6 DEF Inv, NobodyAhead
<1> QED BY <1>9, <1>10, <1>11 DEF Inv

-----------------------------------------------------------------------------
(* The coordinator moves to a wave the engines have reached, never back.     *)

LEMMA CoordinatorInv ==
  ASSUME Inv, NEW w \in Nat, NEW b \in BOOLEAN, NEW x \in Names,
         coordinator.wave <= w, w <= current_wave[0],
         SetWave(w, b),
         SendStartWave(w, x) \/ UNCHANGED start_q,
         UNCHANGED <<client, first_reqs, chosen_engine, input_q, pc, current_wave, step_counter>>,
         front_q' \in [Clients -> Seq(FrontMsgs)],
         \A e \in Engines : \/ output_q'[e] = output_q[e]
                            \/ output_q[e] # <<>> /\ output_q'[e] = Tail(output_q[e]),
         output_q' = [e \in Engines |-> output_q'[e]]
  PROVE  Inv'
<1> DEFINE msg == [wave |-> w, exclude |-> x]
<1>1. coordinator' \in States /\ coordinator'.wave = w /\ coordinator.wave <= coordinator'.wave
  BY DEF SetWave, WaveState, States
<1>2. /\ published' \in Seq(States)
      /\ \A i \in 1..Len(published') : published'[i].wave <= coordinator'.wave
  <2> DEFINE st == WaveState(w, b)
  <2>1. st \in States /\ st.wave = w
    BY DEF WaveState, States
  <2>2. published' = Append(published, st) /\ published \in Seq(States)
    BY DEF Inv, TypeInv, SetWave
  <2> HIDE DEF st
  <2>3. /\ published' \in Seq(States)
        /\ \A i \in 1..Len(published') :
             published'[i] = st \/ (i \in 1..Len(published) /\ published'[i] = published[i])
    BY <2>1, <2>2, AppendFacts
  <2>4. ASSUME NEW i \in 1..Len(published')
        PROVE  published'[i].wave <= coordinator'.wave
    <3>1. CASE published'[i] = st
      BY <1>1, <2>1, <3>1
    <3>2. CASE i \in 1..Len(published) /\ published'[i] = published[i]
      <4>1. published[i] \in States /\ published[i].wave <= coordinator.wave
        BY <3>2 DEF Inv, TypeInv, NobodyAhead
      <4>2. coordinator.wave \in Nat /\ published[i].wave \in Nat
        BY <4>1 DEF Inv, TypeInv, States
      <4> QED BY <1>1, <3>2, <4>1, <4>2
    <3> QED BY <2>3, <3>1, <3>2
  <2> QED BY <2>3, <2>4
<1>3. /\ start_q' \in [Engines -> Seq(StartMsgs)]
      /\ \A e \in Engines : \A i \in 1..Len(start_q'[e]) : start_q'[e][i].wave <= coordinator'.wave
  <2>1. msg \in StartMsgs /\ msg.wave = w
    BY DEF StartMsgs
  <2>2. /\ start_q \in [Engines -> Seq(StartMsgs)]
        /\ \A e \in Engines : \A i \in 1..Len(start_q[e]) :
              start_q[e][i].wave \in Nat /\ start_q[e][i].wave <= coordinator.wave
        /\ coordinator.wave \in Nat
    <3>1. start_q \in [Engines -> Seq(StartMsgs)] /\ coordinator.wave \in Nat
      BY DEF Inv, TypeInv, States
    <3>2. \A e \in Engines : \A i \in 1..Len(start_q[e]) :
            start_q[e][i] \in StartMsgs /\ start_q[e][i].wave <= coordinator.wave
      BY <3>1 DEF Inv, NobodyAhead
    <3> QED BY <3>1, <3>2 DEF StartMsgs
  <2>3. CASE UNCHANGED start_q
    BY <1>1, <2>2, <2>3
  <2>4. CASE SendStartWave(w, x)
    <3>1. start_q' = [e \in Engines |-> Append(start_q[e], msg)]
      BY <2>4 DEF SendStartWave
    <3> HIDE DEF msg
    <3>2. ASSUME NEW e \in Engines
          PROVE  /\ start_q'[e] \in Seq(StartMsgs)
                 /\ \A i \in 1..Len(start_q'[e]) :
                      \/ start_q'[e][i] = msg
                      \/ i \in 1..Len(start_q[e]) /\ start_q'[e][i] = start_q[e][i]
      BY <2>1, <2>2, <3>1, AppendFacts
    <3>3. start_q' \in [Engines -> Seq(StartMsgs)]
      BY <3>1, <3>2
    <3>4. ASSUME NEW e \in Engines, NEW i \in 1..Len(start_q'[e])
          PROVE  start_q'[e][i].wave <= coordinator'.wave
      <4>1. CASE start_q'[e][i] = msg
        BY <1>1, <2>1, <4>1
      <4>2. CASE i \in 1..Len(start_q[e]) /\ start_q'[e][i] = start_q[e][i]
        BY <1>1, <2>2, <4>2
      <4> QED BY <3>2, <4>1, <4>2
    <3> QED BY <3>3, <3>4
  <2> QED BY <2>3, <2>4
<1>4. /\ output_q' \in [Engines -> Seq(OutputMsgs)]
      /\ \A e \in Engines : \A i \in 1..Len(output_q'[e]) :
            /\ output_q'[e][i].wave <= current_wave[0]
            /\ output_q'[e][i].type = "wave_complete" => output_q'[e][i].wave < current_wave[0]
  <2>1. /\ output_q \in [Engines -> Seq(OutputMsgs)]
        /\ \A e \in Engines : \A i \in 1..Len(output_q[e]) :
              /\ output_q[e][i].wave <= current_wave[0]
              /\ output_q[e][i].type = "wave_complete" => output_q[e][i].wave < current_wave[0]
    BY DEF Inv, TypeInv, NobodyAhead
  <2>2. ASSUME NEW e \in Engines
        PROVE  /\ output_q'[e] \in Seq(OutputMsgs)
               /\ \A i \in 1..Len(output_q'[e]) :
                    \E j \in 1..Len(output_q[e]) : output_q'[e][i] = output_q[e][j]
    <3>1. output_q[e] \in Seq(OutputMsgs)
      BY <2>1
    <3>2. CASE output_q'[e] = output_q[e]
      BY <3>1, <3>2
    <3>3. CASE output_q[e] # <<>> /\ output_q'[e] = Tail(output_q[e])
      BY <3>1, <3>3, TailFacts
    <3> QED BY <3>2, <3>3
  <2> QED BY <2>1, <2>2
<1>5. TypeInv'
  BY <1>1, <1>2, <1>3, <1>4 DEF Inv, TypeInv
<1>6. StepsAgree' /\ WavesAgree'
  BY DEF Inv, StepsAgree, WavesAgree
<1>7. coordinator'.wave <= current_wave'[0]
  BY <1>1
<1>8. ASSUME NEW c \in Clients PROVE client'[c].wave <= coordinator'.wave
  BY <1>1 DEF Inv, TypeInv, NobodyAhead, States
<1>9. ASSUME NEW c \in Clients, NEW e \in Engines, NEW i \in 1..Len(input_q'[c][e]),
             input_q'[c][e][i].type = "ADD"
      PROVE  input_q'[c][e][i].wave <= coordinator'.wave
  <2>1. input_q[c][e][i].type = "ADD" /\ input_q[c][e][i] \in InputMsgs
    BY <1>9 DEF Inv, TypeInv
  <2>2. input_q[c][e][i].wave \in Nat /\ input_q[c][e][i].wave <= coordinator.wave
    BY <1>9, <2>1 DEF Inv, NobodyAhead, InputMsgs
  <2>3. coordinator.wave \in Nat
    BY DEF Inv, TypeInv, States
  <2> QED BY <1>1, <2>2, <2>3
<1>10. NobodyAhead'
  BY <1>2, <1>3, <1>4, <1>7, <1>8, <1>9 DEF NobodyAhead
<1> QED BY <1>5, <1>6, <1>10 DEF Inv

LEMMA FrontEndMessageInv ==
  ASSUME Inv, NEW c \in Clients, FrontEndMessage(c)
  PROVE  Inv'
<1>1. UNCHANGED <<client, first_reqs, chosen_engine, input_q, output_q, pc, current_wave,
                  step_counter>>
  BY DEF FrontEndMessage, clientVars, loopVars, waveVars
<1>2. /\ front_q[c] \in Seq(FrontMsgs) /\ front_q[c] # <<>>
      /\ front_q \in [Clients -> Seq(FrontMsgs)]
  BY DEF Inv, TypeInv, FrontEndMessage
<1>3. front_q' \in [Clients -> Seq(FrontMsgs)]
  BY <1>2, TailFacts DEF FrontEndMessage
<1>4. CASE coordinator.running
  <2>1. UNCHANGED <<coordinator, published, start_q>>
    BY <1>4 DEF FrontEndMessage, coordVars
  <2>2. TypeInv'
    BY <1>1, <1>3, <2>1 DEF Inv, TypeInv
  <2>3. StepsAgree' /\ WavesAgree' /\ NobodyAhead'
    BY <1>1, <2>1 DEF Inv, StepsAgree, WavesAgree, NobodyAhead
  <2> QED BY <2>2, <2>3 DEF Inv
<1>5. CASE ~coordinator.running
  <2> DEFINE w == coordinator.wave
             msg == Head(front_q[c])
             x == IF msg.wave < w THEN Nobody ELSE msg.engine
  <2>1. w \in Nat /\ w <= current_wave[0]
    BY DEF Inv, TypeInv, NobodyAhead, States
  <2>2. x \in Names
    <3>1. msg \in FrontMsgs
      BY <1>2, TailFacts
    <3> QED BY <3>1, ZeroIsAnEngine DEF FrontMsgs, Names, Nobody
  <2>3. SetWave(w, TRUE) /\ SendStartWave(w, x)
    BY <1>5 DEF FrontEndMessage
  <2>4. output_q' = [e \in Engines |-> output_q'[e]]
    BY <1>1 DEF Inv, TypeInv
  <2> HIDE DEF x, w
  <2>5. coordinator.wave <= w
    BY <2>1 DEF w
  <2> QED BY <1>1, <1>3, <2>1, <2>2, <2>3, <2>4, <2>5, CoordinatorInv
<1> QED BY <1>4, <1>5

LEMMA EngineMessageInv ==
  ASSUME Inv, NEW e \in Engines, EngineMessage(e)
  PROVE  Inv'
<1> DEFINE msg == Head(output_q[e])
<1>1. UNCHANGED <<client, first_reqs, chosen_engine, input_q, front_q, pc, current_wave,
                  step_counter>>
  BY DEF EngineMessage, clientVars, loopVars, waveVars
<1>2. /\ output_q \in [Engines -> Seq(OutputMsgs)] /\ output_q[e] \in Seq(OutputMsgs)
      /\ output_q[e] # <<>>
      /\ output_q' = [output_q EXCEPT ![e] = Tail(output_q[e])]
  BY DEF Inv, TypeInv, EngineMessage
<1>3. /\ output_q' = [f \in Engines |-> output_q'[f]]
      /\ \A f \in Engines : \/ output_q'[f] = output_q[f]
                            \/ output_q[f] # <<>> /\ output_q'[f] = Tail(output_q[f])
  BY <1>2
<1>4. front_q' \in [Clients -> Seq(FrontMsgs)]
  BY <1>1 DEF Inv, TypeInv
<1>5. msg \in OutputMsgs /\ msg = output_q[e][1] /\ 1 \in 1..Len(output_q[e])
  BY <1>2, TailFacts
<1>6. /\ msg.wave \in Nat /\ msg.wave <= current_wave[0]
      /\ msg.type = "wave_complete" => msg.wave < current_wave[0]
      /\ current_wave[0] \in Nat /\ coordinator.wave \in Nat
  <2>1. msg.wave \in Nat
    BY <1>5 DEF OutputMsgs
  <2>2. msg.wave <= current_wave[0] /\ (msg.type = "wave_complete" => msg.wave < current_wave[0])
    BY <1>5 DEF Inv, NobodyAhead
  <2> QED BY <2>1, <2>2, ZeroIsAnEngine DEF Inv, TypeInv, States
<1>7. Index(e) \in Names
  BY DEF Index, Names
<1>8. \/ UNCHANGED <<coordinator, published, start_q>>
      \/ \E w \in Nat, b \in BOOLEAN :
            /\ coordinator.wave <= w /\ w <= current_wave[0]
            /\ SetWave(w, b)
            /\ SendStartWave(w, Index(e)) \/ UNCHANGED start_q
  <2>1. CASE msg.type = "wave_complete" /\ WaveComplete(msg.wave)
    <3>1. CASE coordinator.wave <= msg.wave
      <4>1. SetWave(msg.wave + 1, FALSE) /\ UNCHANGED start_q
        BY <2>1, <3>1 DEF WaveComplete
      <4>2. /\ msg.wave + 1 \in Nat /\ coordinator.wave <= msg.wave + 1
            /\ msg.wave + 1 <= current_wave[0]
        BY <1>6, <2>1, <3>1
      <4> QED BY <4>1, <4>2
    <3>2. CASE ~(coordinator.wave <= msg.wave)
      BY <2>1, <3>2 DEF WaveComplete, coordVars
    <3> QED BY <3>1, <3>2
  <2>2. CASE StartWave(e, msg.wave)
    <3>1. CASE msg.wave > coordinator.wave \/ (msg.wave = coordinator.wave /\ ~coordinator.running)
      <4>1. SetWave(msg.wave, TRUE) /\ SendStartWave(msg.wave, Index(e))
        BY <2>2, <3>1 DEF StartWave
      <4>2. coordinator.wave <= msg.wave
        BY <1>6, <3>1
      <4> QED BY <1>6, <4>1, <4>2
    <3>2. CASE ~(msg.wave > coordinator.wave \/ (msg.wave = coordinator.wave /\ ~coordinator.running))
      BY <2>2, <3>2 DEF StartWave, coordVars
    <3> QED BY <3>1, <3>2
  <2> QED BY <2>1, <2>2 DEF EngineMessage
<1>9. CASE UNCHANGED <<coordinator, published, start_q>>
  <2>1. ASSUME NEW f \in Engines
        PROVE  /\ output_q'[f] \in Seq(OutputMsgs)
               /\ \A i \in 1..Len(output_q'[f]) :
                    \E j \in 1..Len(output_q[f]) : output_q'[f][i] = output_q[f][j]
    <3>1. output_q[f] \in Seq(OutputMsgs)
      BY <1>2
    <3>2. CASE output_q'[f] = output_q[f]
      BY <3>1, <3>2
    <3>3. CASE output_q[f] # <<>> /\ output_q'[f] = Tail(output_q[f])
      BY <3>1, <3>3, TailFacts
    <3> QED BY <1>3, <3>2, <3>3
  <2>2. TypeInv'
    BY <1>1, <1>3, <1>9, <2>1 DEF Inv, TypeInv
  <2>3. StepsAgree' /\ WavesAgree'
    BY <1>1 DEF Inv, StepsAgree, WavesAgree
  <2>4. \A f \in Engines : \A i \in 1..Len(output_q'[f]) :
          /\ output_q'[f][i].wave <= current_wave[0]
          /\ output_q'[f][i].type = "wave_complete" => output_q'[f][i].wave < current_wave[0]
    <3>1. \A f \in Engines : \A j \in 1..Len(output_q[f]) :
            /\ output_q[f][j].wave <= current_wave[0]
            /\ output_q[f][j].type = "wave_complete" => output_q[f][j].wave < current_wave[0]
      BY DEF Inv, NobodyAhead
    <3> TAKE f \in Engines
    <3> TAKE i \in 1..Len(output_q'[f])
    <3>2. PICK j \in 1..Len(output_q[f]) : output_q'[f][i] = output_q[f][j]
      BY <2>1
    <3> QED BY Zenon, <3>1, <3>2
  <2>5. NobodyAhead'
    BY <1>1, <1>9, <2>4 DEF Inv, NobodyAhead
  <2> QED BY <2>2, <2>3, <2>5 DEF Inv
<1>10. ASSUME NEW w \in Nat, NEW b \in BOOLEAN,
              coordinator.wave <= w, w <= current_wave[0], SetWave(w, b),
              SendStartWave(w, Index(e)) \/ UNCHANGED start_q
       PROVE  Inv'
  BY <1>1, <1>3, <1>4, <1>7, <1>10, CoordinatorInv
<1> QED BY <1>8, <1>9, <1>10

-----------------------------------------------------------------------------
(* An engine leaves its wave as it is when it takes a message, since no      *)
(* message names a later one.                                                *)

LEMMA HandleClientRequestInv ==
  ASSUME Inv, NEW c \in Clients, NEW e \in Engines, HandleClientRequest(c, e)
  PROVE  Inv'
<1> DEFINE msg == Head(input_q[c][e])
           start == [type |-> "start_wave", wave |-> current_wave[e]]
<1>1. UNCHANGED <<client, first_reqs, chosen_engine, front_q, start_q, published, coordinator,
                  pc, step_counter>>
  BY DEF HandleClientRequest, clientVars, coordVars, loopVars
<1>2. /\ input_q \in [Clients -> [Engines -> Seq(InputMsgs)]]
      /\ input_q[c][e] \in Seq(InputMsgs) /\ input_q[c][e] # <<>>
      /\ input_q' = [input_q EXCEPT ![c][e] = Tail(input_q[c][e])]
  BY DEF Inv, TypeInv, HandleClientRequest
<1>3. /\ input_q' = [d \in Clients |-> [f \in Engines |-> input_q'[d][f]]]
      /\ \A d \in Clients, f \in Engines :
            \/ input_q'[d][f] = input_q[d][f]
            \/ input_q[d][f] # <<>> /\ input_q'[d][f] = Tail(input_q[d][f])
  BY <1>2
<1>4. ASSUME NEW d \in Clients, NEW f \in Engines
      PROVE  /\ input_q'[d][f] \in Seq(InputMsgs)
             /\ \A i \in 1..Len(input_q'[d][f]) :
                  input_q'[d][f][i].type = "ADD" => input_q'[d][f][i].wave <= coordinator.wave
  BY <1>3, InputChannels
<1>5. /\ current_wave \in [Engines -> Nat] /\ current_wave[e] = current_wave[0]
      /\ coordinator.wave \in Nat /\ coordinator.wave <= current_wave[0]
  BY ZeroIsAnEngine DEF Inv, TypeInv, WavesAgree, NobodyAhead, States
<1>6. msg.type = "ADD" => msg.wave \in Nat /\ ~(msg.wave > current_wave[e])
  <2>1. msg = input_q[c][e][1] /\ 1 \in 1..Len(input_q[c][e]) /\ msg \in InputMsgs
    BY <1>2, TailFacts
  <2>2. ASSUME msg.type = "ADD" PROVE msg.wave \in Nat /\ msg.wave <= coordinator.wave
    <3>1. msg.wave \in Nat
      BY <2>1, <2>2 DEF InputMsgs
    <3>2. msg.wave <= coordinator.wave
      BY <2>1, <2>2 DEF Inv, NobodyAhead
    <3> QED BY <3>1, <3>2
  <2> QED BY <1>5, <2>2
<1>7. /\ UNCHANGED current_wave
      /\ UNCHANGED output_q \/ output_q' = [output_q EXCEPT ![e] = Append(@, start)]
  <2> HIDE DEF msg
  <2>1. CASE msg.type = "ADD" /\ Add(e, msg.req, msg.wave)
    BY <1>6, <2>1 DEF Add, NotifyStartWave, waveVars
  <2>2. CASE Abort(e, msg.req)
    BY <2>2 DEF Abort, waveVars
  <2>3. CASE PauseScheduler(e, msg.mode)
    BY <2>3 DEF PauseScheduler, waveVars
  <2>4. CASE ResumeScheduler(e)
    BY <2>4 DEF ResumeScheduler, NotifyStartWave, waveVars
  <2> QED BY <2>1, <2>2, <2>3, <2>4 DEF HandleClientRequest, msg
<1>8. /\ output_q' \in [Engines -> Seq(OutputMsgs)]
      /\ \A f \in Engines : \A i \in 1..Len(output_q'[f]) :
            /\ output_q'[f][i].wave <= current_wave[0]
            /\ output_q'[f][i].type = "wave_complete" => output_q'[f][i].wave < current_wave[0]
  <2>1. /\ start \in OutputMsgs /\ start.type # "wave_complete" /\ start.wave <= current_wave[0]
    BY <1>5, ZeroIsAnEngine DEF OutputMsgs
  <2>2. /\ output_q \in [Engines -> Seq(OutputMsgs)]
        /\ \A f \in Engines : \A i \in 1..Len(output_q[f]) :
              /\ output_q[f][i].wave <= current_wave[0]
              /\ output_q[f][i].type = "wave_complete" => output_q[f][i].wave < current_wave[0]
    BY DEF Inv, TypeInv, NobodyAhead
  <2> HIDE DEF start
  <2>3. CASE UNCHANGED output_q
    BY <2>2, <2>3
  <2>4. CASE output_q' = [output_q EXCEPT ![e] = Append(@, start)]
    <3>1. ASSUME NEW f \in Engines
          PROVE  /\ output_q'[f] \in Seq(OutputMsgs)
                 /\ \A i \in 1..Len(output_q'[f]) :
                      \/ output_q'[f][i] = start
                      \/ i \in 1..Len(output_q[f]) /\ output_q'[f][i] = output_q[f][i]
      <4>1. output_q[f] \in Seq(OutputMsgs)
        BY <2>2
      <4>2. CASE f = e
        <5>1. output_q'[f] = Append(output_q[f], start)
          BY <2>2, <2>4, <4>2
        <5> QED BY <2>1, <4>1, <5>1, AppendFacts
      <4>3. CASE f # e
        <5>1. output_q'[f] = output_q[f]
          BY <2>2, <2>4, <4>3
        <5> QED BY <4>1, <5>1
      <4> QED BY <4>2, <4>3
    <3>2. output_q' \in [Engines -> Seq(OutputMsgs)]
      BY <2>2, <2>4, <3>1
    <3>3. ASSUME NEW f \in Engines, NEW i \in 1..Len(output_q'[f])
          PROVE  /\ output_q'[f][i].wave <= current_wave[0]
                 /\ output_q'[f][i].type = "wave_complete" => output_q'[f][i].wave < current_wave[0]
      <4>1. CASE output_q'[f][i] = start
        BY <2>1, <4>1
      <4>2. CASE i \in 1..Len(output_q[f]) /\ output_q'[f][i] = output_q[f][i]
        BY <2>2, <4>2
      <4> QED BY <3>1, <4>1, <4>2
    <3> QED BY <3>2, <3>3
  <2> QED BY <1>7, <2>3, <2>4
<1>9. TypeInv'
  <2>1. input_q' \in [Clients -> [Engines -> Seq(InputMsgs)]]
    BY <1>3, <1>4
  <2> QED BY <1>1, <1>7, <1>8, <2>1 DEF Inv, TypeInv
<1>10. StepsAgree' /\ WavesAgree'
  BY <1>1, <1>7 DEF Inv, StepsAgree, WavesAgree
<1>11. NobodyAhead'
  BY <1>1, <1>4, <1>7, <1>8 DEF Inv, NobodyAhead
<1> QED BY <1>9, <1>10, <1>11 DEF Inv

LEMMA StartDPWaveInv ==
  ASSUME Inv, NEW e \in Engines, StartDPWave(e)
  PROVE  Inv'
<1> DEFINE msg == Head(start_q[e])
<1>1. UNCHANGED <<client, first_reqs, chosen_engine, input_q, front_q, output_q, published,
                  coordinator, pc, step_counter>>
  BY DEF StartDPWave, clientVars, coordVars, loopVars
<1>2. /\ start_q \in [Engines -> Seq(StartMsgs)] /\ start_q[e] \in Seq(StartMsgs)
      /\ start_q[e] # <<>>
      /\ start_q' = [start_q EXCEPT ![e] = Tail(start_q[e])]
  BY DEF Inv, TypeInv, StartDPWave
<1>3. /\ Tail(start_q[e]) \in Seq(StartMsgs) /\ msg = start_q[e][1] /\ msg \in StartMsgs
      /\ 1 \in 1..Len(start_q[e])
      /\ \A i \in 1..Len(Tail(start_q[e])) :
            i + 1 \in 1..Len(start_q[e]) /\ Tail(start_q[e])[i] = start_q[e][i + 1]
  BY <1>2, TailFacts
<1>4. msg.wave \in Nat /\ msg.wave <= current_wave[e]
  <2>1. msg.wave \in Nat
    BY <1>3 DEF StartMsgs
  <2>2. msg.wave <= coordinator.wave
    BY <1>3 DEF Inv, NobodyAhead
  <2>3. /\ coordinator.wave <= current_wave[0] /\ current_wave[e] = current_wave[0]
        /\ coordinator.wave \in Nat /\ current_wave[0] \in Nat
    BY ZeroIsAnEngine DEF Inv, TypeInv, NobodyAhead, WavesAgree, States
  <2> QED BY <2>1, <2>2, <2>3
<1>5. UNCHANGED current_wave
  <2>1. current_wave \in [Engines -> Nat]
    BY DEF Inv, TypeInv
  <2>2. \/ UNCHANGED current_wave
        \/ msg.wave >= current_wave[e] /\ current_wave' = [current_wave EXCEPT ![e] = msg.wave]
    BY DEF StartDPWave, waveVars
  <2> HIDE DEF msg
  <2> QED BY <1>4, <2>1, <2>2
<1>6. /\ start_q' \in [Engines -> Seq(StartMsgs)]
      /\ \A f \in Engines : \A i \in 1..Len(start_q'[f]) : start_q'[f][i].wave <= coordinator.wave
  <2>1. \A f \in Engines : \A i \in 1..Len(start_q[f]) : start_q[f][i].wave <= coordinator.wave
    BY DEF Inv, NobodyAhead
  <2>2. ASSUME NEW f \in Engines
        PROVE  /\ start_q'[f] \in Seq(StartMsgs)
               /\ \A i \in 1..Len(start_q'[f]) : start_q'[f][i].wave <= coordinator.wave
    <3>1. CASE f = e
      <4>1. start_q'[f] = Tail(start_q[e])
        BY <1>2, <3>1
      <4> QED BY <1>3, <2>1, <4>1
    <3>2. CASE f # e
      <4>1. start_q'[f] = start_q[f]
        BY <1>2, <3>2
      <4> QED BY <1>2, <2>1, <4>1
    <3> QED BY <3>1, <3>2
  <2> QED BY <1>2, <2>2
<1>7. TypeInv'
  BY <1>1, <1>5, <1>6 DEF Inv, TypeInv
<1>8. StepsAgree' /\ WavesAgree'
  BY <1>1, <1>5 DEF Inv, StepsAgree, WavesAgree
<1>9. NobodyAhead'
  BY <1>1, <1>5, <1>6 DEF Inv, NobodyAhead
<1> QED BY <1>7, <1>8, <1>9 DEF Inv

LEMMA ProcessEngineStepInv ==
  ASSUME Inv, NEW e \in Engines, ProcessEngineStep(e)
  PROVE  Inv'
<1>1. UNCHANGED <<client, first_reqs, chosen_engine, input_q, front_q, start_q, output_q,
                  published, coordinator, current_wave, step_counter>>
  BY DEF ProcessEngineStep, clientVars, coordVars, waveVars, channels
<1>2. pc \in [Engines -> {"input", "forward", "reduce"}]
  BY DEF Inv, TypeInv
<1>3. pc[e] = "input" /\ pc' = [pc EXCEPT ![e] = "forward"]
  BY DEF ProcessEngineStep
<1>4. /\ pc' \in [Engines -> {"input", "forward", "reduce"}]
      /\ \A f \in Engines : pc'[f] = "reduce" <=> pc[f] = "reduce"
  BY <1>2, <1>3
<1>5. TypeInv'
  BY <1>1, <1>4 DEF Inv, TypeInv
<1>6. StepsAgree'
  BY <1>1, <1>4 DEF Inv, StepsAgree
<1>7. WavesAgree' /\ NobodyAhead'
  BY <1>1 DEF Inv, WavesAgree, NobodyAhead
<1> QED BY <1>5, <1>6, <1>7 DEF Inv

(* The engines count their steps alike, so they come to the all-reduce after *)
(* the same pass.                                                            *)
LEMMA ForwardPassInv ==
  ASSUME Inv, ForwardPass
  PROVE  Inv'
<1>1. UNCHANGED <<client, first_reqs, chosen_engine, input_q, front_q, start_q, output_q,
                  published, coordinator, current_wave>>
  BY DEF ForwardPass, clientVars, coordVars, channels
<1>2. /\ step_counter \in [Engines -> Nat]
      /\ \A e, f \in Engines : step_counter[e] = step_counter[f]
  BY DEF Inv, TypeInv, StepsAgree
<1>3. \A e, f \in Engines : NewStepCounter(e) \in Nat /\ NewStepCounter(e) = NewStepCounter(f)
  BY <1>2 DEF NewStepCounter
<1>4. /\ step_counter' = [e \in Engines |-> NewStepCounter(e)]
      /\ pc' = [e \in Engines |-> IF NewStepCounter(e) % SyncInterval # 0 THEN "input"
                                                                         ELSE "reduce"]
  BY DEF ForwardPass
<1>5. TypeInv'
  <2>1. step_counter' \in [Engines -> Nat] /\ pc' \in [Engines -> {"input", "forward", "reduce"}]
    BY <1>3, <1>4
  <2> QED BY <1>1, <2>1 DEF Inv, TypeInv
<1>6. StepsAgree'
  <2> SUFFICES ASSUME NEW e \in Engines, NEW f \in Engines
               PROVE  /\ step_counter'[e] = step_counter'[f]
                      /\ pc'[e] = "reduce" <=> pc'[f] = "reduce"
    BY DEF StepsAgree
  <2>1. NewStepCounter(e) = NewStepCounter(f)
    BY <1>3
  <2> QED BY Zenon, <1>4, <2>1
<1>7. WavesAgree' /\ NobodyAhead'
  BY <1>1 DEF Inv, WavesAgree, NobodyAhead
<1> QED BY <1>5, <1>6, <1>7 DEF Inv

(* All engines leave the wave at once. *)
LEMMA AllReduceInv ==
  ASSUME Inv, AllReduce
  PROVE  Inv'
<1> DEFINE done == [type |-> "wave_complete", wave |-> current_wave[0]]
<1>1. UNCHANGED <<client, first_reqs, chosen_engine, input_q, front_q, start_q, published,
                  coordinator>>
  BY DEF AllReduce, clientVars, coordVars
<1>2. /\ pc' = [e \in Engines |-> "input"]
      /\ \/ UNCHANGED <<current_wave, step_counter, output_q>>
         \/ /\ output_q' = [output_q EXCEPT ![0] = Append(@, done)]
            /\ current_wave' = [e \in Engines |-> current_wave[e] + 1]
            /\ step_counter' = [e \in Engines |-> 0]
  BY DEF AllReduce, NextWave
<1>3. CASE UNCHANGED <<current_wave, step_counter, output_q>>
  <2>1. TypeInv'
    BY <1>1, <1>2, <1>3 DEF Inv, TypeInv
  <2>2. StepsAgree'
    BY <1>2, <1>3 DEF Inv, StepsAgree
  <2>3. WavesAgree' /\ NobodyAhead'
    BY <1>1, <1>3 DEF Inv, WavesAgree, NobodyAhead
  <2> QED BY <2>1, <2>2, <2>3 DEF Inv
<1>4. CASE /\ output_q' = [output_q EXCEPT ![0] = Append(@, done)]
           /\ current_wave' = [e \in Engines |-> current_wave[e] + 1]
           /\ step_counter' = [e \in Engines |-> 0]
  <2>1. /\ current_wave \in [Engines -> Nat]
        /\ output_q \in [Engines -> Seq(OutputMsgs)]
        /\ \A e, f \in Engines : current_wave[e] = current_wave[f]
        /\ coordinator.wave \in Nat /\ coordinator.wave <= current_wave[0]
        /\ current_wave[0] \in Nat
    BY ZeroIsAnEngine DEF Inv, TypeInv, WavesAgree, NobodyAhead, States
  <2>2. /\ current_wave' \in [Engines -> Nat]
        /\ current_wave'[0] = current_wave[0] + 1
        /\ \A e, f \in Engines : current_wave'[e] = current_wave'[f]
    BY <1>4, <2>1, ZeroIsAnEngine
  <2>3. done \in OutputMsgs /\ done.wave = current_wave[0]
    BY <2>1 DEF OutputMsgs
  <2> HIDE DEF done
  <2>4. ASSUME NEW f \in Engines
        PROVE  /\ output_q'[f] \in Seq(OutputMsgs)
               /\ \A i \in 1..Len(output_q'[f]) :
                    \/ output_q'[f][i] = done
                    \/ i \in 1..Len(output_q[f]) /\ output_q'[f][i] = output_q[f][i]
    <3>1. output_q[f] \in Seq(OutputMsgs)
      BY <2>1
    <3>2. CASE f = 0
      <4>1. output_q'[f] = Append(output_q[f], done)
        BY <1>4, <2>1, <3>2
      <4> QED BY <2>3, <3>1, <4>1, AppendFacts
    <3>3. CASE f # 0
      <4>1. output_q'[f] = output_q[f]
        BY <1>4, <2>1, <3>3
      <4> QED BY <3>1, <4>1
    <3> QED BY <3>2, <3>3
  <2>5. output_q' \in [Engines -> Seq(OutputMsgs)]
    BY <1>4, <2>1, <2>4
  <2>6. ASSUME NEW f \in Engines, NEW i \in 1..Len(output_q'[f])
        PROVE  output_q'[f][i].wave < current_wave'[0]
    <3>1. CASE output_q'[f][i] = done
      BY <2>1, <2>2, <2>3, <3>1
    <3>2. CASE i \in 1..Len(output_q[f]) /\ output_q'[f][i] = output_q[f][i]
      <4>1. output_q[f][i] \in OutputMsgs /\ output_q[f][i].wave <= current_wave[0]
        BY <2>1, <3>2 DEF Inv, NobodyAhead
      <4>2. output_q[f][i].wave \in Nat
        BY <4>1 DEF OutputMsgs
      <4> QED BY <2>1, <2>2, <3>2, <4>1, <4>2
    <3> QED BY <2>4, <3>1, <3>2
  <2>7. ASSUME NEW f \in Engines, NEW i \in 1..Len(output_q'[f])
        PROVE  output_q'[f][i].wave <= current_wave'[0]
    <3>1. output_q'[f][i] \in OutputMsgs
      BY <2>5, <2>7
    <3>2. output_q'[f][i].wave \in Nat
      BY <3>1 DEF OutputMsgs
    <3> QED BY <2>1, <2>2, <2>6, <3>2
  <2>8. TypeInv'
    BY <1>1, <1>2, <1>4, <2>2, <2>5 DEF Inv, TypeInv
  <2>9. StepsAgree'
    BY <1>2, <1>4 DEF StepsAgree
  <2>10. WavesAgree'
    BY <2>2 DEF WavesAgree
  <2>11. coordinator'.wave <= current_wave'[0]
    BY <1>1, <2>1, <2>2
  <2>12. NobodyAhead'
    BY <1>1, <2>6, <2>7, <2>11 DEF Inv, NobodyAhead
  <2> QED BY <2>8, <2>9, <2>10, <2>12 DEF Inv
<1> QED BY <1>2, <1>3, <1>4

-----------------------------------------------------------------------------
LEMMA NextInv == Inv /\ [DPNext]_vars => Inv'
<1> SUFFICES ASSUME Inv, [DPNext]_vars PROVE Inv'
  OBVIOUS
<1>1. CASE \E c \in Clients : APIServer(c)
  BY <1>1, AddRequestInv, AbortRequestsInv DEF APIServer
<1>2. CASE (\E mode \in Modes : PauseGeneration(mode)) \/ ResumeGeneration
  BY <1>2, PauseInv
<1>3. CASE System
  <2>1. CASE \E c \in Clients : SendFirstReq(c) \/ FrontEndMessage(c)
    BY <2>1, SendFirstReqInv, FrontEndMessageInv
  <2>2. CASE \E e \in Engines : EngineMessage(e) \/ Engine(e)
    BY <2>2, EngineMessageInv, HandleClientRequestInv, StartDPWaveInv, ProcessEngineStepInv
       DEF Engine
  <2>3. CASE ForwardPass \/ AllReduce
    BY <2>3, ForwardPassInv, AllReduceInv
  <2> QED BY <1>3, <2>1, <2>2, <2>3 DEF System
<1>4. CASE UNCHANGED vars
  <2>1. UNCHANGED <<client, first_reqs, chosen_engine, input_q, front_q, start_q, output_q,
                    published, coordinator, pc, current_wave, step_counter>>
    BY <1>4 DEF vars, clientVars, coordVars, loopVars, waveVars, channels
  <2> QED BY <2>1 DEF Inv, TypeInv, StepsAgree, WavesAgree, NobodyAhead
<1> QED BY <1>1, <1>2, <1>3, <1>4 DEF DPNext

(* run_busy_loop: whatever the number of engines and however the requests,   *)
(* aborts and pauses reach them, no engine waits in the all-reduce of        *)
(* _has_global_unfinished_reqs while another one waits in a forward pass.    *)
THEOREM CollectivesAlwaysMatch == DPSpec => []CollectivesMatch
<1>1. Inv => CollectivesMatch
  BY DEF Inv, StepsAgree, CollectivesMatch
<1> QED BY <1>1, InitInv, NextInv, PTL DEF DPSpec

(* DPEngineCoreProc and DPCoordinatorProc: the engines always count the same *)
(* waves, and neither the coordinator nor an API server is ahead of them.    *)
THEOREM WavesStayInStep == DPSpec => []WavesInStep
<1>1. Inv => WavesInStep
  <2> SUFFICES ASSUME Inv PROVE WavesInStep
    OBVIOUS
  <2>1. \A e \in Engines : current_wave[e] = current_wave[0]
    BY ZeroIsAnEngine DEF Inv, WavesAgree
  <2> QED BY <2>1 DEF Inv, WavesAgree, NobodyAhead, WavesInStep
<1> QED BY <1>1, InitInv, NextInv, PTL DEF DPSpec
=============================================================================
