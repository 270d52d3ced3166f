------------------------- MODULE NtfyExclusiveProofs -------------------------
(***************************************************************************)
(* Theorems about NtfyExclusive, for every deadline, number of windows and *)
(* interleaving of apiTask and loop().                                     *)
(***************************************************************************)
EXTENDS NtfyExclusive, TLAPS

\* Where apiTask is says in which mode it is, and why it restarts the socket; before
\* it leaves, the pause is off.
WhereInMode ==
    /\ api \in {"pause", "check"} => mode = "stopping"
    /\ api \in {"send", "post"} => mode = "sending"
    /\ api = "leave" => ~pause
    /\ api \in {"begin", "connecting"} => after \in {"restart", "heal", "abandon"}
    /\ api = "again" => after = "abandon"

\* loop() is on its way into the library in an exclusive period only because it
\* was when the period began, and then has not called it since.
OnTheWay ==
    /\ latePumps <= 1
    /\ mode # "normal" /\ loopPc \in {"wsPause", "wsPump"} => latePumps = 0

IInv == TypeOK /\ WhereInMode /\ PauseOnlyExclusive /\ OnTheWay

-----------------------------------------------------------------------------
\* Every call of the library leaves the socket and its flags well-typed.
LEMMA PumpedType ==
    ASSUME NEW w \in Sockets
    PROVE  /\ Pumped(w) \subseteq Sockets
           /\ Burst(w) \subseteq Sockets
           /\ Dropped(w) \in Sockets
           /\ Lowered(w) \in Sockets
<1>1. ASSUME NEW x \in Sockets
      PROVE  Pumped(x) \subseteq Sockets /\ Dropped(x) \in Sockets /\ Lowered(x) \in Sockets
  <2>1. Opened(x) \in Sockets /\ Dropped(x) \in Sockets /\ Failed(x) \in Sockets
    BY DEF Sockets, Opened, Dropped, Failed
  <2>2. [x EXCEPT !.lib = "handshake"] \in Sockets /\ Lowered(x) \in Sockets
    BY DEF Sockets, Lowered
  <2>3. x.lib \in {"down", "handshake", "open"}
    BY DEF Sockets
  <2>4. CASE x.lib = "down"
    BY <2>1, <2>2, <2>4 DEF Pumped
  <2>5. CASE x.lib = "handshake"
    BY <2>1, <2>2, <2>5 DEF Pumped
  <2>6. CASE x.lib = "open"
    BY <2>1, <2>2, <2>6 DEF Pumped
  <2> QED BY <2>3, <2>4, <2>5, <2>6
<1>2. UNION {Pumped(y) : y \in Pumped(w)} \subseteq Sockets
  BY <1>1
<1>3. \A x \in Pumped(w) : UNION {Pumped(y) : y \in Pumped(x)} \subseteq Sockets
  BY <1>1
<1>4. Burst(w) \subseteq Sockets
  BY <1>3 DEF Burst
<1> QED BY <1>1, <1>4

\* What is left of a deadline is a number of ticks.
LEMMA LeftOfType ==
    \A t, e \in Nat : LeftOf(t, e) \in Nat
BY DEF LeftOf

\* At start-up the mode is normal and nothing is paused.
LEMMA InitOK == Init => IInv
<1> SUFFICES ASSUME Init PROVE IInv
  OBVIOUS
<1>1. ws \in Sockets
  BY DEF Init, Sockets
<1>a. 0 \in 0 .. MaxRetries /\ 0 \in 0 .. MaxHeals /\ 0 \in 0 .. RestartTicks
  BY ExclusiveAssumption
<1>2. TypeOK
  <2>1. retries \in 0 .. MaxRetries /\ heals \in 0 .. MaxHeals /\ age \in 0 .. RestartTicks
    BY <1>a DEF Init
  <2>2. deadline \in Nat /\ latePumps \in 0 .. 2
    BY DEF Init
  <2>3. /\ pause \in BOOLEAN /\ begun \in BOOLEAN /\ wsInit \in BOOLEAN
        /\ initTried \in BOOLEAN /\ wifi \in BOOLEAN /\ late \in BOOLEAN
    BY DEF Init
  <2>4. /\ mode \in Modes /\ api \in ApiPcs /\ after \in Reasons
        /\ loopPc \in {"top", "out", "connect", "ws", "wsPause", "wsPump"}
    BY DEF Init, Modes, ApiPcs, Reasons
  <2> QED BY <1>1, <2>1, <2>2, <2>3, <2>4 DEF TypeOK
<1>3. WhereInMode /\ PauseOnlyExclusive /\ OnTheWay
  BY DEF Init, WhereInMode, PauseOnlyExclusive, OnTheWay
<1> QED BY <1>2, <1>3 DEF IInv

\* Every step of the exclusive state machine and of the rest of apiTask.
LEMMA ApiOK == IInv /\ ApiStep => IInv'
<1> SUFFICES ASSUME IInv, ApiStep PROVE IInv'
  OBVIOUS
<1> USE ExclusiveAssumption DEF IInv, TypeOK, WhereInMode, PauseOnlyExclusive, OnTheWay,
        Modes, ApiPcs, Reasons, fsm, sock, loopvars
<1>0. ws \in Sockets /\ Dropped(ws) \in Sockets /\ Lowered(ws) \in Sockets
      /\ [ws EXCEPT !.sub = FALSE] \in Sockets
      /\ [ws EXCEPT !.lib = "down"] \in Sockets
      /\ [ws EXCEPT !.connecting = TRUE] \in Sockets
      /\ [Lowered(ws) EXCEPT !.sub = FALSE] \in Sockets
  <2>1. ws \in Sockets /\ Lowered(ws) \in Sockets /\ Dropped(ws) \in Sockets
    BY PumpedType
  <2> QED BY <2>1 DEF Sockets
<1>a. 0 \in 0 .. MaxRetries /\ 0 \in 0 .. RestartTicks /\ age \in Nat
  OBVIOUS
<1>1. CASE ApiCycle
  <2>1. late' \in BOOLEAN
    BY <1>1 DEF ApiCycle
  <2> QED BY <1>1, <2>1 DEF ApiCycle
<1>2. CASE ApiHeal
  BY <1>0, <1>2 DEF ApiHeal
<1>3. CASE ApiFetch
  BY <1>3 DEF ApiFetch
<1>4. CASE ApiInitWs
  BY <1>0, <1>4 DEF ApiInitWs
<1>5. CASE ApiEnter
  BY <1>5 DEF ApiEnter
<1>6. CASE ApiPause
  BY <1>6 DEF ApiPause
<1>7. CASE ApiDisconnect
  BY <1>0, <1>7 DEF ApiDisconnect
<1>8. CASE ApiFlagsStop
  BY <1>0, <1>8 DEF ApiFlagsStop
<1>9. CASE ApiFlagsHeal
  BY <1>0, <1>9 DEF ApiFlagsHeal
<1>10. CASE ApiFlagsRetry
  <2>1. LeftOf(RestartTicks, age) \in Nat
    BY <1>a, LeftOfType
  <2> QED BY <1>0, <1>10, <2>1 DEF ApiFlagsRetry
<1>11. CASE ApiFlagsAbandon
  BY <1>0, <1>11 DEF ApiFlagsAbandon
<1>12. CASE ApiBegin
  BY <1>0, <1>12 DEF ApiBegin
<1>13. CASE ApiConnecting
  BY <1>0, <1>13 DEF ApiConnecting
<1>14. CASE ApiStoppingPump
  <2>1. ws' \in Sockets
    BY <1>0, <1>14, PumpedType DEF ApiStoppingPump
  <2> QED BY <1>14, <2>1 DEF ApiStoppingPump
<1>15. CASE ApiStoppingCheck
  BY <1>15 DEF ApiStoppingCheck
<1>16. CASE ApiSend
  BY <1>16 DEF ApiSend
<1>17. CASE ApiPosted
  BY <1>17 DEF ApiPosted
<1>18. CASE ApiSent
  <2>1. LeftOf(RestartTicks, age) \in Nat
    BY <1>a, LeftOfType
  <2>2. deadline' \in Nat
    BY <2>1, <1>18 DEF ApiSent
  <2>3. retries' \in 0 .. MaxRetries
    BY <1>18 DEF ApiSent
  <2>4. TypeOK'
    BY <1>18, <2>2, <2>3 DEF ApiSent
  <2> QED BY <1>18, <2>4 DEF ApiSent
<1>19. CASE ApiRestartBegin
  BY <1>0, <1>19 DEF ApiRestartBegin
<1>20. CASE ApiRestartGoOn
  BY <1>20 DEF ApiRestartGoOn
<1>21. CASE ApiRestartBurst
  <2>1. ws' \in Sockets
    BY <1>0, <1>21, PumpedType DEF ApiRestartBurst
  <2> QED BY <1>21, <2>1 DEF ApiRestartBurst
<1>22. CASE ApiRestored
  BY <1>22 DEF ApiRestored
<1>23. CASE ApiRestartWait
  BY <1>23 DEF ApiRestartWait
<1>24. CASE ApiRestartRetry
  BY <1>24 DEF ApiRestartRetry
<1>25. CASE ApiRestartAbandon
  BY <1>25 DEF ApiRestartAbandon
<1>26. CASE ApiUnpause
  BY <1>26 DEF ApiUnpause
<1>27. CASE ApiLeave
  BY <1>27 DEF ApiLeave
<1>28. CASE ApiAgain
  BY <1>0, <1>28 DEF ApiAgain
<1>29. CASE ApiDone
  <2>1. retries' \in 0 .. MaxRetries
    BY <1>29 DEF ApiDone
  <2>2. begun' \in BOOLEAN /\ api' \in ApiPcs
    BY <1>29 DEF ApiDone
  <2>3. UNCHANGED <<mode, pause, deadline, ws, wsInit, initTried, heals, wifi, after,
                    late, age, loopPc, latePumps>>
    BY <1>29 DEF ApiDone
  <2> QED BY <1>29, <2>1, <2>2, <2>3 DEF ApiDone
<1> QED
  BY <1>1, <1>2, <1>3, <1>4, <1>5, <1>6, <1>7, <1>8, <1>9, <1>10, <1>11, <1>12, <1>13,
     <1>14, <1>15, <1>16, <1>17, <1>18, <1>19, <1>20, <1>21, <1>22, <1>23, <1>24, <1>25,
     <1>26, <1>27, <1>28, <1>29
     DEF ApiStep

\* The steps of loop(), the clock and WiFi.
LEMMA OtherOK == IInv /\ (LoopStep \/ Tick \/ WifiChange \/ UNCHANGED vars) => IInv'
<1> SUFFICES ASSUME IInv, LoopStep \/ Tick \/ WifiChange \/ UNCHANGED vars
             PROVE  IInv'
  OBVIOUS
<1> USE ExclusiveAssumption DEF IInv, TypeOK, WhereInMode, PauseOnlyExclusive, OnTheWay,
        fsm, sock, taskvars
<1>1. CASE LoopTop
  BY <1>1 DEF LoopTop
<1>2. CASE LoopConnect
  BY <1>2 DEF LoopConnect
<1>3. CASE LoopOutDone
  BY <1>3 DEF LoopOutDone
<1>4. CASE LoopWs
  BY <1>4 DEF LoopWs
<1>5. CASE LoopWsPause
  BY <1>5 DEF LoopWsPause
<1>6. CASE LoopPump
  <2>1. ws' \in Sockets
    BY <1>6, PumpedType DEF LoopPump
  <2> QED BY <1>6, <2>1 DEF LoopPump
<1>7. CASE Tick
  <2>1. deadline' \in Nat
    BY <1>7, LeftOfType DEF Tick
  <2>2. age' \in 0 .. RestartTicks
    BY <1>7 DEF Tick
  <2> QED BY <1>7, <2>1, <2>2 DEF Tick, loopvars
<1>8. CASE WifiChange
  BY <1>8 DEF WifiChange, loopvars
<1>9. CASE UNCHANGED vars
  BY <1>9 DEF vars, loopvars
<1> QED BY <1>1, <1>2, <1>3, <1>4, <1>5, <1>6, <1>7, <1>8, <1>9 DEF LoopStep

\* The invariant holds in every reachable state.
THEOREM Invariance == Spec => []IInv
<1>1. IInv /\ [Next]_vars => IInv'
  BY ApiOK, OtherOK DEF Next
<1> QED BY <1>1, InitOK, PTL DEF Spec

\* Flags, counters and program counters keep their types.
THEOREM TypeCorrect == Spec => []TypeOK
<1>1. IInv => TypeOK
  BY DEF IInv
<1> QED BY <1>1, Invariance, PTL

\* The pause is never on in normal mode.
THEOREM PauseInside == Spec => []PauseOnlyExclusive
<1>1. IInv => PauseOnlyExclusive
  BY DEF IInv
<1> QED BY <1>1, Invariance, PTL

\* loop() enters the WebSocket library at most once per exclusive period.
THEOREM LatePumpOnce == Spec => []LatePumpAtMostOnce
<1>1. IInv => LatePumpAtMostOnce
  BY DEF IInv, OnTheWay, LatePumpAtMostOnce
<1> QED BY <1>1, Invariance, PTL
=============================================================================
