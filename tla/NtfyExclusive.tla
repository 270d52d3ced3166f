---------------------------- MODULE NtfyExclusive ----------------------------
(***************************************************************************)
(* The exclusive network mode in which a notification is sent: apiTask     *)
(* stops the WebSocket, POSTs, and restarts the WebSocket, one state of    *)
(* apiTaskNtfyExclusiveStateMachine per cycle, while loop() goes on and    *)
(* respects g_netExclusiveNtfyMode and wsPauseForNtfySend by reading them. *)
(* The flags are plain or volatile globals; gNetMutex only protects the    *)
(* calls into the network libraries, each of which is one step here except *)
(* the POST and the MQTT connect, which take time.                         *)
(*                                                                         *)
(* Which notification is sent is the matter of NtfyDelivery; here a cycle  *)
(* may start and a POST may take place whenever the code could.  SENDING   *)
(* sets a deadline nothing reads; it is left out.                          *)
(***************************************************************************)
EXTENDS Naturals

CONSTANTS
    StopTicks,      \* NTFY_EXCL_WS_STOP_MS
    RestartTicks,   \* NTFY_EXCL_WS_RESTART_MS
    MaxRetries,     \* NTFY_EXCL_WS_RESTART_MAX_RETRIES
    MaxHeals        \* kMaxHeal of bootWsSelfHealIfStalled

ASSUME ExclusiveAssumption ==
    /\ StopTicks \in Nat
    /\ RestartTicks \in Nat
    /\ MaxRetries \in Nat
    /\ MaxHeals \in Nat

VARIABLES
    mode,       \* g_netExclusiveNtfyMode
    pause,      \* wsPauseForNtfySend
    deadline,   \* s_netExclusiveDeadlineMs, in ticks from now; 0: passed
    begun,      \* s_ntfyExclusiveRestartBegun
    retries,    \* s_ntfyExclWsRestartRetriesUsed
    ws,         \* the WebSocket library's connection, and the flags about it
    wsInit,     \* wsInitialized, and wsClientPtr is set
    initTried,  \* wsInitAttempted
    heals,      \* s_bootWsSelfHealAttempts
    wifi,       \* WiFi.status() == WL_CONNECTED
    api,        \* where apiTask is
    after,      \* what apiTask does after the disconnect or restart it is in
    late,       \* was the deadline passed when this cycle read the clock ...
    age,        \* ... and how many ticks ago was that, at most RestartTicks
    loopPc,     \* where loop() is
    latePumps   \* history: library calls of loop() in this exclusive period

fsm == <<mode, pause, deadline, begun, retries>>
sock == <<ws, wsInit, initTried, heals>>
taskvars == <<api, after, late, age>>
loopvars == <<loopPc, latePumps>>
vars == <<fsm, sock, wifi, taskvars, loopvars>>

Modes == {"normal", "stopping", "sending", "restarting"}

ApiPcs == {"idle", "cycle", "pause", "disconnect", "flags", "check",
           "send", "post", "begin", "connecting", "burst", "recheck",
           "unpause", "leave", "again", "done"}

Reasons == {"none", "heal", "stop", "retry", "abandon", "restart"}

\* connected = wsConnected, connecting = wsConnecting, sub =
\* g_wsSubscribeSentAfterConnect.
Sockets == [lib : {"down", "handshake", "open"},
            connected : BOOLEAN, connecting : BOOLEAN, sub : BOOLEAN]

\* gNetMutex is free: no POST and no MQTT connect is under way.
NetFree == api # "post" /\ loopPc # "connect"

LeftOf(ticks, elapsed) == IF ticks > elapsed THEN ticks - elapsed ELSE 0

-----------------------------------------------------------------------------
(* The WebSocket library: one call of its loop() and the event it may raise. *)

Opened(w) == [lib |-> "open", connected |-> TRUE, connecting |-> FALSE, sub |-> TRUE]

Dropped(w) == [w EXCEPT !.lib = "down", !.connected = FALSE, !.connecting = FALSE]

Failed(w) == [w EXCEPT !.lib = "down", !.connecting = FALSE]

Pumped(w) ==
    {w} \cup CASE w.lib = "down"      -> {[w EXCEPT !.lib = "handshake"]}
               [] w.lib = "handshake" -> {Opened(w), Dropped(w), Failed(w)}
               [] w.lib = "open"      -> {Dropped(w)}

\* NTFY_EXCL_WS_RESTART_PUMP_BURST calls: enough for a whole connect.
Burst(w) == UNION {UNION {Pumped(y) : y \in Pumped(x)} : x \in Pumped(w)}

-----------------------------------------------------------------------------
Init ==
    /\ mode = "normal"
    /\ pause = FALSE
    /\ deadline = 0
    /\ begun = FALSE
    /\ retries = 0
    /\ ws = [lib |-> "down", connected |-> FALSE, connecting |-> FALSE, sub |-> FALSE]
    /\ wsInit = FALSE
    /\ initTried = FALSE
    /\ heals = 0
    /\ wifi = TRUE
    /\ api = "idle"
    /\ after = "none"
    /\ late = FALSE
    /\ age = 0
    /\ loopPc = "top"
    /\ latePumps = 0

-----------------------------------------------------------------------------
(* apiTask: the start of a cycle *)

ApiCycle ==
    /\ api = "idle"
    /\ wifi
    /\ api' = "cycle"
    /\ late' = (deadline = 0)
    /\ age' = 0
    /\ UNCHANGED <<fsm, sock, wifi, after, loopvars>>

\* bootWsSelfHealIfStalled: no ticker since the staged start.
ApiHeal ==
    /\ api = "cycle"
    /\ mode = "normal"
    /\ wifi
    /\ wsInit
    /\ initTried
    /\ heals < MaxHeals
    /\ heals' = heals + 1
    /\ ws' = [ws EXCEPT !.sub = FALSE]
    /\ api' = "disconnect"
    /\ after' = "heal"
    /\ UNCHANGED <<fsm, wsInit, initTried, wifi, late, age, loopvars>>

\* Nothing to send: fetchPrice, over the network or from the socket's last price.
ApiFetch ==
    /\ api = "cycle"
    /\ mode = "normal"
    /\ api' = "idle"
    /\ UNCHANGED <<fsm, sock, wifi, after, late, age, loopvars>>

\* ... and the first start of the WebSocket, unless the heap is too low.
ApiInitWs ==
    /\ api = "cycle"
    /\ mode = "normal"
    /\ NetFree
    /\ ~wsInit
    /\ ~initTried
    /\ initTried' = TRUE
    /\ \/ wsInit' = TRUE /\ ws' = [ws EXCEPT !.connecting = TRUE]
       \/ UNCHANGED <<wsInit, ws>>
    /\ api' = "idle"
    /\ UNCHANGED <<fsm, heals, wifi, after, late, age, loopvars>>

\* An item is pending.  ntfyExclusiveShouldSkipWsStopPhase: no socket to stop.
ApiEnter ==
    /\ api = "cycle"
    /\ mode = "normal"
    /\ IF wsInit
       THEN mode' = "stopping" /\ deadline' = StopTicks /\ api' = "pause"
       ELSE mode' = "sending" /\ UNCHANGED deadline /\ api' = "idle"
    /\ latePumps' = 0
    /\ UNCHANGED <<pause, begun, retries, sock, wifi, after, late, age, loopPc>>

ApiPause ==
    /\ api = "pause"
    /\ pause' = TRUE
    /\ api' = "disconnect"
    /\ after' = "stop"
    /\ UNCHANGED <<mode, deadline, begun, retries, sock, wifi, late, age, loopvars>>

-----------------------------------------------------------------------------
(* Shared pieces: disconnect under gNetMutex, then write the flags without it *)

ApiDisconnect ==
    /\ api = "disconnect"
    /\ NetFree
    /\ ws' = Dropped(ws)
    /\ api' = "flags"
    /\ UNCHANGED <<fsm, wsInit, initTried, heals, wifi, after, late, age, loopvars>>

Lowered(w) == [w EXCEPT !.connected = FALSE, !.connecting = FALSE]

ApiFlagsStop ==
    /\ api = "flags"
    /\ after = "stop"
    /\ ws' = Lowered(ws)
    /\ api' = "idle"
    /\ UNCHANGED <<fsm, wsInit, initTried, heals, wifi, after, late, age, loopvars>>

ApiFlagsHeal ==
    /\ api = "flags"
    /\ after = "heal"
    /\ ws' = Lowered(ws)
    /\ api' = "begin"
    /\ UNCHANGED <<fsm, wsInit, initTried, heals, wifi, after, late, age, loopvars>>

\* Faulty: the windows are not counted.
ApiFlagsRetryUncounted ==
    /\ api = "flags"
    /\ after = "retry"
    /\ ws' = [Lowered(ws) EXCEPT !.sub = FALSE]
    /\ begun' = FALSE
    /\ retries' = 0
    /\ deadline' = LeftOf(RestartTicks, age)
    /\ api' = "idle"
    /\ UNCHANGED <<mode, pause, wsInit, initTried, heals, wifi, after, late, age,
                   loopvars>>

ApiFlagsRetry ==
    /\ api = "flags"
    /\ after = "retry"
    /\ ws' = [Lowered(ws) EXCEPT !.sub = FALSE]
    /\ begun' = FALSE
    /\ deadline' = LeftOf(RestartTicks, age)
    /\ api' = "idle"
    /\ UNCHANGED <<mode, pause, retries, wsInit, initTried, heals, wifi, after, late,
                   age, loopvars>>

\* Faulty: the pause outlives the period.
ApiFlagsAbandonPaused ==
    /\ api = "flags"
    /\ after = "abandon"
    /\ ws' = [Lowered(ws) EXCEPT !.sub = FALSE]
    /\ api' = "leave"
    /\ UNCHANGED <<fsm, wsInit, initTried, heals, wifi, after, late, age, loopvars>>

ApiFlagsAbandon ==
    /\ api = "flags"
    /\ after = "abandon"
    /\ ws' = [Lowered(ws) EXCEPT !.sub = FALSE]
    /\ pause' = FALSE
    /\ api' = "leave"
    /\ UNCHANGED <<mode, deadline, begun, retries, wsInit, initTried, heals, wifi,
                   after, late, age, loopvars>>

\* beginSSL under gNetMutex; an open connection is forgotten without an event.
ApiBegin ==
    /\ api = "begin"
    /\ NetFree
    /\ ws' = [ws EXCEPT !.lib = "down"]
    /\ api' = "connecting"
    /\ UNCHANGED <<fsm, wsInit, initTried, heals, wifi, after, late, age, loopvars>>

ApiConnecting ==
    /\ api = "connecting"
    /\ ws' = [ws EXCEPT !.connecting = TRUE]
    /\ api' = CASE after = "restart" -> "burst"
                [] after = "heal"    -> "cycle"
                [] after = "abandon" -> "done"
    /\ UNCHANGED <<fsm, wsInit, initTried, heals, wifi, after, late, age, loopvars>>

-----------------------------------------------------------------------------
(* STOPPING_WS *)

ApiStoppingPump ==
    /\ api = "cycle"
    /\ mode = "stopping"
    /\ \/ wifi /\ wsInit /\ NetFree /\ ws' \in Pumped(ws)
       \/ ~(wifi /\ wsInit) /\ UNCHANGED ws
    /\ api' = "check"
    /\ UNCHANGED <<fsm, wsInit, initTried, heals, wifi, after, late, age, loopvars>>

ApiStoppingCheck ==
    /\ api = "check"
    /\ mode' = IF (~ws.connected /\ ~ws.connecting) \/ late THEN "sending" ELSE mode
    /\ api' = "idle"
    /\ UNCHANGED <<pause, deadline, begun, retries, sock, wifi, after, late, age,
                   loopvars>>

-----------------------------------------------------------------------------
(* SENDING: one item, or none if the queue has changed its mind *)

ApiSend ==
    /\ api = "cycle"
    /\ mode = "sending"
    /\ \/ NetFree /\ api' = "post"
       \/ api' = "send"
    /\ UNCHANGED <<fsm, sock, wifi, after, late, age, loopvars>>

ApiPosted ==
    /\ api = "post"
    /\ api' = "send"
    /\ UNCHANGED <<fsm, sock, wifi, after, late, age, loopvars>>

\* The deadline counts from the start of the cycle, before the POST.
ApiSent ==
    /\ api = "send"
    /\ mode' = "restarting"
    /\ deadline' = LeftOf(RestartTicks, age)
    /\ begun' = FALSE
    /\ retries' = 0
    /\ api' = "idle"
    /\ UNCHANGED <<pause, sock, wifi, after, late, age, loopvars>>

-----------------------------------------------------------------------------
(* RESTARTING_WS *)

ApiRestartBegin ==
    /\ api = "cycle"
    /\ mode = "restarting"
    /\ ~begun
    /\ begun' = TRUE
    /\ after' = "restart"
    /\ ws' = [ws EXCEPT !.sub = FALSE]
    /\ \/ wsInit /\ UNCHANGED wsInit /\ api' = "begin"
       \/ ~wsInit /\ wsInit' = TRUE /\ api' = "begin"
       \/ ~wsInit /\ UNCHANGED wsInit /\ api' = "burst"
    /\ UNCHANGED <<mode, pause, deadline, retries, initTried, heals, wifi, late, age,
                   loopvars>>

ApiRestartGoOn ==
    /\ api = "cycle"
    /\ mode = "restarting"
    /\ begun
    /\ api' = "burst"
    /\ UNCHANGED <<fsm, sock, wifi, after, late, age, loopvars>>

ApiRestartBurst ==
    /\ api = "burst"
    /\ \/ wifi /\ wsInit /\ NetFree /\ ws' \in Burst(ws)
       \/ ~(wifi /\ wsInit) /\ UNCHANGED ws
    /\ api' = "recheck"
    /\ UNCHANGED <<fsm, wsInit, initTried, heals, wifi, after, late, age, loopvars>>

ApiRestored ==
    /\ api = "recheck"
    /\ ws.connected /\ ws.sub
    /\ api' = "unpause"
    /\ UNCHANGED <<fsm, sock, wifi, after, late, age, loopvars>>

ApiRestartWait ==
    /\ api = "recheck"
    /\ ~(ws.connected /\ ws.sub)
    /\ ~late
    /\ api' = "idle"
    /\ UNCHANGED <<fsm, sock, wifi, after, late, age, loopvars>>

\* Faulty: one window too many.
ApiRestartRetryOneMore ==
    /\ api = "recheck"
    /\ ~(ws.connected /\ ws.sub)
    /\ late
    /\ retries <= MaxRetries
    /\ retries' = retries + 1
    /\ after' = "retry"
    /\ api' = IF wsInit THEN "disconnect" ELSE "flags"
    /\ UNCHANGED <<mode, pause, deadline, begun, sock, wifi, late, age, loopvars>>

ApiRestartRetry ==
    /\ api = "recheck"
    /\ ~(ws.connected /\ ws.sub)
    /\ late
    /\ retries < MaxRetries
    /\ retries' = retries + 1
    /\ after' = "retry"
    /\ api' = IF wsInit THEN "disconnect" ELSE "flags"
    /\ UNCHANGED <<mode, pause, deadline, begun, sock, wifi, late, age, loopvars>>

ApiRestartAbandon ==
    /\ api = "recheck"
    /\ ~(ws.connected /\ ws.sub)
    /\ late
    /\ retries >= MaxRetries
    /\ after' = "abandon"
    /\ api' = IF wsInit THEN "disconnect" ELSE "flags"
    /\ UNCHANGED <<fsm, sock, wifi, late, age, loopvars>>

\* Faulty: the mode is given up before the pause.
ApiUnpauseLast ==
    /\ api = "unpause"
    /\ mode' = "normal"
    /\ api' = "done"
    /\ UNCHANGED <<pause, deadline, begun, retries, sock, wifi, after, late, age,
                   loopvars>>

ApiUnpause ==
    /\ api = "unpause"
    /\ pause' = FALSE
    /\ after' = "none"
    /\ api' = "leave"
    /\ UNCHANGED <<mode, deadline, begun, retries, sock, wifi, late, age, loopvars>>

\* NET_MODE_NORMAL; an abandoned restart is begun once more, in loop()'s hands.
ApiLeave ==
    /\ api = "leave"
    /\ mode' = "normal"
    /\ api' = IF after = "abandon" /\ wsInit THEN "again" ELSE "done"
    /\ UNCHANGED <<pause, deadline, begun, retries, sock, wifi, after, late, age,
                   loopvars>>

ApiAgain ==
    /\ api = "again"
    /\ ws' = [ws EXCEPT !.sub = FALSE]
    /\ api' = "begin"
    /\ UNCHANGED <<fsm, wsInit, initTried, heals, wifi, after, late, age, loopvars>>

ApiDone ==
    /\ api = "done"
    /\ begun' = FALSE
    /\ retries' = 0
    /\ api' = "idle"
    /\ UNCHANGED <<mode, pause, deadline, sock, wifi, after, late, age, loopvars>>

-----------------------------------------------------------------------------
(* loop() *)

\* The first look at the mode: MQTT and diagnostics only outside the period.
LoopTop ==
    /\ loopPc = "top"
    /\ loopPc' = IF mode = "normal" THEN "out" ELSE "ws"
    /\ UNCHANGED <<fsm, sock, wifi, taskvars, latePumps>>

\* connectMQTT takes gNetMutex, the rest of the MQTT traffic does not.
LoopConnect ==
    /\ loopPc = "out"
    /\ wifi
    /\ NetFree
    /\ loopPc' = "connect"
    /\ UNCHANGED <<fsm, sock, wifi, taskvars, latePumps>>

LoopOutDone ==
    /\ loopPc \in {"out", "connect"}
    /\ loopPc' = "ws"
    /\ UNCHANGED <<fsm, sock, wifi, taskvars, latePumps>>

\* Faulty: the second look at the mode is forgotten.
LoopWsUnchecked ==
    /\ loopPc = "ws"
    /\ loopPc' = IF wsInit /\ wifi THEN "wsPause" ELSE "top"
    /\ UNCHANGED <<fsm, sock, wifi, taskvars, latePumps>>

\* The second look at the mode ...
LoopWs ==
    /\ loopPc = "ws"
    /\ loopPc' = IF mode = "normal" /\ wsInit /\ wifi THEN "wsPause" ELSE "top"
    /\ UNCHANGED <<fsm, sock, wifi, taskvars, latePumps>>

\* ... then one at the pause, and at wsConnected: connected, the mutex is only
\* tried; else the library is called every WS_RECONNECT_POLL_THROTTLE_MS.
LoopWsPause ==
    /\ loopPc = "wsPause"
    /\ loopPc' = IF pause \/ (ws.connected /\ ~NetFree) THEN "top" ELSE "wsPump"
    /\ UNCHANGED <<fsm, sock, wifi, taskvars, latePumps>>

LoopPump ==
    /\ loopPc = "wsPump"
    /\ NetFree
    /\ ws' \in Pumped(ws)
    /\ latePumps' = IF mode # "normal" /\ latePumps < 2 THEN latePumps + 1 ELSE latePumps
    /\ loopPc' = "top"
    /\ UNCHANGED <<fsm, wsInit, initTried, heals, wifi, taskvars>>

-----------------------------------------------------------------------------
(* Time and WiFi *)

Tick ==
    /\ deadline' = LeftOf(deadline, 1)
    /\ age' = IF api # "idle" /\ age < RestartTicks THEN age + 1 ELSE age
    /\ UNCHANGED <<mode, pause, begun, retries, sock, wifi, api, after, late, loopvars>>

WifiChange ==
    /\ wifi' = ~wifi
    /\ UNCHANGED <<fsm, sock, taskvars, loopvars>>

ApiStep ==
    \/ ApiCycle \/ ApiHeal \/ ApiFetch \/ ApiInitWs \/ ApiEnter \/ ApiPause
    \/ ApiDisconnect \/ ApiFlagsStop \/ ApiFlagsHeal \/ ApiFlagsRetry \/ ApiFlagsAbandon
    \/ ApiBegin \/ ApiConnecting
    \/ ApiStoppingPump \/ ApiStoppingCheck
    \/ ApiSend \/ ApiPosted \/ ApiSent
    \/ ApiRestartBegin \/ ApiRestartGoOn \/ ApiRestartBurst
    \/ ApiRestored \/ ApiRestartWait \/ ApiRestartRetry \/ ApiRestartAbandon
    \/ ApiUnpause \/ ApiLeave \/ ApiAgain \/ ApiDone

LoopStep ==
    \/ LoopTop \/ LoopConnect \/ LoopOutDone
    \/ LoopWs \/ LoopWsPause \/ LoopPump

Next == ApiStep \/ LoopStep \/ Tick \/ WifiChange

Spec == Init /\ [][Next]_vars

\* Both tasks run, time passes, the holder of the mutex gives it back, and a task
\* that waits for it again and again gets it.
Fairness ==
    /\ SF_vars(ApiStep)
    /\ SF_vars(LoopStep)
    /\ WF_vars(Tick)

FairSpec == Spec /\ Fairness

\* ... and the exchange accepts a connection in the end.
Reachable ==
    /\ SF_vars(LoopPump /\ ws.lib = "down" /\ ws'.lib = "handshake")
    /\ SF_vars(LoopPump /\ ws.lib = "handshake" /\ ws'.lib = "open")
    /\ SF_vars(ApiRestartBurst /\ ws'.lib = "open")

-----------------------------------------------------------------------------
(* Properties *)

\* The type invariant.
TypeOK ==
    /\ mode \in Modes
    /\ pause \in BOOLEAN
    /\ deadline \in Nat
    /\ begun \in BOOLEAN
    /\ retries \in 0 .. MaxRetries
    /\ ws \in Sockets
    /\ wsInit \in BOOLEAN
    /\ initTried \in BOOLEAN
    /\ heals \in 0 .. MaxHeals
    /\ wifi \in BOOLEAN
    /\ api \in ApiPcs
    /\ after \in Reasons
    /\ late \in BOOLEAN
    /\ age \in 0 .. RestartTicks
    /\ loopPc \in {"top", "out", "connect", "ws", "wsPause", "wsPump"}
    /\ latePumps \in 0 .. 2

\* loop() never finds the pause set in normal mode (the code logs a warning where
\* it would): the two flags are written in the order that guarantees it, on
\* entry, on a restored exit and on an abandoned one.
PauseOnlyExclusive == pause => mode # "normal"

\* loop() checks the mode, then waits for the mutex, and does not check again: it
\* may enter the library after the period began, but only once per period.
LatePumpAtMostOnce == latePumps <= 1

\* The exclusive mode is left, although the socket may never come back.
ExclusiveEnds == <>[]wifi => []<>(mode = "normal")

\* After every period, restored or abandoned, the socket comes back: loop() is
\* not left paused and the library is not left without calls.
SocketReturns == <>[](wifi /\ wsInit) => []<>(ws.lib = "open")

\* "Tijdens NTFY exclusive: geen uitgaande MQTT/diag/WS uit loop()".
LoopQuietInExclusive == mode # "normal" => loopPc \notin {"out", "connect"}
=============================================================================
