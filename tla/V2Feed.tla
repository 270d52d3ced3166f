------------------------------- MODULE V2Feed -------------------------------
(***************************************************************************)
(* Where firmware V2 gets its price.  Three tasks write one snapshot under *)
(* a lock they wait for only briefly:                                      *)
(*   the main loop   - exchange_bitvavo::tick(): the connection state, the *)
(*                     REST fetch when a window is due, one start of the   *)
(*                     socket                                              *)
(*   the socket task - bitvavo_ws on_event: connects by itself for ever    *)
(*   the event loop  - net_runtime: the WiFi station and its back-off      *)
(* Times are counted in units: Rest and Sanity stand for the 45 s and the  *)
(* 300 s between two REST windows.                                         *)
(***************************************************************************)
EXTENDS Integers, FiniteSetsExt

CONSTANTS Rest,         \* 45 s after a fetch
          Sanity,       \* 300 s after a window that was skipped
          Blocked,      \* bound on how long a fetch holds the main loop
          MaxShift      \* kStaBackoffShiftMax

ASSUME FeedAssumption ==
    /\ {Rest, Sanity, Blocked, MaxShift} \subseteq Nat
    /\ Rest > 0 /\ Sanity > Rest

VARIABLES feedPc,         \* main loop: "tick", "rest", "fetching", "start", "pause"
          nextRest,   \* time until s_next_rest_ms
          conn,       \* s_snap.connection
          valid,      \* s_snap.valid
          source,     \* s_snap.last_tick_source
          error,      \* s_snap.last_error
          wsStarted,  \* s_ws_started
          socket,     \* the websocket client: "none", "closed", "open"
          subscribed, \* the exchange sends prices over the open socket
          station,    \* WiFi driver: "off", "down", "joining", "joined"
          hasIp,      \* s_has_ip
          backoff,    \* s_sta_backoff_step, as far as it is used
          timer       \* s_sta_backoff_timer is running

snap == <<conn, valid, source, error>>
sock == <<wsStarted, socket, subscribed>>
wifi == <<station, hasIp, backoff, timer>>
feedVars == <<feedPc, nextRest, snap, sock, wifi>>

FeedInit ==
    /\ feedPc = "tick" /\ nextRest = 0
    /\ conn = "Disconnected" /\ valid = FALSE /\ source = "None" /\ error = "None"
    /\ wsStarted = FALSE /\ socket = "none" /\ subscribed = FALSE
    /\ station \in {"off", "joining"} /\ hasIp = FALSE /\ backoff = 0 /\ timer = FALSE

\* A restart, and then start_sta, which may fail; without it there is no WiFi.
FeedReset ==
    /\ feedPc' = "tick" /\ nextRest' = 0
    /\ conn' = "Disconnected" /\ valid' = FALSE /\ source' = "None" /\ error' = "None"
    /\ wsStarted' = FALSE /\ socket' = "none" /\ subscribed' = FALSE
    /\ hasIp' = FALSE /\ backoff' = 0 /\ timer' = FALSE

StartStation == station' \in {"off", "joining"}

-----------------------------------------------------------------------------
\* exchange_bitvavo::tick().  Whoever waits for the lock in vain leaves the
\* snapshot as it is.
Locked(change) == change \/ UNCHANGED snap

TickNoIp ==
    /\ feedPc = "tick" /\ ~hasIp
    /\ Locked(conn' = "Error" /\ error' = "NetworkDown" /\ UNCHANGED <<valid, source>>)
    /\ feedPc' = "pause"
    /\ UNCHANGED <<nextRest, sock, wifi>>

TickIp ==
    /\ feedPc = "tick" /\ hasIp
    /\ Locked(/\ conn' = IF conn \in {"Disconnected", "Error"} THEN "Connecting" ELSE conn
              /\ UNCHANGED <<valid, source, error>>)
    /\ feedPc' = IF nextRest = 0 THEN "rest" ELSE "start"
    /\ UNCHANGED <<nextRest, sock, wifi>>

\* The window is skipped when the socket seems to deliver.
SocketDelivers == wsStarted /\ valid /\ conn = "Connected"

RestSkip ==
    /\ feedPc = "rest" /\ SocketDelivers
    /\ nextRest' = Sanity
    /\ feedPc' = "start"
    /\ UNCHANGED <<snap, sock, wifi>>

\* Without the lock the question is not asked and the fetch is made.
RestBegin ==
    /\ feedPc = "rest"
    /\ feedPc' = "fetching"
    /\ UNCHANGED <<nextRest, snap, sock, wifi>>

\* The answer, and the next window counted from before the fetch.
RestOk ==
    /\ valid' = TRUE /\ source' = "Rest" /\ error' = "None" /\ conn' = "Connected"

RestFails == error' = "RestFailure" /\ UNCHANGED <<conn, valid, source>>

RestAnswer ==
    /\ feedPc = "fetching"
    /\ Locked(RestOk) \/ Locked(RestFails)
    /\ \E spent \in 0 .. Blocked : nextRest' = Max({0, Rest - spent})
    /\ feedPc' = "start"
    /\ UNCHANGED <<sock, wifi>>

\* One attempt to start the socket, whatever comes of it.
StartSocket ==
    /\ feedPc = "start"
    /\ wsStarted' = TRUE
    /\ \/ wsStarted /\ UNCHANGED <<snap, socket>>
       \/ ~wsStarted /\ socket' = "closed" /\ UNCHANGED snap
       \/ /\ ~wsStarted
          /\ Locked(error' = "WsFailure" /\ UNCHANGED <<conn, valid, source>>)
          /\ UNCHANGED socket
    /\ feedPc' = "pause"
    /\ UNCHANGED <<nextRest, subscribed, wifi>>

\* The rest of the round and its pause.
Pause ==
    /\ feedPc = "pause"
    /\ nextRest' \in {nextRest, Max({0, nextRest - 1})}
    /\ feedPc' = "tick"
    /\ UNCHANGED <<snap, sock, wifi>>

-----------------------------------------------------------------------------
\* on_event: CONNECTED sends the subscription, which may not go out.
SocketOpens ==
    /\ socket = "closed" /\ station = "joined"
    /\ socket' = "open"
    /\ subscribed' \in BOOLEAN
    /\ UNCHANGED <<feedPc, nextRest, snap, wsStarted, wifi>>

\* A ticker text: apply_price.
SocketPrice ==
    /\ socket = "open" /\ subscribed /\ station = "joined"
    /\ Locked(/\ valid' = TRUE /\ source' = "Ws" /\ error' = "None"
              /\ conn' = "Connected")
    /\ UNCHANGED <<feedPc, nextRest, sock, wifi>>

\* DISCONNECTED; an attempt that fails reports it as well.
SocketCloses ==
    /\ socket \in {"open", "closed"}
    /\ socket' = "closed" /\ subscribed' = FALSE
    /\ Locked(/\ conn' = IF conn = "Connected" THEN "Connecting" ELSE conn
              /\ UNCHANGED <<valid, source, error>>)
    /\ UNCHANGED <<feedPc, nextRest, wsStarted, wifi>>

SocketError ==
    /\ socket # "none"
    /\ Locked(error' = "WsFailure" /\ UNCHANGED <<conn, valid, source>>)
    /\ UNCHANGED <<feedPc, nextRest, sock, wifi>>

-----------------------------------------------------------------------------
\* on_wifi_sta_event DISCONNECTED: also after an attempt to join that failed.
StationLost ==
    /\ station \in {"joining", "joined"}
    /\ hasIp' = FALSE
    /\ \/ /\ station' = "down"
          /\ timer' = TRUE
          /\ backoff' = Min({MaxShift, backoff + 1})
       \/ /\ station' = "joining"           \* the timer would not start
          /\ UNCHANGED <<timer, backoff>>
    /\ UNCHANGED <<feedPc, nextRest, snap, sock>>

\* sta_backoff_timer_cb
StationRetries ==
    /\ timer
    /\ timer' = FALSE
    /\ station' = IF station = "down" THEN "joining" ELSE station
    /\ UNCHANGED <<hasIp, backoff, feedPc, nextRest, snap, sock>>

\* on_ip_event
StationGotIp ==
    /\ station = "joining"
    /\ station' = "joined" /\ hasIp' = TRUE /\ backoff' = 0 /\ timer' = FALSE
    /\ UNCHANGED <<feedPc, nextRest, snap, sock>>

Main == TickNoIp \/ TickIp \/ RestSkip \/ RestBegin \/ RestAnswer \/ StartSocket \/ Pause
Socket == SocketOpens \/ SocketPrice \/ SocketCloses \/ SocketError
Station == StationLost \/ StationRetries \/ StationGotIp

FeedNext == Main \/ Socket \/ Station

FeedSpec == FeedInit /\ [][FeedNext]_feedVars

-----------------------------------------------------------------------------
FeedTypeOK ==
    /\ feedPc \in {"tick", "rest", "fetching", "start", "pause"}
    /\ nextRest \in 0 .. Sanity
    /\ conn \in {"Disconnected", "Connecting", "Connected", "Error"}
    /\ source \in {"None", "Rest", "Ws"} /\ valid = (source # "None")
    /\ error \in {"None", "NetworkDown", "RestFailure", "WsFailure"}
    /\ socket \in {"none", "closed", "open"} /\ (socket # "none" => wsStarted)
    /\ subscribed => socket = "open"
    /\ station \in {"off", "down", "joining", "joined"} /\ (station = "down" => timer)
    /\ hasIp = (station = "joined")
    /\ backoff \in 0 .. MaxShift

\* Without a live socket the 45 s bootstrap goes on: a REST window is skipped only
\* while the socket is connected.
RestWithoutSocket == [][feedPc = "rest" /\ feedPc' = "start" => socket = "open"]_feedVars
=============================================================================
