------------------------------ MODULE Subscriber ------------------------------
(***************************************************************************)
(* cpp_redis::subscriber (src/sources/core/subscriber.cpp): the caller's   *)
(* API (thread T1), the receive and disconnection handlers run by the      *)
(* transport's single worker (thread T2), the detached threads that fail   *)
(* pending ping callbacks, and the environment they talk to: the           *)
(* redis_connection transport (command buffer, socket) and the Redis      *)
(* server of the current connection.                                       *)
(*                                                                         *)
(* Data is abstracted: a channel, a pattern or a ping message is a model   *)
(* value or a number; handlers are identified by the name they are        *)
(* registered under; a reply is a record giving its RESP shape.            *)
(***************************************************************************)
EXTENDS Naturals, Integers, Sequences, FiniteSets

CONSTANTS
    Channels,       \* channel names the caller subscribes to
    Patterns,       \* glob patterns the caller psubscribes to
    MaxPings,       \* ping() calls; ping i carries message i
    MaxReconnects,  \* m_max_reconnects (-1: unlimited)
    AttemptBound,   \* model bound on attempts per outage when MaxReconnects = -1
    MaxCalls,       \* bound on the caller's API calls
    MaxDrops,       \* bound on connection losses
    MaxBuffer,      \* bound on commands the caller leaves uncommitted
    MaxInbox,       \* bound on replies waiting for the worker thread
    ReentrantHandlers, \* whether a handler may call back into its own table
    None            \* absent callback / argument

PingIds == 1 .. MaxPings
Args == Channels \cup Patterns \cup PingIds \cup {None}

ASSUME ConstantsAssumption ==
    /\ Channels \cap Patterns = {}
    /\ None \notin Channels \cup Patterns \cup PingIds
    /\ MaxPings \in Nat
    /\ MaxReconnects \in Nat \cup {-1}
    /\ AttemptBound \in Nat \ {0}
    /\ MaxCalls \in Nat
    /\ MaxDrops \in Nat
    /\ MaxBuffer \in Nat
    /\ MaxInbox \in Nat
    /\ ReentrantHandlers \in BOOLEAN

\* Attempts one outage may make: m_max_reconnects, or the model bound.
AttemptCap == IF MaxReconnects = -1 THEN AttemptBound ELSE MaxReconnects

-----------------------------------------------------------------------------
(* Commands on the wire and replies (RESP shapes) from the server.         *)

Ops == {"AUTH", "CLIENT_SETNAME", "SUBSCRIBE", "PSUBSCRIBE",
        "UNSUBSCRIBE", "PUNSUBSCRIBE", "PING"}
Cmd(op, arg) == [op |-> op, arg |-> arg]
\* The commands the subscriber sends: a channel, a pattern, a ping message,
\* or (AUTH, CLIENT SETNAME) an argument the model does not tell apart.
Command ==
    [op : {"SUBSCRIBE", "UNSUBSCRIBE"}, arg : Channels]
      \cup [op : {"PSUBSCRIBE", "PUNSUBSCRIBE"}, arg : Patterns]
      \cup [op : {"PING"}, arg : PingIds]
      \cup [op : {"AUTH", "CLIENT_SETNAME"}, arg : {None}]

\* A reply as connection_receive_handler sees it: array or not, its size,
\* its first element (title), the name it carries and the type of its last
\* element.  A simple (non-array) reply keeps as title the command it
\* answers; the code never reads it, the properties do.  "drop" is the
\* transport's disconnection notification, queued on the same worker.
Titles == {"subscribe", "psubscribe", "unsubscribe", "punsubscribe",
           "message", "pmessage", "pong", "none"} \cup Ops
\* A pong echoes the message of a ping.
Event == {e \in [kind : {"array", "simple", "drop"}, title : Titles, name : Args,
                 size : {0, 2, 3, 4}, last : {"int", "str", "none"}] :
              e.title = "pong" => e.name \in PingIds}

ArrayReply(t, x, n, l) ==
    [kind |-> "array", title |-> t, name |-> x, size |-> n, last |-> l]
SimpleReply(op) ==
    [kind |-> "simple", title |-> op, name |-> None, size |-> 0, last |-> "none"]
DropEvent ==
    [kind |-> "drop", title |-> "none", name |-> None, size |-> 0, last |-> "none"]

\* A one-shot OOB slot holds an arm, named by the caller's call that armed
\* it (1 .. MaxCalls), or 0 for the logging callback re_auth /
\* re_client_setname install; None when it is empty.
Slot == {None} \cup (0 .. MaxCalls)

\* Steps of connection_disconnection_handler on T2.
\* "stuck_chans" / "stuck_pats": T2 waits forever on a table mutex it holds.
\* "auth_cb" / "setname_cb": T2 is running the AUTH / SETNAME one-shot.
T2States == {"idle", "fence", "check", "reconnect", "replay", "resub", "exit",
             "stuck_chans", "stuck_pats", "auth_cb", "setname_cb"}

\* The last ping callback invoked: ping cb called with the echo of ping
\* reply, or with the synthetic "network failure" (reply = 0).
PingCall == [cb : PingIds, reply : PingIds \cup {0}]

-----------------------------------------------------------------------------
VARIABLES
    subscribed_channels,            \* keys of m_subscribed_channels
    psubscribed_channels,           \* keys of m_psubscribed_channels
    ping_callbacks,                 \* m_ping_callbacks (ping ids, FIFO)
    auth_reply_callback,            \* m_auth_reply_callback
    client_setname_reply_callback,  \* m_client_setname_reply_callback
    password,                       \* m_password non-empty
    client_name,                    \* m_client_name non-empty
    reconnecting,                   \* m_reconnecting
    cancel,                         \* m_cancel
    current_reconnect_attempts,     \* m_current_reconnect_attempts
    t2,                             \* where T2 is in the disconnection handler
    sub_chans, psub_chans,          \* re_subscribe's moved-out maps
    workers,                        \* detached clear_ping_callbacks threads
    connected,                      \* m_client.is_connected()
    sock_alive,                     \* the socket still reaches the server
    buffer,                         \* redis_connection's uncommitted commands
    wire,                           \* committed commands not yet executed
    inbox,                          \* replies and drops queued for T2
    srv_channels, srv_patterns,     \* server: this connection's subscriptions
    srv_named,                      \* server: CLIENT SETNAME took effect
    next_ping, drops, calls,        \* bounds
    last_ping,                      \* history: last ping callback invoked
    replayed_name,                  \* history: last replay re-sent the name
    stable,                         \* history: no connection was ever lost or closed
    fired,                          \* history: times each ping callback was invoked
    oob_run,                        \* history: the one-shot arm T2 last invoked
    t1,                             \* where the caller is: between calls, or in disconnect()
    moved                           \* clear_ping_callbacks' local copy, read by disconnect()

client_vars == <<subscribed_channels, psubscribed_channels, ping_callbacks,
                 auth_reply_callback, client_setname_reply_callback,
                 password, client_name, reconnecting, cancel,
                 current_reconnect_attempts>>
t2_vars == <<t2, sub_chans, psub_chans, workers>>
net_vars == <<connected, sock_alive, buffer, wire, inbox>>
srv_vars == <<srv_channels, srv_patterns, srv_named>>
hist_vars == <<next_ping, drops, last_ping, replayed_name, stable, fired, oob_run>>
aux_vars == <<hist_vars, calls>>
t1_vars == <<t1, moved>>
vars == <<client_vars, t1_vars, t2_vars, net_vars, srv_vars, aux_vars>>

-----------------------------------------------------------------------------
TypeOK ==
    /\ subscribed_channels \subseteq Channels
    /\ psubscribed_channels \subseteq Patterns
    /\ ping_callbacks \in Seq(PingIds)
    /\ auth_reply_callback \in Slot
    /\ client_setname_reply_callback \in Slot
    /\ password \in BOOLEAN
    /\ client_name \in BOOLEAN
    /\ reconnecting \in BOOLEAN
    /\ cancel \in BOOLEAN
    /\ current_reconnect_attempts \in 0 .. AttemptCap
    /\ t2 \in T2States
    /\ sub_chans \subseteq Channels
    /\ psub_chans \subseteq Patterns
    /\ \A w \in workers : w \in Seq(PingIds) /\ w # <<>>
    /\ connected \in BOOLEAN
    /\ sock_alive \in BOOLEAN
    /\ buffer \in Seq(Command)
    /\ wire \in Seq(Command)
    /\ inbox \in Seq(Event)
    /\ srv_channels \subseteq Channels
    /\ srv_patterns \subseteq Patterns
    /\ srv_named \in BOOLEAN
    /\ next_ping \in 1 .. MaxPings + 1
    /\ drops \in 0 .. MaxDrops
    /\ calls \in 0 .. MaxCalls
    /\ last_ping \in PingCall \cup {None}
    /\ replayed_name \in BOOLEAN
    /\ stable \in BOOLEAN
    /\ fired \in [PingIds -> Nat]
    /\ oob_run \in Slot
    /\ t1 \in {"idle", "moving"}
    /\ moved \in Seq(PingIds)

Init ==
    /\ subscribed_channels = {}
    /\ psubscribed_channels = {}
    /\ ping_callbacks = <<>>
    /\ auth_reply_callback = None
    /\ client_setname_reply_callback = None
    /\ password = FALSE
    /\ client_name = FALSE
    /\ reconnecting = FALSE
    /\ cancel = FALSE
    /\ current_reconnect_attempts = 0
    /\ t2 = "idle"
    /\ sub_chans = {}
    /\ psub_chans = {}
    /\ workers = {}
    /\ connected = TRUE
    /\ sock_alive = TRUE
    /\ buffer = <<>>
    /\ wire = <<>>
    /\ inbox = <<>>
    /\ srv_channels = {}
    /\ srv_patterns = {}
    /\ srv_named = FALSE
    /\ next_ping = 1
    /\ drops = 0
    /\ calls = 0
    /\ last_ping = None
    /\ replayed_name = FALSE
    /\ stable = TRUE
    /\ fired = [i \in PingIds |-> 0]
    /\ oob_run = None
    /\ t1 = "idle"
    /\ moved = <<>>

-----------------------------------------------------------------------------
(* Helpers.                                                                *)

\* T2 holds m_ping_callbacks_mutex, m_subscribed_channels_mutex and
\* m_psubscribed_channels_mutex from the fence to the end of the handler.
Fenced == t2 \in {"check", "reconnect", "replay", "resub", "exit"}

\* m_subscribed_channels_mutex / m_psubscribed_channels_mutex held by T2.
ChansLocked == Fenced \/ t2 = "stuck_chans"
PatsLocked == Fenced \/ t2 = "stuck_pats"

\* redis_connection::send: append to the buffer (the caller's own sends
\* are bounded by MaxBuffer).
CanSend == Len(buffer) < MaxBuffer

\* One more API call of the caller (bounded by MaxCalls).
Called == t1 = "idle" /\ calls < MaxCalls /\ calls' = calls + 1

\* redis_connection::commit: the buffer is moved out and written; on a
\* closed transport the write throws and the moved-out buffer is lost;
\* on a dead socket the transport has not noticed yet, the bytes are lost.
Flush ==
    /\ buffer' = <<>>
    /\ wire' = IF connected /\ sock_alive THEN wire \o buffer ELSE wire

\* clear_ping_callbacks: move the queue out and hand it to a detached
\* thread that fails every callback with "network failure".
ClearPingCallbacks ==
    IF ping_callbacks = <<>>
    THEN UNCHANGED <<ping_callbacks, workers>>
    ELSE /\ workers' = workers \cup {ping_callbacks}
         /\ ping_callbacks' = <<>>

\* A fresh server session for a new connection.
NewSession ==
    /\ srv_channels' = {}
    /\ srv_patterns' = {}
    /\ srv_named' = FALSE
    /\ wire' = <<>>

\* Mutant of should_reconnect: "<=" for "<" against m_max_reconnects.
ShouldReconnectLeq ==
    /\ ~connected
    /\ ~cancel
    /\ MaxReconnects = -1 \/ current_reconnect_attempts <= MaxReconnects

\* subscriber::should_reconnect
ShouldReconnect ==
    /\ ~connected
    /\ ~cancel
    /\ MaxReconnects = -1 \/ current_reconnect_attempts < MaxReconnects

-----------------------------------------------------------------------------
(* Caller thread T1.                                                       *)

\* subscriber::subscribe / unprotected_subscribe
subscribe(c) ==
    /\ Called
    /\ ~ChansLocked
    /\ CanSend
    /\ subscribed_channels' = subscribed_channels \cup {c}
    /\ buffer' = Append(buffer, Cmd("SUBSCRIBE", c))
    /\ UNCHANGED <<psubscribed_channels, ping_callbacks, auth_reply_callback,
                   client_setname_reply_callback, password, client_name,
                   reconnecting, cancel, current_reconnect_attempts>>
    /\ UNCHANGED <<t2_vars, connected, sock_alive, wire, inbox, srv_vars, hist_vars>>
    /\ UNCHANGED t1_vars

\* subscriber::psubscribe / unprotected_psubscribe
psubscribe(p) ==
    /\ Called
    /\ ~PatsLocked
    /\ CanSend
    /\ psubscribed_channels' = psubscribed_channels \cup {p}
    /\ buffer' = Append(buffer, Cmd("PSUBSCRIBE", p))
    /\ UNCHANGED <<subscribed_channels, ping_callbacks, auth_reply_callback,
                   client_setname_reply_callback, password, client_name,
                   reconnecting, cancel, current_reconnect_attempts>>
    /\ UNCHANGED <<t2_vars, connected, sock_alive, wire, inbox, srv_vars, hist_vars>>
    /\ UNCHANGED t1_vars

\* subscriber::unsubscribe: nothing is sent for a channel not in the map.
unsubscribe(c) ==
    /\ Called
    /\ ~ChansLocked
    /\ c \in subscribed_channels
    /\ CanSend
    /\ buffer' = Append(buffer, Cmd("UNSUBSCRIBE", c))
    /\ subscribed_channels' = subscribed_channels \ {c}
    /\ UNCHANGED <<psubscribed_channels, ping_callbacks, auth_reply_callback,
                   client_setname_reply_callback, password, client_name,
                   reconnecting, cancel, current_reconnect_attempts>>
    /\ UNCHANGED <<t2_vars, connected, sock_alive, wire, inbox, srv_vars, hist_vars>>
    /\ UNCHANGED t1_vars

\* subscriber::punsubscribe
punsubscribe(p) ==
    /\ Called
    /\ ~PatsLocked
    /\ p \in psubscribed_channels
    /\ CanSend
    /\ buffer' = Append(buffer, Cmd("PUNSUBSCRIBE", p))
    /\ psubscribed_channels' = psubscribed_channels \ {p}
    /\ UNCHANGED <<subscribed_channels, ping_callbacks, auth_reply_callback,
                   client_setname_reply_callback, password, client_name,
                   reconnecting, cancel, current_reconnect_attempts>>
    /\ UNCHANGED <<t2_vars, connected, sock_alive, wire, inbox, srv_vars, hist_vars>>
    /\ UNCHANGED t1_vars

\* subscriber::ping: send and push under m_ping_callbacks_mutex.
ping ==
    /\ Called
    /\ ~Fenced
    /\ next_ping <= MaxPings
    /\ CanSend
    /\ buffer' = Append(buffer, Cmd("PING", next_ping))
    /\ ping_callbacks' = Append(ping_callbacks, next_ping)
    /\ next_ping' = next_ping + 1
    /\ UNCHANGED <<subscribed_channels, psubscribed_channels, auth_reply_callback,
                   client_setname_reply_callback, password, client_name,
                   reconnecting, cancel, current_reconnect_attempts>>
    /\ UNCHANGED <<t2_vars, connected, sock_alive, wire, inbox, srv_vars,
                   drops, last_ping, replayed_name, stable, fired, oob_run>>
    /\ UNCHANGED t1_vars

\* subscriber::auth: no lock is taken.
auth ==
    /\ Called
    /\ CanSend
    /\ password' = TRUE
    /\ auth_reply_callback' = calls + 1
    /\ buffer' = Append(buffer, Cmd("AUTH", None))
    /\ UNCHANGED <<subscribed_channels, psubscribed_channels, ping_callbacks,
                   client_setname_reply_callback, client_name,
                   reconnecting, cancel, current_reconnect_attempts>>
    /\ UNCHANGED <<t2_vars, connected, sock_alive, wire, inbox, srv_vars, hist_vars>>
    /\ UNCHANGED t1_vars

\* subscriber::client_setname: no lock is taken.
client_setname ==
    /\ Called
    /\ CanSend
    /\ client_name' = TRUE
    /\ client_setname_reply_callback' = calls + 1
    /\ buffer' = Append(buffer, Cmd("CLIENT_SETNAME", None))
    /\ UNCHANGED <<subscribed_channels, psubscribed_channels, ping_callbacks,
                   auth_reply_callback, password,
                   reconnecting, cancel, current_reconnect_attempts>>
    /\ UNCHANGED <<t2_vars, connected, sock_alive, wire, inbox, srv_vars, hist_vars>>
    /\ UNCHANGED t1_vars

\* subscriber::commit: a failed write is rethrown to the caller.
commit ==
    /\ Called
    /\ buffer # <<>>
    /\ Flush
    /\ UNCHANGED <<client_vars, t2_vars, connected, sock_alive, inbox, srv_vars, hist_vars>>
    /\ UNCHANGED t1_vars

\* subscriber::cancel_reconnect: m_cancel is never reset.
cancel_reconnect ==
    /\ Called
    /\ ~cancel
    /\ cancel' = TRUE
    /\ UNCHANGED <<subscribed_channels, psubscribed_channels, ping_callbacks,
                   auth_reply_callback, client_setname_reply_callback,
                   password, client_name, reconnecting, current_reconnect_attempts>>
    /\ UNCHANGED <<t2_vars, net_vars, srv_vars, hist_vars>>
    /\ UNCHANGED t1_vars

\* subscriber::disconnect: close the transport (no disconnection handler
\* is called for a requested close), then clear_ping_callbacks WITHOUT
\* m_ping_callbacks_mutex.  Its emptiness test and its read of the queue
\* are this step; the move that empties m_ping_callbacks is the next one,
\* and T2 may pop or move the same queue in between (a data race: the
\* outcome modelled is the one where each side sees the other's queue).
disconnect ==
    /\ Called
    /\ connected' = FALSE
    /\ sock_alive' = FALSE
    /\ wire' = <<>>
    /\ t1' = IF ping_callbacks = <<>> THEN "idle" ELSE "moving"
    /\ moved' = ping_callbacks
    /\ stable' = FALSE
    /\ UNCHANGED <<client_vars, t2_vars, buffer, inbox, srv_vars,
                   next_ping, drops, last_ping, replayed_name, fired, oob_run>>

\* The rest of clear_ping_callbacks in disconnect(): the queue read in the
\* previous step goes to a detached thread; m_ping_callbacks is left empty.
DisconnectMove ==
    /\ t1 = "moving"
    /\ t1' = "idle"
    /\ ping_callbacks' = <<>>
    /\ workers' = workers \cup {moved}
    /\ UNCHANGED <<subscribed_channels, psubscribed_channels, auth_reply_callback,
                   client_setname_reply_callback, password, client_name,
                   reconnecting, cancel, current_reconnect_attempts>>
    /\ UNCHANGED <<moved, t2, sub_chans, psub_chans, net_vars, srv_vars, aux_vars>>

-----------------------------------------------------------------------------
(* Worker thread T2: connection_receive_handler.  A reply is handled only  *)
(* when T2 is not inside the disconnection handler.                        *)

Receiving == t2 = "idle" /\ inbox # <<>> /\ Head(inbox).kind # "drop"

\* Not an array: the AUTH one-shot consumes it first, else the CLIENT
\* SETNAME one-shot; with neither armed it is dropped.  The callback is
\* invoked in place and only disarmed once it returns (OobDisarm).
ReceiveSimple ==
    /\ Receiving
    /\ Head(inbox).kind = "simple"
    /\ inbox' = Tail(inbox)
    /\ t2' = CASE auth_reply_callback # None           -> "auth_cb"
               [] client_setname_reply_callback # None -> "setname_cb"
               [] OTHER                                -> "idle"
    /\ oob_run' = IF auth_reply_callback # None THEN auth_reply_callback
                                               ELSE client_setname_reply_callback
    /\ UNCHANGED <<client_vars, sub_chans, psub_chans, workers, connected,
                   sock_alive, buffer, wire, srv_vars, calls>>
    /\ UNCHANGED <<next_ping, drops, last_ping, replayed_name, stable, fired>>
    /\ UNCHANGED t1_vars

\* Back from the one-shot callback: m_auth_reply_callback = nullptr (or the
\* SETNAME slot), whatever the slot holds by now.  No lock is taken, so the
\* caller may have re-armed the slot while the callback ran.
OobDisarm ==
    /\ t2 \in {"auth_cb", "setname_cb"}
    /\ t2' = "idle"
    /\ auth_reply_callback' = IF t2 = "auth_cb" THEN None ELSE auth_reply_callback
    /\ client_setname_reply_callback' =
           IF t2 = "setname_cb" THEN None ELSE client_setname_reply_callback
    /\ UNCHANGED <<subscribed_channels, psubscribed_channels, ping_callbacks,
                   password, client_name, reconnecting, cancel,
                   current_reconnect_attempts>>
    /\ UNCHANGED <<sub_chans, psub_chans, workers, net_vars, srv_vars, aux_vars>>
    /\ UNCHANGED t1_vars

\* An array that is an acknowledgement (size 3, integer), a message
\* (size 3, string) or a pmessage (size 4): the handler registered under
\* its channel or pattern, if any, runs under the table's mutex; an array
\* of any other shape but a pong is dropped.  No core state changes.
ReceiveSubscriptionReply ==
    /\ Receiving
    /\ Head(inbox).kind = "array"
    /\ Head(inbox).title # "pong"
    /\ inbox' = Tail(inbox)
    /\ UNCHANGED <<client_vars, t2_vars, connected, sock_alive, buffer, wire,
                   srv_vars, aux_vars>>
    /\ UNCHANGED t1_vars

\* A reply for which the dispatcher runs a registered handler, and the
\* table whose mutex it holds meanwhile: the acknowledgement callback
\* (call_acknowledgement_callback) or the message callback
\* (handle_subscribe_reply, handle_psubscribe_reply).
HoldsChans(r) == r.title \in {"subscribe", "message"} /\ r.name \in subscribed_channels
HoldsPats(r) == r.title \in {"psubscribe", "pmessage"} /\ r.name \in psubscribed_channels

\* That handler calls subscribe/unsubscribe (psubscribe/punsubscribe),
\* which spec section 9 allows: T2 locks the std::mutex it already holds
\* and never returns; the mutex stays locked.
ReenterHandler ==
    /\ ReentrantHandlers
    /\ Receiving
    /\ Head(inbox).kind = "array"
    /\ HoldsChans(Head(inbox)) \/ HoldsPats(Head(inbox))
    /\ inbox' = Tail(inbox)
    /\ t2' = IF HoldsChans(Head(inbox)) THEN "stuck_chans" ELSE "stuck_pats"
    /\ UNCHANGED <<client_vars, t1_vars, sub_chans, psub_chans, workers, connected,
                   sock_alive, buffer, wire, srv_vars, aux_vars>>

\* handle_ping_reply: pop the head of the ping FIFO (if any) and call it
\* with the reply.
ReceivePong ==
    /\ Receiving
    /\ Head(inbox).kind = "array"
    /\ Head(inbox).size = 2
    /\ Head(inbox).title = "pong"
    /\ inbox' = Tail(inbox)
    /\ IF ping_callbacks # <<>>
       THEN /\ ping_callbacks' = Tail(ping_callbacks)
            /\ last_ping' = [cb |-> Head(ping_callbacks), reply |-> Head(inbox).name]
            /\ fired' = [fired EXCEPT ![Head(ping_callbacks)] = @ + 1]
       ELSE UNCHANGED <<ping_callbacks, last_ping, fired>>
    /\ UNCHANGED <<subscribed_channels, psubscribed_channels, auth_reply_callback,
                   client_setname_reply_callback, password, client_name,
                   reconnecting, cancel, current_reconnect_attempts>>
    /\ UNCHANGED <<t2_vars, connected, sock_alive, buffer, wire, srv_vars,
                   next_ping, drops, calls, replayed_name, stable, oob_run>>
    /\ UNCHANGED t1_vars

-----------------------------------------------------------------------------
(* Worker thread T2: connection_disconnection_handler, one step per      *)
(* stretch of code between two points where other threads can interfere. *)

\* redis_connection notices the failure (is_connected() turns false),
\* clears its buffer and calls the handler; the handler returns at once
\* if a reconnection is already under way, else starts one.
HandleDisconnect ==
    /\ t2 = "idle"
    /\ inbox # <<>>
    /\ Head(inbox).kind = "drop"
    /\ inbox' = Tail(inbox)
    /\ connected' = FALSE
    /\ buffer' = <<>>
    /\ IF reconnecting
       THEN UNCHANGED <<reconnecting, current_reconnect_attempts, t2>>
       ELSE /\ reconnecting' = TRUE
            /\ current_reconnect_attempts' = 0
            /\ t2' = "fence"
    /\ UNCHANGED <<subscribed_channels, psubscribed_channels, ping_callbacks,
                   auth_reply_callback, client_setname_reply_callback,
                   password, client_name, cancel>>
    /\ UNCHANGED <<sub_chans, psub_chans, workers, sock_alive, wire, srv_vars, aux_vars>>
    /\ UNCHANGED t1_vars

\* Lock the ping mutex, clear_ping_callbacks, lock both table mutexes.
Fence ==
    /\ t2 = "fence"
    /\ t2' = "check"
    /\ ClearPingCallbacks
    /\ UNCHANGED <<subscribed_channels, psubscribed_channels, auth_reply_callback,
                   client_setname_reply_callback, password, client_name,
                   reconnecting, cancel, current_reconnect_attempts>>
    /\ UNCHANGED <<sub_chans, psub_chans, net_vars, srv_vars, aux_vars>>
    /\ UNCHANGED t1_vars

\* while (should_reconnect()) { sleep_before_next_reconnect_attempt(); ...
\* (AttemptBound only matters when MaxReconnects = -1.)
LoopContinue ==
    /\ t2 = "check"
    /\ ShouldReconnect
    /\ MaxReconnects # -1 \/ current_reconnect_attempts < AttemptBound
    /\ t2' = "reconnect"
    /\ UNCHANGED <<client_vars, sub_chans, psub_chans, workers, net_vars,
                   srv_vars, aux_vars>>
    /\ UNCHANGED t1_vars

LoopExit ==
    /\ t2 = "check"
    /\ ~ShouldReconnect
    /\ t2' = "exit"
    /\ UNCHANGED <<client_vars, sub_chans, psub_chans, workers, net_vars,
                   srv_vars, aux_vars>>
    /\ UNCHANGED t1_vars

\* Mutant of reconnect: the attempt is not counted (++m_current_reconnect_attempts
\* dropped) on the failing paths.
ReconnectFailsUncounted ==
    /\ t2 = "reconnect"
    /\ t2' = "check"
    /\ UNCHANGED <<client_vars, sub_chans, psub_chans, workers, net_vars, srv_vars, aux_vars>>
    /\ UNCHANGED t1_vars

\* subscriber::reconnect, failing paths: the sentinel has no master
\* (lookup_failed) or the transport's connect throws (failed).
ReconnectFails ==
    /\ t2 = "reconnect"
    /\ current_reconnect_attempts' = current_reconnect_attempts + 1
    /\ t2' = "check"
    /\ UNCHANGED <<subscribed_channels, psubscribed_channels, ping_callbacks,
                   auth_reply_callback, client_setname_reply_callback,
                   password, client_name, reconnecting, cancel>>
    /\ UNCHANGED <<sub_chans, psub_chans, workers, net_vars, srv_vars, aux_vars>>
    /\ UNCHANGED t1_vars

\* subscriber::reconnect, connect() succeeds (notify ok).
ReconnectOk ==
    /\ t2 = "reconnect"
    /\ current_reconnect_attempts' = current_reconnect_attempts + 1
    /\ t2' = "replay"
    /\ connected' = TRUE
    /\ sock_alive' = TRUE
    /\ NewSession
    /\ UNCHANGED <<subscribed_channels, psubscribed_channels, ping_callbacks,
                   auth_reply_callback, client_setname_reply_callback,
                   password, client_name, reconnecting, cancel>>
    /\ UNCHANGED <<sub_chans, psub_chans, workers, buffer, inbox, aux_vars>>
    /\ UNCHANGED t1_vars

\* re_auth, re_client_setname, and the two std::move's of re_subscribe.
Replay ==
    /\ t2 = "replay"
    /\ t2' = "resub"
    /\ buffer' = buffer \o (IF password THEN <<Cmd("AUTH", None)>> ELSE <<>>)
                        \o (IF client_name THEN <<Cmd("CLIENT_SETNAME", None)>> ELSE <<>>)
    /\ auth_reply_callback' = IF password THEN 0 ELSE auth_reply_callback
    /\ client_setname_reply_callback' =
           IF client_name THEN 0 ELSE client_setname_reply_callback
    /\ sub_chans' = subscribed_channels
    /\ psub_chans' = psubscribed_channels
    /\ subscribed_channels' = {}
    /\ psubscribed_channels' = {}
    /\ replayed_name' = client_name
    /\ UNCHANGED <<ping_callbacks, password, client_name, reconnecting, cancel,
                   current_reconnect_attempts>>
    /\ UNCHANGED <<workers, connected, sock_alive, wire, inbox, srv_vars,
                   next_ping, drops, calls, last_ping, stable, fired, oob_run>>
    /\ UNCHANGED t1_vars

\* Mutant of re_subscribe's channel loop: the SUBSCRIBE is sent but the
\* moved-out entry is not put back into m_subscribed_channels.
ReSubscribeForget(c) ==
    /\ t2 = "resub"
    /\ c \in sub_chans
    /\ sub_chans' = sub_chans \ {c}
    /\ buffer' = Append(buffer, Cmd("SUBSCRIBE", c))
    /\ UNCHANGED <<subscribed_channels, psubscribed_channels, ping_callbacks,
                   auth_reply_callback, client_setname_reply_callback, password,
                   client_name, reconnecting, cancel, current_reconnect_attempts>>
    /\ UNCHANGED <<t2, psub_chans, workers, connected, sock_alive, wire, inbox,
                   srv_vars, aux_vars>>
    /\ UNCHANGED t1_vars

\* One iteration of re_subscribe's channel loop (unprotected_subscribe).
ReSubscribe(c) ==
    /\ t2 = "resub"
    /\ c \in sub_chans
    /\ sub_chans' = sub_chans \ {c}
    /\ subscribed_channels' = subscribed_channels \cup {c}
    /\ buffer' = Append(buffer, Cmd("SUBSCRIBE", c))
    /\ UNCHANGED <<psubscribed_channels, ping_callbacks, auth_reply_callback,
                   client_setname_reply_callback, password, client_name,
                   reconnecting, cancel, current_reconnect_attempts>>
    /\ UNCHANGED <<t2, psub_chans, workers, connected, sock_alive, wire, inbox,
                   srv_vars, aux_vars>>
    /\ UNCHANGED t1_vars

\* Mutant of re_subscribe's pattern loop: the map entry is re-inserted but
\* the PSUBSCRIBE is not sent.
RePSubscribeNoSend(p) ==
    /\ t2 = "resub"
    /\ sub_chans = {}
    /\ p \in psub_chans
    /\ psub_chans' = psub_chans \ {p}
    /\ psubscribed_channels' = psubscribed_channels \cup {p}
    /\ UNCHANGED <<subscribed_channels, ping_callbacks, auth_reply_callback,
                   client_setname_reply_callback, password, client_name,
                   reconnecting, cancel, current_reconnect_attempts>>
    /\ UNCHANGED <<t2, sub_chans, workers, net_vars, srv_vars, aux_vars>>
    /\ UNCHANGED t1_vars

\* One iteration of re_subscribe's pattern loop (after the channel loop).
RePSubscribe(p) ==
    /\ t2 = "resub"
    /\ sub_chans = {}
    /\ p \in psub_chans
    /\ psub_chans' = psub_chans \ {p}
    /\ psubscribed_channels' = psubscribed_channels \cup {p}
    /\ buffer' = Append(buffer, Cmd("PSUBSCRIBE", p))
    /\ UNCHANGED <<subscribed_channels, ping_callbacks, auth_reply_callback,
                   client_setname_reply_callback, password, client_name,
                   reconnecting, cancel, current_reconnect_attempts>>
    /\ UNCHANGED <<t2, sub_chans, workers, connected, sock_alive, wire, inbox,
                   srv_vars, aux_vars>>
    /\ UNCHANGED t1_vars

\* reconnect()'s final commit(); back to the loop condition.
ReplayCommit ==
    /\ t2 = "resub"
    /\ sub_chans = {} /\ psub_chans = {}
    /\ connected
    /\ Flush
    /\ t2' = "check"
    /\ UNCHANGED <<client_vars, sub_chans, psub_chans, workers, connected,
                   sock_alive, inbox, srv_vars, aux_vars>>
    /\ UNCHANGED t1_vars

\* The same commit() on a transport the caller has closed meanwhile: it
\* throws, nothing in the handler catches it, the lock_guards release the
\* mutexes while unwinding and m_reconnecting = false is never reached.
ReplayCommitThrows ==
    /\ t2 = "resub"
    /\ sub_chans = {} /\ psub_chans = {}
    /\ ~connected
    /\ Flush
    /\ t2' = "idle"
    /\ UNCHANGED <<client_vars, sub_chans, psub_chans, workers, connected,
                   sock_alive, inbox, srv_vars, aux_vars>>
    /\ UNCHANGED t1_vars

\* After the loop: give up (clear_subscriptions, notify stopped) if still
\* disconnected; m_reconnecting = false; the mutexes are released.
Exit ==
    /\ t2 = "exit"
    /\ t2' = "idle"
    /\ reconnecting' = FALSE
    /\ IF connected
       THEN UNCHANGED <<subscribed_channels, psubscribed_channels>>
       ELSE /\ subscribed_channels' = {}
            /\ psubscribed_channels' = {}
    /\ UNCHANGED <<ping_callbacks, auth_reply_callback, client_setname_reply_callback,
                   password, client_name, cancel, current_reconnect_attempts>>
    /\ UNCHANGED <<sub_chans, psub_chans, workers, net_vars, srv_vars, aux_vars>>
    /\ UNCHANGED t1_vars

-----------------------------------------------------------------------------
(* Detached threads of clear_ping_callbacks.                               *)

\* Call the next callback of thread w with the "network failure" reply.
FailPing(w) ==
    /\ w \in workers
    /\ last_ping' = [cb |-> Head(w), reply |-> 0]
    /\ fired' = [fired EXCEPT ![Head(w)] = @ + 1]
    /\ workers' = (workers \ {w}) \cup (IF Len(w) = 1 THEN {} ELSE {Tail(w)})
    /\ UNCHANGED <<client_vars, t2, sub_chans, psub_chans, net_vars, srv_vars,
                   next_ping, drops, calls, replayed_name, stable, oob_run>>
    /\ UNCHANGED t1_vars

-----------------------------------------------------------------------------
(* Environment: the Redis server of the current connection and the        *)
(* network.  A subscribed connection (RESP2) answers PING with an array    *)
(* ["pong", msg] and refuses CLIENT with an error; otherwise PING gets a   *)
(* simple reply and CLIENT SETNAME takes effect.                           *)

SubscribedMode == srv_channels \cup srv_patterns # {}

ServerReply(cmd) ==
    CASE cmd.op = "SUBSCRIBE"    -> ArrayReply("subscribe", cmd.arg, 3, "int")
      [] cmd.op = "UNSUBSCRIBE"  -> ArrayReply("unsubscribe", cmd.arg, 3, "int")
      [] cmd.op = "PSUBSCRIBE"   -> ArrayReply("psubscribe", cmd.arg, 3, "int")
      [] cmd.op = "PUNSUBSCRIBE" -> ArrayReply("punsubscribe", cmd.arg, 3, "int")
      [] cmd.op = "PING"         -> IF SubscribedMode
                                    THEN ArrayReply("pong", cmd.arg, 2, "str")
                                    ELSE SimpleReply("PING")
      [] OTHER                   -> SimpleReply(cmd.op)

\* The server executes the oldest command on the wire and replies.
ServerExecute ==
    /\ sock_alive
    /\ wire # <<>>
    /\ Len(inbox) < MaxInbox
    /\ LET cmd == Head(wire) IN
       /\ wire' = Tail(wire)
       /\ inbox' = Append(inbox, ServerReply(cmd))
       /\ srv_channels' = CASE cmd.op = "SUBSCRIBE"   -> srv_channels \cup {cmd.arg}
                            [] cmd.op = "UNSUBSCRIBE" -> srv_channels \ {cmd.arg}
                            [] OTHER                  -> srv_channels
       /\ srv_patterns' = CASE cmd.op = "PSUBSCRIBE"   -> srv_patterns \cup {cmd.arg}
                            [] cmd.op = "PUNSUBSCRIBE" -> srv_patterns \ {cmd.arg}
                            [] OTHER                   -> srv_patterns
       /\ srv_named' = (srv_named \/ (cmd.op = "CLIENT_SETNAME" /\ ~SubscribedMode))
    /\ UNCHANGED <<client_vars, t2_vars, connected, sock_alive, buffer, aux_vars>>
    /\ UNCHANGED t1_vars

\* A message published on a channel, or matching a pattern, this
\* connection is subscribed to.
Publish(c) ==
    /\ sock_alive
    /\ c \in srv_channels
    /\ Len(inbox) < MaxInbox
    /\ inbox' = Append(inbox, ArrayReply("message", c, 3, "str"))
    /\ UNCHANGED <<client_vars, t2_vars, connected, sock_alive, buffer, wire,
                   srv_vars, aux_vars>>
    /\ UNCHANGED t1_vars

PPublish(p) ==
    /\ sock_alive
    /\ p \in srv_patterns
    /\ Len(inbox) < MaxInbox
    /\ inbox' = Append(inbox, ArrayReply("pmessage", p, 4, "str"))
    /\ UNCHANGED <<client_vars, t2_vars, connected, sock_alive, buffer, wire,
                   srv_vars, aux_vars>>
    /\ UNCHANGED t1_vars

\* The connection breaks: what is on the wire is lost and the transport's
\* worker will report the failure after the replies already read.
Drop ==
    /\ sock_alive
    /\ drops < MaxDrops
    /\ drops' = drops + 1
    /\ sock_alive' = FALSE
    /\ wire' = <<>>
    /\ inbox' = Append(inbox, DropEvent)
    /\ stable' = FALSE
    /\ UNCHANGED <<client_vars, t2_vars, connected, buffer, srv_vars,
                   next_ping, calls, last_ping, replayed_name, fired, oob_run>>
    /\ UNCHANGED t1_vars

-----------------------------------------------------------------------------
Next ==
    \/ \E c \in Channels : subscribe(c)
    \/ \E p \in Patterns : psubscribe(p)
    \/ \E c \in Channels : unsubscribe(c)
    \/ \E p \in Patterns : punsubscribe(p)
    \/ ping \/ auth \/ client_setname \/ commit \/ cancel_reconnect \/ disconnect
    \/ DisconnectMove
    \/ ReceiveSimple \/ OobDisarm \/ ReceiveSubscriptionReply \/ ReceivePong \/ ReenterHandler
    \/ HandleDisconnect \/ Fence \/ LoopContinue \/ LoopExit
    \/ ReconnectFails \/ ReconnectOk \/ Replay
    \/ \E c \in Channels : ReSubscribe(c)
    \/ \E p \in Patterns : RePSubscribe(p)
    \/ ReplayCommit \/ ReplayCommitThrows \/ Exit
    \/ \E w \in workers : FailPing(w)
    \/ ServerExecute \/ Drop
    \/ \E c \in Channels : Publish(c)
    \/ \E p \in Patterns : PPublish(p)

Spec == Init /\ [][Next]_vars

\* A step of the transport's worker thread T2: the receive handler and the
\* disconnection handler.  Which way reconnect goes (connect fails or
\* succeeds; the final commit succeeds or throws) is the network's choice,
\* so fairness covers the disjunction only.
T2Step ==
    \/ ReceiveSimple \/ OobDisarm \/ ReceiveSubscriptionReply \/ ReceivePong \/ ReenterHandler
    \/ HandleDisconnect \/ Fence \/ LoopContinue \/ LoopExit
    \/ ReconnectFails \/ ReconnectOk \/ Replay
    \/ \E c \in Channels : ReSubscribe(c)
    \/ \E p \in Patterns : RePSubscribe(p)
    \/ ReplayCommit \/ ReplayCommitThrows \/ Exit

\* T2 is a dedicated thread that blocks only on the mutexes the caller
\* holds for one call, on sleep and on a connect with a timeout: it is
\* never stopped while it has work.  The caller, the server and the
\* network get no fairness.
FairSpec == Spec /\ WF_vars(T2Step)

-----------------------------------------------------------------------------
(* Properties.                                                             *)

\* Nothing is in flight: connected, the worker idle, nothing buffered and
\* nothing on the wire.
Quiescent ==
    /\ connected
    /\ sock_alive
    /\ t2 = "idle"
    /\ buffer = <<>>
    /\ wire = <<>>

\* Spec section 8, invariant 1, across any number of connection losses and
\* reconnections (connection_disconnection_handler, reconnect,
\* re_subscribe): once nothing is in flight, the channels and patterns the
\* subscriber has handlers for are exactly those the server has this
\* connection subscribed to.  (That no entry is lost on the way, which
\* the server's side alone cannot tell, is ImplementsRegistry.)
RegistryReflectsServer ==
    Quiescent =>
        /\ subscribed_channels = srv_channels
        /\ psubscribed_channels = srv_patterns

\* Replay contract (spec section 5; the comments at re_client_setname's call
\* in subscriber::reconnect and in client_setname): when a reconnection
\* re-sends CLIENT SETNAME, the name takes effect on the new connection,
\* since the replay puts it after AUTH and before every SUBSCRIBE.  Once
\* nothing is in flight, a name the last replay re-sent is set.
ReplayedNameApplied ==
    Quiescent /\ replayed_name => srv_named

\* Spec section 5 (exit: reconnecting := false) and invariant 4:
\* m_reconnecting is true only while connection_disconnection_handler runs,
\* so that the next connection loss starts a new reconnection loop.
ReconnectingOnlyInHandler ==
    reconnecting => t2 # "idle"

\* Spec section 8, invariant 2 (handle_ping_reply, ping): on a connection
\* that was never lost or closed, every pong reaches the callback of the
\* ping it answers.
PingPairing ==
    stable /\ last_ping # None /\ last_ping.reply # 0 =>
        last_ping.cb = last_ping.reply

\* Spec section 5 (the ping FIFO is protected by its own mutex) and
\* section 7 (pending callbacks get one synthetic failure when their
\* connection is torn down): no ping callback is ever invoked twice,
\* whether by handle_ping_reply or by a clear_ping_callbacks thread.
PingCallbackOnce == \A i \in PingIds : fired[i] <= 1

\* Spec section 8, invariant 5 (cancel_reconnect, the loop of
\* connection_disconnection_handler, reconnect): once cancel_reconnect has
\* been called, no further connect attempt of the loop succeeds.
CancelStopsConnect ==
    [][~(cancel /\ t2 = "reconnect" /\ t2' = "replay")]_vars

\* Spec sections 3 and 5 (a one-shot slot is "swapped atomically
\* (set-once, clear-on-deliver)") and section 8, invariant 3 (each armed
\* AUTH/SETNAME one-shot fires exactly once per arm); connection_receive_handler, auth, client_setname: when the
\* dispatcher disarms a slot after running its callback, what it removes
\* is the arm it ran, never an arm set while that callback was running.
\* (subscriber.hpp:157-159 documents repeated auth() calls as undefined
\* for their callbacks; the spec's set-once slots promise more.)
OneShotDisarmsOwnArm ==
    [][OobDisarm => (IF t2 = "auth_cb" THEN auth_reply_callback
                                       ELSE client_setname_reply_callback) = oob_run]_vars

\* The supervisor's phase as the caller sees it: m_reconnecting is set
\* while a loss is handled (lines 519, 551); once the loop has ended with
\* is_connected() false (line 541), clear_subscriptions is next.
SupPhase ==
    IF t2 = "exit" /\ ~connected THEN "stopping"
    ELSE IF reconnecting THEN "recovering"
    ELSE "serving"

\* The registry as the caller sees it: what m_subscribed_channels and
\* m_psubscribed_channels hold, plus what re_subscribe has moved out and
\* not yet put back.
Abs == INSTANCE Registry WITH chans <- subscribed_channels \cup sub_chans,
                              pats <- psubscribed_channels \cup psub_chans,
                              calls <- calls,
                              sup <- SupPhase

\* Refinement of the registry contract (spec section 4.1; subscribe,
\* unsubscribe, re_subscribe, clear_subscriptions): across connection
\* losses and replays, the registry only changes by the caller's own
\* subscribe/unsubscribe calls, or is emptied by clear_subscriptions after
\* the reconnection loop has ended disconnected (line 541), and at no
\* other point of connection_disconnection_handler; the drain and
\* re-insertion of re_subscribe neither loses nor adds an entry.
ImplementsRegistry == Abs!Spec

\* Termination of the reconnection loop (connection_disconnection_handler,
\* should_reconnect, reconnect; connection_receive_handler): once T2 is
\* busy (in the disconnection handler, or running a callback) it is
\* eventually idle again, whichever way the connect attempts go, since
\* every attempt counts against m_max_reconnects.
HandlerTerminates == (t2 # "idle") ~> (t2 = "idle")
=============================================================================
