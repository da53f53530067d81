--------------------------- MODULE SubscriberProofs ---------------------------
(***************************************************************************)
(* Proofs about the Subscriber model, for every value of its constants    *)
(* allowed by ConstantsAssumption.                                         *)
(***************************************************************************)
EXTENDS Subscriber, SequenceTheorems, TLAPS

\* m_current_reconnect_attempts stays within its bound only because
\* reconnect() is entered with attempts below the cap (the loop test of
\* connection_disconnection_handler).
AttemptsBelowCap == t2 = "reconnect" => current_reconnect_attempts < AttemptCap

\* disconnect() only goes on to move the ping queue out when it found it
\* non-empty (the early return of clear_ping_callbacks).
MovedNonEmpty == t1 = "moving" => moved # <<>>

\* re_subscribe's moved-out maps are empty outside its loops.
Drained == t2 # "resub" => sub_chans = {} /\ psub_chans = {}

\* The inductive invariant behind both theorems.
IInv == TypeOK /\ AttemptsBelowCap /\ MovedNonEmpty /\ Drained

-----------------------------------------------------------------------------
(* Lemmas on the sequences the model keeps (buffer, wire, inbox, ping     *)
(* queues).                                                                *)

LEMMA AppendType ==
    ASSUME NEW S, NEW s \in Seq(S), NEW e \in S
    PROVE  Append(s, e) \in Seq(S)
BY AppendProperties

LEMMA ConcatType ==
    ASSUME NEW S, NEW s \in Seq(S), NEW t \in Seq(S)
    PROVE  s \o t \in Seq(S)
BY ConcatProperties

LEMMA TailType ==
    ASSUME NEW S, NEW s \in Seq(S), s # <<>>
    PROVE  /\ Tail(s) \in Seq(S)
           /\ Head(s) \in S
BY HeadTailProperties

\* A non-empty queue of ping callbacks handed to a clear_ping_callbacks
\* thread loses its head; what is left is empty or a non-empty queue.
LEMMA SingletonType ==
    ASSUME NEW S, NEW e \in S
    PROVE  <<e>> \in Seq(S)
<1>1. <<>> \in Seq(S) /\ Append(<<>>, e) = <<e>>
    BY EmptySeq
<1>2. QED
    BY <1>1, AppendProperties

LEMMA TailNonEmpty ==
    ASSUME NEW S, NEW s \in Seq(S), s # <<>>, Len(s) # 1
    PROVE  Tail(s) # <<>>
<1>1. Len(Tail(s)) = Len(s) - 1 /\ Len(s) \in Nat \ {0}
    BY HeadTailProperties, EmptySeq
<1>2. Len(<<>>) = 0
    OBVIOUS
<1>3. Len(Tail(s)) # 0
    BY <1>1
<1>4. QED
    BY <1>2, <1>3, Zenon

-----------------------------------------------------------------------------
(* The commands the subscriber sends and the replies the server builds    *)
(* are of their types.                                                     *)

LEMMA ArrayReplyType ==
    ASSUME NEW t \in Titles \ {"pong"}, NEW x \in Args, NEW n \in {0, 2, 3, 4},
           NEW l \in {"int", "str", "none"}
    PROVE  ArrayReply(t, x, n, l) \in Event
BY DEF ArrayReply, Event

LEMMA ServerReplyType ==
    ASSUME NEW cmd \in Command
    PROVE  ServerReply(cmd) \in Event
BY DEF ServerReply, ArrayReply, SimpleReply, Event, Command, Titles, Ops, Args

LEMMA DropEventType == DropEvent \in Event
BY DEF DropEvent, Event, Titles, Args

-----------------------------------------------------------------------------
(* Type correctness.                                                       *)

LEMMA InitIInv == Init => IInv
<1> SUFFICES ASSUME Init PROVE IInv
    OBVIOUS
<1>1. /\ <<>> \in Seq(PingIds)
      /\ <<>> \in Seq(Command)
      /\ <<>> \in Seq(Event)
    BY EmptySeq
<1>2. /\ 0 \in 0 .. AttemptCap
      /\ [i \in PingIds |-> 0] \in [PingIds -> Nat]
      /\ 1 \in 1 .. MaxPings + 1
      /\ 0 \in 0 .. MaxDrops
      /\ 0 \in 0 .. MaxCalls
    BY ConstantsAssumption DEF AttemptCap
<1>3. TypeOK
    <2>1. last_ping \in PingCall \cup {None}
        BY DEF Init
    <2>2. \A w \in workers : w \in Seq(PingIds) /\ w # <<>>
        BY DEF Init
    <2>3. ping_callbacks \in Seq(PingIds) /\ buffer \in Seq(Command) /\ wire \in Seq(Command) /\ inbox \in Seq(Event)
        BY <1>1 DEF Init
    <2>4. /\ password \in BOOLEAN /\ t2 \in T2States
          /\ auth_reply_callback \in Slot /\ oob_run \in Slot
        BY DEF Init, Slot, T2States
    <2>5. moved \in Seq(PingIds) /\ t1 \in {"idle", "moving"}
        BY <1>1 DEF Init
    <2>6. QED
        BY <1>2, <2>1, <2>2, <2>3, <2>4, <2>5 DEF Init, TypeOK
<1>4. QED
    BY <1>3 DEF Init, IInv, AttemptsBelowCap, MovedNonEmpty, Drained

\* Every step of the model preserves the inductive invariant.
LEMMA IInvStep == IInv /\ [Next]_vars => IInv'
<1> SUFFICES ASSUME IInv, [Next]_vars PROVE IInv'
    OBVIOUS
<1> USE ConstantsAssumption
<1> USE DEF IInv, TypeOK, AttemptsBelowCap, MovedNonEmpty, Drained,
           client_vars, t1_vars, t2_vars, net_vars, srv_vars, aux_vars, hist_vars
<1>1. ASSUME NEW c \in Channels, subscribe(c) PROVE IInv'
    <2>1. buffer' \in Seq(Command)
        BY <1>1, AppendType DEF subscribe, Cmd, Command
    <2>2. QED
        BY <1>1, <2>1 DEF subscribe, Called
<1>2. ASSUME NEW p \in Patterns, psubscribe(p) PROVE IInv'
    <2>1. buffer' \in Seq(Command)
        BY <1>2, AppendType DEF psubscribe, Cmd, Command
    <2>2. QED
        BY <1>2, <2>1 DEF psubscribe, Called
<1>3. ASSUME NEW c \in Channels, unsubscribe(c) PROVE IInv'
    <2>1. buffer' \in Seq(Command)
        BY <1>3, AppendType DEF unsubscribe, Cmd, Command
    <2>2. QED
        BY <1>3, <2>1 DEF unsubscribe, Called
<1>4. ASSUME NEW p \in Patterns, punsubscribe(p) PROVE IInv'
    <2>1. buffer' \in Seq(Command)
        BY <1>4, AppendType DEF punsubscribe, Cmd, Command
    <2>2. QED
        BY <1>4, <2>1 DEF punsubscribe, Called
<1>5. CASE ping
    <2>1. next_ping \in PingIds
        BY <1>5 DEF ping, PingIds
    <2>2. buffer' \in Seq(Command)
        BY <1>5, <2>1, AppendType DEF ping, Cmd, Command
    <2>3. ping_callbacks' \in Seq(PingIds)
        BY <1>5, <2>1, AppendType DEF ping
    <2>4. QED
        BY <1>5, <2>2, <2>3 DEF ping, Called
<1>6. CASE auth
    <2>1. buffer' \in Seq(Command)
        BY <1>6, AppendType DEF auth, Cmd, Command
    <2>2. QED
        BY <1>6, <2>1 DEF auth, Called, Slot
<1>7. CASE client_setname
    <2>1. buffer' \in Seq(Command)
        BY <1>7, AppendType DEF client_setname, Cmd, Command
    <2>2. QED
        BY <1>7, <2>1 DEF client_setname, Called, Slot
<1>8. CASE commit
    <2>1. wire' \in Seq(Command) /\ buffer' \in Seq(Command)
        BY <1>8, ConcatType, EmptySeq DEF commit, Flush
    <2>2. QED
        BY <1>8, <2>1 DEF commit, Called
<1>9. CASE cancel_reconnect
    BY <1>9 DEF cancel_reconnect, Called
<1>10. CASE disconnect
    <2>1. wire' \in Seq(Command) /\ moved' \in Seq(PingIds)
        BY <1>10, EmptySeq DEF disconnect
    <2>2. connected' \in BOOLEAN /\ sock_alive' \in BOOLEAN /\ stable' \in BOOLEAN
        BY <1>10, Zenon DEF disconnect
    <2>3. t1' \in {"idle", "moving"} /\ (t1' = "moving" => moved' # <<>>)
        BY <1>10 DEF disconnect
    <2>4. QED
        BY <1>10, <2>1, <2>2, <2>3 DEF disconnect, Called
<1>11. CASE ReceiveSimple
    <2>1. inbox' \in Seq(Event)
        BY <1>11, TailType DEF ReceiveSimple, Receiving
    <2>2. t2' \in {"idle", "auth_cb", "setname_cb"}
        BY <1>11 DEF ReceiveSimple
    <2>3. t2' \in T2States /\ t2' # "reconnect" /\ t2' # "resub"
        BY <2>2 DEF T2States
    <2>4. oob_run' \in Slot
        BY <1>11 DEF ReceiveSimple
    <2>5. Drained'
        BY <1>11, <2>3 DEF ReceiveSimple, Receiving
    <2>6. /\ UNCHANGED <<client_vars, t1_vars, sub_chans, psub_chans, workers>>
          /\ UNCHANGED <<connected, sock_alive, buffer, wire, srv_vars, calls>>
          /\ UNCHANGED <<next_ping, drops, last_ping, replayed_name, stable, fired>>
        BY <1>11, Zenon DEF ReceiveSimple
    <2>7. TypeOK'
        BY <2>1, <2>3, <2>4, <2>6
    <2>8. AttemptsBelowCap' /\ MovedNonEmpty'
        BY <2>3, <2>6
    <2>9. QED
        BY <2>5, <2>7, <2>8
<1>12. CASE ReceiveSubscriptionReply
    <2>1. inbox' \in Seq(Event)
        BY <1>12, TailType DEF ReceiveSubscriptionReply, Receiving
    <2>2. QED
        BY <1>12, <2>1 DEF ReceiveSubscriptionReply
<1>13. CASE ReceivePong
    <2>1. inbox # <<>> /\ Head(inbox) \in Event /\ inbox' \in Seq(Event)
        BY <1>13, TailType DEF ReceivePong, Receiving
    <2>2. Head(inbox).name \in PingIds
        BY <1>13, <2>1 DEF ReceivePong, Event
    <2>3. /\ ping_callbacks' \in Seq(PingIds)
          /\ last_ping' \in PingCall \cup {None}
          /\ fired' \in [PingIds -> Nat]
        <3>1. CASE ping_callbacks # <<>>
            <4>1. Head(ping_callbacks) \in PingIds /\ Tail(ping_callbacks) \in Seq(PingIds)
                BY <3>1, TailType
            <4>2. /\ ping_callbacks' = Tail(ping_callbacks)
                  /\ last_ping' = [cb |-> Head(ping_callbacks), reply |-> Head(inbox).name]
                  /\ fired' = [fired EXCEPT ![Head(ping_callbacks)] = @ + 1]
                BY <1>13, <3>1, Zenon DEF ReceivePong
            <4>3. QED
                BY <2>2, <4>1, <4>2 DEF PingCall
        <3>2. CASE ping_callbacks = <<>>
            <4>1. UNCHANGED <<ping_callbacks, last_ping, fired>>
                BY <1>13, <3>2, Zenon DEF ReceivePong
            <4>2. QED
                BY <4>1
        <3>3. QED
            BY <3>1, <3>2
    <2>4. AttemptsBelowCap' /\ MovedNonEmpty' /\ Drained'
        BY <1>13 DEF ReceivePong
    <2>5. UNCHANGED <<subscribed_channels, psubscribed_channels, auth_reply_callback,
                      client_setname_reply_callback, password, client_name,
                      reconnecting, cancel, current_reconnect_attempts, t2_vars,
                      connected, sock_alive, buffer, wire, srv_vars, next_ping,
                      drops, calls, replayed_name, stable, oob_run, t1_vars>>
        BY <1>13, Zenon DEF ReceivePong
    <2>6. TypeOK'
        BY <2>1, <2>3, <2>5
    <2>7. QED
        BY <2>4, <2>6
<1>14. CASE HandleDisconnect
    <2>1. inbox' \in Seq(Event) /\ buffer' \in Seq(Command)
        BY <1>14, TailType, EmptySeq DEF HandleDisconnect
    <2>2. 0 \in 0 .. AttemptCap
        BY DEF AttemptCap
    <2>3. /\ UNCHANGED <<subscribed_channels, psubscribed_channels, ping_callbacks,
                      auth_reply_callback, client_setname_reply_callback,
                      password, client_name, cancel>>
          /\ UNCHANGED <<sub_chans, psub_chans, workers, sock_alive, wire, srv_vars,
                      aux_vars, t1_vars>>
          /\ connected' = FALSE
        BY <1>14, Zenon DEF HandleDisconnect
    <2>4. /\ reconnecting' \in BOOLEAN
          /\ current_reconnect_attempts' \in 0 .. AttemptCap
          /\ t2' \in {t2, "fence"}
        <3>1. CASE reconnecting
            <4>1. UNCHANGED <<reconnecting, current_reconnect_attempts, t2>>
                BY <1>14, <3>1, Zenon DEF HandleDisconnect
            <4>2. QED
                BY <4>1
        <3>2. CASE ~reconnecting
            <4>1. /\ reconnecting' = TRUE
                  /\ current_reconnect_attempts' = 0
                  /\ t2' = "fence"
                BY <1>14, <3>2, Zenon DEF HandleDisconnect
            <4>2. QED
                BY <4>1, <2>2
        <3>3. QED
            BY <3>1, <3>2
    <2>5. t2 = "idle"
        BY <1>14 DEF HandleDisconnect
    <2>6. TypeOK'
        BY <2>1, <2>3, <2>4, <2>5, ZenonT(30) DEF T2States
    <2>7. AttemptsBelowCap' /\ MovedNonEmpty' /\ Drained'
        BY <2>3, <2>4, <2>5
    <2>8. QED
        BY <2>6, <2>7
<1>15. CASE Fence
    <2>1. /\ ping_callbacks' \in Seq(PingIds)
          /\ \A w \in workers' : w \in Seq(PingIds) /\ w # <<>>
        <3>1. CASE ping_callbacks = <<>>
            BY <1>15, <3>1 DEF Fence, ClearPingCallbacks
        <3>2. CASE ping_callbacks # <<>>
            BY <1>15, <3>2, EmptySeq DEF Fence, ClearPingCallbacks
        <3>3. QED
            BY <3>1, <3>2
    <2>2. QED
        BY <1>15, <2>1 DEF Fence, T2States
<1>16. CASE LoopContinue
    BY <1>16 DEF LoopContinue, ShouldReconnect, AttemptCap, T2States
<1>17. CASE LoopExit
    BY <1>17 DEF LoopExit, T2States
<1>18. CASE ReconnectFails
    BY <1>18 DEF ReconnectFails, T2States, AttemptCap
<1>19. CASE ReconnectOk
    <2>1. wire' \in Seq(Command)
        BY <1>19, EmptySeq DEF ReconnectOk, NewSession
    <2>2. connected' \in BOOLEAN /\ sock_alive' \in BOOLEAN /\ srv_named' \in BOOLEAN
        BY <1>19, Zenon DEF ReconnectOk, NewSession
    <2>3. QED
        BY <1>19, <2>1, <2>2 DEF ReconnectOk, NewSession, T2States, AttemptCap
<1>20. CASE Replay
    <2>1. /\ <<Cmd("AUTH", None)>> \in Seq(Command)
          /\ <<Cmd("CLIENT_SETNAME", None)>> \in Seq(Command)
          /\ <<>> \in Seq(Command)
        BY SingletonType, EmptySeq DEF Cmd, Command
    <2>2. buffer' \in Seq(Command)
        BY <1>20, <2>1, ConcatType DEF Replay
    <2>3. QED
        BY <1>20, <2>2 DEF Replay, Slot, T2States
<1>21. ASSUME NEW c \in Channels, ReSubscribe(c) PROVE IInv'
    <2>1. buffer' \in Seq(Command)
        BY <1>21, AppendType DEF ReSubscribe, Cmd, Command
    <2>2. QED
        BY <1>21, <2>1 DEF ReSubscribe
<1>22. ASSUME NEW p \in Patterns, RePSubscribe(p) PROVE IInv'
    <2>1. buffer' \in Seq(Command)
        BY <1>22, AppendType DEF RePSubscribe, Cmd, Command
    <2>2. QED
        BY <1>22, <2>1 DEF RePSubscribe
<1>23. CASE ReplayCommit
    <2>1. wire' \in Seq(Command) /\ buffer' \in Seq(Command)
        BY <1>23, ConcatType, EmptySeq DEF ReplayCommit, Flush
    <2>2. QED
        BY <1>23, <2>1 DEF ReplayCommit, T2States
<1>24. CASE ReplayCommitThrows
    <2>1. wire' \in Seq(Command) /\ buffer' \in Seq(Command)
        BY <1>24, ConcatType, EmptySeq DEF ReplayCommitThrows, Flush
    <2>2. QED
        BY <1>24, <2>1 DEF ReplayCommitThrows, T2States
<1>25. CASE Exit
    <2>1. /\ t2 = "exit" /\ t2' = "idle" /\ reconnecting' = FALSE
          /\ subscribed_channels' \subseteq subscribed_channels
          /\ psubscribed_channels' \subseteq psubscribed_channels
        BY <1>25 DEF Exit
    <2>2. UNCHANGED <<ping_callbacks, auth_reply_callback, client_setname_reply_callback,
                      password, client_name, cancel, current_reconnect_attempts,
                      sub_chans, psub_chans, workers, net_vars, srv_vars, aux_vars, t1_vars>>
        BY <1>25, Zenon DEF Exit
    <2>3. TypeOK'
        BY <2>1, <2>2 DEF T2States
    <2>4. AttemptsBelowCap' /\ MovedNonEmpty' /\ Drained'
        BY <2>1, <2>2
    <2>5. QED
        BY <2>3, <2>4
<1>26. ASSUME NEW w \in workers, FailPing(w) PROVE IInv'
    <2>1. w \in Seq(PingIds) /\ w # <<>>
        OBVIOUS
    <2>2. Head(w) \in PingIds /\ Tail(w) \in Seq(PingIds)
        BY <2>1, TailType
    <2>3. Len(w) # 1 => Tail(w) # <<>>
        BY <2>1, TailNonEmpty
    <2>4. /\ \A v \in workers' : v \in Seq(PingIds) /\ v # <<>>
          /\ last_ping' \in PingCall \cup {None}
        BY <1>26, <2>2, <2>3 DEF FailPing, PingCall
    <2>5. fired' \in [PingIds -> Nat]
        BY <1>26, <2>2 DEF FailPing
    <2>6. AttemptsBelowCap' /\ MovedNonEmpty' /\ Drained'
        BY <1>26 DEF FailPing
    <2>7. UNCHANGED <<client_vars, t2, sub_chans, psub_chans, net_vars, srv_vars,
                      next_ping, drops, calls, replayed_name, stable, oob_run, t1_vars>>
        BY <1>26, Zenon DEF FailPing
    <2>8. TypeOK'
        BY <2>4, <2>5, <2>7, ZenonT(30)
    <2>9. QED
        BY <2>6, <2>8
<1>27. CASE ServerExecute
    <2>1. wire # <<>> /\ Head(wire) \in Command /\ wire' \in Seq(Command)
        BY <1>27, TailType DEF ServerExecute
    <2>2. inbox' \in Seq(Event)
        BY <1>27, <2>1, ServerReplyType, AppendType DEF ServerExecute
    <2>3. srv_channels' \subseteq Channels /\ srv_patterns' \subseteq Patterns
        BY <1>27, <2>1 DEF ServerExecute, Command
    <2>4. AttemptsBelowCap' /\ MovedNonEmpty' /\ Drained'
        BY <1>27 DEF ServerExecute
    <2>5. QED
        BY <1>27, <2>1, <2>2, <2>3, <2>4 DEF ServerExecute
<1>28. CASE Drop
    <2>1. inbox' \in Seq(Event) /\ wire' \in Seq(Command)
        BY <1>28, DropEventType, AppendType, EmptySeq DEF Drop
    <2>2. sock_alive' \in BOOLEAN /\ stable' \in BOOLEAN
        BY <1>28, Zenon DEF Drop
    <2>3. QED
        BY <1>28, <2>1, <2>2 DEF Drop
<1>29. ASSUME NEW c \in Channels, Publish(c) PROVE IInv'
    <2>1. inbox' \in Seq(Event)
        BY <1>29, ArrayReplyType, AppendType DEF Publish, Titles, Args
    <2>2. QED
        BY <1>29, <2>1 DEF Publish
<1>30. ASSUME NEW p \in Patterns, PPublish(p) PROVE IInv'
    <2>1. inbox' \in Seq(Event)
        BY <1>30, ArrayReplyType, AppendType DEF PPublish, Titles, Args
    <2>2. QED
        BY <1>30, <2>1 DEF PPublish
<1>31. CASE UNCHANGED vars
    BY <1>31 DEF vars
<1>32. CASE DisconnectMove
    <2>1. /\ ping_callbacks' \in Seq(PingIds)
          /\ \A w \in workers' : w \in Seq(PingIds) /\ w # <<>>
        BY <1>32, EmptySeq DEF DisconnectMove
    <2>2. QED
        BY <1>32, <2>1 DEF DisconnectMove
<1>33. CASE ReenterHandler
    <2>1. inbox' \in Seq(Event)
        BY <1>33, TailType DEF ReenterHandler, Receiving
    <2>2. t2' \in T2States /\ t2' # "reconnect" /\ t2' # "resub"
        BY <1>33 DEF ReenterHandler, T2States
    <2>3. Drained'
        BY <1>33, <2>2 DEF ReenterHandler, Receiving
    <2>4. QED
        BY <1>33, <2>1, <2>2, <2>3 DEF ReenterHandler
<1>34. CASE OobDisarm
    <2>1. auth_reply_callback' \in Slot /\ client_setname_reply_callback' \in Slot
        BY <1>34 DEF OobDisarm, Slot
    <2>2. t2 \in {"auth_cb", "setname_cb"} /\ t2' = "idle"
        BY <1>34 DEF OobDisarm
    <2>3. AttemptsBelowCap' /\ MovedNonEmpty' /\ Drained'
        BY <1>34, <2>2 DEF OobDisarm
    <2>4. QED
        BY <1>34, <2>1, <2>2, <2>3 DEF OobDisarm, T2States
<1>35. QED
    BY <1>1, <1>2, <1>3, <1>4, <1>5, <1>6, <1>7, <1>8, <1>9, <1>10, <1>11,
       <1>12, <1>13, <1>14, <1>15, <1>16, <1>17, <1>18, <1>19, <1>20, <1>21,
       <1>22, <1>23, <1>24, <1>25, <1>26, <1>27, <1>28, <1>29, <1>30, <1>31,
       <1>32, <1>33, <1>34
    DEF Next

\* The disconnection handler's loop and reconnect() keep
\* m_current_reconnect_attempts within 0 .. m_max_reconnects (or the
\* model bound), every command and reply within its type, and every
\* invoked ping callback a (callback, echo) pair of pings.
THEOREM TypeCorrect == Spec => []TypeOK
<1>1. Init => IInv
    BY InitIInv
<1>2. IInv /\ [Next]_vars => IInv'
    BY IInvStep
<1>3. IInv => TypeOK
    BY DEF IInv
<1>4. QED
    BY <1>1, <1>2, <1>3, PTL DEF Spec

-----------------------------------------------------------------------------
(* Refinement of the registry contract (module Registry).                 *)

\* m_reconnecting is set for as long as connection_disconnection_handler
\* runs past its early return (set at line 519, cleared at 551): the
\* supervisor phase the refinement maps to cannot be "serving" while the
\* loop is under way.
HandlerFlag == t2 = "fence" \/ Fenced => reconnecting

LEMMA InitFlag == Init => HandlerFlag
BY DEF Init, HandlerFlag, Fenced

\* Only the handler's first step sets t2 into the handler, and it sets
\* m_reconnecting with it; only its last step clears m_reconnecting, and
\* it leaves the handler.
LEMMA FlagStep == HandlerFlag /\ [Next]_vars => HandlerFlag'
<1> SUFFICES ASSUME HandlerFlag, [Next]_vars PROVE HandlerFlag'
    OBVIOUS
<1> USE DEF HandlerFlag, Fenced, client_vars, t1_vars, t2_vars, net_vars,
           srv_vars, aux_vars, hist_vars
<1>1. CASE UNCHANGED <<t2, reconnecting>>
    BY <1>1
<1>2. CASE t2' \notin {"fence", "check", "reconnect", "replay", "resub", "exit"}
    BY <1>2
<1>3. CASE HandleDisconnect
    BY <1>3 DEF HandleDisconnect
<1>4. CASE Exit
    BY <1>4 DEF Exit
<1>5. CASE Fence \/ LoopContinue \/ LoopExit \/ ReconnectFails \/ ReconnectOk
           \/ Replay \/ ReplayCommit
    BY <1>5 DEF Fence, LoopContinue, LoopExit, ReconnectFails, ReconnectOk,
                Replay, ReplayCommit
<1>6. CASE ReceiveSimple \/ OobDisarm \/ ReenterHandler \/ ReplayCommitThrows
    BY <1>6, <1>2 DEF ReceiveSimple, OobDisarm, ReenterHandler, ReplayCommitThrows
<1>7. CASE \/ \E c \in Channels : subscribe(c) \/ unsubscribe(c) \/ ReSubscribe(c)
                                  \/ Publish(c)
           \/ \E p \in Patterns : psubscribe(p) \/ punsubscribe(p) \/ RePSubscribe(p)
                                  \/ PPublish(p)
           \/ \E w \in workers : FailPing(w)
           \/ ping \/ auth \/ client_setname \/ commit \/ cancel_reconnect
           \/ disconnect \/ DisconnectMove \/ ReceiveSubscriptionReply
           \/ ReceivePong \/ ServerExecute \/ Drop
    BY <1>7, <1>1 DEF subscribe, unsubscribe, ReSubscribe, Publish, psubscribe,
       punsubscribe, RePSubscribe, PPublish, FailPing, ping, auth, client_setname,
       commit, cancel_reconnect, disconnect, DisconnectMove,
       ReceiveSubscriptionReply, ReceivePong, ServerExecute, Drop
<1>8. CASE UNCHANGED vars
    BY <1>8 DEF vars
<1>9. QED
    BY <1>3, <1>4, <1>5, <1>6, <1>7, <1>8 DEF Next

LEMMA InitRefines == Init => Abs!Init
<1> SUFFICES ASSUME Init PROVE Abs!Init
    OBVIOUS
<1>1. SupPhase = "serving"
    BY DEF Init, SupPhase
<1>2. QED
    BY <1>1 DEF Init, Abs!Init

\* Every step is a step of the registry contract or leaves the registry,
\* the supervisor phase and the call count alone.
LEMMA StepRefines == IInv /\ HandlerFlag /\ [Next]_vars => [Abs!Next]_Abs!rvars
<1> SUFFICES ASSUME IInv, HandlerFlag, [Next]_vars PROVE [Abs!Next]_Abs!rvars
    OBVIOUS
<1> USE DEF IInv, Drained, Abs!rvars, SupPhase, client_vars, t1_vars, t2_vars,
           net_vars, srv_vars, aux_vars, hist_vars
<1>1. ASSUME NEW c \in Channels, subscribe(c) PROVE [Abs!Next]_Abs!rvars
    <2>1. Abs!Subscribe(c)
        BY <1>1 DEF subscribe, Called, Abs!Subscribe
    <2>2. QED
        BY <2>1 DEF Abs!Next
<1>2. ASSUME NEW p \in Patterns, psubscribe(p) PROVE [Abs!Next]_Abs!rvars
    <2>1. Abs!PSubscribe(p)
        BY <1>2 DEF psubscribe, Called, Abs!PSubscribe
    <2>2. QED
        BY <2>1 DEF Abs!Next
\* unsubscribe is not fenced, so nothing is moved out: erasing the entry
\* erases it from the registry the caller sees.
<1>3. ASSUME NEW c \in Channels, unsubscribe(c) PROVE [Abs!Next]_Abs!rvars
    <2>1. sub_chans = {} /\ psub_chans = {}
        BY <1>3 DEF unsubscribe, ChansLocked, Fenced
    <2>2. Abs!Unsubscribe(c)
        BY <1>3, <2>1 DEF unsubscribe, Called, Abs!Unsubscribe
    <2>3. QED
        BY <2>2 DEF Abs!Next
<1>4. ASSUME NEW p \in Patterns, punsubscribe(p) PROVE [Abs!Next]_Abs!rvars
    <2>1. sub_chans = {} /\ psub_chans = {}
        BY <1>4 DEF punsubscribe, PatsLocked, Fenced
    <2>2. Abs!PUnsubscribe(p)
        BY <1>4, <2>1 DEF punsubscribe, Called, Abs!PUnsubscribe
    <2>3. QED
        BY <2>2 DEF Abs!Next
<1>5. CASE ping
    BY <1>5 DEF ping, Called, Abs!Next, Abs!OtherCall
<1>6. CASE auth
    BY <1>6 DEF auth, Called, Abs!Next, Abs!OtherCall
<1>7. CASE client_setname
    BY <1>7 DEF client_setname, Called, Abs!Next, Abs!OtherCall
<1>8. CASE commit
    BY <1>8 DEF commit, Called, Abs!Next, Abs!OtherCall
<1>9. CASE cancel_reconnect
    BY <1>9 DEF cancel_reconnect, Called, Abs!Next, Abs!OtherCall
\* Closing the connection while the loop is under way: if the loop has
\* already decided to exit connected, it now gives up (line 541 reads
\* is_connected() after the close).
<1>10. CASE disconnect
    <2>1. /\ UNCHANGED <<t2, reconnecting, subscribed_channels, psubscribed_channels,
                         sub_chans, psub_chans>>
          /\ calls' = calls + 1 /\ ~connected'
        BY <1>10 DEF disconnect, Called
    <2>2. t2 = "exit" => reconnecting
        BY DEF HandlerFlag, Fenced
    <2>3. Abs!Close
        BY <2>1, <2>2 DEF Abs!Close
    <2>4. QED
        BY <2>3 DEF Abs!Next
<1>11. CASE DisconnectMove
    BY <1>11 DEF DisconnectMove
<1>12. CASE ReceiveSimple
    <2>1. /\ t2 = "idle" /\ t2' \in {"auth_cb", "setname_cb", "idle"}
          /\ UNCHANGED <<reconnecting, connected, subscribed_channels,
                         psubscribed_channels, sub_chans, psub_chans, calls>>
        BY <1>12 DEF ReceiveSimple, Receiving
    <2>2. QED
        BY <2>1
<1>13. CASE ReceiveSubscriptionReply
    BY <1>13 DEF ReceiveSubscriptionReply
<1>14. CASE ReceivePong
    BY <1>14 DEF ReceivePong
<1>15. CASE ReenterHandler
    <2>1. /\ t2 = "idle" /\ t2' \in {"stuck_chans", "stuck_pats"}
          /\ UNCHANGED <<reconnecting, connected, subscribed_channels,
                         psubscribed_channels, sub_chans, psub_chans, calls>>
        BY <1>15 DEF ReenterHandler, Receiving
    <2>2. QED
        BY <2>1
\* The handler starts a reconnection (or returns at once if one is under
\* way, leaving the phase recovering).
<1>16. CASE HandleDisconnect
    <2>1. /\ t2 = "idle"
          /\ UNCHANGED <<subscribed_channels, psubscribed_channels, sub_chans,
                         psub_chans, calls>>
        BY <1>16 DEF HandleDisconnect
    <2>2. CASE reconnecting
        BY <1>16, <2>1, <2>2 DEF HandleDisconnect
    <2>3. CASE ~reconnecting
        <3>1. reconnecting' /\ t2' = "fence"
            BY <1>16, <2>3 DEF HandleDisconnect
        <3>2. Abs!LoseConnection
            BY <2>1, <2>3, <3>1 DEF Abs!LoseConnection
        <3>3. QED
            BY <3>2 DEF Abs!Next
    <2>4. QED
        BY <2>2, <2>3
<1>17. CASE Fence
    BY <1>17 DEF Fence
<1>18. CASE LoopContinue
    BY <1>18 DEF LoopContinue
\* should_reconnect() is false: the loop ends; if still disconnected the
\* subscriber is about to give up.
<1>19. CASE LoopExit
    <2>1. /\ t2 = "check" /\ t2' = "exit" /\ reconnecting
          /\ UNCHANGED <<reconnecting, connected, subscribed_channels,
                         psubscribed_channels, sub_chans, psub_chans, calls>>
        BY <1>19 DEF LoopExit, HandlerFlag, Fenced
    <2>2. CASE connected
        BY <2>1, <2>2
    <2>3. CASE ~connected
        <3>1. Abs!Abandon
            BY <2>1, <2>3 DEF Abs!Abandon
        <3>2. QED
            BY <3>1 DEF Abs!Next
    <2>4. QED
        BY <2>2, <2>3
<1>20. CASE ReconnectFails
    BY <1>20 DEF ReconnectFails
\* connect() succeeded: the phase stays recovering until the loop ends.
<1>21. CASE ReconnectOk
    <2>1. t2 = "reconnect" /\ t2' = "replay" /\ reconnecting
        BY <1>21 DEF ReconnectOk, HandlerFlag, Fenced
    <2>2. QED
        BY <1>21, <2>1 DEF ReconnectOk
\* re_subscribe's two std::move's: the registry is only moved out.
<1>22. CASE Replay
    BY <1>22 DEF Replay
<1>23. ASSUME NEW c \in Channels, ReSubscribe(c) PROVE [Abs!Next]_Abs!rvars
    BY <1>23 DEF ReSubscribe
<1>24. ASSUME NEW p \in Patterns, RePSubscribe(p) PROVE [Abs!Next]_Abs!rvars
    BY <1>24 DEF RePSubscribe
<1>25. CASE ReplayCommit
    BY <1>25 DEF ReplayCommit
<1>26. CASE ReplayCommitThrows
    BY <1>26 DEF ReplayCommitThrows
\* After the loop: connected, the recovery is over; disconnected,
\* clear_subscriptions empties the registry.
<1>27. CASE Exit
    <2>1. /\ t2 = "exit" /\ t2' = "idle" /\ reconnecting /\ ~reconnecting'
          /\ sub_chans = {} /\ psub_chans = {}
          /\ UNCHANGED <<sub_chans, psub_chans, connected, calls>>
        BY <1>27 DEF Exit, HandlerFlag, Fenced
    <2>2. CASE connected
        <3>1. UNCHANGED <<subscribed_channels, psubscribed_channels>>
            BY <1>27, <2>2 DEF Exit
        <3>2. Abs!Recover
            BY <2>1, <2>2, <3>1 DEF Abs!Recover
        <3>3. QED
            BY <3>2 DEF Abs!Next
    <2>3. CASE ~connected
        <3>1. subscribed_channels' = {} /\ psubscribed_channels' = {}
            BY <1>27, <2>3 DEF Exit
        <3>2. Abs!GiveUp
            BY <2>1, <2>3, <3>1 DEF Abs!GiveUp
        <3>3. QED
            BY <3>2 DEF Abs!Next
    <2>4. QED
        BY <2>2, <2>3
<1>28. ASSUME NEW w \in workers, FailPing(w) PROVE [Abs!Next]_Abs!rvars
    BY <1>28 DEF FailPing
<1>29. CASE ServerExecute
    BY <1>29 DEF ServerExecute
<1>30. CASE Drop
    BY <1>30 DEF Drop
<1>31. ASSUME NEW c \in Channels, Publish(c) PROVE [Abs!Next]_Abs!rvars
    BY <1>31 DEF Publish
<1>32. ASSUME NEW p \in Patterns, PPublish(p) PROVE [Abs!Next]_Abs!rvars
    BY <1>32 DEF PPublish
<1>33. CASE UNCHANGED vars
    BY <1>33 DEF vars
<1>34. CASE OobDisarm
    BY <1>34 DEF OobDisarm
<1>35. QED
    BY <1>1, <1>2, <1>3, <1>4, <1>5, <1>6, <1>7, <1>8, <1>9, <1>10, <1>11,
       <1>12, <1>13, <1>14, <1>15, <1>16, <1>17, <1>18, <1>19, <1>20, <1>21,
       <1>22, <1>23, <1>24, <1>25, <1>26, <1>27, <1>28, <1>29, <1>30, <1>31,
       <1>32, <1>33, <1>34
    DEF Next

\* The subscriber implements the registry contract: across connection
\* losses, reconnect() and re_subscribe's replay, m_subscribed_channels and
\* m_psubscribed_channels (with re_subscribe's moved-out maps) change only
\* by the caller's own subscribe/unsubscribe calls, and are emptied only
\* by clear_subscriptions once the reconnection loop has ended with the
\* connection down (line 541), never at another point of the handler.
THEOREM RegistryRefined == Spec => ImplementsRegistry
<1>1. Init => IInv /\ HandlerFlag /\ Abs!Init
    BY InitIInv, InitFlag, InitRefines
<1>2. IInv /\ HandlerFlag /\ [Next]_vars => IInv' /\ HandlerFlag'
    BY IInvStep, FlagStep
<1>3. IInv /\ HandlerFlag /\ [Next]_vars => [Abs!Next]_Abs!rvars
    BY StepRefines
<1>4. QED
    BY <1>1, <1>2, <1>3, PTL DEF Spec, ImplementsRegistry, Abs!Spec

=============================================================================
