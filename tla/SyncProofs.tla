------------------------------ MODULE SyncProofs ------------------------------
(***************************************************************************)
(* Proof that the subscriber's registry matches the server's              *)
(* subscriptions whenever nothing is in flight (RegistryReflectsServer),  *)
(* for every value of the constants.                                       *)
(*                                                                         *)
(* The invariant as stated is not inductive: it says nothing while        *)
(* commands are buffered or on the wire, nor during a reconnection.  The  *)
(* strengthening relates the registry to what the server will hold once  *)
(* it has executed the commands in flight (PendingEffect), in each phase  *)
(* of connection_disconnection_handler.                                   *)
(***************************************************************************)
EXTENDS SubscriberProofs, PendingEffect

\* The current connection is up and the transport writes to it.
Live == connected /\ sock_alive

\* What the server will hold for this connection once it has executed
\* the given commands, from the given state.
EffC(S, s) == Eff(S, s, Channels, "SUBSCRIBE", "UNSUBSCRIBE")
EffP(S, s) == Eff(S, s, Patterns, "PSUBSCRIBE", "PUNSUBSCRIBE")

\* What the server will hold once it has executed the wire and the buffer;
\* what the buffer alone subscribes a fresh connection to.
PendingC == EffC(srv_channels, wire \o buffer)
PendingP == EffP(srv_patterns, wire \o buffer)
BufferedC == EffC({}, buffer)
BufferedP == EffP({}, buffer)

ReplayStates == {"replay", "resub"}
LoopStates == {"fence", "check", "reconnect"}

\* Outside reconnect()'s replay, on a live connection: the registry is
\* what the server will hold once the wire and the buffer are executed.
Synced ==
    Live /\ t2 \notin ReplayStates =>
        /\ subscribed_channels = PendingC
        /\ psubscribed_channels = PendingP

\* Between a successful connect and re_subscribe's drain: every name the
\* new connection will be subscribed to is in the registry, so the drain
\* moves it out and re_subscribe sends it again.
ReplayCovered ==
    t2 = "replay" /\ Live =>
        /\ PendingC \subseteq subscribed_channels
        /\ PendingP \subseteq psubscribed_channels

\* Inside re_subscribe's loops: the registry and the server agree on every
\* name not still waiting in the moved-out maps.
ResubSynced ==
    t2 = "resub" /\ Live =>
        /\ \A c \in Channels \ sub_chans :
               c \in subscribed_channels <=> c \in PendingC
        /\ \A p \in Patterns \ psub_chans :
               p \in psubscribed_channels <=> p \in PendingP

\* While the loop waits for a connection: every name the buffered commands
\* subscribe is in the registry (the buffer reaches the next connection
\* ahead of the replay).
LoopCovered ==
    t2 \in LoopStates /\ ~Live =>
        /\ BufferedC \subseteq subscribed_channels
        /\ BufferedP \subseteq psubscribed_channels

SyncRest == Synced /\ ReplayCovered /\ ResubSynced /\ LoopCovered

\* The inductive invariant behind RegistryReflectsServer.
SInv == IInv /\ SyncRest

-----------------------------------------------------------------------------
(* The pending effect of the subscriber's commands.                        *)

StepC(S, x) == Step(S, x, "SUBSCRIBE", "UNSUBSCRIBE")
StepP(S, x) == Step(S, x, "PSUBSCRIBE", "PUNSUBSCRIBE")

\* A command that subscribes names a channel (a pattern).
LEMMA CommandArgs ==
    /\ \A y \in Command : y.op = "SUBSCRIBE" => y.arg \in Channels
    /\ \A y \in Command : y.op = "PSUBSCRIBE" => y.arg \in Patterns
BY DEF Command

\* One more buffered command is one more server step at the end, after
\* the wire (or, for the buffer alone, after nothing).
LEMMA PendingAppend ==
    ASSUME NEW w \in Seq(Command), NEW b \in Seq(Command), NEW x \in Command,
           NEW S, NEW Q
    PROVE  /\ EffC(S, w \o Append(b, x)) = StepC(EffC(S, w \o b), x)
           /\ EffP(Q, w \o Append(b, x)) = StepP(EffP(Q, w \o b), x)
           /\ EffC(S, Append(b, x)) = StepC(EffC(S, b), x)
           /\ EffP(Q, Append(b, x)) = StepP(EffP(Q, b), x)
<1>1. w \o Append(b, x) = Append(w \o b, x) /\ w \o b \in Seq(Command)
    <2>1. Append(b, x) = b \o <<x>> /\ <<x>> \in Seq(Command)
        BY AppendIsConcat
    <2>2. w \o b \in Seq(Command) /\ Append(w \o b, x) = (w \o b) \o <<x>>
        BY ConcatProperties, AppendIsConcat
    <2>3. (w \o b) \o <<x>> = w \o (b \o <<x>>)
        BY <2>1, ConcatAssociative
    <2>4. QED
        BY <2>1, <2>2, <2>3
<1>2. \A ss \in Seq(Command) :
        /\ EffC(S, Append(ss, x)) = StepC(EffC(S, ss), x)
        /\ EffP(Q, Append(ss, x)) = StepP(EffP(Q, ss), x)
    <2>1. \A ss \in Seq(Command) :
            Eff(S, Append(ss, x), Channels, "SUBSCRIBE", "UNSUBSCRIBE")
            = Step(Eff(S, ss, Channels, "SUBSCRIBE", "UNSUBSCRIBE"), x, "SUBSCRIBE", "UNSUBSCRIBE")
        BY CommandArgs, EffAppend
    <2>2. \A ss \in Seq(Command) :
            Eff(Q, Append(ss, x), Patterns, "PSUBSCRIBE", "PUNSUBSCRIBE")
            = Step(Eff(Q, ss, Patterns, "PSUBSCRIBE", "PUNSUBSCRIBE"), x, "PSUBSCRIBE", "PUNSUBSCRIBE")
        BY CommandArgs, EffAppend
    <2>3. QED
        BY <2>1, <2>2 DEF EffC, EffP, StepC, StepP
<1>3. QED
    BY <1>1, <1>2

\* The server executing the oldest command on the wire changes nothing of
\* what it will hold once the rest is executed.
LEMMA PendingHead ==
    ASSUME NEW w \in Seq(Command), w # <<>>, NEW b \in Seq(Command),
           NEW S, S \subseteq Channels, NEW Q, Q \subseteq Patterns
    PROVE  /\ EffC(StepC(S, Head(w)), Tail(w) \o b) = EffC(S, w \o b)
           /\ EffP(StepP(Q, Head(w)), Tail(w) \o b) = EffP(Q, w \o b)
<1>1. /\ w \o b \in Seq(Command) /\ w \o b # <<>>
      /\ Head(w \o b) = Head(w)
      /\ Tail(w \o b) = Tail(w) \o b
    <2>1. Len(w) \in Nat \ {0} /\ Tail(w) \in Seq(Command)
          /\ Len(Tail(w)) = Len(w) - 1
          /\ \A i \in 1 .. Len(Tail(w)) : Tail(w)[i] = w[i + 1]
        BY EmptySeq, HeadTailProperties
    <2>2. w \o b \in Seq(Command) /\ Len(w \o b) = Len(w) + Len(b)
          /\ \A i \in 1 .. Len(w) + Len(b) : (w \o b)[i] = IF i <= Len(w) THEN w[i] ELSE b[i - Len(w)]
        BY ConcatProperties
    <2>3. w \o b # <<>>
        BY <2>1, <2>2
    <2>4. Head(w \o b) = Head(w)
        BY <2>1, <2>2, <2>3
    <2>5. Tail(w \o b) = Tail(w) \o b
        <3>1. /\ Tail(w \o b) \in Seq(Command) /\ Len(Tail(w \o b)) = Len(w \o b) - 1
              /\ \A i \in 1 .. Len(Tail(w \o b)) : Tail(w \o b)[i] = (w \o b)[i + 1]
            BY <2>2, <2>3, HeadTailProperties
        <3>2. /\ Tail(w) \o b \in Seq(Command) /\ Len(Tail(w) \o b) = Len(Tail(w)) + Len(b)
              /\ \A i \in 1 .. Len(Tail(w)) + Len(b) :
                     (Tail(w) \o b)[i] = IF i <= Len(Tail(w)) THEN Tail(w)[i] ELSE b[i - Len(Tail(w))]
            BY <2>1, ConcatProperties
        <3>3. \A i \in 1 .. Len(Tail(w \o b)) : Tail(w \o b)[i] = (Tail(w) \o b)[i]
            BY <2>1, <2>2, <3>1, <3>2
        <3>4. QED
            BY <2>1, <2>2, <3>1, <3>2, <3>3, SeqEqual
    <2>6. QED
        BY <2>2, <2>3, <2>4, <2>5
<1>2. \A ss \in Seq(Command) : ss # <<>> =>
        Eff(S, ss, Channels, "SUBSCRIBE", "UNSUBSCRIBE")
        = Eff(Step(S, Head(ss), "SUBSCRIBE", "UNSUBSCRIBE"), Tail(ss), Channels, "SUBSCRIBE", "UNSUBSCRIBE")
    BY CommandArgs, EffHeadTail
<1>3. \A ss \in Seq(Command) : ss # <<>> =>
        Eff(Q, ss, Patterns, "PSUBSCRIBE", "PUNSUBSCRIBE")
        = Eff(Step(Q, Head(ss), "PSUBSCRIBE", "PUNSUBSCRIBE"), Tail(ss), Patterns, "PSUBSCRIBE", "PUNSUBSCRIBE")
    BY CommandArgs, EffHeadTail
<1>4. QED
    BY <1>1, <1>2, <1>3 DEF EffC, EffP, StepC, StepP

\* The commands still in the buffer keep their effect behind the wire.
LEMMA PendingSuffix ==
    ASSUME NEW w \in Seq(Command), NEW b \in Seq(Command), NEW S, NEW Q
    PROVE  /\ EffC({}, b) \subseteq EffC(S, w \o b)
           /\ EffP({}, b) \subseteq EffP(Q, w \o b)
<1>1. \A ww, bb \in Seq(Command) :
        Eff({}, bb, Channels, "SUBSCRIBE", "UNSUBSCRIBE")
        \subseteq Eff(S, ww \o bb, Channels, "SUBSCRIBE", "UNSUBSCRIBE")
    BY EffSuffix
<1>2. \A ww, bb \in Seq(Command) :
        Eff({}, bb, Patterns, "PSUBSCRIBE", "PUNSUBSCRIBE")
        \subseteq Eff(Q, ww \o bb, Patterns, "PSUBSCRIBE", "PUNSUBSCRIBE")
    BY EffSuffix
<1>3. QED
    BY <1>1, <1>2 DEF EffC, EffP

\* An empty buffer (and wire) leaves the server as it is; every pending
\* effect is a set of channels (patterns).
LEMMA PendingBasics ==
    ASSUME NEW S, S \subseteq Channels, NEW Q, Q \subseteq Patterns, NEW s
    PROVE  /\ EffC(S, <<>>) = S
           /\ EffP(Q, <<>>) = Q
           /\ EffC(S, s) \subseteq Channels
           /\ EffP(Q, s) \subseteq Patterns
BY EffEmpty, EffRange DEF EffC, EffP

-----------------------------------------------------------------------------
(* Three shapes of step.                                                   *)

\* The variables the registry invariant reads, but T2's state.
sync_vars == <<subscribed_channels, psubscribed_channels, sub_chans, psub_chans,
               srv_channels, srv_patterns, wire, buffer, connected, sock_alive>>

\* A step that moves nothing the invariant reads but T2, and T2 neither
\* into the replay nor into the reconnection loop.
LEMMA SyncFrame ==
    ASSUME SyncRest, UNCHANGED sync_vars,
           \/ t2' = t2
           \/ /\ t2 \notin ReplayStates /\ t2' \notin ReplayStates
              /\ t2' \in LoopStates => t2 \in LoopStates
    PROVE  SyncRest'
<1>1. /\ PendingC' = PendingC /\ PendingP' = PendingP
      /\ BufferedC' = BufferedC /\ BufferedP' = BufferedP
      /\ Live' = Live
    BY DEF sync_vars, PendingC, PendingP, BufferedC, BufferedP, Live
<1>2. QED
    BY <1>1 DEF sync_vars, SyncRest, Synced, ReplayCovered, ResubSynced, LoopCovered

\* A step after which the link is down: only the loop's coverage of the
\* buffer is left to show.
LEMMA SyncDead ==
    ASSUME ~Live',
           t2' \in LoopStates =>
               /\ BufferedC' \subseteq subscribed_channels'
               /\ BufferedP' \subseteq psubscribed_channels'
    PROVE  SyncRest'
BY DEF SyncRest, Synced, ReplayCovered, ResubSynced, LoopCovered

\* A server step that keeps or drops a name keeps or drops it whatever
\* the state it starts from.
LEMMA StepPointwise ==
    ASSUME NEW S1, NEW S2, NEW x, NEW add, NEW del, NEW n,
           n \in S1 <=> n \in S2
    PROVE  n \in Step(S1, x, add, del) <=> n \in Step(S2, x, add, del)
BY DEF Step

\* ... and keeps a covering registry covering.
LEMMA StepMonotonic ==
    ASSUME NEW S1, NEW S2, S1 \subseteq S2, NEW x, NEW add, NEW del
    PROVE  Step(S1, x, add, del) \subseteq Step(S2, x, add, del)
BY DEF Step

\* One more command buffered (subscribe, unsubscribe, ping, auth,
\* client_setname, and re_subscribe's loops): the registry takes the step
\* the server will take for it; re_subscribe only takes out of its
\* moved-out maps the name the command subscribes again.
AppendStep(x) ==
    /\ buffer' = Append(buffer, x)
    /\ UNCHANGED <<srv_channels, srv_patterns, wire, connected, sock_alive, t2>>
    /\ subscribed_channels' = StepC(subscribed_channels, x)
    /\ psubscribed_channels' = StepP(psubscribed_channels, x)
    /\ sub_chans' \subseteq sub_chans /\ psub_chans' \subseteq psub_chans
    /\ \A c \in sub_chans \ sub_chans' : x = Cmd("SUBSCRIBE", c)
    /\ \A p \in psub_chans \ psub_chans' : x = Cmd("PSUBSCRIBE", p)

\* Such a step (a caller call, or one pass of re_subscribe's loops)
\* preserves the registry invariant.
LEMMA SyncAppend ==
    ASSUME TypeOK, SyncRest
    PROVE  \A x \in Command : AppendStep(x) => SyncRest'
<1> SUFFICES ASSUME NEW x \in Command, AppendStep(x)
             PROVE  SyncRest'
    OBVIOUS
<1> USE DEF AppendStep
<1>1. /\ PendingC' = StepC(PendingC, x) /\ PendingP' = StepP(PendingP, x)
      /\ BufferedC' = StepC(BufferedC, x) /\ BufferedP' = StepP(BufferedP, x)
    <2>1. /\ PendingC' = EffC(srv_channels, wire \o Append(buffer, x))
          /\ PendingP' = EffP(srv_patterns, wire \o Append(buffer, x))
          /\ BufferedC' = EffC({}, Append(buffer, x))
          /\ BufferedP' = EffP({}, Append(buffer, x))
        BY DEF PendingC, PendingP, BufferedC, BufferedP
    <2>2. ASSUME NEW w \in Seq(Command), NEW b \in Seq(Command)
          PROVE  /\ EffC(srv_channels, w \o Append(b, x)) = StepC(EffC(srv_channels, w \o b), x)
                 /\ EffP(srv_patterns, w \o Append(b, x)) = StepP(EffP(srv_patterns, w \o b), x)
                 /\ EffC({}, Append(b, x)) = StepC(EffC({}, b), x)
                 /\ EffP({}, Append(b, x)) = StepP(EffP({}, b), x)
        BY PendingAppend, SMTT(30)
    <2>3. QED
        BY <2>1, <2>2 DEF TypeOK, PendingC, PendingP, BufferedC, BufferedP
<1>2. Live' = Live
    BY DEF Live
<1>3. Synced'
    BY <1>1, <1>2 DEF SyncRest, Synced
<1>4. ReplayCovered'
    BY <1>1, <1>2, StepMonotonic DEF SyncRest, ReplayCovered, StepC, StepP
<1>5. LoopCovered'
    BY <1>1, <1>2, StepMonotonic DEF SyncRest, LoopCovered, StepC, StepP
<1>6. ResubSynced'
    <2> SUFFICES ASSUME t2' = "resub", Live'
                 PROVE  ResubSynced'
        BY DEF ResubSynced
    <2>1. ASSUME NEW c \in Channels \ sub_chans'
          PROVE  c \in subscribed_channels' <=> c \in PendingC'
        <3>1. CASE c \in sub_chans
            BY <3>1, <1>1 DEF StepC, Step, Cmd
        <3>2. CASE c \notin sub_chans
            <4>1. c \in subscribed_channels <=> c \in PendingC
                BY <3>2, <1>2 DEF SyncRest, ResubSynced
            <4>2. QED
                BY <4>1, <1>1, StepPointwise DEF StepC
        <3>3. QED
            BY <3>1, <3>2
    <2>2. ASSUME NEW p \in Patterns \ psub_chans'
          PROVE  p \in psubscribed_channels' <=> p \in PendingP'
        <3>1. CASE p \in psub_chans
            BY <3>1, <1>1 DEF StepP, Step, Cmd
        <3>2. CASE p \notin psub_chans
            <4>1. p \in psubscribed_channels <=> p \in PendingP
                BY <3>2, <1>2 DEF SyncRest, ResubSynced
            <4>2. QED
                BY <4>1, <1>1, StepPointwise DEF StepP
        <3>3. QED
            BY <3>1, <3>2
    <2>3. QED
        BY <2>1, <2>2 DEF ResubSynced
<1>7. QED
    BY <1>3, <1>4, <1>5, <1>6 DEF SyncRest

\* redis_connection::commit on an unchanged link: the buffer is empty
\* after it, and on a live link what it held is now on the wire.
LEMMA FlushPending ==
    ASSUME TypeOK, Flush, UNCHANGED <<srv_channels, srv_patterns, connected, sock_alive>>
    PROVE  /\ BufferedC' = {} /\ BufferedP' = {}
           /\ Live' = Live
           /\ Live => PendingC' = PendingC /\ PendingP' = PendingP
<1>1. buffer' = <<>> /\ wire' = IF Live THEN wire \o buffer ELSE wire
    BY DEF Flush, Live
<1>2. BufferedC' = {} /\ BufferedP' = {}
    BY <1>1, PendingBasics DEF BufferedC, BufferedP
<1>3. ASSUME Live PROVE PendingC' = PendingC /\ PendingP' = PendingP
    <2>1. wire \o buffer \in Seq(Command)
        BY ConcatProperties DEF TypeOK
    <2>2. wire' \o buffer' = wire \o buffer
        BY <1>1, <1>3, <2>1, ConcatEmptySeq
    <2>3. QED
        BY <2>2 DEF PendingC, PendingP
<1>4. QED
    BY <1>2, <1>3 DEF Live

\* Inside the reconnection loop the registry covers what the buffer
\* subscribes: from LoopCovered when the link is down, and when it is
\* still up because the buffer is what the server executes last.
LEMMA LoopCoverNow ==
    ASSUME TypeOK, SyncRest, t2 \in LoopStates
    PROVE  BufferedC \subseteq subscribed_channels /\ BufferedP \subseteq psubscribed_channels
<1>1. CASE Live
    <2>1. subscribed_channels = PendingC /\ psubscribed_channels = PendingP
        BY <1>1 DEF SyncRest, Synced, LoopStates, ReplayStates
    <2>2. \A w, b \in Seq(Command) :
            EffC({}, b) \subseteq EffC(srv_channels, w \o b)
            /\ EffP({}, b) \subseteq EffP(srv_patterns, w \o b)
        BY PendingSuffix
    <2>3. QED
        BY <2>1, <2>2 DEF TypeOK, PendingC, PendingP, BufferedC, BufferedP
<1>2. CASE ~Live
    BY <1>2 DEF SyncRest, LoopCovered
<1>3. QED
    BY <1>1, <1>2

\* The server executes the oldest command of the wire.
LEMMA SyncServer ==
    ASSUME TypeOK, SyncRest, ServerExecute
    PROVE  SyncRest'
<1>1. /\ UNCHANGED <<subscribed_channels, psubscribed_channels, sub_chans, psub_chans,
                     buffer, connected, sock_alive, t2>>
      /\ wire # <<>> /\ wire' = Tail(wire)
    BY DEF ServerExecute, client_vars, t2_vars
<1>2. srv_channels' = StepC(srv_channels, Head(wire))
      /\ srv_patterns' = StepP(srv_patterns, Head(wire))
    BY DEF ServerExecute, StepC, StepP, Step
<1>3. PendingC' = PendingC /\ PendingP' = PendingP
    <2>1. \A w \in Seq(Command) : w # <<>> =>
            /\ EffC(StepC(srv_channels, Head(w)), Tail(w) \o buffer) = EffC(srv_channels, w \o buffer)
            /\ EffP(StepP(srv_patterns, Head(w)), Tail(w) \o buffer) = EffP(srv_patterns, w \o buffer)
        BY PendingHead DEF TypeOK
    <2>2. QED
        BY <1>1, <1>2, <2>1 DEF TypeOK, PendingC, PendingP
<1>4. BufferedC' = BufferedC /\ BufferedP' = BufferedP /\ Live' = Live
    BY <1>1 DEF BufferedC, BufferedP, Live
<1>5. QED
    BY <1>1, <1>3, <1>4 DEF SyncRest, Synced, ReplayCovered, ResubSynced, LoopCovered

\* reconnect() connects: a fresh session, the buffer (which the transport
\* kept) will be the first thing the new connection executes.
LEMMA SyncReconnectOk ==
    ASSUME TypeOK, SyncRest, ReconnectOk
    PROVE  SyncRest'
<1>1. /\ t2 = "reconnect" /\ t2' = "replay" /\ Live'
      /\ srv_channels' = {} /\ srv_patterns' = {} /\ wire' = <<>>
      /\ UNCHANGED <<subscribed_channels, psubscribed_channels, buffer>>
    BY DEF ReconnectOk, NewSession, Live
<1>2. PendingC' = BufferedC /\ PendingP' = BufferedP
    BY <1>1, ConcatEmptySeq DEF TypeOK, PendingC, PendingP, BufferedC, BufferedP
<1>3. BufferedC \subseteq subscribed_channels /\ BufferedP \subseteq psubscribed_channels
    BY <1>1, LoopCoverNow DEF LoopStates
<1>4. QED
    BY <1>1, <1>2, <1>3 DEF SyncRest, Synced, ReplayCovered, ResubSynced, LoopCovered, ReplayStates

\* re_auth and re_client_setname buffer commands that subscribe nothing.
LEMMA QuietCommands ==
    ASSUME NEW S, NEW Q
    PROVE  /\ StepC(S, Cmd("AUTH", None)) = S /\ StepP(Q, Cmd("AUTH", None)) = Q
           /\ StepC(S, Cmd("CLIENT_SETNAME", None)) = S
           /\ StepP(Q, Cmd("CLIENT_SETNAME", None)) = Q
           /\ Cmd("AUTH", None) \in Command /\ Cmd("CLIENT_SETNAME", None) \in Command
BY DEF StepC, StepP, Step, Cmd, Command

\* The replay: the registry is moved out to re_subscribe's maps; what the
\* new connection will hold is unchanged by re_auth and re_client_setname,
\* and (ReplayCovered) every name of it was moved out.
LEMMA SyncReplay ==
    ASSUME TypeOK, SyncRest, Replay
    PROVE  SyncRest'
<1>1. /\ t2 = "replay" /\ t2' = "resub"
      /\ sub_chans' = subscribed_channels /\ psub_chans' = psubscribed_channels
      /\ subscribed_channels' = {} /\ psubscribed_channels' = {}
      /\ srv_channels' = srv_channels /\ srv_patterns' = srv_patterns
      /\ wire' = wire /\ connected' = connected /\ sock_alive' = sock_alive
    BY DEF Replay, srv_vars
<1>2. PendingC' = PendingC /\ PendingP' = PendingP
    <2> DEFINE A == Cmd("AUTH", None)
               N == Cmd("CLIENT_SETNAME", None)
    <2>1. buffer' = buffer \o (IF password THEN <<A>> ELSE <<>>)
                           \o (IF client_name THEN <<N>> ELSE <<>>)
        BY DEF Replay
    <2>2. \A b \in Seq(Command), x \in {A, N} :
            /\ Append(b, x) \in Seq(Command)
            /\ b \o <<x>> = Append(b, x)
            /\ b \o <<>> = b
            /\ EffC(srv_channels, wire \o Append(b, x)) = EffC(srv_channels, wire \o b)
            /\ EffP(srv_patterns, wire \o Append(b, x)) = EffP(srv_patterns, wire \o b)
        <3>0. ASSUME NEW w \in Seq(Command), NEW b \in Seq(Command), NEW x \in Command
              PROVE  /\ EffC(srv_channels, w \o Append(b, x)) = StepC(EffC(srv_channels, w \o b), x)
                     /\ EffP(srv_patterns, w \o Append(b, x)) = StepP(EffP(srv_patterns, w \o b), x)
            BY PendingAppend, ZenonT(60)
        <3>1. \A b \in Seq(Command), x \in Command :
                /\ EffC(srv_channels, wire \o Append(b, x)) = StepC(EffC(srv_channels, wire \o b), x)
                /\ EffP(srv_patterns, wire \o Append(b, x)) = StepP(EffP(srv_patterns, wire \o b), x)
            BY <3>0 DEF TypeOK
        <3>2. \A b \in Seq(Command), x \in Command :
                Append(b, x) \in Seq(Command) /\ b \o <<x>> = Append(b, x) /\ b \o <<>> = b
            BY AppendProperties, AppendIsConcat, ConcatEmptySeq
        <3>3. \A S, Q : /\ StepC(S, A) = S /\ StepP(Q, A) = Q
                       /\ StepC(S, N) = S /\ StepP(Q, N) = Q
                       /\ A \in Command /\ N \in Command
            BY QuietCommands
        <3>4. ASSUME NEW b \in Seq(Command), NEW x \in {A, N}
              PROVE  /\ Append(b, x) \in Seq(Command)
                     /\ b \o <<x>> = Append(b, x)
                     /\ b \o <<>> = b
                     /\ EffC(srv_channels, wire \o Append(b, x)) = EffC(srv_channels, wire \o b)
                     /\ EffP(srv_patterns, wire \o Append(b, x)) = EffP(srv_patterns, wire \o b)
            BY <3>1, <3>2, <3>3
        <3>5. QED
            BY <3>4
    <2>3. PendingC' = EffC(srv_channels, wire \o buffer')
          /\ PendingP' = EffP(srv_patterns, wire \o buffer')
        BY <1>1 DEF PendingC, PendingP
    <2>4. CASE password /\ client_name
        <3>1. Append(buffer, A) \in Seq(Command) /\ buffer \o <<A>> = Append(buffer, A)
            BY <2>2 DEF TypeOK
        <3>2. buffer' = Append(Append(buffer, A), N)
            BY <2>1, <2>2, <2>4, <3>1
        <3>3. /\ EffC(srv_channels, wire \o buffer') = EffC(srv_channels, wire \o Append(buffer, A))
              /\ EffP(srv_patterns, wire \o buffer') = EffP(srv_patterns, wire \o Append(buffer, A))
            BY <2>2, <3>1, <3>2
        <3>4. QED
            BY <2>2, <2>3, <3>3 DEF TypeOK, PendingC, PendingP
    <2>5. CASE password /\ ~client_name
        <3>1. Append(buffer, A) \in Seq(Command) /\ buffer \o <<A>> = Append(buffer, A)
            BY <2>2 DEF TypeOK
        <3>2. buffer' = Append(buffer, A)
            BY <2>1, <2>2, <2>5, <3>1
        <3>3. QED
            BY <2>2, <2>3, <3>2 DEF TypeOK, PendingC, PendingP
    <2>6. CASE ~password /\ client_name
        <3>1. buffer \o <<>> = buffer /\ buffer \o <<N>> = Append(buffer, N)
            BY <2>2 DEF TypeOK
        <3>2. buffer' = Append(buffer, N)
            BY <2>1, <2>6, <3>1
        <3>3. QED
            BY <2>2, <2>3, <3>2 DEF TypeOK, PendingC, PendingP
    <2>7. CASE ~password /\ ~client_name
        <3>1. buffer \o <<>> = buffer
            BY <2>2 DEF TypeOK
        <3>2. buffer' = buffer
            BY <2>1, <2>7, <3>1
        <3>3. QED
            BY <2>3, <3>2 DEF PendingC, PendingP
    <2>8. QED
        BY <2>4, <2>5, <2>6, <2>7
<1>3. Live' = Live
    BY <1>1 DEF Live
<1>4. ResubSynced'
    <2>1. Live => PendingC \subseteq subscribed_channels /\ PendingP \subseteq psubscribed_channels
        BY <1>1 DEF SyncRest, ReplayCovered
    <2>2. QED
        BY <1>1, <1>2, <1>3, <2>1 DEF ResubSynced
<1>5. QED
    BY <1>1, <1>4 DEF SyncRest, Synced, ReplayCovered, LoopCovered, ReplayStates, LoopStates

\* reconnect()'s final commit: re_subscribe has drained both maps, so the
\* registry and the server agree on every name.
LEMMA SyncReplayCommit ==
    ASSUME TypeOK, SyncRest, ReplayCommit
    PROVE  SyncRest'
<1>1. /\ t2 = "resub" /\ t2' = "check" /\ sub_chans = {} /\ psub_chans = {}
      /\ Flush
      /\ UNCHANGED <<subscribed_channels, psubscribed_channels, srv_channels,
                     srv_patterns, connected, sock_alive>>
    BY DEF ReplayCommit, client_vars, srv_vars
<1>2. /\ BufferedC' = {} /\ BufferedP' = {} /\ Live' = Live
      /\ Live => PendingC' = PendingC /\ PendingP' = PendingP
    BY <1>1, FlushPending
<1>3. CASE Live
    <2>1. PendingC \subseteq Channels /\ PendingP \subseteq Patterns
        BY PendingBasics DEF TypeOK, PendingC, PendingP
    <2>2. /\ \A c \in Channels : c \in subscribed_channels <=> c \in PendingC
          /\ \A p \in Patterns : p \in psubscribed_channels <=> p \in PendingP
        BY <1>1, <1>3 DEF SyncRest, ResubSynced
    <2>3. subscribed_channels = PendingC /\ psubscribed_channels = PendingP
        BY <2>1, <2>2 DEF TypeOK
    <2>4. QED
        BY <1>1, <1>2, <1>3, <2>3
        DEF SyncRest, Synced, ReplayCovered, ResubSynced, LoopCovered, ReplayStates
<1>4. CASE ~Live
    BY <1>1, <1>2, <1>4, SyncDead
<1>5. QED
    BY <1>3, <1>4

-----------------------------------------------------------------------------
(* The registry invariant is inductive.                                    *)

\* After the first connect the registry and the server are both empty.
LEMMA InitSInv == Init => SInv
<1> SUFFICES ASSUME Init PROVE SInv
    OBVIOUS
<1>1. IInv
    BY InitIInv
<1>2. wire \o buffer = <<>>
    BY EmptySeq, ConcatEmptySeq DEF Init
<1>3. PendingC = {} /\ PendingP = {}
    BY <1>2, PendingBasics DEF Init, PendingC, PendingP
<1>4. QED
    BY <1>1, <1>3 DEF Init, SInv, SyncRest, Synced, ReplayCovered, ResubSynced,
                      LoopCovered, ReplayStates, LoopStates

\* No step of the caller, the worker's two handlers, the failure threads,
\* the server or the network breaks the registry invariant.
LEMMA SInvStep == SInv /\ [Next]_vars => SInv'
<1>1. SUFFICES ASSUME SInv, [Next]_vars
               PROVE  SyncRest'
    BY IInvStep DEF SInv
<1>2. TypeOK /\ SyncRest
    BY <1>1 DEF SInv, IInv
<1>3. ASSUME NEW c \in Channels, subscribe(c) PROVE SyncRest'
    <2>1. AppendStep(Cmd("SUBSCRIBE", c))
        BY <1>3 DEF subscribe, AppendStep, StepC, StepP, Step, Cmd, t2_vars, srv_vars
    <2>2. Cmd("SUBSCRIBE", c) \in Command
        BY <1>2 DEF Cmd, Command, TypeOK
    <2>3. QED
        BY <1>2, <2>1, <2>2, SyncAppend
<1>4. ASSUME NEW p \in Patterns, psubscribe(p) PROVE SyncRest'
    <2>1. AppendStep(Cmd("PSUBSCRIBE", p))
        BY <1>4 DEF psubscribe, AppendStep, StepC, StepP, Step, Cmd, t2_vars, srv_vars
    <2>2. Cmd("PSUBSCRIBE", p) \in Command
        BY <1>2 DEF Cmd, Command, TypeOK
    <2>3. QED
        BY <1>2, <2>1, <2>2, SyncAppend
<1>5. ASSUME NEW c \in Channels, unsubscribe(c) PROVE SyncRest'
    <2>1. AppendStep(Cmd("UNSUBSCRIBE", c))
        BY <1>5 DEF unsubscribe, AppendStep, StepC, StepP, Step, Cmd, t2_vars, srv_vars
    <2>2. Cmd("UNSUBSCRIBE", c) \in Command
        BY <1>2 DEF Cmd, Command, TypeOK
    <2>3. QED
        BY <1>2, <2>1, <2>2, SyncAppend
<1>6. ASSUME NEW p \in Patterns, punsubscribe(p) PROVE SyncRest'
    <2>1. AppendStep(Cmd("PUNSUBSCRIBE", p))
        BY <1>6 DEF punsubscribe, AppendStep, StepC, StepP, Step, Cmd, t2_vars, srv_vars
    <2>2. Cmd("PUNSUBSCRIBE", p) \in Command
        BY <1>2 DEF Cmd, Command, TypeOK
    <2>3. QED
        BY <1>2, <2>1, <2>2, SyncAppend
<1>7. CASE ping
    <2>1. AppendStep(Cmd("PING", next_ping))
        BY <1>7 DEF ping, TypeOK, PingIds, AppendStep, StepC, StepP, Step, Cmd, t2_vars, srv_vars
    <2>2. Cmd("PING", next_ping) \in Command
        BY <1>2, <1>7 DEF ping, Cmd, Command, TypeOK, PingIds
    <2>3. QED
        BY <1>2, <2>1, <2>2, SyncAppend
<1>8. CASE auth
    <2>1. AppendStep(Cmd("AUTH", None))
        BY <1>8 DEF auth, AppendStep, StepC, StepP, Step, Cmd, t2_vars, srv_vars
    <2>2. Cmd("AUTH", None) \in Command
        BY <1>2 DEF Cmd, Command, TypeOK
    <2>3. QED
        BY <1>2, <2>1, <2>2, SyncAppend
<1>9. CASE client_setname
    <2>1. AppendStep(Cmd("CLIENT_SETNAME", None))
        BY <1>9 DEF client_setname, AppendStep, StepC, StepP, Step, Cmd, t2_vars, srv_vars
    <2>2. Cmd("CLIENT_SETNAME", None) \in Command
        BY <1>2 DEF Cmd, Command, TypeOK
    <2>3. QED
        BY <1>2, <2>1, <2>2, SyncAppend
<1>10. CASE commit
    <2>1. /\ Flush
          /\ UNCHANGED <<subscribed_channels, psubscribed_channels, sub_chans, psub_chans,
                         srv_channels, srv_patterns, connected, sock_alive, t2>>
        BY <1>10 DEF commit, client_vars, t2_vars, srv_vars
    <2>2. /\ BufferedC' = {} /\ BufferedP' = {} /\ Live' = Live
          /\ Live => PendingC' = PendingC /\ PendingP' = PendingP
        BY <1>2, <2>1, FlushPending
    <2>3. CASE Live
        BY <1>2, <2>1, <2>2, <2>3
        DEF SyncRest, Synced, ReplayCovered, ResubSynced, LoopCovered
    <2>4. CASE ~Live
        BY <2>2, <2>4, SyncDead
    <2>5. QED
        BY <2>3, <2>4
<1>11. CASE cancel_reconnect
    <2>1. UNCHANGED sync_vars /\ t2' = t2
        BY <1>11 DEF cancel_reconnect, t2_vars, net_vars, srv_vars, sync_vars
    <2>2. QED
        BY <1>2, <2>1, SyncFrame DEF ReplayStates, LoopStates
<1>12. CASE disconnect
    <2>1. ~Live' /\ UNCHANGED <<subscribed_channels, psubscribed_channels, buffer, t2>>
        BY <1>12 DEF disconnect, Live, client_vars, t2_vars
    <2>2. BufferedC' = BufferedC /\ BufferedP' = BufferedP
        BY <2>1 DEF BufferedC, BufferedP
    <2>3. QED
        BY <1>2, <2>1, <2>2, LoopCoverNow, SyncDead
<1>13. CASE DisconnectMove
    <2>1. UNCHANGED sync_vars /\ t2' = t2
        BY <1>13 DEF DisconnectMove, net_vars, srv_vars, sync_vars
    <2>2. QED
        BY <1>2, <2>1, SyncFrame DEF ReplayStates, LoopStates
<1>14. CASE ReceiveSimple
    <2>1. UNCHANGED sync_vars /\ t2 = "idle" /\ t2' \in {"idle", "auth_cb", "setname_cb"}
        BY <1>14 DEF ReceiveSimple, Receiving, client_vars, srv_vars, sync_vars
    <2>2. QED
        BY <1>2, <2>1, SyncFrame DEF ReplayStates, LoopStates
<1>15. CASE OobDisarm
    <2>1. UNCHANGED sync_vars /\ t2 \in {"auth_cb", "setname_cb"} /\ t2' = "idle"
        BY <1>15 DEF OobDisarm, net_vars, srv_vars, sync_vars
    <2>2. QED
        BY <1>2, <2>1, SyncFrame DEF ReplayStates, LoopStates
<1>16. CASE ReceiveSubscriptionReply
    <2>1. UNCHANGED sync_vars /\ t2' = t2
        BY <1>16 DEF ReceiveSubscriptionReply, client_vars, t2_vars, srv_vars, sync_vars
    <2>2. QED
        BY <1>2, <2>1, SyncFrame DEF ReplayStates, LoopStates
<1>17. CASE ReceivePong
    <2>1. UNCHANGED sync_vars /\ t2' = t2
        BY <1>17 DEF ReceivePong, t2_vars, srv_vars, sync_vars
    <2>2. QED
        BY <1>2, <2>1, SyncFrame DEF ReplayStates, LoopStates
<1>18. CASE ReenterHandler
    <2>1. UNCHANGED sync_vars /\ t2 = "idle" /\ t2' \in {"stuck_chans", "stuck_pats"}
        BY <1>18 DEF ReenterHandler, Receiving, client_vars, srv_vars, sync_vars
    <2>2. QED
        BY <1>2, <2>1, SyncFrame DEF ReplayStates, LoopStates
<1>19. CASE HandleDisconnect
    <2>1. ~Live' /\ buffer' = <<>>
          /\ UNCHANGED <<subscribed_channels, psubscribed_channels>>
        BY <1>19 DEF HandleDisconnect, Live
    <2>2. BufferedC' = {} /\ BufferedP' = {}
        BY <2>1, PendingBasics DEF BufferedC, BufferedP
    <2>3. QED
        BY <2>1, <2>2, SyncDead
<1>20. CASE Fence
    <2>1. UNCHANGED sync_vars /\ t2 = "fence" /\ t2' = "check"
        BY <1>20 DEF Fence, ClearPingCallbacks, net_vars, srv_vars, sync_vars
    <2>2. QED
        BY <1>2, <2>1, SyncFrame DEF ReplayStates, LoopStates
<1>21. CASE LoopContinue
    <2>1. UNCHANGED sync_vars /\ t2 = "check" /\ t2' = "reconnect"
        BY <1>21 DEF LoopContinue, client_vars, net_vars, srv_vars, sync_vars
    <2>2. QED
        BY <1>2, <2>1, SyncFrame DEF ReplayStates, LoopStates
<1>22. CASE LoopExit
    <2>1. UNCHANGED sync_vars /\ t2 = "check" /\ t2' = "exit"
        BY <1>22 DEF LoopExit, client_vars, net_vars, srv_vars, sync_vars
    <2>2. QED
        BY <1>2, <2>1, SyncFrame DEF ReplayStates, LoopStates
<1>23. CASE ReconnectFails
    <2>1. UNCHANGED sync_vars /\ t2 = "reconnect" /\ t2' = "check"
        BY <1>23 DEF ReconnectFails, net_vars, srv_vars, sync_vars
    <2>2. QED
        BY <1>2, <2>1, SyncFrame DEF ReplayStates, LoopStates
<1>24. CASE ReconnectOk
    BY <1>2, <1>24, SyncReconnectOk
<1>25. CASE Replay
    BY <1>2, <1>25, SyncReplay
<1>26. ASSUME NEW c \in Channels, ReSubscribe(c) PROVE SyncRest'
    <2>1. AppendStep(Cmd("SUBSCRIBE", c))
        BY <1>26 DEF ReSubscribe, AppendStep, StepC, StepP, Step, Cmd, t2_vars, srv_vars
    <2>2. Cmd("SUBSCRIBE", c) \in Command
        BY <1>2 DEF Cmd, Command, TypeOK
    <2>3. QED
        BY <1>2, <2>1, <2>2, SyncAppend
<1>27. ASSUME NEW p \in Patterns, RePSubscribe(p) PROVE SyncRest'
    <2>1. AppendStep(Cmd("PSUBSCRIBE", p))
        BY <1>27 DEF RePSubscribe, AppendStep, StepC, StepP, Step, Cmd, t2_vars, srv_vars
    <2>2. Cmd("PSUBSCRIBE", p) \in Command
        BY <1>2 DEF Cmd, Command, TypeOK
    <2>3. QED
        BY <1>2, <2>1, <2>2, SyncAppend
<1>28. CASE ReplayCommit
    BY <1>2, <1>28, SyncReplayCommit
<1>29. CASE ReplayCommitThrows
    <2>1. ~Live' /\ t2' = "idle"
        BY <1>29 DEF ReplayCommitThrows, Live
    <2>2. QED
        BY <2>1, SyncDead DEF LoopStates
<1>30. CASE Exit
    <2>1. CASE connected
        <3>1. UNCHANGED sync_vars /\ t2 = "exit" /\ t2' = "idle"
            BY <1>30, <2>1 DEF Exit, sync_vars, net_vars, srv_vars
        <3>2. QED
            BY <1>2, <3>1, SyncFrame DEF ReplayStates, LoopStates
    <2>2. CASE ~connected
        <3>1. ~Live' /\ t2' = "idle"
            BY <1>30, <2>2 DEF Exit, Live, net_vars
        <3>2. QED
            BY <3>1, SyncDead DEF LoopStates
    <2>3. QED
        BY <2>1, <2>2
<1>31. ASSUME NEW w \in workers, FailPing(w) PROVE SyncRest'
    <2>1. UNCHANGED sync_vars /\ t2' = t2
        BY <1>31 DEF FailPing, client_vars, net_vars, srv_vars, sync_vars
    <2>2. QED
        BY <1>2, <2>1, SyncFrame DEF ReplayStates, LoopStates
<1>32. CASE ServerExecute
    BY <1>2, <1>32, SyncServer
<1>33. CASE Drop
    <2>1. ~Live' /\ UNCHANGED <<subscribed_channels, psubscribed_channels, buffer, t2>>
        BY <1>33 DEF Drop, Live, client_vars, t2_vars
    <2>2. BufferedC' = BufferedC /\ BufferedP' = BufferedP
        BY <2>1 DEF BufferedC, BufferedP
    <2>3. QED
        BY <1>2, <2>1, <2>2, LoopCoverNow, SyncDead
<1>34. ASSUME NEW c \in Channels, Publish(c) PROVE SyncRest'
    <2>1. UNCHANGED sync_vars /\ t2' = t2
        BY <1>34 DEF Publish, client_vars, t2_vars, srv_vars, sync_vars
    <2>2. QED
        BY <1>2, <2>1, SyncFrame DEF ReplayStates, LoopStates
<1>35. ASSUME NEW p \in Patterns, PPublish(p) PROVE SyncRest'
    <2>1. UNCHANGED sync_vars /\ t2' = t2
        BY <1>35 DEF PPublish, client_vars, t2_vars, srv_vars, sync_vars
    <2>2. QED
        BY <1>2, <2>1, SyncFrame DEF ReplayStates, LoopStates
<1>36. CASE UNCHANGED vars
    <2>1. UNCHANGED sync_vars /\ t2' = t2
        BY <1>36 DEF vars, client_vars, t2_vars, net_vars, srv_vars, sync_vars
    <2>2. QED
        BY <1>2, <2>1, SyncFrame DEF ReplayStates, LoopStates
<1>37. QED
    BY <1>1, <1>3, <1>4, <1>5, <1>6, <1>7, <1>8, <1>9, <1>10, <1>11, <1>12, <1>13,
       <1>14, <1>15, <1>16, <1>17, <1>18, <1>19, <1>20, <1>21, <1>22, <1>23,
       <1>24, <1>25, <1>26, <1>27, <1>28, <1>29, <1>30, <1>31, <1>32, <1>33,
       <1>34, <1>35, <1>36
    DEF Next

\* Spec section 8, invariant 1: once nothing is in flight, the
\* registry of subscriber::subscribe/psubscribe is exactly what the server
\* has this connection subscribed to, across any number of connection
\* losses, reconnect()s and re_subscribe replays.
THEOREM RegistryInSync == Spec => []RegistryReflectsServer
<1>1. Init => SInv
    BY InitSInv
<1>2. SInv /\ [Next]_vars => SInv'
    BY SInvStep
<1>3. SInv => RegistryReflectsServer
    <2> SUFFICES ASSUME SInv, Quiescent
                 PROVE  subscribed_channels = srv_channels
                        /\ psubscribed_channels = srv_patterns
        BY DEF RegistryReflectsServer
    <2>1. Live /\ t2 = "idle" /\ wire \o buffer = <<>>
        BY EmptySeq, ConcatEmptySeq DEF Quiescent, Live
    <2>2. PendingC = srv_channels /\ PendingP = srv_patterns
        BY <2>1, PendingBasics DEF SInv, IInv, TypeOK, PendingC, PendingP
    <2>3. QED
        BY <2>1, <2>2 DEF SInv, SyncRest, Synced, ReplayStates
<1>4. QED
    BY <1>1, <1>2, <1>3, PTL DEF Spec

=============================================================================
