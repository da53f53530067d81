# Formal model of `cpp_redis::subscriber`

This directory holds TLA+ models of the Redis Pub/Sub client
`cpp_redis::subscriber`, the TLC configurations that model-check them, and
TLAPS proofs about them. The code is in `src/sources/core/subscriber.cpp` and
`src/includes/cpp_redis/core/subscriber.hpp`. `PROJECT.json` lists every
component, run, mutant, finding, hazard and theorem. Its `map` ties each
definition to the source lines it translates.

## The system

The subscriber is used from two kinds of thread.

- **T1, the caller.** The caller uses the API:
  - `subscribe`, `psubscribe`, `unsubscribe` and `punsubscribe`;
  - `ping`, `auth` and `client_setname`;
  - `commit`, `cancel_reconnect` and `disconnect`.

  Each call updates the client's tables under their mutexes. It then appends
  a command to the send buffer of the transport (`redis_connection`).
- **T2, the transport's single worker.** It runs the two handlers:
  - `connection_receive_handler`. This handler classifies a reply. An array
    of size 3 or 4 is a subscription acknowledgement or a message. `["pong", msg]`
    is a ping reply. Anything else goes to the one-shot AUTH or SETNAME
    slot ("OOB").
  - `connection_disconnection_handler`. It runs when a connection is lost:
    1. It sets `m_reconnecting`.
    2. It clears the ping callbacks and takes both table mutexes (the "fence").
    3. It loops `should_reconnect` → sleep → `reconnect`.
    4. On success, `reconnect` re-sends AUTH, CLIENT SETNAME and every
       subscription (the "replay"), then commits.
    5. On exit, it clears the tables if it gave up and resets `m_reconnecting`.

`clear_ping_callbacks` also starts a **detached thread**. That thread fails
every pending ping callback with "network failure".

The components of the spec, and how they are modelled:

| component | status | where |
|---|---|---|
| Subscription Registry (SR) | modelled | `subscribed_channels`, `psubscribed_channels`, and `sub_chans`/`psub_chans` for re_subscribe's moved-out maps |
| Reply Classifier (RC) | partly | the guards of `ReceiveSimple`, `ReceiveSubscriptionReply` and `ReceivePong` on a reply's shape |
| Dispatcher (DX) | partly | the ping FIFO, the one-shot AUTH/SETNAME slots, the `FailPing` workers, a handler that calls back into its own table (`ReenterHandler`); what a handler otherwise does is user code |
| Connection Supervisor (CS) | partly | `HandleDisconnect` … `Exit`, `cancel_reconnect`, `disconnect` + `DisconnectMove`; the first `connect` is `Init` |
| Transport (`redis_connection`) | partly, from the spec | `buffer`, `wire`, `inbox`, `connected`, `sock_alive`, `Flush`, `Drop` |
| Sentinel, logging | not modelled | a black-box lookup (its failure is one way `ReconnectFails` happens); logs have no effect |

## Modules

- **`Subscriber.tla`** is the whole system as one state machine.
  - **Caller actions.** Every public operation is one atomic action named
    after its method. The model treats the lock-protected body plus the
    buffer append as one step. Each caller action also counts against
    `MaxCalls`.
  - **Receive handler.** It is split by classification into three actions:
    - `ReceiveSimple`: the non-array branch, lines 477-492. It picks the
      AUTH slot, else the SETNAME slot, and T2 then runs that callback
      (`t2 = "auth_cb"`/`"setname_cb"`). `OobDisarm` is the nullptr
      assignment after the call returns (lines 482, 488). A slot holds an
      *arm*: the number of the caller's call that set it, or 0 for the
      replay's logging callback, so that a re-arm is told apart;
    - `ReceiveSubscriptionReply`: lines 313-401;
    - `ReceivePong`: lines 403-437.
  - **Disconnection handler.** It is a program counter `t2`, with one action
    per step:
    - `HandleDisconnect` (lines 511-526);
    - `Fence` (lines 528-534);
    - `LoopContinue` and `LoopExit` (lines 536-539; the sleep of lines
      560-571 changes no state and is part of `LoopContinue`). With
      `MaxReconnects = -1` ("infinite"), `LoopContinue` also needs
      `current_reconnect_attempts < AttemptBound`, the model's cap on an
      otherwise unbounded counter. Once the cap is reached the loop has no
      step. No cfg uses -1: every run sets `MaxReconnects = 2`;
    - `ReconnectFails` and `ReconnectOk` (lines 578-611);
    - `Replay`, with one `ReSubscribe`/`RePSubscribe` per re-inserted entry
      (lines 612-665);
    - `ReplayCommit` and `ReplayCommitThrows` (line 618);
    - `Exit` (lines 541-558).

    Between `HandleDisconnect` and `Fence`, the caller can still take the
    mutexes. After `Fence` (`Fenced`), the caller's table operations are
    blocked.
  - **Environment.** It consists of:
    - the server executing committed commands (`ServerExecute`, with the
      replies of `ServerReply`);
    - publishers (`Publish`, `PPublish`);
    - the socket dying (`Drop`), which queues the disconnection notification
      behind the pending replies.

  Data is abstract. A channel or pattern is a model value. Ping *i* carries
  message *i*. A reply is a record of its RESP shape.
  - **Disconnect from the caller.** `disconnect()` (lines 183-196) calls
    `clear_ping_callbacks` without `m_ping_callbacks_mutex`. The model
    splits it where the unlocked access lets the worker in: `disconnect`
    closes the transport and copies the queue into the caller's local
    `moved` (`t1 = "moving"`); `DisconnectMove` later empties the queue and
    starts the failure thread with that copy. Between the two, the worker
    may move or pop the same queue. This is one of the outcomes the data
    race allows; the caller's other calls wait for `t1 = "idle"`.
  - **Handlers under the table mutex.** With `ReentrantHandlers = TRUE`,
    `ReenterHandler` is a subscription reply or message whose user handler
    calls `subscribe`/`unsubscribe` (or the pattern versions) on its own
    table. The dispatcher holds that table's `std::mutex` while it calls the
    handler (lines 315/323, 364/371, 393/400), so T2 stops in `stuck_chans`
    or `stuck_pats`; `ChansLocked`/`PatsLocked` then block the caller's
    table operations too.
  - **History variables** (`aux_vars`, `hist_vars`) record what the
    properties talk about: `fired[i]`, how often ping callback *i* ran;
    `last_ping`, the pairing of the last pong; `replayed_name`, `stable`.
- **`Registry.tla`** is the contract the caller sees (spec section 4.1).
  Its state is:
  - two sets, `chans` and `pats`;
  - a call counter, `calls`;
  - the supervisor's phase `sup`: `serving`, `recovering` (a loss is being
    handled) or `stopping` (the loop ended disconnected).

  The sets change only by `Subscribe`, `PSubscribe`, `Unsubscribe` and
  `PUnsubscribe` (one caller call each), and by `GiveUp`.
  `GiveUp` is `clear_subscriptions`. It is enabled only in `stopping`, and
  only `Abandon` (or a `Close` during recovery) leads there.
  `LoseConnection`, `Recover` and `Abandon` move the phase and leave the
  sets alone. `OtherCall` and `Close` (`disconnect`) count a call.
  The replay does not appear.
  `Subscriber` refines it through

      SupPhase == IF t2 = "exit" /\ ~connected THEN "stopping"
                  ELSE IF reconnecting THEN "recovering" ELSE "serving"
      Abs == INSTANCE Registry WITH chans <- subscribed_channels \cup sub_chans,
                                   pats  <- psubscribed_channels \cup psub_chans,
                                   calls <- calls,
                                   sup   <- SupPhase

  `sub_chans`/`psub_chans` are the maps `re_subscribe` moved out of the
  registry (line 623) and is putting back one entry at a time; counting them
  makes the replay a stutter. Because `GiveUp` needs `stopping`, a
  `clear_subscriptions` anywhere but after a loop that ended disconnected
  (line 541) is not a `Registry` step. In a copy of the model whose
  `HandleDisconnect` also cleared the tables, TLC reports
  `ImplementsRegistry` violated at once.
- **`MCSubscriber.tla`** instantiates the model with one channel `c1` and one
  pattern `p1`.
- **`SubscriberProofs.tla`** holds the TLAPS proofs of type correctness and
  of the refinement.
- **`PendingEffect.tla`** defines, without recursion, what a server holds
  once it has executed a sequence of (un)subscribe commands, and proves
  lemmas about it. It is the server side of `ServerExecute`, read over a
  whole sequence of commands.
- **`SyncProofs.tla`** proves `RegistryReflectsServer` from the inductive
  invariant `SInv`.

## Runs

All runs use `MCSubscriber`. The bounds in every cfg are:

| bound | value |
|---|---|
| `MaxReconnects` | 2 |
| `AttemptBound` | 1 |
| `MaxCalls` | 4 (5 for ping pairing) |
| `MaxDrops` | 2 |
| `MaxBuffer` | 2 |
| `MaxInbox` | 2 |
| `MaxPings` | 1 (2 for ping pairing) |
| `ReentrantHandlers` | TRUE (FALSE for `liveness`) |

Why these bounds are enough:

- Two drops give a failed attempt followed by a successful one, and also a
  drop during a replay.
- Two reconnects make the attempt counter reach its limit.
- Four caller calls are enough to subscribe, disconnect, and interleave a
  subscribe with the fence.
- One ping is enough for the disconnect race: it needs one pending callback
  that both the caller and the worker move.

`CHECK_DEADLOCK FALSE`: once the caller's call budget and the drop budget are
spent and all queues are empty, the library is at rest and has no step to
take. That is the normal idle state of a client, not a deadlock. (The
re-entrant handler's hang is a real stop; it is caught as a liveness
violation, not as a deadlock.)

| run | expect | property | what it shows |
|---|---|---|---|
| `core` | pass (about 2.5M states) | `TypeOK`, `RegistryReflectsServer`, `ImplementsRegistry` | Across losses, failed attempts, replays and concurrent caller calls, the registry equals the server's subscriptions whenever nothing is in flight, and every step is a step of `Registry` or a stutter: only the caller's calls, or giving up, change the registry. |
| `liveness` | pass (about 1.1M states) | `HandlerTerminates` | Under `FairSpec`, every run of the disconnection handler ends (back to `t2 = "idle"`), whatever the connect attempts, the replay's commit and the caller do. |
| `setname_window` | violation | `ReplayedNameApplied` | A subscribe between `m_reconnecting = true` (line 519) and the fence (line 533) reaches the new connection before the replayed CLIENT SETNAME. The server, already in subscribed mode, refuses the name. |
| `replay_commit_throws` | violation | `ReconnectingOnlyInHandler` | A caller `disconnect()` after `reconnect` connected makes the `commit()` at line 618 throw out of the handler. `m_reconnecting` then stays true, so no later loss is ever handled. |
| `ping_pairing` | violation | `PingPairing` | A ping sent before any subscription gets a non-array reply, which the OOB branch consumes. The next pong then pops the wrong callback. |
| `cancel_during_sleep` | violation | `CancelStopsConnect` | `cancel_reconnect()` during the sleep is only seen after the next connect, which succeeds and replays. |
| `disconnect_race` | violation | `PingCallbackOnce` | ping → loss → caller `disconnect()` reads the queue → the worker's fence moves it and its failure thread fails ping 1 → the caller's move hands the same callback to a second thread, which fails it again. |
| `oneshot_rearm` | violation | `OneShotDisarmsOwnArm` | auth(K1) → commit → `+OK` → T2 runs K1 → the caller (or K1 itself) calls auth(K3) → T2 sets the slot to nullptr: K3 is discarded without firing, and its reply will find no callback. `subscriber.hpp:157-159` warns that `auth()` "should not be called repeatedly" and that repeated calls are "undefined concerning the execution of the associated callbacks". So this run shows a divergence from spec sections 3 and 5 (set-once, clear-on-deliver slots), not a breach of the header's contract. |
| `reentrant_handler` | violation | `HandlerTerminates` | subscribe → commit → the server's acknowledgement reaches a handler that subscribes again: T2 blocks on the mutex its dispatcher holds and never handles anything again. The trace TLC prints may open with unrelated caller calls (`auth`, `ping`, `cancel_reconnect`, …). With two workers the search order varies, and those calls only use up the call budget. The steps that matter are the (p)subscribe, the commit, the server's acknowledgement and `ReenterHandler`. |

`PROJECT.json` lists the seven violations as findings, with the lines
involved. The `liveness` run sets `ReentrantHandlers = FALSE`, so it does
not speak to the deadlock of a re-entrant handler. That deadlock is the
`reentrant_handler` run.

Each property of a passing run has a mutant that TLC kills:
- `ShouldReconnect` with `<=` in place of `<` breaks `TypeOK`;
- `RePSubscribe` that forgets to re-send breaks `RegistryReflectsServer`;
- `ReSubscribe` that re-sends but forgets to re-insert the entry breaks
  `ImplementsRegistry`;
- `ReconnectFails` that does not count the attempt breaks
  `HandlerTerminates`.

### Fairness

`FairSpec == Spec /\ WF_vars(T2Step)`. `T2Step` is every step of the
transport's worker thread: the receive handler's branches and every step of
the disconnection handler. The worker is one thread that runs as long as it
is not blocked, so a step of it that stays enabled is eventually taken. No
fairness is assumed for the caller, the server, the network or the failure
threads: a caller may stop calling, and a server may never answer. Fairness
of the whole worker, not of each action, is what the code gives: nothing
promises which of its branches runs.

`HandlerTerminates` also covers a one-shot callback: once T2 runs it,
`OobDisarm` follows. It holds because each pass of the loop either counts an
attempt (`ReconnectFails`, bounded by `m_max_reconnects`) or connects, and
after a connect the handler exits or a new loss (bounded by `MaxDrops`)
starts a new pass. With `m_max_reconnects` the spec's "infinite" value, the
loop would not end while the server is down, which is intended.

## Proofs

`SubscriberProofs.tla` proves `THEOREM TypeCorrect == Spec => []TypeOK` for
every value of the constants that satisfies `ConstantsAssumption`.

`TypeOK` on its own is not inductive, and the refinement needs more than
`TypeOK`. The proofs use

    IInv == TypeOK /\ AttemptsBelowCap /\ MovedNonEmpty /\ Drained

- `AttemptsBelowCap`: `t2 = "reconnect" => current_reconnect_attempts < AttemptCap`.
  `ReconnectFails` increments the counter, and only the loop test
  (`should_reconnect`) bounds it on the way into `reconnect`.
- `MovedNonEmpty`: the caller only enters `moving` with a non-empty copy,
  which keeps `DisconnectMove`'s new worker in the type.
- `Drained`: `t2 # "resub" => sub_chans = {} /\ psub_chans = {}`. The
  moved-out maps of `re_subscribe` are empty outside its loops.

The proofs go in four steps:

1. `InitIInv`: `Init => IInv`.
2. `IInvStep`: `IInv /\ [Next]_vars => IInv'`. There is one step per action
   of `Next`, and inside each step one sub-step per changed variable.
3. `TypeCorrect == Spec => []TypeOK`.
4. `RegistryRefined == Spec => ImplementsRegistry`. The refinement needs
   one more invariant, `HandlerFlag`:

       HandlerFlag == t2 = "fence" \/ Fenced => reconnecting

   That is, `m_reconnecting` is set while the disconnection handler runs
   past its early return. `InitFlag` and `FlagStep` prove it inductive.
   Only `HandleDisconnect` moves T2 into the handler, and it sets the flag.
   Only `Exit` clears the flag, and it leaves the handler. TLC checked it on
   the `core` instance first. `InitRefines` maps the initial state to
   `Registry`'s (`serving`, empty sets). `StepRefines` shows that every
   step under `IInv /\ HandlerFlag` is a `Registry` step or a stutter:
   - every caller call is `Subscribe`, `Unsubscribe`, … or `OtherCall`;
   - `disconnect` is `Close`. If the loop has already decided to exit
     connected, it now gives up (`recovering` → `stopping`).
     `HandlerFlag` rules out `t2 = "exit"` in `serving`;
   - `HandleDisconnect` is `LoseConnection` when it starts a loop. When it
     returns at once, the registry does not change;
   - `LoopExit` is `Abandon` when the link is still down;
   - `Exit` is `Recover` when connected (`HandlerFlag` puts the phase in
     `recovering`). When disconnected it is `GiveUp`: the phase is
     `stopping`, and by `Drained` the moved-out maps are empty, so clearing
     the two tables empties the mapped sets;
   - every other step of the worker and of the environment leaves the
     mapped sets, `calls` and the phase alone.

   Without `Drained`, an `Exit` in the middle of a replay would seem to lose
   entries. Without `HandlerFlag`, the phase before a connected `Exit`
   could be `serving`, from which `Recover` is not allowed.

The lemmas about `Append`, `\o`, `Tail` and singleton sequences (from
`SequenceTheorems`), and the typing lemmas for the server's replies, are
cited by name. TLC checked `IInv` as an invariant of the `core` instance
before the proofs were written.

### The registry matches the server

`SyncProofs.tla` proves `THEOREM RegistryInSync == Spec => []RegistryReflectsServer`,
which the `core` run checks on one channel and one pattern, for every value
of the constants.

`RegistryReflectsServer` only speaks of quiescent states, so on its own it is
not inductive. A subscribe puts a command in the buffer and changes the
registry at once, and the server catches up only when `ServerExecute` runs
the command. The strengthening says what the server *will* hold once
everything in flight is executed.

`PendingEffect` defines this as `Eff(S, s, U, add, del)`: the names of `U` held
after executing `s` from `S`. A name is held when the last command about it
subscribes it, or when no command is about it and it was held at the start.
This form has no recursion, so nothing in the proof needs induction over a
sequence. Its lemmas are:
- `EffConcat`: executing `s \o t` is executing `s`, then `t`;
- `EffAppend` and `EffHeadTail`: one command at the end, or at the front;
- `EffQuiet`: commands that subscribe nothing change nothing;
- `EffSuffix`: the last batch wins.

The proof uses these quantities:
- `PendingC == EffC(srv_channels, wire \o buffer)`, and `PendingP` likewise for
  patterns;
- `BufferedC == EffC({}, buffer)`: what the buffer alone subscribes a fresh
  connection to.

The invariant has one conjunct per phase of
`connection_disconnection_handler`:

    SInv == IInv /\ Synced /\ ReplayCovered /\ ResubSynced /\ LoopCovered

- `Synced`: on a live link outside the replay, the registry equals
  `PendingC`/`PendingP`. This is the invariant's main case. A caller's
  (un)subscribe steps both sides alike (`SyncAppend`). A commit only moves
  the buffer onto the wire. A server step moves the head of the wire into
  `srv_channels` (`SyncServer`).
- `LoopCovered`: while the loop waits on a dead link, everything the buffer
  subscribes is in the registry. The buffer can be non-empty there in two
  ways. The socket may die before the transport notices (`Drop`). Or the
  caller may subscribe between `HandleDisconnect`, which empties the buffer,
  and the fence. In both cases the buffer reaches the next connection ahead
  of the replay. When the link dies, this follows from `Synced`, because
  the buffer is executed last (`EffSuffix`).
- `ReplayCovered`: between `reconnect`'s connect and the drain, the fresh
  session (`srv = {}`, empty wire) will hold only what the buffer subscribes.
  By `LoopCovered` that is in the registry, so the drain moves it out and
  `re_subscribe` sends it again.
- `ResubSynced`: inside `re_subscribe`'s loops, registry and server agree on
  every name not still waiting in the moved-out maps. Each
  `ReSubscribe`/`RePSubscribe` takes one name out and sends it. When both
  maps are empty, `ReplayCommit` turns this back into `Synced`.

Each conjunct is needed. The replay empties the registry in its first
step, so `Synced` cannot hold through it: `ResubSynced` and `ReplayCovered`
carry the argument across. `ReplayCovered` in turn rests on `LoopCovered`,
since the fresh session starts from the buffer.

TLC checked `SInv` as an invariant of the `core` instance, with a second
channel added: 4.7M states, no violation. Only then was it proved. The
proof of `SInvStep` has one step per action of `Next`. Each step reduces to
one of a few shape lemmas:
- `SyncFrame`: nothing the invariant reads changes;
- `SyncDead`: the link is down after the step;
- `SyncAppend`: one more buffered command;
- `FlushPending`, `SyncServer`, `SyncReconnectOk`, `SyncReplay`,
  `SyncReplayCommit`.

Finally, in a quiescent state the wire and buffer are empty, so
`PendingC = srv_channels`.

### What stays with TLC alone

- every violation run;
- `HandlerTerminates`. Liveness under fairness, and `ENABLED`, are outside
  what TLAPS checks here;
- induction over data, and modules with RECURSIVE operators. These are
  outside the prover's reach. `PendingEffect` is written so that it needs
  neither.

## Not modelled, and next steps

The following are not modelled yet:
- manual `connect` after the first. `disconnect` does not clear the registry
  and `connect` does not replay it, so after disconnect + connect the
  registry would hold entries the new connection never subscribed. Also,
  `m_cancel` is never reset (line 148);
- connect-state notifications, the sentinel, the destructor, and detached
  threads outliving the object;
- `workers` is a set of queues, so two failure threads with the same queue
  are one element. `fired` counts every run of `FailPing`, so the
  double-failure is still caught. The abstraction only merges states.

Planned work:
1. A pure `ReplyClassifier` module, checked against the spec's
   classification table.
