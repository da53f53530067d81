------------------------------- MODULE Registry -------------------------------
(***************************************************************************)
(* What the subscriber promises its caller about the Subscription Registry *)
(* (spec section 4.1): the set of channels and patterns it holds handlers  *)
(* for changes only by the caller's own subscribe / unsubscribe calls, or  *)
(* is emptied when the subscriber gives up reconnecting.  Reconnections    *)
(* and the replay are invisible at this level; what the caller sees of a  *)
(* connection loss is the supervisor's phase: serving, recovering from a  *)
(* loss, or stopping (the loop ended disconnected, so the registry is     *)
(* about to be cleared).  "calls" counts the caller's API calls, so that  *)
(* a change the caller did not ask for cannot pass for one it did.        *)
(***************************************************************************)
EXTENDS Naturals

CONSTANTS Channels, Patterns

VARIABLES chans, pats, calls, sup

rvars == <<chans, pats, calls, sup>>

Phases == {"serving", "recovering", "stopping"}

RTypeOK ==
    /\ chans \subseteq Channels
    /\ pats \subseteq Patterns
    /\ calls \in Nat
    /\ sup \in Phases

Init ==
    /\ chans = {}
    /\ pats = {}
    /\ calls = 0
    /\ sup = "serving"

\* subscribe: the entry is added (or its handlers replaced).
Subscribe(c) ==
    /\ chans' = chans \cup {c}
    /\ calls' = calls + 1
    /\ UNCHANGED <<pats, sup>>

PSubscribe(p) ==
    /\ pats' = pats \cup {p}
    /\ calls' = calls + 1
    /\ UNCHANGED <<chans, sup>>

\* unsubscribe of a name the registry holds.
Unsubscribe(c) ==
    /\ c \in chans
    /\ chans' = chans \ {c}
    /\ calls' = calls + 1
    /\ UNCHANGED <<pats, sup>>

PUnsubscribe(p) ==
    /\ p \in pats
    /\ pats' = pats \ {p}
    /\ calls' = calls + 1
    /\ UNCHANGED <<chans, sup>>

\* Any other call (ping, auth, commit, cancel_reconnect, ...) leaves the
\* registry and the supervisor alone.
OtherCall ==
    /\ calls' = calls + 1
    /\ UNCHANGED <<chans, pats, sup>>

\* disconnect: it leaves the registry, but closing the connection while
\* the supervisor recovers may make it give up.
Close ==
    /\ calls' = calls + 1
    /\ sup' \in IF sup = "recovering" THEN {"recovering", "stopping"} ELSE {sup}
    /\ UNCHANGED <<chans, pats>>

\* The supervisor notices a loss and starts recovering.
LoseConnection ==
    /\ sup = "serving"
    /\ sup' = "recovering"
    /\ UNCHANGED <<chans, pats, calls>>

\* The recovery ends connected: nothing the caller sees has changed.
Recover ==
    /\ sup = "recovering"
    /\ sup' = "serving"
    /\ UNCHANGED <<chans, pats, calls>>

\* The recovery ends disconnected.
Abandon ==
    /\ sup = "recovering"
    /\ sup' = "stopping"
    /\ UNCHANGED <<chans, pats, calls>>

\* clear_subscriptions, only once the supervisor has stopped recovering.
GiveUp ==
    /\ sup = "stopping"
    /\ sup' = "serving"
    /\ chans' = {}
    /\ pats' = {}
    /\ UNCHANGED calls

Next ==
    \/ \E c \in Channels : Subscribe(c) \/ Unsubscribe(c)
    \/ \E p \in Patterns : PSubscribe(p) \/ PUnsubscribe(p)
    \/ OtherCall \/ Close
    \/ LoseConnection \/ Recover \/ Abandon \/ GiveUp

Spec == Init /\ [][Next]_rvars
=============================================================================
