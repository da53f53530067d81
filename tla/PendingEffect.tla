---------------------------- MODULE PendingEffect ----------------------------
(***************************************************************************)
(* The set of names (channels, or patterns) a Redis server holds for a    *)
(* connection once it has executed a sequence of commands, each of which  *)
(* subscribes a name (operation add), unsubscribes one (operation del) or *)
(* is about something else.  It is stated without recursion: a name is    *)
(* held at the end when the last command about it subscribes it, or when  *)
(* no command is about it and it was held at the start.                   *)
(*                                                                         *)
(* The Subscriber proofs use it for the commands in flight on the         *)
(* transport (wire \o buffer), with add = "SUBSCRIBE" and                 *)
(* del = "UNSUBSCRIBE" over Channels, or the pattern commands over         *)
(* Patterns.                                                              *)
(***************************************************************************)
EXTENDS Naturals, Sequences, SequenceTheorems, TLAPS

\* Command x subscribes or unsubscribes name n.
Mentions(x, n, add, del) == x.op \in {add, del} /\ x.arg = n

\* No command of s after position i is about n.
QuietAfter(s, i, n, add, del) ==
    \A j \in i + 1 .. Len(s) : ~Mentions(s[j], n, add, del)

\* What the server does with one command (ServerExecute).
Step(S, x, add, del) ==
    IF x.op = add THEN S \cup {x.arg}
    ELSE IF x.op = del THEN S \ {x.arg}
    ELSE S

\* The names of U held after executing s from S.
Eff(S, s, U, add, del) ==
    {n \in U : \/ \E i \in 1 .. Len(s) : /\ s[i].op = add
                                         /\ s[i].arg = n
                                         /\ QuietAfter(s, i, n, add, del)
               \/ n \in S /\ QuietAfter(s, 0, n, add, del)}

-----------------------------------------------------------------------------
(* Lemmas.  T is the set of commands; a command that subscribes names a   *)
(* member of U.                                                            *)

\* A server executing the commands of s \o t one by one (ServerExecute)
\* ends where executing s, then t, ends.
LEMMA EffConcat ==
    ASSUME NEW U, NEW add, NEW del, NEW T, NEW S,
           NEW s \in Seq(T), NEW t \in Seq(T)
    PROVE  Eff(S, s \o t, U, add, del) = Eff(Eff(S, s, U, add, del), t, U, add, del)
<1> DEFINE u == s \o t
           Ls == Len(s)
           Lt == Len(t)
<1>1. /\ Ls \in Nat /\ Lt \in Nat
      /\ Len(u) = Ls + Lt
      /\ \A i \in 1 .. Ls : u[i] = s[i]
      /\ \A i \in 1 .. Lt : u[Ls + i] = t[i]
    BY ConcatProperties
<1>2. SUFFICES ASSUME NEW n \in U
               PROVE  n \in Eff(S, u, U, add, del)
                      <=> n \in Eff(Eff(S, s, U, add, del), t, U, add, del)
    BY DEF Eff
<1>3. CASE \E k \in 1 .. Lt : Mentions(t[k], n, add, del)
    <2>1. PICK k \in 1 .. Lt : Mentions(t[k], n, add, del)
        BY <1>3
    <2>2. ~QuietAfter(u, 0, n, add, del) /\ ~QuietAfter(t, 0, n, add, del)
        BY <1>1, <2>1 DEF QuietAfter
    \* A subscription last in u is one last in t, shifted by Len(s).
    <2>3. ASSUME NEW i \in 1 .. Len(u), u[i].op = add, u[i].arg = n,
                 QuietAfter(u, i, n, add, del)
          PROVE  \E m \in 1 .. Lt : t[m].op = add /\ t[m].arg = n
                                    /\ QuietAfter(t, m, n, add, del)
        <3>1. i > Ls
            <4>1. SUFFICES ASSUME i <= Ls PROVE FALSE
                OBVIOUS
            <4>2. Ls + k \in i + 1 .. Len(u) /\ u[Ls + k] = t[k]
                BY <1>1, <4>1
            <4>3. QED
                BY <2>1, <2>3, <4>2 DEF QuietAfter
        <3>2. i - Ls \in 1 .. Lt /\ t[i - Ls] = u[i]
            BY <1>1, <3>1
        <3>3. QuietAfter(t, i - Ls, n, add, del)
            BY <1>1, <2>3, <3>1 DEF QuietAfter
        <3>4. QED
            BY <2>3, <3>2, <3>3
    <2>4. ASSUME NEW m \in 1 .. Lt, t[m].op = add, t[m].arg = n,
                 QuietAfter(t, m, n, add, del)
          PROVE  \E i \in 1 .. Len(u) : u[i].op = add /\ u[i].arg = n
                                        /\ QuietAfter(u, i, n, add, del)
        <3>1. Ls + m \in 1 .. Len(u) /\ u[Ls + m] = t[m]
            BY <1>1
        <3>2. QuietAfter(u, Ls + m, n, add, del)
            BY <1>1, <2>4 DEF QuietAfter
        <3>3. QED
            BY <2>4, <3>1, <3>2
    <2>5. QED
        BY <2>2, <2>3, <2>4 DEF Eff
<1>4. CASE \A k \in 1 .. Lt : ~Mentions(t[k], n, add, del)
    <2>1. \A i \in 0 .. Ls : QuietAfter(u, i, n, add, del) <=> QuietAfter(s, i, n, add, del)
        BY <1>1, <1>4 DEF QuietAfter
    \* A subscription last in u lies in s.
    <2>2. ASSUME NEW i \in 1 .. Len(u), u[i].op = add, u[i].arg = n
          PROVE  i \in 1 .. Ls
        BY <1>1, <1>4, <2>2 DEF Mentions
    <2>3. (\E i \in 1 .. Len(u) : u[i].op = add /\ u[i].arg = n /\ QuietAfter(u, i, n, add, del))
          <=> (\E i \in 1 .. Ls : s[i].op = add /\ s[i].arg = n /\ QuietAfter(s, i, n, add, del))
        BY <1>1, <2>1, <2>2
    <2>4. ~\E m \in 1 .. Lt : t[m].op = add /\ t[m].arg = n
        BY <1>4 DEF Mentions
    <2>5. QuietAfter(t, 0, n, add, del)
        BY <1>4 DEF QuietAfter
    <2>6. QED
        BY <2>1, <2>3, <2>4, <2>5 DEF Eff
<1>5. QED
    BY <1>3, <1>4

\* With nothing to execute, the server keeps what it holds.
LEMMA EffEmpty ==
    ASSUME NEW U, NEW add, NEW del, NEW S, S \subseteq U
    PROVE  Eff(S, <<>>, U, add, del) = S
BY DEF Eff, QuietAfter

\* Executing one command is one step of the server.
LEMMA EffSingle ==
    ASSUME NEW U, NEW add, NEW del, add # del, NEW S, S \subseteq U,
           NEW x, x.op = add => x.arg \in U
    PROVE  Eff(S, <<x>>, U, add, del) = Step(S, x, add, del)
<1>1. Len(<<x>>) = 1 /\ <<x>>[1] = x
    OBVIOUS
<1>2. ASSUME NEW n \in U
      PROVE  /\ QuietAfter(<<x>>, 1, n, add, del)
             /\ QuietAfter(<<x>>, 0, n, add, del) <=> ~Mentions(x, n, add, del)
    BY <1>1 DEF QuietAfter
<1>3. CASE x.op = add
    BY <1>1, <1>2, <1>3 DEF Eff, Step, Mentions
<1>4. CASE x.op = del
    BY <1>1, <1>2, <1>4 DEF Eff, Step, Mentions
<1>5. CASE x.op \notin {add, del}
    BY <1>1, <1>2, <1>5 DEF Eff, Step, Mentions
<1>6. QED
    BY <1>3, <1>4, <1>5

\* Holding more at the start, the server holds at least as much at the end.
LEMMA EffMonotonic ==
    ASSUME NEW U, NEW add, NEW del, NEW S1, NEW S2, S1 \subseteq S2, NEW s
    PROVE  Eff(S1, s, U, add, del) \subseteq Eff(S2, s, U, add, del)
BY DEF Eff

\* The server holds only names of U.
LEMMA EffRange ==
    ASSUME NEW U, NEW add, NEW del, NEW S, NEW s
    PROVE  Eff(S, s, U, add, del) \subseteq U
BY DEF Eff

\* A command appended to the buffer is one more server step at the end.
LEMMA EffAppend ==
    ASSUME NEW U, NEW add, NEW del, add # del, NEW T,
           \A y \in T : y.op = add => y.arg \in U,
           NEW S, NEW s \in Seq(T), NEW x \in T
    PROVE  Eff(S, Append(s, x), U, add, del) = Step(Eff(S, s, U, add, del), x, add, del)
<1>1. Append(s, x) = s \o <<x>> /\ <<x>> \in Seq(T)
    BY AppendIsConcat
<1>2. Eff(S, Append(s, x), U, add, del) = Eff(Eff(S, s, U, add, del), <<x>>, U, add, del)
    <2>0. \A tt \in Seq(T) : Eff(S, s \o tt, U, add, del)
                             = Eff(Eff(S, s, U, add, del), tt, U, add, del)
        BY EffConcat
    <2>1. Eff(S, s \o <<x>>, U, add, del) = Eff(Eff(S, s, U, add, del), <<x>>, U, add, del)
        BY <1>1, <2>0
    <2>2. QED
        BY <1>1, <2>1
<1>3. QED
    BY <1>2, EffRange, EffSingle

\* The server executes the oldest command first.
LEMMA EffHeadTail ==
    ASSUME NEW U, NEW add, NEW del, add # del, NEW T,
           \A y \in T : y.op = add => y.arg \in U,
           NEW S, S \subseteq U, NEW s \in Seq(T), s # <<>>
    PROVE  Eff(S, s, U, add, del) = Eff(Step(S, Head(s), add, del), Tail(s), U, add, del)
<1>1. Head(s) \in T /\ Tail(s) \in Seq(T) /\ <<Head(s)>> \in Seq(T)
    BY HeadTailProperties
<1>2. s = <<Head(s)>> \o Tail(s)
    <2>1. /\ <<Head(s)>> \o Tail(s) \in Seq(T)
          /\ Len(<<Head(s)>> \o Tail(s)) = Len(s)
          /\ \A i \in 1 .. Len(s) : (<<Head(s)>> \o Tail(s))[i] = s[i]
        BY <1>1, HeadTailProperties, ConcatProperties
    <2>2. QED
        BY <2>1, SeqEqual
<1>3. Eff(S, s, U, add, del) = Eff(Eff(S, <<Head(s)>>, U, add, del), Tail(s), U, add, del)
    <2>0. \A ss, tt \in Seq(T) : Eff(S, ss \o tt, U, add, del)
                                 = Eff(Eff(S, ss, U, add, del), tt, U, add, del)
        BY EffConcat
    <2>1. Eff(S, <<Head(s)>> \o Tail(s), U, add, del)
          = Eff(Eff(S, <<Head(s)>>, U, add, del), Tail(s), U, add, del)
        BY <1>1, <2>0
    <2>2. QED
        BY <1>2, <2>1
<1>4. QED
    BY <1>1, <1>3, EffSingle

\* Commands about no name of this kind leave the server's set alone.
LEMMA EffQuiet ==
    ASSUME NEW U, NEW add, NEW del, NEW S, S \subseteq U, NEW T, NEW t \in Seq(T),
           \A i \in 1 .. Len(t) : t[i].op \notin {add, del}
    PROVE  Eff(S, t, U, add, del) = S
BY DEF Eff, QuietAfter, Mentions

\* Whatever precedes them, the subscriptions of the last commands survive.
LEMMA EffSuffix ==
    ASSUME NEW U, NEW add, NEW del, NEW T, NEW S,
           NEW w \in Seq(T), NEW b \in Seq(T)
    PROVE  Eff({}, b, U, add, del) \subseteq Eff(S, w \o b, U, add, del)
<1>1. Eff(S, w \o b, U, add, del) = Eff(Eff(S, w, U, add, del), b, U, add, del)
    BY EffConcat
<1>2. Eff({}, b, U, add, del) \subseteq Eff(Eff(S, w, U, add, del), b, U, add, del)
    <2>1. {} \subseteq Eff(S, w, U, add, del)
        OBVIOUS
    <2>2. QED
        BY <2>1, EffMonotonic
<1>3. QED
    BY <1>1, <1>2

=============================================================================
