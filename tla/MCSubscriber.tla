---------------------------- MODULE MCSubscriber ----------------------------
(* Instantiation of Subscriber for TLC: one channel, one pattern.          *)
EXTENDS Subscriber

CONSTANTS c1, p1

MCChannels == {c1}
MCPatterns == {p1}
=============================================================================
