-------------------------- MODULE MCSelectorFactory --------------------------
(* Three channels.  EpollSelector has a buffer that grows from one entry to   *)
(* two; Poller has two descriptors, so that one channel may take over the     *)
(* descriptor of another.                                                    *)
EXTENDS SelectorFactory, TLC

CONSTANTS a, b, c, f, g, In, Hup

ThreeChannels == {a, b, c}
OneEvent == {In}
TwoFds == {f, g}
AnyOfTwo == Permutations(ThreeChannels) \cup Permutations(TwoFds)
=============================================================================
