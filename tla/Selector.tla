------------------------------ MODULE Selector ------------------------------
(***************************************************************************)
(* What EventLoop expects of a selector (include/pedronet/selector/         *)
(* selector.h): it holds registered channels with the events each has asked *)
(* for; Wait finds conditions among those events, hang-ups always; Get then *)
(* reports each channel found, once, unless it has been removed meanwhile.  *)
(***************************************************************************)
EXTENDS Naturals

CONSTANTS
  Channels,
  Events,   \* what a channel may ask for
  HangUp    \* the condition that is reported unasked

Conditions == Events \cup {HangUp}

VARIABLES
  registered,  \* channels
  interest,    \* interest[c]: the events c has asked for
  ready,       \* ready[c]: what the last Wait found and Get has yet to report
  reported     \* the answer of Get in the step that gives it, else <<>>

vars == <<registered, interest, ready, reported>>

Init ==
  /\ registered = {}
  /\ interest = [c \in Channels |-> {}]
  /\ ready = [c \in Channels |-> {}]
  /\ reported = <<>>

Add(c) ==
  /\ c \notin registered
  /\ registered' = registered \cup {c}
  /\ \E events \in SUBSET Events : interest' = [interest EXCEPT ![c] = events]
  /\ reported' = <<>>
  /\ UNCHANGED ready

Update(c) ==
  /\ \E events \in SUBSET Events : interest' = [interest EXCEPT ![c] = events]
  /\ reported' = <<>>
  /\ UNCHANGED <<registered, ready>>

Remove(c) ==
  /\ c \in registered
  /\ registered' = registered \ {c}
  /\ ready' = [ready EXCEPT ![c] = {}]
  /\ reported' = <<>>
  /\ UNCHANGED interest

\* The conditions Wait may find for a channel.
Findable(c) == IF c \in registered THEN interest[c] \cup {HangUp} ELSE {}

Wait ==
  /\ ready' \in [Channels -> SUBSET Conditions]
  /\ \A c \in Channels : ready'[c] \subseteq Findable(c)
  /\ reported' = <<>>
  /\ UNCHANGED <<registered, interest>>

Get(c) ==
  /\ ready[c] # {}
  /\ reported' = <<c, ready[c]>>
  /\ ready' = [ready EXCEPT ![c] = {}]
  /\ UNCHANGED <<registered, interest>>

\* Get answers without a channel, or the loop does something else.
Other ==
  /\ reported' = <<>>
  /\ UNCHANGED <<registered, interest, ready>>

Next ==
  \/ Wait \/ Other
  \/ \E c \in Channels : Add(c) \/ Update(c) \/ Remove(c) \/ Get(c)

Spec == Init /\ [][Next]_vars
=============================================================================
