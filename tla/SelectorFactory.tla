--------------------------- MODULE SelectorFactory ---------------------------
(***************************************************************************)
(* MakeSelector (include/pedronet/selector/selector_factory.h): the options *)
(* of a loop choose its selector once, and the loop uses either through     *)
(* selector.h.  The variables of EpollSelector keep their names, those of   *)
(* Poller that would clash have others.                                     *)
(***************************************************************************)
EXTENDS EpollSelector

CONSTANTS
  Fds,      \* numbers of descriptors
  None,     \* no descriptor, no channel
  MaxBuf    \* bound: entries of buf_ of a Poller

VARIABLES
  selector_type,  \* options_.selector_type
  fd, channels, cleanable, ready, spoiled,
  pollEvents, pollBuf, pollAt, pollReported

pollVars == <<fd, channels, cleanable, ready, spoiled, pollEvents, pollBuf, pollAt, pollReported>>

Poll == INSTANCE Poller WITH
  events <- pollEvents, buf <- pollBuf, at <- pollAt, reported <- pollReported

ASSUME PollerAssumption == Poll!Parameters

MakeSelector ==
  /\ selector_type \in {"kEpoll", "kPoll"}
  /\ Init
  /\ Poll!Init

Step ==
  /\ UNCHANGED selector_type
  /\ \/ selector_type = "kEpoll" /\ Next /\ UNCHANGED pollVars
     \/ selector_type = "kPoll" /\ Poll!Next /\ UNCHANGED vars

EitherSelector == MakeSelector /\ [][Step]_<<selector_type, vars, pollVars>>

-----------------------------------------------------------------------------

\* Poller polls every registered descriptor for what its channel has asked for,
\* whatever CleanUp and std::partition have moved, until an Update goes astray.
PolledAsAsked == Poll!PolledAsAsked

\* Poller keeps the promise of a selector until then; EpollSelector keeps it by
\* Implements.
PollerImplements == Poll!Implements
=============================================================================
