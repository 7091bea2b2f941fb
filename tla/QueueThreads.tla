----------------------------- MODULE QueueThreads -----------------------------
(* The threads that meet in an event queue, the same for its three kinds.     *)
EXTENDS Naturals, FiniteSets

CONSTANTS
  Adders,     \* threads that call Add; the loop thread is one of them
  Loop,       \* the loop thread
  None,       \* no thread: nobody holds the mutex of a queue that has one
  MaxTasks    \* bound: callbacks added by one thread

ASSUME AddersAssumption == IsFiniteSet(Adders) /\ Loop \in Adders /\ None \notin Adders
ASSUME MaxTasksAssumption == MaxTasks \in Nat
=============================================================================
