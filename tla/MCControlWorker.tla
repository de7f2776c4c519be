--------------------------- MODULE MCControlWorker ---------------------------
(* Model checking of ControlWorker: manifests with one proposal or another,  *)
(* two sessions with one observation id that expect the same proposal.       *)
EXTENDS ControlWorker, TLC, FiniteSets, Naturals

CONSTANTS p, q

MCExpected == [s \in Sessions |-> p]
MCObservationId == [s \in Sessions |-> 1]
\* Clients are served while one command at a time runs, which may be cut off: that
\* leaves workers no file names, as every other disturbance does.
Bounded ==
  \/ \A s \in Sessions : call[s] = None /\ direct[s] = None
  \/ /\ disturbances \subseteq {"cut"}
     /\ Cardinality({c \in Commands : command[c] # Idle}) <= 1

Symmetry == Permutations(Workers) \cup Permutations(Commands) \cup Permutations(Sessions)
              \cup Permutations(Names)
=============================================================================
