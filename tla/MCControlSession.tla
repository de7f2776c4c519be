-------------------------- MODULE MCControlSession --------------------------
(* Model checking of ControlSession: an evaluated source, the reset trial    *)
(* and the follow-up trial it may authorise, and sessions answered directly. *)
EXTENDS ControlSession, TLC

CONSTANTS source, trial, followup, direct, baseline, measured,
          p1                       \* the only responder of the answered sessions

MCPolicy ==
  [s \in Sessions |-> CASE s = source -> "evaluation"
                        [] s = trial -> "reset_trial"
                        [] s = followup -> "followup_trial"
                        [] s = direct -> "direct"
                        [] s = baseline -> "baseline"
                        [] s = measured -> "measurement"]

Lone == {direct, baseline, measured}

\* Sessions interact only through bindings: a behaviour is about the trials and
\* their source, or about the others, which have one responder process.
OneGroup ==
  \/ \A s \in Lone : s \notin request /\ (operation # None => operation.session # s)
  \/ /\ \A s \in Sessions \ Lone :
          s \notin request /\ (operation # None => operation.session # s)
     /\ \A p \in Responders \ {p1} : responding[p] = None

Symmetry == Permutations(Proposals)
=============================================================================
