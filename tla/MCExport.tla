------------------------------- MODULE MCExport -------------------------------
EXTENDS Export, TLC

Symmetry == Permutations(Decision)

Incidents ==
  Cardinality(revoked) + Cardinality(over) + Cardinality(damaged) + Cardinality(fetched)
    + Cardinality({d \in Decision : Rejected(d)})
    + Cardinality((begun \ Released) \ {running})

\* Two exports, incidents and pages all append events of their own: pages are read from
\* a short ledger, and a second export goes with an undisturbed first one.
Bounded ==
  /\ Cardinality(Proposed) > 1 =>
       /\ Incidents = 0
       /\ \A d \in Proposed :
            Cardinality(decision[d].artifacts) = 1 /\ decision[d].recipient \in Supervisor
  /\ Cardinality(Proposed) = 1 => Incidents < 3 /\ Len(log) < 14
  /\ reader.state # "new" => Cardinality(Proposed) < 2 /\ Incidents = 0 /\ Len(log) < 10
===============================================================================
