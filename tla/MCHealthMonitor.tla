--------------------------- MODULE MCHealthMonitor ---------------------------
(* Instances of HealthMonitor for TLC. *)
EXTENDS HealthMonitor, TLC

\* Nodes are interchangeable, and so are passes.
Symmetry == Permutations(Nodes) \cup Permutations(Passes)

\* Bound of HealthFleet: two nodes share the first two instants; only a node whose
\* fellow was disabled before it was ever probed goes on to the later ones.
OneNodeLater ==
    clock <= 1 \/ \A m, n \in Nodes :
        m # n => \E k \in {m, n} : ~enabled[k] /\ health[k].state = "none"
=============================================================================
