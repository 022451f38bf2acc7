--------------------------- MODULE MCRosbagCapture ---------------------------
EXTENDS RosbagCapture

\* Each fault is reported by a node with one topic, as different as can be.
Scoped == CHOOSE f \in [Codes -> {{t} : t \in Topics}] :
            Cardinality({f[c] : c \in Codes}) = Min({Cardinality(Codes), Cardinality(Topics)})

\* A window after the fault, or a bag at once by a capture that starts when needed.
MCConfigs == {[post_roll |-> TRUE, lazy_start |-> FALSE],
              [post_roll |-> FALSE, lazy_start |-> TRUE]}

CodeSymmetry == Permutations(Codes)
=============================================================================
