---------------------------- MODULE MCEnrollment ----------------------------
\* Enrollments, calls, keys and processes are interchangeable.
EXTENDS Enrollment, TLC

Symmetry == Permutations(Flow) \union Permutations(Op) \union Permutations(Key)
            \union Permutations(Replica)
=============================================================================
