---------------------------- MODULE MCAutomation ----------------------------
(* Model values for Automation. *)
EXTENDS Automation, TLC

CONSTANTS m1, m2, j1, j2, a1, a2, r1, r2, b1, b2, p1, p2

Symmetry == Permutations(Users) \cup Permutations(Admins) \cup Permutations(Runs)
            \cup Permutations(Beats)

=============================================================================
