----------------------------- MODULE MCSession -----------------------------
EXTENDS Session, TLC

\* Accounts are interchangeable, and so are runs of signInWithGoogle.
Symmetry == Permutations(Accounts) \cup Permutations(Taps)

=============================================================================
