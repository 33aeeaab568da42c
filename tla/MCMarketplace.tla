-------------------------- MODULE MCMarketplace --------------------------
EXTENDS Marketplace, TLC

\* Providers are interchangeable, and so are seeded documents.
Symmetry == Permutations(Providers) \cup Permutations(Seeded)

=============================================================================
