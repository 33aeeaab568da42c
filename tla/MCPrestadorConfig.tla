------------------------ MODULE MCPrestadorConfig ------------------------
EXTENDS PrestadorConfig, TLC

\* Categories, texts, pictures and runs are interchangeable.
Symmetry == Permutations(Categories) \cup Permutations(Texts)
            \cup Permutations(Files) \cup Permutations(Runs)

=============================================================================
