------------------------- MODULE MCProfileEditor -------------------------
EXTENDS ProfileEditor, TLC

\* Texts, dates, pictures and uploads are interchangeable.
Symmetry == Permutations(Texts) \cup Permutations(Dates)
            \cup Permutations(Pics) \cup Permutations(Uploads)

=============================================================================
