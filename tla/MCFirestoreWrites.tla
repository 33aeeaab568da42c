------------------------- MODULE MCFirestoreWrites --------------------------
EXTENDS FirestoreWrites

=============================================================================
