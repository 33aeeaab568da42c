-------------------------- MODULE MCFirestoreWatch --------------------------
EXTENDS FirestoreWatch

=============================================================================
