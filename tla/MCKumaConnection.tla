--------------------------- MODULE MCKumaConnection ---------------------------
(* The budget of outside events for the run of KumaConnection.             *)
EXTENDS KumaConnection

OneOfEach == [e \in Events |-> 1]
=============================================================================
