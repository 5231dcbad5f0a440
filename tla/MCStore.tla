------------------------------ MODULE MCStore ------------------------------
(* Instances of StoreProps for TLC. *)
EXTENDS StoreProps

OneMode == {302}

=============================================================================
