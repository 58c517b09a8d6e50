------------------------- MODULE MCConsumerDispatcher -------------------------
(* ConsumerDispatcher for model checking. *)
EXTENDS ConsumerDispatcher
=============================================================================
