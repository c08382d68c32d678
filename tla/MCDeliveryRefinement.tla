----------------------- MODULE MCDeliveryRefinement -----------------------
(* The instances of MCDeliveryPipeline, checked against HumanGatedDelivery. *)
EXTENDS MCDeliveryPipeline, DeliveryRefinement
=============================================================================
