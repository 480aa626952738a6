--------------------------- MODULE MCLoadBalancer ---------------------------
(* The load balancer with a few pods and requests. *)
EXTENDS LoadBalancer
=============================================================================
