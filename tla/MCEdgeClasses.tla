------------------------------ MODULE MCEdgeClasses ------------------------------
(* One model, its class names, and the alert classes the cloud sends.            *)
EXTENDS ModelSwap
===============================================================================
