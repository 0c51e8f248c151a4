------------------------------ MODULE MCCloudVoting ------------------------------
(* One cloud camera in front of a lasting spill, with layer 3 enabled.           *)
EXTENDS CloudDetection
===============================================================================
