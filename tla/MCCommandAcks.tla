----------------------------- MODULE MCCommandAcks -----------------------------
(* One agent, one model and the words the poller uses: see MCCommandAcks.cfg.   *)
EXTENDS CommandQueue

MCPoller == {[ok |-> "completed", bad |-> "failed"]}
===============================================================================
