----------------------------- MODULE MCClientJobs -----------------------------
(* Model values of ClientJobs for TLC. *)
EXTENDS ClientJobs

AllDrivers == {"processor", "handler", "async"}
OnlyAsync  == {"async"}

\* Bound: with fail_on_submit_error the processor is considered without its queue id
\* only; the handler raises from the same place with it.
ConfigsConsidered == config.driver = "processor" /\ config.strict => ~ config.queueSet
MCInit == Init /\ ConfigsConsidered
MCSpec == MCInit /\ [][Next]_vars /\ Fairness
===============================================================================
