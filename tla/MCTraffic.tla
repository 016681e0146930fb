------------------------------ MODULE MCTraffic ------------------------------
(* Small instances of Traffic for TLC: the constants come from the cfg.    *)
EXTENDS Traffic

\* Every allocation of a send call and of a key update may fail.
MCFaults == AllFaults

\* No allocation fails.
MCNoFaults == {}

\* One application sends, the other end answers; or both send.
MCServerOnly == {Server}
MCBoth == {Client, Server}
=============================================================================
