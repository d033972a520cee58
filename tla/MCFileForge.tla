---------------------------- MODULE MCFileForge ----------------------------
(***************************************************************************)
(* Small instances of FileForge for TLC.                                   *)
(***************************************************************************)
EXTENDS FileForge

CONSTANTS j1, j2, w1, w2

OneJob == {j1}
TwoJobs == {j1, j2}
TwoWorkers == {w1, w2}

NoFaults == {}
AllButReply == FaultKinds \ {"reply"}
Stops == {"sigterm"}
Resends == {"redis", "reply"}
ApiTrouble == {"redis", "client", "api_crash"}

=============================================================================
