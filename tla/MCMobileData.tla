---------------------------- MODULE MCMobileData ----------------------------
(* Instances of MobileData for TLC. *)
EXTENDS MobileData, TLC

CONSTANTS cmd, gps, w1, w2, g1

(* The cmd daemon with its worker and an abandoned one, the GPS daemon. *)
MCDaemons == {cmd, gps}
MCThreads == {w1, w2, g1}
MCDaemonOf == w1 :> cmd @@ w2 :> cmd @@ g1 :> gps

(* One thread per daemon, for the liveness run. *)
MCTwoThreads == {w1, g1}
MCTwoDaemonOf == w1 :> cmd @@ g1 :> gps

MCWorkers == Permutations({w1, w2})
=============================================================================
