-------------------------- MODULE MCWorkerRegistry --------------------------
(***************************************************************************)
(* Instances of WorkerRegistry for TLC.                                    *)
(***************************************************************************)
EXTENDS WorkerRegistry, TLC

CONSTANTS p1, w1

OneProc == p1 :> w1
=============================================================================
