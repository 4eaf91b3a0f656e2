----------------------------- MODULE MCCapture ------------------------------
(***************************************************************************)
(* Small instances of CaptureLifecycle for TLC.  The numbers keep the      *)
(* order of the deployed ones (DeployedTimings) on a coarser clock.        *)
(* Workers, and the sides of a card, are interchangeable; so are handlers. *)
(***************************************************************************)
EXTENDS CaptureInvariant, TLC

WorkerSymmetry == Permutations(Workers) \cup Permutations(Slots)
HandlerSymmetry == Permutations(Handlers)
============================================================================
