-------------------------- MODULE MCSupportOutbox --------------------------
(***************************************************************************)
(* The outbox for the model checker.  What has landed is read only by a    *)
(* kill, so states that differ in nothing else are one once no fault is    *)
(* left.                                                                   *)
(***************************************************************************)
EXTENDS SupportOutbox

View ==
  <<hook, store, IF faults < MaxFaults THEN disk ELSE store,
    inbox, open, created, written, faults, history>>
=============================================================================
