---------------------------- MODULE MCDaemonQuery ----------------------------
(***************************************************************************)
(* Small instances of DaemonQuery.  A tick is five seconds, so a live      *)
(* snapshot is due after one tick and an archive one after two here        *)
(* (twelve in the code); the reading windows keep their order.             *)
(***************************************************************************)
EXTENDS DaemonQuery

MCTtl == [m \in Modes |-> IF m THEN 2 ELSE 1]
MCWindow == [m \in Modes |-> IF m THEN 3 ELSE 2]
=============================================================================
