---------------------------- MODULE MCBlacklist ----------------------------
(***************************************************************************)
(* Instances of BlacklistMonitor for TLC: one IP, a critical and a warning *)
(* zone; the second domain uses the same IP as the first.                  *)
(***************************************************************************)
EXTENDS BlacklistMonitor, TLC

CONSTANTS job, click, shop, forum, mx, critical, warning

MCTargets == [d \in Domains |-> {mx}]
MCSeverity == [z \in Zones |-> IF z = critical THEN 3 ELSE 2]
============================================================================
