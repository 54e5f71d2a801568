------------------------------ MODULE MCZoneMaster ------------------------------
(* Small instances of ZoneMaster: no symmetry, for the sake of ZoneReturns. *)
EXTENDS ZoneMaster
================================================================================
