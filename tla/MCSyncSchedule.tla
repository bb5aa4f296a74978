---------------------------- MODULE MCSyncSchedule ----------------------------
(***************************************************************************)
(* SyncSchedule for TLC: two configurations of a team, an interval of some *)
(* checks, and a lock that is stale before the next sync is due.           *)
(***************************************************************************)
EXTENDS SyncSchedule

MCManifests == <<"c1", "c2">>
=============================================================================
