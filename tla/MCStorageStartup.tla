-------------------------- MODULE MCStorageStartup --------------------------
(* StorageStartup for TLC. *)
EXTENDS StorageStartup
Incidental == {"crash", "busy"}
BrokenSchema == {"crash", "crash_in_schema"}
=============================================================================
