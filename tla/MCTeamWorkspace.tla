-------------------------- MODULE MCTeamWorkspace --------------------------
(* Small instances of TeamWorkspace for TLC. *)
EXTENDS TeamWorkspace

CONSTANTS u1, u2, nobody

TwoUsers   == {u1, u2}
OneByOne   == (Incidents \ {"overlap"}) \cup Requests
OpenTransactions == {"open_transaction", "offline"}
=============================================================================
