------------------------------ MODULE MCService -----------------------------
(***************************************************************************)
(* A chain of three tables, so that a drop can be cut short above and      *)
(* below the middle one, one website that TRUSTPILOT_URL lists, and a job  *)
(* of each kind: pools are stopped one after the other.                    *)
(***************************************************************************)
EXTENDS Service

MCTables == <<"websites", "channels", "jobs">>
MCReferences == {<<"channels", "websites">>, <<"jobs", "channels">>}
MCEnvSites == <<"listed.example">>
=============================================================================
