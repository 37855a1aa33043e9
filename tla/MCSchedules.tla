---------------------------- MODULE MCSchedules -----------------------------
(***************************************************************************)
(* A website and a channel of it, two requests at a time and one scrape.   *)
(* The website has a schedule cron takes or one it refuses, the channel    *)
(* one of two that cron takes.                                             *)
(***************************************************************************)
EXTENDS Schedules, TLC

CONSTANTS hourly, daily, bad

WebsiteOf == [c \in Channels |-> CHOOSE s \in Sites : TRUE]

RequestedSchedules ==
    [t \in Target |-> IF t \in Sites THEN {hourly, bad} ELSE {hourly, daily}]

Symmetry == Permutations(Requests)
=============================================================================
