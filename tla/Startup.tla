------------------------------ MODULE Startup -------------------------------
(***************************************************************************)
(* What cmd/service/main.go does before it serves: drop the tables         *)
(* (DropAllTables, if DROP_TABLES_ON_START says so), create or complete    *)
(* them (AutoMigrate), and add the websites of TRUSTPILOT_URL that are not *)
(* in the table (InitializeFromEnv).  Each is a loop of statements without *)
(* a transaction; the process can end between any two of them, and begins  *)
(* again with what the database kept.                                      *)
(*                                                                         *)
(* The database is external.  gorm drops a table with CASCADE, which also  *)
(* removes the constraints at its foreign keys' other end; AutoMigrate     *)
(* creates a missing table with its foreign keys, and adds those that an   *)
(* existing table lacks, which PostgreSQL refuses while rows refer to      *)
(* nothing.  Columns and indexes are left out.                             *)
(*                                                                         *)
(* A component of Service.tla, which has the rest of main.                 *)
(***************************************************************************)
EXTENDS Naturals, Sequences

CONSTANTS
    Tables,        \* the models, in the order of both loops
    References,    \* foreign keys: <<table, the table it refers to>>
    WebsitesTable,
    Sites,         \* websites, by name
    EnvSites       \* the entries of TRUSTPILOT_URL, in order

TableSet == {Tables[i] : i \in 1..Len(Tables)}

ASSUME StartupAssumption ==
    /\ Tables \in Seq(TableSet)
    /\ \A i, k \in 1..Len(Tables) : Tables[i] = Tables[k] => i = k
    /\ References \subseteq TableSet \X TableSet
    /\ WebsitesTable \in TableSet
    /\ \A table \in TableSet : <<WebsitesTable, table>> \notin References
    /\ EnvSites \in Seq(Sites)

VARIABLES
    at,          \* how far main is; "down" while no process runs
    next,        \* the position in the loop it is in
    exists,      \* the tables in the database
    fks,         \* the foreign keys in the database
    filled,      \* tables with rows, websites aside
    site,        \* websites: no row, as TRUSTPILOT_URL lists it, or edited
    cut,         \* history: a drop of all tables ended half-way, and no
                 \* other one was completed since
    failed       \* history: the last start ended in AutoMigrate's error

dbVars == <<exists, fks, filled, site>>
startupVars == <<at, next, dbVars, cut, failed>>

ForeignKeys(t) == {fk \in References : fk[1] = t}
Touching(t) == {fk \in References : fk[1] = t \/ fk[2] = t}

HasRows(t) == IF t = WebsitesTable THEN \E s \in Sites : site[s] # "none"
                                   ELSE t \in filled

StartupInit ==
    /\ at = "down"
    /\ next = 1
    /\ exists = {} /\ fks = {} /\ filled = {}
    /\ site = [s \in Sites |-> "none"]
    /\ cut = FALSE
    /\ failed = FALSE

-----------------------------------------------------------------------------
(* Configuration and connection are there; otherwise main exits, which is   *)
(* no step.                                                                 *)
Boot(drop) ==
    /\ at = "down"
    /\ at' = IF drop THEN "dropping" ELSE "migrating"
    /\ next' = 1
    /\ failed' = FALSE
    /\ UNCHANGED <<dbVars, cut>>

DropTable ==
    LET t == Tables[next] IN
    /\ at = "dropping"
    /\ next <= Len(Tables)
    /\ exists' = exists \ {t}
    /\ fks' = fks \ Touching(t)
    /\ filled' = filled \ {t}
    /\ site' = IF t = WebsitesTable THEN [s \in Sites |-> "none"] ELSE site
    /\ next' = next + 1
    /\ UNCHANGED <<at, cut, failed>>

(* Mutant: the loop leaves the last table out. *)
DropsDoneEarly ==
    /\ at = "dropping"
    /\ next = Len(Tables)
    /\ at' = "migrating"
    /\ next' = 1
    /\ cut' = FALSE
    /\ UNCHANGED <<dbVars, failed>>

DropsDone ==
    /\ at = "dropping"
    /\ next = Len(Tables) + 1
    /\ at' = "migrating"
    /\ next' = 1
    /\ cut' = FALSE
    /\ UNCHANGED <<dbVars, failed>>

(* Rows whose foreign key is gone lost what they refer to: the key went     *)
(* with the other table.                                                    *)
Orphaned(t) == HasRows(t) /\ ForeignKeys(t) \ fks # {}

(* Mutant: a table that exists is left as it is. *)
MigrateNewTableOnly ==
    LET t == Tables[next] IN
    /\ at = "migrating"
    /\ next <= Len(Tables)
    /\ exists' = exists \union {t}
    /\ fks' = IF t \in exists THEN fks ELSE fks \union ForeignKeys(t)
    /\ next' = next + 1
    /\ UNCHANGED <<at, filled, site, cut, failed>>

(* Mutant: a relation is declared at its other end, so that the constraint  *)
(* is made on the table that is referred to.                                *)
MigrateTableReversed ==
    LET t == Tables[next] IN
    /\ at = "migrating"
    /\ next <= Len(Tables)
    /\ ~Orphaned(t)
    /\ exists' = exists \union {t}
    /\ fks' = fks \union {<<fk[2], fk[1]>> : fk \in ForeignKeys(t)}
    /\ next' = next + 1
    /\ UNCHANGED <<at, filled, site, cut, failed>>

MigrateTable ==
    LET t == Tables[next] IN
    /\ at = "migrating"
    /\ next <= Len(Tables)
    /\ ~Orphaned(t)
    /\ exists' = exists \union {t}
    /\ fks' = fks \union ForeignKeys(t)
    /\ next' = next + 1
    /\ UNCHANGED <<at, filled, site, cut, failed>>

(* AutoMigrate returns its error, main exits. *)
MigrateTableFails ==
    /\ at = "migrating"
    /\ next <= Len(Tables)
    /\ Orphaned(Tables[next])
    /\ at' = "down"
    /\ next' = 1
    /\ failed' = TRUE
    /\ UNCHANGED <<dbVars, cut>>

MigrationDone ==
    /\ at = "migrating"
    /\ next = Len(Tables) + 1
    /\ at' = "initializing"
    /\ next' = 1
    /\ UNCHANGED <<dbVars, cut, failed>>

-----------------------------------------------------------------------------
(* An entry of TRUSTPILOT_URL: a website with its name or base URL stays as *)
(* it is.  An entry that makes no sense, and a statement that fails, are    *)
(* only logged.                                                             *)
InitializeSite ==
    LET s == EnvSites[next] IN
    /\ at = "initializing"
    /\ next <= Len(EnvSites)
    /\ \/ site' = [site EXCEPT ![s] = IF @ = "none" THEN "listed" ELSE @]
       \/ UNCHANGED site
    /\ next' = next + 1
    /\ UNCHANGED <<at, exists, fks, filled, cut, failed>>

SitesDone ==
    /\ at = "initializing"
    /\ next = Len(EnvSites) + 1
    /\ at' = "ready"
    /\ next' = 1
    /\ UNCHANGED <<dbVars, cut, failed>>

-----------------------------------------------------------------------------
(* What the service adds to the database while it runs: rows of a table     *)
(* whose foreign keys find what they refer to; websites that the API        *)
(* creates, updates and, if no row refers to them, deletes.                 *)
FillTable(t) ==
    /\ t # WebsitesTable
    /\ \A fk \in ForeignKeys(t) : HasRows(fk[2])
    /\ filled' = filled \union {t}
    /\ UNCHANGED <<at, next, exists, fks, site, cut, failed>>

EditSite(s) ==
    /\ site' = [site EXCEPT ![s] = "edited"]
    /\ UNCHANGED <<at, next, exists, fks, filled, cut, failed>>

DeleteSite(s) ==
    /\ \/ \E other \in Sites \ {s} : site[other] # "none"
       \/ \A fk \in References : fk[2] = WebsitesTable => fk[1] \notin filled
    /\ site' = [site EXCEPT ![s] = "none"]
    /\ UNCHANGED <<at, next, exists, fks, filled, cut, failed>>

(* The process ends, by a signal or because a statement of the loops fails. *)
ProcessEnds ==
    /\ at' = "down"
    /\ next' = 1
    /\ cut' = (cut \/ (at = "dropping" /\ next > 1))
    /\ UNCHANGED <<dbVars, failed>>

StartupStep ==
    \/ DropTable \/ DropsDone
    \/ MigrateTable \/ MigrateTableFails \/ MigrationDone
    \/ InitializeSite \/ SitesDone

-----------------------------------------------------------------------------
(* A start that gets past the migration finds the whole schema, whatever    *)
(* earlier starts left behind: every table, and every foreign key, on which *)
(* the handlers rely to refuse deletes (website.go) and orphans.            *)
ServesCompleteSchema ==
    at \notin {"down", "dropping", "migrating"} =>
        exists = TableSet /\ fks = References

(* AutoMigrate refuses to start the service for one reason only: a drop of  *)
(* all tables ended half-way before, and kept rows of a table while what    *)
(* they refer to was dropped.  Only a start that drops again helps then.    *)
MigrationFailsForAReason == failed => cut
=============================================================================
