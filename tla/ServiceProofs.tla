---------------------------- MODULE ServiceProofs ---------------------------
(***************************************************************************)
(* Proofs about Startup and Service: what a start finds and leaves in the  *)
(* database, and what the order of the stops guarantees, for any tables,   *)
(* foreign keys, websites and jobs.                                        *)
(***************************************************************************)
EXTENDS Service, TLAPS

USE StartupAssumption, ServiceAssumption

(* How far the loop main is in can come. *)
Limit(where) ==
    IF where = "initializing" THEN Len(EnvSites)
    ELSE IF where \in {"dropping", "migrating"} THEN Len(Tables) ELSE 0

(* The part of the types that the startup is about. *)
DbType ==
    /\ at \in Phases
    /\ next \in 1..(1 + Limit(at))
    /\ exists \subseteq TableSet
    /\ fks \subseteq References
    /\ filled \subseteq TableSet
    /\ site \in [Sites -> {"none", "listed", "edited"}]
    /\ cut \in BOOLEAN /\ failed \in BOOLEAN

NoOrphan == \A t \in TableSet : HasRows(t) => ForeignKeys(t) \subseteq fks

(* The loops so far: tables migrated are complete, tables dropped are       *)
(* empty; and no row has lost its parent, unless a drop was begun.          *)
SchemaInv ==
    /\ at = "migrating" =>
          \A i \in 1..(next - 1) : /\ Tables[i] \in exists
                                   /\ ForeignKeys(Tables[i]) \subseteq fks
    /\ at = "dropping" => \A i \in 1..(next - 1) : ~HasRows(Tables[i])
    /\ ~cut /\ (at = "dropping" => next = 1) => NoOrphan
    /\ at # "down" => ~failed
    /\ ServesCompleteSchema
    /\ MigrationFailsForAReason

DbInv == DbType /\ SchemaInv

Lengths == Len(Tables) \in Nat /\ Len(EnvSites) \in Nat

LEMMA LengthsAreNumbers == Lengths
BY DEF StartupAssumption, Lengths

LEMMA LimitIsNumber == \A where : Limit(where) \in Nat /\ 1 \in 1..(1 + Limit(where))
<1> TAKE where
<1>1. Limit(where) \in Nat
    BY LengthsAreNumbers DEF Lengths, Limit
<1>2. QED
    BY <1>1

-----------------------------------------------------------------------------
(* The actions of Startup.                                                  *)
LEMMA InitDb == StartupInit => DbInv
<1> SUFFICES ASSUME StartupInit PROVE DbInv
    OBVIOUS
<1>1. DbType
    BY LimitIsNumber DEF StartupInit, DbType, Phases
<1>2. NoOrphan
    BY DEF StartupInit, NoOrphan, HasRows
<1>3. SchemaInv
    BY <1>2 DEF StartupInit, SchemaInv, ServesCompleteSchema,
                MigrationFailsForAReason
<1>4. QED
    BY <1>1, <1>3 DEF DbInv

LEMMA BootKeeps == ASSUME DbInv, NEW drop \in BOOLEAN, Boot(drop) PROVE DbInv'
<1> USE LengthsAreNumbers, LimitIsNumber DEF Lengths
<1>1. DbType'
    BY DEF DbInv, Boot, dbVars, DbType, Phases
<1>2. SchemaInv'
    BY DEF DbInv, Boot, dbVars, DbType, SchemaInv, NoOrphan, HasRows,
           ServesCompleteSchema, MigrationFailsForAReason
<1>3. QED
    BY <1>1, <1>2 DEF DbInv

LEMMA DropTableKeeps == ASSUME DbInv, DropTable PROVE DbInv'
<1> USE LengthsAreNumbers, LimitIsNumber DEF Lengths
<1>1. next \in 1..Len(Tables) /\ at = "dropping" /\ at' = at /\ next' = next + 1
    BY DEF DbInv, DbType, DropTable, Limit
<1>2. PICK t \in TableSet : t = Tables[next]
    BY <1>1 DEF TableSet
<1>3. /\ exists' = exists \ {t} /\ fks' = fks \ Touching(t)
      /\ filled' = filled \ {t} /\ UNCHANGED <<cut, failed>>
      /\ site' = IF t = WebsitesTable THEN [s \in Sites |-> "none"] ELSE site
    BY <1>2 DEF DropTable
<1>4. site' \in [Sites -> {"none", "listed", "edited"}]
    BY <1>3 DEF DbInv, DbType
<1>5. next' \in 1..(1 + Limit(at'))
    BY <1>1 DEF Limit
<1>6. DbType'
    BY <1>1, <1>3, <1>4, <1>5 DEF DbInv, DbType
<1>7. ~HasRows(t)'
    BY <1>3 DEF HasRows
<1>8. ASSUME NEW s \in TableSet, ~HasRows(s) PROVE ~HasRows(s)'
    BY <1>3, <1>8 DEF HasRows
<1>9. \A i \in 1..(next' - 1) : ~HasRows(Tables[i])'
  <2> TAKE i \in 1..(next' - 1)
  <2>1. CASE i = next
      BY <2>1, <1>2, <1>7
  <2>2. CASE i # next
    <3>1. i \in 1..(next - 1) /\ i \in 1..Len(Tables)
        BY <2>2, <1>1
    <3>2. Tables[i] \in TableSet /\ ~HasRows(Tables[i])
        BY <3>1, <1>1 DEF DbInv, SchemaInv, TableSet
    <3>3. QED
        BY <3>2, <1>8
  <2>3. QED
      BY <2>1, <2>2
<1>10. SchemaInv'
    BY <1>1, <1>3, <1>9 DEF DbInv, SchemaInv, ServesCompleteSchema,
                            MigrationFailsForAReason
<1>11. QED
    BY <1>6, <1>10 DEF DbInv

LEMMA DropsDoneKeeps == ASSUME DbInv, DropsDone PROVE DbInv'
<1> USE LengthsAreNumbers, LimitIsNumber DEF Lengths
<1>1. DbType'
    BY DEF DbInv, DropsDone, dbVars, DbType, Phases
<1>2. NoOrphan'
  <2>1. \A i \in 1..Len(Tables) : ~HasRows(Tables[i])
      BY DEF DbInv, DropsDone, SchemaInv
  <2>2. QED
      BY <2>1 DEF NoOrphan, HasRows, TableSet, DropsDone, dbVars
<1>3. SchemaInv'
    BY <1>2 DEF DbInv, DropsDone, dbVars, SchemaInv, ServesCompleteSchema,
                MigrationFailsForAReason
<1>4. QED
    BY <1>1, <1>3 DEF DbInv

LEMMA MigrateTableKeeps == ASSUME DbInv, MigrateTable PROVE DbInv'
<1> USE LengthsAreNumbers, LimitIsNumber DEF Lengths
<1>1. next \in 1..Len(Tables) /\ at = "migrating" /\ at' = at /\ next' = next + 1
    BY DEF DbInv, DbType, MigrateTable, Limit
<1>2. PICK t \in TableSet : t = Tables[next]
    BY <1>1 DEF TableSet
<1>3. /\ exists' = exists \union {t} /\ fks' = fks \union ForeignKeys(t)
      /\ UNCHANGED <<filled, site, cut, failed>>
    BY <1>2 DEF MigrateTable
<1>4. exists' \subseteq TableSet /\ fks' \subseteq References
    BY <1>3 DEF DbInv, DbType, ForeignKeys
<1>5. next' \in 1..(1 + Limit(at'))
    BY <1>1 DEF Limit
<1>6. DbType'
    BY <1>1, <1>3, <1>4, <1>5 DEF DbInv, DbType
<1>7. \A i \in 1..(next' - 1) : /\ Tables[i] \in exists'
                                /\ ForeignKeys(Tables[i]) \subseteq fks'
  <2> TAKE i \in 1..(next' - 1)
  <2>1. CASE i = next
      BY <2>1, <1>2, <1>3
  <2>2. CASE i # next
    <3>1. i \in 1..(next - 1)
        BY <2>2, <1>1
    <3>2. Tables[i] \in exists /\ ForeignKeys(Tables[i]) \subseteq fks
        BY <3>1, <1>1 DEF DbInv, SchemaInv
    <3>3. QED
        BY <3>2, <1>3
  <2>3. QED
      BY <2>1, <2>2
<1>8. NoOrphan => NoOrphan'
    BY <1>3 DEF NoOrphan, HasRows
<1>9. SchemaInv'
    BY <1>1, <1>3, <1>7, <1>8 DEF DbInv, SchemaInv, ServesCompleteSchema,
                                  MigrationFailsForAReason
<1>10. QED
    BY <1>6, <1>9 DEF DbInv

LEMMA MigrateTableFailsKeeps == ASSUME DbInv, MigrateTableFails PROVE DbInv'
<1> USE LengthsAreNumbers, LimitIsNumber DEF Lengths
<1>1. next \in 1..Len(Tables) /\ at = "migrating"
    BY DEF DbInv, DbType, MigrateTableFails, Limit
<1>2. DbType'
    BY <1>1 DEF DbInv, MigrateTableFails, dbVars, DbType, Phases
<1>3. cut
  <2>1. Tables[next] \in TableSet /\ Orphaned(Tables[next])
      BY <1>1 DEF MigrateTableFails, TableSet
  <2>2. ~NoOrphan
      BY <2>1 DEF NoOrphan, Orphaned
  <2>3. QED
      BY <2>2, <1>1 DEF DbInv, SchemaInv, DbType
<1>4. SchemaInv'
    BY <1>3 DEF MigrateTableFails, dbVars, SchemaInv, ServesCompleteSchema,
                MigrationFailsForAReason
<1>5. QED
    BY <1>2, <1>4 DEF DbInv

LEMMA MigrationDoneKeeps == ASSUME DbInv, MigrationDone PROVE DbInv'
<1> USE LengthsAreNumbers, LimitIsNumber DEF Lengths
<1>1. DbType'
    BY DEF DbInv, MigrationDone, dbVars, DbType, Phases
<1>2. \A t \in TableSet : t \in exists /\ ForeignKeys(t) \subseteq fks
    BY DEF DbInv, MigrationDone, SchemaInv, TableSet
<1>3. exists = TableSet /\ fks = References
  <2>1. \A fk \in References : fk[1] \in TableSet
      BY DEF StartupAssumption
  <2>2. References \subseteq fks
      BY <1>2, <2>1 DEF ForeignKeys
  <2>3. QED
      BY <1>2, <2>2 DEF DbInv, DbType
<1>4. SchemaInv'
    BY <1>3 DEF DbInv, MigrationDone, dbVars, SchemaInv, NoOrphan, HasRows,
                ServesCompleteSchema, MigrationFailsForAReason
<1>5. QED
    BY <1>1, <1>4 DEF DbInv

(* What adds rows does so on the complete schema, and websites refer to     *)
(* nothing.                                                                 *)
LEMMA CompleteSchemaKeeps ==
    ASSUME DbInv, at \notin {"down", "dropping", "migrating"},
           at' \notin {"down", "dropping", "migrating"},
           UNCHANGED <<exists, fks, cut, failed>>, DbType'
    PROVE  DbInv'
<1>1. fks' = References
    BY DEF DbInv, SchemaInv, ServesCompleteSchema
<1>2. NoOrphan'
    BY <1>1 DEF NoOrphan, ForeignKeys
<1>3. QED
    BY <1>2 DEF DbInv, SchemaInv, ServesCompleteSchema, MigrationFailsForAReason

LEMMA SitesKeep == ASSUME DbInv, InitializeSite \/ SitesDone PROVE DbInv'
<1> USE LengthsAreNumbers, LimitIsNumber DEF Lengths
<1>1. CASE InitializeSite
  <2>1. next \in 1..Len(EnvSites) /\ at = "initializing" /\ at' = at
      BY <1>1 DEF DbInv, DbType, InitializeSite, Limit
  <2>2. EnvSites[next] \in Sites
      BY <2>1 DEF StartupAssumption
  <2>3. site' \in [Sites -> {"none", "listed", "edited"}]
      BY <1>1, <2>2 DEF DbInv, DbType, InitializeSite
  <2>4. DbType'
      BY <1>1, <2>1, <2>3 DEF DbInv, DbType, InitializeSite, Phases, Limit
  <2>5. QED
      BY <1>1, <2>1, <2>4, CompleteSchemaKeeps DEF InitializeSite
<1>2. CASE SitesDone
  <2>1. DbType'
      BY <1>2 DEF DbInv, DbType, SitesDone, dbVars, Phases
  <2>2. QED
      BY <1>2, <2>1, CompleteSchemaKeeps DEF SitesDone, dbVars
<1>3. QED
    BY <1>1, <1>2

LEMMA StartupStepKeeps == ASSUME DbInv, StartupStep PROVE DbInv'
BY DropTableKeeps, DropsDoneKeeps, MigrateTableKeeps, MigrateTableFailsKeeps,
   MigrationDoneKeeps, SitesKeep DEF StartupStep

LEMMA DataKeep ==
    ASSUME DbInv, at = "serving",
           \/ \E t \in TableSet : FillTable(t)
           \/ \E s \in Sites : EditSite(s) \/ DeleteSite(s)
    PROVE  DbInv'
<1> USE LengthsAreNumbers, LimitIsNumber DEF Lengths
<1>1. UNCHANGED <<at, next, exists, fks, cut, failed>>
    BY DEF FillTable, EditSite, DeleteSite
<1>2. filled' \subseteq TableSet /\ site' \in [Sites -> {"none", "listed", "edited"}]
    BY DEF DbInv, DbType, FillTable, EditSite, DeleteSite
<1>3. DbType'
    BY <1>1, <1>2 DEF DbInv, DbType
<1>4. QED
    BY <1>1, <1>3, CompleteSchemaKeeps

LEMMA ProcessEndsKeeps == ASSUME DbInv, ProcessEnds PROVE DbInv'
<1> USE LengthsAreNumbers, LimitIsNumber DEF Lengths
<1>1. DbType'
    BY DEF DbInv, ProcessEnds, dbVars, DbType, Phases
<1>2. ~cut' => NoOrphan
  <2>1. next \in Nat \ {0}
      BY DEF DbInv, DbType
  <2>2. (at = "dropping" => ~(next > 1)) => (at = "dropping" => next = 1)
      BY <2>1
  <2>3. ~cut /\ (at = "dropping" => next = 1) => NoOrphan
      BY DEF DbInv, SchemaInv
  <2>4. cut' = (cut \/ (at = "dropping" /\ next > 1))
      BY DEF ProcessEnds
  <2>5. QED
      BY <2>2, <2>3, <2>4
<1>3. NoOrphan => NoOrphan'
    BY DEF NoOrphan, HasRows, ProcessEnds, dbVars
<1>4. SchemaInv'
    BY <1>2, <1>3 DEF DbInv, ProcessEnds, dbVars, SchemaInv,
                      ServesCompleteSchema, MigrationFailsForAReason
<1>5. QED
    BY <1>1, <1>4 DEF DbInv

-----------------------------------------------------------------------------
(* The rest of main leaves the loops' state alone.                          *)
Preparing == {"down", "dropping", "migrating", "initializing"}

LEMMA GotoKeeps ==
    ASSUME DbInv, NEW from \in Phases \ Preparing, NEW to \in Phases \ Preparing,
           Goto(from, to)
    PROVE  DbInv'
<1> USE LengthsAreNumbers, LimitIsNumber DEF Lengths
<1>1. next = 1
    BY DEF DbInv, DbType, Goto, Limit, Preparing
<1>2. DbType'
    BY <1>1 DEF DbInv, DbType, Goto, dbVars
<1>3. QED
    BY <1>2, CompleteSchemaKeeps DEF Goto, dbVars, Preparing

LEMMA StutterKeeps == ASSUME DbInv, UNCHANGED startupVars PROVE DbInv'
BY DEF startupVars, dbVars, DbInv, DbType, SchemaInv, NoOrphan, HasRows, Limit,
       ServesCompleteSchema, MigrationFailsForAReason

LEMMA ShutdownStepKeeps == ASSUME DbInv, ShutdownStep PROVE DbInv'
<1>1. ASSUME EndServing PROVE DbInv'
    BY <1>1, GotoKeeps DEF EndServing, Phases, Preparing
<1>2. ASSUME ShutdownApi PROVE DbInv'
    BY <1>2, GotoKeeps DEF ShutdownApi, Phases, Preparing
<1>3. ASSUME ApiDown PROVE DbInv'
    BY <1>3, GotoKeeps DEF ApiDown, Phases, Preparing
<1>4. ASSUME StopCron PROVE DbInv'
    BY <1>4, GotoKeeps DEF StopCron, Phases, Preparing
<1>5. ASSUME CronStopped PROVE DbInv'
    BY <1>5, GotoKeeps DEF CronStopped, Phases, Preparing
<1>6. ASSUME NEW p \in Pools, NEW begin \in Phases \ Preparing,
             NEW wait \in Phases \ Preparing, NEW end \in Phases \ Preparing,
             PoolStep(p, begin, wait, end)
      PROVE  DbInv'
    BY <1>6, GotoKeeps DEF PoolStep, StopPool, PoolDrained, PoolTimesOut
<1>7. ASSUME PoolStep("scrape", "stoppingScrape", "waitingScrape", "stoppingNotif")
      PROVE  DbInv'
    BY <1>6, <1>7 DEF Pools, Phases, Preparing
<1>8. ASSUME PoolStep("notification", "stoppingNotif", "waitingNotif", "closingQueue")
      PROVE  DbInv'
    BY <1>6, <1>8 DEF Pools, Phases, Preparing
<1>9. ASSUME CloseQueue PROVE DbInv'
    BY <1>9, GotoKeeps DEF CloseQueue, Phases, Preparing
<1>10. ASSUME Exit PROVE DbInv'
    BY <1>10, ProcessEndsKeeps DEF Exit, Vanish
<1>11. QED
    BY <1>1, <1>2, <1>3, <1>4, <1>5, <1>7, <1>8, <1>9, <1>10 DEF ShutdownStep

LEMMA DbStep == ASSUME DbInv, [Next]_vars PROVE DbInv'
<1>1. ASSUME NEW drop \in BOOLEAN, NEW api \in BOOLEAN, Start(drop, api)
      PROVE  DbInv'
    BY <1>1, BootKeeps DEF Start
<1>2. ASSUME PrepareDatabase PROVE DbInv'
    BY <1>2, StartupStepKeeps DEF PrepareDatabase
<1>3. ASSUME StartPools PROVE DbInv'
    BY <1>3, GotoKeeps DEF StartPools, Phases, Preparing
<1>4. ASSUME StartScheduler PROVE DbInv'
    BY <1>4, GotoKeeps DEF StartScheduler, Phases, Preparing
<1>5. ASSUME StartApi PROVE DbInv'
    BY <1>5, GotoKeeps DEF StartApi, Phases, Preparing
<1>6. ASSUME ChangeData PROVE DbInv'
    BY <1>6, DataKeep DEF ChangeData
<1>7. ASSUME Crash PROVE DbInv'
    BY <1>7, ProcessEndsKeeps DEF Crash, Vanish
<1>8. ASSUME NEW j \in Jobs, JobStep(j) PROVE DbInv'
    BY <1>8, StutterKeeps DEF JobStep, ApiRequest, CronFires, CallEnqueue, Take,
                              EndRun
<1>9. ASSUME NEW i \in Starts, Bind(i) PROVE DbInv'
    BY <1>9, StutterKeeps DEF Bind
<1>10. ASSUME Signal \/ OtherRequest \/ AnswerOther PROVE DbInv'
    BY <1>10, StutterKeeps DEF Signal, OtherRequest, AnswerOther
<1>11. ASSUME UNCHANGED vars PROVE DbInv'
    BY <1>11, StutterKeeps DEF vars
<1>12. QED
    BY <1>1, <1>2, <1>3, <1>4, <1>5, <1>6, <1>7, <1>8, <1>9, <1>10, <1>11,
       ShutdownStepKeeps DEF Next, MainStep

THEOREM DbHolds == Spec => []DbInv
<1>1. Init => DbInv
    BY InitDb DEF Init
<1>2. DbInv /\ [Next]_vars => DbInv'
    BY DbStep
<1>3. QED
    BY <1>1, <1>2, PTL DEF Spec

(* Past the migration the whole schema is there: the tables done so far are *)
(* complete, and the loops visit every table (main.go:65-84, init.go).      *)
THEOREM SchemaIsComplete == Spec => []ServesCompleteSchema
<1>1. DbInv => ServesCompleteSchema
    BY DEF DbInv, SchemaInv
<1>2. QED
    BY <1>1, DbHolds, PTL

(* A migration that fails has met rows whose parent is gone, and only a     *)
(* drop that was cut short leaves such rows (init.go:41).                   *)
THEOREM FailedMigrations == Spec => []MigrationFailsForAReason
<1>1. DbInv => MigrationFailsForAReason
    BY DEF DbInv, SchemaInv
<1>2. QED
    BY <1>1, DbHolds, PTL

-----------------------------------------------------------------------------
(* The process and its jobs.                                                *)
ProcType ==
    /\ at \in Phases
    /\ apiEnabled \in BOOLEAN /\ signalled \in BOOLEAN /\ cron \in BOOLEAN
    /\ listener \in [Starts -> {"off", "starting", "listening", "failed",
                                "closed"}]
    /\ pool \in [Pools -> {"off", "on", "stopping", "drained", "abandoned"}]
    /\ job \in [Jobs -> InMemory \union {"new", "refused", "done", "lost"}]
    /\ via \in [Jobs -> Starts \union {0}]
    /\ open \in BOOLEAN
    /\ acceptedLate \subseteq Jobs
    /\ stuck \subseteq ScrapeJobs /\ unsaved \subseteq ScrapeJobs
    /\ cutShort \in BOOLEAN

(* main's phases, by what is guaranteed in them. *)
Unstarted == Preparing \union {"ready"}
Consuming == {"starting", "startingApi", "serving", "stoppingApi", "draining",
              "stoppingCron", "waitingCron", "stoppingScrape"}
ScrapeStopped == {"stoppingNotif", "waitingNotif", "closingQueue", "closed"}
CronGone == {"stoppingScrape", "waitingScrape"} \union ScrapeStopped
CronOff == {"waitingCron"} \union CronGone
ApiGone == {"stoppingCron"} \union CronOff

(* Nothing of a process is there before the pools start. *)
EmptyProcess ==
    at \in Unstarted =>
        /\ pool = NoPool /\ listener = NoListener /\ ~cron
        /\ acceptedLate = {}
        /\ \A j \in Jobs : job[j] \notin InMemory

(* The scrape pool's Stop came to an end: no scrape runs, or it timed out.  *)
ScrapesEnded ==
    /\ pool["scrape"] = "abandoned" => cutShort
    /\ pool["scrape"] = "drained" => \A j \in ScrapeJobs : job[j] # "running"
    /\ at \in ScrapeStopped => pool["scrape"] \in {"drained", "abandoned"}

(* Behind Shutdown, only a listener that came late leads to the queue, and  *)
(* behind cron's Stop nothing else does.                                    *)
LateOnly ==
    /\ at \in Consuming => acceptedLate = {} /\ \A p \in Pools : pool[p] = "on"
    /\ at \in CronOff => ~cron
    /\ at \in CronGone => \A j \in Jobs : job[j] # "fired"
    /\ at \in ApiGone => \A j \in Jobs : job[j] = "requested" =>
                            via[j] \in Starts /\ listener[via[j]] = "listening"
    /\ \A j \in acceptedLate : job[j] # "new"

ProcInv ==
    /\ ProcType /\ EmptyProcess /\ ScrapesEnded /\ LateOnly
    /\ StuckForAReason /\ AcceptedWhileWorked

LEMMA InitProc == Init => ProcInv
<1> SUFFICES ASSUME Init PROVE ProcInv
    OBVIOUS
<1>1. ProcType
    BY DEF Init, StartupInit, ProcType, Phases, NoListener, NoPool
<1>2. at = "down" /\ pool["scrape"] = "off" /\ acceptedLate = {} /\ stuck = {}
      /\ \A k \in Jobs : job[k] = "new"
    BY DEF Init, StartupInit, NoPool, Pools
<1>3. EmptyProcess
    BY <1>2 DEF Init, EmptyProcess, InMemory
<1>4. ScrapesEnded /\ LateOnly
    BY <1>2, ServiceAssumption DEF ScrapesEnded, LateOnly, Consuming, ScrapeStopped,
                                   CronGone, CronOff, ApiGone
<1>5. QED
    BY <1>1, <1>2, <1>3, <1>4 DEF ProcInv, StuckForAReason, AcceptedWhileWorked

LEMMA StartKeepsProc ==
    ASSUME ProcInv, NEW drop \in BOOLEAN, NEW api \in BOOLEAN, Start(drop, api)
    PROVE  ProcInv'
<1>1. at = "down" /\ at' \in {"dropping", "migrating"} /\ apiEnabled' \in BOOLEAN
    BY DEF Start, Boot
<1>2. /\ job' = [j \in Jobs |-> "new"] /\ via' = [j \in Jobs |-> 0]
      /\ stuck' = {} /\ unsaved' = {} /\ cutShort' = FALSE
      /\ UNCHANGED <<signalled, listener, cron, pool, open, acceptedLate>>
    BY DEF Start
<1>3. pool = NoPool /\ listener = NoListener /\ ~cron /\ acceptedLate = {}
    BY <1>1 DEF ProcInv, EmptyProcess, Unstarted, Preparing
<1>4. ProcType'
    BY <1>1, <1>2 DEF ProcInv, ProcType, Phases
<1>5. QED
    BY <1>1, <1>2, <1>3, <1>4
    DEF ProcInv, EmptyProcess, ScrapesEnded, LateOnly, StuckForAReason,
        AcceptedWhileWorked, Pools, NoPool, InMemory, Unstarted, Preparing,
        Consuming, ScrapeStopped, CronGone, CronOff, ApiGone, ServiceAssumption

LEMMA PrepareKeepsProc == ASSUME ProcInv, PrepareDatabase PROVE ProcInv'
<1>1. at \in Preparing /\ at' \in Unstarted
    BY DEF PrepareDatabase, StartupStep, DropTable, DropsDone, MigrateTable,
           MigrateTableFails, MigrationDone, InitializeSite, SitesDone, Preparing,
           Unstarted
<1>2. /\ UNCHANGED <<jobVars, recordVars, signalled, listener, cron, pool>>
      /\ apiEnabled' \in BOOLEAN
    BY DEF PrepareDatabase, processVars, ProcInv, ProcType
<1>3. QED
    BY <1>1, <1>2 DEF jobVars, recordVars, ProcInv, ProcType, EmptyProcess, ScrapesEnded,
       LateOnly, StuckForAReason, AcceptedWhileWorked, Phases, NoListener, NoPool,
       Unstarted, Preparing, Consuming, ScrapeStopped, CronGone, CronOff, ApiGone

LEMMA StartServicesKeepsProc ==
    ASSUME ProcInv, StartPools \/ StartScheduler \/ StartApi PROVE ProcInv'
<1> USE DEF Goto, ProcInv, ProcType, EmptyProcess, ScrapesEnded, LateOnly,
       StuckForAReason, AcceptedWhileWorked, Phases, NoListener, NoPool, Starts,
       Pools, InMemory, jobVars, recordVars,
       Unstarted, Preparing, Consuming, ScrapeStopped, CronGone, CronOff, ApiGone
<1>1. CASE StartPools
    BY <1>1 DEF StartPools
<1>2. CASE StartScheduler
    BY <1>2 DEF StartScheduler
<1>3. CASE StartApi
    BY <1>3 DEF StartApi, GoStart
<1>4. QED
    BY <1>1, <1>2, <1>3

(* Steps that leave main where it is. *)
LEMMA JobStepKeepsProc == ASSUME ProcInv, NEW j \in Jobs, JobStep(j) PROVE ProcInv'
<1> USE DEF ProcInv, ProcType, EmptyProcess, ScrapesEnded, LateOnly,
       StuckForAReason, AcceptedWhileWorked, Phases, NoListener, NoPool, Starts,
       Pools, InMemory, PoolOf, startupVars, processVars, recordVars,
       Unstarted, Preparing, Consuming, ScrapeStopped, CronGone, CronOff, ApiGone
<1>1. ASSUME NEW i \in Starts, ApiRequest(i, j) PROVE ProcInv'
    BY <1>1 DEF ApiRequest
<1>2. CASE CronFires(j)
    BY <1>2 DEF CronFires
<1>3. CASE CallEnqueue(j)
    BY <1>3 DEF CallEnqueue
<1>4. CASE Take(j)
    BY <1>4 DEF Take
<1>5. CASE EndRun(j)
    BY <1>5 DEF EndRun
<1>6. QED
    BY <1>1, <1>2, <1>3, <1>4, <1>5 DEF JobStep

LEMMA OtherStepKeepsProc ==
    ASSUME ProcInv,
           \/ \E i \in Starts : Bind(i)
           \/ Signal \/ ChangeData \/ OtherRequest \/ AnswerOther
           \/ UNCHANGED vars
    PROVE  ProcInv'
<1> USE DEF ProcInv, ProcType, EmptyProcess, ScrapesEnded, LateOnly,
       StuckForAReason, AcceptedWhileWorked, Starts, Pools, NoListener, NoPool,
       InMemory, startupVars, processVars, jobVars, recordVars,
       Unstarted, Preparing, Consuming, ScrapeStopped, CronGone, CronOff, ApiGone
<1>1. ASSUME NEW i \in Starts, Bind(i) PROVE ProcInv'
    BY <1>1 DEF Bind
<1>2. CASE Signal
    BY <1>2 DEF Signal
<1>3. CASE ChangeData
    BY <1>3 DEF ChangeData, FillTable, EditSite, DeleteSite
<1>4. CASE OtherRequest
    BY <1>4 DEF OtherRequest
<1>5. CASE AnswerOther
    BY <1>5 DEF AnswerOther
<1>6. CASE UNCHANGED vars
    BY <1>6 DEF vars
<1>7. QED
    BY <1>1, <1>2, <1>3, <1>4, <1>5, <1>6

LEMMA StopApiAndCronKeepsProc ==
    ASSUME ProcInv,
           EndServing \/ ShutdownApi \/ ApiDown \/ StopCron \/ CronStopped
    PROVE  ProcInv'
<1> USE DEF Goto, ProcInv, ProcType, EmptyProcess, ScrapesEnded, LateOnly,
       StuckForAReason, AcceptedWhileWorked, Phases, Starts, Pools, InMemory,
       processVars, jobVars, recordVars,
       Unstarted, Preparing, Consuming, ScrapeStopped, CronGone, CronOff, ApiGone
<1>1. CASE EndServing
    BY <1>1 DEF EndServing, GoStart
<1>2. CASE ShutdownApi
    BY <1>2 DEF ShutdownApi
<1>3. CASE ApiDown
    BY <1>3 DEF ApiDown
<1>4. CASE StopCron
    BY <1>4 DEF StopCron
<1>5. CASE CronStopped
    BY <1>5 DEF CronStopped
<1>6. QED
    BY <1>1, <1>2, <1>3, <1>4, <1>5

LEMMA ScrapePoolKeepsProc ==
    ASSUME ProcInv,
           PoolStep("scrape", "stoppingScrape", "waitingScrape", "stoppingNotif")
    PROVE  ProcInv'
<1> USE DEF Goto, ProcInv, ProcType, EmptyProcess, ScrapesEnded, LateOnly,
       StuckForAReason, AcceptedWhileWorked, Phases, Pools, InMemory, PoolOf, jobVars, recordVars,
       Unstarted, Preparing, Consuming, ScrapeStopped, CronGone, CronOff, ApiGone
<1>1. CASE StopPool("scrape", "stoppingScrape", "waitingScrape")
    BY <1>1 DEF StopPool
<1>2. CASE PoolDrained("scrape", "waitingScrape", "stoppingNotif")
    BY <1>2, ServiceAssumption DEF PoolDrained, Working
<1>3. CASE PoolTimesOut("scrape", "waitingScrape", "stoppingNotif")
    BY <1>3 DEF PoolTimesOut
<1>4. QED
    BY <1>1, <1>2, <1>3 DEF PoolStep

LEMMA NotificationPoolKeepsProc ==
    ASSUME ProcInv,
           \/ PoolStep("notification", "stoppingNotif", "waitingNotif", "closingQueue")
           \/ CloseQueue
    PROVE  ProcInv'
<1> USE DEF Goto, ProcInv, ProcType, EmptyProcess, ScrapesEnded, LateOnly,
       StuckForAReason, AcceptedWhileWorked, Phases, Pools, InMemory, jobVars, recordVars,
       processVars,
       Unstarted, Preparing, Consuming, ScrapeStopped, CronGone, CronOff, ApiGone
<1>1. CASE StopPool("notification", "stoppingNotif", "waitingNotif")
    BY <1>1 DEF StopPool
<1>2. CASE PoolDrained("notification", "waitingNotif", "closingQueue")
    BY <1>2 DEF PoolDrained
<1>3. CASE PoolTimesOut("notification", "waitingNotif", "closingQueue")
    BY <1>3 DEF PoolTimesOut
<1>4. CASE CloseQueue
    BY <1>4 DEF CloseQueue
<1>5. QED
    BY <1>1, <1>2, <1>3, <1>4 DEF PoolStep

(* The process is gone: of its jobs, the scrapes that ran are stuck.        *)
LEMMA EndKeepsProc == ASSUME ProcInv, Exit \/ Crash PROVE ProcInv'
<1>1. /\ at' = "down" /\ ~apiEnabled' /\ ~signalled' /\ ~cron' /\ ~open'
      /\ listener' = NoListener /\ pool' = NoPool /\ acceptedLate' = {}
      /\ job' = Forgotten /\ via' = via /\ cutShort' \in BOOLEAN
      /\ stuck' = stuck \union InProgress /\ unsaved' = unsaved
      /\ apiEnabled' \in BOOLEAN /\ signalled' \in BOOLEAN /\ cron' \in BOOLEAN
      /\ open' \in BOOLEAN
    BY DEF Exit, Crash, Vanish, ProcessEnds, ProcInv, ProcType
<1>2. job' \in [Jobs -> InMemory \union {"new", "refused", "done", "lost"}]
    BY <1>1 DEF Forgotten, InMemory, ProcInv, ProcType
<1>3. \A j \in Jobs : job'[j] \notin InMemory
    BY <1>1 DEF Forgotten, InMemory, ProcInv, ProcType
<1>4. stuck' \subseteq ScrapeJobs
    BY <1>1 DEF InProgress, ProcInv, ProcType
<1>5. StuckForAReason'
  <2>1. CASE Exit
    <3>1. cutShort' = cutShort /\ at = "closed"
        BY <2>1 DEF Exit
    <3>2. InProgress # {} => cutShort
        BY <3>1 DEF InProgress, ProcInv, ScrapesEnded, ScrapeStopped
    <3>3. QED
        BY <1>1, <3>1, <3>2 DEF ProcInv, StuckForAReason
  <2>2. CASE Crash
      BY <2>2 DEF Crash, StuckForAReason
  <2>3. QED
      BY <2>1, <2>2
<1>6. ProcType'
    BY <1>1, <1>2, <1>4 DEF ProcInv, ProcType, Phases, NoListener, NoPool
<1>7. pool'["scrape"] = "off"
    BY <1>1 DEF NoPool, Pools
<1>8. EmptyProcess'
    BY <1>1, <1>3 DEF EmptyProcess
<1>9. ScrapesEnded' /\ LateOnly' /\ AcceptedWhileWorked'
    BY <1>1, <1>7 DEF ScrapesEnded, LateOnly, AcceptedWhileWorked, Consuming,
                      ScrapeStopped, CronGone, CronOff, ApiGone
<1>10. QED
    BY <1>5, <1>6, <1>8, <1>9 DEF ProcInv

THEOREM ProcHolds == Spec => []ProcInv
<1>1. Init => ProcInv
    BY InitProc
<1>2. ProcInv /\ [Next]_vars => ProcInv'
  <2> SUFFICES ASSUME ProcInv, [Next]_vars PROVE ProcInv'
      OBVIOUS
  <2>1. ASSUME ShutdownStep PROVE ProcInv'
      BY <2>1, StopApiAndCronKeepsProc, ScrapePoolKeepsProc,
         NotificationPoolKeepsProc, EndKeepsProc DEF ShutdownStep
  <2>2. ASSUME MainStep PROVE ProcInv'
      BY <2>1, <2>2, PrepareKeepsProc, StartServicesKeepsProc DEF MainStep
  <2>3. QED
      BY <2>2, StartKeepsProc, OtherStepKeepsProc, JobStepKeepsProc, EndKeepsProc
      DEF Next
<1>3. QED
    BY <1>1, <1>2, PTL DEF Spec

(* Every variable keeps its type.                                           *)
THEOREM Types == Spec => []TypeOK
<1>1. DbInv /\ ProcInv => TypeOK
    BY DEF DbInv, DbType, Limit, ProcInv, ProcType, TypeOK
<1>2. QED
    BY <1>1, DbHolds, ProcHolds, PTL

(* The order of the stops (main.go:185-207): API, cron, pools, queue.  Each *)
(* waits for its callers, so only a listener that Shutdown did not see      *)
(* leads to the queue of a pool that is stopped.                            *)
THEOREM LateJobs == Spec => []AcceptedWhileWorked
<1>1. ProcInv => AcceptedWhileWorked
    BY DEF ProcInv
<1>2. QED
    BY <1>1, ProcHolds, PTL

(* A row goes on saying running only if the Save of its end failed          *)
(* (worker.go:161, 287), the process was killed or panicked, or the scrape  *)
(* pool's Stop timed out (pool.go, main.go:191).                            *)
THEOREM StuckRecords == Spec => []StuckForAReason
<1>1. ProcInv => StuckForAReason
    BY DEF ProcInv
<1>2. QED
    BY <1>1, ProcHolds, PTL
=============================================================================
