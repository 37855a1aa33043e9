CONSTANTS
    Tables <- MCTables
    References <- MCReferences
    WebsitesTable = "websites"
    Sites = {"listed.example"}
    EnvSites <- MCEnvSites
    Jobs = {s1, n1}
    ScrapeJobs = {s1}
SPECIFICATION FairSpec
INVARIANTS TypeOK ServesCompleteSchema MigrationFailsForAReason AcceptedWhileWorked StuckForAReason
PROPERTY StopsInTheEnd
