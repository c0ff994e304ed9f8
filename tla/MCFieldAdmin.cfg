SPECIFICATION MCSpec
CONSTANTS
    Ids = {i1}
    Servers = {s1, m1}
    MongoServers = {m1}
    Tenants = {t0, t1}
    ColumnNames = {k1}
    DataTypes = {int}
    Validators = {v1}
    Registered = {v1}
    Clients = {c1, c2}
    DefaultDB = i1
    DefaultTenant = t0
    Sites <- SomeSites
    Nil = Nil
    NotGiven = NotGiven
    Bodies <- SomeBodies
    MaxQuotes = 2
    MaxUniques = 1
INVARIANTS AuditMatches DefinitionAgrees
PROPERTIES ScanKeepsLoaded CreateOverwriteExplained
SYMMETRY CallerSymmetry
