-------------------------- MODULE SchemaMigrations --------------------------
(* The versioned schema of the database: every server runs the pending       *)
(* migrations when it connects, operators run or roll them back with         *)
(* scripts/migrate.ts, and nothing keeps two of them apart.  A migration is  *)
(* one query and its record another.  server/src/migrations/index.ts,        *)
(* server/src/Database.ts, scripts/migrate.ts.                               *)
EXTENDS Integers, Sequences, FiniteSets, SequencesExt

CONSTANTS
    Server,         \* they migrate when they start
    Operator,       \* they run the script
    MaxRuns,        \* bound on the starts and the runs of the script that migrate
    MaxRollbacks,   \* bound on its runs that roll back
    MaxCrashes      \* bound on processes that stop on the way

Process == Server \cup Operator

(* What a migration creates, the tables it alters, which must be there, and  *)
(* those it takes columns from when it is rolled back.                       *)
Migration(adds, alters, columns) == [adds |-> adds, alters |-> alters, columns |-> columns]

InitialSchema == Migration({"schema_migrations", "players", "challenges", "escrow_events"}, {}, {})
PlayerStats == Migration({"players.stats"}, {"players"}, {"players"})
ChallengeIndexes == Migration({"challenges.indexes"}, {"challenges"}, {})
RateLimits == Migration({"rate_limits"}, {}, {})
AuditLog == Migration({"audit_log"}, {}, {})
PredictionMarkets == Migration({"markets", "market_positions", "market_admin_activation"}, {}, {})
LiquidityAndEvents ==
    Migration({"market_positions.payouts", "market_interaction_events"}, {"market_positions"}, {"market_positions"})
ClobOrders == Migration({"market_positions.clob"}, {"market_positions"}, {"market_positions"})

MIGRATIONS == <<InitialSchema, PlayerStats, ChallengeIndexes, RateLimits, AuditLog, PredictionMarkets,
                LiquidityAndEvents, ClobOrders>>
Version == DOMAIN MIGRATIONS

(* The columns and indexes that go with a table.                             *)
PartsOf(table) ==
    CASE table = "players" -> {"players.stats"}
      [] table = "challenges" -> {"challenges.indexes"}
      [] table = "market_positions" -> {"market_positions.payouts", "market_positions.clob"}
      [] OTHER -> {}

VARIABLES
    schema,     \* the tables and the parts of them that exist
    records,    \* the versions in schema_migrations
    process,    \* what each process is doing: [pc, todo]
    migrations, \* the number of starts and runs so far that migrate
    rollbacks,  \* the number of runs so far that roll back
    stops,      \* the number of crashes so far
    torn        \* history: a rollback ran beside a migration, or did not reach its end

schemaVars == <<schema, records, process, migrations, rollbacks, stops, torn>>

Off == [pc |-> "off", todo |-> <<>>]
NoSchema == {}

SchemaInit ==
    /\ schema = NoSchema /\ records = {}
    /\ process = [p \in Process |-> Off]
    /\ migrations = 0 /\ rollbacks = 0 /\ stops = 0 /\ torn = FALSE

getCurrentVersion ==
    IF "schema_migrations" \in schema /\ records # {} THEN CHOOSE v \in records : \A w \in records : w <= v
    ELSE 0

(* What is newer than a version, from the oldest on, and what is not, from   *)
(* the newest on.                                                            *)
Upwards(from) == [i \in 1 .. Len(MIGRATIONS) - from |-> from + i]
Downwards(from, steps) == [i \in 1 .. (IF steps < from THEN steps ELSE from) |-> from + 1 - i]

Migrating == \E p \in Process : process[p].pc \in {"up", "record"}
RollingBack == \E p \in Process : process[p].pc \in {"down", "remove"}
First(p) == Head(process[p].todo)
Goto(p, pc) == process' = [process EXCEPT ![p].pc = pc]

(* The next migration of a run, or its end.                                  *)
Onwards(p, pc) ==
    process' = [process EXCEPT ![p] = IF Len(@.todo) = 1 THEN [pc |-> "done", todo |-> <<>>]
                                      ELSE [pc |-> pc, todo |-> Tail(@.todo)]]
Failed(p) == process' = [process EXCEPT ![p] = [pc |-> "failed", todo |-> <<>>]]

-----------------------------------------------------------------------------
(* runMigrations: what is pending is what is newer than the newest record.   *)
Run(p, pc, todo) ==
    /\ process[p].pc \notin {"up", "record", "down", "remove"}
    /\ process' = [process EXCEPT ![p] = IF todo = <<>> THEN [pc |-> "done", todo |-> todo]
                                         ELSE [pc |-> pc, todo |-> todo]]
    /\ UNCHANGED <<schema, records, stops>>

runMigrations(p) ==
    /\ migrations < MaxRuns /\ migrations' = migrations + 1
    /\ Run(p, "up", Upwards(getCurrentVersion))
    /\ torn' = (torn \/ RollingBack)
    /\ UNCHANGED rollbacks

(* Database.connect, and the script's "up".                                  *)
Connect(p) == p \in Server /\ process[p].pc = "off" /\ runMigrations(p)
MigrateUp(p) == p \in Operator /\ runMigrations(p)

(* A query that cannot be carried out leaves the schema as it was, and ends  *)
(* the run.                                                                  *)
Query(p, runs, then) ==
    IF runs THEN then ELSE Failed(p) /\ UNCHANGED <<schema, records>>

ApplyUp(p) ==
    /\ process[p].pc = "up"
    /\ Query(p, MIGRATIONS[First(p)].alters \subseteq schema,
             schema' = schema \cup MIGRATIONS[First(p)].adds /\ Goto(p, "record") /\ UNCHANGED records)
    /\ UNCHANGED <<migrations, rollbacks, stops, torn>>

(* Two processes that create the same tables at once: IF NOT EXISTS does not *)
(* keep the later from failing.                                              *)
ApplyCollides(p) ==
    /\ process[p].pc = "up"
    /\ \E q \in Process \ {p} : process[q].pc = "record" /\ First(q) = First(p)
    /\ Failed(p)
    /\ UNCHANGED <<schema, records, migrations, rollbacks, stops, torn>>

(* Faulty variant of recordMigration: the run begins where the last one ended. *)
RecordAll(p) ==
    /\ process[p].pc = "record"
    /\ Query(p, "schema_migrations" \in schema /\ First(p) \notin records,
             records' = records \cup Range(process[p].todo) /\ Onwards(p, "up") /\ UNCHANGED schema)
    /\ UNCHANGED <<migrations, rollbacks, stops, torn>>

(* The version is the primary key of its record.                             *)
recordMigration(p) ==
    /\ process[p].pc = "record"
    /\ Query(p, "schema_migrations" \in schema /\ First(p) \notin records,
             records' = records \cup {First(p)} /\ Onwards(p, "up") /\ UNCHANGED schema)
    /\ UNCHANGED <<migrations, rollbacks, stops, torn>>

-----------------------------------------------------------------------------
(* rollbackMigrations, and the script's "rollback" and "reset".              *)
rollbackMigrations(p, steps) ==
    /\ p \in Operator
    /\ rollbacks < MaxRollbacks /\ rollbacks' = rollbacks + 1
    /\ Run(p, "down", Downwards(getCurrentVersion, steps))
    /\ torn' = (torn \/ Migrating \/ RollingBack)
    /\ UNCHANGED migrations

Rollback(p) == rollbackMigrations(p, 1) \/ rollbackMigrations(p, 2)
Reset(p) == rollbackMigrations(p, Len(MIGRATIONS))

DroppedParts(v) ==
    LET tables == MIGRATIONS[v].adds IN tables \cup UNION {PartsOf(t) : t \in tables}

ApplyDown(p) ==
    /\ process[p].pc = "down"
    /\ Query(p, MIGRATIONS[First(p)].columns \subseteq schema,
             /\ schema' = schema \ DroppedParts(First(p))
             /\ records' = IF "schema_migrations" \in schema' THEN records ELSE {}
             /\ Goto(p, "remove"))
    /\ torn' = (torn \/ process'[p].pc = "failed")
    /\ UNCHANGED <<migrations, rollbacks, stops>>

(* The first migration takes the table of the records with it, so that its   *)
(* own record can only fail to be removed.                                   *)
removeMigrationRecord(p) ==
    /\ process[p].pc = "remove"
    /\ Query(p, "schema_migrations" \in schema,
             records' = records \ {First(p)} /\ Onwards(p, "down") /\ UNCHANGED schema)
    /\ UNCHANGED <<migrations, rollbacks, stops, torn>>

(* A process stops, or loses its connection to the database.                 *)
StopMigrating(p) ==
    /\ process[p].pc # "off"
    /\ stops < MaxCrashes /\ stops' = stops + 1
    /\ torn' = (torn \/ process[p].pc = "remove")
    /\ process' = [process EXCEPT ![p] = Off]
    /\ UNCHANGED <<schema, records, migrations, rollbacks>>

SchemaNext ==
    \E p \in Process :
        \/ Connect(p) \/ MigrateUp(p) \/ ApplyUp(p) \/ ApplyCollides(p) \/ recordMigration(p)
        \/ Rollback(p) \/ Reset(p) \/ ApplyDown(p) \/ removeMigrationRecord(p) \/ StopMigrating(p)

SchemaSpec == SchemaInit /\ [][SchemaNext]_schemaVars

-----------------------------------------------------------------------------
BeingRemoved == {First(p) : p \in {q \in Process : process[q].pc = "remove"}}

(* A server that finds a version recorded finds what it created, and all     *)
(* that came before it: however many servers start at once and wherever they *)
(* stop, unless a rollback was interrupted or ran beside another run.        *)
SchemaAsRecorded ==
    torn \/ \A v \in records \ BeingRemoved : (1 .. v) \subseteq records /\ MIGRATIONS[v].adds \subseteq schema
=============================================================================
