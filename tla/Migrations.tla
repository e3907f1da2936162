----------------------------- MODULE Migrations -----------------------------
(***************************************************************************)
(* Opening the registry database (infrastructure/connection.py,            *)
(* infrastructure/migrations.py).  Opening migrates: the version is read   *)
(* once, then every pending script is applied after a backup, each in a    *)
(* transaction that also stamps the version.  Nothing but the database's   *)
(* own write lock keeps two commands that open it apart.                   *)
(***************************************************************************)
EXTENDS Checkout

CONSTANT Scripts  \* Scripts[v]: how many migrations the checkout has at v

ASSUME MigrationsAssumption ==
  /\ Scripts \in [Versions -> Nat]
  /\ \A v, w \in Versions : v <= w => Scripts[v] <= Scripts[w]

VARIABLES
  schema,      \* the migrations whose tables the database has
  userVersion, \* PRAGMA user_version
  backups,     \* the backups: the version in the name, and what it holds
  current,     \* the local variable of MigrationRunner.run
  due          \* how many scripts it has discovered

dbVars == <<schema, userVersion, backups, current, due>>

MigrationsInit ==
  /\ userVersion \in 0..Scripts[1] /\ schema = 1..userVersion
  /\ backups = {}
  /\ current = [c \in Commands |-> 0] /\ due = [c \in Commands |-> 0]

\* Where a command goes with its database open.
Opened(c) == IF Kind[c] = "cleanup" THEN "survey" ELSE "autostart"

\* current_version and discover.
Connect(c) ==
  /\ pc[c] = "open"
  /\ current' = [current EXCEPT ![c] = userVersion]
  /\ due' = [due EXCEPT ![c] = Scripts[head]]
  /\ Goto(c, IF userVersion < Scripts[head] THEN "backup" ELSE Opened(c))
  /\ UNCHANGED <<schema, userVersion, backups>>

\* Nothing is copied of a database that defines nothing.
BackUp(c) ==
  /\ pc[c] = "backup"
  /\ backups' = IF schema = {} THEN backups
                ELSE backups \cup {[name |-> current[c], holds |-> schema]}
  /\ Goto(c, "migrate")
  /\ UNCHANGED <<schema, userVersion, current, due>>

\* Mutant of Migrate: a script that is applied already is applied once more.
MigrateAgain(c) ==
  /\ pc[c] = "migrate"
  /\ schema' = schema \cup {current[c] + 1}
  /\ userVersion' = current[c] + 1
  /\ current' = [current EXCEPT ![c] = @ + 1]
  /\ Goto(c, IF current[c] + 1 < due[c] THEN "backup" ELSE Opened(c))
  /\ UNCHANGED <<backups, due>>

\* One transaction.  The scripts create tables without IF NOT EXISTS, so one
\* that another command has applied meanwhile fails, and so does the command.
Migrate(c) ==
  /\ pc[c] = "migrate"
  /\ IF current[c] + 1 \in schema
     THEN /\ Goto(c, "failed")
          /\ UNCHANGED <<schema, userVersion, current>>
     ELSE /\ schema' = schema \cup {current[c] + 1}
          /\ userVersion' = current[c] + 1
          /\ current' = [current EXCEPT ![c] = @ + 1]
          /\ Goto(c, IF current[c] + 1 < due[c] THEN "backup" ELSE Opened(c))
  /\ UNCHANGED <<backups, due>>

\* A disk that is full, a database that stays locked: the script is rolled back.
MigrationFails(c) ==
  /\ Mishap("database")
  /\ pc[c] \in {"open", "backup", "migrate"}
  /\ Goto(c, "failed")
  /\ UNCHANGED dbVars

OpenDatabase(c) == Connect(c) \/ BackUp(c) \/ Migrate(c)

=============================================================================
