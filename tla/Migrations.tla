------------------------------ MODULE Migrations ------------------------------
(***************************************************************************)
(* The migration runner (src/db/migrate.ts): deploys of different releases *)
(* run it side by side against one database. A file is its number, by      *)
(* which files are sorted, and a release says which of its contents it     *)
(* has. DDL commits by itself, so every statement is a step, and           *)
(* a crash may come between any two; it frees the lock of the session.     *)
(***************************************************************************)
EXTENDS Integers, FiniteSets, FiniteSetsExt

CONSTANTS
    Deploys,        \* runs of the runner
    Releases,       \* Releases[d][f]: the checksum of file f that d has, 0 for none
    Statements,     \* how many statements a file has
    MaxStops        \* bound on crashes and failed statements

Files == DOMAIN Releases[CHOOSE d \in Deploys : TRUE]

Free == "free"

ASSUME MigrationAssumption ==
    /\ Statements \in Nat \ {0} /\ MaxStops \in Nat
    /\ Files \subseteq Nat \ {0} /\ Free \notin Deploys
    /\ \A d \in Deploys : Releases[d] \in [Files -> Nat]

VARIABLES
    holder,     \* who has the advisory lock
    schema,     \* schema[f]: the ledger's checksum, 0 for none
    ran,        \* ran[f]: <<checksum, how many statements in a row>> of the last execution
    deploy,     \* deploy[d]: [pc, file, next]
    stops

migrationVars == <<holder, schema, ran, deploy, stops>>

\* loadMigrationFiles: the files of a release, sorted.
FilesOf(d) == {f \in Files : Releases[d][f] # 0}

MigrationsInit ==
    /\ holder = Free
    /\ schema = [f \in Files |-> 0]
    /\ ran = [f \in Files |-> <<0, 0>>]
    /\ deploy = [d \in Deploys |-> [pc |-> "idle", file |-> 0, next |-> 0]]
    /\ stops = 0

\* Mutant of LockIsFree: nobody asks what GET_LOCK answered.
LockIsFreeAlways == TRUE

LockIsFree == holder = Free

\* acquireMigrationLock, and its failure when the wait is over.
Acquire(d) ==
    /\ deploy[d].pc = "idle"
    /\ \/ /\ LockIsFree
          /\ holder' = d
          /\ deploy' = [deploy EXCEPT ![d] = [pc |-> "check", file |-> 1, next |-> 0]]
       \/ /\ ~LockIsFree
          /\ deploy' = [deploy EXCEPT ![d].pc = "failed"]
          /\ UNCHANGED holder
    /\ UNCHANGED <<schema, ran, stops>>

Ends(d, pc) ==
    /\ deploy' = [deploy EXCEPT ![d].pc = pc]
    /\ holder' = IF holder = d THEN Free ELSE holder

\* Mutant of Verdict: what was recorded is not compared.
VerdictAnyChecksum(d, f) == IF schema[f] # 0 THEN "skip" ELSE "execute"

\* getRecordedChecksum
Verdict(d, f) ==
    CASE schema[f] = 0 -> "execute"
      [] schema[f] = Releases[d][f] -> "skip"
      [] schema[f] \notin {0, Releases[d][f]} -> "mismatch"

Check(d) ==
    /\ deploy[d].pc = "check"
    /\ LET left == {f \in FilesOf(d) : f >= deploy[d].file}
       IN  IF left = {} THEN Ends(d, "done")
           ELSE LET f == Min(left)
                IN  CASE Verdict(d, f) = "skip" ->
                            deploy' = [deploy EXCEPT ![d].file = f + 1] /\ UNCHANGED holder
                      [] Verdict(d, f) = "mismatch" -> Ends(d, "failed")
                      [] Verdict(d, f) = "execute" ->
                            /\ deploy' = [deploy EXCEPT ![d] = [pc |-> "execute", file |-> f, next |-> 1]]
                            /\ UNCHANGED holder
    /\ UNCHANGED <<schema, ran, stops>>

\* executeMigrationSql, a statement at a time.
Execute(d) ==
    /\ deploy[d].pc = "execute"
    /\ LET f == deploy[d].file
           n == deploy[d].next
       IN  /\ ran' = [ran EXCEPT ![f] = IF n = 1 THEN <<Releases[d][f], 1>>
                                        ELSE IF ran[f] = <<Releases[d][f], n - 1>> THEN <<Releases[d][f], n>>
                                        ELSE <<0, 0>>]
           /\ deploy' = [deploy EXCEPT ![d] = [pc |-> IF n = Statements THEN "record" ELSE "execute",
                                               file |-> f, next |-> n + 1]]
    /\ UNCHANGED <<holder, schema, stops>>

\* recordMigration: the primary key refuses a second row.
RecordMigration(d) ==
    /\ deploy[d].pc = "record"
    /\ LET f == deploy[d].file
       IN  IF schema[f] # 0 THEN Ends(d, "failed") /\ UNCHANGED schema
           ELSE /\ schema' = [schema EXCEPT ![f] = Releases[d][f]]
                /\ deploy' = [deploy EXCEPT ![d] = [pc |-> "check", file |-> f + 1, next |-> 0]]
                /\ UNCHANGED holder
    /\ UNCHANGED <<ran, stops>>

\* A statement fails, or the process or its session dies; it may be run again.
Stop(d) ==
    /\ stops < MaxStops /\ stops' = stops + 1
    /\ deploy[d].pc \in {"check", "execute", "record"}
    /\ Ends(d, "failed")
    /\ UNCHANGED <<schema, ran>>

Rerun(d) ==
    /\ deploy[d].pc = "failed" /\ stops < MaxStops /\ stops' = stops + 1
    /\ deploy' = [deploy EXCEPT ![d] = [pc |-> "idle", file |-> 0, next |-> 0]]
    /\ UNCHANGED <<holder, schema, ran>>

MigrationsNext ==
    \E d \in Deploys : Acquire(d) \/ Check(d) \/ Execute(d) \/ RecordMigration(d) \/ Stop(d) \/ Rerun(d)

MigrationsSpec == MigrationsInit /\ [][MigrationsNext]_migrationVars

-----------------------------------------------------------------------------
(* Whatever is recorded was executed from its first statement to its last, *)
(* by one runner and nothing of it since; a release that finishes has all  *)
(* its files in, as it has them; and no file is begun before those its     *)
(* release sorts ahead of it are recorded (migrate.ts:207-252).            *)
MigrationsInOrder ==
    /\ \A f \in Files : schema[f] # 0 => ran[f] = <<schema[f], Statements>>
    /\ \A d \in Deploys :
          /\ deploy[d].pc = "done" => \A f \in FilesOf(d) : schema[f] = Releases[d][f]
          /\ deploy[d].pc \in {"execute", "record"} =>
                \A f \in FilesOf(d) : f < deploy[d].file => schema[f] = Releases[d][f]
=============================================================================
