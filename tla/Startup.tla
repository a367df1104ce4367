------------------------------ MODULE Startup ------------------------------
(***************************************************************************)
(* The processes of docker-compose.yml on their way up: what config.Load   *)
(* makes of the part of .env that each container is given, the database,   *)
(* the migrations (also run by hand, in the API's container), Redis and    *)
(* the consumer group.  Whatever goes wrong ends the process with exit     *)
(* code 1, and compose starts it again.                                    *)
(***************************************************************************)
EXTENDS Integers, FiniteSets

CONSTANTS
  Unset, Junk,   \* a variable that is not set, or does not parse
  Numbers,       \* the numbers tried in .env
  Adjustable,    \* the variables an operator may set in .env
  MaxAdjusted,   \* bound: how many of them at once
  MaxUpsets      \* bound: outages, lost replies, ended processes, "make migrate"

Limits == {"QUEUE_MAX_DEPTH", "MAX_QUEUED_PER_PARTICIPANT", "MAX_RUNNING_PER_PARTICIPANT"}
Durations == {"MOCK_WORK_DURATION", "WORKER_HARD_TIMEOUT", "WORKER_STALE_AFTER",
              "REDIS_OPERATION_TIMEOUT", "OUTBOX_POLL_INTERVAL", "OUTBOX_MAX_BACKOFF"}
CfgFields == Limits \cup Durations
Keys == CfgFields \cup {"COOKIE_HMAC_SECRET", "TRUSTED_PROXY_CIDR"}

\* The values in the code, in units that keep their order.
Fallback == [k \in CfgFields |->
  CASE k = "WORKER_HARD_TIMEOUT" -> 3 [] k = "WORKER_STALE_AFTER" -> 8 [] OTHER -> 1]

Services == {"api", "mock-worker"}
Processes == Services \cup {"migrate"}

ASSUME StartupAssumption ==
  /\ Unset # Junk /\ Numbers \subseteq Int /\ {Unset, Junk} \cap Int = {}
  /\ Adjustable \subseteq Keys /\ MaxAdjusted \in Nat /\ MaxUpsets \in Nat

VARIABLES
  dotenv,      \* the operator's .env
  where,       \* where main is, in each process
  pg, redis,   \* the server answers
  schema,      \* 001_init.sql has been committed
  group,       \* the consumer group exists
  upsets

startupVars == <<dotenv, where, pg, redis, schema, group, upsets>>
servers == <<pg, redis, schema, group>>

\* Fresh volumes or old ones; depends_on has waited for the servers.
StartupInit ==
  /\ \E set \in SUBSET Adjustable : \E value \in [set -> {Junk} \cup Numbers] :
       /\ Cardinality(set) <= MaxAdjusted
       /\ dotenv = [k \in Keys |-> IF k \in set THEN value[k] ELSE Unset]
  /\ where = [p \in Processes |-> "down"]
  /\ pg = TRUE /\ redis = TRUE
  /\ schema \in BOOLEAN /\ group \in BOOLEAN
  /\ upsets = 0

\* The more is adjusted, the fewer faults are tried.
Upset ==
  /\ upsets + 2 * Cardinality({k \in Keys : dotenv[k] # Unset}) < MaxUpsets
  /\ upsets' = upsets + 1

-----------------------------------------------------------------------------
(* Configuration.                                                          *)

\* The environment: sections of docker-compose.yml.
Passed(p) ==
  IF p = "mock-worker"
  THEN Durations \cup {"QUEUE_MAX_DEPTH", "COOKIE_HMAC_SECRET"}
  ELSE Limits \cup {"REDIS_OPERATION_TIMEOUT", "MOCK_WORK_DURATION",
                    "COOKIE_HMAC_SECRET", "TRUSTED_PROXY_CIDR"}

Environment(p) == [k \in Keys |-> IF k \in Passed(p) THEN dotenv[k] ELSE Unset]

\* getEnvInt, getEnvDuration: what is unset or does not parse falls back.
getEnv(env, k) == IF env[k] \in Int THEN env[k] ELSE Fallback[k]
Config(env) == [k \in CfgFields |-> getEnv(env, k)]

\* Load's checks, in production: a junk secret is one that is too short.
Acceptable(env) ==
  LET c == Config(env) IN
  /\ \A k \in Durations : env[k] # Junk
  /\ env["COOKIE_HMAC_SECRET"] # Junk /\ env["TRUSTED_PROXY_CIDR"] # Junk
  /\ \A k \in CfgFields : c[k] > 0
  /\ c["WORKER_STALE_AFTER"] > c["WORKER_HARD_TIMEOUT"]
  /\ c["WORKER_HARD_TIMEOUT"] > c["MOCK_WORK_DURATION"]

-----------------------------------------------------------------------------
(* The two mains.                                                          *)

Reach(p, place) == where' = [where EXCEPT ![p] = place]

\* os.Exit(1).  With the API's container ends what was executed in it.
Exit(p) ==
  where' = [q \in Processes |->
    IF q = p \/ (p = "api" /\ q = "migrate") THEN "down" ELSE where[q]]

\* restart: unless-stopped; "make migrate" needs a running API container.
Start(p) ==
  /\ where[p] = "down"
  /\ p = "migrate" => where["api"] # "down" /\ Upset
  /\ p # "migrate" => UNCHANGED upsets
  /\ Reach(p, "load")
  /\ UNCHANGED <<dotenv, servers>>

Load(p) ==
  /\ where[p] = "load"
  /\ \/ Acceptable(Environment(p)) /\ Reach(p, "connect")
     \/ ~Acceptable(Environment(p)) /\ Exit(p)
  /\ UNCHANGED <<dotenv, servers, upsets>>

Connect(p) ==
  /\ where[p] = "connect"
  /\ \/ pg /\ Reach(p, IF p = "mock-worker" THEN "group" ELSE "migrate")
     \/ ~pg /\ Exit(p)
  /\ UNCHANGED <<dotenv, servers, upsets>>

\* -migrate stops here.
Migrated(p) == IF p = "migrate" THEN Reach(p, "down") ELSE Reach(p, "ping")

\* Mutant: a failed migration is logged.
RunMigrationsLogged(p) ==
  /\ where[p] = "migrate"
  /\ \/ pg /\ ~schema /\ Reach(p, "creating")
     \/ (schema \/ ~pg) /\ Migrated(p)
  /\ UNCHANGED <<dotenv, servers, upsets>>

\* IF NOT EXISTS: nothing to do, or everything.
RunMigrations(p) ==
  /\ where[p] = "migrate"
  /\ \/ pg /\ ~schema /\ Reach(p, "creating")
     \/ pg /\ schema /\ Migrated(p)
     \/ ~pg /\ Exit(p)
  /\ UNCHANGED <<dotenv, servers, upsets>>

\* One implicit transaction: of two that create the tables together the
\* second fails.
CommitMigration(p) ==
  /\ where[p] = "creating"
  /\ \/ pg /\ ~schema /\ schema' = TRUE /\ Migrated(p)
     \/ (schema \/ ~pg) /\ UNCHANGED schema /\ Exit(p)
  /\ UNCHANGED <<dotenv, pg, redis, group, upsets>>

\* The tables are there, and nobody says so.
MigrationReplyLost(p) ==
  /\ where[p] = "creating" /\ pg /\ ~schema /\ Upset
  /\ schema' = TRUE /\ Exit(p)
  /\ UNCHANGED <<dotenv, pg, redis, group>>

\* Ping; then the handlers are set up and the port is opened.
PingRedis(p) ==
  /\ where[p] = "ping"
  /\ \/ redis /\ Reach(p, "up")
     \/ ~redis /\ Exit(p)
  /\ UNCHANGED <<dotenv, servers, upsets>>

\* Mutant: BUSYGROUP is an error like any other.
EnsureConsumerGroupStrict(p) ==
  /\ where[p] = "group"
  /\ \/ redis /\ ~group /\ group' = TRUE /\ Reach(p, "up")
     \/ (group \/ ~redis) /\ UNCHANGED group /\ Exit(p)
  /\ UNCHANGED <<dotenv, pg, redis, schema, upsets>>

\* XGROUP CREATE; BUSYGROUP is as good.  The loops start.
EnsureConsumerGroup(p) ==
  /\ where[p] = "group"
  /\ \/ redis /\ group' = TRUE /\ Reach(p, "up")
     \/ ~redis /\ UNCHANGED group /\ Exit(p)
  /\ UNCHANGED <<dotenv, pg, redis, schema, upsets>>

GroupReplyLost(p) ==
  /\ where[p] = "group" /\ redis /\ Upset
  /\ group' = TRUE /\ Exit(p)
  /\ UNCHANGED <<dotenv, pg, redis, schema>>

\* SIGTERM: the API waits ten seconds for its requests, a worker for its job.
\* Not by "docker stop", after which unless-stopped leaves the service down.
Sigterm(p) ==
  /\ where[p] = "up" /\ Upset /\ Reach(p, "draining")
  /\ UNCHANGED <<dotenv, servers>>

Shutdown(p) ==
  /\ where[p] = "draining" /\ Exit(p)
  /\ UNCHANGED <<dotenv, servers, upsets>>

\* A crash, or a port that cannot be opened.
Fail(p) ==
  /\ where[p] # "down" /\ Upset /\ Exit(p)
  /\ UNCHANGED <<dotenv, servers>>

-----------------------------------------------------------------------------
(* The servers.  What they were told survives an outage.                   *)

PostgresDown == pg /\ Upset /\ pg' = FALSE /\ UNCHANGED <<dotenv, where, redis, schema, group>>
PostgresUp == ~pg /\ pg' = TRUE /\ UNCHANGED <<dotenv, where, redis, schema, group, upsets>>
RedisDown == redis /\ Upset /\ redis' = FALSE /\ UNCHANGED <<dotenv, where, pg, schema, group>>
RedisUp == ~redis /\ redis' = TRUE /\ UNCHANGED <<dotenv, where, pg, schema, group, upsets>>

main(p) ==
  \/ Load(p) \/ Connect(p) \/ RunMigrations(p) \/ CommitMigration(p)
  \/ PingRedis(p) \/ EnsureConsumerGroup(p) \/ Shutdown(p)

StartupNext ==
  \/ \E p \in Processes :
       \/ Start(p) \/ main(p)
       \/ MigrationReplyLost(p) \/ GroupReplyLost(p) \/ Sigterm(p) \/ Fail(p)
  \/ PostgresDown \/ PostgresUp \/ RedisDown \/ RedisUp

StartupSpec == StartupInit /\ [][StartupNext]_startupVars

\* Programs run, and compose restarts services and servers.  Nobody has to
\* run the migrations by hand.
StartupFairSpec ==
  /\ StartupSpec
  /\ \A p \in Processes : WF_startupVars(main(p))
  /\ \A s \in Services : WF_startupVars(Start(s))
  /\ WF_startupVars(PostgresUp) /\ WF_startupVars(RedisUp)

-----------------------------------------------------------------------------
(* Properties.                                                             *)

(***************************************************************************)
(* The API never serves without its tables (RunMigrations before           *)
(* ListenAndServe): not when it lost the race with "make migrate", when    *)
(* the database went away in between, or when the reply was lost.          *)
(***************************************************************************)
ServesOnSchema == where["api"] \in {"up", "draining"} => schema

(***************************************************************************)
(* The system comes up (both mains, restart: unless-stopped): a service    *)
(* whose configuration loads is up for good once the faults are over,      *)
(* whatever they left behind: tables, a consumer group, half a migration.  *)
(***************************************************************************)
ComesUp ==
  \A s \in Services : Acceptable(Environment(s)) => <>[](where[s] = "up")
=============================================================================
