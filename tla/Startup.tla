------------------------------- MODULE Startup -------------------------------
(***************************************************************************)
(* The life of one process: bootstrap() of main.ts, from the secrets check *)
(* to app.listen, and the connection to Redis that onModuleInit of the     *)
(* cache adapter opens without awaiting it and ioredis keeps up from then  *)
(* on.  The environment starts and kills processes, and takes PostgreSQL   *)
(* and Redis away and gives them back, at any moment.                      *)
(*                                                                         *)
(* No shutdown hook is enabled, so a process ends as if it crashed.        *)
(***************************************************************************)
EXTENDS Integers, TLC

CONSTANTS
    Launches,         \* the environments a process is started in: functions
                      \* from variables to strings, as are the files
    Files,            \* Files[f]: the contents of environment/.env.f
    Poor,             \* strings too short for a secret, or with an unsafe pattern
    ShortPasswords,   \* strings of less than 8 characters
    ConnectAttempts,  \* of the TypeORM module, before it gives up
    Request           \* slots for requests that await the cache

ASSUME StartupAssumption == ConnectAttempts \in Nat \ {0}

VARIABLES
    env,       \* process.env, once the file has been read
    portFree,  \* whether another process holds the port
    phase,     \* the await bootstrap() is suspended at
    attempts,  \* refused connections to PostgreSQL
    database,  \* whether PostgreSQL can be reached
    redis,     \* whether Redis can be reached
    client,    \* the ioredis client: its status, and its retryAttempts
    command,   \* command[r]: the request's cache command
    refused    \* history: refused connections since the client was connected

processVars == <<env, portFree, phase, attempts>>
clientVars == <<client, command, refused>>
vars == <<processVars, clientVars, database, redis>>

-----------------------------------------------------------------------------
(* The configuration.  An unset variable and an empty one read the same,   *)
(* but only an unset one is taken from the file.                           *)

Read(e, name) == IF name \in DOMAIN e THEN e[name] ELSE ""

Or(value, default) == IF value = "" THEN default ELSE value

EnvFile(e) == LET file == Or(Read(e, "APP_ENV"), "dev")
              IN  IF file \in DOMAIN Files THEN Files[file] ELSE <<>>

\* ConfigModule.forRoot, when app.module is imported.
Loaded(e) == e @@ EnvFile(e)

BlockedDefaults == {"access-secret-key", "refresh-secret-key",
                    "your-access-secret-key-change-in-production",
                    "your-refresh-secret-key-change-in-production"}

\* Mutant: a secret that is not set is no error.
ValidateSecretIfSet(value) == value \notin BlockedDefaults \cup Poor

ValidateSecret(value) == value # "" /\ value \notin BlockedDefaults \cup Poor

ValidateSecrets(e) ==
    LET access == Read(e, "JWT_ACCESS_SECRET")
        refresh == Read(e, "JWT_REFRESH_SECRET")
    IN  Read(e, "NODE_ENV") = "production" =>
            /\ ValidateSecret(access)
            /\ ValidateSecret(refresh)
            /\ access # "" /\ refresh # "" => access # refresh
            /\ Read(e, "DB_PASSWORD") \notin {"", "postgres"} \cup ShortPasswords

\* What the services are given.
AccessSecret(e) == Or(Read(e, "JWT_ACCESS_SECRET"), "access-secret-key")
RefreshSecret(e) == Or(Read(e, "JWT_REFRESH_SECRET"), "refresh-secret-key")
DatabasePassword(e) == Or(Read(e, "DB_PASSWORD"), "postgres")
ResendApiKey(e) == Read(e, "RESEND_API_KEY")

-----------------------------------------------------------------------------
NoClient == [status |-> "none", retryAttempts |-> 0]

Init ==
    /\ env = <<>> /\ portFree = TRUE /\ phase = "down" /\ attempts = 0
    /\ database \in BOOLEAN /\ redis \in BOOLEAN
    /\ client = NoClient
    /\ command = [r \in Request |-> "none"]
    /\ refused = 0

\* The process goes, with its connections and the requests it held.
Ends(how) ==
    /\ phase' = how
    /\ client' = NoClient
    /\ command' = [r \in Request |-> "none"]
    /\ refused' = 0
    /\ UNCHANGED <<env, portFree, attempts, database, redis>>

Enters(next) ==
    /\ phase' = next
    /\ UNCHANGED <<env, portFree, attempts, clientVars, database, redis>>

Launch(e) ==
    /\ phase \in {"down", "exited"}
    /\ env' = Loaded(e)
    /\ portFree' \in BOOLEAN
    /\ phase' = "validate" /\ attempts' = 0
    /\ UNCHANGED <<clientVars, database, redis>>

\* assertSecretsAreSecure, or an unhandled rejection.
Validate ==
    /\ phase = "validate"
    /\ IF ValidateSecrets(env) THEN Enters("create") ELSE Ends("exited")

\* NestFactory.create builds all providers: the mail adapter's constructor
\* may throw, while the TypeORM module connects.
MailAdapterThrows ==
    /\ phase = "create"
    /\ ResendApiKey(env) = ""
    /\ Ends("exited")

Connect ==
    /\ phase = "create"
    /\ ResendApiKey(env) # ""
    /\ database
    /\ Enters(IF Read(env, "RUN_MIGRATIONS") = "true" THEN "migrate" ELSE "listen")

\* Mutant: the connection is retried for ever.
ConnectRefusedForever ==
    /\ phase = "create"
    /\ ~database
    /\ attempts' = (attempts + 1) % ConnectAttempts
    /\ UNCHANGED <<env, portFree, phase, clientVars, database, redis>>

ConnectRefused ==
    /\ phase = "create"
    /\ ~database
    /\ IF attempts + 1 < ConnectAttempts
       THEN /\ attempts' = attempts + 1
            /\ UNCHANGED <<env, portFree, phase, clientVars, database, redis>>
       ELSE Ends("exited")

\* The data source of app.module lists no migrations: there are none pending.
RunMigrations ==
    /\ phase = "migrate"
    /\ IF database THEN Enters("listen") ELSE Ends("exited")

\* app.listen runs the onModuleInit hooks, and the cache adapter's returns at
\* once.
InitModules ==
    /\ phase = "listen"
    /\ client' = [NoClient EXCEPT !.status = "connecting"]
    /\ phase' = "bind"
    /\ UNCHANGED <<env, portFree, attempts, command, refused, database, redis>>

\* Mutant: onModuleInit awaits the connection.
BindConnected ==
    /\ phase = "bind"
    /\ client.status \in {"ready", "end"}
    /\ IF portFree /\ client.status = "ready" THEN Enters("serving") ELSE Ends("exited")

Bind ==
    /\ phase = "bind"
    /\ IF portFree THEN Enters("serving") ELSE Ends("exited")

Bootstrap ==
    \/ Validate
    \/ MailAdapterThrows
    \/ Connect
    \/ ConnectRefused
    \/ RunMigrations
    \/ InitModules
    \/ Bind

Kill == phase \notin {"down", "exited"} /\ Ends("down")

-----------------------------------------------------------------------------
(* The Redis client. *)

\* Mutant: the third reconnection is not tried.
GivesUpEarly(times) == times >= 3

\* Mutant: it never returns null.
GivesUpNever(times) == times < 0

\* retryStrategy returns null.
GivesUp(times) == times > 3

MaxRetriesPerRequest == 3

\* All commands not answered yet are rejected, which the adapter catches.
Flush == command' = [r \in Request |-> IF command[r] = "waiting" THEN "settled"
                                       ELSE command[r]]

\* ioredis, when a connection closes or is refused.
Closes ==
    LET times == client.retryAttempts + 1 IN
        /\ client' = [status |-> IF GivesUp(times) THEN "end" ELSE "reconnecting",
                      retryAttempts |-> times]
        /\ IF GivesUp(times) \/ times % (MaxRetriesPerRequest + 1) = 0
           THEN Flush ELSE UNCHANGED command
        /\ UNCHANGED <<processVars, database, redis>>

ClientConnects ==
    /\ client.status = "connecting"
    /\ redis
    /\ client' = [status |-> "ready", retryAttempts |-> 0]
    /\ refused' = 0
    /\ UNCHANGED <<processVars, command, database, redis>>

ClientRefused ==
    /\ client.status = "connecting"
    /\ ~redis
    /\ refused' = refused + 1
    /\ Closes

\* The connection breaks, even if Redis is well.
ConnectionCloses ==
    /\ client.status = "ready"
    /\ UNCHANGED refused
    /\ Closes

\* The timer that retryStrategy set.
Reconnect ==
    /\ client.status = "reconnecting"
    /\ client' = [client EXCEPT !.status = "connecting"]
    /\ UNCHANGED <<processVars, command, refused, database, redis>>

\* Mutant: a command is queued whatever the client's status.
IssueQueued(r) ==
    /\ phase = "serving"
    /\ command[r] # "waiting"
    /\ command' = [command EXCEPT ![r] = "waiting"]
    /\ UNCHANGED <<processVars, client, refused, database, redis>>

\* A request awaits a command of the adapter.  A client that has ended rejects
\* it at once; one that is not connected queues it.
Issue(r) ==
    /\ phase = "serving"
    /\ command[r] # "waiting"
    /\ command' = [command EXCEPT ![r] = IF client.status = "end" THEN "settled" ELSE "waiting"]
    /\ UNCHANGED <<processVars, client, refused, database, redis>>

Answers(r) ==
    /\ command[r] = "waiting"
    /\ client.status = "ready" /\ redis
    /\ command' = [command EXCEPT ![r] = "settled"]
    /\ UNCHANGED <<processVars, client, refused, database, redis>>

ClientMoves == ClientConnects \/ ClientRefused \/ Reconnect

DatabaseFlips == /\ database' = ~database
                 /\ UNCHANGED <<processVars, clientVars, redis>>

RedisFlips == /\ redis' = ~redis
              /\ UNCHANGED <<processVars, clientVars, database>>

Next ==
    \/ \E e \in Launches : Launch(e)
    \/ Bootstrap
    \/ Kill
    \/ ClientMoves
    \/ ConnectionCloses
    \/ \E r \in Request : Issue(r) \/ Answers(r)
    \/ DatabaseFlips
    \/ RedisFlips

\* The event loop runs bootstrap() and the client's timers.  A connection to a
\* Redis that has gone is noticed; a Redis that is reached again and again
\* answers at last.
Fairness ==
    /\ WF_vars(Bootstrap)
    /\ WF_vars(ClientMoves)
    /\ WF_vars(~redis /\ ConnectionCloses)
    /\ \A r \in Request : SF_vars(Answers(r))

Spec == Init /\ [][Next]_vars /\ Fairness

-----------------------------------------------------------------------------
(* What start-up and the client guarantee. *)

\* Every variable holds values of its type, and the client exists while the
\* process does.
TypeOK ==
    /\ env \in {<<>>} \cup {Loaded(e) : e \in Launches}
    /\ portFree \in BOOLEAN /\ database \in BOOLEAN /\ redis \in BOOLEAN
    /\ phase \in {"down", "validate", "create", "migrate", "listen", "bind",
                  "serving", "exited"}
    /\ attempts \in 0 .. ConnectAttempts - 1
    /\ client.status \in {"none", "connecting", "ready", "reconnecting", "end"}
    /\ client.retryAttempts \in 0 .. 4
    /\ client.status # "none" <=> phase \in {"bind", "serving"}
    /\ command \in [Request -> {"none", "waiting", "settled"}]
    /\ refused \in 0 .. 4

\* "Prevent starting with insecure configuration": whatever the environment
\* and its file leave unset, a production process that answers requests uses
\* two different secrets and a password, none of them a default of the config
\* factories or a published example.
ProductionSecrets ==
    phase = "serving" /\ Read(env, "NODE_ENV") = "production" =>
        /\ {AccessSecret(env), RefreshSecret(env)} \cap (BlockedDefaults \cup Poor) = {}
        /\ AccessSecret(env) # RefreshSecret(env)
        /\ DatabasePassword(env) # "postgres"

\* "Redis connection failed after 3 retries": however often it was connected
\* and lost, the client ends only after three reconnections in a row failed.
EndsAfterThreeRetries ==
    [][client'.status = "end" /\ client.status # "end" => refused' >= 3]_vars

\* A launch does not hang, whatever becomes of PostgreSQL and Redis.
LaunchSettles ==
    phase = "validate" ~> phase \in {"serving", "exited", "down"}

\* Redis is no condition of service: a launch that has what it needs answers
\* requests, unless PostgreSQL goes or it is killed on the way.
ServesWithoutRedis ==
    /\ phase = "validate" /\ ValidateSecrets(env)
    /\ ResendApiKey(env) # "" /\ portFree /\ database
    ~> phase \in {"serving", "down"} \/ ~database

\* No request awaits the cache for ever, whatever becomes of Redis.
CommandsSettle ==
    \A r \in Request : command[r] = "waiting" ~> command[r] # "waiting"
=============================================================================
