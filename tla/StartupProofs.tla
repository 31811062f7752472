---------------------------- MODULE StartupProofs ----------------------------
(***************************************************************************)
(* Proofs about start-up and the Redis client, for any environments, files *)
(* and numbers of attempts: the types, what the secrets check is worth to  *)
(* a process that serves, and when the client gives up.                    *)
(***************************************************************************)
EXTENDS Startup, TLAPS

-----------------------------------------------------------------------------
(* The inductive invariant. *)

\* What the client's status says of its count, and its count of what happened:
\* the first closing after a connection was not a refusal.
ClientInv ==
    /\ client = [status |-> client.status, retryAttempts |-> client.retryAttempts]
    /\ client.status \in {"none", "ready"} => client.retryAttempts = 0
    /\ client.status = "connecting" => client.retryAttempts \in 0 .. 3
    /\ client.status = "reconnecting" => client.retryAttempts \in 1 .. 3
    /\ client.status = "end" => client.retryAttempts = 4
    /\ refused <= client.retryAttempts /\ client.retryAttempts <= refused + 1

\* Nothing after the check runs without it.
SecretsInv == phase \notin {"down", "exited", "validate"} => ValidateSecrets(env)

Inv == TypeOK /\ ClientInv /\ SecretsInv

-----------------------------------------------------------------------------
LEMMA InitInv == Init => Inv
BY StartupAssumption DEF Init, NoClient, Inv, TypeOK, ClientInv, SecretsInv

LEMMA EndsInv ==
    ASSUME Inv, NEW how \in {"down", "exited"}, Ends(how)
    PROVE  Inv'
BY DEF Ends, NoClient, Inv, TypeOK, ClientInv, SecretsInv

\* bootstrap() goes on, with or without a client.
LEMMA EntersInv ==
    ASSUME Inv, NEW next \in {"create", "migrate", "listen", "serving"}, Enters(next),
           next = "create" => ValidateSecrets(env),
           next # "create" => phase \notin {"down", "exited", "validate"},
           phase = "bind" <=> next = "serving",
           phase # "serving"
    PROVE  Inv'
BY DEF Enters, clientVars, Inv, TypeOK, ClientInv, SecretsInv

LEMMA LaunchInv ==
    ASSUME Inv, NEW e \in Launches, Launch(e)
    PROVE  Inv'
BY StartupAssumption DEF Launch, clientVars, Inv, TypeOK, ClientInv, SecretsInv

LEMMA ConnectRefusedInv == Inv /\ ConnectRefused => Inv'
<1> SUFFICES ASSUME Inv, ConnectRefused PROVE Inv'
    OBVIOUS
<1>1. CASE attempts + 1 < ConnectAttempts
  <2>1. attempts' \in 0 .. ConnectAttempts - 1
        BY <1>1, StartupAssumption DEF ConnectRefused, Inv, TypeOK
  <2> QED BY <1>1, <2>1 DEF ConnectRefused, clientVars, Inv, TypeOK, ClientInv, SecretsInv
<1>2. CASE ~(attempts + 1 < ConnectAttempts)
      BY <1>2, EndsInv DEF ConnectRefused
<1> QED BY <1>1, <1>2

LEMMA InitModulesInv == Inv /\ InitModules => Inv'
<1> SUFFICES ASSUME Inv, InitModules PROVE Inv'
    OBVIOUS
<1>1. client.status = "none" /\ refused = 0
      BY DEF InitModules, Inv, TypeOK, ClientInv
<1>2. client' = [status |-> "connecting", retryAttempts |-> 0]
      BY DEF InitModules, NoClient
<1>3. /\ phase = "listen" /\ phase' = "bind"
      /\ UNCHANGED <<env, portFree, attempts, command, refused, database, redis>>
      BY DEF InitModules
<1>4. client'.status = "connecting" /\ client'.retryAttempts = 0
      BY <1>2
<1>5. TypeOK'
      BY <1>3, <1>4 DEF Inv, TypeOK
<1>6. ClientInv'
      BY <1>1, <1>2, <1>3, <1>4 DEF ClientInv
<1>7. SecretsInv'
      BY <1>3 DEF Inv, SecretsInv
<1> QED BY <1>5, <1>6, <1>7 DEF Inv

LEMMA BootstrapInv == Inv /\ Bootstrap => Inv'
<1> SUFFICES ASSUME Inv, Bootstrap PROVE Inv'
    OBVIOUS
<1>1. CASE Validate
      BY <1>1, EndsInv, EntersInv DEF Validate
<1>2. CASE MailAdapterThrows
      BY <1>2, EndsInv DEF MailAdapterThrows
<1>3. CASE Connect
      BY <1>3, EntersInv DEF Connect
<1>4. CASE RunMigrations
      BY <1>4, EndsInv, EntersInv DEF RunMigrations
<1>5. CASE Bind
      BY <1>5, EndsInv, EntersInv DEF Bind
<1> QED BY <1>1, <1>2, <1>3, <1>4, <1>5, ConnectRefusedInv, InitModulesInv DEF Bootstrap

\* A closing counts one more retry; what was refused counted already, or the
\* client had been connected.
LEMMA ClosesInv ==
    ASSUME Inv, Closes, client.status \in {"connecting", "ready"},
           client.status = "connecting" => refused' = refused + 1,
           client.status = "ready" => refused' = refused
    PROVE  /\ Inv'
           /\ client'.status = "end" => refused' >= 3
<1> DEFINE times == client.retryAttempts + 1
<1>1. client' = [status |-> IF GivesUp(times) THEN "end" ELSE "reconnecting",
                 retryAttempts |-> times]
      BY DEF Closes
<1>2. times \in 1 .. 4 /\ (GivesUp(times) <=> times = 4)
      BY DEF Inv, ClientInv, GivesUp
<1>3. refused \in Nat /\ refused' \in Nat /\ refused' <= times /\ times <= refused' + 1
      BY <1>2 DEF Inv, TypeOK, ClientInv
<1>4. command' \in [Request -> {"none", "waiting", "settled"}]
      BY DEF Closes, Flush, Inv, TypeOK
<1>5. UNCHANGED <<processVars, database, redis>>
      BY DEF Closes
<1>6. client.status # "none"
      OBVIOUS
<1> HIDE DEF times
<1>7. /\ client'.status = (IF times = 4 THEN "end" ELSE "reconnecting")
      /\ client'.retryAttempts = times
      BY <1>1, <1>2
<1>8. TypeOK'
      BY <1>2, <1>3, <1>4, <1>5, <1>6, <1>7 DEF processVars, Inv, TypeOK
<1>9. ClientInv'
  <2>1. client' = [status |-> client'.status, retryAttempts |-> client'.retryAttempts]
        BY <1>1, <1>2, <1>7
  <2> QED BY <1>2, <1>3, <1>7, <2>1 DEF ClientInv
<1>10. SecretsInv'
       BY <1>5 DEF processVars, Inv, SecretsInv
<1>11. ASSUME client'.status = "end" PROVE refused' >= 3
  <2>1. times = 4
        BY <1>7, <1>11
  <2>2. refused' \in Nat /\ 4 <= refused' + 1
        BY <2>1, <1>3
  <2>3. \A n \in Nat : 4 <= n + 1 => n >= 3
        OBVIOUS
  <2> QED BY <2>2, <2>3
<1>12. Inv'
       BY <1>8, <1>9, <1>10 DEF Inv
<1> QED BY <1>11, <1>12

LEMMA ClientConnectsInv == Inv /\ ClientConnects => Inv'
<1> SUFFICES ASSUME Inv, ClientConnects PROVE Inv'
    OBVIOUS
<1>1. client' = [status |-> "ready", retryAttempts |-> 0] /\ refused' = 0
      BY DEF ClientConnects
<1>2. client.status = "connecting" /\ UNCHANGED <<processVars, command, database, redis>>
      BY DEF ClientConnects
<1> QED BY <1>1, <1>2 DEF processVars, Inv, TypeOK, ClientInv, SecretsInv

LEMMA ReconnectInv == Inv /\ Reconnect => Inv'
<1> SUFFICES ASSUME Inv, Reconnect PROVE Inv'
    OBVIOUS
<1>1. client' = [status |-> "connecting", retryAttempts |-> client.retryAttempts]
      BY DEF Reconnect, Inv, ClientInv
<1>2. /\ client.status = "reconnecting"
      /\ UNCHANGED <<processVars, command, refused, database, redis>>
      BY DEF Reconnect
<1> QED BY <1>1, <1>2 DEF processVars, Inv, TypeOK, ClientInv, SecretsInv

LEMMA ClosingsInv ==
    ASSUME Inv, ClientRefused \/ ConnectionCloses
    PROVE  Inv' /\ (client'.status = "end" => refused' >= 3)
BY ClosesInv DEF ClientRefused, ConnectionCloses

LEMMA CommandsInv ==
    ASSUME Inv, NEW r \in Request, Issue(r) \/ Answers(r)
    PROVE  Inv'
<1>1. command' \in [Request -> {"none", "waiting", "settled"}]
      BY DEF Issue, Answers, Inv, TypeOK
<1>2. UNCHANGED <<processVars, client, refused, database, redis>>
      BY DEF Issue, Answers
<1> QED BY <1>1, <1>2 DEF processVars, Inv, TypeOK, ClientInv, SecretsInv

LEMMA FlipsInv == Inv /\ (DatabaseFlips \/ RedisFlips \/ UNCHANGED vars) => Inv'
BY DEF DatabaseFlips, RedisFlips, vars, processVars, clientVars, Inv, TypeOK, ClientInv,
       SecretsInv

LEMMA NextInv == Inv /\ [Next]_vars => Inv'
<1> SUFFICES ASSUME Inv, [Next]_vars PROVE Inv'
    OBVIOUS
<1>1. CASE Kill
      BY <1>1, EndsInv DEF Kill
<1> QED BY <1>1, LaunchInv, BootstrapInv, ClientConnectsInv, ReconnectInv, ClosingsInv,
           CommandsInv, FlipsInv DEF Next, ClientMoves

LEMMA InvHolds == Spec => []Inv
<1>1. Init => Inv
      BY InitInv
<1>2. Inv /\ [Next]_vars => Inv'
      BY NextInv
<1> QED BY <1>1, <1>2, PTL DEF Spec

-----------------------------------------------------------------------------
\* Every reachable state of the process and its Redis client is well typed: it
\* never retries more than the strategy says.
THEOREM TypeCorrect == Spec => []TypeOK
BY InvHolds, PTL DEF Inv

\* A production process that serves has secrets of its own, two of them, and a
\* password, whatever its environment and file leave to the defaults.
THEOREM SecretsSound == Spec => []ProductionSecrets
<1>1. Inv => ProductionSecrets
  <2> SUFFICES ASSUME Inv, phase = "serving", Read(env, "NODE_ENV") = "production"
               PROVE  /\ AccessSecret(env) \notin BlockedDefaults \cup Poor
                      /\ RefreshSecret(env) \notin BlockedDefaults \cup Poor
                      /\ AccessSecret(env) # RefreshSecret(env)
                      /\ DatabasePassword(env) # "postgres"
      BY DEF ProductionSecrets
  <2>1. ValidateSecrets(env)
        BY DEF Inv, SecretsInv
  <2> QED BY <2>1 DEF ValidateSecrets, ValidateSecret, AccessSecret, RefreshSecret,
                      DatabasePassword, Or
<1> QED BY <1>1, InvHolds, PTL

\* The client gives up only after three reconnections in a row were refused.
THEOREM ThreeRetries == Spec => EndsAfterThreeRetries
<1>1. Inv /\ [Next]_vars =>
         [client'.status = "end" /\ client.status # "end" => refused' >= 3]_vars
  <2> SUFFICES ASSUME Inv, Next, client'.status = "end", client.status # "end"
               PROVE  refused' >= 3
      OBVIOUS
  <2>1. CASE ClientRefused \/ ConnectionCloses
        BY <2>1, ClosingsInv
  <2>2. CASE ~(ClientRefused \/ ConnectionCloses)
    <3>1. ASSUME NEW how, Ends(how) PROVE FALSE
          BY <3>1 DEF Ends, NoClient
    <3>2. ASSUME NEW next, Enters(next) PROVE FALSE
          BY <3>2 DEF Enters, clientVars
    <3>3. CASE \E e \in Launches : Launch(e)
          BY <3>3 DEF Launch, clientVars
    <3>4. CASE Bootstrap
      <4>1. CASE ConnectRefused
            BY <4>1, <3>1 DEF ConnectRefused, clientVars
      <4>2. CASE InitModules
        <5>1. client' = [status |-> "connecting", retryAttempts |-> 0]
              BY <4>2 DEF InitModules, NoClient
        <5> QED BY <5>1
      <4> QED BY <3>4, <4>1, <4>2, <3>1, <3>2
              DEF Bootstrap, Validate, MailAdapterThrows, Connect, RunMigrations, Bind
    <3>5. CASE Reconnect
      <4>1. client' = [status |-> "connecting", retryAttempts |-> client.retryAttempts]
            BY <3>5 DEF Reconnect, Inv, ClientInv
      <4> QED BY <4>1
    <3>6. CASE ClientConnects
          BY <3>6 DEF ClientConnects
    <3>7. CASE \E r \in Request : Issue(r) \/ Answers(r)
          BY <3>7 DEF Issue, Answers
    <3>8. CASE Kill \/ DatabaseFlips \/ RedisFlips
          BY <3>8, <3>1 DEF Kill, DatabaseFlips, RedisFlips, clientVars
    <3> QED BY <2>2, <3>3, <3>4, <3>5, <3>6, <3>7, <3>8 DEF Next, ClientMoves
  <2> QED BY <2>1, <2>2
<1> QED BY <1>1, InvHolds, PTL DEF Spec, EndsAfterThreeRetries

=============================================================================
