----------------------------- MODULE MCStartup -----------------------------
(* A fresh checkout, the Docker image with and without what it needs, and
   settings the validator has to refuse or let pass. *)
EXTENDS Startup

MCFiles == "dev" :> ("NODE_ENV" :> "development" @@ "RESEND_API_KEY" :> "re_key"
                     @@ "JWT_ACCESS_SECRET" :> "your-access-secret-key-change-in-production"
                     @@ "JWT_REFRESH_SECRET" :> "strong2"
                     @@ "DB_PASSWORD" :> "postgres" @@ "RUN_MIGRATIONS" :> "true")

Deployed == "NODE_ENV" :> "production" @@ "RESEND_API_KEY" :> "re_key"
            @@ "JWT_ACCESS_SECRET" :> "strong1" @@ "DB_PASSWORD" :> "dbpassword"

MCLaunches ==
    { <<>>,                                                         \* npm run start:dev
      Deployed @@ "JWT_REFRESH_SECRET" :> "strong2",                \* reads .env.dev as well
      Deployed @@ "APP_ENV" :> "prod",                              \* no refresh secret
      Deployed @@ "JWT_REFRESH_SECRET" :> "",                       \* emptied, not unset
      Deployed @@ "JWT_REFRESH_SECRET" :> "strong1",                \* the same twice
      Deployed @@ "JWT_REFRESH_SECRET" :> "short",
      "NODE_ENV" :> "production",                                   \* the example file
      "APP_ENV" :> "prod" @@ "RESEND_API_KEY" :> "re_key",          \* NODE_ENV unset
      "APP_ENV" :> "prod" }                                         \* no mail key
=============================================================================
