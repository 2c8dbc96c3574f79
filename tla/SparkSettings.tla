--------------------------- MODULE SparkSettings ---------------------------
(***************************************************************************)
(* How the jobs of one worker process reach S3 (processing/spark_session.py *)
(* and apps/core/spark.py).  The Spark session is created once, with the    *)
(* settings of whatever needed it first; each job then sets its own         *)
(* connection on the live Hadoop configuration, over what the jobs before   *)
(* it left there, some of them stopped halfway through.                     *)
(***************************************************************************)
EXTENDS Integers

CONSTANTS
    KeyPairs,   \* access keys with their secret keys
    Endpoints,  \* S3 endpoints other than AWS, such as MinIO
    Plain,      \* those of them that are reached over http
    Regions,    \* AWS regions
    None,       \* no keys, no endpoint or no region: empty in a connection
    Unset       \* a Hadoop setting without a value: Hadoop's default

ASSUME SparkSettingsAssumption ==
    /\ None \notin KeyPairs \cup Endpoints \cup Regions
    /\ Unset \notin KeyPairs \cup Endpoints \cup Regions \cup {"simple", "true", "false"}
    /\ Plain \subseteq Endpoints

\* The S3 part of a SparkConfig: a deployment may have no keys, to be found in the
\* environment, and no endpoint; a connection entered by a user has keys.
Config == [keys : KeyPairs \cup {None}, endpoint : Endpoints \cup {None},
           region : Regions \cup {None}]
UserConfig == {c \in Config : c.keys # None}

\* fs.s3a.aws.credentials.provider, access.key with secret.key, endpoint.region, endpoint,
\* path.style.access and connection.ssl.enabled.
Settings == {"provider", "keys", "region", "endpoint", "pathStyle", "ssl"}

Values == {"simple", "true", "false", Unset} \cup KeyPairs \cup Endpoints \cup Regions

\* build_spark_conf: a setting a configuration says nothing of is not in it.
Built(c) ==
    [s \in Settings |->
        CASE s = "provider"  -> IF c.keys = None THEN Unset ELSE "simple"
          [] s = "keys"      -> IF c.keys = None THEN Unset ELSE c.keys
          [] s = "region"    -> IF c.region = None THEN Unset ELSE c.region
          [] s = "endpoint"  -> IF c.endpoint = None THEN Unset ELSE c.endpoint
          [] s = "pathStyle" -> IF c.endpoint = None THEN Unset ELSE "true"
          [] s = "ssl"       -> IF c.endpoint = None THEN Unset
                                ELSE IF c.endpoint \in Plain THEN "false" ELSE "true"]

VARIABLES
    deployment, \* the settings of the deployment, which are the demo connection too
    session,    \* is there a Spark session in this process
    hadoop,     \* its live Hadoop configuration
    job,        \* the configuration of the job that runs, or None
    ready       \* the job has its settings and may read its source

vars == <<deployment, session, hadoop, job, ready>>

TypeOK ==
    /\ deployment \in Config
    /\ session \in BOOLEAN
    /\ hadoop \in [Settings -> Values]
    /\ job \in Config \cup {None}
    /\ ready \in BOOLEAN

NoSettings == [s \in Settings |-> Unset]

Init ==
    /\ deployment \in Config
    /\ session = FALSE
    /\ hadoop = NoSettings
    /\ job = None
    /\ ready = FALSE

\* get_spark_session: the first caller's settings are built into the session; a session
\* that exists is returned as it is.
GetSession(c) ==
    /\ session' = TRUE
    /\ hadoop' = IF session THEN hadoop ELSE Built(c)

\* _run_spark: load the connection and get the session.
StartJob(c) ==
    /\ job = None
    /\ job' = c
    /\ GetSession(c)
    /\ ready' = FALSE
    /\ UNCHANGED deployment

\* spark_smoke_test: the settings of the deployment, used only if it comes first.
SmokeTest ==
    /\ job = None
    /\ GetSession(deployment)
    /\ UNCHANGED <<deployment, job, ready>>

\* Mutant: settings are set and never cleared.
NeverCleared(s, c) == IF Built(c)[s] # Unset THEN Built(c)[s] ELSE hadoop[s]

\* apply_s3_credentials, one setting: set what the configuration has, clear keys and
\* endpoint when it has none, and leave the rest.
Applied(s, c) ==
    CASE Built(c)[s] # Unset                               -> Built(c)[s]
      [] Built(c)[s] = Unset /\ s \in {"keys", "endpoint"} -> Unset
      [] Built(c)[s] = Unset /\ s = "pathStyle"            -> "false"
      [] OTHER                                             -> hadoop[s]

ApplyCredentials ==
    /\ job # None /\ ~ready
    /\ hadoop' = [s \in Settings |-> Applied(s, job)]
    /\ ready' = TRUE
    /\ UNCHANGED <<deployment, session, job>>

\* A time limit strikes between two of these settings: some are made, others are not.
StoppedHalfway ==
    /\ job # None /\ ~ready
    /\ \E done \in SUBSET Settings :
         hadoop' = [s \in Settings |-> IF s \in done THEN Applied(s, job) ELSE hadoop[s]]
    /\ job' = None
    /\ UNCHANGED <<deployment, session, ready>>

\* The run ends, whatever its outcome: nothing of its settings is taken back.
EndJob ==
    /\ job # None
    /\ job' = None
    /\ ready' = FALSE
    /\ UNCHANGED <<deployment, session, hadoop>>

\* The worker process is replaced.
Restart ==
    /\ session' = FALSE
    /\ hadoop' = NoSettings
    /\ job' = None
    /\ ready' = FALSE
    /\ UNCHANGED deployment

Next ==
    \/ \E c \in UserConfig \cup {deployment} : StartJob(c)
    \/ SmokeTest \/ ApplyCredentials \/ StoppedHalfway \/ EndJob \/ Restart

Spec == Init /\ [][Next]_vars

-----------------------------------------------------------------------------
\* apply_s3_credentials: "rather than reusing a previous job's keys".  Whatever ran before,
\* and wherever it was stopped, a job reads its source at its own endpoint, in its own
\* region if it names one, with its own keys or with none.
ReadsAsItself ==
    ready => /\ hadoop["keys"] = Built(job)["keys"]
             /\ hadoop["endpoint"] = Built(job)["endpoint"]
             /\ hadoop["pathStyle"] = "true" <=> job.endpoint # None
             /\ job.region # None => hadoop["region"] = job.region

\* "Fall back to the default chain" (apply_s3_credentials; build_spark_conf: "Without static
\* keys, S3A falls back to its default chain"): a job without keys uses the default
\* credentials provider, which finds them in the environment.
FallsBackToDefaultChain ==
    ready /\ job.keys = None => hadoop["provider"] = Unset
=============================================================================
