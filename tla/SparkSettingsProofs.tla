------------------------ MODULE SparkSettingsProofs ------------------------
(* What holds of SparkSettings for any keys, endpoints and regions. *)
EXTENDS SparkSettings, TLAPS

\* A job that may read is there, and the settings are its own.
JobInv ==
    /\ deployment \in Config
    /\ job \in Config \cup {None}
    /\ ready => job # None
    /\ ReadsAsItself

\* What apply_s3_credentials makes of any configuration left behind.
LEMMA AppliedSettings ==
  ASSUME NEW c \in Config
  PROVE  /\ Applied("keys", c) = Built(c)["keys"]
         /\ Applied("endpoint", c) = Built(c)["endpoint"]
         /\ Applied("pathStyle", c) = "true" <=> c.endpoint # None
         /\ c.region # None => Applied("region", c) = c.region
<1>1. /\ Built(c)["keys"] = IF c.keys = None THEN Unset ELSE c.keys
      /\ Built(c)["endpoint"] = IF c.endpoint = None THEN Unset ELSE c.endpoint
      /\ Built(c)["pathStyle"] = IF c.endpoint = None THEN Unset ELSE "true"
      /\ Built(c)["region"] = IF c.region = None THEN Unset ELSE c.region
  BY DEF Built, Settings
<1>2. Unset # "true" /\ (c.region # None => c.region # Unset)
  BY SparkSettingsAssumption DEF Config
<1>3. Applied("keys", c) = Built(c)["keys"] /\ Applied("endpoint", c) = Built(c)["endpoint"]
  BY DEF Applied
<1>4. Applied("pathStyle", c) = "true" <=> c.endpoint # None
  BY <1>1, <1>2 DEF Applied
<1>5. c.region # None => Applied("region", c) = c.region
  BY <1>1, <1>2 DEF Applied
<1> QED
  BY <1>3, <1>4, <1>5

LEMMA JobSteps ==
  ASSUME JobInv, [Next]_vars
  PROVE  JobInv'
<1>1. ASSUME NEW c \in UserConfig \cup {deployment}, StartJob(c) PROVE JobInv'
  BY <1>1 DEF StartJob, JobInv, ReadsAsItself, UserConfig
<1>2. CASE SmokeTest
  BY <1>2 DEF SmokeTest, JobInv, ReadsAsItself
<1>3. CASE ApplyCredentials
  <2>1. job \in Config /\ job' = job /\ ready' /\ deployment' = deployment
    BY <1>3 DEF ApplyCredentials, JobInv
  <2>2. \A s \in Settings : hadoop'[s] = Applied(s, job)
    BY <1>3 DEF ApplyCredentials
  <2>3. {"keys", "endpoint", "pathStyle", "region"} \subseteq Settings
    BY DEF Settings
  <2>4. ReadsAsItself'
    BY <2>1, <2>2, <2>3, AppliedSettings DEF ReadsAsItself
  <2> QED
    BY <2>1, <2>4, <1>3 DEF JobInv, ApplyCredentials
<1>4. CASE StoppedHalfway
  BY <1>4 DEF StoppedHalfway, JobInv, ReadsAsItself
<1>5. CASE EndJob \/ Restart
  BY <1>5 DEF EndJob, Restart, JobInv, ReadsAsItself
<1>6. CASE UNCHANGED vars
  BY <1>6 DEF vars, JobInv, ReadsAsItself
<1> QED
  BY <1>1, <1>2, <1>3, <1>4, <1>5, <1>6 DEF Next

\* What is built and what is applied are values of settings, if those left behind are.
LEMMA SettingTypes ==
  ASSUME NEW c \in Config, hadoop \in [Settings -> Values], NEW s \in Settings
  PROVE  Built(c) \in [Settings -> Values] /\ Applied(s, c) \in Values
<1>1. /\ c.keys \in KeyPairs \cup {None} /\ c.endpoint \in Endpoints \cup {None}
      /\ c.region \in Regions \cup {None}
  BY DEF Config
<1>2. Built(c) \in [Settings -> Values]
  BY <1>1 DEF Built, Settings, Values
<1>3. hadoop[s] \in Values /\ {Unset, "false"} \subseteq Values
  BY DEF Values
<1> QED
  BY <1>2, <1>3 DEF Applied

LEMMA TypeSteps ==
  ASSUME TypeOK, [Next]_vars
  PROVE  TypeOK'
<1> USE DEF TypeOK
<1>1. ASSUME NEW c \in Config PROVE Built(c) \in [Settings -> Values]
  BY SettingTypes DEF Settings
<1>2. ASSUME NEW c \in Config, GetSession(c)
      PROVE  session' \in BOOLEAN /\ hadoop' \in [Settings -> Values]
  BY <1>1, <1>2 DEF GetSession
<1>3. ASSUME NEW c \in UserConfig \cup {deployment}, StartJob(c) PROVE TypeOK'
  BY <1>2, <1>3 DEF StartJob, UserConfig
<1>4. CASE SmokeTest
  BY <1>2, <1>4 DEF SmokeTest
<1>5. ASSUME job # None PROVE \A s \in Settings : Applied(s, job) \in Values
  BY <1>5, SettingTypes
<1>6. CASE ApplyCredentials
  BY <1>5, <1>6 DEF ApplyCredentials
<1>7. CASE StoppedHalfway
  BY <1>5, <1>7 DEF StoppedHalfway
<1>8. CASE EndJob
  BY <1>8 DEF EndJob
<1>9. CASE Restart
  BY <1>9 DEF Restart, NoSettings, Values
<1>10. CASE UNCHANGED vars
  BY <1>10 DEF vars
<1> QED
  BY <1>3, <1>4, <1>6, <1>7, <1>8, <1>9, <1>10 DEF Next

\* The live configuration has values of its settings, whatever was left half made.
THEOREM SettingsTypes == Spec => []TypeOK
<1>1. Init => TypeOK
  BY DEF Init, TypeOK, NoSettings, Values
<1> QED
  BY <1>1, TypeSteps, PTL DEF Spec

\* Whatever jobs ran in the process before, finished or stopped halfway through their
\* settings, a job reads with its own keys, endpoint and region.
THEOREM OwnSettings == Spec => []ReadsAsItself
<1>1. Init => JobInv
  <2> SUFFICES ASSUME Init PROVE JobInv
    OBVIOUS
  <2>1. ~ready /\ job = None /\ deployment \in Config
    BY DEF Init
  <2> QED
    BY <2>1 DEF JobInv, ReadsAsItself
<1>2. JobInv => ReadsAsItself
  BY DEF JobInv
<1> QED
  BY <1>1, <1>2, JobSteps, PTL DEF Spec
=============================================================================
