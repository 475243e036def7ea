---------------------------- MODULE Configuration ----------------------------
(***************************************************************************)
(* What the API (cmd/api/config.go, main.go) and the worker                *)
(* (cmd/worker/config.go, main.go) make of one environment, such as the    *)
(* .env file both load.  They read the same variables with different rules *)
(* for what is missing, empty, padded with blanks or not a number.         *)
(*                                                                         *)
(* An environment maps each variable to its text, or to "unset".  Few      *)
(* texts are needed: an empty one, one that does not parse, one with       *)
(* blanks around it where the code trims, and numbers at the boundaries    *)
(* the code tests.                                                         *)
(***************************************************************************)
EXTENDS Integers, Sequences, FiniteSets, TLC

RedisDurations == {"REDIS_DIAL_TIMEOUT", "REDIS_READ_TIMEOUT", "REDIS_WRITE_TIMEOUT"}
ApiDurations ==
  {"ANALYTICS_QUERY_TIMEOUT", "CIRCUIT_BREAKER_OPEN_TIMEOUT", "RATE_LIMIT_DECISION_TIMEOUT"}
WorkerDurations ==
  {"APPROVAL_WORKER_BLOCK", "APPROVAL_WORKER_CLAIM_IDLE", "APPROVAL_WORKER_CLAIM_INTERVAL",
   "APPROVAL_WORKER_RETRY_BACKOFF", "APPROVAL_WORKER_STATUS_INTERVAL"}

\* The texts a variable may be set to.
Texts ==
  [d \in RedisDurations |-> {"garbage", "0"}] @@
  [d \in ApiDurations \cup WorkerDurations |-> {"0"}] @@
  [REDIS_ADDR |-> {"other"}, REDIS_DB |-> {"1"},
   REDIS_MASTER_NAME |-> {" main"}, REDIS_SENTINEL_ADDRS |-> {" ", "s1, s2", "s1, "},
   DATABASE_URL |-> {"", " ", "malformed", "other", " other", "other "},
   RATE_LIMIT_EVENT_STREAM |-> {"", "other"},
   RATE_LIMIT_EVENT_MAX_BACKLOG |-> {"", "garbage", "-1", "0", "1"},
   CIRCUIT_BREAKER_FAILURE_THRESHOLD |-> {"garbage"},
   APPROVAL_WORKER_BATCH_SIZE |-> {"-1"}, APPROVAL_WORKER_GROUP |-> {""},
   APPROVAL_WORKER_BACKLOG_WARNING_PERCENT |-> {"101"}]

\* The environments in which at most n variables are set.
Environments(n) ==
  LET Setting(S) == {f \in [S -> UNION {Texts[v] : v \in S}] : \A v \in S : f[v] \in Texts[v]}
  IN  UNION {{f @@ [v \in DOMAIN Texts |-> "unset"] : f \in Setting(S)} :
                S \in {T \in SUBSET DOMAIN Texts : Cardinality(T) <= n}}

-----------------------------------------------------------------------------
\* env.GetEnv: a variable that is set to the empty text exists.
GetEnv(e, name, fallback) == IF e[name] # "unset" THEN e[name] ELSE fallback

\* strconv.Atoi, where it does not fail.
Atoi ==
  "-1" :> -1 @@ "0" :> 0 @@ "1" :> 1 @@ "3" :> 3 @@ "80" :> 80 @@ "100" :> 100 @@ "101" :> 101
  @@ "100000" :> 100000

GetEnvAsInt(e, name, fallback) ==
  LET text == GetEnv(e, name, fallback)
  IN  IF text \in DOMAIN Atoi THEN Atoi[text] ELSE Atoi[fallback]

\* positiveInt returns no error; so does positiveDuration, whose fallbacks are
\* all positive.
positiveInt(e, name, fallback) ==
  LET text == GetEnv(e, name, fallback)
  IN  text \in DOMAIN Atoi /\ Atoi[text] > 0
positiveDuration(e, name) == GetEnv(e, name, "1") \notin {"garbage", "0"}

\* strings.TrimSpace, of the texts above and of their parts.
TrimSpace(text) ==
  CASE text = " " -> ""
    [] text = " main" -> "main"
    [] text = " s2" -> "s2"
    [] text \in {" other", "other "} -> "other"
    [] OTHER -> text

\* strings.Split at commas, with each part trimmed.
Split ==
  LET parts == "s1, s2" :> <<"s1", " s2">> @@ "s1, " :> <<"s1", " ">>
  IN  [text \in DOMAIN parts |-> [i \in DOMAIN parts[text] |-> TrimSpace(parts[text][i])]]

\* loadRedisConfig, the same in both processes but for a default: whether it
\* accepts the environment, and the Redis that newRedisClient then connects to.
RedisValid(e) ==
  LET master == TrimSpace(GetEnv(e, "REDIS_MASTER_NAME", ""))
      sentinels == GetEnv(e, "REDIS_SENTINEL_ADDRS", "")
  IN  /\ \A d \in RedisDurations : positiveDuration(e, d)
      /\ \/ master = "" /\ TrimSpace(sentinels) = ""
         \/ /\ master # "" /\ TrimSpace(sentinels) # ""
            /\ \A i \in DOMAIN Split[sentinels] : Split[sentinels][i] # ""

newRedisClient(e) ==
  LET master == TrimSpace(GetEnv(e, "REDIS_MASTER_NAME", ""))
      db == GetEnvAsInt(e, "REDIS_DB", "0")
  IN  IF master # "" THEN <<master, Split[e["REDIS_SENTINEL_ADDRS"]], db>>
      ELSE <<GetEnv(e, "REDIS_ADDR", "localhost:6379"), <<>>, db>>

\* What the two processes must share: a Redis, a stream and its limit in Redis,
\* and a database.
Settings(redis, stream, limit, url) ==
  [redis |-> redis, stream |-> stream, limit |-> limit, database |-> url]

-----------------------------------------------------------------------------
\* loadCircuitBreakerConfig returns no error.
BreakerValid(e) ==
  /\ positiveInt(e, "CIRCUIT_BREAKER_FAILURE_THRESHOLD", "3")
  /\ positiveDuration(e, "CIRCUIT_BREAKER_OPEN_TIMEOUT")
  /\ positiveDuration(e, "RATE_LIMIT_DECISION_TIMEOUT")

\* The API's loadConfig returns no error.
ApiValid(e) == RedisValid(e) /\ BreakerValid(e) /\ positiveDuration(e, "ANALYTICS_QUERY_TIMEOUT")

\* The API goes on without RATE_LIMIT_EVENT_MAX_BACKLOG when it is no number.
ApiLimit(e) == GetEnvAsInt(e, "RATE_LIMIT_EVENT_MAX_BACKLOG", "100000")

\* NewRedisTokenBucketRateLimiter fails only for a negative limit, and replaces
\* an empty stream name and a limit of zero by their defaults.
NewLimiterFails(e) == ApiLimit(e) < 0

\* The API takes DATABASE_URL as it is.
ApiSettings(e) ==
  LET stream == GetEnv(e, "RATE_LIMIT_EVENT_STREAM", "rate_limit:approved_requests")
  IN  Settings(newRedisClient(e),
               IF stream = "" THEN "rate_limit:approved_requests" ELSE stream,
               IF ApiLimit(e) = 0 THEN 100000 ELSE ApiLimit(e),
               GetEnv(e, "DATABASE_URL", "localhost:5433"))

\* The worker's loadConfig returns no error.
WorkerValid(e) ==
  LET percent == "APPROVAL_WORKER_BACKLOG_WARNING_PERCENT"
  IN  /\ RedisValid(e)
      /\ positiveInt(e, "APPROVAL_WORKER_BATCH_SIZE", "100")
      /\ \A d \in WorkerDurations : positiveDuration(e, d)
      /\ positiveInt(e, "RATE_LIMIT_EVENT_MAX_BACKLOG", "100000")
      /\ positiveInt(e, percent, "80") /\ GetEnvAsInt(e, percent, "80") <= 100
      /\ TrimSpace(GetEnv(e, "DATABASE_URL", "")) # ""

\* Mutant of NewProcessorFails: an empty stream name is accepted.
NewProcessorFailsOnGroup(e) == GetEnv(e, "APPROVAL_WORKER_GROUP", "approval-history") = ""

\* NewProcessor has no defaults of its own.  The consumer name is never empty.
NewProcessorFails(e) ==
  \/ GetEnv(e, "RATE_LIMIT_EVENT_STREAM", "rate_limit:approved_requests") = ""
  \/ GetEnv(e, "APPROVAL_WORKER_GROUP", "approval-history") = ""

\* The worker trims DATABASE_URL.
WorkerSettings(e) ==
  Settings(newRedisClient(e),
           GetEnv(e, "RATE_LIMIT_EVENT_STREAM", "rate_limit:approved_requests"),
           GetEnvAsInt(e, "RATE_LIMIT_EVENT_MAX_BACKLOG", "100000"),
           TrimSpace(GetEnv(e, "DATABASE_URL", "")))

\* pgxpool.New parses the URL and connects to nothing.  A text that begins with
\* a blank is no URL to it but a list of keywords with values, and opens a pool
\* on another database; a blank at the end spoils the last parameter.
OpenPostgresPoolFails(url) == url \in {"malformed", " ", "other "}
=============================================================================
