------------------------------- MODULE Config -------------------------------
(***************************************************************************)
(* The operator's configuration, as it is read from the environment when   *)
(* the process starts (internal/config/config.go, Load).  env is a record  *)
(* with one text per variable.                                             *)
(***************************************************************************)
EXTENDS Texts

DefaultDriftCheckInterval == 30
ValidLogLevels == {"debug", "info", "warn", "error"}

LogLevel(env) == Lower[OrDefault(env.LOG_LEVEL, "info")]

DriftCheckInterval(env) ==
    IF env.DRIFT_CHECK_INTERVAL = "" THEN DefaultDriftCheckInterval
    ELSE DurationOf[env.DRIFT_CHECK_INTERVAL]

(* Bug to plant: an interval of zero, which turns the drift check off.     *)
IntervalAcceptedZero(env) ==
    \/ env.DRIFT_CHECK_INTERVAL = ""
    \/ env.DRIFT_CHECK_INTERVAL \in DOMAIN DurationOf

IntervalAccepted(env) ==
    \/ env.DRIFT_CHECK_INTERVAL = ""
    \/ /\ env.DRIFT_CHECK_INTERVAL \in DOMAIN DurationOf
       /\ DriftCheckInterval(env) > 0

HasPassword(env) == env.KUMA_USERNAME # "" /\ env.KUMA_PASSWORD # ""

CredentialsAccepted(env) ==
    /\ env.KUMA_USERNAME = "" <=> env.KUMA_PASSWORD = ""
    /\ HasPassword(env) \/ env.KUMA_SESSION_TOKEN # ""
    /\ env.KUMA_TOTP_SECRET # "" => HasPassword(env)

(* The namespaces watched unless WATCH_ALL is set: those listed, or else   *)
(* the pod's own.                                                          *)
WatchNamespaces(env) ==
    LET listed == CommaList(env.WATCH_NAMESPACES)
    IN  IF listed = <<>> /\ env.WATCH_ALL # "true" /\ env.POD_NAMESPACE # ""
        THEN <<env.POD_NAMESPACE>> ELSE listed

LabelTagPatterns(env) == CommaList(env.LABEL_TAG_PATTERNS)

Load(env) ==
    IF /\ LogLevel(env) \in ValidLogLevels /\ IntervalAccepted(env)
       /\ env.KUMA_URL # "" /\ CredentialsAccepted(env)
       /\ \A i \in DOMAIN LabelTagPatterns(env) :
             LabelTagPatterns(env)[i] \in Compiles
       /\ env.WATCH_ALL = "true" \/ WatchNamespaces(env) # <<>>
    THEN [url |-> env.KUMA_URL, password |-> env.KUMA_PASSWORD,
          token |-> env.KUMA_SESSION_TOKEN, logLevel |-> LogLevel(env),
          watchAll |-> env.WATCH_ALL = "true",
          watchNamespaces |-> WatchNamespaces(env),
          optInByDefault |-> env.OPT_IN_BY_DEFAULT = "true",
          driftCheckInterval |-> DriftCheckInterval(env),
          defaultTags |-> CommaList(env.DEFAULT_TAGS),
          labelTagPatterns |-> LabelTagPatterns(env)]
    ELSE Invalid
=============================================================================
