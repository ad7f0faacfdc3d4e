------------------------------ MODULE Settings ------------------------------
(***************************************************************************)
(* Settings.from_env of settings.py over the environment and the .env file *)
(* of dotenv_loader.py: the settings a process is built from, or Refused   *)
(* when from_env raises.                                                   *)
(*                                                                         *)
(* An environment gives each variable a text.  A text is Unset, Blank,     *)
(* Other (one the variable cannot be read as) or what it is read as: a     *)
(* number, a time of day in units, a set of weekdays, a word.  The texts   *)
(* nothing checks (SERVERS_DIR, PROXY_ADDR, LOG_FILE) are left out.        *)
(***************************************************************************)
EXTENDS Integers

CONSTANTS
    DayLength,
    Default,    \* what from_env takes for a variable that is not set
    Unset, Blank, Other,
    Refused

Numbers ==
    {"REFRESH_INTERVAL_SECONDS", "HTTP_TIMEOUT_SECONDS", "HTTP_MAX_WORKERS",
     "DEDUP_WINDOW_MINUTES", "FILTER_HOLD_FAST_SECONDS", "FILTER_HOLD_CRITICAL_SECONDS",
     "FILTER_HOLD_WARNING_SECONDS", "FILTER_DURATION_MAX_SECONDS"}

(* What the texts of an environment can be read as.                        *)
Readable(env) ==
    /\ \A name \in Numbers : env[name] \in Int \cup {Unset, Blank, Other}
    /\ env.WINDOW_DAYS \in (SUBSET (0 .. 6)) \cup {Unset, Blank, Other}

(* load_project_dotenv(override=True): the file wins, unless disabled.     *)
Loaded(dotenv, environ) ==
    IF environ.NAGSTAMON_DISABLE_DOTENV = "true" THEN environ
    ELSE [name \in DOMAIN environ |->
            IF dotenv[name] = Unset THEN environ[name] ELSE dotenv[name]]

Text(env, name) == IF env[name] = Unset THEN Default[name] ELSE env[name]

(* `.strip() or default`: a variable set to nothing is one not set.        *)
TextOr(env, name) ==
    IF env[name] \in {Unset, Blank} THEN Default[name] ELSE env[name]

(* One of the spellings of true; anything else, blanks included, is false. *)
ParseBool(raw) == raw = "true"

ParsePositive(raw) ==
    IF raw \in {Blank, Other} THEN Refused ELSE IF raw > 0 THEN raw ELSE Refused

ParseHhmm(raw) ==
    IF raw = Other THEN Refused ELSE IF raw \in 0 .. DayLength - 1 THEN raw ELSE Refused

ParseChoice(raw, choices) == IF raw \in choices THEN raw ELSE Refused

(* Names and numbers of days, in any order and repeated; none is Mon-Fri.  *)
ParseWeekdays(raw) ==
    IF raw = Other THEN Refused ELSE IF raw = {} THEN Default.WINDOW_DAYS ELSE raw

Noon == DayLength \div 2

(* Past active alerts are the morning shift's, unless the variable says.   *)
AllowPast(env) ==
    IF env.WINDOW_ALLOW_PAST_ACTIVE_ALERTS \in {Unset, Blank}
    THEN LET start == ParseHhmm(TextOr(env, "WINDOW_START"))
         IN  start # Refused /\ start < Noon
    ELSE ParseBool(env.WINDOW_ALLOW_PAST_ACTIVE_ALERTS)

Fields(env) ==
    [refresh_interval     |-> ParsePositive(Text(env, "REFRESH_INTERVAL_SECONDS")),
     http_timeout_seconds |-> ParsePositive(Text(env, "HTTP_TIMEOUT_SECONDS")),
     http_max_workers     |-> ParsePositive(Text(env, "HTTP_MAX_WORKERS")),
     log_level   |-> ParseChoice(TextOr(env, "LOG_LEVEL"),
                                 {"DEBUG", "INFO", "WARNING", "ERROR", "CRITICAL"}),
     log_format  |-> ParseChoice(TextOr(env, "LOG_FORMAT"), {"text", "json"}),
     dedup_enabled        |-> ParseBool(Text(env, "DEDUP_ENABLED")),
     dedup_window_minutes |-> ParsePositive(Text(env, "DEDUP_WINDOW_MINUTES")),
     dedup_ledger_path    |-> env.DEDUP_LEDGER_PATH,
     gchat_webhook_url    |-> env.GCHAT_WEBHOOK_URL,
     window_enabled |-> ParseBool(Text(env, "WINDOW_ENABLED")),
     window_start   |-> ParseHhmm(TextOr(env, "WINDOW_START")),
     window_end     |-> ParseHhmm(TextOr(env, "WINDOW_END")),
     timezone       |-> ParseChoice(TextOr(env, "WINDOW_TIMEZONE"), {"America/Sao_Paulo"}),
     weekdays       |-> ParseWeekdays(TextOr(env, "WINDOW_DAYS")),
     allow_past     |-> AllowPast(env),
     hold_fast      |-> ParsePositive(TextOr(env, "FILTER_HOLD_FAST_SECONDS")),
     hold_critical  |-> ParsePositive(TextOr(env, "FILTER_HOLD_CRITICAL_SECONDS")),
     hold_warning   |-> ParsePositive(TextOr(env, "FILTER_HOLD_WARNING_SECONDS")),
     max_duration   |-> ParsePositive(TextOr(env, "FILTER_DURATION_MAX_SECONDS"))]

HoldTooLong(fields) ==
    \E hold \in {fields.hold_fast, fields.hold_critical, fields.hold_warning} :
        hold >= fields.max_duration

FromEnv(env) ==
    LET fields == Fields(env)
    IN  IF \E name \in DOMAIN fields : fields[name] = Refused THEN Refused
        ELSE IF HoldTooLong(fields) THEN Refused
        ELSE fields
=============================================================================
