------------------------------ MODULE MCDaemon ------------------------------
(* Small weeks: a day of 12 units, and environments that differ from the    *)
(* defaults in a few variables. *)
EXTENDS Daemon, FiniteSetsExt, TLC

DefaultTexts ==
    [NAGSTAMON_DISABLE_DOTENV |-> "false",
     REFRESH_INTERVAL_SECONDS |-> 30, HTTP_TIMEOUT_SECONDS |-> 5,
     HTTP_MAX_WORKERS |-> 30, LOG_LEVEL |-> "INFO", LOG_FORMAT |-> "text",
     DEDUP_ENABLED |-> "true", DEDUP_WINDOW_MINUTES |-> 2,
     DEDUP_LEDGER_PATH |-> Unset, GCHAT_WEBHOOK_URL |-> Unset,
     WINDOW_ENABLED |-> "true", WINDOW_START |-> 6, WINDOW_END |-> 11,
     WINDOW_ALLOW_PAST_ACTIVE_ALERTS |-> Unset, WINDOW_TIMEZONE |-> "America/Sao_Paulo",
     WINDOW_DAYS |-> 0 .. 4,
     FILTER_HOLD_FAST_SECONDS |-> 1, FILTER_HOLD_CRITICAL_SECONDS |-> 2,
     FILTER_HOLD_WARNING_SECONDS |-> 3, FILTER_DURATION_MAX_SECONDS |-> 12]

NoTexts == [name \in DOMAIN DefaultTexts |-> Unset]

With(texts) == texts @@ NoTexts

Chat == [GCHAT_WEBHOOK_URL |-> "webhook"]

Case(environ, dotenv, broken, problems) ==
    {[environ |-> environ, dotenv |-> dotenv, problem |-> p, faults |-> broken] :
        p \in problems}

(* Births all over the first day, at both ends of the second's window, and *)
(* in the third's, which is off.                                           *)
Births == 2 .. 9 \cup {11, 12, 13, 18, 30}

Born(births, sources, severities, marks) ==
    [since : births, until : {36}, source : sources, severity : severities,
     marks : marks]

Afternoon == With([WINDOW_DAYS |-> {0, 1}] @@ Chat)

(* A shift that begins before noon tells of older problems too.            *)
Morning == With([WINDOW_DAYS |-> {0, 1}, WINDOW_START |-> 4, WINDOW_END |-> 10] @@ Chat)

Unledgered == [DEDUP_ENABLED |-> "false"]

Shifts ==
    Case(Afternoon, NoTexts, {},
         Born(Births, {"starts_at", "to_minutes"}, {"CRITICAL", "WARNING"}, {{}})
           \cup Born({6, 10, 23}, {"starts_at", "to_minutes"}, {"WARNING"}, {{"fast"}})
           \cup Born({6}, {"unknown"}, {"CRITICAL"}, {{}}))
      \cup Case(Morning, NoTexts, {},
                Born({1, 4, 9, 18}, {"starts_at", "to_seconds"}, {"CRITICAL", "WARNING"}, {{}}))
      \cup Case(Afternoon, NoTexts, {"refused"},
                Born({6, 7}, {"starts_at"}, {"CRITICAL"}, {{"fast"}}))
      \cup Case(Unledgered @@ Afternoon, NoTexts, {"refused"},
                Born({6, 7}, {"starts_at"}, {"CRITICAL"}, {{"fast"}}))
      \cup Case(Afternoon, NoTexts, {"unanswered"},
                Born({6, 7}, {"starts_at"}, {"CRITICAL"}, {{"fast"}}))
      \cup Case(Unledgered @@ Afternoon, NoTexts, {"unanswered"},
                Born({6}, {"starts_at"}, {"CRITICAL"}, {{"fast"}}))

(* The window is off: by the .env file, by nothing, by name.               *)
Always(texts) == With([WINDOW_ENABLED |-> Blank] @@ texts)

AlwaysByFile == With([WINDOW_ENABLED |-> "false"])

Marked(until, sources, severities, marks) ==
    [since : 0 .. 3, until : {until}, source : sources, severity : severities,
     marks : marks]

(* Marks enough to reach each clause of the policy, alone or in pairs.     *)
Pairs == UNION {kSubset(n, Marks) : n \in 0 .. 2}

LongHolds ==
    [FILTER_HOLD_FAST_SECONDS |-> 4, FILTER_HOLD_CRITICAL_SECONDS |-> 5,
     FILTER_HOLD_WARNING_SECONDS |-> 6]

DayAndNight ==
    Case(Chat @@ NoTexts, AlwaysByFile, {}, Marked(9, {"starts_at"}, Severities, Pairs))
      \cup Case(Always(LongHolds @@ Chat), NoTexts, {},
                Marked(16, {"to_minutes", "to_seconds"}, {"CRITICAL"}, {{}}))
      \cup Case(Always(Chat), NoTexts, {"fetch", "refused"},
                Marked(9, {"starts_at"}, {"CRITICAL"}, {{}}))
      \cup Case(Always(Chat), NoTexts, {"refused"},
                Marked(12, {"starts_at"}, {"CRITICAL"}, {{}, {"fast"}}))
      \cup Case(Always(Chat), NoTexts, {"fetch", "unanswered"},
                Marked(9, {"starts_at"}, {"CRITICAL"}, {{}}))
      \cup Case(Always(Chat), NoTexts, {"refused", "unanswered"},
                Marked(12, {"starts_at"}, {"CRITICAL"}, {{}, {"fast"}}))
      \cup Case(Always(Unledgered @@ Chat), NoTexts, {"refused"},
                Marked(12, {"starts_at"}, {"CRITICAL"}, {{}}))

AllCases == Shifts \cup DayAndNight
=============================================================================
