----------------------------- MODULE DailyPipeline ------------------------------
(***************************************************************************)
(* The steps of the daily pipeline: what STEP_OUTPUT_CHECKS declares of a  *)
(* script and what the script does.  The files of a date that are not made *)
(* by the pipeline, the network and settings.toml are left out; advice     *)
(* stands for committee_advice, llm_advice and the decision bundle.        *)
(***************************************************************************)
EXTENDS Pipeline

Row(outputs, inputs, resumable, reads, writes) ==
  [outputs |-> outputs, inputs |-> inputs, resumable |-> resumable,
   reads |-> reads, writes |-> writes]

Quotes == Row({"quotes"}, {}, TRUE, {}, <<"quotes">>)
News == Row({"news"}, {}, TRUE, {"portfolio"}, <<"news">>)
Profiles == Row({"profiles"}, {}, TRUE, {}, <<"profiles">>)
Score == Row({"score"}, {"quotes", "news"}, TRUE, {"quotes", "news"}, <<"score">>)
Proxies == Row({"proxies"}, {}, TRUE, {"portfolio"}, <<"proxies">>)
Estimate == Row({"estimate"}, {"quotes"}, TRUE, {"quotes", "portfolio"}, <<"estimate">>)

Fetched == {"quotes", "news", "profiles", "proxies", "estimate"}

\* Besides its context it writes the source health of the date.
Context ==
  Row({"context"}, Fetched \cup {"portfolio", "memory"}, TRUE,
      Fetched \cup {"portfolio", "memory", "strategy"}, <<"context", "health">>)

Index == Row({"index"}, {"context"}, TRUE, {"context"}, <<"index">>)

\* It adds a summary to the source health.
Health ==
  Row({"health"}, {"context", "quotes", "news", "proxies", "estimate"}, TRUE,
      {"health"}, <<"health">>)

Chain ==
  Row({"advice", "validated", "status"},
      {"context", "score", "portfolio", "memory", "strategy", "llm"}, TRUE,
      {"context", "score", "index", "portfolio", "memory", "strategy", "llm"},
      <<"advice", "validated", "status">>)

\* It adds the changes since the last date to the validated advice.
Delta == Row({"delta"}, {"validated"}, TRUE, {"validated"}, <<"validated", "delta">>)

Evaluation == Row({"evaluation"}, {"validated"}, TRUE, {"reviews"}, <<"evaluation">>)

\* A report is written by write_text, which empties the file first.
DailyReport ==
  Row({"dailyReport"}, {"validated", "context"}, TRUE,
      (Fetched \ {"estimate"}) \cup
        {"portfolio", "strategy", "validated", "delta", "health", "evaluation"},
      <<"dailyReport", "dailyReport">>)
PortfolioReport ==
  Row({"portfolioReport"}, {"validated", "portfolio"}, TRUE,
      {"portfolio", "strategy", "profiles", "validated", "delta", "evaluation", "memory",
       "memoryView"},
      <<"portfolioReport", "portfolioReport">>)

\* The index of the retrieval is not among the files of the date.
Rag == Row({}, {}, FALSE, {"context"}, <<>>)
\* Copies of the context, the advice and the report go to a new directory.
Snapshot == Row({}, {}, FALSE, {"context", "advice", "validated", "portfolioReport"}, <<>>)

Revalue == Row({}, {}, FALSE, {"portfolio", "quotes", "estimate"}, <<"portfolio">>)
Learning ==
  Row({"learningReport"}, {"validated"}, TRUE,
      {"portfolio", "quotes", "estimate", "proxies", "validated"},
      <<"reviews", "memoryView", "learningReport">>)

Table ==
  [quotes |-> Quotes, news |-> News, profiles |-> Profiles, score |-> Score,
   proxies |-> Proxies, estimate |-> Estimate, context |-> Context, index |-> Index,
   health |-> Health, chain |-> Chain, delta |-> Delta, evaluation |-> Evaluation,
   dailyReport |-> DailyReport, portfolioReport |-> PortfolioReport, rag |-> Rag,
   snapshot |-> Snapshot, revalue |-> Revalue, learning |-> Learning]

TheSteps == DOMAIN Table
TheOutputs == [s \in TheSteps |-> Table[s].outputs]
TheInputs == [s \in TheSteps |-> Table[s].inputs]
TheReads == [s \in TheSteps |-> Table[s].reads]
TheWrites == [s \in TheSteps |-> Table[s].writes]
TheResumable == {s \in TheSteps : Table[s].resumable}
TheFiles == UNION {Table[s].outputs \cup Table[s].inputs \cup Table[s].reads : s \in TheSteps}

Fetch == <<{"quotes", "news", "profiles"}>>

\* run_intraday, with the optional retrieval steps.
Intraday ==
  Fetch \o <<{"score", "proxies", "estimate"}, {"context"}, {"index"}, {"health"}, {"chain"},
             {"delta"}, {"evaluation"}, {"dailyReport"}, {"portfolioReport"}, {"rag"},
             {"snapshot"}>>

\* run_nightly
Nightly == Fetch \o <<{"revalue"}, {"learning"}, {"evaluation"}>>

TheStages == [intraday |-> Intraday, nightly |-> Nightly]

Request(kind, resume, fake) == [kind |-> kind, resume |-> resume, demo |-> fake, mock |-> fake]

-------------------------------------------------------------------------------
\* What --resume-existing does not see change.
TheUnwatched ==
  [s \in TheSteps |->
     CASE s \in {"news", "proxies", "estimate"} -> {"portfolio"}
       [] s = "context" -> {"strategy"}
       [] s = "evaluation" -> {"reviews"}
       [] s = "learning" -> {"portfolio", "quotes", "estimate", "proxies"}
       [] OTHER -> {}]
================================================================================
