------------------------------ MODULE MCFetchers ------------------------------
(***************************************************************************)
(* The two groups of scripts that fetch for a report date.  They write      *)
(* files of their own and share no state, so a run is of one or the other.  *)
(***************************************************************************)
EXTENDS News, Feeds, TLC

CONSTANTS f1, f2, u1, u2, domestic, overseas

P(url, at) == [url |-> url, at |-> at]
TheReplies ==
  ("notice" :> {{P(u1, 3)}}) @@ ("article" :> {{P(u2, 4)}}) @@ ("query" :> {{P(u1, 4), P(u1, 5)}}) @@
  ("rss" :> {{P(u2, 2)}}) @@ ("regulatory" :> {{P(u1, 2)}}) @@
  ("search" :> {{P(u1, 4), P(u2, 3)}}) @@ ("social" :> {{P(u1, 4), P(u2, 5)}})
ThePlan == ("direct" :> <<{f1}, {f2}>>) @@ ("theme" :> <<{f1}>>) @@ ("market" :> <<>>)
TheLookback == [s \in {"notice", "article"} |-> 2] @@ [s \in {"query", "rss", "social"} |-> 3]
               @@ [s \in {"regulatory", "search"} |-> 4]
TheBrowsers == {<<>>, <<"locked", "old">>, <<"old", "good">>, <<"good">>}
TheTools == <<"web_search", "web_search_preview">>

\* Of the group that doesn't run: no news is to come, or no script is left to run.
NewsIsOver == phase = "exited" /\ now = LastMoment /\ cutoff = ReportEnd /\ pending = {} /\ asked = 0 /\ items = {}
              /\ batch = <<>> /\ circuit = FALSE /\ tool = 1 /\ cookie = None /\ file = None /\ call = None
              /\ fetched = {} /\ failed = {} /\ cited = {} /\ refused = [object |-> 0, text |-> 0]
NoScriptRuns == date = LastDay /\ runs = MaxRuns /\ quotes = [d \in FirstDay .. LastDay |-> Absent]
                /\ estimates = quotes /\ proxies = quotes

Init == (NewsInit /\ NoScriptRuns) \/ (FeedsInit /\ NewsIsOver)
Next == \/ NewsNext /\ UNCHANGED feedVars
        \/ FeedsNext /\ UNCHANGED newsVars
Spec == Init /\ [][Next]_<<newsVars, feedVars>> /\ WF_newsVars(RunStep) /\ WF_newsVars(ModelStep)
==============================================================================
