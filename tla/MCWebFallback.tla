------------------------------ MODULE MCWebFallback ------------------------------
(* The Fallback page, the statistics of its metrics panel and the model editor *)
(* share no state that any of them depends on: each behaviour exercises one.   *)
EXTENDS FallbackPage, RuntimeMetrics, GatewayEditor

VARIABLE exercised

WebFallbackInit ==
    /\ PageInit /\ MetricsInit /\ EditorInit
    /\ exercised \in {"page", "metrics", "editor"}
    /\ exercised # "page" => panel = "logs"

WebFallbackNext ==
    \/ exercised = "page" /\ PageNext /\ UNCHANGED <<metricsVars, editorVars, exercised>>
    \/ exercised = "metrics" /\ MetricsNext /\ UNCHANGED <<pageVars, editorVars, exercised>>
    \/ exercised = "editor" /\ EditorNext /\ UNCHANGED <<pageVars, metricsVars, exercised>>

webFallbackVars == <<pageVars, metricsVars, editorVars, exercised>>

\* PageFairness and EditorFairness, each in the behaviours that are its own
OfPage(A) == exercised = "page" /\ A
OfEditor(A) == exercised = "editor" /\ A

WebFallbackFairness ==
    /\ \A s \in 1..Slots : WF_pageVars(OfPage(LoadStep(s)))
    /\ WF_pageVars(OfPage(Poll))
    /\ WF_pageVars(OfPage(loadSummary))
    /\ WF_pageVars(OfPage(OpStep))
    /\ WF_pageVars(OfPage(MarkStored \/ MarkShown))
    /\ \A who \in Loads : WF_editorVars(OfEditor(ConfigArrives(who)))
    /\ WF_editorVars(OfEditor(SaveStep))
    /\ WF_editorVars(OfEditor(Retry))

WebFallbackSpec ==
    /\ WebFallbackInit /\ [][WebFallbackNext]_webFallbackVars
    /\ WebFallbackFairness

\* Every variable of the three keeps its type.
WebFallbackTypeOK == PageTypeOK /\ MetricsTypeOK /\ EditorTypeOK

\* The page comes to rest on the gateway's state (the intervals of useFallbackPage),
\* and the model editor comes back and releases its buttons (the finally of execute
\* and of loadConfig), each in the behaviours that are its own.
ComesToRest ==
    /\ exercised = "page" => PageCatchesUp
    /\ exercised = "editor" => EditorComesBack
=============================================================================
