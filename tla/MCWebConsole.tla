------------------------------ MODULE MCWebConsole ------------------------------
(* The free pool page, the tables and the settings of the consoles share no   *)
(* state that any of them depends on: each behaviour exercises one of them.   *)
EXTENDS FreePoolPage, ConsoleTables, ConsoleSettings

VARIABLE focus

AnyTable == "default tokens"
AnyForm == CHOOSE f \in BerryForms : TRUE

WebConsoleInit ==
    /\ PoolInit /\ TablesInit /\ SettingsInit
    /\ focus \in {"pool", "tables", "settings"}
    /\ focus # "tables" => table = AnyTable
    /\ focus # "settings" => form = AnyForm /\ \A k \in Keys : stored[k] # "false"

WebConsoleNext ==
    \/ focus = "pool" /\ PoolNext /\ UNCHANGED <<tableVars, settingVars, focus>>
    \/ focus = "tables" /\ TablesNext /\ UNCHANGED <<poolVars, settingVars, focus>>
    \/ focus = "settings" /\ SettingsNext /\ UNCHANGED <<poolVars, tableVars, focus>>

\* PoolFairness, in the behaviours that are the pool page's own
OfPool(A) == focus = "pool" /\ A

WebConsoleFairness ==
    /\ \A who \in {"loud", "silent"} : WF_poolVars(OfPool(PoolLoadStep(who)))
    /\ WF_poolVars(OfPool(PoolSaveStep)) /\ WF_poolVars(OfPool(ActionAnswered))

WebConsoleSpec ==
    /\ WebConsoleInit /\ [][WebConsoleNext]_<<poolVars, tableVars, settingVars, focus>>
    /\ WebConsoleFairness

\* Every variable of the three keeps its type.
WebConsoleTypeOK == PoolTypeOK /\ TablesTypeOK /\ SettingsTypeOK

\* The loader and the buttons of the free pool page come back (the finally of its
\* calls) in the behaviours that are its own.
FreePoolComesBack == focus = "pool" => PoolComesBack
=============================================================================
