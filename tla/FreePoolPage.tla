------------------------------ MODULE FreePoolPage ------------------------------
(***************************************************************************)
(* The free model pool of the default web console: FreeModelPool with the   *)
(* table of providers (FreeProvidersEditor, FreeProviderRow) and the        *)
(* functions of freePoolUtils, against the handler of PUT                   *)
(* /api/fallback/gateway/config.  The page edits a copy of the whole        *)
(* configuration in place and saves the whole copy, so that what another    *)
(* administrator changed meanwhile is overwritten, except for the providers' *)
(* keys, which the gateway never sends and keeps unless told otherwise.     *)
(*                                                                          *)
(* A provider is its switch and its key; all are in the catalogue.  The     *)
(* models, limits and capabilities are left out.                            *)
(***************************************************************************)
EXTENDS Integers, FiniteSets, Sequences, SequencesExt

CONSTANTS
    Providers,
    Keyed,           \* the providers that require a key
    PoolKeys,
    MaxPoolEdits, MaxPoolSaves, MaxPoolOthers, MaxPoolFailures   \* bounds

ASSUME PoolAssumption ==
    /\ Keyed \subseteq Providers /\ IsFiniteSet(Providers)
    /\ {MaxPoolEdits, MaxPoolSaves, MaxPoolOthers, MaxPoolFailures} \subseteq Nat

VARIABLES
    gatewayPast,  \* every configuration of the providers; the last is current
    poolConfig,   \* config: the page's copy, edited in place
    poolLoading,  \* the loader in place of the page
    poolLoads,    \* loadAll calls under way: where in gatewayPast they were sent
    filter,       \* statusFilter of the table
    selected,     \* selectedProviders
    saving,       \* saveFreePoolConfig under way
    action,       \* runAction or runFreePoolSync under way (actingAction)
    poolEdits, poolSaves, poolOthers, poolFailures

poolVars == <<gatewayPast, poolConfig, poolLoading, poolLoads, filter, selected, saving,
              action, poolEdits, poolSaves, poolOthers, poolFailures>>
poolBounds == <<poolEdits, poolSaves, poolOthers, poolFailures>>

NoKey == "none"
Masked == "masked"   \* a line of asterisks, as keys are displayed elsewhere
NoConfig == <<>>
poolGateway == Last(gatewayPast)

-----------------------------------------------------------------------------
(* The gateway *)

\* the projection that the page is sent: how many keys, never which
Projection(g) ==
    [p \in Providers |-> [configured |-> g[p].configured, enabled |-> g[p].enabled,
                          count |-> g[p].key # NoKey, keys |-> NoKey, clear |-> FALSE]]

\* whether a provider has a key after the save
KeyedWhileClearing(g, payload, p) == g[p].key # NoKey \/ payload[p].keys # NoKey
KeyedAfterSave(g, payload, p) ==
    ~payload[p].clear /\ (g[p].key # NoKey \/ payload[p].keys # NoKey)

\* validateGatewayFreeProviders: one provider that is refused refuses the save
Valid(g, payload) ==
    \A p \in Providers : payload[p].configured =>
        /\ ~(payload[p].clear /\ payload[p].keys # NoKey)
        /\ payload[p].enabled /\ p \in Keyed => KeyedAfterSave(g, payload, p)

\* mergeGatewayFreeProviderInput, for every provider of the payload
Merge(g, payload) ==
    [p \in Providers |->
        IF ~payload[p].configured THEN g[p]
        ELSE [configured |-> TRUE, enabled |-> payload[p].enabled,
              key |-> IF payload[p].clear THEN NoKey
                      ELSE IF payload[p].keys # NoKey THEN payload[p].keys ELSE g[p].key]]

-----------------------------------------------------------------------------
(* The rows *)

\* buildFreeProviderRows: a row per catalogue entry; staged keys are counted
KeyCount(row) == row.keys # NoKey \/ row.count
isFreeProviderReady(p, row) == row.enabled /\ (p \notin Keyed \/ KeyCount(row))
freeProviderNeedsKey(p, row) == p \in Keyed /\ ~KeyCount(row)

\* matchesFreeProviderFilters
Matches(p, row, f) ==
    CASE f = "all"        -> TRUE
      [] f = "enabled"    -> row.enabled
      [] f = "disabled"   -> ~row.enabled
      [] f = "ready"      -> isFreeProviderReady(p, row)
      [] f = "needs_key"  -> freeProviderNeedsKey(p, row)
      [] f = "configured" -> row.configured
      [] f = "catalog"    -> ~row.configured

Filters == {"all", "enabled", "disabled", "ready", "needs_key", "configured", "catalog"}

Visible(cfg, f) == {p \in Providers : Matches(p, cfg[p], f)}

TableShown == ~poolLoading /\ poolConfig # NoConfig

\* the effect on the visible names: a provider that is not shown any more is
\* not selected any more
Prune(cfg, f) == selected' = selected \cap Visible(cfg, f)

\* a table that was taken down comes back without filter and selection
PoolRemounted == filter' = "all" /\ selected' = {}

-----------------------------------------------------------------------------
(* Loads *)

NotLoading == 0
SendLoad(who) == poolLoads' = [poolLoads EXCEPT ![who] = Len(gatewayPast)]

\* the button: with the loader
loadAll ==
    /\ TableShown /\ poolLoads["loud"] = NotLoading /\ poolEdits < MaxPoolEdits
    /\ poolEdits' = poolEdits + 1
    /\ SendLoad("loud") /\ poolLoading' = TRUE /\ PoolRemounted
    /\ UNCHANGED <<gatewayPast, poolConfig, saving, action, poolSaves, poolOthers, poolFailures>>

EndLoudly(who) ==
    /\ poolLoads' = [poolLoads EXCEPT ![who] = NotLoading]
    /\ poolLoading' = (poolLoading /\ who # "loud") /\ UNCHANGED action
EndLoad(who) ==
    /\ poolLoads' = [poolLoads EXCEPT ![who] = NotLoading]
    /\ poolLoading' = (poolLoading /\ who # "loud")
    /\ action' = IF who = "silent" THEN "" ELSE action

\* the answers replace the page's copy, edits that were not saved included
PoolAnswered(who) ==
    /\ poolLoads[who] # NotLoading
    /\ \E i \in poolLoads[who]..Len(gatewayPast) : poolConfig' = Projection(gatewayPast[i])
    /\ Prune(poolConfig', filter)
    /\ EndLoad(who)
    /\ UNCHANGED <<gatewayPast, filter, saving, poolBounds>>

PoolLoadFailed(who) ==
    /\ poolLoads[who] # NotLoading /\ poolFailures < MaxPoolFailures
    /\ poolFailures' = poolFailures + 1
    /\ EndLoad(who)
    /\ UNCHANGED <<gatewayPast, poolConfig, filter, selected, saving, poolEdits,
                   poolSaves, poolOthers>>

-----------------------------------------------------------------------------
(* Edits in place *)

Edited(cfg) ==
    /\ TableShown /\ poolEdits < MaxPoolEdits
    /\ poolEdits' = poolEdits + 1
    /\ poolConfig' = cfg
    /\ Prune(cfg, filter)
    /\ UNCHANGED <<gatewayPast, poolLoading, poolLoads, filter, saving, action,
                   poolSaves, poolOthers, poolFailures>>

\* updateProvider with the switch of a row
updateEnabled(p, enabled) ==
    /\ TableShown
    /\ Edited([poolConfig EXCEPT ![p].configured = TRUE, ![p].enabled = enabled])

\* buildReplaceKeysProviderConfig: an emptied field or masked lines stage nothing
buildReplaceKeysProviderConfig(row, typed) ==
    [row EXCEPT !.configured = TRUE, !.clear = FALSE,
                !.keys = IF typed = Masked THEN NoKey ELSE typed]

updateKeys(p, typed) ==
    /\ TableShown
    /\ Edited([poolConfig EXCEPT ![p] = buildReplaceKeysProviderConfig(@, typed)])

\* buildClearKeysProviderConfig, for a row that has keys
clearKeys(p) ==
    /\ TableShown /\ KeyCount(poolConfig[p])
    /\ Edited([poolConfig EXCEPT ![p].configured = TRUE, ![p].keys = NoKey, ![p].clear = TRUE])

\* buildBulkEnabledProviderConfig, for the selected rows
applyBulkEnabled(enabled) ==
    /\ TableShown /\ selected # {}
    /\ Edited([p \in Providers |->
            IF p \in selected THEN [poolConfig[p] EXCEPT !.configured = TRUE, !.enabled = enabled]
            ELSE poolConfig[p]])

SetFilter(f) ==
    /\ TableShown /\ f # filter /\ poolEdits < MaxPoolEdits
    /\ poolEdits' = poolEdits + 1
    /\ filter' = f
    /\ Prune(poolConfig, f)
    /\ UNCHANGED <<gatewayPast, poolConfig, poolLoading, poolLoads, saving, action,
                   poolSaves, poolOthers, poolFailures>>

\* the box of a row, or the button for all that are visible
Select(ps) ==
    /\ TableShown /\ ps \subseteq Visible(poolConfig, filter)
    /\ selected' = ps /\ selected # ps
    /\ UNCHANGED <<gatewayPast, poolConfig, poolLoading, poolLoads, filter, saving, action,
                   poolBounds>>

-----------------------------------------------------------------------------
(* Saving; the handler reads the configuration, validates and merges, and    *)
(* stores what it merged later, without a lock                              *)

NotSaving == <<>>

saveFreePoolConfig ==
    /\ TableShown /\ saving = NotSaving /\ poolSaves < MaxPoolSaves
    /\ poolSaves' = poolSaves + 1
    /\ saving' = <<"sent", poolConfig>>
    /\ UNCHANGED <<gatewayPast, poolConfig, poolLoading, poolLoads, filter, selected, action,
                   poolEdits, poolOthers, poolFailures>>

Validated ==
    /\ saving # NotSaving /\ saving[1] = "sent"
    /\ saving' = IF Valid(poolGateway, saving[2])
                 THEN <<"merged", Merge(poolGateway, saving[2])>> ELSE NotSaving
    /\ UNCHANGED <<gatewayPast, poolConfig, poolLoading, poolLoads, filter, selected, action,
                   poolBounds>>

SaveStored ==
    /\ saving # NotSaving /\ saving[1] = "merged"
    /\ gatewayPast' = Append(gatewayPast, saving[2])
    /\ saving' = <<"stored", Projection(saving[2])>>
    /\ UNCHANGED <<poolConfig, poolLoading, poolLoads, filter, selected, action, poolBounds>>

\* the page takes the configuration of the answer
SaveAnswered ==
    /\ saving # NotSaving /\ saving[1] = "stored"
    /\ poolConfig' = saving[2]
    /\ Prune(poolConfig', filter)
    /\ saving' = NotSaving
    /\ UNCHANGED <<gatewayPast, poolLoading, poolLoads, filter, action, poolBounds>>

SaveFailed ==
    /\ saving # NotSaving /\ poolFailures < MaxPoolFailures
    /\ poolFailures' = poolFailures + 1
    /\ saving' = NotSaving
    /\ UNCHANGED <<gatewayPast, poolConfig, poolLoading, poolLoads, filter, selected, action,
                   poolEdits, poolSaves, poolOthers>>

-----------------------------------------------------------------------------
(* The other buttons, disabled while one of them acts; a load that runs      *)
(* silently ends the action                                                 *)

PoolActions == {"reload", "sync", "dryrun"}

runAction(a) ==
    /\ TableShown /\ action = "" /\ poolEdits < MaxPoolEdits
    /\ poolEdits' = poolEdits + 1
    /\ action' = a
    /\ UNCHANGED <<gatewayPast, poolConfig, poolLoading, poolLoads, filter, selected, saving,
                   poolSaves, poolOthers, poolFailures>>

\* the dry run changes nothing on the page; the others load it again, the sync
\* also when only a part of it succeeded
ActionAnswered ==
    /\ action \in PoolActions /\ poolLoads["silent"] = NotLoading
    /\ \/ action # "dryrun" /\ SendLoad("silent") /\ UNCHANGED <<action, poolFailures>>
       \/ action = "dryrun" /\ action' = "" /\ UNCHANGED <<poolLoads, poolFailures>>
       \/ /\ poolFailures < MaxPoolFailures
          /\ poolFailures' = poolFailures + 1
          /\ action' = "" /\ UNCHANGED poolLoads
    /\ UNCHANGED <<gatewayPast, poolConfig, poolLoading, filter, selected, saving, poolEdits,
                   poolSaves, poolOthers>>

\* another administrator gives a provider a key, takes it away or switches it
OtherPoolSave ==
    /\ poolOthers < MaxPoolOthers
    /\ poolOthers' = poolOthers + 1
    /\ \E p \in Providers, key \in PoolKeys \cup {NoKey}, clear \in BOOLEAN, enabled \in BOOLEAN :
          LET payload == [Projection(poolGateway) EXCEPT ![p] =
                  [configured |-> TRUE, enabled |-> enabled, count |-> FALSE,
                   keys |-> key, clear |-> clear]] IN
          /\ Valid(poolGateway, payload)
          /\ gatewayPast' = Append(gatewayPast, Merge(poolGateway, payload))
    /\ UNCHANGED <<poolConfig, poolLoading, poolLoads, filter, selected, saving, action,
                   poolEdits, poolSaves, poolFailures>>

-----------------------------------------------------------------------------
PoolInit ==
    /\ gatewayPast = <<[p \in Providers |->
           [configured |-> FALSE, enabled |-> FALSE, key |-> NoKey]]>>
    /\ poolConfig = NoConfig /\ poolLoading = TRUE
    /\ poolLoads = [who \in {"loud", "silent"} |-> IF who = "loud" THEN 1 ELSE NotLoading]
    /\ filter = "all" /\ selected = {} /\ saving = NotSaving /\ action = ""
    /\ poolEdits = 0 /\ poolSaves = 0 /\ poolOthers = 0 /\ poolFailures = 0

PoolLoadStep(who) == PoolAnswered(who) \/ PoolLoadFailed(who)
PoolSaveStep == Validated \/ SaveStored \/ SaveAnswered \/ SaveFailed

PoolNext ==
    \/ loadAll \/ \E who \in {"loud", "silent"} : PoolLoadStep(who)
    \/ \E p \in Providers :
          \/ \E enabled \in BOOLEAN : updateEnabled(p, enabled)
          \/ \E typed \in PoolKeys \cup {NoKey, Masked} : updateKeys(p, typed)
          \/ clearKeys(p)
    \/ \E enabled \in BOOLEAN : applyBulkEnabled(enabled)
    \/ \E f \in Filters : SetFilter(f)
    \/ \E ps \in SUBSET Providers : Select(ps)
    \/ saveFreePoolConfig \/ PoolSaveStep
    \/ \E a \in PoolActions : runAction(a)
    \/ ActionAnswered
    \/ OtherPoolSave

\* the browser delivers every answer
PoolFairness ==
    /\ \A who \in {"loud", "silent"} : WF_poolVars(PoolLoadStep(who))
    /\ WF_poolVars(PoolSaveStep) /\ WF_poolVars(ActionAnswered)

PoolSpec == PoolInit /\ [][PoolNext]_poolVars /\ PoolFairness

-----------------------------------------------------------------------------
(* Properties *)

PoolTypeOK ==
    /\ \A i \in DOMAIN gatewayPast : \A p \in Providers :
          gatewayPast[i][p].key \in PoolKeys \cup {NoKey}
    /\ poolConfig # NoConfig => \A p \in Providers : poolConfig[p].keys \in PoolKeys \cup {NoKey}
    /\ filter \in Filters /\ selected \subseteq Providers
    /\ action \in PoolActions \cup {""}

\* A bulk switch never reaches a provider that the administrator does not see:
\* whatever is selected is on the screen, also after an edit, a filter, a save
\* or a load has taken rows away (the effect on visibleProviderNameKey).
SelectedAreVisible ==
    TableShown => selected \subseteq Visible(poolConfig, filter)

\* A row never stages new keys and a clearing at the same time, which the
\* gateway would refuse together with every other edit of the page.
StagedKeysAreClear ==
    poolConfig # NoConfig =>
        \A p \in Providers : ~(poolConfig[p].keys # NoKey /\ poolConfig[p].clear)

\* Whatever the administrators' saves do to each other, a provider that
\* requires a key and has none is never enabled.
EnabledHasKey ==
    \A p \in Keyed : poolGateway[p].enabled => poolGateway[p].key # NoKey

\* What the page stages, selects and saves can neither be refused for its keys, nor reach
\* a provider that is not seen, nor leave one enabled that cannot work.
PoolIsSound == SelectedAreVisible /\ StagedKeysAreClear /\ EnabledHasKey

\* The loader comes down, and the buttons of the page are released.
PoolComesBack == []<>(~poolLoading) /\ []<>(action = "") /\ []<>(saving = NotSaving)
=============================================================================
