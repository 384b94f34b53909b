----------------------------- MODULE GatewayEditor -----------------------------
(***************************************************************************)
(* The model editor of the default web console (FallbackConfigPanel and its *)
(* hooks) against the handler of PUT /api/fallback/manual-config.  Every    *)
(* change is GET, mutate, PUT, reload: the handler stores whole models and  *)
(* whole deployments, and removes those that the payload does not name.     *)
(* One tab is modelled in detail.  A second administrator, whose GET and    *)
(* PUT nothing separates, changes the configuration between its steps.      *)
(*                                                                          *)
(* A model is its order, its preferred deployment and its degrade flags; a  *)
(* deployment its switch, its limit (0 or a positive one) and whether its   *)
(* limit ratios are the defaults.  All deployments share one pool.          *)
(***************************************************************************)
EXTENDS Picks, SequencesExt

CONSTANTS
    VMs, EditorDeployments,
    InitialVMs, InitialDeployments,
    InitialPreferred,    \* the deployment pinned at first, or "unset"
    MaxSaves, MaxEditorEdits, MaxEditorFailures    \* bounds; another's save is an edit

ASSUME EditorAssumption ==
    /\ InitialVMs \subseteq VMs /\ InitialDeployments \subseteq EditorDeployments
    /\ InitialPreferred \in InitialDeployments \cup {"unset"}
    /\ IsFiniteSet(VMs) /\ IsFiniteSet(EditorDeployments)
    /\ {MaxSaves, MaxEditorEdits, MaxEditorFailures} \subseteq Nat

VARIABLES
    past,        \* every configuration the gateway has had; the last is current
    config,      \* the configuration on the page
    configLoading, configError,   \* loading, error of useGatewayConfig
    configLoads, \* loadConfig calls under way: where in past they were sent
    modes,       \* deploymentMode, in the order the keys were inserted
    drafts,      \* draftDeployments
    op,          \* the execute call under way (saving)
    saves, editorEdits, editorFailures    \* how much of the bounds is used

editorVars == <<past, config, configLoading, configError, configLoads, modes,
                drafts, op, saves, editorEdits, editorFailures>>

-----------------------------------------------------------------------------
(* Configurations *)

Unset == "unset"
Nothing == [absent |-> TRUE]
NoVM == [exists |-> FALSE, order |-> <<>>, preferred |-> Unset, degrade |-> FALSE]
NoDeployment == [known |-> FALSE, enabled |-> "off", limit |-> 0, ratio |-> "default"]

\* the configuration the gateway runs with
running == Last(past)
Known(cfg) == {d \in EditorDeployments : cfg.deps[d].known}

\* getVirtualModelDeploymentIds: the order, or the pool when there is none
getVirtualModelDeploymentIds(cfg, v) ==
    IF ~cfg.vms[v].exists THEN {}
    ELSE IF cfg.vms[v].order # <<>> THEN ToSet(cfg.vms[v].order) \cap Known(cfg)
    ELSE Known(cfg)

\* ... in the order the code lists it
Listed(cfg, v) == IF cfg.vms[v].order # <<>> THEN cfg.vms[v].order
                  ELSE SetToSeq(Known(cfg))

\* computeInitialMode: how a row is shown that the user has not touched
computeInitialMode(cfg, d, v) ==
    IF ~cfg.deps[d].known THEN "error"
    ELSE IF d \in ToSet(cfg.vms[v].order) /\ cfg.vms[v].preferred = d THEN "fixed"
    ELSE IF cfg.deps[d].limit > 0 THEN "quota" ELSE "error"

-----------------------------------------------------------------------------
(* What the page sends *)

NoDraft == [touched |-> FALSE, enabled |-> Unset, limit |-> -1]
NoDrafts == [d \in EditorDeployments |-> NoDraft]

\* applyDraftEdits: a touched deployment gets its fields; no field of the page
\* sets the ratios, so that they are cleared
Drafted(dep, dr) ==
    [dep EXCEPT !.enabled = IF dr.enabled # Unset THEN dr.enabled ELSE @,
                !.limit   = IF dr.limit # -1 THEN dr.limit ELSE @,
                !.ratio   = "default"]

DraftEveryDeployment(cfg, drs) ==
    [cfg EXCEPT !.deps = [d \in EditorDeployments |-> Drafted(cfg.deps[d], drs[d])]]
applyDraftEdits(cfg, drs) ==
    [cfg EXCEPT !.deps = [d \in EditorDeployments |->
        IF cfg.deps[d].known /\ drs[d].touched
        THEN Drafted(cfg.deps[d], drs[d]) ELSE cfg.deps[d]]]

\* deploymentOwnerVm of the page's configuration
deploymentOwnerVm(cfg) ==
    [d \in EditorDeployments |-> {v \in VMs : d \in getVirtualModelDeploymentIds(cfg, v)}]

\* applyDeploymentModes: every entry is given to all the owners of its deployment,
\* one after the other, so that a model keeps what the last of its entries says;
\* a fixed deployment loses its limit when one of its owners is still there
Concerns(cfg, owners, entry, v) ==
    cfg.deps[entry[1]].known /\ v \in owners[entry[1]] /\ cfg.vms[v].exists

applyDeploymentModes(cfg, ms, owners) ==
    LET Entries(v) == {i \in DOMAIN ms : Concerns(cfg, owners, ms[i], v)}
        LastOf(v)  == ms[CHOOSE i \in Entries(v) : \A j \in Entries(v) : j <= i]
        Fixed(d)   == \E v \in VMs : \E i \in Entries(v) : ms[i] = <<d, "fixed">> IN
    [vms  |-> [v \in VMs |-> IF Entries(v) = {} THEN cfg.vms[v]
                  ELSE [cfg.vms[v] EXCEPT !.preferred = LastOf(v)[1],
                                          !.degrade = (LastOf(v)[2] = "error")]],
     deps |-> [d \in EditorDeployments |->
                  IF Fixed(d) THEN [cfg.deps[d] EXCEPT !.limit = 0] ELSE cfg.deps[d]]]

buildSavePayload(cfg, o) ==
    applyDeploymentModes(applyDraftEdits(cfg, o.drafts), o.modes, o.owners)

\* the payload of each kind of operation; Nothing when the mutator gives up
addDeployment(cfg, d, v) ==
    IF d \in Known(cfg) THEN Nothing
    ELSE LET listed == Listed(cfg, v) IN
         [vms  |-> IF cfg.vms[v].exists
                   THEN [cfg.vms EXCEPT ![v].order = Append(listed, d)] ELSE cfg.vms,
          deps |-> [cfg.deps EXCEPT ![d] = [known |-> TRUE, enabled |-> "on",
                                            limit |-> 0, ratio |-> "default"]]]

deleteDeployment(cfg, d, v) ==
    IF d \notin Known(cfg) \/ ~cfg.vms[v].exists THEN Nothing
    ELSE LET listed == Listed(cfg, v) IN
         [cfg EXCEPT !.vms[v].order = Picked(listed, {i \in DOMAIN listed : listed[i] # d})]

addVirtualModel(cfg, v) ==
    IF cfg.vms[v].exists THEN Nothing
    ELSE [cfg EXCEPT !.vms[v] = [NoVM EXCEPT !.exists = TRUE]]

deleteVirtualModel(cfg, v) ==
    IF ~cfg.vms[v].exists THEN Nothing ELSE [cfg EXCEPT !.vms[v] = NoVM]

Mutator(o, cfg) ==
    CASE o.kind = "save"   -> buildSavePayload(cfg, o)
      [] o.kind = "addDep" -> addDeployment(cfg, o.dep, o.vm)
      [] o.kind = "delDep" -> deleteDeployment(cfg, o.dep, o.vm)
      [] o.kind = "addVM"  -> addVirtualModel(cfg, o.vm)
      [] o.kind = "delVM"  -> deleteVirtualModel(cfg, o.vm)

-----------------------------------------------------------------------------
(* updateManualConfig: what the gateway makes of a payload *)

\* a preferred deployment must exist and be enabled in the current
\* configuration, and be in the order or in the pool
Acceptable(current, payload) ==
    \A v \in VMs :
        payload.vms[v].exists /\ payload.vms[v].preferred # Unset =>
            LET p == payload.vms[v].preferred IN
            current.deps[p].known /\ current.deps[p].enabled = "on"

\* an empty order keeps the stored one; what is missing is removed
updateManualConfig(current, payload) ==
    [payload EXCEPT !.vms = [v \in VMs |->
        IF payload.vms[v].exists /\ payload.vms[v].order = <<>>
        THEN [payload.vms[v] EXCEPT !.order = current.vms[v].order]
        ELSE payload.vms[v]]]

Store(payload) == past' = Append(past, updateManualConfig(running, payload))

-----------------------------------------------------------------------------
(* useGatewayConfig *)

Sent == Len(past)
Loads == {"refresh", "reload"}

StartLoad(who) ==
    /\ configLoads[who] = 0
    /\ configLoads' = [configLoads EXCEPT ![who] = Sent]
    /\ configLoading' = TRUE /\ configError' = FALSE

\* the reload of an operation is what it awaits last
OpAfterLoad(who) == op' = IF who = "reload" THEN Nothing ELSE op

\* finally: the loader comes down, whether the load succeeded or failed
LoadOver(failed) == configLoading' = FALSE

\* loadConfig: whichever answer comes last is on the page, and every one of
\* them forgets the modes that were not saved
ConfigLoaded(who) ==
    /\ configLoads[who] > 0
    /\ \E i \in configLoads[who]..Len(past) : config' = past[i]
    /\ modes' = <<>>
    /\ LoadOver(FALSE)
    /\ configLoads' = [configLoads EXCEPT ![who] = 0]
    /\ OpAfterLoad(who)
    /\ UNCHANGED <<past, configError, drafts, saves, editorEdits, editorFailures>>

ConfigLoadFailed(who) ==
    /\ configLoads[who] > 0 /\ editorFailures < MaxEditorFailures
    /\ editorFailures' = editorFailures + 1
    /\ configError' = TRUE
    /\ LoadOver(TRUE)
    /\ configLoads' = [configLoads EXCEPT ![who] = 0]
    /\ OpAfterLoad(who)
    /\ UNCHANGED <<past, config, modes, drafts, saves, editorEdits>>

\* the loader, the error with its button, or the editor
EditorShown == ~configLoading /\ ~configError /\ config # Nothing
ErrorShown == ~configLoading /\ configError

Refresh ==
    /\ ~configLoading /\ editorEdits < MaxEditorEdits
    /\ editorEdits' = editorEdits + 1
    /\ StartLoad("refresh")
    /\ UNCHANGED <<past, config, modes, drafts, op, saves, editorFailures>>

\* the button of the error message; nobody gives up there
Retry ==
    /\ ErrorShown
    /\ StartLoad("refresh")
    /\ UNCHANGED <<past, config, modes, drafts, op, saves, editorEdits, editorFailures>>

-----------------------------------------------------------------------------
(* Edits *)

\* the keys of deploymentMode keep the place where they were first inserted
SetMode(ms, d, mode) ==
    IF \E i \in DOMAIN ms : ms[i][1] = d
    THEN [i \in DOMAIN ms |-> IF ms[i][1] = d THEN <<d, mode>> ELSE ms[i]]
    ELSE Append(ms, <<d, mode>>)

ModeOf(ms, d, v) ==
    IF \E i \in DOMAIN ms : ms[i][1] = d
    THEN ms[CHOOSE i \in DOMAIN ms : ms[i][1] = d][2]
    ELSE computeInitialMode(config, d, v)

\* applyVmModeSelection: only one row of a model is fixed, only one is quota; the
\* model's other rows in that mode go to error, those the page has no key of at the end
applyVmModeSelection(d, mode, v) ==
    LET next   == SetMode(modes, d, mode)
        listed == Listed(config, v)
        others == {x \in getVirtualModelDeploymentIds(config, v) \ {d} :
                       mode \in {"fixed", "quota"} /\ ModeOf(next, x, v) = mode}
        keyed  == {next[i][1] : i \in DOMAIN next}
        new    == Picked(listed, {i \in DOMAIN listed :
                       /\ listed[i] \in others \ keyed
                       /\ \A j \in 1..(i - 1) : listed[j] # listed[i]})
    IN  [i \in DOMAIN next |-> IF next[i][1] \in others THEN <<next[i][1], "error">> ELSE next[i]]
          \o [k \in DOMAIN new |-> <<new[k], "error">>]

\* setDraftField: the switch of a row, or its limit
setDraftField(d, field, value) ==
    /\ EditorShown /\ editorEdits < MaxEditorEdits
    /\ \E v \in VMs : d \in getVirtualModelDeploymentIds(config, v)
    /\ editorEdits' = editorEdits + 1
    /\ drafts' = [drafts EXCEPT ![d].touched = TRUE, ![d][field] = value]
    /\ UNCHANGED <<past, config, configLoading, configError, configLoads, modes, op,
                   saves, editorFailures>>

\* the three buttons of a row; quota without a limit gets one, error clears it
handleModeChange(d, mode, v) ==
    /\ EditorShown /\ editorEdits < MaxEditorEdits
    /\ d \in getVirtualModelDeploymentIds(config, v)
    /\ editorEdits' = editorEdits + 1
    /\ modes' = applyVmModeSelection(d, mode, v)
    /\ drafts' = IF mode = "quota" /\ drafts[d].limit <= 0
                 THEN [drafts EXCEPT ![d].touched = TRUE, ![d].limit = 1]
                 ELSE IF mode = "error"
                 THEN [drafts EXCEPT ![d].touched = TRUE, ![d].limit = 0]
                 ELSE drafts
    /\ UNCHANGED <<past, config, configLoading, configError, configLoads, op, saves,
                   editorFailures>>

-----------------------------------------------------------------------------
(* useFallbackSave.execute; its buttons are disabled or loading meanwhile *)

Request(kind, d, v) ==
    [kind |-> kind, dep |-> d, vm |-> v, phase |-> "get", fresh |-> Nothing,
     drafts |-> drafts, modes |-> modes, owners |-> deploymentOwnerVm(config)]

Execute(kind, d, v) ==
    /\ EditorShown /\ op = Nothing /\ saves < MaxSaves
    /\ saves' = saves + 1
    /\ op' = Request(kind, d, v)
    /\ UNCHANGED <<past, config, configLoading, configError, configLoads, modes, drafts,
                   editorEdits, editorFailures>>

handleSave == Execute("save", Unset, Unset)

\* only a model of a channel that the page does not list for this model
handleAddDeployment(d, v) ==
    /\ config # Nothing /\ d \notin getVirtualModelDeploymentIds(config, v)
    /\ config.vms[v].exists
    /\ Execute("addDep", d, v)

handleDeleteDeployment(d, v) ==
    /\ config # Nothing /\ d \in getVirtualModelDeploymentIds(config, v)
    /\ Execute("delDep", d, v)

handleAddVirtualModel(v) == Execute("addVM", Unset, v)

handleDeleteVirtualModel(v) ==
    /\ config # Nothing /\ config.vms[v].exists
    /\ Execute("delVM", Unset, v)

\* the fresh configuration arrives and the mutator is run on it
FreshArrived ==
    /\ op # Nothing /\ op.phase = "get"
    /\ op' = IF Mutator(op, running) = Nothing THEN Nothing
             ELSE [op EXCEPT !.phase = "put", !.fresh = running]
    /\ UNCHANGED <<past, config, configLoading, configError, configLoads, modes, drafts,
                   saves, editorEdits, editorFailures>>

\* the gateway stores the payload, or refuses it
PutHandled ==
    /\ op # Nothing /\ op.phase = "put"
    /\ LET payload == Mutator(op, op.fresh) IN
       IF Acceptable(running, payload)
       THEN Store(payload) /\ op' = [op EXCEPT !.phase = "stored"]
       ELSE op' = Nothing /\ UNCHANGED past
    /\ UNCHANGED <<config, configLoading, configError, configLoads, modes, drafts, saves,
                   editorEdits, editorFailures>>

\* success: onSaved forgets the drafts, then the page is loaded again
PutAnswered ==
    /\ op # Nothing /\ op.phase = "stored"
    /\ op' = [op EXCEPT !.phase = "reload"]
    /\ drafts' = CASE op.kind = "save"   -> NoDrafts
                   [] op.kind = "delDep" -> [drafts EXCEPT ![op.dep] = NoDraft]
                   [] OTHER              -> drafts
    /\ StartLoad("reload")
    /\ UNCHANGED <<past, config, modes, saves, editorEdits, editorFailures>>

\* a request of the operation fails, the PUT possibly after it was stored
ExecuteFails ==
    /\ op # Nothing /\ op.phase \in {"get", "put", "stored"}
    /\ editorFailures < MaxEditorFailures
    /\ editorFailures' = editorFailures + 1
    /\ op' = Nothing
    /\ UNCHANGED <<past, config, configLoading, configError, configLoads, modes, drafts,
                   saves, editorEdits>>

-----------------------------------------------------------------------------
(* Another administrator, with a fresh page and the same operations *)

OtherPayloads ==
    LET quick(kind, d, v) == Mutator([kind |-> kind, dep |-> d, vm |-> v], running) IN
    {quick("addDep", d, v) : d \in EditorDeployments, v \in {x \in VMs : running.vms[x].exists}}
      \cup {quick("delDep", d, v) : d \in EditorDeployments, v \in VMs}
      \cup {quick("addVM", Unset, v) : v \in VMs} \cup {quick("delVM", Unset, v) : v \in VMs}
      \cup {[running EXCEPT !.deps[d].enabled = "off"] : d \in Known(running)}

OtherSaves ==
    /\ editorEdits < MaxEditorEdits
    /\ editorEdits' = editorEdits + 1
    /\ \E payload \in OtherPayloads \ {Nothing} :
          Acceptable(running, payload) /\ Store(payload)
    /\ UNCHANGED <<config, configLoading, configError, configLoads, modes, drafts, op,
                   saves, editorFailures>>

-----------------------------------------------------------------------------
FirstGateway ==
    [vms  |-> [v \in VMs |-> IF v \in InitialVMs
                  THEN [NoVM EXCEPT !.exists = TRUE, !.order = SetToSeq(InitialDeployments),
                                    !.preferred = InitialPreferred]
                  ELSE NoVM],
     deps |-> [d \in EditorDeployments |-> IF d \in InitialDeployments
                  THEN [known |-> TRUE, enabled |-> "on", limit |-> 0, ratio |-> "set"]
                  ELSE NoDeployment]]

EditorInit ==
    /\ past = <<FirstGateway>>
    /\ config = Nothing /\ configLoading = TRUE /\ configError = FALSE
    /\ configLoads = [who \in Loads |-> IF who = "refresh" THEN 1 ELSE 0]
    /\ modes = <<>> /\ drafts = NoDrafts /\ op = Nothing
    /\ saves = 0 /\ editorEdits = 0 /\ editorFailures = 0

ConfigArrives(who) == ConfigLoaded(who) \/ ConfigLoadFailed(who)
SaveStep == FreshArrived \/ PutHandled \/ PutAnswered \/ ExecuteFails

EditorNext ==
    \/ \E who \in Loads : ConfigArrives(who)
    \/ SaveStep
    \/ Refresh \/ Retry
    \/ \E d \in EditorDeployments :
          \/ \E e \in {"on", "off"} : setDraftField(d, "enabled", e)
          \/ \E n \in 0..1 : setDraftField(d, "limit", n)
    \/ \E d \in EditorDeployments, m \in {"fixed", "quota", "error"}, v \in VMs : handleModeChange(d, m, v)
    \/ handleSave
    \/ \E d \in EditorDeployments, v \in VMs : handleAddDeployment(d, v) \/ handleDeleteDeployment(d, v)
    \/ \E v \in VMs : handleAddVirtualModel(v) \/ handleDeleteVirtualModel(v)
    \/ OtherSaves

\* the browser delivers every answer, and the retry button is pressed
EditorFairness ==
    /\ \A who \in Loads : WF_editorVars(ConfigArrives(who))
    /\ WF_editorVars(SaveStep) /\ WF_editorVars(Retry)

EditorSpec == EditorInit /\ [][EditorNext]_editorVars /\ EditorFairness

-----------------------------------------------------------------------------
(* Properties *)

ConfigTypeOK(cfg) ==
    /\ \A v \in VMs : /\ ToSet(cfg.vms[v].order) \subseteq EditorDeployments
                      /\ cfg.vms[v].preferred \in EditorDeployments \cup {Unset}
    /\ \A d \in EditorDeployments : cfg.deps[d].limit \in 0..1

EditorTypeOK ==
    /\ \A i \in DOMAIN past : ConfigTypeOK(past[i])
    /\ config # Nothing => ConfigTypeOK(config)
    /\ configLoads \in [Loads -> 0..Len(past)]
    /\ \A i \in DOMAIN modes : modes[i] \in EditorDeployments \X {"fixed", "quota", "error"}

Stored == op # Nothing /\ op.phase = "put" /\ op' # Nothing /\ op'.phase = "stored"
After == Last(past')

\* A save puts every edit that was on the page when it was pressed into the
\* gateway's configuration, however much the page's own copy is out of date:
\* the edits are applied to what the save has just fetched (buildSavePayload).
SaveAppliesEdits ==
    [][Stored /\ op.kind = "save" =>
        \A d \in Known(op.fresh) :
            /\ op.drafts[d].enabled # Unset => After.deps[d].enabled = op.drafts[d].enabled
            /\ op.drafts[d].limit > 0 /\ <<d, "fixed">> \notin ToSet(op.modes) =>
                  After.deps[d].limit = op.drafts[d].limit]_editorVars

\* ... and nothing else: a deployment without an edit or a mode, the models
\* that own none of the deployments with a mode, and every order stay as they
\* were fetched.  When nobody else saved in between, a save is lost to nobody.
SaveKeepsTheRest ==
    [][Stored /\ op.kind = "save" =>
        LET moded == {op.modes[i][1] : i \in DOMAIN op.modes} IN
        /\ \A d \in EditorDeployments : ~op.drafts[d].touched /\ d \notin moded =>
              After.deps[d] = op.fresh.deps[d]
        /\ \A v \in VMs :
              /\ (\A d \in moded : v \notin op.owners[d]) =>
                    /\ After.vms[v].preferred = op.fresh.vms[v].preferred
                    /\ After.vms[v].degrade = op.fresh.vms[v].degrade
              /\ op.fresh = running => After.vms[v].order = op.fresh.vms[v].order
        /\ Known(After) = Known(op.fresh)]_editorVars

\* Removing a deployment from one model takes it out of no other model and
\* leaves the deployment itself; adding one is seen by its model alone.
OneModelAtATime ==
    [][Stored /\ op.kind \in {"addDep", "delDep"} =>
        /\ \A v \in VMs \ {op.vm} : op.fresh = running => After.vms[v] = running.vms[v]
        /\ \A d \in EditorDeployments \ {op.dep} : After.deps[d] = op.fresh.deps[d]
        /\ op.dep \in Known(After)]_editorVars

\* A save does what was asked on the page, all of it and nothing else, whatever the
\* gateway has become since the page was loaded (execute of useFallbackSave).
SaveIsExact == SaveAppliesEdits /\ SaveKeepsTheRest /\ OneModelAtATime

\* The loader always comes down and the editor comes back, and a pressed
\* button is released, whatever fails (the finally of execute and loadConfig).
EditorComesBack ==
    /\ []<>(EditorShown \/ ErrorShown)
    /\ []<>(op = Nothing)

\* A row that is pinned on the page is the one that a save pins, also when another
\* one was pinned before it (applyVmModeSelection and applyDeploymentModes).
PinIsSaved ==
    [][Stored /\ op.kind = "save" =>
        \A i \in DOMAIN op.modes : LET d == op.modes[i][1] IN
            op.modes[i][2] = "fixed" /\ d \in Known(op.fresh) =>
                \A v \in op.owners[d] : op.fresh.vms[v].exists =>
                    After.vms[v].preferred = d /\ ~After.vms[v].degrade]_editorVars
=============================================================================
