------------------------------ MODULE ConsoleForms ------------------------------
(***************************************************************************)
(* The forms of the three web consoles that create and edit a channel, a    *)
(* token, a user or a redemption code.  A form of the default console is a  *)
(* page of its own; in air it is a side sheet and in berry a dialog that    *)
(* stays mounted beside its table while the edited id changes.  An edit     *)
(* form loads its record, and a save sends everything that it holds.        *)
(*                                                                         *)
(* The fields of a form are grouped by what the code does with them: their  *)
(* roles.  A value says where it comes from: nowhere, from record 1 or 2,   *)
(* from the administrator's own account, from typing, or from a change that *)
(* the system made (a quota spent, a channel disabled).  A channel form has *)
(* one type from the start.  The list of models, the groups and the prompts *)
(* are left out, and so is the page's own account (/api/user/self).         *)
(***************************************************************************)
EXTENDS Integers, FiniteSets

CONSTANTS
    MaxActs,         \* bound on what is typed, opened, submitted, refused and
                     \* lost, and on the changes of the system
    MaxOpenings      \* bound on the openings of a side sheet or dialog

ASSUME FormsAssumption == {MaxActs, MaxOpenings} \subseteq Nat \ {0}

RecordIds == {1, 2}
New == 0           \* no id: the form creates
Self == 3          \* the administrator's own account

Unset == 0         \* the value of a new form; 1, 2 and Self are values of those records
Typed == 4
Moved == 5         \* changed by the system
Odd == 6           \* a trailing slash, a text that is not JSON, or not a date
Cleared == 7       \* blanked by the administrator
Preset == 8        \* put there by the code
Values == 0..8
Zero(v) == v \in {Unset, Cleared}

(***************************************************************************)
(* The fields that a form shows.                                            *)
(***************************************************************************)
aboutDefault == {"type", "name", "groups"}
connectionDefault(type) ==
    IF type = 3 THEN {"base_url", "other"} ELSE IF type = 8 THEN {"base_url"} ELSE {}
modelsDefault(type) ==
    IF type = 43 THEN {} ELSE {"models", "model_mapping", "system_prompt"}
credentialsDefault(type) ==
    CASE type = 33 -> {"region", "ak", "sk"}
      [] type = 42 -> {"region", "vertex_ai_project_id", "vertex_ai_adc"}
      [] OTHER -> {"key"}
proxyDefault(type) == IF type \in {3, 8, 33} THEN {} ELSE {"base_url"}
channelDefault(type) == aboutDefault \cup connectionDefault(type) \cup modelsDefault(type)
                        \cup credentialsDefault(type) \cup proxyDefault(type)

typeAir(type) ==
    {"type"} \cup IF type = 3 THEN {"base_url", "other"} ELSE IF type = 8 THEN {"base_url"} ELSE {}
nameAir(type) == {"name", "groups"} \cup IF type = 18 THEN {"other"} ELSE {}
modelsAir == {"models", "model_mapping", "system_prompt"}
keyAir(type) == {"key", "openai_organization", "auto_ban"}
                \cup IF type \in {3, 8} THEN {} ELSE {"base_url"}
channelAir(type) == typeAir(type) \cup nameAir(type) \cup modelsAir \cup keyAir(type)

typeConfig(type) ==
    CASE type = 33 -> {"region", "ak", "sk"}
      [] type = 42 -> {"region", "vertex_ai_project_id", "vertex_ai_adc"}
      [] type \in {3, 18} -> {"key", "other"}
      [] OTHER -> {"key"}
aboutBerry == {"type", "name", "base_url"}
groupsBerry == {"groups", "models"}
mappingBerry == {"model_mapping", "system_prompt"}
channelBerry(type) == aboutBerry \cup groupsBerry \cup typeConfig(type) \cup mappingBerry

tokenDefault == {"name", "models", "subnet", "expired_time", "remain_quota"}
tokenAir == {"name", "expired_time", "remain_quota", "models"}
tokenBerry == {"name", "models", "subnet", "expiry", "remain_quota"}
userDefault == {"username", "password", "display_name", "group", "quota"}
userAir == {"username", "password", "display_name", "group", "quota"}
userBerry == {"username", "display_name", "password", "group", "quota"}
newUserDefault == {"username", "display_name", "password"}
newUserAir == {"username", "display_name", "password"}
redemptionDefault == {"name", "quota"}
redemptionAir == {"name", "quota"}
redemptionBerry == {"name", "quota"}

FieldsOf(sheet) ==
    LET type == sheet.type IN
    CASE sheet.entity = "channel" ->
           (CASE sheet.theme = "default" -> channelDefault(type)
              [] sheet.theme = "air" -> channelAir(type)
              [] OTHER -> channelBerry(type))
      [] sheet.entity = "token" ->
           (CASE sheet.theme = "default" -> tokenDefault
              [] sheet.theme = "air" -> tokenAir
              [] OTHER -> tokenBerry)
      [] sheet.entity = "user" ->
           (CASE sheet.theme = "default" -> userDefault
              [] sheet.theme = "air" -> userAir
              [] OTHER -> userBerry)
      [] sheet.entity = "newuser" ->
           IF sheet.theme = "default" THEN newUserDefault ELSE newUserAir
      [] OTHER ->
           (CASE sheet.theme = "default" -> redemptionDefault
              [] sheet.theme = "air" -> redemptionAir
              [] OTHER -> redemptionBerry)

RoleOf(field) ==
    CASE field \in {"name", "username"} -> "name"
      [] field \in {"key", "password"} -> "secret"
      [] field \in {"remain_quota", "quota"} -> "amount"
      [] field = "base_url" -> "address"
      [] field = "model_mapping" -> "mapping"
      [] field = "expired_time" -> "date"
      [] field = "other" -> "other"
      [] field = "models" -> "models"
      [] field \in {"region", "ak", "sk", "vertex_ai_project_id", "vertex_ai_adc"} -> "config"
      [] OTHER -> "text"

Channels(theme, types) == {[theme |-> theme, entity |-> "channel", type |-> t] : t \in types}
Others(theme, entities) == {[theme |-> theme, entity |-> e, type |-> 0] : e \in entities}
Sheets ==
    Channels("default", {1, 3, 33, 43}) \cup Channels("air", {3, 18})
    \cup Channels("berry", {3, 33, 42})
    \cup Others("default", {"token", "user", "newuser", "redemption"})
    \cup Others("air", {"token", "user", "newuser", "redemption"})
    \cup Others("berry", {"token", "user", "redemption"})

VARIABLES
    sheet,        \* the form
    editing,      \* the id that it was opened for
    visible,
    closing,      \* air tokens: the timer that forgets the edited id after a close
    content,      \* what the form holds, with the id that came with it (is_edit)
    given,        \* berry: what the form was last given to hold
    formBusy,     \* loading, or isSubmitting
    spent,        \* default tokens: the models became a text in place
    records,      \* the server's records
    statusRead,   \* the status in the row that the server has read for a save
    formLoads,    \* the loads under way
    saves,        \* the submits under way
    typedSince,   \* history: roles typed since the last submit, load or reset
    astray,       \* history: a record was saved from a form that did not hold it
    failed,       \* history: a load was refused or lost
    lostOne,      \* history: a request was lost
    unsure,       \* history: what the form holds was not just loaded or saved in its own record
    openings, acts

formVars == <<sheet, editing, visible, closing, content, given, formBusy, spent, records,
              statusRead, formLoads, saves, typedSince, astray, failed, lostOne, unsure, openings, acts>>
history == <<typedSince, astray, failed, lostOne, unsure, openings, acts>>

\* one of the bounded steps
Acts == acts < MaxActs /\ acts' = acts + 1

Theme == sheet.theme
Entity == sheet.entity
ShownOf == [s \in Sheets |-> {RoleOf(f) : f \in FieldsOf(s)}]
Shown == ShownOf[sheet]
Parts == Shown \cup {"status", "secret", "id"}
Origin == [r \in Parts |-> Unset]
Record(i) == [r \in Parts |-> i]
Slots == {1, 2}
Idle == [at |-> "none"]
LoadsUnderWay == {l \in Slots : formLoads[l] # Idle}
SavesUnderWay == {s \in Slots : saves[s] # Idle}
Free(slots) == {s \in Slots : slots[s] = Idle}
FreeLoad == CHOOSE l \in Free(formLoads) : \A m \in Free(formLoads) : l <= m
FreeSave == CHOOSE s \in Free(saves) : \A t \in Free(saves) : s <= t

(***************************************************************************)
(* What the form holds.                                                     *)
(***************************************************************************)
\* GetUser leaves the password out, and the form blanks it
Given(i, stored) == [r \in Parts |-> IF r = "id" THEN i
                                     ELSE IF r = "secret" /\ Entity = "user" THEN Unset
                                     ELSE IF i = Self THEN Self ELSE stored[i][r]]

\* default and air: setInputs.  berry: setInitialInput, and Formik starts again when that
\* is not what it was given before.
Hold(data) ==
    IF Theme = "berry"
    THEN /\ given' = data
         /\ IF visible /\ data = given THEN UNCHANGED <<content, formBusy, typedSince>>
            ELSE content' = data /\ formBusy' = FALSE /\ typedSince' = {}
    ELSE /\ content' = data /\ typedSince' = {} /\ UNCHANGED given

Load(l, at, id) == [formLoads EXCEPT ![l] = [at |-> at, id |-> id, data |-> Origin]]

\* The effects of a form on the id that it edits.
mountedAirChannel(id) ==
    LET others == [l \in Slots |-> IF formLoads[l].at = "preparing" THEN Idle ELSE formLoads[l]]
    IN /\ Free(others) # {}
       /\ formLoads' = [others EXCEPT ![CHOOSE l \in Free(others) : TRUE] =
                           [at |-> "preparing", id |-> id, data |-> Origin]]
       /\ UNCHANGED <<content, given, formBusy, typedSince>>
\* loadToken and the reset follow isEdit, that only says whether there is an id
mountedAirToken(id) ==
    CASE id # New /\ editing = New ->
           /\ Free(formLoads) # {}
           /\ formLoads' = Load(FreeLoad, "asked", id) /\ formBusy' = TRUE
           /\ UNCHANGED <<content, given, typedSince>>
      [] id = New /\ editing # New -> Hold(Origin) /\ UNCHANGED <<formLoads, formBusy>>
      [] OTHER -> UNCHANGED <<content, given, formBusy, formLoads, typedSince>>
mountedAirRedemption(id) ==
    \/ /\ id # New /\ Free(formLoads) # {}
       /\ formLoads' = Load(FreeLoad, "asked", id) /\ formBusy' = TRUE
       /\ UNCHANGED <<content, given, typedSince>>
    \/ id = New /\ Hold(Origin) /\ UNCHANGED <<formLoads, formBusy>>
\* without an id it is the administrator's own account that is loaded
mountedAirUser(id) ==
    /\ Free(formLoads) # {}
    /\ formLoads' = Load(FreeLoad, "asked", IF id = New THEN Self ELSE id)
    /\ formBusy' = TRUE
    /\ UNCHANGED <<content, given, typedSince>>
mountedBerry(id) ==
    \/ /\ id # New /\ Free(formLoads) # {}
       /\ formLoads' = Load(FreeLoad, "asked", id)
       /\ formBusy' = FALSE /\ content' = given /\ typedSince' = {}
       /\ UNCHANGED given
    \/ /\ id = New /\ given' = Origin /\ content' = Origin
       /\ formBusy' = FALSE /\ typedSince' = {} /\ UNCHANGED formLoads

Mounted(id) ==
    /\ editing' = id
    /\ IF id = editing
       THEN /\ IF Theme = "berry"
               THEN content' = given /\ formBusy' = FALSE /\ typedSince' = {}
               ELSE UNCHANGED <<content, formBusy, typedSince>>
            /\ UNCHANGED <<given, formLoads>>
       ELSE IF Theme = "berry" THEN mountedBerry(id)
       ELSE CASE Entity = "channel" -> mountedAirChannel(id)
              [] Entity = "token" -> mountedAirToken(id)
              [] Entity = "user" -> mountedAirUser(id)
              [] OTHER -> mountedAirRedemption(id)

\* the button of a row, or the one that adds
Editable == IF Theme = "default" THEN {}
            ELSE (IF Entity = "newuser" THEN {} ELSE RecordIds)
                 \cup (IF Theme = "air" /\ Entity = "user" THEN {} ELSE {New})
handleOpen(id) ==
    /\ Acts /\ ~visible /\ openings < MaxOpenings /\ id \in Editable
    /\ id = 2 => openings > 0      \* the records are alike
    /\ visible' = TRUE /\ openings' = openings + 1
    /\ Mounted(id)
    /\ UNCHANGED <<sheet, closing, spent, records, statusRead, saves, astray, failed, lostOne, unsure>>

\* closeEdit, handleCloseModal
Close ==
    /\ visible' = FALSE
    /\ closing' = (closing \/ (Theme = "air" /\ Entity = "token"))
    /\ Mounted(IF Theme = "berry" \/ Entity = "user" THEN New ELSE editing)

handleCancel ==
    /\ visible /\ Theme # "default"
    /\ Close
    /\ UNCHANGED <<sheet, spent, records, statusRead, saves, astray, failed, lostOne, unsure, openings, acts>>

\* half a second after the side sheet was closed, opened again or not
closeTimer ==
    /\ closing /\ closing' = FALSE
    /\ Mounted(New)
    /\ UNCHANGED <<sheet, visible, spent, records, statusRead, saves, astray, failed, lostOne, unsure, openings, acts>>

\* air channels: the models and the groups came, and the form is still for that id
Prepared(l) ==
    /\ formLoads[l].at = "preparing"
    /\ \/ /\ formLoads[l].id = New
          /\ Hold(Origin)
          /\ formLoads' = [formLoads EXCEPT ![l] = Idle]
          /\ UNCHANGED formBusy
       \/ /\ formLoads[l].id # New
          /\ formLoads' = [formLoads EXCEPT ![l].at = "asked"]
          /\ formBusy' = TRUE
          /\ UNCHANGED <<content, given, typedSince>>
    /\ UNCHANGED <<sheet, editing, visible, closing, spent, records, statusRead, saves, astray, failed,
                   lostOne, unsure, openings, acts>>

GetRecord(l) ==
    /\ formLoads[l].at = "asked"
    /\ formLoads' = [formLoads EXCEPT ![l].at = "read",
                                      ![l].data = Given(formLoads[l].id, records)]
    /\ UNCHANGED <<sheet, editing, visible, closing, content, given, formBusy, spent,
                   records, statusRead, saves, history>>

Loaded(data, held) == data

\* history: a form that starts again in berry is not locked by the saves of before
Restarted ==
    [s \in Slots |-> IF s \in SavesUnderWay /\ saves[s].opening = openings
                     THEN [saves[s] EXCEPT !.restarted = TRUE] ELSE saves[s]]

\* loadChannel, loadToken, loadUser and loadRedemption take the answer for the form, whatever
\* id it is for by now.
RecordLoaded(l) ==
    /\ formLoads[l].at = "read"
    /\ LET data == formLoads[l].data IN
       /\ Hold(Loaded(data, content))
       /\ Theme # "berry" => formBusy' = FALSE
       /\ unsure' = (\/ SavesUnderWay # {} \/ data # Given(formLoads[l].id, records)
                     \/ unsure /\ data = given)
       /\ saves' = IF Theme = "berry" /\ visible /\ data # given THEN Restarted ELSE saves
    /\ spent' = FALSE
    /\ formLoads' = [formLoads EXCEPT ![l] = Idle]
    /\ UNCHANGED <<sheet, editing, visible, closing, records, statusRead, astray, failed, lostOne, openings, acts>>

LoadRefused(l) ==
    /\ formLoads[l].at = "asked" /\ ~failed /\ Acts
    /\ formLoads' = [formLoads EXCEPT ![l] = Idle]
    /\ formBusy' = (Theme = "berry" /\ formBusy)
    /\ failed' = TRUE
    /\ UNCHANGED <<sheet, editing, visible, closing, content, given, spent, records, statusRead, saves,
                   typedSince, astray, lostOne, unsure, openings>>

\* Only the default token form catches the error; the others stay loading.
LoadLost(l) ==
    /\ formLoads[l].at \in {"asked", "read"} /\ Acts /\ ~failed /\ ~lostOne
    /\ formLoads' = [formLoads EXCEPT ![l] = Idle]
    /\ formBusy' = (formBusy /\ ~(Theme = "default" /\ Entity = "token"))
    /\ failed' = TRUE /\ lostOne' = TRUE
    /\ UNCHANGED <<sheet, editing, visible, closing, content, given, spent, records, statusRead, saves,
                   typedSince, astray, unsure, openings>>

(***************************************************************************)
(* Typing and saving                                                        *)
(***************************************************************************)
\* not the code: the page of a record can be used while it loads
UsableAnyway == visible
Usable == visible /\ (Theme = "default" => ~formBusy)

Typeable(r) ==
    CASE r \in {"mapping", "address", "date"} -> {Typed, Odd}
      [] r \in {"name", "models", "amount"} -> {Typed, Cleared}
      [] OTHER -> {Typed}
handleInputChange(r, v) ==
    /\ Usable /\ Acts
    /\ r \in Shown /\ v \in Typeable(r) /\ content[r] # v
    /\ Theme = "berry" /\ Entity = "user" /\ r = "amount" => content["id"] # New
    /\ content' = [content EXCEPT ![r] = v]
    /\ typedSince' = typedSince \cup {r}
    \* a date that was set is a number by then as well, and stays one
    /\ spent' \in IF r = "models" THEN {spent, FALSE} ELSE {spent}
    /\ UNCHANGED <<sheet, editing, visible, closing, given, formBusy, records, statusRead, formLoads,
                   saves, astray, failed, lostOne, unsure, openings>>

\* Another type: its models fill an empty list, and berry starts the credentials again.
handleTypeChange ==
    /\ Usable /\ Entity = "channel" /\ "models" \in Shown
    /\ Zero(content["models"])
    /\ content' = [r \in Parts |-> IF r = "models" THEN Preset
                                   ELSE IF r = "config" /\ Theme = "berry" THEN Cleared
                                   ELSE content[r]]
    /\ typedSince' = typedSince \cup ({"models", "config"} \cap Shown)
    /\ UNCHANGED <<sheet, editing, visible, closing, given, formBusy, spent, records, statusRead,
                   formLoads, saves, astray, failed, lostOne, unsure, openings, acts>>

\* the key of a channel without one is made of its credentials, in place
ComposedDefault(c) ==
    IF Entity = "channel" /\ "config" \in Shown /\ Zero(c["secret"]) /\ ~Zero(c["config"])
    THEN [c EXCEPT !["secret"] = Preset] ELSE c
ComposedBerry(c) == ComposedDefault(c)
Composed(c) == CASE Theme = "default" -> ComposedDefault(c)
                 [] Theme = "berry" -> ComposedBerry(c)
                 [] OTHER -> c

channelCompleteDefault(c) ==
    /\ editing = New => ~Zero(c["name"]) /\ ~Zero(c["secret"])
    /\ "models" \in Shown => ~Zero(c["models"])
    /\ "mapping" \in Shown => c["mapping"] # Odd
channelCompleteAir(c) == channelCompleteDefault(c)
channelCompleteBerry(c) ==
    /\ ~Zero(c["name"]) /\ ~Zero(c["models"]) /\ c["mapping"] # Odd
    /\ c["id"] = New /\ sheet.type # 33 => ~Zero(content["secret"])
    /\ sheet.type \in {3, 8} => ~Zero(c["address"])
tokenCompleteDefault(c) == (editing = New => ~Zero(c["name"])) /\ c["date"] # Odd /\ ~spent
tokenCompleteAir(c) == c["date"] # Odd
tokenCompleteBerry(c) == ~Zero(c["name"])
userCompleteBerry(c) == ~Zero(c["name"]) /\ (c["id"] = New => ~Zero(c["secret"]))
newUserComplete(c) == ~Zero(c["name"]) /\ ~Zero(c["secret"])
redemptionComplete(c) == editing = New => ~Zero(c["name"])
redemptionCompleteBerry(c) == ~Zero(c["name"])

Complete(c) ==
    CASE Entity = "channel" ->
           (CASE Theme = "default" -> channelCompleteDefault(c)
              [] Theme = "air" -> channelCompleteAir(c)
              [] OTHER -> channelCompleteBerry(c))
      [] Entity = "token" ->
           (CASE Theme = "default" -> tokenCompleteDefault(c)
              [] Theme = "air" -> tokenCompleteAir(c)
              [] OTHER -> tokenCompleteBerry(c))
      [] Entity = "user" -> Theme = "berry" => userCompleteBerry(c)
      [] Entity = "newuser" -> newUserComplete(c)
      [] OTHER -> IF Theme = "berry" THEN redemptionCompleteBerry(c)
                  ELSE redemptionComplete(c)

\* what is sent: an address without its last slash, a default version
Sent(c) == [r \in Parts |-> IF r = "address" /\ c[r] = Odd THEN Typed
                            ELSE IF r = "other" /\ Zero(c[r]) THEN Preset
                            ELSE c[r]]
\* a PUT, and not a POST: berry asks the form, and not the id, except for channels
Puts(c) == IF Theme = "berry" /\ Entity # "channel" THEN c["id"] # New ELSE editing # New

\* the submits that raise loading, and the ones that berry does not allow twice
RaisesLoading == Theme = "air" /\ Entity # "channel"
Locks == Theme = "berry"

submit(copies) ==
    LET c == Composed(content) IN
    /\ Usable /\ Acts /\ Free(saves) # {}
    /\ Locks => ~formBusy
    /\ copies > 1 => Theme = "air" /\ Entity = "token" /\ editing = New
    /\ Complete(c)
    /\ content' = c
    /\ saves' = [saves EXCEPT ![FreeSave] =
                    [at |-> "sent", put |-> Puts(c), id |-> editing, data |-> Sent(c),
                     left |-> copies, some |-> FALSE, opening |-> openings,
                     restarted |-> \E s \in SavesUnderWay :
                                      saves[s].opening = openings /\ saves[s].restarted]]
    /\ formBusy' = (formBusy \/ RaisesLoading \/ Locks)
    /\ spent' = (Theme = "default" /\ Entity = "token")
    /\ typedSince' = {}
    /\ unsure' = (SavesUnderWay # {} \/ LoadsUnderWay # {} \/ content["id"] # editing)
    /\ UNCHANGED <<sheet, editing, visible, closing, given, records, statusRead, formLoads, astray,
                   failed, lostOne, openings>>

\* A submit that sends nothing, where it changes something all the same: the spinner of the
\* new user stays, an invalid date empties a new token, the key is composed.
submitIncomplete ==
    LET c == Composed(content) IN
    /\ Usable /\ ~Complete(c)
    /\ CASE Theme = "air" /\ Entity = "newuser" ->
              formBusy' = TRUE /\ UNCHANGED <<content, given, typedSince>>
         [] Theme = "air" /\ Entity = "token" ->
              /\ formBusy' = FALSE
              /\ IF editing = New THEN Hold(Origin) ELSE UNCHANGED <<content, given, typedSince>>
         [] OTHER -> content' = c /\ UNCHANGED <<given, formBusy, typedSince>>
    /\ UNCHANGED <<sheet, editing, visible, closing, spent, records, statusRead, formLoads, saves,
                   astray, failed, lostOne, unsure, openings, acts>>

(***************************************************************************)
(* The server                                                               *)
(***************************************************************************)
\* The handlers of a token and of a code read the row and save it with the fields of the
\* form in it; the others update by id.
ReadsFirst == Entity \in {"token", "redemption"}
Found(s) == records[saves[s].id]["status"]

\* GetTokenByIds, GetRedemptionById
ReadRecord(s) ==
    /\ saves[s].at = "sent" /\ saves[s].put /\ ReadsFirst
    /\ saves[s].id # New
    /\ saves' = [saves EXCEPT ![s].at = "found"]
    /\ statusRead' = [statusRead EXCEPT ![s] = Found(s)]
    /\ UNCHANGED <<sheet, editing, visible, closing, content, given, formBusy, spent,
                   records, formLoads, history>>

\* not the code: a token and a code are updated as a channel is
WrittenUpdates(r, new, old) == IF Zero(new) THEN old ELSE new
\* Updates leaves out zero values (the texts of a channel are pointers); a token and a
\* redemption code get the status back that was read.
Written(r, new, old) ==
    CASE Entity = "channel" ->
           IF r \in {"name", "secret", "models", "status"} /\ Zero(new) THEN old ELSE new
      [] Entity = "user" -> IF Zero(new) THEN old ELSE new
      [] OTHER -> IF r \in {"status", "secret"} THEN old ELSE new
Before(s, r) == IF r = "status" /\ ReadsFirst THEN statusRead[s] ELSE records[saves[s].id][r]

UpdateRecord(s) ==
    LET i == saves[s].id
        data == saves[s].data
    IN /\ saves[s].at = (IF ReadsFirst THEN "found" ELSE "sent") /\ saves[s].put
       /\ i # New
       /\ Entity = "user" => data["name"] \in {i, Typed, Unset, Cleared}    \* unique
       /\ records' = [records EXCEPT ![i] =
              [r \in Parts |-> IF r = "id" THEN i ELSE Written(r, data[r], Before(s, r))]]
       /\ saves' = [saves EXCEPT ![s].at = "stored"]
       /\ statusRead' = [statusRead EXCEPT ![s] = Unset]
       /\ astray' = (astray \/ data["id"] # i)
       /\ UNCHANGED <<sheet, editing, visible, closing, content, given, formBusy, spent,
                      formLoads, typedSince, failed, lostOne, unsure, openings, acts>>

AddRecord(s) ==
    /\ saves[s].at = "sent" /\ ~saves[s].put
    /\ saves' = [saves EXCEPT ![s].at = "stored"]
    /\ UNCHANGED <<sheet, editing, visible, closing, content, given, formBusy, spent,
                   records, statusRead, formLoads, history>>

RefuseRecord(s) ==
    /\ saves[s].at \in {"sent", "found"} /\ Acts
    /\ saves' = [saves EXCEPT ![s].at = "refused"]
    /\ statusRead' = [statusRead EXCEPT ![s] = Unset]
    /\ unsure' = TRUE
    /\ UNCHANGED <<sheet, editing, visible, closing, content, given, formBusy, spent,
                   records, formLoads, typedSince, astray, failed, lostOne, openings>>

\* a channel is disabled, a quota is spent, a code is redeemed
SystemMoves(i) ==
    LET r == IF "amount" \in Shown /\ Entity # "redemption" THEN "amount" ELSE "status" IN
    /\ Acts /\ ~unsure /\ records[i][r] = i
    /\ records' = [records EXCEPT ![i]["status"] = Moved, ![i][r] = Moved]
    /\ unsure' = TRUE
    /\ UNCHANGED <<sheet, editing, visible, closing, content, given, formBusy, spent,
                   statusRead, formLoads, saves, typedSince, astray, failed, lostOne, openings>>

(***************************************************************************)
(* The answer to a save                                                     *)
(***************************************************************************)
EndsBusy == formBusy' = FALSE
AfterRefusal == EndsBusy

answeredDefault(stored) ==
    /\ IF stored /\ editing = New
       THEN Hold([r \in Parts |-> IF r = "config" THEN content[r] ELSE Unset]) /\ spent' = FALSE
       ELSE UNCHANGED <<content, given, typedSince, spent>>
    /\ UNCHANGED <<editing, visible, closing, formBusy, formLoads>>

answeredAirChannel(stored) ==
    /\ IF stored THEN /\ IF editing = New THEN Hold(Origin)
                         ELSE UNCHANGED <<content, given, typedSince>>
                      /\ visible' = FALSE
       ELSE UNCHANGED <<content, given, typedSince, visible>>
    /\ UNCHANGED <<editing, closing, formBusy, formLoads, spent>>
answeredAirRedemption(stored) ==
    /\ IF stored THEN /\ IF editing = New THEN Hold(Origin)
                         ELSE UNCHANGED <<content, given, typedSince>>
                      /\ visible' = FALSE /\ EndsBusy
       ELSE UNCHANGED <<content, given, typedSince, visible>> /\ AfterRefusal
    /\ UNCHANGED <<editing, closing, formLoads, spent>>
\* the form is emptied and stays open for the same id when the save was refused
answeredAirToken(stored) ==
    /\ Hold(Origin) /\ formBusy' = FALSE
    /\ IF stored THEN visible' = FALSE /\ closing' = TRUE ELSE UNCHANGED <<visible, closing>>
    /\ UNCHANGED <<editing, formLoads, spent>>
\* the load of the administrator's account, that closing starts, ends with loading raised
answeredAirUser(stored) ==
    /\ IF stored THEN Close ELSE UNCHANGED <<visible, closing, editing, content, given,
                                            typedSince, formLoads>> /\ AfterRefusal
    /\ UNCHANGED spent
answeredAirNewUser(stored) ==
    /\ formBusy' = FALSE
    /\ IF stored THEN Hold(Origin) /\ visible' = FALSE
       ELSE UNCHANGED <<content, given, typedSince, visible>>
    /\ UNCHANGED <<editing, closing, formLoads, spent>>
answeredBerry(s, stored) ==
    /\ IF stored THEN Close
       ELSE /\ formBusy' = (formBusy /\ saves[s].opening # openings)
            /\ UNCHANGED <<visible, closing, editing, content, given, typedSince, formLoads>>
    /\ UNCHANGED spent

SaveAnswered(s) ==
    LET stored == saves[s].at = "stored" IN
    /\ saves[s].at \in {"stored", "refused"}
    /\ \/ /\ stored /\ saves[s].left > 1      \* the next copy of the token
          /\ saves' = [saves EXCEPT ![s].at = "sent", ![s].left = @ - 1, ![s].some = TRUE]
          /\ UNCHANGED <<editing, visible, closing, content, given, formBusy, spent,
                         formLoads, typedSince>>
       \/ /\ stored => saves[s].left = 1
          /\ saves' = [saves EXCEPT ![s] = Idle]
          /\ CASE Theme = "default" -> answeredDefault(stored)
               [] Theme = "berry" -> answeredBerry(s, stored)
               [] OTHER -> CASE Entity = "channel" -> answeredAirChannel(stored)
                             [] Entity = "token" -> answeredAirToken(stored \/ saves[s].some)
                             [] Entity = "user" -> answeredAirUser(stored)
                             [] Entity = "newuser" -> answeredAirNewUser(stored)
                             [] OTHER -> answeredAirRedemption(stored)
    /\ UNCHANGED <<sheet, records, statusRead, astray, failed, lostOne, unsure, openings, acts>>

\* The request or its answer is lost: the handler throws, and only Formik ends its own lock.
SaveLost(s) ==
    /\ saves[s].at \in {"sent", "stored"} /\ ~lostOne /\ Acts
    /\ saves' = [saves EXCEPT ![s] = Idle]
    /\ formBusy' = (formBusy /\ ~(Locks /\ saves[s].opening = openings))
    /\ lostOne' = TRUE /\ unsure' = TRUE
    /\ UNCHANGED <<sheet, editing, visible, closing, content, given, spent, records, statusRead,
                   formLoads, typedSince, astray, failed, openings>>

FormsInit ==
    /\ sheet \in Sheets
    /\ IF Theme = "default" THEN editing \in (IF Entity = "newuser" THEN {New} ELSE
                                              IF Entity = "user" THEN {1} ELSE {New, 1})
       ELSE editing = New
    /\ visible = (Theme = "default") /\ closing = FALSE
    /\ content = Origin /\ given = Origin
    /\ formBusy = (Theme = "default" /\ editing # New)
    /\ spent = FALSE
    /\ records = [i \in RecordIds |-> Record(i)] /\ statusRead = [s \in Slots |-> Unset]
    /\ formLoads = IF formBusy THEN [l \in Slots |-> IF l = 1
                                        THEN [at |-> "asked", id |-> editing, data |-> Origin]
                                        ELSE Idle]
                  ELSE [l \in Slots |-> Idle]
    /\ saves = [s \in Slots |-> Idle]
    /\ typedSince = {} /\ astray = FALSE /\ failed = FALSE /\ lostOne = FALSE
    /\ unsure = FALSE /\ openings = 0 /\ acts = 0

FormsNext ==
    \/ \E id \in RecordIds \cup {New} : handleOpen(id)
    \/ handleCancel \/ closeTimer \/ handleTypeChange \/ submitIncomplete
    \/ \E l \in Slots : Prepared(l) \/ GetRecord(l) \/ RecordLoaded(l) \/ LoadRefused(l) \/ LoadLost(l)
    \/ \E r \in Shown, v \in Values : handleInputChange(r, v)
    \/ \E n \in 1..2 : submit(n)
    \/ \E s \in Slots : ReadRecord(s) \/ UpdateRecord(s) \/ AddRecord(s) \/ RefuseRecord(s)
                       \/ SaveAnswered(s) \/ SaveLost(s)
    \/ \E i \in RecordIds : SystemMoves(i)

(***************************************************************************)
(* Properties                                                               *)
(***************************************************************************)
\* The types; only a dialog of berry remembers what it was given.
FormTypeOK ==
    /\ sheet \in Sheets /\ editing \in RecordIds \cup {New}
    /\ {visible, closing, formBusy, spent, astray, failed, lostOne, unsure} \subseteq BOOLEAN
    /\ content \in [Parts -> Values] /\ given \in [Parts -> Values]
    /\ records \in [RecordIds -> [Parts -> Values]] /\ statusRead \in [Slots -> Values]
    /\ typedSince \subseteq Shown /\ (Theme # "berry" => given = Origin)
    /\ openings \in 0..MaxOpenings /\ acts \in 0..MaxActs

\* Nothing of another record and nothing blank gets into a record, unless it was saved from
\* a form that did not hold it, and a page of the default console gets there only after its
\* load failed.
RecordsKept ==
    /\ astray \/ \A i \in RecordIds : \A r \in Parts \ {"id"} :
          records[i][r] \notin {Unset, Self} \cup (RecordIds \ {i})
    /\ astray /\ Theme = "default" => failed

\* A password survives every save that leaves its field empty, whatever the form held.
PasswordKept == Entity = "user" => \A i \in RecordIds : records[i]["secret"] \in {i, Typed}

\* A save of a form, however old what it holds, takes back the state of a token or of a
\* code that the system changed in one case only: the change fell between the server's
\* reading of the row and its write, which no transaction and no condition joins.
StatusKept ==
    [][\A i \in RecordIds :
          Entity \in {"token", "redemption"} /\ records[i]["status"] = Moved
             => \/ records[i]["status"]' = Moved
                \/ \E s \in Slots : /\ saves[s].at = "found" /\ saves'[s].at = "stored"
                                     /\ saves[s].id = i /\ statusRead[s] # Moved]_formVars

\* After a load or a save of its own record that nothing disturbed, it is what its form shows, save for
\* what was typed since, for what zero leaves as it was, and for what the save turned.
ShownIsSaved ==
    editing # New /\ content["id"] = editing /\ ~unsure
    /\ LoadsUnderWay = {} /\ SavesUnderWay = {} =>
        \A r \in Shown \ typedSince :
            \/ records[editing][r] = Sent(content)[r] \/ records[editing][r] = content[r]
            \/ Zero(content[r]) /\ (Entity = "user" \/ r \in {"name", "models"})
            \/ r = "secret" /\ Entity = "user"

\* A record holds what was shown and typed in its own form, and nothing of another one.
RecordsAreSafe == RecordsKept /\ PasswordKept /\ ShownIsSaved

\* Without a lost request a form is loading only while it waits for an answer; the side
\* sheet of a new user is the one that keeps loading by itself.
FormSpinner ==
    formBusy /\ ~lostOne =>
        \/ LoadsUnderWay # {} \/ SavesUnderWay # {}
        \/ Theme = "air" /\ Entity = "newuser"

\* A dialog of berry sends one save at a time, as long as no load starts its form again
\* while a save is under way: then the end of that save unlocks the form under the next.
OneSaveAtATime ==
    Theme = "berry" =>
        \A s, t \in SavesUnderWay :
            saves[s].opening = saves[t].opening =>
                s = t \/ saves[s].restarted \/ saves[t].restarted
=============================================================================
