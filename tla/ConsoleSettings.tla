----------------------------- MODULE ConsoleSettings -----------------------------
(***************************************************************************)
(* The option pages of the three web consoles (default, air and berry):     *)
(* system, operation and other settings.  A page loads every option once,   *)
(* keeps what it loaded in originInputs, and a button sends the options of  *)
(* its section one PUT after the other; a checkbox sends its option at once *)
(* as the opposite of what it showed.  Tokens and secrets are not given to  *)
(* the page, so an empty field must not be sent for them.                   *)
(*                                                                         *)
(* One section of one page is on the screen: a form is the fields that can  *)
(* be edited, the options that its button sends, and what is disabled while *)
(* a PUT is under way.  The values of an option are few: blank, "a" and     *)
(* "b"; "b" is an address with a trailing slash, or a text that is not      *)
(* valid JSON, where the code looks.  Messages, translations, the clean-up  *)
(* of the log and the check for a new version are left out.                 *)
(***************************************************************************)
EXTENDS Integers

CONSTANTS
    MaxEdits,          \* bound on the edits and clicks of the administrator
    MaxPuts            \* bound on the submits under way (only berry reaches two)

ASSUME SettingsAssumption == {MaxEdits, MaxPuts} \subseteq Nat

None == "none"   \* undefined: the option was not among those that the server gave
Blank == ""

\* GetOptions leaves out every option whose name ends in Token or Secret
Hidden == {"SMTPToken", "GitHubClientSecret", "LarkClientSecret", "OidcClientSecret",
           "WeChatServerToken", "MessagePusherToken"}

(***************************************************************************)
(* What a submit sends: the option, and the test before it.                 *)
(***************************************************************************)
Always(k) == [key |-> k, test |-> "always"]
Changed(k) == [key |-> k, test |-> "changed"]
Filled(k) == [key |-> k, test |-> "filled"]        \* changed and not blank
Joined(k) == [key |-> k, test |-> "joined"]        \* changed; a list, once loaded
Address(k) == [key |-> k, test |-> "address"]      \* changed; sent without the last slash
Json(k) == [key |-> k, test |-> "json"]            \* changed; verified to be JSON

submitsDefault ==
    [server    |-> <<Always("ServerAddress")>>,
     smtp      |-> <<Changed("SMTPServer"), Changed("SMTPAccount"), Changed("SMTPFrom"),
                     Filled("SMTPPort"), Filled("SMTPToken")>>,
     whitelist |-> <<Joined("EmailDomainWhitelist")>>,
     wechat    |-> <<Address("WeChatServerAddress"), Changed("WeChatAccountQRCodeImageURL"),
                     Filled("WeChatServerToken")>>,
     github    |-> <<Changed("GitHubClientId"), Filled("GitHubClientSecret")>>,
     lark      |-> <<Changed("LarkClientId"), Filled("LarkClientSecret")>>,
     turnstile |-> <<Changed("TurnstileSiteKey"), Filled("TurnstileSecretKey")>>]

submitsAir ==
    [server    |-> submitsDefault.server,    smtp   |-> submitsDefault.smtp,
     whitelist |-> submitsDefault.whitelist, wechat |-> submitsDefault.wechat,
     github    |-> submitsDefault.github,    turnstile |-> submitsDefault.turnstile,
     pusher    |-> <<Address("MessagePusherAddress"), Filled("MessagePusherToken")>>]

submitsBerry ==
    [server    |-> submitsDefault.server,    smtp   |-> submitsDefault.smtp,
     whitelist |-> <<Always("EmailDomainWhitelist")>>,
     wechat    |-> submitsDefault.wechat,    github |-> submitsDefault.github,
     lark      |-> submitsDefault.lark,      turnstile |-> submitsDefault.turnstile,
     pusher    |-> <<Address("MessagePusherAddress"), Filled("MessagePusherToken")>>,
     oidc      |-> <<Changed("OidcWellKnown"), Changed("OidcClientId"),
                     Filled("OidcClientSecret"), Changed("OidcAuthorizationEndpoint"),
                     Changed("OidcTokenEndpoint"), Changed("OidcUserinfoEndpoint")>>]

submitConfigDefault ==
    [monitor |-> <<Changed("ChannelDisableThreshold"), Changed("QuotaRemindThreshold")>>,
     ratio   |-> <<Json("ModelRatio"), Json("GroupRatio"), Json("CompletionRatio")>>,
     quota   |-> <<Changed("QuotaForNewUser"), Changed("QuotaForInvitee"),
                   Changed("QuotaForInviter"), Changed("PreConsumedQuota")>>,
     general |-> <<Changed("TopUpLink"), Changed("ChatLink"), Changed("QuotaPerUnit"),
                   Changed("RetryTimes")>>]
submitConfigAir == submitConfigDefault      \* the same function in another file
submitConfigBerry == submitConfigDefault

\* one button and one submit for each of them
OtherOptions == {"Notice", "SystemName", "Theme", "Logo", "HomePageContent", "About", "Footer"}
submitsOtherDefault == [k \in OtherOptions |-> <<Always(k)>>]
submitsOtherAir == [k \in OtherOptions |-> <<Always(k)>>]
submitsOtherBerry == [k \in OtherOptions |-> <<Always(k)>>]

(***************************************************************************)
(* What the administrator can reach on each page: the checkboxes, and the   *)
(* fields of each section.                                                  *)
(***************************************************************************)
loginSwitches == {"PasswordLoginEnabled", "PasswordRegisterEnabled",
                  "EmailVerificationEnabled", "GitHubOAuthEnabled", "WeChatAuthEnabled",
                  "RegisterEnabled", "TurnstileCheckEnabled"}
switchesDefault == loginSwitches \cup {"EmailDomainRestrictionEnabled"}
switchesAir == loginSwitches \cup {"EmailDomainRestrictionEnabled"}
switchesBerry == loginSwitches \cup {"OidcEnabled", "EmailDomainRestrictionEnabled"}

\* the dropdown edits a list of its own, that the submit does not read; the test before
\* the whitelist is sent reads the field of the SMTP token
whitelistDefault == [whitelist |-> {"EmailDomainList", "SMTPToken"}]
mailDefault == [smtp   |-> {"SMTPServer", "SMTPPort", "SMTPAccount", "SMTPFrom", "SMTPToken"},
                github |-> {"GitHubClientId", "GitHubClientSecret"},
                lark   |-> {"LarkClientId", "LarkClientSecret"}]
wechatDefault == [wechat    |-> {"WeChatServerAddress", "WeChatServerToken",
                                 "WeChatAccountQRCodeImageURL"},
                  turnstile |-> {"TurnstileSiteKey", "TurnstileSecretKey"}]

mailAir == [whitelist |-> {"EmailDomainWhitelist", "SMTPToken"},
            smtp |-> {"SMTPServer", "SMTPPort", "SMTPAccount", "SMTPFrom", "SMTPToken"}]
clientsAir == [github    |-> {"GitHubClientId", "GitHubClientSecret"},
               wechat    |-> {"WeChatServerAddress", "WeChatServerToken",
                              "WeChatAccountQRCodeImageURL"},
               pusher    |-> {"MessagePusherAddress", "MessagePusherToken"},
               turnstile |-> {"TurnstileSiteKey", "TurnstileSecretKey"}]

whitelistBerry == [whitelist |-> {"EmailDomainWhitelist"}]
mailBerry == [smtp   |-> {"SMTPServer", "SMTPPort", "SMTPAccount", "SMTPFrom", "SMTPToken"},
              github |-> {"GitHubClientId", "GitHubClientSecret"}]
clientsBerry == [lark   |-> {"LarkClientId", "LarkClientSecret"},
                 wechat |-> {"WeChatServerAddress", "WeChatServerToken",
                             "WeChatAccountQRCodeImageURL"}]
oidcBerry == [oidc |-> {"OidcClientId", "OidcClientSecret", "OidcWellKnown",
                        "OidcAuthorizationEndpoint", "OidcTokenEndpoint",
                        "OidcUserinfoEndpoint"}]
pusherBerry == [pusher    |-> {"MessagePusherAddress", "MessagePusherToken"},
                turnstile |-> {"TurnstileSiteKey", "TurnstileSecretKey"}]

operationSwitches == {"LogConsumeEnabled", "AutomaticDisableChannelEnabled",
                      "AutomaticEnableChannelEnabled", "DisplayInCurrencyEnabled",
                      "DisplayTokenStatEnabled", "ApproximateTokenEnabled"}
quotaDefault == [quota |-> {"QuotaForNewUser", "PreConsumedQuota", "QuotaForInviter",
                            "QuotaForInvitee"},
                 ratio |-> {"ModelRatio", "CompletionRatio", "GroupRatio"}]
generalDefault == [monitor |-> {"ChannelDisableThreshold", "QuotaRemindThreshold"},
                   general |-> {"TopUpLink", "ChatLink", "QuotaPerUnit", "RetryTimes"}]
generalAir == generalDefault
quotaAir == quotaDefault
generalBerry == [general |-> {"TopUpLink", "ChatLink", "QuotaPerUnit", "RetryTimes"}]
quotaBerry == [monitor |-> {"ChannelDisableThreshold", "QuotaRemindThreshold"},
               quota |-> {"QuotaForNewUser", "PreConsumedQuota", "QuotaForInviter",
                          "QuotaForInvitee"}]
ratioBerry == [ratio |-> {"ModelRatio", "CompletionRatio", "GroupRatio"}]

fieldsOtherDefault == [k \in OtherOptions |-> {k}]
fieldsOtherAir == [k \in OtherOptions |-> {k}]
fieldsOtherBerry == [k \in OtherOptions |-> {k}]

serverDefault == [server |-> {"ServerAddress"}]
serverAir == [server |-> {"ServerAddress"}]
serverBerry == [server |-> {"ServerAddress"}]

\* the fields that handleInputChange does not keep, but sends at every keystroke
SentAsTypedDefault == {}
SentAsTypedAir == {"MessagePusherAddress", "MessagePusherToken"}
SentAsTypedBerry == {}

\* default and air cover the whole form while loading; berry disables its one-line fields
Overlay(theme) == theme # "berry"
NeverDisabled == {"EmailDomainWhitelist", "ModelRatio", "CompletionRatio", "GroupRatio",
                  "Notice", "HomePageContent", "About"}

Sections(theme, fields, submits) ==
    {[theme |-> theme, switch |-> Blank, fields |-> fields[s], submit |-> submits[s]] :
        s \in DOMAIN fields}
Switches(theme, keys) ==
    {[theme |-> theme, switch |-> k, fields |-> {}, submit |-> <<>>] : k \in keys}

DefaultForms ==
    Sections("default", serverDefault, submitsDefault)
    \cup Sections("default", whitelistDefault, submitsDefault)
    \cup Sections("default", mailDefault, submitsDefault)
    \cup Sections("default", wechatDefault, submitsDefault)
    \cup Sections("default", quotaDefault, submitConfigDefault)
    \cup Sections("default", generalDefault, submitConfigDefault)
    \cup Sections("default", fieldsOtherDefault, submitsOtherDefault)
    \cup Switches("default", switchesDefault \cup operationSwitches)
AirForms ==
    Sections("air", serverAir, submitsAir)
    \cup Sections("air", mailAir, submitsAir)
    \cup Sections("air", clientsAir, submitsAir)
    \cup Sections("air", quotaAir, submitConfigAir)
    \cup Sections("air", generalAir, submitConfigAir)
    \cup Sections("air", fieldsOtherAir, submitsOtherAir)
    \cup Switches("air", switchesAir \cup operationSwitches)
BerryForms ==
    Sections("berry", serverBerry, submitsBerry)
    \cup Sections("berry", whitelistBerry, submitsBerry)
    \cup Sections("berry", mailBerry, submitsBerry)
    \cup Sections("berry", clientsBerry, submitsBerry)
    \cup Sections("berry", oidcBerry, submitsBerry)
    \cup Sections("berry", pusherBerry, submitsBerry)
    \cup Sections("berry", generalBerry, submitConfigBerry)
    \cup Sections("berry", quotaBerry, submitConfigBerry)
    \cup Sections("berry", ratioBerry, submitConfigBerry)
    \cup Sections("berry", fieldsOtherBerry, submitsOtherBerry)
    \cup Switches("berry", switchesBerry \cup operationSwitches)

SentAsTyped == [default |-> SentAsTypedDefault, air |-> SentAsTypedAir,
                berry |-> SentAsTypedBerry]

VARIABLES
    form,         \* the section on the screen
    inputs,       \* what the page shows, by option
    originInputs, \* what the page loaded
    stored,       \* the server's options
    fetched,      \* the options: "asked", "read" by the server, "loaded" or "lost"
    reading,      \* the options that the server read for the page
    formLoading,  \* loading
    dialogOpen,   \* showPasswordWarningModal
    jobs,         \* the submits under way: what is left to send, from the PUT under way on
    touched,      \* history: options typed, switched or answered since the load
    typedSince,   \* history: options typed since the last click
    upset,        \* history: since the last click a PUT was refused or lost, submits
                  \* overlapped or stopped at a text that is not valid JSON, endpoints were
                  \* found for inputs that are not shown any more, or somebody else changed
                  \* an option
    entered,      \* history: the tokens and secrets, with each value that one had at first
                  \* or that an administrator typed into its field
    hung,         \* history: a PUT of this page was lost
    edits

settingVars == <<form, inputs, originInputs, stored, fetched, reading, formLoading,
                 dialogOpen, jobs, touched, typedSince, upset, entered, hung, edits>>

SentKeys == {form.submit[i].key : i \in DOMAIN form.submit}
Keys == form.fields \cup SentKeys \cup ({form.switch} \ {Blank})
Texts == {Blank, "a", "b"}
Jobs == 1..MaxPuts
NoJob == [at |-> "none"]
UnderWay == {j \in Jobs : jobs[j] # NoJob}
Sending == {j \in UnderWay : jobs[j].at # "discovering"}

(***************************************************************************)
(* The calls of a submit, from the inputs and originInputs of its click.    *)
(***************************************************************************)
removeTrailingSlash(v) == IF v = "b" THEN "a" ELSE v

Differs(item, shown, origin) == origin[item.key] # shown[item.key]
\* not the code: a blank field is sent for a secret
DueBlank(item, shown, origin) ==
    item.test = "always" \/ Differs(item, shown, origin)
Due(item, shown, origin) ==
    \/ item.test = "always"
    \/ /\ Differs(item, shown, origin)
       /\ item.test = "filled" => shown[item.key] # Blank
       /\ item.test = "joined" => fetched = "loaded" /\ shown["SMTPToken"] # Blank
ValueSent(item, shown) ==
    IF item.test = "address" \/ item.key = "ServerAddress"
    THEN removeTrailingSlash(shown[item.key])
    ELSE shown[item.key]
Invalid(item, shown) == item.test = "json" /\ shown[item.key] \in {Blank, "b"}

\* the positions, in the submit, of the options to send: up to the first text that is
\* not valid JSON
ToSend(shown, origin) == {n \in DOMAIN form.submit : Due(form.submit[n], shown, origin)}
Stops(shown, origin) == {n \in ToSend(shown, origin) : Invalid(form.submit[n], shown)}
Calls(shown, origin) ==
    [n \in {m \in ToSend(shown, origin) : \A i \in Stops(shown, origin) : m < i} |->
        [key |-> form.submit[n].key, value |-> ValueSent(form.submit[n], shown)]]

Opposite(k) == IF inputs[k] = "true" THEN "false" ELSE "true"
Put(k, v) == [n \in {1} |-> [key |-> k, value |-> v]]

(***************************************************************************)
(* Actions                                                                  *)
(***************************************************************************)
NothingLoaded == [k \in Keys |-> Blank]
Undefined == [k \in Keys |-> None]

ServerReads ==
    /\ fetched = "asked"
    /\ fetched' = "read" /\ reading' = stored
    /\ UNCHANGED <<form, inputs, originInputs, stored, formLoading, dialogOpen, jobs,
                   touched, typedSince, upset, entered, hung, edits>>

GivenAll(k) == reading[k]    \* not the code: tokens and secrets are given to the page
Given(k) == IF k \in Hidden THEN None ELSE reading[k]

getOptions ==
    /\ fetched = "read"
    /\ fetched' = "loaded" /\ reading' = <<>>
    /\ inputs' = [k \in Keys |-> Given(k)]
    /\ originInputs' = inputs'
    /\ touched' = {} /\ typedSince' = {}
    /\ upset' = (upset \/ UnderWay # {})
    /\ UNCHANGED <<form, stored, formLoading, dialogOpen, jobs, entered, hung, edits>>

OptionsLost ==
    /\ fetched \in {"asked", "read"}
    /\ fetched' = "lost" /\ reading' = <<>>
    /\ UNCHANGED <<form, inputs, originInputs, stored, formLoading, dialogOpen, jobs,
                   touched, typedSince, upset, entered, hung, edits>>

Enabled == (Overlay(form.theme) => ~formLoading) /\ ~dialogOpen /\ edits < MaxEdits
\* a bound: a click before the options were loaded is the last of a behaviour
Clicked == edits' = IF fetched = "loaded" THEN edits + 1 ELSE MaxEdits
FreeJob == CHOOSE j \in Jobs : j \notin UnderWay

\* updateOption for the first of the options
updateOption(calls) ==
    /\ UnderWay # Jobs /\ DOMAIN calls # {}
    /\ jobs' = [jobs EXCEPT ![FreeJob] =
                   [at |-> "sent", todo |-> calls, early |-> fetched # "loaded"]]
    /\ formLoading' = TRUE

Upsetting == UnderWay # {} \/ fetched # "loaded"

EnteredAlso(k, v) == IF k \in Hidden THEN entered \cup {<<k, v>>} ELSE entered

handleInputChange(k, v) ==
    /\ Enabled /\ k \in form.fields /\ v # inputs[k]
    /\ formLoading => k \in NeverDisabled
    /\ edits' = edits + 1
    /\ touched' = touched \cup {k}
    /\ entered' = EnteredAlso(k, v)
    /\ \/ /\ k \notin SentAsTyped[form.theme]
          /\ inputs' = [inputs EXCEPT ![k] = v]
          /\ typedSince' = typedSince \cup {k}
          /\ UNCHANGED <<jobs, formLoading, upset>>
       \/ /\ k \in SentAsTyped[form.theme]
          /\ updateOption(Put(k, v))
          /\ typedSince' = {} /\ upset' = (upset \/ Upsetting)
          /\ UNCHANGED inputs
    /\ UNCHANGED <<form, originInputs, stored, fetched, reading, dialogOpen, hung>>

submit ==
    /\ Enabled
    /\ "OidcWellKnown" \in Keys => inputs["OidcWellKnown"] = Blank
    /\ updateOption(Calls(inputs, originInputs))
    /\ Clicked /\ typedSince' = {}
    /\ upset' = (Upsetting \/ Stops(inputs, originInputs) # {})
    /\ UNCHANGED <<form, inputs, originInputs, stored, fetched, reading, dialogOpen,
                   touched, entered, hung>>

\* with a well-known URL that starts with http, the endpoints are asked for first
submitOidc ==
    /\ Enabled /\ UnderWay # Jobs
    /\ "OidcWellKnown" \in Keys /\ inputs["OidcWellKnown"] = "a"
    /\ jobs' = [jobs EXCEPT ![FreeJob] = [at |-> "discovering", shown |-> inputs,
                                          early |-> fetched # "loaded"]]
    /\ Clicked /\ typedSince' = {} /\ upset' = Upsetting
    /\ UNCHANGED <<form, inputs, originInputs, stored, fetched, reading, formLoading,
                   dialogOpen, touched, entered, hung>>

Endpoints == {"OidcAuthorizationEndpoint", "OidcTokenEndpoint", "OidcUserinfoEndpoint"}

\* The endpoints are written into the inputs of the click, in place: the page shows them
\* when nothing was typed meanwhile.
Discovered(j, found) ==
    /\ j \in UnderWay /\ jobs[j].at = "discovering"
    /\ LET job == jobs[j]
           shown == IF found THEN [k \in Keys |-> IF k \in Endpoints THEN "b" ELSE job.shown[k]]
                    ELSE job.shown
           calls == Calls(shown, IF job.early THEN Undefined ELSE originInputs)
       IN /\ inputs' = IF inputs = job.shown THEN shown ELSE inputs
          /\ touched' = IF found THEN touched \cup Endpoints ELSE touched
          /\ jobs' = [jobs EXCEPT ![j] = IF DOMAIN calls = {} THEN NoJob
                                         ELSE [at |-> "sent", todo |-> calls, early |-> job.early]]
          /\ formLoading' = (formLoading \/ DOMAIN calls # {})
          /\ upset' = (upset \/ (found /\ inputs # job.shown))
    /\ UNCHANGED <<form, originInputs, stored, fetched, reading, dialogOpen, typedSince,
                   entered, hung, edits>>

\* A checkbox; the one of the password login asks before it is taken away.
toggle ==
    LET k == form.switch IN
    /\ Enabled /\ k # Blank
    /\ Clicked /\ typedSince' = {}
    /\ \/ /\ k = "PasswordLoginEnabled" /\ inputs[k] = "true"
          /\ dialogOpen' = TRUE
          /\ UNCHANGED <<jobs, formLoading, upset, touched>>
       \/ /\ ~(k = "PasswordLoginEnabled" /\ inputs[k] = "true")
          /\ updateOption(Put(k, Opposite(k)))
          /\ upset' = Upsetting
          /\ touched' = touched \cup {k}
          /\ UNCHANGED dialogOpen
    /\ UNCHANGED <<form, inputs, originInputs, stored, fetched, reading, entered, hung>>

PasswordWarning ==
    /\ dialogOpen /\ dialogOpen' = FALSE
    /\ \/ UNCHANGED <<jobs, formLoading, upset, touched>>
       \/ /\ updateOption(Put(form.switch, Opposite(form.switch)))
          /\ upset' = Upsetting
          /\ touched' = touched \cup {form.switch}
    /\ UNCHANGED <<form, inputs, originInputs, stored, fetched, reading, typedSince,
                   entered, hung, edits>>

\* The option of the PUT under way: the first of those that are left.
FirstAt(todo) == CHOOSE n \in DOMAIN todo : \A i \in DOMAIN todo : n <= i
First(todo) == todo[FirstAt(todo)]

\* The server stores an option, or refuses it.
UpdateOption(j) ==
    /\ j \in Sending /\ jobs[j].at = "sent"
    /\ LET put == First(jobs[j].todo) IN
       \/ /\ stored' = [stored EXCEPT ![put.key] = put.value]
          /\ jobs' = [jobs EXCEPT ![j].at = "stored"]
          /\ UNCHANGED upset
       \/ /\ jobs' = [jobs EXCEPT ![j].at = "refused"] /\ upset' = TRUE
          /\ UNCHANGED stored
    /\ UNCHANGED <<form, inputs, originInputs, fetched, reading, formLoading,
                   dialogOpen, touched, typedSince, entered, hung, edits>>

\* not the code: the submit ends with its first option
LeftNothing(todo) == <<>>
Left(todo) == [n \in DOMAIN todo \ {FirstAt(todo)} |-> todo[n]]
LoadsOn(todo) == DOMAIN Left(todo) # {}

\* The page has the answer: setLoading(false), and the next option of the submit.
OptionAnswered(j) ==
    /\ j \in Sending /\ jobs[j].at \in {"stored", "refused"}
    /\ LET put == First(jobs[j].todo)
           rest == Left(jobs[j].todo)
       IN /\ IF jobs[j].at = "stored"
             THEN /\ inputs' = [inputs EXCEPT ![put.key] = put.value]
                  /\ typedSince' = typedSince \ {put.key}
                  /\ touched' = touched \cup {put.key}
             ELSE UNCHANGED <<inputs, typedSince, touched>>
          /\ jobs' = [jobs EXCEPT ![j] = IF DOMAIN rest = {} THEN NoJob
                                         ELSE [at |-> "sent", todo |-> rest,
                                               early |-> jobs[j].early]]
          /\ formLoading' = LoadsOn(jobs[j].todo)
    /\ UNCHANGED <<form, originInputs, stored, fetched, reading, dialogOpen, upset,
                   entered, hung, edits>>

\* A lost PUT, or a lost answer: the handler throws, loading stays and the rest is not sent.
PutLost(j) ==
    /\ j \in Sending
    /\ jobs' = [jobs EXCEPT ![j] = NoJob]
    /\ hung' = TRUE /\ upset' = TRUE
    /\ UNCHANGED <<form, inputs, originInputs, stored, fetched, reading, formLoading,
                   dialogOpen, touched, typedSince, entered, edits>>

OtherAdministrator(k) ==
    /\ edits < MaxEdits /\ k \in Keys
    /\ edits' = edits + 1 /\ upset' = TRUE
    /\ entered' = EnteredAlso(k, "b")
    /\ stored' = [stored EXCEPT ![k] = IF k # form.switch THEN "b"
                                       ELSE IF @ = "true" THEN "false" ELSE "true"]
    /\ UNCHANGED <<form, inputs, originInputs, fetched, reading, formLoading, dialogOpen,
                   jobs, touched, typedSince, hung>>

SettingsInit ==
    /\ form \in DefaultForms \cup AirForms \cup BerryForms
    /\ inputs = NothingLoaded /\ originInputs = Undefined
    /\ \E v \in {"a", "true", "false"} :
          (v = "a" <=> form.switch = Blank) /\ stored = [k \in Keys |-> v]
    /\ fetched = "asked" /\ reading = <<>>
    /\ formLoading = FALSE /\ dialogOpen = FALSE /\ hung = FALSE
    /\ jobs = [j \in Jobs |-> NoJob]
    /\ touched = {} /\ typedSince = {} /\ upset = FALSE /\ edits = 0
    /\ entered = {<<k, "a">> : k \in Hidden \cap Keys}

SettingsNext ==
    \/ ServerReads \/ getOptions \/ OptionsLost
    \/ \E k \in form.fields, v \in Texts : handleInputChange(k, v)
    \/ submit \/ submitOidc \/ toggle \/ PasswordWarning
    \/ \E j \in Jobs, found \in BOOLEAN : Discovered(j, found)
    \/ \E j \in Jobs : UpdateOption(j) \/ OptionAnswered(j) \/ PutLost(j)
    \/ \E k \in Keys : OtherAdministrator(k)

SettingsSpec == SettingsInit /\ [][SettingsNext]_settingVars

(***************************************************************************)
(* Properties                                                               *)
(***************************************************************************)
\* The types; what was loaded never holds a token or a secret.
SettingsTypeOK ==
    /\ form \in DefaultForms \cup AirForms \cup BerryForms
    /\ inputs \in [Keys -> Texts \cup {None, "true", "false"}]
    /\ originInputs \in [Keys -> Texts \cup {None, "true", "false"}]
    /\ stored \in [Keys -> Texts \cup {"true", "false"}]
    /\ fetched \in {"asked", "read", "loaded", "lost"}
    /\ {formLoading, dialogOpen, upset, hung} \subseteq BOOLEAN
    /\ touched \subseteq Keys /\ typedSince \subseteq touched
    /\ \A k \in Hidden \cap Keys : originInputs[k] = None
    /\ edits \in 0..MaxEdits

\* What the page would still send has been stored: after a submit that nothing disturbed,
\* an option that the administrator changed, and that the page still takes for changed,
\* has the value that is shown.  (A value set back to what was loaded is not sent again.)
ShownIsStored ==
    UnderWay = {} /\ fetched = "loaded" /\ ~upset =>
        /\ LET calls == Calls(inputs, originInputs) IN
           \A i \in DOMAIN calls :
              LET k == calls[i].key IN
              k \in touched \ typedSince =>
                 stored[k] = IF k \in SentAsTyped[form.theme] THEN inputs[k]
                             ELSE calls[i].value
        /\ form.switch # Blank => inputs[form.switch] = stored[form.switch]

\* A token or a secret that the page was not given is, at all times, one that the server
\* had at first or that an administrator typed: no click, before the options were loaded or
\* after a field was typed and cleared, and no answer that comes late stores anything else
\* for it, a blank least of all.  The exemption is the field that air sends at every
\* keystroke, which is blanked where the administrator clears it.
SecretsKept ==
    \A k \in Hidden \cap Keys :
       /\ <<k, stored[k]>> \in entered
       /\ stored[k] = Blank => k \in SentAsTyped[form.theme]

\* A submit of a loaded page sends nothing that the administrator left alone, so that it
\* does not undo what another administrator stored since.
OnlyTouchedAreSent ==
    \A j \in Sending : ~jobs[j].early =>
        \A i \in DOMAIN jobs[j].todo :
           \/ jobs[j].todo[i].key \in touched
           \/ \E n \in DOMAIN form.submit : form.submit[n] = Always(jobs[j].todo[i].key)

\* The page is locked only while a PUT is under way or after one was lost; where the
\* whole form is covered, it is locked for as long as its submit is under way.
SettingsLocked ==
    /\ formLoading => Sending # {} \/ hung
    /\ Overlay(form.theme) /\ Sending # {} => formLoading

\* What the page shows, sends and locks agrees with what is stored and under way.
SettingsAreTrue == ShownIsStored /\ OnlyTouchedAreSent /\ SettingsLocked
=============================================================================
